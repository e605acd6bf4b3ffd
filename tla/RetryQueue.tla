----------------------------- MODULE RetryQueue -----------------------------
(***************************************************************************)
(* The retry queue (src/internal/retryqueue/queue.go) with the two         *)
(* consumers that report to it, the processor                              *)
(* (src/internal/processor/processor.go) and the enrich indexer            *)
(* (src/internal/processor/enrich/indexer/consumer.go), and the rows all   *)
(* of them share.                                                          *)
(*                                                                         *)
(* An entry has the number of failures, whether dispatched_at is set and   *)
(* whether next_retry_at has passed; and, for the properties, how often it *)
(* was dispatched since it was inserted, and how many of these nothing can *)
(* have counted.  A message is about one torrent.  A consumer takes one    *)
(* message at a time, and a message stays in the queue until it is         *)
(* acknowledged.                                                           *)
(***************************************************************************)
EXTENDS Integers

CONSTANTS Torrents,
          MaxRetries,       \* negative: retry for ever
          MaxTroubles       \* bound: failures of the store, lost messages, restarts,
                            \*   RetryNow and Clear, messages about a torrent that
                            \*   is already there, torrents found again, switches of
                            \*   the search backend

ASSUME RetryAssumption ==
    /\ MaxRetries \in Int
    /\ MaxTroubles \in Nat

Stages == {"classify", "enrich"}
Keys == Torrents \X Stages
Procs == Stages \cup {"scheduler"}

VARIABLES
    row,        \* of the torrents table: absent, new or classified
    entry,      \* of torrent_retry_queue, NoEntry when there is none
    pending,    \* messages in the queues that are not acknowledged
    recent,     \* recentlyClassified
    found,      \* torrents that the crawler has found
    elastic,    \* the search backend is elasticsearch
    pc, at,     \* where a consumer or the scheduler is, and about which torrent
    listed,     \* rows that dispatchDue has listed and not yet come to
    item,       \* the row it is at
    lost,       \* torrents the failures left without message and entry
    troubles    \* that the bound has left

procVars == <<pc, at, listed, item>>
memory == <<recent, found, elastic>>
vars == <<row, entry, pending, memory, procVars, lost, troubles>>

NoEntry == [fail |-> 0, leased |-> FALSE, due |-> FALSE, sent |-> 0, uncounted |-> 0]
Exists(k) == entry[k].fail > 0
Written(e, fail, leased, due, more) ==
    [fail |-> fail, leased |-> leased, due |-> due,
     sent |-> e.sent, uncounted |-> e.uncounted + more]
NoItem == [key |-> <<>>, fail |-> 0]

Init ==
    /\ row = [h \in Torrents |-> "absent"]
    /\ entry = [k \in Keys |-> NoEntry]
    /\ pending = [k \in Keys |-> 0]
    /\ recent = [h \in Torrents |-> FALSE]
    /\ found = [h \in Torrents |-> FALSE]
    /\ elastic \in BOOLEAN
    /\ pc = [p \in Procs |-> "idle"]
    /\ at \in [Procs -> Torrents]
    /\ listed = {}
    /\ item = NoItem
    /\ lost = {}
    /\ troubles = MaxTroubles

Goto(p, place) == pc' = [pc EXCEPT ![p] = place]
Trouble ==
    /\ troubles > 0
    /\ troubles' = troubles - 1
Works == UNCHANGED troubles

Send(k) == pending' = [pending EXCEPT ![k] = @ + 1]

----------------------------------------------------------------------------
(* Messages from outside *)

\* The crawler finds a hash that has no row; the row is written and a message published.
\* That happens again when a stage of its pipeline gets a message twice, and when a
\* restart has emptied the crawler's filter; the bound counts both.
Discover(h) ==
    /\ row[h] = "absent"
    /\ IF found[h] THEN Trouble ELSE Works
    /\ found' = [found EXCEPT ![h] = TRUE]
    /\ row' = [row EXCEPT ![h] = "new"]
    /\ Send(<<h, "classify">>)
    /\ UNCHANGED <<entry, recent, elastic, procVars, lost>>

\* The seeders of a torrent have been stored.
Rescrape(h) ==
    /\ row[h] # "absent"
    /\ Trouble
    /\ Send(<<h, "classify">>)
    /\ UNCHANGED <<row, entry, memory, procVars, lost>>

\* The queue loses a message, or discards it after too many attempts.
LoseMessage(k) ==
    /\ pending[k] > 0
    /\ pc[k[2]] # "idle" => at[k[2]] # k[1]
    /\ Trouble
    /\ pending' = [pending EXCEPT ![k] = @ - 1]
    /\ lost' = lost \cup {k[1]}
    /\ UNCHANGED <<row, entry, memory, procVars>>

\* Three minutes have passed.
Forget(h) ==
    /\ recent[h]
    /\ recent' = [recent EXCEPT ![h] = FALSE]
    /\ UNCHANGED <<row, entry, pending, found, elastic, procVars, lost, troubles>>

SwitchBackend ==
    /\ Trouble
    /\ elastic' = ~elastic
    /\ UNCHANGED <<row, entry, pending, recent, found, procVars, lost>>

----------------------------------------------------------------------------
(* A consumer and its message *)

Take(s, h) ==
    /\ pc[s] = "idle"
    /\ pending[<<h, s>>] > 0
    /\ Goto(s, "handle")
    /\ at' = [at EXCEPT ![s] = h]
    /\ UNCHANGED <<row, entry, pending, memory, listed, item, lost, troubles>>

EarlyAck(s) ==
    /\ pc[s] # "idle"
    /\ pending' = [pending EXCEPT ![<<at[s], s>>] = @ - 1]
    /\ Goto(s, IF pc[s] = "done" THEN "idle" ELSE "done")
    /\ UNCHANGED <<row, entry, memory, at, listed, item, lost, troubles>>

Ack(s) ==
    /\ pc[s] = "done"
    /\ pending' = [pending EXCEPT ![<<at[s], s>>] = @ - 1]
    /\ Goto(s, "idle")
    /\ UNCHANGED <<row, entry, memory, at, listed, item, lost, troubles>>

\* The handler returns an error: the message is delivered again.
Return(s) == Goto(s, "idle") /\ UNCHANGED <<at, listed, item>>

----------------------------------------------------------------------------
(* The processor *)

Classifying == pc["classify"] = "handle"
Torrent == at["classify"]

FetchFailsAcked ==
    /\ Classifying
    /\ Trouble
    /\ Goto("classify", "done")
    /\ UNCHANGED <<row, entry, pending, memory, at, listed, item, lost>>

FetchFails ==
    /\ Classifying
    /\ Trouble
    /\ Return("classify")
    /\ UNCHANGED <<row, entry, pending, memory, lost>>

\* The row is gone, or the torrent was classified, perhaps in vain, a moment ago.
Skip ==
    /\ Classifying
    /\ row[Torrent] = "absent" \/ recent[Torrent]
    /\ Goto("classify", "done")
    /\ UNCHANGED <<row, entry, pending, memory, at, listed, item, lost, troubles>>

Unskipped == Classifying /\ row[Torrent] # "absent" /\ ~recent[Torrent]

\* The torrent filter wants it gone; an entry that it has stays.
Filter ==
    /\ Unskipped
    /\ \/ row' = [row EXCEPT ![Torrent] = "absent"] /\ Works /\ UNCHANGED lost
       \/ UNCHANGED row /\ Trouble /\ lost' = lost \cup {Torrent}
    /\ Goto("classify", "done")
    /\ UNCHANGED <<entry, pending, memory, at, listed, item>>

\* The torrent is marked before the classifier runs, and stays marked if it fails.
Classify(succeeds) ==
    /\ Unskipped
    /\ recent' = [recent EXCEPT ![Torrent] = TRUE]
    /\ Goto("classify", IF succeeds THEN "persist" ELSE "upsert")
    /\ UNCHANGED <<row, entry, pending, found, elastic, at, listed, item, lost, troubles>>

\* The panic is recovered and leaves neither a result nor a failure.
ClassifierPanics ==
    /\ Unskipped
    /\ Trouble
    /\ recent' = [recent EXCEPT ![Torrent] = TRUE]
    /\ lost' = lost \cup {Torrent}
    /\ Goto("classify", "done")
    /\ UNCHANGED <<row, entry, pending, found, elastic, at, listed, item>>

\* UpdateTorrentContent updates no row when the torrent has been deleted meanwhile.
Persist ==
    /\ pc["classify"] = "persist"
    /\ row' = [row EXCEPT ![Torrent] = IF @ = "absent" THEN @ ELSE "classified"]
    /\ Goto("classify", "remove")
    /\ UNCHANGED <<entry, pending, memory, at, listed, item, lost, troubles>>

\* The message is delivered again, but within three minutes it is skipped.
PersistFails ==
    /\ pc["classify"] = "persist"
    /\ Trouble
    /\ Return("classify")
    /\ lost' = lost \cup {Torrent}
    /\ UNCHANGED <<row, entry, pending, memory>>

Publish ==
    /\ pc["classify"] = "publish"
    /\ Send(<<Torrent, "enrich">>)
    /\ Goto("classify", "done")
    /\ UNCHANGED <<row, entry, memory, at, listed, item, lost, troubles>>

----------------------------------------------------------------------------
(* The enrich indexer *)

Index(succeeds) ==
    /\ pc["enrich"] = "handle"
    /\ elastic
    /\ succeeds => row[at["enrich"]] # "absent"
    /\ Goto("enrich", IF succeeds THEN "remove" ELSE "upsert")
    /\ UNCHANGED <<row, entry, pending, memory, at, listed, item, lost, troubles>>

\* With the other backend the message is acknowledged and reports nothing.
Unindexed ==
    /\ pc["enrich"] = "handle"
    /\ ~elastic
    /\ Goto("enrich", "done")
    /\ UNCHANGED <<row, entry, pending, memory, at, listed, item, lost, troubles>>

----------------------------------------------------------------------------
(* EnqueueBatch and Remove *)

InBudget(fail) == MaxRetries < 0 \/ fail <= MaxRetries

\* UpsertTorrentRetryBatch; a new entry is due until the backoff is stored.
Upsert(s) ==
    LET k == <<at[s], s>> IN
    /\ pc[s] = "upsert"
    /\ entry' = [entry EXCEPT ![k] = Written(@, @.fail + 1, FALSE, ~Exists(k) \/ @.due, 0)]
    /\ Goto(s, IF InBudget(entry[k].fail + 1) THEN "backoff" ELSE "deleteTorrent")
    /\ UNCHANGED <<row, pending, memory, at, listed, item, lost, troubles>>

\* The error is logged and the message acknowledged.
UpsertFails(s) ==
    /\ pc[s] = "upsert"
    /\ Trouble
    /\ lost' = lost \cup {at[s]}
    /\ Goto(s, "done")
    /\ UNCHANGED <<row, entry, pending, memory, at, listed, item>>

Backoff(s) ==
    LET k == <<at[s], s>> IN
    /\ pc[s] = "backoff"
    /\ \/ entry' = (IF Exists(k) THEN [entry EXCEPT ![k].due = FALSE] ELSE entry) /\ Works
       \/ UNCHANGED entry /\ Trouble
    /\ Goto(s, "done")
    /\ UNCHANGED <<row, pending, memory, at, listed, item, lost>>

\* DeleteTorrentRetry deletes the entries of both stages.
DropClassify(h) == entry' = [entry EXCEPT ![<<h, "classify">>] = NoEntry]
DropEntries(h) == entry' = [k \in Keys |-> IF k[1] = h THEN NoEntry ELSE entry[k]]

Remove(s) ==
    /\ pc[s] = "remove"
    /\ \/ DropEntries(at[s]) /\ Works
       \/ UNCHANGED entry /\ Trouble
    /\ lost' = IF s = "enrich" /\ row[at[s]] = "new" THEN lost \cup {at[s]} ELSE lost
    /\ Goto(s, IF s = "classify" THEN "publish" ELSE "done")
    /\ UNCHANGED <<row, pending, memory, at, listed, item>>

----------------------------------------------------------------------------
(* evict, of a consumer or of the scheduler *)

\* A torrent that is found again within three minutes of its last classification is
\* skipped, without a message or an entry.
EvictTorrent(p) ==
    /\ pc[p] = "deleteTorrent"
    /\ \/ row' = [row EXCEPT ![at[p]] = "absent"] /\ Works
       \/ UNCHANGED row /\ Trouble
    /\ lost' = IF recent[at[p]] \/ row'[at[p]] # "absent" THEN lost \cup {at[p]} ELSE lost
    /\ Goto(p, "deleteEntry")
    /\ UNCHANGED <<entry, pending, memory, at, listed, item>>

EvictEntry(p) ==
    /\ pc[p] = "deleteEntry"
    /\ \/ DropEntries(at[p]) /\ Works
       \/ UNCHANGED entry /\ Trouble
    /\ lost' = IF row[at[p]] = "new" THEN lost \cup {at[p]} ELSE lost
    /\ Goto(p, IF p = "scheduler" THEN "scan" ELSE "done")
    /\ UNCHANGED <<row, pending, memory, at, listed, item>>

----------------------------------------------------------------------------
(* dispatchDue *)

\* A lease that has expired counts as a failure.
RowCount(e) == e.fail
FailCount(e) == IF e.leased THEN e.fail + 1 ELSE e.fail

ListDue ==
    /\ pc["scheduler"] = "idle"
    /\ \E k \in Keys : Exists(k) /\ entry[k].due
    /\ listed' = {[key |-> k, fail |-> FailCount(entry[k])] :
                     k \in {x \in Keys : Exists(x) /\ entry[x].due}}
    /\ Goto("scheduler", "scan")
    /\ UNCHANGED <<row, entry, pending, memory, at, item, lost, troubles>>

ToItem(i) ==
    /\ pc["scheduler"] = "scan"
    /\ i \in listed
    /\ listed' = listed \ {i}
    /\ at' = [at EXCEPT !["scheduler"] = i.key[1]]

\* Over the budget.
Expire(i) ==
    /\ ToItem(i)
    /\ ~InBudget(i.fail)
    /\ Goto("scheduler", "deleteTorrent")
    /\ UNCHANGED <<row, entry, pending, memory, item, lost, troubles>>

Dispatch(i) ==
    /\ ToItem(i)
    /\ InBudget(i.fail)
    /\ item' = i
    /\ Send(i.key)
    /\ entry' = [entry EXCEPT ![i.key].sent = IF Exists(i.key) THEN @ + 1 ELSE @]
    /\ Goto("scheduler", "mark")
    /\ UNCHANGED <<row, memory, lost, troubles>>

NextItem ==
    /\ Goto("scheduler", "scan")
    /\ item' = NoItem
    /\ UNCHANGED <<at, listed>>

\* MarkTorrentRetryDispatched writes the count of the listing, whatever the entry has now.
Mark ==
    /\ pc["scheduler"] = "mark"
    /\ entry' = IF Exists(item.key)
                THEN [entry EXCEPT ![item.key] = Written(@, item.fail, TRUE, FALSE, 0)]
                ELSE entry
    /\ NextItem
    /\ UNCHANGED <<row, pending, memory, lost, troubles>>

Uncounted(k) == entry' = [entry EXCEPT ![k].uncounted = IF Exists(k) THEN @ + 1 ELSE @]

MarkFails ==
    /\ pc["scheduler"] = "mark"
    /\ Trouble
    /\ Uncounted(item.key)
    /\ NextItem
    /\ UNCHANGED <<row, pending, memory, lost>>

EndScan ==
    /\ pc["scheduler"] = "scan"
    /\ listed = {}
    /\ Goto("scheduler", "idle")
    /\ UNCHANGED <<row, entry, pending, memory, at, listed, item, lost, troubles>>

\* A backoff or a lease is over.
TimePasses(k) ==
    /\ Exists(k) /\ ~entry[k].due
    /\ entry' = [entry EXCEPT ![k].due = TRUE]
    /\ UNCHANGED <<row, pending, memory, procVars, lost, troubles>>

----------------------------------------------------------------------------
(* The operator, and restarts *)

\* RetryNow.
Touch(h) ==
    /\ \E s \in Stages : Exists(<<h, s>>)
    /\ Trouble
    /\ entry' = [k \in Keys |-> IF k[1] = h /\ Exists(k)
                                THEN Written(entry[k], entry[k].fail, FALSE, TRUE, 1)
                                ELSE entry[k]]
    /\ UNCHANGED <<row, pending, memory, procVars, lost>>

Clear ==
    /\ \E k \in Keys : Exists(k)
    /\ Trouble
    /\ entry' = [k \in Keys |-> NoEntry]
    /\ lost' = Torrents
    /\ UNCHANGED <<row, pending, memory, procVars>>

\* What is in memory is lost; a row that was dispatched has not been marked.
Crash ==
    /\ Trouble
    /\ pc' = [p \in Procs |-> "idle"]
    /\ listed' = {}
    /\ item' = NoItem
    /\ recent' = [h \in Torrents |-> FALSE]
    /\ IF pc["scheduler"] = "mark" THEN Uncounted(item.key) ELSE UNCHANGED entry
    /\ UNCHANGED <<row, pending, found, elastic, at, lost>>

----------------------------------------------------------------------------
ConsumerStep(s) ==
    \/ \E h \in Torrents : Take(s, h)
    \/ Ack(s) \/ Upsert(s) \/ UpsertFails(s) \/ Backoff(s) \/ Remove(s)
    \/ EvictTorrent(s) \/ EvictEntry(s)
ProcessorStep ==
    \/ ConsumerStep("classify")
    \/ FetchFails \/ Skip \/ Filter \/ ClassifierPanics \/ Persist \/ PersistFails
    \/ Publish
    \/ \E succeeds \in BOOLEAN : Classify(succeeds)
IndexerStep ==
    \/ ConsumerStep("enrich")
    \/ Unindexed
    \/ \E succeeds \in BOOLEAN : Index(succeeds)
SchedulerStep ==
    \/ ListDue \/ Mark \/ MarkFails \/ EndScan
    \/ \E i \in listed : Expire(i) \/ Dispatch(i)
    \/ EvictTorrent("scheduler") \/ EvictEntry("scheduler")

Next ==
    \/ ProcessorStep \/ IndexerStep \/ SchedulerStep
    \/ \E h \in Torrents : Discover(h) \/ Rescrape(h) \/ Forget(h) \/ Touch(h)
    \/ \E k \in Keys : LoseMessage(k) \/ TimePasses(k)
    \/ SwitchBackend \/ Clear \/ Crash

Spec == Init /\ [][Next]_vars

\* The consumers and the scheduler run, and time passes; nothing makes a handler succeed.
FairSpec ==
    /\ Spec
    /\ WF_vars(ProcessorStep) /\ WF_vars(IndexerStep) /\ WF_vars(SchedulerStep)
    /\ \A k \in Keys : WF_vars(TimePasses(k))

----------------------------------------------------------------------------
Entries == [fail : Nat, leased : BOOLEAN, due : BOOLEAN, sent : Nat, uncounted : Nat]
Items == [key : Keys, fail : Nat]

\* Type invariant of the rows, the queues and the goroutines.
TypeOK ==
    /\ row \in [Torrents -> {"absent", "new", "classified"}]
    /\ entry \in [Keys -> Entries]
    /\ pending \in [Keys -> Nat]
    /\ recent \in [Torrents -> BOOLEAN] /\ found \in [Torrents -> BOOLEAN]
    /\ elastic \in BOOLEAN
    /\ pc \in [Procs -> {"idle", "handle", "persist", "upsert", "backoff", "remove",
                         "publish", "deleteTorrent", "deleteEntry", "done", "scan", "mark"}]
    /\ at \in [Procs -> Torrents]
    /\ listed \subseteq Items
    /\ item \in Items \cup {NoItem}
    /\ lost \subseteq Torrents /\ troubles \in Nat

(***************************************************************************)
(* config.go:12: "MaxRetries is the maximum number of retry attempts per   *)
(* torrent before it gets deleted".  An entry is dispatched at most that   *)
(* often, though Mark may overwrite a failure reported since the listing,  *)
(* leases expire before the outcome comes, and new entries are due before  *)
(* their backoff is stored.  A dispatch whose mark failed, and an          *)
(* operator's RetryNow, come on top.                                       *)
(***************************************************************************)
DispatchBudget ==
    MaxRetries >= 0 =>
        \A k \in Keys : entry[k].sent <= MaxRetries + entry[k].uncounted

(***************************************************************************)
(* A torrent that was never classified has a message or an entry.  The     *)
(* exceptions are all there is: a failure of the store or of the queue, or *)
(* a panic of the classifier, lost it; an operator cleared the entries; it *)
(* was evicted within three minutes of a classification and found again;   *)
(* or a late report on its earlier life deleted its new entry.             *)
(***************************************************************************)
NothingForgotten ==
    \A h \in Torrents :
        row[h] = "new" => \/ pending[<<h, "classify">>] > 0
                          \/ Exists(<<h, "classify">>)
                          \/ h \in lost

(***************************************************************************)
(* queue.go:276: an entry whose outcome is never reported is counted as    *)
(* failed, so every entry leaves the queue in the end: the torrent is      *)
(* handled or deleted, whatever the handlers do and whatever is lost.      *)
(***************************************************************************)
EntriesSettle == \A k \in Keys : Exists(k) ~> ~Exists(k)
=============================================================================
