-------------------------- MODULE RetryQueueProofs --------------------------
(***************************************************************************)
(* For every set of torrents, every budget of retries and every number of  *)
(* troubles: the variables have their types, an entry is dispatched at     *)
(* most MaxRetries times, plus the times that nothing can have counted,    *)
(* and no torrent that is not classified is left without a message or an   *)
(* entry, but for those that are counted as lost.                          *)
(***************************************************************************)
EXTENDS RetryQueue, TLAPS

AtMark == pc["scheduler"] = "mark"
Marking(k) == AtMark /\ item.key = k

\* Entries that do not exist have nothing; the others have counted their dispatches, but
\* for the one that the scheduler is about to mark.
Absent == \A k \in Keys : ~Exists(k) => entry[k] = NoEntry
Counted ==
    \A k \in Keys :
        Exists(k) => entry[k].sent + (IF Marking(k) THEN 0 ELSE 1)
                        <= FailCount(entry[k]) + entry[k].uncounted

\* What was listed still covers the dispatches, whatever was reported since.
ListedCovers ==
    \A i \in listed : i.fail >= 1 /\ entry[i.key].sent + 1 <= i.fail + entry[i.key].uncounted
ListedOnce == \A i, j \in listed : i.key = j.key => i = j
MarkCovers ==
    AtMark => /\ item \in Items
              /\ item.fail >= 1
              /\ entry[item.key].sent <= item.fail + entry[item.key].uncounted
              /\ \A i \in listed : i.key # item.key
Budgets == Absent /\ Counted /\ ListedCovers /\ ListedOnce /\ MarkCovers /\ DispatchBudget

\* A consumer at work has a message that is not acknowledged.
Held == \A s \in Stages : pc[s] # "idle" => pending[<<at[s], s>>] > 0

IInv == TypeOK /\ Held /\ Budgets

\* What the types say of an entry.
LEMMA EntryTypes ==
    TypeOK => /\ \A k \in Keys : /\ entry[k] \in Entries
                                 /\ entry[k].fail \in Nat /\ entry[k].leased \in BOOLEAN
                                 /\ entry[k].due \in BOOLEAN
                                 /\ entry[k].sent \in Nat /\ entry[k].uncounted \in Nat
              /\ \A i \in listed : i.key \in Keys /\ i.fail \in Nat
              /\ \A k \in Keys : pending[k] \in Nat
BY DEF TypeOK, Entries, Items

\* Entries of which one field is replaced, and what the operator makes of them.
LEMMA EntryReplaced ==
    ASSUME NEW e \in Entries
    PROVE  /\ [e EXCEPT !.due = TRUE] \in Entries
           /\ [e EXCEPT !.uncounted = @ + 1] \in Entries
           /\ Written(e, e.fail, FALSE, TRUE, 1) \in Entries
<1>1. [e EXCEPT !.due = TRUE] \in Entries BY ZenonT(60) DEF Entries
<1>2. [e EXCEPT !.uncounted = @ + 1] \in Entries BY SMTT(60) DEF Entries
<1>3. Written(e, e.fail, FALSE, TRUE, 1) \in Entries
  BY DEF Entries, Written
<1> QED BY <1>1, <1>2, <1>3

\* Initially the invariant holds.
LEMMA InvInit == Init => IInv
<1> SUFFICES ASSUME Init PROVE IInv OBVIOUS
<1>1. \A k \in Keys : entry[k] = NoEntry
  BY DEF Init
<1>2. TypeOK
  BY RetryAssumption
     DEF Init, TypeOK, Entries, NoEntry, NoItem, Procs, Stages, Items
<1>3. Budgets
  BY <1>1, RetryAssumption
     DEF Init, Budgets, Absent, Counted, ListedCovers, ListedOnce, MarkCovers, DispatchBudget,
         Exists, NoEntry, AtMark, Procs, Stages
<1>4. Held
  BY DEF Init, Held, Stages, Procs
<1> QED BY <1>2, <1>3, <1>4 DEF IInv

\* What a step other than the scheduler's own may do to an entry.
Keeps(k) ==
    \/ entry'[k] = entry[k]
    \/ entry'[k] = NoEntry
    \/ /\ entry'[k].fail > 0
       /\ entry'[k].sent = entry[k].sent
       /\ entry'[k].uncounted >= entry[k].uncounted
       /\ FailCount(entry[k]) + entry[k].uncounted
            <= FailCount(entry'[k]) + entry'[k].uncounted

\* It keeps the budgets.
LEMMA KeepsBudgets ==
    ASSUME IInv, TypeOK', UNCHANGED <<listed, item>>, AtMark' <=> AtMark,
           \A k \in Keys : Keeps(k)
    PROVE  Budgets'
<1> USE DEF IInv, Budgets
<1> DEFINE Fine(k) == entry[k].sent + (IF Marking(k) THEN 0 ELSE 1)
                        <= FailCount(entry[k]) + entry[k].uncounted
<1>0. \A k \in Keys : /\ entry[k].fail \in Nat /\ entry[k].leased \in BOOLEAN
                      /\ entry[k].sent \in Nat /\ entry[k].uncounted \in Nat
                      /\ entry'[k].fail \in Nat /\ entry'[k].leased \in BOOLEAN
                      /\ entry'[k].sent \in Nat /\ entry'[k].uncounted \in Nat
  BY DEF TypeOK, Entries
<1>1. Absent'
  BY <1>0 DEF Absent, Exists, Keeps
<1>2. Counted'
  <2> SUFFICES ASSUME NEW k \in Keys, Exists(k)' PROVE Fine(k)' BY DEF Counted
  <2>0. Marking(k)' <=> Marking(k) BY DEF Marking
  <2>1. CASE Exists(k)
    <3>1. Fine(k) BY <2>1 DEF Counted
    <3> QED BY <1>0, <2>0, <2>1, <3>1 DEF Keeps, Exists, NoEntry, FailCount
  <2>2. CASE ~Exists(k)
    <3>1. entry[k] = NoEntry BY <2>2 DEF Absent
    <3> QED BY <1>0, <2>0, <2>2, <3>1 DEF Keeps, Exists, NoEntry, FailCount
  <2> QED BY <2>1, <2>2
<1>3. \A k \in Keys : \/ entry'[k].sent = 0 /\ entry'[k].uncounted = 0
                      \/ /\ entry'[k].sent = entry[k].sent
                         /\ entry'[k].uncounted >= entry[k].uncounted
  <2> SUFFICES ASSUME NEW k \in Keys
               PROVE  \/ entry'[k].sent = 0 /\ entry'[k].uncounted = 0
                      \/ /\ entry'[k].sent = entry[k].sent
                         /\ entry'[k].uncounted >= entry[k].uncounted
    OBVIOUS
  <2> QED BY <1>0, Keeps(k) DEF Keeps, NoEntry
<1>4. ListedCovers'
  <2> SUFFICES ASSUME NEW i \in listed
               PROVE  /\ i.fail >= 1
                      /\ entry'[i.key].sent + 1 <= i.fail + entry'[i.key].uncounted
    BY DEF ListedCovers
  <2>1. i.key \in Keys /\ i.fail \in Nat BY EntryTypes
  <2> QED BY <1>0, <1>3, <2>1 DEF ListedCovers
<1>5. ListedOnce'
  BY DEF ListedOnce
<1>6. MarkCovers'
  BY <1>0, <1>3 DEF MarkCovers, Items
<1>7. DispatchBudget'
  BY <1>0, <1>3, RetryAssumption DEF DispatchBudget
<1> QED BY <1>1, <1>2, <1>4, <1>5, <1>6, <1>7

\* A step that changes no entry keeps the budgets, if it is not the scheduler's.
LEMMA FrameBudgets ==
    ASSUME IInv, TypeOK', UNCHANGED <<entry, listed, item>>, AtMark' <=> AtMark
    PROVE  Budgets'
BY KeepsBudgets DEF Keeps

\* Messages come, are lost, and the world changes.
OutsideStep ==
    \/ \E h \in Torrents : Discover(h) \/ Rescrape(h) \/ Forget(h)
    \/ \E k \in Keys : LoseMessage(k)
    \/ SwitchBackend

\* They keep the types, and the messages of the consumers at work.
LEMMA OutsideTypes == ASSUME TypeOK, Held, OutsideStep PROVE TypeOK' /\ Held'
<1> USE DEF TypeOK, Held, Send, Trouble, Works, procVars, memory, Keys, Stages, Procs
<1>1. ASSUME NEW h \in Torrents, Discover(h) PROVE TypeOK' /\ Held'
  BY <1>1 DEF Discover
<1>2. ASSUME NEW h \in Torrents, Rescrape(h) PROVE TypeOK' /\ Held'
  BY <1>2 DEF Rescrape
<1>3. ASSUME NEW h \in Torrents, Forget(h) PROVE TypeOK' /\ Held'
  BY <1>3 DEF Forget
<1>4. ASSUME NEW k \in Keys, LoseMessage(k) PROVE TypeOK' /\ Held'
  BY <1>4 DEF LoseMessage
<1>5. CASE SwitchBackend
  BY <1>5 DEF SwitchBackend
<1> QED BY <1>1, <1>2, <1>3, <1>4, <1>5 DEF OutsideStep

\* An entry stays one when it is no longer due.
LEMMA SetDue == ASSUME NEW e \in Entries PROVE [e EXCEPT !.due = FALSE] \in Entries
BY DEF Entries

\* So do the steps of the consumers.
LEMMA ConsumerTypes ==
    ASSUME TypeOK, Held, NEW s \in Stages, ConsumerStep(s) PROVE TypeOK' /\ Held'
<1> DEFINE k == <<at[s], s>>
<1>a. /\ s \in Procs /\ at[s] \in Torrents /\ k \in Keys
      /\ entry[k].fail \in Nat /\ Exists(k) \in BOOLEAN
      /\ entry \in [Keys -> Entries] /\ pending[k] \in Nat
  BY EntryTypes DEF TypeOK, Procs, Keys, Exists
<1>b. ASSUME NEW h \in Torrents, DropEntries(h) PROVE entry' \in [Keys -> Entries]
  BY <1>a, <1>b DEF DropEntries, Entries, NoEntry
<1> USE DEF TypeOK, Held, Trouble, Works, memory, Stages, Procs, Goto
<1>1. ASSUME NEW h \in Torrents, Take(s, h) PROVE TypeOK' /\ Held'
  BY <1>1 DEF Take
<1>2. CASE Ack(s)
  <2>1. pending[k] > 0 BY <1>2 DEF Ack
  <2>2. pending' \in [Keys -> Nat] BY <1>a, <1>2, <2>1 DEF Ack
  <2>3. Held'
    <3> SUFFICES ASSUME NEW t \in Stages, pc'[t] # "idle" PROVE pending'[<<at'[t], t>>] > 0
      OBVIOUS
    <3>1. t # s BY <1>2 DEF Ack
    <3>2. <<at[t], t>> \in Keys /\ <<at[t], t>> # k BY <3>1 DEF Keys
    <3> QED BY <1>2, <3>1, <3>2 DEF Ack
  <2> QED BY <1>2, <2>2, <2>3 DEF Ack
<1>3. CASE Upsert(s)
  <2> DEFINE due == ~Exists(k) \/ entry[k].due
  <2>1. due \in BOOLEAN BY Zenon
  <2>2. entry' = [entry EXCEPT ![k] = Written(entry[k], entry[k].fail + 1, FALSE, due, 0)]
    BY <1>3 DEF Upsert
  <2> HIDE DEF due
  <2>3. Written(entry[k], entry[k].fail + 1, FALSE, due, 0) \in Entries
    BY <1>a, <2>1 DEF Entries, Written
  <2>4. entry' \in [Keys -> Entries] BY <1>a, <2>2, <2>3
  <2>5. pc' \in [Procs -> {"idle", "handle", "persist", "upsert", "backoff", "remove",
                           "publish", "deleteTorrent", "deleteEntry", "done", "scan", "mark"}]
    BY <1>3 DEF Upsert
  <2> QED BY <1>3, <2>4, <2>5 DEF Upsert
<1>4. CASE UpsertFails(s)
  BY <1>4 DEF UpsertFails
<1>5. CASE Backoff(s)
  <2>a. [entry[k] EXCEPT !.due = FALSE] \in Entries 
    <3>1. entry[k] \in Entries BY <1>a
    <3> QED BY <3>1, SetDue
  <2>1. entry' \in [Keys -> Entries] BY <1>a, <1>5, <2>a DEF Backoff
  <2> QED BY <1>5, <2>1 DEF Backoff
<1>6. CASE Remove(s)
  <2>1. entry' \in [Keys -> Entries] BY <1>a, <1>b, <1>6 DEF Remove
  <2>2. lost' \subseteq Torrents BY <1>a, <1>6 DEF Remove
  <2> QED BY <1>6, <2>1, <2>2 DEF Remove
<1>7. CASE EvictTorrent(s)
  BY <1>7 DEF EvictTorrent
<1>8. CASE EvictEntry(s)
  <2>1. entry' \in [Keys -> Entries] BY <1>a, <1>b, <1>8 DEF EvictEntry
  <2>2. lost' \subseteq Torrents BY <1>a, <1>8 DEF EvictEntry
  <2> QED BY <1>8, <2>1, <2>2 DEF EvictEntry
<1> QED BY <1>1, <1>2, <1>3, <1>4, <1>5, <1>6, <1>7, <1>8 DEF ConsumerStep

\* The processor is one of them.
LEMMA ProcessorTypes == ASSUME TypeOK, Held, ProcessorStep PROVE TypeOK' /\ Held'
<1> USE DEF TypeOK, Held, Trouble, Works, memory, Keys, Stages, Procs, Goto, Send, Classifying,
            Unskipped, Torrent, Return
<1>1. CASE ConsumerStep("classify")
  BY <1>1, ConsumerTypes
<1>2. CASE FetchFails
  BY <1>2 DEF FetchFails
<1>3. CASE Skip
  BY <1>3 DEF Skip
<1>4. CASE Filter
  BY <1>4 DEF Filter
<1>5. CASE Persist
  BY <1>5 DEF Persist
<1>6. CASE PersistFails
  BY <1>6 DEF PersistFails
<1>7. CASE Publish
  BY <1>7 DEF Publish
<1>8. ASSUME NEW succeeds \in BOOLEAN, Classify(succeeds) PROVE TypeOK' /\ Held'
  BY <1>8 DEF Classify
<1>9. CASE ClassifierPanics
  BY <1>9 DEF ClassifierPanics
<1> QED BY <1>1, <1>2, <1>3, <1>4, <1>5, <1>6, <1>7, <1>8, <1>9 DEF ProcessorStep

\* The indexer is the other.
LEMMA IndexerTypes == ASSUME TypeOK, Held, IndexerStep PROVE TypeOK' /\ Held'
<1> USE DEF TypeOK, Held, memory, Keys, Stages, Procs, Goto
<1>1. CASE ConsumerStep("enrich")
  BY <1>1, ConsumerTypes
<1>2. CASE Unindexed
  BY <1>2 DEF Unindexed
<1>3. ASSUME NEW succeeds \in BOOLEAN, Index(succeeds) PROVE TypeOK' /\ Held'
  BY <1>3 DEF Index
<1> QED BY <1>1, <1>2, <1>3 DEF IndexerStep

\* The scheduler, what time does, the operator and a restart keep the types.
LEMMA SchedulerTypes == ASSUME TypeOK, Held, SchedulerStep PROVE TypeOK' /\ Held'
<1>a. entry \in [Keys -> Entries] /\ \A k \in Keys : /\ entry[k].fail \in Nat
                                                     /\ entry[k].uncounted \in Nat
                                                     /\ entry[k].sent \in Nat
  BY EntryTypes DEF TypeOK
<1>b. \A i \in listed : i \in Items /\ i.key \in Keys /\ i.key[1] \in Torrents
                        /\ i.fail \in Nat
  BY EntryTypes DEF TypeOK, Keys
<1>c. ASSUME NEW h \in Torrents, DropEntries(h) PROVE entry' \in [Keys -> Entries]
  BY <1>a, <1>c DEF DropEntries, Entries, NoEntry
<1>d. at["scheduler"] \in Torrents
  BY DEF TypeOK, Procs
<1> USE DEF TypeOK, Held, Trouble, Works, memory, Stages, Procs, Goto
<1>1. CASE ListDue
  <2>1. listed' \subseteq Items
    BY <1>1, <1>a DEF ListDue, FailCount, Items
  <2> QED BY <1>1, <2>1 DEF ListDue
<1>2. CASE Mark
  <2>1. CASE Exists(item.key) /\ item \in Items
    <3>1. Written(entry[item.key], item.fail, TRUE, FALSE, 0) \in Entries
      BY <1>a, <2>1 DEF Written, Entries, Items
    <3>2. entry' \in [Keys -> Entries] BY <1>2, <1>a, <2>1, <3>1 DEF Mark
    <3> QED BY <1>2, <3>2 DEF Mark, NextItem
  <2>2. CASE ~Exists(item.key)
    BY <1>2, <2>2 DEF Mark, NextItem
  <2>3. CASE item = NoItem /\ Exists(item.key)
    <3>1. \A k \in Keys : k # item.key BY <2>3 DEF NoItem, Keys
    <3>2. entry' \in [Keys -> Entries] BY <1>2, <1>a, <2>3, <3>1 DEF Mark
    <3> QED BY <1>2, <3>2 DEF Mark, NextItem
  <2> QED BY <2>1, <2>2, <2>3
<1>3. CASE MarkFails
  <2>1. ASSUME item.key \in Keys PROVE entry' \in [Keys -> Entries]
    <3> DEFINE k == item.key
    <3>1. entry' = [entry EXCEPT ![k].uncounted = IF Exists(k) THEN @ + 1 ELSE @]
      BY <1>3 DEF MarkFails, Uncounted
    <3>2. [entry[k] EXCEPT !.uncounted = IF Exists(k) THEN @ + 1 ELSE @] \in Entries
      BY <1>a, <2>1, EntryReplaced DEF Entries
    <3> QED BY <1>a, <2>1, <3>1, <3>2
  <2>2. ASSUME item.key \notin Keys PROVE entry' \in [Keys -> Entries]
    BY <1>3, <1>a, <2>2 DEF MarkFails, Uncounted
  <2>3. entry' \in [Keys -> Entries] BY <2>1, <2>2
  <2> QED BY <1>3, <2>3 DEF MarkFails, NextItem
<1>4. CASE EndScan
  BY <1>4 DEF EndScan
<1>5. ASSUME NEW i \in listed, Expire(i) PROVE TypeOK' /\ Held'
  BY <1>5, <1>b DEF Expire, ToItem
<1>6. ASSUME NEW i \in listed, Dispatch(i) PROVE TypeOK' /\ Held'
  <2>1. entry' \in [Keys -> Entries] BY <1>6, <1>a, <1>b DEF Dispatch, Entries
  <2> QED BY <1>6, <1>b, <2>1 DEF Dispatch, ToItem, Send, Keys
<1>7. CASE EvictTorrent("scheduler")
  BY <1>7, <1>d DEF EvictTorrent
<1>8. CASE EvictEntry("scheduler")
  <2>1. entry' \in [Keys -> Entries] BY <1>c, <1>d, <1>8 DEF EvictEntry
  <2> QED BY <1>d, <1>8, <2>1 DEF EvictEntry
<1> QED BY <1>1, <1>2, <1>3, <1>4, <1>5, <1>6, <1>7, <1>8 DEF SchedulerStep

\* The operator's commands, time and restarts.
LifeStep ==
    \/ \E h \in Torrents : Touch(h)
    \/ \E k \in Keys : TimePasses(k)
    \/ Clear \/ Crash

\* They keep the types.
LEMMA LifeTypes == ASSUME TypeOK, Held, LifeStep PROVE TypeOK' /\ Held'
<1>a. entry \in [Keys -> Entries] /\ \A k \in Keys : /\ entry[k].fail \in Nat
                                                     /\ entry[k].uncounted \in Nat
                                                     /\ entry[k].sent \in Nat
  BY EntryTypes DEF TypeOK
<1>b. \A k \in Keys : entry[k] \in Entries
  BY <1>a
<1> USE DEF TypeOK, Held, Trouble, memory, procVars, Stages, Procs
<1>1. ASSUME NEW h \in Torrents, Touch(h) PROVE TypeOK' /\ Held'
  <2>1. entry' \in [Keys -> Entries] BY <1>1, <1>b, EntryReplaced DEF Touch
  <2>2. UNCHANGED <<row, pending, memory, procVars, lost>> /\ troubles' \in Nat
    BY <1>1 DEF Touch
  <2> QED BY <2>1, <2>2
<1>2. ASSUME NEW k \in Keys, TimePasses(k) PROVE TypeOK' /\ Held'
  <2>1. entry' \in [Keys -> Entries] BY <1>2, <1>b, EntryReplaced DEF TimePasses
  <2> QED BY <1>2, <2>1 DEF TimePasses
<1>3. CASE Clear
  <2>1. entry' \in [Keys -> Entries] BY <1>3 DEF Clear, Entries, NoEntry
  <2> QED BY <1>3, <2>1 DEF Clear
<1>4. CASE Crash
  <2>1. entry' \in [Keys -> Entries] BY <1>4, <1>a DEF Crash, Uncounted, Entries
  <2> QED BY <1>4, <2>1 DEF Crash
<1> QED BY <1>1, <1>2, <1>3, <1>4 DEF LifeStep

\* Every step keeps the types.
LEMMA TypesNext == TypeOK /\ Held /\ [Next]_vars => TypeOK' /\ Held'
<1> SUFFICES ASSUME TypeOK, Held, [Next]_vars PROVE TypeOK' /\ Held' OBVIOUS
<1>1. CASE ProcessorStep BY <1>1, ProcessorTypes
<1>2. CASE IndexerStep BY <1>2, IndexerTypes
<1>3. CASE SchedulerStep BY <1>3, SchedulerTypes
<1>4. CASE OutsideStep BY <1>4, OutsideTypes
<1>5. CASE LifeStep BY <1>5, LifeTypes
<1>6. CASE UNCHANGED vars BY <1>6 DEF vars, memory, procVars, TypeOK, Held
<1> QED BY <1>1, <1>2, <1>3, <1>4, <1>5, <1>6 DEF Next, OutsideStep, LifeStep

\* A step of a consumer leaves the place of the scheduler alone.
LEMMA ConsumersPlace ==
    ASSUME TypeOK, NEW s \in Stages, NEW place, Goto(s, place) PROVE AtMark' <=> AtMark
BY DEF TypeOK, Goto, AtMark, Stages, Procs

\* Deleting the entries of a torrent keeps the budgets.
LEMMA DropKeeps ==
    ASSUME TypeOK, NEW h, DropEntries(h) PROVE \A k \in Keys : Keeps(k)
BY DEF DropEntries, Keeps

\* Nothing that a consumer does to an entry spends its budget.
LEMMA ConsumerKeeps ==
    ASSUME TypeOK, TypeOK', NEW s \in Stages, ConsumerStep(s)
    PROVE  /\ UNCHANGED <<listed, item>>
           /\ AtMark' <=> AtMark
           /\ \A k \in Keys : Keeps(k)
<1>a. UNCHANGED <<listed, item>>
  BY DEF ConsumerStep, Take, Ack, Upsert, UpsertFails, Backoff, Remove, EvictTorrent, EvictEntry
<1>b. AtMark' <=> AtMark
  BY ConsumersPlace
     DEF ConsumerStep, Take, Ack, Upsert, UpsertFails, Backoff, Remove, EvictTorrent, EvictEntry
<1>c. entry \in [Keys -> Entries] /\ <<at[s], s>> \in Keys
  BY DEF TypeOK, Keys, Stages, Procs
<1>1. CASE \/ \E h \in Torrents : Take(s, h)
           \/ Ack(s) \/ UpsertFails(s) \/ EvictTorrent(s)
  BY <1>a, <1>b, <1>1 DEF Take, Ack, UpsertFails, EvictTorrent, Keeps
<1>2. CASE Upsert(s)
  <2> DEFINE k == <<at[s], s>>
             due == ~Exists(k) \/ entry[k].due
             new == Written(entry[k], entry[k].fail + 1, FALSE, due, 0)
  <2>1. entry' = [entry EXCEPT ![k] = new] BY <1>2 DEF Upsert
  <2> HIDE DEF due
  <2>2. entry[k] \in Entries BY <1>c
  <2>3. /\ new.fail = entry[k].fail + 1 /\ new.leased = FALSE /\ new.sent = entry[k].sent
        /\ new.uncounted = entry[k].uncounted
    BY <2>2 DEF Written, Entries
  <2>4. Keeps(k)
    <3>1. entry'[k] = new BY <1>c, <2>1
    <3> HIDE DEF new
    <3> QED BY <2>2, <2>3, <3>1 DEF Keeps, FailCount, Entries
  <2>5. \A j \in Keys : j # k => Keeps(j) BY <1>c, <2>1 DEF Keeps
  <2> QED BY <1>a, <1>b, <2>4, <2>5
<1>3. CASE Backoff(s)
  <2> SUFFICES ASSUME NEW k \in Keys PROVE Keeps(k) BY <1>a, <1>b
  <2>1. entry[k] \in Entries BY <1>c
  <2>2. Exists(<<at[s], s>>) => Keeps(k)
    BY <1>3, <1>c, <2>1 DEF Backoff, Keeps, FailCount, Entries, Exists
  <2>3. ~Exists(k) => entry'[k] = entry[k]
    BY <1>3, <1>c DEF Backoff
  <2>4. k # <<at[s], s>> => entry'[k] = entry[k]
    BY <1>3, <1>c DEF Backoff
  <2> QED BY <2>2, <2>3, <2>4 DEF Keeps
<1>4. CASE Remove(s) \/ EvictEntry(s)
  BY <1>a, <1>b, <1>4, DropKeeps DEF Remove, EvictEntry, Keeps
<1> QED BY <1>1, <1>2, <1>3, <1>4 DEF ConsumerStep

\* When the mark of a dispatch is lost, the dispatch is not counted.
LEMMA UncountedBudgets ==
    ASSUME IInv, AtMark, ~AtMark', Uncounted(item.key), listed' \subseteq listed
    PROVE  Budgets'
<1> USE DEF IInv
<1> DEFINE key == item.key
<1>a. \A k \in Keys : /\ entry[k] \in Entries
                      /\ entry[k].fail \in Nat /\ entry[k].leased \in BOOLEAN
                      /\ entry[k].sent \in Nat /\ entry[k].uncounted \in Nat
                      /\ FailCount(entry[k]) \in Nat
  BY EntryTypes DEF FailCount
<1>b. Absent /\ Counted /\ ListedCovers /\ ListedOnce /\ MarkCovers /\ DispatchBudget
  BY DEF Budgets
<1>c. entry \in [Keys -> Entries] /\ key \in Keys
  BY <1>b DEF TypeOK, MarkCovers, Items
<1>1. \A k \in Keys : k # key => entry'[k] = entry[k]
  BY <1>c DEF Uncounted
<1>2. /\ entry'[key].fail = entry[key].fail /\ entry'[key].leased = entry[key].leased
      /\ entry'[key].sent = entry[key].sent
      /\ entry'[key].uncounted = IF Exists(key) THEN entry[key].uncounted + 1
                                                ELSE entry[key].uncounted
      /\ FailCount(entry'[key]) = FailCount(entry[key])
      /\ ~Exists(key) => entry'[key] = entry[key]
  BY <1>a, <1>c DEF Uncounted, Entries, FailCount
<1>3. Absent'
  BY <1>b, <1>1, <1>2 DEF Absent, Exists
<1>4. Counted'
  <2> SUFFICES ASSUME NEW k \in Keys, Exists(k)'
               PROVE  entry'[k].sent + 1 <= FailCount(entry'[k]) + entry'[k].uncounted
    BY DEF Counted, Marking
  <2>1. CASE k = key
    <3>1. Exists(key) BY <1>2, <2>1 DEF Exists
    <3>2. Marking(key) BY DEF Marking
    <3>3. entry[key].sent <= FailCount(entry[key]) + entry[key].uncounted
      BY <1>a, <1>b, <1>c, <3>1, <3>2 DEF Counted
    <3> QED BY <1>a, <1>c, <1>2, <2>1, <3>1, <3>3
  <2>2. CASE k # key
    <3>1. Exists(k) /\ ~Marking(k) BY <1>1, <2>2 DEF Exists, Marking
    <3> QED BY <1>b, <1>1, <2>2, <3>1 DEF Counted
  <2> QED BY <2>1, <2>2
<1>5. \A k \in Keys : entry'[k].sent = entry[k].sent
                      /\ entry'[k].uncounted \in Nat
                      /\ entry'[k].uncounted >= entry[k].uncounted
  BY <1>a, <1>c, <1>1, <1>2
<1>6. ListedCovers' /\ ListedOnce'
  <2>1. \A i \in listed : i.key \in Keys /\ i.fail \in Nat BY EntryTypes
  <2> QED BY <1>a, <1>b, <1>5, <2>1 DEF ListedCovers, ListedOnce
<1>7. DispatchBudget'
  BY <1>a, <1>b, <1>5, RetryAssumption DEF DispatchBudget
<1> QED BY <1>3, <1>4, <1>6, <1>7 DEF Budgets, MarkCovers

\* What the scheduler does keeps the budgets.
LEMMA SchedulerBudgets == ASSUME IInv, TypeOK', SchedulerStep PROVE Budgets'
<1> USE DEF IInv
<1>a. pc \in [Procs -> {"idle", "handle", "persist", "upsert", "backoff", "remove",
                        "publish", "deleteTorrent", "deleteEntry", "done", "scan", "mark"}]
      /\ "scheduler" \in Procs
  BY DEF TypeOK, Procs
<1>b. \A k \in Keys : /\ entry[k] \in Entries
                      /\ entry[k].fail \in Nat /\ entry[k].leased \in BOOLEAN
                      /\ entry[k].sent \in Nat /\ entry[k].uncounted \in Nat
                      /\ FailCount(entry[k]) \in Nat
  BY EntryTypes DEF FailCount
<1>c. entry \in [Keys -> Entries]
  BY DEF TypeOK
<1>d. \A i \in listed : i.key \in Keys /\ i.fail \in Nat
  BY EntryTypes
<1>e. Absent /\ Counted /\ ListedCovers /\ ListedOnce /\ MarkCovers /\ DispatchBudget
  BY DEF Budgets
<1>1. CASE ListDue
  <2>1. ~AtMark /\ ~AtMark' /\ UNCHANGED entry
    BY <1>1, <1>a DEF ListDue, Goto, AtMark
  <2>2. \A k \in Keys : Exists(k) => entry[k].sent + 1 <= FailCount(entry[k]) + entry[k].uncounted
    BY <1>e, <2>1 DEF Counted, Marking
  <2>3. \A i \in listed' : /\ i.key \in Keys /\ Exists(i.key)
                           /\ i.fail = FailCount(entry[i.key])
    BY <1>1 DEF ListDue
  <2>4. ListedCovers'
    BY <1>b, <2>1, <2>2, <2>3 DEF ListedCovers, Exists, FailCount
  <2>5. ListedOnce'
    BY <1>1 DEF ListDue, ListedOnce
  <2>6. Counted'
    BY <1>e, <2>1, <2>2 DEF Counted, Marking, Exists, AtMark
  <2> QED BY <1>e, <2>1, <2>4, <2>5, <2>6 DEF Budgets, Absent, MarkCovers, DispatchBudget, Exists
<1>2. ASSUME NEW i \in listed, Expire(i) PROVE Budgets'
  <2>1. ~AtMark /\ ~AtMark' /\ UNCHANGED entry /\ listed' \subseteq listed
    BY <1>2, <1>a DEF Expire, ToItem, Goto, AtMark
  <2> QED BY <1>e, <2>1
          DEF Budgets, Absent, Counted, Marking, ListedCovers, ListedOnce, MarkCovers,
              DispatchBudget, Exists
<1>3. ASSUME NEW i \in listed, Dispatch(i) PROVE Budgets'
  <2> DEFINE key == i.key
  <2>1. ~AtMark /\ AtMark' /\ item' = i /\ listed' = listed \ {i} /\ InBudget(i.fail)
        /\ key \in Keys /\ i.fail \in Nat /\ i.fail >= 1
        /\ entry[key].sent + 1 <= i.fail + entry[key].uncounted
    BY <1>3, <1>a, <1>d, <1>e DEF Dispatch, ToItem, Goto, AtMark, ListedCovers
  <2>2. \A k \in Keys : k # key => entry'[k] = entry[k]
    BY <1>3, <1>c DEF Dispatch
  <2>3. /\ entry'[key].fail = entry[key].fail /\ entry'[key].leased = entry[key].leased
        /\ entry'[key].uncounted = entry[key].uncounted
        /\ entry'[key].sent = IF Exists(key) THEN entry[key].sent + 1 ELSE entry[key].sent
        /\ FailCount(entry'[key]) = FailCount(entry[key])
        /\ ~Exists(key) => entry'[key] = entry[key]
    BY <1>3, <1>b, <1>c, <2>1 DEF Dispatch, Entries, FailCount
  <2>4. \A j \in listed' : j.key \in Keys /\ j.key # key /\ j \in listed
    BY <1>d, <1>e, <2>1 DEF ListedOnce
  <2>5. Absent'
    BY <1>e, <2>2, <2>3 DEF Absent, Exists
  <2>6. Counted'
    <3> SUFFICES ASSUME NEW k \in Keys, Exists(k)'
                 PROVE  entry'[k].sent + (IF Marking(k)' THEN 0 ELSE 1)
                          <= FailCount(entry'[k]) + entry'[k].uncounted
      BY DEF Counted
    <3>1. CASE k = key
      <4>1. Exists(key) BY <2>3, <3>1 DEF Exists
      <4>2. entry[key].sent + 1 <= FailCount(entry[key]) + entry[key].uncounted
        BY <1>e, <2>1, <4>1 DEF Counted, Marking
      <4>3. Marking(key)' BY <2>1 DEF Marking
      <4> QED BY <1>b, <2>1, <2>3, <3>1, <4>1, <4>2, <4>3
    <3>2. CASE k # key
      <4>1. ~Marking(k) /\ ~Marking(k)' BY <2>1, <3>2 DEF Marking
      <4>2. Exists(k) BY <2>2, <3>2 DEF Exists
      <4>3. entry[k].sent + 1 <= FailCount(entry[k]) + entry[k].uncounted
        BY <1>e, <4>1, <4>2 DEF Counted
      <4> QED BY <2>2, <3>2, <4>1, <4>3
    <3> QED BY <3>1, <3>2
  <2>7. ListedCovers' /\ ListedOnce'
    BY <1>e, <2>2, <2>4 DEF ListedCovers, ListedOnce
  <2>8. MarkCovers'
    <3>1. i \in Items BY DEF TypeOK
    <3>2. entry'[key].sent <= i.fail + entry'[key].uncounted
      BY <1>b, <2>1, <2>3
    <3> QED BY <2>1, <2>4, <3>1, <3>2 DEF MarkCovers
  <2>9. DispatchBudget'
    <3>1. MaxRetries >= 0 => entry'[key].sent <= MaxRetries + entry'[key].uncounted
      BY <1>b, <1>e, <2>1, <2>3, RetryAssumption DEF InBudget, DispatchBudget
    <3> QED BY <1>e, <2>2, <3>1 DEF DispatchBudget
  <2> QED BY <2>5, <2>6, <2>7, <2>8, <2>9 DEF Budgets
<1>4. CASE Mark
  <2> DEFINE key == item.key
  <2>1. AtMark /\ ~AtMark' /\ UNCHANGED listed /\ key \in Keys /\ item.fail \in Nat
        /\ item.fail >= 1 /\ entry[key].sent <= item.fail + entry[key].uncounted
    BY <1>4, <1>a, <1>e DEF Mark, NextItem, Goto, AtMark, MarkCovers, Items
  <2>2. \A k \in Keys : k # key => entry'[k] = entry[k]
    BY <1>4, <1>c DEF Mark
  <2>3. ~Exists(key) => entry'[key] = entry[key]
    BY <1>4 DEF Mark
  <2>4. Exists(key) => /\ entry'[key].fail = item.fail /\ entry'[key].leased = TRUE
                       /\ entry'[key].uncounted = entry[key].uncounted
                       /\ entry'[key].sent = entry[key].sent
    BY <1>4, <1>b, <1>c, <2>1 DEF Mark, Written
  <2>5. entry'[key].sent = entry[key].sent /\ entry'[key].uncounted = entry[key].uncounted
    BY <2>3, <2>4
  <2>6. Absent'
    BY <1>e, <2>1, <2>2, <2>3, <2>4 DEF Absent, Exists
  <2>7. Counted'
    <3> SUFFICES ASSUME NEW k \in Keys, Exists(k)'
                 PROVE  entry'[k].sent + 1 <= FailCount(entry'[k]) + entry'[k].uncounted
      BY <2>1 DEF Counted, Marking
    <3>1. CASE k = key
      <4>1. Exists(key) BY <2>3, <3>1 DEF Exists
      <4>2. FailCount(entry'[key]) = item.fail + 1 BY <2>4, <4>1 DEF FailCount
      <4> QED BY <1>b, <2>1, <2>5, <3>1, <4>2
    <3>2. CASE k # key
      <4>1. Exists(k) /\ ~Marking(k) BY <2>2, <3>2 DEF Exists, Marking
      <4> QED BY <1>e, <2>2, <3>2, <4>1 DEF Counted
    <3> QED BY <3>1, <3>2
  <2>8. ListedCovers' /\ ListedOnce'
    BY <1>d, <1>e, <2>1, <2>2, <2>5 DEF ListedCovers, ListedOnce
  <2>9. DispatchBudget'
    BY <1>e, <2>2, <2>5 DEF DispatchBudget
  <2> QED BY <2>1, <2>6, <2>7, <2>8, <2>9 DEF Budgets, MarkCovers
<1>5. CASE MarkFails
  <2>1. AtMark /\ ~AtMark' /\ listed' \subseteq listed /\ Uncounted(item.key)
    BY <1>5, <1>a DEF MarkFails, NextItem, Goto, AtMark
  <2> QED BY <2>1, UncountedBudgets
<1>6. CASE EndScan \/ EvictTorrent("scheduler")
  <2>1. UNCHANGED <<entry, listed, item>> /\ (AtMark' <=> AtMark)
    BY <1>6, <1>a DEF EndScan, EvictTorrent, Goto, AtMark
  <2> QED BY <2>1, FrameBudgets
<1>7. CASE EvictEntry("scheduler")
  <2>1. UNCHANGED <<listed, item>> /\ (AtMark' <=> AtMark)
    BY <1>7, <1>a DEF EvictEntry, Goto, AtMark
  <2>2. \A k \in Keys : Keeps(k)
    BY <1>7, DropKeeps DEF EvictEntry, Keeps
  <2> QED BY <2>1, <2>2, KeepsBudgets
<1> QED BY <1>1, <1>2, <1>3, <1>4, <1>5, <1>6, <1>7 DEF SchedulerStep

\* So do the operator, time and a restart.
LEMMA LifeBudgets == ASSUME IInv, TypeOK', LifeStep PROVE Budgets'
<1> USE DEF IInv
<1>a. entry \in [Keys -> Entries] /\ "scheduler" \in Procs
      /\ \A k \in Keys : /\ entry[k] \in Entries
                        /\ entry[k].fail \in Nat /\ entry[k].leased \in BOOLEAN
                        /\ entry[k].sent \in Nat /\ entry[k].uncounted \in Nat
  BY EntryTypes DEF TypeOK, Procs
<1>1. ASSUME NEW h \in Torrents, Touch(h) PROVE Budgets'
  <2>1. UNCHANGED <<listed, item, pc>> BY <1>1 DEF Touch, procVars
  <2>2. ASSUME NEW k \in Keys PROVE Keeps(k)
    <3>1. CASE k[1] = h /\ Exists(k)
      <4>1. entry'[k] = Written(entry[k], entry[k].fail, FALSE, TRUE, 1)
        BY <1>1, <3>1 DEF Touch
      <4> QED BY <1>a, <3>1, <4>1 DEF Keeps, Written, FailCount, Exists
    <3>2. CASE ~(k[1] = h /\ Exists(k))
      BY <1>1, <3>2 DEF Touch, Keeps
    <3> QED BY <3>1, <3>2
  <2> QED BY <2>1, <2>2, KeepsBudgets DEF AtMark
<1>2. ASSUME NEW k \in Keys, TimePasses(k) PROVE Budgets'
  <2>1. UNCHANGED <<listed, item, pc>> BY <1>2 DEF TimePasses, procVars
  <2>2. \A j \in Keys : j # k => entry'[j] = entry[j] BY <1>2, <1>a DEF TimePasses
  <2>3. Keeps(k)
    BY <1>2, <1>a DEF TimePasses, Keeps, Entries, FailCount, Exists
  <2>4. \A j \in Keys : Keeps(j) BY <2>2, <2>3 DEF Keeps
  <2> QED BY <2>1, <2>4, KeepsBudgets DEF AtMark
<1>3. CASE Clear
  <2>1. UNCHANGED <<listed, item, pc>> BY <1>3 DEF Clear, procVars
  <2>2. \A k \in Keys : Keeps(k) BY <1>3 DEF Clear, Keeps
  <2> QED BY <2>1, <2>2, KeepsBudgets DEF AtMark
<1>4. CASE Crash
  <2>1. ~AtMark' /\ listed' = {} BY <1>4, <1>a DEF Crash, AtMark
  <2>2. CASE AtMark
    BY <1>4, <2>1, <2>2, UncountedBudgets DEF Crash, AtMark
  <2>3. CASE ~AtMark
    <3>1. UNCHANGED entry BY <1>4, <2>3 DEF Crash, AtMark
    <3> QED BY <2>1, <2>3, <3>1
            DEF Budgets, Absent, Counted, Marking, ListedCovers, ListedOnce, MarkCovers,
                DispatchBudget, Exists
  <2> QED BY <2>2, <2>3
<1> QED BY <1>1, <1>2, <1>3, <1>4 DEF LifeStep

\* Every step keeps the invariant.
LEMMA InvNext == IInv /\ [Next]_vars => IInv'
<1> SUFFICES ASSUME IInv, [Next]_vars PROVE IInv' OBVIOUS
<1>1. TypeOK' /\ Held'
  BY TypesNext DEF IInv
<1>2. CASE \E s \in Stages : ConsumerStep(s)
  BY <1>1, <1>2, ConsumerKeeps, KeepsBudgets DEF IInv, Budgets
<1>3. CASE \/ FetchFails \/ Skip \/ Filter \/ ClassifierPanics
           \/ Persist \/ PersistFails \/ Publish
           \/ \E succeeds \in BOOLEAN : Classify(succeeds)
           \/ Unindexed
           \/ \E succeeds \in BOOLEAN : Index(succeeds)
  <2>1. UNCHANGED <<entry, listed, item>>
    BY <1>3 DEF FetchFails, Skip, Filter, ClassifierPanics, Persist, PersistFails,
                Publish, Classify, Unindexed, Index, Return
  <2>2. AtMark' <=> AtMark
    <3>1. pc \in [Procs -> {"idle", "handle", "persist", "upsert", "backoff", "remove",
                            "publish", "deleteTorrent", "deleteEntry", "done", "scan", "mark"}]
      BY DEF IInv, TypeOK
    <3> QED BY <1>3, <3>1
            DEF FetchFails, Skip, Filter, ClassifierPanics, Persist, PersistFails,
                Publish, Classify, Unindexed, Index, Return, Goto, AtMark, Stages, Procs
  <2> QED BY <1>1, <2>1, <2>2, FrameBudgets DEF IInv
<1>4. CASE SchedulerStep
  BY <1>1, <1>4, SchedulerBudgets DEF IInv
<1>5. CASE OutsideStep
  <2>1. UNCHANGED <<entry, listed, item, pc>>
    BY <1>5 DEF OutsideStep, Discover, Rescrape, Forget, LoseMessage, SwitchBackend, procVars
  <2> QED BY <1>1, <2>1, FrameBudgets DEF IInv, AtMark
<1>6. CASE LifeStep
  BY <1>1, <1>6, LifeBudgets DEF IInv
<1>7. CASE UNCHANGED vars
  BY <1>1, <1>7, FrameBudgets DEF IInv, vars, procVars, AtMark
<1> QED BY <1>2, <1>3, <1>4, <1>5, <1>6, <1>7
        DEF Next, ProcessorStep, IndexerStep, OutsideStep, LifeStep, Stages

\* The variables have their types in every behaviour.
THEOREM TypeCorrect == Spec => []TypeOK
<1>1. IInv => TypeOK BY DEF IInv
<1> QED BY <1>1, InvInit, InvNext, PTL DEF Spec

\* queue.go:279-371, config.go:12: an entry is dispatched at most MaxRetries times, however
\* reports, leases, stale marks and restarts interleave, plus the dispatches whose mark
\* failed and the retries that an operator asked for.
THEOREM WithinBudget == Spec => []DispatchBudget
<1>1. IInv => DispatchBudget BY DEF IInv, Budgets
<1> QED BY <1>1, InvInit, InvNext, PTL DEF Spec

----------------------------------------------------------------------------
(* No torrent is forgotten *)

Message(h) == <<h, "classify">>
At(places, h) == pc["classify"] \in places /\ at["classify"] = h

\* A torrent that the processor would skip has its result, its failure or its handler.
RecentKept ==
    \A h \in Torrents :
        recent[h] => \/ h \in lost
                     \/ row[h] = "classified"
                     \/ /\ row[h] = "new"
                        /\ Exists(Message(h)) \/ At({"persist", "upsert"}, h)

\* Where the entries of a torrent go, it has been found anew at most, with a message that
\* will not be skipped.
Removing ==
    \A h \in Torrents :
        At({"remove", "publish"}, h) /\ row[h] = "new" =>
            h \in lost \/ (~recent[h] /\ pending[Message(h)] > 1)

\* Before the acknowledgement the failure is in the entry, or there is another message.
Reported ==
    \A h \in Torrents :
        At({"backoff", "done"}, h) /\ row[h] = "new" =>
            Exists(Message(h)) \/ h \in lost \/ pending[Message(h)] > 1

Known == NothingForgotten /\ RecentKept /\ Removing /\ Reported

\* Nothing has been found when the system starts.
LEMMA KnownInit == Init => Known
BY DEF Init, Known, NothingForgotten, RecentKept, Removing, Reported, At, Procs, Stages

\* A torrent's message to the processor has a key of its own.
LEMMA MessageKey ==
    /\ \A h \in Torrents : Message(h) \in Keys
    /\ \A h, g \in Torrents : Message(h) = Message(g) => h = g
    /\ \A h, g \in Torrents : Message(h) # <<g, "enrich">>
BY DEF Message, Keys, Stages

\* What a step of anything but the processor may do: no message and no entry goes without
\* the torrent being counted as lost.
LEMMA OthersKnown ==
    ASSUME TypeOK, TypeOK', Known, UNCHANGED <<row, recent>>, lost \subseteq lost',
           pc'["classify"] = pc["classify"], at'["classify"] = at["classify"],
           \A h \in Torrents : h \in lost' \/ pending'[Message(h)] >= pending[Message(h)],
           \A h \in Torrents :
              row[h] = "new" /\ Exists(Message(h)) => Exists(Message(h))' \/ h \in lost'
    PROVE  Known'
<1>1. \A h \in Torrents : Message(h) \in Keys /\ pending[Message(h)] \in Nat
                                              /\ pending'[Message(h)] \in Nat
  <2>1. pending \in [Keys -> Nat] /\ pending' \in [Keys -> Nat] BY DEF TypeOK
  <2> QED BY <2>1, MessageKey
<1>2. NothingForgotten'
  BY <1>1 DEF Known, NothingForgotten, Message
<1>3. \A places, h : At(places, h)' <=> At(places, h)
  BY DEF At
<1>4. RecentKept' BY <1>3 DEF Known, RecentKept
<1>5. Removing' BY <1>1, <1>3 DEF Known, Removing
<1>6. Reported' BY <1>1, <1>3 DEF Known, Reported
<1> QED BY <1>2, <1>4, <1>5, <1>6 DEF Known

\* Deleting the torrent leaves nothing to be known, but when it will be skipped if found again.
LEMMA EvictKnown == ASSUME TypeOK, Known, NEW p \in Procs, EvictTorrent(p) PROVE Known'
<1>1. /\ at[p] \in Torrents /\ pc' = [pc EXCEPT ![p] = "deleteEntry"] /\ pc[p] = "deleteTorrent"
      /\ UNCHANGED <<entry, pending, recent, at>>
  BY DEF EvictTorrent, TypeOK, Goto, memory
<1>2. lost \subseteq lost' BY DEF EvictTorrent
<1>3. \A h \in Torrents : row'[h] = row[h] \/ (h = at[p] /\ row'[h] = "absent")
  BY <1>1 DEF EvictTorrent, TypeOK
<1>4. recent[at[p]] => at[p] \in lost' BY DEF EvictTorrent
<1>5. \A places \in {{"remove", "publish"}, {"backoff", "done"}}, h \in Torrents :
         At(places, h)' => At(places, h)
  BY <1>1 DEF At, TypeOK, Procs, Stages
<1>6. \A h \in Torrents : At({"persist", "upsert"}, h) => At({"persist", "upsert"}, h)'
  BY <1>1 DEF At, TypeOK, Procs, Stages
<1> QED BY <1>1, <1>2, <1>3, <1>4, <1>5, <1>6
        DEF Known, NothingForgotten, RecentKept, Removing, Reported, Exists

\* The processor's own steps: where it leaves a torrent new, the failure is on record.
LEMMA ProcessorKnown ==
    ASSUME TypeOK, TypeOK', Held, Known,
           \/ Skip \/ Filter \/ ClassifierPanics \/ Persist \/ PersistFails \/ FetchFails \/ Publish
           \/ \E succeeds \in BOOLEAN : Classify(succeeds)
    PROVE  Known'
<1>a. /\ Torrent \in Torrents /\ "classify" \in Procs
      /\ pc \in [Procs -> {"idle", "handle", "persist", "upsert", "backoff", "remove",
                           "publish", "deleteTorrent", "deleteEntry", "done", "scan", "mark"}]
      /\ row \in [Torrents -> {"absent", "new", "classified"}]
      /\ recent \in [Torrents -> BOOLEAN]
  BY DEF TypeOK, Torrent, Procs, Stages
<1>b. pending[Message(Torrent)] > 0 /\ pc["classify"] # "idle"
  BY DEF Held, Stages, Message, Torrent, Skip, Filter, ClassifierPanics, Persist, PersistFails,
         FetchFails, Publish, Classify, Classifying, Unskipped
<1>c. pending \in [Keys -> Nat]
  BY DEF TypeOK
<1> USE DEF Known, NothingForgotten, RecentKept, Removing, Reported, At, Message, Goto, memory,
            Torrent, Classifying, Unskipped, Exists, Return
<1>1. CASE Skip BY <1>a, <1>b, <1>1 DEF Skip
<1>2. CASE Filter BY <1>a, <1>b, <1>2 DEF Filter
<1>3. CASE ClassifierPanics BY <1>a, <1>b, <1>3 DEF ClassifierPanics
<1>4. CASE Persist BY <1>a, <1>b, <1>4 DEF Persist
<1>5. CASE PersistFails BY <1>a, <1>b, <1>5 DEF PersistFails
<1>6. CASE FetchFails BY <1>a, <1>b, <1>6 DEF FetchFails
<1>7. CASE Publish
  <2>1. /\ pending' = [pending EXCEPT ![<<Torrent, "enrich">>] = pending[<<Torrent, "enrich">>] + 1]
        /\ pc["classify"] = "publish" /\ pc' = [pc EXCEPT !["classify"] = "done"]
        /\ UNCHANGED <<row, entry, recent, at, lost>>
    BY <1>7 DEF Publish, Send
  <2>2. \A h \in Torrents : pending'[Message(h)] = pending[Message(h)]
    BY <1>c, <2>1, MessageKey
  <2> QED BY <1>a, <1>b, <2>1, <2>2
<1>8. CASE \E succeeds \in BOOLEAN : Classify(succeeds)
  BY <1>a, <1>b, <1>8 DEF Classify
<1> QED BY <1>1, <1>2, <1>3, <1>4, <1>5, <1>6, <1>7, <1>8, Zenon

\* Messages come and go, and three minutes pass.
LEMMA OutsideKnown == ASSUME TypeOK, TypeOK', Held, Known, OutsideStep PROVE Known'
<1>a. /\ "classify" \in Procs /\ pending \in [Keys -> Nat]
      /\ row \in [Torrents -> {"absent", "new", "classified"}]
      /\ recent \in [Torrents -> BOOLEAN]
  BY DEF TypeOK, Procs, Stages
<1>b. pc["classify"] # "idle" => pending[Message(at["classify"])] > 0
  BY DEF Held, Stages, Message
<1>1. ASSUME NEW h \in Torrents, Discover(h) PROVE Known'
  <2>1. /\ row[h] = "absent" /\ row' = [row EXCEPT ![h] = "new"]
        /\ pending' = [pending EXCEPT ![Message(h)] = pending[Message(h)] + 1]
        /\ UNCHANGED <<entry, recent, pc, at, lost>>
    BY <1>1 DEF Discover, Send, Message, procVars
  <2>2. pending'[Message(h)] = pending[Message(h)] + 1
        /\ \A g \in Torrents : g # h => pending'[Message(g)] = pending[Message(g)]
    BY <1>a, <2>1, MessageKey
  <2>3. pending[Message(h)] \in Nat BY <1>a, MessageKey
  <2>4. row'[h] = "new" /\ \A g \in Torrents : g # h => row'[g] = row[g]
    BY <1>a, <2>1
  <2>5. NothingForgotten' BY <2>1, <2>2, <2>3, <2>4 DEF Known, NothingForgotten, Message, Exists
  <2>6. RecentKept' BY <2>1, <2>4 DEF Known, RecentKept, At, Exists
  <2>7. Removing'
    BY <1>b, <2>1, <2>2, <2>3, <2>4 DEF Known, Removing, RecentKept, At
  <2>8. Reported'
    BY <1>b, <2>1, <2>2, <2>3, <2>4 DEF Known, Reported, At, Exists
  <2> QED BY <2>5, <2>6, <2>7, <2>8 DEF Known
<1>2. ASSUME NEW h \in Torrents, Forget(h) PROVE Known'
  BY <1>2 DEF Forget, procVars, Known, NothingForgotten, RecentKept, Removing, Reported, At, Exists
<1>3. ASSUME NEW h \in Torrents, Rescrape(h) PROVE Known'
  <2>1. UNCHANGED <<row, recent, entry, pc, at, lost>> BY <1>3 DEF Rescrape, procVars, memory
  <2>2. \A g \in Torrents : pending'[Message(g)] >= pending[Message(g)]
    <3>1. pending' = [pending EXCEPT ![Message(h)] = pending[Message(h)] + 1]
      BY <1>3 DEF Rescrape, Send, Message
    <3>2. \A g \in Torrents : pending[Message(g)] \in Nat BY <1>a, MessageKey
    <3> QED BY <1>a, <3>1, <3>2, MessageKey
  <2> QED BY <2>1, <2>2, OthersKnown DEF Exists
<1>4. ASSUME NEW k \in Keys, LoseMessage(k) PROVE Known'
  <2>1. UNCHANGED <<row, recent, entry, pc, at>> /\ lost' = lost \cup {k[1]}
    BY <1>4 DEF LoseMessage, procVars, memory
  <2>2. \A g \in Torrents : g # k[1] => Message(g) # k BY DEF Message
  <2>3. \A g \in Torrents : g # k[1] => pending'[Message(g)] = pending[Message(g)]
    BY <1>a, <1>4, <2>2, MessageKey DEF LoseMessage
  <2>4. \A g \in Torrents : pending[Message(g)] \in Nat BY <1>a, MessageKey
  <2> QED BY <2>1, <2>3, <2>4, OthersKnown DEF Exists
<1>5. CASE SwitchBackend
  <2>1. UNCHANGED <<row, recent, entry, pc, at, lost, pending>> BY <1>5 DEF SwitchBackend, procVars
  <2>2. \A g \in Torrents : pending[Message(g)] \in Nat BY <1>a, MessageKey
  <2> QED BY <2>1, <2>2, OthersKnown DEF Exists
<1> QED BY <1>1, <1>2, <1>3, <1>4, <1>5 DEF OutsideStep

\* What happens to the entries of one torrent leaves those of the others alone.
LEMMA DropExists ==
    ASSUME NEW h, DropEntries(h) \/ UNCHANGED entry
    PROVE  \A g \in Torrents : g # h => Exists(Message(g))' = Exists(Message(g))
BY MessageKey DEF DropEntries, Exists, Message

\* The end of an eviction: a torrent found anew meanwhile may have had the entry that goes.
LEMMA EvictEntryKnown ==
    ASSUME TypeOK, TypeOK', Known, NEW p \in Procs, EvictEntry(p) PROVE Known'
<1>1. /\ UNCHANGED <<row, recent, pending, at>> /\ pc[p] = "deleteEntry"
      /\ pc' = [pc EXCEPT ![p] = IF p = "scheduler" THEN "scan" ELSE "done"]
      /\ lost' = IF row[at[p]] = "new" THEN lost \cup {at[p]} ELSE lost
  BY DEF EvictEntry, Goto, memory
<1>2. \A h \in Torrents : h # at[p] => Exists(Message(h))' = Exists(Message(h))
  BY DropExists DEF EvictEntry
<1>3. /\ pc \in [Procs -> {"idle", "handle", "persist", "upsert", "backoff", "remove",
                           "publish", "deleteTorrent", "deleteEntry", "done", "scan", "mark"}]
      /\ "classify" \in Procs
  BY DEF TypeOK, Procs, Stages
<1>4. lost \subseteq lost' BY <1>1
<1>5. \A h \in Torrents :
         row[h] = "new" /\ Exists(Message(h)) => Exists(Message(h))' \/ h \in lost'
  BY <1>1, <1>2
<1>6. CASE p # "classify"
  <2>1. pc'["classify"] = pc["classify"] BY <1>1, <1>3, <1>6
  <2>2. \A h \in Torrents : pending[Message(h)] \in Nat BY MessageKey, EntryTypes
  <2> QED BY <1>1, <1>4, <1>5, <2>1, <2>2, OthersKnown
<1>7. CASE p = "classify"
  <2>1. pc["classify"] = "deleteEntry" /\ pc'["classify"] = "done" BY <1>1, <1>3, <1>7
  <2>2. row[at["classify"]] = "new" => at["classify"] \in lost' BY <1>1, <1>7
  <2>3. NothingForgotten' BY <1>1, <1>4, <1>5 DEF Known, NothingForgotten, Message
  <2>4. RecentKept' BY <1>1, <1>4, <1>5, <2>1 DEF Known, RecentKept, At
  <2>5. Removing' /\ Reported' BY <1>1, <2>1, <2>2 DEF Removing, Reported, At
  <2> QED BY <2>3, <2>4, <2>5 DEF Known
<1> QED BY <1>6, <1>7

\* What a consumer does to the entry of its message and when it is acknowledged.
LEMMA ConsumerKnown ==
    ASSUME TypeOK, TypeOK', Held, Known, NEW s \in Stages, ConsumerStep(s)
    PROVE  Known'
<1>a. /\ s \in Procs /\ "classify" \in Procs /\ at[s] \in Torrents /\ <<at[s], s>> \in Keys
      /\ pc \in [Procs -> {"idle", "handle", "persist", "upsert", "backoff", "remove",
                           "publish", "deleteTorrent", "deleteEntry", "done", "scan", "mark"}]
      /\ at \in [Procs -> Torrents] /\ row \in [Torrents -> {"absent", "new", "classified"}]
      /\ pending \in [Keys -> Nat] /\ entry \in [Keys -> Entries]
  BY DEF TypeOK, Procs, Stages, Keys
<1>b. /\ \A h \in Torrents : Message(h) \in Keys /\ pending[Message(h)] \in Nat
      /\ \A k \in Keys : entry[k].fail \in Nat
  BY <1>a, MessageKey, EntryTypes
<1>c. s = "enrich" =>
         \A h \in Torrents : Message(h) # <<at[s], s>>
  BY <1>a, MessageKey
<1>1. ASSUME NEW h \in Torrents, Take(s, h) PROVE Known'
  <2>1. /\ UNCHANGED <<row, recent, entry, pending, lost>>
        /\ pc[s] = "idle" /\ pc' = [pc EXCEPT ![s] = "handle"] /\ at' = [at EXCEPT ![s] = h]
    BY <1>1 DEF Take, Goto, memory
  <2>2. \A places \in {{"remove", "publish"}, {"backoff", "done"}, {"persist", "upsert"}},
           g \in Torrents : At(places, g)' <=> At(places, g)
    BY <1>a, <2>1 DEF At
  <2> QED BY <2>1, <2>2 DEF Known, NothingForgotten, RecentKept, Removing, Reported, Exists
<1>2. CASE Ack(s)
  <2>1. /\ UNCHANGED <<row, recent, entry, at, lost>>
        /\ pc[s] = "done" /\ pc' = [pc EXCEPT ![s] = "idle"]
        /\ pending' = [pending EXCEPT ![<<at[s], s>>] = pending[<<at[s], s>>] - 1]
    BY <1>2 DEF Ack, Goto, memory
  <2>2. CASE s = "enrich"
    <3>1. \A h \in Torrents : pending'[Message(h)] = pending[Message(h)]
      BY <1>b, <1>c, <1>a, <2>1, <2>2
    <3>2. pc'["classify"] = pc["classify"] BY <1>a, <2>1, <2>2
    <3> QED BY <1>b, <2>1, <3>1, <3>2, OthersKnown DEF Exists
  <2>3. CASE s = "classify"
    <3> DEFINE h == at[s]
    <3>1. /\ pending'[Message(h)] = pending[Message(h)] - 1
          /\ \A g \in Torrents : g # h => pending'[Message(g)] = pending[Message(g)]
      BY <1>a, <2>1, <2>3, MessageKey DEF Message
    <3>2. pc["classify"] = "done" /\ pc'["classify"] = "idle" BY <1>a, <2>1, <2>3
    <3>3. row[h] = "new" => Exists(Message(h)) \/ h \in lost \/ pending[Message(h)] > 1
      BY <1>a, <2>3, <3>2 DEF Known, Reported, At
    <3>4. NothingForgotten'
      BY <1>b, <2>1, <3>1, <3>3 DEF Known, NothingForgotten, Message, Exists
    <3>5. RecentKept' /\ Removing' /\ Reported'
      BY <2>1, <3>2 DEF Known, RecentKept, Removing, Reported, At, Exists
    <3> QED BY <3>4, <3>5 DEF Known
  <2> QED BY <2>2, <2>3 DEF Stages
<1>3. CASE Upsert(s)
  <2> DEFINE k == <<at[s], s>>
             due == ~Exists(k) \/ entry[k].due
             place == IF InBudget(entry[k].fail + 1) THEN "backoff" ELSE "deleteTorrent"
  <2>1. /\ UNCHANGED <<row, recent, pending, at, lost>>
        /\ pc[s] = "upsert" /\ pc' = [pc EXCEPT ![s] = place]
        /\ entry' = [entry EXCEPT ![k] = Written(entry[k], entry[k].fail + 1, FALSE, due, 0)]
    BY <1>3 DEF Upsert, Goto, memory
  <2>2. place \in {"backoff", "deleteTorrent"} OBVIOUS
  <2> HIDE DEF due, place
  <2>3. entry'[k].fail > 0 BY <1>a, <1>b, <2>1 DEF Written
  <2>4. \A j \in Keys : j # k => entry'[j] = entry[j] BY <1>a, <2>1
  <2>5. \A h \in Torrents : Exists(Message(h)) => Exists(Message(h))'
    <3> SUFFICES ASSUME NEW h \in Torrents, Exists(Message(h)) PROVE entry'[Message(h)].fail > 0
      BY DEF Exists
    <3>1. CASE Message(h) = k BY <2>3, <3>1
    <3>2. CASE Message(h) # k BY <1>b, <2>4, <3>2 DEF Exists
    <3> QED BY <3>1, <3>2
  <2>6. CASE s = "enrich"
    <3>1. pc'["classify"] = pc["classify"] BY <1>a, <2>1, <2>6
    <3> QED BY <1>b, <2>1, <2>5, <3>1, OthersKnown
  <2>7. CASE s = "classify"
    <3>1. k = Message(at[s]) /\ pc["classify"] = "upsert"
          /\ pc'["classify"] \in {"backoff", "deleteTorrent"}
      BY <1>a, <2>1, <2>2, <2>7 DEF Message
    <3>a. Exists(Message(at["classify"]))' /\ at' = at BY <2>1, <2>3, <2>7 DEF Exists, Message
    <3> HIDE DEF k
    <3>2. NothingForgotten' BY <2>1, <2>5 DEF Known, NothingForgotten, Message
    <3>3. RecentKept' BY <2>1, <2>5, <3>a, <3>1 DEF Known, RecentKept, At
    <3>4. Removing' /\ Reported' BY <3>a, <3>1 DEF Removing, Reported, At
    <3> QED BY <3>2, <3>3, <3>4 DEF Known
  <2> QED BY <2>6, <2>7 DEF Stages
<1>4. CASE UpsertFails(s)
  <2>1. /\ UNCHANGED <<row, recent, entry, pending, at>> /\ lost' = lost \cup {at[s]}
        /\ pc[s] = "upsert" /\ pc' = [pc EXCEPT ![s] = "done"]
    BY <1>4 DEF UpsertFails, Goto, memory
  <2>2. CASE s = "enrich"
    <3>1. pc'["classify"] = pc["classify"] BY <1>a, <2>1, <2>2
    <3> QED BY <1>b, <2>1, <3>1, OthersKnown DEF Exists
  <2>3. CASE s = "classify"
    BY <1>a, <2>1, <2>3 DEF Known, NothingForgotten, RecentKept, Removing, Reported, At, Exists
  <2> QED BY <2>2, <2>3 DEF Stages
<1>5. CASE Backoff(s)
  <2>1. /\ UNCHANGED <<row, recent, pending, at, lost>>
        /\ pc[s] = "backoff" /\ pc' = [pc EXCEPT ![s] = "done"]
    BY <1>5 DEF Backoff, Goto, memory
  <2>2. \A k \in Keys : entry'[k].fail = entry[k].fail
    <3> SUFFICES ASSUME NEW k \in Keys PROVE entry'[k].fail = entry[k].fail OBVIOUS
    <3> DEFINE j == <<at[s], s>>
    <3>1. \/ entry' = entry
          \/ entry' = [entry EXCEPT ![j] = [entry[j] EXCEPT !.due = FALSE]]
      BY <1>a, <1>5 DEF Backoff
    <3>2. j \in Keys /\ entry[j] \in Entries /\ entry[k] \in Entries BY <1>a
    <3>3. [entry[j] EXCEPT !.due = FALSE].fail = entry[j].fail BY <3>2 DEF Entries
    <3> HIDE DEF j
    <3> QED BY <1>a, <3>1, <3>2, <3>3
  <2>3. \A h \in Torrents : Exists(Message(h))' <=> Exists(Message(h))
    BY <1>b, <2>2 DEF Exists
  <2>4. CASE s = "enrich"
    <3>1. pc'["classify"] = pc["classify"] BY <1>a, <2>1, <2>4
    <3> QED BY <1>b, <2>1, <2>3, <3>1, OthersKnown
  <2>5. CASE s = "classify"
    <3>1. pc["classify"] = "backoff" /\ pc'["classify"] = "done" BY <1>a, <2>1, <2>5
    <3>2. NothingForgotten' BY <2>1, <2>3 DEF Known, NothingForgotten, Message
    <3>3. RecentKept' /\ Removing' /\ Reported'
      BY <2>1, <2>3, <3>1 DEF Known, RecentKept, Removing, Reported, At
    <3> QED BY <3>2, <3>3 DEF Known
  <2> QED BY <2>4, <2>5 DEF Stages
<1>6. CASE Remove(s)
  <2>1. /\ UNCHANGED <<row, recent, pending, at>> /\ pc[s] = "remove"
        /\ pc' = [pc EXCEPT ![s] = IF s = "classify" THEN "publish" ELSE "done"]
        /\ lost' = IF s = "enrich" /\ row[at[s]] = "new" THEN lost \cup {at[s]} ELSE lost
    BY <1>6 DEF Remove, Goto, memory
  <2>2. \A h \in Torrents : h # at[s] => Exists(Message(h))' = Exists(Message(h))
    BY <1>6, DropExists DEF Remove
  <2>3. CASE s = "enrich"
    <3>1. pc'["classify"] = pc["classify"] /\ lost \subseteq lost' BY <1>a, <2>1, <2>3
    <3>2. ASSUME NEW h \in Torrents, row[h] = "new", Exists(Message(h))
          PROVE  Exists(Message(h))' \/ h \in lost'
      BY <2>1, <2>2, <2>3, <3>2
    <3> QED BY <1>b, <2>1, <3>1, <3>2, OthersKnown
  <2>4. CASE s = "classify"
    <3>1. pc["classify"] = "remove" /\ pc'["classify"] = "publish" /\ lost' = lost
      BY <1>a, <2>1, <2>4
    <3>2. row[at[s]] = "new" => at[s] \in lost \/ (~recent[at[s]] /\ pending[Message(at[s])] > 1)
      BY <1>a, <2>4, <3>1 DEF Known, Removing, At
    <3>3. NothingForgotten'
      <4> SUFFICES ASSUME NEW h \in Torrents, row[h] = "new"
                   PROVE  pending[Message(h)] > 0 \/ Exists(Message(h))' \/ h \in lost
        BY <2>1, <3>1 DEF NothingForgotten, Message
      <4>1. CASE h = at[s] BY <1>b, <3>2, <4>1
      <4>2. CASE h # at[s] BY <2>2, <4>2 DEF Known, NothingForgotten, Message
      <4> QED BY <4>1, <4>2
    <3>4. RecentKept' /\ Removing' /\ Reported'
      BY <1>a, <2>1, <2>2, <2>4, <3>1, <3>2 DEF Known, RecentKept, Removing, Reported, At
    <3> QED BY <3>3, <3>4 DEF Known
  <2> QED BY <2>3, <2>4 DEF Stages
<1>7. CASE EvictTorrent(s)
  BY <1>a, <1>7, EvictKnown
<1>8. CASE EvictEntry(s)
  BY <1>a, <1>8, EvictEntryKnown
<1> QED BY <1>1, <1>2, <1>3, <1>4, <1>5, <1>6, <1>7, <1>8 DEF ConsumerStep

\* Entries that keep their failures, and messages that stay, are all a torrent needs.
LEMMA FrameKnown ==
    ASSUME TypeOK, TypeOK', Known, UNCHANGED <<row, recent, lost>>,
           pc'["classify"] = pc["classify"], at'["classify"] = at["classify"],
           \A k \in Keys : pending'[k] >= pending[k] /\ (Exists(k) => Exists(k)')
    PROVE  Known'
<1>1. \A h \in Torrents : pending'[Message(h)] >= pending[Message(h)] BY MessageKey
<1>2. \A h \in Torrents : Exists(Message(h)) => Exists(Message(h))' BY MessageKey
<1> QED BY <1>1, <1>2, OthersKnown

\* The indexer's handler drops no entry before it reports.
LEMMA HandlersKnown ==
    ASSUME TypeOK, TypeOK', Known,
           Unindexed \/ \E succeeds \in BOOLEAN : Index(succeeds)
    PROVE  Known'
<1>1. UNCHANGED <<row, recent, lost, pending, entry, at>>
  BY DEF Unindexed, Index, memory
<1>2. pc'["classify"] = pc["classify"]
  BY DEF Unindexed, Index, Goto, TypeOK, Procs, Stages
<1>3. \A k \in Keys : pending'[k] >= pending[k] /\ (Exists(k) => Exists(k)')
  BY <1>1, EntryTypes DEF Exists
<1> QED BY <1>1, <1>2, <1>3, FrameKnown

\* Neither does the scheduler, whose marks write a count of at least one.
LEMMA SchedulerKnown == ASSUME IInv, TypeOK', Known, SchedulerStep PROVE Known'
<1>a. TypeOK /\ MarkCovers BY DEF IInv, Budgets
<1>b. /\ entry \in [Keys -> Entries] /\ "scheduler" \in Procs /\ "classify" \in Procs
      /\ \A k \in Keys : entry[k] \in Entries /\ entry[k].fail \in Nat /\ pending[k] \in Nat
  BY <1>a, EntryTypes DEF TypeOK, Procs, Stages
<1>c. /\ pc \in [Procs -> {"idle", "handle", "persist", "upsert", "backoff", "remove",
                           "publish", "deleteTorrent", "deleteEntry", "done", "scan", "mark"}]
      /\ at \in [Procs -> Torrents] /\ pending \in [Keys -> Nat]
  BY <1>a DEF TypeOK
<1>1. CASE ListDue \/ EndScan \/ \E i \in listed : Expire(i)
  <2>1. UNCHANGED <<row, recent, lost, pending, entry>>
    BY <1>1 DEF ListDue, EndScan, Expire, memory
  <2>2. pc'["classify"] = pc["classify"] /\ at'["classify"] = at["classify"]
    <3>1. CASE ListDue \/ EndScan
      <4>1. at' = at /\ (Goto("scheduler", "scan") \/ Goto("scheduler", "idle"))
        BY <3>1 DEF ListDue, EndScan
      <4> QED BY <1>b, <1>c, <4>1 DEF Goto
    <3>2. ASSUME NEW i \in listed, Expire(i)
          PROVE  pc'["classify"] = pc["classify"] /\ at'["classify"] = at["classify"]
      BY <3>2, <1>c DEF Expire, ToItem, Goto
    <3> QED BY <1>1, <3>1, <3>2
  <2>3. \A k \in Keys : pending'[k] >= pending[k] /\ (Exists(k) => Exists(k)')
    BY <2>1, <1>b DEF Exists
  <2> QED BY <1>a, <2>1, <2>2, <2>3, FrameKnown
<1>2. ASSUME NEW i \in listed, Dispatch(i) PROVE Known'
  <2>1. UNCHANGED <<row, recent, lost>> /\ i.key \in Keys
    BY <1>2, <1>a, EntryTypes DEF Dispatch, memory
  <2>2. pc'["classify"] = pc["classify"] /\ at'["classify"] = at["classify"]
    BY <1>2, <1>c DEF Dispatch, ToItem, Goto
  <2>3. \A k \in Keys : pending'[k] >= pending[k]
    BY <1>2, <1>b, <1>c, <2>1 DEF Dispatch, Send
  <2>4. \A k \in Keys : entry'[k].fail = entry[k].fail
    BY <1>2, <1>b, <2>1 DEF Dispatch, Entries
  <2> QED BY <1>a, <2>1, <2>2, <2>3, <2>4, FrameKnown DEF Exists
<1>3. CASE Mark
  <2>1. UNCHANGED <<row, recent, lost, pending, at>> BY <1>3 DEF Mark, NextItem, memory
  <2>2. pc'["classify"] = pc["classify"] BY <1>3, <1>c DEF Mark, NextItem, Goto
  <2>3. item \in Items /\ item.fail >= 1 BY <1>3, <1>a DEF Mark, MarkCovers, AtMark
  <2>4. \A k \in Keys : Exists(k) => Exists(k)'
    <3> SUFFICES ASSUME NEW k \in Keys, Exists(k) PROVE entry'[k].fail > 0 BY DEF Exists
    <3>1. CASE k = item.key
      <4>1. entry'[k] = Written(entry[k], item.fail, TRUE, FALSE, 0) BY <1>3, <1>b, <3>1 DEF Mark
      <4> QED BY <2>3, <4>1 DEF Written, Items
    <3>2. CASE k # item.key
      <4>1. entry'[k] = entry[k] BY <1>3, <1>b, <3>2 DEF Mark
      <4> QED BY <4>1 DEF Exists
    <3> QED BY <3>1, <3>2
  <2> QED BY <1>a, <1>b, <2>1, <2>2, <2>4, FrameKnown
<1>4. CASE MarkFails
  <2>1. UNCHANGED <<row, recent, lost, pending, at>> BY <1>4 DEF MarkFails, NextItem, memory
  <2>2. pc'["classify"] = pc["classify"] BY <1>4, <1>c DEF MarkFails, NextItem, Goto
  <2>3. \A k \in Keys : entry'[k].fail = entry[k].fail
    BY <1>4, <1>b DEF MarkFails, Uncounted, Entries
  <2> QED BY <1>a, <1>b, <2>1, <2>2, <2>3, FrameKnown DEF Exists
<1>5. CASE EvictTorrent("scheduler")
  BY <1>a, <1>b, <1>5, EvictKnown
<1>6. CASE EvictEntry("scheduler")
  BY <1>a, <1>b, <1>6, EvictEntryKnown
<1> QED BY <1>1, <1>2, <1>3, <1>4, <1>5, <1>6 DEF SchedulerStep

\* An operator's RetryNow and the passing of time keep the entries; a restart keeps the
\* messages and forgets what was handled recently.
LEMMA LifeKnown == ASSUME TypeOK, TypeOK', Held, Known, LifeStep PROVE Known'
<1>a. /\ entry \in [Keys -> Entries] /\ "classify" \in Procs
      /\ \A k \in Keys : entry[k] \in Entries /\ entry[k].fail \in Nat /\ pending[k] \in Nat
  BY EntryTypes DEF TypeOK, Procs, Stages
<1>1. ASSUME NEW h \in Torrents, Touch(h) PROVE Known'
  <2>1. UNCHANGED <<row, recent, lost, pending, pc, at>> BY <1>1 DEF Touch, procVars, memory
  <2>2. \A k \in Keys : Exists(k) => Exists(k)'
    BY <1>1, <1>a DEF Touch, Exists, Written
  <2> QED BY <1>a, <2>1, <2>2, FrameKnown
<1>2. ASSUME NEW j \in Keys, TimePasses(j) PROVE Known'
  <2>1. UNCHANGED <<row, recent, lost, pending, pc, at>> BY <1>2 DEF TimePasses, procVars, memory
  <2>2. \A k \in Keys : entry'[k].fail = entry[k].fail
    BY <1>2, <1>a DEF TimePasses, Entries
  <2> QED BY <1>a, <2>1, <2>2, FrameKnown DEF Exists
<1>3. CASE Clear
  <2>1. UNCHANGED <<row, recent, pending, pc, at>> /\ lost' = Torrents
    BY <1>3 DEF Clear, procVars, memory
  <2> QED BY <2>1 DEF Known, NothingForgotten, RecentKept, Removing, Reported
<1>4. CASE Crash
  <2>1. /\ UNCHANGED <<row, lost, pending>> /\ pc' = [p \in Procs |-> "idle"]
        /\ recent' = [h \in Torrents |-> FALSE]
    BY <1>4 DEF Crash
  <2>2. \A k \in Keys : entry'[k].fail = entry[k].fail
    BY <1>4, <1>a DEF Crash, Uncounted, Entries
  <2>3. \A h \in Torrents : Exists(Message(h))' <=> Exists(Message(h))
    BY <2>2, MessageKey DEF Exists
  <2>4. NothingForgotten' BY <2>1, <2>3 DEF Known, NothingForgotten, Message
  <2>5. RecentKept' /\ Removing' /\ Reported'
    BY <1>a, <2>1 DEF RecentKept, Removing, Reported, At
  <2> QED BY <2>4, <2>5 DEF Known
<1> QED BY <1>1, <1>2, <1>3, <1>4 DEF LifeStep

\* Every step keeps what is known of the torrents.
LEMMA KnownNext == IInv /\ Known /\ [Next]_vars => Known'
<1> SUFFICES ASSUME IInv, Known, [Next]_vars PROVE Known' OBVIOUS
<1>1. TypeOK /\ Held /\ TypeOK' BY InvNext DEF IInv
<1>2. CASE \E s \in Stages : ConsumerStep(s) BY <1>1, <1>2, ConsumerKnown
<1>3. CASE \/ Skip \/ Filter \/ ClassifierPanics \/ Persist \/ PersistFails \/ FetchFails
           \/ Publish \/ \E succeeds \in BOOLEAN : Classify(succeeds)
  BY <1>1, <1>3, ProcessorKnown
<1>4. CASE Unindexed \/ \E succeeds \in BOOLEAN : Index(succeeds)
  BY <1>1, <1>4, HandlersKnown
<1>5. CASE SchedulerStep BY <1>1, <1>5, SchedulerKnown
<1>6. CASE OutsideStep BY <1>1, <1>6, OutsideKnown
<1>7. CASE LifeStep BY <1>1, <1>7, LifeKnown
<1>8. CASE UNCHANGED vars
  BY <1>8 DEF vars, memory, procVars, Known, NothingForgotten, RecentKept, Removing, Reported, At,
              Exists
<1> QED BY <1>2, <1>3, <1>4, <1>5, <1>6, <1>7, <1>8
        DEF Next, ProcessorStep, IndexerStep, OutsideStep, LifeStep, Stages

(***************************************************************************)
(* processor.go and queue.go between them: however handlers, scheduler,    *)
(* evictions, rediscoveries and restarts interleave, a torrent that was    *)
(* never classified has a message or an entry, or is one of those that a   *)
(* recorded failure, an operator or a late report lost.                    *)
(***************************************************************************)
THEOREM AllRemembered == Spec => []NothingForgotten
<1>1. Init => IInv /\ Known BY InvInit, KnownInit
<1>2. (IInv /\ Known) /\ [Next]_vars => (IInv /\ Known)' BY InvNext, KnownNext
<1>3. Known => NothingForgotten BY DEF Known
<1> QED BY <1>1, <1>2, <1>3, PTL DEF Spec
=============================================================================
