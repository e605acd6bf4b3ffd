------------------------------ MODULE DhtServer ------------------------------
(***************************************************************************)
(* The querying side of the DHT server                                     *)
(* (src/internal/protocol/dht/server/server.go) and its callers in         *)
(* src/internal/protocol/dht/client/server_adapter.go.  Each Query issues  *)
(* a transaction id, registers a channel of capacity 1 under it, sends and *)
(* waits; the read loop gives every response to a goroutine of its own,    *)
(* which looks the channel up and sends outside of the mutex.  The network *)
(* may lose, delay and duplicate responses.                                *)
(***************************************************************************)
EXTENDS Naturals, Sequences, FiniteSets

CONSTANTS Queries,
          Scrapes,     \* those of them that GetPeersScrape makes
          MaxPackets   \* bound: responses received

VARIABLES call,       \* query -> where it is
          tid,        \* query -> its transaction id
          nextId,     \* idIssuer.next
          registered, \* transaction id -> whether s.queries has a channel under it
          buffer,     \* transaction id -> what is in the channel made for it
          outcome,    \* query -> what its caller got
          answeredBy, \* history: query -> the query that the response it took answers
          handler,    \* packet -> the goroutine that handles the response
          packets,    \* responses received so far
          reading,    \* the read loop runs
          opened      \* the socket is open

queryVars == <<call, tid, nextId, outcome, answeredBy>>
socketVars == <<packets, reading, opened>>
vars == <<queryVars, registered, buffer, handler, socketVars>>

Ids == 0 .. Cardinality(Queries) - 1
NoId == Cardinality(Queries)
Packets == 1 .. MaxPackets
NoQuery == "none"
\* A return with both bloom filters, one without, an error or a response without return.
Bodies == {"filters", "return", "error"}
NoHandler == [at |-> "none", for |-> NoQuery, body |-> "error"]
Handlers == [at : {"none", "spawned", "found", "gone"}, for : Queries \cup {NoQuery}, body : Bodies]

Init ==
    /\ call = [q \in Queries |-> "new"]
    /\ tid = [q \in Queries |-> NoId]
    /\ nextId = 0
    /\ registered = [i \in Ids |-> FALSE]
    /\ buffer = [i \in Ids |-> <<>>]
    /\ outcome = [q \in Queries |-> "none"]
    /\ answeredBy = [q \in Queries |-> NoQuery]
    /\ handler = [p \in Packets |-> NoHandler]
    /\ packets = 0 /\ reading = TRUE /\ opened = TRUE

----------------------------------------------------------------------------
(* Query *)

SameId(n) == n       \* the counter read outside of the issuer's mutex
IncrementedId(n) == n + 1

Register(q) ==
    /\ call[q] = "new"
    /\ tid' = [tid EXCEPT ![q] = nextId]
    /\ nextId' = IncrementedId(nextId)
    /\ registered' = [registered EXCEPT ![nextId] = TRUE]
    /\ call' = [call EXCEPT ![q] = "sending"]
    /\ UNCHANGED <<outcome, answeredBy, buffer, handler, socketVars>>

Send(q) ==
    /\ call[q] = "sending" /\ opened
    /\ call' = [call EXCEPT ![q] = "waiting"]
    /\ UNCHANGED <<tid, nextId, outcome, answeredBy, registered, buffer, handler, socketVars>>

\* A socket that is closed or an address of another family.
SendFails(q) ==
    /\ call[q] = "sending"
    /\ outcome' = [outcome EXCEPT ![q] = "failed"]
    /\ call' = [call EXCEPT ![q] = "leaving"]
    /\ UNCHANGED <<tid, nextId, answeredBy, registered, buffer, handler, socketVars>>

\* What Query and the adapter make of the response.
FiltersUnchecked(q, body) == IF body \in {"return", "filters"} THEN "ok" ELSE "failed"
Result(q, body) ==
    IF body = "filters" \/ (body = "return" /\ q \notin Scrapes) THEN "ok" ELSE "failed"

TakeResponse(q) ==
    /\ call[q] = "waiting" /\ buffer[tid[q]] # <<>>
    /\ outcome' = [outcome EXCEPT ![q] = Result(q, Head(buffer[tid[q]]).body)]
    /\ answeredBy' = [answeredBy EXCEPT ![q] = Head(buffer[tid[q]]).for]
    /\ buffer' = [buffer EXCEPT ![tid[q]] = Tail(@)]
    /\ call' = [call EXCEPT ![q] = "leaving"]
    /\ UNCHANGED <<tid, nextId, registered, handler, socketVars>>

Unlimited == FALSE   \* no timeout around the select
Limited == TRUE

Timeout(q) ==
    /\ call[q] = "waiting" /\ Limited
    /\ outcome' = [outcome EXCEPT ![q] = "timeout"]
    /\ call' = [call EXCEPT ![q] = "leaving"]
    /\ UNCHANGED <<tid, nextId, answeredBy, registered, buffer, handler, socketVars>>

\* The deferred function, on every way out.
OnResponse(q) == answeredBy[q] = NoQuery  \* only once answered
Deleted(q) == FALSE

Leave(q) ==
    /\ call[q] = "leaving"
    /\ registered' = [registered EXCEPT ![tid[q]] = Deleted(q)]
    /\ call' = [call EXCEPT ![q] = "done"]
    /\ UNCHANGED <<tid, nextId, outcome, answeredBy, buffer, handler, socketVars>>

----------------------------------------------------------------------------
(* The read loop and the goroutines it starts. *)

Receive(q, body) ==
    /\ call[q] \notin {"new", "sending"}
    /\ reading /\ opened /\ packets < MaxPackets
    /\ packets' = packets + 1
    /\ handler' = [handler EXCEPT ![packets + 1] = [at |-> "spawned", for |-> q, body |-> body]]
    /\ UNCHANGED <<queryVars, registered, buffer, reading, opened>>

\* Any error of the socket ends the loop; nothing starts it again.
ReadFails ==
    /\ reading
    /\ reading' = FALSE
    /\ UNCHANGED <<queryVars, registered, buffer, handler, packets, opened>>

Stop ==
    /\ opened
    /\ opened' = FALSE
    /\ UNCHANGED <<queryVars, registered, buffer, handler, packets, reading>>

LookUp(p) ==
    /\ handler[p].at = "spawned"
    /\ handler' = [handler EXCEPT ![p].at = IF registered[tid[handler[p].for]] THEN "found" ELSE "gone"]
    /\ UNCHANGED <<queryVars, registered, buffer, socketVars>>

TwoPlaces(id) == Len(buffer[id]) < 2
Unbuffered(id) == \E q \in Queries : call[q] = "waiting" /\ tid[q] = id /\ buffer[id] = <<>>
HasRoom(id) == buffer[id] = <<>>

Deliver(p) ==
    LET id == tid[handler[p].for]
    IN /\ handler[p].at = "found" /\ HasRoom(id)
       /\ buffer' = [buffer EXCEPT ![id] = Append(@, [for |-> handler[p].for, body |-> handler[p].body])]
       /\ handler' = [handler EXCEPT ![p].at = "gone"]
       /\ UNCHANGED <<queryVars, registered, socketVars>>

----------------------------------------------------------------------------
QueryStep(q) == Register(q) \/ Send(q) \/ SendFails(q) \/ TakeResponse(q) \/ Timeout(q) \/ Leave(q)
Handle(p) == LookUp(p) \/ Deliver(p)

Next ==
    \/ \E q \in Queries : QueryStep(q)
    \/ \E q \in Queries, body \in Bodies : Receive(q, body)
    \/ \E p \in Packets : Handle(p)
    \/ ReadFails \/ Stop

Spec == Init /\ [][Next]_vars

\* A call and a goroutine go on as long as they can; the network owes nothing.
Fairness ==
    /\ \A q \in Queries : WF_vars(call[q] # "new" /\ QueryStep(q))
    /\ \A p \in Packets : WF_vars(Handle(p))
FairSpec == Spec /\ Fairness

----------------------------------------------------------------------------
\* Type invariant.
TypeOK ==
    /\ call \in [Queries -> {"new", "sending", "waiting", "leaving", "done"}]
    /\ tid \in [Queries -> Ids \cup {NoId}] /\ nextId \in 0 .. NoId
    /\ registered \in [Ids -> BOOLEAN]
    /\ \A i \in Ids : Len(buffer[i]) <= 1
    /\ outcome \in [Queries -> {"none", "ok", "failed", "timeout"}]
    /\ answeredBy \in [Queries -> Queries \cup {NoQuery}]
    /\ handler \in [Packets -> Handlers]
    /\ packets \in 0 .. MaxPackets
    /\ reading \in BOOLEAN /\ opened \in BOOLEAN

\* However late or how often a response comes, it never answers another query
\* than the one it was sent for.
AnsweredByOwn == \A q \in Queries : answeredBy[q] \in {q, NoQuery}

\* Once a query has returned, by whatever way, a response finds no channel.
NoLeftover == \A i \in Ids : registered[i] => \E q \in Queries : tid[q] = i /\ call[q] # "done"

\* A goroutine that can never send, because the query is over and the channel
\* full, holds at least the second response to it that was received.
OnlyDuplicatesStick ==
    \A p \in Packets :
        (handler[p].at = "found" /\ ~HasRoom(tid[handler[p].for])) =>
            \E o \in Packets : o # p /\ handler[o].for = handler[p].for /\ handler[o].at = "gone"

\* The caller of GetPeersScrape can rely on both filters being there.
ScrapeHasFilters ==
    [][\A q \in Scrapes : outcome[q] = "none" /\ outcome'[q] = "ok" =>
         Head(buffer[tid[q]]).body = "filters"]_vars

\* Every call of Query returns, whatever the network and the read loop do.
QueryReturns == \A q \in Queries : call[q] = "sending" ~> call[q] = "done"
=============================================================================
