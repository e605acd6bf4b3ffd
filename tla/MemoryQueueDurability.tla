----------------------- MODULE MemoryQueueDurability -----------------------
(***************************************************************************)
(* How the in-memory queue survives a restart                              *)
(* (src/internal/queue/memoryqueue/queue.go): the dirty flag, the persist  *)
(* loops, Close and Reset as Runtime.SwitchTo calls them, and Recover.     *)
(*                                                                         *)
(* One topic with one consumer group.  The topic keeps every message       *)
(* (TopicRing models its bounded ring).  persist is taken apart at its     *)
(* lock operations: it takes the flag, copies the topics, reads the        *)
(* offsets while it marshals the copy (the copy shares the offsets map     *)
(* with the queue, and the lock is no longer held), and writes one row.    *)
(***************************************************************************)
EXTENDS Integers

CONSTANTS Loops,        \* goroutines that may run StartPersistLoop
          Closer,       \* the goroutine that calls Close
          MaxMessages,  \* bound: NextSeq
          MaxFailures,  \* bound: failed persists
          MaxSwitches,  \* bound: times the queue is closed
          MaxRestarts   \* bound: restarts of the process

VARIABLES
    nextSeq,   \* ts.NextSeq
    offset,    \* mq.offsets[group][topic]
    dirty,     \* mq.dirty
    stopped,   \* mq.stopped
    stopCh,    \* which channel mq.stopCh is: one per Reset; all older ones are
               \* closed, this one is when stopped
    loop,      \* state of each loop: "off", "select" or "persist"
    watched,   \* the stop channel its select waits on
    leaving,   \* its persist is the last one: the stop channel was closed
    pc,        \* state of each goroutine's persist
    copied,    \* NextSeq in the copy it made
    encoded,   \* the offset it marshalled
    saved,     \* the row in the database: [next, offset]
    overtaken, \* history: goroutines that copied, and another wrote a newer copy since
    setBack,   \* history: one of them wrote the row last
    failures,
    restarts

loopVars == <<loop, watched, leaving>>
persistVars == <<pc, copied, encoded>>
rowVars == <<saved, overtaken, setBack>>
boundVars == <<failures, restarts>>
vars == <<nextSeq, offset, dirty, stopped, stopCh, loopVars, persistVars,
          rowVars, boundVars>>

Persisters == Loops \cup {Closer}

OneLoop(l) == [k \in Loops |-> IF k = l THEN "select" ELSE "off"]

Init ==
    /\ nextSeq = 0 /\ offset = 0
    /\ dirty = FALSE /\ stopped = FALSE /\ stopCh = 0
    /\ \E l \in Loops : loop = OneLoop(l)
    /\ watched = [l \in Loops |-> 0]
    /\ leaving = [l \in Loops |-> FALSE]
    /\ pc = [p \in Persisters |-> "idle"]
    /\ copied = [p \in Persisters |-> 0]
    /\ encoded = [p \in Persisters |-> 0]
    /\ saved = [next |-> 0, offset |-> 0]
    /\ overtaken = {} /\ setBack = FALSE
    /\ failures = 0 /\ restarts = 0

----------------------------------------------------------------------------
CleanAfterProduce == dirty  \* the flag not set
DirtyAfterProduce == TRUE

Produce ==
    /\ ~stopped
    /\ nextSeq < MaxMessages
    /\ nextSeq' = nextSeq + 1
    /\ dirty' = DirtyAfterProduce
    /\ UNCHANGED <<offset, stopped, stopCh, loopVars, persistVars, rowVars, boundVars>>

\* A consumer acknowledges its next message.  advanceOffset leaves dirty alone, and
\* consumers go on after Close until their supervisor restarts them.
AdvanceOffset ==
    /\ offset < nextSeq
    /\ offset' = offset + 1
    /\ UNCHANGED <<nextSeq, dirty, stopped, stopCh, loopVars, persistVars, rowVars, boundVars>>

----------------------------------------------------------------------------
(* persist *)

BeginPersist(p) ==
    /\ pc[p] = "idle"
    /\ pc' = [pc EXCEPT ![p] = "begin"]

\* Nothing to save: persist returns.
NotDirty(p) ==
    /\ pc[p] = "begin"
    /\ ~dirty
    /\ pc' = [pc EXCEPT ![p] = "done"]
    /\ UNCHANGED <<nextSeq, offset, dirty, stopped, stopCh, loopVars, copied, encoded, rowVars, boundVars>>

TakeDirty(p) ==
    /\ pc[p] = "begin"
    /\ dirty
    /\ dirty' = FALSE
    /\ pc' = [pc EXCEPT ![p] = "taken"]
    /\ UNCHANGED <<nextSeq, offset, stopped, stopCh, loopVars, copied, encoded, rowVars, boundVars>>

BuildPersistState(p) ==
    /\ pc[p] = "taken"
    /\ copied' = [copied EXCEPT ![p] = nextSeq]
    /\ pc' = [pc EXCEPT ![p] = "built"]
    /\ UNCHANGED <<nextSeq, offset, dirty, stopped, stopCh, loopVars, encoded, rowVars, boundVars>>

\* json.Marshal reads the offsets map itself, after buildPersistState has returned
\* and released the lock.
EncodedOffset == offset

Marshal(p) ==
    /\ pc[p] = "built"
    /\ encoded' = [encoded EXCEPT ![p] = EncodedOffset]
    /\ pc' = [pc EXCEPT ![p] = "encoded"]
    /\ UNCHANGED <<nextSeq, offset, dirty, stopped, stopCh, loopVars, copied, rowVars, boundVars>>

\* The row is replaced by whatever was copied, also when another has replaced it by a newer
\* copy meanwhile; nothing is done to the flag.
CleanAfterUpsert == FALSE  \* the flag cleared once the row is written
DirtyAfterUpsert == dirty

Older(p) == {q \in Persisters : pc[q] \in {"built", "encoded"} /\ copied[q] < copied[p]}

Upsert(p) ==
    /\ pc[p] = "encoded"
    /\ saved' = [next |-> copied[p], offset |-> encoded[p]]
    /\ dirty' = DirtyAfterUpsert
    /\ setBack' = (p \in overtaken)
    /\ overtaken' = (overtaken \cup Older(p)) \ {p}
    /\ pc' = [pc EXCEPT ![p] = "done"]
    /\ UNCHANGED <<nextSeq, offset, stopped, stopCh, loopVars, copied, encoded, boundVars>>

\* No pool, or marshalling, compressing or writing failed.
ForgetAfterFailure == dirty  \* the flag not given back
DirtyAfterFailure  == TRUE

PersistFails(p) ==
    /\ pc[p] \in {"taken", "built", "encoded"}
    /\ failures < MaxFailures
    /\ failures' = failures + 1
    /\ dirty' = DirtyAfterFailure
    /\ overtaken' = overtaken \ {p}
    /\ pc' = [pc EXCEPT ![p] = "done"]
    /\ UNCHANGED <<nextSeq, offset, stopped, stopCh, loopVars, copied, encoded, saved, setBack, restarts>>

Persist(p) ==
    NotDirty(p) \/ TakeDirty(p) \/ BuildPersistState(p) \/ Marshal(p) \/ Upsert(p)

----------------------------------------------------------------------------
(* StartPersistLoop *)

\* The ticker fires or SignalPersist was called.
Tick(l) ==
    /\ loop[l] = "select"
    /\ loop' = [loop EXCEPT ![l] = "persist"]
    /\ leaving' = [leaving EXCEPT ![l] = FALSE]
    /\ BeginPersist(l)
    /\ UNCHANGED <<nextSeq, offset, dirty, stopped, stopCh, watched, copied, encoded, rowVars, boundVars>>

Closed(channel) == channel < stopCh \/ stopped

StopSeen(l) ==
    /\ loop[l] = "select"
    /\ Closed(watched[l])
    /\ loop' = [loop EXCEPT ![l] = "persist"]
    /\ leaving' = [leaving EXCEPT ![l] = TRUE]
    /\ BeginPersist(l)
    /\ UNCHANGED <<nextSeq, offset, dirty, stopped, stopCh, watched, copied, encoded, rowVars, boundVars>>

\* persist has returned: the loop ends, or selects again on whatever channel
\* mq.stopCh is by now.
LoopAgain(l) ==
    /\ loop[l] = "persist"
    /\ pc[l] = "done"
    /\ pc' = [pc EXCEPT ![l] = "idle"]
    /\ loop' = [loop EXCEPT ![l] = IF leaving[l] THEN "off" ELSE "select"]
    /\ watched' = [watched EXCEPT ![l] = stopCh]
    /\ UNCHANGED <<nextSeq, offset, dirty, stopped, stopCh, leaving, copied, encoded, rowVars, boundVars>>

----------------------------------------------------------------------------
(* Runtime.SwitchTo and the restart of the process *)

\* CloseMemoryQueue, when the backend changes or the process shuts down.
Close ==
    /\ ~stopped
    /\ stopCh < MaxSwitches
    /\ stopped' = TRUE
    /\ BeginPersist(Closer)
    /\ UNCHANGED <<nextSeq, offset, dirty, stopCh, loopVars, copied, encoded, rowVars, boundVars>>

\* SwitchTo back to the memory backend; SwitchTo's lock orders it after Close.
Reset ==
    /\ stopped
    /\ pc[Closer] = "done"
    /\ stopped' = FALSE
    /\ stopCh' = stopCh + 1
    /\ pc' = [pc EXCEPT ![Closer] = "idle"]
    /\ \E l \in Loops :
          /\ loop[l] = "off"
          /\ loop' = [loop EXCEPT ![l] = "select"]
          /\ watched' = [watched EXCEPT ![l] = stopCh']
    /\ UNCHANGED <<nextSeq, offset, dirty, leaving, copied, encoded, rowVars, boundVars>>

\* The process dies at any point, or exits after Close; the new one recovers.
RecoveredOffset == saved.offset

Restart ==
    /\ restarts < MaxRestarts
    /\ restarts' = restarts + 1
    /\ nextSeq' = saved.next
    /\ offset' = RecoveredOffset
    /\ dirty' = FALSE /\ stopped' = FALSE /\ stopCh' = 0
    /\ \E l \in Loops : loop' = OneLoop(l)
    /\ watched' = [l \in Loops |-> 0]
    /\ leaving' = [l \in Loops |-> FALSE]
    /\ pc' = [p \in Persisters |-> "idle"]
    /\ copied' = [p \in Persisters |-> 0]
    /\ encoded' = [p \in Persisters |-> 0]
    /\ overtaken' = {} /\ setBack' = FALSE
    /\ UNCHANGED <<saved, failures>>

----------------------------------------------------------------------------
Run(p) ==
    \/ Persist(p)
    \/ p \in Loops /\ (Tick(p) \/ StopSeen(p) \/ LoopAgain(p))

Next ==
    \/ Produce \/ AdvanceOffset \/ Close \/ Reset \/ Restart
    \/ \E p \in Persisters : Run(p) \/ PersistFails(p)

Spec == Init /\ [][Next]_vars

\* Goroutines that can run do, and the ticker fires.  The database answers in the
\* end: at most MaxFailures persists fail.
FairSpec == Spec /\ \A p \in Persisters : WF_vars(Run(p))

----------------------------------------------------------------------------
PersistPC == {"idle", "begin", "taken", "built", "encoded", "done"}

\* Type invariant.  A copy never runs ahead of the queue it was made from.
TypeOK ==
    /\ nextSeq \in Nat /\ offset \in Nat
    /\ dirty \in BOOLEAN /\ stopped \in BOOLEAN /\ stopCh \in Nat
    /\ loop \in [Loops -> {"off", "select", "persist"}]
    /\ watched \in [Loops -> Nat] /\ leaving \in [Loops -> BOOLEAN]
    /\ pc \in [Persisters -> PersistPC]
    /\ copied \in [Persisters -> 0 .. nextSeq]
    /\ encoded \in [Persisters -> Nat]
    /\ saved \in [next : Nat, offset : Nat]
    /\ overtaken \subseteq Persisters /\ setBack \in BOOLEAN
    /\ failures \in Nat /\ restarts \in Nat

\* A persist that will still write the messages below n, unless it fails.
Carries(p, n) ==
    \/ pc[p] = "taken"
    \/ pc[p] \in {"built", "encoded"} /\ copied[p] >= n

(***************************************************************************)
(* delivery.go promises delivery at least once, so what the row lacks must *)
(* come to it: however many loops and Close persist at once, and wherever  *)
(* a persist fails, a message that is not in the row is covered by the     *)
(* flag or by a persist in flight.  There is one exception, and the code   *)
(* has it: of two persists that overlap the one with the older copy may    *)
(* write last, and then the row lacks messages that it had, although the   *)
(* flag is down and nobody is at work (queue.go:282).                      *)
(***************************************************************************)
RowBehindCovered ==
    saved.next < nextSeq => \/ dirty
                            \/ \E p \in Persisters : Carries(p, nextSeq)
                            \/ setBack

(***************************************************************************)
(* delivery.go:1-9 promises delivery at least once.  A message about to be *)
(* produced must then not lie below the offset of a group already:         *)
(* alreadyProcessed would skip it.                                         *)
(***************************************************************************)
NewMessagesDeliverable == offset <= nextSeq

(***************************************************************************)
(* While the queue is open and the process lives, every message comes to   *)
(* the row and is there from then on, although persists fail and race with *)
(* each other, unless the row is set back; and that is mended by the next  *)
(* message, but by nothing else.                                           *)
(***************************************************************************)
EventuallySaved ==
    /\ \A n \in 1 .. MaxMessages : \A r \in 0 .. MaxRestarts :
          (nextSeq >= n /\ restarts = r)
              ~> (saved.next >= n \/ setBack \/ restarts # r \/ stopped)
    /\ \A r \in 0 .. MaxRestarts :
          (setBack /\ dirty /\ restarts = r) ~> (~setBack \/ restarts # r \/ stopped)
=============================================================================
