---------------------------- MODULE WorkerRegistry ----------------------------
(***************************************************************************)
(* The worker registry (src/internal/worker/worker.go).  Start and Stop    *)
(* walk through the map of workers, in an order Go leaves open, while they *)
(* hold the registry's mutex, and call the hook of each worker, which may  *)
(* fail.  What a worker really does is kept apart from the flags: running  *)
(* says whether its hook has started it and not stopped it since.          *)
(***************************************************************************)
EXTENDS FiniteSets, Naturals

CONSTANTS Workers,
          MaxCalls  \* bound: calls of Start and of Stop

VARIABLES flagEnabled, \* worker.enabled
          flagStarted, \* worker.started
          active,      \* the worker's goroutines, consumers or servers are there
          call,        \* the call that holds the mutex
          todo,        \* the workers it has still to visit
          began,       \* how many workers this Start has started
          refused,     \* workers whose stop hook failed in the last Stop
          result,      \* how the last Start or Stop ended
          calls        \* calls so far

vars == <<flagEnabled, flagStarted, active, call, todo, began, refused, result, calls>>

Init ==
    /\ flagEnabled = [w \in Workers |-> FALSE]
    /\ flagStarted = [w \in Workers |-> FALSE]
    /\ active = [w \in Workers |-> FALSE]
    /\ call = "none" /\ todo = {} /\ began = 0
    /\ refused = {} /\ result = "none" /\ calls = 0

----------------------------------------------------------------------------
Enable(names, on) ==
    /\ call = "none"
    /\ flagEnabled' = [w \in Workers |-> IF w \in names THEN on ELSE flagEnabled[w]]
    /\ flagEnabled' # flagEnabled
    /\ UNCHANGED <<flagStarted, active, call, todo, began, refused, result, calls>>

LeftFromLast == began  \* a counter of the registry
NoneYet == 0

Begin(name) ==
    /\ call = "none" /\ calls < MaxCalls
    /\ call' = name /\ todo' = Workers /\ began' = NoneYet /\ calls' = calls + 1
    /\ refused' = IF name = "stop" THEN {} ELSE refused
    /\ UNCHANGED <<flagEnabled, flagStarted, active, result>>

Return(value) ==
    /\ call' = "none" /\ todo' = {} /\ result' = value
    /\ UNCHANGED <<flagEnabled, refused, calls>>

\* Start's loop body, for one worker.
MayStart(w) == TRUE           \* the flag not looked at
NotStarted(w) == ~flagStarted[w]

Pass(w) ==
    /\ call = "start" /\ w \in todo
    /\ ~flagEnabled[w]
    /\ todo' = todo \ {w}
    /\ UNCHANGED <<flagEnabled, flagStarted, active, call, began, refused, result, calls>>

AlreadyStarted(w) ==
    /\ call = "start" /\ w \in todo
    /\ flagEnabled[w] /\ ~NotStarted(w)
    /\ Return("alreadyStarted")
    /\ UNCHANGED <<flagStarted, active, began>>

StartWorker(w) ==
    /\ call = "start" /\ w \in todo
    /\ flagEnabled[w] /\ NotStarted(w)
    /\ active' = [active EXCEPT ![w] = TRUE]
    /\ flagStarted' = [flagStarted EXCEPT ![w] = TRUE]
    /\ began' = began + 1 /\ todo' = todo \ {w}
    /\ UNCHANGED <<flagEnabled, call, refused, result, calls>>

\* An error of one start hook ends Start; what was started stays started.
StartFails(w) ==
    /\ call = "start" /\ w \in todo
    /\ flagEnabled[w] /\ NotStarted(w)
    /\ Return("hookFailed")
    /\ UNCHANGED <<flagStarted, active, began>>

EndStart ==
    /\ call = "start" /\ todo = {}
    /\ Return(IF began = 0 THEN "noneEnabled" ELSE "started")
    /\ UNCHANGED <<flagStarted, active, began>>

\* Stop's loop body, for one worker.
EnabledOnly(w) == flagStarted[w] /\ flagEnabled[w]  \* disabled workers left running
IsStarted(w) == flagStarted[w]

LeaveStopped(w) ==
    /\ call = "stop" /\ w \in todo
    /\ ~IsStarted(w)
    /\ todo' = todo \ {w}
    /\ UNCHANGED <<flagEnabled, flagStarted, active, call, began, refused, result, calls>>

StopWorker(w) ==
    /\ call = "stop" /\ w \in todo
    /\ IsStarted(w)
    /\ active' = [active EXCEPT ![w] = FALSE]
    /\ flagStarted' = [flagStarted EXCEPT ![w] = FALSE]
    /\ todo' = todo \ {w}
    /\ UNCHANGED <<flagEnabled, call, began, refused, result, calls>>

\* The error of a stop hook is logged and the walk goes on; the worker, which
\* may have stopped or not, keeps its flag.
FlagAfterError(w) == [flagStarted EXCEPT ![w] = FALSE]  \* the flag cleared all the same
FlagKept(w) == flagStarted

StopFails(w, still) ==
    /\ call = "stop" /\ w \in todo
    /\ IsStarted(w)
    /\ active' = [active EXCEPT ![w] = @ /\ still]
    /\ flagStarted' = FlagKept(w)
    /\ refused' = refused \cup {w}
    /\ todo' = todo \ {w}
    /\ UNCHANGED <<flagEnabled, call, began, result, calls>>

EndStop ==
    /\ call = "stop" /\ todo = {}
    /\ Return("stopped")
    /\ UNCHANGED <<flagStarted, active, began>>

Visit(w) ==
    \/ Pass(w) \/ AlreadyStarted(w) \/ StartWorker(w) \/ StartFails(w)
    \/ LeaveStopped(w) \/ StopWorker(w) \/ \E still \in BOOLEAN : StopFails(w, still)

Next ==
    \/ \E names \in SUBSET Workers, on \in BOOLEAN : Enable(names, on)
    \/ Begin("start") \/ Begin("stop")
    \/ \E w \in Workers : Visit(w)
    \/ EndStart \/ EndStop

Spec == Init /\ [][Next]_vars

----------------------------------------------------------------------------
\* Type invariant.
TypeOK ==
    /\ flagEnabled \in [Workers -> BOOLEAN]
    /\ flagStarted \in [Workers -> BOOLEAN]
    /\ active \in [Workers -> BOOLEAN]
    /\ call \in {"none", "start", "stop"}
    /\ todo \subseteq Workers /\ refused \subseteq Workers
    /\ began \in 0 .. Cardinality(Workers) /\ calls \in 0 .. MaxCalls
    /\ result \in {"none", "started", "alreadyStarted", "hookFailed",
                   "noneEnabled", "stopped"}

\* The start hook of a worker that is there is never called again: not after a
\* failed Start, not after a Stop whose hook failed.
NoDoubleStart ==
    [][\A w \in todo \ todo' : began' > began => ~active[w]]_vars

\* Whatever was started carries the flag by which Stop finds it, also after a
\* Start that an error cut short.
ActiveIsFlagged == \A w \in Workers : active[w] => flagStarted[w]

\* After Stop only the workers whose own stop hook failed are still there; a
\* worker disabled while it was running is stopped with the others.
StopReachesAll == call = "none" /\ result = "stopped" => \A w \in Workers : active[w] => w \in refused
=============================================================================
