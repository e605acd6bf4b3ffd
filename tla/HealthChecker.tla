---------------------------- MODULE HealthChecker ----------------------------
(***************************************************************************)
(* The health checker (src/internal/health/check.go): one goroutine per    *)
(* check copies the state of its check, executes the check without the     *)
(* lock and writes the new state back, with the aggregated status.  All    *)
(* the checks of the program are periodic.  Times are left out: a check    *)
(* fails, or answers too late, while its component is not healthy, and     *)
(* MaxTimeInError is zero as the program leaves it.                        *)
(***************************************************************************)
EXTENDS Naturals, FiniteSets

CONSTANTS Checks,
          MaxFails,     \* check -> MaxContiguousFails
          Delayed,      \* the checks with an initial delay
          MaxRestarts,  \* bound: calls of Start
          MaxChanges    \* bound: changes of a component or of its use

VARIABLES health,     \* ck.state.CheckState
          overall,    \* ck.state.Status
          isRunning,  \* ck.started
          cancelled,  \* the context of the last Start
          stopping,   \* Stop waits for the goroutines
          at,         \* check -> where its goroutine is
          copy,       \* check -> the state it read, then the one it will write
          healthy,    \* the components that answer
          inUse,      \* the checks whose IsActive holds
          streak,     \* history: failures of a check since its last success
          observed,   \* history: the checks executed so far
          starts, changes

goroutines == <<at, copy>>
world == <<healthy, inUse, changes>>
vars == <<health, overall, isRunning, cancelled, stopping, goroutines, world, streak, observed, starts>>

Statuses == {"unknown", "up", "down", "inactive"}
Unchecked == [status |-> "unknown", fails |-> 0]

Init ==
    /\ health = [c \in Checks |-> Unchecked]
    /\ overall = "unknown"
    /\ isRunning = FALSE /\ cancelled = FALSE /\ stopping = FALSE
    /\ at = [c \in Checks |-> "none"]
    /\ copy = [c \in Checks |-> Unchecked]
    /\ healthy \in SUBSET Checks /\ inUse \in SUBSET Checks /\ changes = 0
    /\ streak = [c \in Checks |-> 0] /\ observed = {}
    /\ starts = 0

----------------------------------------------------------------------------
Ignored(status) == IF status = "down" THEN 2 ELSE 0  \* "unknown" not critical
Criticality(status) ==
    CASE status = "down" -> 2 [] status = "unknown" -> 1 [] OTHER -> 0

\* aggregateStatus starts from "up" and goes over to what is more critical.
Unset == ""          \* it starts from no status
Previous == overall  \* it starts from the status there was
Best == "up"

Aggregate(states) ==
    LET critical == {s \in {states[c].status : c \in Checks} : Criticality(s) > Criticality(Best)}
    IN CHOOSE s \in {Best} \cup critical : \A t \in critical : Criticality(t) <= Criticality(s)

\* Start launches a goroutine per check; Check, which an initial goroutine and every
\* request to /status call, only aggregates.
Start ==
    /\ ~isRunning /\ ~stopping /\ starts <= MaxRestarts
    /\ isRunning' = TRUE /\ cancelled' = FALSE /\ starts' = starts + 1
    /\ at' = [c \in Checks |-> IF c \in Delayed THEN "delay" ELSE "read"]
    /\ UNCHANGED <<health, overall, stopping, copy, world, streak, observed>>

Check ==
    /\ isRunning
    /\ overall' = Aggregate(health)
    /\ UNCHANGED <<health, isRunning, cancelled, stopping, goroutines, world, streak, observed, starts>>

BeginStop ==
    /\ isRunning /\ ~stopping
    /\ cancelled' = TRUE /\ stopping' = TRUE
    /\ UNCHANGED <<health, overall, isRunning, goroutines, world, streak, observed, starts>>

NotWaited == TRUE    \* no wg.Wait
AllGone == \A c \in Checks : at[c] = "none"

EndStop ==
    /\ stopping /\ AllGone
    /\ stopping' = FALSE /\ isRunning' = FALSE
    /\ UNCHANGED <<health, overall, cancelled, goroutines, world, streak, observed, starts>>

----------------------------------------------------------------------------
(* The goroutine of a check. *)

DelayOver(c) ==
    /\ at[c] = "delay"
    /\ at' = [at EXCEPT ![c] = "read"]
    /\ UNCHANGED <<health, overall, isRunning, cancelled, stopping, copy, world, streak, observed, starts>>

Read(c) ==
    /\ at[c] = "read"
    /\ copy' = [copy EXCEPT ![c] = health[c]]
    /\ at' = [at EXCEPT ![c] = "execute"]
    /\ UNCHANGED <<health, overall, isRunning, cancelled, stopping, world, streak, observed, starts>>

Inactive(c) ==
    /\ at[c] = "execute" /\ c \notin inUse
    /\ copy' = [copy EXCEPT ![c].status = "inactive"]
    /\ at' = [at EXCEPT ![c] = "write"]
    /\ observed' = observed \cup {c}
    /\ UNCHANGED <<health, overall, isRunning, cancelled, stopping, world, streak, starts>>

\* evaluateCheckStatus: the number of failures includes this one.
TooFew(fails, c) == fails + 1 >= MaxFails[c]  \* one failure less than allowed
TooMany(fails, c) == fails >= MaxFails[c]

\* ContiguousFails is only compared with MaxFails, so counting may end there.
Plus(fails, c) == IF fails < MaxFails[c] THEN fails + 1 ELSE fails

\* Once the context is cancelled a check may count as timed out.
Execute(c, ok) ==
    /\ at[c] = "execute" /\ c \in inUse
    /\ IF ok THEN c \in healthy ELSE c \notin healthy \/ cancelled
    /\ LET fails == IF ok THEN 0 ELSE Plus(copy[c].fails, c)
       IN copy' = [copy EXCEPT ![c] =
                     [fails |-> fails,
                      status |-> IF ~ok /\ TooMany(fails, c) THEN "down" ELSE "up"]]
    /\ streak' = [streak EXCEPT ![c] = IF ok THEN 0 ELSE Plus(@, c)]
    /\ observed' = observed \cup {c}
    /\ at' = [at EXCEPT ![c] = "write"]
    /\ UNCHANGED <<health, overall, isRunning, cancelled, stopping, world, starts>>

Write(c) ==
    /\ at[c] = "write"
    /\ health' = [health EXCEPT ![c] = copy[c]]
    /\ overall' = Aggregate(health')
    /\ at' = [at EXCEPT ![c] = "wait"]
    /\ UNCHANGED <<isRunning, cancelled, stopping, copy, world, streak, observed, starts>>

Again(c) ==
    /\ at[c] = "wait"
    /\ at' = [at EXCEPT ![c] = "read"]
    /\ UNCHANGED <<health, overall, isRunning, cancelled, stopping, copy, world, streak, observed, starts>>

Leave(c) ==
    /\ at[c] \in {"delay", "wait"} /\ cancelled
    /\ at' = [at EXCEPT ![c] = "none"]
    /\ UNCHANGED <<health, overall, isRunning, cancelled, stopping, copy, world, streak, observed, starts>>

----------------------------------------------------------------------------
(* The components, and which of them the configuration uses. *)

Toggled(set, c) == (set \ {c}) \cup ({c} \ set)

Change(c) ==
    /\ changes < MaxChanges
    /\ changes' = changes + 1
    /\ \/ healthy' = Toggled(healthy, c) /\ UNCHANGED inUse
       \/ inUse' = Toggled(inUse, c) /\ UNCHANGED healthy
    /\ UNCHANGED <<health, overall, isRunning, cancelled, stopping, goroutines, streak, observed, starts>>

Step(c) ==
    \/ DelayOver(c) \/ Read(c) \/ Inactive(c) \/ Write(c) \/ Again(c) \/ Leave(c)
    \/ \E ok \in BOOLEAN : Execute(c, ok)

Next ==
    \/ Start \/ Check \/ BeginStop \/ EndStop
    \/ \E c \in Checks : Step(c) \/ Change(c)

Spec == Init /\ [][Next]_vars

\* The goroutines run; nobody has to stop the checker.
Fairness == \A c \in Checks : WF_vars(Step(c))
FairSpec == Spec /\ Fairness

----------------------------------------------------------------------------
\* Type invariant.
TypeOK ==
    /\ health \in [Checks -> [status : Statuses, fails : Nat]]
    /\ copy \in [Checks -> [status : Statuses, fails : Nat]]
    /\ overall \in Statuses
    /\ isRunning \in BOOLEAN /\ cancelled \in BOOLEAN /\ stopping \in BOOLEAN
    /\ at \in [Checks -> {"none", "delay", "read", "execute", "write", "wait"}]
    /\ healthy \subseteq Checks /\ inUse \subseteq Checks /\ observed \subseteq Checks
    /\ streak \in [Checks -> Nat]
    /\ \A c \in Checks : health[c].fails <= MaxFails[c] /\ streak[c] <= MaxFails[c]
    /\ starts \in 0 .. MaxRestarts + 1 /\ changes \in 0 .. MaxChanges

\* No result is lost between the copy that a goroutine makes and what it writes
\* back, not even when the checker is stopped and started again in between.
CountsContiguous == \A c \in Checks : at[c] \in {"read", "wait"} => health[c].fails = streak[c]

\* check.go:29-31 promises MaxContiguousFails: a component is reported down only
\* after that many failures without a success in between.
DownIsDeserved ==
    \A c \in Checks : health[c].status = "down" /\ at[c] # "write" => streak[c] >= MaxFails[c]

\* "up" is never reported before every check has been looked at (StatusUnknown).
ReadyMeansChecked == overall = "up" => observed = Checks

\* What lasts is reported: a component in use that stays broken brings the status
\* down for good, and when all of them stay well it is up for good.
StatusSettles ==
    /\ \A c \in Checks :
         <>[](isRunning /\ ~stopping /\ c \in inUse /\ c \notin healthy) => <>[](overall = "down")
    /\ <>[](isRunning /\ ~stopping /\ inUse \subseteq healthy) => <>[](overall = "up")
=============================================================================
