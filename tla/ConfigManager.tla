--------------------------- MODULE ConfigManager ---------------------------
(***************************************************************************)
(* Changing the configuration of the running system: the updateConfig      *)
(* mutation (src/internal/gql/resolvers/config.resolvers.go), which merges *)
(* its input into the file and publishes a snapshot, and the manager that  *)
(* takes the snapshot to its subscribers                                   *)
(* (src/internal/configmgr/manager.go), of which the synchronous ones are  *)
(* registered in src/internal/gql/gqlfx/module.go.                         *)
(*                                                                         *)
(* A section has one setting.  The storage sections have the synchronous   *)
(* subscriber of their name; asynchronous subscribers read the snapshot as *)
(* a whole.                                                                *)
(***************************************************************************)
EXTENDS Integers, FiniteSets

CONSTANTS Updates,       \* calls of updateConfig
          Input,         \* the section and the value that each call sets
          Settings,      \* values of a section; 0 is the one it starts with
          Nobody,        \* stands for the call that made the initial snapshot
          AsyncSubs,
          MaxConcurrent  \* bound: calls in progress at a time

Sections == {"queue", "search", "postgres"}
SyncSubs == Sections
Configurations == [Sections -> Settings]

ASSUME InputAssumption ==
    /\ 0 \in Settings
    /\ Nobody \notin Updates
    /\ Input \in [Updates -> [section : Sections, value : Settings]]
    /\ MaxConcurrent \in Nat

VARIABLES
    file,      \* the configuration file
    cfg,       \* the configuration structs of the resolver
    pc,        \* where each call is
    data,      \* what the call read and merged, then its snapshot
    todo,      \* subscribers the call has yet to serve
    full,      \* the one whose channel it found full
    failed,    \* applyErr # nil
    live,      \* what each synchronous subscriber runs on
    last,      \* what it compares the next snapshot with
    snapshot,  \* m.snapshot: the call it comes from and its settings
    channel,   \* of each asynchronous subscriber, capacity 1
    applying,  \* the snapshot its function works on
    seen,      \* the snapshot it received last
    applied,   \* what it runs on
    stopped,   \* stopCtx is canceled
    ended      \* asynchronous subscribers whose loop returned

fileVars == <<file, cfg>>
callVars == <<pc, data, todo, full, failed>>
syncVars == <<live, last, snapshot>>
asyncVars == <<channel, applying, seen, applied>>
stopVars == <<stopped, ended>>
vars == <<fileVars, callVars, syncVars, asyncVars, stopVars>>

Initial == [s \in Sections |-> 0]
InitialSnapshot == [from |-> Nobody, settings |-> Initial]
NoSnapshot == InitialSnapshot  \* never sent, so it stands for an empty channel too
Snapshots == [from : Updates \cup {Nobody}, settings : Configurations]

Init ==
    /\ file = Initial
    /\ cfg = Initial
    /\ pc = [u \in Updates |-> "new"]
    /\ data = [u \in Updates |-> Initial]
    /\ todo = [u \in Updates |-> {}]
    /\ full = [u \in Updates |-> {}]
    /\ failed = [u \in Updates |-> FALSE]
    /\ live = Initial
    /\ last = Initial
    /\ snapshot = InitialSnapshot
    /\ channel = [a \in AsyncSubs |-> NoSnapshot]
    /\ applying = [a \in AsyncSubs |-> NoSnapshot]
    /\ seen = [a \in AsyncSubs |-> NoSnapshot]
    /\ applied = [a \in AsyncSubs |-> Initial]
    /\ stopped = FALSE
    /\ ended = {}

Over == {"new", "rejected", "failed", "done"}
InProgress == {u \in Updates : pc[u] \notin Over}
Snap(u) == [from |-> u, settings |-> data[u]]
Goto(u, place) == pc' = [pc EXCEPT ![u] = place]

----------------------------------------------------------------------------
(* updateConfig *)

OnlyInput(u) == [s \in {Input[u].section} |-> Input[u].value]
Merged(u) == [file EXCEPT ![Input[u].section] = Input[u].value]

\* Reads the file and merges the input into what it read.
ReadConfig(u) ==
    /\ pc[u] = "new"
    /\ Cardinality(InProgress) < MaxConcurrent
    /\ data' = [data EXCEPT ![u] = Merged(u)]
    /\ Goto(u, "validating")
    /\ UNCHANGED <<fileVars, todo, full, failed, syncVars, asyncVars, stopVars>>

Reject(u) ==
    /\ pc[u] = "validating"
    /\ Goto(u, "rejected")
    /\ UNCHANGED <<fileVars, data, todo, full, failed, syncVars, asyncVars, stopVars>>

WriteConfig(u) ==
    /\ pc[u] = "validating"
    /\ file' = data[u]
    /\ Goto(u, "reloading")
    /\ UNCHANGED <<cfg, data, todo, full, failed, syncVars, asyncVars, stopVars>>

\* All storage sections are reloaded from what was merged, whichever the input sets.
Reload(u) ==
    /\ pc[u] = "reloading"
    /\ cfg' = data[u]
    /\ Goto(u, "reloaded")
    /\ UNCHANGED <<file, data, todo, full, failed, syncVars, asyncVars, stopVars>>

\* The snapshot is made of the structs, which calls share.
BeginApply(u) ==
    /\ pc[u] = "reloaded"
    /\ data' = [data EXCEPT ![u] = cfg]
    /\ todo' = [todo EXCEPT ![u] = SyncSubs]
    /\ Goto(u, "sync")
    /\ UNCHANGED <<fileVars, full, failed, syncVars, asyncVars, stopVars>>

----------------------------------------------------------------------------
(* Manager.Apply *)

\* queue, then search, then postgres, the order of their subscription.
Ready(u, s) ==
    /\ s \in todo[u]
    /\ s = "search" => "queue" \notin todo[u]
    /\ s = "postgres" => todo[u] = {"postgres"}

ComparedWithStartup(u, s) == data[u][s] # 0
Compared(u, s) == data[u][s] # last[s]

Unchanged(u, s) ==
    /\ pc[u] = "sync"
    /\ Ready(u, s)
    /\ ~Compared(u, s)
    /\ todo' = [todo EXCEPT ![u] = @ \ {s}]
    /\ UNCHANGED <<fileVars, pc, data, full, failed, syncVars, asyncVars, stopVars>>

\* queue and search remember the value before they switch to it, postgres afterwards.
BeginSwitch(u, s) ==
    /\ pc[u] = "sync"
    /\ Ready(u, s)
    /\ Compared(u, s)
    /\ last' = IF s = "postgres" THEN last ELSE [last EXCEPT ![s] = data[u][s]]
    /\ Goto(u, "switching")
    /\ UNCHANGED <<fileVars, data, todo, full, failed, live, snapshot, asyncVars, stopVars>>

Switch(u, s) ==
    /\ pc[u] = "switching"
    /\ Ready(u, s)
    /\ live' = [live EXCEPT ![s] = data[u][s]]
    /\ last' = IF s = "postgres" THEN [last EXCEPT ![s] = data[u][s]] ELSE last
    /\ todo' = [todo EXCEPT ![u] = @ \ {s}]
    /\ Goto(u, "sync")
    /\ UNCHANGED <<fileVars, data, full, failed, snapshot, asyncVars, stopVars>>

\* Of the three only a new connection pool can fail; the old one stays.
ReconnectFails(u) ==
    /\ pc[u] = "switching"
    /\ Ready(u, "postgres")
    /\ failed' = [failed EXCEPT ![u] = TRUE]
    /\ todo' = [todo EXCEPT ![u] = {}]
    /\ Goto(u, "sync")
    /\ UNCHANGED <<fileVars, data, full, syncVars, asyncVars, stopVars>>

ApplyFails(u) ==
    /\ pc[u] = "sync"
    /\ todo[u] = {}
    /\ failed[u]
    /\ Goto(u, "failed")
    /\ UNCHANGED <<fileVars, data, todo, full, failed, syncVars, asyncVars, stopVars>>

GoesOn(u)   == TRUE  \* the error is only logged
Succeeds(u) == ~failed[u]

Store(u) ==
    /\ pc[u] = "sync"
    /\ todo[u] = {}
    /\ Succeeds(u)
    /\ snapshot' = Snap(u)
    /\ todo' = [todo EXCEPT ![u] = AsyncSubs]
    /\ Goto(u, "send")
    /\ UNCHANGED <<fileVars, data, full, failed, live, last, asyncVars, stopVars>>

\* Three operations on the channel, each of which may find it full or empty.
Send(u, a) ==
    /\ pc[u] = "send"
    /\ a \in todo[u]
    /\ channel[a] = NoSnapshot
    /\ channel' = [channel EXCEPT ![a] = Snap(u)]
    /\ todo' = [todo EXCEPT ![u] = @ \ {a}]
    /\ UNCHANGED <<fileVars, pc, data, full, failed, syncVars, applying, seen, applied, stopVars>>

SendFull(u, a) ==
    /\ pc[u] = "send"
    /\ a \in todo[u]
    /\ channel[a] # NoSnapshot
    /\ full' = [full EXCEPT ![u] = {a}]
    /\ todo' = [todo EXCEPT ![u] = @ \ {a}]
    /\ Goto(u, "drain")
    /\ UNCHANGED <<fileVars, data, failed, syncVars, asyncVars, stopVars>>

LeftPending(a) == channel[a]   \* the newest snapshot is dropped instead
Drained(a) == NoSnapshot

Drain(u, a) ==
    /\ pc[u] = "drain"
    /\ a \in full[u]
    /\ channel' = [channel EXCEPT ![a] = Drained(a)]
    /\ Goto(u, "resend")
    /\ UNCHANGED <<fileVars, data, todo, full, failed, syncVars, applying, seen, applied, stopVars>>

\* Gives up when the channel is full again.
Resend(u, a) ==
    /\ pc[u] = "resend"
    /\ a \in full[u]
    /\ full' = [full EXCEPT ![u] = {}]
    /\ channel' = [channel EXCEPT ![a] = IF @ = NoSnapshot THEN Snap(u) ELSE @]
    /\ Goto(u, "send")
    /\ UNCHANGED <<fileVars, data, todo, failed, syncVars, applying, seen, applied, stopVars>>

EndApply(u) ==
    /\ pc[u] = "send"
    /\ todo[u] = {}
    /\ Goto(u, "done")
    /\ UNCHANGED <<fileVars, data, todo, full, failed, syncVars, asyncVars, stopVars>>

----------------------------------------------------------------------------
(* asyncSubLoop *)

\* The pointer is compared, and no two calls share one.
Receive(a) ==
    /\ a \notin ended
    /\ applying[a] = NoSnapshot
    /\ channel[a] # NoSnapshot
    /\ channel' = [channel EXCEPT ![a] = NoSnapshot]
    /\ seen' = [seen EXCEPT ![a] = channel[a]]
    /\ applying' = [applying EXCEPT ![a] = channel[a]]
    /\ UNCHANGED <<fileVars, callVars, syncVars, applied, stopVars>>

Applied(a) ==
    /\ applying[a] # NoSnapshot
    /\ applied' = [applied EXCEPT ![a] = applying[a].settings]
    /\ applying' = [applying EXCEPT ![a] = NoSnapshot]
    /\ UNCHANGED <<fileVars, callVars, syncVars, channel, seen, stopVars>>

Stop ==
    /\ ~stopped
    /\ stopped' = TRUE
    /\ UNCHANGED <<fileVars, callVars, syncVars, asyncVars, ended>>

LoopEnds(a) ==
    /\ stopped
    /\ a \notin ended
    /\ applying[a] = NoSnapshot
    /\ ended' = ended \cup {a}
    /\ UNCHANGED <<fileVars, callVars, syncVars, asyncVars, stopped>>

----------------------------------------------------------------------------
CallStep(u) ==
    \/ Reject(u) \/ WriteConfig(u) \/ Reload(u) \/ BeginApply(u)
    \/ \E s \in SyncSubs : Unchanged(u, s) \/ BeginSwitch(u, s) \/ Switch(u, s)
    \/ ReconnectFails(u) \/ ApplyFails(u) \/ Store(u) \/ EndApply(u)
    \/ \E a \in AsyncSubs : Send(u, a) \/ SendFull(u, a) \/ Drain(u, a) \/ Resend(u, a)

LoopStep(a) == Receive(a) \/ Applied(a)

Next ==
    \/ \E u \in Updates : ReadConfig(u) \/ CallStep(u)
    \/ \E a \in AsyncSubs : LoopStep(a) \/ LoopEnds(a)
    \/ Stop

Spec == Init /\ [][Next]_vars

\* A call runs to its end and a subscriber takes what waits for it; nobody has to call or
\* to stop the manager.
Fairness ==
    /\ \A u \in Updates : WF_vars(CallStep(u))
    /\ \A a \in AsyncSubs : WF_vars(LoopStep(a))
FairSpec == Spec /\ Fairness

----------------------------------------------------------------------------
\* Type invariant of updateConfig, the manager and its subscribers.
TypeOK ==
    /\ file \in Configurations
    /\ cfg \in Configurations
    /\ pc \in [Updates -> Over \cup {"validating", "reloading", "reloaded", "sync",
                                     "switching", "send", "drain", "resend"}]
    /\ data \in [Updates -> Configurations]
    /\ todo \in [Updates -> SUBSET (SyncSubs \cup AsyncSubs)]
    /\ full \in [Updates -> SUBSET AsyncSubs]
    /\ failed \in [Updates -> BOOLEAN]
    /\ live \in Configurations
    /\ last \in Configurations
    /\ snapshot \in Snapshots
    /\ channel \in [AsyncSubs -> Snapshots]
    /\ applying \in [AsyncSubs -> Snapshots]
    /\ seen \in [AsyncSubs -> Snapshots]
    /\ applied \in [AsyncSubs -> Configurations]
    /\ stopped \in BOOLEAN
    /\ ended \subseteq AsyncSubs

(***************************************************************************)
(* A snapshot that a synchronous subscriber refused never becomes the      *)
(* current one and never reaches an asynchronous subscriber, even while    *)
(* other updates succeed.                                                  *)
(***************************************************************************)
RefusedNotPublished ==
    \A u \in Updates : failed[u] =>
        /\ snapshot.from # u
        /\ \A a \in AsyncSubs : channel[a].from # u /\ seen[a].from # u

(***************************************************************************)
(* docs/configuration.md:313: "Everything on the Config page" applies      *)
(* "Immediately after save".  When no update is in progress and the one    *)
(* that wrote the file last succeeded, the synchronous subscribers run on  *)
(* what the file says, whatever failed or was rejected before.             *)
(***************************************************************************)
SavedTakesEffect ==
    (InProgress = {} /\ snapshot.settings = file) => live = file

\* What runs, what is published and what the file says fit, whichever subscriber refused what.
PublishedFitsFile == RefusedNotPublished /\ SavedTakesEffect

(***************************************************************************)
(* manager.go:110: "Latest-wins: replace the pending snapshot so the       *)
(* newest value is applied".  When no update is in progress, what an       *)
(* asynchronous subscriber received last, or has waiting, is the current   *)
(* snapshot.                                                               *)
(***************************************************************************)
LatestWins ==
    (InProgress = {} /\ snapshot.from # Nobody) =>
        \A a \in AsyncSubs :
            (IF channel[a] # NoSnapshot THEN channel[a] ELSE seen[a]) = snapshot

(***************************************************************************)
(* Every asynchronous subscriber ends up on the current snapshot unless    *)
(* the manager is stopped, however the updates fall into the time its      *)
(* function takes.                                                         *)
(***************************************************************************)
EventuallyCurrent ==
    <>[](\A a \in AsyncSubs : stopped \/ applied[a] = snapshot.settings)
=============================================================================
