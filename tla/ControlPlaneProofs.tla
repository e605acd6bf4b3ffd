------------------------- MODULE ControlPlaneProofs -------------------------
(***************************************************************************)
(* For every number of calls, settings and asynchronous subscribers: what  *)
(* a subscriber refused is never published, whichever calls overlap, and   *)
(* with calls made one at a time the synchronous subscribers run on what   *)
(* the file says and the asynchronous ones hold the newest snapshot.       *)
(*                                                                         *)
(* Callers who overlap share the configuration structs and the channels:   *)
(* for them the last two are false, the newest snapshot as config_latest   *)
(* shows, so those theorems name the hypothesis.                           *)
(***************************************************************************)
EXTENDS MCControlPlane, Sequences, FiniteSetTheorems, TLAPS

\* Calls one at a time.
Serial == MaxConcurrent = 1

Syncing == {"sync", "switching"}
Telling == {"send", "drain", "resend"}
Wrote == {"reloading", "reloaded"} \cup Syncing \cup Telling

\* A call has failed only where it stops, and has only the subscribers of its phase to serve.
CallsInPlace ==
    \A u \in Updates :
        /\ failed[u] => pc[u] = "failed" \/ (pc[u] = "sync" /\ todo[u] = {})
        /\ full[u] # {} => pc[u] \in {"drain", "resend"}
        /\ \A a, b \in full[u] : a = b
        /\ pc[u] \in Syncing => todo[u] \subseteq SyncSubs

\* What the manager and the asynchronous subscribers have comes from a call that stored it.
Stored(v) == v.from \in Updates => pc[v.from] \in Telling \cup {"done"}
OnlyStored ==
    /\ Stored(snapshot)
    /\ \A a \in AsyncSubs : Stored(channel[a]) /\ Stored(seen[a])

CallInv == TypeOK /\ CallsInPlace /\ OnlyStored

\* No two calls are in progress.
Alone == \A u, v \in InProgress : u = v

\* From the write on the file is what the call merged, and so are the structs once reloaded.
FileFollows == \A u \in Updates : pc[u] \in Wrote => file = data[u]
StructsFollow == cfg = file \/ \E u \in Updates : pc[u] = "reloading"

\* The call has yet to bring a synchronous subscriber to what it wrote.
Behind(u, s) == pc[u] \in {"reloading", "reloaded"} \/ (pc[u] \in Syncing /\ s \in todo[u])

\* queue and search run on the file, whatever postgres refused.
StorageFollows ==
    \A s \in {"queue", "search"} : live[s] = file[s] \/ \E u \in Updates : Behind(u, s)

\* A comparison is with what the subscriber runs on; a call that switches it has seen to that.
Switching(u, s) == pc[u] = "switching" /\ Ready(u, s)
Remembers ==
    /\ last["postgres"] = live["postgres"]
    /\ \A s \in {"queue", "search"} :
         /\ \A u \in Updates : Switching(u, s) => last[s] = data[u][s]
         /\ last[s] = live[s] \/ \E u \in Updates : Switching(u, s)

\* The pool is the one of the current snapshot, until a call has replaced it.
Reconnected(u) == pc[u] \in Syncing /\ ~failed[u] /\ "postgres" \notin todo[u]
PoolFollows ==
    /\ \A u \in Updates : Reconnected(u) => live["postgres"] = data[u]["postgres"]
    /\ \/ live["postgres"] = snapshot.settings["postgres"]
       \/ \E u \in Updates : Reconnected(u)

\* An asynchronous subscriber has the current snapshot, or the call in progress has it to serve.
Newest(a) == IF channel[a] # NoSnapshot THEN channel[a] ELSE seen[a]
SnapshotFollows ==
    /\ \A u \in Updates : pc[u] \in Telling => snapshot = Snap(u)
    /\ \A u \in Updates, a \in AsyncSubs :
         pc[u] = "resend" /\ a \in full[u] => channel[a] = NoSnapshot
    /\ \A a \in AsyncSubs :
         \/ Newest(a) = snapshot
         \/ \E u \in Updates : pc[u] \in Telling /\ a \in todo[u] \cup full[u]

SerialInv ==
    /\ Alone /\ FileFollows /\ StructsFollow /\ StorageFollows /\ Remembers /\ PoolFollows
    /\ SnapshotFollows

----------------------------------------------------------------------------
(* Every number of calls at a time *)

\* The manager starts with nothing published.
LEMMA CallInvInit == Init => CallInv
<1> SUFFICES ASSUME Init PROVE CallInv OBVIOUS
<1> USE InputAssumption
<1>1. Initial \in Configurations BY DEF Initial, Configurations
<1>2. TypeOK
  BY <1>1 DEF Init, TypeOK, Over, Snapshots, NoSnapshot, InitialSnapshot
<1>3. CallsInPlace
  BY DEF Init, CallsInPlace, Syncing
<1>4. OnlyStored
  BY DEF Init, OnlyStored, Stored, NoSnapshot, InitialSnapshot
<1> QED BY <1>2, <1>3, <1>4 DEF CallInv

\* What a call merges is a configuration, and its snapshot is a snapshot.
LEMMA MergedType ==
    ASSUME TypeOK, NEW u \in Updates
    PROVE  /\ Merged(u) \in Configurations
           /\ Snap(u) \in Snapshots
           /\ NoSnapshot \in Snapshots
           /\ Snap(u) # NoSnapshot
<1> USE InputAssumption
<1>1. Input[u].section \in Sections /\ Input[u].value \in Settings OBVIOUS
<1>2. Merged(u) \in Configurations
  BY <1>1 DEF TypeOK, Merged, Configurations
<1>3. data[u] \in Configurations BY DEF TypeOK
<1>4. Snap(u) \in Snapshots /\ Snap(u) # NoSnapshot
  BY <1>3 DEF Snap, Snapshots, NoSnapshot, InitialSnapshot
<1>5. NoSnapshot \in Snapshots
  BY DEF Snapshots, NoSnapshot, InitialSnapshot, Initial, Configurations
<1> QED BY <1>2, <1>4, <1>5

\* Every step keeps the types.
LEMMA TypeNext == TypeOK /\ [Next]_vars => TypeOK'
<1> SUFFICES ASSUME TypeOK, [Next]_vars PROVE TypeOK' OBVIOUS
<1> USE DEF TypeOK, Goto, Over, fileVars, callVars, syncVars, asyncVars, stopVars
<1>1. ASSUME NEW u \in Updates, ReadConfig(u) PROVE TypeOK'
  BY <1>1, MergedType DEF ReadConfig
<1>2. ASSUME NEW u \in Updates, Reject(u) \/ ApplyFails(u) \/ EndApply(u) PROVE TypeOK'
  BY <1>2 DEF Reject, ApplyFails, EndApply
<1>3. ASSUME NEW u \in Updates, WriteConfig(u) PROVE TypeOK'
  BY <1>3 DEF WriteConfig
<1>4. ASSUME NEW u \in Updates, Reload(u) PROVE TypeOK'
  BY <1>4 DEF Reload
<1>5. ASSUME NEW u \in Updates, BeginApply(u) PROVE TypeOK'
  BY <1>5 DEF BeginApply
<1>6. ASSUME NEW u \in Updates, NEW s \in SyncSubs, Unchanged(u, s) PROVE TypeOK'
  BY <1>6 DEF Unchanged
<1>7. ASSUME NEW u \in Updates, NEW s \in SyncSubs, BeginSwitch(u, s) PROVE TypeOK'
  <2>1. data[u][s] \in Settings BY DEF Configurations, SyncSubs
  <2>2. last' \in Configurations BY <1>7, <2>1 DEF BeginSwitch, Configurations
  <2> QED BY <1>7, <2>2 DEF BeginSwitch
<1>8. ASSUME NEW u \in Updates, NEW s \in SyncSubs, Switch(u, s) PROVE TypeOK'
  <2>1. data[u][s] \in Settings BY DEF Configurations, SyncSubs
  <2>2. last' \in Configurations /\ live' \in Configurations
    BY <1>8, <2>1 DEF Switch, Configurations
  <2> QED BY <1>8, <2>2 DEF Switch
<1>9. ASSUME NEW u \in Updates, ReconnectFails(u) PROVE TypeOK'
  BY <1>9 DEF ReconnectFails
<1>10. ASSUME NEW u \in Updates, Store(u) PROVE TypeOK'
  BY <1>10, MergedType DEF Store
<1>11. ASSUME NEW u \in Updates, NEW a \in AsyncSubs, Send(u, a) PROVE TypeOK'
  BY <1>11, MergedType DEF Send
<1>12. ASSUME NEW u \in Updates, NEW a \in AsyncSubs, SendFull(u, a) PROVE TypeOK'
  BY <1>12 DEF SendFull
<1>13. ASSUME NEW u \in Updates, NEW a \in AsyncSubs, Drain(u, a) PROVE TypeOK'
  BY <1>13, MergedType DEF Drain, Drained
<1>14. ASSUME NEW u \in Updates, NEW a \in AsyncSubs, Resend(u, a) PROVE TypeOK'
  BY <1>14, MergedType DEF Resend
<1>15. ASSUME NEW a \in AsyncSubs, Receive(a) PROVE TypeOK'
  <2>1. NoSnapshot \in Snapshots
    BY InputAssumption DEF Snapshots, NoSnapshot, InitialSnapshot, Initial, Configurations
  <2> QED BY <1>15, <2>1 DEF Receive
<1>16. ASSUME NEW a \in AsyncSubs, Applied(a) PROVE TypeOK'
  <2>1. NoSnapshot \in Snapshots
    BY InputAssumption DEF Snapshots, NoSnapshot, InitialSnapshot, Initial, Configurations
  <2>2. applying[a].settings \in Configurations BY DEF Snapshots
  <2> QED BY <1>16, <2>1, <2>2 DEF Applied
<1>17. CASE Stop BY <1>17 DEF Stop
<1>18. ASSUME NEW a \in AsyncSubs, LoopEnds(a) PROVE TypeOK'
  BY <1>18 DEF LoopEnds
<1>19. CASE UNCHANGED vars BY <1>19 DEF vars
<1> QED BY <1>1, <1>2, <1>3, <1>4, <1>5, <1>6, <1>7, <1>8, <1>9, <1>10, <1>11, <1>12, <1>13,
           <1>14, <1>15, <1>16, <1>17, <1>18, <1>19 DEF Next, CallStep, LoopStep

\* Every step keeps the calls in place.
LEMMA InPlaceNext == TypeOK /\ CallsInPlace /\ [Next]_vars => CallsInPlace'
<1> SUFFICES ASSUME TypeOK, CallsInPlace, [Next]_vars PROVE CallsInPlace' OBVIOUS
<1> USE DEF TypeOK, CallsInPlace, Syncing, Goto, fileVars, callVars
<1>1. ASSUME NEW u \in Updates, ReadConfig(u) PROVE CallsInPlace' BY <1>1 DEF ReadConfig
<1>2. ASSUME NEW u \in Updates, Reject(u) PROVE CallsInPlace' BY <1>2 DEF Reject
<1>3. ASSUME NEW u \in Updates, WriteConfig(u) PROVE CallsInPlace' BY <1>3 DEF WriteConfig
<1>4. ASSUME NEW u \in Updates, Reload(u) PROVE CallsInPlace' BY <1>4 DEF Reload
<1>5. ASSUME NEW u \in Updates, BeginApply(u) PROVE CallsInPlace' BY <1>5 DEF BeginApply
<1>6. ASSUME NEW u \in Updates, NEW s \in SyncSubs, Unchanged(u, s) PROVE CallsInPlace'
  BY <1>6 DEF Unchanged
<1>7. ASSUME NEW u \in Updates, NEW s \in SyncSubs, BeginSwitch(u, s) PROVE CallsInPlace'
  BY <1>7 DEF BeginSwitch, Ready
<1>8. ASSUME NEW u \in Updates, NEW s \in SyncSubs, Switch(u, s) PROVE CallsInPlace'
  BY <1>8 DEF Switch
<1>9. ASSUME NEW u \in Updates, ReconnectFails(u) PROVE CallsInPlace'
  BY <1>9 DEF ReconnectFails
<1>10. ASSUME NEW u \in Updates, ApplyFails(u) PROVE CallsInPlace' BY <1>10 DEF ApplyFails
<1>11. ASSUME NEW u \in Updates, Store(u) PROVE CallsInPlace' BY <1>11 DEF Store, Succeeds
<1>12. ASSUME NEW u \in Updates, NEW a \in AsyncSubs, Send(u, a) PROVE CallsInPlace'
  BY <1>12 DEF Send
<1>13. ASSUME NEW u \in Updates, NEW a \in AsyncSubs, SendFull(u, a) PROVE CallsInPlace'
  BY <1>13 DEF SendFull
<1>14. ASSUME NEW u \in Updates, NEW a \in AsyncSubs, Drain(u, a) PROVE CallsInPlace'
  BY <1>14 DEF Drain
<1>15. ASSUME NEW u \in Updates, NEW a \in AsyncSubs, Resend(u, a) PROVE CallsInPlace'
  BY <1>15 DEF Resend
<1>16. ASSUME NEW u \in Updates, EndApply(u) PROVE CallsInPlace' BY <1>16 DEF EndApply
<1>17. ASSUME NEW a \in AsyncSubs, LoopStep(a) \/ LoopEnds(a) PROVE CallsInPlace'
  BY <1>17 DEF LoopStep, Receive, Applied, LoopEnds
<1>18. CASE Stop BY <1>18 DEF Stop
<1>19. CASE UNCHANGED vars BY <1>19 DEF vars
<1> QED BY <1>1, <1>2, <1>3, <1>4, <1>5, <1>6, <1>7, <1>8, <1>9, <1>10, <1>11, <1>12, <1>13,
           <1>14, <1>15, <1>16, <1>17, <1>18, <1>19 DEF Next, CallStep

\* Every step keeps what is stored stored: a call past the store neither fails nor goes back.
LEMMA StoredNext == CallInv /\ [Next]_vars => OnlyStored'
<1> SUFFICES ASSUME CallInv, [Next]_vars PROVE OnlyStored' OBVIOUS
<1> USE InputAssumption DEF CallInv, TypeOK, OnlyStored, Stored, Telling, Goto, fileVars, callVars
<1> DEFINE Kept == /\ snapshot' = snapshot /\ channel' = channel /\ seen' = seen
                   /\ \A v \in Updates : pc[v] \in Telling \cup {"done"}
                                            => pc'[v] \in Telling \cup {"done"}
<1>0. ASSUME Kept PROVE OnlyStored'
  BY <1>0
<1> HIDE DEF OnlyStored
<1>1. ASSUME NEW u \in Updates,
             \/ ReadConfig(u) \/ Reject(u) \/ WriteConfig(u) \/ Reload(u) \/ BeginApply(u)
             \/ ReconnectFails(u) \/ ApplyFails(u) \/ EndApply(u)
      PROVE OnlyStored'
  <2>1. Kept
    BY <1>1 DEF ReadConfig, Reject, WriteConfig, Reload, BeginApply, ReconnectFails, ApplyFails,
                EndApply, syncVars, asyncVars
  <2> QED BY <2>1, <1>0
<1>2. ASSUME NEW u \in Updates, NEW s \in SyncSubs,
             Unchanged(u, s) \/ BeginSwitch(u, s) \/ Switch(u, s)
      PROVE OnlyStored'
  <2>1. Kept BY <1>2 DEF Unchanged, BeginSwitch, Switch, syncVars, asyncVars
  <2> QED BY <2>1, <1>0
<1>3. ASSUME NEW u \in Updates, NEW a \in AsyncSubs, SendFull(u, a) PROVE OnlyStored'
  <2>1. Kept BY <1>3 DEF SendFull, syncVars, asyncVars
  <2> QED BY <2>1, <1>0
<1>4. ASSUME NEW u \in Updates, Store(u) PROVE OnlyStored'
  BY <1>4 DEF Store, Snap, OnlyStored, asyncVars
<1>5. ASSUME NEW u \in Updates, NEW a \in AsyncSubs, Send(u, a) PROVE OnlyStored'
  BY <1>5 DEF Send, Snap, OnlyStored, syncVars
<1>6. ASSUME NEW u \in Updates, NEW a \in AsyncSubs, Drain(u, a) PROVE OnlyStored'
  BY <1>6 DEF Drain, Drained, NoSnapshot, InitialSnapshot, OnlyStored, syncVars
<1>7. ASSUME NEW u \in Updates, NEW a \in AsyncSubs, Resend(u, a) PROVE OnlyStored'
  BY <1>7 DEF Resend, Snap, OnlyStored, syncVars
<1>8. ASSUME NEW a \in AsyncSubs, Receive(a) PROVE OnlyStored'
  BY <1>8 DEF Receive, NoSnapshot, InitialSnapshot, OnlyStored, syncVars
<1>9. ASSUME NEW a \in AsyncSubs, Applied(a) \/ LoopEnds(a) PROVE OnlyStored'
  <2>1. Kept BY <1>9 DEF Applied, LoopEnds, syncVars, asyncVars
  <2> QED BY <2>1, <1>0
<1>10. CASE Stop \/ UNCHANGED vars
  <2>1. Kept BY <1>10 DEF Stop, vars, syncVars, asyncVars
  <2> QED BY <2>1, <1>0
<1> QED BY <1>1, <1>2, <1>3, <1>4, <1>5, <1>6, <1>7, <1>8, <1>9, <1>10
        DEF Next, CallStep, LoopStep

\* Every step keeps the invariant of overlapping calls.
LEMMA CallInvNext == CallInv /\ [Next]_vars => CallInv'
BY TypeNext, InPlaceNext, StoredNext DEF CallInv

\* updateConfig and the manager: types, for every number of calls at a time.
THEOREM TypeCorrect == Spec => []TypeOK
<1>1. CallInv => TypeOK BY DEF CallInv
<1> QED BY <1>1, CallInvInit, CallInvNext, PTL DEF Spec

\* A refused snapshot is not one that was stored.
LEMMA CallInvImplies == CallInv => RefusedNotPublished
<1> SUFFICES ASSUME CallInv, NEW u \in Updates, failed[u]
             PROVE  /\ snapshot.from # u
                    /\ \A a \in AsyncSubs : channel[a].from # u /\ seen[a].from # u
  BY DEF RefusedNotPublished
<1>1. pc[u] \notin Telling \cup {"done"}
  BY DEF CallInv, CallsInPlace, Telling
<1> QED BY <1>1 DEF CallInv, OnlyStored, Stored

(***************************************************************************)
(* Manager.Apply returns before it stores the snapshot when a synchronous  *)
(* subscriber failed (manager.go): however many calls overlap, what one    *)
(* refused is neither the current snapshot nor on its way to an            *)
(* asynchronous subscriber.                                                *)
(***************************************************************************)
THEOREM RefusedStaysOut == Spec => []RefusedNotPublished
<1> QED BY CallInvImplies, CallInvInit, CallInvNext, PTL DEF Spec

----------------------------------------------------------------------------
(* Calls one at a time *)

\* With no call made, everybody runs on the initial settings.
LEMMA SerialInit == Init => SerialInv
BY DEF Init, SerialInv, Alone, FileFollows, StructsFollow, StorageFollows, Remembers, Switching,
       Ready, PoolFollows, Reconnected, SnapshotFollows, Newest, InProgress, Over, Wrote, Syncing,
       Telling, NoSnapshot, InitialSnapshot

\* With no room for a second call, a new one starts when none is in progress.
LEMMA NoneInProgress ==
    ASSUME Serial, Alone, Cardinality(InProgress) < MaxConcurrent PROVE InProgress = {}
<1> SUFFICES ASSUME NEW u \in InProgress PROVE FALSE OBVIOUS
<1>1. InProgress = {u} BY DEF Alone
<1>2. Cardinality(InProgress) = 1 BY <1>1, FS_Singleton
<1> QED BY <1>2 DEF Serial

\* While a call takes its steps, every other is over.
LEMMA OthersOver ==
    ASSUME Alone, NEW u \in Updates, pc[u] \notin Over
    PROVE  \A v \in Updates : v # u => pc[v] \in Over
BY DEF Alone, InProgress

\* Every step keeps the invariant of calls made one at a time.
LEMMA SerialNext == Serial /\ CallInv /\ SerialInv /\ [Next]_vars => SerialInv'
<1> SUFFICES ASSUME Serial, CallInv, SerialInv, [Next]_vars PROVE SerialInv' OBVIOUS
<1> USE DEF CallInv, TypeOK, CallsInPlace, SerialInv, Alone, FileFollows, StructsFollow,
            StorageFollows, Remembers, Switching, Ready, PoolFollows, Reconnected,
            SnapshotFollows, Newest, Behind, InProgress, Over, Wrote, Syncing, Telling, Goto,
            fileVars, callVars, syncVars, asyncVars
<1>1. ASSUME NEW u \in Updates, ReadConfig(u) PROVE SerialInv'
  <2>1. \A v \in Updates : pc[v] \in Over BY <1>1, NoneInProgress DEF ReadConfig
  <2> QED BY <1>1, <2>1 DEF ReadConfig
<1>2. ASSUME NEW u \in Updates, Reject(u) PROVE SerialInv'
  <2>1. \A v \in Updates : v # u => pc[v] \in Over BY <1>2, OthersOver DEF Reject
  <2> QED BY <1>2, <2>1 DEF Reject
<1>3. ASSUME NEW u \in Updates, WriteConfig(u) PROVE SerialInv'
  <2>1. \A v \in Updates : v # u => pc[v] \in Over BY <1>3, OthersOver DEF WriteConfig
  <2> QED BY <1>3, <2>1 DEF WriteConfig
<1>4. ASSUME NEW u \in Updates, Reload(u) PROVE SerialInv'
  <2>1. \A v \in Updates : v # u => pc[v] \in Over BY <1>4, OthersOver DEF Reload
  <2> QED BY <1>4, <2>1 DEF Reload
<1>5. ASSUME NEW u \in Updates, BeginApply(u) PROVE SerialInv'
  <2>1. \A v \in Updates : v # u => pc[v] \in Over BY <1>5, OthersOver DEF BeginApply
  <2>2. Alone' /\ FileFollows' /\ StructsFollow' BY <1>5, <2>1 DEF BeginApply
  <2>3. StorageFollows' BY <1>5, <2>1 DEF BeginApply, SyncSubs, Sections
  <2>4. Remembers' BY <1>5, <2>1 DEF BeginApply
  <2>5. PoolFollows' BY <1>5, <2>1 DEF BeginApply, SyncSubs, Sections
  <2>6. SnapshotFollows' BY <1>5, <2>1 DEF BeginApply, Snap
  <2> QED BY <2>2, <2>3, <2>4, <2>5, <2>6
<1>6. ASSUME NEW u \in Updates, NEW s \in SyncSubs, Unchanged(u, s) PROVE SerialInv'
  <2>1. \A v \in Updates : v # u => pc[v] \in Over BY <1>6, OthersOver DEF Unchanged
  <2> QED BY <1>6, <2>1 DEF Unchanged, Ready, Compared, SyncSubs, Sections
<1>7. ASSUME NEW u \in Updates, NEW s \in SyncSubs, BeginSwitch(u, s) PROVE SerialInv'
  <2>1. \A v \in Updates : v # u => pc[v] \in Over BY <1>7, OthersOver DEF BeginSwitch
  <2>2. s \in Sections /\ s \in todo[u] BY <1>7 DEF BeginSwitch, SyncSubs
  <2>3. Alone' /\ FileFollows' /\ StructsFollow' /\ StorageFollows'
    BY <1>7, <2>1, <2>2 DEF BeginSwitch, Sections
  <2>4. Remembers'
    <3>1. \A t \in {"queue", "search"} : last[t] = live[t]
      BY <1>7, <2>1 DEF BeginSwitch
    <3>2. \A v \in Updates, t \in {"queue", "search"} : Switching(v, t)' => v = u /\ t = s
      BY <1>7, <2>1, <2>2 DEF BeginSwitch, Sections
    <3>3. \A t \in Sections : t # s => last'[t] = last[t]
      BY <1>7, <2>2 DEF BeginSwitch, Configurations
    <3>4. s # "postgres" => last'[s] = data[u][s]
      BY <1>7, <2>2 DEF BeginSwitch, Configurations
    <3>5. Switching(u, s)' BY <1>7 DEF BeginSwitch
    <3>6. s = "postgres" => last' = last BY <1>7 DEF BeginSwitch
    <3>7. live' = live /\ data' = data BY <1>7 DEF BeginSwitch
    <3> QED BY <2>2, <3>1, <3>2, <3>3, <3>4, <3>5, <3>6, <3>7 DEF Sections
  <2>5. PoolFollows' /\ SnapshotFollows'
    BY <1>7, <2>1, <2>2 DEF BeginSwitch, Snap, Sections
  <2> QED BY <2>3, <2>4, <2>5
<1>8. ASSUME NEW u \in Updates, NEW s \in SyncSubs, Switch(u, s) PROVE SerialInv'
  <2>1. \A v \in Updates : v # u => pc[v] \in Over BY <1>8, OthersOver DEF Switch
  <2>2. /\ data[u] = file /\ s \in Sections /\ data' = data /\ file' = file /\ cfg' = cfg
        /\ snapshot' = snapshot
    BY <1>8 DEF Switch, SyncSubs
  <2>3. Alone' /\ FileFollows' /\ StructsFollow'
    BY <1>8, <2>1, <2>2 DEF Switch
  <2>4. live' \in Configurations /\ last' \in Configurations
    BY <1>8, <2>2 DEF Switch, Configurations
  <2>5. /\ live'[s] = file[s]
        /\ \A t \in Sections : t # s => live'[t] = live[t] /\ last'[t] = last[t]
        /\ s = "postgres" => last'[s] = file[s]
        /\ s # "postgres" => last'[s] = last[s]
    BY <1>8, <2>2 DEF Switch, Configurations
  <2>6. StorageFollows'
    BY <1>8, <2>1, <2>2, <2>5 DEF Switch, Sections
  <2>7. Remembers'
    <3>1. \A v \in Updates : pc'[v] # "switching" BY <1>8, <2>1 DEF Switch
    <3>2. \A t \in {"queue", "search"} : Switching(u, t) => t = s
      BY <1>8, <2>2 DEF Switch, Sections
    <3>3. Switching(u, s) BY <1>8 DEF Switch
    <3>4. \A t \in {"queue", "search"} : t # s => last[t] = live[t]
      BY <2>1, <3>2
    <3>5. s # "postgres" => last[s] = file[s] BY <2>2, <3>3 DEF Sections
    <3> QED BY <2>5, <3>1, <3>4, <3>5 DEF Sections
  <2>8. PoolFollows'
    BY <1>8, <2>1, <2>2, <2>5 DEF Switch, Sections
  <2>9. SnapshotFollows'
    BY <1>8, <2>1, <2>2 DEF Switch, Snap
  <2> QED BY <2>3, <2>6, <2>7, <2>8, <2>9
<1>9. ASSUME NEW u \in Updates, ReconnectFails(u) PROVE SerialInv'
  <2>1. \A v \in Updates : v # u => pc[v] \in Over BY <1>9, OthersOver DEF ReconnectFails
  <2> QED BY <1>9, <2>1 DEF ReconnectFails
<1>10. ASSUME NEW u \in Updates, ApplyFails(u) PROVE SerialInv'
  <2>1. \A v \in Updates : v # u => pc[v] \in Over BY <1>10, OthersOver DEF ApplyFails
  <2> QED BY <1>10, <2>1 DEF ApplyFails
<1>11. ASSUME NEW u \in Updates, Store(u) PROVE SerialInv'
  <2>1. \A v \in Updates : v # u => pc[v] \in Over BY <1>11, OthersOver DEF Store
  <2> QED BY <1>11, <2>1 DEF Store, Succeeds, Snap
<1>12. ASSUME NEW u \in Updates, NEW a \in AsyncSubs, Send(u, a) PROVE SerialInv'
  <2>1. \A v \in Updates : v # u => pc[v] \in Over BY <1>12, OthersOver DEF Send
  <2> QED BY <1>12, <2>1, MergedType DEF Send, Snap
<1>13. ASSUME NEW u \in Updates, NEW a \in AsyncSubs, SendFull(u, a) PROVE SerialInv'
  <2>1. \A v \in Updates : v # u => pc[v] \in Over BY <1>13, OthersOver DEF SendFull, Snap
  <2> QED BY <1>13, <2>1 DEF SendFull, Snap
<1>14. ASSUME NEW u \in Updates, NEW a \in AsyncSubs, Drain(u, a) PROVE SerialInv'
  <2>1. \A v \in Updates : v # u => pc[v] \in Over BY <1>14, OthersOver DEF Drain
  <2> QED BY <1>14, <2>1 DEF Drain, Drained, Snap
<1>15. ASSUME NEW u \in Updates, NEW a \in AsyncSubs, Resend(u, a) PROVE SerialInv'
  <2>1. \A v \in Updates : v # u => pc[v] \in Over BY <1>15, OthersOver DEF Resend
  <2> QED BY <1>15, <2>1, MergedType DEF Resend, Snap
<1>16. ASSUME NEW u \in Updates, EndApply(u) PROVE SerialInv'
  <2>1. \A v \in Updates : v # u => pc[v] \in Over BY <1>16, OthersOver DEF EndApply
  <2> QED BY <1>16, <2>1 DEF EndApply
<1>17. ASSUME NEW a \in AsyncSubs, Receive(a) PROVE SerialInv'
  BY <1>17 DEF Receive, Snap
<1>18. ASSUME NEW a \in AsyncSubs, Applied(a) \/ LoopEnds(a) PROVE SerialInv'
  BY <1>18 DEF Applied, LoopEnds, Snap
<1>19. CASE Stop \/ UNCHANGED vars
  BY <1>19 DEF Stop, Snap, vars
<1> QED BY <1>1, <1>2, <1>3, <1>4, <1>5, <1>6, <1>7, <1>8, <1>9, <1>10, <1>11, <1>12, <1>13,
           <1>14, <1>15, <1>16, <1>17, <1>18, <1>19 DEF Next, CallStep, LoopStep

\* What holds when calls are made one at a time.
SerialCalls == Serial /\ CallInv /\ SerialInv

\* It holds from the start and is kept.
LEMMA SerialCallsInvariant == Serial /\ Spec => []SerialCalls
<1>1. Serial /\ Init => SerialCalls BY CallInvInit, SerialInit DEF SerialCalls
<1>2. SerialCalls /\ [Next]_vars => SerialCalls'
  BY CallInvNext, SerialNext DEF SerialCalls, Serial
<1> QED BY <1>1, <1>2, PTL DEF Spec

\* Queue and search run on the file whenever no call is in progress, whatever failed before.
QueueAndSearchFollow ==
    InProgress = {} => live["queue"] = file["queue"] /\ live["search"] = file["search"]

\* What it says when no call is in progress.
LEMMA AtRest ==
    ASSUME SerialCalls, InProgress = {}
    PROVE  /\ \A u \in Updates : pc[u] \in Over
           /\ live["queue"] = file["queue"] /\ live["search"] = file["search"]
           /\ live["postgres"] = snapshot.settings["postgres"]
           /\ \A a \in AsyncSubs : Newest(a) = snapshot
<1>1. \A u \in Updates : pc[u] \in Over BY DEF InProgress
<1>2. \A s \in {"queue", "search"} : live[s] = file[s]
  BY <1>1 DEF SerialCalls, SerialInv, StorageFollows, Behind, Syncing, Over
<1>3. live["postgres"] = snapshot.settings["postgres"]
  BY <1>1 DEF SerialCalls, SerialInv, PoolFollows, Reconnected, Syncing, Over
<1>4. \A a \in AsyncSubs : Newest(a) = snapshot
  BY <1>1 DEF SerialCalls, SerialInv, SnapshotFollows, Telling, Over
<1> QED BY <1>1, <1>2, <1>3, <1>4

\* When the current snapshot is what the file says, so is the one setting that can be refused.
LEMMA SerialImplies == SerialCalls => PublishedFitsFile /\ LatestWins /\ QueueAndSearchFollow
<1> SUFFICES ASSUME SerialCalls
             PROVE  PublishedFitsFile /\ LatestWins /\ QueueAndSearchFollow
  OBVIOUS
<1>1. RefusedNotPublished BY CallInvImplies DEF SerialCalls
<1>2. ASSUME InProgress = {}, snapshot.settings = file PROVE live = file
  <2>1. live \in Configurations /\ file \in Configurations
    BY DEF SerialCalls, CallInv, TypeOK
  <2>2. \A s \in Sections : live[s] = file[s] BY <1>2, AtRest DEF Sections
  <2> QED BY <2>1, <2>2 DEF Configurations
<1>3. LatestWins BY AtRest DEF LatestWins, Newest
<1>4. QueueAndSearchFollow BY AtRest DEF QueueAndSearchFollow
<1> QED BY <1>1, <1>2, <1>3, <1>4 DEF PublishedFitsFile, SavedTakesEffect

(***************************************************************************)
(* docs/configuration.md:313, for calls made one at a time: once the call  *)
(* that wrote the file last has succeeded, the synchronous subscribers run *)
(* on what the file says; and what one of them refused is not published.   *)
(***************************************************************************)
THEOREM SavedIsRunning == Serial /\ Spec => []PublishedFitsFile
<1>1. SerialCalls => PublishedFitsFile BY SerialImplies
<1> QED BY <1>1, SerialCallsInvariant, PTL

(***************************************************************************)
(* manager.go:110, for calls made one at a time: an asynchronous           *)
(* subscriber received the current snapshot last, or has it waiting, even  *)
(* if it was at work through several of them.                              *)
(***************************************************************************)
THEOREM NewestApplied == Serial /\ Spec => []LatestWins
<1>1. SerialCalls => LatestWins BY SerialImplies
<1> QED BY <1>1, SerialCallsInvariant, PTL

(***************************************************************************)
(* For calls made one at a time, a connection pool that cannot be opened   *)
(* leaves queue and search on what the file says, although the call fails  *)
(* and the current snapshot stays the older one: Apply calls every         *)
(* synchronous subscriber and takes none back.                             *)
(***************************************************************************)
THEOREM StorageOnFile == Serial /\ Spec => []QueueAndSearchFollow
<1>1. SerialCalls => QueueAndSearchFollow BY SerialImplies
<1> QED BY <1>1, SerialCallsInvariant, PTL

----------------------------------------------------------------------------
(***************************************************************************)
(* The worker registry (WorkerRegistry).                                   *)
(***************************************************************************)

RegistryTypes ==
    /\ flagEnabled \in [Workers -> BOOLEAN]
    /\ flagStarted \in [Workers -> BOOLEAN]
    /\ active \in [Workers -> BOOLEAN]
    /\ call \in {"none", "start", "stop"}
    /\ toVisit \subseteq Workers /\ refused \subseteq Workers
    /\ began \in Nat /\ calls \in 0 .. MaxCalls
    /\ result \in {"none", "started", "alreadyStarted", "hookFailed",
                   "noneEnabled", "stopped"}

\* A Start counts no more than it has visited.
BeganFits ==
    /\ began <= Cardinality(Workers)
    /\ call = "start" => began + Cardinality(toVisit) <= Cardinality(Workers)

\* Whom a Stop has visited is gone, or its hook has failed.
VisitedStopped == call = "stop" => \A w \in Workers \ toVisit : active[w] => w \in refused

RegistryInv == RegistryTypes /\ BeganFits /\ VisitedStopped /\ R!ActiveIsFlagged /\ R!StopReachesAll

\* Initially no worker is started.
LEMMA RegistryInit == R!Init => RegistryInv
<1> SUFFICES ASSUME R!Init PROVE RegistryInv OBVIOUS
<1>1. Cardinality(Workers) \in Nat BY WorkersAssumption, FS_CardinalityType
<1> QED BY <1>1, WorkersAssumption DEF R!Init, RegistryInv, RegistryTypes, BeganFits, VisitedStopped,
                   R!ActiveIsFlagged, R!StopReachesAll

\* One worker less to visit.
LEMMA VisitCount ==
    ASSUME RegistryTypes, NEW w \in toVisit
    PROVE  /\ Cardinality(toVisit) \in Nat /\ Cardinality(Workers) \in Nat
           /\ Cardinality(toVisit \ {w}) = Cardinality(toVisit) - 1
           /\ Cardinality(toVisit) > 0
<1>1. IsFiniteSet(toVisit) BY WorkersAssumption, FS_Subset DEF RegistryTypes
<1> QED BY <1>1, WorkersAssumption, FS_CardinalityType, FS_RemoveElement, FS_EmptySet

\* Every step keeps the invariant.
LEMMA RegistryNext == RegistryInv /\ [R!Next]_registryVars => RegistryInv'
<1> SUFFICES ASSUME RegistryInv, [R!Next]_registryVars PROVE RegistryInv' OBVIOUS
<1>0. Cardinality(Workers) \in Nat BY WorkersAssumption, FS_CardinalityType
<1> USE DEF RegistryInv, RegistryTypes, BeganFits, VisitedStopped, R!ActiveIsFlagged, R!StopReachesAll
<1>1. ASSUME NEW names \in SUBSET Workers, NEW on \in BOOLEAN, R!Enable(names, on) PROVE RegistryInv'
  BY <1>1 DEF R!Enable
<1>2. ASSUME NEW name \in {"start", "stop"}, R!Begin(name) PROVE RegistryInv'
  <2>1. toVisit' = Workers /\ began' = 0 /\ call' = name /\ calls' \in 0 .. MaxCalls
    BY <1>2, WorkersAssumption DEF R!Begin, R!NoneYet
  <2>2. refused' \subseteq Workers BY <1>2 DEF R!Begin
  <2>3. began' + Cardinality(toVisit') <= Cardinality(Workers) BY <1>0, <2>1
  <2>4. UNCHANGED <<flagEnabled, flagStarted, active, result>> BY <1>2 DEF R!Begin
  <2> QED BY <1>0, <2>1, <2>2, <2>3, <2>4
<1>3. ASSUME NEW w \in Workers, R!Pass(w) \/ R!LeaveStopped(w) PROVE RegistryInv'
  <2>1. w \in toVisit /\ toVisit' = toVisit \ {w} BY <1>3 DEF R!Pass, R!LeaveStopped
  <2>2. /\ Cardinality(toVisit) \in Nat
        /\ Cardinality(toVisit') = Cardinality(toVisit) - 1
    BY <2>1, VisitCount
  <2> QED BY <1>0, <1>3, <2>1, <2>2 DEF R!Pass, R!LeaveStopped, R!IsStarted
<1>4. ASSUME NEW w \in Workers, R!AlreadyStarted(w) \/ R!StartFails(w) PROVE RegistryInv'
  BY <1>0, <1>4 DEF R!AlreadyStarted, R!StartFails, R!Return
<1>5. ASSUME NEW w \in Workers, R!StartWorker(w) PROVE RegistryInv'
  <2>1. w \in toVisit /\ toVisit' = toVisit \ {w} BY <1>5 DEF R!StartWorker
  <2>2. /\ Cardinality(toVisit) \in Nat \ {0}
        /\ Cardinality(toVisit') = Cardinality(toVisit) - 1
    BY <2>1, VisitCount
  <2> QED BY <1>0, <1>5, <2>1, <2>2 DEF R!StartWorker
<1>6. ASSUME NEW w \in Workers, R!StopWorker(w) PROVE RegistryInv'
  BY <1>0, <1>6, VisitCount DEF R!StopWorker
<1>7. ASSUME NEW w \in Workers, NEW still \in BOOLEAN, R!StopFails(w, still) PROVE RegistryInv'
  BY <1>0, <1>7, VisitCount DEF R!StopFails, R!FlagKept, R!IsStarted
<1>8. CASE R!EndStart BY <1>0, <1>8 DEF R!EndStart, R!Return
<1>9. CASE R!EndStop BY <1>0, <1>9 DEF R!EndStop, R!Return
<1>10. CASE UNCHANGED registryVars BY <1>10 DEF registryVars
<1> QED BY <1>1, <1>2, <1>3, <1>4, <1>5, <1>6, <1>7, <1>8, <1>9, <1>10 DEF R!Next, R!Visit

\* Only StartWorker counts, and its worker has no flag: by the invariant it is not there.
LEMMA StartsOnce ==
    RegistryInv /\ [R!Next]_registryVars => \A w \in toVisit \ toVisit' : began' > began => ~active[w]
<1> SUFFICES ASSUME RegistryInv, [R!Next]_registryVars, NEW w \in toVisit \ toVisit', began' > began
             PROVE  ~active[w]
  OBVIOUS
<1>0. began \in Nat /\ began' # began BY DEF RegistryInv, RegistryTypes
<1>1. ASSUME R!Begin("start") \/ R!Begin("stop") PROVE FALSE
  BY <1>0, <1>1 DEF R!Begin, R!NoneYet
<1>2. ASSUME NEW v \in Workers, R!Visit(v) PROVE R!StartWorker(v)
  BY <1>0, <1>2 DEF R!Visit, R!Pass, R!LeaveStopped, R!AlreadyStarted, R!StartFails, R!StopWorker,
                    R!StopFails
<1>3. PICK v \in Workers : R!StartWorker(v)
  BY <1>0, <1>1, <1>2 DEF R!Next, R!Enable, R!EndStart, R!EndStop, registryVars
<1>4. v = w BY <1>3 DEF R!StartWorker
<1> QED BY <1>3, <1>4 DEF R!StartWorker, R!NotStarted, RegistryInv, RegistryTypes, R!ActiveIsFlagged

\* The instance's own name for Cardinality.
LEMMA CardinalityOfR == \A S : R!Cardinality(S) = Cardinality(S)
BY DEF R!Cardinality, Cardinality

LEMMA RegistryTypesKept == RegistryInv => R!TypeOK
<1> SUFFICES ASSUME RegistryInv PROVE R!TypeOK OBVIOUS
<1>1. Cardinality(Workers) \in Nat BY WorkersAssumption, FS_CardinalityType
<1>2. began \in 0 .. R!Cardinality(Workers)
  BY <1>1, CardinalityOfR DEF RegistryInv, RegistryTypes, BeganFits
<1> QED BY <1>2 DEF RegistryInv, RegistryTypes, R!TypeOK


----------------------------------------------------------------------------
(***************************************************************************)
(* The webhook publisher (WebhookPublisher).                               *)
(***************************************************************************)

Channels == [W!Generations -> Seq(Events)]

\* The event is in one of the channels; no channel has it twice, and no two have it.
In(q, e) == \E g \in W!Generations : \E i \in 1 .. Len(q[g]) : q[g][i] = e
Once(q) ==
    \A g, h \in W!Generations : \A i \in 1 .. Len(q[g]), j \in 1 .. Len(q[h]) :
        q[g][i] = q[h][j] => g = h /\ i = j

\* A channel without its first event, and with one more.
Pop(q, g) == [q EXCEPT ![g] = Tail(@)]
Push(q, g, e) == [q EXCEPT ![g] = Append(@, e)]

LEMMA GenerationsFrom1 == W!Generations \subseteq Nat \ {0} /\ 1 \in W!Generations
BY WebhookAssumption DEF W!Generations

\* Taking the first event out of a channel.
LEMMA Popped ==
    ASSUME NEW q \in Channels, NEW g \in W!Generations, q[g] # <<>>, Once(q)
    PROVE  /\ Pop(q, g) \in Channels /\ Once(Pop(q, g))
           /\ Head(q[g]) \in Events /\ ~In(Pop(q, g), Head(q[g]))
           /\ \A e : In(q, e) <=> In(Pop(q, g), e) \/ e = Head(q[g])
           /\ Len(q[g]) \in Nat \ {0} /\ Len(Pop(q, g)[g]) = Len(q[g]) - 1
           /\ \A h \in W!Generations \ {g} : Pop(q, g)[h] = q[h]
<1> DEFINE r == Pop(q, g)
<1>1. /\ q[g] \in Seq(Events) /\ Len(q[g]) \in Nat \ {0} /\ Tail(q[g]) \in Seq(Events)
      /\ Head(q[g]) = q[g][1] /\ Head(q[g]) \in Events /\ Len(Tail(q[g])) = Len(q[g]) - 1
      /\ \A i \in 1 .. Len(q[g]) - 1 : Tail(q[g])[i] = q[g][i + 1]
  BY DEF Channels
<1>2. r \in Channels /\ r[g] = Tail(q[g]) /\ \A h \in W!Generations \ {g} : r[h] = q[h]
  BY <1>1 DEF Channels, Pop
<1> HIDE DEF r
<1>3. ASSUME NEW h \in W!Generations, NEW i \in 1 .. Len(r[h])
      PROVE  \E k \in 1 .. Len(q[h]) : r[h][i] = q[h][k] /\ k = (IF h = g THEN i + 1 ELSE i)
  <2>1. CASE h # g BY <1>2, <1>3, <2>1
  <2>2. CASE h = g
    <3>1. i \in 1 .. Len(q[g]) - 1 /\ r[h][i] = q[g][i + 1] BY <1>1, <1>2, <1>3, <2>2
    <3>2. i + 1 \in 1 .. Len(q[h]) BY <1>1, <2>2, <3>1
    <3> QED BY <2>2, <3>1, <3>2
  <2> QED BY <2>1, <2>2
<1>4. Once(r)
  <2> SUFFICES ASSUME NEW x \in W!Generations, NEW y \in W!Generations,
                      NEW i \in 1 .. Len(r[x]), NEW j \in 1 .. Len(r[y]), r[x][i] = r[y][j]
               PROVE  x = y /\ i = j
    BY DEF Once
  <2>1. PICK k \in 1 .. Len(q[x]) : r[x][i] = q[x][k] /\ k = (IF x = g THEN i + 1 ELSE i) BY <1>3
  <2>2. PICK l \in 1 .. Len(q[y]) : r[y][j] = q[y][l] /\ l = (IF y = g THEN j + 1 ELSE j) BY <1>3
  <2>0. q[x][k] = q[y][l] BY <2>1, <2>2
  <2>3. x = y /\ k = l BY <2>0 DEF Once
  <2>4. Len(r[x]) \in Nat BY <1>2 DEF Channels
  <2> QED BY <2>1, <2>2, <2>3, <2>4
<1>5. ~In(r, Head(q[g]))
  <2> SUFFICES ASSUME NEW h \in W!Generations, NEW i \in 1 .. Len(r[h]), r[h][i] = q[g][1]
               PROVE  FALSE
    BY <1>1 DEF In
  <2>1. PICK k \in 1 .. Len(q[h]) : r[h][i] = q[h][k] /\ k = (IF h = g THEN i + 1 ELSE i) BY <1>3
  <2>2. h = g /\ k = 1 BY <1>1, <2>1 DEF Once
  <2>3. i \in Nat \ {0} BY <1>2 DEF Channels
  <2> QED BY <2>1, <2>2, <2>3
<1>6. ASSUME NEW e PROVE In(q, e) <=> In(r, e) \/ e = Head(q[g])
  <2>1. ASSUME NEW h \in W!Generations, NEW i \in 1 .. Len(r[h]), r[h][i] = e
        PROVE  \E k \in 1 .. Len(q[h]) : q[h][k] = e
    BY <1>3, <2>1
  <2>2. e = Head(q[g]) => In(q, e) BY <1>1 DEF In
  <2>3. ASSUME NEW h \in W!Generations, NEW i \in 1 .. Len(q[h]), q[h][i] = e, e # Head(q[g])
        PROVE  \E k \in 1 .. Len(r[h]) : r[h][k] = e
    <3>1. CASE h # g BY <1>2, <2>3, <3>1
    <3>2. CASE h = g
      <4>1. i # 1 BY <1>1, <2>3, <3>2
      <4>2. i - 1 \in 1 .. Len(q[g]) - 1 BY <1>1, <2>3, <3>2, <4>1
      <4>3. i - 1 \in 1 .. Len(r[h]) /\ r[h][i - 1] = q[g][(i - 1) + 1] BY <1>1, <1>2, <3>2, <4>2
      <4>4. (i - 1) + 1 = i BY <1>1, <2>3, <3>2
      <4> QED BY <2>3, <3>2, <4>3, <4>4
    <3> QED BY <3>1, <3>2
  <2> QED BY <2>1, <2>2, <2>3 DEF In
<1> QED BY <1>1, <1>2, <1>4, <1>5, <1>6 DEF r

\* Putting an event that is in no channel at the end of one.
LEMMA Pushed ==
    ASSUME NEW q \in Channels, NEW g \in W!Generations, NEW e \in Events, ~In(q, e), Once(q)
    PROVE  /\ Push(q, g, e) \in Channels /\ Once(Push(q, g, e))
           /\ \A x : In(Push(q, g, e), x) <=> In(q, x) \/ x = e
           /\ Len(q[g]) \in Nat /\ Len(Push(q, g, e)[g]) = Len(q[g]) + 1
           /\ \A h \in W!Generations \ {g} : Push(q, g, e)[h] = q[h]
<1> DEFINE r == Push(q, g, e)
<1>1. /\ q[g] \in Seq(Events) /\ Len(q[g]) \in Nat /\ Append(q[g], e) \in Seq(Events)
      /\ Len(Append(q[g], e)) = Len(q[g]) + 1
      /\ \A i \in 1 .. Len(q[g]) : Append(q[g], e)[i] = q[g][i]
      /\ Append(q[g], e)[Len(q[g]) + 1] = e
  BY DEF Channels
<1>2. r \in Channels /\ r[g] = Append(q[g], e) /\ \A h \in W!Generations \ {g} : r[h] = q[h]
  BY <1>1 DEF Channels, Push
<1> HIDE DEF r
<1>3. ASSUME NEW h \in W!Generations, NEW i \in 1 .. Len(r[h])
      PROVE  IF h = g /\ i = Len(q[g]) + 1 THEN r[h][i] = e
             ELSE i \in 1 .. Len(q[h]) /\ r[h][i] = q[h][i]
  BY <1>1, <1>2
<1>4. Once(r)
  <2> SUFFICES ASSUME NEW x \in W!Generations, NEW y \in W!Generations,
                      NEW i \in 1 .. Len(r[x]), NEW j \in 1 .. Len(r[y]), r[x][i] = r[y][j]
               PROVE  x = y /\ i = j
    BY DEF Once
  <2> DEFINE new(h, k) == h = g /\ k = Len(q[g]) + 1
  <2>1. \A h \in W!Generations : \A k \in 1 .. Len(q[h]) : q[h][k] # e BY DEF In
  <2>2. /\ IF new(x, i) THEN r[x][i] = e ELSE i \in 1 .. Len(q[x]) /\ r[x][i] = q[x][i]
        /\ IF new(y, j) THEN r[y][j] = e ELSE j \in 1 .. Len(q[y]) /\ r[y][j] = q[y][j]
    BY <1>3
  <2>3. CASE new(x, i) \/ new(y, j)
    <3> HIDE DEF new
    <3>1. new(x, i) /\ new(y, j) BY <2>1, <2>2, <2>3
    <3> QED BY <3>1 DEF new
  <2>4. CASE ~new(x, i) /\ ~new(y, j)
    <3> HIDE DEF new
    <3> QED BY <2>2, <2>4 DEF Once
  <2> QED BY <2>3, <2>4
<1>5. ASSUME NEW x PROVE In(r, x) <=> In(q, x) \/ x = e
  <2>1. In(r, x) => In(q, x) \/ x = e BY <1>3 DEF In
  <2>2. ASSUME x = e PROVE In(r, x)
    <3>1. Len(q[g]) + 1 \in 1 .. Len(r[g]) /\ r[g][Len(q[g]) + 1] = e BY <1>1, <1>2
    <3> QED BY <2>2, <3>1 DEF In
  <2>3. ASSUME NEW h \in W!Generations, NEW i \in 1 .. Len(q[h]) PROVE i \in 1 .. Len(r[h]) /\ r[h][i] = q[h][i]
    BY <1>1, <1>2
  <2> QED BY <2>1, <2>2, <2>3 DEF In
<1> QED BY <1>1, <1>2, <1>4, <1>5 DEF r

PublisherTypes ==
    /\ W!TypeOK /\ queue \in Channels
    /\ updating => current <= MaxResizes \/ locked

\* A Publish that holds queueMu for reading sends to the current channel, and keeps a resize out.
SendersCurrent ==
    \A e \in Events : sender[e] # W!NoChannel => sender[e] = current /\ ~locked /\ fate[e] = "new"

\* A resize is between the channel before and the current one, and what is left fits the old one.
ResizeFits ==
    locked => /\ updating /\ current > 1
              /\ Len(queue[current]) + Len(queue[current - 1]) <= capacity[current - 1]

\* Only what is being delivered is in hand.
InHandWhileDelivering == IF loop = "deliver" THEN inHand \in Events ELSE inHand = W!Nothing

\* What was accepted and is not done with is in one channel once, or in hand.
Tracked(q, hand, f) ==
    /\ Once(q)
    /\ \A e \in Events : f[e] = "accepted" <=> In(q, e) \/ hand = e
    /\ \A e \in Events : ~(In(q, e) /\ hand = e)

PublisherInv ==
    /\ PublisherTypes /\ SendersCurrent /\ ResizeFits /\ InHandWhileDelivering
    /\ W!RetiredChannelsEmpty /\ W!WakeWhenStale
    /\ Tracked(queue, inHand, fate)

\* Initially nothing is published, and the first channel is the current one.
LEMMA PublisherInit == W!Init => PublisherInv
<1> SUFFICES ASSUME W!Init PROVE PublisherInv OBVIOUS
<1>1. queue \in Channels /\ \A g \in W!Generations : queue[g] = <<>> BY DEF W!Init, Channels
<1>2. \A e : ~In(queue, e) BY <1>1 DEF In
<1>3. Once(queue) BY <1>1 DEF Once
<1>4. W!TypeOK
  <2>1. url \in 1 .. NumUrls /\ tries \in 0 .. Retries /\ starts \in 0 .. MaxStarts
    BY WebhookAssumption DEF W!Init
  <2>2. capacity \in [W!Generations -> Sizes] /\ wanted \in Sizes BY DEF W!Init
  <2>3. \A g \in W!Generations : queue[g] \in Seq(Events) /\ Len(queue[g]) <= capacity[g]
    <3> SUFFICES ASSUME NEW g \in W!Generations
                 PROVE  queue[g] \in Seq(Events) /\ Len(queue[g]) <= capacity[g]
      OBVIOUS
    <3>1. capacity[g] \in Nat BY <2>2, WebhookAssumption
    <3>2. queue[g] = <<>> BY <1>1
    <3> QED BY <3>1, <3>2
  <2> QED BY <2>1, <2>2, <2>3, GenerationsFrom1 DEF W!Init, W!TypeOK, W!Nothing
<1>5. PublisherTypes BY <1>1, <1>4, WebhookAssumption DEF PublisherTypes, W!Init
<1>6. SendersCurrent /\ ResizeFits /\ InHandWhileDelivering BY DEF W!Init, SendersCurrent, ResizeFits, InHandWhileDelivering
<1>7. W!RetiredChannelsEmpty /\ W!WakeWhenStale BY <1>1 DEF W!Init, W!RetiredChannelsEmpty, W!WakeWhenStale
<1>8. Tracked(queue, inHand, fate)
  BY <1>2, <1>3, WebhookAssumption DEF W!Init, Tracked, W!Nothing
<1> QED BY <1>5, <1>6, <1>7, <1>8 DEF PublisherInv

\* The parts of the invariant in arithmetic, at one channel.
LEMMA AtChannel ==
    ASSUME PublisherInv, NEW g \in W!Generations
    PROVE  /\ queue[g] \in Seq(Events) /\ Len(queue[g]) \in Nat /\ capacity[g] \in Nat
           /\ Len(queue[g]) <= capacity[g] /\ (queue[g] = <<>> <=> Len(queue[g]) = 0)
           /\ current \in Nat \ {0} /\ MaxResizes \in Nat
<1>1. queue[g] \in Seq(Events) /\ capacity[g] \in Sizes /\ Len(queue[g]) <= capacity[g] /\ current \in W!Generations
  BY DEF PublisherInv, PublisherTypes, W!TypeOK
<1>2. capacity[g] \in Nat /\ current \in Nat \ {0} /\ MaxResizes \in Nat
  BY <1>1, WebhookAssumption, GenerationsFrom1
<1>3. Len(queue[g]) \in Nat /\ (queue[g] = <<>> <=> Len(queue[g]) = 0) BY <1>1
<1> QED BY <1>1, <1>2, <1>3

\* While a resize goes on, the channel before is one of the generations too.
LEMMA ChannelBefore ==
    ASSUME PublisherInv, locked
    PROVE  current \in W!Generations /\ current - 1 \in W!Generations /\ current - 1 # current
<1>1. current \in W!Generations /\ current > 1 BY DEF PublisherInv, PublisherTypes, W!TypeOK, ResizeFits
<1> QED BY <1>1, WebhookAssumption DEF W!Generations


\* Steps that leave the channels, the resize, and what is in hand or has become of an event, alone.
LEMMA NothingMoves ==
    ASSUME PublisherInv,
           UNCHANGED <<enabled, wanted, updating, queue, capacity, current, locked, inHand, fate, url, tries>>,
           sender' \in [Events -> W!Generations \cup {W!NoChannel}], wakeToken' \in BOOLEAN,
           running' \in BOOLEAN, alive' \in BOOLEAN, starts' \in 0 .. MaxStarts,
           loop' \in {"none", "check", "read", "select", "drain", "rest", "gone"}, loop # "deliver",
           draining' \in BOOLEAN, source' \in W!Generations,
           SendersCurrent', W!WakeWhenStale'
    PROVE  PublisherInv'
<1>1. PublisherTypes' BY DEF PublisherInv, PublisherTypes, W!TypeOK
<1>2. ResizeFits' BY DEF PublisherInv, ResizeFits
<1>3. InHandWhileDelivering' BY DEF PublisherInv, InHandWhileDelivering
<1>4. W!RetiredChannelsEmpty' BY DEF PublisherInv, W!RetiredChannelsEmpty
<1>5. Tracked(queue, inHand, fate)' BY DEF PublisherInv
<1> QED BY <1>1, <1>2, <1>3, <1>4, <1>5 DEF PublisherInv

\* The calls of Start and Stop, the turns of the goroutine between two events, and the locks.
LEMMA TurnInv ==
    ASSUME PublisherInv, \/ W!Start \/ W!CheckContext \/ W!ReadQueue
                         \/ W!Woken \/ W!Cancelled \/ W!Drained
    PROVE  PublisherInv'
<1>0. /\ sender \in [Events -> W!Generations \cup {W!NoChannel}] /\ wakeToken \in BOOLEAN
      /\ running \in BOOLEAN /\ alive \in BOOLEAN /\ starts \in 0 .. MaxStarts
      /\ draining \in BOOLEAN /\ source \in W!Generations /\ current \in W!Generations
      /\ SendersCurrent /\ W!WakeWhenStale
  BY DEF PublisherInv, PublisherTypes, W!TypeOK
<1> USE DEF W!updateVars, W!lifeVars, SendersCurrent, W!WakeWhenStale
<1>1. CASE W!Start
  <2>1. starts' \in 0 .. MaxStarts BY <1>0, <1>1, WebhookAssumption DEF W!Start
  <2> QED BY <1>0, <1>1, <2>1, NothingMoves DEF W!Start, W!KeptAtStart
<1>2. CASE W!CheckContext BY <1>0, <1>2, NothingMoves DEF W!CheckContext, W!Goto
<1>3. CASE W!ReadQueue BY <1>0, <1>3, NothingMoves DEF W!ReadQueue
<1>4. CASE W!Woken BY <1>0, <1>4, NothingMoves DEF W!Woken
<1>5. CASE W!Cancelled \/ W!Drained BY <1>0, <1>5, NothingMoves DEF W!Cancelled, W!Drained, W!Goto
<1> QED BY <1>1, <1>2, <1>3, <1>4, <1>5

\* Stop, and the steps of Update and Publish that move no event.
LEMMA LockInv ==
    ASSUME PublisherInv,
           \/ W!Stop \/ W!SameSize \/ W!EndResize
           \/ \E on \in BOOLEAN, size \in Sizes : W!Configure(on, size)
           \/ \E e \in Events : W!BeginPublish(e)
    PROVE  PublisherInv'
<1>0. Tracked(queue, inHand, fate)'
  BY DEF PublisherInv, W!SameSize, W!EndResize, W!Stop, W!Configure, W!BeginPublish, W!loopVars
<1> USE WebhookAssumption
    DEF PublisherInv, PublisherTypes, W!TypeOK, SendersCurrent, ResizeFits, InHandWhileDelivering,
        W!RetiredChannelsEmpty, W!WakeWhenStale, W!loopVars, W!lifeVars, W!updateVars, W!NoChannel,
        W!Generations
<1>1. CASE W!SameSize
  <2>1. PublisherTypes' BY <1>1 DEF W!SameSize
  <2>2. SendersCurrent' /\ ResizeFits' /\ InHandWhileDelivering' BY <1>1 DEF W!SameSize
  <2>3. W!RetiredChannelsEmpty' /\ W!WakeWhenStale' BY <1>1 DEF W!SameSize
  <2> QED BY <1>0, <2>1, <2>2, <2>3
<1>2. CASE W!EndResize
  <2>1. PublisherTypes' BY <1>2 DEF W!EndResize, W!WakeAfterResize
  <2>2. SendersCurrent' /\ ResizeFits' /\ InHandWhileDelivering' BY <1>2 DEF W!EndResize
  <2>3. W!RetiredChannelsEmpty' BY <1>2, AtChannel, ChannelBefore DEF W!EndResize
  <2>4. W!WakeWhenStale' BY <1>2 DEF W!EndResize, W!WakeAfterResize
  <2> QED BY <1>0, <2>1, <2>2, <2>3, <2>4
<1>3. CASE W!Stop BY <1>0, <1>3 DEF W!Stop
<1>4. ASSUME NEW on \in BOOLEAN, NEW size \in Sizes, W!Configure(on, size) PROVE PublisherInv'
  <2>1. PublisherTypes' BY <1>4 DEF W!Configure
  <2>2. SendersCurrent' /\ ResizeFits' /\ InHandWhileDelivering' BY <1>4 DEF W!Configure
  <2>3. W!RetiredChannelsEmpty' /\ W!WakeWhenStale' BY <1>4 DEF W!Configure
  <2> QED BY <1>0, <2>1, <2>2, <2>3
<1>5. ASSUME NEW e \in Events, W!BeginPublish(e) PROVE PublisherInv'
  <2>1. PublisherTypes' BY <1>5 DEF W!BeginPublish
  <2>2. SendersCurrent' BY <1>5 DEF W!BeginPublish
  <2>3. ResizeFits' BY <1>5 DEF W!BeginPublish
  <2>4. InHandWhileDelivering' /\ W!RetiredChannelsEmpty' /\ W!WakeWhenStale' BY <1>5 DEF W!BeginPublish
  <2> QED BY <1>0, <2>1, <2>2, <2>3, <2>4
<1> QED BY <1>1, <1>2, <1>3, <1>4, <1>5

\* The new channel of a resize is an empty one.
LEMMA BeginResizeInv == ASSUME PublisherInv, W!BeginResize PROVE PublisherInv'
<1> USE DEF W!BeginResize, W!loopVars, W!lifeVars
<1>1. current \in W!Generations /\ current + 1 \in W!Generations /\ MaxResizes \in Nat
  BY WebhookAssumption DEF PublisherInv, PublisherTypes, W!TypeOK, W!Generations
<1>2. queue[current + 1] = <<>> BY <1>1 DEF PublisherInv, W!RetiredChannelsEmpty, W!Generations
<1>3. W!TypeOK'
  <2>1. capacity' \in [W!Generations -> Sizes] BY <1>1 DEF PublisherInv, PublisherTypes, W!TypeOK
  <2>2. \A g \in W!Generations : Len(queue'[g]) <= capacity'[g]
    <3> SUFFICES ASSUME NEW g \in W!Generations PROVE Len(queue[g]) <= capacity'[g] OBVIOUS
    <3>1. CASE g = current + 1
      <4>1. capacity'[g] \in Nat BY <2>1, WebhookAssumption
      <4> QED BY <1>2, <3>1, <4>1
    <3>2. CASE g # current + 1
      BY <3>2, AtChannel DEF PublisherInv, PublisherTypes, W!TypeOK
    <3> QED BY <3>1, <3>2
  <2> QED BY <1>1, <2>1, <2>2 DEF PublisherInv, PublisherTypes, W!TypeOK
<1>4. PublisherTypes' BY <1>1, <1>3 DEF PublisherInv, PublisherTypes
<1>5. SendersCurrent' BY DEF PublisherInv, SendersCurrent, W!NoReaders
<1>6. ResizeFits'
  <2>1. capacity'[current] = capacity[current]
    BY <1>1 DEF PublisherInv, PublisherTypes, W!TypeOK, W!Generations
  <2>2. Len(queue[current]) \in Nat /\ Len(queue[current]) <= capacity[current] BY <1>1, AtChannel
  <2>3. (current + 1) - 1 = current /\ current + 1 > 1 BY <1>1 DEF W!Generations
  <2>4. updating' BY DEF PublisherInv
  <2>5. Len(queue[current + 1]) + Len(queue[current]) <= capacity[current] BY <1>2, <2>2
  <2> QED BY <2>1, <2>3, <2>4, <2>5 DEF ResizeFits
<1>7. InHandWhileDelivering' BY DEF PublisherInv, InHandWhileDelivering
<1>8. W!RetiredChannelsEmpty'
  BY <1>1 DEF PublisherInv, W!RetiredChannelsEmpty, W!Generations
<1>9. W!WakeWhenStale' BY DEF PublisherInv, W!WakeWhenStale
<1>10. Tracked(queue, inHand, fate)' BY DEF PublisherInv
<1> QED BY <1>4, <1>5, <1>6, <1>7, <1>8, <1>9, <1>10 DEF PublisherInv

\* What leaves a channel for nowhere is dropped, and what moves is in the other channel.
LEMMA MigrateInv == ASSUME PublisherInv, W!Migrate PROVE PublisherInv'
<1> DEFINE e == Head(queue[current - 1])
           rest == Pop(queue, current - 1)
           moved == Push(rest, current, e)
<1>0. locked /\ queue[current - 1] # <<>> BY DEF W!Migrate
<1>1. current \in W!Generations /\ current - 1 \in W!Generations /\ current - 1 # current
  BY <1>0, ChannelBefore
<1>2. queue \in Channels /\ Once(queue) BY DEF PublisherInv, PublisherTypes, Tracked
<1>3. /\ rest \in Channels /\ Once(rest) /\ e \in Events /\ ~In(rest, e)
      /\ \A x : In(queue, x) <=> In(rest, x) \/ x = e
      /\ Len(queue[current - 1]) \in Nat \ {0} /\ Len(rest[current - 1]) = Len(queue[current - 1]) - 1
      /\ \A h \in W!Generations \ {current - 1} : rest[h] = queue[h]
  BY <1>0, <1>1, <1>2, Popped
<1>4. rest[current] = queue[current] BY <1>1, <1>3
<1>5. /\ moved \in Channels /\ Once(moved)
      /\ \A x : In(moved, x) <=> In(rest, x) \/ x = e
      /\ Len(moved[current]) = Len(queue[current]) + 1
      /\ \A h \in W!Generations \ {current} : moved[h] = rest[h]
  <2> HIDE DEF rest, e
  <2> QED BY <1>1, <1>3, <1>4, Pushed
<1>8. /\ UNCHANGED <<enabled, wanted, updating, capacity, current, locked, sender, wakeToken, loop,
                     draining, source, inHand, url, tries, running, alive, starts>>
      /\ IF Len(queue[current]) < capacity[current]
         THEN queue' = moved /\ fate' = fate
         ELSE queue' = rest /\ fate' = [fate EXCEPT ![e] = "dropped"]
  BY DEF W!Migrate, W!Migrated, W!HasRoom, W!updateVars, W!loopVars, W!lifeVars, Pop, Push
<1> HIDE DEF rest, moved, e
<1>6. \A g \in W!Generations \ {current, current - 1} : rest[g] = queue[g] /\ moved[g] = queue[g]
  BY <1>1, <1>3, <1>5
<1>7. /\ Len(queue[current]) \in Nat /\ capacity[current] \in Nat /\ capacity[current - 1] \in Nat
      /\ Len(queue[current]) <= capacity[current] /\ Len(queue[current - 1]) <= capacity[current - 1]
      /\ Len(queue[current]) + Len(queue[current - 1]) <= capacity[current - 1]
  BY <1>0, <1>1, AtChannel DEF PublisherInv, ResizeFits
<1>9. /\ queue' \in Channels /\ Once(queue')
      /\ \A g \in W!Generations \ {current, current - 1} : queue'[g] = queue[g]
  <2>1. CASE queue' = moved BY <1>5, <1>6, <2>1
  <2>2. CASE queue' = rest BY <1>3, <1>6, <2>2
  <2> QED BY <1>8, <2>1, <2>2
<1>fits. Len(queue'[current]) + Len(queue'[current - 1]) <= capacity[current - 1]
  <2> DEFINE a == Len(queue[current])
             b == Len(queue[current - 1])
             a2 == Len(queue'[current])
             b2 == Len(queue'[current - 1])
             d == capacity[current - 1]
  <2>1. b2 = b - 1
    <3>1. queue'[current - 1] = rest[current - 1] BY <1>1, <1>5, <1>8
    <3> QED BY <1>3, <3>1
  <2>2. a2 = a + 1 \/ a2 = a
    <3>1. CASE queue' = moved BY <1>5, <3>1
    <3>2. CASE queue' = rest BY <1>4, <3>2
    <3> QED BY <1>8, <3>1, <3>2
  <2>3. a \in Nat /\ b \in Nat /\ d \in Nat /\ a + b <= d BY <1>3, <1>7
  <2> HIDE DEF a, b, a2, b2, d
  <2>4. a2 + b2 <= d BY <2>1, <2>2, <2>3
  <2> QED BY <2>4 DEF a2, b2, d
<1>10. \A g \in W!Generations : queue'[g] \in Seq(Events) /\ Len(queue'[g]) <= capacity[g]
  <2>1. Len(queue'[current]) <= capacity[current] BY <1>4, <1>5, <1>7, <1>8
  <2>2. Len(queue'[current - 1]) <= capacity[current - 1]
    <3>1. queue'[current - 1] = rest[current - 1] BY <1>1, <1>5, <1>8
    <3> QED BY <1>3, <1>7, <3>1
  <2>3. \A g \in W!Generations \ {current, current - 1} : Len(queue'[g]) <= capacity[g]
    BY <1>9, AtChannel
  <2> QED BY <1>9, <2>1, <2>2, <2>3 DEF Channels
<1>11. fate' \in [Events -> {"new", "refused", "accepted", "dropped", "done"}]
  BY <1>3, <1>8 DEF PublisherInv, PublisherTypes, W!TypeOK
<1>12. PublisherTypes'
  BY <1>8, <1>9, <1>10, <1>11 DEF PublisherInv, PublisherTypes, W!TypeOK
<1>13. SendersCurrent' BY <1>0, <1>8 DEF PublisherInv, SendersCurrent
<1>14. ResizeFits' BY <1>8, <1>fits DEF PublisherInv, ResizeFits
<1>15. InHandWhileDelivering' /\ W!WakeWhenStale'
  BY <1>8 DEF PublisherInv, InHandWhileDelivering, W!WakeWhenStale
<1>16. W!RetiredChannelsEmpty' BY <1>0, <1>8, <1>9 DEF PublisherInv, W!RetiredChannelsEmpty
<1>17. Tracked(queue', inHand', fate')
  <2>1. fate \in [Events -> {"new", "refused", "accepted", "dropped", "done"}]
    BY DEF PublisherInv, PublisherTypes, W!TypeOK
  <2>2. inHand # e /\ \A x \in Events : (fate[x] = "accepted" <=> In(queue, x) \/ inHand = x)
                                        /\ ~(In(queue, x) /\ inHand = x)
    BY <1>3 DEF PublisherInv, Tracked
  <2>3. CASE queue' = moved /\ fate' = fate BY <1>3, <1>5, <1>8, <2>2, <2>3 DEF Tracked
  <2>4. CASE queue' = rest /\ fate' = [fate EXCEPT ![e] = "dropped"]
    BY <1>3, <1>8, <2>1, <2>2, <2>4 DEF Tracked
  <2> QED BY <1>8, <2>3, <2>4
<1> QED BY <1>12, <1>13, <1>14, <1>15, <1>16, <1>17 DEF PublisherInv


\* The channel a Publish sends to is the current one, and what does not fit is refused.
LEMMA EndPublishInv == ASSUME PublisherInv, NEW e \in Events, W!EndPublish(e) PROVE PublisherInv'
<1> DEFINE pushed == Push(queue, current, e)
<1>0. sender[e] = current /\ ~locked /\ fate[e] = "new" BY DEF PublisherInv, SendersCurrent, W!EndPublish
<1>1. current \in W!Generations BY DEF PublisherInv, PublisherTypes, W!TypeOK
<1>2. queue \in Channels /\ Once(queue) /\ ~In(queue, e) /\ inHand # e
  BY <1>0 DEF PublisherInv, PublisherTypes, Tracked
<1>3. /\ pushed \in Channels /\ Once(pushed)
      /\ \A x : In(pushed, x) <=> In(queue, x) \/ x = e
      /\ Len(pushed[current]) = Len(queue[current]) + 1
      /\ \A h \in W!Generations \ {current} : pushed[h] = queue[h]
  BY <1>1, <1>2, Pushed
<1>4. /\ UNCHANGED <<enabled, wanted, updating, capacity, current, locked, wakeToken, loop,
                     draining, source, inHand, url, tries, running, alive, starts>>
      /\ sender' = [sender EXCEPT ![e] = W!NoChannel]
      /\ \/ /\ Len(queue[current]) < capacity[current]
            /\ queue' = pushed /\ fate' = [fate EXCEPT ![e] = "accepted"]
         \/ queue' = queue /\ fate' = [fate EXCEPT ![e] = "refused"]
  BY <1>0 DEF W!EndPublish, W!HasRoom, W!updateVars, W!loopVars, W!lifeVars, Push
<1> HIDE DEF pushed
<1>5. queue' \in Channels /\ \A g \in W!Generations \ {current} : queue'[g] = queue[g]
  BY <1>2, <1>3, <1>4
<1>6. \A g \in W!Generations : queue'[g] \in Seq(Events) /\ Len(queue'[g]) <= capacity[g]
  <2>1. Len(queue'[current]) <= capacity[current] BY <1>1, <1>3, <1>4, AtChannel
  <2>2. \A g \in W!Generations \ {current} : Len(queue'[g]) <= capacity[g] BY <1>5, AtChannel
  <2> QED BY <1>5, <2>1, <2>2 DEF Channels
<1>7. /\ fate \in [Events -> {"new", "refused", "accepted", "dropped", "done"}]
      /\ fate' \in [Events -> {"new", "refused", "accepted", "dropped", "done"}]
      /\ sender \in [Events -> W!Generations \cup {W!NoChannel}]
      /\ sender' \in [Events -> W!Generations \cup {W!NoChannel}]
  BY <1>4 DEF PublisherInv, PublisherTypes, W!TypeOK
<1>8. PublisherTypes' BY <1>4, <1>5, <1>6, <1>7 DEF PublisherInv, PublisherTypes, W!TypeOK
<1>9. SendersCurrent' BY <1>4, <1>7 DEF PublisherInv, SendersCurrent
<1>10. ResizeFits' BY <1>0, <1>4 DEF ResizeFits
<1>11. InHandWhileDelivering' /\ W!WakeWhenStale'
  BY <1>4 DEF PublisherInv, InHandWhileDelivering, W!WakeWhenStale
<1>12. W!RetiredChannelsEmpty' BY <1>4, <1>5 DEF PublisherInv, W!RetiredChannelsEmpty
<1>13. Tracked(queue', inHand', fate')
  <2>1. \A x \in Events : (fate[x] = "accepted" <=> In(queue, x) \/ inHand = x)
                          /\ ~(In(queue, x) /\ inHand = x)
    BY DEF PublisherInv, Tracked
  <2>2. CASE queue' = pushed /\ fate' = [fate EXCEPT ![e] = "accepted"]
    BY <1>2, <1>3, <1>4, <1>7, <2>1, <2>2 DEF Tracked
  <2>3. CASE queue' = queue /\ fate' = [fate EXCEPT ![e] = "refused"]
    BY <1>0, <1>2, <1>4, <1>7, <2>1, <2>3 DEF Tracked
  <2> QED BY <1>4, <2>2, <2>3
<1> QED BY <1>8, <1>9, <1>10, <1>11, <1>12, <1>13 DEF PublisherInv

\* An ignored event was in no channel.
LEMMA IgnoreInv == ASSUME PublisherInv, NEW e \in Events, W!Ignore(e) PROVE PublisherInv'
<1>1. /\ fate[e] = "new" /\ sender[e] = W!NoChannel /\ fate' = [fate EXCEPT ![e] = "refused"]
      /\ UNCHANGED <<enabled, wanted, updating, capacity, current, locked, wakeToken, loop, queue,
                     sender, draining, source, inHand, url, tries, running, alive, starts>>
  BY DEF W!Ignore, W!updateVars, W!loopVars, W!lifeVars
<1>2. /\ fate \in [Events -> {"new", "refused", "accepted", "dropped", "done"}]
      /\ fate' \in [Events -> {"new", "refused", "accepted", "dropped", "done"}]
  BY <1>1 DEF PublisherInv, PublisherTypes, W!TypeOK
<1>3. PublisherTypes' BY <1>1, <1>2 DEF PublisherInv, PublisherTypes, W!TypeOK
<1>4. SendersCurrent' BY <1>1, <1>2 DEF PublisherInv, SendersCurrent
<1>5. ResizeFits' /\ InHandWhileDelivering' /\ W!WakeWhenStale' /\ W!RetiredChannelsEmpty'
  BY <1>1 DEF PublisherInv, ResizeFits, InHandWhileDelivering, W!WakeWhenStale, W!RetiredChannelsEmpty
<1>6. Tracked(queue', inHand', fate') BY <1>1, <1>2 DEF PublisherInv, Tracked
<1> QED BY <1>3, <1>4, <1>5, <1>6 DEF PublisherInv

\* What is received is in hand, and in no channel any more.
LEMMA ReceiveInv == ASSUME PublisherInv, W!Receive PROVE PublisherInv'
<1> DEFINE e == Head(queue[source])
           rest == Pop(queue, source)
<1>0. /\ loop \in {"select", "rest"} /\ queue[source] # <<>>
      /\ inHand' = e /\ queue' = rest /\ loop' = "deliver" /\ url' = 1 /\ tries' = 0
      /\ UNCHANGED <<enabled, wanted, updating, capacity, current, locked, wakeToken, sender,
                     draining, source, fate, running, alive, starts>>
  BY DEF W!Receive, W!updateVars, W!lifeVars, Pop
<1>1. source \in W!Generations /\ queue \in Channels /\ Once(queue) /\ inHand = W!Nothing
  BY <1>0 DEF PublisherInv, PublisherTypes, W!TypeOK, Tracked, InHandWhileDelivering
<1>2. /\ rest \in Channels /\ Once(rest) /\ e \in Events /\ ~In(rest, e)
      /\ \A x : In(queue, x) <=> In(rest, x) \/ x = e
      /\ Len(queue[source]) \in Nat \ {0} /\ Len(rest[source]) = Len(queue[source]) - 1
      /\ \A h \in W!Generations \ {source} : rest[h] = queue[h]
  BY <1>0, <1>1, Popped
<1> HIDE DEF rest, e
<1>3. \A g \in W!Generations :
        /\ queue'[g] \in Seq(Events) /\ Len(queue'[g]) \in Nat /\ Len(queue'[g]) <= capacity[g]
        /\ Len(queue'[g]) <= Len(queue[g])
        /\ queue'[g] # <<>> => queue[g] # <<>>
  <2> SUFFICES ASSUME NEW g \in W!Generations
               PROVE  /\ queue'[g] \in Seq(Events) /\ Len(queue'[g]) \in Nat
                      /\ Len(queue'[g]) <= capacity[g] /\ Len(queue'[g]) <= Len(queue[g])
                      /\ queue'[g] # <<>> => queue[g] # <<>>
    OBVIOUS
  <2>1. queue'[g] \in Seq(Events) /\ Len(queue'[g]) \in Nat BY <1>0, <1>2 DEF Channels
  <2>2. CASE g = source BY <1>0, <1>2, <2>1, <2>2, AtChannel
  <2>3. CASE g # source BY <1>0, <1>2, <2>1, <2>3, AtChannel
  <2> QED BY <2>2, <2>3
<1>4. PublisherTypes'
  BY <1>0, <1>2, <1>3, WebhookAssumption DEF PublisherInv, PublisherTypes, W!TypeOK
<1>5. SendersCurrent' BY <1>0 DEF PublisherInv, SendersCurrent
<1>6. ResizeFits'
  <2> SUFFICES ASSUME locked
               PROVE  /\ updating /\ current > 1
                      /\ Len(queue'[current]) + Len(queue'[current - 1]) <= capacity[current - 1]
    BY <1>0 DEF ResizeFits
  <2>1. current \in W!Generations /\ current - 1 \in W!Generations BY ChannelBefore
  <2>2. /\ updating /\ current > 1
        /\ Len(queue[current]) + Len(queue[current - 1]) <= capacity[current - 1]
    BY DEF PublisherInv, ResizeFits
  <2>3. /\ Len(queue[current]) \in Nat /\ Len(queue[current - 1]) \in Nat /\ capacity[current - 1] \in Nat
    BY <2>1, AtChannel
  <2> DEFINE a == Len(queue[current])
             b == Len(queue[current - 1])
             a2 == Len(queue'[current])
             b2 == Len(queue'[current - 1])
             d == capacity[current - 1]
  <2>4. /\ a \in Nat /\ b \in Nat /\ a2 \in Nat /\ b2 \in Nat /\ d \in Nat
        /\ a + b <= d /\ a2 <= a /\ b2 <= b
    BY <1>3, <2>1, <2>2, <2>3
  <2> HIDE DEF a, b, a2, b2, d
  <2>5. a2 + b2 <= d BY <2>4
  <2> QED BY <2>2, <2>5 DEF a2, b2, d
<1>7. InHandWhileDelivering' BY <1>0, <1>2 DEF InHandWhileDelivering
<1>8. W!RetiredChannelsEmpty' BY <1>0, <1>3 DEF PublisherInv, W!RetiredChannelsEmpty
<1>9. W!WakeWhenStale' BY <1>0 DEF W!WakeWhenStale
<1>10. Tracked(queue', inHand', fate')
  <2>1. \A x \in Events : (fate[x] = "accepted" <=> In(queue, x)) /\ x # inHand
    BY <1>1, WebhookAssumption DEF PublisherInv, Tracked, W!Nothing
  <2> QED BY <1>0, <1>2, <2>1 DEF Tracked
<1> QED BY <1>4, <1>5, <1>6, <1>7, <1>8, <1>9, <1>10 DEF PublisherInv

\* An attempt leaves the event in hand, or the event is done with.
LEMMA PostInv == ASSUME PublisherInv, NEW ok \in BOOLEAN, W!Post(ok) PROVE PublisherInv'
<1>0. /\ loop = "deliver" /\ inHand \in Events
      /\ url \in 1 .. NumUrls /\ tries \in 0 .. Retries
      /\ fate \in [Events -> {"new", "refused", "accepted", "dropped", "done"}]
      /\ NumUrls \in Nat \ {0} /\ Retries \in Nat /\ "none" \notin Events
  BY WebhookAssumption DEF PublisherInv, PublisherTypes, W!TypeOK, InHandWhileDelivering, W!Post
<1>1. UNCHANGED <<enabled, wanted, updating, capacity, current, locked, wakeToken, queue,
                  sender, draining, source, running, alive, starts>>
  BY DEF W!Post, W!updateVars, W!lifeVars
<1>2. \/ /\ UNCHANGED <<loop, inHand, fate>>
         /\ url' \in 1 .. NumUrls /\ tries' \in 0 .. Retries
      \/ /\ fate' = [fate EXCEPT ![inHand] = "done"] /\ inHand' = W!Nothing
         /\ loop' \in {"rest", "check"} /\ UNCHANGED <<url, tries>>
  BY <1>0 DEF W!Post, W!NextUrl
<1>3. PublisherTypes'
  <2>1. fate' \in [Events -> {"new", "refused", "accepted", "dropped", "done"}] BY <1>0, <1>2
  <2>2. inHand' \in Events \cup {W!Nothing} /\ url' \in 1 .. NumUrls /\ tries' \in 0 .. Retries
        /\ loop' \in {"none", "check", "read", "select", "deliver", "drain", "rest", "gone"}
    BY <1>0, <1>2
  <2> QED BY <1>1, <2>1, <2>2 DEF PublisherInv, PublisherTypes, W!TypeOK
<1>4. SendersCurrent'
  <2>1. \A e \in Events : sender[e] # W!NoChannel => sender[e] = current /\ ~locked /\ fate[e] = "new"
    BY DEF PublisherInv, SendersCurrent
  <2>2. fate[inHand] = "accepted" BY <1>0 DEF PublisherInv, Tracked
  <2> QED BY <1>0, <1>1, <1>2, <2>1, <2>2 DEF SendersCurrent
<1>5. ResizeFits' /\ W!RetiredChannelsEmpty'
  BY <1>1 DEF PublisherInv, ResizeFits, W!RetiredChannelsEmpty
<1>6. InHandWhileDelivering' BY <1>0, <1>2 DEF InHandWhileDelivering
<1>7. W!WakeWhenStale' BY <1>0, <1>2 DEF W!WakeWhenStale
<1>8. Tracked(queue', inHand', fate')
  BY <1>0, <1>1, <1>2 DEF PublisherInv, Tracked, W!Nothing
<1> QED BY <1>3, <1>4, <1>5, <1>6, <1>7, <1>8 DEF PublisherInv

\* Every step of the publisher, and every step of another part, keeps the invariant.
LEMMA PublisherNext == PublisherInv /\ [W!Next]_webhookVars => PublisherInv'
<1> SUFFICES ASSUME PublisherInv, [W!Next]_webhookVars PROVE PublisherInv' OBVIOUS
<1>1. CASE W!Update
  BY <1>1, LockInv, BeginResizeInv, MigrateInv DEF W!Update
<1>2. CASE W!Publish
  BY <1>2, IgnoreInv, LockInv, EndPublishInv DEF W!Publish
<1>3. CASE W!Start \/ W!Stop BY <1>3, TurnInv, LockInv
<1>4. CASE W!Deliver BY <1>4, TurnInv, ReceiveInv, PostInv DEF W!Deliver
<1>5. CASE UNCHANGED webhookVars
  <2>1. UNCHANGED <<enabled, wanted, updating, capacity, current, locked, wakeToken, loop, queue,
                    sender, draining, source, inHand, url, tries, running, alive, starts, fate>>
    BY <1>5 DEF webhookVars
  <2>2. PublisherTypes' BY <2>1 DEF PublisherInv, PublisherTypes, W!TypeOK
  <2>3. SendersCurrent' /\ ResizeFits' BY <2>1 DEF PublisherInv, SendersCurrent, ResizeFits
  <2>4. InHandWhileDelivering' BY <2>1 DEF PublisherInv, InHandWhileDelivering
  <2>5. W!RetiredChannelsEmpty' BY <2>1 DEF PublisherInv, W!RetiredChannelsEmpty
  <2>6. W!WakeWhenStale' BY <2>1 DEF PublisherInv, W!WakeWhenStale
  <2>7. Tracked(queue, inHand, fate)' BY <2>1 DEF PublisherInv
  <2> QED BY <2>2, <2>3, <2>4, <2>5, <2>6, <2>7 DEF PublisherInv
<1> QED BY <1>1, <1>2, <1>3, <1>4, <1>5 DEF W!Next

\* The instance's own name for Cardinality.
LEMMA CardinalityOfW == \A S : W!Cardinality(S) = Cardinality(S)
BY DEF W!Cardinality, Cardinality

\* An accepted event has one place: in one channel once, or in hand.
LEMMA OnePlace == PublisherInv => W!NoneVanishes
<1> SUFFICES ASSUME PublisherInv, NEW e \in Events
             PROVE  Cardinality(W!Places(e)) = (IF fate[e] = "accepted" THEN 1 ELSE 0)
  BY CardinalityOfW DEF W!NoneVanishes
<1>1. /\ Once(queue) /\ queue \in Channels /\ fate[e] = "accepted" <=> In(queue, e) \/ inHand = e
  BY DEF PublisherInv, PublisherTypes, Tracked
<1>2. ~(In(queue, e) /\ inHand = e) BY DEF PublisherInv, Tracked
<1>3. \A g \in W!Generations : DOMAIN queue[g] = 1 .. Len(queue[g]) BY DEF PublisherInv, PublisherTypes, Channels
<1>4. \A p : p \in W!Places(e) <=>
              \/ inHand = e /\ p = <<0, 0>>
              \/ \E g \in W!Generations : \E i \in 1 .. Len(queue[g]) : queue[g][i] = e /\ p = <<g, i>>
  BY <1>3 DEF W!Places
<1>5. CASE inHand = e
  <2>1. W!Places(e) = {<<0, 0>>} BY <1>2, <1>4, <1>5 DEF In
  <2> QED BY <1>5, <2>1, FS_Singleton DEF PublisherInv, Tracked
<1>6. CASE In(queue, e)
  <2>1. PICK g \in W!Generations : \E i \in 1 .. Len(queue[g]) : queue[g][i] = e BY <1>6 DEF In
  <2>0. PICK i \in 1 .. Len(queue[g]) : queue[g][i] = e BY <2>1
  <2>2. \A h \in W!Generations : \A j \in 1 .. Len(queue[h]) : queue[h][j] = e => h = g /\ j = i
    BY <2>0 DEF PublisherInv, Tracked, Once
  <2>3. W!Places(e) = {<<g, i>>} BY <1>2, <1>4, <1>6, <2>0, <2>2
  <2> QED BY <1>6, <2>3, FS_Singleton DEF PublisherInv, Tracked
<1>7. CASE ~In(queue, e) /\ inHand # e
  <2>1. W!Places(e) = {} BY <1>4, <1>7 DEF In
  <2> QED BY <1>7, <2>1, FS_EmptySet DEF PublisherInv, Tracked
<1> QED BY <1>5, <1>6, <1>7

\* An event is dropped only when the old channel held more than the new one can.
LEMMA DroppedBySmaller ==
    PublisherInv /\ [W!Next]_webhookVars =>
        [\A e \in Events : fate[e] = "accepted" /\ fate'[e] = "dropped" =>
             capacity[current] < capacity[current - 1]]_(W!vars)
<1> SUFFICES ASSUME PublisherInv, W!Next, NEW e \in Events, fate[e] = "accepted", fate'[e] = "dropped"
             PROVE  capacity[current] < capacity[current - 1]
  BY DEF webhookVars, W!vars, W!updateVars, W!loopVars, W!lifeVars
<1>1. fate \in [Events -> {"new", "refused", "accepted", "dropped", "done"}]
  BY DEF PublisherInv, PublisherTypes, W!TypeOK
<1>2. CASE W!Migrate
  <2>1. ~(Len(queue[current]) < capacity[current]) BY <1>2 DEF W!Migrate, W!Migrated, W!HasRoom
  <2>2. locked /\ queue[current - 1] # <<>> BY <1>2 DEF W!Migrate
  <2>3. current \in W!Generations /\ current - 1 \in W!Generations BY <2>2, ChannelBefore
  <2>4. Len(queue[current]) + Len(queue[current - 1]) <= capacity[current - 1]
    BY <2>2 DEF PublisherInv, ResizeFits
  <2>5. /\ Len(queue[current]) \in Nat /\ Len(queue[current - 1]) \in Nat \ {0}
        /\ capacity[current] \in Nat /\ capacity[current - 1] \in Nat
    BY <2>2, <2>3, AtChannel
  <2> DEFINE a == Len(queue[current])
             b == Len(queue[current - 1])
             c == capacity[current]
             d == capacity[current - 1]
  <2>6. a \in Nat /\ b \in Nat \ {0} /\ c \in Nat /\ d \in Nat /\ a + b <= d /\ ~(a < c) BY <2>1, <2>4, <2>5
  <2> HIDE DEF a, b, c, d
  <2>7. c < d BY <2>6
  <2> QED BY <2>7 DEF c, d
<1>3. CASE \E x \in Events : W!Ignore(x) \/ W!BeginPublish(x) \/ W!EndPublish(x)
  BY <1>1, <1>3 DEF W!Ignore, W!BeginPublish, W!EndPublish
<1>4. CASE \E ok \in BOOLEAN : W!Post(ok) BY <1>1, <1>4 DEF W!Post, W!NextUrl
<1>5. CASE W!SameSize \/ W!BeginResize \/ W!EndResize
           \/ \E on \in BOOLEAN, size \in Sizes : W!Configure(on, size)
  BY <1>5 DEF W!SameSize, W!BeginResize, W!EndResize, W!Configure
<1>6. CASE W!Start \/ W!Stop BY <1>6 DEF W!Start, W!Stop
<1>7. CASE W!CheckContext \/ W!ReadQueue \/ W!Receive \/ W!Woken \/ W!Cancelled \/ W!Drained
  BY <1>7 DEF W!CheckContext, W!ReadQueue, W!Receive, W!Woken, W!Cancelled, W!Drained, W!Goto
<1> QED BY <1>2, <1>3, <1>4, <1>5, <1>6, <1>7 DEF W!Next, W!Update, W!Publish, W!Deliver

----------------------------------------------------------------------------
(***************************************************************************)
(* The health checker: what a goroutine copied without the lock is what it *)
(* finds when it writes.                                                   *)
(***************************************************************************)

\* The state of a check changes only where its own goroutine writes: until then the copy is
\* right, and the failures counted are those since its last success.
CheckFits(c) ==
    /\ at[c] = "execute" => copy[c] = health[c]
    /\ at[c] = "write" => copy[c].fails = streak[c] /\ c \in observed
    /\ at[c] # "write" => health[c].fails = streak[c]
    /\ copy[c].fails <= MaxFails[c]
    /\ health[c].status = "down" => MaxFails[c] <= health[c].fails
    /\ copy[c].status = "down" => MaxFails[c] <= copy[c].fails
    /\ c \notin observed => health[c].status = "unknown"

HealthInv ==
    /\ H!TypeOK
    /\ ~isRunning => H!AllGone
    /\ stopping => isRunning
    /\ \A c \in Checks : CheckFits(c)
    /\ H!ReadyMeansChecked

LEMMA HealthInit == H!Init => HealthInv
<1> SUFFICES ASSUME H!Init PROVE HealthInv OBVIOUS
<1>1. \A c \in Checks : /\ health[c] = H!Unchecked /\ copy[c] = H!Unchecked /\ at[c] = "none"
                        /\ streak[c] = 0 /\ MaxFails[c] \in Nat
  BY HealthAssumption DEF H!Init
<1>2. H!Unchecked \in [status : H!Statuses, fails : Nat] BY DEF H!Unchecked, H!Statuses
<1>3. /\ health \in [Checks -> [status : H!Statuses, fails : Nat]]
      /\ copy \in [Checks -> [status : H!Statuses, fails : Nat]]
      /\ at \in [Checks -> {"none", "delay", "read", "execute", "write", "wait"}]
      /\ streak \in [Checks -> Nat]
  BY <1>2 DEF H!Init
<1>4. checkerStarts \in 0 .. MaxRestarts + 1 /\ changes \in 0 .. MaxChanges
  BY HealthAssumption DEF H!Init
<1>5. isRunning \in BOOLEAN /\ cancelled \in BOOLEAN /\ stopping \in BOOLEAN BY Zenon DEF H!Init
<1>6. \A c \in Checks : health[c].fails <= MaxFails[c] /\ streak[c] <= MaxFails[c]
  BY <1>1 DEF H!Unchecked
<1>7. H!TypeOK BY <1>3, <1>4, <1>5, <1>6 DEF H!Init, H!TypeOK, H!Statuses
<1>8. \A c \in Checks : CheckFits(c) BY <1>1 DEF H!Unchecked, CheckFits
<1> QED BY <1>1, <1>7, <1>8 DEF H!Init, HealthInv, H!AllGone, H!ReadyMeansChecked

\* What aggregateStatus gives is a status, and is "up" only when every check was looked at.
LEMMA Aggregated ==
    ASSUME NEW states \in [Checks -> [status : H!Statuses, fails : Nat]]
    PROVE  /\ H!Aggregate(states) \in H!Statuses
           /\ H!Aggregate(states) = "up" => \A c \in Checks : states[c].status # "unknown"
<1> DEFINE critical == {s \in {states[c].status : c \in Checks} :
                          H!Criticality(s) > H!Criticality(H!Best)}
           choices == {H!Best} \cup critical
           Worst(s) == \A t \in critical : H!Criticality(t) <= H!Criticality(s)
<1>1. \A s \in critical : s \in {"down", "unknown"} BY DEF H!Criticality, H!Best, H!Statuses
<1>2. \E s \in choices : Worst(s)
  <2>1. CASE "down" \in critical BY <1>1, <2>1 DEF H!Criticality
  <2>2. CASE "down" \notin critical /\ "unknown" \in critical BY <1>1, <2>2 DEF H!Criticality
  <2>3. CASE critical = {} BY <2>3
  <2> QED BY <1>1, <2>1, <2>2, <2>3
<1>3. PICK a : a = H!Aggregate(states) OBVIOUS
<1>4. a = CHOOSE s \in choices : Worst(s) BY <1>3 DEF H!Aggregate
<1>5. a \in choices /\ Worst(a) BY <1>2, <1>4
<1>6. a \in H!Statuses BY <1>1, <1>5 DEF H!Statuses, H!Best
<1>7. ASSUME a = "up", NEW c \in Checks, states[c].status = "unknown" PROVE FALSE
  <2>1. "unknown" \in critical BY <1>7 DEF H!Criticality, H!Best
  <2>2. H!Criticality("unknown") <= H!Criticality("up") BY <1>5, <1>7, <2>1
  <2> QED BY <2>2 DEF H!Criticality
<1> HIDE DEF critical, choices, Worst
<1> QED BY <1>3, <1>6, <1>7

\* A step moves the goroutine of one check, or none.
LEMMA HealthNext == HealthInv /\ [H!Next]_healthVars => HealthInv'
<1> SUFFICES ASSUME HealthInv, [H!Next]_healthVars PROVE HealthInv' OBVIOUS
<1> USE HealthAssumption
<1>1. CASE UNCHANGED healthVars
  BY <1>1 DEF HealthInv, H!TypeOK, H!AllGone, CheckFits, H!ReadyMeansChecked, healthVars
<1>2. CASE H!Start
  <2>1. H!TypeOK'
    <3>1. at' \in [Checks -> {"none", "delay", "read", "execute", "write", "wait"}]
      BY <1>2 DEF H!Start
    <3>2. checkerStarts' \in 0 .. MaxRestarts + 1 BY <1>2 DEF H!Start, HealthInv, H!TypeOK
    <3>3. isRunning' \in BOOLEAN /\ cancelled' \in BOOLEAN BY <1>2, Zenon DEF H!Start
    <3> QED BY <1>2, <3>1, <3>2, <3>3 DEF H!Start, HealthInv, H!TypeOK, H!world
  <2>2. \A c \in Checks : CheckFits(c)'
    BY <1>2 DEF H!Start, HealthInv, H!TypeOK, H!AllGone, CheckFits, H!world
  <2> QED BY <1>2, <2>1, <2>2 DEF H!Start, HealthInv, H!AllGone, H!ReadyMeansChecked
<1>3. CASE H!Check
  <2>1. UNCHANGED <<health, isRunning, stopping, cancelled, at, copy, healthy, inUse, changes, streak,
                    observed, checkerStarts>>
    BY <1>3 DEF H!Check, H!goroutines, H!world
  <2>2. overall' = H!Aggregate(health) BY <1>3 DEF H!Check
  <2>3. /\ overall' \in H!Statuses
        /\ overall' = "up" => \A c \in Checks : health[c].status # "unknown"
    BY <2>2, Aggregated DEF HealthInv, H!TypeOK
  <2> QED BY <2>1, <2>3 DEF HealthInv, H!TypeOK, H!AllGone, CheckFits, H!ReadyMeansChecked
<1>4. CASE H!BeginStop
  BY <1>4 DEF H!BeginStop, HealthInv, H!TypeOK, H!AllGone, CheckFits, H!ReadyMeansChecked,
              H!goroutines, H!world
<1>5. CASE H!EndStop
  BY <1>5 DEF H!EndStop, HealthInv, H!TypeOK, H!AllGone, CheckFits, H!ReadyMeansChecked,
              H!goroutines, H!world
<1>6. ASSUME NEW c \in Checks, H!Change(c) PROVE HealthInv'
  BY <1>6 DEF H!Change, H!Toggled, HealthInv, H!TypeOK, H!AllGone, CheckFits, H!ReadyMeansChecked,
              H!goroutines
<1>7. ASSUME NEW c \in Checks, H!DelayOver(c) \/ H!Again(c) \/ H!Leave(c) PROVE HealthInv'
  <2>1. UNCHANGED <<health, overall, isRunning, cancelled, stopping, copy, healthy, inUse, changes,
                    streak, observed, checkerStarts>>
    BY <1>7 DEF H!DelayOver, H!Again, H!Leave, H!world
  <2>2. \E p \in {"read", "none"} : at[c] \in {"delay", "wait"} /\ at' = [at EXCEPT ![c] = p]
    BY <1>7 DEF H!DelayOver, H!Again, H!Leave
  <2>3. PICK p \in {"read", "none"} : at[c] \in {"delay", "wait"} /\ at' = [at EXCEPT ![c] = p]
    BY <2>2
  <2>4. isRunning BY <2>3 DEF HealthInv, H!AllGone
  <2>5. H!TypeOK' BY <2>1, <2>3 DEF HealthInv, H!TypeOK
  <2>6. \A d \in Checks : CheckFits(d)' BY <2>1, <2>3 DEF HealthInv, CheckFits, H!TypeOK
  <2> QED BY <2>1, <2>4, <2>5, <2>6 DEF HealthInv, H!ReadyMeansChecked
<1>8. ASSUME NEW c \in Checks, H!Read(c) PROVE HealthInv'
  <2>1. isRunning BY <1>8 DEF H!Read, HealthInv, H!AllGone
  <2>2. H!TypeOK' BY <1>8 DEF H!Read, HealthInv, H!TypeOK, H!world
  <2>3. CheckFits(c)' BY <1>8 DEF H!Read, HealthInv, H!TypeOK, CheckFits
  <2>4. \A d \in Checks \ {c} : CheckFits(d)' BY <1>8 DEF H!Read, HealthInv, H!TypeOK, CheckFits
  <2> QED BY <1>8, <2>1, <2>2, <2>3, <2>4 DEF H!Read, HealthInv, H!ReadyMeansChecked
<1>9. ASSUME NEW c \in Checks, H!Inactive(c) PROVE HealthInv'
  <2>1. isRunning BY <1>9 DEF H!Inactive, HealthInv, H!AllGone
  <2>2. copy' = [copy EXCEPT ![c] = [fails |-> copy[c].fails, status |-> "inactive"]]
    <3>1. copy[c] \in [status : H!Statuses, fails : Nat] BY DEF HealthInv, H!TypeOK
    <3>2. [copy[c] EXCEPT !.status = "inactive"] = [fails |-> copy[c].fails, status |-> "inactive"]
      BY <3>1
    <3> QED BY <1>9, <3>2 DEF H!Inactive
  <2>3. H!TypeOK' BY <1>9, <2>2 DEF H!Inactive, HealthInv, H!TypeOK, H!world, H!Statuses
  <2>4. CheckFits(c)' BY <1>9, <2>2 DEF H!Inactive, HealthInv, H!TypeOK, CheckFits
  <2>5. \A d \in Checks \ {c} : CheckFits(d)'
    BY <1>9, <2>2 DEF H!Inactive, HealthInv, H!TypeOK, CheckFits
  <2>6. H!ReadyMeansChecked' BY <1>9 DEF H!Inactive, HealthInv, H!TypeOK, H!ReadyMeansChecked
  <2> QED BY <1>9, <2>1, <2>3, <2>4, <2>5, <2>6 DEF H!Inactive, HealthInv
<1>10. ASSUME NEW c \in Checks, NEW ok \in BOOLEAN, H!Execute(c, ok) PROVE HealthInv'
  <2> DEFINE counted == IF ok THEN 0 ELSE H!Plus(copy[c].fails, c)
             verdict == IF ~ok /\ H!TooMany(counted, c) THEN "down" ELSE "up"
  <2>1. isRunning BY <1>10 DEF H!Execute, HealthInv, H!AllGone
  <2>2. /\ counted \in Nat /\ counted <= MaxFails[c]
        /\ verdict \in {"up", "down"} /\ (verdict = "down" => MaxFails[c] <= counted)
    BY DEF HealthInv, H!TypeOK, CheckFits, H!Plus, H!TooMany
  <2>3. copy' = [copy EXCEPT ![c] = [fails |-> counted, status |-> verdict]]
    BY <1>10 DEF H!Execute
  <2>4. copy[c].fails = streak[c] BY <1>10 DEF H!Execute, HealthInv, CheckFits
  <2>5. streak' = [streak EXCEPT ![c] = counted] BY <1>10, <2>4 DEF H!Execute
  <2>6. /\ at[c] = "execute" /\ at' = [at EXCEPT ![c] = "write"]
        /\ observed' = observed \cup {c}
        /\ UNCHANGED <<health, overall, isRunning, cancelled, stopping, healthy, inUse, changes,
                       checkerStarts>>
    BY <1>10 DEF H!Execute, H!world
  <2> HIDE DEF counted, verdict
  <2>7. H!TypeOK'
    <3>1. copy' \in [Checks -> [status : H!Statuses, fails : Nat]]
      BY <2>2, <2>3 DEF HealthInv, H!TypeOK, H!Statuses
    <3>2. streak' \in [Checks -> Nat] /\ \A d \in Checks : streak'[d] <= MaxFails[d]
      BY <2>2, <2>5 DEF HealthInv, H!TypeOK
    <3> QED BY <2>6, <3>1, <3>2 DEF HealthInv, H!TypeOK
  <2>8. CheckFits(c)' BY <2>2, <2>3, <2>5, <2>6 DEF HealthInv, H!TypeOK, CheckFits
  <2>9. \A d \in Checks \ {c} : CheckFits(d)'
    BY <2>3, <2>5, <2>6 DEF HealthInv, H!TypeOK, CheckFits
  <2>10. H!ReadyMeansChecked' BY <2>6 DEF HealthInv, H!TypeOK, H!ReadyMeansChecked
  <2> QED BY <2>1, <2>6, <2>7, <2>8, <2>9, <2>10 DEF HealthInv
<1>11. ASSUME NEW c \in Checks, H!Write(c) PROVE HealthInv'
  <2>1. isRunning BY <1>11 DEF H!Write, HealthInv, H!AllGone
  <2>2. /\ at[c] = "write" /\ at' = [at EXCEPT ![c] = "wait"]
        /\ health' = [health EXCEPT ![c] = copy[c]]
        /\ UNCHANGED <<isRunning, cancelled, stopping, copy, healthy, inUse, changes, streak,
                       observed, checkerStarts>>
    BY <1>11 DEF H!Write, H!world
  <2>3. health' \in [Checks -> [status : H!Statuses, fails : Nat]] BY <2>2 DEF HealthInv, H!TypeOK
  <2>4. overall' = H!Aggregate(health') BY <1>11 DEF H!Write
  <2>5. /\ overall' \in H!Statuses
        /\ overall' = "up" => \A d \in Checks : health'[d].status # "unknown"
    BY <2>3, <2>4, Aggregated
  <2>6. CheckFits(c)' BY <2>2 DEF HealthInv, H!TypeOK, CheckFits
  <2>7. \A d \in Checks \ {c} : CheckFits(d)' BY <2>2 DEF HealthInv, H!TypeOK, CheckFits
  <2>8. \A d \in Checks : CheckFits(d)' BY <2>6, <2>7
  <2>9. H!TypeOK'
    <3>1. \A d \in Checks : health'[d].fails <= MaxFails[d]
      BY <2>2 DEF HealthInv, H!TypeOK, CheckFits
    <3> QED BY <2>2, <2>3, <2>5, <3>1 DEF HealthInv, H!TypeOK
  <2>10. H!ReadyMeansChecked' BY <2>2, <2>5, <2>8 DEF HealthInv, H!TypeOK, H!ReadyMeansChecked, CheckFits
  <2> QED BY <2>1, <2>2, <2>8, <2>9, <2>10 DEF HealthInv
<1> QED
  BY <1>1, <1>2, <1>3, <1>4, <1>5, <1>6, <1>7, <1>8, <1>9, <1>10, <1>11 DEF H!Next, H!Step

\* The results of the checks, for a reader of the status (check.go:29).
LEMMA HealthStates ==
    HealthInv => H!TypeOK /\ H!CountsContiguous /\ H!DownIsDeserved /\ H!ReadyMeansChecked
<1> SUFFICES ASSUME HealthInv
             PROVE  H!TypeOK /\ H!CountsContiguous /\ H!DownIsDeserved /\ H!ReadyMeansChecked
  OBVIOUS
<1>1. H!CountsContiguous BY DEF HealthInv, CheckFits, H!CountsContiguous
<1>2. H!DownIsDeserved BY DEF HealthInv, CheckFits, H!DownIsDeserved
<1> QED BY <1>1, <1>2 DEF HealthInv

----------------------------------------------------------------------------
(***************************************************************************)
(* The pools.  A pool goes one way: made, referred to, replaced, retired,  *)
(* closed; and each call has a pool of its own under way.                  *)
(***************************************************************************)
Retired == closing \cup closed
CallRecord == [stage : {"idle", "connect", "replace", "read", "hand", "retire"}, db : Databases,
               new : Nat, old : Nat]
Record(s, d, n, o) == [stage |-> s, db |-> d, new |-> n, old |-> o]
Holding(c) == reconnect[c].stage \in {"read", "hand", "retire"}

PoolTypes ==
    /\ settings \in Databases /\ pools \in Seq(Databases)
    /\ ref \in DOMAIN pools /\ shared \in DOMAIN pools /\ 1 \in DOMAIN pools
    /\ closing \subseteq DOMAIN pools /\ closed \subseteq DOMAIN pools
    /\ reconnect \in [Reconnects -> CallRecord]
    /\ using \in [Users -> [pool : Nat, kept : BOOLEAN, stale : BOOLEAN]]
    /\ \A u \in Users : using[u].pool \in 0 .. Len(pools)
    /\ unserved \subseteq {"kept", "stranded", "slow"}
    /\ overlapped \in BOOLEAN

\* A pool that was made and not yet referred to is known to its call only.
Fresh(c) ==
    reconnect[c].stage = "replace" =>
      /\ reconnect[c].new \in DOMAIN pools /\ reconnect[c].new # ref
      /\ reconnect[c].new \notin Retired
      /\ \A d \in Reconnects :
           /\ d # c /\ reconnect[d].stage = "replace" => reconnect[d].new # reconnect[c].new
           /\ Holding(d) => reconnect[d].old # reconnect[c].new

\* A pool that was replaced is retired by the call that replaced it.
Replaced(c) ==
    Holding(c) =>
      /\ reconnect[c].old \in DOMAIN pools /\ reconnect[c].old # ref
      /\ reconnect[c].old \notin Retired
      /\ \A d \in Reconnects : d # c /\ Holding(d) => reconnect[d].old # reconnect[c].old

HandsOnMade(c) == reconnect[c].stage = "hand" => reconnect[c].new \in DOMAIN pools

\* One change after the other: what the queries have, the reference and the settings agree but
\* for what the one call has still to do.
InStep(c) ==
    CASE reconnect[c].stage = "replace" ->
           shared = ref /\ pools[reconnect[c].new] = settings
      [] reconnect[c].stage = "read" ->
           shared = reconnect[c].old /\ pools[ref] = settings
      [] reconnect[c].stage = "hand" ->
           shared = reconnect[c].old /\ reconnect[c].new = ref /\ pools[ref] = settings
      [] reconnect[c].stage = "retire" ->
           shared = ref /\ pools[ref] = settings
      [] OTHER -> TRUE

OneChange ==
    ~overlapped =>
      /\ \A c, d \in Reconnects : D!Changing(c) /\ D!Changing(d) => c = d
      /\ \A c \in Reconnects : D!Changing(c) => InStep(c)
      /\ (\A c \in Reconnects : ~D!Changing(c)) => shared = ref /\ pools[ref] = settings
      /\ \A u \in Users : using[u].kept \/ ~using[u].stale
      /\ "stranded" \notin unserved

PoolInv ==
    /\ PoolTypes
    /\ D!ForceStaysOpen
    /\ \A c \in Reconnects : Fresh(c) /\ Replaced(c) /\ HandsOnMade(c)
    /\ OneChange

\* What a step of a call does to the calls.
Puts(f, c, r) == [f EXCEPT ![c] = r]
Goes(f, c, s) == [f EXCEPT ![c].stage = s]
GoesWithNew(f, c, s, n) == [f EXCEPT ![c].stage = s, ![c].new = n]
GoesWithOld(f, c, s, o) == [f EXCEPT ![c].stage = s, ![c].old = o]

LEMMA CallMoves ==
  ASSUME NEW f \in [Reconnects -> CallRecord], NEW c \in Reconnects, NEW s, NEW n
  PROVE  /\ Goes(f, c, s) = Puts(f, c, Record(s, f[c].db, f[c].new, f[c].old))
         /\ GoesWithNew(f, c, s, n) = Puts(f, c, Record(s, f[c].db, n, f[c].old))
         /\ GoesWithOld(f, c, s, n) = Puts(f, c, Record(s, f[c].db, f[c].new, n))
<1>1. f[c] \in CallRecord OBVIOUS
<1>2. [f[c] EXCEPT !.stage = s] = Record(s, f[c].db, f[c].new, f[c].old) BY <1>1 DEF CallRecord, Record
<1>3. [f[c] EXCEPT !.stage = s, !.new = n] = Record(s, f[c].db, n, f[c].old)
  <2>1. [Record(s, f[c].db, f[c].new, f[c].old) EXCEPT !.new = n] = Record(s, f[c].db, n, f[c].old) BY DEF Record
  <2> QED BY <1>2, <2>1
<1>4. [f[c] EXCEPT !.stage = s, !.old = n] = Record(s, f[c].db, f[c].new, n)
  <2>1. [Record(s, f[c].db, f[c].new, f[c].old) EXCEPT !.old = n] = Record(s, f[c].db, f[c].new, n) BY DEF Record
  <2> QED BY <1>2, <2>1
<1>5. [f EXCEPT ![c].stage = s] = [f EXCEPT ![c] = Record(s, f[c].db, f[c].new, f[c].old)] BY <1>2
<1>6. [f EXCEPT ![c].stage = s, ![c].new = n] = [f EXCEPT ![c] = Record(s, f[c].db, n, f[c].old)]
  <2> DEFINE g == [f EXCEPT ![c].stage = s, ![c].new = n]
             h == [f EXCEPT ![c] = Record(s, f[c].db, n, f[c].old)]
  <2>1. \A d \in Reconnects \ {c} : g[d] = h[d] OBVIOUS
  <2>2. g[c] = [f[c] EXCEPT !.stage = s, !.new = n] OBVIOUS
  <2>3. g[c] = h[c] BY <1>3, <2>2
  <2>4. g = [d \in Reconnects |-> g[d]] /\ h = [d \in Reconnects |-> h[d]] OBVIOUS
  <2> HIDE DEF g, h
  <2>5. g = h BY <2>1, <2>3, <2>4
  <2> QED BY <2>5 DEF g, h
<1>7. [f EXCEPT ![c].stage = s, ![c].old = n] = [f EXCEPT ![c] = Record(s, f[c].db, f[c].new, n)]
  <2> DEFINE g == [f EXCEPT ![c].stage = s, ![c].old = n]
             h == [f EXCEPT ![c] = Record(s, f[c].db, f[c].new, n)]
  <2>1. \A d \in Reconnects \ {c} : g[d] = h[d] OBVIOUS
  <2>2. g[c] = [f[c] EXCEPT !.stage = s, !.old = n] OBVIOUS
  <2>3. g[c] = h[c] BY <1>4, <2>2
  <2>4. g = [d \in Reconnects |-> g[d]] /\ h = [d \in Reconnects |-> h[d]] OBVIOUS
  <2> HIDE DEF g, h
  <2>5. g = h BY <2>1, <2>3, <2>4
  <2> QED BY <2>5 DEF g, h
<1> QED BY <1>5, <1>6, <1>7 DEF Puts, Goes, GoesWithNew, GoesWithOld

LEMMA PoolInit == D!Init => PoolInv
<1> SUFFICES ASSUME D!Init PROVE PoolInv OBVIOUS
<1>1. pools = <<Home>> /\ DOMAIN pools = {1} /\ Len(pools) = 1 /\ pools[1] = Home
  BY DEF D!Init
<1>2. \A c \in Reconnects : reconnect[c].stage = "idle" BY DEF D!Init, D!NoCall
<1>3. PoolTypes
  <2>1. reconnect \in [Reconnects -> CallRecord]
    BY PoolAssumption DEF D!Init, D!NoCall, CallRecord
  <2>2. D!NoUse \in [pool : Nat, kept : BOOLEAN, stale : BOOLEAN] BY Zenon DEF D!NoUse
  <2>3. using \in [Users -> [pool : Nat, kept : BOOLEAN, stale : BOOLEAN]]
    BY <2>2 DEF D!Init
  <2>4. \A u \in Users : using[u].pool \in 0 .. Len(pools) BY <1>1 DEF D!Init, D!NoUse
  <2>5. overlapped \in BOOLEAN BY Zenon DEF D!Init
  <2>6. pools \in Seq(Databases) BY PoolAssumption DEF D!Init
  <2> QED BY <1>1, <2>1, <2>3, <2>4, <2>5, <2>6, PoolAssumption DEF D!Init, PoolTypes
<1>4. D!ForceStaysOpen BY DEF D!Init, D!ForceStaysOpen
<1>5. \A u \in Users : ~using[u].stale BY DEF D!Init, D!NoUse
<1> QED BY <1>1, <1>2, <1>3, <1>4, <1>5
        DEF D!Init, PoolInv, Fresh, Replaced, HandsOnMade, Holding, OneChange, D!Changing, InStep

\* What only the use of the pools changes.
LEMMA PoolInvUses ==
    ASSUME PoolInv, PoolTypes', OneChange',
           UNCHANGED <<pools, ref, shared, closing, closed, settings, reconnect>>
    PROVE  PoolInv'
BY DEF PoolInv, D!ForceStaysOpen, Fresh, Replaced, HandsOnMade, Holding, Retired

\* The record that a step of a call leaves, and the calls it leaves alone.
LEMMA ChangesInv ==
    ASSUME PoolInv, NEW c \in Reconnects, NEW db \in Databases, D!Changes(c, db)
    PROVE  PoolInv'
<1> DEFINE new == Record("connect", db, 0, 0)
<1>0. [D!NoCall EXCEPT !.stage = "connect", !.db = db] = new
  <2>1. [D!NoCall EXCEPT !.stage = "connect"] = Record("connect", Home, 0, 0) BY DEF D!NoCall, Record
  <2>2. [Record("connect", Home, 0, 0) EXCEPT !.db = db] = new BY DEF Record
  <2> QED BY <2>1, <2>2
<1>1. /\ reconnect[c].stage = "idle" /\ reconnect' = [reconnect EXCEPT ![c] = new]
      /\ UNCHANGED <<settings, pools, ref, shared, closing, closed, using, unserved, overlapped>>
  BY <1>0 DEF D!Changes, D!At, D!poolVars
<1>2. /\ reconnect'[c].stage = "connect" /\ \A d \in Reconnects \ {c} : reconnect'[d] = reconnect[d]
  BY <1>1 DEF PoolInv, PoolTypes, Record
<1>3. PoolTypes' BY <1>1 DEF PoolInv, PoolTypes, CallRecord, Record
<1>4. \A d \in Reconnects : Fresh(d)' /\ Replaced(d)' /\ HandsOnMade(d)'
  BY <1>1, <1>2 DEF PoolInv, Fresh, Replaced, HandsOnMade, Holding, Retired
<1>5. \A d \in Reconnects : D!Changing(d)' <=> D!Changing(d) BY <1>1, <1>2 DEF D!Changing
<1>6. \A d \in Reconnects : D!Changing(d) => (InStep(d)' <=> InStep(d))
  BY <1>1, <1>2 DEF D!Changing, InStep
<1>7. OneChange' BY <1>1, <1>5, <1>6 DEF PoolInv, OneChange
<1> QED BY <1>1, <1>3, <1>4, <1>7 DEF PoolInv, D!ForceStaysOpen

LEMMA ConnectFailsInv ==
    ASSUME PoolInv, NEW c \in Reconnects, D!ConnectFails(c) PROVE PoolInv'
<1> DEFINE new == Record("idle", Home, 0, 0)
<1>1. /\ reconnect[c].stage = "connect" /\ reconnect' = [reconnect EXCEPT ![c] = new]
      /\ UNCHANGED <<settings, pools, ref, shared, closing, closed, using, unserved, overlapped>>
  BY DEF D!ConnectFails, D!At, D!NoCall, D!poolVars, Record
<1>2. /\ reconnect'[c].stage = "idle" /\ \A d \in Reconnects \ {c} : reconnect'[d] = reconnect[d]
  BY <1>1 DEF PoolInv, PoolTypes, Record
<1>3. PoolTypes' BY <1>1, PoolAssumption DEF PoolInv, PoolTypes, CallRecord, Record
<1>4. \A d \in Reconnects : Fresh(d)' /\ Replaced(d)' /\ HandsOnMade(d)'
  BY <1>1, <1>2 DEF PoolInv, Fresh, Replaced, HandsOnMade, Holding, Retired
<1>5. \A d \in Reconnects : D!Changing(d)' <=> D!Changing(d) BY <1>1, <1>2 DEF D!Changing
<1>6. \A d \in Reconnects : D!Changing(d) => (InStep(d)' <=> InStep(d))
  BY <1>1, <1>2 DEF D!Changing, InStep
<1>7. OneChange' BY <1>1, <1>5, <1>6 DEF PoolInv, OneChange
<1> QED BY <1>1, <1>3, <1>4, <1>7 DEF PoolInv, D!ForceStaysOpen

LEMMA ConnectsInv ==
    ASSUME PoolInv, NEW c \in Reconnects, D!Connects(c) PROVE PoolInv'
<1> DEFINE n == Len(pools) + 1
           new == Record("replace", reconnect[c].db, n, reconnect[c].old)
<1>1. n \in Nat /\ n \notin DOMAIN pools /\ DOMAIN pools' = DOMAIN pools \cup {n}
      /\ Len(pools') = n /\ pools' \in Seq(Databases) /\ pools'[n] = reconnect[c].db
      /\ \A p \in DOMAIN pools : pools'[p] = pools[p]
  <2>1. pools \in Seq(Databases) /\ reconnect[c].db \in Databases
    BY DEF PoolInv, PoolTypes, CallRecord
  <2>2. pools' = Append(pools, reconnect[c].db) BY DEF D!Connects
  <2> QED BY <2>1, <2>2
<1>2. /\ reconnect[c].stage = "connect" /\ settings' = reconnect[c].db
      /\ UNCHANGED <<ref, shared, closing, closed, using, unserved>>
  BY DEF D!Connects, D!At, D!poolVars
<1>3. reconnect' = [reconnect EXCEPT ![c] = new]
  <2>1. reconnect \in [Reconnects -> CallRecord] BY DEF PoolInv, PoolTypes
  <2>2. reconnect' = GoesWithNew(reconnect, c, "replace", Len(pools')) BY DEF D!Connects, GoesWithNew
  <2>3. reconnect' = Puts(reconnect, c, new) BY <1>1, <2>1, <2>2, CallMoves
  <2> QED BY <2>3 DEF Puts
<1>4. overlapped' = (overlapped \/ \E d \in Reconnects : D!Changing(d)) BY DEF D!Connects
<1>5. /\ reconnect'[c].stage = "replace" /\ reconnect'[c].new = n
      /\ \A d \in Reconnects \ {c} : reconnect'[d] = reconnect[d]
  BY <1>3 DEF PoolInv, PoolTypes, Record
<1> HIDE DEF n
<1>6. PoolTypes'
  <2>1. reconnect' \in [Reconnects -> CallRecord]
    <3>1. new \in CallRecord BY <1>1 DEF PoolInv, PoolTypes, CallRecord, Record
    <3> QED BY <1>3, <3>1 DEF PoolInv, PoolTypes
  <2>2. settings' \in Databases BY <1>2 DEF PoolInv, PoolTypes, CallRecord
  <2>3. \A u \in Users : using'[u].pool \in 0 .. Len(pools') BY <1>1, <1>2 DEF PoolInv, PoolTypes, n
  <2>4. overlapped' \in BOOLEAN BY <1>4, Zenon
  <2>5. UNCHANGED <<ref, shared, closing, closed, using, unserved>> BY <1>2
  <2> QED BY <1>1, <2>1, <2>2, <2>3, <2>4, <2>5 DEF PoolInv, PoolTypes
<1>7. /\ n # ref /\ n \notin Retired
      /\ \A d \in Reconnects :
           /\ reconnect[d].stage = "replace" => reconnect[d].new # n
           /\ Holding(d) => reconnect[d].old # n
  BY <1>1 DEF PoolInv, PoolTypes, Fresh, Replaced, Retired
<1>8. \A d \in Reconnects : Fresh(d)' /\ Replaced(d)' /\ HandsOnMade(d)'
  <2>1. Retired' = Retired BY <1>2 DEF Retired
  <2>2. \A d \in Reconnects : Holding(d)' <=> Holding(d) /\ d # c BY <1>2, <1>5 DEF Holding
  <2>3. Fresh(c)'
    <3>1. n \in DOMAIN pools' /\ n # ref' /\ n \notin Retired' BY <1>1, <1>2, <1>7, <2>1
    <3>2. \A d \in Reconnects : d # c => reconnect'[d] = reconnect[d] BY <1>5
    <3>3. \A d \in Reconnects : d # c /\ reconnect'[d].stage = "replace" => reconnect'[d].new # n
      BY <1>7, <3>2
    <3>4. \A d \in Reconnects : Holding(d)' => reconnect'[d].old # n BY <1>7, <2>2, <3>2
    <3> QED BY <1>5, <3>1, <3>3, <3>4 DEF Fresh
  <2>4. \A d \in Reconnects \ {c} : Fresh(d)'
    BY <1>1, <1>2, <1>5, <1>7, <2>1, <2>2 DEF PoolInv, Fresh
  <2>5. \A d \in Reconnects : Replaced(d)' BY <1>1, <1>2, <1>5, <2>1, <2>2 DEF PoolInv, Replaced
  <2>6. \A d \in Reconnects : HandsOnMade(d)' BY <1>1, <1>2, <1>5 DEF PoolInv, HandsOnMade
  <2> QED BY <2>3, <2>4, <2>5, <2>6
<1>9. ASSUME ~overlapped' PROVE OneChange'
  <2>1. ~overlapped /\ \A d \in Reconnects : ~D!Changing(d) BY <1>4, <1>9
  <2>2. shared = ref BY <2>1 DEF PoolInv, OneChange
  <2>3. \A d \in Reconnects : D!Changing(d)' <=> d = c BY <1>5, <2>1 DEF D!Changing
  <2>4. InStep(c)' BY <1>1, <1>2, <1>5, <2>2 DEF InStep
  <2> QED BY <1>2, <2>1, <2>3, <2>4 DEF PoolInv, OneChange
<1>10. OneChange' BY <1>9 DEF OneChange
<1> QED BY <1>2, <1>6, <1>8, <1>10 DEF PoolInv, D!ForceStaysOpen

LEMMA ReplacesInv ==
    ASSUME PoolInv, NEW c \in Reconnects, D!Replaces(c) PROVE PoolInv'
<1> DEFINE n == reconnect[c].new
           new == Record("read", reconnect[c].db, n, ref)
<1>1. /\ reconnect[c].stage = "replace" /\ ref' = n
      /\ UNCHANGED <<settings, pools, shared, closing, closed, using, unserved, overlapped>>
  BY DEF D!Replaces, D!At, D!poolVars
<1>2. reconnect' = [reconnect EXCEPT ![c] = new]
  <2>1. reconnect \in [Reconnects -> CallRecord] BY DEF PoolInv, PoolTypes
  <2>2. reconnect' = GoesWithOld(reconnect, c, "read", ref) BY DEF D!Replaces, GoesWithOld
  <2>3. reconnect' = Puts(reconnect, c, new) BY <2>1, <2>2, CallMoves
  <2> QED BY <2>3 DEF Puts
<1>3. /\ reconnect'[c].stage = "read" /\ reconnect'[c].old = ref
      /\ \A d \in Reconnects \ {c} : reconnect'[d] = reconnect[d]
  BY <1>2 DEF PoolInv, PoolTypes, Record
<1>4. n \in DOMAIN pools /\ n # ref /\ n \notin Retired BY <1>1 DEF PoolInv, Fresh
<1>5. ref \in Nat BY DEF PoolInv, PoolTypes
<1>6. PoolTypes' BY <1>1, <1>2, <1>4, <1>5 DEF PoolInv, PoolTypes, CallRecord, Record
<1>7. \A d \in Reconnects \ {c} :
        /\ reconnect[d].stage = "replace" => reconnect[d].new # n
        /\ Holding(d) => reconnect[d].old # n
  BY <1>1 DEF PoolInv, Fresh
<1>8. D!ForceStaysOpen' BY <1>1, <1>4 DEF D!ForceStaysOpen, Retired
<1>9. \A d \in Reconnects : Fresh(d)'
  BY <1>1, <1>3, <1>7 DEF PoolInv, Fresh, Holding, Retired
<1>10. Replaced(c)'
  BY <1>1, <1>3, <1>4 DEF PoolInv, PoolTypes, D!ForceStaysOpen, Replaced, Holding, Retired
<1>11. \A d \in Reconnects \ {c} : Replaced(d)'
  BY <1>1, <1>3, <1>7 DEF PoolInv, Replaced, Holding, Retired
<1>12. \A d \in Reconnects : HandsOnMade(d)' BY <1>1, <1>3 DEF PoolInv, HandsOnMade
<1>13. OneChange'
  <2>1. \A d \in Reconnects : D!Changing(d)' <=> D!Changing(d) BY <1>1, <1>3 DEF D!Changing
  <2>2. D!Changing(c) BY <1>1 DEF D!Changing
  <2>3. ~overlapped => InStep(c)' BY <1>1, <1>3, <2>2 DEF PoolInv, OneChange, InStep
  <2> QED BY <1>1, <2>1, <2>2, <2>3 DEF PoolInv, OneChange
<1> QED BY <1>6, <1>8, <1>9, <1>10, <1>11, <1>12, <1>13 DEF PoolInv

LEMMA ReadsRefInv ==
    ASSUME PoolInv, NEW c \in Reconnects, D!ReadsRef(c) PROVE PoolInv'
<1> DEFINE new == Record("hand", reconnect[c].db, ref, reconnect[c].old)
<1>1. /\ reconnect[c].stage = "read"
      /\ UNCHANGED <<settings, pools, ref, shared, closing, closed, using, unserved, overlapped>>
  BY DEF D!ReadsRef, D!At, D!poolVars
<1>2. reconnect' = [reconnect EXCEPT ![c] = new]
  <2>1. reconnect \in [Reconnects -> CallRecord] BY DEF PoolInv, PoolTypes
  <2>2. reconnect' = GoesWithNew(reconnect, c, "hand", ref) BY DEF D!ReadsRef, GoesWithNew
  <2>3. reconnect' = Puts(reconnect, c, new) BY <2>1, <2>2, CallMoves
  <2> QED BY <2>3 DEF Puts
<1>3. /\ reconnect'[c].stage = "hand" /\ reconnect'[c].old = reconnect[c].old
      /\ reconnect'[c].new = ref
      /\ \A d \in Reconnects \ {c} : reconnect'[d] = reconnect[d]
  BY <1>2 DEF PoolInv, PoolTypes, Record
<1>4. ref \in Nat /\ ref \in DOMAIN pools BY DEF PoolInv, PoolTypes
<1>5. PoolTypes' BY <1>1, <1>2, <1>4 DEF PoolInv, PoolTypes, CallRecord, Record
<1>6. \A d \in Reconnects : Fresh(d)' /\ Replaced(d)' /\ HandsOnMade(d)'
  BY <1>1, <1>3, <1>4 DEF PoolInv, Fresh, Replaced, HandsOnMade, Holding, Retired
<1>7. OneChange'
  <2>1. \A d \in Reconnects : D!Changing(d)' <=> D!Changing(d) BY <1>1, <1>3 DEF D!Changing
  <2>2. D!Changing(c) BY <1>1 DEF D!Changing
  <2>3. ~overlapped => InStep(c)' BY <1>1, <1>3, <2>2 DEF PoolInv, OneChange, InStep
  <2> QED BY <1>1, <2>1, <2>2, <2>3 DEF PoolInv, OneChange
<1> QED BY <1>1, <1>5, <1>6, <1>7 DEF PoolInv, D!ForceStaysOpen

LEMMA HandsOnInv ==
    ASSUME PoolInv, NEW c \in Reconnects, D!HandsOn(c) PROVE PoolInv'
<1> DEFINE new == Record("retire", reconnect[c].db, reconnect[c].new, reconnect[c].old)
<1>1. /\ reconnect[c].stage = "hand" /\ shared' = reconnect[c].new
      /\ UNCHANGED <<settings, pools, ref, closing, closed, using, unserved, overlapped>>
  BY DEF D!HandsOn, D!At, D!poolVars
<1>2. reconnect' = [reconnect EXCEPT ![c] = new]
  <2>1. reconnect \in [Reconnects -> CallRecord] BY DEF PoolInv, PoolTypes
  <2>2. reconnect' = Goes(reconnect, c, "retire") BY DEF D!HandsOn, Goes
  <2>3. reconnect' = Puts(reconnect, c, new) BY <2>1, <2>2, CallMoves
  <2> QED BY <2>3 DEF Puts
<1>3. /\ reconnect'[c].stage = "retire" /\ reconnect'[c].old = reconnect[c].old
      /\ \A d \in Reconnects \ {c} : reconnect'[d] = reconnect[d]
  BY <1>2 DEF PoolInv, PoolTypes, Record
<1>4. shared' \in DOMAIN pools BY <1>1 DEF PoolInv, HandsOnMade
<1>5. PoolTypes' BY <1>1, <1>2, <1>4 DEF PoolInv, PoolTypes, CallRecord, Record
<1>6. \A d \in Reconnects : Fresh(d)' /\ Replaced(d)' /\ HandsOnMade(d)'
  BY <1>1, <1>3 DEF PoolInv, Fresh, Replaced, HandsOnMade, Holding, Retired
<1>7. OneChange'
  <2>1. \A d \in Reconnects : D!Changing(d)' <=> D!Changing(d) BY <1>1, <1>3 DEF D!Changing
  <2>2. D!Changing(c) BY <1>1 DEF D!Changing
  <2>3. ~overlapped => InStep(c)' BY <1>1, <1>3, <2>2 DEF PoolInv, OneChange, InStep
  <2> QED BY <1>1, <2>1, <2>2, <2>3 DEF PoolInv, OneChange
<1> QED BY <1>1, <1>5, <1>6, <1>7 DEF PoolInv, D!ForceStaysOpen

LEMMA RetiresInv ==
    ASSUME PoolInv, NEW c \in Reconnects, D!Retires(c) PROVE PoolInv'
<1> DEFINE new == Record("idle", Home, 0, 0)
           o == reconnect[c].old
<1>1. /\ reconnect[c].stage = "retire" /\ closing' = closing \cup {o}
      /\ reconnect' = [reconnect EXCEPT ![c] = new]
      /\ UNCHANGED <<settings, pools, ref, shared, closed, using, unserved, overlapped>>
  BY DEF D!Retires, D!Retired, D!At, D!NoCall, Record
<1>2. /\ reconnect'[c].stage = "idle" /\ \A d \in Reconnects \ {c} : reconnect'[d] = reconnect[d]
  BY <1>1 DEF PoolInv, PoolTypes, Record
<1>3. /\ o \in DOMAIN pools /\ o # ref
      /\ \A d \in Reconnects \ {c} :
           /\ Holding(d) => reconnect[d].old # o
           /\ reconnect[d].stage = "replace" => reconnect[d].new # o
  BY <1>1 DEF PoolInv, Replaced, Fresh, Holding
<1>4. PoolTypes' BY <1>1, <1>3, PoolAssumption DEF PoolInv, PoolTypes, CallRecord, Record
<1>5. D!ForceStaysOpen' BY <1>1, <1>3 DEF PoolInv, D!ForceStaysOpen
<1>6. \A d \in Reconnects : Fresh(d)' /\ Replaced(d)' /\ HandsOnMade(d)'
  BY <1>1, <1>2, <1>3 DEF PoolInv, Fresh, Replaced, HandsOnMade, Holding, Retired
<1>7. OneChange'
  <2>1. \A d \in Reconnects \ {c} : D!Changing(d)' <=> D!Changing(d) BY <1>2 DEF D!Changing
  <2>2. D!Changing(c) /\ ~D!Changing(c)' BY <1>1, <1>2 DEF D!Changing
  <2>3. ~overlapped => InStep(c) /\ \A d \in Reconnects : ~D!Changing(d)'
    BY <2>1, <2>2 DEF PoolInv, OneChange
  <2>4. ~overlapped => shared = ref /\ pools[ref] = settings BY <1>1, <2>3 DEF InStep
  <2> QED BY <1>1, <2>3, <2>4 DEF PoolInv, OneChange
<1> QED BY <1>4, <1>5, <1>6, <1>7 DEF PoolInv

LEMMA ClosesInv ==
    ASSUME PoolInv, NEW p, D!Closes(p) PROVE PoolInv'
<1>1. Retired' = Retired BY DEF D!Closes, Retired
<1>2. UNCHANGED <<settings, pools, ref, shared, reconnect, using, overlapped, unserved>>
  BY DEF D!Closes
<1>3. PoolTypes' BY <1>2 DEF D!Closes, PoolInv, PoolTypes
<1>4. D!ForceStaysOpen' BY <1>1, <1>2 DEF PoolInv, D!ForceStaysOpen, Retired
<1>5. \A d \in Reconnects : Fresh(d)' /\ Replaced(d)' /\ HandsOnMade(d)'
  BY <1>1, <1>2 DEF PoolInv, Fresh, Replaced, HandsOnMade, Holding
<1>6. OneChange' BY <1>2 DEF PoolInv, OneChange, D!Changing, InStep
<1> QED BY <1>3, <1>4, <1>5, <1>6 DEF PoolInv

\* With one change at a time the queries never have a pool that was retired.
LEMMA SharedOpen == PoolInv /\ ~overlapped => shared \notin Retired
<1> SUFFICES ASSUME PoolInv, ~overlapped PROVE shared \notin Retired OBVIOUS
<1>1. ref \notin Retired BY DEF PoolInv, D!ForceStaysOpen, Retired
<1>2. CASE \A c \in Reconnects : ~D!Changing(c) BY <1>1, <1>2 DEF PoolInv, OneChange
<1>3. ASSUME NEW c \in Reconnects, D!Changing(c) PROVE shared \notin Retired
  <2>1. InStep(c) BY <1>3 DEF PoolInv, OneChange
  <2>2. Holding(c) => reconnect[c].old \notin Retired BY DEF PoolInv, Replaced
  <2> QED BY <1>1, <1>3, <2>1, <2>2 DEF InStep, D!Changing, Holding
<1> QED BY <1>2, <1>3

LEMMA TakesInv ==
    ASSUME PoolInv, NEW u \in Users, D!TakesShared(u) \/ D!TakesKept(u) PROVE PoolInv'
<1>1. UNCHANGED <<settings, pools, ref, shared, reconnect, closing, closed, overlapped, unserved>>
  BY DEF D!TakesShared, D!TakesKept, D!Takes
<1>2. PICK pool \in {shared, 1}, kept \in BOOLEAN :
        /\ ~kept => pool = shared
        /\ using' = [using EXCEPT ![u] = [pool |-> pool, kept |-> kept, stale |-> pool \in Retired]]
  <2>1. CASE D!TakesShared(u) BY <2>1 DEF D!TakesShared, D!Takes, Retired
  <2>2. CASE D!TakesKept(u) BY <2>2 DEF D!TakesKept, D!Takes, Retired
  <2> QED BY <2>1, <2>2
<1> DEFINE stale == pool \in Retired
<1>3. stale \in BOOLEAN OBVIOUS
<1>4. ~overlapped => kept \/ ~stale BY <1>2, SharedOpen
<1>5. pool \in 0 .. Len(pools) /\ pool \in Nat BY <1>2 DEF PoolInv, PoolTypes
<1> HIDE DEF stale
<1>6. using' = [using EXCEPT ![u] = [pool |-> pool, kept |-> kept, stale |-> stale]]
  BY <1>2 DEF stale
<1>7. PoolTypes'
  <2>1. using' \in [Users -> [pool : Nat, kept : BOOLEAN, stale : BOOLEAN]]
    BY <1>3, <1>5, <1>6 DEF PoolInv, PoolTypes
  <2>2. \A v \in Users : using'[v].pool \in 0 .. Len(pools')
    BY <1>1, <1>5, <1>6 DEF PoolInv, PoolTypes
  <2> QED BY <1>1, <2>1, <2>2 DEF PoolInv, PoolTypes
<1>8. OneChange'
  <2>1. ~overlapped => \A v \in Users : using'[v].kept \/ ~using'[v].stale
    BY <1>4, <1>6 DEF PoolInv, PoolTypes, OneChange
  <2> QED BY <1>1, <2>1 DEF PoolInv, OneChange, D!Changing, InStep
<1> QED BY <1>1, <1>7, <1>8, PoolInvUses

LEMMA AcquiresInv ==
    ASSUME PoolInv, NEW u \in Users, D!Acquires(u) PROVE PoolInv'
<1>1. UNCHANGED <<settings, pools, ref, shared, reconnect, closing, closed, overlapped>>
  BY DEF D!Acquires
<1>2. using' = [using EXCEPT ![u] = D!NoUse] BY DEF D!Acquires
<1>3. unserved' \subseteq unserved \cup {D!Reason(using[u])} BY DEF D!Acquires
<1>4. D!Reason(using[u]) \in {"kept", "stranded", "slow"} BY DEF D!Reason
<1>5. using[u].kept \/ ~using[u].stale => D!Reason(using[u]) # "stranded" BY DEF D!Reason
<1>6. D!NoUse \in [pool : Nat, kept : BOOLEAN, stale : BOOLEAN] /\ D!NoUse.pool = 0 /\ ~D!NoUse.stale
  BY DEF D!NoUse
<1>7. PoolTypes'
  <2>1. using' \in [Users -> [pool : Nat, kept : BOOLEAN, stale : BOOLEAN]]
    BY <1>2, <1>6 DEF PoolInv, PoolTypes
  <2>2. \A v \in Users : using'[v].pool \in 0 .. Len(pools')
    BY <1>1, <1>2, <1>6 DEF PoolInv, PoolTypes
  <2> QED BY <1>1, <1>3, <1>4, <2>1, <2>2 DEF PoolInv, PoolTypes
<1>8. OneChange'
  <2>1. ~overlapped => \A v \in Users : using'[v].kept \/ ~using'[v].stale
    BY <1>2, <1>6 DEF PoolInv, PoolTypes, OneChange
  <2>2. ~overlapped => "stranded" \notin unserved' BY <1>3, <1>5 DEF PoolInv, OneChange
  <2> QED BY <1>1, <2>1, <2>2 DEF PoolInv, OneChange, D!Changing, InStep
<1> QED BY <1>1, <1>7, <1>8, PoolInvUses

LEMMA PoolNext == PoolInv /\ [D!Next]_poolVars => PoolInv'
<1> SUFFICES ASSUME PoolInv, [D!Next]_poolVars PROVE PoolInv' OBVIOUS
<1>1. CASE UNCHANGED poolVars
  <2>1. UNCHANGED <<settings, pools, ref, shared, reconnect, closing, closed, using, overlapped, unserved>>
    BY <1>1 DEF poolVars
  <2>2. PoolTypes' BY <2>1 DEF PoolInv, PoolTypes
  <2>3. OneChange' BY <2>1 DEF PoolInv, OneChange, D!Changing, InStep
  <2> QED BY <2>1, <2>2, <2>3, PoolInvUses
<1>2. ASSUME NEW c \in Reconnects, D!Step(c) PROVE PoolInv'
  BY <1>2, ConnectsInv, ConnectFailsInv, ReplacesInv, ReadsRefInv, HandsOnInv, RetiresInv DEF D!Step
<1> QED BY <1>1, <1>2, ChangesInv, ClosesInv, TakesInv, AcquiresInv DEF D!Next

LEMMA PoolStates == PoolInv => D!TypeOK /\ D!ForceStaysOpen /\ D!SharedFollows
<1> SUFFICES ASSUME PoolInv PROVE D!TypeOK /\ D!SharedFollows BY DEF PoolInv
<1>1. D!TypeOK BY DEF PoolInv, PoolTypes, D!TypeOK
<1>2. D!SharedFollows BY SharedOpen DEF PoolInv, OneChange, D!SharedFollows, Retired
<1> QED BY <1>1, <1>2

\* A database that cannot be reached changes nothing (gqlfx/fx.go).
LEMMA RefusedKeeps ==
    PoolInv /\ [D!Next]_poolVars =>
      \A c \in Reconnects :
        D!At(c, "connect") /\ reconnect'[c] = D!NoCall =>
          UNCHANGED <<settings, pools, ref, shared, closing>>
<1> SUFFICES ASSUME PoolInv, [D!Next]_poolVars, NEW c \in Reconnects,
                    reconnect[c].stage = "connect", reconnect'[c].stage = "idle"
             PROVE  UNCHANGED <<settings, pools, ref, shared, closing>>
  BY DEF D!At, D!NoCall
<1>1. reconnect' # reconnect OBVIOUS
<1>2. ASSUME NEW d \in Reconnects,
             D!Connects(d) \/ D!Replaces(d) \/ D!ReadsRef(d) \/ D!HandsOn(d) \/ D!Retires(d)
      PROVE  FALSE
  <2>1. d # c => reconnect'[c] = reconnect[c]
    <3>1. PICK r : reconnect' = [reconnect EXCEPT ![d] = r]
      BY <1>2 DEF PoolInv, PoolTypes, D!Connects, D!Replaces, D!ReadsRef, D!HandsOn, D!Retires
    <3> QED BY <3>1 DEF PoolInv, PoolTypes
  <2>2. d = c => D!Connects(c)
    BY <1>2 DEF D!Replaces, D!ReadsRef, D!HandsOn, D!Retires, D!At
  <2>3. D!Connects(c) => reconnect'[c].stage = "replace"
    BY DEF PoolInv, PoolTypes, CallRecord, D!Connects
  <2> QED BY <2>1, <2>2, <2>3
<1>3. CASE \E d \in Reconnects : D!ConnectFails(d)
  BY <1>3 DEF D!ConnectFails, D!poolVars
<1>4. CASE \E d \in Reconnects : \E db \in Databases : D!Changes(d, db)
  BY <1>4 DEF D!Changes, D!poolVars
<1>5. ~(\E p \in DOMAIN pools : D!Closes(p)) /\ ~UNCHANGED poolVars
  BY <1>1 DEF D!Closes, poolVars
<1>6. ~(\E u \in Users : D!TakesShared(u) \/ D!TakesKept(u) \/ D!Acquires(u))
  BY <1>1 DEF D!TakesShared, D!TakesKept, D!Takes, D!Acquires
<1> QED BY <1>2, <1>3, <1>4, <1>5, <1>6 DEF D!Next, D!Step

----------------------------------------------------------------------------
(***************************************************************************)
(* The composition: a behaviour is about one of the parts, and leaves the  *)
(* variables of the others alone.                                          *)
(***************************************************************************)

mcVars == <<part, vars, registryVars, healthVars, webhookVars, poolVars>>

\* Every step of the composition is one of each part, or leaves it alone.
LEMMA PartsNext ==
    [MCNext]_mcVars =>
        /\ [R!Next]_registryVars /\ [W!Next]_webhookVars
        /\ [H!Next]_healthVars /\ [D!Next]_poolVars
BY DEF MCNext, mcVars

LEMMA PartsInit == MCInit => R!Init /\ W!Init /\ H!Init /\ D!Init
BY DEF MCInit

\* The inductive invariants imply what the contract says of a state.
LEMMA ServicesStates ==
    RegistryInv /\ PublisherInv =>
        /\ R!TypeOK /\ R!ActiveIsFlagged /\ R!StopReachesAll
        /\ W!TypeOK /\ W!RetiredChannelsEmpty /\ W!NoneVanishes /\ W!WakeWhenStale
BY OnePlace, RegistryTypesKept DEF RegistryInv, PublisherInv, PublisherTypes

\* And of a step.
LEMMA ServicesSteps ==
    RegistryInv /\ PublisherInv /\ [MCNext]_mcVars =>
        /\ [\A w \in toVisit \ toVisit' : began' > began => ~active[w]]_(R!vars)
        /\ [\A e \in Events : fate[e] = "accepted" /\ fate'[e] = "dropped" =>
                capacity[current] < capacity[current - 1]]_(W!vars)
BY PartsNext, StartsOnce, DroppedBySmaller

(***************************************************************************)
(* The registry (worker/registry.go) runs no start hook twice without a    *)
(* stop between, and Stop finds every worker that runs, whichever hooks    *)
(* have failed.  The publisher (webhook/publisher.go) keeps every accepted *)
(* event in one channel once or in hand, however its queue is resized and  *)
(* itself stopped and started again; it drops one only when the new queue  *)
(* is the smaller, and never sleeps on a channel replaced without the      *)
(* token that wakes it.                                                    *)
(***************************************************************************)
THEOREM ServicesKept == MCSpec => ServicesContract
<1>1. MCInit => RegistryInv /\ PublisherInv BY PartsInit, RegistryInit, PublisherInit
<1>2. RegistryInv /\ PublisherInv /\ [MCNext]_mcVars => (RegistryInv /\ PublisherInv)'
  BY PartsNext, RegistryNext, PublisherNext
<1>3. MCSpec => MCInit /\ [][MCNext]_mcVars BY PTL DEF MCSpec, mcVars
<1>4. MCSpec => [](RegistryInv /\ PublisherInv) BY <1>1, <1>2, <1>3, PTL
<1> QED BY <1>3, <1>4, ServicesStates, ServicesSteps, PTL
        DEF ServicesContract, R!NoDoubleStart, W!GrowingKeepsAll

LEMMA OperationsSteps ==
    PoolInv /\ [MCNext]_mcVars =>
      [\A c \in Reconnects :
         D!At(c, "connect") /\ reconnect'[c] = D!NoCall =>
           UNCHANGED <<settings, pools, ref, shared, closing>>]_(D!vars)
BY PartsNext, RefusedKeeps

(***************************************************************************)
(* The goroutines of the checks (health/check.go) execute without the lock *)
(* and lose no result, whether the checker is stopped and started again    *)
(* meanwhile: "down" is deserved and "up" means that every check was       *)
(* looked at.  Reconnect (postgres/poolref.go, gqlfx) never retires the    *)
(* pool of the reference, however many changes overlap; with one at a time *)
(* the shared queries follow it and nobody is given a pool about to close; *)
(* and a database that cannot be reached changes nothing.                  *)
(***************************************************************************)
THEOREM OperationsKept == MCSpec => OperationsContract
<1>1. MCInit => HealthInv /\ PoolInv BY PartsInit, HealthInit, PoolInit
<1>2. HealthInv /\ PoolInv /\ [MCNext]_mcVars => (HealthInv /\ PoolInv)'
  BY PartsNext, HealthNext, PoolNext
<1>3. MCSpec => MCInit /\ [][MCNext]_mcVars BY PTL DEF MCSpec, mcVars
<1>4. MCSpec => [](HealthInv /\ PoolInv) BY <1>1, <1>2, <1>3, PTL
<1>5. HealthInv /\ PoolInv =>
        /\ H!TypeOK /\ H!CountsContiguous /\ H!DownIsDeserved /\ H!ReadyMeansChecked
        /\ D!TypeOK /\ D!ForceStaysOpen /\ D!SharedFollows
  BY HealthStates, PoolStates
<1> QED BY <1>3, <1>4, <1>5, OperationsSteps, PTL DEF OperationsContract, D!RefusedKeepsAll

=============================================================================
