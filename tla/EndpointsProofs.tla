-------------------------- MODULE EndpointsProofs --------------------------
(***************************************************************************)
(* For every number of supervisors, of producing goroutines, of switches,  *)
(* queries, settings and options: no consumer of a replaced configuration  *)
(* runs unnoticed and no message produced between two switches meets a     *)
(* closed backend; a query of the DHT server takes its own response or     *)
(* none, its table leaves no address behind, and its answers stay in their *)
(* budgets; what has come to rest on the search has the setting in force;  *)
(* and what is saved in the configuration file is in force.                *)
(***************************************************************************)
EXTENDS MCEndpoints, SequenceTheorems, FiniteSetTheorems, TLAPS

\* A supervisor has a consumer only while it runs or stops it, and is subscribed then.
ConsumersOwned ==
    \A s \in Supervisors :
        consumer[s] # None => s \in subscribed /\ pc[s] \in {"connecting", "running", "stopping"}

\* The subscription lasts as long as the run.
SubscribedWhileRunning ==
    \A s \in Supervisors : pc[s] \notin {"off", "done"} => s \in subscribed

\* Configurations are replaced in order, and only a replaced producer is closed.
SwitchOrder ==
    /\ \A c \in closed : c.number < target.number
    /\ step # "idle" => oldProducer.number < target.number
    /\ step # "producer" => producer \in {None, target}
    /\ step = "producer" => producer.number < target.number

\* The memory queue is open whenever the backend in force is the memory one.
MemoryOpen ==
    /\ step \in {"idle", "notify"} => (target.backend = "memory" => open)
    /\ step \notin {"idle", "notify"} => (previous = "memory" => open)

\* What a goroutine obtained between two switches is still the producer.
SteadyLoaded ==
    \A p \in Producers :
        steady[p] /\ loaded[p] # None => step = "idle" /\ loaded[p] = producer

IInv == TypeOK /\ StaleConsumersNotified /\ ConsumersOwned /\ SubscribedWhileRunning
        /\ SwitchOrder /\ MemoryOpen /\ SteadyLoaded /\ NoSteadyLoss

\* None is no configuration: its number and its backend are none of theirs.
LEMMA NoneApart == None \notin Configs /\ None.number = -1 /\ None.backend = "none"
BY DEF None, Configs

\* The type invariant holds initially and is kept by every step of the module.
LEMMA TypeInit == Init => TypeOK
<1> SUFFICES ASSUME Init PROVE TypeOK OBVIOUS
<1>1. target \in Configs /\ previous \in Backends
  BY DEF Init, Configs, Backends
<1>2. producer \in Configs \cup {None}
  BY <1>1 DEF Init, MadeProducer
<1> QED BY <1>1, <1>2 DEF Init, TypeOK

\* Every step of SwitchTo keeps the type invariant.
LEMMA TypeSwitch == TypeOK /\ (BeginSwitch \/ SwitchStep) => TypeOK'
<1> SUFFICES ASSUME TypeOK, BeginSwitch \/ SwitchStep PROVE TypeOK' OBVIOUS
<1> USE DEF TypeOK, supervisorVars, producerVars, runtimeVars
<1>1. CASE BeginSwitch
  <2>1. target' \in Configs /\ previous' \in Backends /\ step' = "producer"
    BY <1>1 DEF BeginSwitch, Configs, Backends
  <2> QED BY <1>1, <2>1 DEF BeginSwitch
<1>2. CASE SetProducer
  BY <1>2 DEF SetProducer, MadeProducer
<1>3. CASE SetConsumerMaker
  BY <1>3 DEF SetConsumerMaker, MadeMaker
<1>4. CASE CloseOldProducer
  <2>1. closed' \subseteq Configs
    BY <1>4, NoneApart DEF CloseOldProducer, Replaced
  <2> QED BY <1>4, <2>1 DEF CloseOldProducer
<1>5. CASE SwitchMemoryQueue
  <2>1. open' \in BOOLEAN
    BY <1>5 DEF SwitchMemoryQueue
  <2> QED BY <1>5, <2>1 DEF SwitchMemoryQueue
<1>6. CASE NotifyBackendChange
  BY <1>6 DEF NotifyBackendChange
<1> QED BY <1>1, <1>2, <1>3, <1>4, <1>5, <1>6 DEF SwitchStep

\* The steps of supervisor s.
SupervisorStep(s) ==
    \/ Subscribe(s) \/ PrepareFails(s) \/ NewConsumerFails(s) \/ TriggerRestarts(s)
    \/ Cancel(s) \/ RunStep(s)

\* Every step of a supervisor keeps the type invariant.
LEMMA TypeSupervisor ==
    ASSUME TypeOK, NEW s \in Supervisors, SupervisorStep(s) PROVE TypeOK'
<1> USE DEF TypeOK, producerVars, runtimeVars
<1>1. CASE Subscribe(s) BY <1>1 DEF Subscribe
<1>2. CASE PrepareFails(s) BY <1>2 DEF PrepareFails, Return
<1>3. CASE NewConsumerFails(s) BY <1>3 DEF NewConsumerFails
<1>4. CASE TriggerRestarts(s) BY <1>4 DEF TriggerRestarts
<1>5. CASE Cancel(s) BY <1>5 DEF Cancel
<1>6. CASE Prepare(s) BY <1>6 DEF Prepare
<1>7. CASE GetConsumerMaker(s) BY <1>7 DEF GetConsumerMaker
<1>12. CASE NewConsumer(s) BY <1>12 DEF NewConsumer
<1>8. CASE RetryDelayOver(s) BY <1>8 DEF RetryDelayOver
<1>9. CASE BackendChanged(s) BY <1>9 DEF BackendChanged
<1>10. CASE ConsumerStopped(s) BY <1>10 DEF ConsumerStopped
<1>11. CASE SeesCancel(s) BY <1>11 DEF SeesCancel
<1> QED BY <1>1, <1>2, <1>3, <1>4, <1>5, <1>6, <1>7, <1>8, <1>9, <1>10, <1>11, <1>12
        DEF SupervisorStep, RunStep

\* Every step of a producing goroutine keeps the type invariant.
LEMMA TypeProducer ==
    ASSUME TypeOK, NEW p \in Producers, GetProducer(p) \/ Produce(p) PROVE TypeOK'
<1> USE DEF TypeOK, supervisorVars, runtimeVars
<1>1. CASE GetProducer(p)
  <2>1. steady' \in [Producers -> BOOLEAN]
    BY <1>1 DEF GetProducer
  <2> QED BY <1>1, <2>1 DEF GetProducer
<1>2. CASE Produce(p)
  <2>1. lost' \in BOOLEAN
    BY <1>2, Zenon DEF Produce
  <2> QED BY <1>2, <2>1 DEF Produce
<1> QED BY <1>1, <1>2

\* A step of Next belongs to SwitchTo, to a supervisor or to a producing goroutine.
LEMMA NextSplit ==
    Next => \/ BeginSwitch \/ SwitchStep
            \/ \E s \in Supervisors : SupervisorStep(s)
            \/ \E p \in Producers : GetProducer(p) \/ Produce(p)
BY DEF Next, SupervisorStep

\* Consumers: one lemma for the switch, one for the supervisors.
LEMMA ConsumersSwitch ==
    IInv /\ (BeginSwitch \/ SwitchStep) => ConsumersOwned' /\ StaleConsumersNotified'
<1> SUFFICES ASSUME IInv, BeginSwitch \/ SwitchStep
             PROVE  ConsumersOwned' /\ StaleConsumersNotified'
  OBVIOUS
<1>1. UNCHANGED <<consumer, subscribed, pc>>
  BY DEF BeginSwitch, SwitchStep, SetProducer, SetConsumerMaker, CloseOldProducer,
         SwitchMemoryQueue, NotifyBackendChange, supervisorVars
<1>2. ConsumersOwned'
  BY <1>1 DEF IInv, ConsumersOwned
<1>3. CASE NotifyBackendChange
  <2> SUFFICES ASSUME NEW s \in Supervisors, consumer[s] \notin {None, maker}
               PROVE  token'[s] = TRUE
    BY <1>1, <1>2, <1>3 DEF NotifyBackendChange, StaleConsumersNotified
  <2>1. s \in subscribed
    BY DEF IInv, ConsumersOwned
  <2>2. token'[s] = (token[s] \/ Notified(s))
    BY <1>3 DEF NotifyBackendChange
  <2> QED BY <2>1, <2>2, Zenon DEF Notified
<1>4. CASE ~NotifyBackendChange
  <2>1. step' # "idle"
    BY <1>4 DEF BeginSwitch, SwitchStep, SetProducer, SetConsumerMaker, CloseOldProducer,
                SwitchMemoryQueue
  <2> QED BY <1>2, <2>1 DEF StaleConsumersNotified
<1> QED BY <1>3, <1>4

LEMMA ConsumersSupervisor ==
    ASSUME IInv, NEW s \in Supervisors, SupervisorStep(s)
    PROVE  ConsumersOwned' /\ StaleConsumersNotified'
<1> USE DEF IInv, TypeOK, ConsumersOwned, StaleConsumersNotified, runtimeVars
<1>1. CASE Subscribe(s) BY <1>1 DEF Subscribe
<1>2. CASE PrepareFails(s) BY <1>2 DEF PrepareFails, Return
<1>3. CASE NewConsumerFails(s) BY <1>3 DEF NewConsumerFails
<1>4. CASE TriggerRestarts(s) BY <1>4 DEF TriggerRestarts
<1>5. CASE Cancel(s) BY <1>5 DEF Cancel
<1>6. CASE Prepare(s) BY <1>6 DEF Prepare
<1>7. CASE GetConsumerMaker(s)
  <2>1. s \in subscribed
    BY <1>7 DEF GetConsumerMaker, SubscribedWhileRunning
  <2> QED BY <1>7, <2>1 DEF GetConsumerMaker
<1>12. CASE NewConsumer(s) BY <1>12 DEF NewConsumer
<1>8. CASE RetryDelayOver(s) BY <1>8 DEF RetryDelayOver
<1>9. CASE BackendChanged(s) BY <1>9 DEF BackendChanged
<1>10. CASE ConsumerStopped(s) BY <1>10 DEF ConsumerStopped
<1>11. CASE SeesCancel(s) BY <1>11 DEF SeesCancel
<1> QED BY <1>1, <1>2, <1>3, <1>4, <1>5, <1>6, <1>7, <1>8, <1>9, <1>10, <1>11, <1>12
        DEF SupervisorStep, RunStep

\* The subscription lasts as long as the run.
LEMMA SubscribedSupervisor ==
    ASSUME IInv, NEW s \in Supervisors, SupervisorStep(s) PROVE SubscribedWhileRunning'
<1> USE DEF IInv, TypeOK, SubscribedWhileRunning, runtimeVars
<1>1. CASE Subscribe(s) BY <1>1 DEF Subscribe
<1>2. CASE PrepareFails(s) BY <1>2 DEF PrepareFails, Return
<1>3. CASE NewConsumerFails(s) BY <1>3 DEF NewConsumerFails
<1>4. CASE TriggerRestarts(s) BY <1>4 DEF TriggerRestarts
<1>5. CASE Cancel(s) BY <1>5 DEF Cancel
<1>6. CASE Prepare(s) BY <1>6 DEF Prepare
<1>7. CASE GetConsumerMaker(s) BY <1>7 DEF GetConsumerMaker
<1>12. CASE NewConsumer(s) BY <1>12 DEF NewConsumer
<1>8. CASE RetryDelayOver(s) BY <1>8 DEF RetryDelayOver
<1>9. CASE BackendChanged(s) BY <1>9 DEF BackendChanged
<1>10. CASE ConsumerStopped(s) BY <1>10 DEF ConsumerStopped
<1>11. CASE SeesCancel(s) BY <1>11 DEF SeesCancel
<1> QED BY <1>1, <1>2, <1>3, <1>4, <1>5, <1>6, <1>7, <1>8, <1>9, <1>10, <1>11, <1>12
        DEF SupervisorStep, RunStep

\* SwitchTo keeps the order of the configurations and the memory queue open in time.
LEMMA OrderSwitch ==
    IInv /\ (BeginSwitch \/ SwitchStep) => SwitchOrder' /\ MemoryOpen'
<1> SUFFICES ASSUME IInv, BeginSwitch \/ SwitchStep PROVE SwitchOrder' /\ MemoryOpen'
  OBVIOUS
<1>0. /\ target.number \in Nat /\ target.backend \in Backends
      /\ \A c \in closed : c.number \in Nat
      /\ producer # None => producer.number \in Nat
      /\ oldProducer # None => oldProducer.number \in Nat
  BY DEF IInv, TypeOK, Configs
<1> USE DEF IInv, SwitchOrder, MemoryOpen
<1>1. CASE BeginSwitch
  <2>1. target'.number = target.number + 1
    BY <1>1 DEF BeginSwitch
  <2>2. producer.number < target.number + 1
    BY <1>0, <1>1, NoneApart DEF BeginSwitch
  <2>3. SwitchOrder'
    BY <1>0, <1>1, <2>1, <2>2 DEF BeginSwitch
  <2>4. MemoryOpen'
    BY <1>1, Zenon DEF BeginSwitch
  <2> QED BY <2>3, <2>4
<1>2. CASE SetProducer BY <1>0, <1>2 DEF SetProducer, MadeProducer
<1>3. CASE SetConsumerMaker BY <1>0, <1>3 DEF SetConsumerMaker
<1>4. CASE CloseOldProducer
  <2>1. SwitchOrder'
    BY <1>0, <1>4 DEF CloseOldProducer, Replaced
  <2>2. MemoryOpen'
    BY <1>4 DEF CloseOldProducer
  <2> QED BY <2>1, <2>2
<1>5. CASE SwitchMemoryQueue
  <2>1. SwitchOrder'
    BY <1>5 DEF SwitchMemoryQueue
  <2>2. target.backend = "memory" => open' = TRUE
    BY <1>5 DEF SwitchMemoryQueue, TypeOK
  <2>3. MemoryOpen'
    BY <1>5, <2>2 DEF SwitchMemoryQueue
  <2> QED BY <2>1, <2>3
<1>6. CASE NotifyBackendChange
  <2>1. SwitchOrder'
    BY <1>6 DEF NotifyBackendChange
  <2>2. MemoryOpen'
    BY <1>6 DEF NotifyBackendChange
  <2> QED BY <2>1, <2>2
<1> QED BY <1>1, <1>2, <1>3, <1>4, <1>5, <1>6 DEF SwitchStep

\* SwitchTo ends the steadiness of every goroutine, and loses no message itself.
LEMMA SteadySwitch ==
    IInv /\ (BeginSwitch \/ SwitchStep) => SteadyLoaded' /\ NoSteadyLoss'
<1> SUFFICES ASSUME IInv, BeginSwitch \/ SwitchStep PROVE SteadyLoaded' /\ NoSteadyLoss'
  OBVIOUS
<1> USE DEF IInv, SteadyLoaded, NoSteadyLoss
<1>1. CASE BeginSwitch BY <1>1 DEF BeginSwitch
<1>2. CASE SwitchStep
  <2>1. step # "idle" /\ UNCHANGED <<loaded, steady, lost>>
    BY <1>2 DEF SwitchStep, SetProducer, SetConsumerMaker, CloseOldProducer,
                SwitchMemoryQueue, NotifyBackendChange, producerVars
  <2> QED BY <2>1
<1> QED BY <1>1, <1>2

\* Between two switches the producer in force accepts messages, if there is one.
LEMMA IdleAccepts == IInv /\ step = "idle" /\ producer # None => Accepts(producer) = TRUE
<1> SUFFICES ASSUME IInv, step = "idle", producer # None PROVE Accepts(producer) = TRUE
  OBVIOUS
<1>1. producer = target /\ target.number \in Nat
  BY DEF IInv, SwitchOrder, TypeOK, Configs
<1>2. CASE target.backend = "memory"
  BY <1>1, <1>2 DEF IInv, MemoryOpen, TypeOK, Accepts
<1>3. CASE target.backend # "memory"
  <2>1. target \notin closed
    BY <1>1 DEF IInv, SwitchOrder
  <2> QED BY <1>1, <1>3, <2>1 DEF Accepts
<1> QED BY <1>2, <1>3

LEMMA SteadyProducer ==
    ASSUME IInv, NEW p \in Producers, GetProducer(p) \/ Produce(p)
    PROVE  SteadyLoaded' /\ NoSteadyLoss'
<1>1. CASE GetProducer(p)
  <2>1. steady' = [steady EXCEPT ![p] = (step = "idle")]
    BY <1>1, Zenon DEF GetProducer
  <2>2. SteadyLoaded'
    BY <1>1, <2>1 DEF GetProducer, runtimeVars, IInv, TypeOK, SteadyLoaded
  <2>3. NoSteadyLoss'
    BY <1>1 DEF GetProducer, IInv, NoSteadyLoss
  <2> QED BY <2>2, <2>3
<1>2. CASE Produce(p)
  <2>1. SteadyLoaded'
    BY <1>2 DEF Produce, runtimeVars, IInv, TypeOK, SteadyLoaded
  <2>2. steady[p] => Accepts(loaded[p]) = TRUE
    BY <1>2, IdleAccepts DEF Produce, IInv, SteadyLoaded
  <2>3. NoSteadyLoss'
    BY <1>2, <2>2, Zenon DEF Produce, IInv, NoSteadyLoss
  <2> QED BY <2>1, <2>3
<1> QED BY <1>1, <1>2

\* The inductive invariant holds initially.
LEMMA InvInit == Init => IInv
<1> SUFFICES ASSUME Init PROVE IInv OBVIOUS
<1>1. TypeOK
  BY TypeInit
<1>2. target.number = 0 /\ oldProducer = None /\ producer \in {target, None}
  BY DEF Init, MadeProducer
<1>3. SwitchOrder /\ MemoryOpen
  BY <1>2 DEF Init, SwitchOrder, MemoryOpen
<1>4. ConsumersOwned /\ SubscribedWhileRunning /\ StaleConsumersNotified
  BY DEF Init, ConsumersOwned, SubscribedWhileRunning, StaleConsumersNotified
<1>5. SteadyLoaded
  BY DEF Init, SteadyLoaded
<1>6. NoSteadyLoss
  BY Zenon DEF Init, NoSteadyLoss
<1> QED BY <1>1, <1>3, <1>4, <1>5, <1>6 DEF IInv

\* Every step keeps it.
LEMMA InvNext == IInv /\ [Next]_vars => IInv'
<1> SUFFICES ASSUME IInv, [Next]_vars PROVE IInv' OBVIOUS
<1>1. CASE BeginSwitch \/ SwitchStep
  <2>1. UNCHANGED <<subscribed, pc>>
    BY <1>1 DEF BeginSwitch, SwitchStep, SetProducer, SetConsumerMaker,
                CloseOldProducer, SwitchMemoryQueue, NotifyBackendChange, supervisorVars
  <2>2. SubscribedWhileRunning'
    BY <2>1 DEF IInv, SubscribedWhileRunning
  <2> QED BY <1>1, <2>2, TypeSwitch, ConsumersSwitch, OrderSwitch, SteadySwitch DEF IInv
<1>2. ASSUME NEW s \in Supervisors, SupervisorStep(s) PROVE IInv'
  <2>1. UNCHANGED <<runtimeVars, producerVars>>
    BY <1>2 DEF SupervisorStep, Subscribe, PrepareFails, Return, NewConsumerFails,
                TriggerRestarts, Cancel, RunStep, Prepare, GetConsumerMaker, NewConsumer, RetryDelayOver,
                BackendChanged, ConsumerStopped, SeesCancel
  <2>2. SwitchOrder' /\ MemoryOpen' /\ SteadyLoaded' /\ NoSteadyLoss'
    BY <2>1 DEF IInv, runtimeVars, producerVars, SwitchOrder, MemoryOpen, SteadyLoaded,
                NoSteadyLoss
  <2>3. TypeOK'
    BY <1>2, TypeSupervisor DEF IInv
  <2>4. ConsumersOwned' /\ StaleConsumersNotified'
    BY <1>2, ConsumersSupervisor
  <2>5. SubscribedWhileRunning'
    BY <1>2, SubscribedSupervisor
  <2> QED BY <2>2, <2>3, <2>4, <2>5 DEF IInv
<1>3. ASSUME NEW p \in Producers, GetProducer(p) \/ Produce(p) PROVE IInv'
  <2>1. UNCHANGED <<runtimeVars, supervisorVars>>
    BY <1>3 DEF GetProducer, Produce
  <2>2. /\ SwitchOrder' /\ MemoryOpen'
        /\ ConsumersOwned' /\ SubscribedWhileRunning' /\ StaleConsumersNotified'
    BY <2>1 DEF IInv, runtimeVars, supervisorVars, SwitchOrder, MemoryOpen,
                ConsumersOwned, SubscribedWhileRunning, StaleConsumersNotified
  <2>3. TypeOK'
    BY <1>3, TypeProducer DEF IInv
  <2>4. SteadyLoaded' /\ NoSteadyLoss'
    BY <1>3, SteadyProducer
  <2> QED BY <2>2, <2>3, <2>4 DEF IInv
<1>4. CASE UNCHANGED vars
  BY <1>4 DEF vars, runtimeVars, supervisorVars, producerVars, IInv, TypeOK,
              ConsumersOwned, SubscribedWhileRunning, StaleConsumersNotified, SwitchOrder,
              MemoryOpen, SteadyLoaded, NoSteadyLoss
<1> QED BY <1>1, <1>2, <1>3, <1>4, NextSplit

\* runtime.go and supervisor.go keep the inductive invariant in every execution.
THEOREM Invariant == Spec => []IInv
BY InvInit, InvNext, PTL DEF Spec

\* No consumer of a replaced backend is left running without a notification, whatever
\* the number of switches and wherever they fall into a restart of supervisor.run.
THEOREM NoStaleConsumer == Spec => []StaleConsumersNotified
<1>1. IInv => StaleConsumersNotified BY DEF IInv
<1> QED BY <1>1, Invariant, PTL

\* dynamicProducer.Produce meets a closed backend only if a switch falls into the call.
THEOREM NoLossWithoutSwitch == Spec => []NoSteadyLoss
<1>1. IInv => NoSteadyLoss BY DEF IInv
<1> QED BY <1>1, Invariant, PTL
\* The fields of Runtime and Supervisor have their types; in particular a consumer maker
\* exists from the first applied configuration on.
THEOREM TypeCorrect == Spec => []TypeOK
<1>1. IInv => TypeOK BY DEF IInv
<1> QED BY <1>1, Invariant, PTL

----------------------------------------------------------------------------
(***************************************************************************)
(* The queries of the DHT server (DhtServer).                              *)
(***************************************************************************)

\* The queries that have been given an id.
Asked == {q \in Queries : call[q] # "new"}

ServerTypes ==
    /\ S!TypeOK
    /\ buffer \in [S!Ids -> Seq([for : Queries, body : S!Bodies])]

\* Ids are given in order, each to one query.
IdsIssued ==
    /\ nextId = Cardinality(Asked)
    /\ \A q \in Asked : tid[q] \in S!Ids
    /\ \A q \in Asked : tid[q] < nextId
    /\ \A q \in Queries \ Asked : tid[q] = S!NoId
    /\ \A q \in Asked, r \in Asked : tid[q] = tid[r] => q = r

\* A response that was received is one to a query that was sent.
HandlersAsked ==
    \A p \in S!Packets :
        IF p <= packets THEN handler[p].for \in Asked ELSE handler[p].at = "none"

\* What is in a channel was put there for the query whose id it is, by a goroutine that is gone.
DeliveredToOwn ==
    \A i \in S!Ids : buffer[i] # <<>> =>
        \E p \in S!Packets :
            /\ handler[p].at = "gone" /\ p <= packets
            /\ Head(buffer[i]).for = handler[p].for /\ tid[handler[p].for] = i

ServerInv ==
    /\ ServerTypes /\ IdsIssued /\ HandlersAsked /\ DeliveredToOwn
    /\ S!AnsweredByOwn /\ S!NoLeftover

\* The instance's own name for Cardinality.
LEMMA CardinalityOfS == \A Q : S!Cardinality(Q) = Cardinality(Q)
BY DEF S!Cardinality, Cardinality

\* As many ids as queries.
LEMMA IdRange ==
    /\ Cardinality(Queries) \in Nat /\ S!NoId = Cardinality(Queries)
    /\ S!Ids = 0 .. S!NoId - 1 /\ S!NoId \in Nat /\ S!NoId \notin S!Ids
    /\ S!Packets = 1 .. MaxPackets /\ MaxPackets \in Nat
<1>1. Cardinality(Queries) \in Nat BY ServerAssumption, FS_CardinalityType
<1> QED BY <1>1, CardinalityOfS, ServerAssumption DEF S!NoId, S!Ids, S!Packets

\* A query that is new finds an id that nobody has.
LEMMA OneMoreAsked ==
    ASSUME ServerInv, NEW q \in Queries, call[q] = "new"
    PROVE  nextId \in S!Ids /\ Cardinality(Asked \cup {q}) = nextId + 1
<1>1. IsFiniteSet(Asked) /\ IsFiniteSet(Asked \cup {q}) /\ q \notin Asked
  BY ServerAssumption, FS_Subset, FS_AddElement DEF Asked
<1>2. Cardinality(Asked \cup {q}) = Cardinality(Asked) + 1 BY <1>1, FS_AddElement
<1>3. Cardinality(Asked \cup {q}) <= Cardinality(Queries) BY ServerAssumption, FS_Subset DEF Asked
<1>4. nextId = Cardinality(Asked) /\ nextId \in Nat
  BY <1>1, FS_CardinalityType DEF ServerInv, IdsIssued
<1> QED BY <1>2, <1>3, <1>4, IdRange

\* Initially nobody has asked anything.
LEMMA ServerInit == S!Init => ServerInv
<1> SUFFICES ASSUME S!Init PROVE ServerInv OBVIOUS
<1>1. Asked = {} BY DEF Asked, S!Init
<1>2. Cardinality(Asked) = 0 BY <1>1, FS_EmptySet
<1>3. buffer \in [S!Ids -> Seq([for : Queries, body : S!Bodies])] /\ \A i \in S!Ids : buffer[i] = <<>>
  BY DEF S!Init
<1>4. \A p \in S!Packets : handler[p] = S!NoHandler /\ handler[p].at = "none" BY DEF S!Init, S!NoHandler
<1>5. S!TypeOK
  <2>1. handler \in [S!Packets -> S!Handlers]
    BY DEF S!Init, S!NoHandler, S!Handlers, S!NoQuery, S!Bodies
  <2>2. \A i \in S!Ids : Len(buffer[i]) <= 1 BY <1>3
  <2> QED BY <2>1, <2>2, IdRange DEF S!Init, S!TypeOK, S!NoQuery
<1>6. HandlersAsked
  <2>1. packets = 0 BY DEF S!Init
  <2>2. \A p \in S!Packets : ~(p <= packets) BY <2>1, IdRange
  <2> QED BY <1>4, <2>2 DEF HandlersAsked
<1>7. IdsIssued BY <1>1, <1>2 DEF IdsIssued, S!Init
<1>8. S!AnsweredByOwn /\ S!NoLeftover BY DEF S!Init, S!AnsweredByOwn, S!NoLeftover
<1> QED BY <1>3, <1>5, <1>6, <1>7, <1>8 DEF ServerInv, ServerTypes, DeliveredToOwn

\* Query registers a channel under an id of its own.
LEMMA RegisterInv == ASSUME ServerInv, NEW q \in Queries, S!Register(q) PROVE ServerInv'
<1> USE DEF S!socketVars
<1>0. /\ call[q] = "new" /\ call \in [Queries -> {"new", "sending", "waiting", "leaving", "done"}]
      /\ tid \in [Queries -> S!Ids \cup {S!NoId}] /\ registered \in [S!Ids -> BOOLEAN]
  BY DEF S!Register, ServerInv, ServerTypes, S!TypeOK
<1>1. nextId \in S!Ids /\ Cardinality(Asked \cup {q}) = nextId + 1 BY <1>0, OneMoreAsked
<1>2. /\ nextId' = nextId + 1 /\ tid' = [tid EXCEPT ![q] = nextId]
      /\ call' = [call EXCEPT ![q] = "sending"]
      /\ registered' = [registered EXCEPT ![nextId] = TRUE]
      /\ UNCHANGED <<outcome, answeredBy, buffer, handler, packets, reading, opened>>
  BY DEF S!Register, S!IncrementedId
<1>3. Asked' = Asked \cup {q} /\ q \notin Asked BY <1>0, <1>2 DEF Asked
<1>4. ServerTypes'
  <2>1. nextId' \in 0 .. S!NoId BY <1>1, <1>2, IdRange
  <2>2. tid' \in [Queries -> S!Ids \cup {S!NoId}] BY <1>0, <1>1, <1>2
  <2>3. registered' \in [S!Ids -> BOOLEAN] BY <1>0, <1>1, <1>2
  <2>4. call' \in [Queries -> {"new", "sending", "waiting", "leaving", "done"}] BY <1>0, <1>2
  <2> QED BY <1>2, <2>1, <2>2, <2>3, <2>4 DEF ServerInv, ServerTypes, S!TypeOK
<1>5. \A r \in Asked : tid'[r] = tid[r] /\ tid[r] < nextId /\ tid[r] \in S!Ids
  BY <1>0, <1>2, <1>3 DEF Asked, ServerInv, IdsIssued
<1>6. tid'[q] = nextId BY <1>0, <1>2
<1>7. IdsIssued'
  <2>1. \A r \in Asked' : tid'[r] \in S!Ids /\ tid'[r] < nextId'
    BY <1>1, <1>2, <1>3, <1>5, <1>6, IdRange
  <2>2. \A r \in Queries \ Asked' : tid'[r] = S!NoId
    BY <1>0, <1>2, <1>3 DEF ServerInv, IdsIssued
  <2>3. ASSUME NEW r \in Asked', NEW s \in Asked', tid'[r] = tid'[s] PROVE r = s
    <3>1. CASE r \in Asked /\ s \in Asked BY <1>5, <2>3, <3>1 DEF ServerInv, IdsIssued
    <3>2. CASE r = q \/ s = q BY <1>1, <1>3, <1>5, <1>6, <2>3, <3>2, IdRange
    <3> QED BY <1>3, <3>1, <3>2
  <2> QED BY <1>1, <1>2, <1>3, <2>1, <2>2, <2>3 DEF IdsIssued
<1>8. HandlersAsked' BY <1>2, <1>3 DEF ServerInv, HandlersAsked
<1>9. DeliveredToOwn' BY <1>2, <1>5 DEF ServerInv, DeliveredToOwn, HandlersAsked
<1>10. S!AnsweredByOwn' BY <1>2 DEF ServerInv, S!AnsweredByOwn
<1>11. S!NoLeftover'
  <2> SUFFICES ASSUME NEW i \in S!Ids, registered'[i] PROVE \E r \in Queries : tid'[r] = i /\ call'[r] # "done"
    BY DEF S!NoLeftover
  <2>1. CASE i = nextId BY <1>0, <1>2, <1>6, <2>1
  <2>2. CASE i # nextId
    <3>1. registered[i] BY <1>0, <1>2, <2>2
    <3>2. PICK r \in Queries : tid[r] = i /\ call[r] # "done" BY <3>1 DEF ServerInv, S!NoLeftover
    <3>3. r # q BY <1>3, <3>2, IdRange DEF ServerInv, IdsIssued
    <3> QED BY <1>0, <1>2, <3>2, <3>3
  <2> QED BY <2>1, <2>2
<1> QED BY <1>4, <1>7, <1>8, <1>9, <1>10, <1>11 DEF ServerInv

\* A query that goes on and is not over leaves ids, channels and goroutines alone.
LEMMA QueryTurn ==
    ASSUME ServerInv, NEW q \in Queries, call[q] # "new",
           NEW to \in {"waiting", "leaving"}, call' = [call EXCEPT ![q] = to],
           outcome' \in [Queries -> {"none", "ok", "failed", "timeout"}],
           UNCHANGED <<tid, nextId, answeredBy, registered, buffer, handler, packets, reading, opened>>
    PROVE  ServerInv'
<1>1. call \in [Queries -> {"new", "sending", "waiting", "leaving", "done"}]
  BY DEF ServerInv, ServerTypes, S!TypeOK
<1>2. Asked' = Asked BY <1>1 DEF Asked
<1>3. ServerTypes' BY <1>1 DEF ServerInv, ServerTypes, S!TypeOK
<1>4. IdsIssued' BY <1>2 DEF ServerInv, IdsIssued
<1>5. HandlersAsked' /\ DeliveredToOwn' BY <1>2 DEF ServerInv, HandlersAsked, DeliveredToOwn
<1>6. S!AnsweredByOwn' BY DEF ServerInv, S!AnsweredByOwn
<1>7. S!NoLeftover'
  <2>1. \A r \in Queries : call[r] # "done" => call'[r] # "done" BY <1>1
  <2> QED BY <2>1 DEF ServerInv, S!NoLeftover
<1> QED BY <1>3, <1>4, <1>5, <1>6, <1>7 DEF ServerInv

\* A channel with one place holds one response or none.
LEMMA OnlyOne ==
    ASSUME NEW W, NEW b \in Seq(W), Len(b) <= 1, b # <<>>
    PROVE  Head(b) \in W /\ Tail(b) = <<>>
<1>1. Len(b) \in Nat /\ Len(b) # 0 BY EmptySeq
<1>2. Head(b) \in W BY HeadTailProperties
<1>3. Tail(b) \in Seq(W) /\ Len(Tail(b)) = Len(b) - 1 BY HeadTailProperties
<1>4. Len(Tail(b)) = 0 BY <1>1, <1>3
<1> QED BY <1>2, <1>3, <1>4, EmptySeq

\* What a query takes from its channel was sent to it.
LEMMA OwnResponse ==
    ASSUME ServerInv, NEW q \in Queries, call[q] # "new", buffer[tid[q]] # <<>>
    PROVE  /\ tid[q] \in S!Ids /\ Head(buffer[tid[q]]).for = q
           /\ buffer[tid[q]] \in Seq([for : Queries, body : S!Bodies])
           /\ Head(buffer[tid[q]]) \in [for : Queries, body : S!Bodies]
           /\ Tail(buffer[tid[q]]) = <<>>
<1>1. q \in Asked /\ tid[q] \in S!Ids BY DEF Asked, ServerInv, IdsIssued
<1>2. PICK p \in S!Packets :
        /\ p <= packets /\ Head(buffer[tid[q]]).for = handler[p].for /\ tid[handler[p].for] = tid[q]
  BY <1>1 DEF ServerInv, DeliveredToOwn
<1>3. handler[p].for \in Asked BY <1>2 DEF ServerInv, HandlersAsked
<1>4. handler[p].for = q BY <1>1, <1>2, <1>3 DEF ServerInv, IdsIssued
<1>5. buffer[tid[q]] \in Seq([for : Queries, body : S!Bodies]) /\ Len(buffer[tid[q]]) <= 1
  BY <1>1 DEF ServerInv, ServerTypes, S!TypeOK
<1>6. Head(buffer[tid[q]]) \in [for : Queries, body : S!Bodies] /\ Tail(buffer[tid[q]]) = <<>>
  BY <1>5, OnlyOne
<1> QED BY <1>1, <1>2, <1>4, <1>5, <1>6

\* The query takes the response out of its channel, and it is one to itself.
LEMMA TakeInv == ASSUME ServerInv, NEW q \in Queries, S!TakeResponse(q) PROVE ServerInv'
<1> USE DEF S!socketVars
<1>0. /\ call \in [Queries -> {"new", "sending", "waiting", "leaving", "done"}]
      /\ outcome \in [Queries -> {"none", "ok", "failed", "timeout"}]
      /\ answeredBy \in [Queries -> Queries \cup {S!NoQuery}]
      /\ buffer \in [S!Ids -> Seq([for : Queries, body : S!Bodies])]
      /\ \A i \in S!Ids : Len(buffer[i]) <= 1
  BY DEF ServerInv, ServerTypes, S!TypeOK
<1>1. call[q] = "waiting" /\ buffer[tid[q]] # <<>> BY DEF S!TakeResponse
<1>2. /\ tid[q] \in S!Ids /\ Head(buffer[tid[q]]).for = q /\ Tail(buffer[tid[q]]) = <<>>
  BY <1>1, OwnResponse
<1>3. /\ call' = [call EXCEPT ![q] = "leaving"]
      /\ answeredBy' = [answeredBy EXCEPT ![q] = q]
      /\ buffer' = [buffer EXCEPT ![tid[q]] = <<>>]
      /\ UNCHANGED <<tid, nextId, registered, handler, packets, reading, opened>>
  BY <1>0, <1>2 DEF S!TakeResponse
<1>4. outcome' \in [Queries -> {"none", "ok", "failed", "timeout"}]
  BY <1>0 DEF S!TakeResponse, S!Result
<1>5. Asked' = Asked BY <1>0, <1>1, <1>3 DEF Asked
<1>6. \A i \in S!Ids : buffer'[i] = buffer[i] \/ buffer'[i] = <<>> BY <1>0, <1>3
<1>7. ServerTypes'
  <2>1. buffer' \in [S!Ids -> Seq([for : Queries, body : S!Bodies])]
    <3>1. <<>> \in Seq([for : Queries, body : S!Bodies]) OBVIOUS
    <3> QED BY <1>0, <1>2, <1>3, <3>1
  <2>2. \A i \in S!Ids : Len(buffer'[i]) <= 1
    <3> SUFFICES ASSUME NEW i \in S!Ids PROVE Len(buffer'[i]) <= 1 OBVIOUS
    <3>1. CASE buffer'[i] = buffer[i] BY <1>0, <3>1
    <3>2. CASE buffer'[i] = <<>> BY <3>2
    <3> QED BY <1>6, <3>1, <3>2
  <2>3. call' \in [Queries -> {"new", "sending", "waiting", "leaving", "done"}] BY <1>0, <1>3
  <2>4. answeredBy' \in [Queries -> Queries \cup {S!NoQuery}] BY <1>0, <1>3
  <2> QED BY <1>3, <1>4, <2>1, <2>2, <2>3, <2>4 DEF ServerInv, ServerTypes, S!TypeOK
<1>8. IdsIssued' BY <1>3, <1>5 DEF ServerInv, IdsIssued
<1>9. HandlersAsked' BY <1>3, <1>5 DEF ServerInv, HandlersAsked
<1>10. DeliveredToOwn' BY <1>3, <1>6 DEF ServerInv, DeliveredToOwn
<1>11. S!AnsweredByOwn' BY <1>0, <1>3 DEF ServerInv, S!AnsweredByOwn
<1>12. S!NoLeftover'
  <2>1. \A r \in Queries : call[r] # "done" => call'[r] # "done" BY <1>0, <1>3
  <2> QED BY <1>3, <2>1 DEF ServerInv, S!NoLeftover
<1> QED BY <1>7, <1>8, <1>9, <1>10, <1>11, <1>12 DEF ServerInv

\* The deferred function takes the entry away, and no other query has that id.
LEMMA LeaveInv == ASSUME ServerInv, NEW q \in Queries, S!Leave(q) PROVE ServerInv'
<1> USE DEF S!socketVars
<1>0. /\ call \in [Queries -> {"new", "sending", "waiting", "leaving", "done"}]
      /\ registered \in [S!Ids -> BOOLEAN]
  BY DEF ServerInv, ServerTypes, S!TypeOK
<1>1. /\ call[q] = "leaving" /\ call' = [call EXCEPT ![q] = "done"]
      /\ registered' = [registered EXCEPT ![tid[q]] = FALSE]
      /\ UNCHANGED <<tid, nextId, outcome, answeredBy, buffer, handler, packets, reading, opened>>
  BY DEF S!Leave, S!Deleted
<1>2. Asked' = Asked /\ q \in Asked BY <1>0, <1>1 DEF Asked
<1>3. tid[q] \in S!Ids BY <1>2 DEF ServerInv, IdsIssued
<1>4. ServerTypes'
  <2>1. registered' \in [S!Ids -> BOOLEAN] BY <1>0, <1>1
  <2>2. call' \in [Queries -> {"new", "sending", "waiting", "leaving", "done"}] BY <1>0, <1>1
  <2> QED BY <1>1, <2>1, <2>2 DEF ServerInv, ServerTypes, S!TypeOK
<1>5. IdsIssued' BY <1>1, <1>2 DEF ServerInv, IdsIssued
<1>6. HandlersAsked' /\ DeliveredToOwn' BY <1>1, <1>2 DEF ServerInv, HandlersAsked, DeliveredToOwn
<1>7. S!AnsweredByOwn' BY <1>1 DEF ServerInv, S!AnsweredByOwn
<1>8. S!NoLeftover'
  <2> SUFFICES ASSUME NEW i \in S!Ids, registered'[i] PROVE \E r \in Queries : tid'[r] = i /\ call'[r] # "done"
    BY DEF S!NoLeftover
  <2>1. i # tid[q] /\ registered[i] BY <1>0, <1>1, <1>3
  <2>2. PICK r \in Queries : tid[r] = i /\ call[r] # "done" BY <2>1 DEF ServerInv, S!NoLeftover
  <2> QED BY <1>0, <1>1, <2>1, <2>2
<1> QED BY <1>4, <1>5, <1>6, <1>7, <1>8 DEF ServerInv


\* The read loop starts a goroutine for a response to a query that was sent.
LEMMA ArrivalInv ==
    ASSUME ServerInv, NEW q \in Queries, NEW body \in S!Bodies, S!Receive(q, body) PROVE ServerInv'
<1> USE DEF S!queryVars
<1>0. handler \in [S!Packets -> S!Handlers] /\ packets \in 0 .. MaxPackets
  BY DEF ServerInv, ServerTypes, S!TypeOK
<1>1. /\ call[q] # "new" /\ packets < MaxPackets /\ packets' = packets + 1
      /\ handler' = [handler EXCEPT ![packets + 1] = [at |-> "spawned", for |-> q, body |-> body]]
      /\ UNCHANGED <<call, tid, nextId, outcome, answeredBy, registered, buffer, reading, opened>>
  BY DEF S!Receive
<1>2. packets + 1 \in S!Packets /\ packets \in Nat BY <1>0, <1>1, IdRange
<1>3. Asked' = Asked /\ q \in Asked BY <1>1 DEF Asked
<1>4. ServerTypes'
  <2>1. handler' \in [S!Packets -> S!Handlers] BY <1>0, <1>1, <1>2 DEF S!Handlers
  <2>2. packets' \in 0 .. MaxPackets BY <1>0, <1>1, IdRange
  <2> QED BY <1>1, <2>1, <2>2 DEF ServerInv, ServerTypes, S!TypeOK
<1>5. IdsIssued' BY <1>1, <1>3 DEF ServerInv, IdsIssued
<1>6. \A p \in S!Packets : p # packets + 1 => handler'[p] = handler[p] BY <1>0, <1>1
<1>7. handler'[packets + 1].for = q BY <1>0, <1>1, <1>2
<1>8. HandlersAsked'
  <2> SUFFICES ASSUME NEW p \in S!Packets
               PROVE  IF p <= packets' THEN handler'[p].for \in Asked ELSE handler'[p].at = "none"
    BY <1>3 DEF HandlersAsked
  <2>1. CASE p = packets + 1 BY <1>1, <1>2, <1>3, <1>7, <2>1
  <2>2. CASE p # packets + 1
    <3>1. p <= packets' <=> p <= packets BY <1>1, <1>2, <2>2, IdRange
    <3> QED BY <1>6, <2>2, <3>1 DEF ServerInv, HandlersAsked
  <2> QED BY <2>1, <2>2
<1>9. DeliveredToOwn'
  <2> SUFFICES ASSUME NEW i \in S!Ids, buffer[i] # <<>>
               PROVE  \E p \in S!Packets :
                        /\ handler'[p].at = "gone" /\ p <= packets'
                        /\ Head(buffer[i]).for = handler'[p].for /\ tid[handler'[p].for] = i
    BY <1>1 DEF DeliveredToOwn
  <2>1. PICK p \in S!Packets :
          /\ handler[p].at = "gone" /\ p <= packets
          /\ Head(buffer[i]).for = handler[p].for /\ tid[handler[p].for] = i
    BY DEF ServerInv, DeliveredToOwn
  <2>2. p # packets + 1 /\ p <= packets' BY <1>1, <1>2, <2>1, IdRange
  <2> QED BY <1>6, <2>1, <2>2
<1>10. S!AnsweredByOwn' /\ S!NoLeftover' BY <1>1 DEF ServerInv, S!AnsweredByOwn, S!NoLeftover
<1> QED BY <1>4, <1>5, <1>8, <1>9, <1>10 DEF ServerInv

\* A goroutine that handles a response goes on, and was there before.
LEMMA HandlerTurn ==
    ASSUME ServerInv, NEW p \in S!Packets, handler[p].at \in {"spawned", "found"},
           NEW to \in {"found", "gone"}, handler' = [handler EXCEPT ![p].at = to],
           UNCHANGED <<call, packets>>
    PROVE  /\ handler' \in [S!Packets -> S!Handlers] /\ HandlersAsked'
           /\ p <= packets /\ handler[p].for \in Asked /\ handler'[p].at = to /\ Asked' = Asked
           /\ \A o \in S!Packets : handler'[o].for = handler[o].for
           /\ \A o \in S!Packets : o # p => handler'[o] = handler[o]
           /\ handler[p] \in [at : {"none", "spawned", "found", "gone"},
                              for : Queries \cup {S!NoQuery}, body : S!Bodies]
<1>0. handler \in [S!Packets -> S!Handlers] BY DEF ServerInv, ServerTypes, S!TypeOK
<1>1. handler[p] \in [at : {"none", "spawned", "found", "gone"},
                      for : Queries \cup {S!NoQuery}, body : S!Bodies]
  BY <1>0 DEF S!Handlers
<1>2. p <= packets /\ handler[p].for \in Asked BY DEF ServerInv, HandlersAsked
<1>3. /\ handler'[p] = [handler[p] EXCEPT !.at = to]
      /\ \A o \in S!Packets : o # p => handler'[o] = handler[o]
  BY <1>0
<1>4. handler'[p].at = to /\ handler'[p].for = handler[p].for BY <1>1, <1>3
<1>5. handler' \in [S!Packets -> S!Handlers] BY <1>0, <1>1 DEF S!Handlers
<1>6. Asked' = Asked BY DEF Asked
<1>7. HandlersAsked' BY <1>2, <1>3, <1>4, <1>6 DEF ServerInv, HandlersAsked
<1> QED BY <1>1, <1>2, <1>3, <1>4, <1>5, <1>6, <1>7

\* The goroutine finds the channel of the query, or is gone.
LEMMA LookUpInv == ASSUME ServerInv, NEW p \in S!Packets, S!LookUp(p) PROVE ServerInv'
<1> USE DEF S!queryVars, S!socketVars
<1>1. PICK to \in {"found", "gone"} : handler' = [handler EXCEPT ![p].at = to]
  BY DEF S!LookUp
<1>2. /\ handler[p].at = "spawned"
      /\ UNCHANGED <<call, tid, nextId, outcome, answeredBy, registered, buffer, packets, reading, opened>>
  BY DEF S!LookUp
<1>3. /\ handler' \in [S!Packets -> S!Handlers] /\ HandlersAsked' /\ Asked' = Asked
      /\ \A o \in S!Packets : o # p => handler'[o] = handler[o]
  BY <1>1, <1>2, HandlerTurn
<1>4. ServerTypes' BY <1>2, <1>3 DEF ServerInv, ServerTypes, S!TypeOK
<1>5. IdsIssued' BY <1>2, <1>3 DEF ServerInv, IdsIssued
<1>6. DeliveredToOwn'
  <2> SUFFICES ASSUME NEW i \in S!Ids, buffer[i] # <<>>
               PROVE  \E o \in S!Packets :
                        /\ handler'[o].at = "gone" /\ o <= packets
                        /\ Head(buffer[i]).for = handler'[o].for /\ tid[handler'[o].for] = i
    BY <1>2 DEF DeliveredToOwn
  <2>1. PICK o \in S!Packets :
          /\ handler[o].at = "gone" /\ o <= packets
          /\ Head(buffer[i]).for = handler[o].for /\ tid[handler[o].for] = i
    BY DEF ServerInv, DeliveredToOwn
  <2>2. o # p BY <1>2, <2>1
  <2> QED BY <1>3, <2>1, <2>2
<1>7. S!AnsweredByOwn' /\ S!NoLeftover' BY <1>2 DEF ServerInv, S!AnsweredByOwn, S!NoLeftover
<1> QED BY <1>3, <1>4, <1>5, <1>6, <1>7 DEF ServerInv

\* The goroutine puts the response into the channel of the query it answers.
LEMMA DeliverInv == ASSUME ServerInv, NEW p \in S!Packets, S!Deliver(p) PROVE ServerInv'
<1> USE DEF S!queryVars, S!socketVars
<1> DEFINE q == handler[p].for
           m == [for |-> q, body |-> handler[p].body]
<1>1. /\ handler[p].at = "found" /\ buffer[tid[q]] = <<>>
      /\ buffer' = [buffer EXCEPT ![tid[q]] = Append(@, m)]
      /\ handler' = [handler EXCEPT ![p].at = "gone"]
      /\ UNCHANGED <<call, tid, nextId, outcome, answeredBy, registered, packets, reading, opened>>
  BY DEF S!Deliver, S!HasRoom
<1>2. /\ handler' \in [S!Packets -> S!Handlers] /\ HandlersAsked' /\ Asked' = Asked
      /\ p <= packets /\ q \in Asked /\ handler'[p].at = "gone"
      /\ \A o \in S!Packets : handler'[o].for = handler[o].for
      /\ \A o \in S!Packets : o # p => handler'[o] = handler[o]
      /\ handler[p] \in [at : {"none", "spawned", "found", "gone"},
                         for : Queries \cup {S!NoQuery}, body : S!Bodies]
  BY <1>1, HandlerTurn
<1>3. q \in Queries /\ m \in [for : Queries, body : S!Bodies] /\ m.for = q BY <1>2 DEF Asked
<1>4. tid[q] \in S!Ids BY <1>2 DEF ServerInv, IdsIssued
<1>5. /\ buffer \in [S!Ids -> Seq([for : Queries, body : S!Bodies])]
      /\ \A i \in S!Ids : Len(buffer[i]) <= 1
  BY DEF ServerInv, ServerTypes, S!TypeOK
<1> HIDE DEF m
<1>6. buffer' = [buffer EXCEPT ![tid[q]] = <<m>>] /\ Head(<<m>>) = m /\ Len(<<m>>) = 1
  BY <1>1, <1>4, <1>5
<1>7. ServerTypes'
  <2>1. buffer' \in [S!Ids -> Seq([for : Queries, body : S!Bodies])]
    <3>1. <<m>> \in Seq([for : Queries, body : S!Bodies]) BY <1>3
    <3> QED BY <1>4, <1>5, <1>6, <3>1
  <2>2. \A i \in S!Ids : Len(buffer'[i]) <= 1
    <3> SUFFICES ASSUME NEW i \in S!Ids PROVE Len(buffer'[i]) <= 1 OBVIOUS
    <3>1. CASE i = tid[q] BY <1>5, <1>6, <3>1
    <3>2. CASE i # tid[q]
      <4>1. buffer'[i] = buffer[i] BY <1>5, <1>6, <3>2
      <4> QED BY <1>5, <4>1
    <3> QED BY <3>1, <3>2
  <2> QED BY <1>1, <1>2, <2>1, <2>2 DEF ServerInv, ServerTypes, S!TypeOK
<1>8. IdsIssued' BY <1>1, <1>2 DEF ServerInv, IdsIssued
<1>9. DeliveredToOwn'
  <2> SUFFICES ASSUME NEW i \in S!Ids, buffer'[i] # <<>>
               PROVE  \E o \in S!Packets :
                        /\ handler'[o].at = "gone" /\ o <= packets
                        /\ Head(buffer'[i]).for = handler[o].for /\ tid[handler[o].for] = i
    BY <1>1, <1>2 DEF DeliveredToOwn
  <2>1. CASE i = tid[q] BY <1>2, <1>3, <1>5, <1>6, <2>1
  <2>2. CASE i # tid[q]
    <3>1. buffer'[i] = buffer[i] BY <1>5, <1>6, <2>2
    <3>2. PICK o \in S!Packets :
            /\ handler[o].at = "gone" /\ o <= packets
            /\ Head(buffer[i]).for = handler[o].for /\ tid[handler[o].for] = i
      BY <3>1 DEF ServerInv, DeliveredToOwn
    <3>3. o # p BY <1>1, <3>2
    <3> QED BY <1>2, <3>1, <3>2, <3>3
  <2> QED BY <2>1, <2>2
<1>10. S!AnsweredByOwn' /\ S!NoLeftover' BY <1>1 DEF ServerInv, S!AnsweredByOwn, S!NoLeftover
<1> QED BY <1>2, <1>7, <1>8, <1>9, <1>10 DEF ServerInv

\* Every step of the server, and every step of another part, keeps the invariant.
LEMMA ServerNext == ServerInv /\ [S!Next]_serverVars => ServerInv'
<1> SUFFICES ASSUME ServerInv, [S!Next]_serverVars PROVE ServerInv' OBVIOUS
<1>0. /\ outcome \in [Queries -> {"none", "ok", "failed", "timeout"}] /\ reading \in BOOLEAN /\ opened \in BOOLEAN
  BY DEF ServerInv, ServerTypes, S!TypeOK
<1>1. ASSUME NEW q \in Queries, S!QueryStep(q) PROVE ServerInv'
  <2>1. CASE S!Send(q) BY <2>1, <1>0, QueryTurn DEF S!Send, S!socketVars
  <2>2. CASE S!SendFails(q) BY <2>2, <1>0, QueryTurn DEF S!SendFails, S!socketVars
  <2>3. CASE S!Timeout(q) BY <2>3, <1>0, QueryTurn DEF S!Timeout, S!socketVars
  <2> QED BY <1>1, <2>1, <2>2, <2>3, RegisterInv, TakeInv, LeaveInv DEF S!QueryStep
<1>2. ASSUME NEW q \in Queries, NEW body \in S!Bodies, S!Receive(q, body) PROVE ServerInv'
  BY <1>2, ArrivalInv
<1>3. ASSUME NEW p \in S!Packets, S!Handle(p) PROVE ServerInv'
  BY <1>3, LookUpInv, DeliverInv DEF S!Handle
<1>4. CASE S!ReadFails \/ S!Stop \/ UNCHANGED serverVars
  <2>1. /\ UNCHANGED <<call, tid, nextId, outcome, answeredBy, registered, buffer, handler, packets>>
        /\ reading' \in BOOLEAN /\ opened' \in BOOLEAN
    BY <1>0, <1>4 DEF S!ReadFails, S!Stop, S!queryVars, serverVars
  <2>2. ServerTypes' BY <2>1 DEF ServerInv, ServerTypes, S!TypeOK
  <2>3. Asked' = Asked BY <2>1 DEF Asked
  <2>4. IdsIssued' /\ HandlersAsked' /\ DeliveredToOwn'
    BY <2>1, <2>3 DEF ServerInv, IdsIssued, HandlersAsked, DeliveredToOwn
  <2>5. S!AnsweredByOwn' /\ S!NoLeftover' BY <2>1 DEF ServerInv, S!AnsweredByOwn, S!NoLeftover
  <2> QED BY <2>2, <2>4, <2>5 DEF ServerInv
<1> QED BY <1>1, <1>2, <1>3, <1>4 DEF S!Next

\* Whose channel is full has had a response before.
LEMMA StuckBehindAnother == ServerInv => S!OnlyDuplicatesStick
<1> SUFFICES ASSUME ServerInv, NEW p \in S!Packets, handler[p].at = "found",
                    buffer[tid[handler[p].for]] # <<>>
             PROVE  \E o \in S!Packets : o # p /\ handler[o].for = handler[p].for /\ handler[o].at = "gone"
  BY DEF S!OnlyDuplicatesStick, S!HasRoom
<1>1. handler[p].for \in Asked BY DEF ServerInv, HandlersAsked
<1>2. tid[handler[p].for] \in S!Ids BY <1>1 DEF ServerInv, IdsIssued
<1>3. PICK o \in S!Packets :
        handler[o].at = "gone" /\ o <= packets /\ tid[handler[o].for] = tid[handler[p].for]
  BY <1>2 DEF ServerInv, DeliveredToOwn
<1>4. handler[o].for \in Asked BY <1>3 DEF ServerInv, HandlersAsked
<1>5. handler[o].for = handler[p].for BY <1>1, <1>3, <1>4 DEF ServerInv, IdsIssued
<1> QED BY <1>3, <1>5

\* GetPeersScrape succeeds with both filters only.
LEMMA FiltersChecked ==
    ServerInv /\ [S!Next]_serverVars =>
        [\A q \in Scrapes : outcome[q] = "none" /\ outcome'[q] = "ok" =>
             Head(buffer[tid[q]]).body = "filters"]_(S!vars)
<1> SUFFICES ASSUME ServerInv, S!Next, NEW q \in Scrapes, outcome[q] = "none", outcome'[q] = "ok"
             PROVE  Head(buffer[tid[q]]).body = "filters"
  BY DEF serverVars, S!vars, S!queryVars, S!socketVars
<1>1. outcome \in [Queries -> {"none", "ok", "failed", "timeout"}] /\ q \in Queries
  BY ServerAssumption DEF ServerInv, ServerTypes, S!TypeOK
<1>2. ASSUME NEW r \in Queries, S!TakeResponse(r) PROVE Head(buffer[tid[q]]).body = "filters"
  <2>1. r = q BY <1>1, <1>2 DEF S!TakeResponse
  <2> QED BY <1>1, <1>2, <2>1 DEF S!TakeResponse, S!Result
<1>3. ASSUME NEW r \in Queries, S!SendFails(r) \/ S!Timeout(r) PROVE FALSE
  BY <1>1, <1>3 DEF S!SendFails, S!Timeout
<1>4. ASSUME NEW r \in Queries, S!Register(r) \/ S!Send(r) \/ S!Leave(r) PROVE FALSE
  BY <1>4 DEF S!Register, S!Send, S!Leave
<1>5. ASSUME NEW r \in Queries, NEW body, S!Receive(r, body) PROVE FALSE BY <1>5 DEF S!Receive, S!queryVars
<1>6. ASSUME NEW p \in S!Packets, S!Handle(p) PROVE FALSE
  BY <1>6 DEF S!Handle, S!LookUp, S!Deliver, S!queryVars
<1>7. ~S!ReadFails /\ ~S!Stop BY DEF S!ReadFails, S!Stop, S!queryVars
<1> QED BY <1>2, <1>3, <1>4, <1>5, <1>6, <1>7 DEF S!Next, S!QueryStep

----------------------------------------------------------------------------
(***************************************************************************)
(* The settings of the search, for any of them, whichever of indexer and   *)
(* deleter is run.  A goroutine of these follows the atom unless a token   *)
(* is there or still to come; what odd records is all that it may miss.    *)
(***************************************************************************)

\* The records have their fields, which EXCEPT keeps.
Fields ==
    /\ DOMAIN update = {"pc", "to"} /\ DOMAIN resolver = {"client", "embedder"}
    /\ DOMAIN indexer = {"pc", "read", "client", "embedder", "lastAddr", "lastDims"}
    /\ DOMAIN deleter = {"pc", "read", "client", "lastAddr"}
    /\ DOMAIN job = {"kind", "client", "embedder", "dims", "torn"}
    /\ DOMAIN request = {"client", "embedder", "since"}

\* The atom is set when a subscriber starts to switch, and the resolver's clients follow it.
UpdateInStep ==
    /\ update.pc \in {"factory", "notify", "setES", "setEM", "postgres"} => atom = update.to
    /\ update.pc \in {"setEM", "idle", "checked", "switch", "postgres"} =>
         resolver.client = Search!ClientOf(atom)
    /\ update.pc \in {"idle", "checked", "switch", "postgres"} /\ atom.backend = "elasticsearch" =>
         resolver.embedder = atom.dims
    /\ updates \in Nat

\* What the indexer has is what it remembers, but for what odd records.
IndexerRemembers ==
    /\ indexer.pc \in {"wired", "startup", "panicked", "embedder", "subscribe", "loop", "event",
                       "embedding", "reindex"}
    /\ "wrongClient" \notin odd => indexer.client = indexer.lastAddr
    /\ indexer.pc \notin {"wired", "embedder", "panicked"} /\ "wrongEmbedder" \notin odd =>
         indexer.embedder = indexer.lastDims
    /\ indexer.pc = "wired" =>
         /\ indexer.client = NoClient /\ indexer.lastAddr = NoClient
         /\ indexer.embedder = Search!None /\ indexer.lastDims = Search!None

\* What it remembers is of the setting that it read, as far as it got with that one.
IndexerReads ==
    /\ indexer.pc \in {"embedder", "subscribe"} =>
         /\ indexer.lastAddr = Search!ClientOf(indexer.read)
         /\ indexer.lastDims = Search!EmbedderOf(indexer.read)
    /\ indexer.pc \in {"embedding", "reindex"} =>
         /\ indexer.read.backend = "elasticsearch" /\ indexer.lastAddr = indexer.read.cluster
         /\ indexer.client \in Search!Clusters
    /\ indexer.pc = "reindex" => indexer.lastDims = indexer.read.dims

\* And that is the one in the atom, or else a token is there or to come.
IndexerCurrent ==
    Search!Settled("indexer") =>
      /\ indexer.pc = "loop" /\ "missed" \notin odd =>
           /\ indexer.lastAddr = Search!ClientOf(atom)
           /\ indexer.lastDims = Search!EmbedderOf(atom)
      /\ indexer.pc \in {"event", "embedding", "reindex"} => indexer.read = atom

DeleterInv ==
    /\ deleter.pc \in {"wired", "loop", "event"}
    /\ deleter.pc = "wired" => deleter.client = Search!ClientOf(wired)
    /\ deleter.lastAddr # NoClient => deleter.client = deleter.lastAddr
    /\ Search!Settled("deleter") /\ deleter.pc = "event" => deleter.read = atom
    /\ Search!DeleterFollows

\* A request that no update has come between has the embedder of the atom.
RequestInv ==
    /\ request.since \in Nat /\ request.since <= updates + 1
    /\ request # Search!NoRequest =>
         request.client \in Search!Clusters /\ request.embedder \in Search!Embedders
    /\ request # Search!NoRequest /\ request.since = updates + 1 =>
         update.pc = "idle" /\ request.embedder = atom.dims

JobInv ==
    /\ job.kind \in {"fresh", "indexing"} =>
         job.client \in Search!Clusters /\ job.dims \in Search!Dimensions
    /\ job.kind \in {"fresh", "indexing"} /\ ~job.torn => job.embedder = job.dims
    /\ job.kind = "indexing" /\ ~job.torn => index[job.client] = job.dims

SearchInv ==
    /\ Search!TypeOK /\ Fields
    /\ UpdateInStep
    /\ IndexerRemembers /\ IndexerReads /\ IndexerCurrent
    /\ DeleterInv
    /\ RequestInv /\ JobInv

LEMMA OfSettings ==
    ASSUME NEW s \in Settings
    PROVE  /\ Search!ClientOf(s) \in Search!Clients /\ Search!EmbedderOf(s) \in Search!Embedders
           /\ s.cluster \in Search!Clusters /\ s.dims \in Search!Dimensions
           /\ s.cluster # NoClient /\ s.dims # Search!None
BY SettingsAssumption
   DEF Search!ClientOf, Search!EmbedderOf, Search!Clients, Search!Embedders, Search!Clusters, Search!Dimensions

LEMMA SearchInit == Search!Init => SearchInv
<1> SUFFICES ASSUME Search!Init PROVE SearchInv OBVIOUS
<1>1. PICK s \in Settings :
        /\ update = [pc |-> "idle", to |-> s]
        /\ saved = s /\ atom = s /\ search = s /\ snapshot = s /\ wired = s
        /\ resolver = [client |-> Search!ClientOf(s), embedder |-> s.dims]
        /\ event = {} /\ workers \in SUBSET {"indexer", "deleter"}
        /\ indexer = [pc |-> "wired", read |-> s, client |-> NoClient, embedder |-> Search!None,
                      lastAddr |-> NoClient, lastDims |-> Search!None]
        /\ deleter = [pc |-> "wired", read |-> s, client |-> Search!ClientOf(s), lastAddr |-> NoClient]
        /\ index \in [Search!Clusters -> Search!Embedders]
        /\ job = Search!Free /\ request = Search!NoRequest
        /\ odd = {} /\ updates = 0
  BY DEF Search!Init
<1>2. NoClient \in Search!Clients /\ Search!None \in Search!Embedders
      /\ s.dims \in Search!Embedders
  BY OfSettings DEF Search!Clients, Search!Embedders
<1>3. Search!TypeOK BY <1>1, <1>2, OfSettings DEF Search!TypeOK, Search!Free
<1>4. Fields BY <1>1 DEF Fields, Search!Free, Search!NoRequest
<1>5. UpdateInStep BY <1>1 DEF UpdateInStep
<1>6. IndexerRemembers /\ IndexerReads /\ IndexerCurrent
  BY <1>1 DEF IndexerRemembers, IndexerReads, IndexerCurrent
<1>7. DeleterInv BY <1>1 DEF DeleterInv, Search!DeleterFollows
<1>8. RequestInv /\ JobInv BY <1>1 DEF RequestInv, JobInv, Search!Free, Search!NoRequest
<1> QED BY <1>3, <1>4, <1>5, <1>6, <1>7, <1>8 DEF SearchInv

----------------------------------------------------------------------------
(* updateConfig *)

LEMMA Goes ==
    ASSUME Fields, NEW from, NEW to, Search!UpdateGoes(from, to)
    PROVE  /\ update.pc = from /\ update'.pc = to /\ update'.to = update.to
           /\ DOMAIN update' = {"pc", "to"}
BY DEF Fields, Search!UpdateGoes

\* What an update leaves to the others.
LEMMA OthersKept ==
    ASSUME SearchInv, UNCHANGED <<wired, workers, indexer, deleter, index, job, request, odd>>
    PROVE  /\ IndexerRemembers' /\ IndexerReads' /\ JobInv'
           /\ deleter'.pc \in {"wired", "loop", "event"}
           /\ deleter'.pc = "wired" => deleter'.client = Search!ClientOf(wired')
           /\ deleter'.lastAddr # NoClient => deleter'.client = deleter'.lastAddr
BY DEF SearchInv, IndexerRemembers, IndexerReads, JobInv, DeleterInv

\* They are as current as before while the atom stays, no token is taken and none is due.
LEMMA StillCurrent ==
    ASSUME SearchInv, UNCHANGED <<atom, indexer, deleter, odd, wired>>,
           Search!Settled("indexer")' => Search!Settled("indexer"),
           Search!Settled("deleter")' => Search!Settled("deleter")
    PROVE  /\ IndexerCurrent' /\ Search!DeleterFollows'
           /\ Search!Settled("deleter")' /\ deleter'.pc = "event" => deleter'.read = atom'
BY DEF SearchInv, IndexerCurrent, DeleterInv, Search!DeleterFollows

LEMMA CheckBusyInv ==
    ASSUME SearchInv, NEW s \in Settings, Search!CheckBusy(s) PROVE SearchInv'
<1>1. /\ update.pc = "idle" /\ update' = [pc |-> "checked", to |-> s] /\ updates' = updates + 1
      /\ UNCHANGED <<saved, atom, search, snapshot, resolver, event, refused, wired, workers,
                     indexer, deleter, index, job, request, jobs, odd>>
  BY DEF Search!CheckBusy, Search!startVars, Search!jobVars
<1>2. Search!TypeOK' BY <1>1 DEF SearchInv, Search!TypeOK
<1>3. Fields' BY <1>1 DEF SearchInv, Fields
<1>4. UpdateInStep' BY <1>1 DEF SearchInv, UpdateInStep
<1>5. Search!Settled("indexer")' => Search!Settled("indexer") BY <1>1 DEF Search!Settled
<1>6. Search!Settled("deleter")' => Search!Settled("deleter") BY <1>1 DEF Search!Settled
<1>7. RequestInv' BY <1>1 DEF SearchInv, RequestInv, UpdateInStep
<1> QED BY <1>1, <1>2, <1>3, <1>4, <1>5, <1>6, <1>7, OthersKept, StillCurrent DEF SearchInv, DeleterInv

\* A step that leaves the atom alone, and after which whoever has a token to come or has one still
\* does.
LEMMA UpdateStepInv ==
    ASSUME SearchInv, Search!TypeOK', Fields', UpdateInStep',
           UNCHANGED <<atom, updates, wired, workers, indexer, deleter, index, job, request, odd>>,
           update.pc # "idle",
           Search!Settled("indexer")' => Search!Settled("indexer"),
           Search!Settled("deleter")' => Search!Settled("deleter")
    PROVE  SearchInv'
<1>1. RequestInv' BY DEF SearchInv, RequestInv
<1> QED BY <1>1, OthersKept, StillCurrent DEF SearchInv, DeleterInv

LEMMA SaveInv == ASSUME SearchInv, Search!Save PROVE SearchInv'
<1> DEFINE to == IF update.to = atom THEN "postgres" ELSE "switch"
<1>1. /\ Search!UpdateGoes("checked", to) /\ saved' = update.to
      /\ UNCHANGED <<atom, search, snapshot, resolver, event, updates, refused, wired, workers,
                     indexer, deleter, index, job, request, jobs, odd>>
  BY DEF Search!Save, Search!startVars, Search!jobVars
<1>2. /\ update.pc = "checked" /\ update'.pc = to /\ update'.to = update.to
      /\ DOMAIN update' = {"pc", "to"}
  BY <1>1, Goes DEF SearchInv
<1>3. Search!TypeOK' BY <1>1, <1>2 DEF SearchInv, Search!TypeOK
<1>4. Fields' BY <1>1, <1>2 DEF SearchInv, Fields
<1>5. UpdateInStep' BY <1>1, <1>2 DEF SearchInv, UpdateInStep
<1>6. Search!Settled("indexer")' => Search!Settled("indexer") BY <1>1, <1>2 DEF Search!Settled
<1>7. Search!Settled("deleter")' => Search!Settled("deleter") BY <1>1, <1>2 DEF Search!Settled
<1> QED BY <1>1, <1>2, <1>3, <1>4, <1>5, <1>6, <1>7, UpdateStepInv

LEMMA SwitchBackendInv == ASSUME SearchInv, Search!SwitchBackend PROVE SearchInv'
<1>1. /\ Search!UpdateGoes("switch", "factory") /\ atom' = update.to
      /\ UNCHANGED <<saved, search, snapshot, resolver, event, updates, refused, wired, workers,
                     indexer, deleter, index, job, request, jobs, odd>>
  BY DEF Search!SwitchBackend, Search!startVars, Search!jobVars
<1>2. /\ update.pc = "switch" /\ update'.pc = "factory" /\ update'.to = update.to
      /\ DOMAIN update' = {"pc", "to"}
  BY <1>1, Goes DEF SearchInv
<1>3. Search!TypeOK' BY <1>1, <1>2 DEF SearchInv, Search!TypeOK
<1>4. Fields' BY <1>1, <1>2 DEF SearchInv, Fields
<1>5. UpdateInStep' BY <1>1, <1>2 DEF SearchInv, UpdateInStep
<1>6. ~Search!Settled("indexer")' /\ ~Search!Settled("deleter")' BY <1>2 DEF Search!Settled
<1>7. IndexerCurrent' /\ Search!DeleterFollows' BY <1>6 DEF IndexerCurrent, Search!DeleterFollows
<1>8. RequestInv' BY <1>1, <1>2 DEF SearchInv, RequestInv
<1> QED BY <1>1, <1>3, <1>4, <1>5, <1>6, <1>7, <1>8, OthersKept DEF SearchInv, DeleterInv

LEMMA MakeSearchInv == ASSUME SearchInv, Search!MakeSearch PROVE SearchInv'
<1>1. /\ Search!UpdateGoes("factory", "notify") /\ search' = update.to
      /\ UNCHANGED <<saved, atom, snapshot, resolver, event, updates, refused, wired, workers,
                     indexer, deleter, index, job, request, jobs, odd>>
  BY DEF Search!MakeSearch, Search!startVars, Search!jobVars
<1>2. /\ update.pc = "factory" /\ update'.pc = "notify" /\ update'.to = update.to
      /\ DOMAIN update' = {"pc", "to"}
  BY <1>1, Goes DEF SearchInv
<1>3. Search!TypeOK' BY <1>1, <1>2 DEF SearchInv, Search!TypeOK
<1>4. Fields' BY <1>1, <1>2 DEF SearchInv, Fields
<1>5. UpdateInStep' BY <1>1, <1>2 DEF SearchInv, UpdateInStep
<1>6. ~Search!Settled("indexer")' /\ ~Search!Settled("deleter")' BY <1>2 DEF Search!Settled
<1> QED BY <1>1, <1>2, <1>3, <1>4, <1>5, <1>6, UpdateStepInv

\* Whoever does not get a token has not subscribed, and looks at the atom when it does.
LEMMA NotifyInv == ASSUME SearchInv, Search!Notify PROVE SearchInv'
<1>1. /\ Search!UpdateGoes("notify", "setES") /\ event' = Search!Subscribed
      /\ UNCHANGED <<saved, atom, search, snapshot, resolver, updates, refused, wired, workers,
                     indexer, deleter, index, job, request, jobs, odd>>
  BY DEF Search!Notify, Search!startVars, Search!jobVars
<1>2. /\ update.pc = "notify" /\ update'.pc = "setES" /\ update'.to = update.to
      /\ DOMAIN update' = {"pc", "to"}
  BY <1>1, Goes DEF SearchInv
<1>3. event' \subseteq {"indexer", "deleter"} BY <1>1 DEF Search!Subscribed
<1>4. Search!TypeOK' BY <1>1, <1>2, <1>3 DEF SearchInv, Search!TypeOK
<1>5. Fields' BY <1>1, <1>2 DEF SearchInv, Fields
<1>6. UpdateInStep' BY <1>1, <1>2 DEF SearchInv, UpdateInStep
<1>7. indexer.pc \in {"loop", "event", "embedding", "reindex"} => ~Search!Settled("indexer")'
  BY <1>1 DEF Search!Subscribed, Search!Settled
<1>8. deleter.pc # "wired" => ~Search!Settled("deleter")'
  BY <1>1 DEF Search!Subscribed, Search!Settled
<1>9. IndexerCurrent' BY <1>1, <1>7 DEF IndexerCurrent
<1>10. Search!DeleterFollows' /\ (Search!Settled("deleter")' => deleter'.pc = "wired")
  BY <1>1, <1>8 DEF Search!DeleterFollows
<1>11. RequestInv' BY <1>1, <1>2 DEF SearchInv, RequestInv
<1> QED BY <1>1, <1>4, <1>5, <1>6, <1>9, <1>10, <1>11, OthersKept DEF SearchInv, DeleterInv

LEMMA SetESInv == ASSUME SearchInv, Search!SetES PROVE SearchInv'
<1>1. /\ Search!UpdateGoes("setES", "setEM")
      /\ resolver' = [resolver EXCEPT !.client = Search!ClientOf(update.to)]
      /\ UNCHANGED <<saved, atom, search, snapshot, event, updates, refused, wired, workers,
                     indexer, deleter, index, job, request, jobs, odd>>
  BY DEF Search!SetES, Search!startVars, Search!jobVars
<1>2. /\ update.pc = "setES" /\ update'.pc = "setEM" /\ update'.to = update.to
      /\ DOMAIN update' = {"pc", "to"}
  BY <1>1, Goes DEF SearchInv
<1>3. /\ resolver'.client = Search!ClientOf(update.to) /\ resolver'.embedder = resolver.embedder
      /\ DOMAIN resolver' = {"client", "embedder"}
  BY <1>1 DEF SearchInv, Fields
<1>4. Search!TypeOK' BY <1>1, <1>2, <1>3, OfSettings DEF SearchInv, Search!TypeOK
<1>5. Fields' BY <1>1, <1>2, <1>3 DEF SearchInv, Fields
<1>6. UpdateInStep' BY <1>1, <1>2, <1>3 DEF SearchInv, UpdateInStep
<1>7. Search!Settled("indexer")' => Search!Settled("indexer") BY <1>1, <1>2 DEF Search!Settled
<1>8. Search!Settled("deleter")' => Search!Settled("deleter") BY <1>1, <1>2 DEF Search!Settled
<1> QED BY <1>1, <1>2, <1>4, <1>5, <1>6, <1>7, <1>8, UpdateStepInv

LEMMA SetEMInv == ASSUME SearchInv, Search!SetEM PROVE SearchInv'
<1>1. /\ Search!UpdateGoes("setEM", "postgres")
      /\ resolver' = [resolver EXCEPT !.embedder = Search!EmbedderOf(update.to)]
      /\ UNCHANGED <<saved, atom, search, snapshot, event, updates, refused, wired, workers,
                     indexer, deleter, index, job, request, jobs, odd>>
  BY DEF Search!SetEM, Search!startVars, Search!jobVars
<1>2. /\ update.pc = "setEM" /\ update'.pc = "postgres" /\ update'.to = update.to
      /\ DOMAIN update' = {"pc", "to"}
  BY <1>1, Goes DEF SearchInv
<1>3. /\ resolver'.embedder = Search!EmbedderOf(update.to) /\ resolver'.client = resolver.client
      /\ DOMAIN resolver' = {"client", "embedder"}
  BY <1>1 DEF SearchInv, Fields
<1>4. Search!TypeOK' BY <1>1, <1>2, <1>3, OfSettings DEF SearchInv, Search!TypeOK
<1>5. Fields' BY <1>1, <1>2, <1>3 DEF SearchInv, Fields
<1>6. UpdateInStep' BY <1>1, <1>2, <1>3 DEF SearchInv, UpdateInStep, Search!EmbedderOf
<1>7. Search!Settled("indexer")' => Search!Settled("indexer") BY <1>1, <1>2 DEF Search!Settled
<1>8. Search!Settled("deleter")' => Search!Settled("deleter") BY <1>1, <1>2 DEF Search!Settled
<1> QED BY <1>1, <1>2, <1>4, <1>5, <1>6, <1>7, <1>8, UpdateStepInv

LEMMA PublishInv == ASSUME SearchInv, Search!Publish PROVE SearchInv'
<1>1. /\ Search!UpdateGoes("postgres", "idle") /\ snapshot' \in {snapshot, update.to}
      /\ UNCHANGED <<saved, atom, search, resolver, event, updates, wired, workers,
                     indexer, deleter, index, job, request, jobs, odd>>
  BY DEF Search!Publish, Search!startVars, Search!jobVars
<1>2. /\ update.pc = "postgres" /\ update'.pc = "idle" /\ update'.to = update.to
      /\ DOMAIN update' = {"pc", "to"}
  BY <1>1, Goes DEF SearchInv
<1>3. Search!TypeOK' BY <1>1, <1>2 DEF SearchInv, Search!TypeOK
<1>4. Fields' BY <1>1, <1>2 DEF SearchInv, Fields
<1>5. UpdateInStep' BY <1>1, <1>2 DEF SearchInv, UpdateInStep
<1>6. Search!Settled("indexer")' => Search!Settled("indexer") BY <1>1, <1>2 DEF Search!Settled
<1>7. Search!Settled("deleter")' => Search!Settled("deleter") BY <1>1, <1>2 DEF Search!Settled
<1> QED BY <1>1, <1>2, <1>3, <1>4, <1>5, <1>6, <1>7, UpdateStepInv

----------------------------------------------------------------------------
(* The indexer *)

LEMMA ClientsAndEmbedders ==
    /\ NoClient \in Search!Clients /\ Search!None \in Search!Embedders
    /\ Search!Clusters \subseteq Search!Clients /\ Search!Dimensions \subseteq Search!Embedders
BY DEF Search!Clients, Search!Embedders

\* A step of the indexer alone: what there is to show of it.
LEMMA IndexerStepInv ==
    ASSUME SearchInv, Search!TypeOK', DOMAIN indexer' = DOMAIN indexer,
           UNCHANGED <<update, atom, search, snapshot, resolver, updates, wired, deleter, request>>,
           \E t \in {event, event \ {"indexer"}} : event' = t,
           "deleterMissed" \notin odd' => "deleterMissed" \notin odd,
           IndexerRemembers', IndexerReads', IndexerCurrent', JobInv', DOMAIN job' = DOMAIN job
    PROVE  SearchInv'
<1>1. Fields' BY DEF SearchInv, Fields
<1>2. UpdateInStep' BY DEF SearchInv, UpdateInStep
<1>3. Search!Settled("deleter")' => Search!Settled("deleter") BY DEF Search!Settled
<1>4. Search!DeleterFollows' BY <1>3 DEF SearchInv, DeleterInv, Search!DeleterFollows
<1>5. DeleterInv' BY <1>3, <1>4 DEF SearchInv, DeleterInv
<1>6. RequestInv' BY DEF SearchInv, RequestInv
<1> QED BY <1>1, <1>2, <1>5, <1>6 DEF SearchInv

\* An index is made only where there is none.
LEMMA EnsureKeeps ==
    ASSUME SearchInv, UNCHANGED job, NEW client, NEW dims \in Search!Dimensions,
           Search!EnsureIndex(client, dims)
    PROVE  JobInv' /\ index' \in [Search!Clusters -> Search!Embedders]
<1>1. index \in [Search!Clusters -> Search!Embedders] BY DEF SearchInv, Search!TypeOK
<1>2. dims \in Search!Embedders BY ClientsAndEmbedders
<1>3. index' \in [Search!Clusters -> Search!Embedders] BY <1>1, <1>2 DEF Search!EnsureIndex
<1>4. \A c \in Search!Clusters : index[c] # Search!None => index'[c] = index[c]
  BY <1>1 DEF Search!EnsureIndex
<1>5. \A d \in Search!Dimensions : d # Search!None BY OfSettings DEF Search!Dimensions
<1>6. JobInv' BY <1>4, <1>5 DEF SearchInv, JobInv
<1> QED BY <1>3, <1>6

LEMMA MarkedIn ==
    ASSUME NEW which \in {"missed", "wrongClient", "wrongEmbedder", "deleterMissed"}, NEW condition
    PROVE  /\ which \notin Search!Marked(which, condition) => ~condition
           /\ \A o : o # which => (o \in Search!Marked(which, condition) <=> o \in odd)
           /\ odd \subseteq {"missed", "wrongClient", "wrongEmbedder", "deleterMissed"} =>
                Search!Marked(which, condition) \subseteq {"missed", "wrongClient", "wrongEmbedder", "deleterMissed"}
BY DEF Search!Marked

LEMMA PrepareInv == ASSUME SearchInv, Search!Prepare PROVE SearchInv'
<1>1. /\ indexer.pc = "wired"
      /\ UNCHANGED <<update, saved, atom, search, snapshot, resolver, event, updates, refused, wired,
                     workers, deleter, job, request, jobs>>
  BY DEF Search!Prepare, Search!updateVars, Search!startVars, Search!jobVars
<1>2. /\ indexer.client = NoClient /\ indexer.lastAddr = NoClient
      /\ indexer.embedder = Search!None /\ indexer.lastDims = Search!None
  BY <1>1 DEF SearchInv, IndexerRemembers
<1>3. atom \in Settings /\ wired \in Settings BY DEF SearchInv, Search!TypeOK
<1>4. CASE atom.backend # "elasticsearch"
  <2>1. indexer' = [indexer EXCEPT !.pc = "embedder", !.read = atom] /\ UNCHANGED <<index, odd>>
    BY <1>4 DEF Search!Prepare
  <2>2. /\ indexer'.pc = "embedder" /\ indexer'.read = atom /\ DOMAIN indexer' = DOMAIN indexer
        /\ indexer'.client = NoClient /\ indexer'.lastAddr = NoClient
        /\ indexer'.embedder = Search!None /\ indexer'.lastDims = Search!None
    BY <1>2, <2>1 DEF SearchInv, Fields
  <2>3. Search!TypeOK' BY <1>1, <1>3, <2>1, <2>2, ClientsAndEmbedders DEF SearchInv, Search!TypeOK
  <2>4. IndexerRemembers' BY <2>2 DEF IndexerRemembers
  <2>5. IndexerReads' BY <1>4, <2>2 DEF IndexerReads, Search!ClientOf, Search!EmbedderOf
  <2>6. IndexerCurrent' BY <2>2 DEF IndexerCurrent
  <2>7. JobInv' BY <1>1, <2>1 DEF SearchInv, JobInv
  <2> QED BY <1>1, <2>1, <2>2, <2>3, <2>4, <2>5, <2>6, <2>7, IndexerStepInv
<1>5. CASE atom.backend = "elasticsearch" /\ Search!ClientOf(wired) = NoClient
  <2>1. indexer' = [indexer EXCEPT !.pc = "panicked", !.read = atom] /\ UNCHANGED <<index, odd>>
    BY <1>5 DEF Search!Prepare
  <2>2. /\ indexer'.pc = "panicked" /\ indexer'.read = atom /\ DOMAIN indexer' = DOMAIN indexer
        /\ indexer'.client = NoClient /\ indexer'.lastAddr = NoClient
        /\ indexer'.embedder = Search!None /\ indexer'.lastDims = Search!None
    BY <1>2, <2>1 DEF SearchInv, Fields
  <2>3. Search!TypeOK' BY <1>1, <1>3, <2>1, <2>2, ClientsAndEmbedders DEF SearchInv, Search!TypeOK
  <2>4. IndexerRemembers' /\ IndexerReads' /\ IndexerCurrent'
    BY <2>2 DEF IndexerRemembers, IndexerReads, IndexerCurrent
  <2>5. JobInv' BY <1>1, <2>1 DEF SearchInv, JobInv
  <2> QED BY <1>1, <2>1, <2>2, <2>3, <2>4, <2>5, IndexerStepInv
<1>6. CASE atom.backend = "elasticsearch" /\ Search!ClientOf(wired) # NoClient
  <2>1. /\ indexer' = [indexer EXCEPT !.pc = "embedder", !.read = atom, !.client = Search!ClientOf(wired),
                                      !.lastAddr = atom.cluster, !.lastDims = atom.dims]
        /\ Search!EnsureIndex(Search!ClientOf(wired), atom.dims)
        /\ odd' = Search!Marked("wrongClient", Search!ClientOf(wired) # atom.cluster)
    BY <1>6 DEF Search!Prepare
  <2>2. /\ indexer'.pc = "embedder" /\ indexer'.read = atom /\ DOMAIN indexer' = DOMAIN indexer
        /\ indexer'.client = Search!ClientOf(wired) /\ indexer'.lastAddr = atom.cluster
        /\ indexer'.embedder = Search!None /\ indexer'.lastDims = atom.dims
    BY <1>2, <2>1 DEF SearchInv, Fields
  <2>3. /\ "wrongClient" \notin odd' => Search!ClientOf(wired) = atom.cluster
        /\ "deleterMissed" \notin odd' => "deleterMissed" \notin odd
        /\ odd' \subseteq {"missed", "wrongClient", "wrongEmbedder", "deleterMissed"}
    BY <2>1 DEF Search!Marked, SearchInv, Search!TypeOK
  <2>4. atom.dims \in Search!Dimensions /\ atom.cluster \in Search!Clusters
        /\ Search!ClientOf(wired) \in Search!Clients
    BY <1>3, OfSettings
  <2>5. JobInv' /\ index' \in [Search!Clusters -> Search!Embedders]
    BY <1>1, <2>1, <2>4, EnsureKeeps
  <2>6. Search!TypeOK'
    BY <1>1, <1>3, <2>2, <2>3, <2>4, <2>5, ClientsAndEmbedders DEF SearchInv, Search!TypeOK
  <2>7. IndexerRemembers' BY <2>2, <2>3 DEF IndexerRemembers
  <2>8. IndexerReads' BY <1>6, <2>2 DEF IndexerReads, Search!ClientOf, Search!EmbedderOf
  <2>9. IndexerCurrent' BY <2>2 DEF IndexerCurrent
  <2> QED BY <1>1, <2>2, <2>3, <2>5, <2>6, <2>7, <2>8, <2>9, IndexerStepInv
<1> QED BY <1>4, <1>5, <1>6

LEMMA StoreEmbedderInv == ASSUME SearchInv, Search!StoreEmbedder PROVE SearchInv'
<1>1. /\ indexer.pc = "embedder"
      /\ indexer' = [indexer EXCEPT !.pc = "subscribe", !.embedder = Search!EmbedderOf(atom)]
      /\ odd' = Search!Marked("wrongEmbedder", Search!EmbedderOf(atom) # indexer.lastDims)
      /\ UNCHANGED <<update, saved, atom, search, snapshot, resolver, event, updates, refused, wired,
                     workers, deleter, index, job, request, jobs>>
  BY DEF Search!StoreEmbedder, Search!updateVars, Search!startVars, Search!jobVars
<1>2. /\ indexer'.pc = "subscribe" /\ indexer'.read = indexer.read /\ DOMAIN indexer' = DOMAIN indexer
      /\ indexer'.client = indexer.client /\ indexer'.lastAddr = indexer.lastAddr
      /\ indexer'.embedder = Search!EmbedderOf(atom) /\ indexer'.lastDims = indexer.lastDims
  BY <1>1 DEF SearchInv, Fields
<1>3. /\ "wrongEmbedder" \notin odd' => Search!EmbedderOf(atom) = indexer.lastDims
      /\ "wrongClient" \notin odd' => "wrongClient" \notin odd
      /\ "deleterMissed" \notin odd' => "deleterMissed" \notin odd
      /\ odd' \subseteq {"missed", "wrongClient", "wrongEmbedder", "deleterMissed"}
  BY <1>1 DEF Search!Marked, SearchInv, Search!TypeOK
<1>4. Search!TypeOK' BY <1>1, <1>2, <1>3, OfSettings DEF SearchInv, Search!TypeOK
<1>5. IndexerRemembers' BY <1>2, <1>3 DEF SearchInv, IndexerRemembers
<1>6. IndexerReads' BY <1>1, <1>2 DEF SearchInv, IndexerReads
<1>7. IndexerCurrent' BY <1>2 DEF IndexerCurrent
<1>8. JobInv' BY <1>1 DEF SearchInv, JobInv
<1> QED BY <1>1, <1>2, <1>3, <1>4, <1>5, <1>6, <1>7, <1>8, IndexerStepInv

\* What it read when it started is still in force, or it has missed an update.
LEMMA SubscribeInv == ASSUME SearchInv, Search!Subscribe PROVE SearchInv'
<1>1. /\ indexer.pc = "subscribe"
      /\ indexer' = [indexer EXCEPT !.pc = "loop", !.read = wired]
      /\ odd' = Search!Marked("missed", indexer.read # atom)
      /\ UNCHANGED <<update, saved, atom, search, snapshot, resolver, event, updates, refused, wired,
                     workers, deleter, index, job, request, jobs>>
  BY DEF Search!Subscribe, Search!updateVars, Search!startVars, Search!jobVars
<1>2. /\ indexer'.pc = "loop" /\ indexer'.read = wired /\ DOMAIN indexer' = DOMAIN indexer
      /\ indexer'.client = indexer.client /\ indexer'.lastAddr = indexer.lastAddr
      /\ indexer'.embedder = indexer.embedder /\ indexer'.lastDims = indexer.lastDims
  BY <1>1 DEF SearchInv, Fields
<1>3. /\ "missed" \notin odd' => indexer.read = atom
      /\ "wrongEmbedder" \notin odd' => "wrongEmbedder" \notin odd
      /\ "wrongClient" \notin odd' => "wrongClient" \notin odd
      /\ "deleterMissed" \notin odd' => "deleterMissed" \notin odd
      /\ odd' \subseteq {"missed", "wrongClient", "wrongEmbedder", "deleterMissed"}
  BY <1>1 DEF Search!Marked, SearchInv, Search!TypeOK
<1>4. Search!TypeOK' BY <1>1, <1>2, <1>3 DEF SearchInv, Search!TypeOK
<1>5. IndexerRemembers' BY <1>1, <1>2, <1>3 DEF SearchInv, IndexerRemembers
<1>6. IndexerReads' BY <1>2 DEF IndexerReads
<1>7. IndexerCurrent' BY <1>1, <1>2, <1>3 DEF SearchInv, IndexerCurrent, IndexerReads
<1>8. JobInv' BY <1>1 DEF SearchInv, JobInv
<1> QED BY <1>1, <1>2, <1>3, <1>4, <1>5, <1>6, <1>7, <1>8, IndexerStepInv

LEMMA IndexerEventInv == ASSUME SearchInv, Search!IndexerEvent PROVE SearchInv'
<1>1. /\ indexer.pc = "loop" /\ event' = event \ {"indexer"}
      /\ indexer' = [indexer EXCEPT !.pc = "event", !.read = atom]
      /\ UNCHANGED <<update, saved, atom, search, snapshot, resolver, updates, refused, wired,
                     workers, deleter, index, job, request, jobs, odd>>
  BY DEF Search!IndexerEvent, Search!startVars, Search!jobVars
<1>2. /\ indexer'.pc = "event" /\ indexer'.read = atom /\ DOMAIN indexer' = DOMAIN indexer
      /\ indexer'.client = indexer.client /\ indexer'.lastAddr = indexer.lastAddr
      /\ indexer'.embedder = indexer.embedder /\ indexer'.lastDims = indexer.lastDims
  BY <1>1 DEF SearchInv, Fields
<1>3. Search!TypeOK' BY <1>1, <1>2 DEF SearchInv, Search!TypeOK
<1>4. IndexerRemembers' BY <1>1, <1>2 DEF SearchInv, IndexerRemembers
<1>5. IndexerReads' /\ IndexerCurrent' BY <1>1, <1>2 DEF IndexerReads, IndexerCurrent
<1>6. JobInv' BY <1>1 DEF SearchInv, JobInv
<1> QED BY <1>1, <1>2, <1>3, <1>4, <1>5, <1>6, IndexerStepInv

LEMMA SwitchOffInv == ASSUME SearchInv, Search!SwitchOff PROVE SearchInv'
<1>1. /\ indexer.pc = "event" /\ indexer.read.backend # "elasticsearch"
      /\ indexer' = [indexer EXCEPT !.pc = "loop", !.read = wired, !.client = NoClient,
                                    !.embedder = Search!None, !.lastAddr = NoClient,
                                    !.lastDims = Search!None]
      /\ odd' = odd \cap {"deleterMissed"}
      /\ UNCHANGED <<update, saved, atom, search, snapshot, resolver, event, updates, refused, wired,
                     workers, deleter, index, job, request, jobs>>
  BY DEF Search!SwitchOff, Search!Emptied, Search!updateVars, Search!startVars, Search!jobVars
<1>2. /\ indexer'.pc = "loop" /\ indexer'.read = wired /\ DOMAIN indexer' = DOMAIN indexer
      /\ indexer'.client = NoClient /\ indexer'.lastAddr = NoClient
      /\ indexer'.embedder = Search!None /\ indexer'.lastDims = Search!None
  BY <1>1 DEF SearchInv, Fields
<1>3. Search!TypeOK' BY <1>1, <1>2, ClientsAndEmbedders DEF SearchInv, Search!TypeOK
<1>4. IndexerRemembers' BY <1>2 DEF IndexerRemembers
<1>5. IndexerReads' BY <1>2 DEF IndexerReads
<1>6. Search!Settled("indexer")' => indexer.read = atom
  BY <1>1 DEF SearchInv, IndexerCurrent, Search!Settled
<1>7. IndexerCurrent' BY <1>1, <1>2, <1>6 DEF IndexerCurrent, Search!ClientOf, Search!EmbedderOf
<1>8. JobInv' BY <1>1 DEF SearchInv, JobInv
<1> QED BY <1>1, <1>2, <1>3, <1>4, <1>5, <1>7, <1>8, IndexerStepInv

LEMMA RenewClientInv == ASSUME SearchInv, Search!RenewClient PROVE SearchInv'
<1> DEFINE cluster == indexer.read.cluster
<1>1. /\ indexer.pc = "event" /\ indexer.read.backend = "elasticsearch"
      /\ UNCHANGED <<update, saved, atom, search, snapshot, resolver, event, updates, refused, wired,
                     workers, deleter, job, request, jobs>>
  BY DEF Search!RenewClient, Search!updateVars, Search!startVars, Search!jobVars
<1>2. /\ indexer.read \in Settings /\ cluster \in Search!Clusters /\ cluster # NoClient
      /\ indexer.read.dims \in Search!Dimensions
  BY OfSettings DEF SearchInv, Search!TypeOK
<1>3. Search!Settled("indexer")' => indexer.read = atom
  BY <1>1 DEF SearchInv, IndexerCurrent, Search!Settled
<1>4. CASE Search!ClientFits(cluster)
  <2>1. indexer' = [indexer EXCEPT !.pc = "embedding"] /\ UNCHANGED <<index, odd>>
    BY <1>4 DEF Search!RenewClient
  <2>2. /\ indexer'.pc = "embedding" /\ indexer'.read = indexer.read /\ DOMAIN indexer' = DOMAIN indexer
        /\ indexer'.client = indexer.client /\ indexer'.lastAddr = indexer.lastAddr
        /\ indexer'.embedder = indexer.embedder /\ indexer'.lastDims = indexer.lastDims
    BY <2>1 DEF SearchInv, Fields
  <2>3. indexer.client \in Search!Clusters /\ indexer.lastAddr = cluster
    BY <1>4 DEF SearchInv, Search!TypeOK, Search!Clients, Search!ClientFits
  <2>4. Search!TypeOK' BY <1>1, <2>1, <2>2 DEF SearchInv, Search!TypeOK
  <2>5. IndexerRemembers' BY <1>1, <2>1, <2>2 DEF SearchInv, IndexerRemembers
  <2>6. IndexerReads' BY <1>1, <2>2, <2>3 DEF IndexerReads
  <2>7. IndexerCurrent' BY <1>1, <1>3, <2>2 DEF IndexerCurrent
  <2>8. JobInv' BY <1>1, <2>1 DEF SearchInv, JobInv
  <2> QED BY <1>1, <2>1, <2>2, <2>4, <2>5, <2>6, <2>7, <2>8, IndexerStepInv
<1>5. CASE ~Search!ClientFits(cluster)
  <2>1. /\ indexer' = [indexer EXCEPT !.pc = "embedding", !.client = cluster, !.lastAddr = cluster]
        /\ Search!EnsureIndex(cluster, indexer.read.dims)
        /\ odd' = odd \ {"wrongClient"}
    BY <1>5 DEF Search!RenewClient
  <2>2. /\ indexer'.pc = "embedding" /\ indexer'.read = indexer.read /\ DOMAIN indexer' = DOMAIN indexer
        /\ indexer'.client = cluster /\ indexer'.lastAddr = cluster
        /\ indexer'.embedder = indexer.embedder /\ indexer'.lastDims = indexer.lastDims
    BY <2>1 DEF SearchInv, Fields
  <2>3. JobInv' /\ index' \in [Search!Clusters -> Search!Embedders]
    BY <1>1, <1>2, <2>1, EnsureKeeps
  <2>4. Search!TypeOK' BY <1>1, <1>2, <2>1, <2>2, <2>3, ClientsAndEmbedders DEF SearchInv, Search!TypeOK
  <2>5. IndexerRemembers' BY <1>1, <2>1, <2>2 DEF SearchInv, IndexerRemembers
  <2>6. IndexerReads' BY <1>1, <1>2, <2>2 DEF IndexerReads
  <2>7. IndexerCurrent' BY <1>1, <1>3, <2>2 DEF IndexerCurrent
  <2> QED BY <1>1, <2>1, <2>2, <2>3, <2>4, <2>5, <2>6, <2>7, IndexerStepInv
<1> QED BY <1>4, <1>5

LEMMA KeepEmbedderInv == ASSUME SearchInv, Search!KeepEmbedder PROVE SearchInv'
<1>1. /\ indexer.pc = "embedding" /\ indexer.read.dims = indexer.lastDims
      /\ indexer' = [indexer EXCEPT !.pc = "loop", !.read = wired] /\ odd' = odd \ {"missed"}
      /\ UNCHANGED <<update, saved, atom, search, snapshot, resolver, event, updates, refused, wired,
                     workers, deleter, index, job, request, jobs>>
  BY DEF Search!KeepEmbedder, Search!updateVars, Search!startVars, Search!jobVars
<1>2. /\ indexer'.pc = "loop" /\ indexer'.read = wired /\ DOMAIN indexer' = DOMAIN indexer
      /\ indexer'.client = indexer.client /\ indexer'.lastAddr = indexer.lastAddr
      /\ indexer'.embedder = indexer.embedder /\ indexer'.lastDims = indexer.lastDims
  BY <1>1 DEF SearchInv, Fields
<1>3. /\ indexer.lastAddr = Search!ClientOf(indexer.read)
      /\ indexer.lastDims = Search!EmbedderOf(indexer.read)
  BY <1>1 DEF SearchInv, IndexerReads, Search!ClientOf, Search!EmbedderOf
<1>4. Search!TypeOK' BY <1>1, <1>2 DEF SearchInv, Search!TypeOK
<1>5. IndexerRemembers' BY <1>1, <1>2 DEF SearchInv, IndexerRemembers
<1>6. IndexerReads' BY <1>2 DEF IndexerReads
<1>7. Search!Settled("indexer")' => indexer.read = atom
  BY <1>1 DEF SearchInv, IndexerCurrent, Search!Settled
<1>8. IndexerCurrent' BY <1>1, <1>2, <1>3, <1>7 DEF IndexerCurrent
<1>9. JobInv' BY <1>1 DEF SearchInv, JobInv
<1> QED BY <1>1, <1>2, <1>4, <1>5, <1>6, <1>8, <1>9, IndexerStepInv

LEMMA RenewEmbedderInv == ASSUME SearchInv, Search!RenewEmbedder PROVE SearchInv'
<1> DEFINE dims == indexer.read.dims
           embedder == Search!EmbedderOf(atom)
<1>1. /\ indexer.pc = "embedding" /\ odd' = Search!Marked("wrongEmbedder", embedder # dims) \ {"missed"}
      /\ UNCHANGED <<update, saved, atom, search, snapshot, resolver, event, updates, refused, wired,
                     workers, deleter, index, job, request, jobs>>
  BY DEF Search!RenewEmbedder, Search!updateVars, Search!startVars, Search!jobVars
<1>2. \/ indexer' = [[indexer EXCEPT !.lastDims = dims, !.embedder = embedder] EXCEPT !.pc = "reindex"]
      \/ indexer' = [[indexer EXCEPT !.lastDims = dims, !.embedder = embedder]
                       EXCEPT !.pc = "loop", !.read = wired]
  BY DEF Search!RenewEmbedder
<1>3. /\ \/ indexer'.pc = "reindex" /\ indexer'.read = indexer.read
         \/ indexer'.pc = "loop" /\ indexer'.read = wired
      /\ DOMAIN indexer' = DOMAIN indexer
      /\ indexer'.client = indexer.client /\ indexer'.lastAddr = indexer.lastAddr
      /\ indexer'.embedder = embedder /\ indexer'.lastDims = dims
  BY <1>2 DEF SearchInv, Fields
<1>4. /\ "wrongEmbedder" \notin odd' => embedder = dims
      /\ "wrongClient" \notin odd' => "wrongClient" \notin odd
      /\ "deleterMissed" \notin odd' => "deleterMissed" \notin odd
      /\ odd' \subseteq {"missed", "wrongClient", "wrongEmbedder", "deleterMissed"}
  BY <1>1 DEF Search!Marked, SearchInv, Search!TypeOK
<1>5. /\ indexer.read \in Settings /\ dims \in Search!Embedders /\ embedder \in Search!Embedders
  BY OfSettings, ClientsAndEmbedders DEF SearchInv, Search!TypeOK
<1>6. /\ indexer.lastAddr = Search!ClientOf(indexer.read) /\ dims = Search!EmbedderOf(indexer.read)
  BY <1>1 DEF SearchInv, IndexerReads, Search!ClientOf, Search!EmbedderOf
<1> HIDE DEF dims, embedder
<1>7. Search!TypeOK' BY <1>1, <1>3, <1>4, <1>5 DEF SearchInv, Search!TypeOK
<1>8. IndexerRemembers' BY <1>3, <1>4 DEF SearchInv, IndexerRemembers
<1>9. IndexerReads' BY <1>1, <1>3 DEF SearchInv, IndexerReads, dims
<1>10. Search!Settled("indexer")' => indexer.read = atom
  BY <1>1 DEF SearchInv, IndexerCurrent, Search!Settled
<1>11. IndexerCurrent' BY <1>1, <1>3, <1>6, <1>10 DEF IndexerCurrent
<1>12. JobInv' BY <1>1 DEF SearchInv, JobInv
<1> QED BY <1>1, <1>3, <1>4, <1>7, <1>8, <1>9, <1>11, <1>12, IndexerStepInv

\* The embedder is of the dimensions that the event read, or odd says that it is not.
LEMMA AutoReindexInv == ASSUME SearchInv, Search!AutoReindex PROVE SearchInv'
<1> DEFINE started == [kind |-> "fresh", client |-> indexer.client, embedder |-> indexer.embedder,
                       dims |-> indexer.read.dims, torn |-> "wrongEmbedder" \in odd]
<1>1. /\ indexer.pc = "reindex" /\ indexer' = [indexer EXCEPT !.pc = "loop", !.read = wired]
      /\ job' = started \/ job' = job
      /\ UNCHANGED <<update, saved, atom, search, snapshot, resolver, event, updates, refused, wired,
                     workers, deleter, index, request, jobs, odd>>
  BY DEF Search!AutoReindex, Search!updateVars, Search!startVars
<1>2. /\ indexer'.pc = "loop" /\ indexer'.read = wired /\ DOMAIN indexer' = DOMAIN indexer
      /\ indexer'.client = indexer.client /\ indexer'.lastAddr = indexer.lastAddr
      /\ indexer'.embedder = indexer.embedder /\ indexer'.lastDims = indexer.lastDims
  BY <1>1 DEF SearchInv, Fields
<1>3. /\ indexer.lastAddr = Search!ClientOf(indexer.read)
      /\ indexer.lastDims = Search!EmbedderOf(indexer.read) /\ indexer.lastDims = indexer.read.dims
      /\ indexer.client \in Search!Clusters
  BY <1>1 DEF SearchInv, IndexerReads, Search!ClientOf, Search!EmbedderOf
<1>4. DOMAIN job' = DOMAIN job BY <1>1 DEF SearchInv, Fields
<1>5. job'.kind \in {"none", "fresh", "resumed", "indexing", "reclassify"}
  BY <1>1 DEF SearchInv, Search!TypeOK
<1>6. Search!TypeOK' BY <1>1, <1>2, <1>5 DEF SearchInv, Search!TypeOK
<1>7. IndexerRemembers' BY <1>1, <1>2 DEF SearchInv, IndexerRemembers
<1>8. IndexerReads' BY <1>2 DEF IndexerReads
<1>9. Search!Settled("indexer")' => indexer.read = atom
  BY <1>1 DEF SearchInv, IndexerCurrent, Search!Settled
<1>10. IndexerCurrent' BY <1>1, <1>2, <1>3, <1>9 DEF IndexerCurrent
<1>11. JobInv'
  <2>1. CASE job' = job BY <1>1, <2>1 DEF SearchInv, JobInv
  <2>2. CASE job' = started
    <3>1. indexer.read.dims \in Search!Dimensions BY OfSettings DEF SearchInv, Search!TypeOK
    <3>2. "wrongEmbedder" \notin odd => indexer.embedder = indexer.read.dims
      BY <1>1, <1>3 DEF SearchInv, IndexerRemembers
    <3> QED BY <1>3, <2>2, <3>1, <3>2 DEF JobInv
  <2> QED BY <1>1, <2>1, <2>2
<1> QED BY <1>1, <1>2, <1>4, <1>6, <1>7, <1>8, <1>10, <1>11, IndexerStepInv

----------------------------------------------------------------------------
(* The deleter *)

\* A step of the deleter alone: what there is to show of it.
LEMMA DeleterStepInv ==
    ASSUME SearchInv, Search!TypeOK', DOMAIN deleter' = DOMAIN deleter,
           UNCHANGED <<update, atom, resolver, updates, indexer, index, job, request>>,
           \E t \in {event, event \ {"deleter"}} : event' = t,
           \A o : o # "deleterMissed" => (o \in odd' <=> o \in odd),
           DeleterInv'
    PROVE  SearchInv'
<1>1. Fields' BY DEF SearchInv, Fields
<1>2. UpdateInStep' BY DEF SearchInv, UpdateInStep
<1>3. IndexerRemembers' /\ IndexerReads' BY DEF SearchInv, IndexerRemembers, IndexerReads
<1>4. Search!Settled("indexer")' => Search!Settled("indexer") BY DEF Search!Settled
<1>5. IndexerCurrent' BY <1>4 DEF SearchInv, IndexerCurrent
<1>6. RequestInv' /\ JobInv' BY DEF SearchInv, RequestInv, JobInv
<1> QED BY <1>1, <1>2, <1>3, <1>5, <1>6 DEF SearchInv

LEMMA DeleterSubscribesInv == ASSUME SearchInv, Search!DeleterSubscribes PROVE SearchInv'
<1>1. /\ deleter.pc = "wired" /\ deleter' = [deleter EXCEPT !.pc = "loop"]
      /\ odd' = Search!Marked("deleterMissed", Search!ClientOf(wired) # Search!ClientOf(atom))
      /\ UNCHANGED <<update, saved, atom, search, snapshot, resolver, event, updates, refused, wired,
                     workers, indexer, index, job, request, jobs>>
  BY DEF Search!DeleterSubscribes, Search!updateVars, Search!startVars, Search!jobVars
<1>2. /\ deleter'.pc = "loop" /\ deleter'.read = deleter.read /\ DOMAIN deleter' = DOMAIN deleter
      /\ deleter'.client = deleter.client /\ deleter'.lastAddr = deleter.lastAddr
  BY <1>1 DEF SearchInv, Fields
<1>3. /\ "deleterMissed" \notin odd' => Search!ClientOf(wired) = Search!ClientOf(atom)
      /\ \A o : o # "deleterMissed" => (o \in odd' <=> o \in odd)
      /\ odd' \subseteq {"missed", "wrongClient", "wrongEmbedder", "deleterMissed"}
  BY <1>1 DEF Search!Marked, SearchInv, Search!TypeOK
<1>4. Search!TypeOK' BY <1>1, <1>2, <1>3 DEF SearchInv, Search!TypeOK
<1>5. DeleterInv' BY <1>1, <1>2, <1>3 DEF SearchInv, DeleterInv, Search!DeleterFollows
<1> QED BY <1>1, <1>2, <1>3, <1>4, <1>5, DeleterStepInv

LEMMA DeleterEventInv == ASSUME SearchInv, Search!DeleterEvent PROVE SearchInv'
<1>1. /\ deleter.pc = "loop" /\ deleter' = [deleter EXCEPT !.pc = "event", !.read = atom]
      /\ event' = event \ {"deleter"}
      /\ UNCHANGED <<update, saved, atom, search, snapshot, resolver, updates, refused, wired,
                     workers, indexer, index, job, request, jobs, odd>>
  BY DEF Search!DeleterEvent, Search!startVars, Search!jobVars
<1>2. /\ deleter'.pc = "event" /\ deleter'.read = atom /\ DOMAIN deleter' = DOMAIN deleter
      /\ deleter'.client = deleter.client /\ deleter'.lastAddr = deleter.lastAddr
  BY <1>1 DEF SearchInv, Fields
<1>3. Search!TypeOK' BY <1>1, <1>2 DEF SearchInv, Search!TypeOK
<1>4. DeleterInv' BY <1>1, <1>2 DEF SearchInv, DeleterInv, Search!DeleterFollows
<1> QED BY <1>1, <1>2, <1>3, <1>4, DeleterStepInv

LEMMA DeleterRenewsInv == ASSUME SearchInv, Search!DeleterRenews PROVE SearchInv'
<1> DEFINE client == Search!ClientOf(deleter.read)
           new == IF client = NoClient \/ client # deleter.lastAddr THEN client ELSE deleter.client
<1>1. /\ deleter.pc = "event" /\ odd' = odd \ {"deleterMissed"}
      /\ deleter' = [deleter EXCEPT !.pc = "loop", !.read = wired, !.lastAddr = client, !.client = new]
      /\ UNCHANGED <<update, saved, atom, search, snapshot, resolver, event, updates, refused, wired,
                     workers, indexer, index, job, request, jobs>>
  BY DEF Search!DeleterRenews, Search!updateVars, Search!startVars, Search!jobVars
<1>2. /\ deleter'.pc = "loop" /\ deleter'.read = wired /\ DOMAIN deleter' = DOMAIN deleter
      /\ deleter'.client = new /\ deleter'.lastAddr = client
  BY <1>1 DEF SearchInv, Fields
<1>3. new = client BY DEF SearchInv, DeleterInv
<1>4. client \in Search!Clients BY OfSettings DEF SearchInv, Search!TypeOK
<1>5. Search!TypeOK' BY <1>1, <1>2, <1>3, <1>4 DEF SearchInv, Search!TypeOK
<1>6. Search!Settled("deleter")' => deleter.read = atom
  BY <1>1 DEF SearchInv, DeleterInv, Search!Settled
<1>7. DeleterInv' BY <1>1, <1>2, <1>3, <1>6 DEF DeleterInv, Search!DeleterFollows
<1> QED BY <1>1, <1>2, <1>5, <1>7, DeleterStepInv

----------------------------------------------------------------------------
(* The slot of the jobs *)

LEMMA JobStepInv ==
    ASSUME SearchInv, Search!TypeOK', Fields', RequestInv', JobInv',
           UNCHANGED <<update, atom, resolver, event, updates, wired, indexer, deleter, odd>>
    PROVE  SearchInv'
<1>1. UpdateInStep' BY DEF SearchInv, UpdateInStep
<1>2. IndexerRemembers' /\ IndexerReads' BY DEF SearchInv, IndexerRemembers, IndexerReads
<1>3. Search!Settled("indexer")' = Search!Settled("indexer")
      /\ Search!Settled("deleter")' = Search!Settled("deleter") BY DEF Search!Settled
<1>4. IndexerCurrent' BY <1>3 DEF SearchInv, IndexerCurrent
<1>5. DeleterInv' BY <1>3 DEF SearchInv, DeleterInv, Search!DeleterFollows
<1> QED BY <1>1, <1>2, <1>4, <1>5 DEF SearchInv

LEMMA ReadClientsInv == ASSUME SearchInv, Search!ReadClients PROVE SearchInv'
<1> DEFINE since == IF update.pc = "idle" THEN updates + 1 ELSE 0
<1>1. /\ resolver.client # NoClient
      /\ request' = [client |-> resolver.client, embedder |-> resolver.embedder, since |-> since]
      /\ UNCHANGED <<update, saved, atom, search, snapshot, resolver, event, updates, refused, wired,
                     workers, indexer, deleter, index, job, odd>>
  BY DEF Search!ReadClients, Search!updateVars, Search!startVars
<1>2. /\ since \in Nat /\ since <= updates + 1
      /\ since = updates + 1 => update.pc = "idle"
  BY DEF SearchInv, UpdateInStep
<1>3. update.pc = "idle" => resolver.embedder = atom.dims
  BY <1>1 DEF SearchInv, UpdateInStep, Search!ClientOf
<1>4. resolver.client \in Search!Clusters /\ resolver.embedder \in Search!Embedders
  BY <1>1 DEF SearchInv, Search!TypeOK, Search!Clients
<1> HIDE DEF since
<1>5. Search!TypeOK' BY <1>1 DEF SearchInv, Search!TypeOK
<1>6. Fields' BY <1>1 DEF SearchInv, Fields
<1>7. RequestInv' BY <1>1, <1>2, <1>3, <1>4 DEF RequestInv
<1>8. JobInv' BY <1>1 DEF SearchInv, JobInv
<1> QED BY <1>1, <1>5, <1>6, <1>7, <1>8, JobStepInv

\* When nothing came between, the two reads are of the same setting.
LEMMA StartReindexInv == ASSUME SearchInv, Search!StartReindex PROVE SearchInv'
<1> DEFINE torn == request.since # updates + 1 \/ snapshot # atom
<1>1. PICK kind \in {"fresh", "resumed"} :
        job' = IF job.kind = "none"
               THEN [kind |-> kind, client |-> request.client, embedder |-> request.embedder,
                     dims |-> snapshot.dims, torn |-> torn]
               ELSE job
  BY DEF Search!StartReindex
<1>2. /\ request # Search!NoRequest /\ request' = Search!NoRequest
      /\ UNCHANGED <<update, saved, atom, search, snapshot, resolver, event, updates, refused, wired,
                     workers, indexer, deleter, index, jobs, odd>>
  BY DEF Search!StartReindex, Search!updateVars, Search!startVars
<1>3. Search!TypeOK' BY <1>1, <1>2 DEF SearchInv, Search!TypeOK
<1>4. Fields' BY <1>1, <1>2 DEF SearchInv, Fields, Search!NoRequest
<1>5. RequestInv' BY <1>2 DEF SearchInv, UpdateInStep, RequestInv, Search!NoRequest
<1>6. JobInv'
  <2>1. CASE job' = job BY <1>2, <2>1 DEF SearchInv, JobInv
  <2>2. CASE job' = [kind |-> kind, client |-> request.client, embedder |-> request.embedder,
                     dims |-> snapshot.dims, torn |-> torn]
    <3>1. request.client \in Search!Clusters BY <1>2 DEF SearchInv, RequestInv
    <3>2. snapshot.dims \in Search!Dimensions BY OfSettings DEF SearchInv, Search!TypeOK
    <3>3. ~torn => request.embedder = snapshot.dims BY <1>2 DEF SearchInv, RequestInv
    <3> QED BY <2>2, <3>1, <3>2, <3>3 DEF JobInv
  <2> QED BY <1>1, <2>1, <2>2
<1> QED BY <1>2, <1>3, <1>4, <1>5, <1>6, JobStepInv

LEMMA StartReclassifyInv == ASSUME SearchInv, Search!StartReclassify \/ Search!JobEnds PROVE SearchInv'
<1>1. /\ \/ job' = [Search!Free EXCEPT !.kind = "reclassify"]
         \/ job' = Search!Free
      /\ UNCHANGED <<update, saved, atom, search, snapshot, resolver, event, updates, refused, wired,
                     workers, indexer, deleter, index, request, odd>>
  BY DEF Search!StartReclassify, Search!JobEnds, Search!updateVars, Search!startVars
<1>2. job'.kind \in {"none", "reclassify"} /\ DOMAIN job' = {"kind", "client", "embedder", "dims", "torn"}
  BY <1>1 DEF Search!Free
<1>3. Search!TypeOK' BY <1>1, <1>2 DEF SearchInv, Search!TypeOK
<1>4. Fields' BY <1>1, <1>2 DEF SearchInv, Fields
<1>5. RequestInv' BY <1>1 DEF SearchInv, RequestInv
<1>6. JobInv' BY <1>2 DEF JobInv
<1> QED BY <1>1, <1>3, <1>4, <1>5, <1>6, JobStepInv

LEMMA RecreateIndexInv == ASSUME SearchInv, Search!RecreateIndex PROVE SearchInv'
<1>1. /\ job.kind = "fresh" /\ job' = [job EXCEPT !.kind = "indexing"]
      /\ index' = [index EXCEPT ![job.client] = job.dims]
      /\ UNCHANGED <<update, saved, atom, search, snapshot, resolver, event, updates, refused, wired,
                     workers, indexer, deleter, request, jobs, odd>>
  BY DEF Search!RecreateIndex, Search!updateVars, Search!startVars
<1>2. /\ job'.kind = "indexing" /\ DOMAIN job' = DOMAIN job
      /\ job'.client = job.client /\ job'.embedder = job.embedder /\ job'.dims = job.dims
      /\ job'.torn = job.torn
  BY <1>1 DEF SearchInv, Fields
<1>3. /\ job.client \in Search!Clusters /\ job.dims \in Search!Dimensions
      /\ ~job.torn => job.embedder = job.dims
  BY <1>1 DEF SearchInv, JobInv
<1>4. /\ index' \in [Search!Clusters -> Search!Embedders] /\ index'[job.client] = job.dims
  BY <1>1, <1>3, ClientsAndEmbedders DEF SearchInv, Search!TypeOK
<1>5. Search!TypeOK' BY <1>1, <1>2, <1>4 DEF SearchInv, Search!TypeOK
<1>6. Fields' BY <1>1, <1>2 DEF SearchInv, Fields
<1>7. RequestInv' BY <1>1 DEF SearchInv, RequestInv
<1>8. JobInv' BY <1>2, <1>3, <1>4 DEF JobInv
<1> QED BY <1>1, <1>5, <1>6, <1>7, <1>8, JobStepInv

LEMMA SearchNext == SearchInv /\ [Search!Next]_settingsVars => SearchInv'
<1> SUFFICES ASSUME SearchInv, [Search!Next]_settingsVars PROVE SearchInv' OBVIOUS
<1>1. CASE UNCHANGED settingsVars
  <2>1. UNCHANGED <<update, saved, atom, search, snapshot, resolver, wired, workers, event, indexer,
                    deleter, index, job, request, odd, updates, refused, jobs>>
    BY <1>1 DEF settingsVars
  <2>2. Search!TypeOK' BY <2>1 DEF SearchInv, Search!TypeOK
  <2>3. Fields' /\ RequestInv' /\ JobInv' BY <2>1 DEF SearchInv, Fields, RequestInv, JobInv
  <2> QED BY <2>1, <2>2, <2>3, JobStepInv
<1>2. CASE Search!UpdateStep
  BY <1>2, SaveInv, SwitchBackendInv, MakeSearchInv, NotifyInv, SetESInv, SetEMInv, PublishInv
     DEF Search!UpdateStep
<1>3. CASE Search!IndexerStep
  BY <1>3, PrepareInv, StoreEmbedderInv, SubscribeInv, IndexerEventInv, SwitchOffInv, RenewClientInv,
     KeepEmbedderInv, RenewEmbedderInv, AutoReindexInv DEF Search!IndexerStep
<1>4. CASE Search!DeleterStep
  BY <1>4, DeleterSubscribesInv, DeleterEventInv, DeleterRenewsInv DEF Search!DeleterStep
<1> QED
  BY <1>1, <1>2, <1>3, <1>4, CheckBusyInv, ReadClientsInv, StartReindexInv, StartReclassifyInv,
     RecreateIndexInv DEF Search!Next

\* What is at rest is of the setting in force, and the vectors are those of the index.
LEMMA SearchStates ==
    SearchInv => Search!TypeOK /\ Search!IndexerFollows /\ Search!DeleterFollows /\ Search!VectorsFit
<1> SUFFICES ASSUME SearchInv
             PROVE  Search!IndexerFollows /\ Search!DeleterFollows /\ Search!VectorsFit
  BY DEF SearchInv
<1>1. Search!IndexerFollows BY DEF SearchInv, IndexerCurrent, IndexerRemembers, Search!IndexerFollows
<1>2. Search!VectorsFit BY DEF SearchInv, JobInv, Search!VectorsFit
<1> QED BY <1>1, <1>2 DEF SearchInv, DeleterInv

----------------------------------------------------------------------------
(***************************************************************************)
(* The configuration file and the options that run, for any options and    *)
(* layers.  What an update takes is never of the wrong type, so only what  *)
(* is edited by hand can be; and a mask that was shown for what is in the  *)
(* file meets what is in the file when it is sent back.                    *)
(***************************************************************************)

\* No struct in force holds a value of the wrong type.
LiveTyped == \A l \in F!AllLeaves : structs[l] # F!Bad

\* What updates alone have written could have been sent.
WrittenChecked ==
    byHand = {} =>
      \A l \in DOMAIN text :
        /\ text[l] # F!Bad
        /\ l \in F!CheckedWhenSent => text[l] # F!Out

\* An API key or a header that is not in the file, and that nobody edited there, runs with its
\* default or with what another layer gives.
KeptElsewhere ==
    up =>
      \A l \in F!AllLeaves \ byHand :
        l.kind \in {"kept", "header"} /\ ~F!Has(text, l) =>
          structs[l] = F!Default(l) \/ l \in outside.local \cup outside.env

FileInv ==
    /\ F!TypeOK /\ outside \in Layers
    /\ F!InForce /\ F!MaskNotKept
    /\ LiveTyped /\ WrittenChecked /\ KeptElsewhere

\* A leaf is of its section and of one of the kinds.
LEMMA LeafOf ==
    ASSUME NEW section, NEW scalars, NEW lists, NEW secrets, NEW l \in F!Leaves(section, scalars, lists, secrets)
    PROVE  l.of = section /\ l.kind \in {"scalar", "list", "secret"}
BY DEF F!Leaves

\* Only torznab has a leaf that is kept, and only webhooks have headers.
LEMMA SectionOf ==
    ASSUME NEW l \in F!AllLeaves
    PROVE  /\ l.kind = "kept" => l.of = "torznab"
           /\ l.kind = "header" => l.of = "webhooks"
<1>1. l \in F!Dht \cup F!Requester \cup F!Server \cup F!Storage => l.kind \in {"scalar", "list", "secret"}
  BY LeafOf DEF F!Dht, F!Requester, F!Server, F!Storage
<1>2. l \in F!Classifier => l.kind \in {"scalar", "list", "secret", "prompt"} BY LeafOf DEF F!Classifier
<1>3. l \in F!Torznab => l.of = "torznab" /\ l.kind # "header"
  BY LeafOf DEF F!Torznab
<1>4. l \in F!Webhooks => l.of = "webhooks" /\ l.kind # "kept"
  BY LeafOf DEF F!Webhooks
<1> QED BY <1>1, <1>2, <1>3, <1>4 DEF F!AllLeaves

LEMMA HeadersAre == \A l : l \in F!Headers <=> l \in F!AllLeaves /\ l.kind = "header"
BY DEF F!Headers

\* The values that stand for something have nothing in common.
LEMMA ValuesApart ==
    /\ \A l : F!Default(l) \notin {F!Bad, F!Out, F!Null} /\ F!Default(l) \notin F!Masks
    /\ F!Bad # F!Out /\ F!Bad # F!Null /\ {"local", "env", "a", "b"} \cap {F!Bad, F!Out, F!Null} = {}
    /\ {"local", "env", "a", "b", F!Null, F!Out, F!Bad} \cap F!Masks = {}
    /\ \A v : v # F!Bad => F!Mask(v) # F!Bad
    /\ \A l : l.kind = "kept" => F!Mask(F!Default(l)) = ""
    /\ \A l : l.kind = "header" => F!Default(l) = F!Absent /\ F!Mask(F!Default(l)) = F!Absent
    /\ F!Mask("") = "" /\ "" \notin F!Masks
<1>1. F!Masks = {"****a", "****b", "****local", "****env"} BY DEF F!Masks, F!Secret, F!Mask
<1>2. \A l : F!Default(l) \in {"", "default", "absent"} BY DEF F!Default, F!Absent
<1>3. \A v : v # F!Bad => F!Mask(v) # F!Bad BY DEF F!Mask, F!Bad
<1>4. \A l : l.kind = "kept" => F!Default(l) = "" BY DEF F!Default
<1>5. \A l : l.kind = "header" => F!Default(l) = F!Absent BY DEF F!Default
<1>6. F!Mask("") = "" /\ F!Mask(F!Absent) = F!Absent BY DEF F!Mask, F!Absent
<1> QED BY <1>1, <1>2, <1>3, <1>4, <1>5, <1>6 DEF F!Bad, F!Out, F!Null, F!Absent

\* A start takes what is in the file, what another layer gives, or the default.
LEMMA ResolvedIs ==
    ASSUME NEW l, NEW base
    PROVE  /\ F!Has(base, l) => F!Resolved(l, base) = base[l]
           /\ ~F!Has(base, l) =>
                F!Resolved(l, base) \in {"local", "env", F!Default(l)}
           /\ ~F!Has(base, l) /\ l \notin outside.local \cup outside.env =>
                F!Resolved(l, base) = F!Default(l)
BY DEF F!Resolved

\* No layer gives a header.
LEMMA NoHeaderOutside ==
    ASSUME outside \in Layers, NEW l \in F!AllLeaves, l.kind = "header"
    PROVE  l \notin outside.local \cup outside.env
BY OptionsAssumption, HeadersAre

LEMMA EmptyText == DOMAIN <<>> = {}
BY EmptySeq

LEMMA FileInit == F!Init => FileInv
<1> SUFFICES ASSUME F!Init PROVE FileInv OBVIOUS
<1>1. /\ outside \in Layers /\ text = <<>> /\ up = FALSE /\ stale = {} /\ byHand = {} /\ edits = 0
      /\ structs = [l \in F!AllLeaves |-> F!Default(l)]
  BY DEF F!Init
<1>2. DOMAIN text = {} BY <1>1, EmptyText
<1>3. DOMAIN structs = F!AllLeaves /\ \A l \in F!AllLeaves : structs[l] = F!Default(l) BY <1>1
<1>4. F!TypeOK BY <1>1, <1>2, <1>3, OptionsAssumption DEF F!TypeOK
<1>5. LiveTyped BY <1>3, ValuesApart DEF LiveTyped
<1> QED BY <1>1, <1>2, <1>4, <1>5 DEF FileInv, F!InForce, F!MaskNotKept, WrittenChecked, KeptElsewhere

LEMMA FileStart == ASSUME FileInv, F!Start PROVE FileInv'
<1> DEFINE base == IF exists THEN text ELSE F!DefaultFile
<1>1. /\ F!Startable(base) /\ text' = base /\ up' = TRUE /\ stale' = {}
      /\ structs' = [l \in F!AllLeaves |-> F!Resolved(l, base)]
      /\ UNCHANGED <<outside, byHand, edits>>
  BY DEF F!Start
<1>2. /\ DOMAIN F!DefaultFile = F!AllLeaves \ F!Headers
      /\ \A l \in DOMAIN F!DefaultFile : F!DefaultFile[l] = F!Default(l)
  BY DEF F!DefaultFile
<1> HIDE DEF base
<1>3. base = text \/ base = F!DefaultFile BY DEF base
<1>4. DOMAIN base \subseteq F!AllLeaves BY <1>2, <1>3 DEF FileInv, F!TypeOK
<1>5. DOMAIN structs' = F!AllLeaves /\ \A l \in F!AllLeaves : structs'[l] = F!Resolved(l, base)
  BY <1>1
<1>6. F!TypeOK' BY <1>1, <1>4, <1>5 DEF FileInv, F!TypeOK
<1>7. F!InForce'
  <2> SUFFICES ASSUME NEW l \in F!AllLeaves PROVE structs'[l] = F!Resolved(l, text)' BY DEF F!InForce
  <2> QED BY <1>1, <1>5 DEF F!Resolved, F!Has
<1>8. F!MaskNotKept'
  <2> SUFFICES ASSUME NEW l \in DOMAIN base \ byHand, l.kind \in {"kept", "header"}, base[l] \in F!Masks
               PROVE  l \in outside.local \cup outside.env
    BY <1>1 DEF F!MaskNotKept
  <2>1. base # F!DefaultFile BY <1>2, ValuesApart
  <2> QED BY <1>3, <2>1 DEF FileInv, F!MaskNotKept
<1>9. LiveTyped' BY <1>1, <1>5 DEF LiveTyped, F!Startable
<1>10. WrittenChecked'
  <2> SUFFICES ASSUME byHand = {}, NEW l \in DOMAIN base
               PROVE  base[l] # F!Bad /\ (l \in F!CheckedWhenSent => base[l] # F!Out)
    BY <1>1 DEF WrittenChecked
  <2>1. CASE base = text BY <2>1 DEF FileInv, WrittenChecked
  <2>2. CASE base = F!DefaultFile BY <1>2, <2>2, ValuesApart
  <2> QED BY <1>3, <2>1, <2>2
<1>11. KeptElsewhere'
  <2> SUFFICES ASSUME NEW l \in F!AllLeaves, ~F!Has(base, l), l \notin outside.local \cup outside.env
               PROVE  structs'[l] = F!Default(l)
    BY <1>1 DEF KeptElsewhere
  <2> QED BY <1>5, ResolvedIs
<1> QED BY <1>1, <1>6, <1>7, <1>8, <1>9, <1>10, <1>11 DEF FileInv

\* What stops with the program.
LEMMA FileStops ==
    ASSUME FileInv, F!Stop \/ F!UpdateTorn
    PROVE  FileInv'
<1>1. /\ up' = FALSE /\ stale' = {} /\ structs' = [l \in F!AllLeaves |-> F!Default(l)]
      /\ text' = text \/ text' = <<>>
      /\ edits' = edits \/ (edits < MaxChanges /\ edits' = edits + 1)
      /\ UNCHANGED <<outside, byHand>>
  BY DEF F!Stop, F!UpdateTorn
<1>2. DOMAIN structs' = F!AllLeaves /\ \A l \in F!AllLeaves : structs'[l] = F!Default(l) BY <1>1
<1>3. text' = text \/ DOMAIN text' = {} BY <1>1, EmptyText
<1>4. F!TypeOK' BY <1>1, <1>2, <1>3, OptionsAssumption DEF FileInv, F!TypeOK
<1>5. LiveTyped' BY <1>2, ValuesApart DEF LiveTyped
<1>6. F!MaskNotKept' BY <1>1, <1>3 DEF FileInv, F!MaskNotKept
<1>7. WrittenChecked' BY <1>1, <1>3 DEF FileInv, WrittenChecked
<1> QED BY <1>1, <1>4, <1>5, <1>6, <1>7 DEF FileInv, F!InForce, KeptElsewhere

LEMMA FileEdited ==
    ASSUME FileInv, NEW l \in F!Edited, F!EditFile(l)
    PROVE  FileInv'
<1>1. /\ edits < MaxChanges /\ edits' = edits + 1
      /\ stale' = (IF up THEN stale \cup {l} ELSE {}) /\ byHand' = byHand \cup {l}
      /\ UNCHANGED <<outside, up, structs>>
  BY DEF F!EditFile
<1>2. l \in F!AllLeaves BY DEF F!Edited
<1>3. /\ DOMAIN text' \subseteq DOMAIN text \cup {l} /\ DOMAIN text \subseteq DOMAIN text' \cup {l}
      /\ \A m \in DOMAIN text' : m # l => text'[m] = text[m]
  BY DEF F!EditFile
<1>4. F!TypeOK' BY <1>1, <1>2, <1>3, OptionsAssumption DEF FileInv, F!TypeOK
<1>5. \A m : m # l => F!Has(text, m)' = F!Has(text, m) BY <1>3, Zenon DEF F!Has
<1>6. F!InForce'
  <2> SUFFICES ASSUME up, NEW m \in F!AllLeaves, m \notin stale \cup {l},
                      F!Has(text, m)' \/ m.kind = "header"
               PROVE  structs[m] = F!Resolved(m, text)'
    BY <1>1 DEF F!InForce
  <2>1. structs[m] = F!Resolved(m, text) BY <1>5 DEF FileInv, F!InForce
  <2> QED BY <1>1, <1>3, <2>1 DEF F!Resolved, F!Has
<1>7. F!MaskNotKept' BY <1>1, <1>3 DEF FileInv, F!MaskNotKept
<1>8. KeptElsewhere'
  <2> SUFFICES ASSUME up, NEW m \in F!AllLeaves \ (byHand \cup {l}),
                      m.kind \in {"kept", "header"}, ~F!Has(text, m)'
               PROVE  structs[m] = F!Default(m) \/ m \in outside.local \cup outside.env
    BY <1>1 DEF KeptElsewhere
  <2> QED BY <1>5 DEF FileInv, KeptElsewhere
<1> QED BY <1>1, <1>4, <1>6, <1>7, <1>8 DEF FileInv, LiveTyped, WrittenChecked

\* An input gives its leaf the value, and the others of a section that is sent in full as they
\* are shown; what is sent has a section with it, and with the headers all of webhooks.
LEMMA WhatIsSent ==
    ASSUME FileInv, NEW i \in F!Inputs, i.value \in F!Values(i.leaf)
    PROVE  /\ DOMAIN F!Sent(i).set \subseteq F!AllLeaves
           /\ F!Sent(i).headers => \E m \in DOMAIN F!Sent(i).set : m.of = "webhooks"
           /\ \A m \in DOMAIN F!Sent(i).set :
                \/ F!Sent(i).set[m] = i.value
                \/ F!Sent(i).set[m] = F!Shown(m) /\ F!Shown(m) # F!Absent
<1> DEFINE shown == {m \in F!AllLeaves : m.of = i.leaf.of /\ (F!Shown(m) # F!Absent \/ m = i.leaf)}
<1>1. i.leaf \in F!AllLeaves /\ i.full \in BOOLEAN BY DEF F!Inputs, F!Edited
<1>2. CASE i.full
  <2>1. F!Sent(i) = F!Echo(i.leaf, i.value) BY <1>2 DEF F!Sent
  <2>2. /\ F!Sent(i).set = [m \in shown |-> IF m = i.leaf THEN i.value ELSE F!Shown(m)]
        /\ F!Sent(i).headers = (i.leaf.of = "webhooks")
    BY <2>1 DEF F!Echo
  <2> QED BY <1>1, <2>2
<1>3. CASE ~i.full
  <2>1. F!Sent(i) = F!One(i.leaf, i.value) BY <1>3 DEF F!Sent
  <2>2. F!Sent(i).set = [m \in {i.leaf} |-> i.value] /\ F!Sent(i).headers = (i.leaf.kind = "header")
    BY <2>1 DEF F!One
  <2> QED BY <1>1, <2>2, SectionOf
<1> QED BY <1>1, <1>2, <1>3

LEMMA InputValues ==
    ASSUME NEW i \in F!Inputs, i.value \in F!Values(i.leaf)
    PROVE  i.value # F!Bad /\ i.value \notin F!Masks
<1>1. i.value \in {"a", "b", F!Null, F!Out} BY DEF F!Inputs
<1> QED BY <1>1, ValuesApart

LEMMA ShownTyped == ASSUME FileInv, NEW m \in F!AllLeaves PROVE F!Shown(m) # F!Bad
<1>1. structs[m] # F!Bad BY DEF FileInv, LiveTyped
<1>2. F!Mask(structs[m]) # F!Bad BY <1>1, ValuesApart
<1> QED BY <1>1, <1>2 DEF F!Shown, F!Bad

\* What of an input is taken, and what is dropped with the headers.
Taken(sent) ==
    {l \in DOMAIN sent.set :
       (sent.set[l] # F!Null \/ l.kind = "list") /\ ~F!Echoed(l, sent.set[l])}
Dropped(sent) == IF sent.headers THEN F!Headers \ DOMAIN sent.set ELSE {}

LEMMA MergedIs ==
    ASSUME NEW sent
    PROVE  /\ DOMAIN F!Merged(sent) = (DOMAIN text \ Dropped(sent)) \cup Taken(sent)
           /\ \A l \in Taken(sent) : F!Merged(sent)[l] = sent.set[l]
           /\ \A l \in DOMAIN text \ Dropped(sent) : l \notin Taken(sent) => F!Merged(sent)[l] = text[l]
BY DEF F!Merged, Taken, Dropped

\* Of the sections that are reloaded is what is taken and what is dropped.
LEMMA ReloadedCovers ==
    ASSUME FileInv, NEW i \in F!Inputs, i.value \in F!Values(i.leaf)
    PROVE  Taken(F!Sent(i)) \cup Dropped(F!Sent(i)) \subseteq F!ReloadedBy(F!Sent(i))
<1> DEFINE sent == F!Sent(i)
<1>1. DOMAIN sent.set \subseteq F!AllLeaves /\ (sent.headers => \E m \in DOMAIN sent.set : m.of = "webhooks")
  BY WhatIsSent
<1> HIDE DEF sent
<1>2. \A l \in F!AllLeaves, m \in DOMAIN sent.set : l.of = m.of => l \in F!ReloadedBy(sent)
  BY DEF F!ReloadedBy
<1>3. Taken(sent) \subseteq F!ReloadedBy(sent) BY <1>1, <1>2 DEF Taken
<1>4. Dropped(sent) \subseteq F!ReloadedBy(sent) BY <1>1, <1>2, HeadersAre, SectionOf DEF Dropped
<1> QED BY <1>3, <1>4 DEF sent

\* A mask that is sent back for what is in the file is not taken, nor one that was shown for the
\* default; the other layers' are.
LEMMA MasksStay ==
    ASSUME FileInv, up, NEW i \in F!Inputs, i.value \in F!Values(i.leaf),
           NEW l \in Taken(F!Sent(i)), l \notin byHand, l.kind \in {"kept", "header"},
           F!Sent(i).set[l] \in F!Masks
    PROVE  l \in outside.local \cup outside.env
<1>1. l \in F!AllLeaves /\ F!Sent(i).set[l] = F!Shown(l) /\ F!Shown(l) # F!Absent
  BY WhatIsSent, InputValues DEF Taken
<1>2. F!Shown(l) = F!Mask(structs[l]) BY DEF F!Shown
<1>3. ~F!Echoed(l, F!Mask(structs[l])) BY <1>1, <1>2 DEF Taken
<1>4. l \notin stale BY DEF FileInv, F!TypeOK
<1>5. CASE F!Has(text, l)
  <2>1. structs[l] = text[l] BY <1>1, <1>4, <1>5, ResolvedIs DEF FileInv, F!InForce
  <2> QED BY <1>3, <1>5, <2>1 DEF F!Echoed, F!StoredOf, F!Has
<1>6. CASE ~F!Has(text, l)
  <2>1. structs[l] = F!Default(l) \/ l \in outside.local \cup outside.env
    BY <1>1, <1>6 DEF FileInv, KeptElsewhere
  <2>2. structs[l] = F!Default(l) => F!Mask(structs[l]) \notin F!Masks \/ F!Shown(l) = F!Absent
    BY <1>2, ValuesApart
  <2> QED BY <1>1, <1>2, <2>1, <2>2
<1> QED BY <1>5, <1>6

LEMMA FileUpdated ==
    ASSUME FileInv, NEW i \in F!Inputs, F!Update(i)
    PROVE  FileInv'
<1> DEFINE sent == F!Sent(i)
           data == F!Merged(F!Sent(i))
           reloaded == F!ReloadedBy(F!Sent(i))
<1>1. /\ up /\ edits < MaxChanges /\ i.value \in F!Values(i.leaf) /\ F!Accepted(sent, data)
      /\ text' = data /\ edits' = edits + 1
      /\ structs' = [l \in F!AllLeaves |->
           IF l \notin reloaded THEN structs[l]
           ELSE IF F!Has(data, l) /\ data[l] # F!Bad THEN data[l] ELSE F!ReloadsOnto(l)]
      /\ stale' = {l \in stale : l \notin reloaded \/ (l \in DOMAIN data /\ data[l] = F!Bad)}
      /\ UNCHANGED <<outside, up, byHand>>
  BY DEF F!Update
<1>2. /\ DOMAIN structs' = F!AllLeaves
      /\ \A l \in F!AllLeaves \ reloaded : structs'[l] = structs[l]
      /\ \A l \in F!AllLeaves \cap reloaded :
           structs'[l] = IF F!Has(data, l) /\ data[l] # F!Bad THEN data[l] ELSE F!ReloadsOnto(l)
  BY <1>1
<1>3. /\ DOMAIN data = (DOMAIN text \ Dropped(sent)) \cup Taken(sent)
      /\ \A l \in Taken(sent) : data[l] = sent.set[l]
      /\ \A l \in DOMAIN data \ Taken(sent) : l \in DOMAIN text /\ data[l] = text[l]
  BY MergedIs
<1>4. Taken(sent) \cup Dropped(sent) \subseteq reloaded BY <1>1, ReloadedCovers
<1>5. /\ Taken(sent) \subseteq DOMAIN sent.set /\ DOMAIN sent.set \subseteq F!AllLeaves
      /\ \A l \in Taken(sent) : sent.set[l] # F!Bad
  BY <1>1, WhatIsSent, InputValues, ShownTyped DEF Taken
<1>6. \A l \in F!CheckedWhenSent \cap Taken(sent) : sent.set[l] # F!Out
  BY <1>1, <1>5 DEF F!Accepted
<1>7. \A l \in Taken(sent) : l \notin byHand /\ l.kind \in {"kept", "header"} /\ sent.set[l] \in F!Masks
                              => l \in outside.local \cup outside.env
  BY <1>1, MasksStay
<1> HIDE DEF sent, data, reloaded
\* Outside what is reloaded, the file stays as it was.
<1>8. \A l : l \notin reloaded =>
        (l \in DOMAIN data <=> l \in DOMAIN text) /\ (l \in DOMAIN text => data[l] = text[l])
  BY <1>3, <1>4
<1>9. F!TypeOK' BY <1>1, <1>2, <1>3, <1>5, OptionsAssumption DEF FileInv, F!TypeOK
<1>10. LiveTyped'
  <2> SUFFICES ASSUME NEW l \in F!AllLeaves PROVE structs'[l] # F!Bad BY DEF LiveTyped
  <2>1. structs[l] # F!Bad BY DEF FileInv, LiveTyped
  <2> QED BY <1>2, <2>1, ValuesApart DEF F!ReloadsOnto
<1>11. F!InForce'
  <2> SUFFICES ASSUME NEW l \in F!AllLeaves, l \notin stale', F!Has(data, l) \/ l.kind = "header"
               PROVE  structs'[l] = F!Resolved(l, data)
    BY <1>1 DEF F!InForce, F!Resolved, F!Has
  <2>1. CASE l \notin reloaded
    <3>1. l \notin stale BY <1>1, <2>1
    <3>2. F!Has(data, l) <=> F!Has(text, l) BY <1>8, <2>1 DEF F!Has
    <3>3. structs[l] = F!Resolved(l, text) BY <1>1, <3>1, <3>2 DEF FileInv, F!InForce
    <3>4. F!Resolved(l, data) = F!Resolved(l, text) BY <1>8, <2>1, <3>2 DEF F!Resolved, F!Has
    <3> QED BY <1>2, <2>1, <3>3, <3>4
  <2>2. CASE l \in reloaded /\ F!Has(data, l)
    <3>1. l \in DOMAIN data /\ F!Resolved(l, data) = data[l] BY <2>2, ResolvedIs DEF F!Has
    <3>2. data[l] # F!Bad
      <4> SUFFICES ASSUME data[l] = F!Bad PROVE FALSE OBVIOUS
      <4>1. l \notin stale BY <1>1, <3>1
      <4>2. l \in DOMAIN text /\ text[l] = F!Bad BY <1>3, <1>5, <3>1
      <4>3. F!Has(text, l) BY <4>2, ValuesApart DEF F!Has
      <4>4. structs[l] = F!Bad BY <1>1, <4>1, <4>2, <4>3, ResolvedIs DEF FileInv, F!InForce
      <4> QED BY <4>4 DEF FileInv, LiveTyped
    <3> QED BY <1>2, <2>2, <3>1, <3>2
  <2>3. CASE l \in reloaded /\ ~F!Has(data, l)
    <3>1. l.kind = "header" /\ l.of = "webhooks" BY <2>3, SectionOf
    <3>2. F!Resolved(l, data) = F!Default(l) BY <2>3, <3>1, NoHeaderOutside, ResolvedIs DEF FileInv
    <3> QED BY <1>2, <2>3, <3>1, <3>2 DEF F!ReloadsOnto
  <2> QED BY <2>1, <2>2, <2>3
<1>12. F!MaskNotKept'
  <2> SUFFICES ASSUME NEW l \in DOMAIN data \ byHand, l.kind \in {"kept", "header"}, data[l] \in F!Masks
               PROVE  l \in outside.local \cup outside.env
    BY <1>1 DEF F!MaskNotKept
  <2>1. CASE l \in Taken(sent) BY <1>3, <1>7, <2>1
  <2>2. CASE l \notin Taken(sent) BY <1>3, <2>2 DEF FileInv, F!MaskNotKept
  <2> QED BY <2>1, <2>2
<1>13. WrittenChecked'
  <2> SUFFICES ASSUME byHand = {}, NEW l \in DOMAIN data
               PROVE  data[l] # F!Bad /\ (l \in F!CheckedWhenSent => data[l] # F!Out)
    BY <1>1 DEF WrittenChecked
  <2>1. CASE l \in Taken(sent) BY <1>3, <1>5, <1>6, <2>1
  <2>2. CASE l \notin Taken(sent) BY <1>3, <2>2 DEF FileInv, WrittenChecked
  <2> QED BY <2>1, <2>2
<1>14. KeptElsewhere'
  <2> SUFFICES ASSUME NEW l \in F!AllLeaves \ byHand, l.kind \in {"kept", "header"}, ~F!Has(data, l)
               PROVE  structs'[l] = F!Default(l) \/ l \in outside.local \cup outside.env
    BY <1>1 DEF KeptElsewhere, F!Has
  <2>1. CASE l \in reloaded BY <1>2, <2>1, SectionOf DEF F!ReloadsOnto
  <2>2. CASE l \notin reloaded
    <3>1. ~F!Has(text, l) BY <1>8, <2>2 DEF F!Has
    <3> QED BY <1>1, <1>2, <2>2, <3>1 DEF FileInv, KeptElsewhere
  <2> QED BY <2>1, <2>2
<1> QED BY <1>1, <1>9, <1>10, <1>11, <1>12, <1>13, <1>14 DEF FileInv

LEMMA FileNext == FileInv /\ [F!Next]_optionVars => FileInv'
<1> SUFFICES ASSUME FileInv, [F!Next]_optionVars PROVE FileInv' OBVIOUS
<1>1. CASE UNCHANGED optionVars
  <2>1. UNCHANGED <<exists, text, outside, up, structs, stale, byHand, edits>>
    BY <1>1 DEF optionVars
  <2>2. F!TypeOK' /\ F!InForce' /\ F!MaskNotKept'
    BY <2>1 DEF FileInv, F!TypeOK, F!InForce, F!MaskNotKept, F!Resolved, F!Has
  <2> QED BY <2>1, <2>2 DEF FileInv, LiveTyped, WrittenChecked, KeptElsewhere, F!Has
<1> QED BY <1>1, FileStart, FileStops, FileUpdated, FileEdited DEF F!Next

\* What an update writes can be started from, but for what only a start checks.
LEMMA FileStates == FileInv => F!ConfigFileContract
<1> SUFFICES ASSUME FileInv PROVE F!StartsAgain BY DEF FileInv, F!ConfigFileContract
<1> SUFFICES ASSUME byHand = {},
                    \A l \in F!CheckedAtStart \ F!CheckedWhenSent : ~(F!Has(text, l) /\ text[l] = F!Out)
             PROVE  F!Startable(text)
  BY DEF F!StartsAgain
<1>1. ASSUME NEW l \in F!AllLeaves PROVE F!Resolved(l, text) # F!Bad
  <2>1. F!Has(text, l) => text[l] # F!Bad BY DEF F!Has, FileInv, WrittenChecked
  <2>2. F!Bad \notin {"local", "env", F!Default(l)} BY ValuesApart
  <2> QED BY <2>1, <2>2, ResolvedIs
<1>2. ASSUME NEW l \in F!CheckedAtStart PROVE F!Resolved(l, text) # F!Out
  <2>1. F!Has(text, l) => text[l] # F!Out BY DEF F!Has, FileInv, WrittenChecked
  <2>2. F!Out \notin {"local", "env", F!Default(l)} BY ValuesApart
  <2> QED BY <2>1, <2>2, ResolvedIs
<1> QED BY <1>1, <1>2 DEF F!Startable

----------------------------------------------------------------------------
(***************************************************************************)
(* The table, for any nodes, hashes and addresses.  An entry of the        *)
(* reverse map has a node only at the address that the node has now, so    *)
(* that the one entry to go when a node moves or leaves is the one there;  *)
(* and a hash only while the hash keeps that address.                      *)
(***************************************************************************)

\* What the reverse map has for an address is still there, and what is not known is nothing.
EntryRight(ip) ==
    /\ addrs[ip].peer # "none" => nodes[addrs[ip].peer].ip = ip
    /\ \A h \in addrs[ip].hashes : ip \in hashes[h]
    /\ addrs[ip].there => addrs[ip].peer # "none" \/ addrs[ip].hashes # {}
    /\ ~addrs[ip].there => addrs[ip] = T!NoInfo

TreeRight == nodeTree = {id \in NodeIds : nodes[id] # T!NoAddr} /\ ~failing

TableInv == T!TypeOK /\ TreeRight /\ \A ip \in Ips : EntryRight(ip)

LEMMA TableSafe == TableInv => TableConsistent
BY DEF TableInv, TreeRight, TableConsistent, T!TreeMatchesItems, T!NoStaleNode, T!NoStaleHash,
       T!NoPeer, T!Unknown, T!ClosestNodes, EntryRight

LEMMA TableInit == T!Init => TableInv
<1> SUFFICES ASSUME T!Init PROVE TableInv OBVIOUS
<1> USE TableAssumption DEF T!Init
<1>1. \A ip \in Ips : addrs[ip] = [peer |-> "none", hashes |-> {}, there |-> FALSE]
  BY DEF T!NoInfo, T!NoPeer
<1>2. T!TypeOK BY <1>1 DEF T!TypeOK, T!Infos, T!NoPeer, T!NoInfo
<1>3. TreeRight BY DEF TreeRight
<1>4. \A ip \in Ips : EntryRight(ip)
  BY <1>1 DEF EntryRight, T!NoInfo, T!NoPeer
<1> QED BY <1>2, <1>3, <1>4 DEF TableInv

\* The types, one by one.
LEMMA TableTypes ==
    ASSUME TableInv
    PROVE  /\ nodes \in [NodeIds -> T!Addresses \cup {T!NoAddr}]
           /\ addrs \in [Ips -> T!Infos]
           /\ \A id \in NodeIds : id \in nodeTree <=> nodes[id] # T!NoAddr
           /\ \A id \in NodeIds : nodes[id] # T!NoAddr => nodes[id] \in T!Addresses /\ nodes[id].ip \in Ips
           /\ hashes \in [HashIds -> (SUBSET Ips) \cup {T!NoHash}]
           /\ "none" \notin Ips
BY TableAssumption DEF TableInv, TreeRight, T!TypeOK, T!Addresses

\* A node that is seen has an entry at its address, and none where it was before.
LEMMA UpdateNodeKeeps ==
    ASSUME TableInv, NEW id \in NodeIds, NEW addr \in T!Addresses, T!UpdateNode(id, addr)
    PROVE  TableInv'
<1> DEFINE left == IF nodes[id] # addr THEN T!DropAddr(addrs, nodes[id].ip) ELSE addrs
<1>1. id \in nodeTree /\ nodes[id] # T!NoAddr /\ nodes[id].ip \in Ips
  BY TableTypes DEF T!UpdateNode
<1>2. nodes' = [nodes EXCEPT ![id] = addr] /\ UNCHANGED <<nodeTree, hashes>>
  BY DEF T!UpdateNode
<1>3. ~failing' BY <1>1 DEF T!UpdateNode, TableInv, TreeRight
<1>4. addrs' = T!PutPeer(left, addr.ip, id)
  BY <1>1 DEF T!UpdateNode
<1>5. addr.ip \in Ips /\ addr # T!NoAddr
  BY TableTypes DEF T!Addresses, T!NoAddr
<1>6. ASSUME NEW ip \in Ips
      PROVE  /\ left[ip] \in T!Infos
             /\ left[ip] = addrs[ip] \/ left[ip] = T!NoInfo
             /\ ip = nodes[id].ip => nodes[id] = addr \/ left[ip] = T!NoInfo
  BY <1>1, TableTypes DEF T!DropAddr, T!NoInfo, T!Infos, T!NoPeer
<1>7. left \in [Ips -> T!Infos]
  BY <1>6, TableTypes DEF T!DropAddr
<1> HIDE DEF left
<1>8. ASSUME NEW ip \in Ips
      PROVE  addrs'[ip] = IF ip = addr.ip THEN [peer |-> id, hashes |-> left[ip].hashes, there |-> TRUE]
                          ELSE left[ip]
  BY <1>4, <1>5, <1>7 DEF T!PutPeer
<1>9. addrs' \in [Ips -> T!Infos]
  <2>1. [peer |-> id, hashes |-> left[addr.ip].hashes, there |-> TRUE] \in T!Infos
    BY <1>5, <1>7 DEF T!Infos
  <2> QED BY <2>1, <1>4, <1>5, <1>7 DEF T!PutPeer
<1>10. nodes' \in [NodeIds -> T!Addresses \cup {T!NoAddr}]
  BY <1>2, TableTypes
<1>11. T!TypeOK'
  BY <1>2, <1>9, <1>10 DEF T!TypeOK, TableInv
<1>12. TreeRight'
  BY <1>1, <1>2, <1>3, <1>5, TableTypes DEF TableInv, TreeRight, T!NoAddr
<1>13. ASSUME NEW ip \in Ips PROVE EntryRight(ip)'
  <2>1. EntryRight(ip) BY DEF TableInv
  <2>2. \A h \in left[ip].hashes : ip \in hashes'[h]
    BY <1>6, <1>2, <2>1 DEF T!NoInfo, EntryRight
  <2>3. CASE ip = addr.ip
    <3>0. addrs'[ip] = [peer |-> id, hashes |-> left[ip].hashes, there |-> TRUE]
      BY <2>3, <1>8
    <3>1. addrs'[ip].peer = id /\ addrs'[ip].hashes = left[ip].hashes /\ addrs'[ip].there
      BY <3>0
    <3>2. nodes'[id].ip = ip BY <2>3, <1>2, TableTypes
    <3>3. id # "none" BY TableAssumption
    <3> QED BY <3>1, <3>2, <3>3, <2>2 DEF EntryRight
  <2>4. CASE ip # addr.ip
    <3>1. addrs'[ip] = left[ip] BY <2>4, <1>8
    <3>2. CASE left[ip] = T!NoInfo
      BY <3>1, <3>2 DEF EntryRight, T!NoInfo, T!NoPeer
    <3>3. CASE left[ip] = addrs[ip] /\ left[ip] # T!NoInfo
      <4>1. addrs[ip].peer # "none" => addrs[ip].peer \in NodeIds /\ addrs[ip].peer # id
        BY <1>6, <2>1, <2>4, <3>3, TableTypes DEF EntryRight, T!Infos, T!NoPeer
      <4>2. addrs[ip].peer # "none" => nodes'[addrs[ip].peer] = nodes[addrs[ip].peer]
        BY <4>1, <1>2, TableTypes
      <4> QED BY <3>1, <3>3, <4>2, <2>1, <1>2 DEF EntryRight
    <3> QED BY <3>2, <3>3, <1>6
  <2> QED BY <2>3, <2>4
<1> QED BY <1>11, <1>12, <1>13 DEF TableInv

\* A node that is new has no entry, since an entry is for a node at an address.
LEMMA AcceptNodeKeeps ==
    ASSUME TableInv, NEW id \in NodeIds, NEW addr \in T!Addresses, T!AcceptNode(id, addr)
    PROVE  TableInv'
<1>1. id \notin nodeTree /\ nodes[id] = T!NoAddr
  BY TableTypes DEF T!AcceptNode
<1>2. /\ nodes' = [nodes EXCEPT ![id] = addr] /\ nodeTree' = nodeTree \cup {id}
      /\ UNCHANGED <<hashes, addrs, failing>>
  BY <1>1 DEF T!AcceptNode
<1>3. addr # T!NoAddr
  BY TableTypes DEF T!Addresses, T!NoAddr
<1>4. nodes' \in [NodeIds -> T!Addresses \cup {T!NoAddr}]
  BY <1>2, TableTypes
<1>5. T!TypeOK'
  BY <1>2, <1>4 DEF T!TypeOK, TableInv
<1>6. TreeRight'
  BY <1>2, <1>3, TableTypes DEF TableInv, TreeRight, T!NoAddr
<1>7. ASSUME NEW ip \in Ips PROVE EntryRight(ip)'
  <2>1. EntryRight(ip) BY DEF TableInv
  <2>2. addrs[ip].peer # "none" => addrs[ip].peer \in NodeIds /\ nodes[addrs[ip].peer].ip = ip
    BY <2>1, TableTypes DEF EntryRight, T!Infos, T!NoPeer
  <2>3. addrs[ip].peer # id
    BY <2>2, <1>1, TableAssumption DEF T!NoAddr
  <2> QED BY <1>2, <2>1, <2>2, <2>3, TableTypes DEF EntryRight
<1> QED BY <1>5, <1>6, <1>7 DEF TableInv

\* With a node goes the entry at its address, if it is the one of that node or not.
LEMMA DropNodeKeeps ==
    ASSUME TableInv, NEW id \in NodeIds, T!DropNode(id), nodes[id] # T!NoAddr
    PROVE  TableInv'
<1>1. /\ nodes' = [nodes EXCEPT ![id] = T!NoAddr] /\ nodeTree' = nodeTree \ {id}
      /\ UNCHANGED <<hashes, failing>>
      /\ addrs' = [addrs EXCEPT ![nodes[id].ip] = T!NoInfo]
  BY DEF T!DropNode, T!LeftTree, T!DropAddr
<1>2. nodes' \in [NodeIds -> T!Addresses \cup {T!NoAddr}]
  BY <1>1, TableTypes
<1>3. addrs' \in [Ips -> T!Infos]
  <2>1. T!NoInfo \in T!Infos BY DEF T!NoInfo, T!Infos, T!NoPeer
  <2> QED BY <2>1, <1>1, TableTypes
<1>4. T!TypeOK'
  BY <1>1, <1>2, <1>3 DEF T!TypeOK, TableInv
<1>5. TreeRight'
  BY <1>1, TableTypes DEF TableInv, TreeRight, T!NoAddr
<1>6. ASSUME NEW ip \in Ips PROVE EntryRight(ip)'
  <2>1. EntryRight(ip) BY DEF TableInv
  <2>2. CASE ip = nodes[id].ip
    <3>1. addrs'[ip] = T!NoInfo BY <2>2, <1>1, TableTypes
    <3> QED BY <3>1 DEF EntryRight, T!NoInfo, T!NoPeer
  <2>3. CASE ip # nodes[id].ip
    <3>1. addrs'[ip] = addrs[ip] BY <2>3, <1>1, TableTypes
    <3>2. addrs[ip].peer # "none" => addrs[ip].peer \in NodeIds /\ addrs[ip].peer # id
      BY <2>1, <2>3, TableTypes DEF EntryRight, T!Infos, T!NoPeer
    <3>3. addrs[ip].peer # "none" => nodes'[addrs[ip].peer] = nodes[addrs[ip].peer]
      BY <3>2, <1>1, TableTypes
    <3> QED BY <3>1, <3>3, <2>1, <1>1 DEF EntryRight
  <2> QED BY <2>2, <2>3
<1> QED BY <1>4, <1>5, <1>6 DEF TableInv

\* The entry of a peer, with the hash that it announced or gave.
Announced(ip, id) == [peer |-> addrs[ip].peer, hashes |-> addrs[ip].hashes \cup {id}, there |-> TRUE]

\* What an entry has for the hashes and the nodes stays right when the nodes stay, the hashes
\* that it has keep the address, and it is there only for something.
LEMMA EntryKept ==
    ASSUME TableInv, NEW ip \in Ips, UNCHANGED nodes,
           addrs'[ip] = T!NoInfo \/
             /\ addrs'[ip].peer = addrs[ip].peer
             /\ \A h \in addrs'[ip].hashes : ip \in hashes'[h]
             /\ addrs'[ip].there => addrs'[ip].peer # "none" \/ addrs'[ip].hashes # {}
             /\ ~addrs'[ip].there => addrs'[ip] = T!NoInfo
    PROVE  EntryRight(ip)'
<1>1. EntryRight(ip) BY DEF TableInv
<1>2. CASE addrs'[ip] = T!NoInfo
  BY <1>2 DEF EntryRight, T!NoInfo, T!NoPeer
<1>3. CASE addrs'[ip] # T!NoInfo
  BY <1>1, <1>3 DEF EntryRight
<1> QED BY <1>2, <1>3

LEMMA AnnouncedMap ==
    ASSUME TableInv, NEW at \in Ips, NEW id \in HashIds
    PROVE  /\ T!PutHashes(addrs, at, id) \in [Ips -> T!Infos]
           /\ \A ip \in Ips : T!PutHashes(addrs, at, id)[ip] = IF ip = at THEN Announced(at, id) ELSE addrs[ip]
<1>1. T!PutHashes(addrs, at, id) = [addrs EXCEPT ![at] = Announced(at, id)]
  BY DEF T!PutHashes, Announced
<1>2. Announced(at, id) \in T!Infos
  <2>1. addrs[at] \in T!Infos BY TableTypes
  <2>2. addrs[at].peer \in NodeIds \cup {"none"} /\ addrs[at].hashes \subseteq HashIds
    BY <2>1 DEF T!Infos, T!NoPeer
  <2> QED BY <2>2 DEF Announced, T!Infos, T!NoPeer
<1> QED BY <1>1, <1>2, TableTypes

\* The instance's own name for Cardinality, and its type invariant with it.
LEMMA CardinalityOfT == \A Q : T!Cardinality(Q) = Cardinality(Q)
BY DEF T!Cardinality, Cardinality

LEMMA TableTyped ==
    T!TypeOK <=>
        /\ nodes \in [NodeIds -> T!Addresses \cup {T!NoAddr}]
        /\ nodeTree \subseteq NodeIds
        /\ hashes \in [HashIds -> (SUBSET Ips) \cup {T!NoHash}]
        /\ \A h \in HashIds : hashes[h] # T!NoHash => Cardinality(hashes[h]) <= MaxPeers
        /\ addrs \in [Ips -> T!Infos]
BY CardinalityOfT DEF T!TypeOK

LEMMA AcceptHashKeeps ==
    ASSUME TableInv, NEW id \in HashIds, NEW at \in Ips, T!AcceptHash(id, at)
    PROVE  TableInv'
<1>1. /\ hashes[id] = T!NoHash /\ hashes' = [hashes EXCEPT ![id] = {at}]
      /\ UNCHANGED <<nodes, nodeTree, failing>>
      /\ addrs' = T!PutHashes(addrs, at, id)
  BY DEF T!AcceptHash
<1>2. T!TypeOK'
  <2>1. addrs' \in [Ips -> T!Infos] BY <1>1, AnnouncedMap
  <2>2. hashes' \in [HashIds -> (SUBSET Ips) \cup {T!NoHash}]
    BY <1>1, TableTypes
  <2>3. ASSUME NEW h \in HashIds, hashes'[h] # T!NoHash
        PROVE  Cardinality(hashes'[h]) <= MaxPeers
    <3>1. CASE h # id
      <4>1. hashes'[h] = hashes[h] BY <3>1, <1>1, TableTypes
      <4> QED BY <4>1, <2>3, TableTyped DEF TableInv
    <3>2. CASE h = id
      <4>1. hashes'[h] = {at} BY <3>2, <1>1, TableTypes
      <4>2. Cardinality({at}) = 1 BY FS_Singleton
      <4> QED BY <4>1, <4>2, TableAssumption
    <3> QED BY <3>1, <3>2
  <2> QED BY <2>1, <2>2, <2>3, <1>1, CardinalityOfT DEF T!TypeOK, TableInv
<1>3. ASSUME NEW ip \in Ips PROVE EntryRight(ip)'
  <2>1. EntryRight(ip) BY DEF TableInv
  <2>2. \A h \in addrs[ip].hashes : h # id /\ h \in HashIds
    BY <2>1, <1>1, TableTypes, TableAssumption DEF EntryRight, T!NoHash, T!Infos
  <2>3. \A h \in addrs[ip].hashes : ip \in hashes'[h]
    BY <2>1, <2>2, <1>1, TableTypes DEF EntryRight
  <2>4. CASE ip = at
    <3>1. addrs'[ip] = Announced(at, id) BY <2>4, <1>1, AnnouncedMap
    <3>2. addrs'[ip].peer = addrs[ip].peer /\ addrs'[ip].hashes = addrs[ip].hashes \cup {id}
          /\ addrs'[ip].there
      BY <3>1, <2>4 DEF Announced
    <3>3. ip \in hashes'[id] BY <2>4, <1>1, TableTypes
    <3> QED BY <3>2, <3>3, <2>3, <1>1, EntryKept
  <2>5. CASE ip # at
    <3>1. addrs'[ip] = addrs[ip] BY <2>5, <1>1, AnnouncedMap
    <3> QED BY <3>1, <2>1, <2>3, <1>1, EntryKept DEF EntryRight
  <2> QED BY <2>4, <2>5
<1> QED BY <1>1, <1>2, <1>3 DEF TableInv, TreeRight

\* What goes with the peers that are out: the hash in their entries, and entries left with nothing.
LEMMA UpdateHashKeeps ==
    ASSUME TableInv, NEW id \in HashIds, NEW at \in Ips, T!UpdateHash(id, at)
    PROVE  TableInv'
<1> DEFINE all == hashes[id] \cup {at}
           said == T!PutHashes(addrs, at, id)
<1>1. PICK out \in SUBSET all :
        /\ T!Evicted(all, out)
        /\ hashes' = [hashes EXCEPT ![id] = all \ out]
        /\ addrs' = T!DropHashFor(said, id, out)
  BY DEF T!UpdateHash
<1>2. hashes[id] # T!NoHash /\ UNCHANGED <<nodes, nodeTree, failing>>
  BY DEF T!UpdateHash
<1>3. hashes' \in [HashIds -> (SUBSET Ips) \cup {T!NoHash}] /\ hashes'[id] = all \ out
      /\ \A h \in HashIds \ {id} : hashes'[h] = hashes[h]
  BY <1>1, <1>2, TableTypes
<1>4. said \in [Ips -> T!Infos]
      /\ \A ip \in Ips : said[ip] = IF ip = at THEN Announced(at, id) ELSE addrs[ip]
  BY AnnouncedMap
<1> HIDE DEF said
<1>5. ASSUME NEW ip \in Ips
      PROVE  addrs'[ip] = IF ip \in out /\ said[ip].there THEN T!ForgetHash(said[ip], id) ELSE said[ip]
  BY <1>1 DEF T!DropHashFor
<1>6. addrs' \in [Ips -> T!Infos]
  <2>1. ASSUME NEW ip \in Ips PROVE addrs'[ip] \in T!Infos
    <3>1. said[ip] \in T!Infos BY <1>4
    <3>2. T!ForgetHash(said[ip], id) \in T!Infos
      BY <3>1 DEF T!ForgetHash, T!Infos, T!NoInfo, T!NoPeer
    <3> QED BY <3>1, <3>2, <1>5
  <2> QED BY <2>1, <1>1 DEF T!DropHashFor
<1>7. T!TypeOK'
  <2>1. ASSUME NEW h \in HashIds, hashes'[h] # T!NoHash PROVE Cardinality(hashes'[h]) <= MaxPeers
    <3>1. CASE h # id
      <4>1. hashes'[h] = hashes[h] BY <3>1, <1>3
      <4> QED BY <4>1, <2>1, TableTyped DEF TableInv
    <3>2. CASE h = id
      BY <3>2, <1>1, <1>3, CardinalityOfT DEF T!Evicted
    <3> QED BY <3>1, <3>2
  <2> QED BY <2>1, <1>2, <1>3, <1>6, CardinalityOfT DEF T!TypeOK, TableInv
<1>8. ASSUME NEW ip \in Ips PROVE EntryRight(ip)'
  <2>1. EntryRight(ip) BY DEF TableInv
  <2>2. said[ip].peer = addrs[ip].peer
    BY <1>4 DEF Announced
  <2>3. said[ip].there => said[ip].peer # "none" \/ said[ip].hashes # {}
    BY <1>4, <2>1 DEF Announced, EntryRight
  <2>4. ~said[ip].there => said[ip] = T!NoInfo
    BY <1>4, <2>1 DEF Announced, EntryRight
  <2>5. said[ip].hashes \subseteq HashIds
    BY <1>4 DEF T!Infos
  <2>6. \A h \in said[ip].hashes : h # id => ip \in hashes'[h]
    BY <1>3, <1>4, <2>1, <2>5 DEF Announced, EntryRight
  <2>7. id \in said[ip].hashes => ip \in all
    BY <1>4, <2>1 DEF Announced, EntryRight
  <2>8. CASE ip \in out /\ said[ip].there
    <3>1. CASE said[ip].hashes \ {id} = {} /\ said[ip].peer = "none"
      BY <3>1, <2>8, <1>2, <1>5, EntryKept DEF T!ForgetHash, T!NoPeer
    <3>2. CASE ~(said[ip].hashes \ {id} = {} /\ said[ip].peer = "none")
      <4>1. addrs'[ip] = [peer |-> said[ip].peer, hashes |-> said[ip].hashes \ {id}, there |-> said[ip].there]
        BY <3>2, <2>8, <1>5 DEF T!ForgetHash, T!NoPeer
      <4>2. addrs'[ip].peer = said[ip].peer /\ addrs'[ip].hashes = said[ip].hashes \ {id}
            /\ addrs'[ip].there
        BY <4>1, <2>8
      <4> QED BY <4>2, <3>2, <2>2, <2>6, <1>2, EntryKept
    <3> QED BY <3>1, <3>2
  <2>9. CASE ~(ip \in out /\ said[ip].there)
    <3>1. addrs'[ip] = said[ip] BY <2>9, <1>5
    <3>2. id \in said[ip].hashes => said[ip].there
      BY <2>4 DEF T!NoInfo
    <3>3. id \in said[ip].hashes => ip \in hashes'[id]
      BY <3>2, <2>7, <2>9, <1>3
    <3> QED BY <3>1, <3>3, <2>2, <2>3, <2>4, <2>6, <1>2, EntryKept
  <2> QED BY <2>8, <2>9
<1> QED BY <1>2, <1>7, <1>8 DEF TableInv, TreeRight

LEMMA TableNext == TableInv /\ [T!Next]_tableVars => TableInv'
<1> SUFFICES ASSUME TableInv, [T!Next]_tableVars PROVE TableInv' OBVIOUS
<1>1. ASSUME UNCHANGED tableVars PROVE TableInv'
  BY <1>1 DEF tableVars, TableInv, TreeRight, EntryRight, T!TypeOK
<1>2. ASSUME NEW id \in NodeIds, NEW addr \in T!Addresses,
             T!AcceptNode(id, addr) \/ T!UpdateNode(id, addr)
      PROVE  TableInv'
  BY <1>2, AcceptNodeKeeps, UpdateNodeKeeps
<1>3. ASSUME NEW id \in NodeIds, T!RejectNode(id) \/ T!DropNode(id) PROVE TableInv'
  <2>1. CASE UNCHANGED tableVars BY <2>1, <1>1
  <2>2. CASE T!DropNode(id) /\ nodes[id] # T!NoAddr BY <2>2, DropNodeKeeps
  <2> QED BY <1>3, <2>1, <2>2 DEF T!RejectNode, T!DropNode, tableVars
<1>4. ASSUME NEW id \in HashIds, NEW ip \in Ips, T!AcceptHash(id, ip) \/ T!UpdateHash(id, ip)
      PROVE  TableInv'
  BY <1>4, AcceptHashKeeps, UpdateHashKeeps
<1>5. ASSUME NEW id \in HashIds, T!RejectHash(id) PROVE TableInv'
  BY <1>5, <1>1 DEF T!RejectHash, tableVars
<1> QED BY <1>1, <1>2, <1>3, <1>4, <1>5 DEF T!Next

----------------------------------------------------------------------------
(***************************************************************************)
(* The responder, for any goroutines, bursts, sizes of the cache and       *)
(* changes.  What a limiter has passed, what is between it and the global  *)
(* one, and what it has left, was in its bucket; an address has had a      *)
(* limiter for each that was forgotten and one if it is in the cache; and  *)
(* a token that is out was sent to who asked.                              *)
(***************************************************************************)

\* The instance's own name for Cardinality.
LEMMA CardinalityOfR == \A Q : R!Cardinality(Q) = Cardinality(Q)
BY DEF R!Cardinality, Cardinality

\* A query in the hands of a goroutine; what is counted of each address and of each limiter.
Handled ==
    [step : {"limit", "draw", "global", "respond"}, ip : Ips, method : R!Methods, hash : HashIds,
     shown : SUBSET tokens, generation : 0 .. keyed, number : Nat]
Numbers == [R!Generations -> [Ips -> Nat]]
Counts == [R!Limiters -> Nat]

\* The limiter that a query holds, once it has looked it up, and how many there were at a time.
LimiterOf(q) == <<q.generation, q.ip, q.number>>
Made(l) == made[l[1]][l[2]]

\* Types.
ResponderTypes ==
    /\ enabled \in BOOLEAN
    /\ query \in [QuerySlots -> {R!Free} \cup Handled]
    /\ keyed \in Nat /\ changes \in Nat /\ keyed <= changes /\ changes <= MaxRefills
    /\ known \in [R!Generations -> SUBSET Ips] /\ made \in Numbers /\ forgotten \in Numbers
    /\ buckets \in [R!Limiters -> 0 .. PerIpBurst]
    /\ global \in 0 .. GlobalBurst
    /\ passed \in Counts /\ gained \in Counts
    /\ peers \in [HashIds -> SUBSET Ips]

\* A token was sent to who asked, and a peer is stored for who showed one.
TokensAsked ==
    /\ \A t \in tokens : \E h \in HashIds, i \in Ips : t = R!Token(h, i) /\ <<h, i>> \in asked
    /\ \A h \in HashIds : \A i \in peers[h] : <<h, i>> \in asked

\* The limiters made for an address are those that were forgotten and the one in the cache; and
\* a generation that is to come has made none.
LimitersKnown ==
    \A g \in R!Generations, i \in Ips :
        /\ made[g][i] = forgotten[g][i] + (IF i \in known[g] THEN 1 ELSE 0)
        /\ forgotten[g][i] <= changes
        /\ g > keyed => made[g][i] = 0

\* Who is past the lookup holds a limiter that was made, in the cache or not.
Held(q, table) ==
    q = R!Free \/ q.step = "limit" \/ (1 <= q.number /\ q.number <= table[q.generation][q.ip])
HeldLimiters == \A s \in QuerySlots : Held(query[s], made)

\* The queries that have a token of a limiter and none yet of the global one.
Between(l) == {s \in QuerySlots : query[s].step = "global" /\ LimiterOf(query[s]) = l}

\* What passed, what is between the limits and what is left was in the bucket.
BucketBudget ==
    \A l \in R!Limiters :
        /\ passed[l] + Cardinality(Between(l)) + buckets[l] <= PerIpBurst + gained[l]
        /\ l[3] > Made(l) => passed[l] = 0

ResponderInv ==
    ResponderTypes /\ TokensAsked /\ LimitersKnown /\ HeldLimiters /\ BucketBudget /\ drawn = passed

\* Of finitely many goroutines, so many are between the limits.
LEMMA BetweenFinite ==
    \A l : IsFiniteSet(Between(l)) /\ Cardinality(Between(l)) \in Nat
<1> SUFFICES ASSUME NEW l
    PROVE IsFiniteSet(Between(l)) /\ Cardinality(Between(l)) \in Nat
  OBVIOUS
<1>1. IsFiniteSet(Between(l))
  BY ResponderAssumption, FS_Subset DEF Between
<1> QED BY <1>1, FS_CardinalityType

LEMMA BetweenFiniteNext ==
    \A l : IsFiniteSet(Between(l)') /\ Cardinality(Between(l)') \in Nat
<1> SUFFICES ASSUME NEW l
    PROVE IsFiniteSet(Between(l)') /\ Cardinality(Between(l)') \in Nat
  OBVIOUS
<1>1. IsFiniteSet(Between(l)')
  BY ResponderAssumption, FS_Subset DEF Between
<1> QED BY <1>1, FS_CardinalityType

\* A limiter is of a generation and an address, and has been counted with them.
LEMMA LimiterParts ==
    ASSUME ResponderTypes, NEW l \in R!Limiters
    PROVE  l[1] \in R!Generations /\ l[2] \in Ips /\ l[3] \in Nat /\ Made(l) \in Nat
<1>1. l[1] \in R!Generations /\ l[2] \in Ips /\ l[3] \in Nat
  BY ResponderAssumption DEF R!Limiters
<1> QED BY <1>1 DEF Made, ResponderTypes, Numbers

LEMMA ResponderSafe == ResponderInv => AnswersInBudget
<1> SUFFICES ASSUME ResponderInv PROVE AnswersInBudget OBVIOUS
<1> USE DEF ResponderInv
<1>1. R!TypeOK
  <2>1. keyed \in R!Generations
    BY ResponderAssumption DEF ResponderTypes, R!Generations
  <2>2. \A s \in QuerySlots :
            query[s] = R!Free \/ query[s].step \in {"limit", "draw", "global", "respond"}
    BY DEF ResponderTypes, Handled
  <2>3. \A g \in R!Generations : known[g] \subseteq Ips
    BY DEF ResponderTypes
  <2> QED BY <2>1, <2>2, <2>3 DEF ResponderTypes, R!TypeOK
<1>2. R!AnnouncedAskedBefore
  BY DEF TokensAsked, R!AnnouncedAskedBefore
<1>3. R!AddressBudget
  <2>1. ASSUME NEW l \in R!Limiters
        PROVE  passed[l] <= PerIpBurst + gained[l] /\ (l[3] > made[l[1]][l[2]] => passed[l] = 0)
    <3>1. passed[l] \in Nat /\ gained[l] \in Nat /\ buckets[l] \in Nat
      BY DEF ResponderTypes, Counts
    <3> QED BY <3>1, BetweenFinite, ResponderAssumption DEF BucketBudget, Made
  <2>2. ASSUME NEW g \in R!Generations, NEW i \in Ips
        PROVE  made[g][i] <= 1 + forgotten[g][i] /\ (g > keyed => made[g][i] = 0)
    <3>1. made[g][i] \in Nat /\ forgotten[g][i] \in Nat
      BY DEF ResponderTypes, Numbers
    <3> QED BY <3>1 DEF LimitersKnown
  <2> QED BY <2>1, <2>2 DEF R!AddressBudget
<1> QED BY <1>1, <1>2, <1>3 DEF AnswersInBudget, R!FloodSparesOthers

LEMMA ResponderInit == R!Init => ResponderInv
<1> SUFFICES ASSUME R!Init PROVE ResponderInv OBVIOUS
<1> USE ResponderAssumption DEF R!Init
<1>1. ResponderTypes
  BY DEF ResponderTypes, Counts, Numbers, R!Generations
<1>2. TokensAsked BY DEF TokensAsked
<1>3. LimitersKnown BY DEF LimitersKnown
<1>4. HeldLimiters BY DEF HeldLimiters, Held
<1>5. BucketBudget
  <2>1. ASSUME NEW l \in R!Limiters
        PROVE  /\ passed[l] + Cardinality(Between(l)) + buckets[l] <= PerIpBurst + gained[l]
               /\ l[3] > Made(l) => passed[l] = 0
    <3>1. Between(l) = {} BY DEF Between, R!Free
    <3>2. Cardinality(Between(l)) = 0 BY <3>1, FS_EmptySet
    <3>3. passed[l] = 0 /\ gained[l] = 0 /\ buckets[l] = PerIpBurst
      OBVIOUS
    <3> QED BY <3>2, <3>3
  <2> QED BY <2>1 DEF BucketBudget
<1> QED BY <1>1, <1>2, <1>3, <1>4, <1>5 DEF ResponderInv

\* Another state of one query.
OneMoves(s, q) == query' = [query EXCEPT ![s] = q]
IsBetween(q, l) == q.step = "global" /\ LimiterOf(q) = l

LEMMA OneMoreOrLess ==
    ASSUME NEW Q, NEW x, IsFiniteSet(Q), Cardinality(Q) \in Nat
    PROVE  /\ x \in Q => Cardinality(Q \ {x}) + 1 = Cardinality(Q)
           /\ x \notin Q => Cardinality(Q \cup {x}) = Cardinality(Q) + 1 /\ Q \ {x} = Q
<1>1. x \in Q => Cardinality(Q \ {x}) = Cardinality(Q) - 1
  BY FS_RemoveElement
<1>2. x \notin Q => Cardinality(Q \cup {x}) = Cardinality(Q) + 1
  BY FS_AddElement
<1> QED BY <1>1, <1>2

\* Between the limits there is one more or one less, or as many, as this query was there and is.
LEMMA BetweenMoves ==
    ASSUME NEW s \in QuerySlots, NEW q, NEW l,
           query \in [QuerySlots -> {R!Free} \cup Handled], OneMoves(s, q)
    PROVE  /\ IsBetween(query[s], l) /\ ~IsBetween(q, l) =>
                Cardinality(Between(l)') + 1 = Cardinality(Between(l))
           /\ ~IsBetween(query[s], l) /\ IsBetween(q, l) =>
                Cardinality(Between(l)') = Cardinality(Between(l)) + 1
           /\ ~IsBetween(query[s], l) /\ ~IsBetween(q, l) => Between(l)' = Between(l)
<1>1. query'[s] = q /\ \A w \in QuerySlots \ {s} : query'[w] = query[w]
  BY DEF OneMoves
<1>2. Between(l)' = IF IsBetween(q, l) THEN Between(l) \cup {s} ELSE Between(l) \ {s}
  BY <1>1 DEF Between, IsBetween, LimiterOf
<1>3. s \in Between(l) <=> IsBetween(query[s], l)
  BY DEF Between, IsBetween
<1>4. IsFiniteSet(Between(l)) /\ Cardinality(Between(l)) \in Nat
  BY BetweenFinite
<1>5. /\ s \in Between(l) => Cardinality(Between(l) \ {s}) + 1 = Cardinality(Between(l))
      /\ s \notin Between(l) => /\ Cardinality(Between(l) \cup {s}) = Cardinality(Between(l)) + 1
                                /\ Between(l) \ {s} = Between(l)
  BY <1>4, OneMoreOrLess
<1> QED BY <1>2, <1>3, <1>5

\* No number of limiters goes down.
Grows == made' \in Numbers /\ \A g \in R!Generations, i \in Ips : made[g][i] <= made'[g][i]

\* A query in hand holds a limiter of the generations there are.
LEMMA HandledTypes ==
    ASSUME ResponderInv, NEW s \in QuerySlots, query[s] # R!Free
    PROVE  /\ query[s] \in Handled /\ query[s].generation \in R!Generations /\ query[s].ip \in Ips
           /\ query[s].generation <= keyed /\ query[s].number \in Nat
<1>1. query[s] \in Handled
  BY DEF ResponderInv, ResponderTypes
<1>2. keyed \in Nat /\ keyed <= MaxRefills
  BY ResponderAssumption DEF ResponderInv, ResponderTypes
<1> QED BY <1>1, <1>2, ResponderAssumption DEF Handled, R!Generations

\* What a query has in hand stays possible while tokens are added and limiters are made.
LEMMA StaysHandled ==
    ASSUME ResponderInv, tokens \subseteq tokens', keyed' \in Nat, keyed <= keyed', Grows,
           NEW s \in QuerySlots, NEW q \in {R!Free} \cup Handled', OneMoves(s, q), Held(q, made')
    PROVE  query' \in [QuerySlots -> {R!Free} \cup Handled'] /\ HeldLimiters'
<1>1. Handled \subseteq Handled'
  BY DEF Handled, ResponderInv, ResponderTypes
<1>2. query' \in [QuerySlots -> {R!Free} \cup Handled']
  BY <1>1 DEF OneMoves, ResponderInv, ResponderTypes
<1>3. query'[s] = q /\ \A w \in QuerySlots \ {s} : query'[w] = query[w]
  BY DEF OneMoves, ResponderInv, ResponderTypes
<1>4. ASSUME NEW w \in QuerySlots, w # s PROVE Held(query'[w], made')
  <2>1. query'[w] = query[w] /\ Held(query[w], made)
    BY <1>3, <1>4 DEF ResponderInv, HeldLimiters
  <2>2. CASE query[w] = R!Free \/ query[w].step = "limit"
    BY <2>1, <2>2 DEF Held
  <2>3. CASE query[w] # R!Free /\ query[w].step # "limit"
    <3> DEFINE g == query[w].generation
               i == query[w].ip
    <3>1. g \in R!Generations /\ i \in Ips /\ query[w].number \in Nat
      BY <2>3, HandledTypes
    <3>2. made[g][i] \in Nat /\ made'[g][i] \in Nat /\ made[g][i] <= made'[g][i]
      BY <3>1 DEF Grows, Numbers, ResponderInv, ResponderTypes
    <3>3. 1 <= query[w].number /\ query[w].number <= made[g][i]
      BY <2>1, <2>3 DEF Held
    <3> QED BY <2>1, <3>1, <3>2, <3>3 DEF Held
  <2> QED BY <2>2, <2>3
<1>5. Held(query'[s], made')
  BY <1>3 DEF Held
<1> QED BY <1>2, <1>4, <1>5 DEF HeldLimiters

\* Nor is it a matter of who does nothing.
LEMMA NobodyMoves ==
    ASSUME ResponderInv, UNCHANGED <<query, made, tokens>>, keyed' \in Nat, keyed <= keyed'
    PROVE  /\ query' \in [QuerySlots -> {R!Free} \cup Handled'] /\ HeldLimiters'
           /\ \A l : Between(l)' = Between(l)
<1>1. Handled \subseteq Handled'
  BY DEF Handled, ResponderInv, ResponderTypes
<1> QED BY <1>1 DEF ResponderInv, ResponderTypes, HeldLimiters, Held, Between, LimiterOf

\* A step that neither makes nor forgets limiters.
LEMMA LimitersKept ==
    ASSUME ResponderInv, UNCHANGED <<known, made, forgotten>>,
           keyed' \in Nat, keyed <= keyed', changes' \in Nat, changes <= changes'
    PROVE  LimitersKnown' /\ Grows
<1>1. ASSUME NEW g \in R!Generations, NEW i \in Ips
      PROVE  /\ made[g][i] \in Nat /\ forgotten[g][i] <= changes' /\ (g > keyed' => made[g][i] = 0)
  <2>1. /\ made[g][i] \in Nat /\ forgotten[g][i] \in Nat /\ changes \in Nat /\ keyed \in Nat
        /\ g \in Nat
    BY ResponderAssumption DEF ResponderInv, ResponderTypes, Numbers, R!Generations
  <2>2. forgotten[g][i] <= changes /\ (g > keyed => made[g][i] = 0)
    BY DEF ResponderInv, LimitersKnown
  <2> QED BY <2>1, <2>2
<1>2. LimitersKnown'
  BY <1>1 DEF ResponderInv, LimitersKnown
<1>3. Grows
  BY <1>1 DEF Grows, ResponderInv, ResponderTypes
<1> QED BY <1>2, <1>3

\* The arithmetic of the budget, for one limiter.
LEMMA BudgetStep ==
    ASSUME ResponderInv, Grows,
           \A l \in R!Limiters :
               /\ passed'[l] \in Nat /\ buckets'[l] \in Nat /\ gained'[l] \in Nat
               /\ passed'[l] + Cardinality(Between(l)') + buckets'[l] - gained'[l]
                    <= passed[l] + Cardinality(Between(l)) + buckets[l] - gained[l]
               /\ passed'[l] = passed[l] \/ l[3] <= Made(l)
    PROVE  BucketBudget'
<1>1. ASSUME NEW l \in R!Limiters
      PROVE  (/\ passed[l] + Cardinality(Between(l)) + buckets[l] <= PerIpBurst + gained[l]
              /\ l[3] > Made(l) => passed[l] = 0)'
  <2>1. /\ passed[l] + Cardinality(Between(l)) + buckets[l] <= PerIpBurst + gained[l]
        /\ l[3] > Made(l) => passed[l] = 0
    BY DEF ResponderInv, BucketBudget
  <2>2. passed[l] \in Nat /\ buckets[l] \in Nat /\ gained[l] \in Nat
    BY ResponderAssumption DEF ResponderInv, ResponderTypes, Counts
  <2>3. l[3] \in Nat /\ Made(l) \in Nat /\ Made(l)' \in Nat /\ Made(l) <= Made(l)'
    <3>1. l[1] \in R!Generations /\ l[2] \in Ips /\ l[3] \in Nat /\ Made(l) \in Nat
      BY LimiterParts DEF ResponderInv
    <3>2. made'[l[1]][l[2]] \in Nat /\ made[l[1]][l[2]] <= made'[l[1]][l[2]]
      BY <3>1 DEF Grows, Numbers
    <3> QED BY <3>1, <3>2 DEF Made
  <2>4. Cardinality(Between(l)) \in Nat /\ Cardinality(Between(l)') \in Nat
    BY BetweenFinite, BetweenFiniteNext
  <2>5. passed'[l] + Cardinality(Between(l)') + buckets'[l] <= PerIpBurst + gained'[l]
    BY <2>1, <2>2, <2>4, ResponderAssumption
  <2>6. l[3] > Made(l)' => passed'[l] = 0
    BY <2>1, <2>3
  <2> QED BY <2>5, <2>6
<1> QED BY <1>1 DEF BucketBudget

\* A query that arrives or ends, and none that moves between the limits, is no matter of the
\* budgets.
LEMMA BudgetKept ==
    ASSUME ResponderInv, Grows, UNCHANGED <<buckets, passed, gained>>,
           \A l \in R!Limiters : Cardinality(Between(l)') <= Cardinality(Between(l))
    PROVE  BucketBudget'
<1>1. ASSUME NEW l \in R!Limiters
      PROVE  /\ passed'[l] \in Nat /\ buckets'[l] \in Nat /\ gained'[l] \in Nat
             /\ passed'[l] + Cardinality(Between(l)') + buckets'[l] - gained'[l]
                  <= passed[l] + Cardinality(Between(l)) + buckets[l] - gained[l]
  <2>1. passed[l] \in Nat /\ buckets[l] \in Nat /\ gained[l] \in Nat
    BY ResponderAssumption DEF ResponderInv, ResponderTypes, Counts
  <2>2. Cardinality(Between(l)') \in Nat /\ Cardinality(Between(l)) \in Nat
    BY BetweenFinite, BetweenFiniteNext
  <2> QED BY <2>1, <2>2
<1> QED BY <1>1, BudgetStep

\* A step of one query that leaves all limiters alone and neither comes nor goes between the limits.
LEMMA AsidesKeep ==
    ASSUME ResponderInv, NEW s \in QuerySlots, NEW q \in {R!Free} \cup Handled', OneMoves(s, q),
           UNCHANGED <<enabled, keyed, known, made, forgotten, buckets, global, passed, drawn, gained, changes>>,
           query[s].step # "global", q.step # "global", tokens \subseteq tokens',
           peers' \in [HashIds -> SUBSET Ips], TokensAsked',
           Held(q, made')
    PROVE  ResponderInv'
<1>1. LimitersKnown' /\ Grows
  BY LimitersKept DEF ResponderInv, ResponderTypes
<1>2. query' \in [QuerySlots -> {R!Free} \cup Handled'] /\ HeldLimiters'
  BY <1>1, StaysHandled DEF Held, ResponderInv, ResponderTypes
<1>3. ResponderTypes'
  BY <1>2 DEF ResponderInv, ResponderTypes, Counts, Numbers
<1>4. \A l : Between(l)' = Between(l)
  BY BetweenMoves DEF IsBetween, ResponderInv, ResponderTypes
<1>5. \A l : Cardinality(Between(l)') <= Cardinality(Between(l))
  BY <1>4, BetweenFinite
<1>6. BucketBudget'
  BY <1>1, <1>5, BudgetKept
<1> QED BY <1>1, <1>2, <1>3, <1>6 DEF ResponderInv

LEMMA ReceiveKeeps ==
    ASSUME ResponderInv, NEW s \in QuerySlots, NEW ip \in Ips, NEW m \in R!Methods, NEW h \in HashIds,
           NEW shown \in SUBSET tokens, R!Receive(s, ip, m, h, shown)
    PROVE  ResponderInv'
<1> DEFINE q == [step |-> "limit", ip |-> ip, method |-> m, hash |-> h, shown |-> shown,
                 generation |-> keyed, number |-> 0]
<1>1. /\ OneMoves(s, q) /\ query[s] = R!Free
      /\ UNCHANGED <<enabled, keyed, known, made, forgotten, buckets, global, tokens, asked, peers,
                     passed, drawn, gained, changes>>
  BY DEF R!Receive, OneMoves, R!cacheVars, R!answerVars
<1>2. q \in Handled' /\ q.step = "limit"
  BY <1>1 DEF Handled, ResponderInv, ResponderTypes
<1>3. query[s].step # "global"
  BY <1>1 DEF R!Free
<1> HIDE DEF q
<1>4. TokensAsked' /\ peers' \in [HashIds -> SUBSET Ips]
  BY <1>1 DEF TokensAsked, ResponderInv, ResponderTypes
<1> QED BY <1>1, <1>2, <1>3, <1>4, AsidesKeep DEF Held

\* A query that has got a limiter.
LEMMA HandledHolds ==
    ASSUME NEW x \in Handled, NEW n \in Nat
    PROVE  LET q == [x EXCEPT !.step = "draw", !.number = n]
           IN  q \in Handled /\ q.step = "draw" /\ q.number = n /\ q.generation = x.generation /\ q.ip = x.ip
BY DEF Handled

\* The limiter of the cache is the last that was made.
LEMMA FindLimiterKeeps ==
    ASSUME ResponderInv, NEW s \in QuerySlots, R!FindLimiter(s)
    PROVE  ResponderInv'
<1> DEFINE g == query[s].generation
           i == query[s].ip
           q == [query[s] EXCEPT !.step = "draw", !.number = made[g][i]]
<1>1. /\ query[s].step = "limit" /\ i \in known[g] /\ OneMoves(s, q)
      /\ UNCHANGED <<enabled, keyed, known, made, forgotten, buckets, global, tokens, asked, peers,
                     passed, drawn, gained, changes>>
  <2>1. query' = [query EXCEPT ![s].step = "draw", ![s].number = made[g][i]]
    BY DEF R!FindLimiter, R!Holds
  <2>2. OneMoves(s, q) BY <2>1 DEF OneMoves, ResponderInv, ResponderTypes
  <2> QED BY <2>2 DEF R!FindLimiter, R!At, R!Missed, R!cacheVars, R!answerVars
<1>2. query[s] \in Handled /\ g \in R!Generations /\ i \in Ips
  BY <1>1, HandledTypes DEF R!Free
<1>3. made[g][i] \in Nat /\ forgotten[g][i] \in Nat
  BY <1>2 DEF ResponderInv, ResponderTypes, Numbers
<1>4. 1 <= made[g][i]
  BY <1>1, <1>2, <1>3 DEF ResponderInv, LimitersKnown
<1>5. q \in Handled' /\ q.step = "draw" /\ q.number = made[g][i] /\ q.generation = g /\ q.ip = i
  BY <1>1, <1>2, <1>3 DEF Handled
<1>6. TokensAsked' /\ peers' \in [HashIds -> SUBSET Ips]
  BY <1>1 DEF TokensAsked, ResponderInv, ResponderTypes
<1>7. q.number <= made'[q.generation][q.ip]
  BY <1>1, <1>3, <1>5
<1> HIDE DEF q, g, i
<1> QED BY <1>1, <1>4, <1>5, <1>6, <1>7, AsidesKeep DEF Held

\* One entry of a table by generation and address.
LEMMA OneEntry ==
    ASSUME NEW V, NEW E \in [R!Generations -> [Ips -> V]], NEW b \in R!Generations, NEW a \in Ips, NEW v \in V
    PROVE  /\ [E EXCEPT ![b][a] = v] \in [R!Generations -> [Ips -> V]]
           /\ \A g \in R!Generations, i \in Ips :
                [E EXCEPT ![b][a] = v][g][i] = IF g = b /\ i = a THEN v ELSE E[g][i]
OBVIOUS

\* A limiter that is forgotten leaves the cache, and is counted.
Forgets(b, a) ==
    /\ changes < MaxRefills /\ changes' = changes + 1
    /\ forgotten' = [forgotten EXCEPT ![b][a] = forgotten[b][a] + 1]

LEMMA ForgetsOne ==
    ASSUME ResponderInv, NEW b \in R!Generations, NEW a \in known[b], Forgets(b, a)
    PROVE  /\ changes' \in Nat /\ keyed <= changes' /\ changes' <= MaxRefills /\ forgotten' \in Numbers
           /\ a \in Ips
           /\ \A g \in R!Generations, i \in Ips :
                /\ forgotten'[g][i] = IF g = b /\ i = a THEN forgotten[g][i] + 1 ELSE forgotten[g][i]
                /\ forgotten'[g][i] <= changes'
<1>1. a \in Ips /\ forgotten \in Numbers /\ changes \in Nat /\ keyed \in Nat /\ keyed <= changes
  BY DEF ResponderInv, ResponderTypes
<1>2. forgotten[b][a] + 1 \in Nat
  BY <1>1 DEF Numbers
<1>3. /\ forgotten' \in Numbers
      /\ \A g \in R!Generations, i \in Ips :
           forgotten'[g][i] = IF g = b /\ i = a THEN forgotten[b][a] + 1 ELSE forgotten[g][i]
  BY <1>1, <1>2, OneEntry DEF Forgets, Numbers
<1>4. ASSUME NEW g \in R!Generations, NEW i \in Ips PROVE forgotten'[g][i] <= changes'
  <2>1. forgotten[g][i] \in Nat /\ forgotten[g][i] <= changes /\ forgotten[b][a] <= changes
    BY <1>1 DEF Numbers, ResponderInv, LimitersKnown
  <2> QED BY <1>1, <1>2, <1>3, <2>1 DEF Forgets
<1> QED BY <1>1, <1>3, <1>4, ResponderAssumption DEF Forgets

LEMMA ExpireKeeps ==
    ASSUME ResponderInv, R!Expire
    PROVE  ResponderInv'
<1>1. PICK b \in R!Generations : \E a \in known[b] :
            R!Forget(b, a) /\ known' = [known EXCEPT ![b] = known[b] \ {a}]
  BY DEF R!Expire
<1>2. PICK a \in known[b] : Forgets(b, a) /\ known' = [known EXCEPT ![b] = known[b] \ {a}]
  BY <1>1 DEF R!Forget, Forgets
<1>3. UNCHANGED <<enabled, query, keyed, made, buckets, global, tokens, asked, peers, passed, drawn, gained>>
  BY DEF R!Expire, R!answerVars
<1>4. /\ changes' \in Nat /\ keyed <= changes' /\ changes' <= MaxRefills /\ forgotten' \in Numbers
      /\ a \in Ips
      /\ \A g \in R!Generations, i \in Ips :
           /\ forgotten'[g][i] = IF g = b /\ i = a THEN forgotten[g][i] + 1 ELSE forgotten[g][i]
           /\ forgotten'[g][i] <= changes'
  BY <1>2, ForgetsOne
<1>5. /\ known' \in [R!Generations -> SUBSET Ips]
      /\ \A g \in R!Generations, i \in Ips : i \in known'[g] <=> i \in known[g] /\ ~(g = b /\ i = a)
  BY <1>2 DEF ResponderInv, ResponderTypes
<1>6. keyed' \in Nat /\ keyed <= keyed'
  BY <1>3 DEF ResponderInv, ResponderTypes
<1>7. query' \in [QuerySlots -> {R!Free} \cup Handled'] /\ HeldLimiters' /\ \A l : Between(l)' = Between(l)
  BY <1>3, <1>6, NobodyMoves
<1>8. ResponderTypes'
  BY <1>3, <1>4, <1>5, <1>7 DEF ResponderInv, ResponderTypes, Counts, Numbers
<1>9. ASSUME NEW g \in R!Generations, NEW i \in Ips
      PROVE  /\ made'[g][i] = forgotten'[g][i] + (IF i \in known'[g] THEN 1 ELSE 0)
             /\ forgotten'[g][i] <= changes' /\ (g > keyed' => made'[g][i] = 0)
  <2>1. made[g][i] \in Nat /\ forgotten[g][i] \in Nat
    BY DEF ResponderInv, ResponderTypes, Numbers
  <2>2. /\ made[g][i] = forgotten[g][i] + (IF i \in known[g] THEN 1 ELSE 0)
        /\ g > keyed => made[g][i] = 0
    BY DEF ResponderInv, LimitersKnown
  <2> QED BY <1>2, <1>3, <1>4, <1>5, <2>1, <2>2
<1>10. LimitersKnown' BY <1>9 DEF LimitersKnown
<1>11. Grows
  <2>1. \A g \in R!Generations, i \in Ips : made[g][i] \in Nat
    BY DEF ResponderInv, ResponderTypes, Numbers
  <2> QED BY <1>3, <2>1 DEF Grows, ResponderInv, ResponderTypes
<1>12. \A l : Cardinality(Between(l)') <= Cardinality(Between(l))
  BY <1>7, BetweenFinite
<1>13. BucketBudget'
  BY <1>3, <1>11, <1>12, BudgetKept
<1> QED BY <1>3, <1>7, <1>8, <1>10, <1>13 DEF ResponderInv, TokensAsked

\* A new limiter is the last, and takes the place of another if the cache is full.
LEMMA MakeLimiterKeeps ==
    ASSUME ResponderInv, NEW s \in QuerySlots, R!MakeLimiter(s)
    PROVE  ResponderInv'
<1>1. PICK b : b = query[s].generation OBVIOUS
<1>2. PICK a : a = query[s].ip OBVIOUS
<1> DEFINE q == [query[s] EXCEPT !.step = "draw", !.number = made[b][a] + 1]
<1>3. /\ query[s].step = "limit" /\ a \notin known[b] /\ OneMoves(s, q)
      /\ made' = [made EXCEPT ![b][a] = made[b][a] + 1]
      /\ UNCHANGED <<enabled, keyed, buckets, global, tokens, asked, peers, passed, drawn, gained>>
  <2>1. query' = [query EXCEPT ![s].step = "draw", ![s].number = made[b][a] + 1]
    BY <1>1, <1>2 DEF R!MakeLimiter, R!Holds
  <2>2. OneMoves(s, q) BY <2>1 DEF OneMoves, ResponderInv, ResponderTypes
  <2> QED BY <1>1, <1>2, <2>2 DEF R!MakeLimiter, R!At, R!Missed, R!answerVars
<1>4. query[s] \in Handled /\ b \in R!Generations /\ a \in Ips /\ b <= keyed /\ query[s].number \in Nat
  BY <1>1, <1>2, <1>3, HandledTypes DEF R!Free
<1>5. made[b][a] \in Nat /\ forgotten[b][a] \in Nat /\ made[b][a] = forgotten[b][a]
  BY <1>3, <1>4 DEF ResponderInv, ResponderTypes, Numbers, LimitersKnown
<1>6. /\ made' \in Numbers
      /\ \A g \in R!Generations, i \in Ips :
           made'[g][i] = IF g = b /\ i = a THEN made[b][a] + 1 ELSE made[g][i]
  <2>1. made \in [R!Generations -> [Ips -> Nat]] /\ made[b][a] + 1 \in Nat
    BY <1>5 DEF ResponderInv, ResponderTypes, Numbers
  <2> QED BY <1>3, <1>4, <2>1, OneEntry DEF Numbers
<1>7. Grows
  <2>1. \A g \in R!Generations, i \in Ips : made[g][i] \in Nat
    BY DEF ResponderInv, ResponderTypes, Numbers
  <2> QED BY <1>5, <1>6, <2>1 DEF Grows
<1>8. \/ known' = [known EXCEPT ![b] = known[b] \cup {a}] /\ UNCHANGED <<forgotten, changes>>
      \/ \E old \in known[b] : Forgets(b, old) /\ known' = [known EXCEPT ![b] = (known[b] \ {old}) \cup {a}]
  BY <1>1, <1>2 DEF R!MakeLimiter, R!Forget, Forgets
<1>9. /\ changes' \in Nat /\ keyed <= changes' /\ changes' <= MaxRefills /\ forgotten' \in Numbers
      /\ known' \in [R!Generations -> SUBSET Ips]
      /\ \A g \in R!Generations, i \in Ips :
           /\ forgotten'[g][i] <= changes'
           /\ forgotten'[g][i] + (IF i \in known'[g] THEN 1 ELSE 0)
                = forgotten[g][i] + (IF i \in known[g] THEN 1 ELSE 0) + (IF g = b /\ i = a THEN 1 ELSE 0)
  <2>1. CASE known' = [known EXCEPT ![b] = known[b] \cup {a}] /\ UNCHANGED <<forgotten, changes>>
    <3>1. /\ known' \in [R!Generations -> SUBSET Ips]
          /\ \A g \in R!Generations, i \in Ips : i \in known'[g] <=> i \in known[g] \/ (g = b /\ i = a)
      BY <1>4, <2>1 DEF ResponderInv, ResponderTypes
    <3>2. ASSUME NEW g \in R!Generations, NEW i \in Ips
          PROVE  /\ forgotten'[g][i] <= changes'
                 /\ forgotten'[g][i] + (IF i \in known'[g] THEN 1 ELSE 0)
                      = forgotten[g][i] + (IF i \in known[g] THEN 1 ELSE 0) + (IF g = b /\ i = a THEN 1 ELSE 0)
      <4>1. forgotten[g][i] \in Nat /\ forgotten[g][i] <= changes
        BY DEF ResponderInv, ResponderTypes, Numbers, LimitersKnown
      <4> QED BY <1>3, <2>1, <3>1, <4>1
    <3> QED BY <2>1, <3>1, <3>2 DEF ResponderInv, ResponderTypes, Numbers
  <2>2. ASSUME NEW old \in known[b], Forgets(b, old),
               known' = [known EXCEPT ![b] = (known[b] \ {old}) \cup {a}]
        PROVE  /\ changes' \in Nat /\ keyed <= changes' /\ changes' <= MaxRefills /\ forgotten' \in Numbers
               /\ known' \in [R!Generations -> SUBSET Ips]
               /\ \A g \in R!Generations, i \in Ips :
                    /\ forgotten'[g][i] <= changes'
                    /\ forgotten'[g][i] + (IF i \in known'[g] THEN 1 ELSE 0)
                         = forgotten[g][i] + (IF i \in known[g] THEN 1 ELSE 0)
                              + (IF g = b /\ i = a THEN 1 ELSE 0)
    <3>1. /\ changes' \in Nat /\ keyed <= changes' /\ changes' <= MaxRefills /\ forgotten' \in Numbers
          /\ old \in Ips
          /\ \A g \in R!Generations, i \in Ips :
               /\ forgotten'[g][i] = IF g = b /\ i = old THEN forgotten[g][i] + 1 ELSE forgotten[g][i]
               /\ forgotten'[g][i] <= changes'
      BY <1>4, <2>2, ForgetsOne
    <3>2. /\ known' \in [R!Generations -> SUBSET Ips]
          /\ \A g \in R!Generations, i \in Ips :
               i \in known'[g] <=> (i \in known[g] /\ ~(g = b /\ i = old)) \/ (g = b /\ i = a)
      BY <1>4, <2>2 DEF ResponderInv, ResponderTypes
    <3>3. old # a BY <1>3, <2>2
    <3>4. ASSUME NEW g \in R!Generations, NEW i \in Ips
          PROVE  forgotten'[g][i] + (IF i \in known'[g] THEN 1 ELSE 0)
                   = forgotten[g][i] + (IF i \in known[g] THEN 1 ELSE 0) + (IF g = b /\ i = a THEN 1 ELSE 0)
      <4>1. forgotten[g][i] \in Nat
        BY DEF ResponderInv, ResponderTypes, Numbers
      <4> QED BY <1>3, <2>2, <3>1, <3>2, <3>3, <4>1
    <3> QED BY <3>1, <3>2, <3>4
  <2> QED BY <1>8, <2>1, <2>2
<1>10. ASSUME NEW g \in R!Generations, NEW i \in Ips
       PROVE  /\ made'[g][i] = forgotten'[g][i] + (IF i \in known'[g] THEN 1 ELSE 0)
              /\ forgotten'[g][i] <= changes' /\ (g > keyed' => made'[g][i] = 0)
  <2>1. made[g][i] \in Nat /\ forgotten[g][i] \in Nat /\ g \in Nat /\ keyed \in Nat
    BY ResponderAssumption DEF ResponderInv, ResponderTypes, Numbers, R!Generations
  <2>2. /\ made[g][i] = forgotten[g][i] + (IF i \in known[g] THEN 1 ELSE 0)
        /\ g > keyed => made[g][i] = 0
    BY DEF ResponderInv, LimitersKnown
  <2>3. made'[g][i] = made[g][i] + (IF g = b /\ i = a THEN 1 ELSE 0)
    BY <1>5, <1>6, <2>1
  <2>4. /\ forgotten'[g][i] + (IF i \in known'[g] THEN 1 ELSE 0)
             = forgotten[g][i] + (IF i \in known[g] THEN 1 ELSE 0) + (IF g = b /\ i = a THEN 1 ELSE 0)
        /\ forgotten'[g][i] <= changes'
    BY <1>9
  <2>5. g > keyed' => g > keyed /\ g # b
    BY <1>3, <1>4, <2>1
  <2> QED BY <2>1, <2>2, <2>3, <2>4, <2>5
<1>11. LimitersKnown' BY <1>10 DEF LimitersKnown
<1>12. q \in Handled' /\ q.step = "draw" /\ q.number = made[b][a] + 1 /\ q.generation = b /\ q.ip = a
  <2>1. made[b][a] + 1 \in Nat /\ Handled' = Handled
    BY <1>3, <1>5 DEF Handled
  <2> QED BY <1>1, <1>2, <1>4, <2>1, HandledHolds
<1>13. 1 <= q.number /\ q.number <= made'[q.generation][q.ip]
  BY <1>4, <1>5, <1>6, <1>12
<1> HIDE DEF q
<1>14. query' \in [QuerySlots -> {R!Free} \cup Handled'] /\ HeldLimiters'
  BY <1>3, <1>7, <1>12, <1>13, StaysHandled DEF Held, ResponderInv, ResponderTypes
<1>15. ResponderTypes'
  BY <1>3, <1>6, <1>9, <1>14 DEF ResponderInv, ResponderTypes, Counts
<1>16. \A l : Between(l)' = Between(l)
  BY <1>3, <1>12, BetweenMoves DEF IsBetween, ResponderInv, ResponderTypes
<1>17. \A l : Cardinality(Between(l)') <= Cardinality(Between(l))
  BY <1>16, BetweenFinite
<1>18. BucketBudget'
  BY <1>3, <1>7, <1>17, BudgetKept
<1> QED BY <1>3, <1>11, <1>14, <1>15, <1>18 DEF ResponderInv, TokensAsked

\* The counter of one limiter.
LEMMA OneCounter ==
    ASSUME NEW V, NEW E \in [R!Limiters -> V], NEW k \in R!Limiters, NEW v \in V
    PROVE  /\ [E EXCEPT ![k] = v] \in [R!Limiters -> V]
           /\ \A l \in R!Limiters : [E EXCEPT ![k] = v][l] = IF l = k THEN v ELSE E[l]
OBVIOUS

\* Who is past the lookup holds one of the limiters.
LEMMA HoldsOne ==
    ASSUME ResponderInv, NEW s \in QuerySlots, query[s] # R!Free, query[s].step # "limit"
    PROVE  /\ LimiterOf(query[s]) \in R!Limiters
           /\ LimiterOf(query[s])[3] <= Made(LimiterOf(query[s]))
           /\ 1 <= query[s].number /\ query[s].number <= made[query[s].generation][query[s].ip]
<1> DEFINE g == query[s].generation
           i == query[s].ip
<1>1. g \in R!Generations /\ i \in Ips /\ query[s].number \in Nat
  BY HandledTypes
<1>2. 1 <= query[s].number /\ query[s].number <= made[g][i]
  BY DEF ResponderInv, HeldLimiters, Held
<1>3. /\ made[g][i] \in Nat /\ forgotten[g][i] \in Nat /\ changes \in Nat /\ changes <= MaxRefills
      /\ made[g][i] = forgotten[g][i] + (IF i \in known[g] THEN 1 ELSE 0) /\ forgotten[g][i] <= changes
  BY <1>1 DEF ResponderInv, ResponderTypes, Numbers, LimitersKnown
<1>4. query[s].number \in 1 .. MaxRefills + 1
  BY <1>1, <1>2, <1>3, ResponderAssumption
<1> QED BY <1>1, <1>2, <1>4 DEF LimiterOf, Made, R!Limiters

LEMMA PerIpAllowsKeeps ==
    ASSUME ResponderInv, NEW s \in QuerySlots, R!PerIpAllows(s)
    PROVE  ResponderInv'
<1>1. PICK k : k = LimiterOf(query[s]) OBVIOUS
<1> DEFINE q == [query[s] EXCEPT !.step = "global"]
<1>2. /\ query[s].step = "draw"
      /\ buckets[k] > 0 /\ buckets' = [buckets EXCEPT ![k] = buckets[k] - 1]
      /\ OneMoves(s, q)
      /\ UNCHANGED <<enabled, keyed, known, made, forgotten, global, tokens, asked, peers, passed, drawn,
                     gained, changes>>
  <2>1. query' = [query EXCEPT ![s].step = "global"]
    BY DEF R!PerIpAllows, R!GoesTo
  <2>2. OneMoves(s, q) BY <2>1 DEF OneMoves
  <2> QED BY <1>1, <2>2 DEF R!PerIpAllows, R!At, R!Drawn, R!LimiterOf, LimiterOf, R!cacheVars, R!answerVars
<1>3. query[s] # R!Free /\ query[s].step # "limit"
  BY <1>2 DEF R!Free
<1>4. /\ k \in R!Limiters /\ query[s] \in Handled
      /\ 1 <= query[s].number /\ query[s].number <= made[query[s].generation][query[s].ip]
  BY <1>1, <1>3, HoldsOne, HandledTypes
<1>5. /\ q \in Handled' /\ q.step = "global" /\ LimiterOf(q) = k
      /\ 1 <= q.number /\ q.number <= made'[q.generation][q.ip]
  BY <1>1, <1>2, <1>4 DEF Handled, LimiterOf
<1>6. buckets \in [R!Limiters -> 0 .. PerIpBurst] /\ buckets[k] - 1 \in 0 .. PerIpBurst
  BY <1>2, <1>4, ResponderAssumption DEF ResponderInv, ResponderTypes
<1>7. /\ buckets' \in [R!Limiters -> 0 .. PerIpBurst]
      /\ \A l \in R!Limiters : buckets'[l] = IF l = k THEN buckets[k] - 1 ELSE buckets[l]
  BY <1>2, <1>4, <1>6, OneCounter
<1> HIDE DEF q
<1>8. LimitersKnown' /\ Grows
  BY <1>2, LimitersKept DEF ResponderInv, ResponderTypes
<1>9. query' \in [QuerySlots -> {R!Free} \cup Handled'] /\ HeldLimiters'
  BY <1>2, <1>5, <1>8, StaysHandled DEF Held, ResponderInv, ResponderTypes
<1>10. ResponderTypes'
  BY <1>2, <1>7, <1>9 DEF ResponderInv, ResponderTypes, Counts, Numbers
<1>11. ASSUME NEW l \in R!Limiters
       PROVE  /\ passed'[l] \in Nat /\ buckets'[l] \in Nat /\ gained'[l] \in Nat
              /\ passed'[l] + Cardinality(Between(l)') + buckets'[l] - gained'[l]
                   <= passed[l] + Cardinality(Between(l)) + buckets[l] - gained[l]
              /\ passed'[l] = passed[l] \/ l[3] <= Made(l)
  <2>1. passed[l] \in Nat /\ gained[l] \in Nat /\ buckets[l] \in Nat /\ buckets'[l] \in Nat
    BY <1>6, <1>7, ResponderAssumption DEF ResponderInv, ResponderTypes, Counts
  <2>2. ~IsBetween(query[s], l) /\ (IsBetween(q, l) <=> l = k)
    BY <1>2, <1>5 DEF IsBetween
  <2>3. /\ IsBetween(q, l) => Cardinality(Between(l)') = Cardinality(Between(l)) + 1
        /\ ~IsBetween(q, l) => Between(l)' = Between(l)
    BY <1>2, <2>2, BetweenMoves DEF ResponderInv, ResponderTypes
  <2>4. Cardinality(Between(l)) \in Nat BY BetweenFinite
  <2>5. buckets'[l] = IF l = k THEN buckets[l] - 1 ELSE buckets[l]
    BY <1>7
  <2> QED BY <1>2, <2>1, <2>2, <2>3, <2>4, <2>5
<1>12. BucketBudget'
  BY <1>8, <1>11, BudgetStep
<1> QED BY <1>2, <1>8, <1>9, <1>10, <1>12 DEF ResponderInv, TokensAsked

\* Who is refused has nothing of the global limit.
LEMMA RefusedKeeps ==
    ASSUME ResponderInv, NEW s \in QuerySlots, R!PerIpRefuses(s) \/ R!InvalidToken(s)
    PROVE  ResponderInv'
<1>1. /\ query[s].step # "global" /\ OneMoves(s, R!Free)
      /\ UNCHANGED <<enabled, keyed, known, made, forgotten, buckets, global, tokens, asked, peers,
                     passed, drawn, gained, changes>>
  BY DEF R!PerIpRefuses, R!InvalidToken, R!At, R!Ends, R!GlobalSpared, OneMoves, R!cacheVars, R!answerVars
<1>2. R!Free.step # "global" BY DEF R!Free
<1>3. TokensAsked' /\ peers' \in [HashIds -> SUBSET Ips]
  BY <1>1 DEF TokensAsked, ResponderInv, ResponderTypes
<1> QED BY <1>1, <1>2, <1>3, AsidesKeep DEF Held

LEMMA GlobalAnswersKeeps ==
    ASSUME ResponderInv, NEW s \in QuerySlots, R!GlobalAnswers(s)
    PROVE  ResponderInv'
<1>1. PICK k : k = LimiterOf(query[s]) OBVIOUS
<1>2. /\ query[s].step = "global"
      /\ UNCHANGED <<enabled, keyed, known, made, forgotten, buckets, tokens, asked, peers, gained, changes>>
  BY DEF R!GlobalAnswers, R!At, R!cacheVars, R!answerVars
<1>3. query[s] # R!Free /\ query[s].step # "limit"
  BY <1>2 DEF R!Free
<1>4. /\ k \in R!Limiters /\ k[3] <= Made(k) /\ query[s] \in Handled
      /\ 1 <= query[s].number /\ query[s].number <= made[query[s].generation][query[s].ip]
  BY <1>1, <1>3, HoldsOne, HandledTypes
<1>5. LimitersKnown' /\ Grows
  BY <1>2, LimitersKept DEF ResponderInv, ResponderTypes
<1>6. CASE UNCHANGED <<global, drawn, passed>> /\ OneMoves(s, R!Free)
  <2>1. query' \in [QuerySlots -> {R!Free} \cup Handled'] /\ HeldLimiters'
    BY <1>2, <1>5, <1>6, StaysHandled DEF Held, ResponderInv, ResponderTypes
  <2>2. ResponderTypes'
    BY <1>2, <1>6, <2>1 DEF ResponderInv, ResponderTypes, Counts, Numbers
  <2>3. ASSUME NEW l \in R!Limiters
        PROVE  Cardinality(Between(l)') <= Cardinality(Between(l))
    <3>1. Cardinality(Between(l)') \in Nat /\ Cardinality(Between(l)) \in Nat
      BY BetweenFinite, BetweenFiniteNext
    <3>2. ~IsBetween(R!Free, l) BY DEF IsBetween, R!Free
    <3> QED BY <1>6, <3>1, <3>2, BetweenMoves DEF ResponderInv, ResponderTypes
  <2>4. BucketBudget'
    BY <1>2, <1>5, <1>6, <2>3, BudgetKept
  <2> QED BY <1>2, <1>5, <1>6, <2>1, <2>2, <2>4 DEF ResponderInv, TokensAsked
<1>7. CASE R!HasGlobal
  <2> DEFINE q == [query[s] EXCEPT !.step = "respond"]
  <2>1. /\ global > 0 /\ global' = global - 1
        /\ passed' = [passed EXCEPT ![k] = passed[k] + 1] /\ drawn' = passed'
        /\ OneMoves(s, q)
    BY <1>1, <1>7 DEF R!GlobalAnswers, R!Counted, R!LimiterOf, LimiterOf, R!GoesTo, R!HasGlobal, OneMoves,
                      ResponderInv
  <2>2. /\ q \in Handled' /\ q.step = "respond"
        /\ 1 <= q.number /\ q.number <= made'[q.generation][q.ip]
    BY <1>2, <1>4 DEF Handled
  <2>3. passed \in Counts /\ passed[k] + 1 \in Nat /\ global' \in 0 .. GlobalBurst
    BY <1>4, <2>1, ResponderAssumption DEF ResponderInv, ResponderTypes, Counts
  <2>4. /\ passed' \in Counts
        /\ \A l \in R!Limiters : passed'[l] = IF l = k THEN passed[k] + 1 ELSE passed[l]
    BY <1>4, <2>1, <2>3, OneCounter DEF Counts
  <2> HIDE DEF q
  <2>5. query' \in [QuerySlots -> {R!Free} \cup Handled'] /\ HeldLimiters'
    BY <1>2, <1>5, <2>1, <2>2, StaysHandled DEF Held, ResponderInv, ResponderTypes
  <2>6. ResponderTypes'
    BY <1>2, <2>3, <2>4, <2>5 DEF ResponderInv, ResponderTypes, Counts, Numbers
  <2>7. ASSUME NEW l \in R!Limiters
        PROVE  /\ passed'[l] \in Nat /\ buckets'[l] \in Nat /\ gained'[l] \in Nat
               /\ passed'[l] + Cardinality(Between(l)') + buckets'[l] - gained'[l]
                    <= passed[l] + Cardinality(Between(l)) + buckets[l] - gained[l]
               /\ passed'[l] = passed[l] \/ l[3] <= Made(l)
    <3>1. passed[l] \in Nat /\ passed'[l] \in Nat /\ gained[l] \in Nat /\ buckets[l] \in Nat
      BY <2>4, ResponderAssumption DEF ResponderInv, ResponderTypes, Counts
    <3>2. ~IsBetween(q, l) /\ (IsBetween(query[s], l) <=> l = k)
      BY <1>1, <1>2, <2>2 DEF IsBetween
    <3>3. /\ IsBetween(query[s], l) => Cardinality(Between(l)') + 1 = Cardinality(Between(l))
          /\ ~IsBetween(query[s], l) => Between(l)' = Between(l)
      BY <2>1, <3>2, BetweenMoves DEF ResponderInv, ResponderTypes
    <3>4. Cardinality(Between(l)) \in Nat /\ Cardinality(Between(l)') \in Nat
      BY BetweenFinite, BetweenFiniteNext
    <3>5. passed'[l] = IF l = k THEN passed[l] + 1 ELSE passed[l]
      BY <2>4
    <3> QED BY <1>2, <1>4, <3>1, <3>2, <3>3, <3>4, <3>5
  <2>8. BucketBudget'
    BY <1>5, <2>7, BudgetStep
  <2> QED BY <1>2, <1>5, <2>1, <2>5, <2>6, <2>8 DEF ResponderInv, TokensAsked
<1>8. CASE ~R!HasGlobal
  BY <1>6, <1>8 DEF R!GlobalAnswers, R!Ends, OneMoves
<1> QED BY <1>7, <1>8

\* Who is answered has a token for itself; who announces has shown one.
LEMMA RespondsKeeps ==
    ASSUME ResponderInv, NEW s \in QuerySlots, R!Responds(s)
    PROVE  ResponderInv'
<1> DEFINE q == query[s]
<1>1. /\ q.step = "respond" /\ OneMoves(s, R!Free)
      /\ q.method = "announce_peer" => R!Token(q.hash, q.ip) \in q.shown
      /\ tokens' = IF q.method = "get_peers" THEN tokens \cup {R!Token(q.hash, q.ip)} ELSE tokens
      /\ asked' = IF q.method = "get_peers" THEN asked \cup {<<q.hash, q.ip>>} ELSE asked
      /\ peers' = IF q.method = "announce_peer" THEN [peers EXCEPT ![q.hash] = @ \cup {q.ip}] ELSE peers
      /\ UNCHANGED <<enabled, keyed, known, made, forgotten, buckets, global, passed, drawn, gained, changes>>
  BY DEF R!Responds, R!At, R!Ends, OneMoves, R!cacheVars
<1>2. q \in Handled
  BY <1>1, HandledTypes DEF R!Free
<1>3. q.hash \in HashIds /\ q.ip \in Ips /\ q.shown \subseteq tokens
  BY <1>2 DEF Handled
<1> HIDE DEF q
<1>4. peers' \in [HashIds -> SUBSET Ips]
  BY <1>1, <1>3 DEF ResponderInv, ResponderTypes
<1>5. TokensAsked'
  <2>1. TokensAsked BY DEF ResponderInv
  <2>2. ASSUME NEW t \in tokens'
        PROVE  \E h \in HashIds, i \in Ips : t = R!Token(h, i) /\ <<h, i>> \in asked'
    BY <1>1, <1>3, <2>1 DEF TokensAsked
  <2>3. ASSUME NEW h \in HashIds, NEW i \in peers'[h], i \notin peers[h]
        PROVE  <<h, i>> \in asked'
    <3>1. q.method = "announce_peer" /\ h = q.hash /\ i = q.ip
      BY <1>1, <1>3, <2>3 DEF ResponderInv, ResponderTypes
    <3>2. R!Token(h, i) \in tokens
      BY <1>1, <1>3, <3>1
    <3>3. PICK x \in HashIds, y \in Ips : R!Token(h, i) = R!Token(x, y) /\ <<x, y>> \in asked
      BY <2>1, <3>2 DEF TokensAsked
    <3>4. h = x /\ i = y
      BY <3>3 DEF R!Token
    <3> QED BY <3>3, <3>4, <1>1
  <2>4. asked \subseteq asked' BY <1>1
  <2>5. \A h \in HashIds : \A i \in peers'[h] : <<h, i>> \in asked'
    BY <2>1, <2>3, <2>4 DEF TokensAsked
  <2> QED BY <2>2, <2>5 DEF TokensAsked
<1>6. tokens \subseteq tokens' /\ query[s].step # "global" /\ R!Free.step # "global"
  BY <1>1 DEF R!Free, q
<1> QED BY <1>1, <1>4, <1>5, <1>6, AsidesKeep DEF Held

\* A bucket that has room gains a token.
LEMMA RefillKeeps ==
    ASSUME ResponderInv, R!Refill
    PROVE  ResponderInv'
<1>1. /\ changes < MaxRefills /\ changes' = changes + 1
      /\ UNCHANGED <<enabled, query, keyed, known, made, forgotten, tokens, asked, peers, passed, drawn>>
  BY DEF R!Refill, R!cacheVars, R!answerVars
<1>2. keyed' \in Nat /\ keyed <= keyed' /\ changes' \in Nat /\ changes <= changes' /\ changes' <= MaxRefills
  BY <1>1, ResponderAssumption DEF ResponderInv, ResponderTypes
<1>3. query' \in [QuerySlots -> {R!Free} \cup Handled'] /\ HeldLimiters' /\ \A l : Between(l)' = Between(l)
  BY <1>1, <1>2, NobodyMoves
<1>4. LimitersKnown' /\ Grows
  BY <1>1, <1>2, LimitersKept
<1>5. keyed' <= changes'
  BY <1>1 DEF ResponderInv, ResponderTypes
<1>6. CASE global < GlobalBurst /\ global' = global + 1 /\ UNCHANGED <<buckets, gained>>
  <2>1. global' \in 0 .. GlobalBurst
    BY <1>6, ResponderAssumption DEF ResponderInv, ResponderTypes
  <2>2. ResponderTypes'
    BY <1>1, <1>2, <1>3, <1>5, <1>6, <2>1 DEF ResponderInv, ResponderTypes, Counts, Numbers
  <2>3. \A l : Cardinality(Between(l)') <= Cardinality(Between(l))
    BY <1>3, BetweenFinite
  <2>4. BucketBudget'
    BY <1>1, <1>4, <1>6, <2>3, BudgetKept
  <2> QED BY <1>1, <1>3, <1>4, <2>2, <2>4 DEF ResponderInv, TokensAsked
<1>7. ASSUME NEW k \in R!Limiters, buckets[k] < PerIpBurst, UNCHANGED global,
             buckets' = [buckets EXCEPT ![k] = buckets[k] + 1],
             gained' = [gained EXCEPT ![k] = gained[k] + 1]
      PROVE  ResponderInv'
  <2>1. /\ buckets \in [R!Limiters -> 0 .. PerIpBurst] /\ gained \in [R!Limiters -> Nat]
        /\ buckets[k] + 1 \in 0 .. PerIpBurst /\ gained[k] + 1 \in Nat
    BY <1>7, ResponderAssumption DEF ResponderInv, ResponderTypes, Counts
  <2>2. /\ buckets' \in [R!Limiters -> 0 .. PerIpBurst]
        /\ \A l \in R!Limiters : buckets'[l] = IF l = k THEN buckets[k] + 1 ELSE buckets[l]
    BY <1>7, <2>1, OneCounter
  <2>3. /\ gained' \in Counts
        /\ \A l \in R!Limiters : gained'[l] = IF l = k THEN gained[k] + 1 ELSE gained[l]
    BY <1>7, <2>1, OneCounter DEF Counts
  <2>4. ResponderTypes'
    BY <1>1, <1>2, <1>3, <1>5, <1>7, <2>2, <2>3 DEF ResponderInv, ResponderTypes, Counts, Numbers
  <2>5. ASSUME NEW l \in R!Limiters
        PROVE  /\ passed'[l] \in Nat /\ buckets'[l] \in Nat /\ gained'[l] \in Nat
               /\ passed'[l] + Cardinality(Between(l)') + buckets'[l] - gained'[l]
                    <= passed[l] + Cardinality(Between(l)) + buckets[l] - gained[l]
               /\ passed'[l] = passed[l] \/ l[3] <= Made(l)
    <3>1. /\ passed[l] \in Nat /\ gained[l] \in Nat /\ buckets[l] \in Nat
          /\ buckets'[l] \in Nat /\ gained'[l] \in Nat
      BY <2>2, <2>3, ResponderAssumption DEF ResponderInv, ResponderTypes, Counts
    <3>2. Cardinality(Between(l)) \in Nat BY BetweenFinite
    <3> QED BY <1>1, <1>3, <2>2, <2>3, <3>1, <3>2
  <2>6. BucketBudget'
    BY <1>4, <2>5, BudgetStep
  <2> QED BY <1>1, <1>3, <1>4, <2>4, <2>6 DEF ResponderInv, TokensAsked
<1> QED BY <1>6, <1>7 DEF R!Refill

\* A new keyed limiter, which has made none for any address; or the responder is switched.
LEMMA SettingsKeep ==
    ASSUME ResponderInv, R!SetPerIp \/ R!SetEnabled
    PROVE  ResponderInv'
<1>1. /\ changes < MaxRefills /\ changes' = changes + 1 /\ keyed' \in {keyed, keyed + 1}
      /\ UNCHANGED <<query, known, made, forgotten, buckets, global, tokens, asked, peers, passed, drawn, gained>>
  BY DEF R!SetPerIp, R!SetEnabled, R!cacheVars, R!answerVars
<1>2. enabled' \in BOOLEAN
  BY DEF R!SetPerIp, R!SetEnabled, ResponderInv, ResponderTypes
<1>3. /\ keyed' \in Nat /\ keyed <= keyed' /\ changes' \in Nat /\ changes <= changes'
      /\ keyed' <= changes' /\ changes' <= MaxRefills
  BY <1>1, ResponderAssumption DEF ResponderInv, ResponderTypes
<1>4. query' \in [QuerySlots -> {R!Free} \cup Handled'] /\ HeldLimiters' /\ \A l : Between(l)' = Between(l)
  BY <1>1, <1>3, NobodyMoves
<1>5. LimitersKnown' /\ Grows
  BY <1>1, <1>3, LimitersKept
<1>6. ResponderTypes'
  BY <1>1, <1>2, <1>3, <1>4 DEF ResponderInv, ResponderTypes, Counts, Numbers
<1>7. \A l : Cardinality(Between(l)') <= Cardinality(Between(l))
  BY <1>4, BetweenFinite
<1>8. BucketBudget'
  BY <1>1, <1>5, <1>7, BudgetKept
<1> QED BY <1>1, <1>4, <1>5, <1>6, <1>8 DEF ResponderInv, TokensAsked

LEMMA ResponderNext == ResponderInv /\ [R!Next]_responderVars => ResponderInv'
<1> SUFFICES ASSUME ResponderInv, [R!Next]_responderVars PROVE ResponderInv' OBVIOUS
<1>1. ASSUME UNCHANGED responderVars PROVE ResponderInv'
  <2>1. /\ UNCHANGED <<enabled, query, keyed, known, made, forgotten, changes>>
        /\ UNCHANGED <<buckets, global, tokens, asked, peers, passed, drawn, gained>>
    BY <1>1 DEF responderVars
  <2>2. ResponderTypes'
    BY <2>1 DEF ResponderInv, ResponderTypes, Handled, Counts, Numbers
  <2>3. LimitersKnown' /\ HeldLimiters'
    BY <2>1 DEF ResponderInv, LimitersKnown, HeldLimiters, Held
  <2>4. BucketBudget'
    BY <2>1 DEF ResponderInv, BucketBudget, Between, LimiterOf, Made
  <2> QED BY <2>1, <2>2, <2>3, <2>4 DEF ResponderInv, TokensAsked
<1>2. ASSUME NEW s \in QuerySlots, R!Handle(s) PROVE ResponderInv'
  BY <1>2, FindLimiterKeeps, MakeLimiterKeeps, PerIpAllowsKeeps, RefusedKeeps, GlobalAnswersKeeps,
     RespondsKeeps DEF R!Handle
<1>3. ASSUME NEW s \in QuerySlots, NEW ip \in Ips, NEW m \in R!Methods, NEW h \in HashIds,
             NEW shown \in SUBSET tokens, R!Receive(s, ip, m, h, shown)
      PROVE  ResponderInv'
  BY <1>3, ReceiveKeeps
<1> QED BY <1>1, <1>2, <1>3, ExpireKeeps, RefillKeeps, SettingsKeep DEF R!Next

----------------------------------------------------------------------------
(***************************************************************************)
(* The composition: a behaviour is about one of the parts, and leaves the  *)
(* variables of the others alone.                                          *)
(***************************************************************************)

mcVars == <<part, vars, dhtVars, settingsVars, optionVars>>

\* What the contract says of a state, and of a step.
LEMMA ContractStates ==
    ServerInv => S!TypeOK /\ S!AnsweredByOwn /\ S!NoLeftover /\ S!OnlyDuplicatesStick
BY StuckBehindAnother DEF ServerInv, ServerTypes

\* Every step of the composition is one of the server, or leaves it alone.
LEMMA ServerSteps == [MCNext]_mcVars => [S!Next]_serverVars
BY DEF MCNext, mcVars, dhtVars

\* Or one of the table, or of the responder.
LEMMA TableSteps == [MCNext]_mcVars => [T!Next]_tableVars
BY DEF MCNext, mcVars, dhtVars

LEMMA ResponderSteps == [MCNext]_mcVars => [R!Next]_responderVars
BY DEF MCNext, mcVars, dhtVars

(***************************************************************************)
(* Query and handleMsg (protocol/dht/server/server.go): the counter of the *)
(* ids gives each query one of its own, and the deferred function takes    *)
(* its entry away on every way out.  So a response, however late and       *)
(* however often it comes, answers the query it was sent for or none, only *)
(* the second one to a query can keep a goroutine, and a scrape succeeds   *)
(* with both filters only.  The commands of ktable (protocol/dht/ktable)   *)
(* leave no address in the reverse map behind; and the responder (dht/     *)
(* responder) stores a peer only for who asked from its address, answers   *)
(* through a limiter within its bucket, makes an address a new one only    *)
(* after the one before was forgotten, and draws on the global limit for   *)
(* no more than it answers.                                                *)
(***************************************************************************)
THEOREM ServerKept == MCSpec => ServerContract
<1>1. MCInit => ServerInv /\ TableInv /\ ResponderInv
  BY ServerInit, TableInit, ResponderInit DEF MCInit
<1>2. ServerInv /\ [MCNext]_mcVars => ServerInv' BY ServerSteps, ServerNext
<1>3. TableInv /\ ResponderInv /\ [MCNext]_mcVars => TableInv' /\ ResponderInv'
  BY TableSteps, TableNext, ResponderSteps, ResponderNext
<1>4. MCSpec => MCInit /\ [][MCNext]_mcVars BY PTL DEF MCSpec, mcVars
<1>5. MCSpec => []ServerInv /\ [](TableInv /\ ResponderInv) BY <1>1, <1>2, <1>3, <1>4, PTL
<1> QED BY <1>4, <1>5, ContractStates, TableSafe, ResponderSafe, ServerSteps, FiltersChecked, PTL
        DEF ServerContract, S!ScrapeHasFilters

\* And one of the search, or leaves its settings alone.
LEMMA SearchSteps == [MCNext]_mcVars => [Search!Next]_settingsVars
BY DEF MCNext, mcVars

\* The file and the options are those of ConfigFile in one part, which a behaviour does not leave.
FilePart == part = "file" => FileInv

LEMMA FileSteps == part' = "file" /\ [MCNext]_mcVars => part = "file" /\ [F!Next]_optionVars
BY DEF MCNext, Only, mcVars

(***************************************************************************)
(* The subscribers of the configuration and the goroutines of indexer and  *)
(* deleter (gql/gqlfx/module.go, enrich/indexer) with a reindex beside    *)
(* them: what the indexer and the deleter have                             *)
(* at rest is of the setting in force, but for an update before they       *)
(* subscribed and a setting that changed and came back during an event;    *)
(* and a reindex with no update in its start makes vectors that its index  *)
(* takes.  And updateConfig with the layers (config_helpers.go): what is   *)
(* saved is in force, a start takes it again unless it is of a range that  *)
(* only a start checks, and no mask replaces a key that is in the file.    *)
(***************************************************************************)
THEOREM SettingsKept == MCSpec => []SettingsContract
<1>1. MCInit => SearchInv /\ FilePart BY SearchInit, FileInit DEF MCInit, FilePart
<1>2. SearchInv /\ FilePart /\ [MCNext]_mcVars => SearchInv' /\ FilePart'
  BY SearchSteps, SearchNext, FileSteps, FileNext DEF FilePart
<1>3. SearchInv /\ FilePart => SettingsContract BY SearchStates, FileStates DEF SettingsContract, FilePart
<1>4. MCSpec => MCInit /\ [][MCNext]_mcVars BY PTL DEF MCSpec, mcVars
<1> QED BY <1>1, <1>2, <1>3, <1>4, PTL

=============================================================================
