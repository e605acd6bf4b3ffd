---------------------------- MODULE QueueRuntime ----------------------------
(***************************************************************************)
(* Switching the queue backend while the system runs: Runtime.SwitchTo     *)
(* (src/internal/queue/runtime.go), the supervisors that restart their     *)
(* consumers on it (src/internal/queue/supervisor/supervisor.go), and the  *)
(* goroutines that produce through the dynamic producer meanwhile.         *)
(*                                                                         *)
(* Every configuration applied gets a number, so that a switch from one    *)
(* Kafka cluster to another is told apart from staying where one is.       *)
(* SwitchTo takes one step per shared variable that others read without    *)
(* its lock.                                                               *)
(***************************************************************************)
EXTENDS Integers

CONSTANTS Supervisors,  \* one per consumer worker
          Producers,    \* goroutines that produce messages
          MaxSwitches   \* bound: calls of SwitchTo

ASSUME SwitchesAssumption == MaxSwitches \in Nat

Backends == {"memory", "kafka"}
Configs == [number : Nat, backend : Backends]
None == [number |-> -1, backend |-> "none"]  \* a nil producer, or no consumer

VARIABLES
    step,     \* how far SwitchTo has come; "idle" when r.mu is free
    target,   \* the configuration it applies, or applied last
    previous, \* its oldBackend
    oldProducer,
    producer, \* r.Producer
    maker,    \* r.ConsumerMaker
    closed,   \* configurations whose Kafka producer was closed
    open,     \* ~stopped of the memory queue
    subscribed, \* supervisors in backendChangeSubs
    token,    \* their channel holds a notification
    pc,       \* where each supervisor's run is
    consumer, \* the configuration its consumer is made from
    canceled, \* its run context is canceled
    loaded,   \* the producer a goroutine obtained and has not used yet
    steady,   \* history: no switch began since, and none was in progress then
    lost      \* history: a steady goroutine lost a message

runtimeVars == <<step, target, previous, oldProducer, producer, maker, closed, open>>
supervisorVars == <<subscribed, token, pc, consumer, canceled>>
producerVars == <<loaded, steady, lost>>
vars == <<runtimeVars, supervisorVars, producerVars>>

\* kafkaProducerFn returns nil when the cluster cannot be reached.
MadeProducer == {target} \cup (IF target.backend = "kafka" THEN {None} ELSE {})

Init ==
    /\ step = "idle"
    /\ \E b \in Backends :
          /\ target = [number |-> 0, backend |-> b]
          /\ previous = b
    /\ producer \in MadeProducer
    /\ oldProducer = None
    /\ maker = target
    /\ closed = {}
    /\ open = TRUE
    /\ subscribed = {}
    /\ token = [s \in Supervisors |-> FALSE]
    /\ pc = [s \in Supervisors |-> "off"]
    /\ consumer = [s \in Supervisors |-> None]
    /\ canceled = [s \in Supervisors |-> FALSE]
    /\ loaded = [p \in Producers |-> None]
    /\ steady = [p \in Producers |-> FALSE]
    /\ lost = FALSE

----------------------------------------------------------------------------
(* SwitchTo, under r.mu *)

BeginSwitch ==
    /\ step = "idle"
    /\ target.number < MaxSwitches
    /\ \E b \in Backends : target' = [number |-> target.number + 1, backend |-> b]
    /\ previous' = target.backend
    /\ oldProducer' = producer
    /\ step' = "producer"
    /\ steady' = [p \in Producers |-> FALSE]
    /\ UNCHANGED <<producer, maker, closed, open, supervisorVars, loaded, lost>>

SetProducer ==
    /\ step = "producer"
    /\ producer' \in MadeProducer
    /\ step' = "maker"
    /\ UNCHANGED <<target, previous, oldProducer, maker, closed, open, supervisorVars,
                   producerVars>>

NilMaker  == producer  \* nil whenever the producer is
MadeMaker == target    \* reaches no broker, so never nil

SetConsumerMaker ==
    /\ step = "maker"
    /\ maker' = MadeMaker
    /\ step' = "close"
    /\ UNCHANGED <<target, previous, oldProducer, producer, closed, open, supervisorVars,
                   producerVars>>

\* The memory producer is never closed here: CloseMemoryQueue does it.
NewProducer == producer  \* read again after it was replaced
Replaced    == oldProducer

CloseOldProducer ==
    /\ step = "close"
    /\ closed' = IF Replaced.backend = "kafka" THEN closed \cup {Replaced} ELSE closed
    /\ step' = "memory"
    /\ UNCHANGED <<target, previous, oldProducer, producer, maker, open, supervisorVars,
                   producerVars>>

\* Reset and a new persist loop, or CloseMemoryQueue, or neither.
SwitchMemoryQueue ==
    /\ step = "memory"
    /\ open' = CASE target.backend = "memory" /\ previous # "memory" -> TRUE
                 [] target.backend # "memory" /\ previous = "memory" -> FALSE
                 [] OTHER -> open
    /\ step' = "notify"
    /\ UNCHANGED <<target, previous, oldProducer, producer, maker, closed,
                   supervisorVars, producerVars>>

\* A notification waiting already stands for this one too.
OnlyRunning(s) == pc[s] = "running"  \* a supervisor busy restarting missed
Notified(s) == s \in subscribed

NotifyBackendChange ==
    /\ step = "notify"
    /\ token' = [s \in Supervisors |-> token[s] \/ Notified(s)]
    /\ step' = "idle"
    /\ UNCHANGED <<target, previous, oldProducer, producer, maker, closed, open,
                   subscribed, pc, consumer, canceled, producerVars>>

SwitchStep ==
    \/ SetProducer \/ SetConsumerMaker \/ CloseOldProducer
    \/ SwitchMemoryQueue \/ NotifyBackendChange

----------------------------------------------------------------------------
(* Supervisor.run *)

\* The subscription precedes Prepare and the first consumer.
Subscribe(s) ==
    /\ pc[s] = "off"
    /\ subscribed' = subscribed \cup {s}
    /\ pc' = [pc EXCEPT ![s] = "preparing"]
    /\ UNCHANGED <<runtimeVars, token, consumer, canceled, producerVars>>

Prepare(s) ==
    /\ pc[s] = "preparing"
    /\ pc' = [pc EXCEPT ![s] = "creating"]
    /\ UNCHANGED <<runtimeVars, subscribed, token, consumer, canceled, producerVars>>

\* run returns: the deferred unsubscribe removes the channel.
Return(s) ==
    /\ pc' = [pc EXCEPT ![s] = "done"]
    /\ subscribed' = subscribed \ {s}
    /\ token' = [token EXCEPT ![s] = FALSE]
    /\ UNCHANGED <<runtimeVars, consumer, canceled, producerVars>>

PrepareFails(s) == pc[s] = "preparing" /\ Return(s)

\* The maker is read first; reaching Kafka takes its time, and switches may pass by.
GetConsumerMaker(s) ==
    /\ pc[s] = "creating"
    /\ consumer' = [consumer EXCEPT ![s] = maker]
    /\ pc' = [pc EXCEPT ![s] = "connecting"]
    /\ UNCHANGED <<runtimeVars, subscribed, token, canceled, producerVars>>

NewConsumer(s) ==
    /\ pc[s] = "connecting"
    /\ pc' = [pc EXCEPT ![s] = "running"]
    /\ UNCHANGED <<runtimeVars, subscribed, token, consumer, canceled, producerVars>>

\* Only Kafka fails to make a consumer; neither backend's Start returns an error.
NewConsumerFails(s) ==
    /\ pc[s] = "connecting"
    /\ consumer[s].backend = "kafka"
    /\ consumer' = [consumer EXCEPT ![s] = None]
    /\ pc' = [pc EXCEPT ![s] = "retrying"]
    /\ UNCHANGED <<runtimeVars, subscribed, token, canceled, producerVars>>

RetryDelayOver(s) ==
    /\ pc[s] = "retrying"
    /\ pc' = [pc EXCEPT ![s] = "creating"]
    /\ UNCHANGED <<runtimeVars, subscribed, token, consumer, canceled, producerVars>>

BackendChanged(s) ==
    /\ pc[s] = "running"
    /\ token[s]
    /\ token' = [token EXCEPT ![s] = FALSE]
    /\ pc' = [pc EXCEPT ![s] = "stopping"]
    /\ UNCHANGED <<runtimeVars, subscribed, consumer, canceled, producerVars>>

\* An event of the optional Trigger whose OnEvent asks for a restart.
TriggerRestarts(s) ==
    /\ pc[s] = "running"
    /\ pc' = [pc EXCEPT ![s] = "stopping"]
    /\ UNCHANGED <<runtimeVars, subscribed, token, consumer, canceled, producerVars>>

\* consumer.Stop returns when the goroutine of the old consumer has ended.
ConsumerStopped(s) ==
    /\ pc[s] = "stopping"
    /\ consumer' = [consumer EXCEPT ![s] = None]
    /\ pc' = [pc EXCEPT ![s] = "creating"]
    /\ UNCHANGED <<runtimeVars, subscribed, token, canceled, producerVars>>

Cancel(s) ==
    /\ ~canceled[s]
    /\ canceled' = [canceled EXCEPT ![s] = TRUE]
    /\ UNCHANGED <<runtimeVars, subscribed, token, pc, consumer, producerVars>>

\* Seen while waiting in the select, where stop follows, or in the retry delay.
SeesCancel(s) ==
    /\ pc[s] \in {"running", "retrying"}
    /\ canceled[s]
    /\ pc' = [pc EXCEPT ![s] = "done"]
    /\ consumer' = [consumer EXCEPT ![s] = None]
    /\ subscribed' = subscribed \ {s}
    /\ token' = [token EXCEPT ![s] = FALSE]
    /\ UNCHANGED <<runtimeVars, canceled, producerVars>>

RunStep(s) ==
    \/ Prepare(s) \/ GetConsumerMaker(s) \/ NewConsumer(s) \/ RetryDelayOver(s)
    \/ BackendChanged(s) \/ ConsumerStopped(s) \/ SeesCancel(s)

----------------------------------------------------------------------------
(* dynamicProducer.Produce: two steps, with no lock across them *)

GetProducer(p) ==
    /\ loaded[p] = None
    /\ producer # None  \* a nil producer drops the message with a warning
    /\ loaded' = [loaded EXCEPT ![p] = producer]
    /\ steady' = [steady EXCEPT ![p] = step = "idle"]
    /\ UNCHANGED <<runtimeVars, supervisorVars, lost>>

\* A closed memory queue ignores the message; a closed Kafka producer does not take it.
Accepts(c) == IF c.backend = "memory" THEN open ELSE c \notin closed

Produce(p) ==
    /\ loaded[p] # None
    /\ lost' = (lost \/ (steady[p] /\ ~Accepts(loaded[p])))
    /\ loaded' = [loaded EXCEPT ![p] = None]
    /\ UNCHANGED <<runtimeVars, supervisorVars, steady>>

----------------------------------------------------------------------------
Next ==
    \/ BeginSwitch \/ SwitchStep
    \/ \E s \in Supervisors :
          \/ Subscribe(s) \/ PrepareFails(s) \/ NewConsumerFails(s) \/ TriggerRestarts(s)
          \/ Cancel(s) \/ RunStep(s)
    \/ \E p \in Producers : GetProducer(p) \/ Produce(p)

Spec == Init /\ [][Next]_vars

\* SwitchTo runs to its end, and a supervisor takes the steps open to it; nobody has to
\* switch, to fail or to shut down.
FairSpec ==
    /\ Spec
    /\ WF_vars(SwitchStep)
    /\ \A s \in Supervisors : WF_vars(RunStep(s))

----------------------------------------------------------------------------
\* Type invariant of the runtime, its supervisors and its producing goroutines.
TypeOK ==
    /\ step \in {"idle", "producer", "maker", "close", "memory", "notify"}
    /\ target \in Configs
    /\ previous \in Backends
    /\ oldProducer \in Configs \cup {None}
    /\ producer \in Configs \cup {None}
    /\ maker \in Configs
    /\ closed \subseteq Configs
    /\ open \in BOOLEAN
    /\ subscribed \subseteq Supervisors
    /\ token \in [Supervisors -> BOOLEAN]
    /\ pc \in [Supervisors -> {"off", "preparing", "creating", "connecting", "running",
                               "retrying", "stopping", "done"}]
    /\ consumer \in [Supervisors -> Configs \cup {None}]
    /\ canceled \in [Supervisors -> BOOLEAN]
    /\ loaded \in [Producers -> Configs \cup {None}]
    /\ steady \in [Producers -> BOOLEAN]
    /\ lost \in BOOLEAN

(***************************************************************************)
(* A consumer of a configuration that is no longer the current one is      *)
(* never left running unnoticed: its supervisor holds a notification, is   *)
(* stopping it, or SwitchTo has yet to notify.  The channel holds a single *)
(* notification, and a switch may fall between any two steps of a restart. *)
(***************************************************************************)
StaleConsumersNotified ==
    \A s \in Supervisors :
        consumer[s] \notin {None, maker}
            => token[s] \/ pc[s] = "stopping" \/ step # "idle"

(***************************************************************************)
(* A message is lost to a closed backend only when a switch falls into the *)
(* call that produces it, between obtaining the producer and using it.     *)
(***************************************************************************)
NoSteadyLoss == ~lost

(***************************************************************************)
(* docs/configuration.md:166: "Switching backends re-routes processing     *)
(* automatically".  A supervisor that subscribed ends up with a consumer   *)
(* of the memory backend after a switch to it, although it may be waiting  *)
(* to retry Kafka or restarting for another reason.                        *)
(***************************************************************************)
ProcessingRerouted ==
    \A s \in Supervisors :
        (pc[s] = "running" /\ maker.backend = "memory")
            ~> (consumer[s] = maker \/ maker.backend = "kafka" \/ canceled[s])
=============================================================================
