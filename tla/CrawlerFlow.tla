----------------------------- MODULE CrawlerFlow -----------------------------
(***************************************************************************)
(* How nodes circulate between the goroutines of the DHT crawler           *)
(* (src/internal/dhtcrawler): what find_node and sample_infohashes learn   *)
(* goes into discoveredNodes, a batching channel                           *)
(* (src/internal/concurrency/batching_channel.go), from there into one of  *)
(* three bounded channels, and from those back to the workers              *)
(* (src/internal/concurrency/buffered_concurrent_channel.go).  Only how    *)
(* many nodes are where is kept, and one worker of each kind: what the     *)
(* workers do with a node is in module CrawlerNodes.                       *)
(***************************************************************************)
EXTENDS Naturals

CONSTANTS InCap,     \* capacity of the input of discoveredNodes
          MaxBatch,  \* maxBatchSize
          Workers,   \* of "ping", "find" and "sample"; "ping" only takes nodes out
          WorkCap,   \* capacity of the channels to the workers
          MaxFound,  \* bound: nodes in an answer
          MaxSenders \* maxConcurrentNodeDispatches

VARIABLES cancelled,  \* the context of start
          input,      \* nodes in ch.input
          buffer,     \* ... in ch.buffer
          flushed,    \* ... in the batch that flush tries to send, if any
          output,     \* ... in the batch in ch.output, if any
          forward,    \* ... that runDiscoveredNodes has yet to pass on
          router,     \* runDiscoveredNodes runs
          waiting,    \* worker -> nodes in its channel
          busy,       \* worker -> what it does with a node
          handOver,   \* nodes that the find_node worker has yet to pass on
          senders     \* nodes that each dispatch of sample_infohashes has yet to pass on

vars == <<cancelled, input, buffer, flushed, output, forward, router, waiting, busy, handOver, senders>>

Senders == 1 .. MaxSenders

Init ==
    /\ cancelled = FALSE
    /\ input = 0 /\ buffer = 0 /\ flushed = 0 /\ output = 0 /\ forward = 0
    /\ router = TRUE
    /\ waiting = [w \in Workers |-> 0]
    /\ busy = [w \in Workers |-> "idle"]
    /\ handOver = 0
    /\ senders = [s \in Senders |-> 0]

----------------------------------------------------------------------------
(* The batching channel, which no context ends. *)

PastFull(n) == n > MaxBatch
BatchFull(n) == n >= MaxBatch

TakeInput ==
    /\ flushed = 0 /\ input > 0
    /\ input' = input - 1
    /\ IF BatchFull(buffer + 1)
       THEN flushed' = buffer + 1 /\ buffer' = 0
       ELSE buffer' = buffer + 1 /\ UNCHANGED flushed
    /\ UNCHANGED <<cancelled, output, forward, router, waiting, busy, handOver, senders>>

Tick ==
    /\ flushed = 0 /\ buffer > 0
    /\ flushed' = buffer /\ buffer' = 0
    /\ UNCHANGED <<cancelled, input, output, forward, router, waiting, busy, handOver, senders>>

SendBatch ==
    /\ flushed > 0 /\ output = 0
    /\ output' = flushed /\ flushed' = 0
    /\ UNCHANGED <<cancelled, input, buffer, forward, router, waiting, busy, handOver, senders>>

\* A caller of the batching channel, also the responder, which gives up after a second.
PutInput == input < InCap /\ input' = input + 1

Respond ==
    /\ PutInput
    /\ UNCHANGED <<cancelled, buffer, flushed, output, forward, router, waiting, busy, handOver, senders>>

----------------------------------------------------------------------------
(* runDiscoveredNodes: known addresses are left out; the rest of the batch  *)
(* waits until any of the three channels has room.                          *)

TakeBatch(unknown) ==
    /\ router /\ forward = 0 /\ output > 0
    /\ unknown \in 0 .. output
    /\ forward' = unknown /\ output' = 0
    /\ UNCHANGED <<cancelled, input, buffer, flushed, router, waiting, busy, handOver, senders>>

FindOnly == {"find"}
Targets == Workers

Forward(w) ==
    /\ router /\ forward > 0
    /\ w \in Targets /\ waiting[w] < WorkCap
    /\ waiting' = [waiting EXCEPT ![w] = @ + 1]
    /\ forward' = forward - 1
    /\ UNCHANGED <<cancelled, input, buffer, flushed, output, router, busy, handOver, senders>>

RouterEnds ==
    /\ router /\ cancelled
    /\ router' = FALSE /\ forward' = 0
    /\ UNCHANGED <<cancelled, input, buffer, flushed, output, waiting, busy, handOver, senders>>

\* getOldNodes, getNodesForFindNode, getNodesForSampleInfoHashes and reseedBootstrapNodes
\* put nodes of the table into the channels as long as there is room.
Feed(w) ==
    /\ ~cancelled /\ waiting[w] < WorkCap
    /\ waiting' = [waiting EXCEPT ![w] = @ + 1]
    /\ UNCHANGED <<cancelled, input, buffer, flushed, output, forward, router, busy, handOver, senders>>

----------------------------------------------------------------------------
(* The workers.  A query always returns: see DhtServer!QueryReturns. *)

Take(w) ==
    /\ busy[w] = "idle" /\ waiting[w] > 0
    /\ waiting' = [waiting EXCEPT ![w] = @ - 1]
    /\ busy' = [busy EXCEPT ![w] = "query"]
    /\ UNCHANGED <<cancelled, input, buffer, flushed, output, forward, router, handOver, senders>>

\* Run ends; a query in progress is left to return.
RunEnds(w) ==
    /\ cancelled /\ busy[w] = "idle"
    /\ busy' = [busy EXCEPT ![w] = "gone"]
    /\ UNCHANGED <<cancelled, input, buffer, flushed, output, forward, router, waiting, handOver, senders>>

\* A ping, a query that failed, or one that found no nodes.
Finish(w) ==
    /\ busy[w] = "query"
    /\ busy' = [busy EXCEPT ![w] = "idle"]
    /\ UNCHANGED <<cancelled, input, buffer, flushed, output, forward, router, waiting, handOver, senders>>

FindFound(n) ==
    /\ busy["find"] = "query"
    /\ busy' = [busy EXCEPT !["find"] = "passing"]
    /\ handOver' = n
    /\ UNCHANGED <<cancelled, input, buffer, flushed, output, forward, router, waiting, senders>>

\* The find_node worker keeps its place until all are passed on.
PassOn ==
    /\ busy["find"] = "passing" /\ handOver > 0
    /\ PutInput
    /\ handOver' = handOver - 1
    /\ busy' = IF handOver = 1 THEN [busy EXCEPT !["find"] = "idle"] ELSE busy
    /\ UNCHANGED <<cancelled, buffer, flushed, output, forward, router, waiting, senders>>

AbandonPass ==
    /\ busy["find"] = "passing" /\ cancelled
    /\ handOver' = 0 /\ busy' = [busy EXCEPT !["find"] = "idle"]
    /\ UNCHANGED <<cancelled, input, buffer, flushed, output, forward, router, waiting, senders>>

SampleFound ==
    /\ busy["sample"] = "query"
    /\ busy' = [busy EXCEPT !["sample"] = "acquiring"]
    /\ UNCHANGED <<cancelled, input, buffer, flushed, output, forward, router, waiting, handOver, senders>>

\* The semaphore of the dispatches is taken without regard to the context.
Dispatch(s, n) ==
    /\ busy["sample"] = "acquiring" /\ senders[s] = 0
    /\ senders' = [senders EXCEPT ![s] = n]
    /\ busy' = [busy EXCEPT !["sample"] = "idle"]
    /\ UNCHANGED <<cancelled, input, buffer, flushed, output, forward, router, waiting, handOver>>

DispatchOne(s) ==
    /\ senders[s] > 0 /\ PutInput
    /\ senders' = [senders EXCEPT ![s] = @ - 1]
    /\ UNCHANGED <<cancelled, buffer, flushed, output, forward, router, waiting, busy, handOver>>

NeverTimesOut(s) == FALSE  \* the dispatch waits as find_node does, and without a context
TimesOut(s) == TRUE

DispatchTimeout(s) ==
    /\ senders[s] > 0 /\ TimesOut(s)
    /\ senders' = [senders EXCEPT ![s] = 0]
    /\ UNCHANGED <<cancelled, input, buffer, flushed, output, forward, router, waiting, busy, handOver>>

Cancel ==
    /\ ~cancelled
    /\ cancelled' = TRUE
    /\ UNCHANGED <<input, buffer, flushed, output, forward, router, waiting, busy, handOver, senders>>

----------------------------------------------------------------------------
Batching == TakeInput \/ Tick \/ SendBatch
Routing == (\E n \in 0 .. MaxBatch : TakeBatch(n)) \/ (\E w \in Workers : Forward(w))
Returns(w) ==
    \/ Finish(w)
    \/ w = "find" /\ \E n \in 1 .. MaxFound : FindFound(n)
    \/ w = "sample" /\ SampleFound
Dispatching(s) == DispatchOne(s) \/ DispatchTimeout(s)

Next ==
    \/ Batching \/ Routing \/ RouterEnds \/ Respond \/ Cancel
    \/ \E w \in Workers : Feed(w) \/ Take(w) \/ RunEnds(w) \/ Returns(w)
    \/ PassOn \/ AbandonPass
    \/ \E s \in Senders : (\E n \in 1 .. MaxFound : Dispatch(s, n)) \/ Dispatching(s)

Spec == Init /\ [][Next]_vars

\* Every goroutine goes on when it can.  Those that wait to send into a channel are served
\* in the order in which they began to wait, so one that waits is not passed over for ever,
\* and a select whose context has ended does not choose another ready case for ever.
Fairness ==
    /\ WF_vars(Batching) /\ SF_vars(Routing) /\ WF_vars(RouterEnds)
    /\ \A w \in Workers : WF_vars(Take(w)) /\ SF_vars(RunEnds(w)) /\ WF_vars(Returns(w))
    /\ SF_vars(PassOn) /\ WF_vars(AbandonPass)
    /\ SF_vars(\E s \in Senders, n \in 1 .. MaxFound : Dispatch(s, n))
    /\ \A s \in Senders : WF_vars(Dispatching(s))
FairSpec == Spec /\ Fairness

----------------------------------------------------------------------------
\* Type invariant.
TypeOK ==
    /\ cancelled \in BOOLEAN /\ router \in BOOLEAN
    /\ input \in 0 .. InCap /\ buffer \in 0 .. MaxBatch - 1
    /\ {flushed, output, forward} \subseteq 0 .. MaxBatch
    /\ waiting \in [Workers -> 0 .. WorkCap]
    /\ busy \in [Workers -> {"idle", "query", "passing", "acquiring", "gone"}]
    /\ handOver \in 0 .. MaxFound
    /\ senders \in [Senders -> 0 .. MaxFound]

\* The goroutines feed each other through bounded channels in a circle, and never all wait
\* for each other: whoever passes nodes on gets rid of them, however full the channels are.
Circulates ==
    /\ busy["find"] = "passing" ~> busy["find"] # "passing"
    /\ forward > 0 ~> forward = 0
    /\ busy["sample"] = "acquiring" ~> busy["sample"] # "acquiring"

\* After a stop every goroutine of the crawler ends, although nobody reads the discovered
\* nodes any more and the semaphore of the dispatches knows no context.
StopQuiesces ==
    cancelled ~> (~router /\ (\A w \in Workers : busy[w] = "gone") /\ (\A s \in Senders : senders[s] = 0))
=============================================================================
