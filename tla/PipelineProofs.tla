--------------------------- MODULE PipelineProofs ---------------------------
(***************************************************************************)
(* For every number of messages, attempts and interruptions: a group that  *)
(* has committed an offset never commits past an unsettled message, and a  *)
(* message to be redelivered is still ahead of every session.  Then the    *)
(* pipeline, the workers of the crawler, and the fetch of one metadata.    *)
(***************************************************************************)
EXTENDS MCPipeline, Sequences, FiniteSetTheorems, TLAPS

\* A session has settled everything before its position, and marks no more than that.
SessionSettled ==
    InSession => /\ \A m \in Nat : m < position => m \in settled
                 /\ position <= log
                 /\ marked <= position

\* The group has an offset, which is in the partition.
GroupCommitted ==
    /\ committed \in Nat
    /\ committed <= log
    /\ \A m \in Nat : m < committed => m \in settled

\* A message is handed out only when it is there.
HandlingReal == pc = "handling" => position < log

IInv == TypeOK /\ SessionSettled /\ GroupCommitted /\ HandlingReal /\ log <= MaxMessages

\* Initially the invariant holds, unless the group is new.
LEMMA InvInit == ~NewGroup /\ Init => IInv
<1> SUFFICES ASSUME ~NewGroup, Init PROVE IInv OBVIOUS
<1>1. committed = 0
  BY Zenon DEF Init
<1>2. canceled \in BOOLEAN
  BY Zenon DEF Init
<1> QED BY <1>1, <1>2, KafkaAssumption
        DEF Init, IInv, TypeOK, SessionSettled, GroupCommitted, HandlingReal, InSession,
            Offsets, NoOffset, MessageOffsets

\* An acknowledgement extends the settled prefix by the message at the position.
LEMMA AcknowledgeInv == ASSUME IInv, pc = "handling", Acknowledge PROVE IInv'
<1> USE DEF IInv, Acknowledge, MarkMessage, Goto
<1>1. position \in Nat /\ position < log /\ log \in Nat /\ position \in MessageOffsets
  BY KafkaAssumption DEF TypeOK, HandlingReal, MessageOffsets
<1>2. \A m \in Nat : m < position => m \in settled
  BY DEF SessionSettled, InSession
<1>3. TypeOK'
  BY <1>1 DEF TypeOK, Offsets
<1>4. SessionSettled'
  BY <1>1, <1>2 DEF SessionSettled, InSession
<1>5. GroupCommitted' /\ HandlingReal'
  BY DEF GroupCommitted, HandlingReal
<1> QED BY <1>1, <1>3, <1>4, <1>5

\* Every step keeps the invariant.
LEMMA InvNext == IInv /\ [Next]_vars => IInv'
<1> SUFFICES ASSUME IInv, [Next]_vars PROVE IInv' OBVIOUS
<1> USE KafkaAssumption
    DEF IInv, TypeOK, SessionSettled, GroupCommitted, HandlingReal, InSession, Offsets,
        NoOffset, Goto, sessionVars, historyVars
<1>1. CASE Produce BY <1>1 DEF Produce
<1>2. CASE AutoCommit BY <1>2 DEF AutoCommit
<1>3. CASE Rebalance BY <1>3 DEF Rebalance
<1>4. CASE Stop BY <1>4 DEF Stop
<1>5. CASE Crash BY <1>5 DEF Crash
<1>6. CASE Join BY <1>6 DEF Join, StartOffset
<1>7. CASE Leave BY <1>7 DEF Leave, Marked
<1>8. CASE Take BY <1>8 DEF Take
<1>9. CASE SeesCancel BY <1>9 DEF SeesCancel
<1>10. CASE Handled BY <1>10, AcknowledgeInv DEF Handled
<1>11. CASE Canceled BY <1>11 DEF Canceled
<1>12. CASE Discard BY <1>12, AcknowledgeInv DEF Discard
<1>13. CASE Fails
  <2>1. position \in MessageOffsets /\ Attempt \in Nat
    BY <1>13 DEF Fails, MessageOffsets, Attempt, Counted
  <2> QED BY <1>13, <2>1 DEF Fails
<1>14. CASE BackoffOver BY <1>14 DEF BackoffOver
<1>15. CASE HandlerPanics BY <1>15 DEF HandlerPanics
<1>16. CASE NewConsumer BY <1>16 DEF NewConsumer
<1>17. CASE UNCHANGED vars BY <1>17 DEF vars
<1> QED BY <1>1, <1>2, <1>3, <1>4, <1>5, <1>6, <1>7, <1>8, <1>9, <1>10, <1>11, <1>12,
           <1>13, <1>14, <1>15, <1>16, <1>17 DEF Next, ConsumerStep

\* The inductive invariant implies both properties.
LEMMA InvImplies == IInv => CommittedSettled /\ FailedRedelivered
<1> SUFFICES ASSUME IInv PROVE CommittedSettled /\ FailedRedelivered OBVIOUS
<1>1. CommittedSettled
  BY DEF IInv, GroupCommitted, CommittedSettled
<1>2. FailedRedelivered
  BY DEF IInv, TypeOK, SessionSettled, FailedRedelivered
<1> QED BY <1>1, <1>2

\* ConsumeClaim and the session around it: at-least-once for a group with an offset.
THEOREM AtLeastOnce == ~NewGroup /\ Spec => []CommittedSettled
<1>1. IInv => CommittedSettled BY InvImplies
<1> QED BY <1>1, InvInit, InvNext, PTL DEF Spec

\* The comment at consumer.go:230 holds of a group that has committed an offset.
THEOREM Redelivery == ~NewGroup /\ Spec => []FailedRedelivered
<1>1. IInv => FailedRedelivered BY InvImplies
<1> QED BY <1>1, InvInit, InvNext, PTL DEF Spec
\* Positions and marks stay inside the partition, for a group that has an offset.
THEOREM TypeCorrect == ~NewGroup /\ Spec => []TypeOK
<1>1. IInv => TypeOK BY DEF IInv
<1> QED BY <1>1, InvInit, InvNext, PTL DEF Spec

----------------------------------------------------------------------------
(***************************************************************************)
(* The crawler's workers (CrawlerNodes).                                   *)
(***************************************************************************)

\* A hash that the filter let through is with one sampler or published, and not both.
FoundByOne ==
    /\ \A s, t \in Samplers : s # t => found[s] \cap found[t] = {}
    /\ \A h \in Hashes : published[h] > 0 => h \in ignored /\ \A s \in Samplers : h \notin found[s]

NodesTypes ==
    /\ N!TypeOK
    /\ job \in [N!Workers -> [node : Nodes \cup {Nobody},
                              reply : N!Replies \cup {"none", "publish"}]]
    /\ found \in [Samplers -> SUBSET Hashes]
    /\ published \in [Hashes -> Nat]
    /\ paused \in BOOLEAN /\ cancelled \in BOOLEAN

NodesInv == NodesTypes /\ FoundByOne /\ N!PublishedOnce /\ N!IgnoredIsPublished

\* Initially nothing is found and every worker is idle.
LEMMA NodesInit == N!Init => NodesInv
<1> SUFFICES ASSUME N!Init PROVE NodesInv OBVIOUS
<1> USE DEF N!Init, N!Idle
<1>1. NodesTypes BY DEF NodesTypes, N!TypeOK, N!Replies
<1>2. FoundByOne BY DEF FoundByOne
<1>3. N!PublishedOnce /\ N!IgnoredIsPublished BY DEF N!PublishedOnce, N!IgnoredIsPublished
<1> QED BY <1>1, <1>2, <1>3 DEF NodesInv

\* What a worker queries is a node, while it waits and when the answer is there.
LEMMA AtWork ==
    ASSUME NodesInv, NEW w \in N!Workers, job[w] # N!Idle
    PROVE  job[w].node \in Nodes
BY CrawlerAssumption DEF NodesInv, NodesTypes, N!TypeOK

\* Steps that find and publish nothing.
LEMMA NodesTurn ==
    ASSUME NodesInv, job' \in [N!Workers -> [node : Nodes \cup {Nobody},
                                             reply : N!Replies \cup {"none", "publish"}]],
           \A w \in N!Workers :
             job'[w] = N!Idle \/ job'[w] \in [node : Nodes,
                reply : N!Replies \cup (IF w \in Samplers THEN {"publish"} ELSE {})],
           table' \subseteq Nodes, answers' \in [Nodes -> N!Replies \ {"waiting"}],
           paused' \in BOOLEAN, cancelled' \in BOOLEAN, cancelled => cancelled',
           UNCHANGED <<found, ignored, published>>
    PROVE  NodesInv'
<1>1. NodesTypes' BY DEF NodesInv, NodesTypes, N!TypeOK
<1>2. FoundByOne' BY DEF NodesInv, FoundByOne
<1>3. N!PublishedOnce' /\ N!IgnoredIsPublished'
  BY DEF NodesInv, NodesTypes, N!PublishedOnce, N!IgnoredIsPublished
<1> QED BY <1>1, <1>2, <1>3 DEF NodesInv

\* testAndAdd lets a hash through that no sampler has and nobody has published.
LEMMA SampleInv ==
    ASSUME NodesInv, NEW s \in Samplers, NEW h \in Hashes, N!Sample(s, h) PROVE NodesInv'
<1> USE DEF NodesInv, N!Sample, N!TestAndAdd, N!Keep
<1>1. NodesTypes' BY DEF NodesTypes, N!TypeOK
<1>2. \A x \in Samplers : h \notin found[x] BY DEF NodesTypes, N!TypeOK
<1>3. \A x \in Samplers : found'[x] = IF x = s THEN found[s] \cup {h} ELSE found[x]
  BY DEF NodesTypes
<1>4. FoundByOne' BY <1>2, <1>3 DEF FoundByOne
<1>5. N!PublishedOnce' BY DEF N!PublishedOnce
<1>6. N!IgnoredIsPublished' BY <1>3 DEF N!IgnoredIsPublished
<1> QED BY <1>1, <1>4, <1>5, <1>6

\* A published hash was found by the sampler that publishes it only.
LEMMA PublishInv ==
    ASSUME NodesInv, NEW s \in Samplers, NEW h \in Hashes, N!Publish(s, h) PROVE NodesInv'
<1> USE DEF NodesInv, N!Publish
<1>1. NodesTypes' BY DEF NodesTypes, N!TypeOK
<1>2. \A x \in Samplers : found'[x] = IF x = s THEN found[s] \ {h} ELSE found[x]
  BY DEF NodesTypes
<1>3. \A x \in Samplers : h \notin found'[x] BY <1>2 DEF FoundByOne
<1>4. h \in ignored /\ published[h] = 0
  BY DEF FoundByOne, NodesTypes, N!TypeOK
<1>5. \A k \in Hashes : published'[k] = IF k = h THEN 1 ELSE published[k]
  BY <1>4 DEF NodesTypes
<1>6. FoundByOne' BY <1>2, <1>3, <1>4, <1>5 DEF FoundByOne
<1>7. N!PublishedOnce' BY <1>5 DEF N!PublishedOnce
<1>8. N!IgnoredIsPublished' BY <1>2, <1>5 DEF N!IgnoredIsPublished, NodesTypes
<1> QED BY <1>1, <1>6, <1>7, <1>8

\* Only a crawler that has been stopped gives up what it found.
LEMMA GiveUpInv == ASSUME NodesInv, NEW s \in Samplers, N!GiveUp(s) PROVE NodesInv'
<1> USE DEF NodesInv, N!GiveUp, N!Done, N!WaitFails
<1>0. s \in N!Workers BY DEF N!Workers
<1>1. NodesTypes' BY <1>0 DEF NodesTypes, N!TypeOK, N!Idle
<1>2. \A x \in Samplers : found'[x] \subseteq found[x] BY DEF NodesTypes
<1>3. FoundByOne' BY <1>2 DEF FoundByOne
<1>4. N!PublishedOnce' /\ N!IgnoredIsPublished'
  BY DEF N!PublishedOnce, N!IgnoredIsPublished
<1> QED BY <1>1, <1>3, <1>4

\* Every step keeps the invariant.
LEMMA NodesNext == NodesInv /\ [N!Next]_nodesVars => NodesInv'
<1> SUFFICES ASSUME NodesInv, [N!Next]_nodesVars PROVE NodesInv' OBVIOUS
<1>0. /\ table \subseteq Nodes /\ answers \in [Nodes -> N!Replies \ {"waiting"}]
      /\ job \in [N!Workers -> [node : Nodes \cup {Nobody}, reply : N!Replies \cup {"none", "publish"}]]
      /\ \A w \in N!Workers :
           job[w] = N!Idle \/ job[w] \in [node : Nodes,
             reply : N!Replies \cup (IF w \in Samplers THEN {"publish"} ELSE {})]
      /\ paused \in BOOLEAN /\ cancelled \in BOOLEAN
  BY DEF NodesInv, NodesTypes, N!TypeOK
<1>1. ASSUME NEW w \in N!Workers, NEW n \in Nodes, N!Start(w, n) PROVE NodesInv'
  BY <1>0, <1>1, NodesTurn DEF N!Start, N!Replies
<1>2. ASSUME NEW w \in N!Workers, NEW r \in N!Replies, N!Answer(w, r) PROVE NodesInv'
  <2>1. job[w].node \in Nodes BY <1>2, AtWork DEF N!Answer, N!Idle
  <2> QED BY <1>0, <1>2, <2>1, NodesTurn DEF N!Answer, N!Replies
<1>3. ASSUME NEW w \in N!Workers, N!Done(w), table' \subseteq Nodes,
             UNCHANGED <<answers, found, ignored, published, paused, cancelled>>
      PROVE  NodesInv'
  BY <1>0, <1>3, NodesTurn DEF N!Done, N!Idle
<1>4. CASE N!Ping
  <2>1. "ping" \in N!Workers BY DEF N!Workers
  <2>2. job["ping"].node \in Nodes BY <1>4, <2>1, AtWork DEF N!Ping, N!Returned, N!Idle
  <2> QED BY <1>0, <1>3, <1>4, <2>1, <2>2 DEF N!Ping
<1>5. CASE N!FindNode
  <2>1. "find" \in N!Workers BY DEF N!Workers
  <2>2. job["find"].node \in Nodes BY <1>5, <2>1, AtWork DEF N!FindNode, N!Returned, N!Idle
  <2> QED BY <1>0, <1>3, <1>5, <2>1, <2>2 DEF N!FindNode
<1>6. ASSUME NEW s \in Samplers, N!SampleFails(s) \/ N!SampleEnds(s) PROVE NodesInv'
  <2>1. s \in N!Workers BY DEF N!Workers
  <2>2. job[s].node \in Nodes
    BY <1>6, <2>1, AtWork DEF N!SampleFails, N!SampleEnds, N!Returned, N!Idle
  <2> QED BY <1>0, <1>3, <1>6, <2>1, <2>2 DEF N!SampleFails, N!SampleEnds
<1>7. ASSUME NEW s \in Samplers, N!Publishing(s) PROVE NodesInv'
  <2>1. s \in N!Workers BY DEF N!Workers
  <2>2. job[s].node \in Nodes BY <1>7, <2>1, AtWork DEF N!Publishing, N!Returned, N!Idle
  <2> QED BY <1>0, <1>7, <2>1, <2>2, NodesTurn DEF N!Publishing
<1>8. ASSUME NEW n \in Nodes, NEW who \in {"itself", "another", "nobody"}, N!Change(n, who)
      PROVE  NodesInv'
  BY <1>0, <1>8, NodesTurn DEF N!Change, N!Replies
<1>9. CASE N!Pause \/ N!Cancel BY <1>0, <1>9, NodesTurn DEF N!Pause, N!Cancel
<1>10. CASE UNCHANGED nodesVars BY <1>0, <1>10, NodesTurn DEF nodesVars
<1> QED BY <1>1, <1>2, <1>4, <1>5, <1>6, <1>7, <1>8, <1>9, <1>10, SampleInv, PublishInv, GiveUpInv
        DEF N!Next, N!Handle


----------------------------------------------------------------------------
(***************************************************************************)
(* The pipeline of one hash (HashPipeline).                                *)
(***************************************************************************)

StagesTypes ==
    /\ P!TypeOK
    /\ msgs \in [P!Topics -> Nat]
    /\ fetch \in [Fetchers -> {"idle", "ask", "store", "publish"}]
    /\ scrape \in [Scrapers -> {"idle", "ask"}]

Announcing == \E f \in Fetchers : fetch[f] = "publish"

\* The processor keeps its message until it has done all that the filter asks for.
Unacknowledged == process # "idle" => msgs["process"] > 0

\* What a fetch has got past the banning checker is not banned.
CheckedBefore == banned => \A f \in Fetchers : fetch[f] \notin {"store", "publish"}

\* A row that is there while the processor deletes it could not be deleted, or was stored again
\* since, and then a message other than the processor's own follows.
StoredAgain ==
    process # "idle" /\ row # "none" =>
        cut \/ msgs["metaInfo"] > 0 \/ msgs["process"] > 1 \/ Announcing

\* The indexer writes a row that is gone only if it was deleted under its hands.
WritesWhatIsThere == index = "write" /\ row = "none" => overtaken

StagesInv ==
    /\ StagesTypes /\ Unacknowledged /\ CheckedBefore /\ StoredAgain /\ WritesWhatIsThere
    /\ P!BannedNeverStored /\ P!StoredIsProcessed /\ P!DocumentsFollow

\* Initially there are no messages and nothing is stored.
LEMMA StagesInit == P!Init => StagesInv
<1> SUFFICES ASSUME P!Init PROVE StagesInv OBVIOUS
<1> QED BY DEF P!Init, StagesInv, StagesTypes, P!TypeOK, P!Topics, Unacknowledged, CheckedBefore,
               StoredAgain, WritesWhatIsThere, P!BannedNeverStored, P!StoredIsProcessed,
               P!DocumentsFollow

\* What one message less on a topic and one more on others makes of the counts.
LEMMA Counts ==
    ASSUME msgs \in [P!Topics -> Nat], NEW topic \in P!Topics, NEW more, P!Receives(topic, more)
    PROVE  /\ msgs' \in [P!Topics -> Nat]
           /\ msgs[topic] > 0
           /\ \A t \in P!Topics :
                msgs'[t] = (IF t \in more THEN msgs[t] + 1 ELSE msgs[t]) - (IF t = topic THEN 1 ELSE 0)
BY DEF P!Receives, P!Handled, P!Sent

LEMMA CountsSent ==
    ASSUME msgs \in [P!Topics -> Nat], NEW more, msgs' = P!Sent(more)
    PROVE  /\ msgs' \in [P!Topics -> Nat]
           /\ \A t \in P!Topics : msgs'[t] = IF t \in more THEN msgs[t] + 1 ELSE msgs[t]
BY DEF P!Sent

\* The topics that the properties speak of.
LEMMA TopicNames ==
    {"metaInfo", "process", "delete", "enriched", "discovered", "getPeers", "scrape", "scrapeResult"}
        = P!Topics
BY DEF P!Topics

\* Every step keeps the invariant.
LEMMA StagesNext == StagesInv /\ [P!Next]_pipelineVars => StagesInv'
<1> SUFFICES ASSUME StagesInv, [P!Next]_pipelineVars PROVE StagesInv' OBVIOUS
<1>0. /\ msgs \in [P!Topics -> Nat]
      /\ fetch \in [Fetchers -> {"idle", "ask", "store", "publish"}]
      /\ scrape \in [Scrapers -> {"idle", "ask"}]
  BY DEF StagesInv, StagesTypes
<1> USE DEF StagesInv, StagesTypes, P!TypeOK, Unacknowledged, CheckedBefore, StoredAgain, Announcing,
            WritesWhatIsThere, P!BannedNeverStored, P!StoredIsProcessed, P!DocumentsFollow,
            P!torrent, P!stored, P!search, P!bounds
<1>1. CASE P!Discover
  BY <1>0, <1>1, CountsSent, TopicNames DEF P!Discover
<1>2. CASE P!Triage
  BY <1>0, <1>2, Counts, TopicNames DEF P!Triage, P!TriageSends
<1>3. ASSUME NEW f \in Fetchers, P!StartFetch(f) PROVE StagesInv'
  BY <1>0, <1>3, Counts, TopicNames DEF P!StartFetch
<1>4. ASSUME NEW f \in Fetchers, P!FetchFails(f) PROVE StagesInv'
  BY <1>0, <1>4 DEF P!FetchFails, P!FetchGoes
<1>5. ASSUME NEW f \in Fetchers, NEW b \in BOOLEAN, P!FetchBanned(f, b) PROVE StagesInv'
  BY <1>0, <1>5 DEF P!FetchBanned, P!FetchGoes
<1>6. ASSUME NEW f \in Fetchers, P!Fetched(f) PROVE StagesInv'
  BY <1>0, <1>6 DEF P!Fetched, P!FetchGoes, P!Refused
<1>7. ASSUME NEW f \in Fetchers, P!Store(f) PROVE StagesInv'
  BY <1>0, <1>7 DEF P!Store, P!FetchGoes
<1>8. ASSUME NEW f \in Fetchers, P!PublishMetaInfo(f) PROVE StagesInv'
  BY <1>0, <1>8, CountsSent, TopicNames DEF P!PublishMetaInfo, P!FetchGoes
<1>9. CASE P!Persist
  BY <1>0, <1>9, Counts, TopicNames DEF P!Persist, P!PersistSends
<1>10. ASSUME NEW s \in Scrapers, P!StartScrape(s) PROVE StagesInv'
  BY <1>0, <1>10, Counts, TopicNames DEF P!StartScrape
<1>11. ASSUME NEW s \in Scrapers, NEW a \in BOOLEAN, P!ScrapeEnds(s, a) PROVE StagesInv'
  BY <1>0, <1>11, CountsSent, TopicNames DEF P!ScrapeEnds, P!Nothing
<1>12. ASSUME NEW shared \in BOOLEAN, P!PersistSources(shared) PROVE StagesInv'
  <2>1. row = "none" => ~swarm' BY <1>12, Zenon DEF P!PersistSources, P!Present
  <2>2. /\ P!Receives("scrapeResult", {"process"})
        /\ UNCHANGED <<fetch, scrape, row, stale, classified, process, index, document, cut,
                       overtaken, banned>>
    BY <1>12, SMT DEF P!PersistSources
  <2>3. /\ msgs' \in [P!Topics -> Nat]
        /\ msgs'["process"] = msgs["process"] + 1
        /\ \A t \in {"metaInfo", "delete"} : msgs'[t] = msgs[t]
    BY <1>0, <2>2 DEF P!Receives, P!Handled, P!Sent, P!Topics
  <2> QED BY <1>0, <2>1, <2>2, <2>3, TopicNames
<1>13. CASE P!ProcessMissing \/ P!ProcessRecent
  BY <1>0, <1>13, Counts, TopicNames DEF P!ProcessMissing, P!ProcessRecent, P!Processing
<1>14. CASE P!Process
  BY <1>0, <1>14, Counts, TopicNames DEF P!Process, P!Processing
<1>15. ASSUME NEW fails \in BOOLEAN, P!DeleteRow(fails) PROVE StagesInv'
  BY <1>0, <1>15 DEF P!DeleteRow, P!Processing
<1>16. CASE P!Block BY <1>0, <1>16 DEF P!Block
<1>17. CASE P!PublishDelete
  BY <1>0, <1>17, Counts, TopicNames DEF P!PublishDelete, P!Told
<1>18. CASE P!Load
  <2>1. msgs' \in [P!Topics -> Nat] /\ \A t \in P!Topics \ {"enriched"} : msgs'[t] = msgs[t]
    BY <1>0, <1>18, TopicNames DEF P!Load, P!Handled, P!Sent
  <2> QED BY <1>0, <1>18, <2>1, TopicNames DEF P!Load
<1>19. ASSUME NEW ok \in BOOLEAN, P!Write(ok) PROVE StagesInv'
  BY <1>0, <1>19, Counts, TopicNames DEF P!Write
<1>20. CASE P!Delete BY <1>0, <1>20, Counts, TopicNames DEF P!Delete
<1>21. CASE P!TimePasses BY <1>0, <1>21 DEF P!TimePasses
<1>22. CASE P!ChangeFilter BY <1>0, <1>22 DEF P!ChangeFilter
<1>23. CASE P!Crash BY <1>0, <1>23 DEF P!Crash
<1>24. CASE UNCHANGED pipelineVars BY <1>24 DEF pipelineVars
<1> QED BY <1>1, <1>2, <1>3, <1>4, <1>5, <1>6, <1>7, <1>8, <1>9, <1>10, <1>11, <1>12, <1>13,
           <1>14, <1>15, <1>16, <1>17, <1>18, <1>19, <1>20, <1>21, <1>22, <1>23, <1>24
        DEF P!Next, P!Work, P!FetchStep, P!ScrapeStep, P!Stage, P!ProcessorStep, P!IndexerStep


----------------------------------------------------------------------------
(***************************************************************************)
(* The requests of one fetch (MetainfoFetch).                              *)
(***************************************************************************)

\* What is held is what the position needs, and is given back by the end of a request.
HeldFits ==
    held = CASE at \in {"idle", "done"} -> {}
             [] at = "acquire" -> {"query"}
             [] at = "dial" -> {"query", "slot"}
             [] OTHER -> {"query", "slot", "socket"}

\* The outcome is known when the fetch is over, and only banned content is blocked.
OutcomeAtEnd == (outcome # "none" => at = "done") /\ (blocks => outcome = "banned")

RequestInv ==
    /\ HeldFits /\ OutcomeAtEnd
    /\ R!FoundIsGenuine /\ R!AllReturned /\ R!GivesUpAfterAll

\* Initially nothing is held.
LEMMA RequestInit == R!Init => RequestInv
BY DEF R!Init, RequestInv, HeldFits, OutcomeAtEnd, R!FoundIsGenuine, R!AllReturned, R!GivesUpAfterAll

\* A request that fails gives everything back, whether another follows or not.
LEMMA FailsInv ==
    ASSUME RequestInv, at # "done", R!Fails, UNCHANGED <<size, content, blocks>>
    PROVE  RequestInv'
BY DEF R!Fails, R!Ends, RequestInv, HeldFits, OutcomeAtEnd, R!FoundIsGenuine, R!AllReturned,
       R!GivesUpAfterAll

\* Every step keeps the invariant.
LEMMA RequestNext == RequestInv /\ [R!Next]_requestVars => RequestInv'
<1> SUFFICES ASSUME RequestInv, [R!Next]_requestVars PROVE RequestInv' OBVIOUS
<1>1. CASE R!Begin \/ R!Acquire \/ R!Connect \/ R!Greeted \/ R!AskForAll
  BY <1>1 DEF R!Begin, R!Acquire, R!Connect, R!Greeted, R!AskForAll, R!Moves, R!torrent, RequestInv,
              HeldFits, OutcomeAtEnd, R!FoundIsGenuine, R!AllReturned, R!GivesUpAfterAll
<1>2. CASE R!Broken BY <1>2, FailsInv DEF R!Broken, R!torrent
<1>3. ASSUME NEW s, R!Extended(s) PROVE RequestInv'
  <2>1. CASE R!Fails BY <1>3, <2>1, FailsInv DEF R!Extended, R!torrent
  <2>2. CASE ~R!Fails
    BY <1>3, <2>2 DEF R!Extended, R!torrent, RequestInv, HeldFits, OutcomeAtEnd, R!FoundIsGenuine,
                      R!AllReturned, R!GivesUpAfterAll
  <2> QED BY <2>1, <2>2
<1>4. ASSUME NEW p, R!Receive(p) PROVE RequestInv'
  <2>1. CASE R!Fails BY <1>4, <2>1, FailsInv DEF R!Receive, R!torrent
  <2>2. CASE ~R!Fails
    BY <1>4, <2>2 DEF R!Receive, R!Ends, R!torrent, RequestInv, HeldFits, OutcomeAtEnd,
                      R!FoundIsGenuine, R!AllReturned, R!GivesUpAfterAll
  <2> QED BY <2>1, <2>2
<1>5. CASE R!Check
  <2>1. CASE R!Fails /\ UNCHANGED blocks BY <1>5, <2>1, FailsInv DEF R!Check, R!torrent
  <2>2. CASE ~(R!Fails /\ UNCHANGED blocks)
    BY <1>5, <2>2 DEF R!Check, R!Ends, R!Genuine, R!torrent, RequestInv, HeldFits, OutcomeAtEnd,
                      R!FoundIsGenuine, R!AllReturned, R!GivesUpAfterAll
  <2> QED BY <2>1, <2>2
<1>6. CASE R!Stop \/ UNCHANGED requestVars
  BY <1>6 DEF R!Stop, R!torrent, R!Genuine, requestVars, RequestInv, HeldFits, OutcomeAtEnd,
              R!FoundIsGenuine, R!AllReturned, R!GivesUpAfterAll
<1> QED BY <1>1, <1>2, <1>3, <1>4, <1>5, <1>6 DEF R!Next, R!Work


----------------------------------------------------------------------------
(***************************************************************************)
(* What peers send: the bytes of right pieces go to different places, so   *)
(* that right pieces are never too many bytes, and enough bytes of them    *)
(* are the metadata.                                                       *)
(***************************************************************************)

USE DEF R!PieceSize

\* The module's own cardinality is the one of the library.
LEMMA CardinalityOfR == \A S : R!Cardinality(S) = Cardinality(S)
BY DEF R!Cardinality, Cardinality

\* The numbers and the bytes of pieces are finite in number.
LEMMA BytesFinite ==
    ASSUME NEW pieces \in Seq(R!Messages)
    PROVE  IsFiniteSet(R!Bytes(pieces)) /\ R!ReceivedSize(pieces) \in Nat
<1>1. Len(pieces) \in Nat /\ DOMAIN pieces = 1..Len(pieces)
  OBVIOUS
<1>2. ASSUME NEW i \in DOMAIN pieces PROVE pieces[i].length \in 0..3
  <2>1. pieces[i] \in R!Messages
    OBVIOUS
  <2> QED BY <2>1 DEF R!Messages
<1>3. R!Bytes(pieces) \subseteq (1..Len(pieces)) \X (1..3)
  <2>1. ASSUME NEW i \in DOMAIN pieces, NEW k \in 1..pieces[i].length PROVE k \in 1..3
    <3> DEFINE l == pieces[i].length
    <3>1. l \in 0..3 /\ k \in 1..l
      BY <1>2
    <3> HIDE DEF l
    <3> QED BY <3>1
  <2> QED BY <1>1, <2>1 DEF R!Bytes
<1>4. IsFiniteSet((1..Len(pieces)) \X (1..3))
  <2>1. \A n \in Nat : IsFiniteSet(1..n)
    BY FS_Interval
  <2> QED BY <1>1, <2>1, FS_Product
<1>5. IsFiniteSet(R!Bytes(pieces))
  BY <1>3, <1>4, FS_Subset
<1> QED BY <1>5, FS_CardinalityType, CardinalityOfR DEF R!ReceivedSize

\* Where a byte goes to.
Place(pieces) == [b \in R!Bytes(pieces) |-> pieces[b[1]].number * 2 + b[2]]

\* A byte belongs to a piece.
LEMMA ByteOf ==
    ASSUME NEW pieces, NEW b
    PROVE  b \in R!Bytes(pieces) <=> \E i \in DOMAIN pieces : \E k \in 1..pieces[i].length : b = <<i, k>>
BY DEF R!Bytes

\* No two bytes of right pieces go to the same place, and none beyond the end.
LEMMA PlacesApart ==
    ASSUME NEW pieces \in Seq(R!Messages), size \in Nat \ {0}, R!Right(pieces)
    PROVE  Place(pieces) \in Injection(R!Bytes(pieces), 1..size)
<1>1. ASSUME NEW i \in DOMAIN pieces
      PROVE  /\ pieces[i].number \in 0..R!LastPiece(size)
             /\ pieces[i].number \in Nat /\ pieces[i].length \in 1..2
             /\ pieces[i].number * 2 + pieces[i].length <= size
  <2>1. pieces[i] \in R!Messages
    OBVIOUS
  <2>2. pieces[i].number \in Nat /\ pieces[i].number <= R!LastPiece(size)
        /\ pieces[i].length = R!Length(pieces[i].number, size)
    BY <2>1 DEF R!Right, R!Messages
  <2> DEFINE n == pieces[i].number
  <2>3. n \in Nat /\ n <= (size - 1) \div 2
    BY <2>2 DEF R!LastPiece
  <2> HIDE DEF n
  <2>4. R!Length(n, size) \in 1..2 /\ n * 2 + R!Length(n, size) <= size
    BY <2>3 DEF R!Length
  <2> QED BY <2>2, <2>4 DEF n, R!LastPiece
<1>2. ASSUME NEW b \in R!Bytes(pieces)
      PROVE  /\ b[1] \in DOMAIN pieces /\ b[2] \in 1..pieces[b[1]].length /\ b = <<b[1], b[2]>>
             /\ b[2] \in 1..2 /\ Place(pieces)[b] \in 1..size
  <2>1. b[1] \in DOMAIN pieces /\ b[2] \in 1..pieces[b[1]].length /\ b = <<b[1], b[2]>>
    BY ByteOf
  <2>2. Place(pieces)[b] = pieces[b[1]].number * 2 + b[2]
    BY DEF Place
  <2> DEFINE n == pieces[b[1]].number
             l == pieces[b[1]].length
  <2>3. n \in Nat /\ l \in 1..2 /\ n * 2 + l <= size /\ b[2] \in 1..l
    BY <1>1, <2>1
  <2>4. Place(pieces)[b] = n * 2 + b[2]
    BY <2>2
  <2> HIDE DEF n, l
  <2> QED BY <2>1, <2>3, <2>4
<1>3. ASSUME NEW b \in R!Bytes(pieces), NEW c \in R!Bytes(pieces), Place(pieces)[b] = Place(pieces)[c]
      PROVE  b = c
  <2> DEFINE n == pieces[b[1]].number
             m == pieces[c[1]].number
  <2>1. n \in Nat /\ m \in Nat /\ b[2] \in 1..2 /\ c[2] \in 1..2
    BY <1>1, <1>2
  <2>2. n * 2 + b[2] = m * 2 + c[2]
    BY <1>3 DEF Place
  <2> HIDE DEF n, m
  <2>3. n = m /\ b[2] = c[2]
    BY <2>1, <2>2
  <2>4. b[1] = c[1]
    BY <1>2, <2>3 DEF R!Right, n, m
  <2> QED BY <1>2, <2>3, <2>4
<1> QED BY <1>2, <1>3 DEF Injection, IsInjective, Place

\* So right pieces are never too much, and when they are enough each of them is there.
LEMMA RightFit ==
    ASSUME NEW pieces \in Seq(R!Messages), size \in Nat \ {0}, R!Right(pieces)
    PROVE  /\ R!ReceivedSize(pieces) <= size
           /\ R!ReceivedSize(pieces) = size =>
                \A n \in 0..R!LastPiece(size) : \E i \in DOMAIN pieces : pieces[i].number = n
<1>1. IsFiniteSet(1..size) /\ Cardinality(1..size) = size
  BY FS_Interval
<1>2. /\ R!ReceivedSize(pieces) <= size
      /\ R!ReceivedSize(pieces) = size => Place(pieces) \in Surjection(R!Bytes(pieces), 1..size)
  BY <1>1, PlacesApart, FS_Injection, CardinalityOfR DEF R!ReceivedSize
<1>3. ASSUME Place(pieces) \in Surjection(R!Bytes(pieces), 1..size), NEW n \in 0..R!LastPiece(size)
      PROVE  \E i \in DOMAIN pieces : pieces[i].number = n
  <2>1. n * 2 + 1 \in 1..size
    BY DEF R!LastPiece
  <2>2. PICK b \in R!Bytes(pieces) : Place(pieces)[b] = n * 2 + 1
    BY <1>3, <2>1 DEF Surjection
  <2>3. PICK i \in DOMAIN pieces : \E k \in 1..pieces[i].length : b = <<i, k>>
    BY ByteOf
  <2>4. PICK k \in 1..pieces[i].length : b = <<i, k>>
    BY <2>3
  <2> DEFINE m == pieces[i].number
             l == pieces[i].length
  <2>5. m \in Nat /\ l \in 0..3 /\ pieces[i].number <= R!LastPiece(size) /\ l = R!Length(m, size)
    <3>1. pieces[i] \in R!Messages
      OBVIOUS
    <3> QED BY <3>1 DEF R!Messages, R!Right
  <2>6. m * 2 + k = n * 2 + 1 /\ k \in 1..l
    BY <2>2, <2>4 DEF Place
  <2> HIDE DEF m, l
  <2>7. k \in 1..2
    <3>1. l <= 2
      BY <2>5 DEF R!Length
    <3> QED BY <2>5, <2>6, <3>1
  <2>8. m = n
    BY <2>5, <2>6, <2>7
  <2> QED BY <2>8 DEF m
<1> QED BY <1>2, <1>3

\* As many right pieces as there are pieces are enough: each of them is there, and its bytes.
LEMMA RightComplete ==
    ASSUME NEW pieces \in Seq(R!Messages), size \in Nat \ {0}, R!Right(pieces),
           Len(pieces) > R!LastPiece(size)
    PROVE  R!ReceivedSize(pieces) = size
<1> DEFINE last == R!LastPiece(size)
           number == [i \in DOMAIN pieces |-> pieces[i].number]
<1>0. last \in Nat /\ last = (size - 1) \div 2
  BY DEF R!LastPiece
<1>l. Len(pieces) > last
  OBVIOUS
<1>1. Len(pieces) \in Nat /\ DOMAIN pieces = 1..Len(pieces)
  OBVIOUS
<1>2. ASSUME NEW i \in DOMAIN pieces
      PROVE  /\ pieces[i].number \in 0..last /\ pieces[i].length = R!Length(pieces[i].number, size)
             /\ \A j \in DOMAIN pieces : pieces[i].number = pieces[j].number => i = j
  <2>1. pieces[i] \in R!Messages
    OBVIOUS
  <2> QED BY <1>0, <2>1 DEF R!Right, R!Messages
<1> HIDE DEF last
<1>3. number \in Injection(DOMAIN pieces, 0..last)
  BY <1>2 DEF Injection, IsInjective
<1>4. IsFiniteSet(0..last) /\ Cardinality(0..last) = last + 1
  BY <1>0, FS_Interval
<1>5. IsFiniteSet(DOMAIN pieces) /\ Cardinality(DOMAIN pieces) = Len(pieces)
  <2>1. \A n \in Nat : IsFiniteSet(1..n) /\ Cardinality(1..n) = n
    BY FS_Interval
  <2> QED BY <1>1, <2>1
<1>6. number \in Surjection(DOMAIN pieces, 0..last)
  <2>1. Len(pieces) <= last + 1
    BY <1>3, <1>4, <1>5, FS_Injection
  <2>2. \A k, l \in Nat : k > l /\ k <= l + 1 => k = l + 1
    OBVIOUS
  <2>3. Len(pieces) = last + 1
    BY <1>0, <1>1, <1>l, <2>1, <2>2
  <2> QED BY <1>3, <1>4, <1>5, <2>3, FS_Injection
<1>7. \A n \in 0..last : \E i \in DOMAIN pieces : pieces[i].number = n
  BY <1>6 DEF Surjection
<1>8. Place(pieces) \in Surjection(R!Bytes(pieces), 1..size)
  <2>1. ASSUME NEW m \in 1..size PROVE \E b \in R!Bytes(pieces) : Place(pieces)[b] = m
    <3> DEFINE n == (m - 1) \div 2
               k == m - 2 * n
    <3>1. n \in 0..last /\ k \in 1..2
      BY <1>0
    <3>2. k \in 1..R!Length(n, size)
      BY <1>0, <3>1 DEF R!Length
    <3>3. n * 2 + k = m
      BY <3>1
    <3> HIDE DEF n, k
    <3>4. PICK i \in DOMAIN pieces : pieces[i].number = n
      BY <1>7, <3>1
    <3>5. k \in 1..pieces[i].length
      BY <1>2, <3>2, <3>4
    <3>6. <<i, k>> \in R!Bytes(pieces)
      BY <3>5, ByteOf
    <3>7. Place(pieces)[<<i, k>>] = n * 2 + k
      BY <3>4, <3>6 DEF Place
    <3> QED BY <3>3, <3>6, <3>7
  <2> QED BY <2>1, PlacesApart DEF Surjection, Injection
<1>9. IsFiniteSet(1..size) /\ Cardinality(1..size) = size
  BY FS_Interval
<1> QED BY <1>8, <1>9, PlacesApart, FS_Injection, CardinalityOfR DEF R!ReceivedSize

\* So a loop that adds up bytes refuses no right pieces but the short one that comes early.
LEMMA RightAccepted ==
    ASSUME NEW pieces \in Seq(R!Messages), pieces # <<>>, size \in Nat \ {0},
           R!Behaviour(pieces) = "right"
    PROVE  ~R!Excessive(pieces) /\ ~R!OutOfRange(pieces[Len(pieces)])
<1>1. R!Right(pieces) /\ ~R!EarlyEnd(pieces)
  BY DEF R!Behaviour
<1>2. announced = size
  BY <1>1 DEF R!Right
<1> DEFINE final == pieces[Len(pieces)]
           n == final.number
           length == final.length
           last == R!LastPiece(size)
<1>3. Len(pieces) \in DOMAIN pieces /\ final \in R!Messages
  OBVIOUS
<1>4. n \in Nat /\ n <= last /\ length = R!Length(n, size)
  BY <1>1, <1>3 DEF R!Right, R!Messages
<1>5. last \in Nat /\ last = (size - 1) \div 2
  BY DEF R!LastPiece
<1> HIDE DEF n, last, length
<1>6. length \in 1..2 /\ n * 2 + length <= size /\ (length < 2 => n = last)
  BY <1>4, <1>5 DEF R!Length
<1>7. ASSUME length < 2 PROVE R!ReceivedSize(pieces) = size
  <2>1. R!Length(last, size) < 2
    BY <1>4, <1>6, <1>7
  <2>2. Len(pieces) > last
    BY <1>1, <1>3, <1>5, <1>6, <1>7, <2>1 DEF R!EarlyEnd, last, n
  <2> QED BY <1>1, <2>2, RightComplete DEF last
<1>8. R!ReceivedSize(pieces) \in Nat /\ R!ReceivedSize(pieces) <= size
  BY <1>1, BytesFinite, RightFit
<1>9. ~(length > 2) /\ ~(length < 2 /\ R!ReceivedSize(pieces) # announced)
      /\ ~(R!ReceivedSize(pieces) > announced) /\ ~(n * 2 + length > announced)
  BY <1>2, <1>4, <1>6, <1>7, <1>8
<1>10. ~R!Excessive(pieces)
  BY <1>9 DEF R!Excessive, length
<1>11. ~R!OutOfRange(final)
  BY <1>9 DEF R!OutOfRange, n, length
<1> QED BY <1>10, <1>11

\* And right pieces that are as many bytes as were announced are the metadata.
LEMMA RightGenuine ==
    ASSUME arrived \in Seq(R!Messages), size \in Nat \ {0}, R!Behaviour(arrived) = "right",
           R!ReceivedSize(arrived) = announced
    PROVE  R!Genuine
<1>1. R!Right(arrived) /\ announced = size
  BY DEF R!Behaviour, R!Right
<1>2. \A n \in 0..R!LastPiece(size) : \E i \in DOMAIN arrived : arrived[i].number = n
  BY <1>1, RightFit
<1> QED BY <1>1, <1>2 DEF R!Genuine, R!Right

\* What a request has got fits what was announced.
FetchTypes ==
    /\ at \in {"idle", "acquire", "dial", "greet", "extend", "ask", "pieces", "check", "done"}
    /\ peer \in 1..Peers /\ announced \in 0..MaxSize /\ arrived \in Seq(R!Messages)
    /\ outcome \in {"none", "found", "banned", "failed", "panicked"}
    /\ R!ReceivedSize(arrived) \in Nat /\ R!ReceivedSize(arrived) <= announced

FetchInv ==
    /\ FetchTypes /\ size \in Sizes
    /\ at = "check" => R!ReceivedSize(arrived) = announced
    /\ at \notin {"pieces", "check", "done"} => arrived = <<>>
    /\ R!RightIsTaken

\* No pieces are no bytes.
LEMMA NothingReceived == R!ReceivedSize(<<>>) = 0 /\ <<>> \in Seq(R!Messages)
<1>1. R!Bytes(<<>>) = {}
  BY DEF R!Bytes
<1> QED BY <1>1, FS_EmptySet, CardinalityOfR DEF R!ReceivedSize

\* Initially nothing is announced.
LEMMA FetchInit == R!Init => FetchInv
BY NothingReceived, FetchAssumption DEF R!Init, FetchInv, FetchTypes, R!RightIsTaken

\* The next peer starts with nothing.
LEMMA FailsFresh ==
    ASSUME FetchInv, R!Fails, UNCHANGED size, R!RightIsTaken'
    PROVE  FetchInv'
<1>1. announced' = 0 /\ arrived' = <<>> /\ at' \in {"acquire", "done"} /\ peer' \in 1..Peers
  BY FetchAssumption DEF R!Fails, R!Ends, FetchInv, FetchTypes
<1>2. outcome' \in {"none", "found", "banned", "failed", "panicked"}
  BY DEF R!Fails, R!Ends, FetchInv, FetchTypes
<1>3. R!ReceivedSize(arrived)' = 0
  BY <1>1, NothingReceived DEF R!ReceivedSize, R!Bytes
<1>4. 0 \in 0..MaxSize
  BY FetchAssumption
<1> QED BY <1>1, <1>2, <1>3, <1>4, NothingReceived DEF FetchInv, FetchTypes, R!Messages, R!LastPiece

\* What a step leaves alone still fits.
LEMMA FetchSame ==
    ASSUME FetchInv, UNCHANGED <<size, peer, announced, arrived, refused>>,
           at' \in {"acquire", "dial", "greet", "extend", "ask", "pieces", "done"},
           at' \in {"pieces", "done"} \/ at \notin {"pieces", "check", "done"},
           outcome' \in {"none", "found", "banned", "failed", "panicked"}
    PROVE  FetchInv'
<1>1. R!ReceivedSize(arrived)' = R!ReceivedSize(arrived)
  BY DEF R!ReceivedSize, R!Bytes
<1>2. R!Messages' = R!Messages
  BY DEF R!Messages, R!LastPiece
<1> QED BY <1>1, <1>2 DEF FetchInv, FetchTypes, R!RightIsTaken

\* Every step of a fetch keeps what it has.
LEMMA FetchNext == FetchInv /\ [R!Next]_requestVars => FetchInv'
<1> SUFFICES ASSUME FetchInv, [R!Next]_requestVars PROVE FetchInv' OBVIOUS
<1>0. size \in Nat \ {0} /\ arrived \in Seq(R!Messages)
  BY FetchAssumption DEF FetchInv, FetchTypes
<1>t. outcome \in {"none", "found", "banned", "failed", "panicked"}
  BY DEF FetchInv, FetchTypes
<1>1. CASE R!Begin \/ R!Acquire \/ R!Connect \/ R!Greeted \/ R!AskForAll
  BY <1>1, <1>t, FetchSame DEF R!Begin, R!Acquire, R!Connect, R!Greeted, R!AskForAll, R!Moves, R!torrent
<1>2. CASE R!Broken
  <2>1. R!Fails /\ UNCHANGED size /\ R!RightIsTaken'
    BY <1>2 DEF R!Broken, R!torrent, FetchInv, R!RightIsTaken
  <2> QED BY <2>1, FailsFresh
<1>3. ASSUME NEW s \in 0..MaxSize, R!Extended(s) PROVE FetchInv'
  <2>0. UNCHANGED size /\ R!RightIsTaken'
    BY <1>3 DEF R!Extended, R!torrent, FetchInv, R!RightIsTaken
  <2>1. CASE R!Fails BY <2>0, <2>1, FailsFresh
  <2>2. CASE ~R!Fails
    <3>1. at' = "ask" /\ announced' = s /\ UNCHANGED <<peer, arrived, outcome>> /\ arrived = <<>>
      BY <1>3, <2>2 DEF R!Extended, FetchInv
    <3>2. R!ReceivedSize(arrived)' = 0
      BY <3>1, NothingReceived DEF R!ReceivedSize, R!Bytes
    <3>3. s \in 0..MaxSize /\ s >= 0
      OBVIOUS
    <3> QED BY <2>0, <3>1, <3>2, <3>3, NothingReceived DEF FetchInv, FetchTypes, R!Messages, R!LastPiece
  <2> QED BY <2>1, <2>2
<1>4. ASSUME NEW p \in R!Messages, R!Receive(p) PROVE FetchInv'
  <2> DEFINE pieces == Append(arrived, p)
  <2>0. /\ pieces \in Seq(R!Messages) /\ pieces # <<>> /\ pieces[Len(pieces)] = p
        /\ UNCHANGED size
    BY <1>0, <1>4 DEF R!Receive, R!torrent
  <2>1. R!Excessive(pieces) \/ R!OutOfRange(p) => R!Behaviour(pieces) # "right"
    <3> HIDE DEF pieces
    <3> QED BY <1>0, <2>0, RightAccepted
  <2>2. R!RightIsTaken'
    BY <1>4, <2>1 DEF R!Receive, R!RightIsTaken, FetchInv
  <2>3. CASE R!Fails BY <2>0, <2>2, <2>3, FailsFresh
  <2>4. CASE R!Ends("panicked") /\ UNCHANGED <<peer, announced, arrived>>
    <3>1. R!ReceivedSize(arrived)' = R!ReceivedSize(arrived) /\ R!Messages' = R!Messages
      BY <2>4 DEF R!ReceivedSize, R!Bytes, R!Messages, R!LastPiece
    <3> QED BY <2>0, <2>2, <2>4, <3>1 DEF R!Ends, FetchInv, FetchTypes
  <2>5. CASE /\ ~R!Excessive(pieces) /\ arrived' = pieces
             /\ at' = IF R!ReceivedSize(pieces) = announced THEN "check" ELSE at
             /\ UNCHANGED <<peer, announced, outcome>>
    <3>1. R!ReceivedSize(arrived)' = R!ReceivedSize(pieces) /\ R!Messages' = R!Messages
      BY <2>5 DEF R!ReceivedSize, R!Bytes, R!Messages, R!LastPiece
    <3>2. at = "pieces"
      BY <1>4 DEF R!Receive
    <3> HIDE DEF pieces
    <3>3. /\ R!ReceivedSize(pieces) \in Nat /\ announced \in 0..MaxSize
          /\ ~(R!ReceivedSize(pieces) > announced)
      BY <2>0, <2>5, BytesFinite DEF R!Excessive, FetchInv, FetchTypes
    <3>4. R!ReceivedSize(pieces) <= announced
      BY <3>3
    <3> QED BY <2>0, <2>2, <2>5, <3>1, <3>2, <3>3, <3>4 DEF FetchInv, FetchTypes
  <2> QED BY <1>4, <2>3, <2>4, <2>5 DEF R!Receive
<1>5. CASE R!Check
  <2>0. at = "check" /\ UNCHANGED size /\ R!ReceivedSize(arrived) = announced
    BY <1>5 DEF R!Check, R!torrent, FetchInv
  <2>1. ~R!Genuine => R!Behaviour(arrived) # "right"
    BY <1>0, <2>0, RightGenuine
  <2>2. R!RightIsTaken'
    BY <1>5, <2>1 DEF R!Check, R!RightIsTaken, FetchInv
  <2>3. CASE R!Fails BY <2>0, <2>2, <2>3, FailsFresh
  <2>4. CASE ~R!Fails
    BY <1>5, <2>0, <2>4, FetchSame DEF R!Check, R!Ends
  <2> QED BY <2>3, <2>4
<1>6. CASE R!Stop \/ UNCHANGED requestVars
  <2>1. UNCHANGED <<size, at, peer, announced, arrived, outcome, refused>>
    BY <1>6 DEF R!Stop, R!torrent, requestVars
  <2>2. R!ReceivedSize(arrived)' = R!ReceivedSize(arrived) /\ R!Messages' = R!Messages
    BY <2>1 DEF R!ReceivedSize, R!Bytes, R!Messages, R!LastPiece
  <2> QED BY <2>1, <2>2 DEF FetchInv, FetchTypes, R!RightIsTaken
<1> QED BY <1>1, <1>2, <1>3, <1>4, <1>5, <1>6 DEF R!Next, R!Work

----------------------------------------------------------------------------
(***************************************************************************)
(* The composition: a behaviour is about one of the parts, and leaves the  *)
(* variables of the others alone.                                          *)
(***************************************************************************)

mcVars == <<part, vars, pipelineVars, nodesVars, requestVars>>

\* Every step of the composition is one of each part, or leaves it alone.
LEMMA PartsNext ==
    [MCNext]_mcVars => [P!Next]_pipelineVars /\ [N!Next]_nodesVars /\ [R!Next]_requestVars
BY DEF MCNext, mcVars

LEMMA PartsInit == MCInit => P!Init /\ N!Init /\ R!Init
BY DEF MCInit

\* The inductive invariants imply the contract.
LEMMA ContractKept == StagesInv /\ NodesInv => PipelineContract
BY DEF StagesInv, StagesTypes, NodesInv, NodesTypes, PipelineContract

(***************************************************************************)
(* What the handlers of dht, the processor and the indexer keep of a hash  *)
(* fits together: banned content is never stored (metainfo/handler.go),    *)
(* what is stored is processed and what is deleted leaves the index, but   *)
(* for deletions broken off and writes overtaken.  And testAndAdd          *)
(* (dhtcrawler/crawler.go) lets each hash through once: it is        *)
(* published once, and never ignored without being published.              *)
(***************************************************************************)
THEOREM PipelineKept == MCSpec => []PipelineContract
<1>1. MCInit => StagesInv /\ NodesInv BY PartsInit, StagesInit, NodesInit
<1>2. StagesInv /\ NodesInv /\ [MCNext]_mcVars => (StagesInv /\ NodesInv)'
  BY PartsNext, StagesNext, NodesNext
<1>3. MCSpec => MCInit /\ [][MCNext]_mcVars BY PTL DEF MCSpec, mcVars
<1> QED BY <1>1, <1>2, <1>3, ContractKept, PTL

(***************************************************************************)
(* fetchMetaInfo (dht/metainfo/handler.go) and readAllPieces               *)
(* (metainforequester/requester.go): whatever the peers send, only the     *)
(* bytes of the torrent are taken for it, right pieces are refused only    *)
(* when the short one comes before others, between two peers a goroutine   *)
(* holds its slot of the consumer only and at the end nothing, and it      *)
(* gives up after all peers only.                                          *)
(***************************************************************************)
THEOREM FetchKept == MCSpec => []FetchContract
<1>1. MCInit => RequestInv /\ FetchInv BY PartsInit, RequestInit, FetchInit
<1>2. RequestInv /\ FetchInv /\ [MCNext]_mcVars => (RequestInv /\ FetchInv)'
  BY PartsNext, RequestNext, FetchNext
<1>3. RequestInv /\ FetchInv => FetchContract
  BY DEF RequestInv, FetchInv, FetchTypes, FetchContract, R!TypeOK
<1>4. MCSpec => MCInit /\ [][MCNext]_mcVars BY PTL DEF MCSpec, mcVars
<1> QED BY <1>1, <1>2, <1>3, <1>4, PTL
=============================================================================
