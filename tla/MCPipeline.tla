------------------------------ MODULE MCPipeline ------------------------------
(***************************************************************************)
(* Instances of a Kafka consumer (EXTENDS), of the pipeline of one hash,   *)
(* whose stages are such consumers, of the requests by which a fetch of    *)
(* that pipeline is made, and of the crawler's workers, whose hashes it    *)
(* gets.  Each allows whatever its neighbours may do: a hash may be        *)
(* discovered, a message come again, and a fetch fail, at any time; so a   *)
(* behaviour picks one of them at the start and the states add up.         *)
(***************************************************************************)
EXTENDS KafkaConsumer

CONSTANTS Fetchers, Scrapers, MaxDiscoveries, MaxTroubles, \* HashPipeline
          Nodes, Hashes, Samplers, Nobody,                    \* CrawlerNodes
          Sizes, Peers, MaxSize                               \* MetainfoFetch

\* A bootstrap address has no identity, and a worker has one task.
ASSUME CrawlerAssumption == Nobody \notin Nodes /\ Samplers \cap {"ping", "find"} = {}

\* There is metadata, and somebody to ask for it.
ASSUME FetchAssumption == Sizes \subseteq Nat \ {0} /\ Peers \in Nat \ {0} /\ MaxSize \in Nat

VARIABLES part,  \* the component that this behaviour is about
          msgs, fetch, scrape, banned, padding, filtered, row, swarm, stale, blocked, classified,
          process, index, document, cut, overtaken, discoveries, troubles,
          table, answers, job, found, ignored, published, paused, cancelled,
          size, content, at, peer, announced, arrived, held, stopped, outcome, blocks, refused

N == INSTANCE CrawlerNodes
P == INSTANCE HashPipeline
R == INSTANCE MetainfoFetch WITH blocked <- blocks

pipelineVars == <<msgs, fetch, scrape, banned, padding, filtered, row, swarm, stale, blocked,
                  classified, process, index, document, cut, overtaken, discoveries, troubles>>
nodesVars == <<table, answers, job, found, ignored, published, paused, cancelled>>
requestVars == <<size, content, at, peer, announced, arrived, held, stopped, outcome, blocks, refused>>

MCInit ==
    /\ part \in {"consumer", "pipeline", "nodes", "request"}
    /\ Init /\ P!Init /\ N!Init /\ R!Init
    /\ part # "pipeline" => ~banned /\ ~padding /\ ~filtered
    /\ part # "request" => size = 2 /\ content = "fine"

Only(p) == part = p /\ UNCHANGED part

MCNext ==
    \/ Only("consumer") /\ Next /\ UNCHANGED <<pipelineVars, nodesVars, requestVars>>
    \/ Only("pipeline") /\ P!Next /\ UNCHANGED <<vars, nodesVars, requestVars>>
    \/ Only("nodes") /\ N!Next /\ UNCHANGED <<vars, pipelineVars, requestVars>>
    \/ Only("request") /\ R!Next /\ UNCHANGED <<vars, pipelineVars, nodesVars>>

\* The consumer, and the crawler's turn for a known node, could move from the initial state:
\* their fairness counts only when the behaviour is about them.
MCSpec ==
    /\ MCInit /\ [][MCNext]_<<part, vars, pipelineVars, nodesVars, requestVars>>
    /\ WF_vars(part = "consumer" /\ ConsumerStep)
    /\ P!Fairness /\ R!Fairness
    /\ \A w \in N!Workers : WF_nodesVars(N!Handle(w))
    /\ \A n \in Nodes : SF_nodesVars(part = "nodes" /\ N!Refresh(n))

\* What the stages, the processor and the indexer keep of one hash fits together whatever is
\* redelivered, fails or crashes; and workers that share the table and the filter publish each
\* hash once and forget none.
PipelineContract ==
    /\ P!TypeOK /\ P!BannedNeverStored /\ P!StoredIsProcessed /\ P!DocumentsFollow
    /\ N!TypeOK /\ N!PublishedOnce /\ N!IgnoredIsPublished

\* What peers have sent is taken for the metadata only if it is, right answers are taken, and
\* all that a fetch held is given back.
FetchContract ==
    R!TypeOK /\ R!FoundIsGenuine /\ R!RightIsTaken /\ R!AllReturned /\ R!GivesUpAfterAll

\* Work comes to rest: every message of the partition is settled, the stages drain and a refused
\* torrent goes, a fetch ends, and dead nodes leave the table.
PipelineProgress ==
    EverythingSettled /\ P!PipelineDrains /\ P!RefusedGoes /\ R!FetchEnds /\ N!DeadLeave
=============================================================================
