# hexmagnet: TLA+ models, checks and proofs

hexmagnet is a self-hosted BitTorrent indexer: it crawls the DHT, requests the metadata of
the torrents it finds, classifies them, indexes them for search and serves them to a web UI.
This directory holds TLA+ modules that model parts of it, configurations with which TLC checks
them on small instances, and theorems about them that TLAPS proves for every value of the
constants. `PROJECT.json` relates every definition to the lines of the source it stands for.

Contents: [1 The system](#1-the-system) · [2 Modules](#2-modules-and-the-code) ·
[3 Runs](#3-what-the-runs-check) · [4 Bounds](#4-bounds) · [5 Fairness](#5-fairness) ·
[6 Proofs](#6-what-is-proved) · [7 Findings](#7-where-the-code-and-its-documents-disagree) ·
[8 Not modelled](#8-what-is-not-modelled) · [9 Plan](#9-plan)

To run a check: `tlc -config Pipeline.cfg MCPipeline`; to check proofs:
`tlapm PipelineProofs.tla`. Section 3 names the module and the configuration of every run.

## 1 The system

All paths are below `src/internal/`. One process runs everything; PostgreSQL holds the
torrents, and Kafka and Elasticsearch are optional.

### 1.1 How the parts interact

```
 DHT network <--UDP--> dht server <-> dht client, responder, routing table
                            |
                       dht crawler --- hashes --->  queue  ---> triage -> metainfo -> persist
                                                      |              \-> scrape, sources
                                                      |                       |
                 webhooks <-- processor <-- messages -+ <---------------------+
                                 |  \--> enrich indexer --> search backend
                                 v             |
                            retry queue <------+     maintenance jobs: reclassify, reindex
 web UI --> GraphQL --> updateConfig --> configuration manager --> every component above
```

- **Messages.** Every arrow into or out of the queue is a topic with one consumer group per
  stage. A topic is served by Kafka or by the in-memory queue; the runtime switches between the
  two while the system runs, and the supervisors restart their consumers.
- **Shared rows.** The processor, the enrich indexer and the scheduler of the retry queue share
  the tables `torrents` and `torrent_retry_queue` without a transaction across them.
- **Callbacks.** The configuration manager calls synchronous subscribers inside `Apply` and
  hands snapshots to asynchronous ones through channels of capacity one.
- **The slot.** A maintenance job takes the one slot of the job controller, and the crawler
  pauses while it is taken.

### 1.2 Components with concurrency or failure of their own

| component | state | operations | what is hard | what makes it correct |
|---|---|---|---|---|
| in-memory queue (`queue/memoryqueue`) | a ring per topic, offsets per group, channels of live consumers, the dirty flag, one database row | Produce, consumer goroutines, persist loops, Close, Reset, Recover | replay beside live delivery, overflow, persists that race, crashes | an offset passes only acknowledged messages; nothing unsaved is left uncovered, but for a row set back to an older copy; recovery brings back what was saved |
| queue runtime and supervisors (`queue/runtime.go`, `queue/supervisor`) | current producer, consumer maker, subscriptions | SwitchTo, run of each supervisor | a switch between any two steps of a restart | no consumer of a replaced backend runs unnoticed; messages are lost only to a switch that meets the call |
| Kafka consumer (`queue/kafka`) | attempt counts, marks | ConsumeClaim and the loop around it | rebalances, crashes, panics | the committed offset passes only settled messages |
| configuration (`configmgr`, `gql/resolvers/config.resolvers.go`, `gql/gqlfx`) | file, snapshot, channels, what each subscriber remembers | updateConfig, Apply, subscribers | concurrent updates, a subscriber that fails after others succeeded | what was saved takes effect; the newest snapshot wins |
| maintenance jobs (`jobcontrol`, `processor/enrich/indexer/tracker.go`) | progress in memory and in the store, the slot | Start, run, Discard, Load | failure and restart between any two steps | one job at a time; a finished run missed nothing; the slot is given back |
| retry queue, processor, enrich indexer (`retryqueue`, `processor`) | entries with failures, leases and times; recently classified torrents | EnqueueBatch, Remove, dispatch, evict, Process, the indexer's handler | steps on shared rows interleave; messages are lost; failures in the middle | no more dispatches than configured; nothing is forgotten; entries leave the queue |
| webhook publisher (`webhook`) | queue channel, wake token, what is in hand | Publish, Update, Start, Stop, the goroutine | the queue is replaced while it is read | no accepted event vanishes; none is lost but by a shrink; Stop ends |
| DHT crawler (`dhtcrawler`, `concurrency`) | bounded channels, batches, seen hashes, the routing table | one goroutine per stage, Stop | channels in a circle; workers that share the table and the filter | it keeps moving and ends after a stop; each hash is published once; dead nodes leave |
| hash pipeline (`dht/triage`, `metainfo`, `scrape`, `persist`, `persistsources`) | rows, messages, blocked hashes, documents | one handler per stage, the torrent filter, indexer and deleter | acknowledged before done; fetches that overtake a deletion | what is stored is processed; what is banned or refused goes; documents follow rows |
| DHT server and client (`protocol/dht/server`, `client`) | outstanding transactions, handlers of responses | Query, read loop, timeout, Stop | late, lost and repeated responses | a response answers its own query; every query returns and leaves nothing behind |
| DHT routing table (`protocol/dht/ktable`, `btree`) | two trees, items, reverse map | commands on nodes and hashes; put, drop, closest of the tree | structures kept in step; counts cached in branches | a tree is the set of what it accepted; trees, items and reverse map agree |
| DHT responder (`protocol/dht/responder`) | a cache of limiters per address, a limiter for all, tokens, discovered nodes | handleQuery, the limits and their replacement, expiry and eviction | two limits drawn one after the other; limiters that are forgotten while they are held | each limiter keeps to its bucket, and an address has one at a time; a flood spares the others |
| worker registry (`worker`) and health checks (`health`) | flags and hooks; states of checks | Start, Stop; the goroutine of each check | one of several fails; results written over what was copied earlier | what runs is what is marked started; what lasts is reported |
| search settings (`search`, `processor/enrich/indexer`, `gql`) | the atoms of the runtime; clients and embedders of indexer, deleter and resolvers | updateConfig, Subscribe, the event loops, reindex requests | the setting is read at several moments by several parties | who comes to rest has the client and embedder in force; vectors fit their index |
| configuration file (`config`, `gql/resolvers`) | the layers, the file, the structs in force | start, updateConfig, an operator's edits | the file is merged, checked and reloaded by other code than reads it at a start; secrets travel masked | what is saved is in force and stays so after a restart |
| database pool (`database/postgres`, `database/db`) | the settings in force, the reference, the pool of the queries | Reconnect, hand over, close after 30 seconds | a swap, a second read and a store beside those of another update | who follows the settings has one open pool; the rest closes |
| metainfo requester (`protocol/metainfo`, `dht/metainfo`) | a connection, the pieces of the metadata, two slots | Request for up to five peers | peers that send anything, in any order | what is handed on is genuine; right answers are taken; nothing stays held |
| crawler statistics (`dhtcrawler/runtimestore_store.go`) | filters and numbers in memory and in rows | TestAndAdd, count, Load, two save loops, Stop | two rows that are written at different times | a run counts an address once; filter and number agree unless a run ended with one unsaved |
| logging (`logging`) | rotators with buffers, the files, the cores loggers hold | write, rotate, prune, sync, UpdateLogConfig, restart | loggers hold a rotator that is being replaced | every entry is in a file in order, or gone for a known reason |
| classifier and its callers (`classifier`, `processor`) | flights, slots, recently classified hashes; the result of a workflow | Process by the consumer and by the reclassify job; the actions of the workflow | calls share flights and runners; failures in the middle | no slot or torrent is lost; rules decide when the model does not answer |
| TMDB client (`tmdb`) | the lazily built requester and its error | UpdateConfig, Request | a requester is validated while others ask | requests go out as configured |
| torrent search (`search`, `database/search`, `elasticsearch/search`) | the barrier and the offset that a client carries from page to page | the statements or requests of a page; storing, indexing and deleting meanwhile | pages minutes apart, made in one of three ways from two stores | a client that asks for page after page sees each torrent once, and true totals |
| text queries and vectors (`database/fts`) | none that lasts: the index, the operator and the negation of a loop | AppQueryToTsquery, AddText | one loop advances its index in four places, and calls itself | PostgreSQL takes every query; a title finds itself |

`PROJECT.json` lists these and all other components with their sources and status. The others
are request handlers, query builders, parsers and wrappers of libraries (section 8).

### 1.3 Hazards

`PROJECT.json` lists what a test hardly reaches, each at its line, with the property that would
catch it or the reason there is none. Some further observations that concern code outside the
models or states the documents promise nothing about:

- With Kafka unreachable the runtime has no producer and drops every message until the next
  switch (`queue/runtime.go:86`, logged).
- `OnStop` calls `CloseMemoryQueue` without the lock that `SwitchTo` holds; during a shutdown
  both may close the same channel (`queue/runtime.go:290`).
- `advanceOffset` does not set the dirty flag, so a restart redelivers everything acknowledged
  since the last message was produced (`queue/memoryqueue/consumer.go:215`).
- Of two persists that overlap (a loop and `Close`, or two loops) the one with the older copy may
  write last (`queue/memoryqueue/queue.go:232-291`): a loop takes the dirty flag and copies the
  topics with one message; a second message sets the flag; `Close` takes it and writes both; the
  loop's upsert then sets the row back to one message, with the flag clear and no persist under way.
  A crash, or the exit that follows, loses the second message, against the at-least-once contract of
  `queue/delivery/delivery.go:1`. The model names this event (`setBack`) as the one exception of
  `RowBehindCovered`; without the exception TLC finds the trace. The next message mends the row
  (`DurabilityProgress`).
- A Kafka group that has never committed starts at the newest offset
  (`queue/kafka/consumer.go:80`): when its first message fails, no session ever sees that
  message again. The run and the theorems about `KafkaConsumer` are for a group that has committed
  (`NewGroup = FALSE` in `Pipeline.cfg`); the constant turns the other case on, which no run checks.
- When a synchronous subscriber fails, those before it keep the refused configuration:
  `configmgr/manager.go:83` says otherwise. They are switched back by the next update only.
- Two concurrent updates of different settings both start from the file they read; the later
  write loses the other's setting (`gql/resolvers/config.resolvers.go:24`).
- `Discard` deletes the saved state after it has released its lock, and may delete what a run
  started in between has saved (`jobcontrol/batch.go:279`); a panic in the preparation of a run
  (line 219) leaves the slot taken; a `Discard` between the failure of a
  run and the save that follows it is undone by that save (line 110). Only progress is lost.
- A transaction that inserted a torrent before a job's barrier may commit after its page was
  listed (`jobcontrol/batch.go:396`); the torrent is then processed by its own message only.
- Webhooks: a shrinking resize drops pending events, against the comment of `Update`
  (`webhook/publisher.go:154`); `Retries` are made after a first attempt (`publisher.go:359`),
  while `webhook/config.go:54` counts attempts; a second `Stop`, after one that timed out,
  clears the flag and a `Start` may then run beside the old goroutine. What the drain after a Stop
  takes from the queue is posted with a context that is cancelled already and fails, against the
  comment at `publisher.go:312`; in the model too a drained event is handled, not delivered.
- DHT: a ping that fails drops the zero identity (`dhtcrawler/ping.go:66`), so only `find_node`
  and `sample_infohashes` remove nodes that are gone; `SetPerIPRateLimit(0)` at run time means
  no tokens, at startup it means no limit; the limit of an address is forgotten 20 seconds after its
  first query, or when 1000 others came since its last (`concurrency/keyed_limiter.go:45`,
  `responder/factory.go:55`), and the next query finds a full bucket, so that over more than 20
  seconds an address may be answered more often than its rate says; `Closest` takes what it needs
  from the side off the path from its zeros on and not by distance (`ktable/btree/node.go:340`);
  the comment at `ktable/btree/node.go:51` and
  `countCloserThanSubpath` say opposite things of a leaf.
- Hash pipeline: a document written after its row was deleted stays until the torrent is found
  again; a crash between storing a torrent and publishing it leaves a row that nothing processes
  before the next scrape; torrents of padding files only are fetched at every discovery; the
  filter is not asked about a torrent that was classified less than three minutes ago.
- Configuration: `sortResolvers` asks the lowest priority first and the first answer counts, so
  the runtime file wins over `./config.yml` and both over the environment
  (`config/loader.go:38-54`), against `docs/configuration.md:66-73` and `README.md:64`; the file of
  defaults that the first start writes has every key. An update is checked for less than a start
  checks, so some are accepted that the next start refuses: a reseed interval, a rescrape
  threshold or a TMDB rate of 0, empty Kafka brokers beside the memory backend, an empty user name
  of the database. Only the API key of Torznab and the headers of webhooks are kept when their
  masks are sent back; the masks of the other secrets are stored, and so is a mask of a value that
  came from the environment. A crash inside `os.WriteFile` loses every setting of the file. A list
  set to null keeps its old value until the restart, except of Torznab and webhooks.
- Metainfo requester: received bytes are counted and not pieces, so a piece that comes twice is
  noticed by the hash only; right pieces are refused when the short last one comes before another
  (`metainforequester/requester.go:337`); a number out of range panics (line 346), which is
  recovered, but the remaining peers are not tried; the semaphore of 100 connections is
  behind one of 50 fetches and never fills.
- Crawler statistics: `Stop` cancels the context of the last save of the filters
  (`dhtcrawler/runtimestore_store.go:136`), so after a clean stop what was found since the last
  save, up to three minutes, is counted again; a row that cannot be read at a start is
  overwritten by the next save.
- Search settings: an update between wiring and `Prepare` that switches Elasticsearch on meets a
  nil client and panics (`processor/enrich/indexer/consumer.go:91`); the embedder is built from
  the atom and remembered under the setting the event read, so a setting that changes and comes
  back in between leaves the wrong embedder; whether a job runs is checked before the update and
  not again before the automatic reindex, which is then skipped; a failed update of the database
  leaves the snapshot old while search, Elasticsearch and the embedder have moved.
- Logging: every update of any section replaces the rotator; what a logger still writes to the
  closed one is dropped silently; the hooks in the group `app_hooks` have no consumer, so nothing
  syncs the logger at a stop and buffered entries are lost (`logging/logger.go:66`), nor is the
  DHT server stopped (`protocol/dht/server/factory.go:81`) or the pool closed by its owner
  (`database/postgres/postgres.go:61`); `Check` hands out the
  inner cores, so fields added with `With` would be lost (nobody uses it).
- Database: memory queue, blocked hashes, crawler statistics, health check and migrations keep the
  pool they were given first, which closes 30 seconds after the settings have changed, against
  `docs/usage.md:68` (every change takes effect immediately); a new database is not migrated; of two
  overlapping changes the queries may keep the pool that closes (`gql/gqlfx/module.go:245`), and
  saving the same setting again does not repair it.
- Classifier: the workflow asks the model first (`classifier.core.yml:8`), while
  `docs/configuration.md:128` says it is asked about what the rules cannot decide; an answer
  "unknown" counts as a match, so the rules are skipped; a TMDB search that fails is no match,
  details that fail end the classification; `asFatalCompilerError` never recognises an error, as
  the errors are no pointers.
- Sharing a classification: the leader of a flight decides for all who joined whether the model
  is strict (`processor/processor.go:156`), so a reclassify batch may store what the rules said
  against `classifier/llm_strict.go:8`, and a regular message may fail with the strict error
  against line 24; when one torrent of a batch fails so, the others that were classified are not
  stored, and a redelivered message skips them as recently classified.
- Dates: `numDaysInMonth` takes every fourth year for a leap year; a number before a date may hide
  it, as the loop skips what it has read ("Season 1 2003-04-05").
- TMDB: an error of the validation, also a passing one, is kept until the configuration changes;
  the mutex is held during the validation.
- Pages of a search: a document enters Elasticsearch long after the `created_at` by which the barrier
  selects, so there the barrier does not freeze the set that
  `graphql/schema/torrent_search.graphqls:21-24` promises to freeze; PostgreSQL freezes it against
  transactions shorter than the margin of two seconds. Ranks tie (rank i of the text hits with rank
  i + 30 of the vector hits), and tied hits come out of a map in any order
  (`elasticsearch/search/search.go:701`); a vector search that fails on one page only changes the
  order under the client: either may show a torrent twice or never.
- A barrier that is only a date (`2024-01-01`) is valid base64url and is decoded into bytes instead
  of being read as a date (`search/barrier.go`); `document.go:69` prints the local time with a
  literal `Z`; a facet with a filter on the release year refers to a table that its statement does
  not join; the search of Elasticsearch has no filter on file types.
- Texts: a "!" in a title excludes the word after it, so that such a title never finds itself; so
  does a dot before a group of several words, which wants all of them in one place; `!` before a
  word of several tokens negates only the first of them.

## 2 Modules and the code

Each module has one action per critical section, channel operation, statement or handler call,
so that everything between two of them may be interleaved with everybody else. Variables have
the names of the fields they stand for, or say so where they are declared. History variables
(marked `history`) are written by the actions and read by the properties only.

| module | models | EXTENDed by |
|---|---|---|
| `MemoryQueue` | producing, and a consumer goroutine per group: registration, replay, live loop, attempts, poison, panic, Stop | `MCStructures`, `MemoryQueueProofs` |
| `TopicLog` | abstract: a topic is an interval of sequence numbers and a saved interval | instantiated by `TopicRing` |
| `TopicRing` | the ring itself: the array, Head and Tail under Produce, serialization and Recover | `MCCrawler`, and so `CrawlerProofs` |
| `MemoryQueueDurability` | dirty flag, persist loops, Close, Reset, crash and Recover | instantiated by `MCStores` |
| `QueueRuntime` | SwitchTo, the supervisors, and goroutines that produce meanwhile | `MCEndpoints`, and so `EndpointsProofs` |
| `KafkaConsumer` | ConsumeClaim, the loop around Consume, Stop; the session of the client library as its environment | `MCPipeline`, and so `PipelineProofs` |
| `ConfigManager` | updateConfig, Apply, three synchronous and any number of asynchronous subscribers | `MCControlPlane`, and so `ControlPlaneProofs` |
| `ConfigFile` | every option that an update can set: what a start resolves from the layers, what is shown, merged, checked, written and reloaded | instantiated by `MCEndpoints` |
| `BatchJob` | both maintenance jobs, their slot and their saved state | `MCClassifier`, and so `BatchJobProofs` |
| `RetryQueue` | the retry queue with the processor, the enrich indexer, the scheduler and the rows they share | `RetryQueueProofs` |
| `BucketTree` | the binary tree of the routing table as recursive functions on a value: put, drop, counts, closest | instantiated by `MCStructures` |
| `RoutingTable` | commands on nodes and hashes, their trees as sets, the reverse map | instantiated by `MCEndpoints` |
| `DhtResponder` | handleQuery: the limits and the cache they are kept in, the announce tokens, stored peers and discovered nodes | instantiated by `MCEndpoints` |
| `DhtServer` | Query, transactions, the read loop, the goroutine of each response, GetPeersScrape | instantiated by `MCEndpoints` |
| `CrawlerFlow` | how nodes circulate: the batching channel, the router, bounded work channels, dispatches, Stop | instantiated by `MCCrawler` |
| `CrawlerNodes` | what the crawler's workers do to the table, the filter of seen hashes and the queue | instantiated by `MCPipeline` |
| `HashPipeline` | triage, metainfo, persist, scrape, sources, the torrent filter, indexer and deleter, for one hash | instantiated by `MCPipeline` |
| `WorkerRegistry` | Start and Stop of the registry with hooks that fail | instantiated by `MCControlPlane` |
| `HealthChecker` | the goroutine of each check, aggregation, Start and Stop | instantiated by `MCControlPlane` |
| `WebhookPublisher` | Publish, Update with the resize, Start, Stop, the goroutine with its drain and retries | instantiated by `MCControlPlane` |
| `SearchSettings` | updateConfig of the search section, its subscribers, indexer, deleter and reindex requests | instantiated by `MCEndpoints` |
| `DatabasePool` | Reconnect, the reference, the shared queries, and the closing of what was replaced | instantiated by `MCControlPlane` |
| `MetainfoFetch` | the peers of one fetch, the exchange with each, the pieces that arrive, what is held meanwhile | instantiated by `MCPipeline` |
| `CrawlerStats` | the filter and the number of seen peers, their two save loops, Load, Stop and crashes | instantiated by `MCCrawler` |
| `LogFiles` | rotation, pruning, buffers, UpdateLogConfig, restarts and failures | instantiated by `MCCrawler` |
| `ClassifierWorkflow` | the default workflow with the meaning of its actions and conditions | instantiated by `MCClassifier` |
| `DateLexer` | the loop of `lexDate`, one iteration a step | instantiated by `MCClassifier` |
| `ClassifyCalls` | Process by several callers at once: recency, flights, slots, swaps of the runner, redelivery | instantiated by `MCClassifier` |
| `TmdbRequester` | the lazy requester: build, validate, reuse, refuse, replace | instantiated by `MCClassifier` |
| `TorrentSearch` | the pages of a search, from either store, while torrents are stored, indexed and deleted | `MCStores`, and so `StoresProofs` |
| `TitleQuery` | the tokens of a text as a tsquery, its words as positions of a vector | instantiated by `MCStructures` |

**The in-memory queue is three modules** because its three concerns share few variables.
`MemoryQueue` is about who gets which message and takes the ring for the interval
`low .. nextSeq - 1`; `TopicRing` is shown to implement that interval, with wrap-around,
overflow and recovery; `MemoryQueueDurability` is about what is in the database and leaves
delivery out, except for the offset that goes into the row.

- `MemoryQueue`: `Produce` is one action, as it holds `mq.mu` throughout, and drops the oldest
  message of a full ring and the live copy for a full channel. A consumer's `pc` follows `run`:
  `replaying` and `looping` are its two loops, `checking`, `handling` and `backoff` are inside
  `process`, whose caller is in `mode`. `select` with several ready cases is a disjunction.
  `disposed`, `overflowed` and `abandoned` are history: why an offset may pass a message.
- `MemoryQueueDurability`: `persist` is `TakeDirty` or `NotDirty`, `BuildPersistState`, `Marshal`
  and `Upsert` or `PersistFails`: the flag is swapped, the topics copied under the read lock, the
  offsets - whose map the copy shares - read when the copy is marshalled, and the row written. A
  loop reads `mq.stopCh` anew in every round. `overtaken` and `setBack` are history: who holds a
  copy while another has written a newer one since, and whether one of those wrote the row last.
- `QueueRuntime`: applied configurations are numbered, so that moving from one Kafka cluster to
  another is not the same as staying. `step` is how far `SwitchTo` has come through the variables
  that others read without its lock.
- `ConfigManager`: a section has one setting. A call reads, merges and validates, writes the
  file, reloads, calls the synchronous subscribers in order, stores the snapshot, and takes the
  three channel operations (send; drain; send again) per asynchronous subscriber.
- `ConfigFile`: the options and their kinds are those of `config_helpers.go`; of a value it tells
  apart what the code treats differently (default, set, null, masked, out of range, of the wrong
  type). An input is one change, alone or beside the section as it is shown, as the pages send it.
  `stale` and `byHand` are history: what the operator edited in the file.
- `KafkaConsumer`: one partition. `Rebalance`, `AutoCommit` and `Crash` are the environment.
- `BatchJob`: a cursor and a barrier are numbers of torrents. `epoch` numbers the preparations
  of an index, so that a property can tell a state that describes the present index from one
  that describes the index before it was deleted.
- `RetryQueue`: statements, not functions, are steps: the upsert of `EnqueueBatch` and the
  update of `next_retry_at` that follows it, the listing and each mark of `dispatchDue`, the two
  deletes of `evict`. A lease that runs out and a backoff that ends are `TimePasses`, enabled
  whenever a time is in the future, so the order of times is arbitrary. `sent` and `uncounted`
  are history.

- `BucketTree` and `TitleQuery` use `RECURSIVE` operators where the code recurses over a tree or
  a parenthesis; `MCStructures` alone composes them, so that no theorem module reaches them.
  `ClassifierWorkflow` applies a compiled action to the stages of a result one after the other. `RoutingTable` takes from `BucketTree` that a tree is the
  set of what it accepted.
- `DhtResponder`: a limiter is known by its generation (`keyed`; a change of the rate replaces the
  cache while a query may hold a limiter of the old one), its address, and its number among those
  that were made for it. `known` is what the cache has; `getLimiter` is one step under its mutex,
  `Allow` on the limiter it returned a later one. An entry may expire at any time, and a full cache
  may forget any address, not only the one used longest ago; both are more than the code does.
  `forgotten`, `passed`, `drawn` and `gained` are history: the limiters that left the cache, and of
  each what it passed, what was drawn for it and the tokens that came. Bursts are positive and stay
  as they are, and tokens come at any time or never; the unlimited rate, which draws on no bucket,
  is left out.
- `CrawlerFlow` counts nodes and does not name them; `CrawlerNodes` names them and leaves the
  channels out. A query that fails is a worker that finishes without passing anything on.
- `MetainfoFetch`: a piece is two units long; a piece that has arrived is its number, its length and
  whether its bytes are right, so that received size, overlap and hash are computed from the
  sequence. `refused` is history: whether a peer whose pieces were refused had sent what it should.
- `CrawlerStats`: a number is a function that says how often each address is in it. `fresh`, `behind`
  and `cut` are history: a row that could not be read, and a run that ended with an unsaved filter
  or number.
- `HashPipeline`: `msgs` counts messages about the one hash per topic, `Crash` loses the
  goroutines and whatever they hold, `TimePasses` makes the row stale. `cut` and `overtaken` are
  history: a deletion or a store that was broken off, and a document written from a row that had
  been loaded before its deletion.
- `WebhookPublisher`: a channel is a generation; `Migrate` moves one event under `queueMu`.
- `SearchSettings`: `odd` is history and holds the reasons why somebody may have the wrong client
  or embedder (section 1.3); each is removed by the event that repairs it.
- `LogFiles`: a file is a date and a sequence number; `late`, `unlinked`, `unsaved` and `pruned`
  are history, the four ways in which an entry is lost.
- `ClassifyCalls`: a goroutine is a call and a hash. `flight` is the map of the singleflight
  group; who joins waits for its leader, and wakes with the leader's outcome. `hashesOf` says which
  torrents a call is about, and is chosen at the start. `excused` is
  history: hashes lost by a panic, by the error of the strict mode, or by a failed store.
- `ClassifierWorkflow`: a torrent is what most of its bytes are, whether that is much, which
  keywords its name has and which form; a step is one action of the workflow.

- `TorrentSearch`: each statement of a page is a step, since the code runs them one after the other
  without a transaction; the merge of the hits is one step. `paths` and `disturbed` are history: how
  the pages of this client were made, and the events that no barrier makes up for (a torrent that
  comes late or goes, a change of the order, a tie). A sorted list is whichever arrangement of the
  set is in order; the orders of the statements have no ties, so there is one. The sum of the
  buckets is the number of pairs of a bucket and a place in it.
- `TitleQuery`: a behaviour types a text token by token. What a tsquery means to PostgreSQL is in the
  module too, marked external, so that a query can be judged by what it finds.

**Composition.** `RetryQueue` composes the processor, the indexer, the queue service and the
tables; it takes the queue for what `MemoryQueue` and `KafkaConsumer` show it to be: a message
stays until it is acknowledged, or is lost. `QueueRuntime` takes a consumer of either backend as
a thing that is started and stopped.

## 3 What the runs check

Twelve runs, one per question; eight pass. Some configurations check several components that do
not interact, or interact only through calls that each of them allows at any moment: their
module extends the first component and instantiates the others, the variable `part` is chosen in
the initial state, and only the chosen component moves. The states of the components add up
instead of multiplying, and what is checked of each is what a run of its own would check. The
conjunctions at the end of such a module (`LookupContract`, `RecordsContract`, ...) collect the
properties of one component. Where two components do interact through shared state they are one
module (`RetryQueue`, `HashPipeline`, `SearchSettings`, `ClassifyCalls`).

| run | module, configuration | checks beside `TypeOK` |
|---|---|---|
| `memory_queue` | `MCStructures`, `Structures.cfg` | `AckedInOrder`, `NoDeliveryAfterAck`, `EventuallyConsumed`, `LookupContract` |
| `topic_ring` | `MCCrawler`, `Crawler.cfg` | `RingSound`, `ImplementsTopicLog`, `RecordsContract`, `FlowProgress` |
| `queue_durability` | `MCStores`, `Stores.cfg` | `SearchContract`, `DurabilityContract`, `DurabilityProgress` |
| `queue_runtime` | `MCEndpoints`, `Endpoints.cfg` | `StaleConsumersNotified`, `NoSteadyLoss`, `ServerContract`, `SettingsContract`, `EndpointsProgress` |
| `config` | `MCControlPlane`, `ControlPlane.cfg` | `PublishedFitsFile`, `LatestWins`, `OperationsContract`, `ServicesContract`, `ControlPlaneProgress` |
| `kafka_consumer` | `MCPipeline`, `Pipeline.cfg` | `CommittedSettled`, `FailedRedelivered`, `PipelineContract`, `FetchContract`, `PipelineProgress` |
| `batch_job` | `MCClassifier`, `BatchJob.cfg` | `OneJobAtATime`, `DoneIsComplete`, `ClassifierContract`, `JobsProgress` |
| `retry_queue` | `RetryQueue`, `RetryQueue.cfg` | `DispatchBudget`, `NothingForgotten`, `EntriesSettle` |

What they show:

- **Memory queue.** An offset passes a message only when it was acknowledged, dropped by a full
  buffer, or in a replay cut short; no handler sees an acknowledged message again, though replay
  and channel both surface messages; every message is consumed unless a buffer overflowed or the
  handler panicked. The ring holds consecutive messages whatever wraps, what is saved fits below
  a full ring (`RingSound`), and the ring refines the interval log. While the row does not hold every
  message, the dirty flag or a persist in flight with a newer copy stands for the rest, with two
  loops, Close, a failed persist and a crash, unless an older copy was written over a newer row
  (`DurabilityContract`). While a loop runs each message comes into the row and stays there but for
  that event, and the next message mends what the event undid (`DurabilityProgress`).
- **Backends.** No consumer of a replaced configuration goes unnoticed; a message is lost to a
  closed backend only if a switch falls into its call; processing ends up on the memory backend
  after a switch to it. A committed Kafka offset passes only settled messages; a message to be
  redelivered is ahead of the session.
- **Configuration** (`PublishedFitsFile`). Updates one after the other: a refused snapshot
  reaches nobody, and the subscribers run on what the file says; the newest snapshot wins.
- **Jobs.** One job has the slot until its last save; a finished run handled everything before
  its barrier. The slot is always given back, and calls that share the classifier end (`JobsProgress`).
- **Retry queue.** No entry is dispatched more often than configured, but for dispatches nothing
  could count; an unclassified torrent has a message or an entry, but for the losses the model
  names; every entry leaves the queue.
- **`LookupContract`.** What is looked up is found. After every sequence of puts and drops a tree is
  the set of the ids it accepted, its cached counts are true, and what it gives as closest to an id are
  as many different ids as were asked for, the id itself first, and none that it leaves out has more
  leading bits in common with the id (`TreeSound`; the distances among those with as many bits in
  common are not compared, see section 1.3). Every text becomes a query that PostgreSQL takes, that finds the text itself unless "!" or a dotted group
  is in it, and that means what simple texts say; a phrase never runs across the end of a text
  (`QueryContract`).
- **`SearchContract`.** A client that follows the pages of a search sees each torrent behind the
  barrier once and the true total, but for what `disturbed` names; no transaction shorter than the
  margin adds a torrent behind the barrier; the facets count the set that is shown.
- **`ServerContract`.** A response never answers another query; a query that has returned leaves
  no entry; only the second response to a query can block a goroutine; a scrape succeeds with both
  filters only. The trees of the table, its items and its reverse map agree, also for nodes that
  change addresses (`TableConsistent`); no limiter passes more than its bucket held and gained, also
  after the cache forgot it, an address gets a further one only for one that expired, had to make
  room or was replaced with the rate, a flood spares what the others share, and a peer is announced only with a token given to its address
  (`AnswersInBudget`).
- **`EndpointsProgress`.** Processing ends up where the setting says; every query returns; indexer
  and deleter come to the setting in force.
- **`RecordsContract`.** A run counts an address once; number and filter agree after restarts unless
  a run ended with one of them unsaved; what is recorded never goes back but for a failed load.
  Every entry of the log is in one file or buffer, or gone for one of four reasons; the files hold
  what there is in the order it was written, and the oldest goes first, unless two rotators of one
  run have written; no more backups are left than are to be kept, and a file outgrows its cap by
  its last entry at most, unless two rotators of one run have written to it. No batch or channel of
  the crawler's circle holds more than it can.
- **`FlowProgress`.** The circle of bounded channels keeps moving and everything ends after a stop.
  Without the timeout of a dispatch it does not: that is a mutant. What is counted is recorded,
  and the store's Stop ends.
- **`PipelineContract`.** Banned content is never stored; a stored torrent is classified or has
  its message, but for a crash; documents follow rows, but for the deletions and writes that the
  model names. A hash is published once; a hash in the filter was or will be published unless the
  crawler stops.
- **`FetchContract`.** Whatever peers send, only the bytes of the torrent are taken; right pieces
  are refused only if the short one comes early; slots and connection are given back after each
  request and after a panic, and a fetch gives up after all peers only.
- **`PipelineProgress`.** Every message before the one that panics is settled; the stages drain;
  what the filter refuses goes, also when a fetch stores it after it was blocked; every fetch
  ends; a node that answers no more leaves the table for good.
- **`OperationsContract`.** A result of a check is never lost or invented. The pool of the
  reference is never closed, and the queries follow it unless changes overlap.
- **`ServicesContract`.** No hook starts twice without a stop, Stop reaches all that run. An
  accepted event is in one place, once; a goroutine waiting on a replaced channel has a wake
  token; only a shrink drops.
- **`ControlPlaneProgress`.** Every subscriber ends on the current configuration; a status comes
  to what lasts; accepted events are handled while the publisher runs, and its Stop ends; what a
  change of the database replaced is closed.
- **`SettingsContract`.** What indexer and deleter have at rest is of the setting in force, but for
  what `odd` records; a reindex makes vectors that its index takes. What updates save is in force
  and is what a restart resolves, but for what was edited by hand or removed; the program starts
  from it again but for ranges only a start checks; no kept secret is replaced by its mask, unless
  what was shown came from another layer.
- **`ClassifierContract`.** A date is spelled in the name, and found if nothing before it looks like a
  part of one. Every slot belongs to one running workflow through panics and swaps, a hash is
  classified by two at once only after a failure, and no acknowledged call leaves a torrent behind
  but for a panic, a failed store or the error of the strict mode. TMDB is asked with the token and
  the settings in force when the request began. Without a usable answer of the model the rules of the
  classifier alone decide, in their order, and nothing of the failed attempt is left; an answer is not
  overwritten by the name; only the strict mode ends with the error of the model; content is attached
  only to a result with a title (`ClassifyContract`).

Four runs are expected to find a violation; see section 7.

`AckedInOrder`, `DispatchBudget`, `NothingForgotten` of `RetryQueue` and some of the contracts
have exceptions, held in history variables. They are not there to make the properties true: each
is one event of the code, written by the action that models it, and the exceptions are the
complete list for the steps that the module has. In `MemoryQueueDurability` it is `setBack` alone
(section 1.3). The recency mark that the reclassify job sets is no step of `RetryQueue`;
`ClassifyCalls` has it. For `RetryQueue.NothingForgotten` the list (`lost`) is: a statement or a publish
that failed after the torrent was marked as classified, so that the redelivered message is
skipped for three minutes (`processor/processor.go:131`); a panic of the classifier, which is
recovered and acknowledged; a failed upsert of an entry, logged and acknowledged; a message the
queue lost; an operator's Clear; a torrent that was evicted and found again within three minutes;
and a late report on an earlier life of the torrent, which removes the entries of both stages
(`retryqueue/queue.go:267`).

## 4 Bounds

- `Structures.cfg`: a ring of three slots (two messages) and a channel of two with four messages:
  both overflow, and wrap; three consumers give two restarts, so that a replay meets a channel of
  the consumer before; attempt limits 1 and 2 change during retries. One group, since groups share
  only the ring; the proofs hold for any number. Tree: ids of three bits with buckets of one and
  up to five ids, which split and fold every branch. Texts of up to five tokens, any symbol among them, with phrases of one word, of two, and
  of none.
- `Crawler.cfg`: four slots and nine messages wrap the array twice, with recovery at any point;
  channels of one, batches of two and one node per answer fill every channel of the circle; log:
  four entries, the third larger than the cap, two loggers, two rotators, two days, one failure.
  Statistics: one address, two goroutines that find it, three runs, one trouble (two addresses, and
  two troubles, were checked once).
- `Stores.cfg`: the queue's row has two loops (what a quick switch to Kafka and back leaves behind)
  and Close; two messages, one failure, one switch, one restart: each hazard needs one of each. That
  a row set back is mended is checked apart, since it takes a third message but none of the troubles.
  Search: pages of one torrent; the constants of the ranks are 1 and 2 and the window 3 (30, 60 and
  a page in the code), so that ranks tie within three hits; one torrent is new, two seconds pass, and
  the margin is one.
- `Endpoints.cfg`: three switches: there, back, and one more that falls into the restart caused by
  the first; one supervisor and one producing goroutine, which share only the runtime. DHT: two
  queries, one of them a scrape, and two packets, so that one is late or repeated. Table: two
  nodes, two hashes, two addresses with two ports, so that everything that can be shared is;
  responder: two senders, two goroutines, a cache with room for one address, so that the other evicts
  it, and two changes (a token, an expiry, an eviction, another rate, on and off) for queries that all
  draw on the limits alike; for tokens and announcements one change (a token, an expiry, an eviction). Search: three settings (off,
  two clusters with embeddings of their own); one of indexer and deleter runs, since they share
  the notifier only; with jobs one update and two jobs; without jobs three updates, enough for a
  setting to change and come back while an event is handled. Three updates with jobs were checked
  once as well (three million states). File: one option per kind and per way of being checked, two
  changes, with restarts at any time, and layers that give three of the options or none (three
  changes of fewer options were checked once).
- `ControlPlane.cfg`: three updates of which one sets a section back, one at a time
  (`MaxConcurrent = 1`); `config_latest` has two concurrent ones. Three workers and four calls;
  two checks, of which one may fail twice and one starts late, with one restart; two events, sizes
  one and two, two resizes, one retry and two starts. Database: two calls and two pools beside the
  first, so that one change may overtake the other (three were checked once).
- `Pipeline.cfg`: five messages, three attempts, five interruptions; message 3 panics. One hash
  that is found twice, two fetchers, one scraper, and two troubles (failures or crashes). One node
  and one hash with two samplers, which share everything. Fetch: two peers; metadata of one full
  piece, of two, and of three with a short one, announced truly or not; any piece at any time.
- `BatchJob.cfg`: three torrents in pages of two, so the last page is not full; two starts, one of
  them forced, one discard, one failure, one restart. Dates: names of up to
  seven parts, in which a date may begin at three places after a false start. Calls: three calls
  about one hash, and one about two beside the job, with one slot and one trouble; three calls of
  which one has two hashes were checked once (eleven million states). Workflow: every rule alone,
  two that apply at once, video that is much or not, five forms of a name, every answer. TMDB: two callers with two
  requests each, two tokens, two changes.
- `RetryQueue.cfg`: one torrent with both stages, one retry, and one trouble of any kind.
  Different torrents share the scheduler's listing only. Two retries or two troubles multiply the
  states beyond a run of minutes; the budget is proved for every value of both.

Runs say `CHECK_DEADLOCK FALSE` where everything may stop: all messages produced, all updates
made, the process shut down. Bounds on the environment (`Max...`) are guards of the actions they
bound and of nothing else, so no goroutine of the program is stopped by a bound.

## 5 Fairness

`FairSpec` of a module adds fairness of what the program itself does: a goroutine that can run
does, a handler returns, a timer fires, a persist loop's ticker ticks. The Go scheduler gives
that; handlers and requests have timeouts. Nothing external is fair: nobody has to produce, save
a setting, switch, start a job, answer a query, or make a handler succeed. Weak fairness is
enough nearly everywhere, because the steps named stay enabled until they are taken; where a
`select` has several ready cases the whole goroutine is fair and not the case.

- `MemoryQueue`, `KafkaConsumer`: the consumer's goroutine as a whole.
- `MemoryQueueDurability` (in `DurabilityProgress`): each persisting goroutine; at most `MaxFailures` persists fail, which
  says that the database comes back.
- `QueueRuntime`: `SwitchTo` and each supervisor, but not its failures.
- `ConfigManager`: each call and each subscriber's loop.
- `BatchJob`: a run that was started. `RetryQueue`: processor, indexer, scheduler, and time.
- `DhtServer`: each call and each goroutine of a response. `HealthChecker`: each check's goroutine.
- `CrawlerFlow`: strong fairness of those who wait to send into a channel, since Go serves them in
  the order in which they began to wait, and of a `select` whose context has ended.
- `CrawlerNodes`: each worker, and strong fairness of the turn that a node of the table gets:
  `getNodesForFindNode` takes those that have not answered for the longest time.
- `WebhookPublisher`: the resize, each Publish, and the goroutine. `HashPipeline`: work as a whole.
- `CrawlerStats`: both loops and Stop. `MetainfoFetch`: the goroutine, since connections have deadlines.
- `DatabasePool`: each call, and the timer of each pool.
- `SearchSettings`: the update, the indexer, the deleter. `ClassifyCalls`: work as a whole; each
  goroutine has finitely many steps to make, so that is enough.

`EverythingSettled` (in `PipelineProgress`) excepts messages from the one that panics on;
`EventuallyConsumed` excepts a group whose handler panicked, since the goroutine is then gone
until the next switch of the backend: both are what the code does.

## 6 What is proved

TLAPS proves the following for every value of the constants, from the named assumptions in the
modules (positive capacities and limits, bounds that are numbers). The inductive invariants are
called `IInv`, or after the component where a module has several (`ServerInv`, `SearchInv`,
`FileInv`, `HealthInv`, `PoolInv`, `LogInv`, ...; `Inv` for the ring; `CoverInv` for durability), and were checked with TLC before they were proved.

| theorem | statement | why the invariant is needed |
|---|---|---|
| `MemoryQueueProofs!OffsetsPassAcknowledged`, `HandledMessagesNotAcknowledged`, `TypeCorrect` | `[]AckedInOrder`, `[]NoDeliveryAfterAck`, `[]TypeOK` | `Cover`: every message a group has not passed is accounted for, in the rest of the replay, in the channel, or in hand; `ChannelSorted`: the channel is increasing and after the message in hand; `Position`: where the two loops are relative to the replayed interval |
| `CrawlerProofs!RingContiguous`, `RingImplementsLog`, `TypeCorrect` | `[]RingSound`, `Spec => ImplementsTopicLog`, `[]TypeOK` | index arithmetic modulo Capacity is reduced to a case distinction (`Wrap`, `Sum`); the refinement maps Head to the oldest message and shows step by step that the ring appends, saves and restores as the interval does |
| `CrawlerProofs!RecordsKept` | `MCSpec => RecordsContract`, for any addresses, goroutines, entries, caps, numbers of backups and bounds; one of its parts is about steps | `OneFinder`: an address waits with one goroutine to be counted; `CopiesBehind`, `RowsBehind`: rows, copies and memory in this order; `RowsAgree`, `MemoryAgrees`: the property, for the rows while the program is down and for the memory while it runs; `Partition`: the six places of an entry are apart; `RotatorsOn`, `FilesOn`: and so are buffers and files among themselves; `FewLater`: of any files at most n have fewer than n after them; `FilesBehind`: nothing a rotator has to follow is in a file after its own, `Queued`: and a buffer comes after all that its rotator wrote; `PathIsLast`: a new file comes after all that are there; `Boots`: only rotators of the last run are open; `CapInv`: a rotator with a cap knows what its file and its buffer come to (`Room`), unless it shares the file with another of its run, and `PathHasRoom`: a file it goes over to is new or below the cap; the size of a sequence of entries is a number of bytes, so that it adds when a buffer reaches its file |
| `StoresProofs!DirtyFlagSound` | `MCSpec => []DurabilityContract`, for any loops, messages, failures and restarts | `CopyCovered`: a copy that nobody has overtaken has what came after it covered too, by the dirty flag or by another persist, so that writing it leaves the row covered; the types bound every copy by the queue |
| `EndpointsProofs!NoStaleConsumer`, `NoLossWithoutSwitch`, `TypeCorrect` | `[]StaleConsumersNotified`, `[]NoSteadyLoss`, `[]TypeOK` | who has a consumer is subscribed; configurations are replaced in order and only replaced producers are closed; the memory queue is open while it is in force; what was obtained between switches is still current |
| `EndpointsProofs!ServerKept` | `MCSpec => ServerContract`, for any queries and numbers of packets; one of its parts is about steps | `IdsIssued`: ids are given in order and no two queries that were sent have one in common; `HandlersAsked`: a response is to a query that was sent; `DeliveredToOwn`: what is in a channel was put there by the goroutine of a response to the query that has its id; `EntryRight`, `TreeRight`: the reverse map has for an address the nodes and hashes of the trees that are there, after each half of a command; `TokensAsked`: a token that is given out was asked for by its address; `LimitersKnown`: the limiters made for an address are those that were forgotten and the one in the cache; `HeldLimiters`: who is past the lookup holds one that was made; `BucketBudget`: what is left in a bucket, with what passed and what is between the two limits, is no more than what it held and gained |
| `EndpointsProofs!SettingsKept` | `MCSpec => []SettingsContract`, for any settings, options, layers without headers, updates, jobs and edits | `UpdateInStep`: atom and clients at each step of an update; `IndexerRemembers`, `IndexerReads`: what the indexer uses, remembers and read are the same but for what `odd` records; `IndexerCurrent`: and that is the setting in force, or a token is there or to come; `LiveTyped`: no struct has a value of the wrong type; `KeptElsewhere`: what is shown and not in the file is the default or another layer's, so that a mask sent back is taken for the latter only |
| `PipelineProofs!AtLeastOnce`, `Redelivery`, `TypeCorrect` | `[]CommittedSettled`, `[]FailedRedelivered`, for a group that has committed; `[]TypeOK` | a session has settled everything before its position and marks no more |
| `PipelineProofs!PipelineKept` | `MCSpec => []PipelineContract`, for any hashes, nodes, workers and numbers of messages | `FoundByOne`: a hash the filter let through is with one sampler or published, not both; `Unacknowledged`, `CheckedBefore`, `StoredAgain`, `WritesWhatIsThere`: what a stage that is between two of its steps has read, done and not yet acknowledged |
| `PipelineProofs!FetchKept` | `MCSpec => []FetchContract`, for any peers, pieces, sizes, slots and answers | `HeldFits`: at each position of a request, what it holds; `OutcomeAtEnd`: the outcome is set when the fetch is over; `RequestInv`: what has arrived are bytes at places of their own, so that counting right pieces shows that they fill the metadata to its size |
| `ControlPlaneProofs!ServicesKept` | `MCSpec => ServicesContract`, for any workers, events, queue sizes, resizes and restarts; two of its parts are about steps | `BeganFits`, `VisitedStopped`: what a Start has counted, and whom a Stop has visited; `Tracked`: accepted is in a channel once or in hand, and not both; `SendersCurrent`: who is sending holds the current channel and keeps a resize out; `ResizeFits`: what is left to migrate, with what has moved, fits the old channel, so that only a smaller one drops |
| `ControlPlaneProofs!OperationsKept` | `MCSpec => OperationsContract`, for any checks, limits, calls, databases and pools; one of its parts is about steps | `CheckFits`: the copy that a goroutine made without the lock is still right when it writes; `Fresh`, `Replaced`: a pool is new to one call and retired by one call; `OneChange`: with changes one at a time, what queries, reference and settings have at each step of the change |
| `BatchJobProofs!MutualExclusion`, `Completeness`, `TypeCorrect` | `[]OneJobAtATime`, `[]DoneIsComplete`, `[]TypeOK` | `Describes`: progress and saved state of the present preparation name handled torrents only; a run at work is not done |
| `BatchJobProofs!ClassifierKept` | `MCSpec => []ClassifierContract`, for any words, gaps, calls, torrents, troubles, callers and tokens | `LexerInv`: a name alternates between words and gaps, so that after a gap the loop is at the start of a word; `Flights`: a flight that has not failed has one leader until it lands; `Accounted`, `Solid`: what is marked, skipped or acknowledged is stored, to be retried, excused, or with a goroutine that has marked it or has an outcome; `Owned`: which belongs to a call that works; `KeptAsConfigured`: the requester that is kept has the token in force, `HeldToValidate`: and the mutex is held only while one is validated; `FlowInv`: what the result holds after each stage of the workflow |
| `RetryQueueProofs!WithinBudget`, `TypeCorrect` | `[]DispatchBudget`, `[]TypeOK` | `Counted`: an entry has counted its dispatches (a lease counts as one failure) except the one being marked; `ListedCovers`, `MarkCovers`: what was listed still covers them when the mark overwrites the count; `Held`: a consumer at work has an unacknowledged message |
| `RetryQueueProofs!AllRemembered` | `[]NothingForgotten` | `RecentKept`: who is marked as recently classified and never was has a report coming, or is lost; `Removing` and `Reported`: a batch, an upsert or an eviction in progress still covers the torrents whose message or entry it took |
| `StoresProofs!SearchKept` | `MCSpec => []SearchContract`, for any torrents, requests, sizes of a page and of the window, and times | `BarrierPast`: the barrier is in the past by the margin, so that who begins now comes after it; `ShownFound`: what was shown is stored or was removed since, and matches; `Begun`: on which store the walk is; `Listed`: as long as nothing disturbs the walk, what was shown is the list of now up to the offset, and the total and facets of the page are its own |
| `ControlPlaneProofs!TypeCorrect`, `RefusedStaysOut` | `[]TypeOK`, `[]RefusedNotPublished`, for any number of overlapping calls | `OnlyStored`: a snapshot that is current, sent or applied comes from a call that got past its subscribers |
| `ControlPlaneProofs!SavedIsRunning`, `NewestApplied`, `StorageOnFile` | `Serial /\ Spec => []PublishedFitsFile`, `[]LatestWins`, `[]QueueAndSearchFollow` | `FileFollows`, `StructsFollow`, `StorageFollows`, `Remembers`, `PoolFollows`, `SnapshotFollows`: at each position of the one call in progress, how file, loaded options, what runs, what each subscriber remembers and the snapshot are related |

Each proof has a lemma for `Init => IInv`, one or more for `IInv /\ [Next]_vars => IInv'`, with a
step per action, and one that `IInv` implies the property; the theorem combines them with PTL.

**Calls one at a time.** `Serial` is `MaxConcurrent = 1`, the hypothesis of three theorems about
`ConfigManager`. It cannot be left out: with two overlapping calls `config_latest` violates
`LatestWins`, and TLC refutes `SavedTakesEffect` (part of `PublishedFitsFile`) too, since nothing
in the code orders the two calls' steps. What is proved without it, that a refused snapshot is
never published, holds however the calls overlap. The numbers of sections' settings, subscribers
and updates are arbitrary in either case. `QueueAndSearchFollow` is stated in the proof module:
when the pool fails to reconnect, `Apply` fails and the older snapshot stays current, yet queue
and search run on the new file.

**Components that are instantiated.** `CrawlerProofs`, `PipelineProofs`, `ControlPlaneProofs`,
`BatchJobProofs`, `EndpointsProofs` and `StoresProofs` extend the modules of the runs and prove about their
instances (`N!Next`, `W!Next`, ...), so that a theorem is about the very composition that TLC
checks, with its constants left open. A behaviour of the composition is about one part: each step
is one of that part and stutters for the others (`PartsNext`). The instances have names of their
own for what they take from the library, hence lemmas such as `CardinalityOfW`. The constants of
the compositions carry assumptions that the code justifies: a publisher has a URL
(`webhook/publisher.go` drops events without one), an identity is no address, there are finitely
many queries, calls and torrents of a call, embeddings have at least one dimension, and the
headers of webhooks come from the file (a map that another layer gives is not modelled).

**Induction.** The induction theorems of the library take an operator as a parameter, which no installed
prover can instantiate. `CrawlerProofs` does without: `LeastNatural` says that a set of natural numbers
has a least element (from `WFMin` of the library), and a statement about finite sets is proved from the
smallest of its counterexamples (`FiniteIsBounded`, and so `GreatestNatural`, what `Max` returns).
What a recursive definition computes stays out of reach.

**One list.** Each page of a search is cut from a list that is made anew, so that what a client sees
is whole only if the lists agree. `OneArrangement` says that an order without ties arranges a finite
set in one way: where two arrangements first differ, each has the other's element later, which is a
tie. `SomeArrangement` says that there is one, from the place each element has, so that what `CHOOSE`
takes for the sorted list is sorted. `SteadyLists` then gives the same list for as long as what is
behind the barrier stays, and `ReplyShows` what the pages cut from it come to. `SearchAssumption` says that hashes,
scores and times are numbers and a page is not empty; it is evaluated by the run
`queue_durability` for the constants of `Stores.cfg`.

Only model-checked: all liveness properties (liveness under fairness and ENABLED are out of
TLAPS's reach here), collected in the properties whose names end in `Progress`, with the
`Eventually...` of the queues and of the retry queue's `EntriesSettle`; `LookupContract`, since
`BucketTree` and `TitleQuery` are recursive and so is whatever module composes them.

## 7 Where the code and its documents disagree

Each run below checks one property that a comment or a document states, and TLC finds a
behaviour of the code that violates it.

- `memory_queue_stop` / `AtLeastOnce`: a Stop during a replay lets the select of `run` take a
  live message; acknowledging it moves the offset past the rest of the replay
  (`queue/memoryqueue/consumer.go:92`, against `queue/delivery/delivery.go:6`).
- `queue_restart` / `NewMessagesDeliverable`: the snapshot shares the offsets map and is
  marshalled without the lock; after a crash the offset may be ahead of `next_seq`, and new
  messages are skipped (`queue/memoryqueue/queue.go:218`, against `queue/delivery/delivery.go:1`).
- `config_latest` / `LatestWins`: of two concurrent updates the older snapshot may be sent last
  and stay (`configmgr/manager.go:111`, against the comment on line 110).
- `batch_restart` / `ContinuesFromProcessed`: a forced reindex deletes the index long before the
  state of the run before it is replaced; after a restart or failure the old cursor is resumed
  over an empty index (`jobcontrol/batch.go:218`, against line 115).

Section 1.3 has smaller disagreements that are part of the models but have no run.

## 8 What is not modelled

- Out of reach of a model checker, or pure input and output: the HTTP server, Torznab, downloads,
  the other GraphQL queries and their SQL, the text of Elasticsearch and TMDB requests, torrent
  files, the coercion of configured values, the data model, generated code (`gql/gql.gen.go`,
  `gqlmodel/gen`), which is more than a third of all lines.
- Of the search: the filters and facets other than content types, which are built the same way;
  which characters make a token and how they are transliterated; the text form of a vector.
- Of the classifier: compiling a workflow from its source, its JSON schema, the prompt of the
  language model, the regular expressions for names, workflows other than the default one.
- Libraries and services: the Kafka client's group session, PostgreSQL, TMDB, `singleflight` and
  fx are modelled as the code uses them and marked external, or are the environment.
- Within modelled parts: durations (backoffs, leases and timeouts may end at any time), times of
  nodes in the crawler, totals and counts for display, a corrupt database row, the producer and
  the admin client of Kafka, concurrent updates of different options of the file (`ConfigManager`
  has one setting per section), levels and formats of the log, a `Start` of the webhook publisher while
  an earlier goroutine still drains, `SetConcurrency` of the concurrent channel, which nothing
  calls while the crawler runs.
- Not yet modelled, though it has state: the Kafka producer.

## 9 Plan

Done, in this order, the most important first: delivery of messages (`MemoryQueue`, `TopicRing`,
`MemoryQueueDurability`, `KafkaConsumer`), the switch between backends (`QueueRuntime`),
configuration, maintenance jobs, the retry queue; then the configuration file, webhooks, the DHT
(server, table, tree, responder, crawler), the pipeline of a hash, worker registry and health
checks, search settings, logging, classifier and TMDB, the pages of a search and the queries made
of texts, the pools of the database, the exchange with a peer, the statistics of the crawler.

Next, mostly proofs; in brackets what each needs:

1. `TreeSound` and `QueryContract` apart from `MCStructures` [`BucketTree` and `TitleQuery` written
   without recursion].
2. An abstract delivery contract (a message is handled, discarded after its attempts, or
   redelivered), refined by `MemoryQueue` and `KafkaConsumer` with the exceptions stated in it.
