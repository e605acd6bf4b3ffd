---------------------------- MODULE HashPipeline ----------------------------
(***************************************************************************)
(* What becomes of one info hash in the pipeline of src/internal/dht       *)
(* (triage, metainfo, persist, scrape and persistsources), in the torrent  *)
(* filter of the processor, and in the search index with its two consumers *)
(* (src/internal/processor/enrich/indexer/consumer.go and deleter.go).     *)
(* Each stage is a consumer of its topic and handles one message about the *)
(* hash at a time; HandleGetPeers and HandleScrape run in goroutines after *)
(* the acknowledgement.  Retries and the classification itself are in      *)
(* module RetryQueue, deliveries in MemoryQueue and KafkaConsumer.         *)
(***************************************************************************)
EXTENDS Naturals

CONSTANTS Fetchers, Scrapers, \* goroutines that the semaphores allow
          MaxDiscoveries,     \* bound: times the crawler finds the hash
          MaxTroubles         \* bound: crashes, failed writes, changes of the filter

VARIABLES msgs,      \* topic -> messages that are not acknowledged
          fetch,     \* fetcher -> where HandleGetPeers is
          scrape,    \* scraper -> where HandleScrape is
          banned,    \* the content is one that the banning checker refuses
          padding,   \* the torrent has only padding files
          filtered,  \* the torrent filter refuses the name
          row,       \* of the torrents table: none, without a count of files, or complete
          swarm,     \* the row of torrent_seeders counts somebody
          stale,     \* updated_at is before the threshold
          blocked,   \* in blocked_info_hashes
          classified,\* the processor has stored a classification of this row
          process,   \* where the processor is in handling its message
          index,     \* where the indexer is in handling its message
          document,  \* the hash has a document in the index
          cut,       \* a failure or a crash broke off a handler that had begun to write
          overtaken, \* the indexer loaded a row that was deleted before it wrote
          discoveries, troubles

vars == <<msgs, fetch, scrape, banned, padding, filtered, row, swarm, stale, blocked, classified,
          process, index, document, cut, overtaken, discoveries, troubles>>
torrent == <<banned, padding, filtered>>
stored == <<row, swarm, stale, blocked, classified>>
search == <<index, document, overtaken>>
bounds == <<discoveries, troubles>>

Topics == {"discovered", "getPeers", "metaInfo", "scrape", "scrapeResult", "process", "enriched", "delete"}

Init ==
    /\ msgs = [t \in Topics |-> 0]
    /\ fetch = [f \in Fetchers |-> "idle"] /\ scrape = [s \in Scrapers |-> "idle"]
    /\ banned \in BOOLEAN /\ padding \in BOOLEAN /\ filtered \in BOOLEAN
    /\ row = "none" /\ swarm = FALSE /\ stale = FALSE /\ blocked = FALSE /\ classified = FALSE
    /\ process = "idle" /\ index = "idle" /\ document = FALSE
    /\ cut = FALSE /\ overtaken = FALSE
    /\ discoveries = 0 /\ troubles = 0

Trouble == troubles < MaxTroubles /\ troubles' = troubles + 1
Sent(more) == [t \in Topics |-> IF t \in more THEN msgs[t] + 1 ELSE msgs[t]]
Handled(topic, more) == [Sent(more) EXCEPT ![topic] = @ - 1]
Receives(topic, more) == msgs[topic] > 0 /\ msgs' = Handled(topic, more)

----------------------------------------------------------------------------
Discover ==
    /\ discoveries < MaxDiscoveries /\ discoveries' = discoveries + 1
    /\ msgs' = Sent({"discovered"})
    /\ UNCHANGED <<fetch, scrape, torrent, stored, process, search, cut, troubles>>

\* HandleTriage and what its consumer sends.  A torrent that nobody is known to share, or
\* that was not written for a while, is scraped again.
TriageSends ==
    CASE blocked -> {}
      [] ~blocked /\ row # "complete" -> {"getPeers"}
      [] ~blocked /\ row = "complete" /\ (~swarm \/ stale) -> {"scrape"}
      [] OTHER -> {}

Triage ==
    /\ Receives("discovered", TriageSends)
    /\ UNCHANGED <<fetch, scrape, torrent, stored, process, search, cut, bounds>>

----------------------------------------------------------------------------
(* HandleGetPeers *)

StartFetch(f) ==
    /\ fetch[f] = "idle" /\ Receives("getPeers", {})
    /\ fetch' = [fetch EXCEPT ![f] = "ask"]
    /\ UNCHANGED <<scrape, torrent, stored, process, search, cut, bounds>>

FetchGoes(f, from, to) == fetch[f] = from /\ fetch' = [fetch EXCEPT ![f] = to]

\* There are no peers, none of five answers, or the row cannot be written: the message is
\* acknowledged, and the hash waits for its next discovery.
FetchFails(f) ==
    /\ \E from \in {"ask", "store"} : FetchGoes(f, from, "idle")
    /\ UNCHANGED <<msgs, scrape, torrent, stored, process, search, cut, bounds>>

Unchecked == FALSE
Refused == banned

FetchBanned(f, blocks) ==
    /\ Refused
    /\ FetchGoes(f, "ask", "idle")
    /\ IF blocks THEN blocked' = TRUE /\ UNCHANGED troubles ELSE Trouble /\ UNCHANGED blocked
    /\ UNCHANGED <<msgs, scrape, torrent, row, swarm, stale, classified, process, search, cut, discoveries>>

Fetched(f) ==
    /\ ~Refused
    /\ FetchGoes(f, "ask", "store")
    /\ UNCHANGED <<msgs, scrape, torrent, stored, process, search, cut, bounds>>

\* persistTorrent; an upsert leaves the classification and the seeders of a row alone.
Store(f) ==
    /\ FetchGoes(f, "store", "publish")
    /\ row' = IF padding THEN "uncounted" ELSE "complete"
    /\ stale' = FALSE
    /\ UNCHANGED <<msgs, scrape, torrent, swarm, blocked, classified, process, search, cut, bounds>>

PublishMetaInfo(f) ==
    /\ FetchGoes(f, "publish", "idle")
    /\ msgs' = Sent({"metaInfo"})
    /\ UNCHANGED <<scrape, torrent, stored, process, search, cut, bounds>>

ScrapeOnly == {"scrape"}
PersistSends == {"scrape", "process"}

Persist ==
    /\ Receives("metaInfo", PersistSends)
    /\ UNCHANGED <<fetch, scrape, torrent, stored, process, search, cut, bounds>>

----------------------------------------------------------------------------
(* HandleScrape and HandlePersistSources *)

StartScrape(s) ==
    /\ scrape[s] = "idle" /\ Receives("scrape", {})
    /\ scrape' = [scrape EXCEPT ![s] = "ask"]
    /\ UNCHANGED <<fetch, torrent, stored, process, search, cut, bounds>>

\* A failed query, or a node without support, ends the matter.
Again == {"scrape"}
Nothing == {}
ScrapeEnds(s, answered) ==
    /\ scrape[s] = "ask" /\ scrape' = [scrape EXCEPT ![s] = "idle"]
    /\ msgs' = Sent(IF answered THEN {"scrapeResult"} ELSE Nothing)
    /\ UNCHANGED <<fetch, torrent, stored, process, search, cut, bounds>>

\* The counts only grow; updated_at of the torrent stays as it is.  The processor gets the
\* hash also when its row is gone.
Unasked == TRUE  \* GetTorrent left out
Present == row # "none"

PersistSources(shared) ==
    /\ Receives("scrapeResult", {"process"})
    /\ swarm' = (swarm \/ (Present /\ shared))
    /\ UNCHANGED <<fetch, scrape, torrent, row, stale, blocked, classified, process, search, cut, bounds>>

----------------------------------------------------------------------------
(* The processor *)

Processing == process = "idle" /\ msgs["process"] > 0

\* Without a row the message is dropped.
ProcessMissing ==
    /\ Processing /\ row = "none"
    /\ Receives("process", {})
    /\ UNCHANGED <<fetch, scrape, torrent, stored, process, search, cut, bounds>>

\* What was classified in the last minutes is left alone, before the filter is asked.
ProcessRecent ==
    /\ Processing /\ classified
    /\ Receives("process", {})
    /\ UNCHANGED <<fetch, scrape, torrent, stored, process, search, cut, bounds>>

FilterRefuses == filtered

Process ==
    /\ Processing /\ row # "none" /\ ~FilterRefuses
    /\ Receives("process", {"enriched"})
    /\ classified' = TRUE /\ stale' = FALSE
    /\ UNCHANGED <<fetch, scrape, torrent, row, swarm, blocked, process, search, cut, bounds>>

\* The torrent filter: the row is deleted, the hash blocked, and the index told.  A write
\* that fails is logged and the next one done.
DeleteRow(fails) ==
    /\ Processing /\ row # "none" /\ FilterRefuses
    /\ process' = "block"
    /\ IF fails
       THEN Trouble /\ cut' = TRUE /\ UNCHANGED <<row, swarm, classified, stale, overtaken>>
       ELSE /\ row' = "none" /\ swarm' = FALSE /\ classified' = FALSE /\ stale' = FALSE
            /\ overtaken' = (overtaken \/ index = "write")
            /\ UNCHANGED <<cut, troubles>>
    /\ UNCHANGED <<msgs, fetch, scrape, torrent, blocked, index, document, discoveries>>

Block ==
    /\ process = "block" /\ process' = "delete"
    /\ blocked' = TRUE
    /\ UNCHANGED <<msgs, fetch, scrape, torrent, row, swarm, stale, classified, search, cut, bounds>>

Untold == {}
Told == {"delete"}
PublishDelete ==
    /\ process = "delete" /\ process' = "idle"
    /\ Receives("process", Told)
    /\ UNCHANGED <<fetch, scrape, torrent, stored, search, cut, bounds>>

----------------------------------------------------------------------------
(* The search index *)

\* loadTorrent; without a row the message leads to a retry (module RetryQueue).
Load ==
    /\ index = "idle" /\ msgs["enriched"] > 0
    /\ IF row = "none" THEN msgs' = Handled("enriched", {}) /\ UNCHANGED index
                       ELSE index' = "write" /\ UNCHANGED msgs
    /\ UNCHANGED <<fetch, scrape, torrent, stored, process, document, cut, overtaken, bounds>>

\* Embedding and indexing, each a call to another service.
Write(succeeds) ==
    /\ index = "write" /\ index' = "idle"
    /\ Receives("enriched", {})
    /\ document' = (document \/ succeeds)
    /\ UNCHANGED <<fetch, scrape, torrent, stored, process, cut, overtaken, bounds>>

Delete ==
    /\ Receives("delete", {})
    /\ document' = FALSE
    /\ UNCHANGED <<fetch, scrape, torrent, stored, process, index, cut, overtaken, bounds>>

----------------------------------------------------------------------------
TimePasses ==
    /\ row # "none" /\ ~stale /\ stale' = TRUE
    /\ UNCHANGED <<msgs, fetch, scrape, torrent, row, swarm, blocked, classified, process, search, cut, bounds>>

\* UpdateTorrentFilter.
ChangeFilter ==
    /\ Trouble /\ filtered' = ~filtered
    /\ UNCHANGED <<msgs, fetch, scrape, banned, padding, stored, process, search, cut, discoveries>>

\* What runs in goroutines is lost; messages that were not acknowledged come again.
Crash ==
    /\ Trouble
    /\ fetch' = [f \in Fetchers |-> "idle"] /\ scrape' = [s \in Scrapers |-> "idle"]
    /\ process' = "idle" /\ index' = "idle"
    /\ cut' = (cut \/ process # "idle" \/ \E f \in Fetchers : fetch[f] = "publish")
    /\ UNCHANGED <<msgs, torrent, stored, document, overtaken, discoveries>>

FetchStep(f) ==
    \/ StartFetch(f) \/ FetchFails(f) \/ Fetched(f) \/ Store(f) \/ PublishMetaInfo(f)
    \/ \E blocks \in BOOLEAN : FetchBanned(f, blocks)
ScrapeStep(s) == StartScrape(s) \/ \E answered \in BOOLEAN : ScrapeEnds(s, answered)
Stage ==
    \/ Triage \/ Persist \/ Delete
    \/ \E shared \in BOOLEAN : PersistSources(shared)
ProcessorStep ==
    \/ ProcessMissing \/ ProcessRecent \/ Process \/ Block \/ PublishDelete
    \/ \E fails \in BOOLEAN : DeleteRow(fails)
IndexerStep == Load \/ \E succeeds \in BOOLEAN : Write(succeeds)
Work ==
    \/ (\E f \in Fetchers : FetchStep(f)) \/ (\E s \in Scrapers : ScrapeStep(s))
    \/ Stage \/ ProcessorStep \/ IndexerStep

Next == Work \/ Discover \/ TimePasses \/ ChangeFilter \/ Crash

Spec == Init /\ [][Next]_vars

\* The consumers run and every call returns.
Fairness == WF_vars(Work)
FairSpec == Spec /\ Fairness

----------------------------------------------------------------------------
\* Type invariant; a torrent without a row has neither seeders nor a classification.
TypeOK ==
    /\ \A t \in Topics : msgs[t] \in Nat
    /\ \A f \in Fetchers : fetch[f] \in {"idle", "ask", "store", "publish"}
    /\ \A s \in Scrapers : scrape[s] \in {"idle", "ask"}
    /\ row \in {"none", "uncounted", "complete"}
    /\ row = "none" => ~swarm /\ ~classified /\ ~stale
    /\ process \in {"idle", "block", "delete"} /\ index \in {"idle", "write"}

\* Banned content is never stored, however often its hash is found.
BannedNeverStored == banned => row = "none"

\* A torrent in the table has been classified or will be: a message on its way to the
\* processor exists.  Only a crash between the row and the message, or a failed deletion,
\* leaves it without; then the next scrape brings it back.
StoredIsProcessed ==
    row # "none" => \/ classified \/ cut
                    \/ msgs["metaInfo"] > 0 \/ msgs["process"] > 0
                    \/ \E f \in Fetchers : fetch[f] = "publish"

\* A document outlives its torrent only until the message that deletes it is handled;
\* unless the deletion was broken off, or the indexer had loaded the row before.
DocumentsFollow ==
    document /\ row = "none" => msgs["delete"] > 0 \/ process # "idle" \/ cut \/ overtaken

\* A torrent that the filter refuses goes again, also when its hash had been blocked while
\* a fetch was under way that stored it after that.
RefusedGoes == [](filtered /\ ~cut) => <>[](row = "none")

\* The stages feed each other, and the processor is fed by two of them, but in no circle:
\* when the crawler finds nothing more, all work ends.
PipelineDrains ==
    <>[]((\A t \in Topics : msgs[t] = 0) /\ (\A f \in Fetchers : fetch[f] = "idle") /\ process = "idle")
=============================================================================
