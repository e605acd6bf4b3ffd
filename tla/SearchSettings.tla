---------------------------- MODULE SearchSettings ----------------------------
(***************************************************************************)
(* How a new search configuration reaches those who run on it:             *)
(* updateConfig and the synchronous subscribers (src/internal/gql), the    *)
(* atoms of the search runtime, and the indexer and the deleter, which are *)
(* woken by a token and then read the atom for themselves                  *)
(* (src/internal/processor/enrich/indexer).  A setting is a backend, a     *)
(* cluster and the dimensions of the embeddings; a client is the cluster   *)
(* it talks to, an embedder the dimensions it makes.  Requests of a        *)
(* client may fail at any time, but making one does not: the settings were *)
(* validated by making one (src/internal/configcheck/configcheck.go:87).   *)
(***************************************************************************)
EXTENDS Naturals

CONSTANTS Settings,     \* [backend, cluster, dims]
          NoClient,
          MaxUpdates, MaxRefused, MaxJobs  \* bounds

None == 0                     \* no embedder, no dimensions
Clusters == {s.cluster : s \in Settings}
Clients == Clusters \cup {NoClient}
Dimensions == {s.dims : s \in Settings}
Embedders == Dimensions \cup {None}

ClientOf(s) == IF s.backend = "elasticsearch" THEN s.cluster ELSE NoClient
EmbedderOf(s) == IF s.backend = "elasticsearch" THEN s.dims ELSE None

VARIABLES
    update,    \* where updateConfig is, and what it sets
    saved,     \* r.SearchCfg, as in the file
    atom,      \* Runtime.SearchConfig, and Backend, which is set just before
    search,    \* Runtime.Search: the setting its backends are made from
    snapshot,  \* the search section of the manager's snapshot
    resolver,  \* the client and the embedder of GraphQL
    wired,     \* the setting the process started with
    workers,   \* those of indexer and deleter that it runs
    token,     \* those of indexer and deleter whose channel holds an event
    indexer,   \* its goroutine: pc, the setting it read, client, embedder,
               \* lastESAddr, lastEmbeddingCfg
    deleter,   \* its goroutine: pc, the setting it read, client, lastAddr
    index,     \* cluster -> the dimensions of its index, or None
    job,       \* the run in the slot of the job controller
    request,   \* a reindexToElasticsearch that has read client and embedder
    odd,       \* history: what an event may find and not repair
    updates, refused, jobs

updateVars == <<update, saved, atom, search, snapshot, resolver, token, updates, refused>>
jobVars == <<job, request, jobs>>
startVars == <<wired, workers>>
vars == <<updateVars, startVars, indexer, deleter, index, jobVars, odd>>

Free == [kind |-> "none", client |-> NoClient, embedder |-> None, dims |-> None, torn |-> FALSE]
NoRequest == [client |-> NoClient, embedder |-> None, since |-> 0]

Init ==
    \E s \in Settings :
        /\ update = [pc |-> "idle", to |-> s]
        /\ saved = s /\ atom = s /\ search = s /\ snapshot = s /\ wired = s
        /\ resolver = [client |-> ClientOf(s), embedder |-> s.dims]
        /\ token = {} /\ workers \in SUBSET {"indexer", "deleter"}
        /\ indexer = [pc |-> "wired", read |-> s, client |-> NoClient, embedder |-> None,
                      lastAddr |-> NoClient, lastDims |-> None]
        /\ deleter = [pc |-> "wired", read |-> s, client |-> ClientOf(s), lastAddr |-> NoClient]
        /\ index \in [Clusters -> Embedders]
        /\ job = Free /\ request = NoRequest
        /\ odd = {}
        /\ updates = 0 /\ refused = 0 /\ jobs = 0

----------------------------------------------------------------------------
(***************************************************************************)
(* updateConfig: dimensions are not changed while a job runs, as far as    *)
(* the check at the start can tell.                                        *)
(***************************************************************************)
CheckBusy(s) ==
    /\ update.pc = "idle" /\ updates < MaxUpdates
    /\ job.kind # "none" => s.dims = saved.dims
    /\ update' = [pc |-> "checked", to |-> s]
    /\ updates' = updates + 1
    /\ UNCHANGED <<saved, atom, search, snapshot, resolver, token, refused, startVars, indexer,
                   deleter, index, jobVars, odd>>

UpdateGoes(from, to) == update.pc = from /\ update' = [update EXCEPT !.pc = to]

\* A subscriber compares with what it was given last, which is in the atom.
Save ==
    /\ UpdateGoes("checked", IF update.to = atom THEN "postgres" ELSE "switch")
    /\ saved' = update.to
    /\ UNCHANGED <<atom, search, snapshot, resolver, token, updates, refused, startVars, indexer,
                   deleter, index, jobVars, odd>>

SwitchBackend ==
    /\ UpdateGoes("switch", "factory")
    /\ atom' = update.to
    /\ UNCHANGED <<saved, search, snapshot, resolver, token, updates, refused, startVars, indexer,
                   deleter, index, jobVars, odd>>

MakeSearch ==
    /\ UpdateGoes("factory", "notify")
    /\ search' = update.to
    /\ UNCHANGED <<saved, atom, snapshot, resolver, token, updates, refused, startVars, indexer,
                   deleter, index, jobVars, odd>>

Subscribed == {i \in {"indexer", "deleter"} :
                 IF i = "indexer" THEN indexer.pc \notin {"wired", "startup", "embedder", "subscribe", "panicked"}
                                  ELSE deleter.pc # "wired"}

Notify ==
    /\ UpdateGoes("notify", "setES")
    /\ token' = Subscribed
    /\ UNCHANGED <<saved, atom, search, snapshot, resolver, updates, refused, startVars, indexer,
                   deleter, index, jobVars, odd>>

SetES ==
    /\ UpdateGoes("setES", "setEM")
    /\ resolver' = [resolver EXCEPT !.client = ClientOf(update.to)]
    /\ UNCHANGED <<saved, atom, search, snapshot, token, updates, refused, startVars, indexer,
                   deleter, index, jobVars, odd>>

SetEM ==
    /\ UpdateGoes("setEM", "postgres")
    /\ resolver' = [resolver EXCEPT !.embedder = EmbedderOf(update.to)]
    /\ UNCHANGED <<saved, atom, search, snapshot, token, updates, refused, startVars, indexer,
                   deleter, index, jobVars, odd>>

\* Another subscriber may fail: then no snapshot is stored, and nobody is switched back.
Publish ==
    /\ UpdateGoes("postgres", "idle")
    /\ \/ snapshot' = update.to /\ UNCHANGED refused
       \/ refused < MaxRefused /\ refused' = refused + 1 /\ UNCHANGED snapshot
    /\ UNCHANGED <<saved, atom, search, resolver, token, updates, startVars, indexer, deleter,
                   index, jobVars, odd>>

UpdateStep == Save \/ SwitchBackend \/ MakeSearch \/ Notify \/ SetES \/ SetEM \/ Publish

----------------------------------------------------------------------------
(***************************************************************************)
(* The indexer.  odd has "missed" while a setting it read at the start was *)
(* replaced before it subscribed, "wrongClient" while its client is not    *)
(* the one of lastESAddr, and "wrongEmbedder" while its embedder is not    *)
(* the one of lastEmbeddingCfg.                                            *)
(***************************************************************************)
Marked(which, condition) == IF condition THEN odd \cup {which} ELSE odd \ {which}

\* A client that finds no index makes one; the request may fail.
EnsureIndex(client, dims) ==
    \/ UNCHANGED index
    \/ index[client] = None /\ index' = [index EXCEPT ![client] = dims]

\* Prepare: the client is the one made when the process was wired.  With a backend that was
\* switched on since there is none, and the program ends with a nil dereference.
Prepare ==
    /\ indexer.pc = "wired" /\ "indexer" \in workers
    /\ CASE atom.backend # "elasticsearch" ->
              /\ indexer' = [indexer EXCEPT !.pc = "embedder", !.read = atom]
              /\ UNCHANGED <<index, odd>>
         [] atom.backend = "elasticsearch" /\ ClientOf(wired) = NoClient ->
              /\ indexer' = [indexer EXCEPT !.pc = "panicked", !.read = atom]
              /\ UNCHANGED <<index, odd>>
         [] OTHER ->
              /\ indexer' = [indexer EXCEPT !.pc = "embedder", !.read = atom,
                                            !.client = ClientOf(wired),
                                            !.lastAddr = atom.cluster, !.lastDims = atom.dims]
              /\ EnsureIndex(ClientOf(wired), atom.dims)
              /\ odd' = Marked("wrongClient", ClientOf(wired) # atom.cluster)
    /\ UNCHANGED <<updateVars, startVars, deleter, jobVars>>

StoreEmbedder ==
    /\ indexer.pc = "embedder"
    /\ indexer' = [indexer EXCEPT !.pc = "subscribe", !.embedder = EmbedderOf(atom)]
    /\ odd' = Marked("wrongEmbedder", EmbedderOf(atom) # indexer.lastDims)
    /\ UNCHANGED <<updateVars, startVars, deleter, index, jobVars>>

Subscribe ==
    /\ indexer.pc = "subscribe"
    /\ indexer' = [indexer EXCEPT !.pc = "loop", !.read = wired]
    /\ odd' = Marked("missed", indexer.read # atom)
    /\ UNCHANGED <<updateVars, startVars, deleter, index, jobVars>>

IndexerEvent ==
    /\ indexer.pc = "loop" /\ "indexer" \in token
    /\ token' = token \ {"indexer"}
    /\ indexer' = [indexer EXCEPT !.pc = "event", !.read = atom]
    /\ UNCHANGED <<update, saved, atom, search, snapshot, resolver, updates, refused, startVars,
                   deleter, index, jobVars, odd>>

\* As Emptied, with the embeddings it had last kept.
KeepsDims == [indexer EXCEPT !.pc = "loop", !.read = wired, !.client = NoClient, !.embedder = None,
                             !.lastAddr = NoClient]

\* A setting that was read and is of no more use is reset, to the one in wired.
Emptied == [indexer EXCEPT !.pc = "loop", !.read = wired, !.client = NoClient, !.embedder = None,
                           !.lastAddr = NoClient, !.lastDims = None]

SwitchOff ==
    /\ indexer.pc = "event" /\ indexer.read.backend # "elasticsearch"
    /\ indexer' = Emptied
    /\ odd' = odd \cap {"deleterMissed"}
    /\ UNCHANGED <<updateVars, startVars, deleter, index, jobVars>>

ClientFits(cluster) == indexer.client # NoClient /\ cluster = indexer.lastAddr

RenewClient ==
    /\ indexer.pc = "event" /\ indexer.read.backend = "elasticsearch"
    /\ LET cluster == indexer.read.cluster IN
         IF ClientFits(cluster)
         THEN indexer' = [indexer EXCEPT !.pc = "embedding"] /\ UNCHANGED <<index, odd>>
         ELSE /\ indexer' = [indexer EXCEPT !.pc = "embedding", !.client = cluster, !.lastAddr = cluster]
              /\ EnsureIndex(cluster, indexer.read.dims)
              /\ odd' = odd \ {"wrongClient"}
    /\ UNCHANGED <<updateVars, startVars, deleter, jobVars>>

KeepEmbedder ==
    /\ indexer.pc = "embedding" /\ indexer.read.dims = indexer.lastDims
    /\ indexer' = [indexer EXCEPT !.pc = "loop", !.read = wired]
    /\ odd' = odd \ {"missed"}
    /\ UNCHANGED <<updateVars, startVars, deleter, index, jobVars>>

\* lastEmbeddingCfg comes from the setting the event read, the embedder from the atom.
RenewEmbedder ==
    /\ indexer.pc = "embedding" /\ indexer.read.dims # indexer.lastDims
    /\ LET dims == indexer.read.dims
           embedder == EmbedderOf(atom)
           renewed == [indexer EXCEPT !.lastDims = dims, !.embedder = embedder]
       IN
         /\ indexer' = IF indexer.lastDims # None
                       THEN [renewed EXCEPT !.pc = "reindex"]
                       ELSE [renewed EXCEPT !.pc = "loop", !.read = wired]
         /\ odd' = Marked("wrongEmbedder", embedder # dims) \ {"missed"}
    /\ UNCHANGED <<updateVars, startVars, deleter, index, jobVars>>

\* ReindexTracker.Start: the slot is taken, or the reindex is skipped and only logged.
AutoReindex ==
    /\ indexer.pc = "reindex"
    /\ indexer' = [indexer EXCEPT !.pc = "loop", !.read = wired]
    /\ job' = IF job.kind = "none"
              THEN [kind |-> "fresh", client |-> indexer.client, embedder |-> indexer.embedder,
                    dims |-> indexer.read.dims, torn |-> "wrongEmbedder" \in odd]
              ELSE job
    /\ UNCHANGED <<updateVars, startVars, deleter, index, request, jobs, odd>>

IndexerStep ==
    \/ Prepare \/ StoreEmbedder \/ Subscribe \/ IndexerEvent
    \/ SwitchOff \/ RenewClient \/ KeepEmbedder \/ RenewEmbedder \/ AutoReindex

----------------------------------------------------------------------------
(***************************************************************************)
(* The deleter has the client of the wiring, and takes no look at the      *)
(* settings before its first event.                                        *)
(***************************************************************************)
DeleterSubscribes ==
    /\ deleter.pc = "wired" /\ "deleter" \in workers
    /\ deleter' = [deleter EXCEPT !.pc = "loop"]
    /\ odd' = Marked("deleterMissed", ClientOf(wired) # ClientOf(atom))
    /\ UNCHANGED <<updateVars, startVars, indexer, index, jobVars>>

DeleterEvent ==
    /\ deleter.pc = "loop" /\ "deleter" \in token
    /\ token' = token \ {"deleter"}
    /\ deleter' = [deleter EXCEPT !.pc = "event", !.read = atom]
    /\ UNCHANGED <<update, saved, atom, search, snapshot, resolver, updates, refused, startVars,
                   indexer, index, jobVars, odd>>

DeleterRenews ==
    /\ deleter.pc = "event"
    /\ LET client == ClientOf(deleter.read) IN
         deleter' = [deleter EXCEPT !.pc = "loop", !.read = wired,
                       !.lastAddr = client,
                       !.client = IF client = NoClient \/ client # deleter.lastAddr THEN client ELSE @]
    /\ odd' = odd \ {"deleterMissed"}
    /\ UNCHANGED <<updateVars, startVars, indexer, index, jobVars>>

DeleterStep == DeleterSubscribes \/ DeleterEvent \/ DeleterRenews

----------------------------------------------------------------------------
(***************************************************************************)
(* The slot: a reindex that somebody asks for reads the client and the     *)
(* embedder first and the snapshot's dimensions later.  A reclassify takes *)
(* the slot too.                                                           *)
(***************************************************************************)
ReadClients ==
    /\ request = NoRequest /\ jobs < MaxJobs
    /\ resolver.client # NoClient /\ resolver.embedder # None
    /\ request' = [client |-> resolver.client, embedder |-> resolver.embedder,
                   since |-> IF update.pc = "idle" THEN updates + 1 ELSE 0]
    /\ jobs' = jobs + 1
    /\ UNCHANGED <<updateVars, startVars, indexer, deleter, index, job, odd>>

\* torn is history: an update fell between the two reads, or one before had been refused.
StartReindex ==
    /\ request # NoRequest
    /\ request' = NoRequest
    /\ \E kind \in {"fresh", "resumed"} :
         job' = IF job.kind = "none"
                THEN [kind |-> kind, client |-> request.client, embedder |-> request.embedder,
                      dims |-> snapshot.dims,
                      torn |-> request.since # updates + 1 \/ snapshot # atom]
                ELSE job
    /\ UNCHANGED <<updateVars, startVars, indexer, deleter, index, jobs, odd>>

StartReclassify ==
    /\ job.kind = "none" /\ jobs < MaxJobs
    /\ job' = [Free EXCEPT !.kind = "reclassify"]
    /\ jobs' = jobs + 1
    /\ UNCHANGED <<updateVars, startVars, indexer, deleter, index, request, odd>>

\* RecreateIndex, when there is nothing to resume.
RecreateIndex ==
    /\ job.kind = "fresh"
    /\ index' = [index EXCEPT ![job.client] = job.dims]
    /\ job' = [job EXCEPT !.kind = "indexing"]
    /\ UNCHANGED <<updateVars, startVars, indexer, deleter, request, jobs, odd>>

JobEnds ==
    /\ job.kind # "none"
    /\ job' = Free
    /\ UNCHANGED <<updateVars, startVars, indexer, deleter, index, request, jobs, odd>>

----------------------------------------------------------------------------
Alive == indexer.pc # "panicked"

Next ==
    /\ Alive
    /\ \/ \E s \in Settings : CheckBusy(s)
       \/ UpdateStep \/ IndexerStep \/ DeleterStep
       \/ ReadClients \/ StartReindex \/ StartReclassify \/ RecreateIndex \/ JobEnds

Fairness ==
    /\ WF_vars(Alive /\ UpdateStep)
    /\ WF_vars(Alive /\ IndexerStep)
    /\ WF_vars(Alive /\ DeleterStep)

FairSpec == Init /\ [][Next]_vars /\ Fairness

----------------------------------------------------------------------------
\* The variables keep to their types.
TypeOK ==
    /\ update.pc \in {"idle", "checked", "switch", "factory", "notify", "setES", "setEM", "postgres"}
    /\ {update.to, saved, atom, search, snapshot, wired, indexer.read, deleter.read} \subseteq Settings
    /\ token \subseteq {"indexer", "deleter"} /\ workers \subseteq {"indexer", "deleter"}
    /\ {indexer.client, indexer.lastAddr, deleter.client, deleter.lastAddr, resolver.client} \subseteq Clients
    /\ {indexer.embedder, indexer.lastDims, resolver.embedder} \subseteq Embedders
    /\ index \in [Clusters -> Embedders]
    /\ job.kind \in {"none", "fresh", "resumed", "indexing", "reclassify"}
    /\ odd \subseteq {"missed", "wrongClient", "wrongEmbedder", "deleterMissed"}

\* Nothing is under way that will still make i look at the atom.
Settled(i) == update.pc \notin {"factory", "notify"} /\ i \notin token

\* However updates, tokens and the goroutine's own reads of the atom interleave, an indexer
\* that has come to rest has the client and the embedder of the setting in force
\* (src/internal/processor/enrich/indexer/consumer.go:224), but for what odd records: an
\* update before it subscribed, and a setting that changed and came back during an event.
IndexerFollows ==
    (Settled("indexer") /\ indexer.pc = "loop" /\ "missed" \notin odd) =>
      /\ "wrongClient" \notin odd => indexer.client = ClientOf(atom)
      /\ "wrongEmbedder" \notin odd => indexer.embedder = EmbedderOf(atom)

\* A deleter at rest deletes from the cluster in force (deleter.go:83), unless the setting
\* changed before it subscribed.
DeleterFollows ==
    (Settled("deleter") /\ deleter.pc = "loop" /\ "deleterMissed" \notin odd) =>
      deleter.client = ClientOf(atom)

\* A reindex makes vectors of the dimensions of the index it has made (consumer.go:264,
\* mutation.resolvers.go:72), unless an update fell into its start.
VectorsFit ==
    job.kind = "indexing" /\ ~job.torn =>
      job.embedder = job.dims /\ index[job.client] = job.dims

\* After the last update everybody comes to rest, unless the program has ended.
SettingsArrive ==
    <>[](~Alive \/ (/\ update.pc = "idle" /\ token = {}
                    /\ "indexer" \in workers => indexer.pc = "loop"
                    /\ "deleter" \in workers => deleter.pc = "loop"))
=============================================================================
