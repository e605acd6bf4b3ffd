----------------------------- MODULE MCEndpoints -----------------------------
(***************************************************************************)
(* Instances of the services whose users hold on to something while it is  *)
(* replaced or closed: the switchable queue (EXTENDS); the DHT server, its *)
(* queries, its answers within limits and its table; the settings of the   *)
(* search; and the configuration file with the options that run.  They     *)
(* share nothing, so a behaviour picks one of them at the start and the    *)
(* states add up.                                                          *)
(***************************************************************************)
EXTENDS QueueRuntime, FiniteSets

CONSTANTS Queries, Scrapes, MaxPackets,  \* DhtServer
          NodeIds, HashIds, Ips, Ports, MaxPeers,  \* RoutingTable
          QuerySlots, PerIpBurst, GlobalBurst, Remembered, MaxRefills,  \* DhtResponder
          a1, a2,                        \* clusters
          Settings, NoClient, MaxUpdates, MaxRefused, MaxJobs,  \* SearchSettings
          Options, Layers, MaxChanges    \* ConfigFile

ASSUME ServerAssumption ==
    /\ IsFiniteSet(Queries) /\ "none" \notin Queries
    /\ Scrapes \subseteq Queries /\ MaxPackets \in Nat

\* "none" stands for the zero ID, and for no address and no hash.
ASSUME TableAssumption ==
    /\ "none" \notin NodeIds \cup HashIds \cup Ips
    /\ MaxPeers \in Nat \ {0}

ASSUME ResponderAssumption ==
    /\ IsFiniteSet(QuerySlots) /\ HashIds # {}
    /\ PerIpBurst \in Nat /\ GlobalBurst \in Nat /\ Remembered \in Nat /\ MaxRefills \in Nat

VARIABLES part,  \* the service that this behaviour is about
          call, tid, nextId, registered, buffer, outcome, answeredBy, handler, packets, reading, opened,
          nodes, nodeTree, hashes, addrs, failing,
          enabled, query, keyed, known, made, buckets, global, tokens, asked, peers, forgotten, passed, drawn, gained, changes,
          update, saved, atom, search, snapshot, resolver, wired, workers, event, indexer, deleter, index,
          job, request, odd, updates, refused, jobs,
          exists, text, outside, up, structs, stale, byHand, edits

S == INSTANCE DhtServer

serverVars == <<call, tid, nextId, registered, buffer, outcome, answeredBy, handler, packets,
                reading, opened>>

T == INSTANCE RoutingTable
R == INSTANCE DhtResponder WITH Slots <- QuerySlots, Hashes <- HashIds, Size <- Remembered,
                                MaxChanges <- MaxRefills

tableVars == <<nodes, nodeTree, hashes, addrs, failing>>
responderVars == <<enabled, query, keyed, known, made, buckets, global, tokens, asked, peers, forgotten,
                   passed, drawn, gained, changes>>
dhtVars == <<serverVars, tableVars, responderVars>>

\* The search switched off, and on two clusters with embeddings of their own.
MCSettings == {[backend |-> "postgresql", cluster |-> a1, dims |-> 1],
               [backend |-> "elasticsearch", cluster |-> a1, dims |-> 1],
               [backend |-> "elasticsearch", cluster |-> a2, dims |-> 2]}

Search == INSTANCE SearchSettings WITH token <- event

\* NoClient is the nil pointer, and embeddings have at least one dimension
\* (src/internal/elasticsearch/embedding/config.go:7).
ASSUME SettingsAssumption ==
    /\ \A s \in Settings : s.dims # Search!None /\ s.cluster # NoClient
    /\ MaxUpdates \in Nat /\ MaxRefused \in Nat /\ MaxJobs \in Nat

settingsVars == <<update, saved, atom, search, snapshot, resolver, wired, workers, event, indexer,
                  deleter, index, job, request, odd, updates, refused, jobs>>

\* An option of each kind and of each way to be checked; the API key of torznab and that
\* of dht may come from the environment, and the path of torznab from ./config.yml.
Option(section, names) ==
    [of : {section}, name : names, kind : {"scalar", "list", "secret", "kept", "prompt", "header"}]
MCOptions ==
    Option("dht", {"reseed_bootstrap_nodes_interval"})
    \cup Option("classifier", {"tmdb.access_token", "llm.prompt"})
    \cup Option("queue", {"kafka.brokers"})
    \cup Option("torznab", {"path", "api_key"})
    \cup Option("webhooks", {"urls", "Authorization", "X-Token"})
MCLayers ==
    {[local |-> Option("torznab", {"path"}),
      env |-> Option("torznab", {"api_key"}) \cup Option("dht", {"reseed_bootstrap_nodes_interval"})],
     [local |-> {}, env |-> {}]}

F == INSTANCE ConfigFile WITH file <- text, running <- up, live <- structs, changes <- edits

\* The headers are in the file or nowhere: a map given by another layer is not modelled.
ASSUME OptionsAssumption ==
    /\ \A y \in Layers : F!Headers \cap (y.local \cup y.env) = {}
    /\ MaxChanges \in Nat

optionVars == <<exists, text, outside, up, structs, stale, byHand, edits>>

\* What another service starts with is of no interest: one initial state each.
MCInit ==
    /\ part \in {"queue", "server", "table", "limits", "announces", "jobs", "turns", "deletes", "file"}
    /\ Init /\ S!Init /\ T!Init /\ R!Init /\ Search!Init
    /\ IF part = "file" THEN F!Init
       ELSE /\ exists = FALSE /\ text = <<>> /\ outside = {} /\ up = FALSE /\ structs = <<>>
            /\ stale = {} /\ byHand = {} /\ edits = 0
    /\ part # "queue" => target.backend = "memory"
    /\ part \notin {"jobs", "turns", "deletes"} => wired.backend = "postgresql"
    /\ workers = IF part = "deletes" THEN {"deleter"} ELSE {"indexer"}
    /\ index = [c \in Search!Clusters |-> Search!None]

Only(p) == part = p /\ UNCHANGED part

\* Of the responder one part is about the limits, with queries of one kind; and one about the
\* tokens, with one change at most: an address that makes room for another, so that there are
\* two, or one that has a second token.
LimitsOnly == \A s \in QuerySlots : query'[s] # R!Free => query'[s].method = "other"
AnnouncesOnly == changes' <= 1 /\ UNCHANGED <<enabled, keyed>>

MCNext ==
    \/ Only("queue") /\ Next /\ UNCHANGED <<dhtVars, settingsVars, optionVars>>
    \/ Only("server") /\ S!Next /\ UNCHANGED <<vars, tableVars, responderVars, settingsVars, optionVars>>
    \/ Only("table") /\ T!Next /\ UNCHANGED <<vars, serverVars, responderVars, settingsVars, optionVars>>
    \/ /\ Only("limits") \/ Only("announces")
       /\ R!Next /\ UNCHANGED <<vars, serverVars, tableVars, settingsVars, optionVars>>
       /\ IF part = "limits" THEN LimitsOnly ELSE AnnouncesOnly
    \/ Only("jobs") /\ Search!Next /\ updates' <= 1 /\ UNCHANGED <<vars, dhtVars, optionVars>>
    \/ /\ Only("turns") \/ Only("deletes")
       /\ Search!Next /\ refused' = 0 /\ jobs' = 0 /\ UNCHANGED <<vars, dhtVars, optionVars>>
    \/ Only("file") /\ F!Next /\ UNCHANGED <<vars, dhtVars, settingsVars>>

\* Of these parts the third is about the deleter and the others about the indexer: with jobs
\* beside it, and with a setting that changes and comes back.
Searching == part \in {"jobs", "turns", "deletes"}

\* A supervisor, the indexer and the deleter could move from the initial state: their
\* fairness counts only when the behaviour is about them.
MCSpec ==
    /\ MCInit /\ [][MCNext]_<<part, vars, dhtVars, settingsVars, optionVars>>
    /\ WF_vars(SwitchStep)
    /\ \A s \in Supervisors : WF_vars(part = "queue" /\ RunStep(s))
    /\ S!Fairness
    /\ WF_settingsVars(Searching /\ Search!Alive /\ Search!UpdateStep)
    /\ WF_settingsVars(Searching /\ Search!Alive /\ Search!IndexerStep)
    /\ WF_settingsVars(Searching /\ Search!Alive /\ Search!DeleterStep)

\* The trees, the items and the reverse map of the table tell the same story after every
\* command, also for nodes and hashes that share or change addresses.
TableConsistent == T!TypeOK /\ T!TreeMatchesItems /\ T!NoStaleNode /\ T!NoStaleHash

\* No limiter passes more than its bucket, no address has more limiters than it should, none pays
\* for another's flood, or announces a peer for an address or a hash that did not ask before,
\* whatever limiters are forgotten or replaced meanwhile.
AnswersInBudget == R!TypeOK /\ R!AnnouncedAskedBefore /\ R!AddressBudget /\ R!FloodSparesOthers

\* A query is answered by what was sent to it, if by anything, and leaves nothing behind that a
\* late or repeated response could meet.  The table agrees with itself, and answers stay in the
\* budgets of the limiters.
ServerContract ==
    /\ [](S!TypeOK /\ S!AnsweredByOwn /\ S!NoLeftover /\ S!OnlyDuplicatesStick)
    /\ S!ScrapeHasFilters
    /\ [](TableConsistent /\ AnswersInBudget)

\* A reindex makes vectors that its index takes, and what the indexer and the deleter have at
\* rest is of the setting in force.  What is saved in the file is in force, and the program starts
\* from it again.
SettingsContract ==
    /\ Search!TypeOK /\ Search!IndexerFollows /\ Search!DeleterFollows /\ Search!VectorsFit
    /\ part = "file" => F!ConfigFileContract

\* Processing goes where the setting says; every query returns; and whoever uses the search comes,
\* after any sequence of updates, to the clients and embedders of the setting in force.
EndpointsProgress ==
    /\ ProcessingRerouted
    /\ S!QueryReturns
    /\ Searching => Search!SettingsArrive
=============================================================================
