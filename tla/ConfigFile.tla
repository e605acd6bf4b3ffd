----------------------------- MODULE ConfigFile -----------------------------
(***************************************************************************)
(* The configuration between the file and the structs that are in force:   *)
(* what a start resolves from the layers (src/internal/config), what is    *)
(* shown, and what updateConfig merges, checks, writes and reloads         *)
(* (src/internal/gql/resolvers/config_helpers.go and config_validate.go),  *)
(* while the operator may edit the file too.  ConfigManager has what       *)
(* concurrent updates do and how subscribers are served.                   *)
(*                                                                         *)
(* A leaf is an option with its kind; of its values the model tells apart  *)
(* the default, two more, one out of range and one of the wrong type.      *)
(***************************************************************************)
EXTENDS Naturals

CONSTANTS Options,     \* those of the leaves that are changed; all are shown
          Layers,      \* [local, env]: the leaves that ./config.yml and the environment give
          MaxChanges   \* bound

VARIABLES exists, file,   \* the runtime file, as a function of the leaves in it
          outside,        \* a member of Layers
          running, live,  \* the structs of the resolver
          stale,          \* history: leaves edited in the file and not reloaded since
          byHand,         \* history: leaves that were edited in the file
          changes

vars == <<exists, file, outside, running, live, stale, byHand, changes>>

Leaves(section, scalars, lists, secrets) ==
    [of : {section}, name : scalars, kind : {"scalar"}] \cup
    [of : {section}, name : lists, kind : {"list"}] \cup
    [of : {section}, name : secrets, kind : {"secret"}]

Dht == Leaves("dht", {"port", "responder.enabled", "responder.global_rate_limit", "responder.per_ip_rate_limit",
                      "reseed_bootstrap_nodes_interval"}, {"bootstrap_nodes"}, {})
Requester == Leaves("dht", {"requester.request_limit", "requester.rescrape_threshold",
                            "requester.hash_discover_limit"}, {}, {})
Server == Leaves("server", {"ip", "port", "log.console_level", "log.file_output_level", "log.file_rotator.path",
                            "log.file_rotator.max_backups", "log.file_rotator.max_size_mb",
                            "log.file_rotator.format", "torrent_file_path"}, {"embed_trackers"}, {})
Classifier ==
    Leaves("classifier", {"concurrency", "llm.endpoint", "llm.model", "llm.timeout", "llm.max_retries",
                          "llm.temperature", "llm.reasoning_effort", "llm.max_files", "llm.enabled",
                          "torrent_filter.mode", "tmdb.enabled", "tmdb.rate_limit"},
           {"torrent_filter.title_patterns", "torrent_filter.filename_patterns"},
           {"llm.api_key", "tmdb.access_token"})
    \cup [of : {"classifier"}, name : {"llm.prompt"}, kind : {"prompt"}]
Storage ==
    Leaves("postgres", {"host", "username", "port", "database", "ssl_mode", "connection_timeout", "ssl_cert_path",
                        "ssl_key_path", "ssl_root_cert_path", "max_connections"}, {}, {"password"})
    \cup Leaves("queue", {"backend"}, {"kafka.brokers"}, {})
    \cup Leaves("search", {"backend", "embedding.endpoint", "embedding.model", "embedding.dimensions",
                           "embedding.instruction_enabled"}, {"addresses"}, {"embedding.api_key"})
\* An API key that is kept when it is sent back as it was shown.
Torznab == Leaves("torznab", {"enabled", "path", "max_results", "trust_proxy_headers"}, {"categories"}, {})
           \cup [of : {"torznab"}, name : {"api_key"}, kind : {"kept"}]
\* Each header counts as a leaf, but they are sent together.
Webhooks == Leaves("webhooks", {"enabled", "timeout", "max_retries", "base_url", "queue_size"},
                   {"urls", "events", "categories", "title_patterns", "filename_patterns"}, {})
            \cup [of : {"webhooks"}, name : {"Authorization", "X-Token"}, kind : {"header"}]

AllLeaves == Dht \cup Requester \cup Server \cup Classifier \cup Storage \cup Torznab \cup Webhooks
Edited == AllLeaves \cap Options
Headers == {l \in AllLeaves : l.kind = "header"}
StorageSections == {"postgres", "queue", "search"}

Null == "null"
Absent == "absent"
Bad == "wrong type"
Out == "out of range"
Default(l) ==
    CASE l.kind = "header" -> Absent
      [] l.kind \in {"secret", "kept", "prompt"} -> ""
      [] OTHER -> "default"
Secret == {"a", "b", "local", "env"}
Mask(v) ==
    CASE v = "a" -> "****a"
      [] v = "b" -> "****b"
      [] v = "local" -> "****local"
      [] v = "env" -> "****env"
      [] OTHER -> v
Masks == {Mask(v) : v \in Secret}

----------------------------------------------------------------------------
(* What a start resolves *)

Has(layer, l) == l \in DOMAIN layer /\ layer[l] # Null

\* As Resolved, in the order that docs/configuration.md:66-73 gives.
ResolvedAsDocumented(l, base) ==
    IF l \in outside.env THEN "env"
    ELSE IF l \in outside.local THEN "local"
    ELSE IF Has(base, l) THEN base[l] ELSE Default(l)

\* The lowest priority number is asked first, and the first answer counts.
Resolved(l, base) ==
    IF Has(base, l) THEN base[l]
    ELSE IF l \in outside.local THEN "local"
    ELSE IF l \in outside.env THEN "env"
    ELSE Default(l)

\* Whose range a start checks.
CheckedAtStart ==
    {l \in AllLeaves :
       \/ l.of = "dht" /\ l.name \notin {"responder.enabled", "bootstrap_nodes"}
       \/ l.of = "server" /\ l.name \notin {"ip", "embed_trackers"}
       \/ l.of = "classifier" /\ l.name \in {"concurrency", "torrent_filter.mode", "tmdb.rate_limit"}
       \/ l.of = "postgres" /\ l.name \in {"host", "username", "database", "ssl_mode", "max_connections"}
       \/ l.of = "queue" /\ l.name = "kafka.brokers"
       \/ l.of = "search" /\ l.name \in {"backend", "addresses", "embedding.endpoint", "embedding.model",
                                         "embedding.dimensions"}}

Startable(base) ==
    /\ \A l \in AllLeaves : Resolved(l, base) # Bad
    /\ \A l \in CheckedAtStart : Resolved(l, base) # Out

DefaultFile == [l \in AllLeaves \ Headers |-> Default(l)]

Init ==
    /\ outside \in Layers
    /\ exists \in BOOLEAN /\ file = <<>>
    /\ running = FALSE /\ live = [l \in AllLeaves |-> Default(l)]
    /\ stale = {} /\ byHand = {} /\ changes = 0

Start ==
    /\ ~running
    /\ LET base == IF exists THEN file ELSE DefaultFile IN
         /\ Startable(base)
         /\ file' = base
         /\ live' = [l \in AllLeaves |-> Resolved(l, base)]
    /\ exists' = TRUE /\ running' = TRUE /\ stale' = {}
    /\ UNCHANGED <<outside, byHand, changes>>

Stop ==
    /\ running
    /\ running' = FALSE /\ stale' = {}
    /\ live' = [l \in AllLeaves |-> Default(l)]
    /\ UNCHANGED <<exists, file, outside, byHand, changes>>

----------------------------------------------------------------------------
(***************************************************************************)
(* updateConfig.  An input gives values to some leaves, and the headers    *)
(* all or none.                                                            *)
(***************************************************************************)
Shown(l) == IF l.kind \in {"secret", "kept", "header"} THEN Mask(live[l])
            ELSE IF l.kind = "prompt" /\ live[l] = "" THEN "built-in"
            ELSE live[l]

One(l, v) == [set |-> [m \in {l} |-> v], headers |-> l.kind = "header"]

\* The section as it is shown, with one change.
Echo(l, v) ==
    LET shown == {m \in AllLeaves : m.of = l.of /\ (Shown(m) # Absent \/ m = l)} IN
      [set |-> [m \in shown |-> IF m = l THEN v ELSE Shown(m)], headers |-> l.of = "webhooks"]

\* Null is for lists to take; a header has no such value, as it may be left out.
Values(l) == {"a", "b"} \cup (IF l.kind \in {"scalar", "list"} THEN {Null, Out} ELSE {})
Inputs == {[full |-> e, leaf |-> l, value |-> v] : e \in BOOLEAN, l \in Edited, v \in {"a", "b", Null, Out}}

Sent(i) == IF i.full THEN Echo(i.leaf, i.value) ELSE One(i.leaf, i.value)

\* What is sent back as it was shown is not taken.
StoredOf(l) == IF l \in DOMAIN file THEN file[l] ELSE ""
NothingEchoed(l, v) == FALSE
Echoed(l, v) ==
    \/ l.kind = "kept" /\ v = Mask(StoredOf(l))
    \/ l.kind = "header" /\ l \in DOMAIN file /\ v = Mask(file[l])

Merged(sent) ==
    LET dropped == IF sent.headers THEN Headers \ DOMAIN sent.set ELSE {}
        taken == {l \in DOMAIN sent.set :
                    (sent.set[l] # Null \/ l.kind = "list") /\ ~Echoed(l, sent.set[l])}
    IN [l \in (DOMAIN file \ dropped) \cup taken |-> IF l \in taken THEN sent.set[l] ELSE file[l]]

\* Whose range is checked when it is sent: not what only a start checks.
CheckedWhenSent ==
    {l \in AllLeaves :
       \/ l.of \in {"dht", "server"} /\ l.name = "port"
       \/ l.of = "server" /\ l.name \in {"log.console_level", "log.file_output_level", "log.file_rotator.format",
                                         "log.file_rotator.path", "torrent_file_path"}
       \/ l.of = "classifier" /\ l.name \in {"concurrency", "torrent_filter.mode", "llm.reasoning_effort", "llm.prompt"}
       \/ l.of = "postgres" /\ l.name \in {"ssl_mode", "max_connections"}
       \/ l.of \in {"queue", "search"} /\ l.name = "backend"
       \/ l.of = "torznab" /\ l.name \in {"path", "max_results", "categories"}}

\* The sections but dht are decoded from what was merged, and of webhooks and of the path of
\* torznab the values are checked there.  A probe may fail besides.
Accepted(sent, data) ==
    LET of == {l.of : l \in DOMAIN sent.set}
        merged == {l \in DOMAIN data : l.of \in of} IN
      /\ \A l \in DOMAIN sent.set \cap CheckedWhenSent : sent.set[l] # Out
      /\ \A l \in merged :
           /\ l.of # "dht" => data[l] # Bad
           /\ l.of = "webhooks" \/ (l.of = "torznab" /\ l.name = "path") => data[l] # Out

\* The storage sections are reloaded together.
ReloadedBy(sent) ==
    LET of == {l.of : l \in DOMAIN sent.set} IN
      {l \in AllLeaves : l.of \in of \/ (l.of \in StorageSections /\ of \cap StorageSections # {})}

StartsFrom(l) == live[l]  \* entries that were removed stay
ReloadsOnto(l) == IF l.of \in {"torznab", "webhooks"} THEN Default(l) ELSE live[l]

Update(i) ==
    /\ running /\ changes < MaxChanges
    /\ i.value \in Values(i.leaf)
    /\ LET sent == Sent(i)
           data == Merged(sent)
           reloaded == ReloadedBy(sent)
           reloads(l) == Has(data, l) /\ data[l] # Bad IN
         /\ Accepted(sent, data)
         /\ file' = data
         /\ live' = [l \in AllLeaves |->
              IF l \notin reloaded THEN live[l]
              ELSE IF reloads(l) THEN data[l] ELSE ReloadsOnto(l)]
         /\ stale' = {l \in stale : l \notin reloaded \/ (l \in DOMAIN data /\ data[l] = Bad)}
    /\ changes' = changes + 1
    /\ UNCHANGED <<exists, outside, running, byHand>>

\* The file is truncated before it is written.
UpdateTorn ==
    /\ running /\ changes < MaxChanges
    /\ file' = <<>> /\ running' = FALSE /\ stale' = {}
    /\ live' = [l \in AllLeaves |-> Default(l)]
    /\ changes' = changes + 1
    /\ UNCHANGED <<exists, outside, byHand>>

\* The operator sets an option in the file, or removes it.
EditFile(l) ==
    /\ exists /\ changes < MaxChanges
    /\ \/ \E v \in Values(l) \cup {Bad} : file' = [m \in DOMAIN file \cup {l} |-> IF m = l THEN v ELSE file[m]]
       \/ l \in DOMAIN file /\ file' = [m \in DOMAIN file \ {l} |-> file[m]]
    /\ stale' = IF running THEN stale \cup {l} ELSE {}
    /\ byHand' = byHand \cup {l}
    /\ changes' = changes + 1
    /\ UNCHANGED <<exists, outside, running, live>>

Next ==
    \/ Start \/ Stop \/ UpdateTorn
    \/ \E i \in Inputs : Update(i)
    \/ \E l \in Edited : EditFile(l)

Spec == Init /\ [][Next]_vars

----------------------------------------------------------------------------
\* The variables keep to their types.
TypeOK ==
    /\ DOMAIN file \subseteq AllLeaves /\ DOMAIN live = AllLeaves
    /\ stale \subseteq byHand /\ byHand \subseteq Edited
    /\ changes \in 0 .. MaxChanges

\* docs/configuration.md:313-315: what is saved is in force, and what is edited in the file is
\* after a restart: an option of the file that was not edited since runs as a restart would
\* resolve it, and so does every header, removed ones too (config.resolvers.go:73-142).
InForce ==
    running => \A l \in AllLeaves \ stale :
      Has(file, l) \/ l.kind = "header" => live[l] = Resolved(l, file)

\* What updates have written can be started from, unless an option is out of a range that only
\* the start checks (config_validate.go:46-74; config.go:154-158).
StartsAgain ==
    byHand = {} => Startable(file) \/ \E l \in CheckedAtStart \ CheckedWhenSent : Has(file, l) /\ file[l] = Out

\* config_helpers.go:689 and 761-762: "Masked values echoed back by the UI keep the stored
\* value", of the API key of torznab and of the headers, as long as what is shown came from
\* the file.
MaskNotKept ==
    \A l \in DOMAIN file \ byHand :
      l.kind \in {"kept", "header"} /\ file[l] \in Masks => l \in outside.local \cup outside.env

ConfigFileContract == TypeOK /\ InForce /\ StartsAgain /\ MaskNotKept
=============================================================================
