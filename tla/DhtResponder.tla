---------------------------- MODULE DhtResponder ----------------------------
(***************************************************************************)
(* The answering side of the DHT server: handleQuery                       *)
(* (src/internal/protocol/dht/server/server.go) runs each query in a       *)
(* goroutine of its own through the rate limits                            *)
(* (src/internal/protocol/dht/responder/limiter.go,                        *)
(* src/internal/concurrency/keyed_limiter.go) and the responder            *)
(* (src/internal/protocol/dht/responder/responder.go); senders whose query *)
(* was answered are offered to the crawler (node_discovery.go).            *)
(***************************************************************************)
EXTENDS FiniteSets, Integers

CONSTANTS Ips, Hashes,
          Slots,       \* goroutines of handleQuery
          PerIpBurst, GlobalBurst,
          Size,        \* entries that a keyed limiter has room for: 1000
          MaxChanges   \* bound: tokens gained, limiters forgotten, and changes of the limits

VARIABLES enabled,  \* responderEnabled
          query,    \* slot -> the query it handles and how far it is
          keyed,    \* generation of the keyed limiter
          known,    \* generation -> addresses whose limiter is in its cache
          made,     \* generation -> address -> limiters made for it so far
          buckets,  \* limiter -> tokens left
          global,   \* tokens of the global limiter
          tokens,   \* announce tokens sent
          asked,    \* <<hash, address>> of the get_peers queries answered
          peers,    \* hash -> addresses stored under it
          forgotten,  \* history: generation -> address -> limiters of it that left the cache
          passed,   \* history: limiter -> queries that passed it and the global one
          drawn,    \* history: ... and the tokens that they drew from the global limiter
          gained,   \* history: ... and the tokens that its bucket gained
          changes

cacheVars == <<keyed, known, made, forgotten>>
answerVars == <<tokens, asked, peers>>
vars == <<enabled, query, cacheVars, buckets, global, answerVars, passed, drawn, gained, changes>>

Methods == {"get_peers", "announce_peer", "other"}
AnyHash == CHOOSE h \in Hashes : TRUE
Generations == 0 .. MaxChanges
Free == [step |-> "free"]

\* A limiter is known by its generation, its address, and its number among those that this
\* generation made for the address.
Limiters == Generations \X Ips \X (1 .. MaxChanges + 1)

Init ==
    /\ enabled = TRUE
    /\ query = [s \in Slots |-> Free]
    /\ keyed = 0
    /\ known = [g \in Generations |-> {}]
    /\ made = [g \in Generations |-> [i \in Ips |-> 0]]
    /\ buckets = [l \in Limiters |-> PerIpBurst]
    /\ global = GlobalBurst
    /\ tokens = {} /\ asked = {}
    /\ peers = [h \in Hashes |-> {}]
    /\ forgotten = made
    /\ passed = [l \in Limiters |-> 0]
    /\ drawn = passed /\ gained = passed
    /\ changes = 0

----------------------------------------------------------------------------
\* What announceToken puts into a token: the hash and the address (the node's identity goes
\* with the address here).
NoAddress(h, ip) == [hash |-> h]
NoHash(h, ip) == [ip |-> ip]
Token(h, ip) == [hash |-> h, ip |-> ip]

\* A query arrives and reads which keyed limiter is in use; who announces shows a token that
\* somebody got, or none.
Receive(s, ip, m, h, shown) ==
    /\ query[s] = Free /\ enabled
    /\ shown \in SUBSET tokens /\ Cardinality(shown) <= 1
    /\ m # "announce_peer" => shown = {}
    /\ m = "other" => h = AnyHash
    /\ query' = [query EXCEPT ![s] = [step |-> "limit", ip |-> ip, method |-> m, hash |-> h,
                                      shown |-> shown, generation |-> keyed, number |-> 0]]
    /\ UNCHANGED <<enabled, cacheVars, buckets, global, answerVars, passed, drawn, gained, changes>>

At(s, step) == query[s].step = step
Ends(s) == query' = [query EXCEPT ![s] = Free]  \* the answer or the error is sent
GoesTo(s, step) == query' = [query EXCEPT ![s].step = step]

\* getLimiter, under the mutex of the keyed limiter: the limiter of the address in the cache, or
\* a new one with a full bucket, for which a full cache forgets another address (the one not used
\* for longest; which one that is does not matter here, and any may be).
AlwaysMissed(s) == TRUE  \* what is in the cache is not looked up
Missed(s) == query[s].ip \notin known[query[s].generation]

Holds(s, n) == query' = [query EXCEPT ![s].step = "draw", ![s].number = n]

FindLimiter(s) ==
    /\ At(s, "limit") /\ ~Missed(s)
    /\ Holds(s, made[query[s].generation][query[s].ip])
    /\ UNCHANGED <<enabled, cacheVars, buckets, global, answerVars, passed, drawn, gained, changes>>

Forget(g, i) ==
    /\ changes < MaxChanges /\ changes' = changes + 1
    /\ forgotten' = [forgotten EXCEPT ![g][i] = @ + 1]

MakeLimiter(s) ==
    LET g == query[s].generation
        i == query[s].ip
    IN  /\ At(s, "limit") /\ Missed(s)
        /\ made' = [made EXCEPT ![g][i] = @ + 1]
        /\ Holds(s, made[g][i] + 1)
        /\ \/ /\ Cardinality(known[g] \cup {i}) <= Size
              /\ known' = [known EXCEPT ![g] = @ \cup {i}]
              /\ UNCHANGED <<forgotten, changes>>
           \/ /\ Cardinality(known[g] \cup {i}) > Size
              /\ \E old \in known[g] : /\ Forget(g, old)
                                       /\ known' = [known EXCEPT ![g] = (@ \ {old}) \cup {i}]
        /\ UNCHANGED <<enabled, keyed, buckets, global, answerVars, passed, drawn, gained>>

\* The time of an entry is up: 20 seconds after it was made, however often it was used since.
\* Who holds the limiter goes on with it.
Expire ==
    /\ \E g \in Generations : \E i \in known[g] :
          /\ Forget(g, i)
          /\ known' = [known EXCEPT ![g] = @ \ {i}]
    /\ UNCHANGED <<enabled, query, keyed, made, buckets, global, answerVars, passed, drawn, gained>>

\* Allow: the limiter of the address first, and only if it has a token the global one.
LimiterOf(s) == <<query[s].generation, query[s].ip, query[s].number>>
Drawn(s) == [buckets EXCEPT ![LimiterOf(s)] = @ - 1]

PerIpAllows(s) ==
    /\ At(s, "draw")
    /\ buckets[LimiterOf(s)] > 0
    /\ buckets' = Drawn(s)
    /\ GoesTo(s, "global")
    /\ UNCHANGED <<enabled, cacheVars, global, answerVars, passed, drawn, gained, changes>>

\* One more for the limiter that a slot holds.
Counted(s, counts) == [counts EXCEPT ![LimiterOf(s)] = @ + 1]

GlobalFirst(s) == drawn' = Counted(s, drawn) /\ global' = IF global > 0 THEN global - 1 ELSE 0
GlobalSpared(s) == UNCHANGED <<drawn, global>>

PerIpRefuses(s) ==
    /\ At(s, "draw")
    /\ buckets[LimiterOf(s)] = 0
    /\ GlobalSpared(s)
    /\ Ends(s)
    /\ UNCHANGED <<enabled, cacheVars, buckets, answerVars, passed, gained, changes>>

HasGlobal == global > 0

GlobalAnswers(s) ==
    /\ At(s, "global")
    /\ IF HasGlobal
       THEN /\ global' = global - 1
            /\ drawn' = Counted(s, drawn) /\ passed' = Counted(s, passed)
            /\ GoesTo(s, "respond")
       ELSE Ends(s) /\ UNCHANGED <<global, drawn, passed>>
    /\ UNCHANGED <<enabled, cacheVars, buckets, answerVars, gained, changes>>

\* Respond.  Who was answered is offered to the crawler: CrawlerFlow!Respond.
Responds(s) ==
    LET q == query[s] IN
    /\ At(s, "respond")
    /\ q.method = "announce_peer" => Token(q.hash, q.ip) \in q.shown
    /\ tokens' = IF q.method = "get_peers" THEN tokens \cup {Token(q.hash, q.ip)} ELSE tokens
    /\ asked' = IF q.method = "get_peers" THEN asked \cup {<<q.hash, q.ip>>} ELSE asked
    /\ peers' = IF q.method = "announce_peer" THEN [peers EXCEPT ![q.hash] = @ \cup {q.ip}] ELSE peers
    /\ Ends(s)
    /\ UNCHANGED <<enabled, cacheVars, buckets, global, passed, drawn, gained, changes>>

InvalidToken(s) ==
    /\ At(s, "respond")
    /\ query[s].method = "announce_peer" /\ Token(query[s].hash, query[s].ip) \notin query[s].shown
    /\ Ends(s)
    /\ UNCHANGED <<enabled, cacheVars, buckets, global, answerVars, passed, drawn, gained, changes>>

\* Time gives a token to the global bucket, or to that of a limiter, in the cache or not.
Refill ==
    /\ changes < MaxChanges /\ changes' = changes + 1
    /\ \/ global < GlobalBurst /\ global' = global + 1 /\ UNCHANGED <<buckets, gained>>
       \/ \E l \in Limiters : /\ l[3] <= made[l[1]][l[2]]
                              /\ buckets[l] < PerIpBurst
                              /\ buckets' = [buckets EXCEPT ![l] = @ + 1]
                              /\ gained' = [gained EXCEPT ![l] = @ + 1]
                              /\ UNCHANGED global
    /\ UNCHANGED <<enabled, query, cacheVars, answerVars, passed, drawn>>

\* SetPerIPRateLimit: a new keyed limiter with an empty cache; who has read the old one goes on
\* with that.
SetPerIp ==
    /\ changes < MaxChanges /\ changes' = changes + 1
    /\ keyed' = keyed + 1
    /\ UNCHANGED <<enabled, query, known, made, forgotten, buckets, global, answerVars, passed, drawn, gained>>

SetEnabled ==
    /\ changes < MaxChanges /\ changes' = changes + 1
    /\ enabled' = ~enabled
    /\ UNCHANGED <<query, cacheVars, buckets, global, answerVars, passed, drawn, gained>>

Handle(s) ==
    \/ FindLimiter(s) \/ MakeLimiter(s)
    \/ PerIpAllows(s) \/ PerIpRefuses(s) \/ GlobalAnswers(s)
    \/ Responds(s) \/ InvalidToken(s)

Next ==
    \/ \E s \in Slots : Handle(s)
    \/ \E s \in Slots, ip \in Ips, m \in Methods, h \in Hashes, shown \in SUBSET tokens : Receive(s, ip, m, h, shown)
    \/ Expire \/ Refill \/ SetPerIp \/ SetEnabled

Spec == Init /\ [][Next]_vars

----------------------------------------------------------------------------
\* Type invariant.
TypeOK ==
    /\ enabled \in BOOLEAN
    /\ \A s \in Slots : query[s] = Free \/ query[s].step \in {"limit", "draw", "global", "respond"}
    /\ keyed \in Generations
    /\ \A g \in Generations : known[g] \subseteq Ips
    /\ \A l \in Limiters : buckets[l] \in 0 .. PerIpBurst
    /\ global \in 0 .. GlobalBurst
    /\ \A h \in Hashes : peers[h] \subseteq Ips

\* A peer stored under a hash asked for that hash's peers before, from the same address:
\* nobody announces for others, or with a token that was sent to another or for another hash.
AnnouncedAskedBefore == \A h \in Hashes : \A i \in peers[h] : <<h, i>> \in asked

\* A limiter passes no more queries than its bucket held and gained, however many goroutines
\* hold it, in the cache or not.  An address gets a new limiter, with a full bucket, only for one
\* that expired or had to make room: in a generation it has had one more than were forgotten, so
\* that goroutines that ask at once do not each get one; and it has none in a generation to come,
\* so that a change of the limit costs one bucket more (keyed_limiter.go:42-50, limiter.go:82-95).
AddressBudget ==
    /\ \A l \in Limiters :
          /\ passed[l] <= PerIpBurst + gained[l]
          /\ l[3] > made[l[1]][l[2]] => passed[l] = 0
    /\ \A g \in Generations, i \in Ips :
          /\ made[g][i] <= 1 + forgotten[g][i]
          /\ g > keyed => made[g][i] = 0

\* Queries that an address sends beyond its own limit take nothing from what is left for
\* the others: the global limiter is drawn on once for each query that passes.
FloodSparesOthers == drawn = passed
=============================================================================
