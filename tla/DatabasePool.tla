----------------------------- MODULE DatabasePool -----------------------------
(***************************************************************************)
(* The connections to PostgreSQL when its settings change: the reference   *)
(* that the runtime replaces, the queries that all components share, and   *)
(* the closing of the pool before (src/internal/database/postgres,         *)
(* src/internal/database/db, and the subscriber in src/internal/gql/gqlfx).*)
(* The memory queue, the blocked hashes, the statistics of the crawler and *)
(* the health check keep the pool that they were given first.              *)
(***************************************************************************)
EXTENDS Naturals, Sequences, FiniteSets

CONSTANTS Databases, Home,  \* what may be configured, and what is at the start
          Calls,            \* of Apply, which nothing serializes
          Users,            \* goroutines that use the database
          MaxPools          \* bound

VARIABLES cfg,      \* the settings that the runtime believes in
          pools,    \* every pool that was made, by its database
          ref,      \* the pool of PoolRef
          shared,   \* the pool of the shared Queries
          call,     \* Apply at the subscriber: stage, settings, pools
          closing,  \* pools that close when their 30 seconds are over
          closed,
          using,    \* what a user has in hand: a pool, whether it keeps it, and its state then
          overlapped, failed  \* history: two changes at once; why a use failed

vars == <<cfg, pools, ref, shared, call, closing, closed, using, overlapped, failed>>

NoCall == [stage |-> "idle", db |-> Home, new |-> 0, old |-> 0]
NoUse == [pool |-> 0, kept |-> FALSE, stale |-> FALSE]

\* The first pool is made, the schema brought up to date and the queries built by whatever asks
\* for them first, before anything is configured.
Init ==
    /\ cfg = Home /\ pools = <<Home>> /\ ref = 1 /\ shared = 1
    /\ call = [c \in Calls |-> NoCall]
    /\ closing = {} /\ closed = {}
    /\ using = [u \in Users |-> NoUse]
    /\ overlapped = FALSE /\ failed = {}

----------------------------------------------------------------------------
(***************************************************************************)
(* Reconnect, called by the subscriber.                                    *)
(***************************************************************************)
At(c, stage) == call[c].stage = stage
Changing(c) == call[c].stage \in {"replace", "read", "hand", "retire"}
poolVars == <<closing, closed, using, failed>>

\* GetConfig: what has not changed needs no new pool.
Changes(c, db) ==
    /\ At(c, "idle") /\ db # cfg
    /\ call' = [call EXCEPT ![c] = [NoCall EXCEPT !.stage = "connect", !.db = db]]
    /\ UNCHANGED <<cfg, pools, ref, shared, poolVars, overlapped>>

Connects(c) ==
    /\ At(c, "connect") /\ Len(pools) < MaxPools
    /\ pools' = Append(pools, call[c].db)
    /\ cfg' = call[c].db
    /\ call' = [call EXCEPT ![c].stage = "replace", ![c].new = Len(pools')]
    /\ overlapped' = (overlapped \/ \E d \in Calls : Changing(d))
    /\ UNCHANGED <<ref, shared, poolVars>>

ConnectFails(c) ==
    /\ At(c, "connect")
    /\ call' = [call EXCEPT ![c] = NoCall]
    /\ UNCHANGED <<cfg, pools, ref, shared, poolVars, overlapped>>

Replaces(c) ==
    /\ At(c, "replace")
    /\ ref' = call[c].new
    /\ call' = [call EXCEPT ![c].stage = "read", ![c].old = ref]
    /\ UNCHANGED <<cfg, pools, shared, poolVars, overlapped>>

\* The pool that is handed on is read first, and stored under the lock of the queries.
ReadsRef(c) ==
    /\ At(c, "read")
    /\ call' = [call EXCEPT ![c].stage = "hand", ![c].new = ref]
    /\ UNCHANGED <<cfg, pools, ref, shared, poolVars, overlapped>>

HandsOn(c) ==
    /\ At(c, "hand")
    /\ shared' = call[c].new
    /\ call' = [call EXCEPT ![c].stage = "retire"]
    /\ UNCHANGED <<cfg, pools, ref, poolVars, overlapped>>

\* As Retired, for a caller that closes what the reference has by now.
RetiredNow(c) == ref

\* The pool that the call replaced.  Two goroutines close it, of which the second has no effect.
Retired(c) == call[c].old

Retires(c) ==
    /\ At(c, "retire")
    /\ closing' = closing \cup {Retired(c)}
    /\ call' = [call EXCEPT ![c] = NoCall]
    /\ UNCHANGED <<cfg, pools, ref, shared, closed, using, failed, overlapped>>

Closes(p) ==
    /\ p \in closing
    /\ closing' = closing \ {p} /\ closed' = closed \cup {p}
    /\ UNCHANGED <<cfg, pools, ref, shared, call, using, overlapped, failed>>

----------------------------------------------------------------------------
(***************************************************************************)
(* Who uses the database has a pool before it has a connection: a pool     *)
(* that is closed waits for the connections that are out, and gives no     *)
(* more of them.                                                           *)
(***************************************************************************)
Takes(u, pool, kept) ==
    /\ using[u] = NoUse
    /\ using' = [using EXCEPT ![u] = [pool |-> pool, kept |-> kept, stale |-> pool \in closing \cup closed]]
    /\ UNCHANGED <<cfg, pools, ref, shared, call, closing, closed, overlapped, failed>>

TakesShared(u) == Takes(u, shared, FALSE)
TakesKept(u) == Takes(u, 1, TRUE)

Reason(use) == IF use.kept THEN "kept" ELSE IF use.stale THEN "stranded" ELSE "slow"

Acquires(u) ==
    /\ using[u] # NoUse
    /\ failed' = IF using[u].pool \in closed THEN failed \cup {Reason(using[u])} ELSE failed
    /\ using' = [using EXCEPT ![u] = NoUse]
    /\ UNCHANGED <<cfg, pools, ref, shared, call, closing, closed, overlapped>>

Step(c) == Connects(c) \/ ConnectFails(c) \/ Replaces(c) \/ ReadsRef(c) \/ HandsOn(c) \/ Retires(c)

Next ==
    \/ \E c \in Calls : Step(c) \/ \E db \in Databases : Changes(c, db)
    \/ \E p \in DOMAIN pools : Closes(p)
    \/ \E u \in Users : TakesShared(u) \/ TakesKept(u) \/ Acquires(u)

Spec == Init /\ [][Next]_vars

\* Calls go on, and timers fire.
Fairness ==
    /\ \A c \in Calls : WF_vars(Step(c))
    /\ \A p \in 1..MaxPools : WF_vars(Closes(p))

FairSpec == Spec /\ Fairness

----------------------------------------------------------------------------
TypeOK ==
    /\ cfg \in Databases /\ pools \in Seq(Databases)
    /\ {ref, shared} \cup closing \cup closed \subseteq DOMAIN pools
    /\ \A u \in Users : using[u].pool \in 0..Len(pools)
    /\ failed \subseteq {"kept", "stranded", "slow"}

\* However many changes overlap, the pool that new queries are built on is never retired: only
\* what the swap returned is (src/internal/database/postgres/poolref.go:24).
ForceStaysOpen == ref \notin closing \cup closed

\* Changes one after the other leave the settings, the reference and the queries in step, and
\* nobody is given a pool that is about to close, but for those who keep the first one.
SharedFollows ==
    ~overlapped =>
      /\ shared \notin closing \cup closed /\ "stranded" \notin failed
      /\ (\A c \in Calls : ~Changing(c)) => shared = ref /\ pools[ref] = cfg

\* A database that cannot be reached changes nothing: what runs goes on with what it has.
RefusedKeepsAll ==
    [][\A c \in Calls : At(c, "connect") /\ call'[c] = NoCall => UNCHANGED <<cfg, pools, ref, shared, closing>>]_vars

\* Connections to a database that is no longer configured do not stay: what was replaced closes.
ReplacedCloses == \A p \in 1..MaxPools : (p \in DOMAIN pools /\ p < ref) ~> (p \in closed \/ p = ref)
=============================================================================
