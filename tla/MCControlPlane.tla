---------------------------- MODULE MCControlPlane ----------------------------
(***************************************************************************)
(* Instances of the parts by which the program is started, configured and  *)
(* watched: the configuration manager (EXTENDS), the worker registry, the  *)
(* health checker, the webhook publisher and the pools.  They meet through *)
(* calls that each of them allows at any moment, so a behaviour picks one  *)
(* of them at the start and the states add up.  The pools of connections   *)
(* are a part of their own: what a change of their settings does is one    *)
(* subscriber of the manager.                                              *)
(***************************************************************************)
EXTENDS ConfigManager, TLC

CONSTANTS u1, u2, u3, a1,                              \* ConfigManager
          Workers, MaxCalls,                           \* WorkerRegistry
          Checks, MaxFails, Delayed, MaxRestarts, MaxChanges, \* HealthChecker
          Events, Sizes, NumUrls, Retries, MaxResizes, MaxStarts, \* WebhookPublisher
          Databases, Home, Reconnects, Users, MaxPools \* DatabasePool

ASSUME WorkersAssumption == IsFiniteSet(Workers) /\ MaxCalls \in Nat

\* Publish ignores an event when there is no URL to send it to, and a negative number of retries
\* is refused.
ASSUME WebhookAssumption ==
    /\ "none" \notin Events /\ Sizes \subseteq Nat
    /\ NumUrls \in Nat \ {0} /\ Retries \in Nat /\ MaxResizes \in Nat /\ MaxStarts \in Nat

\* The failures that a check may have in a row, and the bounds.
ASSUME HealthAssumption ==
    MaxFails \in [Checks -> Nat] /\ MaxRestarts \in Nat /\ MaxChanges \in Nat

ASSUME PoolAssumption == Home \in Databases

VARIABLES part,  \* the component that this behaviour is about
          flagEnabled, flagStarted, active, call, toVisit, began, refused, result, calls,
          health, overall, isRunning, cancelled, stopping, at, copy, healthy, inUse, streak,
          observed, checkerStarts, changes,
          enabled, wanted, updating, queue, capacity, current, locked, sender, wakeToken,
          running, alive, starts, loop, draining, source, inHand, url, tries, fate,
          settings, pools, ref, shared, reconnect, closing, closed, using, overlapped, unserved

\* Three updates; two set sections of their own, and the third sets one of them back.
MCUpdates == {u1, u2, u3}
MCInput == u1 :> [section |-> "queue", value |-> 1]
           @@ u2 :> [section |-> "postgres", value |-> 1]
           @@ u3 :> [section |-> "queue", value |-> 0]
\* And the first two at the same time.
MCPair == {u1, u2}
MCPairInput == [u \in MCPair |-> MCInput[u]]
MCSettings == {0, 1}
MCAsyncSubs == {a1}

\* The NATS check has an initial delay; a check of Elasticsearch may fail twice.
MCChecks == {"nats", "elasticsearch"}
MCMaxFails == [c \in MCChecks |-> IF c = "elasticsearch" THEN 2 ELSE 0]
MCDelayed == {"nats"}

R == INSTANCE WorkerRegistry WITH todo <- toVisit
H == INSTANCE HealthChecker WITH starts <- checkerStarts
W == INSTANCE WebhookPublisher WITH channel <- queue

D == INSTANCE DatabasePool WITH Calls <- Reconnects, cfg <- settings, call <- reconnect,
                                failed <- unserved

registryVars == <<flagEnabled, flagStarted, active, call, toVisit, began, refused, result, calls>>
healthVars == <<health, overall, isRunning, cancelled, stopping, at, copy, healthy, inUse,
                streak, observed, checkerStarts, changes>>
webhookVars == <<enabled, wanted, updating, queue, capacity, current, locked, sender, wakeToken,
                 running, alive, starts, loop, draining, source, inHand, url, tries, fate>>
poolVars == <<settings, pools, ref, shared, reconnect, closing, closed, using, overlapped, unserved>>

\* What another component starts with is of no interest: one initial state each.
MCInit ==
    /\ part \in {"config", "registry", "health", "webhook", "pool"}
    /\ Init /\ R!Init /\ H!Init /\ W!Init /\ D!Init
    /\ part # "health" => healthy = {} /\ inUse = {}
    /\ part # "webhook" => wanted = 1

Only(p) == part = p /\ UNCHANGED part

MCNext ==
    \/ Only("config") /\ Next /\ UNCHANGED <<registryVars, healthVars, webhookVars, poolVars>>
    \/ Only("registry") /\ R!Next /\ UNCHANGED <<vars, healthVars, webhookVars, poolVars>>
    \/ Only("health") /\ H!Next /\ UNCHANGED <<vars, registryVars, webhookVars, poolVars>>
    \/ Only("webhook") /\ W!Next /\ UNCHANGED <<vars, registryVars, healthVars, poolVars>>
    \/ Only("pool") /\ D!Next /\ UNCHANGED <<vars, registryVars, healthVars, webhookVars>>

\* In its initial state none of the components has a step that fairness is about.
MCSpec ==
    /\ MCInit /\ [][MCNext]_<<part, vars, registryVars, healthVars, webhookVars, poolVars>>
    /\ Fairness /\ H!Fairness /\ W!Fairness /\ D!Fairness

\* No result of a health check is lost or invented across unlocked executions and restarts.
\* A change of the database leaves those that follow it on one open pool.
OperationsContract ==
    /\ [](H!TypeOK /\ H!CountsContiguous /\ H!DownIsDeserved /\ H!ReadyMeansChecked)
    /\ [](D!TypeOK /\ D!ForceStaysOpen /\ D!SharedFollows)
    /\ D!RefusedKeepsAll

\* No start hook runs twice without a stop between, and Stop finds all that run, whichever hooks
\* have failed.  No accepted event vanishes or is duplicated, however the queue of the publisher
\* is replaced.
ServicesContract ==
    /\ [](R!TypeOK /\ R!ActiveIsFlagged /\ R!StopReachesAll)
    /\ R!NoDoubleStart
    /\ [](W!TypeOK /\ W!RetiredChannelsEmpty /\ W!NoneVanishes /\ W!WakeWhenStale)
    /\ W!GrowingKeepsAll

\* Everybody comes to run on the current configuration; a status comes to what lasts; an accepted
\* event does not wait for ever while the publisher runs, and its Stop ends; and what a change of
\* the database replaced is closed.
ControlPlaneProgress ==
    EventuallyCurrent /\ H!StatusSettles /\ W!AcceptedIsHandled /\ W!StopEnds /\ D!ReplacedCloses
=============================================================================
