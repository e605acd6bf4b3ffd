------------------------------ MODULE MCCrawler ------------------------------
(***************************************************************************)
(* Instances of what passes through bounded buffers: the ring of the       *)
(* memory queue (EXTENDS), the nodes that circulate in the crawler and     *)
(* what it counts of them, and what is logged into files.                  *)
(* They share nothing, so a behaviour picks one of them at the start and   *)
(* the states add up.                                                      *)
(***************************************************************************)
EXTENDS TopicRing, Sequences

CONSTANTS InCap, MaxBatch, WorkCap, MaxFound, MaxSenders, \* CrawlerFlow
          Loggers, EntrySize, Caps, MaxBackups, MaxDays, MaxRotators, MaxFailures, \* LogFiles
          Addresses, Walkers, MaxRuns, MaxTroubles  \* CrawlerStats

ASSUME FlowAssumption ==
    /\ InCap \in Nat /\ MaxBatch \in Nat \ {0} /\ WorkCap \in Nat
    /\ MaxFound \in Nat /\ MaxSenders \in Nat
ASSUME LogAssumption == EntrySize \in Seq(Nat) /\ Caps \subseteq Nat /\ MaxBackups \in Nat

VARIABLES part,  \* the component that this behaviour is about
          cancelled, input, buffer, flushed, output, forward, router, waiting, busy, handOver, senders,
          day, disk, rotators, replaced, loaded, written, late, unlinked, unsaved, pruned, owner, failures,
          phase, seen, count, news, stats, filter, numbers, savedSeen, runs, troubles, fresh, behind, cut

\* A ping takes nodes out of the circle as the failing queries of the others do.
MCWorkers == {"find", "sample"}

\* The third entry is larger than the cap.
MCEntrySize == <<1, 2, 3, 1>>

F == INSTANCE CrawlerFlow WITH Workers <- MCWorkers
L == INSTANCE LogFiles
S == INSTANCE CrawlerStats WITH savedCount <- numbers

flowVars == <<cancelled, input, buffer, flushed, output, forward, router, waiting, busy, handOver, senders>>
logVars == <<day, disk, rotators, replaced, loaded, written, late, unlinked, unsaved, pruned, owner, failures>>
statsVars == <<phase, seen, count, news, stats, filter, numbers, savedSeen, runs, troubles, fresh, behind, cut>>

MCInit ==
    /\ part \in {"ring", "flow", "log", "stats"}
    /\ Init /\ F!Init /\ L!Init /\ S!Init
    /\ part # "log" => rotators[1].cap = 0

Only(p) == part = p /\ UNCHANGED part

MCNext ==
    \/ Only("ring") /\ Next /\ UNCHANGED <<flowVars, logVars, statsVars>>
    \/ Only("flow") /\ F!Next /\ UNCHANGED <<vars, logVars, statsVars>>
    \/ Only("log") /\ L!Next /\ UNCHANGED <<vars, flowVars, statsVars>>
    \/ Only("stats") /\ S!Next /\ UNCHANGED <<vars, flowVars, logVars>>

\* The flow has nothing to move in its initial state, and nothing is counted.
MCSpec ==
    /\ MCInit /\ [][MCNext]_<<part, vars, flowVars, logVars, statsVars>>
    /\ F!Fairness /\ S!Fairness

\* What is counted of the nodes is counted once, agrees with the filter, and never goes back, across
\* restarts and failures, but for what the history names.  Whatever is logged is in one file or buffer
\* or gone for a reason that is known, across rotations, updates of the configuration and restarts;
\* it comes to the files in order and leaves them in order, as far as one rotator can tell; the files
\* stay few, and none outgrows its cap by more than its last entry.  No batch or channel of the
\* crawler holds more than it can.
RecordsContract ==
    /\ [](S!TypeOK /\ S!OncePerRun /\ S!Agree) /\ S!NeverBack
    /\ [](L!TypeOK /\ L!EveryEntryAccounted /\ L!InOrder /\ L!OldestGo)
    /\ [](L!FewFiles /\ L!WithinCap) /\ []F!TypeOK

\* The goroutines that feed each other through full channels in a circle keep moving, and
\* all of them end after a stop; what they count is recorded.
FlowProgress == F!Circulates /\ F!StopQuiesces /\ S!CountsAreRecorded /\ S!StopEnds
=============================================================================
