---------------------------- MODULE ClassifyCalls ----------------------------
(***************************************************************************)
(* Calls of processor.Process that classify the same torrents at once: the *)
(* consumer of the queue and the reclassify job share one flight per info  *)
(* hash (singleflight), runners with a bounded number of slots, and the    *)
(* memory of what was classified a moment ago.  A goroutine is a call and  *)
(* an info hash; its steps are those between which others may run.  The    *)
(* filter is left to RetryQueue, what a workflow does to                   *)
(* ClassifierWorkflow.                                                     *)
(***************************************************************************)
EXTENDS Naturals, FiniteSets

CONSTANTS Calls, InfoHashes,
          Assignments,  \* subset of [Calls -> SUBSET InfoHashes]
          StrictCalls,  \* those of the reclassify job: rematch mode, strict model
          Concurrency,
          MaxTroubles   \* redeliveries, panics and swaps

VARIABLES hashesOf,  \* of a call: the torrents of its message or page, none for one that is not made
          call,      \* of a call: "waiting", "works", "acked" or "failed"
          doing,     \* of a goroutine
          flight,    \* g.m: the goroutine that leads the flight of a hash, if any, as a set
          joined,    \* the leader that a goroutine waits for, as a set; itself when it leads
          outcome,   \* what fn returned, of a goroutine that leads or has been woken
          recent,    \* recentlyClassified
          runner,    \* version of runnerAtomic
          ranOn,     \* the version that a goroutine loaded
          held,      \* occupied slots of a version
          stored, retried,   \* hashes that are persisted, and in the retry queue
          troubles,  \* how many there were
          excused,   \* history: hashes that may be lost, for a reason the code has
          unlucky    \* history: hashes one of whose flights did not classify

workVars == <<doing, flight, joined, outcome, ranOn, held>>
storeVars == <<stored, retried, excused, unlucky>>
envVars == <<recent, runner, troubles, hashesOf>>
vars == <<call, workVars, storeVars, envVars>>

None == "none"
Goroutines == Calls \X InfoHashes
Of(c) == {c} \X hashesOf[c]
Hash(g) == g[2]
Strict(g) == g[1] \in StrictCalls
Classified == {"answered", "by rules"}

----------------------------------------------------------------------------
Init ==
    /\ hashesOf \in Assignments
    /\ call = [c \in Calls |-> "waiting"]
    /\ doing = [g \in Goroutines |-> "idle"]
    /\ flight = [h \in InfoHashes |-> {}]
    /\ joined = [g \in Goroutines |-> {}] /\ outcome = [g \in Goroutines |-> None]
    /\ ranOn = [g \in Goroutines |-> 0] /\ held = [v \in 0..MaxTroubles |-> 0]
    /\ recent = {} /\ runner = 0 /\ troubles = 0
    /\ stored = {} /\ retried = {} /\ excused = {} /\ unlucky = {}

Moves(g, to) == doing' = [doing EXCEPT ![g] = to]

Trouble == troubles < MaxTroubles /\ troubles' = troubles + 1

\* A message that is not acknowledged is delivered again, a job is not.
Deliver(c) ==
    /\ hashesOf[c] # {}
    /\ \/ call[c] = "waiting" /\ UNCHANGED troubles
       \/ call[c] = "failed" /\ c \notin StrictCalls /\ Trouble
    /\ call' = [call EXCEPT ![c] = "works"]
    /\ doing' = [g \in Goroutines |-> IF g \in Of(c) THEN "check" ELSE doing[g]]
    /\ joined' = [g \in Goroutines |-> IF g \in Of(c) THEN {} ELSE joined[g]]
    /\ outcome' = [g \in Goroutines |-> IF g \in Of(c) THEN None ELSE outcome[g]]
    /\ UNCHANGED <<hashesOf, flight, ranOn, held, storeVars, recent, runner>>

\* The rematch mode asks nobody when it was that the torrent was classified.
Check(g) ==
    /\ doing[g] = "check"
    /\ Moves(g, IF ~Strict(g) /\ Hash(g) \in recent THEN "done" ELSE "enter")
    /\ UNCHANGED <<flight, joined, outcome, ranOn, held, call, storeVars, envVars>>

\* singleflight.Do: join the flight of the hash, or lead a new one.
Join(g) ==
    /\ doing[g] = "enter" /\ flight[Hash(g)] # {}
    /\ joined' = [joined EXCEPT ![g] = flight[Hash(g)]]
    /\ Moves(g, "joined")
    /\ UNCHANGED <<flight, outcome, ranOn, held, call, storeVars, envVars>>

Lead(g) ==
    /\ doing[g] = "enter" /\ flight[Hash(g)] = {}
    /\ flight' = [flight EXCEPT ![Hash(g)] = {g}]
    /\ joined' = [joined EXCEPT ![g] = {g}]
    /\ Moves(g, "leads")
    /\ UNCHANGED <<outcome, ranOn, held, call, storeVars, envVars>>

\* The mark is set before the classification, and the runner is the one of this moment.
Mark(g) ==
    /\ doing[g] = "leads"
    /\ recent' = recent \cup {Hash(g)}
    /\ ranOn' = [ranOn EXCEPT ![g] = runner]
    /\ Moves(g, "marked")
    /\ UNCHANGED <<flight, joined, outcome, held, call, storeVars, runner, troubles, hashesOf>>

\* The context is one WithoutCancel, so that nothing but a slot ends the wait.
Acquire(g) ==
    /\ doing[g] = "marked" /\ held[ranOn[g]] < Concurrency
    /\ held' = [held EXCEPT ![ranOn[g]] = @ + 1]
    /\ Moves(g, "runs")
    /\ UNCHANGED <<flight, joined, outcome, ranOn, call, storeVars, envVars>>

\* As Freed, on the path that returns only.
FreedUnless(g, how) == IF how = "panic" THEN held ELSE [held EXCEPT ![ranOn[g]] = @ - 1]

\* The slot is given back by a defer, whatever happened.
Freed(g, how) == [held EXCEPT ![ranOn[g]] = @ - 1]

\* The model answers; it fails, which is an error in the strict mode and none otherwise;
\* something else fails; or the workflow panics.
Finish(g) ==
    /\ doing[g] = "runs"
    /\ \E how \in {"answered", "error", "panic"} \cup {IF Strict(g) THEN "llm" ELSE "by rules"} :
         /\ IF how = "panic" THEN Trouble ELSE UNCHANGED troubles
         /\ outcome' = [outcome EXCEPT ![g] = how]
         /\ held' = Freed(g, how)
         /\ unlucky' = IF how \in Classified THEN unlucky ELSE unlucky \cup {Hash(g)}
    /\ Moves(g, "lands")
    /\ UNCHANGED <<flight, joined, ranOn, call, stored, retried, excused, recent, runner, hashesOf>>

\* The flight is removed if it is still the one of its hash, and those who joined wake.
Land(g) ==
    /\ doing[g] = "lands"
    /\ flight' = [flight EXCEPT ![Hash(g)] = @ \ {g}]
    /\ outcome' = [w \in Goroutines |-> IF doing[w] = "joined" /\ joined[w] = {g} THEN outcome[g] ELSE outcome[w]]
    /\ doing' = [w \in Goroutines |-> IF w = g \/ (doing[w] = "joined" /\ joined[w] = {g}) THEN "landed" ELSE doing[w]]
    /\ UNCHANGED <<joined, ranOn, held, call, storeVars, envVars>>

\* A panic goes to all who joined, and each recovers without a word to its call.  An error
\* makes each of them forget the flight of the hash, also one that has begun since.
Collect(g) ==
    /\ doing[g] = "landed"
    /\ flight' = IF outcome[g] \in {"error", "llm"} THEN [flight EXCEPT ![Hash(g)] = {}] ELSE flight
    /\ excused' = IF outcome[g] = "panic" THEN excused \cup {Hash(g)} ELSE excused
    /\ Moves(g, "done")
    /\ UNCHANGED <<joined, outcome, ranOn, held, call, stored, retried, unlucky, envVars>>

Ended(c) == \A g \in Of(c) : doing[g] = "done"
With(c, outcomes) == {Hash(g) : g \in {w \in Of(c) : outcome[w] \in outcomes}}

\* splitClassifyFailures: an error of the model is not for the retry queue.
RetryableOf(c) == With(c, {"error"})

\* handleClassified: what failed is retried later; an error of the model is returned before
\* what else was classified is stored, and so is an error of the database.
Handle(c) ==
    /\ call[c] = "works" /\ Ended(c)
    /\ LET good == With(c, Classified)
           pause == With(c, {"llm"}) IN
         \E persists \in IF good = {} \/ pause # {} THEN {TRUE} ELSE BOOLEAN :
           /\ call' = [call EXCEPT ![c] = IF pause # {} \/ ~persists THEN "failed" ELSE "acked"]
           /\ stored' = IF pause = {} /\ persists THEN stored \cup good ELSE stored
           /\ retried' = LET tried == retried \cup RetryableOf(c) IN
                           IF pause = {} /\ persists THEN tried \ good ELSE tried
           /\ excused' = IF pause = {} /\ persists THEN excused ELSE excused \cup good \cup pause
    /\ doing' = [g \in Goroutines |-> IF g \in Of(c) THEN "idle" ELSE doing[g]]
    /\ UNCHANGED <<flight, joined, outcome, ranOn, held, unlucky, envVars>>

\* SwapRunner, by the subscriber of the configuration.
Swap ==
    /\ Trouble /\ runner' = runner + 1
    /\ UNCHANGED <<call, workVars, storeVars, recent, hashesOf>>

\* Three minutes pass for a hash.
Expire(h) ==
    /\ h \in recent /\ recent' = recent \ {h}
    /\ UNCHANGED <<call, workVars, storeVars, runner, troubles, hashesOf>>

Works(g) ==
    Check(g) \/ Join(g) \/ Lead(g) \/ Mark(g) \/ Acquire(g) \/ Finish(g) \/ Land(g) \/ Collect(g)

Work == (\E g \in Goroutines : Works(g)) \/ (\E c \in Calls : Handle(c))

Next ==
    \/ Work
    \/ \E c \in Calls : Deliver(c)
    \/ Swap
    \/ \E h \in InfoHashes : Expire(h)

\* The scheduler runs some goroutine that can run; no goroutine needs more than its turns.
CallsFairness == WF_vars(Work)

Spec == Init /\ [][Next]_vars /\ CallsFairness

----------------------------------------------------------------------------
TypeOK ==
    /\ call \in [Calls -> {"waiting", "works", "acked", "failed"}]
    /\ doing \in [Goroutines -> {"idle", "check", "enter", "joined", "leads", "marked", "runs", "lands", "landed", "done"}]
    /\ flight \in [InfoHashes -> SUBSET Goroutines]
    /\ held \in [0..MaxTroubles -> Nat]

RunningOn(v) == {g \in Goroutines : doing[g] = "runs" /\ ranOn[g] = v}

\* A slot is occupied by exactly one running workflow, of the runner it belongs to, through
\* panics and swaps (runner_semaphore.go:20-26): none leaks and none is given back twice.
SlotsHeld == \A v \in 0..MaxTroubles : held[v] = Cardinality(RunningOn(v)) /\ held[v] <= Concurrency

InFlight == {"leads", "marked", "runs", "lands"}

\* A hash is classified by two at once only after a flight of it has failed: by a Forget that
\* comes late (processor.go:196).
OverlapOnlyAfterFailure ==
    \A g, w \in Goroutines :
        g # w /\ Hash(g) = Hash(w) /\ doing[g] \in InFlight /\ doing[w] \in InFlight => Hash(g) \in unlucky

\* The mode of a call is not that of its outcome: a strict call gets what the rules say, and
\* a regular one the error of the model, only from a flight that another call leads.
ModeOfTheLeader ==
    \A g \in Goroutines : \A leader \in joined[g] :
        /\ outcome[g] = "by rules" => ~Strict(leader)
        /\ outcome[g] = "llm" => Strict(leader)

\* A call that was acknowledged leaves no torrent of it behind, though it skips what others
\* have marked before they were done (processor.go:131, 157): it is stored, waits in the
\* retry queue, is being worked on, or its call lost it in a way that the code has.
AckedAccounted ==
    \A c \in Calls : \A h \in hashesOf[c] :
        call[c] = "acked" =>
            \/ h \in stored \cup retried \cup excused
            \/ \E g \in Goroutines : Hash(g) = h /\ doing[g] # "idle" /\ call[g[1]] = "works"

CallsContract == TypeOK /\ SlotsHeld /\ OverlapOnlyAfterFailure /\ ModeOfTheLeader /\ AckedAccounted

\* Calls end, and stay ended when nothing new comes: whoever waits for a flight or for a slot
\* is not waited for in turn, also by a panic or a flight that was forgotten.
Rests == \A c \in Calls : call[c] # "works"
CallsEnd == <>[]Rests
=============================================================================
