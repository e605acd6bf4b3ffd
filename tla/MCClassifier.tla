----------------------------- MODULE MCClassifier -----------------------------
(***************************************************************************)
(* Instances of the maintenance jobs (EXTENDS) and of what the reclassify  *)
(* job calls: the calls that share the classifier, its workflow, its date  *)
(* lexer, and the TMDB client.  They share nothing, so a behaviour picks   *)
(* one of them at the start and the states add up.                         *)
(***************************************************************************)
EXTENDS BatchJob, FiniteSets

CONSTANTS Words, Gaps, MaxParts,    \* DateLexer
          Calls, InfoHashes, Assignments, StrictCalls, Concurrency, MaxTroubles, \* ClassifyCalls
          Callers, Tokens, Weight, MaxCalls, MaxTurns,  \* TmdbRequester
          Bodies, Names, AnswerTypes  \* ClassifierWorkflow

ASSUME LexerAssumption == MaxParts \in Nat \ {0}
ASSUME CallsAssumption ==
    /\ Assignments # {} /\ Assignments \subseteq [Calls -> SUBSET InfoHashes]
    /\ IsFiniteSet(Calls) /\ IsFiniteSet(InfoHashes)
    /\ Concurrency \in Nat /\ MaxTroubles \in Nat

VARIABLES part,  \* what this behaviour is about
          parts, at, fresh, date,
          hashesOf, call, doing, flight, joined, outcome, recent, runner, ranOn, held, stored, retried,
          troubles, excused, unlucky,
          torrent, tmdbEnabled, llmEnabled, strict, stage, result, failure, answer,
          config, current, made, holder, phase, uses, valid, began, calls, turns

\* No part of a date, a day or a month, a day or a year, and a year.
MCWords ==
    {[year |-> 0, month |-> 0, day |-> 0], [year |-> 0, month |-> 2, day |-> 2],
     [year |-> 2030, month |-> 0, day |-> 30], [year |-> 2003, month |-> 0, day |-> 0]}

L == INSTANCE DateLexer

\* Two messages and the job about one torrent; a message about two and the job about one.
MCAssignments ==
    {[c \in Calls |-> {"h1"}],
     [c \in Calls |-> CASE c = "c1" -> {"h1", "h2"} [] c = "c2" -> {} [] c = "job" -> {"h1"}]}

C == INSTANCE ClassifyCalls

Tmdb == INSTANCE TmdbRequester

\* Each rule alone, two that apply at once, video that is much or not, and nothing known.
MCBodies ==
    {[most |-> kind, much |-> TRUE, words |-> {}] :
        kind \in {"flac", "m4b", "iso", "audio", "comic", "video", "other"}}
    \cup {[most |-> "audio", much |-> TRUE, words |-> {"audiobook", "music"}],
          [most |-> "audio", much |-> FALSE, words |-> {"audiobook", "music"}],
          [most |-> "video", much |-> TRUE, words |-> {"adult"}],
          [most |-> "video", much |-> FALSE, words |-> {}]}
MCNames ==
    {[form |-> f, dated |-> FALSE] : f \in {"untitled", "plain", "year", "episodes", "both"}}
    \cup {[form |-> f, dated |-> TRUE] : f \in {"year", "episodes"}}

Flow == INSTANCE ClassifierWorkflow

\* Torrents of one of the kinds that are looked at, and names of the five forms.
ASSUME WorkflowAssumption ==
    /\ \A body \in Bodies : body.much \in BOOLEAN
    /\ \A name \in Names :
         name.form \in {"untitled", "plain", "year", "episodes", "both"} /\ name.dated \in BOOLEAN
    /\ AnswerTypes \cap {Flow!None, Flow!NotAsked.type, Flow!Failed.type} = {}

lexerVars == <<parts, at, fresh, date>>
callsVars ==
    <<hashesOf, call, doing, flight, joined, outcome, recent, runner, ranOn, held, stored, retried,
      troubles, excused, unlucky>>
workflowVars == <<torrent, tmdbEnabled, llmEnabled, strict, stage, result, failure, answer>>
tmdbVars == <<config, current, made, holder, phase, uses, valid, began, calls, turns>>

Unused == "unused"

MCInit ==
    /\ part \in {"batch", "dates", "workflow", "calls", "tmdb"}
    /\ Init /\ (part # "batch" => torrents = MaxTorrents)
    /\ C!Init /\ (part # "calls" => hashesOf = CHOOSE a \in Assignments : TRUE)
    /\ Tmdb!Init
    /\ part # "tmdb" => config = [enabled |-> FALSE, token |-> Tmdb!NoToken] /\ valid = {}
    /\ IF part = "dates" THEN L!Init
       ELSE parts = Unused /\ at = Unused /\ fresh = Unused /\ date = Unused
    /\ IF part = "workflow" THEN Flow!Init
       ELSE /\ torrent = Unused /\ tmdbEnabled = Unused /\ llmEnabled = Unused /\ strict = Unused
            /\ stage = Unused /\ result = Unused /\ failure = Unused /\ answer = Unused

Only(p) == part = p /\ UNCHANGED part

MCNext ==
    \/ Only("batch") /\ Next /\ UNCHANGED <<lexerVars, workflowVars, callsVars, tmdbVars>>
    \/ Only("dates") /\ L!Next /\ UNCHANGED <<vars, workflowVars, callsVars, tmdbVars>>
    \/ Only("workflow") /\ Flow!Next /\ UNCHANGED <<vars, lexerVars, callsVars, tmdbVars>>
    \/ Only("calls") /\ C!Next /\ UNCHANGED <<vars, lexerVars, workflowVars, tmdbVars>>
    \/ Only("tmdb") /\ Tmdb!Next /\ UNCHANGED <<vars, lexerVars, workflowVars, callsVars>>

\* No call has a step before it is made, so that its fairness is of no matter to the others.
MCSpec ==
    /\ MCInit
    /\ [][MCNext]_<<part, vars, lexerVars, workflowVars, callsVars, tmdbVars>>
    /\ \A j \in Jobs : WF_vars(RunStep(j))
    /\ WF_callsVars(part = "calls" /\ C!Work)

\* A torrent is taken for what it is: it is classified as if there were no model whenever the model
\* has no answer, and by the answer when it has one.  A date that is found in a name is spelled
\* there, and calls that share a flight lose no slot and no torrent.  TMDB is asked as configured.
ClassifierContract ==
    /\ part = "dates" => L!LexerContract
    /\ part = "workflow" => Flow!ClassifyContract
    /\ part = "calls" => C!CallsContract
    /\ part = "tmdb" => Tmdb!TmdbContract

\* The slot of the jobs is given back, and calls that share the classifier end.
JobsProgress == SlotReleased /\ C!CallsEnd
=============================================================================
