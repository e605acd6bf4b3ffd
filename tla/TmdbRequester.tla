---------------------------- MODULE TmdbRequester ----------------------------
(***************************************************************************)
(* The TMDB client (src/internal/tmdb): a requester that the first request *)
(* after a change of the configuration builds and validates, holding the   *)
(* mutex, and that sends nothing more once its token was refused.  Whether *)
(* TMDB accepts a token may change, and a request may fail.                *)
(***************************************************************************)
EXTENDS Naturals, Sequences, FiniteSets

CONSTANTS Callers, Tokens,
          Weight,   \* of the semaphore of a requester
          MaxCalls, \* of a caller
          MaxTurns  \* updates of the configuration, and changes of mind of TMDB

VARIABLES config,    \* [enabled, token], NoToken for an empty one
          current,   \* number of the requester, 0 for none
          made,      \* of a number: [token, err, refused], those built so far
          holder,    \* who holds the mutex while it validates, a set
          phase,     \* of a caller: "idle", "validates", "asks", "waits", "sends"
          uses,      \* of a caller: the requester it took under the mutex
          valid,     \* tokens that TMDB accepts
          began,     \* history: of a caller, the configuration when it took the mutex
          calls, turns

vars == <<config, current, made, holder, phase, uses, valid, began, calls, turns>>

NoToken == "none"
Configs == [enabled : BOOLEAN, token : Tokens \cup {NoToken}]
Sending(n) == {c \in Callers : phase[c] = "sends" /\ uses[c] = n}

----------------------------------------------------------------------------
Init ==
    /\ config \in Configs
    /\ current = 0 /\ made = <<>> /\ holder = {}
    /\ phase = [c \in Callers |-> "idle"] /\ uses = [c \in Callers |-> 0]
    /\ valid \in SUBSET Tokens
    /\ began = [c \in Callers |-> config]
    /\ calls = [c \in Callers |-> 0] /\ turns = 0

Turn == turns < MaxTurns /\ turns' = turns + 1

\* As Emptied, for a requester whose token has changed.
EmptiedFor(new) == IF new.token = config.token THEN current ELSE 0

\* Whatever the change is, the next request builds a requester of its own.
Emptied(new) == 0

UpdateConfig ==
    /\ holder = {} /\ Turn
    /\ \E new \in Configs \ {config} : config' = new /\ current' = Emptied(new)
    /\ UNCHANGED <<made, holder, phase, uses, valid, began, calls>>

Begins(c) ==
    /\ phase[c] = "idle" /\ calls[c] < MaxCalls /\ holder = {}
    /\ calls' = [calls EXCEPT ![c] = @ + 1]
    /\ began' = [began EXCEPT ![c] = config]

\* Without a token there is no answer and no error; disabled, there is no requester to keep,
\* and the error is made again each time; an error of the validation is kept.
Dismissed(c) ==
    /\ Begins(c)
    /\ \/ config.token = NoToken
       \/ current = 0 /\ ~config.enabled
       \/ current # 0 /\ made[current].err
    /\ UNCHANGED <<config, current, made, holder, phase, uses, valid, turns>>

Build(c) ==
    /\ Begins(c) /\ config.token # NoToken /\ current = 0 /\ config.enabled
    /\ made' = Append(made, [token |-> config.token, err |-> FALSE, refused |-> FALSE])
    /\ current' = Len(made')
    /\ uses' = [uses EXCEPT ![c] = Len(made')]
    /\ holder' = {c}
    /\ phase' = [phase EXCEPT ![c] = "validates"]
    /\ UNCHANGED <<config, valid, turns>>

Reuse(c) ==
    /\ Begins(c) /\ config.token # NoToken /\ current # 0 /\ ~made[current].err
    /\ uses' = [uses EXCEPT ![c] = current]
    /\ phase' = [phase EXCEPT ![c] = "asks"]
    /\ UNCHANGED <<config, current, made, holder, valid, turns>>

\* TMDB accepts or refuses a token; a request may fail whatever the token is.
Replies(n) == {"failed", IF made[n].token \in valid THEN "accepted" ELSE "refused"}

Validate(c) ==
    /\ phase[c] = "validates"
    /\ \E reply \in Replies(uses[c]) :
         /\ made' = [made EXCEPT ![uses[c]].err = reply # "accepted", ![uses[c]].refused = reply = "refused"]
         /\ phase' = [phase EXCEPT ![c] = IF reply = "accepted" THEN "asks" ELSE "idle"]
    /\ holder' = {}
    /\ UNCHANGED <<config, current, uses, valid, began, calls, turns>>

\* requesterFailFast, before the wait for the semaphore.
Ask(c) ==
    /\ phase[c] = "asks"
    /\ phase' = [phase EXCEPT ![c] = IF made[uses[c]].refused THEN "idle" ELSE "waits"]
    /\ UNCHANGED <<config, current, made, holder, uses, valid, began, calls, turns>>

Acquire(c) ==
    /\ phase[c] = "waits" /\ Cardinality(Sending(uses[c])) < Weight
    /\ phase' = [phase EXCEPT ![c] = "sends"]
    /\ UNCHANGED <<config, current, made, holder, uses, valid, began, calls, turns>>

Receive(c) ==
    /\ phase[c] = "sends"
    /\ \E reply \in Replies(uses[c]) :
         made' = [made EXCEPT ![uses[c]].refused = @ \/ reply = "refused"]
    /\ phase' = [phase EXCEPT ![c] = "idle"]
    /\ UNCHANGED <<config, current, holder, uses, valid, began, calls, turns>>

ChangeMind(token) ==
    /\ Turn
    /\ valid' = IF token \in valid THEN valid \ {token} ELSE valid \cup {token}
    /\ UNCHANGED <<config, current, made, holder, phase, uses, began, calls>>

Next ==
    \/ UpdateConfig
    \/ \E c \in Callers :
         Dismissed(c) \/ Build(c) \/ Reuse(c) \/ Validate(c) \/ Ask(c) \/ Acquire(c) \/ Receive(c)
    \/ \E token \in Tokens : ChangeMind(token)

Spec == Init /\ [][Next]_vars

----------------------------------------------------------------------------
TypeOK ==
    /\ config \in Configs /\ current \in 0..Len(made)
    /\ Cardinality(holder) <= 1
    /\ phase \in [Callers -> {"idle", "validates", "asks", "waits", "sends"}]

\* Whatever was cached, a request goes out under the configuration in force when it took
\* the mutex (requester_lazy.go:33-46): with its token, and not while TMDB is disabled.
SentAsConfigured ==
    \A c \in Callers : phase[c] # "idle" =>
        began[c].enabled /\ made[uses[c]].token = began[c].token

\* While a token is validated nobody else is served and nothing is replaced, so that no two
\* requesters share the one configuration (requester_lazy.go:54-66).
OneRequester ==
    \A n \in 1..Len(made) : \A c \in Callers :
        phase[c] = "validates" /\ uses[c] = n => n = current /\ n = Len(made)

TmdbContract == TypeOK /\ SentAsConfigured /\ OneRequester
=============================================================================
