----------------------------- MODULE MCStructures -----------------------------
(***************************************************************************)
(* Instances of the delivery of the memory queue (EXTENDS), of the tree of *)
(* the DHT, and of the query that is made of a text.  They share nothing,  *)
(* so a behaviour picks one of them at the start and the states add up.    *)
(***************************************************************************)
EXTENDS MemoryQueue

CONSTANTS N, K, Splitting, MaxSize,                \* BucketTree
          MaxTokens                                         \* TitleQuery

VARIABLES part,  \* the structure that this behaviour is about
          tree, bucketCounts, members, offered,
          typed

\* A word, another, and both of them in one token; and letters that spell nothing.
F == INSTANCE TitleQuery WITH Phrases <- {<<"a">>, <<"b">>, <<"a", "b">>, <<>>}

B == INSTANCE BucketTree

treeVars == <<tree, bucketCounts, members, offered>>

\* What the queue starts with is of no interest to the others: one initial state each.
MCInit ==
    /\ part \in {"queue", "tree", "text"}
    /\ Init /\ B!Init /\ F!Init
    /\ part # "queue" => maxAttempts = 1

Only(p) == part = p /\ UNCHANGED part

MCNext ==
    \/ Only("queue") /\ Next /\ UNCHANGED <<treeVars, typed>>
    \/ Only("tree") /\ B!Next /\ UNCHANGED <<vars, typed>>
    \/ Only("text") /\ F!Next /\ UNCHANGED <<vars, treeVars>>

allVars == <<part, vars, treeVars, typed>>

\* No consumer of the queue has a step before it is made.
MCSpec ==
    /\ MCInit
    /\ [][MCNext]_allVars
    /\ Fairness

\* Through splits and folds in any order the tree is the set of the ids it accepted, its
\* counts follow, it turns away no id it has room for, and it gives as many as it is asked.
TreeSound == B!TypeOK /\ B!TreeIsSet /\ B!CountsFollow /\ B!ClosestGives /\ B!RoomIsUsed

\* What is looked up is what is there: the tree of the DHT is a set, and a text becomes a query that
\* is accepted, means what was typed, and finds that text.
LookupContract == TreeSound /\ F!QueryContract
=============================================================================
