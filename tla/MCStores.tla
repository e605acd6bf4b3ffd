------------------------------- MODULE MCStores -------------------------------
(***************************************************************************)
(* Instances of what is stored and found again: the pages of a search      *)
(* (EXTENDS) and the row in which the memory queue is saved.  A behaviour  *)
(* picks one of the two at the start, so that the states add up.           *)
(***************************************************************************)
EXTENDS TorrentSearch

CONSTANTS Loops, Closer, MaxMessages, MaxFailures, MaxSwitches, MaxRestarts \* MemoryQueueDurability

\* Close is called by none of the goroutines that run the persist loop.
ASSUME CloserAssumption == Closer \notin Loops /\ Loops # {}
ASSUME BoundsAssumption ==
    MaxMessages \in Nat /\ MaxFailures \in Nat /\ MaxSwitches \in Nat /\ MaxRestarts \in Nat

VARIABLES part,  \* the component that this behaviour is about
          nextSeq, offset, dirty, stopped, stopCh, loop, watched, leaving, pc, copied, encoded,
          saved, overtaken, setBack, failures, restarts

\* Three torrents, one of which is stored while the search goes on.  The searches, each with
\* and without a filter and a facet: of everything; and by text, where the vectors add a torrent
\* and ranks are tied, agree with the text, have no rank, or are too far.
MCTorrents == 1..3
MCOld == 1..2
MCTypes == {"movie", "game"}
MCTypeOf == <<"movie", "game", "movie">>

Text(scores, nearness) == [score |-> scores, near |-> nearness]
Asks(text, elastic, order) ==
    [text : {text}, elastic : {elastic}, types : {{}, {"movie"}}, facet : BOOLEAN, order : {order}]
MCRequests ==
    Asks([score |-> <<>>, near |-> <<>>], FALSE, "created")
    \cup {r \in Asks(Text(<<3, 2, 0>>, <<0, 4, 5>>), FALSE, "relevance") : r.types = {}}
    \cup Asks(Text(<<3, 2, 0>>, <<0, 2, 5>>), TRUE, "relevance")
    \cup Asks(Text(<<2, 2, 1>>, <<5, 4, 3>>), TRUE, "relevance")
    \cup {r \in Asks(Text(<<3, 2, 1>>, <<5, 4, 3>>), TRUE, "created") : r.facet /\ r.types # {}}
    \cup {r \in Asks(Text(<<3, 2, 1>>, <<1, 2, 1>>), TRUE, "relevance") : r.types # {}}

Q == INSTANCE MemoryQueueDurability

searchVars == vars
queueVars == <<nextSeq, offset, dirty, stopped, stopCh, loop, watched, leaving, pc, copied,
               encoded, saved, overtaken, setBack, failures, restarts>>

\* What a search starts with is of no interest to the queue: one initial state.
MCInit ==
    /\ part \in {"search", "queue", "mend"}
    /\ Init /\ Q!Init
    /\ part # "search" => ~HasText /\ request.types = {} /\ request.facet

Only(p) == part = p /\ UNCHANGED part

\* Of the queue one part is about everything but its last message; the other about the row that is
\* set back and mended, which takes three messages and no acknowledgement, failure or restart.
QueueNext ==
    \/ Only("queue") /\ Q!Next /\ nextSeq' < MaxMessages
    \/ Only("mend") /\ Q!Next /\ offset' = 0 /\ failures' = 0 /\ restarts' = 0

MCNext ==
    \/ Only("search") /\ Next /\ UNCHANGED queueVars
    \/ QueueNext /\ UNCHANGED searchVars

allVars == <<part, searchVars, queueVars>>

\* The goroutines of the queue that can run do, in a behaviour that is about them.
OfQueue == part \in {"queue", "mend"}
RunOf(p) == OfQueue /\ Q!Run(p) /\ UNCHANGED <<part, searchVars>>
MCSpec == MCInit /\ [][MCNext]_allVars /\ \A p \in Q!Persisters : WF_allVars(RunOf(p))

\* However many loops and Close persist at once, and wherever a persist fails, a message that the
\* row lacks is covered by the dirty flag or by a persist in flight, unless the row was set back:
\* the last to write it had an older copy than one that wrote before.
DurabilityContract == Q!TypeOK /\ Q!RowBehindCovered

\* While the queue is open and the process lives, every message comes to the row and stays in it,
\* although persists fail and race with each other, unless the row is set back; the next message
\* then brings everything to it.
DurabilityProgress == OfQueue => Q!EventuallySaved
=============================================================================
