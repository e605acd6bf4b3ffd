---------------------------- MODULE CrawlerNodes ----------------------------
(***************************************************************************)
(* What the workers of the DHT crawler do with a node                      *)
(* (src/internal/dhtcrawler/ping.go, find_node.go, sample_infohashes.go):  *)
(* each query's outcome changes the routing table, and the samples of an   *)
(* answer go through the filter of ignored hashes to the queue.  Between   *)
(* an answer and what is done with it the others go on.                    *)
(***************************************************************************)
EXTENDS Naturals

CONSTANTS Nodes,    \* node identities, each first met at an address of its own
          Hashes,   \* info hashes that the nodes have
          Samplers, \* workers of nodesForSampleInfoHashes; one more pings, one more finds nodes
          Nobody    \* no node: the zero identity of a bootstrap address

VARIABLES table,     \* nodes in the routing table
          answers,   \* node -> who answers at its address: itself, another identity, or nobody
          job,       \* worker -> the node it queries and the reply, if it has one
          found,     \* sampler -> hashes of its answer yet to be published
          ignored,   \* the filter of ignoreHashes
          published, \* hash -> messages of TopicDiscoveredHashes
          paused,    \* the pause gate
          cancelled  \* the context of start

vars == <<table, answers, job, found, ignored, published, paused, cancelled>>

Workers == {"ping", "find"} \cup Samplers
Replies == {"waiting", "itself", "another", "nobody"}
Idle == [node |-> Nobody, reply |-> "none"]

Init ==
    /\ table = Nodes
    /\ answers = [n \in Nodes |-> "itself"]
    /\ job = [w \in Workers |-> Idle]
    /\ found = [s \in Samplers |-> {}]
    /\ ignored = {}
    /\ published = [h \in Hashes |-> 0]
    /\ paused = FALSE /\ cancelled = FALSE

----------------------------------------------------------------------------
\* Nodes that have not answered for a while come from the table, others are
\* discovered; a sampler leaves them alone while a maintenance job runs.
Start(w, n) ==
    /\ ~cancelled /\ job[w] = Idle
    /\ w \in Samplers => ~paused
    /\ job' = [job EXCEPT ![w] = [node |-> n, reply |-> "waiting"]]
    /\ UNCHANGED <<table, answers, found, ignored, published, paused, cancelled>>

\* The query returns; with an error also when the crawler stops.
Answer(w, reply) ==
    /\ job[w].reply = "waiting"
    /\ reply = answers[job[w].node] \/ (cancelled /\ reply = "nobody")
    /\ job' = [job EXCEPT ![w].reply = reply]
    /\ UNCHANGED <<table, answers, found, ignored, published, paused, cancelled>>

Returned(w) == job[w].reply \in {"itself", "another", "nobody"}
Done(w) == job' = [job EXCEPT ![w] = Idle]

\* runPing.  When nobody answers, the command drops the zero identity, which is no node:
\* only find_node and sample_infohashes take a node that no longer answers out of the table.
PingDrops(n) == {}
Ping ==
    /\ Returned("ping")
    /\ LET n == job["ping"].node IN
       table' = CASE job["ping"].reply = "itself" -> table \cup {n}
                  [] job["ping"].reply = "another" -> table \ {n}
                  [] OTHER -> table \ PingDrops(n)
    /\ Done("ping")
    /\ UNCHANGED <<answers, found, ignored, published, paused, cancelled>>

FindDrops(n) == {n}
FindNode ==
    /\ Returned("find")
    /\ LET n == job["find"].node IN
       table' = IF job["find"].reply = "nobody" THEN table \ FindDrops(n) ELSE table \cup {n}
    /\ Done("find")
    /\ UNCHANGED <<answers, found, ignored, published, paused, cancelled>>

SampleFails(s) ==
    /\ Returned(s) /\ job[s].reply = "nobody"
    /\ table' = table \ FindDrops(job[s].node)
    /\ Done(s)
    /\ UNCHANGED <<answers, found, ignored, published, paused, cancelled>>

\* testAndAdd of one sample: lookup and addition are one step under the mutex.  The Bloom
\* filter's false positives, hashes taken for known ones, are left out.
Keep(s, h) == found' = [found EXCEPT ![s] = @ \cup {h}]
Untested(s, h) == ignored' = ignored \cup {h} /\ Keep(s, h)
Unremembered(s, h) == h \notin ignored /\ Keep(s, h) /\ UNCHANGED ignored
TestAndAdd(s, h) ==
    /\ h \notin ignored
    /\ ignored' = ignored \cup {h}
    /\ Keep(s, h)

Sample(s, h) ==
    /\ Returned(s) /\ job[s].reply # "nobody"
    /\ TestAndAdd(s, h)
    /\ UNCHANGED <<table, answers, job, published, paused, cancelled>>

\* All samples are looked up before the first is published.
Publishing(s) == /\ Returned(s) /\ job[s].reply # "nobody"
                 /\ job' = [job EXCEPT ![s].reply = "publish"]
                 /\ UNCHANGED <<table, answers, found, ignored, published, paused, cancelled>>

\* One turn of the limiter and a message.
Publish(s, h) ==
    /\ job[s].reply = "publish" /\ h \in found[s]
    /\ published' = [published EXCEPT ![h] = @ + 1]
    /\ found' = [found EXCEPT ![s] = @ \ {h}]
    /\ UNCHANGED <<table, answers, job, ignored, paused, cancelled>>

\* The limiter's Wait fails when the crawler stops: the hashes left are ignored from now on.
AnyTime == TRUE
WaitFails == cancelled
GiveUp(s) ==
    /\ job[s].reply = "publish" /\ found[s] # {} /\ WaitFails
    /\ found' = [found EXCEPT ![s] = {}]
    /\ Done(s)
    /\ UNCHANGED <<table, answers, ignored, published, paused, cancelled>>

SampleEnds(s) ==
    /\ job[s].reply = "publish" /\ found[s] = {}
    /\ table' = table \cup {job[s].node}
    /\ Done(s)
    /\ UNCHANGED <<answers, found, ignored, published, paused, cancelled>>

\* The network, the maintenance jobs and the stop.
Change(n, who) ==
    /\ answers[n] # who
    /\ answers' = [answers EXCEPT ![n] = who]
    /\ UNCHANGED <<table, job, found, ignored, published, paused, cancelled>>

Pause ==
    /\ paused' = ~paused
    /\ UNCHANGED <<table, answers, job, found, ignored, published, cancelled>>

Cancel ==
    /\ ~cancelled /\ cancelled' = TRUE
    /\ UNCHANGED <<table, answers, job, found, ignored, published, paused>>

----------------------------------------------------------------------------
Handle(w) ==
    \/ \E r \in Replies : Answer(w, r)
    \/ w = "ping" /\ Ping
    \/ w = "find" /\ FindNode
    \/ w \in Samplers /\ (SampleFails(w) \/ Publishing(w) \/ GiveUp(w) \/ SampleEnds(w))
    \/ \E h \in Hashes : w \in Samplers /\ (Sample(w, h) \/ Publish(w, h))

Next ==
    \/ \E w \in Workers : Handle(w) \/ \E n \in Nodes : Start(w, n)
    \/ \E n \in Nodes, who \in {"itself", "another", "nobody"} : Change(n, who)
    \/ Pause \/ Cancel

Spec == Init /\ [][Next]_vars

\* A query returns and its worker goes on; getNodesForFindNode takes the nodes that have
\* not answered for the longest time, so that each gets its turn.
Refresh(n) == n \in table /\ Start("find", n)
Fairness ==
    /\ \A w \in Workers : WF_vars(Handle(w))
    /\ \A n \in Nodes : SF_vars(Refresh(n))
FairSpec == Spec /\ Fairness

----------------------------------------------------------------------------
\* Type invariant.
TypeOK ==
    /\ table \subseteq Nodes
    /\ answers \in [Nodes -> Replies \ {"waiting"}]
    /\ \A w \in Workers :
         job[w] = Idle \/ job[w] \in [node : Nodes, reply : Replies \cup (IF w \in Samplers THEN {"publish"} ELSE {})]
    /\ ignored \subseteq Hashes
    /\ \A s \in Samplers : found[s] \subseteq ignored

\* However many workers get the same sample at a time, a hash is published once.
PublishedOnce == \A h \in Hashes : published[h] <= 1

\* The filter never forgets, so a hash must not be in it for nothing: it was published or
\* will be, unless the crawler stops before.
IgnoredIsPublished ==
    ~cancelled => \A h \in ignored : published[h] > 0 \/ \E s \in Samplers : h \in found[s]

\* A node that answers no more leaves the table for good while the crawler runs, although a
\* ping that fails does not drop it and an answer of earlier may put it back.
DeadLeave ==
    \A n \in Nodes : <>[](answers[n] = "nobody" /\ ~cancelled) => <>[](n \notin table)
=============================================================================
