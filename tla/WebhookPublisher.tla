--------------------------- MODULE WebhookPublisher ---------------------------
(***************************************************************************)
(* The webhook publisher (src/internal/webhook/publisher.go): Publish puts *)
(* events into a bounded channel without ever blocking, one goroutine      *)
(* takes them out and posts each of them to every configured URL, and      *)
(* Update may replace the channel by one of another size at any moment.    *)
(*                                                                         *)
(* A channel is a generation number: channel[g] holds its events, current  *)
(* is the one p.queue points at.  Filters, headers and the payload are left*)
(* out, and so is the order in which a select looks at its ready cases.    *)
(***************************************************************************)
EXTENDS FiniteSets, Naturals, Sequences

CONSTANTS Events,
          Sizes,      \* the values of queue_size
          NumUrls,    \* how many URLs are configured
          Retries,    \* max_retries
          MaxResizes, \* bound: channels replaced
          MaxStarts   \* bound: calls of Start

VARIABLES enabled,    \* config.Enabled
          wanted,     \* config.QueueSize
          updating,   \* Update has stored the configuration, not yet resized
          channel,    \* generation -> the events in that channel
          capacity,   \* generation -> its size
          current,    \* the generation p.queue refers to
          locked,     \* resizeQueue holds queueMu for writing
          sender,     \* event -> the channel its Publish, holding queueMu for reading, sends to
          wakeToken,  \* p.wake holds its token
          running,    \* p.started
          alive,      \* p.ctx is not cancelled
          starts,     \* number of Starts so far
          loop,       \* where the delivery goroutine is
          draining,   \* it is in drain()
          source,     \* the channel it receives from
          inHand,     \* the event it delivers
          url, tries, \* the URL it is at, and the failed attempts at it
          fate        \* event -> what became of it

updateVars == <<enabled, wanted, updating, capacity, current, locked>>
loopVars == <<loop, draining, source, inHand, url, tries>>
lifeVars == <<running, alive, starts>>
vars == <<updateVars, channel, sender, wakeToken, lifeVars, loopVars, fate>>

Generations == 1 .. MaxResizes + 1
NoChannel == 0     \* nobody is publishing the event
Nothing == "none"  \* no event in hand

Init ==
    /\ enabled = TRUE /\ wanted \in Sizes /\ updating = FALSE
    /\ channel = [g \in Generations |-> <<>>]
    /\ capacity = [g \in Generations |-> wanted]
    /\ current = 1 /\ locked = FALSE
    /\ sender = [e \in Events |-> NoChannel]
    /\ wakeToken = FALSE
    /\ running = FALSE /\ alive = TRUE /\ starts = 0
    /\ loop = "none" /\ draining = FALSE /\ source = 1
    /\ inHand = Nothing /\ url = 1 /\ tries = 0
    /\ fate = [e \in Events |-> "new"]

----------------------------------------------------------------------------
(* Update: the configuration is stored first, the channel replaced later. *)

Configure(on, size) ==
    /\ ~updating
    /\ current <= MaxResizes
    /\ enabled' = on /\ wanted' = size /\ updating' = TRUE
    /\ UNCHANGED <<channel, capacity, current, locked, sender, wakeToken, lifeVars, loopVars, fate>>

AnyReaders == TRUE     \* the lock taken without regard to the readers
NoReaders == \A e \in Events : sender[e] = NoChannel

SameSize ==
    /\ updating /\ ~locked /\ NoReaders
    /\ capacity[current] = wanted
    /\ updating' = FALSE
    /\ UNCHANGED <<enabled, wanted, capacity, current, locked, channel, sender, wakeToken,
                   lifeVars, loopVars, fate>>

BeginResize ==
    /\ updating /\ ~locked /\ NoReaders
    /\ capacity[current] # wanted
    /\ locked' = TRUE
    /\ current' = current + 1
    /\ capacity' = [capacity EXCEPT ![current + 1] = wanted]
    /\ UNCHANGED <<enabled, wanted, updating, channel, sender, wakeToken, lifeVars, loopVars, fate>>

Unbounded(g) == TRUE    \* a slice that grows
AlmostFull(g) == Len(channel[g]) + 1 < capacity[g]
HasRoom(g) == Len(channel[g]) < capacity[g]

Forgotten == FALSE       \* the old channel is left to the garbage collector
Migrated == HasRoom(current)

\* One event moves from the old channel to the new one, or is dropped.
Migrate ==
    /\ locked
    /\ channel[current - 1] # <<>>
    /\ LET e == Head(channel[current - 1])
           rest == [channel EXCEPT ![current - 1] = Tail(@)]
       IN IF Migrated
          THEN /\ channel' = [rest EXCEPT ![current] = Append(@, e)]
               /\ fate' = fate
          ELSE /\ channel' = rest
               /\ fate' = [fate EXCEPT ![e] = "dropped"]
    /\ UNCHANGED <<updateVars, sender, wakeToken, lifeVars, loopVars>>

Unwoken == wakeToken       \* the send into p.wake forgotten
WakeAfterResize == TRUE

EndResize ==
    /\ locked
    /\ channel[current - 1] = <<>>
    /\ locked' = FALSE /\ updating' = FALSE
    /\ wakeToken' = WakeAfterResize
    /\ UNCHANGED <<enabled, wanted, capacity, current, channel, sender, lifeVars, loopVars, fate>>

Update == (\E on \in BOOLEAN, size \in Sizes : Configure(on, size))
          \/ SameSize \/ BeginResize \/ Migrate \/ EndResize

----------------------------------------------------------------------------
(* Publish: the configuration is read without a lock, the send is made     *)
(* while the read lock is held.                                            *)

Ignore(e) ==
    /\ fate[e] = "new" /\ sender[e] = NoChannel
    /\ ~enabled
    /\ fate' = [fate EXCEPT ![e] = "refused"]
    /\ UNCHANGED <<updateVars, channel, sender, wakeToken, lifeVars, loopVars>>

BeginPublish(e) ==
    /\ fate[e] = "new" /\ sender[e] = NoChannel
    /\ enabled /\ ~locked
    /\ sender' = [sender EXCEPT ![e] = current]
    /\ UNCHANGED <<updateVars, channel, wakeToken, lifeVars, loopVars, fate>>

EndPublish(e) ==
    /\ sender[e] # NoChannel
    /\ sender' = [sender EXCEPT ![e] = NoChannel]
    /\ IF HasRoom(sender[e])
       THEN /\ channel' = [channel EXCEPT ![sender[e]] = Append(@, e)]
            /\ fate' = [fate EXCEPT ![e] = "accepted"]
       ELSE /\ fate' = [fate EXCEPT ![e] = "refused"]
            /\ channel' = channel
    /\ UNCHANGED <<updateVars, wakeToken, lifeVars, loopVars>>

Publish == \E e \in Events : Ignore(e) \/ BeginPublish(e) \/ EndPublish(e)

----------------------------------------------------------------------------
(* Start and Stop, which the worker registry calls one after the other. *)

FreshAtStart == [channel EXCEPT ![current] = <<>>]  \* each Start makes a channel
KeptAtStart == channel

Start ==
    /\ ~running /\ starts < MaxStarts
    /\ loop \in {"none", "gone"}
    /\ running' = TRUE /\ alive' = TRUE /\ starts' = starts + 1
    /\ loop' = "check" /\ draining' = FALSE
    /\ channel' = KeptAtStart
    /\ UNCHANGED <<updateVars, sender, wakeToken, source, inHand, url, tries, fate>>

Stop ==
    /\ running
    /\ running' = FALSE /\ alive' = FALSE
    /\ UNCHANGED <<starts, updateVars, channel, sender, wakeToken, loopVars, fate>>

----------------------------------------------------------------------------
(* The delivery goroutine. *)

Goto(label) ==
    /\ loop' = label
    /\ UNCHANGED <<updateVars, channel, sender, wakeToken, lifeVars, draining, source, inHand,
                   url, tries, fate>>

\* The context is looked at before every select.
CheckContext == loop = "check" /\ Goto(IF alive THEN "read" ELSE "drain")

ReadQueue ==
    /\ \/ loop = "read" /\ loop' = "select" /\ UNCHANGED draining
       \/ loop = "drain" /\ loop' = "rest" /\ draining' = TRUE
    /\ ~locked
    /\ source' = current
    /\ UNCHANGED <<updateVars, channel, sender, wakeToken, lifeVars, inHand, url, tries, fate>>

Receive ==
    /\ loop \in {"select", "rest"}
    /\ channel[source] # <<>>
    /\ inHand' = Head(channel[source])
    /\ channel' = [channel EXCEPT ![source] = Tail(@)]
    /\ loop' = "deliver" /\ url' = 1 /\ tries' = 0
    /\ UNCHANGED <<updateVars, sender, wakeToken, lifeVars, draining, source, fate>>

Woken ==
    /\ loop = "select" /\ wakeToken
    /\ wakeToken' = FALSE
    /\ loop' = "check"
    /\ UNCHANGED <<updateVars, channel, sender, lifeVars, draining, source, inHand, url, tries, fate>>

Unseen == FALSE     \* the select waits for events and the token only
ContextOver == ~alive
Cancelled == loop = "select" /\ ContextOver /\ Goto("drain")
Drained == loop = "rest" /\ channel[source] = <<>> /\ Goto("gone")

\* A cancelled context fails the request at once, and ends the retries.
NextUrl ==
    IF url < NumUrls
    THEN /\ url' = url + 1 /\ tries' = 0
         /\ UNCHANGED <<loop, inHand, fate>>
    ELSE /\ fate' = [fate EXCEPT ![inHand] = "done"]
         /\ inHand' = Nothing
         /\ loop' = IF draining THEN "rest" ELSE "check"
         /\ UNCHANGED <<url, tries>>

Post(ok) ==
    /\ loop = "deliver"
    /\ IF ok
       THEN alive /\ NextUrl
       ELSE IF tries < Retries /\ alive
            THEN tries' = tries + 1 /\ UNCHANGED <<loop, inHand, url, fate>>
            ELSE NextUrl
    /\ UNCHANGED <<updateVars, channel, sender, wakeToken, lifeVars, draining, source>>

Deliver == CheckContext \/ ReadQueue \/ Receive \/ Woken \/ Cancelled \/ Drained
           \/ \E ok \in BOOLEAN : Post(ok)

Next == Update \/ Publish \/ Start \/ Stop \/ Deliver
Spec == Init /\ [][Next]_vars

\* A goroutine that can go on does so; requests are bounded by a timeout.
Fairness ==
    /\ WF_vars(SameSize \/ BeginResize \/ Migrate \/ EndResize)
    /\ WF_vars(\E e \in Events : EndPublish(e))
    /\ WF_vars(Deliver)
FairSpec == Spec /\ Fairness

----------------------------------------------------------------------------
\* Type invariant.  No channel holds more than its capacity.
TypeOK ==
    /\ enabled \in BOOLEAN /\ updating \in BOOLEAN /\ locked \in BOOLEAN
    /\ wanted \in Sizes /\ current \in Generations
    /\ \A g \in Generations : /\ channel[g] \in Seq(Events)
                              /\ Len(channel[g]) <= capacity[g]
    /\ capacity \in [Generations -> Sizes]
    /\ sender \in [Events -> Generations \cup {NoChannel}]
    /\ wakeToken \in BOOLEAN
    /\ running \in BOOLEAN /\ alive \in BOOLEAN /\ starts \in 0 .. MaxStarts
    /\ loop \in {"none", "check", "read", "select", "deliver", "drain", "rest", "gone"}
    /\ draining \in BOOLEAN /\ source \in Generations
    /\ inHand \in Events \cup {Nothing}
    /\ url \in 1 .. NumUrls /\ tries \in 0 .. Retries
    /\ fate \in [Events -> {"new", "refused", "accepted", "dropped", "done"}]

\* queueMu: no event is ever in a channel that a resize has already emptied,
\* where nobody would find it.
RetiredChannelsEmpty ==
    \A g \in Generations :
        channel[g] # <<>> => g = current \/ (locked /\ g = current - 1)

\* An accepted event is in a channel or in the goroutine's hand, once: neither a
\* resize, a stop nor a restart loses it without a trace.
Places(e) ==
    (UNION {{g} \X {i \in DOMAIN channel[g] : channel[g][i] = e} : g \in Generations})
    \cup (IF inHand = e THEN {<<0, 0>>} ELSE {})
NoneVanishes ==
    \A e \in Events : Cardinality(Places(e)) = (IF fate[e] = "accepted" THEN 1 ELSE 0)

\* The goroutine never sleeps on a channel that was replaced without the token
\* that will wake it up.
WakeWhenStale == loop = "select" /\ source # current /\ ~locked => wakeToken

\* Only a resize to a smaller channel may drop an accepted event.
GrowingKeepsAll ==
    [][\A e \in Events : fate[e] = "accepted" /\ fate'[e] = "dropped" =>
            capacity[current] < capacity[current - 1]]_vars

\* While the publisher runs, an accepted event is handled, whatever resizes
\* come in between.
AcceptedIsHandled ==
    \A e \in Events : (fate[e] = "accepted" /\ running) ~> (fate[e] # "accepted" \/ ~running)

\* Stop's wait ends: the goroutine leaves once its context is cancelled.
StopEnds == ~alive ~> loop = "gone"
=============================================================================
