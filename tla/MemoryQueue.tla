---------------------------- MODULE MemoryQueue ----------------------------
(***************************************************************************)
(* The delivery half of the in-memory queue backend                        *)
(* (src/internal/queue/memoryqueue): one topic, its producers, and for     *)
(* every consumer group the goroutine started by Consumer.Start.           *)
(*                                                                         *)
(* A message is represented by its sequence number.  The ring buffer of    *)
(* the topic holds the messages low .. nextSeq-1 (module TopicRing models  *)
(* the array, Head and Tail themselves and is shown to implement exactly   *)
(* this interval).  A group has at most one live Consumer, because         *)
(* supervisor.run stops the old one and waits for it before it makes the   *)
(* next; a stopped Consumer stays in ts.Consumers, where its channel is    *)
(* never read again and a full channel blocks nobody, so only the live     *)
(* one has state here.                                                     *)
(*                                                                         *)
(* Producing is atomic (it holds mq.mu throughout).  The consumer takes    *)
(* one step per critical section, channel operation or handler call.       *)
(***************************************************************************)
EXTENDS Integers, Sequences

CONSTANTS Groups,        \* consumer groups subscribed to the topic
          Capacity,      \* defaultCapacity: slots of the ring (it holds one less)
          ChanCapacity,  \* buffer of a consumer's channel
          AttemptLimits, \* values SetDelivery may give MaxAttempts
          MaxMessages,   \* bound: messages produced
          MaxConsumers   \* bound: Consumers ever made for one group

ASSUME CapacityAssumption == Capacity \in Nat /\ Capacity >= 2
ASSUME ChanCapacityAssumption == ChanCapacity \in Nat \ {0}
ASSUME AttemptLimitsAssumption ==
          AttemptLimits \subseteq Nat \ {0} /\ AttemptLimits # {}
ASSUME BoundsAssumption == MaxMessages \in Nat /\ MaxConsumers \in Nat

VARIABLES
    nextSeq,     \* ts.NextSeq
    low,         \* oldest sequence number the ring still holds
    maxAttempts, \* deliveryConfig().MaxAttempts
    offset,      \* mq.offsets[g][topic]: next sequence number to consume
    pc,          \* where the group's consumer goroutine is
    mode,        \* which loop called process: replay or the live channel
    canceled,    \* Stop was called on the live Consumer
    ch,          \* its channel
    replayNext,  \* replayMsgs not yet handed to process:
    replayEnd,   \*   the interval replayNext .. replayEnd-1
    cur,         \* the message process works on
    limit,       \* MaxAttempts of the deliveryCfg process captured
    attempt,     \* attempt counter of process
    made,        \* Consumers made for the group so far
    disposed,    \* history: acknowledged after handling, as the contract asks
    overflowed,  \* history: never offered again because a buffer was full
    abandoned    \* history: in a replay that a Stop cut short

topicVars    == <<nextSeq, low, maxAttempts>>
positionVars == <<mode, replayNext, replayEnd, cur, limit, attempt>>
historyVars  == <<disposed, overflowed, abandoned>>
vars == <<topicVars, offset, pc, canceled, ch, positionVars, made, historyVars>>

PC == {"none", "created", "starting", "replaying", "looping", "checking",
       "handling", "backoff", "exited"}

Max2(a, b) == IF a >= b THEN a ELSE b

----------------------------------------------------------------------------
Init ==
    /\ nextSeq = 0
    /\ low = 0
    /\ maxAttempts \in AttemptLimits
    /\ offset = [g \in Groups |-> 0]
    /\ pc = [g \in Groups |-> "none"]
    /\ mode = [g \in Groups |-> "live"]
    /\ canceled = [g \in Groups |-> FALSE]
    /\ ch = [g \in Groups |-> <<>>]
    /\ replayNext = [g \in Groups |-> 0]
    /\ replayEnd = [g \in Groups |-> 0]
    /\ cur = [g \in Groups |-> 0]
    /\ limit \in [Groups -> {maxAttempts}]
    /\ attempt = [g \in Groups |-> 1]
    /\ made = [g \in Groups |-> 0]
    /\ disposed = [g \in Groups |-> {}]
    /\ overflowed = [g \in Groups |-> {}]
    /\ abandoned = [g \in Groups |-> {}]

(***************************************************************************)
(* Produce appends to the ring, which drops its oldest message when it is  *)
(* full, and offers the message to the channel of every registered         *)
(* Consumer without waiting: a full channel misses it.                     *)
(***************************************************************************)
Registered(g) == pc[g] # "none"
ChannelFull(g) == Len(ch[g]) >= ChanCapacity

Produce ==
    /\ nextSeq < MaxMessages
    /\ nextSeq' = nextSeq + 1
    /\ low' = IF nextSeq + 1 - low = Capacity THEN low + 1 ELSE low
    /\ ch' = [g \in Groups |-> IF Registered(g) /\ ~ChannelFull(g)
                                THEN Append(ch[g], nextSeq) ELSE ch[g]]
    /\ overflowed' = [g \in Groups |-> IF Registered(g) /\ ChannelFull(g)
                                THEN overflowed[g] \cup {nextSeq} ELSE overflowed[g]]
    /\ UNCHANGED <<maxAttempts, offset, pc, canceled, positionVars, made,
                   disposed, abandoned>>

\* SetDelivery swaps the delivery policy while consumers run.
SetDelivery ==
    /\ \E n \in AttemptLimits \ {maxAttempts} : maxAttempts' = n
    /\ UNCHANGED <<nextSeq, low, offset, pc, canceled, ch, positionVars, made, historyVars>>

----------------------------------------------------------------------------
(* Life cycle of a Consumer, as supervisor.run drives it.                  *)

\* NewConsumer registers a fresh channel.  The previous Consumer of the group
\* has been stopped and its goroutine has returned.
NewConsumer(g) ==
    /\ \/ pc[g] = "none"
       \/ pc[g] = "exited" /\ canceled[g]
    /\ made[g] < MaxConsumers
    /\ made' = [made EXCEPT ![g] = @ + 1]
    /\ pc' = [pc EXCEPT ![g] = "created"]
    /\ canceled' = [canceled EXCEPT ![g] = FALSE]
    /\ ch' = [ch EXCEPT ![g] = <<>>]
    /\ UNCHANGED <<topicVars, offset, positionVars, historyVars>>

Start(g) ==
    /\ pc[g] = "created"
    /\ pc' = [pc EXCEPT ![g] = "starting"]
    /\ UNCHANGED <<topicVars, offset, canceled, ch, positionVars, made, historyVars>>

\* Stop cancels the contexts; its wg.Wait is the guard of NewConsumer.
Stop(g) ==
    /\ pc[g] \notin {"none", "created"}
    /\ ~canceled[g]
    /\ made[g] < MaxConsumers \* bound: the last Consumer made is left running
    /\ canceled' = [canceled EXCEPT ![g] = TRUE]
    /\ UNCHANGED <<topicVars, offset, pc, ch, positionVars, made, historyVars>>

----------------------------------------------------------------------------
(* replay: the backlog is read under the lock, then processed in order.    *)

\* msg.Seq >= offset: the offset is the next sequence number to consume.
ReplayAfterOffset(g) == Max2(low, offset[g] + 1)  \* the offset as the last one consumed
ReplayFrom(g)        == Max2(low, offset[g])

ReplaySnapshot(g) ==
    /\ pc[g] = "starting"
    /\ replayNext' = [replayNext EXCEPT ![g] = ReplayFrom(g)]
    /\ replayEnd' = [replayEnd EXCEPT ![g] = nextSeq]
    /\ overflowed' = [overflowed EXCEPT ![g] = @ \cup (offset[g] .. low - 1)]
    /\ pc' = [pc EXCEPT ![g] = "replaying"]
    /\ UNCHANGED <<topicVars, offset, mode, canceled, ch, cur, limit, attempt, made,
                   disposed, abandoned>>

ReplayNext(g) ==
    /\ pc[g] = "replaying"
    /\ ~canceled[g]
    /\ replayNext[g] < replayEnd[g]
    /\ cur' = [cur EXCEPT ![g] = replayNext[g]]
    /\ replayNext' = [replayNext EXCEPT ![g] = @ + 1]
    /\ mode' = [mode EXCEPT ![g] = "replay"]
    /\ pc' = [pc EXCEPT ![g] = "checking"]
    /\ UNCHANGED <<topicVars, offset, canceled, ch, replayEnd, limit, attempt, made,
                   historyVars>>

\* Either every message was replayed, or ctx.Done() made replay return early:
\* run enters the live loop in both cases.
ReplayReturn(g) ==
    /\ pc[g] = "replaying"
    /\ canceled[g] \/ replayNext[g] = replayEnd[g]
    /\ abandoned' = [abandoned EXCEPT ![g] = @ \cup (replayNext[g] .. replayEnd[g] - 1)]
    /\ replayNext' = [replayNext EXCEPT ![g] = replayEnd[g]]
    /\ pc' = [pc EXCEPT ![g] = "looping"]
    /\ UNCHANGED <<topicVars, offset, mode, canceled, ch, replayEnd, cur, limit, attempt,
                   made, disposed, overflowed>>

----------------------------------------------------------------------------
(* The live loop.  Its select picks any ready case: a canceled Consumer    *)
(* with a message in its channel may still take the message.               *)

Receive(g) ==
    /\ pc[g] = "looping"
    /\ ch[g] # <<>>
    /\ cur' = [cur EXCEPT ![g] = Head(ch[g])]
    /\ ch' = [ch EXCEPT ![g] = Tail(@)]
    /\ mode' = [mode EXCEPT ![g] = "live"]
    /\ pc' = [pc EXCEPT ![g] = "checking"]
    /\ UNCHANGED <<topicVars, offset, canceled, replayNext, replayEnd, limit, attempt,
                   made, historyVars>>

LoopExit(g) ==
    /\ pc[g] = "looping"
    /\ canceled[g]
    /\ pc' = [pc EXCEPT ![g] = "exited"]
    /\ UNCHANGED <<topicVars, offset, canceled, ch, positionVars, made, historyVars>>

----------------------------------------------------------------------------
(* process *)

\* Where process returns to: true continues the calling loop, false ends the
\* live loop but is ignored by replay.
ReturnTrue(g)  == IF mode[g] = "replay" THEN "replaying" ELSE "looping"
ReturnFalse(g) == IF mode[g] = "replay" THEN "replaying" ELSE "exited"

NeverProcessed(g)   == FALSE  \* no check against the offset
AlreadyProcessed(g) == cur[g] < offset[g]

SkipProcessed(g) ==
    /\ pc[g] = "checking"
    /\ AlreadyProcessed(g)
    /\ pc' = [pc EXCEPT ![g] = ReturnTrue(g)]
    /\ UNCHANGED <<topicVars, offset, canceled, ch, positionVars, made, historyVars>>

RetriesOnly   == maxAttempts - 1  \* the first delivery not counted as an attempt
CapturedLimit == maxAttempts

BeginProcess(g) ==
    /\ pc[g] = "checking"
    /\ ~AlreadyProcessed(g)
    /\ limit' = [limit EXCEPT ![g] = CapturedLimit]
    /\ attempt' = [attempt EXCEPT ![g] = 1]
    /\ pc' = [pc EXCEPT ![g] = "handling"]
    /\ UNCHANGED <<topicVars, offset, mode, canceled, ch, replayNext, replayEnd, cur,
                   made, historyVars>>

\* advanceOffset followed by return true.
AdvanceOffset(g) ==
    /\ offset' = [offset EXCEPT ![g] = Max2(@, cur[g] + 1)]
    /\ disposed' = [disposed EXCEPT ![g] = @ \cup {cur[g]}]
    /\ pc' = [pc EXCEPT ![g] = ReturnTrue(g)]
    /\ UNCHANGED <<topicVars, canceled, ch, positionVars, made, overflowed, abandoned>>

HandlerSucceeds(g) ==
    /\ pc[g] = "handling"
    /\ AdvanceOffset(g)

\* A permanent error is acknowledged, unless the Consumer is being stopped.
HandlerFailsForGood(g) ==
    /\ pc[g] = "handling"
    /\ ~canceled[g]
    /\ AdvanceOffset(g)

\* Any other error is acknowledged only as poison, when the attempts are used up.
AttemptsExhausted(g) == attempt[g] >= limit[g]

DiscardPoison(g) ==
    /\ pc[g] = "handling"
    /\ ~canceled[g]
    /\ AttemptsExhausted(g)
    /\ AdvanceOffset(g)

HandlerFailsRetryable(g) ==
    /\ pc[g] = "handling"
    /\ ~canceled[g]
    /\ ~AttemptsExhausted(g)
    /\ pc' = [pc EXCEPT ![g] = "backoff"]
    /\ UNCHANGED <<topicVars, offset, canceled, ch, positionVars, made, historyVars>>

\* process returns false: during a replay the message is left behind with the
\* rest of the backlog.
GiveUp(g) ==
    /\ canceled[g]
    /\ pc' = [pc EXCEPT ![g] = ReturnFalse(g)]
    /\ abandoned' = [abandoned EXCEPT ![g] =
                        IF mode[g] = "replay" THEN @ \cup {cur[g]} ELSE @]
    /\ UNCHANGED <<topicVars, offset, canceled, ch, positionVars, made,
                   disposed, overflowed>>

HandlerFailsCanceled(g) == pc[g] = "handling" /\ GiveUp(g)
BackoffCanceled(g)      == pc[g] = "backoff" /\ GiveUp(g)

SameAttempt(g) == attempt[g]  \* the counter not advanced
NextAttempt(g) == attempt[g] + 1

BackoffElapses(g) ==
    /\ pc[g] = "backoff"
    /\ attempt' = [attempt EXCEPT ![g] = NextAttempt(g)]
    /\ pc' = [pc EXCEPT ![g] = "handling"]
    /\ UNCHANGED <<topicVars, offset, mode, canceled, ch, replayNext, replayEnd, cur,
                   limit, made, historyVars>>

\* A panicking handler unwinds run; utils.Recover in Start swallows it and the
\* goroutine is gone, with the Consumer still registered.
HandlerPanics(g) ==
    /\ pc[g] = "handling"
    /\ pc' = [pc EXCEPT ![g] = "exited"]
    /\ UNCHANGED <<topicVars, offset, canceled, ch, positionVars, made, historyVars>>

----------------------------------------------------------------------------
\* The steps of a consumer goroutine and of the supervisor that owns it, which
\* nothing outside the process has to trigger.
Run(g) ==
    \/ NewConsumer(g) \/ Start(g)
    \/ ReplaySnapshot(g) \/ ReplayNext(g) \/ ReplayReturn(g)
    \/ Receive(g) \/ LoopExit(g)
    \/ SkipProcessed(g) \/ BeginProcess(g)
    \/ HandlerSucceeds(g) \/ HandlerFailsForGood(g) \/ DiscardPoison(g)
    \/ HandlerFailsRetryable(g) \/ HandlerFailsCanceled(g) \/ HandlerPanics(g)
    \/ BackoffElapses(g) \/ BackoffCanceled(g)

Next ==
    \/ Produce
    \/ SetDelivery
    \/ \E g \in Groups : Stop(g) \/ Run(g)

Spec == Init /\ [][Next]_vars

\* The Go scheduler runs every goroutine that can run, handlers return and
\* timers fire.  Nobody has to produce, stop a consumer or change the policy.
Fairness == \A g \in Groups : WF_vars(Run(g))
FairSpec == Spec /\ Fairness

----------------------------------------------------------------------------
\* Type invariant.  The limit process compares with is always one that SetDelivery
\* accepts, and the ring never holds more than Capacity - 1 messages.
TypeOK ==
    /\ nextSeq \in Nat
    /\ low \in 0 .. nextSeq
    /\ nextSeq - low < Capacity
    /\ maxAttempts \in AttemptLimits
    /\ offset \in [Groups -> Nat]
    /\ pc \in [Groups -> PC]
    /\ mode \in [Groups -> {"replay", "live"}]
    /\ canceled \in [Groups -> BOOLEAN]
    /\ ch \in [Groups -> Seq(Nat)]
    /\ replayNext \in [Groups -> Nat]
    /\ replayEnd \in [Groups -> Nat]
    /\ cur \in [Groups -> Nat]
    /\ limit \in [Groups -> AttemptLimits]
    /\ attempt \in [Groups -> Nat \ {0}]
    /\ made \in [Groups -> Nat]
    /\ disposed \in [Groups -> SUBSET Nat]
    /\ overflowed \in [Groups -> SUBSET Nat]
    /\ abandoned \in [Groups -> SUBSET Nat]

(***************************************************************************)
(* The offset of a group never passes a message that was not acknowledged  *)
(* after handling, except one that a full buffer dropped or that belonged  *)
(* to a replay cut short by Stop.  This is what relates replay, the live   *)
(* channel and alreadyProcessed: each alone would skip messages.           *)
(***************************************************************************)
AckedInOrder ==
    \A g \in Groups : \A s \in 0 .. offset[g] - 1 :
        s \in disposed[g] \cup overflowed[g] \cup abandoned[g]

(***************************************************************************)
(* replay and the live channel both surface a message produced between     *)
(* NewConsumer and the replay snapshot; the handler never gets a message   *)
(* that the group has acknowledged already.                                *)
(***************************************************************************)
NoDeliveryAfterAck ==
    \A g \in Groups :
        pc[g] \in {"handling", "backoff"} => cur[g] \notin disposed[g]

(***************************************************************************)
(* delivery.go:6-9: a failure that is not permanent leaves the message     *)
(* unacknowledged "so it is redelivered".  With buffers that never fill up *)
(* the offset then never passes a message that was not acknowledged.       *)
(***************************************************************************)
AtLeastOnce ==
    \A g \in Groups : \A s \in 0 .. offset[g] - 1 :
        s \in disposed[g] \cup overflowed[g]

(***************************************************************************)
(* A message is eventually consumed: restarts, failing handlers and poison *)
(* messages delay a group but do not block it.  Only a full buffer or a    *)
(* handler that panicked (the goroutine is gone and nobody restarts it     *)
(* until the next backend change) keeps a message from its group.          *)
(***************************************************************************)
Panicked(g) == pc[g] = "exited" /\ ~canceled[g]

EventuallyConsumed ==
    \A g \in Groups : \A s \in 0 .. MaxMessages - 1 :
        nextSeq > s ~> (offset[g] > s \/ s \in overflowed[g] \/ Panicked(g))
============================================================================
