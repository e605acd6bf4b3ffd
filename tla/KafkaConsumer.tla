--------------------------- MODULE KafkaConsumer ---------------------------
(***************************************************************************)
(* The Kafka consumer (src/internal/queue/kafka/consumer.go) on one        *)
(* partition, under the delivery contract of                               *)
(* src/internal/queue/delivery/delivery.go.  The group session belongs to  *)
(* the client library: it starts at the offset the group committed, hands  *)
(* out messages in order, commits what was marked from time to time and    *)
(* when it ends, and ends as soon as ConsumeClaim returns.                 *)
(***************************************************************************)
EXTENDS Integers

CONSTANTS MaxMessages,      \* bound: messages produced
          MaxAttempts,      \* deliveryCfg.MaxAttempts
          Panics,           \* offsets of the messages whose handler panics
          NewGroup,         \* the group has never committed an offset
          MaxInterruptions  \* bound: rebalances, restarts and crashes

ASSUME KafkaAssumption ==
    /\ MaxMessages \in Nat
    /\ MaxAttempts \in Nat \ {0}
    /\ Panics \subseteq Nat
    /\ NewGroup \in BOOLEAN
    /\ MaxInterruptions \in Nat

MessageOffsets == 0 .. MaxMessages - 1
NoOffset == -1
Offsets == Nat \cup {NoOffset}

VARIABLES
    log,        \* messages in the partition; they have the offsets 0 .. log - 1
    committed,  \* the group's committed offset
    marked,     \* what the session will commit
    pc,         \* where ConsumeClaim and the loop around it are
    position,   \* the message handed out, or to be handed out next
    canceled,   \* handlerCtx is canceled
    attempts,   \* attemptCounts
    settled,    \* history: messages handled, failed permanently or discarded
    failed,     \* history: messages that were to be redelivered
    interruptions

sessionVars == <<committed, marked, position>>
historyVars == <<settled, failed>>
vars == <<log, sessionVars, pc, canceled, attempts, historyVars, interruptions>>

Init ==
    /\ log = 0
    /\ committed = IF NewGroup THEN NoOffset ELSE 0
    /\ marked = NoOffset
    /\ pc = "joining"
    /\ position = 0
    /\ canceled = FALSE
    /\ attempts = [m \in MessageOffsets |-> 0]
    /\ settled = {}
    /\ failed = {}
    /\ interruptions = 0

InSession == pc \in {"claim", "handling", "backoff", "leaving"}
Goto(place) == pc' = place

Produce ==
    /\ log < MaxMessages
    /\ log' = log + 1
    /\ UNCHANGED <<sessionVars, pc, canceled, attempts, historyVars, interruptions>>

----------------------------------------------------------------------------
(* Start: the loop around Consume *)

\* Offsets.Initial is OffsetNewest, for a group that committed nothing.
FromNewest    == log
LastCommitted == committed - 1
StartOffset == IF committed = NoOffset THEN log ELSE committed

Join ==
    /\ pc = "joining"
    /\ position' = StartOffset
    /\ marked' = NoOffset
    /\ Goto("claim")
    /\ UNCHANGED <<log, committed, canceled, attempts, historyVars, interruptions>>

Marked == IF marked = NoOffset THEN committed ELSE marked

AutoCommit ==
    /\ InSession
    /\ marked # NoOffset
    /\ committed' = marked
    /\ UNCHANGED <<log, marked, position, pc, canceled, attempts, historyVars, interruptions>>

\* The last commit is refused if the group has moved on without this member.
Leave ==
    /\ pc = "leaving"
    /\ committed' \in {committed, Marked}
    /\ Goto(IF canceled THEN "stopped" ELSE "joining")
    /\ UNCHANGED <<log, marked, position, canceled, attempts, historyVars, interruptions>>

----------------------------------------------------------------------------
(* ConsumeClaim *)

Take ==
    /\ pc = "claim"
    /\ position < log
    /\ Goto("handling")
    /\ UNCHANGED <<log, sessionVars, canceled, attempts, historyVars, interruptions>>

SeesCancel ==
    /\ pc = "claim"
    /\ canceled
    /\ Goto("leaving")
    /\ UNCHANGED <<log, sessionVars, canceled, attempts, historyVars, interruptions>>

\* The library closes the message channel when another member joins or leaves.
Rebalance ==
    /\ pc = "claim"
    /\ interruptions < MaxInterruptions
    /\ interruptions' = interruptions + 1
    /\ Goto("leaving")
    /\ UNCHANGED <<log, sessionVars, canceled, attempts, historyVars>>

\* A mark says where the group goes on.
MarkOffset  == position      \* the message itself
MarkMessage == position + 1

Acknowledge ==
    /\ marked' = MarkMessage
    /\ attempts' = [attempts EXCEPT ![position] = 0]
    /\ settled' = settled \cup {position}
    /\ position' = position + 1
    /\ Goto("claim")
    /\ UNCHANGED <<log, committed, canceled, failed, interruptions>>

\* The handler returns no error, or a permanent one.
Handled ==
    /\ pc = "handling"
    /\ position \notin Panics
    /\ Acknowledge

Canceled ==
    /\ pc = "handling"
    /\ position \notin Panics
    /\ canceled
    /\ Goto("leaving")
    /\ UNCHANGED <<log, sessionVars, canceled, attempts, historyVars, interruptions>>

RetryOf(n) == n  \* the count is not kept from one delivery to the next
Counted(n) == n + 1
Attempt == Counted(attempts[position])

\* Any other error, at shutdown too.
Discard ==
    /\ pc = "handling"
    /\ position \notin Panics
    /\ Attempt >= MaxAttempts
    /\ Acknowledge

Fails ==
    /\ pc = "handling"
    /\ position \notin Panics
    /\ Attempt < MaxAttempts
    /\ attempts' = [attempts EXCEPT ![position] = Attempt]
    /\ failed' = failed \cup {position}
    /\ Goto("backoff")
    /\ UNCHANGED <<log, sessionVars, canceled, settled, interruptions>>

BackoffOver ==
    /\ pc = "backoff"
    /\ Goto("leaving")
    /\ UNCHANGED <<log, sessionVars, canceled, attempts, historyVars, interruptions>>

\* utils.Recover ends ConsumeClaim without an error, and nothing was recorded.
HandlerPanics ==
    /\ pc = "handling"
    /\ position \in Panics
    /\ Goto("leaving")
    /\ UNCHANGED <<log, sessionVars, canceled, attempts, historyVars, interruptions>>

----------------------------------------------------------------------------
(* Stop, a new consumer, and a crash *)

Stop ==
    /\ ~canceled
    /\ interruptions < MaxInterruptions
    /\ interruptions' = interruptions + 1
    /\ canceled' = TRUE
    /\ pc' = IF pc = "joining" THEN "stopped" ELSE pc
    /\ UNCHANGED <<log, sessionVars, attempts, historyVars>>

\* The supervisor makes a new consumer, with counts of its own.
NewConsumer ==
    /\ pc = "stopped"
    /\ canceled' = FALSE
    /\ attempts' = [m \in MessageOffsets |-> 0]
    /\ Goto("joining")
    /\ UNCHANGED <<log, sessionVars, historyVars, interruptions>>

Crash ==
    /\ interruptions < MaxInterruptions
    /\ interruptions' = interruptions + 1
    /\ canceled' = TRUE
    /\ Goto("stopped")
    /\ UNCHANGED <<log, sessionVars, attempts, historyVars>>

----------------------------------------------------------------------------
ConsumerStep ==
    \/ Join \/ Leave \/ Take \/ SeesCancel
    \/ Handled \/ Canceled \/ Discard \/ Fails \/ BackoffOver \/ HandlerPanics
    \/ NewConsumer

Next ==
    \/ Produce \/ AutoCommit \/ Rebalance \/ Stop \/ Crash
    \/ ConsumerStep

Spec == Init /\ [][Next]_vars

\* The consumer's goroutine runs and its handlers return; nothing else has to happen.
Fairness == WF_vars(ConsumerStep)
FairSpec == Spec /\ Fairness

----------------------------------------------------------------------------
\* Type invariant of the partition, the session and the consumer.
TypeOK ==
    /\ log \in Nat
    /\ committed \in Offsets
    /\ marked \in Offsets
    /\ pc \in {"joining", "claim", "handling", "backoff", "leaving", "stopped"}
    /\ position \in Nat
    /\ canceled \in BOOLEAN
    /\ attempts \in [MessageOffsets -> Nat]
    /\ settled \subseteq Nat
    /\ failed \subseteq Nat
    /\ interruptions \in Nat

(***************************************************************************)
(* The group's offset never passes a message that was neither handled, nor *)
(* failed permanently, nor discarded, whatever is committed when, and      *)
(* wherever a session, a consumer or the process ends.                     *)
(***************************************************************************)
CommittedSettled == \A m \in 0 .. committed - 1 : m \in settled

(***************************************************************************)
(* consumer.go:232: "the claim exit forces a rebalance and the message is  *)
(* redelivered from the last committed offset".  A message that is to be   *)
(* redelivered is not behind the position of a session.                    *)
(***************************************************************************)
FailedRedelivered ==
    InSession => \A m \in failed \ settled : position <= m

(***************************************************************************)
(* delivery.go:6: "When a message exceeds MaxAttempts it is treated as     *)
(* poison: discarded with an error log so it cannot block the queue        *)
(* forever."  Every message is settled in the end, unless it is, or comes  *)
(* after, one whose handler panics: that one is never counted.             *)
(***************************************************************************)
EverythingSettled ==
    \A m \in MessageOffsets :
        (\A n \in Panics : n > m) => (log > m ~> m \in settled)
=============================================================================
