------------------------------ MODULE TopicRing ------------------------------
(***************************************************************************)
(* The ring buffer of one topic (topicState in                             *)
(* src/internal/queue/memoryqueue/queue.go): an array with Head and Tail,  *)
(* the serialization of its messages, and their reinsertion by Recover.    *)
(* A message is its sequence number.  Saving is one step here; module      *)
(* MemoryQueueDurability takes it apart.                                   *)
(***************************************************************************)
EXTENDS Integers

CONSTANTS Capacity,    \* defaultCapacity
          MaxMessages  \* bound: NextSeq

ASSUME CapacityAssumption == Capacity \in Nat /\ Capacity >= 2
ASSUME MaxMessagesAssumption == MaxMessages \in Nat

VARIABLES messages,  \* ts.Messages
          head,      \* ts.Head
          tail,      \* ts.Tail
          nextSeq,   \* ts.NextSeq
          savedMessages, \* the snapshot in the database: Messages,
          savedCount,    \*   how many they are,
          savedNext      \*   and NextSeq

vars == <<messages, head, tail, nextSeq, savedMessages, savedCount, savedNext>>

Slots == 0 .. Capacity - 1
Nil == -1

EmptySlots == [i \in Slots |-> Nil]

Init ==
    /\ messages = EmptySlots
    /\ head = 0 /\ tail = 0 /\ nextSeq = 0
    /\ savedMessages = EmptySlots
    /\ savedCount = 0 /\ savedNext = 0

Unwrapped(i) == i + 1  \* the index not taken modulo Capacity
NextIndex(i) == (i + 1) % Capacity

\* Head moves on, dropping the oldest message, when Tail catches up with it.
KeepHead(newTail) == head  \* Tail runs past Head
NextHead(newTail) == IF newTail = head THEN NextIndex(head) ELSE head

Produce ==
    /\ nextSeq < MaxMessages
    /\ messages' = [messages EXCEPT ![tail] = nextSeq]
    /\ tail' = NextIndex(tail)
    /\ head' = NextHead(tail')
    /\ nextSeq' = nextSeq + 1
    /\ UNCHANGED <<savedMessages, savedCount, savedNext>>

\* Messages between Head and Tail, oldest first.
Count == (tail - head + Capacity) % Capacity

FromSlotZero(i) == messages[i]  \* Head not taken into account
Backlog(i) == messages[(head + i) % Capacity]

\* serializeTopicMessages leaves out empty slots; NoHoles says there are none
\* between Head and Tail, so the i-th message saved is the i-th of the backlog.
Save ==
    /\ savedMessages' = [i \in Slots |-> IF i < Count THEN Backlog(i) ELSE Nil]
    /\ savedCount' = Count
    /\ savedNext' = nextSeq
    /\ UNCHANGED <<messages, head, tail, nextSeq>>

\* The process restarts and Recover rebuilds the topic from the database.
RecoveredTail == savedCount % Capacity

Recover ==
    /\ messages' = savedMessages
    /\ head' = 0
    /\ tail' = RecoveredTail
    /\ nextSeq' = savedNext
    /\ UNCHANGED <<savedMessages, savedCount, savedNext>>

Next == Produce \/ Save \/ Recover
Spec == Init /\ [][Next]_vars

----------------------------------------------------------------------------
\* Type invariant.  Head and Tail index the array.
TypeOK ==
    /\ messages \in [Slots -> Nat \cup {Nil}]
    /\ head \in Slots /\ tail \in Slots
    /\ nextSeq \in Nat
    /\ savedMessages \in [Slots -> Nat \cup {Nil}]
    /\ savedCount \in Slots
    /\ savedNext \in Nat

\* Replaying or serializing the ring from Head to Tail meets no empty slot, and
\* yields the latest messages in the order they were produced, without a gap:
\* across wrap-around, overwriting and recovery.
NoHoles == \A i \in 0 .. Count - 1 : Backlog(i) = nextSeq - Count + i

\* A recovered ring holds what was saved: filling the array from slot 0 can never
\* reach the full Capacity, where Tail would wrap to Head and the ring look empty.
SavedFits ==
    /\ savedCount <= savedNext
    /\ \A i \in 0 .. savedCount - 1 : savedMessages[i] = savedNext - savedCount + i

\* Neither the ring nor what is saved of it ever has a gap or a message too many.
RingSound == NoHoles /\ SavedFits

\* The ring implements the interval log: it always holds the newest Capacity-1
\* messages, and after a restart those of the last save.
OldestKept(count, next, oldest) == IF count = 0 THEN next ELSE oldest

Log == INSTANCE TopicLog WITH
          low <- OldestKept(Count, nextSeq, messages[head]),
          savedLow <- OldestKept(savedCount, savedNext, savedMessages[0])

ImplementsTopicLog == Log!Spec
=============================================================================
