------------------------------ MODULE TopicLog ------------------------------
(***************************************************************************)
(* What a topic of the in-memory queue promises, without its array: it     *)
(* keeps the messages low .. nextSeq-1, the newest Capacity-1 of those     *)
(* produced, and a restart brings back the interval that was saved last.   *)
(* MemoryQueue is written against this interval; TopicRing implements it.  *)
(***************************************************************************)
EXTENDS Integers

CONSTANT Capacity

VARIABLES low,       \* the oldest message kept
          nextSeq,   \* the sequence number of the next message
          savedLow,  \* the interval in the database
          savedNext

vars == <<low, nextSeq, savedLow, savedNext>>

Init == low = 0 /\ nextSeq = 0 /\ savedLow = 0 /\ savedNext = 0

Append ==
    /\ nextSeq' = nextSeq + 1
    /\ low' = IF nextSeq + 1 - low = Capacity THEN low + 1 ELSE low
    /\ UNCHANGED <<savedLow, savedNext>>

Save ==
    /\ savedLow' = low
    /\ savedNext' = nextSeq
    /\ UNCHANGED <<low, nextSeq>>

Restore ==
    /\ low' = savedLow
    /\ nextSeq' = savedNext
    /\ UNCHANGED <<savedLow, savedNext>>

Next == Append \/ Save \/ Restore
Spec == Init /\ [][Next]_vars
=============================================================================
