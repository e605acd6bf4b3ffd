---------------------------- MODULE CrawlerProofs ----------------------------
(***************************************************************************)
(* The ring buffer implements the interval log, for every Capacity; what   *)
(* the crawler counts agrees with what it has seen, across restarts; and   *)
(* no entry of the log is lost, doubled or overtaken on its way to few     *)
(* files.                                                                  *)
(***************************************************************************)
EXTENDS MCCrawler, SequenceTheorems, FiniteSetTheorems, WellFoundedInduction, TLAPS

Inv ==
    /\ TypeOK
    /\ Count <= nextSeq
    /\ NoHoles
    /\ SavedFits

----------------------------------------------------------------------------
\* Indices are sums of two slots, so the remainder subtracts Capacity at most once.
LEMMA Wrap ==
  ASSUME NEW a \in Nat, a < Capacity + Capacity
  PROVE  a % Capacity = IF a < Capacity THEN a ELSE a - Capacity
<1>1. Capacity \in Nat \ {0}
  BY CapacityAssumption
<1>2. CASE a < Capacity
  BY <1>1, <1>2
<1>3. CASE ~(a < Capacity)
  BY <1>1, <1>3
<1>4. QED
  BY <1>2, <1>3

LEMMA Distance ==
  ASSUME NEW h \in Slots, NEW t \in Slots
  PROVE  (t - h + Capacity) % Capacity = IF t >= h THEN t - h ELSE t - h + Capacity
<1> DEFINE d == t - h + Capacity
<1>1. d \in Nat /\ d < Capacity + Capacity
  BY CapacityAssumption DEF Slots
<1>2. d % Capacity = IF d < Capacity THEN d ELSE d - Capacity
  <2> HIDE DEF d
  <2> QED BY <1>1, Wrap
<1>3. (IF d < Capacity THEN d ELSE d - Capacity) = IF t >= h THEN t - h ELSE t - h + Capacity
  BY CapacityAssumption DEF Slots
<1>4. QED
  BY <1>2, <1>3, Zenon

LEMMA CountValue ==
  ASSUME TypeOK
  PROVE  Count = IF tail >= head THEN tail - head ELSE tail - head + Capacity
<1>1. head \in Slots /\ tail \in Slots
  BY DEF TypeOK
<1>2. QED
  BY <1>1, Distance, Zenon DEF Count

LEMMA Sum ==
  ASSUME NEW h \in Slots, NEW i \in Slots
  PROVE  (h + i) % Capacity = IF h + i < Capacity THEN h + i ELSE (h + i) - Capacity
<1>1. h + i \in Nat /\ h + i < Capacity + Capacity
  BY CapacityAssumption DEF Slots
<1>2. QED
  BY <1>1, Wrap, Zenon

LEMMA BacklogValue ==
  ASSUME TypeOK, NEW i \in Slots
  PROVE  Backlog(i) = messages[IF head + i < Capacity THEN head + i ELSE (head + i) - Capacity]
<1>1. (head + i) % Capacity = IF head + i < Capacity THEN head + i ELSE (head + i) - Capacity
  BY Sum DEF TypeOK
<1>2. QED
  BY <1>1, Zenon DEF Backlog

LEMMA NextIndexValue ==
  ASSUME NEW i \in Slots
  PROVE  NextIndex(i) = IF i + 1 < Capacity THEN i + 1 ELSE 0
<1>1. i + 1 \in Nat /\ i + 1 < Capacity + Capacity
  BY CapacityAssumption DEF Slots
<1>2. QED
  BY <1>1, Wrap, CapacityAssumption DEF NextIndex, Slots

----------------------------------------------------------------------------
LEMMA TypeNext == TypeOK /\ [Next]_vars => TypeOK'
<1> SUFFICES ASSUME TypeOK, [Next]_vars PROVE TypeOK'
  OBVIOUS
<1> USE CapacityAssumption DEF TypeOK, Slots
<1>1. CASE Produce
  <2>1. NextIndex(tail) \in Slots /\ NextIndex(head) \in Slots
    BY NextIndexValue
  <2>2. QED
    BY <1>1, <2>1 DEF Produce, NextHead
<1>2. CASE Save
  <2>1. Count \in Slots
    BY CountValue
  <2>2. \A i \in Slots : Backlog(i) \in Nat \cup {Nil}
    BY BacklogValue
  <2>3. QED
    BY <1>2, <2>1, <2>2 DEF Save
<1>3. CASE Recover
  <2>1. savedCount % Capacity = savedCount
    <3> savedCount \in Nat /\ savedCount < Capacity /\ savedCount < Capacity + Capacity
      OBVIOUS
    <3> HIDE DEF TypeOK
    <3> QED BY Wrap
  <2>2. QED
    BY <1>3, <2>1 DEF Recover, RecoveredTail
<1>4. CASE UNCHANGED vars
  BY <1>4 DEF vars
<1>5. QED
  BY <1>1, <1>2, <1>3, <1>4 DEF Next

\* A produced message adds one to the backlog, or replaces its oldest message.
LEMMA ProduceCount ==
  ASSUME TypeOK, TypeOK', Produce
  PROVE  /\ Count' = IF Count + 1 = Capacity THEN Count ELSE Count + 1
         /\ head' = IF Count + 1 = Capacity THEN NextIndex(head) ELSE head
<1> USE CapacityAssumption DEF TypeOK, Slots
<1>1. tail' = NextIndex(tail) /\ head' = IF tail' = head THEN NextIndex(head) ELSE head
  BY DEF Produce, NextHead
<1>2. /\ NextIndex(tail) = IF tail + 1 < Capacity THEN tail + 1 ELSE 0
      /\ NextIndex(head) = IF head + 1 < Capacity THEN head + 1 ELSE 0
  BY NextIndexValue
<1>3. Count = IF tail >= head THEN tail - head ELSE tail - head + Capacity
  BY CountValue
<1>4. Count' = IF tail' >= head' THEN tail' - head' ELSE tail' - head' + Capacity
  <2>1. head' \in Slots /\ tail' \in Slots
    OBVIOUS
  <2>2. QED
    BY <2>1, Distance, Zenon DEF Count
<1>5. tail' = head <=> Count + 1 = Capacity
  BY <1>1, <1>2, <1>3
<1>6. Count \in Slots
  BY <1>3
<1>7. CASE Count + 1 = Capacity
  BY <1>1, <1>2, <1>3, <1>4, <1>5, <1>7
<1>8. CASE Count + 1 # Capacity
  BY <1>1, <1>2, <1>3, <1>4, <1>5, <1>8
<1>9. QED
  BY <1>7, <1>8

----------------------------------------------------------------------------
\* The array index of the i-th message of the backlog.
Index(i) == IF head + i < Capacity THEN head + i ELSE (head + i) - Capacity

LEMMA BacklogIndex ==
  ASSUME TypeOK, NEW i \in Slots
  PROVE  Backlog(i) = messages[Index(i)] /\ Index(i) \in Slots
  BY BacklogValue, CapacityAssumption DEF Index, TypeOK, Slots

LEMMA BacklogIndexPrimed ==
  ASSUME TypeOK', NEW i \in Slots
  PROVE  Backlog(i)' = messages'[Index(i)']
<1>1. (head' + i) % Capacity = IF head' + i < Capacity THEN head' + i ELSE (head' + i) - Capacity
  BY Sum DEF TypeOK
<1>2. QED
  BY <1>1, Zenon DEF Backlog, Index

LEMMA ProduceNoHoles ==
  ASSUME Inv, TypeOK', Produce
  PROVE  Count' <= nextSeq' /\ NoHoles'
<1> USE CapacityAssumption
<1>1. TypeOK
  BY DEF Inv
<1>2. /\ head \in Slots /\ tail \in Slots /\ nextSeq \in Nat
      /\ messages \in [Slots -> Nat \cup {Nil}] /\ head' \in Slots /\ tail' \in Slots
  BY <1>1 DEF TypeOK
<1>3. /\ messages' = [messages EXCEPT ![tail] = nextSeq] /\ nextSeq' = nextSeq + 1
  BY DEF Produce
<1>4. /\ Count' = IF Count + 1 = Capacity THEN Count ELSE Count + 1
      /\ head' = IF Count + 1 = Capacity THEN NextIndex(head) ELSE head
  BY <1>1, ProduceCount
<1>5. NextIndex(head) = IF head + 1 < Capacity THEN head + 1 ELSE 0
  BY <1>2, NextIndexValue
<1>6. Count = IF tail >= head THEN tail - head ELSE tail - head + Capacity
  BY <1>1, CountValue
<1>7. Count \in Slots /\ Count <= nextSeq
  BY <1>2, <1>6 DEF Inv, Slots
<1>8. Index(Count) = tail
  BY <1>2, <1>6 DEF Index, Slots
<1>9. \A i \in Slots : i < Count => Index(i) \in Slots /\ Index(i) # tail
  BY <1>2, <1>6 DEF Index, Slots
<1>10. \A i \in Slots : i < Count => messages[Index(i)] = nextSeq - Count + i
  <2> SUFFICES ASSUME NEW i \in Slots, i < Count PROVE messages[Index(i)] = nextSeq - Count + i
    OBVIOUS
  <2>1. i \in 0 .. Count - 1
    BY <1>7 DEF Slots
  <2>2. Backlog(i) = nextSeq - Count + i
    BY <2>1 DEF Inv, NoHoles
  <2>3. QED
    BY <1>1, <2>2, BacklogIndex
<1>11. Count' \in Slots /\ Count' <= nextSeq'
  BY <1>3, <1>4, <1>7, <1>2 DEF Slots
<1>12. SUFFICES ASSUME NEW i \in 0 .. Count' - 1
               PROVE  messages'[Index(i)'] = nextSeq' - Count' + i
  <2>1. \A c \in Slots : \A i \in 0 .. c - 1 : i \in Slots
    BY DEF Slots
  <2>2. \A i \in 0 .. Count' - 1 : i \in Slots
    BY <1>11, <2>1, Zenon
  <2>3. QED
    BY <2>2, <1>11, BacklogIndexPrimed, Zenon DEF NoHoles
<1>13. CASE Count + 1 # Capacity
  <2>1. Count' = Count + 1 /\ head' = head
    BY <1>4, <1>13
  <2>2. Index(i)' = Index(i)
    BY <2>1, Zenon DEF Index
  <2>3. CASE i = Count
    BY <1>2, <1>3, <1>7, <1>8, <2>1, <2>2, <2>3 DEF Slots
  <2>4. CASE i # Count
    <3>1. i \in Slots /\ i < Count
      BY <1>7, <2>1, <2>4 DEF Slots
    <3>2. messages'[Index(i)] = messages[Index(i)]
      BY <1>2, <1>3, <1>9, <3>1
    <3>3. QED
      BY <1>2, <1>3, <1>7, <1>10, <2>1, <2>2, <3>1, <3>2 DEF Slots
  <2>5. QED
    BY <2>3, <2>4
<1>14. CASE Count + 1 = Capacity
  <2>1. Count' = Count /\ head' = IF head + 1 < Capacity THEN head + 1 ELSE 0
    BY <1>4, <1>5, <1>14
  <2>2. i + 1 \in Slots /\ i + 1 <= Count
    BY <1>7, <2>1 DEF Slots
  <2>3. Index(i)' = IF head' + i < Capacity THEN head' + i ELSE (head' + i) - Capacity
    BY Zenon DEF Index
  <2>4. Index(i)' = Index(i + 1)
    BY <1>2, <2>1, <2>2, <2>3 DEF Index, Slots
  <2>5. CASE i + 1 = Count
    BY <1>2, <1>3, <1>7, <1>8, <2>1, <2>4, <2>5 DEF Slots
  <2>6. CASE i + 1 < Count
    <3>1. messages'[Index(i + 1)] = messages[Index(i + 1)]
      BY <1>2, <1>3, <1>9, <2>2, <2>6
    <3>2. messages[Index(i + 1)] = nextSeq - Count + (i + 1)
      BY <1>10, <2>2, <2>6
    <3>3. QED
      BY <1>2, <1>3, <1>7, <2>1, <2>4, <3>1, <3>2 DEF Slots
  <2>7. QED
    BY <1>7, <2>2, <2>5, <2>6 DEF Slots
<1>15. QED
  BY <1>13, <1>14

----------------------------------------------------------------------------
LEMMA InitInv == Init => Inv
<1> SUFFICES ASSUME Init PROVE Inv
  OBVIOUS
<1> USE CapacityAssumption
<1>1. TypeOK
  BY DEF Init, TypeOK, EmptySlots, Slots, Nil
<1>2. Count = 0
  BY <1>1, CountValue DEF Init
<1>3. QED
  BY <1>1, <1>2 DEF Init, Inv, NoHoles, SavedFits

LEMMA InvNext == Inv /\ [Next]_vars => Inv'
<1> SUFFICES ASSUME Inv, [Next]_vars PROVE Inv'
  OBVIOUS
<1> USE CapacityAssumption
<1>1. TypeOK /\ TypeOK'
  BY TypeNext DEF Inv
<1>2. CASE Produce
  <2>1. Count' <= nextSeq' /\ NoHoles'
    BY <1>1, <1>2, ProduceNoHoles
  <2>2. SavedFits'
    BY <1>2 DEF Produce, Inv, SavedFits
  <2>3. QED
    BY <1>1, <2>1, <2>2 DEF Inv
<1>3. CASE Save
  <2>1. Count' = Count /\ \A i : Backlog(i)' = Backlog(i)
    BY <1>3, Zenon DEF Save, Count, Backlog
  <2>2. nextSeq' = nextSeq
    BY <1>3 DEF Save
  <2>3. Count' <= nextSeq' /\ NoHoles'
    BY <2>1, <2>2 DEF Inv, NoHoles
  <2>4. Count \in Slots
    BY <1>1, CountValue DEF TypeOK, Slots
  <2>5. \A i \in 0 .. Count - 1 : savedMessages'[i] = Backlog(i)
    BY <1>3, <2>4 DEF Save, Slots
  <2>6. SavedFits'
    BY <1>3, <2>5 DEF Save, Inv, NoHoles, SavedFits
  <2>7. QED
    BY <1>1, <2>3, <2>6 DEF Inv
<1>4. CASE Recover
  <2>1. savedCount \in Slots /\ messages' = savedMessages /\ head' = 0 /\ nextSeq' = savedNext
    BY <1>1, <1>4 DEF Recover, TypeOK
  <2>2. tail' = savedCount
    <3> savedCount \in Nat /\ savedCount < Capacity /\ savedCount < Capacity + Capacity
      BY <2>1 DEF Slots
    <3> QED BY <1>4, Wrap DEF Recover, RecoveredTail
  <2>3. head' \in Slots /\ tail' \in Slots
    BY <1>1 DEF TypeOK
  <2>4. Count' = savedCount
    <3>1. Count' = IF tail' >= head' THEN tail' - head' ELSE tail' - head' + Capacity
      BY <2>3, Distance, Zenon DEF Count
    <3>2. QED
      BY <2>1, <2>2, <3>1 DEF Slots
  <2>5. \A i \in Slots : Backlog(i)' = savedMessages[i]
    <3> SUFFICES ASSUME NEW i \in Slots PROVE Backlog(i)' = savedMessages[i]
      OBVIOUS
    <3>1. Index(i)' = i
      BY <2>1 DEF Index, Slots
    <3>2. QED
      BY <1>1, <2>1, <3>1, BacklogIndexPrimed
  <2>6. \A i \in 0 .. savedCount - 1 : i \in Slots
    BY <2>1 DEF Slots
  <2>7. NoHoles' /\ Count' <= nextSeq'
    BY <2>1, <2>4, <2>5, <2>6 DEF Inv, SavedFits, NoHoles
  <2>8. SavedFits'
    BY <1>4 DEF Recover, Inv, SavedFits
  <2>9. QED
    BY <1>1, <2>7, <2>8 DEF Inv
<1>5. CASE UNCHANGED vars
  <2>1. Count' = Count /\ \A i : Backlog(i)' = Backlog(i)
    BY <1>5, Zenon DEF vars, Count, Backlog
  <2>2. QED
    BY <1>1, <1>5, <2>1 DEF vars, Inv, NoHoles, SavedFits
<1>6. QED
  BY <1>2, <1>3, <1>4, <1>5 DEF Next

THEOREM Invariant == Spec => []Inv
  BY InitInv, InvNext, PTL DEF Spec

\* Head and Tail stay inside the array, and the slots hold messages or nothing.
THEOREM TypeCorrect == Spec => []TypeOK
<1>1. Inv => TypeOK
  BY DEF Inv
<1>2. QED
  BY <1>1, Invariant, PTL

\* The ring is read from Head to Tail without meeting an empty or an overwritten slot,
\* whatever mixture of wrap-around, overflow and recovery came before; and Recover never
\* fills it completely, so Tail cannot wrap onto Head.
THEOREM RingContiguous == Spec => []RingSound
<1>1. Inv => RingSound
  BY DEF Inv, RingSound
<1>2. QED
  BY <1>1, Invariant, PTL

----------------------------------------------------------------------------
Oldest == OldestKept(Count, nextSeq, messages[head])
SavedOldest == OldestKept(savedCount, savedNext, savedMessages[0])

\* In terms of the refinement mapping, the ring holds Oldest .. nextSeq-1.
OldestFacts ==
  /\ Oldest = nextSeq - Count /\ SavedOldest = savedNext - savedCount
  /\ Count \in Slots /\ savedCount \in Slots /\ nextSeq \in Nat /\ savedNext \in Nat

LEMMA OldestValue == Inv => OldestFacts
<1> SUFFICES ASSUME Inv PROVE OldestFacts
  OBVIOUS
<1> USE CapacityAssumption
<1>1. TypeOK
  BY DEF Inv
<1>2. Count \in Slots /\ savedCount \in Slots /\ nextSeq \in Nat /\ savedNext \in Nat
  BY <1>1, CountValue DEF TypeOK, Slots
<1>3. Oldest = nextSeq - Count
  <2>1. CASE Count = 0
    BY <1>2, <2>1 DEF Oldest, OldestKept
  <2>2. CASE Count # 0
    <3>1. 0 \in Slots /\ 0 \in 0 .. Count - 1
      BY <1>2, <2>2 DEF Slots
    <3>2. Backlog(0) = messages[Index(0)] /\ Index(0) = head
      BY <1>1, <3>1, BacklogIndex DEF Index, TypeOK, Slots
    <3>3. Backlog(0) = nextSeq - Count + 0
      BY <3>1 DEF Inv, NoHoles
    <3>4. QED
      BY <1>2, <2>2, <3>2, <3>3 DEF Oldest, OldestKept, Slots
  <2>3. QED
    BY <2>1, <2>2
<1>4. SavedOldest = savedNext - savedCount
  BY <1>2 DEF Inv, SavedFits, SavedOldest, OldestKept, Slots
<1>5. QED
  BY <1>2, <1>3, <1>4 DEF OldestFacts

LEMMA StepRefines ==
  ASSUME Inv, Inv', [Next]_vars
  PROVE  [Log!Next]_(Log!vars)
<1> USE CapacityAssumption
<1>1. /\ Oldest = nextSeq - Count /\ SavedOldest = savedNext - savedCount
      /\ Count \in Slots /\ savedCount \in Slots /\ nextSeq \in Nat /\ savedNext \in Nat
  BY OldestValue DEF OldestFacts
<1>2. /\ Oldest' = nextSeq' - Count' /\ SavedOldest' = savedNext' - savedCount'
      /\ Count' \in Slots /\ savedCount' \in Slots /\ nextSeq' \in Nat /\ savedNext' \in Nat
  <2>1. OldestFacts'
    BY OldestValue, PTL
  <2>2. QED
    BY <2>1 DEF OldestFacts
<1>3. CASE Produce
  <2>1. Count' = IF Count + 1 = Capacity THEN Count ELSE Count + 1
    BY <1>3, ProduceCount DEF Inv
  <2>2. /\ nextSeq' = nextSeq + 1 /\ savedNext' = savedNext /\ savedCount' = savedCount
        /\ savedMessages' = savedMessages
    BY <1>3 DEF Produce
  <2>3. Oldest' = IF nextSeq + 1 - Oldest = Capacity THEN Oldest + 1 ELSE Oldest
    BY <1>1, <1>2, <2>1, <2>2 DEF Slots
  <2>4. SavedOldest' = SavedOldest
    BY <2>2 DEF SavedOldest, OldestKept
  <2>5. QED
    BY <2>2, <2>3, <2>4 DEF Log!Next, Log!Append, Oldest, SavedOldest
<1>4. CASE Save
  <2>1. /\ savedNext' = nextSeq /\ savedCount' = Count /\ nextSeq' = nextSeq
        /\ Count' = Count
    BY <1>4, Zenon DEF Save, Count
  <2>2. SavedOldest' = Oldest /\ Oldest' = Oldest
    BY <1>1, <1>2, <2>1
  <2>3. QED
    BY <2>1, <2>2 DEF Log!Next, Log!Save, Oldest, SavedOldest
<1>5. CASE Recover
  <2>1. /\ nextSeq' = savedNext /\ savedNext' = savedNext /\ savedCount' = savedCount
    BY <1>5 DEF Recover
  <2>2. Count' = savedCount
    <3>1. head' = 0 /\ tail' = savedCount % Capacity
      BY <1>5 DEF Recover, RecoveredTail
    <3>2. savedCount \in Nat /\ savedCount < Capacity /\ savedCount < Capacity + Capacity
      BY <1>1 DEF Slots
    <3>3. tail' = savedCount
      BY <3>1, <3>2, Wrap
    <3>4. head' \in Slots /\ tail' \in Slots
      BY <1>1, <3>1, <3>3 DEF Slots
    <3>5. Count' = IF tail' >= head' THEN tail' - head' ELSE tail' - head' + Capacity
      BY <3>4, Distance, Zenon DEF Count
    <3>6. QED
      BY <3>1, <3>2, <3>3, <3>5
  <2>3. Oldest' = SavedOldest /\ SavedOldest' = SavedOldest
    BY <1>1, <1>2, <2>1, <2>2
  <2>4. QED
    BY <2>1, <2>3 DEF Log!Next, Log!Restore, Oldest, SavedOldest
<1>6. CASE UNCHANGED vars
  <2>1. Oldest' = Oldest /\ SavedOldest' = SavedOldest
    BY <1>6, Zenon DEF vars, Oldest, SavedOldest, OldestKept, Count
  <2>2. QED
    BY <1>6, <2>1 DEF vars, Log!vars, Oldest, SavedOldest
<1>7. QED
  BY <1>3, <1>4, <1>5, <1>6 DEF Next

\* The ring implements the interval log: MemoryQueue may be read with TopicRing in
\* place of its low and nextSeq.
THEOREM RingImplementsLog == Spec => ImplementsTopicLog
<1>1. Init => Log!Init
  <2> SUFFICES ASSUME Init PROVE Log!Init
    OBVIOUS
  <2>1. Inv
    BY InitInv
  <2>2. Oldest = nextSeq - Count /\ Count \in Slots
    BY <2>1, OldestValue DEF OldestFacts
  <2>3. Count = 0
    BY <2>1, CountValue DEF Inv, Init
  <2>4. Oldest = 0
    BY <2>2, <2>3 DEF Init
  <2>5. QED
    BY <2>4 DEF Init, Log!Init, Oldest, OldestKept
<1>2. Inv /\ Inv' /\ [Next]_vars => [Log!Next]_(Log!vars)
  BY StepRefines
<1>3. QED
  BY <1>1, <1>2, Invariant, PTL DEF Spec, ImplementsTopicLog, Log!Spec

----------------------------------------------------------------------------
(***************************************************************************)
(* The statistics of the crawler (CrawlerStats).                           *)
(***************************************************************************)

\* Somebody has found the address and not yet counted it.
Awaited(p) == \E w \in Walkers : p \in news[w]

\* How often the address is in the number, when all that was found is counted.
Total(p) == IF Awaited(p) THEN count[p] + 1 ELSE count[p]

StatsTypes ==
    /\ phase \in {"down", "up", "closed", "cancelled"}
    /\ seen \subseteq Addresses /\ savedSeen \subseteq Addresses
    /\ count \in [Addresses -> Nat] /\ numbers \in [Addresses -> Nat]
    /\ news \in [Walkers -> SUBSET Addresses] /\ runs \in Nat
    /\ stats \in [at : S!Writing \cup {"wait", "done"}, copy : [Addresses -> Nat]]
    /\ filter \in [at : S!Writing \cup {"wait", "done"}, copy : SUBSET Addresses, late : BOOLEAN]

\* TestAndAdd lets an address through to one walker.
OneFinder ==
    \A v \in Walkers, w \in Walkers : \A p \in Addresses :
        p \in news[v] => p \in seen /\ (p \in news[w] => v = w)

\* Nothing is left in memory when the program is down.
NothingKept ==
    phase = "down" => /\ \A w \in Walkers : news[w] = {}
                      /\ stats.at = "wait" /\ filter.at = "wait"
                      /\ seen = {} /\ \A p \in Addresses : count[p] = 0

\* Copies are of what is in memory, or was.
CopiesBehind ==
    /\ stats.at \in S!Writing => \A p \in Addresses : stats.copy[p] <= count[p]
    /\ filter.at \in S!Writing => filter.copy \subseteq seen

\* What this run has not seen, it has not counted.
RunCounts ==
    /\ \A p \in Addresses : numbers[p] <= runs /\ Total(p) <= runs
    /\ phase # "down" => \A p \in Addresses \ seen : count[p] < runs

\* The rows are behind the copies, and these behind the memory, unless a start found no row.
RowsBehind ==
    phase # "down" /\ ~fresh =>
        /\ savedSeen \subseteq seen /\ \A p \in Addresses : numbers[p] <= count[p]
        /\ stats.at \in S!Writing => \A p \in Addresses : numbers[p] <= stats.copy[p]
        /\ filter.at \in S!Writing => savedSeen \subseteq filter.copy

\* Agree, for the memory while the program runs and for the rows while it does not.
RowsAgree ==
    phase = "down" /\ ~fresh =>
        /\ ~cut => \A p \in savedSeen : numbers[p] >= 1
        /\ ~behind => \A p \in Addresses : numbers[p] <= 1 /\ (p \notin savedSeen => numbers[p] = 0)
MemoryAgrees ==
    phase # "down" /\ ~fresh =>
        /\ ~cut => \A p \in seen : Total(p) >= 1
        /\ ~behind => \A p \in Addresses : Total(p) <= 1 /\ (p \notin seen => count[p] = 0)

StatsInv ==
    /\ StatsTypes /\ OneFinder /\ NothingKept /\ CopiesBehind
    /\ RunCounts /\ RowsBehind /\ RowsAgree /\ MemoryAgrees

\* Initially nothing is counted and the program is down.
LEMMA StatsInit == S!Init => StatsInv
<1> SUFFICES ASSUME S!Init PROVE StatsInv OBVIOUS
<1>1. /\ phase = "down" /\ seen = {} /\ savedSeen = {} /\ runs = 0
      /\ count \in [Addresses -> Nat] /\ numbers \in [Addresses -> Nat]
      /\ \A p \in Addresses : count[p] = 0 /\ numbers[p] = 0
      /\ news \in [Walkers -> SUBSET Addresses] /\ \A w \in Walkers : news[w] = {}
  BY DEF S!Init, S!Zero
<1>2. /\ stats \in [at : S!Writing \cup {"wait", "done"}, copy : [Addresses -> Nat]] /\ stats.at = "wait"
      /\ filter \in [at : S!Writing \cup {"wait", "done"}, copy : SUBSET Addresses, late : BOOLEAN]
      /\ filter.at = "wait"
  BY DEF S!Init, S!NoCopy, S!NoFilter, S!Zero
<1>3. \A p \in Addresses : Total(p) = 0 BY <1>1 DEF Total, Awaited
<1> QED
  BY <1>1, <1>2, <1>3 DEF StatsInv, StatsTypes, OneFinder, NothingKept, CopiesBehind, S!Writing,
     RunCounts, RowsBehind, RowsAgree, MemoryAgrees

\* What the parts of the invariant say in arithmetic.
LEMMA Numbers ==
    ASSUME StatsInv, NEW p \in Addresses
    PROVE  /\ count[p] \in Nat /\ numbers[p] \in Nat /\ runs \in Nat /\ Total(p) \in Nat
           /\ stats.copy[p] \in Nat /\ count[p] <= Total(p)
           /\ p \notin seen => ~Awaited(p) /\ Total(p) = count[p]
<1>1. /\ count \in [Addresses -> Nat] /\ numbers \in [Addresses -> Nat] /\ runs \in Nat
      /\ stats \in [at : S!Writing \cup {"wait", "done"}, copy : [Addresses -> Nat]]
  BY DEF StatsInv, StatsTypes
<1>2. count[p] \in Nat /\ numbers[p] \in Nat /\ stats.copy[p] \in Nat BY <1>1
<1>3. p \notin seen => ~Awaited(p) BY DEF StatsInv, OneFinder, Awaited
<1> QED BY <1>1, <1>2, <1>3 DEF Total

\* A start takes the memory from the rows, or from nothing.
LEMMA StartInv ==
    ASSUME StatsInv, NEW badCount \in BOOLEAN, NEW badSeen \in BOOLEAN, S!Start(badCount, badSeen)
    PROVE  StatsInv'
<1>1. /\ phase = "down" /\ phase' = "up" /\ runs' = runs + 1
      /\ count' = (IF badCount THEN S!Zero ELSE numbers)
      /\ seen' = (IF badSeen THEN {} ELSE savedSeen)
      /\ fresh' = (fresh \/ badCount \/ badSeen)
      /\ UNCHANGED <<news, stats, filter, numbers, savedSeen, behind, cut>>
  BY DEF S!Start, S!rows
<1>2. StatsTypes' BY <1>1 DEF StatsInv, StatsTypes, S!Zero
<1>3. /\ (\A w \in Walkers : news'[w] = {}) /\ stats'.at = "wait" /\ filter'.at = "wait"
      /\ \A p \in Addresses : ~Awaited(p)'
  BY <1>1 DEF StatsInv, NothingKept, Awaited
<1>4. \A p \in Addresses : Total(p)' = count'[p] BY <1>3 DEF Total, Awaited
<1>5. \A p \in Addresses : numbers[p] \in Nat /\ numbers[p] <= runs /\ runs \in Nat
  BY Numbers DEF StatsInv, RunCounts
<1>6. \A p \in Addresses : count'[p] \in Nat /\ count'[p] <= runs BY <1>1, <1>5 DEF S!Zero
<1>7. OneFinder' /\ NothingKept' /\ CopiesBehind'
  <2>1. phase' # "down" /\ stats'.at \notin S!Writing /\ filter'.at \notin S!Writing
    BY <1>1, <1>3 DEF S!Writing
  <2>2. OneFinder' BY <1>3 DEF OneFinder
  <2>3. NothingKept' BY <2>1 DEF NothingKept
  <2>4. CopiesBehind' BY <2>1 DEF CopiesBehind
  <2> QED BY <2>2, <2>3, <2>4
<1>8. RunCounts' BY <1>1, <1>4, <1>5, <1>6 DEF RunCounts
<1>9. RowsBehind'
  <2>1. stats'.at \notin S!Writing /\ filter'.at \notin S!Writing BY <1>3 DEF S!Writing
  <2> SUFFICES ASSUME ~fresh' PROVE savedSeen' \subseteq seen' /\ \A p \in Addresses : numbers'[p] <= count'[p]
    BY <2>1 DEF RowsBehind
  <2>2. count' = numbers /\ numbers' = numbers /\ seen' = savedSeen /\ savedSeen' = savedSeen BY <1>1
  <2> QED BY <1>5, <2>2
<1>10. RowsAgree' BY <1>1 DEF RowsAgree
<1>11. MemoryAgrees'
  <2> SUFFICES ASSUME ~fresh'
               PROVE  /\ ~cut => \A p \in savedSeen : count'[p] >= 1
                      /\ ~behind => \A p \in Addresses : count'[p] <= 1 /\ (p \notin savedSeen => count'[p] = 0)
    BY <1>1, <1>2, <1>4 DEF MemoryAgrees, StatsTypes
  <2>1. ~fresh /\ count' = numbers BY <1>1
  <2> QED BY <1>1, <2>1 DEF StatsInv, RowsAgree
<1> QED BY <1>2, <1>7, <1>8, <1>9, <1>10, <1>11 DEF StatsInv

\* An address that is new to the filter was not counted by this run.
LEMMA FindInv == ASSUME StatsInv, NEW w \in Walkers, NEW p \in Addresses, S!Find(w, p) PROVE StatsInv'
<1>1. /\ phase # "down" /\ p \notin seen /\ seen' = seen \cup {p}
      /\ news' = [news EXCEPT ![w] = @ \cup {p}]
      /\ UNCHANGED <<phase, count, stats, filter, numbers, savedSeen, runs, fresh, behind, cut>>
  BY DEF S!Find, S!New, S!rows, S!bounds, S!history
<1>2. news \in [Walkers -> SUBSET Addresses] BY DEF StatsInv, StatsTypes
<1>3. /\ \A q \in Addresses : q # p => (Awaited(q)' <=> Awaited(q))
      /\ Awaited(p)' /\ ~Awaited(p)
  <2>1. \A v \in Walkers : news'[v] = (IF v = w THEN news[v] \cup {p} ELSE news[v]) BY <1>1, <1>2
  <2>2. ~Awaited(p) BY <1>1, Numbers
  <2> QED BY <2>1, <2>2 DEF Awaited
<1>4. /\ \A q \in Addresses : q # p => Total(q)' = Total(q)
      /\ Total(p)' = count[p] + 1 /\ Total(p) = count[p]
  BY <1>1, <1>3 DEF Total
<1>5. StatsTypes' BY <1>1, <1>2 DEF StatsInv, StatsTypes
<1>6. OneFinder'
  <2> SUFFICES ASSUME NEW u \in Walkers, NEW v \in Walkers, NEW q \in Addresses, q \in news'[u]
               PROVE  q \in seen' /\ (q \in news'[v] => u = v)
    BY DEF OneFinder
  <2>1. \A x \in Walkers : news'[x] = (IF x = w THEN news[x] \cup {p} ELSE news[x]) BY <1>1, <1>2
  <2>2. \A x \in Walkers : p \notin news[x] BY <1>3 DEF Awaited
  <2> QED BY <1>1, <2>1, <2>2 DEF StatsInv, OneFinder
<1>7. NothingKept' /\ CopiesBehind' /\ RowsAgree'
  BY <1>1 DEF StatsInv, NothingKept, CopiesBehind, RowsAgree
<1>8. RowsBehind' BY <1>1 DEF StatsInv, RowsBehind
<1>9. RunCounts'
  <2>1. count[p] + 1 <= runs BY <1>1, Numbers DEF StatsInv, RunCounts
  <2> QED BY <1>1, <1>4, <2>1 DEF StatsInv, RunCounts
<1>10. MemoryAgrees'
  <2> SUFFICES ASSUME ~fresh
               PROVE  /\ ~cut => \A q \in seen' : Total(q)' >= 1
                      /\ ~behind => \A q \in Addresses : Total(q)' <= 1 /\ (q \notin seen' => count[q] = 0)
    BY <1>1 DEF MemoryAgrees
  <2>1. count[p] \in Nat BY Numbers
  <2>2. seen \subseteq Addresses BY DEF StatsInv, StatsTypes
  <2>3. ~cut => \A q \in seen : Total(q) >= 1 BY <1>1 DEF StatsInv, MemoryAgrees
  <2>4. ~behind => \A q \in Addresses : Total(q) <= 1 /\ (q \notin seen => count[q] = 0)
    BY <1>1 DEF StatsInv, MemoryAgrees
  <2>5. ~cut => \A q \in seen' : Total(q)' >= 1 BY <1>1, <1>4, <2>1, <2>2, <2>3
  <2> QED BY <1>1, <1>4, <2>1, <2>4, <2>5
<1> QED BY <1>5, <1>6, <1>7, <1>8, <1>9, <1>10 DEF StatsInv

\* What was found is counted, and is found no more.
LEMMA AddInv == ASSUME StatsInv, NEW w \in Walkers, S!Add(w) PROVE StatsInv'
<1>1. /\ count' = [p \in Addresses |-> IF p \in news[w] THEN count[p] + 1 ELSE count[p]]
      /\ news' = [news EXCEPT ![w] = {}] /\ news[w] # {}
      /\ UNCHANGED <<phase, seen, stats, filter, numbers, savedSeen, runs, fresh, behind, cut>>
  BY DEF S!Add, S!rows, S!bounds, S!history
<1>2. news \in [Walkers -> SUBSET Addresses] /\ count \in [Addresses -> Nat] BY DEF StatsInv, StatsTypes
<1>3. \A v \in Walkers : news'[v] = (IF v = w THEN {} ELSE news[v]) BY <1>1, <1>2
<1>4. ASSUME NEW p \in Addresses
      PROVE  /\ Total(p)' = Total(p) /\ count'[p] \in Nat /\ count[p] \in Nat /\ count[p] <= count'[p]
             /\ p \notin seen => count'[p] = count[p]
  <2>1. count'[p] = (IF p \in news[w] THEN count[p] + 1 ELSE count[p]) BY <1>1
  <2>2. CASE p \in news[w]
    <3>1. Awaited(p) /\ ~Awaited(p)' /\ p \in seen BY <1>3, <2>2 DEF Awaited, StatsInv, OneFinder
    <3> QED BY <1>2, <2>1, <2>2, <3>1 DEF Total
  <2>3. CASE p \notin news[w]
    <3>1. Awaited(p) <=> Awaited(p)' BY <1>3, <2>3 DEF Awaited
    <3> QED BY <1>2, <2>1, <2>3, <3>1 DEF Total
  <2> QED BY <2>2, <2>3
<1>5. StatsTypes' BY <1>1, <1>2 DEF StatsInv, StatsTypes
<1>6. OneFinder' BY <1>1, <1>3 DEF StatsInv, OneFinder
<1>7. NothingKept' BY <1>1, <1>3 DEF StatsInv, NothingKept
<1>8. CopiesBehind'
  <2> SUFFICES ASSUME stats.at \in S!Writing, NEW p \in Addresses PROVE stats.copy[p] <= count'[p]
    BY <1>1 DEF StatsInv, CopiesBehind
  <2>1. stats.copy[p] <= count[p] /\ stats.copy[p] \in Nat BY Numbers DEF StatsInv, CopiesBehind
  <2> QED BY <1>4, <2>1
<1>9. RunCounts' BY <1>1, <1>4 DEF StatsInv, RunCounts
<1>10. RowsBehind'
  <2> SUFFICES ASSUME phase # "down", ~fresh PROVE \A p \in Addresses : numbers[p] <= count'[p]
    BY <1>1 DEF StatsInv, RowsBehind
  <2>1. \A p \in Addresses : numbers[p] <= count[p] /\ numbers[p] \in Nat BY Numbers DEF StatsInv, RowsBehind
  <2> QED BY <1>4, <2>1
<1>11. RowsAgree' BY <1>1 DEF StatsInv, RowsAgree
<1>12. MemoryAgrees'
  <2>1. seen \subseteq Addresses BY DEF StatsInv, StatsTypes
  <2> QED BY <1>1, <1>4, <2>1 DEF StatsInv, MemoryAgrees
<1> QED BY <1>5, <1>6, <1>7, <1>8, <1>9, <1>10, <1>11, <1>12 DEF StatsInv

\* A loop copies, writes what it has copied, or fails to.
LEMMA LoopInv ==
    ASSUME StatsInv, \/ S!WriteCount \/ S!WriteFilter
                     \/ \E how \in S!Writing : S!CopyCount(how) \/ S!CopyFilter(how)
    PROVE  StatsInv'
<1>1. UNCHANGED <<phase, seen, count, news, runs, fresh, behind, cut>>
  BY DEF S!WriteCount, S!WriteFilter, S!CopyCount, S!CopyFilter, S!memory, S!bounds, S!history
<1>2. \A p \in Addresses : Total(p)' = Total(p) BY <1>1 DEF Total, Awaited
<1>3. /\ OneFinder' /\ MemoryAgrees'
  <2>1. seen \subseteq Addresses BY DEF StatsInv, StatsTypes
  <2> QED BY <1>1, <1>2, <2>1 DEF StatsInv, OneFinder, MemoryAgrees
<1>4. \A p \in Addresses : Total(p) \in Nat /\ count[p] \in Nat /\ count[p] <= Total(p) /\ Total(p) <= runs
                           /\ numbers[p] <= runs /\ runs \in Nat /\ stats.copy[p] \in Nat
  BY Numbers DEF StatsInv, RunCounts
<1>5. /\ stats \in [at : S!Writing \cup {"wait", "done"}, copy : [Addresses -> Nat]]
      /\ filter \in [at : S!Writing \cup {"wait", "done"}, copy : SUBSET Addresses, late : BOOLEAN]
      /\ count \in [Addresses -> Nat] /\ seen \subseteq Addresses /\ numbers \in [Addresses -> Nat]
      /\ phase \in {"down", "up", "closed", "cancelled"}
  BY DEF StatsInv, StatsTypes
<1>6. ASSUME NEW how \in S!Writing, S!CopyCount(how) PROVE StatsInv'
  <2>1. /\ phase # "down" /\ stats' = [at |-> how, copy |-> count]
        /\ UNCHANGED <<filter, numbers, savedSeen>>
    BY <1>6 DEF S!CopyCount, S!May, S!Closed, S!memory, S!rows
  <2>2. StatsTypes' BY <1>1, <1>5, <2>1 DEF StatsInv, StatsTypes
  <2>3. NothingKept' /\ RowsAgree' BY <1>1, <2>1 DEF StatsInv, NothingKept, RowsAgree
  <2>4. CopiesBehind' BY <1>1, <1>4, <2>1 DEF StatsInv, CopiesBehind
  <2>5. RunCounts' BY <1>1, <1>2, <2>1 DEF StatsInv, RunCounts
  <2>6. RowsBehind' BY <1>1, <2>1 DEF StatsInv, RowsBehind
  <2> QED BY <1>3, <2>2, <2>3, <2>4, <2>5, <2>6 DEF StatsInv
<1>7. ASSUME NEW how \in S!Writing, S!CopyFilter(how) PROVE StatsInv'
  <2>1. /\ phase # "down" /\ filter' = [at |-> how, copy |-> seen, late |-> phase = "cancelled"]
        /\ UNCHANGED <<stats, numbers, savedSeen>>
    BY <1>7 DEF S!CopyFilter, S!May, S!Closed, S!memory, S!rows
  <2>2. StatsTypes' BY <1>1, <1>5, <2>1 DEF StatsInv, StatsTypes
  <2>3. NothingKept' /\ RowsAgree' BY <1>1, <2>1 DEF StatsInv, NothingKept, RowsAgree
  <2>4. CopiesBehind' BY <1>1, <2>1 DEF StatsInv, CopiesBehind
  <2>5. RunCounts' BY <1>1, <1>2, <2>1 DEF StatsInv, RunCounts
  <2>6. RowsBehind' BY <1>1, <2>1 DEF StatsInv, RowsBehind
  <2> QED BY <1>3, <2>2, <2>3, <2>4, <2>5, <2>6 DEF StatsInv
<1>8. CASE S!WriteCount
  <2>1. /\ stats.at \in S!Writing /\ stats'.at \in {"wait", "done"} /\ stats'.at \notin S!Writing
        /\ stats' \in [at : S!Writing \cup {"wait", "done"}, copy : [Addresses -> Nat]]
        /\ numbers' = stats.copy \/ numbers' = numbers
        /\ UNCHANGED <<filter, savedSeen>>
    BY <1>8 DEF S!WriteCount, S!NoCopy, S!After, S!Zero, S!Writing
  <2>2. phase # "down" BY <2>1 DEF StatsInv, NothingKept, S!Writing
  <2>3. numbers' \in [Addresses -> Nat] BY <1>5, <2>1
  <2>4. StatsTypes' BY <1>1, <2>1, <2>3 DEF StatsInv, StatsTypes
  <2>5. NothingKept' /\ RowsAgree' /\ CopiesBehind'
    BY <1>1, <2>1, <2>2 DEF StatsInv, NothingKept, RowsAgree, CopiesBehind
  <2>6. \A p \in Addresses : numbers'[p] <= runs
    <3>1. \A p \in Addresses : stats.copy[p] <= count[p] BY <2>1 DEF StatsInv, CopiesBehind
    <3>2. CASE numbers' = stats.copy BY <1>4, <3>1, <3>2
    <3>3. CASE numbers' = numbers BY <1>4, <3>3
    <3> QED BY <2>1, <3>2, <3>3
  <2>7. RunCounts' BY <1>1, <1>2, <2>6 DEF StatsInv, RunCounts
  <2>8. RowsBehind'
    <3>1. CASE numbers' = stats.copy BY <1>1, <2>1, <3>1 DEF StatsInv, RowsBehind, CopiesBehind
    <3>2. CASE numbers' = numbers BY <1>1, <2>1, <3>2 DEF StatsInv, RowsBehind
    <3> QED BY <2>1, <3>1, <3>2
  <2> QED BY <1>3, <2>4, <2>5, <2>7, <2>8 DEF StatsInv
<1>9. CASE S!WriteFilter
  <2>1. /\ filter.at \in S!Writing /\ filter'.at \in {"wait", "done"} /\ filter'.at \notin S!Writing
        /\ filter' \in [at : S!Writing \cup {"wait", "done"}, copy : SUBSET Addresses, late : BOOLEAN]
        /\ savedSeen' = filter.copy \/ savedSeen' = savedSeen
        /\ UNCHANGED <<stats, numbers>>
    BY <1>9 DEF S!WriteFilter, S!NoFilter, S!After, S!Writing
  <2>2. phase # "down" BY <2>1 DEF StatsInv, NothingKept, S!Writing
  <2>3. savedSeen' \subseteq Addresses BY <1>5, <2>1 DEF StatsInv, StatsTypes
  <2>4. StatsTypes' BY <1>1, <2>1, <2>3 DEF StatsInv, StatsTypes
  <2>5. NothingKept' /\ RowsAgree' /\ CopiesBehind'
    BY <1>1, <2>1, <2>2 DEF StatsInv, NothingKept, RowsAgree, CopiesBehind
  <2>6. RunCounts' BY <1>1, <1>2, <2>1 DEF StatsInv, RunCounts
  <2>7. RowsBehind' BY <1>1, <2>1 DEF StatsInv, RowsBehind, CopiesBehind
  <2> QED BY <1>3, <2>4, <2>5, <2>6, <2>7 DEF StatsInv
<1> QED BY <1>6, <1>7, <1>8, <1>9

\* The end, with history of what the rows did not have.
LEMMA EndInv == ASSUME StatsInv, NEW crashed \in BOOLEAN, S!End(crashed) PROVE StatsInv'
<1>1. /\ phase # "down" /\ phase' = "down" /\ seen' = {} /\ count' = S!Zero
      /\ news' = [w \in Walkers |-> {}]
      /\ stats' = S!NoCopy /\ filter' = S!NoFilter
      /\ behind' = (behind \/ seen # savedSeen)
      /\ cut' = (cut \/ count # numbers \/ \E w \in Walkers : news[w] # {})
      /\ UNCHANGED <<numbers, savedSeen, runs, fresh>>
  BY DEF S!End, S!rows
<1>2. /\ count' \in [Addresses -> Nat] /\ \A p \in Addresses : count'[p] = 0
      /\ \A w \in Walkers : news'[w] = {} /\ news' \in [Walkers -> SUBSET Addresses]
      /\ stats' \in [at : S!Writing \cup {"wait", "done"}, copy : [Addresses -> Nat]] /\ stats'.at = "wait"
      /\ filter' \in [at : S!Writing \cup {"wait", "done"}, copy : SUBSET Addresses, late : BOOLEAN]
      /\ filter'.at = "wait"
  BY <1>1 DEF S!Zero, S!NoCopy, S!NoFilter
<1>3. \A p \in Addresses : Total(p)' = 0 BY <1>2 DEF Total, Awaited
<1>4. StatsTypes' BY <1>1, <1>2 DEF StatsInv, StatsTypes
<1>5. OneFinder' /\ NothingKept' /\ CopiesBehind' /\ RowsBehind' /\ MemoryAgrees'
  BY <1>1, <1>2 DEF OneFinder, NothingKept, CopiesBehind, RowsBehind, MemoryAgrees, S!Writing
<1>6. RunCounts' BY <1>1, <1>3, Numbers DEF StatsInv, StatsTypes, RunCounts
<1>7. RowsAgree'
  <2> SUFFICES ASSUME ~fresh
               PROVE  /\ ~cut' => \A p \in savedSeen : numbers[p] >= 1
                      /\ ~behind' => \A p \in Addresses : numbers[p] <= 1 /\ (p \notin savedSeen => numbers[p] = 0)
    BY <1>1 DEF RowsAgree
  <2>1. ASSUME ~cut', NEW p \in savedSeen PROVE numbers[p] >= 1
    <3>1. p \in seen /\ p \in Addresses BY <1>1 DEF StatsInv, RowsBehind, StatsTypes
    <3>2. Total(p) >= 1 /\ count = numbers /\ ~Awaited(p)
      BY <1>1, <2>1, <3>1 DEF StatsInv, MemoryAgrees, Awaited
    <3> QED BY <3>2 DEF Total
  <2>2. ASSUME ~behind', NEW p \in Addresses PROVE numbers[p] <= 1 /\ (p \notin savedSeen => numbers[p] = 0)
    <3>1. /\ numbers[p] \in Nat /\ count[p] \in Nat /\ Total(p) \in Nat
          /\ numbers[p] <= count[p] /\ count[p] <= Total(p)
      BY <1>1, Numbers DEF StatsInv, RowsBehind
    <3>2. Total(p) <= 1 /\ (p \notin savedSeen => count[p] = 0) BY <1>1, <2>2 DEF StatsInv, MemoryAgrees
    <3> QED BY <3>1, <3>2
  <2> QED BY <2>1, <2>2
<1> QED BY <1>4, <1>5, <1>6, <1>7 DEF StatsInv

\* Every step of the store, and every step of another part, keeps the invariant.
LEMMA StatsNext == StatsInv /\ [S!Next]_statsVars => StatsInv'
<1> SUFFICES ASSUME StatsInv, [S!Next]_statsVars PROVE StatsInv' OBVIOUS
<1>1. CASE S!Close \/ S!Cancel \/ UNCHANGED statsVars
  <2>1. /\ UNCHANGED <<seen, count, news, stats, filter, numbers, savedSeen, runs, fresh, behind, cut>>
        /\ phase' \in {"down", "up", "closed", "cancelled"} /\ (phase' = "down" <=> phase = "down")
    BY <1>1 DEF S!Close, S!Cancel, S!memory, S!rows, S!bounds, S!history, statsVars, StatsInv, StatsTypes
  <2>2. \A p \in Addresses : Total(p)' = Total(p) BY <2>1 DEF Total, Awaited
  <2>3. seen \subseteq Addresses BY DEF StatsInv, StatsTypes
  <2>4. StatsTypes' BY <2>1 DEF StatsInv, StatsTypes
  <2>5. OneFinder' /\ NothingKept' /\ CopiesBehind' /\ RowsBehind' /\ RowsAgree'
    BY <2>1 DEF StatsInv, OneFinder, NothingKept, CopiesBehind, RowsBehind, RowsAgree
  <2>6. RunCounts' /\ MemoryAgrees' BY <2>1, <2>2, <2>3 DEF StatsInv, RunCounts, MemoryAgrees
  <2> QED BY <2>4, <2>5, <2>6 DEF StatsInv
<1> QED BY <1>1, StartInv, FindInv, AddInv, LoopInv, EndInv DEF S!Next


\* Names of the library in the instances are names of their own.
LEMMA CardinalityOfS == ASSUME NEW Q PROVE S!Cardinality(Q) = Cardinality(Q)
BY DEF S!Cardinality, Cardinality

\* As no two walkers wait to count an address, who waits is one or none.
LEMMA PendingCounted == ASSUME StatsInv, NEW p \in Addresses PROVE count[p] + S!Pending(p) = Total(p)
<1> DEFINE Waiting == {w \in Walkers : p \in news[w]}
<1>1. S!Pending(p) = Cardinality(Waiting) BY CardinalityOfS DEF S!Pending
<1>2. count[p] \in Nat BY Numbers
<1>3. CASE Awaited(p)
  <2>1. PICK w \in Walkers : p \in news[w] BY <1>3 DEF Awaited
  <2>2. \A v \in Walkers : p \in news[v] => v = w BY <2>1 DEF StatsInv, OneFinder
  <2>3. Waiting = {w} BY <2>1, <2>2
  <2>4. Cardinality(Waiting) = 1 BY <2>3, FS_Singleton
  <2> QED BY <1>1, <1>2, <1>3, <2>4 DEF Total
<1>4. CASE ~Awaited(p)
  <2>1. Waiting = {} BY <1>4 DEF Awaited
  <2>2. Cardinality(Waiting) = 0 BY <2>1, FS_EmptySet
  <2> QED BY <1>1, <1>2, <1>4, <2>2 DEF Total
<1> QED BY <1>3, <1>4

\* What the invariant says of the properties.
LEMMA StatsSafe == StatsInv => S!TypeOK /\ S!OncePerRun /\ S!Agree
<1> SUFFICES ASSUME StatsInv PROVE S!TypeOK /\ S!OncePerRun /\ S!Agree OBVIOUS
<1>1. S!TypeOK BY DEF StatsInv, StatsTypes, S!TypeOK
<1>2. S!OncePerRun BY PendingCounted DEF StatsInv, RunCounts, S!OncePerRun
<1>3. S!Agree
  <2> SUFFICES ASSUME phase # "down", ~fresh
               PROVE  /\ ~cut => \A p \in seen : count[p] + S!Pending(p) >= 1
                      /\ ~behind => \A p \in Addresses : count[p] + S!Pending(p) <= 1
    BY DEF S!Agree
  <2>1. seen \subseteq Addresses BY DEF StatsInv, StatsTypes
  <2> QED BY <2>1, PendingCounted DEF StatsInv, MemoryAgrees
<1> QED BY <1>1, <1>2, <1>3

\* A row is replaced by what was copied from the memory, and the rows were behind that.
LEMMA StatsForward ==
    StatsInv /\ [S!Next]_statsVars =>
        (~fresh => savedSeen \subseteq savedSeen' /\ \A p \in Addresses : numbers[p] <= numbers'[p])
<1> SUFFICES ASSUME StatsInv, [S!Next]_statsVars, ~fresh
             PROVE  savedSeen \subseteq savedSeen' /\ \A p \in Addresses : numbers[p] <= numbers'[p]
  OBVIOUS
<1>1. \A p \in Addresses : numbers[p] \in Nat BY Numbers
<1>2. CASE UNCHANGED <<numbers, savedSeen>> BY <1>1, <1>2
<1>3. CASE S!WriteCount
  <2>1. phase # "down" /\ stats.at \in S!Writing BY <1>3 DEF S!WriteCount, StatsInv, NothingKept, S!Writing
  <2>2. \A p \in Addresses : numbers[p] <= stats.copy[p] BY <2>1 DEF StatsInv, RowsBehind
  <2>3. savedSeen' = savedSeen /\ (numbers' = stats.copy \/ numbers' = numbers) BY <1>3 DEF S!WriteCount
  <2> QED BY <1>1, <2>2, <2>3
<1>4. CASE S!WriteFilter
  <2>1. phase # "down" /\ filter.at \in S!Writing BY <1>4 DEF S!WriteFilter, StatsInv, NothingKept, S!Writing
  <2>2. savedSeen \subseteq filter.copy BY <2>1 DEF StatsInv, RowsBehind
  <2>3. numbers' = numbers /\ (savedSeen' = filter.copy \/ savedSeen' = savedSeen) BY <1>4 DEF S!WriteFilter
  <2> QED BY <1>1, <2>2, <2>3
<1>5. CASE \/ \E badCount \in BOOLEAN, badSeen \in BOOLEAN : S!Start(badCount, badSeen)
           \/ \E w \in Walkers : S!Add(w) \/ \E p \in Addresses : S!Find(w, p)
           \/ \E how \in S!Writing : S!CopyCount(how) \/ S!CopyFilter(how)
           \/ S!Close \/ S!Cancel \/ \E crashed \in BOOLEAN : S!End(crashed)
  <2>1. UNCHANGED <<numbers, savedSeen>>
    BY <1>5 DEF S!Start, S!Add, S!Find, S!CopyCount, S!CopyFilter, S!Close, S!Cancel, S!End, S!rows
  <2> QED BY <1>2, <2>1
<1>6. CASE UNCHANGED statsVars BY <1>2, <1>6 DEF statsVars
<1> QED BY <1>3, <1>4, <1>5, <1>6 DEF S!Next


----------------------------------------------------------------------------
(***************************************************************************)
(* What holds of natural numbers by induction, which here is that a set of *)
(* them has a least element.                                               *)
(***************************************************************************)
LEMMA LeastNatural == ASSUME NEW T, T \subseteq Nat, T # {} PROVE \E m \in T : \A k \in T : m <= k
<1> DEFINE R == OpToRel(<, Nat)
<1>1. IsWellFoundedOn(R, Nat) BY NatLessThanWellFounded
<1>2. \A x, y \in Nat : <<x, y>> \in R <=> x < y BY DEF OpToRel
<1> HIDE DEF R
<1>3. PICK m \in T : \A y \in T : ~ (<<y, m>> \in R) BY <1>1, WFMin
<1>4. ASSUME NEW k \in T PROVE m <= k
  <2>1. k \in Nat /\ m \in Nat OBVIOUS
  <2>2. <<k, m>> \in R <=> k < m BY <1>2, <2>1
  <2> QED BY <1>3, <2>1, <2>2
<1> QED BY <1>4

Bounded(Q) == \E n \in Nat : \A k \in Q : k <= n

\* Otherwise there is a smallest unbounded set, and one without an element of that.
LEMMA FiniteIsBounded == ASSUME NEW Q, Q \subseteq Nat, IsFiniteSet(Q) PROVE Bounded(Q)
<1> DEFINE Sizes == {n \in Nat : \E P \in SUBSET Nat : IsFiniteSet(P) /\ Cardinality(P) = n /\ ~Bounded(P)}
<1> SUFFICES ASSUME ~Bounded(Q) PROVE FALSE OBVIOUS
<1>1. Cardinality(Q) \in Sizes
  <2>1. Cardinality(Q) \in Nat /\ Q \in SUBSET Nat BY FS_CardinalityType
  <2> QED BY <2>1
<1>2. Sizes \subseteq Nat /\ Sizes # {} BY <1>1
<1>3. PICK m \in Sizes : \A k \in Sizes : m <= k BY <1>2, LeastNatural
<1>4. PICK P \in SUBSET Nat : IsFiniteSet(P) /\ Cardinality(P) = m /\ ~Bounded(P) BY <1>3
<1>5. PICK x \in P : TRUE BY <1>4 DEF Bounded
<1>6. IsFiniteSet(P \ {x}) /\ Cardinality(P \ {x}) = m - 1 BY <1>4, <1>5, FS_RemoveElement
<1>7. m \in Nat /\ m - 1 \in Nat
  <2>1. Cardinality(P \ {x}) \in Nat BY <1>6, FS_CardinalityType
  <2> QED BY <1>6, <2>1
<1>8. m - 1 \notin Sizes BY <1>3, <1>7
<1>9. Bounded(P \ {x}) BY <1>6, <1>7, <1>8
<1>10. PICK n \in Nat : \A k \in P \ {x} : k <= n BY <1>9 DEF Bounded
<1>11. \A k \in P : k \in Nat /\ (k <= n \/ k <= x) BY <1>4, <1>10
<1>12. x \in Nat BY <1>5
<1>13. n + x \in Nat /\ \A k \in P : k <= n + x BY <1>11, <1>12
<1> QED BY <1>4, <1>13 DEF Bounded

\* The least of its bounds is the greatest of a finite set.
LEMMA GreatestNatural ==
    ASSUME NEW Q, Q \subseteq Nat, IsFiniteSet(Q), Q # {}
    PROVE  L!Max(Q) \in Q /\ \A k \in Q : k <= L!Max(Q)
<1> DEFINE U == {n \in Nat : \A k \in Q : k <= n}
<1>1. U \subseteq Nat /\ U # {} BY FiniteIsBounded DEF Bounded
<1>2. PICK u \in U : \A n \in U : u <= n BY <1>1, LeastNatural
<1>3. u \in Q
  <2> SUFFICES ASSUME u \notin Q PROVE FALSE OBVIOUS
  <2>1. \A k \in Q : k \in Nat /\ k <= u /\ k # u BY <1>2
  <2>2. \A k \in Q : k <= u - 1 BY <1>2, <2>1
  <2>3. PICK k \in Q : TRUE OBVIOUS
  <2>4. u - 1 \in Nat BY <1>2, <2>1, <2>3
  <2>5. u - 1 \in U BY <2>2, <2>4
  <2> QED BY <1>2, <2>4, <2>5
<1>4. \A k \in Q : u >= k /\ k <= u BY <1>2, <1>3
<1>5. L!Max(Q) \in Q /\ \A k \in Q : L!Max(Q) >= k BY <1>3, <1>4 DEF L!Max
<1> QED BY <1>5

LEMMA CardinalityOfL == ASSUME NEW Q PROVE L!Cardinality(Q) = Cardinality(Q)
BY DEF L!Cardinality, Cardinality

\* No more than M files have fewer than M files after them: the rest of them come after the first.
LEMMA FewLater ==
    ASSUME NEW B, IsFiniteSet(B), B \subseteq Nat \X Nat, NEW M \in Nat
    PROVE  LET K == {f \in B : L!Cardinality({g \in B : L!Earlier(f, g)}) < M}
           IN  IsFiniteSet(K) /\ Cardinality(K) <= M
<1> DEFINE After(f) == {g \in B : L!Earlier(f, g)}
           K == {f \in B : L!Cardinality(After(f)) < M}
<1>1. IsFiniteSet(K) /\ Cardinality(K) \in Nat BY FS_Subset, FS_CardinalityType
<1>2. CASE K = {}
  <2>1. Cardinality(K) = 0 BY <1>2, FS_EmptySet
  <2> QED BY <1>1, <2>1
<1>3. CASE K # {}
  <2> DEFINE Dates == {f[1] : f \in K}
  <2>1. Dates \subseteq Nat /\ Dates # {} BY <1>3
  <2>2. PICK a \in Dates : \A k \in Dates : a <= k BY <2>1, LeastNatural
  <2> DEFINE Numbers_ == {f[2] : f \in {g \in K : g[1] = a}}
  <2>3. Numbers_ \subseteq Nat /\ Numbers_ # {} BY <2>2
  <2>4. PICK b \in Numbers_ : \A k \in Numbers_ : b <= k BY <2>3, LeastNatural
  <2>5. PICK m \in K : m[1] = a /\ m[2] = b BY <2>4
  <2>6. ASSUME NEW f \in K \ {m} PROVE f \in After(m)
    <3>1. f \in Nat \X Nat /\ m \in Nat \X Nat /\ f \in B OBVIOUS
    <3>2. f[1] \in Nat /\ f[2] \in Nat /\ a \in Nat /\ b \in Nat BY <2>5, <3>1
    <3>3. a <= f[1] /\ (f[1] = a => b <= f[2]) BY <2>2, <2>4
    <3>4. ~(f[1] = a /\ f[2] = b) BY <2>5, <3>1
    <3>5. a < f[1] \/ (a = f[1] /\ b < f[2]) BY <3>2, <3>3, <3>4
    <3> QED BY <2>5, <3>1, <3>5 DEF L!Earlier
  <2>7. IsFiniteSet(After(m)) /\ Cardinality(After(m)) \in Nat BY FS_Subset, FS_CardinalityType
  <2>8. Cardinality(K \ {m}) <= Cardinality(After(m)) BY <2>6, <2>7, FS_Subset
  <2>9. Cardinality(K \ {m}) = Cardinality(K) - 1 BY <1>1, <2>5, FS_RemoveElement
  <2>10. Cardinality(After(m)) < M BY <2>5, CardinalityOfL
  <2> QED BY <1>1, <2>7, <2>8, <2>9, <2>10
<1>4. IsFiniteSet(K) /\ Cardinality(K) <= M BY <1>1, <1>2, <1>3
<1> QED BY <1>4


----------------------------------------------------------------------------
(***************************************************************************)
(* The log files (LogFiles).  Where entries are and in which order does    *)
(* not depend on sizes, so a sequence is one of anything; what the files   *)
(* come to follows further below.                                          *)
(***************************************************************************)
IsSequence(s) == \E T : s \in Seq(T)

LEMMA AppendAny ==
    ASSUME NEW s, IsSequence(s), NEW x
    PROVE  /\ IsSequence(Append(s, x)) /\ Len(s) \in Nat /\ Len(Append(s, x)) = Len(s) + 1
           /\ Append(s, x)[Len(s) + 1] = x
           /\ \A j \in 1 .. Len(s) : Append(s, x)[j] = s[j]
<1>1. PICK T : s \in Seq(T) BY DEF IsSequence
<1>2. s \in Seq(T \cup {x})
  <2>1. T \subseteq T \cup {x} OBVIOUS
  <2> QED BY <1>1, <2>1, SeqMonotonic
<1>3. Append(s, x) \in Seq(T \cup {x}) BY <1>2
<1> QED BY <1>2, <1>3, AppendProperties DEF IsSequence

\* Unexpanded, the provers can use the lemma for it.
Puts(t, s, i, x) == t = [s EXCEPT ![i] = x]

LEMMA ExceptAny ==
    ASSUME NEW s, IsSequence(s), NEW i \in 1 .. Len(s), NEW x, NEW t, Puts(t, s, i, x)
    PROVE  /\ IsSequence(t) /\ Len(t) = Len(s) /\ t[i] = x
           /\ \A j \in 1 .. Len(s) : j # i => t[j] = s[j]
<1>0. t = [s EXCEPT ![i] = x] BY DEF Puts
<1>1. PICK T : s \in Seq(T) BY DEF IsSequence
<1>2. s \in Seq(T \cup {x}) /\ x \in T \cup {x}
  <2>1. T \subseteq T \cup {x} OBVIOUS
  <2> QED BY <1>1, <2>1, SeqMonotonic
<1>3. /\ [s EXCEPT ![i] = x] \in Seq(T \cup {x}) /\ Len([s EXCEPT ![i] = x]) = Len(s)
      /\ \A j \in 1 .. Len(s) : [s EXCEPT ![i] = x][j] = IF j = i THEN x ELSE s[j]
  BY <1>2, ExceptSeq
<1>4. t[i] = x BY <1>0, <1>3
<1>5. \A j \in 1 .. Len(s) : j # i => t[j] = s[j] BY <1>0, <1>3
<1>6. IsSequence(t) /\ Len(t) = Len(s)
  <2>1. t \in Seq(T \cup {x}) /\ Len(t) = Len(s) BY <1>0, <1>3, Zenon
  <2> QED BY <2>1 DEF IsSequence
<1> QED BY <1>4, <1>5, <1>6

\* What is in sequences of entries.
LEMMA RangeFacts ==
    ASSUME NEW s \in Seq(Nat), NEW t \in Seq(Nat), NEW n \in Nat
    PROVE  /\ L!Range(s) \subseteq Nat /\ s \o t \in Seq(Nat) /\ Append(s, n) \in Seq(Nat)
           /\ L!Range(s \o t) = L!Range(s) \cup L!Range(t)
           /\ L!Range(Append(s, n)) = L!Range(s) \cup {n}
<1>1. \A u \in Seq(Nat) : L!Range(u) = {u[i] : i \in 1 .. Len(u)} /\ Len(u) \in Nat
  BY DEF L!Range
<1>2. s \o t \in Seq(Nat) /\ Append(s, n) \in Seq(Nat) OBVIOUS
<1>3. L!Range(s \o t) = L!Range(s) \cup L!Range(t)
  <2>1. /\ Len(s \o t) = Len(s) + Len(t)
        /\ \A i \in 1 .. Len(s) + Len(t) : (s \o t)[i] = IF i <= Len(s) THEN s[i] ELSE t[i - Len(s)]
    BY ConcatProperties
  <2>2. ASSUME NEW x \in L!Range(s) PROVE x \in L!Range(s \o t)
    <3>1. PICK i \in 1 .. Len(s) : x = s[i] BY <1>1, <2>2
    <3>2. i \in 1 .. Len(s) + Len(t) /\ (s \o t)[i] = x BY <1>1, <2>1, <3>1
    <3> QED BY <1>1, <1>2, <2>1, <3>2
  <2>3. ASSUME NEW x \in L!Range(t) PROVE x \in L!Range(s \o t)
    <3>1. PICK i \in 1 .. Len(t) : x = t[i] BY <1>1, <2>3
    <3> DEFINE k == Len(s) + i
    <3>2. k \in 1 .. Len(s) + Len(t) /\ ~(k <= Len(s)) /\ k - Len(s) = i BY <1>1
    <3>3. (s \o t)[k] = x BY <2>1, <3>1, <3>2
    <3> HIDE DEF k
    <3> QED BY <1>1, <1>2, <2>1, <3>2, <3>3
  <2>4. ASSUME NEW x \in L!Range(s \o t) PROVE x \in L!Range(s) \cup L!Range(t)
    <3>0. PICK i \in 1 .. Len(s \o t) : x = (s \o t)[i] BY <1>1, <1>2, <2>4
    <3>1. i \in 1 .. Len(s) + Len(t) BY <2>1
    <3>2. CASE i <= Len(s)
      <4>1. i \in 1 .. Len(s) /\ x = s[i] BY <1>1, <2>1, <3>0, <3>1, <3>2
      <4> QED BY <1>1, <4>1
    <3>3. CASE ~(i <= Len(s))
      <4> DEFINE k == i - Len(s)
      <4>1. k \in 1 .. Len(t) /\ x = t[k] BY <1>1, <2>1, <3>0, <3>1, <3>3
      <4> HIDE DEF k
      <4> QED BY <1>1, <4>1
    <3> QED BY <3>2, <3>3
  <2> QED BY <2>2, <2>3, <2>4
<1>4. L!Range(Append(s, n)) = L!Range(s) \cup {n}
  <2>1. /\ Len(Append(s, n)) = Len(s) + 1 /\ Append(s, n)[Len(s) + 1] = n
        /\ \A i \in 1 .. Len(s) : Append(s, n)[i] = s[i]
    BY AppendProperties
  <2>2. \A i : i \in 1 .. Len(s) + 1 <=> i \in 1 .. Len(s) \/ i = Len(s) + 1 BY <1>1
  <2>3. L!Range(Append(s, n)) = {Append(s, n)[i] : i \in 1 .. Len(s) + 1} BY <1>1, <1>2, <2>1
  <2>4. L!Range(s) = {s[i] : i \in 1 .. Len(s)} BY <1>1
  <2> QED BY <2>1, <2>2, <2>3, <2>4
<1>5. L!Range(s) \subseteq Nat BY <1>1
<1> QED BY <1>2, <1>3, <1>4, <1>5

LEMMA RangeOfEmpty == L!Range(<<>>) = {} /\ <<>> \in Seq(Nat)
<1>1. <<>> \in Seq(Nat) OBVIOUS
<1>2. DOMAIN <<>> = {} OBVIOUS
<1> QED BY <1>1, <1>2 DEF L!Range

\* An empty buffer, before and after a rotator is taken over.
IsRotator(r) ==
    /\ r = [file |-> r.file, date |-> r.date, size |-> r.size, buffer |-> r.buffer,
            closed |-> r.closed, cap |-> r.cap, boot |-> r.boot]
    /\ r.buffer \in Seq(Nat) /\ r.cap \in Caps /\ r.closed \in BOOLEAN /\ r.boot \in Nat

Held(r) == L!Range(r.buffer)
InBuffers(rs) == UNION {Held(rs[i]) : i \in 1 .. Len(rs)}
InFiles(d) == UNION {L!Range(d[f]) : f \in DOMAIN d}

\* The rotators when it is the day that is given: no entry is in two buffers.
RotatorsOn(rs, today) ==
    /\ IsSequence(rs) /\ Len(rs) \in Nat \ {0}
    /\ \A i \in 1 .. Len(rs) : IsRotator(rs[i]) /\ rs[i].date \in 0 .. today
    /\ \A i, j \in 1 .. Len(rs) : i # j => Held(rs[i]) \cap Held(rs[j]) = {}

\* The files likewise.
FilesOn(d, today) ==
    /\ d \in [DOMAIN d -> Seq(Nat)] /\ IsFiniteSet(DOMAIN d)
    /\ DOMAIN d \subseteq (1 .. today) \X Nat
    /\ \A f, g \in DOMAIN d : f # g => L!Range(d[f]) \cap L!Range(d[g]) = {}

\* An entry is in one of six places.
Partition(onDisk, inBuffer, la, un, us, pr, n) ==
    /\ onDisk \cup inBuffer \cup la \cup un \cup us \cup pr = 1 .. n
    /\ onDisk \cap (inBuffer \cup la \cup un \cup us \cup pr) = {}
    /\ inBuffer \cap (la \cup un \cup us \cup pr) = {}
    /\ la \cap (un \cup us \cup pr) = {} /\ un \cap (us \cup pr) = {} /\ us \cap pr = {}

LogTypes ==
    /\ day \in Nat \ {0} /\ written \in Nat /\ replaced \in BOOLEAN
    /\ replaced => Len(rotators) > 1
    /\ loaded \in [Loggers -> 0 .. Len(rotators)]
    /\ owner \in Seq(1 .. Len(rotators)) /\ Len(owner) = written

LogInv ==
    /\ LogTypes /\ RotatorsOn(rotators, day) /\ FilesOn(disk, day)
    /\ Partition(InFiles(disk), InBuffers(rotators), late, unlinked, unsaved, pruned, written)
    /\ L!FewFiles

\* A rotator is put in the place of another.
LEMMA Rewritten ==
    ASSUME NEW rs, NEW today, RotatorsOn(rs, today), NEW i \in 1 .. Len(rs), NEW r,
           IsRotator(r), r.date \in 0 .. today,
           \A j \in 1 .. Len(rs) : j # i => Held(r) \cap Held(rs[j]) = {},
           NEW new, IsSequence(new), Len(new) = Len(rs),
           new[i] = r, \A j \in 1 .. Len(rs) : j # i => new[j] = rs[j]
    PROVE  /\ RotatorsOn(new, today) /\ Len(new) = Len(rs)
           /\ InBuffers(new) = (InBuffers(rs) \ Held(rs[i])) \cup Held(r)
<1>1. /\ IsSequence(new) /\ Len(new) = Len(rs)
      /\ \A j \in 1 .. Len(rs) : new[j] = IF j = i THEN r ELSE rs[j]
  OBVIOUS
<1>2. RotatorsOn(new, today)
  <2>1. \A j \in 1 .. Len(rs) : IsRotator(new[j]) /\ new[j].date \in 0 .. today BY <1>1 DEF RotatorsOn
  <2>2. ASSUME NEW j \in 1 .. Len(rs), NEW k \in 1 .. Len(rs), j # k
        PROVE  Held(new[j]) \cap Held(new[k]) = {}
    <3>1. Held(rs[j]) \cap Held(rs[k]) = {} BY <2>2 DEF RotatorsOn
    <3>2. CASE j = i
      <4>1. new[j] = r /\ new[k] = rs[k] /\ k # i BY <1>1, <2>2, <3>2
      <4> QED BY <4>1
    <3>3. CASE k = i
      <4>1. new[k] = r /\ new[j] = rs[j] /\ j # i BY <1>1, <2>2, <3>3
      <4> QED BY <4>1
    <3>4. CASE j # i /\ k # i
      <4>1. new[k] = rs[k] /\ new[j] = rs[j] BY <1>1, <3>4
      <4> QED BY <3>1, <4>1
    <3> QED BY <3>2, <3>3, <3>4
  <2> QED BY <1>1, <2>1, <2>2 DEF RotatorsOn
<1>3. InBuffers(new) = (InBuffers(rs) \ Held(rs[i])) \cup Held(r)
  <2>0. \A j \in 1 .. Len(rs) : j # i => Held(rs[j]) \cap Held(rs[i]) = {} BY DEF RotatorsOn
  <2>1. ASSUME NEW e \in InBuffers(new) PROVE e \in (InBuffers(rs) \ Held(rs[i])) \cup Held(r)
    <3>1. PICK j \in 1 .. Len(rs) : e \in Held(new[j]) BY <1>1 DEF InBuffers
    <3>2. CASE j = i BY <3>1, <3>2
    <3>3. CASE j # i
      <4>1. e \in Held(rs[j]) /\ e \notin Held(rs[i]) BY <2>0, <3>1, <3>3
      <4> QED BY <4>1 DEF InBuffers
    <3> QED BY <3>2, <3>3
  <2>2. \A e \in InBuffers(rs) \ Held(rs[i]) : e \in InBuffers(new) BY <1>1 DEF InBuffers
  <2>3. \A e \in Held(r) : e \in InBuffers(new) BY <1>1 DEF InBuffers
  <2> QED BY <2>1, <2>2, <2>3
<1> QED BY <1>1, <1>2, <1>3

\* One more rotator comes, with an empty buffer.
LEMMA NewRotator ==
    ASSUME NEW cap \in Caps, NEW boot \in Nat, NEW r, r = [L!New(cap) EXCEPT !.boot = boot]
    PROVE  IsRotator(r) /\ r.date = 0 /\ Held(r) = {}
<1> DEFINE made == L!New(cap)
<1>1. IsRotator(made) /\ made.date = 0 /\ made.buffer = <<>>
  BY RangeOfEmpty DEF L!New, L!NoFile, IsRotator
<1>2. r = [made EXCEPT !.boot = boot] OBVIOUS
<1> HIDE DEF made
<1>3. IsRotator(r) /\ r.date = 0 /\ r.buffer = <<>> BY <1>1, <1>2 DEF IsRotator
<1> QED BY <1>3, RangeOfEmpty DEF Held

LEMMA OneMore ==
    ASSUME NEW rs, NEW today \in Nat, RotatorsOn(rs, today),
           NEW r, IsRotator(r), r.date = 0, Held(r) = {},
           NEW new, IsSequence(new), Len(new) = Len(rs) + 1, new[Len(rs) + 1] = r,
           \A j \in 1 .. Len(rs) : new[j] = rs[j]
    PROVE  /\ RotatorsOn(new, today) /\ Len(new) = Len(rs) + 1
           /\ InBuffers(new) = InBuffers(rs)
<1>1. /\ IsSequence(new) /\ Len(rs) \in Nat \ {0} /\ Len(new) = Len(rs) + 1
      /\ new[Len(rs) + 1] = r /\ \A j \in 1 .. Len(rs) : new[j] = rs[j]
  BY DEF RotatorsOn
<1>2. \A j \in 1 .. Len(new) : j \in 1 .. Len(rs) \/ j = Len(rs) + 1 BY <1>1
<1>3. RotatorsOn(new, today)
  <2>1. \A j \in 1 .. Len(new) : IsRotator(new[j]) /\ new[j].date \in 0 .. today
    BY <1>1, <1>2 DEF RotatorsOn
  <2>2. \A j, k \in 1 .. Len(new) : j # k => Held(new[j]) \cap Held(new[k]) = {}
    BY <1>1, <1>2 DEF RotatorsOn
  <2> QED BY <1>1, <2>1, <2>2 DEF RotatorsOn
<1>4. InBuffers(new) = InBuffers(rs)
  <2>1. \A j \in 1 .. Len(rs) : j \in 1 .. Len(new) BY <1>1
  <2>2. \A e \in InBuffers(new) : e \in InBuffers(rs) BY <1>1, <1>2 DEF InBuffers
  <2>3. \A e \in InBuffers(rs) : e \in InBuffers(new) BY <1>1, <2>1 DEF InBuffers
  <2> QED BY <2>2, <2>3
<1> QED BY <1>1, <1>3, <1>4


\* A buffer goes to its file, or with the file that was removed.
LEMMA Flushing ==
    ASSUME LogInv, NEW i \in 1 .. Len(rotators)
    PROVE  LET r == rotators[i] IN
           /\ FilesOn(L!Flushed(r), day) /\ DOMAIN L!Flushed(r) = DOMAIN disk
           /\ \/ L!Gone(r) = {} /\ InFiles(L!Flushed(r)) = InFiles(disk) \cup Held(r)
              \/ L!Gone(r) = Held(r) /\ InFiles(L!Flushed(r)) = InFiles(disk)
<1> DEFINE r == rotators[i]
           d == L!Flushed(r)
<1>1. IsRotator(r) /\ r.buffer \in Seq(Nat) BY DEF LogInv, RotatorsOn, IsRotator
<1>2. FilesOn(disk, day) /\ disk \in [DOMAIN disk -> Seq(Nat)] BY DEF LogInv, FilesOn
<1>3. Held(r) \cap InFiles(disk) = {}
  <2>1. Held(r) \subseteq InBuffers(rotators) BY DEF InBuffers
  <2> QED BY <2>1 DEF LogInv, Partition
<1>4. CASE r.file \notin DOMAIN disk
  <2>1. d = disk /\ L!Gone(r) = Held(r) BY <1>4 DEF L!Flushed, L!Gone, L!Files, Held
  <2> QED BY <1>2, <2>1
<1>5. CASE r.file \in DOMAIN disk
  <2> DEFINE a == r.file
  <2>1. L!Gone(r) = {} BY <1>5 DEF L!Gone, L!Files
  <2>2. /\ DOMAIN d = DOMAIN disk /\ d[a] = disk[a] \o r.buffer
        /\ \A f \in DOMAIN disk : f # a => d[f] = disk[f]
    BY <1>2, <1>5 DEF L!Flushed, L!Files
  <2>3. disk[a] \in Seq(Nat) BY <1>2, <1>5
  <2>4. L!Range(d[a]) = L!Range(disk[a]) \cup Held(r) /\ d[a] \in Seq(Nat)
    BY <1>1, <2>2, <2>3, RangeFacts DEF Held
  <2>5. d \in [DOMAIN d -> Seq(Nat)]
    <3>1. d = [disk EXCEPT ![a] = @ \o r.buffer] BY <1>5 DEF L!Flushed, L!Files
    <3> QED BY <1>2, <2>2, <2>4, <3>1
  <2> HIDE DEF d
  <2>6. ASSUME NEW f \in DOMAIN disk, NEW g \in DOMAIN disk, f # g
        PROVE  L!Range(d[f]) \cap L!Range(d[g]) = {}
    <3>1. L!Range(disk[f]) \cap L!Range(disk[g]) = {} BY <1>2, <2>6 DEF FilesOn
    <3>2. L!Range(disk[f]) \subseteq InFiles(disk) /\ L!Range(disk[g]) \subseteq InFiles(disk) BY DEF InFiles
    <3>3. /\ L!Range(d[f]) = IF f = a THEN L!Range(disk[f]) \cup Held(r) ELSE L!Range(disk[f])
          /\ L!Range(d[g]) = IF g = a THEN L!Range(disk[g]) \cup Held(r) ELSE L!Range(disk[g])
      BY <2>2, <2>4
    <3> QED BY <1>3, <2>6, <3>1, <3>2, <3>3
  <2>7. FilesOn(d, day) BY <1>2, <2>2, <2>5, <2>6 DEF FilesOn
  <2>8. InFiles(d) = InFiles(disk) \cup Held(r)
    <3>0. \A f \in DOMAIN disk :
            L!Range(d[f]) = IF f = a THEN L!Range(disk[f]) \cup Held(r) ELSE L!Range(disk[f])
      BY <2>2, <2>4
    <3>1. \A e \in InFiles(d) : e \in InFiles(disk) \cup Held(r) BY <2>2, <3>0 DEF InFiles
    <3>2. \A e \in InFiles(disk) : e \in InFiles(d) BY <2>2, <3>0 DEF InFiles
    <3>3. \A e \in Held(r) : e \in InFiles(d) BY <1>5, <2>2, <2>4 DEF InFiles
    <3> QED BY <3>1, <3>2, <3>3
  <2>9. FilesOn(d, day) /\ DOMAIN d = DOMAIN disk /\ L!Gone(r) = {} /\ InFiles(d) = InFiles(disk) \cup Held(r)
    BY <2>1, <2>2, <2>7, <2>8
  <2> QED BY <2>9 DEF d
<1> QED BY <1>4, <1>5

\* No more files than before: none has come.
LEMMA SameFiles == ASSUME L!FewFiles, DOMAIN disk' = DOMAIN disk PROVE L!FewFiles'
BY CardinalityOfL DEF L!FewFiles, L!Files

LEMMA Replaced ==
    ASSUME LogInv, NEW i \in 1 .. Len(rotators), NEW r, Puts(rotators', rotators, i, r),
           IsRotator(r), r.date \in 0 .. day,
           \A j \in 1 .. Len(rotators) : j # i => Held(r) \cap Held(rotators[j]) = {}
    PROVE  /\ RotatorsOn(rotators', day) /\ Len(rotators') = Len(rotators)
           /\ InBuffers(rotators') = (InBuffers(rotators) \ Held(rotators[i])) \cup Held(r)
<1>1. IsSequence(rotators) /\ RotatorsOn(rotators, day) BY DEF LogInv, RotatorsOn
<1>2. /\ IsSequence(rotators') /\ Len(rotators') = Len(rotators) /\ rotators'[i] = r
      /\ \A j \in 1 .. Len(rotators) : j # i => rotators'[j] = rotators[j]
  BY <1>1, ExceptAny
<1> QED BY <1>1, <1>2, Rewritten

LEMMA Emptied ==
    ASSUME LogInv, NEW i \in 1 .. Len(rotators), NEW r, Puts(rotators', rotators, i, r),
           IsRotator(r), r.date \in 0 .. day, r.buffer = <<>>
    PROVE  /\ RotatorsOn(rotators', day) /\ Len(rotators') = Len(rotators)
           /\ InBuffers(rotators') = InBuffers(rotators) \ Held(rotators[i])
<1>1. Held(r) = {} BY RangeOfEmpty DEF Held
<1>2. \A j \in 1 .. Len(rotators) : j # i => Held(r) \cap Held(rotators[j]) = {} BY <1>1
<1>3. /\ RotatorsOn(rotators', day) /\ Len(rotators') = Len(rotators)
      /\ InBuffers(rotators') = (InBuffers(rotators) \ Held(rotators[i])) \cup Held(r)
  BY <1>2, Replaced
<1> QED BY <1>1, <1>3

LEMMA Saved ==
    ASSUME LogInv, NEW i \in 1 .. Len(rotators), NEW r, Puts(rotators', rotators, i, r),
           IsRotator(r), r.date \in 0 .. day, r.buffer = <<>>,
           disk' = L!Flushed(rotators[i]), unlinked' = unlinked \cup L!Gone(rotators[i]),
           UNCHANGED <<day, written, late, unsaved, pruned>>
    PROVE  /\ RotatorsOn(rotators', day') /\ Len(rotators') = Len(rotators)
           /\ FilesOn(disk', day') /\ L!FewFiles'
           /\ Partition(InFiles(disk'), InBuffers(rotators'), late', unlinked', unsaved', pruned', written')
<1>1. /\ RotatorsOn(rotators', day) /\ Len(rotators') = Len(rotators)
      /\ InBuffers(rotators') = InBuffers(rotators) \ Held(rotators[i])
  BY Emptied
<1>2. Held(rotators[i]) \subseteq InBuffers(rotators) BY DEF InBuffers
<1>3. /\ FilesOn(disk', day) /\ DOMAIN disk' = DOMAIN disk
      /\ \/ L!Gone(rotators[i]) = {} /\ InFiles(disk') = InFiles(disk) \cup Held(rotators[i])
         \/ L!Gone(rotators[i]) = Held(rotators[i]) /\ InFiles(disk') = InFiles(disk)
  BY Flushing
<1>4. Partition(InFiles(disk'), InBuffers(rotators'), late', unlinked', unsaved', pruned', written')
  BY <1>1, <1>2, <1>3 DEF LogInv, Partition
<1>5. L!FewFiles' BY <1>3, SameFiles DEF LogInv
<1> QED BY <1>1, <1>3, <1>4, <1>5

LEMMA LogFlush == ASSUME LogInv, NEW i \in 1 .. L!Current, L!FlushBuffer(i) PROVE LogInv'
<1> DEFINE r == [rotators[i] EXCEPT !.buffer = <<>>]
<1>1. i \in 1 .. Len(rotators) BY DEF L!Current
<1>2. IsRotator(rotators[i]) /\ rotators[i].date \in 0 .. day BY <1>1 DEF LogInv, RotatorsOn
<1>3. IsRotator(r) /\ r.date \in 0 .. day /\ r.buffer = <<>> BY <1>2, RangeOfEmpty DEF IsRotator
<1>4. Puts(rotators', rotators, i, r) BY DEF L!FlushBuffer, Puts
<1> HIDE DEF r
<1>5. /\ disk' = L!Flushed(rotators[i]) /\ unlinked' = unlinked \cup L!Gone(rotators[i])
      /\ UNCHANGED <<day, replaced, loaded, written, late, unsaved, pruned, owner, failures>>
  BY DEF L!FlushBuffer
<1>6. /\ RotatorsOn(rotators', day') /\ Len(rotators') = Len(rotators)
      /\ FilesOn(disk', day') /\ L!FewFiles'
      /\ Partition(InFiles(disk'), InBuffers(rotators'), late', unlinked', unsaved', pruned', written')
  BY <1>1, <1>3, <1>4, <1>5, Saved
<1>7. LogTypes' BY <1>5, <1>6 DEF LogInv, LogTypes
<1> QED BY <1>6, <1>7 DEF LogInv

\* A rotator that is closed.
LEMMA Shut ==
    ASSUME NEW r, IsRotator(r), NEW new, new = [r EXCEPT !.buffer = <<>>, !.closed = TRUE]
    PROVE  IsRotator(new) /\ new.date = r.date /\ new.buffer = <<>>
<1>1. /\ new.buffer = <<>> /\ new.closed = TRUE /\ new.date = r.date
      /\ new.cap = r.cap /\ new.boot = r.boot
  BY DEF IsRotator
<1>2. new = [file |-> new.file, date |-> new.date, size |-> new.size, buffer |-> new.buffer,
             closed |-> new.closed, cap |-> new.cap, boot |-> new.boot]
  BY DEF IsRotator
<1> QED BY <1>1, <1>2, RangeOfEmpty DEF IsRotator

LEMMA LogClose == ASSUME LogInv, L!CloseOld PROVE LogInv'
<1> DEFINE i == Len(rotators) - 1
           r == [rotators[i] EXCEPT !.buffer = <<>>, !.closed = TRUE]
<1>1. i \in 1 .. Len(rotators) BY DEF L!CloseOld, LogInv, LogTypes, RotatorsOn
<1>2. IsRotator(rotators[i]) /\ rotators[i].date \in 0 .. day BY <1>1 DEF LogInv, RotatorsOn
<1>3. IsRotator(r) /\ r.date \in 0 .. day /\ r.buffer = <<>> BY <1>2, Shut
<1>4. Puts(rotators', rotators, i, r) BY DEF L!CloseOld, L!Current, Puts
<1> HIDE DEF r
<1>5. /\ disk' = L!Flushed(rotators[i]) /\ unlinked' = unlinked \cup L!Gone(rotators[i]) /\ replaced' = FALSE
      /\ UNCHANGED <<day, loaded, written, late, unsaved, pruned, owner, failures>>
  BY DEF L!CloseOld, L!Current
<1> HIDE DEF i
<1>6. /\ RotatorsOn(rotators', day') /\ Len(rotators') = Len(rotators)
      /\ FilesOn(disk', day') /\ L!FewFiles'
      /\ Partition(InFiles(disk'), InBuffers(rotators'), late', unlinked', unsaved', pruned', written')
  BY <1>1, <1>3, <1>4, <1>5, Saved
<1>7. LogTypes' BY <1>5, <1>6 DEF LogInv, LogTypes
<1> QED BY <1>6, <1>7 DEF LogInv

\* Nobody holds an entry that is yet to be written.
LEMMA NextIsNew ==
    ASSUME LogInv
    PROVE  /\ written + 1 \notin InFiles(disk) \cup InBuffers(rotators) \cup late \cup unlinked
                                    \cup unsaved \cup pruned
           /\ written + 1 \in Nat /\ 1 .. written + 1 = (1 .. written) \cup {written + 1}
<1>1. written \in Nat /\ written + 1 \notin 1 .. written BY DEF LogInv, LogTypes
<1> QED BY <1>1 DEF LogInv, Partition

LEMMA LogAccept ==
    ASSUME LogInv, NEW g \in Loggers, loaded[g] # 0, L!Accept(g), Len(rotators') = Len(rotators),
           UNCHANGED <<day, replaced>>
    PROVE  LogTypes' /\ loaded[g] \in 1 .. Len(rotators)
<1>1. loaded[g] \in 1 .. Len(rotators) /\ Len(rotators) \in Nat BY DEF LogInv, LogTypes, RotatorsOn
<1>2. /\ written' = written + 1 /\ owner' = Append(owner, loaded[g])
      /\ loaded' = [loaded EXCEPT ![g] = 0]
  BY DEF L!Accept
<1>3. owner' \in Seq(1 .. Len(rotators)) /\ Len(owner') = written + 1
  BY <1>1, <1>2 DEF LogInv, LogTypes
<1>4. loaded' \in [Loggers -> 0 .. Len(rotators)] BY <1>1, <1>2 DEF LogInv, LogTypes
<1> QED BY <1>1, <1>2, <1>3, <1>4 DEF LogInv, LogTypes

LEMMA LogLate == ASSUME LogInv, NEW g \in Loggers, L!WriteLate(g) PROVE LogInv'
<1>1. /\ UNCHANGED <<day, disk, rotators, replaced, unlinked, unsaved, pruned, failures>>
      /\ late' = late \cup {written + 1} /\ L!Accept(g) /\ loaded[g] # 0
  BY DEF L!WriteLate
<1>2. LogTypes' BY <1>1, LogAccept
<1>3. written' = written + 1 BY <1>1 DEF L!Accept
<1>4. Partition(InFiles(disk'), InBuffers(rotators'), late', unlinked', unsaved', pruned', written')
  BY <1>1, <1>3, NextIsNew DEF LogInv, Partition
<1>5. L!FewFiles' BY <1>1, SameFiles DEF LogInv
<1> QED BY <1>1, <1>2, <1>4, <1>5 DEF LogInv

\* A rotator that got an entry.
LEMMA Written ==
    ASSUME LogInv, NEW r, IsRotator(r), r.date \in 0 .. day, NEW new, NEW n,
           new = [r EXCEPT !.size = n, !.buffer = Append(@, written + 1)]
    PROVE  IsRotator(new) /\ new.date = r.date /\ Held(new) = Held(r) \cup {written + 1}
<1>1. /\ new.buffer = Append(r.buffer, written + 1) /\ r.buffer \in Seq(Nat) /\ new.date = r.date
      /\ new.closed = r.closed /\ new.cap = r.cap /\ new.boot = r.boot
  BY DEF IsRotator
<1>2. written + 1 \in Nat BY NextIsNew
<1>3. new.buffer \in Seq(Nat) /\ Held(new) = Held(r) \cup {written + 1}
  BY <1>1, <1>2, RangeFacts DEF Held
<1>4. IsRotator(new)
  <2>1. new = [file |-> new.file, date |-> new.date, size |-> new.size, buffer |-> new.buffer,
            closed |-> new.closed, cap |-> new.cap, boot |-> new.boot]
    BY DEF IsRotator
  <2> QED BY <1>1, <1>3, <2>1 DEF IsRotator
<1> QED BY <1>1, <1>3, <1>4

LEMMA LogWrite == ASSUME LogInv, NEW g \in Loggers, L!WriteOn(g) PROVE LogInv'
<1> DEFINE i == loaded[g]
           n == rotators[i].size + EntrySize[written + 1]
           r == [rotators[i] EXCEPT !.size = n, !.buffer = Append(@, written + 1)]
<1>1. /\ UNCHANGED <<day, disk, replaced, late, unlinked, unsaved, pruned, failures>>
      /\ L!Accept(g) /\ loaded[g] # 0 /\ Puts(rotators', rotators, i, r)
  BY DEF L!WriteOn, L!Buffer, Puts
<1>2. i \in 1 .. Len(rotators) /\ Len(rotators) \in Nat
  BY <1>1 DEF LogInv, LogTypes, RotatorsOn
<1>3. IsRotator(rotators[i]) /\ rotators[i].date \in 0 .. day BY <1>2 DEF LogInv, RotatorsOn
<1>4. IsRotator(r) /\ r.date = rotators[i].date /\ Held(r) = Held(rotators[i]) \cup {written + 1}
  BY <1>3, Written
<1> HIDE DEF r, i
<1>5. written + 1 \notin InBuffers(rotators) /\ Held(rotators[i]) \subseteq InBuffers(rotators)
  BY <1>2, NextIsNew DEF InBuffers
<1>6. ASSUME NEW j \in 1 .. Len(rotators), j # i PROVE Held(r) \cap Held(rotators[j]) = {}
  <2>1. Held(rotators[i]) \cap Held(rotators[j]) = {} BY <1>2, <1>6 DEF LogInv, RotatorsOn
  <2>2. Held(rotators[j]) \subseteq InBuffers(rotators) BY DEF InBuffers
  <2> QED BY <1>4, <1>5, <2>1, <2>2
<1>7. /\ RotatorsOn(rotators', day) /\ Len(rotators') = Len(rotators)
      /\ InBuffers(rotators') = (InBuffers(rotators) \ Held(rotators[i])) \cup Held(r)
  BY <1>1, <1>2, <1>3, <1>4, <1>6, Replaced
<1>8. InBuffers(rotators') = InBuffers(rotators) \cup {written + 1} BY <1>4, <1>5, <1>7
<1>9. LogTypes' BY <1>1, <1>7, LogAccept
<1>10. written' = written + 1 BY <1>1 DEF L!Accept
<1>11. Partition(InFiles(disk'), InBuffers(rotators'), late', unlinked', unsaved', pruned', written')
  BY <1>1, <1>8, <1>10, NextIsNew DEF LogInv, Partition
<1>12. L!FewFiles' BY <1>1, SameFiles DEF LogInv
<1> QED BY <1>1, <1>7, <1>9, <1>11, <1>12 DEF LogInv

\* A rotator whose file cannot be opened.
LEMMA Bare ==
    ASSUME NEW r, IsRotator(r), NEW new, new = [r EXCEPT !.file = <<0, 0>>, !.size = 0, !.buffer = <<>>]
    PROVE  IsRotator(new) /\ new.date = r.date /\ new.buffer = <<>>
<1>1. /\ new.buffer = <<>> /\ new.closed = r.closed /\ new.date = r.date
      /\ new.cap = r.cap /\ new.boot = r.boot
  BY DEF IsRotator
<1>2. new = [file |-> new.file, date |-> new.date, size |-> new.size, buffer |-> new.buffer,
             closed |-> new.closed, cap |-> new.cap, boot |-> new.boot]
  BY DEF IsRotator
<1> QED BY <1>1, <1>2, RangeOfEmpty DEF IsRotator

LEMMA LogFails == ASSUME LogInv, NEW g \in Loggers, L!RotateFails(g) PROVE LogInv'
<1> DEFINE i == loaded[g]
           r == [rotators[i] EXCEPT !.file = <<0, 0>>, !.size = 0, !.buffer = <<>>]
<1>1. /\ loaded[g] # 0 /\ Puts(rotators', rotators, i, r) /\ loaded' = [loaded EXCEPT ![g] = 0]
      /\ UNCHANGED <<day, replaced, written, late, pruned, owner>>
  BY DEF L!RotateFails, L!NoFile, Puts
<1>2. i \in 1 .. Len(rotators) /\ Len(rotators) \in Nat
  BY <1>1 DEF LogInv, LogTypes, RotatorsOn
<1>3. IsRotator(rotators[i]) /\ rotators[i].date \in 0 .. day BY <1>2 DEF LogInv, RotatorsOn
<1>4. IsRotator(r) /\ r.date \in 0 .. day /\ r.buffer = <<>> BY <1>3, Bare
<1>5. \/ /\ disk' = L!Flushed(rotators[i]) /\ unlinked' = unlinked \cup L!Gone(rotators[i])
         /\ UNCHANGED unsaved
      \/ unsaved' = unsaved \cup Held(rotators[i]) /\ UNCHANGED <<disk, unlinked>>
  BY DEF L!RotateFails, Held
<1>6. loaded' \in [Loggers -> 0 .. Len(rotators)] BY <1>1, <1>2 DEF LogInv, LogTypes
<1> HIDE DEF r, i
<1>7. /\ RotatorsOn(rotators', day') /\ Len(rotators') = Len(rotators)
      /\ FilesOn(disk', day') /\ L!FewFiles'
      /\ Partition(InFiles(disk'), InBuffers(rotators'), late', unlinked', unsaved', pruned', written')
  <2>1. CASE /\ disk' = L!Flushed(rotators[i]) /\ unlinked' = unlinked \cup L!Gone(rotators[i])
             /\ UNCHANGED unsaved
    BY <1>1, <1>2, <1>4, <2>1, Saved
  <2>2. CASE unsaved' = unsaved \cup Held(rotators[i]) /\ UNCHANGED <<disk, unlinked>>
    <3>1. /\ RotatorsOn(rotators', day) /\ Len(rotators') = Len(rotators)
          /\ InBuffers(rotators') = InBuffers(rotators) \ Held(rotators[i])
      BY <1>1, <1>2, <1>4, Emptied
    <3>2. Held(rotators[i]) \subseteq InBuffers(rotators) BY <1>2 DEF InBuffers
    <3>3. Partition(InFiles(disk'), InBuffers(rotators'), late', unlinked', unsaved', pruned', written')
      BY <1>1, <2>2, <3>1, <3>2 DEF LogInv, Partition
    <3>4. L!FewFiles' /\ FilesOn(disk', day') BY <1>1, <2>2, SameFiles DEF LogInv
    <3> QED BY <1>1, <3>1, <3>3, <3>4
  <2> QED BY <1>5, <2>1, <2>2
<1>8. LogTypes' BY <1>1, <1>6, <1>7 DEF LogInv, LogTypes
<1> QED BY <1>7, <1>8 DEF LogInv

\* The sequence numbers of the day are finitely many.
LEMMA SequencesKnown ==
    ASSUME NEW d, FilesOn(d, day)
    PROVE  /\ L!SequencesOf(day, DOMAIN d) \subseteq Nat
           /\ IsFiniteSet(L!SequencesOf(day, DOMAIN d))
<1> DEFINE today == {g \in DOMAIN d : g[1] = day}
           T == L!SequencesOf(day, DOMAIN d)
<1>1. \A f \in DOMAIN d : f[2] \in Nat BY DEF FilesOn
<1>2. IsFiniteSet(today) BY FS_Subset DEF FilesOn
<1> DEFINE second == [f \in today |-> f[2]]
<1>3. T = {f[2] : f \in today} BY DEF L!SequencesOf
<1>4. second \in Surjection(today, T) BY <1>3 DEF Surjection
<1> HIDE DEF second
<1>5. IsFiniteSet(T) BY <1>2, <1>4, FS_Surjection
<1> QED BY <1>1, <1>3, <1>5

\* A rotator goes over to a file of today.
LEMMA PathIsToday ==
    ASSUME LogInv, NEW d, FilesOn(d, day), NEW r
    PROVE  L!NewPath(r, d) \in (1 .. day) \X Nat
<1> DEFINE T == L!SequencesOf(day, DOMAIN d)
<1>1. day \in Nat /\ day \in 1 .. day BY DEF LogInv, LogTypes
<1>3. T \subseteq Nat BY SequencesKnown
<1>4. IsFiniteSet(T) BY SequencesKnown
<1> HIDE DEF T
<1>5. T # {} => L!Max(T) \in Nat BY <1>3, <1>4, GreatestNatural
<1>6. L!Max({0} \cup T) \in Nat
  <2>1. IsFiniteSet({0}) /\ IsFiniteSet({0} \cup T) BY <1>4, FS_Singleton, FS_Union
  <2>2. {0} \cup T \subseteq Nat /\ {0} \cup T # {} BY <1>3
  <2> QED BY <2>1, <2>2, GreatestNatural
<1>7. L!NextSequence(DOMAIN d) = <<day, L!Max({0} \cup T) + 1>> BY DEF L!NextSequence, T
<1>8. \/ L!ResolveActive(r, d) = <<day, 0>>
      \/ T # {} /\ L!ResolveActive(r, d) = <<day, L!Max(T)>>
      \/ T # {} /\ L!ResolveActive(r, d) = <<day, L!Max(T) + 1>>
  BY DEF L!ResolveActive, T
<1>9. L!NextSequence(DOMAIN d) \in (1 .. day) \X Nat BY <1>1, <1>6, <1>7
<1>10. L!ResolveActive(r, d) \in (1 .. day) \X Nat BY <1>1, <1>5, <1>8
<1> QED BY <1>9, <1>10 DEF L!NewPath

\* What is left of the files, one of which may be new.
Leaves(new, kept, gone, old, file) ==
    /\ kept \subseteq DOMAIN old \cup {file}
    /\ new = [f \in kept |-> IF f \in DOMAIN old THEN old[f] ELSE <<>>]
    /\ gone = UNION {L!Range(IF f \in DOMAIN old THEN old[f] ELSE <<>>) :
                         f \in (DOMAIN old \cup {file}) \ kept}

LEMMA Pruned ==
    ASSUME NEW old, NEW today, FilesOn(old, today), NEW file \in (1 .. today) \X Nat,
           NEW kept, NEW new, NEW gone, Leaves(new, kept, gone, old, file)
    PROVE  /\ FilesOn(new, today) /\ InFiles(new) = InFiles(old) \ gone
           /\ gone \subseteq InFiles(old)
<1>0. /\ kept \subseteq DOMAIN old \cup {file}
      /\ DOMAIN new = kept /\ new = [f \in kept |-> new[f]]
      /\ \A f \in kept : new[f] = IF f \in DOMAIN old THEN old[f] ELSE <<>>
      /\ gone = UNION {L!Range(IF f \in DOMAIN old THEN old[f] ELSE <<>>) :
                           f \in (DOMAIN old \cup {file}) \ kept}
  BY DEF Leaves
<1>1. /\ old \in [DOMAIN old -> Seq(Nat)] /\ IsFiniteSet(DOMAIN old)
      /\ DOMAIN old \subseteq (1 .. today) \X Nat
      /\ \A f, g \in DOMAIN old : f # g => L!Range(old[f]) \cap L!Range(old[g]) = {}
  BY DEF FilesOn
<1>2. \A f \in kept : new[f] \in Seq(Nat) BY <1>0, <1>1, RangeOfEmpty
<1>3. new \in [kept -> Seq(Nat)] BY <1>0, <1>2
<1>4. IsFiniteSet(kept)
  <2>1. IsFiniteSet(DOMAIN old \cup {file}) BY <1>1, FS_AddElement
  <2> QED BY <1>0, <2>1, FS_Subset
<1>5. \A f \in kept : L!Range(new[f]) = IF f \in DOMAIN old THEN L!Range(old[f]) ELSE {}
  BY <1>0, RangeOfEmpty
<1>6. \A f, g \in kept : f # g => L!Range(new[f]) \cap L!Range(new[g]) = {} BY <1>0, <1>1, <1>5
<1>7. FilesOn(new, today)
  <2>1. DOMAIN new \subseteq (1 .. today) \X Nat BY <1>0, <1>1
  <2> QED BY <1>0, <1>3, <1>4, <1>6, <2>1 DEF FilesOn
<1>8. gone = UNION {L!Range(old[f]) : f \in DOMAIN old \ kept}
  <2>1. \A e \in gone : \E f \in DOMAIN old \ kept : e \in L!Range(old[f]) BY <1>0, RangeOfEmpty
  <2>2. \A f \in DOMAIN old \ kept : \A e \in L!Range(old[f]) : e \in gone BY <1>0
  <2> QED BY <2>1, <2>2
<1>9. gone \subseteq InFiles(old) BY <1>8 DEF InFiles
<1>10. InFiles(new) = InFiles(old) \ gone
  <2>1. ASSUME NEW e \in InFiles(new) PROVE e \in InFiles(old) \ gone
    <3>1. PICK f \in kept : e \in L!Range(new[f]) BY <1>0, <2>1 DEF InFiles
    <3>2. f \in DOMAIN old /\ e \in L!Range(old[f]) BY <1>5, <3>1
    <3>3. \A g \in DOMAIN old \ kept : e \notin L!Range(old[g]) BY <1>1, <3>1, <3>2
    <3> QED BY <1>8, <3>2, <3>3 DEF InFiles
  <2>2. ASSUME NEW e \in InFiles(old) \ gone PROVE e \in InFiles(new)
    <3>1. PICK f \in DOMAIN old : e \in L!Range(old[f]) BY DEF InFiles
    <3>2. f \in kept BY <1>8, <2>2, <3>1
    <3>3. e \in L!Range(new[f]) BY <1>5, <3>1, <3>2
    <3> QED BY <1>0, <3>2, <3>3 DEF InFiles
  <2> QED BY <2>1, <2>2
<1> QED BY <1>7, <1>9, <1>10

\* Pruning leaves the active file and those that have few files after them.
LEMMA FewKept ==
    ASSUME NEW files, IsFiniteSet(files), files \subseteq Nat \X Nat, NEW file \in files, MaxBackups > 0
    PROVE  L!Cardinality(files \ L!Excess(files, file)) <= MaxBackups + 1
<1> DEFINE B == files \ {file}
           After(f) == {g \in B : L!Earlier(f, g)}
           K == {f \in B : L!Cardinality(After(f)) < MaxBackups}
           kept == files \ L!Excess(files, file)
<1>1. MaxBackups \in Nat BY LogAssumption
<1>2. IsFiniteSet(B) /\ B \subseteq Nat \X Nat BY FS_Subset
<1>3. IsFiniteSet(K) /\ Cardinality(K) <= MaxBackups BY <1>1, <1>2, FewLater
<1>4. \A f \in B : L!Cardinality(After(f)) \in Nat
  <2> SUFFICES ASSUME NEW f \in B PROVE L!Cardinality(After(f)) \in Nat OBVIOUS
  <2>1. IsFiniteSet(After(f)) BY <1>2, FS_Subset
  <2> HIDE DEF After
  <2>2. Cardinality(After(f)) \in Nat BY <2>1, FS_CardinalityType
  <2> QED BY <2>2, CardinalityOfL
<1>5. kept \subseteq K \cup {file}
  <2>1. L!Excess(files, file) = {f \in B : L!Cardinality(After(f)) >= MaxBackups}
    BY <1>1 DEF L!Excess
  <2> QED BY <1>1, <1>4, <2>1
<1> HIDE DEF K, kept
<1>6. IsFiniteSet(K \cup {file}) /\ Cardinality(K \cup {file}) <= Cardinality(K) + 1
  <2>1. Cardinality(K) \in Nat BY <1>3, FS_CardinalityType
  <2>2. IsFiniteSet(K \cup {file}) /\ Cardinality(K \cup {file})
            = IF file \in K THEN Cardinality(K) ELSE Cardinality(K) + 1
    BY <1>3, FS_AddElement
  <2> QED BY <2>1, <2>2
<1>7. IsFiniteSet(kept) /\ Cardinality(kept) <= Cardinality(K \cup {file}) BY <1>5, <1>6, FS_Subset
<1>8. Cardinality(K) \in Nat /\ Cardinality(K \cup {file}) \in Nat /\ Cardinality(kept) \in Nat
  BY <1>3, <1>6, <1>7, FS_CardinalityType
<1>9. Cardinality(kept) <= MaxBackups + 1 BY <1>1, <1>3, <1>6, <1>7, <1>8
<1> QED BY <1>9, CardinalityOfL DEF kept

\* A rotator with its new file, before the entry is written.
Opens(new, r, f, d, n) == new = [r EXCEPT !.file = f, !.date = d, !.size = n, !.buffer = <<>>]

LEMMA Opened ==
    ASSUME NEW r, IsRotator(r), NEW f, NEW d, NEW n, NEW new, Opens(new, r, f, d, n)
    PROVE  IsRotator(new) /\ new.date = d /\ new.buffer = <<>>
<1>0. new = [r EXCEPT !.file = f, !.date = d, !.size = n, !.buffer = <<>>] BY DEF Opens
<1>1. /\ new.buffer = <<>> /\ new.closed = r.closed /\ new.date = d
      /\ new.cap = r.cap /\ new.boot = r.boot
  BY <1>0 DEF IsRotator
<1>2. new = [file |-> new.file, date |-> new.date, size |-> new.size, buffer |-> new.buffer,
             closed |-> new.closed, cap |-> new.cap, boot |-> new.boot]
  BY <1>0 DEF IsRotator
<1> QED BY <1>1, <1>2, RangeOfEmpty DEF IsRotator

LEMMA LogRotates == ASSUME LogInv, NEW g \in Loggers, L!WriteRotates(g) PROVE LogInv'
<1> DEFINE i == loaded[g]
           q == rotators[i]
           old == L!Flushed(q)
           file == L!NewPath(q, old)
           files == DOMAIN disk \cup {file}
           kept == files \ L!Excess(files, file)
           content(f) == IF f \in DOMAIN disk THEN old[f] ELSE <<>>
           gone == UNION {L!Range(content(f)) : f \in files \ kept}
           open == [q EXCEPT !.file = file, !.date = day, !.size = L!Size(content(file)), !.buffer = <<>>]
           n == open.size + EntrySize[written + 1]
           r == [open EXCEPT !.size = n, !.buffer = Append(@, written + 1)]
<1>1. /\ UNCHANGED <<day, replaced, late, unsaved, failures>>
      /\ L!Accept(g) /\ loaded[g] # 0 /\ Puts(rotators', rotators, i, r)
      /\ disk' = [f \in kept |-> content(f)]
      /\ pruned' = pruned \cup gone /\ unlinked' = unlinked \cup L!Gone(q)
  BY DEF L!WriteRotates, L!Buffer, L!Files, Puts
<1>2. i \in 1 .. Len(rotators) /\ Len(rotators) \in Nat
  BY <1>1 DEF LogInv, LogTypes, RotatorsOn
<1>3. IsRotator(q) /\ day \in 0 .. day /\ day \in Nat BY <1>2 DEF LogInv, RotatorsOn, LogTypes
<1>4. /\ FilesOn(old, day) /\ DOMAIN old = DOMAIN disk
      /\ \/ L!Gone(q) = {} /\ InFiles(old) = InFiles(disk) \cup Held(q)
         \/ L!Gone(q) = Held(q) /\ InFiles(old) = InFiles(disk)
  BY <1>2, Flushing
<1>5. file \in (1 .. day) \X Nat BY <1>4, PathIsToday
<1> HIDE DEF i, old, file
<1>6. IsRotator(open) /\ open.date = day /\ open.buffer = <<>> 
  <2>1. Opens(open, q, file, day, L!Size(content(file))) BY DEF Opens
  <2> HIDE DEF open, q
  <2> QED BY <1>3, <2>1, Opened
<1> HIDE DEF open
<1>7. IsRotator(r) /\ r.date = day /\ Held(r) = {written + 1}
  <2>1. Held(open) = {} BY <1>6, RangeOfEmpty DEF Held
  <2>2. open.date \in 0 .. day BY <1>3, <1>6
  <2>3. IsRotator(r) /\ r.date = open.date /\ Held(r) = Held(open) \cup {written + 1}
    BY <1>6, <2>2, Written
  <2> QED BY <1>6, <2>1, <2>3
<1> HIDE DEF r
<1>8. written + 1 \notin InBuffers(rotators) /\ Held(q) \subseteq InBuffers(rotators)
  BY <1>2, NextIsNew DEF InBuffers
<1>9. /\ RotatorsOn(rotators', day) /\ Len(rotators') = Len(rotators)
      /\ InBuffers(rotators') = (InBuffers(rotators) \ Held(q)) \cup {written + 1}
  <2>1. \A j \in 1 .. Len(rotators) : j # i => Held(r) \cap Held(rotators[j]) = {}
    BY <1>7, <1>8 DEF InBuffers
  <2>2. /\ RotatorsOn(rotators', day) /\ Len(rotators') = Len(rotators)
        /\ InBuffers(rotators') = (InBuffers(rotators) \ Held(rotators[i])) \cup Held(r)
    BY <1>1, <1>2, <1>3, <1>7, <2>1, Replaced
  <2> QED BY <1>7, <2>2
<1>10. /\ FilesOn(disk', day) /\ InFiles(disk') = InFiles(old) \ gone /\ gone \subseteq InFiles(old)
  <2>1. Leaves(disk', kept, gone, old, file) BY <1>1, <1>4 DEF Leaves
  <2> HIDE DEF kept, gone
  <2> QED BY <1>4, <1>5, <2>1, Pruned
<1>11. L!FewFiles'
  <2>1. IsFiniteSet(files) /\ files \subseteq Nat \X Nat
    <3>1. IsFiniteSet(DOMAIN disk) /\ DOMAIN disk \subseteq (1 .. day) \X Nat BY DEF LogInv, FilesOn
    <3>2. files \subseteq (1 .. day) \X Nat BY <1>5, <3>1
    <3>3. (1 .. day) \X Nat \subseteq Nat \X Nat OBVIOUS
    <3> QED BY <3>1, <3>2, <3>3, FS_AddElement
  <2>2. DOMAIN disk' = kept BY <1>1
  <2> QED BY <2>1, <2>2, FewKept, CardinalityOfL DEF L!FewFiles, L!Files
<1>12. LogTypes' BY <1>1, <1>9, LogAccept
<1>13. written' = written + 1 BY <1>1 DEF L!Accept
<1> HIDE DEF gone, q
<1>14. Partition(InFiles(disk'), InBuffers(rotators'), late', unlinked', unsaved', pruned', written')
  <2>1. /\ Partition(InFiles(disk), InBuffers(rotators), late, unlinked, unsaved, pruned, written)
        /\ late' = late /\ unsaved' = unsaved /\ pruned' = pruned \cup gone
        /\ unlinked' = unlinked \cup L!Gone(q)
    BY <1>1 DEF LogInv
  <2> HIDE DEF i
  <2>2. Partition(InFiles(old), InBuffers(rotators) \ Held(q), late, unlinked', unsaved, pruned, written)
    BY <1>4, <1>8, <2>1 DEF Partition
  <2>3. Partition(InFiles(disk'), InBuffers(rotators) \ Held(q), late, unlinked', unsaved, pruned', written)
    BY <1>10, <2>1, <2>2 DEF Partition
  <2> QED BY <1>9, <1>13, <2>1, <2>3, NextIsNew DEF Partition
<1> QED BY <1>1, <1>9, <1>10, <1>11, <1>12, <1>14 DEF LogInv

LEMMA LogOthers ==
    ASSUME LogInv, L!Midnight \/ \E g \in Loggers : L!LoadCores(g)
    PROVE  LogInv'
<1>1. /\ UNCHANGED <<disk, rotators, replaced, written, late, unlinked, unsaved, pruned, owner>>
      /\ day' = day \/ day' = day + 1
      /\ loaded' = loaded \/ \E g \in Loggers : loaded' = [loaded EXCEPT ![g] = Len(rotators)]
  BY DEF L!Midnight, L!LoadCores, L!Current
<1>2. Len(rotators) \in Nat /\ day \in Nat BY DEF LogInv, RotatorsOn, LogTypes
<1>3. LogTypes' BY <1>1, <1>2 DEF LogInv, LogTypes
<1>4. RotatorsOn(rotators', day')
  <2>1. 0 .. day \subseteq 0 .. day' BY <1>1, <1>2
  <2> QED BY <1>1, <2>1 DEF LogInv, RotatorsOn
<1>5. FilesOn(disk', day')
  <2>1. (1 .. day) \X Nat \subseteq (1 .. day') \X Nat BY <1>1, <1>2
  <2> QED BY <1>1, <2>1 DEF LogInv, FilesOn
<1>6. L!FewFiles' BY <1>1, SameFiles DEF LogInv
<1> QED BY <1>1, <1>3, <1>4, <1>5, <1>6 DEF LogInv

LEMMA LogSetCores == ASSUME LogInv, NEW cap \in Caps, L!SetCores(cap) PROVE LogInv'
<1> DEFINE boot == rotators[Len(rotators)].boot
           r == [L!New(cap) EXCEPT !.boot = boot]
<1>1. /\ UNCHANGED <<day, disk, loaded, written, late, unlinked, unsaved, pruned, owner>>
      /\ rotators' = Append(rotators, r) /\ replaced' = TRUE
  BY DEF L!SetCores, L!Current
<1>2. IsSequence(rotators) /\ RotatorsOn(rotators, day) /\ Len(rotators) \in Nat \ {0} /\ day \in Nat
  BY DEF LogInv, RotatorsOn, LogTypes
<1>3. boot \in Nat
  <2>1. Len(rotators) \in 1 .. Len(rotators) BY <1>2
  <2> QED BY <2>1 DEF LogInv, RotatorsOn, IsRotator
<1> HIDE DEF boot
<1>4. IsRotator(r) /\ r.date = 0 /\ Held(r) = {} BY <1>3, NewRotator
<1> HIDE DEF r
<1>5. /\ IsSequence(rotators') /\ Len(rotators') = Len(rotators) + 1 /\ rotators'[Len(rotators) + 1] = r
      /\ \A j \in 1 .. Len(rotators) : rotators'[j] = rotators[j]
  BY <1>1, <1>2, AppendAny
<1>6. /\ RotatorsOn(rotators', day) /\ InBuffers(rotators') = InBuffers(rotators)
  BY <1>2, <1>4, <1>5, OneMore
<1>7. LogTypes'
  <2>1. 0 .. Len(rotators) \subseteq 0 .. Len(rotators') BY <1>2, <1>5
  <2>2. 1 .. Len(rotators) \subseteq 1 .. Len(rotators') BY <1>2, <1>5
  <2>3. owner \in Seq(1 .. Len(rotators')) BY <2>2, SeqMonotonic DEF LogInv, LogTypes
  <2>4. loaded \in [Loggers -> 0 .. Len(rotators')] BY <2>1 DEF LogInv, LogTypes
  <2>5. Len(rotators') > 1 BY <1>2, <1>5
  <2> QED BY <1>1, <2>3, <2>4, <2>5 DEF LogInv, LogTypes
<1>8. L!FewFiles' BY <1>1, SameFiles DEF LogInv
<1> QED BY <1>1, <1>6, <1>7, <1>8 DEF LogInv

LEMMA SameInterval == ASSUME NEW a \in Nat, NEW b \in Nat, 1 .. a = 1 .. b PROVE a = b
<1>1. \A k \in Nat : k \in 1 .. a <=> k \in 1 .. b OBVIOUS
<1>2. \A k \in Nat : (1 <= k /\ k <= a) <=> (1 <= k /\ k <= b) BY <1>1
<1>3. ~(a < b) BY <1>2
<1>4. ~(b < a) BY <1>2
<1> QED BY <1>3, <1>4

\* All rotators of a run that has ended.
LEMMA AllShut ==
    ASSUME LogInv, NEW new,
           new = [j \in 1 .. Len(rotators) |-> [rotators[j] EXCEPT !.buffer = <<>>, !.closed = TRUE]]
    PROVE  /\ RotatorsOn(new, day) /\ Len(new) = Len(rotators) /\ InBuffers(new) = {}
<1>1. Len(rotators) \in Nat \ {0} /\ \A j \in 1 .. Len(rotators) : IsRotator(rotators[j]) /\ rotators[j].date \in 0 .. day
  BY DEF LogInv, RotatorsOn
<1>2. /\ \A j \in 1 .. Len(rotators) : new[j] = [rotators[j] EXCEPT !.buffer = <<>>, !.closed = TRUE]
      /\ new \in Seq({new[j] : j \in 1 .. Len(rotators)}) /\ Len(new) = Len(rotators)
  <2>1. DOMAIN new = 1 .. Len(rotators) /\ new \in [1 .. Len(rotators) -> {new[j] : j \in 1 .. Len(rotators)}]
    OBVIOUS
  <2> DEFINE T == {new[j] : j \in 1 .. Len(rotators)}
  <2>2. new \in [1 .. Len(rotators) -> T] BY <2>1
  <2> HIDE DEF T
  <2>3. new \in Seq(T)
    <3>1. PICK n \in Nat : n = Len(rotators) BY <1>1
    <3>2. new \in [1 .. n -> T] BY <2>2, <3>1
    <3> QED BY <3>2, SeqDef
  <2>4. Len(new) = Len(rotators)
    <3>1. Len(new) \in Nat /\ DOMAIN new = 1 .. Len(new) BY <2>3, LenProperties
    <3>2. 1 .. Len(new) = 1 .. Len(rotators) BY <2>1, <3>1, Zenon
    <3> QED BY <1>1, <3>1, <3>2, SameInterval
  <2>5. \A j \in 1 .. Len(rotators) : new[j] = [rotators[j] EXCEPT !.buffer = <<>>, !.closed = TRUE]
    OBVIOUS
  <2> QED BY <2>3, <2>4, <2>5 DEF T
<1>3. ASSUME NEW j \in 1 .. Len(rotators)
      PROVE  IsRotator(new[j]) /\ new[j].date \in 0 .. day /\ Held(new[j]) = {}
  <2> DEFINE q == rotators[j]
             r == new[j]
  <2>1. IsRotator(q) /\ r = [q EXCEPT !.buffer = <<>>, !.closed = TRUE] BY <1>1, <1>2
  <2> HIDE DEF r, q
  <2>2. IsRotator(r) /\ r.date = q.date /\ r.buffer = <<>> BY <2>1, Shut
  <2>3. Held(r) = {} BY <2>2, RangeOfEmpty DEF Held
  <2> QED BY <1>1, <2>2, <2>3 DEF r, q
<1>4. IsSequence(new) BY <1>2 DEF IsSequence
<1>5. Len(new) = Len(rotators) BY <1>2
<1>6. RotatorsOn(new, day) BY <1>1, <1>3, <1>4, <1>5 DEF RotatorsOn
<1>7. InBuffers(new) = {}
  <2>1. \A j \in 1 .. Len(new) : Held(new[j]) = {} BY <1>3, <1>5
  <2>2. ASSUME NEW e \in InBuffers(new) PROVE FALSE
    <3>1. PICK j \in 1 .. Len(new) : e \in Held(new[j]) BY <2>2 DEF InBuffers
    <3> QED BY <2>1, <3>1
  <2> QED BY <2>2
<1> QED BY <1>5, <1>6, <1>7

LEMMA LogRestart == ASSUME LogInv, NEW cap \in Caps, L!Restart(cap) PROVE LogInv'
<1> DEFINE boot == rotators[Len(rotators)].boot + 1
           r == [L!New(cap) EXCEPT !.boot = boot]
           rs == [j \in 1 .. Len(rotators) |-> [rotators[j] EXCEPT !.buffer = <<>>, !.closed = TRUE]]
<1>1. /\ UNCHANGED <<day, disk, written, late, unlinked, pruned, owner>>
      /\ rotators' = Append(rs, r) /\ replaced' = FALSE /\ loaded' = [g \in Loggers |-> 0]
      /\ unsaved' = unsaved \cup InBuffers(rotators)
  BY DEF L!Restart, L!Current, L!Unflushed, InBuffers, Held
<1>2. Len(rotators) \in Nat \ {0} /\ day \in Nat BY DEF LogInv, RotatorsOn, LogTypes
<1>3. boot \in Nat
  <2>1. Len(rotators) \in 1 .. Len(rotators) BY <1>2
  <2>2. IsRotator(rotators[Len(rotators)]) BY <2>1 DEF LogInv, RotatorsOn
  <2>3. rotators[Len(rotators)].boot \in Nat BY <2>2 DEF IsRotator
  <2> QED BY <2>3
<1> HIDE DEF boot
<1>4. IsRotator(r) /\ r.date = 0 /\ Held(r) = {} BY <1>3, NewRotator
<1>5. RotatorsOn(rs, day) /\ IsSequence(rs) /\ Len(rs) = Len(rotators) /\ InBuffers(rs) = {}
  BY AllShut DEF RotatorsOn
<1> HIDE DEF r, rs
<1>6. /\ IsSequence(rotators') /\ Len(rotators') = Len(rs) + 1 /\ rotators'[Len(rs) + 1] = r
      /\ \A j \in 1 .. Len(rs) : rotators'[j] = rs[j]
  BY <1>1, <1>5, AppendAny
<1>7. /\ RotatorsOn(rotators', day) /\ InBuffers(rotators') = {} BY <1>2, <1>4, <1>5, <1>6, OneMore
<1>8. LogTypes'
  <2>1. 1 .. Len(rotators) \subseteq 1 .. Len(rotators') BY <1>2, <1>5, <1>6
  <2>2. owner \in Seq(1 .. Len(rotators')) BY <2>1, SeqMonotonic DEF LogInv, LogTypes
  <2>3. loaded' \in [Loggers -> 0 .. Len(rotators')] BY <1>1, <1>2, <1>5, <1>6
  <2> QED BY <1>1, <2>2, <2>3 DEF LogInv, LogTypes
<1>9. Partition(InFiles(disk'), InBuffers(rotators'), late', unlinked', unsaved', pruned', written')
  BY <1>1, <1>7 DEF LogInv, Partition
<1>10. L!FewFiles' BY <1>1, SameFiles DEF LogInv
<1> QED BY <1>1, <1>7, <1>8, <1>9, <1>10 DEF LogInv

LEMMA LogNext == LogInv /\ [L!Next]_logVars => LogInv'
<1> SUFFICES ASSUME LogInv, [L!Next]_logVars PROVE LogInv' OBVIOUS
<1>1. CASE \E g \in Loggers : L!WriteLate(g) \/ L!WriteOn(g) \/ L!WriteRotates(g) \/ L!RotateFails(g)
  BY <1>1, LogLate, LogWrite, LogRotates, LogFails
<1>2. CASE \E i \in 1 .. L!Current : L!FlushBuffer(i) BY <1>2, LogFlush
<1>3. CASE \E cap \in Caps : L!SetCores(cap) \/ L!Restart(cap) BY <1>3, LogSetCores, LogRestart
<1>4. CASE L!CloseOld BY <1>4, LogClose
<1>5. CASE L!Midnight \/ \E g \in Loggers : L!LoadCores(g) BY <1>5, LogOthers
<1>6. CASE UNCHANGED logVars
  <2>1. LogTypes' BY <1>6 DEF logVars, LogInv, LogTypes
  <2>2. L!FewFiles' BY <1>6, SameFiles DEF logVars, LogInv
  <2> QED BY <1>6, <2>1, <2>2 DEF logVars, LogInv
<1> QED BY <1>1, <1>2, <1>3, <1>4, <1>5, <1>6 DEF L!Next


\* What the invariant says of the properties.
LEMMA LogSafe == LogInv => L!TypeOK /\ L!EveryEntryAccounted /\ L!FewFiles
<1> SUFFICES ASSUME LogInv PROVE L!TypeOK /\ L!EveryEntryAccounted /\ L!FewFiles OBVIOUS
<1>1. L!TypeOK
  <2>1. ASSUME NEW f \in DOMAIN disk
        PROVE  f[1] \in 1 .. day /\ f[2] \in Nat /\ L!Range(disk[f]) \subseteq 1 .. written
    <3>1. f \in (1 .. day) \X Nat BY DEF LogInv, FilesOn
    <3>2. L!Range(disk[f]) \subseteq InFiles(disk) BY DEF InFiles
    <3>3. InFiles(disk) \subseteq 1 .. written BY DEF LogInv, Partition
    <3> QED BY <3>1, <3>2, <3>3
  <2>2. \A i \in 1 .. Len(rotators) : rotators[i].cap \in Caps /\ rotators[i].date \in 0 .. day
    BY DEF LogInv, RotatorsOn, IsRotator
  <2> QED BY <2>1, <2>2 DEF L!TypeOK, L!Files, L!Entries, L!Current, LogInv, LogTypes
<1>2. L!EveryEntryAccounted
  <2> DEFINE In(e, w) == \/ w = "disk" /\ L!OnDisk(e)
                         \/ w = "buffer" /\ L!Buffered(e)
                         \/ w = "late" /\ e \in late
                         \/ w = "unlinked" /\ e \in unlinked
                         \/ w = "unsaved" /\ e \in unsaved
                         \/ w = "pruned" /\ e \in pruned
             Places(e) == {w \in {"disk", "buffer", "late", "unlinked", "unsaved", "pruned"} : In(e, w)}
  <2> SUFFICES ASSUME NEW e \in 1 .. written PROVE L!Cardinality(Places(e)) = 1
    BY DEF L!EveryEntryAccounted, L!Entries
  <2>1. (L!OnDisk(e) <=> e \in InFiles(disk)) /\ (L!Buffered(e) <=> e \in InBuffers(rotators))
    BY DEF L!OnDisk, L!Buffered, L!Files, L!Current, InFiles, InBuffers, Held
  <2>2. \E x : Places(e) = {x}
    <3>1. CASE e \in InFiles(disk)
      <4>1. ~L!Buffered(e) /\ e \notin late \cup unlinked \cup unsaved \cup pruned
        BY <2>1, <3>1 DEF LogInv, Partition
      <4>2. Places(e) = {"disk"} BY <2>1, <3>1, <4>1
      <4> QED BY <4>2
    <3>2. CASE e \in InBuffers(rotators)
      <4>1. ~L!OnDisk(e) /\ e \notin late \cup unlinked \cup unsaved \cup pruned
        BY <2>1, <3>2 DEF LogInv, Partition
      <4>2. Places(e) = {"buffer"} BY <2>1, <3>2, <4>1
      <4> QED BY <4>2
    <3>3. CASE e \in late
      <4>1. ~L!OnDisk(e) /\ ~L!Buffered(e) /\ e \notin unlinked \cup unsaved \cup pruned
        BY <2>1, <3>3 DEF LogInv, Partition
      <4>2. Places(e) = {"late"} BY <3>3, <4>1
      <4> QED BY <4>2
    <3>4. CASE e \in unlinked
      <4>1. ~L!OnDisk(e) /\ ~L!Buffered(e) /\ e \notin late \cup unsaved \cup pruned
        BY <2>1, <3>4 DEF LogInv, Partition
      <4>2. Places(e) = {"unlinked"} BY <3>4, <4>1
      <4> QED BY <4>2
    <3>5. CASE e \in unsaved
      <4>1. ~L!OnDisk(e) /\ ~L!Buffered(e) /\ e \notin late \cup unlinked \cup pruned
        BY <2>1, <3>5 DEF LogInv, Partition
      <4>2. Places(e) = {"unsaved"} BY <3>5, <4>1
      <4> QED BY <4>2
    <3>6. CASE e \in pruned
      <4>1. ~L!OnDisk(e) /\ ~L!Buffered(e) /\ e \notin late \cup unlinked \cup unsaved
        BY <2>1, <3>6 DEF LogInv, Partition
      <4>2. Places(e) = {"pruned"} BY <3>6, <4>1
      <4> QED BY <4>2
    <3> QED BY <3>1, <3>2, <3>3, <3>4, <3>5, <3>6 DEF LogInv, Partition
  <2> HIDE DEF Places
  <2> QED BY <2>2, FS_Singleton, CardinalityOfL
<1> QED BY <1>1, <1>2 DEF LogInv

LEMMA LogInit == L!Init => LogInv
<1> SUFFICES ASSUME L!Init PROVE LogInv OBVIOUS
<1>1. PICK cap \in Caps : rotators = <<L!New(cap)>> BY DEF L!Init
<1> DEFINE r == L!New(cap)
<1>2. IsRotator(r) /\ r.date = 0 /\ Held(r) = {}
  BY RangeOfEmpty DEF L!New, L!NoFile, IsRotator, Held
<1> HIDE DEF r
<1>3. rotators \in Seq({r}) /\ Len(rotators) = 1 /\ rotators[1] = r BY <1>1 DEF r
<1>4. day = 1 /\ written = 0 /\ replaced = FALSE /\ loaded = [g \in Loggers |-> 0] /\ owner = <<>>
      /\ disk = << >> /\ late = {} /\ unlinked = {} /\ unsaved = {} /\ pruned = {}
  BY DEF L!Init
<1>5. RotatorsOn(rotators, day) /\ InBuffers(rotators) = {}
  <2>1. \A i \in 1 .. Len(rotators) : i = 1 BY <1>3
  <2>2. IsSequence(rotators) BY <1>3 DEF IsSequence
  <2>3. \A i \in 1 .. Len(rotators) : IsRotator(rotators[i]) /\ rotators[i].date \in 0 .. day
    BY <1>2, <1>3, <1>4, <2>1
  <2>4. \A i, j \in 1 .. Len(rotators) : i # j => Held(rotators[i]) \cap Held(rotators[j]) = {} BY <2>1
  <2>5. Len(rotators) \in Nat \ {0} BY <1>3
  <2>6. InBuffers(rotators) = {} BY <1>2, <1>3, <2>1 DEF InBuffers
  <2> QED BY <2>2, <2>3, <2>4, <2>5, <2>6 DEF RotatorsOn
<1>6. DOMAIN disk = {} BY <1>4
<1>7. FilesOn(disk, day)
  <2>1. disk \in [{} -> Seq(Nat)] BY <1>4, <1>6
  <2> QED BY <1>6, <2>1, FS_EmptySet DEF FilesOn
<1>8. InFiles(disk) = {} BY <1>6 DEF InFiles
<1>9. Partition(InFiles(disk), InBuffers(rotators), late, unlinked, unsaved, pruned, written)
  BY <1>4, <1>5, <1>8 DEF Partition
<1>10. LogTypes
  <2>1. owner \in Seq(1 .. Len(rotators)) /\ Len(owner) = 0 BY <1>4
  <2>2. loaded \in [Loggers -> 0 .. Len(rotators)] BY <1>3, <1>4
  <2>3. day \in Nat \ {0} /\ written \in Nat /\ Len(owner) = written BY <1>4, <2>1
  <2>4. replaced \in BOOLEAN /\ ~replaced BY <1>4, Zenon
  <2> QED BY <2>1, <2>2, <2>3, <2>4 DEF LogTypes
<1>11. L!FewFiles
  <2>1. L!Cardinality(DOMAIN disk) = 0 BY <1>6, FS_EmptySet, CardinalityOfL
  <2> QED BY <2>1, LogAssumption DEF L!FewFiles, L!Files
<1> QED BY <1>5, <1>7, <1>9, <1>10, <1>11 DEF LogInv

----------------------------------------------------------------------------
(***************************************************************************)
(* The order of the entries.  An entry precedes a rotator that it has      *)
(* written or that is of a later run; what others of the run have written  *)
(* may be anywhere (L!Beside).                                             *)
(***************************************************************************)
TopBoot == rotators[Len(rotators)].boot
Precedes(x, j) == owner[x] = j \/ rotators[owner[x]].boot < rotators[j].boot

Boots ==
    \A j \in 1 .. Len(rotators) :
        /\ rotators[j].boot <= TopBoot
        /\ ~rotators[j].closed => rotators[j].boot = TopBoot
        /\ Held(rotators[j]) # {} => ~rotators[j].closed /\ rotators[j].file # <<0, 0>>
LoadedTop == \A g \in Loggers : loaded[g] # 0 => rotators[loaded[g]].boot = TopBoot
EntryBoots ==
    \A x, y \in 1 .. written : x < y => rotators[owner[x]].boot <= rotators[owner[y]].boot

\* A buffer is in order, of its rotator, and after everything else of that.
Queued(r, j) ==
    /\ \A a, b \in 1 .. Len(r.buffer) : a < b => r.buffer[a] < r.buffer[b]
    /\ \A x \in Held(r) : owner[x] = j
    /\ \A b \in Held(r), x \in 1 .. written : owner[x] = j /\ x \notin Held(r) => x < b

\* What precedes a rotator is not in a file after the one that is open.
FilesBehind(r, j, d) ==
    ~r.closed /\ r.file # <<0, 0>> =>
        \A f \in DOMAIN d : \A x \in L!Range(d[f]) :
            Precedes(x, j) => f = r.file \/ L!Earlier(f, r.file)

BehindIn(d, e, x) ==
    \/ \E f \in DOMAIN d, g \in DOMAIN d : e \in L!Range(d[f]) /\ x \in L!Range(d[g]) /\ L!Earlier(f, g)
    \/ \E f \in DOMAIN d : \E i \in 1 .. Len(d[f]), j \in 1 .. Len(d[f]) :
         i < j /\ d[f][i] = e /\ d[f][j] = x
Ordered(d) ==
    \A e, x \in 1 .. written : x < e /\ BehindIn(d, e, x) => L!Beside(owner[e], owner[x])
OldestOut(d, gone) ==
    \A e \in gone, x \in 1 .. written : x < e /\ x \in InFiles(d) => ~L!Alone(e) \/ ~L!Alone(x)

OrderInv ==
    /\ Boots /\ LoadedTop /\ EntryBoots
    /\ \A j \in 1 .. Len(rotators) : Queued(rotators[j], j) /\ FilesBehind(rotators[j], j, disk)
    /\ Ordered(disk) /\ OldestOut(disk, pruned)

\* Who has written an entry.
LEMMA Owners ==
    ASSUME LogInv
    PROVE  /\ \A x \in 1 .. written : owner[x] \in 1 .. Len(rotators) /\ rotators[owner[x]].boot \in Nat
           /\ \A j \in 1 .. Len(rotators) : rotators[j].boot \in Nat /\ Held(rotators[j]) \subseteq 1 .. written
           /\ written \in Nat /\ TopBoot \in Nat /\ InFiles(disk) \subseteq 1 .. written
           /\ pruned \subseteq 1 .. written
<1>1. \A j \in 1 .. Len(rotators) : IsRotator(rotators[j]) /\ rotators[j].boot \in Nat
  BY DEF LogInv, RotatorsOn, IsRotator
<1>2. owner \in Seq(1 .. Len(rotators)) /\ Len(owner) = written /\ written \in Nat BY DEF LogInv, LogTypes
<1>3. \A x \in 1 .. written : owner[x] \in 1 .. Len(rotators) BY <1>2
<1>4. Len(rotators) \in 1 .. Len(rotators) BY DEF LogInv, RotatorsOn
<1>5. /\ InBuffers(rotators) \subseteq 1 .. written /\ InFiles(disk) \subseteq 1 .. written
      /\ pruned \subseteq 1 .. written
  BY DEF LogInv, Partition
<1>6. \A j \in 1 .. Len(rotators) : Held(rotators[j]) \subseteq InBuffers(rotators) BY DEF InBuffers
<1> QED BY <1>1, <1>2, <1>3, <1>4, <1>5, <1>6 DEF TopBoot

\* An entry that is not in the buffer, but was written after one that is, is of another rotator beside.
LEMMA OvertakenBeside ==
    ASSUME LogInv, OrderInv, NEW i \in 1 .. Len(rotators), NEW b \in Held(rotators[i]),
           NEW e \in 1 .. written, e \notin Held(rotators[i]), b < e
    PROVE  L!Beside(owner[e], i) /\ owner[b] = i
<1>1. owner[b] = i /\ b \in 1 .. written BY Owners DEF OrderInv, Queued
<1>2. owner[e] # i
  <2> SUFFICES ASSUME owner[e] = i PROVE FALSE OBVIOUS
  <2>1. e < b BY DEF OrderInv, Queued
  <2>2. e \in Nat /\ b \in Nat BY <1>1, Owners
  <2> QED BY <2>1, <2>2
<1>3. rotators[i].boot <= rotators[owner[e]].boot BY <1>1 DEF OrderInv, EntryBoots
<1>4. rotators[i].boot = TopBoot /\ rotators[owner[e]].boot <= TopBoot BY Owners DEF OrderInv, Boots
<1>5. rotators[owner[e]].boot = rotators[i].boot BY <1>3, <1>4, Owners
<1> QED BY <1>1, <1>2, <1>5 DEF L!Beside

\* What does not precede a rotator with something in its buffer is of another rotator beside.
LEMMA OthersBeside ==
    ASSUME LogInv, OrderInv, NEW i \in 1 .. Len(rotators), Held(rotators[i]) # {},
           NEW x \in 1 .. written, ~Precedes(x, i)
    PROVE  L!Beside(i, owner[x])
<1>1. rotators[i].boot = TopBoot /\ rotators[owner[x]].boot <= TopBoot BY Owners DEF OrderInv, Boots
<1>2. owner[x] # i /\ ~(rotators[owner[x]].boot < rotators[i].boot) BY DEF Precedes
<1>3. rotators[owner[x]].boot = rotators[i].boot BY <1>1, <1>2, Owners
<1> QED BY <1>2, <1>3 DEF L!Beside

LEMMA EarlierStrict ==
    /\ \A f \in Nat \X Nat : ~L!Earlier(f, f)
    /\ \A f, g \in Nat \X Nat : ~(L!Earlier(f, g) /\ L!Earlier(g, f))
    /\ \A f, g \in Nat \X Nat : f # g => L!Earlier(f, g) \/ L!Earlier(g, f)
    /\ \A f, g, h \in Nat \X Nat : L!Earlier(f, g) /\ L!Earlier(g, h) => L!Earlier(f, h)
<1>1. \A f \in Nat \X Nat : f[1] \in Nat /\ f[2] \in Nat /\ f = <<f[1], f[2]>> OBVIOUS
<1>2. \A f, g \in Nat \X Nat : f[1] = g[1] /\ f[2] = g[2] => f = g BY <1>1
<1>3. \A f \in Nat \X Nat : ~L!Earlier(f, f) BY <1>1 DEF L!Earlier
<1>4. \A f, g \in Nat \X Nat : ~(L!Earlier(f, g) /\ L!Earlier(g, f)) BY <1>1 DEF L!Earlier
<1>5. \A f, g \in Nat \X Nat : f # g => L!Earlier(f, g) \/ L!Earlier(g, f) BY <1>1, <1>2 DEF L!Earlier
<1>6. \A f, g, h \in Nat \X Nat : L!Earlier(f, g) /\ L!Earlier(g, h) => L!Earlier(f, h)
  BY <1>1 DEF L!Earlier
<1> QED BY <1>3, <1>4, <1>5, <1>6


LEMMA OwnersRange == ASSUME LogInv PROVE \A x \in 1 .. written : owner[x] \in L!Range(owner)
<1>1. owner \in Seq(1 .. Len(rotators)) /\ Len(owner) = written BY DEF LogInv, LogTypes
<1> QED BY <1>1 DEF L!Range

\* A position of a concatenation.
Joins(u, s, t) == u = s \o t

LEMMA InConcat ==
    ASSUME NEW s \in Seq(Nat), NEW t \in Seq(Nat), NEW u, Joins(u, s, t), NEW p \in 1 .. Len(u)
    PROVE  \/ p \in 1 .. Len(s) /\ u[p] = s[p] /\ s[p] \in L!Range(s)
           \/ p > Len(s) /\ p - Len(s) \in 1 .. Len(t) /\ u[p] = t[p - Len(s)]
              /\ t[p - Len(s)] \in L!Range(t)
<1>0. u = s \o t BY DEF Joins
<1>1. Len(u) = Len(s) + Len(t) /\ Len(s) \in Nat /\ Len(t) \in Nat BY <1>0
<1>2. /\ p <= Len(s) => u[p] = s[p]
      /\ p > Len(s) => u[p] = t[p - Len(s)]
  BY <1>0, <1>1
<1>3. \A k \in 1 .. Len(s) : s[k] \in L!Range(s) BY DEF L!Range
<1>4. \A k \in 1 .. Len(t) : t[k] \in L!Range(t) BY DEF L!Range
<1> QED BY <1>1, <1>2, <1>3, <1>4

\* A buffer that reaches its file comes after whatever its rotator has to follow.
LEMMA FlushKeeps ==
    ASSUME LogInv, OrderInv, NEW i \in 1 .. Len(rotators), NEW d, d = L!Flushed(rotators[i])
    PROVE  /\ Ordered(d) /\ OldestOut(d, pruned)
           /\ \A j \in 1 .. Len(rotators) : FilesBehind(rotators[j], j, d)
<1> DEFINE r == rotators[i]
           a == rotators[i].file
<1>1. CASE a \notin DOMAIN disk
  <2>1. d = disk BY <1>1 DEF L!Flushed, L!Files
  <2> QED BY <2>1 DEF OrderInv
<1>2. CASE a \in DOMAIN disk
  <2>1. /\ DOMAIN d = DOMAIN disk /\ d[a] = disk[a] \o r.buffer
        /\ \A f \in DOMAIN disk : f # a => d[f] = disk[f]
    BY <1>2 DEF L!Flushed, L!Files
  <2>2. /\ \A f \in DOMAIN disk : disk[f] \in Seq(Nat) /\ f \in Nat \X Nat
        /\ r.buffer \in Seq(Nat)
    <3>1. DOMAIN disk \subseteq (1 .. day) \X Nat /\ (1 .. day) \X Nat \subseteq Nat \X Nat
      BY DEF LogInv, FilesOn, LogTypes
    <3> QED BY <3>1 DEF LogInv, FilesOn, RotatorsOn, IsRotator
  <2>3. L!Range(d[a]) = L!Range(disk[a]) \cup Held(r) BY <1>2, <2>1, <2>2, RangeFacts DEF Held
  <2>4. /\ \A f \in DOMAIN disk : \A x \in L!Range(disk[f]) : x \in 1 .. written /\ x \notin Held(r)
        /\ pruned \cap Held(r) = {}
    <3>1. InFiles(disk) \cap InBuffers(rotators) = {} /\ InFiles(disk) \subseteq 1 .. written
          /\ pruned \cap InBuffers(rotators) = {}
      BY DEF LogInv, Partition
    <3>2. \A f \in DOMAIN disk : L!Range(disk[f]) \subseteq InFiles(disk) BY DEF InFiles
    <3>3. Held(r) \subseteq InBuffers(rotators) BY DEF InBuffers
    <3> QED BY <3>1, <3>2, <3>3
  <2>5. Held(r) # {} => ~r.closed /\ a # <<0, 0>> /\ r.boot = TopBoot BY DEF OrderInv, Boots
  <2>6. /\ \A x \in Held(r) : owner[x] = i /\ x \in 1 .. written
        /\ \A p, q \in 1 .. Len(r.buffer) : p < q => r.buffer[p] < r.buffer[q]
    BY Owners DEF OrderInv, Queued
  <2>7. ASSUME NEW f \in DOMAIN d, NEW x \in L!Range(d[f])
        PROVE  \/ f \in DOMAIN disk /\ x \in L!Range(disk[f]) /\ x \notin Held(r)
               \/ f = a /\ x \in Held(r)
    BY <2>1, <2>3, <2>4
  <2>c. ASSUME NEW p \in 1 .. Len(d[a])
        PROVE  \/ p \in 1 .. Len(disk[a]) /\ d[a][p] = disk[a][p] /\ disk[a][p] \in L!Range(disk[a])
               \/ p > Len(disk[a]) /\ p - Len(disk[a]) \in 1 .. Len(r.buffer)
                  /\ d[a][p] = r.buffer[p - Len(disk[a])] /\ d[a][p] \in Held(r)
    <3> DEFINE s == disk[a]
               t == r.buffer
               u == d[a]
    <3>1. s \in Seq(Nat) /\ t \in Seq(Nat) /\ Joins(u, s, t) BY <1>2, <2>1, <2>2 DEF Joins
    <3>2. t = r.buffer OBVIOUS
    <3> HIDE DEF s, t, u
    <3>3. p \in 1 .. Len(u) BY DEF u
    <3>4. \/ p \in 1 .. Len(s) /\ u[p] = s[p] /\ s[p] \in L!Range(s)
          \/ p > Len(s) /\ p - Len(s) \in 1 .. Len(t) /\ u[p] = t[p - Len(s)]
             /\ t[p - Len(s)] \in L!Range(t)
      BY <3>1, <3>3, InConcat
    <3> QED BY <3>4 DEF s, t, u, Held
  <2>l. Len(disk[a]) \in Nat BY <1>2, <2>2
  <2> HIDE DEF r, a
  <2>8. ASSUME NEW j \in 1 .. Len(rotators) PROVE FilesBehind(rotators[j], j, d)
    <3> SUFFICES ASSUME ~rotators[j].closed, rotators[j].file # <<0, 0>>, NEW f \in DOMAIN d,
                        NEW x \in L!Range(d[f]), Precedes(x, j)
                 PROVE  f = rotators[j].file \/ L!Earlier(f, rotators[j].file)
      BY DEF FilesBehind
    <3>1. CASE f \in DOMAIN disk /\ x \in L!Range(disk[f]) BY <3>1 DEF OrderInv, FilesBehind
    <3>2. CASE f = a /\ x \in Held(r)
      <4>1. owner[x] = i /\ r.boot = TopBoot BY <2>5, <2>6, <3>2
      <4>2. rotators[j].boot <= TopBoot /\ rotators[j].boot \in Nat /\ TopBoot \in Nat
        BY Owners DEF OrderInv, Boots
      <4>3. i = j BY <4>1, <4>2 DEF Precedes, r
      <4> QED BY <3>2, <4>3 DEF a
    <3> QED BY <2>7, <3>1, <3>2
  <2>9. Ordered(d)
    <3> SUFFICES ASSUME NEW e \in 1 .. written, NEW x \in 1 .. written, x < e, BehindIn(d, e, x)
                 PROVE  L!Beside(owner[e], owner[x])
      BY DEF Ordered
    <3>0. e \in Nat /\ x \in Nat BY Owners
    <3>1. CASE x \in Held(r) /\ e \notin Held(r)
      <4>1. x \in Held(rotators[i]) /\ e \notin Held(rotators[i]) BY <3>1 DEF r
      <4> QED BY <4>1, OvertakenBeside
    <3>2. CASE e \in Held(r) /\ x \notin Held(r)
      <4>1. ~Precedes(x, i)
        <5> SUFFICES ASSUME Precedes(x, i) PROVE FALSE OBVIOUS
        <5>1. \A g \in DOMAIN disk : x \in L!Range(disk[g]) => g = a \/ L!Earlier(g, a)
          BY <2>5, <3>2 DEF OrderInv, FilesBehind, r, a
        <5>2. ~(\E f \in DOMAIN d, g \in DOMAIN d :
                   e \in L!Range(d[f]) /\ x \in L!Range(d[g]) /\ L!Earlier(f, g))
          <6> SUFFICES ASSUME NEW f \in DOMAIN d, NEW g \in DOMAIN d, e \in L!Range(d[f]),
                              x \in L!Range(d[g]), L!Earlier(f, g)
                       PROVE  FALSE
            OBVIOUS
          <6>1. f = a /\ g \in DOMAIN disk /\ x \in L!Range(disk[g]) BY <2>7, <3>2
          <6> QED BY <1>2, <2>2, <5>1, <6>1, EarlierStrict DEF a
        <5>3. PICK f \in DOMAIN d : \E p \in 1 .. Len(d[f]), q \in 1 .. Len(d[f]) :
                                       p < q /\ d[f][p] = e /\ d[f][q] = x
          BY <5>2 DEF BehindIn
        <5>4. PICK p \in 1 .. Len(d[f]), q \in 1 .. Len(d[f]) : p < q /\ d[f][p] = e /\ d[f][q] = x BY <5>3
        <5>5. f = a
          <6> SUFFICES ASSUME f # a PROVE FALSE OBVIOUS
          <6>1. d[f] = disk[f] /\ f \in DOMAIN disk BY <2>1 DEF a
          <6>2. e \in L!Range(disk[f]) BY <2>2, <5>4, <6>1 DEF L!Range
          <6> QED BY <2>4, <3>2, <6>1, <6>2 DEF r
        <5>7. q \in 1 .. Len(disk[a])
          <6>1. q \in 1 .. Len(d[a]) /\ d[a][q] = x BY <5>4, <5>5
          <6> QED BY <2>c, <3>2, <6>1
        <5>8. p \in 1 .. Len(disk[a]) /\ e \in L!Range(disk[a])
          <6>1. p \in 1 .. Len(d[a]) /\ d[a][p] = e BY <5>4, <5>5
          <6>2. ~(p > Len(disk[a])) BY <2>l, <5>4, <5>7, <6>1
          <6> QED BY <2>c, <6>1, <6>2
        <5> QED BY <1>2, <2>4, <3>2, <5>8 DEF a, r
      <4>2. Held(rotators[i]) # {} BY <3>2 DEF r
      <4>3. L!Beside(i, owner[x]) BY <4>1, <4>2, OthersBeside
      <4> QED BY <2>6, <3>2, <4>3 DEF r
    <3>3. CASE e \in Held(r) /\ x \in Held(r)
      <4> SUFFICES FALSE OBVIOUS
      <4>1. \A f \in DOMAIN d : e \in L!Range(d[f]) \/ x \in L!Range(d[f]) => f = a BY <2>7, <3>3
      <4>2. ~L!Earlier(a, a) BY <1>2, <2>2, EarlierStrict DEF a
      <4>3. PICK f \in DOMAIN d : \E p \in 1 .. Len(d[f]), q \in 1 .. Len(d[f]) :
                                     p < q /\ d[f][p] = e /\ d[f][q] = x
        BY <4>1, <4>2 DEF BehindIn
      <4>4. PICK p \in 1 .. Len(d[f]), q \in 1 .. Len(d[f]) : p < q /\ d[f][p] = e /\ d[f][q] = x BY <4>3
      <4>5. f = a
        <5> SUFFICES ASSUME f # a PROVE FALSE OBVIOUS
        <5>1. d[f] = disk[f] /\ f \in DOMAIN disk BY <2>1 DEF a
        <5>2. e \in L!Range(disk[f]) BY <2>2, <4>4, <5>1 DEF L!Range
        <5> QED BY <2>4, <3>3, <5>1, <5>2 DEF r
      <4>6. p \in 1 .. Len(d[a]) /\ q \in 1 .. Len(d[a]) /\ d[a][p] = e /\ d[a][q] = x BY <4>4, <4>5
      <4>7. e \notin L!Range(disk[a]) /\ x \notin L!Range(disk[a]) BY <1>2, <2>4, <3>3 DEF a, r
      <4>8. p - Len(disk[a]) \in 1 .. Len(r.buffer) /\ r.buffer[p - Len(disk[a])] = e
        BY <2>c, <4>6, <4>7
      <4>9. q - Len(disk[a]) \in 1 .. Len(r.buffer) /\ r.buffer[q - Len(disk[a])] = x
        BY <2>c, <4>6, <4>7
      <4>10. p - Len(disk[a]) < q - Len(disk[a]) BY <2>l, <4>4, <4>6
      <4>11. e < x BY <2>6, <4>8, <4>9, <4>10 DEF r
      <4> QED BY <3>0, <4>11
    <3>4. CASE e \notin Held(r) /\ x \notin Held(r)
      <4>1. ASSUME NEW f \in DOMAIN d, NEW g \in DOMAIN d, e \in L!Range(d[f]), x \in L!Range(d[g]),
                   L!Earlier(f, g)
            PROVE  BehindIn(disk, e, x)
        BY <2>7, <3>4, <4>1 DEF BehindIn
      <4>2. ASSUME NEW f \in DOMAIN d, NEW p \in 1 .. Len(d[f]), NEW q \in 1 .. Len(d[f]),
                   p < q, d[f][p] = e, d[f][q] = x
            PROVE  BehindIn(disk, e, x)
        <5>1. CASE f # a
          <6>1. d[f] = disk[f] /\ f \in DOMAIN disk BY <2>1, <5>1 DEF a
          <6> QED BY <4>2, <6>1 DEF BehindIn
        <5>2. CASE f = a
          <6>1. p \in 1 .. Len(d[a]) /\ q \in 1 .. Len(d[a]) /\ d[a][p] = e /\ d[a][q] = x BY <4>2, <5>2
          <6>2. p \in 1 .. Len(disk[a]) /\ disk[a][p] = e BY <2>c, <3>4, <6>1
          <6>3. q \in 1 .. Len(disk[a]) /\ disk[a][q] = x BY <2>c, <3>4, <6>1
          <6> QED BY <1>2, <4>2, <6>2, <6>3 DEF BehindIn, a
        <5> QED BY <5>1, <5>2
      <4>3. BehindIn(disk, e, x) BY <4>1, <4>2 DEF BehindIn
      <4> QED BY <4>3 DEF OrderInv, Ordered
    <3> QED BY <3>1, <3>2, <3>3, <3>4
  <2>10. OldestOut(d, pruned)
    <3> SUFFICES ASSUME NEW e \in pruned, NEW x \in 1 .. written, x < e, x \in InFiles(d)
                 PROVE  ~L!Alone(e) \/ ~L!Alone(x)
      BY DEF OldestOut
    <3>1. CASE x \in InFiles(disk) BY <3>1 DEF OrderInv, OldestOut
    <3>2. CASE x \notin InFiles(disk)
      <4>1. x \in Held(r) BY <2>7, <3>2 DEF InFiles
      <4>2. e \in 1 .. written /\ e \notin Held(r) BY <2>4, Owners DEF r
      <4>3. x \in Held(rotators[i]) /\ e \notin Held(rotators[i]) BY <4>1, <4>2 DEF r
      <4>4. L!Beside(owner[e], i) /\ owner[x] = i BY <4>2, <4>3, OvertakenBeside
      <4>5. i \in L!Range(owner) BY <4>4, OwnersRange
      <4> QED BY <4>4, <4>5 DEF L!Alone
    <3> QED BY <3>1, <3>2
  <2> QED BY <2>8, <2>9, <2>10
<1> QED BY <1>1, <1>2


\* A rotator goes over to a file that comes after all that are there.
LEMMA PathIsLast ==
    ASSUME LogInv, NEW d, FilesOn(d, day), NEW r, NEW f \in DOMAIN d
    PROVE  f = L!NewPath(r, d) \/ L!Earlier(f, L!NewPath(r, d))
<1> DEFINE T == L!SequencesOf(day, DOMAIN d)
<1>1. day \in Nat /\ f \in (1 .. day) \X Nat /\ f = <<f[1], f[2]>> /\ f[1] \in 1 .. day /\ f[2] \in Nat
  BY DEF LogInv, LogTypes, FilesOn
<1>3. T \subseteq Nat BY SequencesKnown
<1>4. IsFiniteSet(T) BY SequencesKnown
<1>5. f[1] = day => f[2] \in T BY DEF L!SequencesOf
<1> HIDE DEF T
<1>6. T # {} => L!Max(T) \in Nat /\ \A k \in T : k <= L!Max(T) BY <1>3, <1>4, GreatestNatural
<1>7. L!Max({0} \cup T) \in Nat /\ \A k \in {0} \cup T : k <= L!Max({0} \cup T)
  <2>1. IsFiniteSet({0}) /\ IsFiniteSet({0} \cup T) BY <1>4, FS_Singleton, FS_Union
  <2>2. {0} \cup T \subseteq Nat /\ {0} \cup T # {} BY <1>3
  <2> QED BY <2>1, <2>2, GreatestNatural
<1>8. \A n \in Nat : (f[1] = day => f[2] <= n) => f = <<day, n>> \/ L!Earlier(f, <<day, n>>)
  BY <1>1 DEF L!Earlier
<1>9. L!NextSequence(DOMAIN d) = <<day, L!Max({0} \cup T) + 1>> BY DEF L!NextSequence, T
<1>10. \/ T = {} /\ L!ResolveActive(r, d) = <<day, 0>>
       \/ T # {} /\ L!ResolveActive(r, d) = <<day, L!Max(T)>>
       \/ T # {} /\ L!ResolveActive(r, d) = <<day, L!Max(T) + 1>>
  BY DEF L!ResolveActive, T
<1>11. f = L!NextSequence(DOMAIN d) \/ L!Earlier(f, L!NextSequence(DOMAIN d))
  <2>1. L!Max({0} \cup T) + 1 \in Nat /\ (f[1] = day => f[2] <= L!Max({0} \cup T) + 1)
    BY <1>1, <1>5, <1>7
  <2> QED BY <1>8, <1>9, <2>1
<1>12. f = L!ResolveActive(r, d) \/ L!Earlier(f, L!ResolveActive(r, d))
  <2>1. CASE T = {}
    <3>1. f[1] # day BY <1>5, <2>1
    <3> QED BY <1>8, <1>10, <2>1, <3>1
  <2>2. CASE T # {}
    <3>1. /\ L!Max(T) \in Nat /\ (f[1] = day => f[2] <= L!Max(T))
          /\ L!Max(T) + 1 \in Nat /\ (f[1] = day => f[2] <= L!Max(T) + 1)
      BY <1>1, <1>5, <1>6, <2>2
    <3> QED BY <1>8, <1>10, <2>2, <3>1
  <2> QED BY <2>1, <2>2
<1> QED BY <1>11, <1>12 DEF L!NewPath

\* What is pruned comes before what is left.
LEMMA ExcessEarlier ==
    ASSUME NEW files, IsFiniteSet(files), files \subseteq Nat \X Nat, NEW file \in files,
           \A f \in files : f = file \/ L!Earlier(f, file),
           NEW f \in L!Excess(files, file), NEW g \in files \ L!Excess(files, file)
    PROVE  L!Earlier(f, g)
<1> DEFINE B == files \ {file}
           After(h) == {k \in B : L!Earlier(h, k)}
<1>1. MaxBackups \in Nat BY LogAssumption
<1>2. /\ MaxBackups # 0 /\ L!Excess(files, file) = {h \in B : L!Cardinality(After(h)) >= MaxBackups}
  BY DEF L!Excess
<1>3. f \in B /\ Cardinality(After(f)) >= MaxBackups BY <1>2, CardinalityOfL
<1>4. CASE g = file BY <1>3, <1>4
<1>5. CASE g # file
  <2>1. g \in B /\ ~(Cardinality(After(g)) >= MaxBackups) BY <1>2, <1>5, CardinalityOfL
  <2>2. IsFiniteSet(B) /\ B \subseteq Nat \X Nat BY FS_Subset
  <2>3. IsFiniteSet(After(f)) /\ IsFiniteSet(After(g)) BY <2>2, FS_Subset
  <2> SUFFICES ASSUME ~L!Earlier(f, g) PROVE FALSE OBVIOUS
  <2>4. f # g BY <1>3, <2>1
  <2>5. L!Earlier(g, f) BY <1>3, <2>1, <2>2, <2>4, EarlierStrict
  <2>6. After(f) \subseteq After(g) BY <1>3, <2>1, <2>2, <2>5, EarlierStrict
  <2> HIDE DEF After
  <2>7. Cardinality(After(f)) <= Cardinality(After(g)) /\ Cardinality(After(f)) \in Nat
        /\ Cardinality(After(g)) \in Nat
    BY <2>3, <2>6, FS_Subset, FS_CardinalityType
  <2> QED BY <1>1, <1>3, <2>1, <2>7
<1> QED BY <1>4, <1>5

\* Pruning keeps the order, and what it removes was written before what it leaves.
Prunes(new, gone, old, file) ==
    LET files == DOMAIN old \cup {file} IN Leaves(new, files \ L!Excess(files, file), gone, old, file)

LEMMA PruneKeeps ==
    ASSUME LogInv, NEW old, FilesOn(old, day), Ordered(old), OldestOut(old, pruned),
           InFiles(old) \subseteq 1 .. written,
           NEW file \in (1 .. day) \X Nat, \A f \in DOMAIN old : f = file \/ L!Earlier(f, file),
           NEW new, NEW gone, Prunes(new, gone, old, file)
    PROVE  /\ Ordered(new) /\ OldestOut(new, pruned \cup gone) /\ gone \cup InFiles(new) \subseteq 1 .. written
           /\ \A f \in DOMAIN new : f = file \/ L!Earlier(f, file)
           /\ \A f \in DOMAIN new : \A x \in L!Range(new[f]) : f \in DOMAIN old /\ x \in L!Range(old[f])
<1> DEFINE excess == L!Excess(DOMAIN old \cup {file}, file)
           kept == (DOMAIN old \cup {file}) \ excess
<1>1. /\ DOMAIN new = kept /\ kept \subseteq DOMAIN old \cup {file}
      /\ \A f \in kept : new[f] = IF f \in DOMAIN old THEN old[f] ELSE <<>>
      /\ gone = UNION {L!Range(IF f \in DOMAIN old THEN old[f] ELSE <<>>) :
                           f \in (DOMAIN old \cup {file}) \ kept}
  BY DEF Prunes, Leaves
<1>2. \A f \in DOMAIN new : \A x \in L!Range(new[f]) :
         f \in DOMAIN old /\ x \in L!Range(old[f]) /\ new[f] = old[f]
  BY <1>1, RangeOfEmpty
<1>3. \A f \in DOMAIN new : f = file \/ L!Earlier(f, file) BY <1>1
<1>4. Ordered(new)
  <2> SUFFICES ASSUME NEW e \in 1 .. written, NEW x \in 1 .. written, x < e, BehindIn(new, e, x)
               PROVE  BehindIn(old, e, x)
    BY DEF Ordered
  <2>1. ASSUME NEW f \in DOMAIN new, NEW g \in DOMAIN new, e \in L!Range(new[f]), x \in L!Range(new[g]),
               L!Earlier(f, g)
        PROVE  BehindIn(old, e, x)
    BY <1>2, <2>1 DEF BehindIn
  <2>2. ASSUME NEW f \in DOMAIN new, NEW p \in 1 .. Len(new[f]), NEW q \in 1 .. Len(new[f]),
               p < q, new[f][p] = e, new[f][q] = x
        PROVE  BehindIn(old, e, x)
    <3>1. f \in DOMAIN old
      <4> SUFFICES ASSUME f \notin DOMAIN old PROVE FALSE OBVIOUS
      <4>1. new[f] = <<>> BY <1>1
      <4> QED BY <4>1
    <3>2. new[f] = old[f] BY <1>1, <3>1
    <3> QED BY <2>2, <3>1, <3>2 DEF BehindIn
  <2> QED BY <2>1, <2>2 DEF BehindIn
<1>5. ASSUME NEW e \in gone
      PROVE  \E f \in DOMAIN old : f \in excess /\ e \in L!Range(old[f])
  <2>1. PICK f \in (DOMAIN old \cup {file}) \ kept : e \in L!Range(IF f \in DOMAIN old THEN old[f] ELSE <<>>)
    BY <1>1
  <2>2. f \in DOMAIN old BY <2>1, RangeOfEmpty
  <2> QED BY <2>1, <2>2
<1>6. IsFiniteSet(DOMAIN old \cup {file}) /\ DOMAIN old \cup {file} \subseteq Nat \X Nat
  <2>1. (1 .. day) \X Nat \subseteq Nat \X Nat BY DEF LogInv, LogTypes
  <2> QED BY <2>1, FS_AddElement DEF FilesOn
<1>7. gone \cup InFiles(new) \subseteq 1 .. written BY <1>2, <1>5 DEF InFiles
<1>8. OldestOut(new, pruned \cup gone)
  <2> SUFFICES ASSUME NEW e \in pruned \cup gone, NEW x \in 1 .. written, x < e, x \in InFiles(new)
               PROVE  ~L!Alone(e) \/ ~L!Alone(x)
    BY DEF OldestOut
  <2>1. PICK g \in DOMAIN new : x \in L!Range(new[g]) BY DEF InFiles
  <2>2. g \in DOMAIN old /\ x \in L!Range(old[g]) BY <1>2, <2>1
  <2>3. CASE e \in pruned BY <2>2, <2>3 DEF OldestOut, InFiles
  <2>4. CASE e \in gone
    <3>1. PICK f \in DOMAIN old : f \in excess /\ e \in L!Range(old[f]) BY <1>5, <2>4
    <3>2. g \in (DOMAIN old \cup {file}) \ excess BY <1>1, <2>1
    <3>3. L!Earlier(f, g)
      <4>1. \A h \in DOMAIN old \cup {file} : h = file \/ L!Earlier(h, file) OBVIOUS
      <4> QED BY <1>6, <3>1, <3>2, <4>1, ExcessEarlier
    <3>4. e \in 1 .. written BY <3>1 DEF InFiles
    <3>5. L!Beside(owner[e], owner[x]) BY <2>2, <3>1, <3>3, <3>4 DEF Ordered, BehindIn
    <3> QED BY <3>5, OwnersRange DEF L!Alone
  <2> QED BY <2>3, <2>4
<1> QED BY <1>2, <1>3, <1>4, <1>7, <1>8

----------------------------------------------------------------------------
(* What is true of the files before a step is true of them after it. *)

\* A rotator's run and an entry's rotator do not change.
Lasting ==
    /\ Len(rotators) <= Len(rotators') /\ written <= written'
    /\ \A j \in 1 .. Len(rotators) : rotators'[j].boot = rotators[j].boot
    /\ \A x \in 1 .. written : owner'[x] = owner[x]

LEMMA BesideLasts ==
    ASSUME LogInv, LogInv', Lasting, NEW x \in 1 .. written
    PROVE  /\ \A y \in 1 .. written : L!Beside(owner[x], owner[y]) => L!Beside(owner[x], owner[y])'
           /\ ~L!Alone(x) => ~L!Alone(x)'
           /\ \A j \in 1 .. Len(rotators) : Precedes(x, j)' <=> Precedes(x, j)
<1>1. \A y \in 1 .. written : owner[y] \in 1 .. Len(rotators) /\ owner'[y] = owner[y] BY Owners DEF Lasting
<1>2. \A i, j \in 1 .. Len(rotators) : L!Beside(i, j) => L!Beside(i, j)' BY DEF L!Beside, Lasting
<1>3. L!Range(owner) \subseteq 1 .. Len(rotators) /\ L!Range(owner) \subseteq L!Range(owner)'
  <2>1. owner \in Seq(1 .. Len(rotators)) /\ Len(owner) = written BY DEF LogInv, LogTypes
  <2>2. /\ \A v \in L!Range(owner) : \E y \in 1 .. written : v = owner[y] BY <2>1 DEF L!Range
  <2>3. \A y \in 1 .. written' : owner'[y] \in L!Range(owner)'
    <3>1. owner' \in Seq((1 .. Len(rotators))') /\ Len(owner') = written' BY DEF LogInv, LogTypes
    <3> QED BY <3>1 DEF L!Range
  <2>4. \A y \in 1 .. written : y \in 1 .. written' BY Owners DEF Lasting, LogInv, LogTypes
  <2> QED BY <1>1, <2>2, <2>3, <2>4
<1>4. ~L!Alone(x) => ~L!Alone(x)'
  <2> SUFFICES ASSUME NEW i \in L!Range(owner), L!Beside(owner[x], i) PROVE ~L!Alone(x)' BY DEF L!Alone
  <2>1. L!Beside(owner[x], i)' BY <1>1, <1>2, <1>3 DEF L!Beside, Lasting
  <2> QED BY <1>3, <2>1 DEF L!Alone
<1> QED BY <1>1, <1>2, <1>4 DEF Precedes, Lasting, L!Beside

LEMMA OrderLasts ==
    ASSUME LogInv, LogInv', Lasting, NEW d, Ordered(d), InFiles(d) \subseteq 1 .. written, disk' = d
    PROVE  Ordered(disk)'
<1> SUFFICES ASSUME NEW e \in (1 .. written)', NEW x \in (1 .. written)', x < e, BehindIn(d, e, x)
             PROVE  L!Beside(owner[e], owner[x])'
  BY DEF Ordered, BehindIn
<1>1. e \in InFiles(d) /\ x \in InFiles(d)
  <2>1. \A f \in DOMAIN d : d[f] \in Seq(Nat) BY DEF LogInv, FilesOn
  <2>2. \A f \in DOMAIN d : \A p \in 1 .. Len(d[f]) : d[f][p] \in L!Range(d[f]) BY <2>1 DEF L!Range
  <2> QED BY <2>2 DEF BehindIn, InFiles
<1>2. e \in 1 .. written /\ x \in 1 .. written BY <1>1
<1>3. L!Beside(owner[e], owner[x]) BY <1>2 DEF Ordered
<1> QED BY <1>2, <1>3, Owners DEF Lasting, L!Beside

LEMMA OldestLasts ==
    ASSUME LogInv, LogInv', Lasting, NEW d, NEW gone, OldestOut(d, gone),
           InFiles(d) \cup gone \subseteq 1 .. written, disk' = d, pruned' = gone
    PROVE  OldestOut(disk, pruned)'
<1> SUFFICES ASSUME NEW e \in gone, NEW x \in InFiles(d), x < e
             PROVE  (~L!Alone(e) \/ ~L!Alone(x))'
  BY DEF OldestOut, InFiles
<1>1. ~L!Alone(e) \/ ~L!Alone(x) BY DEF OldestOut
<1> QED BY <1>1, BesideLasts

LEMMA BehindLasts ==
    ASSUME LogInv, LogInv', Lasting, NEW j \in 1 .. Len(rotators), NEW d,
           FilesBehind(rotators[j], j, d), InFiles(disk') \subseteq 1 .. written,
           \A f \in DOMAIN disk' : \A x \in L!Range(disk'[f]) : f \in DOMAIN d /\ x \in L!Range(d[f]),
           rotators'[j].closed = rotators[j].closed, rotators'[j].file = rotators[j].file
    PROVE  FilesBehind(rotators[j], j, disk)'
<1> SUFFICES ASSUME ~rotators[j].closed, rotators[j].file # <<0, 0>>,
                    NEW f \in DOMAIN disk', NEW x \in L!Range(disk'[f]), Precedes(x, j)'
             PROVE  f = rotators[j].file \/ L!Earlier(f, rotators[j].file)
  BY DEF FilesBehind, L!Range, L!Earlier
<1>1. x \in 1 .. written BY DEF InFiles
<1>2. Precedes(x, j) BY <1>1, BesideLasts
<1> QED BY <1>2 DEF FilesBehind

\* A buffer that gets nothing, and one that is empty.
LEMMA QueuedLasts ==
    ASSUME LogInv, LogInv', Lasting, NEW j \in 1 .. Len(rotators), Queued(rotators[j], j),
           rotators'[j].buffer = rotators[j].buffer,
           \A x \in (1 .. written)' : x \in 1 .. written \/ owner'[x] # j
    PROVE  Queued(rotators[j], j)'
<1>1. Held(rotators[j]) \subseteq 1 .. written /\ Held(rotators'[j]) = Held(rotators[j])
  BY Owners DEF Held, L!Range
<1>2. \A x \in Held(rotators[j]) : owner'[x] = j BY <1>1 DEF Queued, Lasting
<1>3. \A b \in Held(rotators[j]), x \in (1 .. written)' : owner'[x] = j /\ x \notin Held(rotators[j]) => x < b
  BY DEF Queued, Lasting
<1> QED BY <1>1, <1>2, <1>3 DEF Queued, Held, L!Range

LEMMA QueuedEmpty ==
    ASSUME NEW j, rotators'[j].buffer \in Seq(Nat), Held(rotators'[j]) = {}
    PROVE  Queued(rotators[j], j)'
<1>1. \A a \in 1 .. Len(rotators'[j].buffer) : rotators'[j].buffer[a] \in Held(rotators'[j])
  BY DEF Held, L!Range
<1>2. \A a \in 1 .. Len(rotators'[j].buffer) : FALSE BY <1>1
<1> QED BY <1>2 DEF Queued, Held, L!Range


\* The order after a step that leaves the files, or only writes a buffer to one.
LEMMA FilesAfter ==
    ASSUME LogInv, LogInv', Lasting, NEW d, Ordered(d), OldestOut(d, pruned), InFiles(d) \subseteq 1 .. written,
           \A j \in 1 .. Len(rotators) : FilesBehind(rotators[j], j, d),
           disk' = d, pruned' = pruned,
           \A j \in 1 .. Len(rotators') :
              \/ rotators'[j].closed \/ rotators'[j].file = <<0, 0>>
              \/ j \in 1 .. Len(rotators) /\ rotators'[j].closed = rotators[j].closed
                 /\ rotators'[j].file = rotators[j].file
    PROVE  /\ Ordered(disk)' /\ OldestOut(disk, pruned)'
           /\ \A j \in (1 .. Len(rotators))' : FilesBehind(rotators[j], j, disk)'
<1>1. pruned \subseteq 1 .. written BY Owners
<1>2. Ordered(disk)' BY OrderLasts
<1>3. OldestOut(disk, pruned)' BY <1>1, OldestLasts
<1>4. ASSUME NEW j \in 1 .. Len(rotators') PROVE FilesBehind(rotators[j], j, disk)'
  <2>1. CASE rotators'[j].closed \/ rotators'[j].file = <<0, 0>> BY <2>1 DEF FilesBehind
  <2>2. CASE j \in 1 .. Len(rotators) /\ rotators'[j].closed = rotators[j].closed
             /\ rotators'[j].file = rotators[j].file
    BY <2>2, BehindLasts
  <2> QED BY <2>1, <2>2
<1> QED BY <1>2, <1>3, <1>4

\* What a flush leaves on disk has been written.
LEMMA FlushedWritten ==
    ASSUME LogInv, NEW i \in 1 .. Len(rotators)
    PROVE  InFiles(L!Flushed(rotators[i])) \subseteq 1 .. written
BY Flushing, Owners

\* One rotator changes, within its run.
LEMMA BootsLast ==
    ASSUME LogInv, OrderInv, NEW i \in 1 .. Len(rotators), NEW r, Puts(rotators', rotators, i, r),
           r.boot = rotators[i].boot, ~r.closed => ~rotators[i].closed,
           Held(r) # {} => ~r.closed /\ r.file # <<0, 0>>
    PROVE  /\ Boots' /\ TopBoot' = TopBoot /\ Len(rotators') = Len(rotators) /\ rotators'[i] = r
           /\ \A j \in 1 .. Len(rotators) : rotators'[j].boot = rotators[j].boot
           /\ \A j \in 1 .. Len(rotators) : j # i => rotators'[j] = rotators[j]
<1>1. IsSequence(rotators) /\ Len(rotators) \in 1 .. Len(rotators) BY DEF LogInv, RotatorsOn
<1>2. /\ Len(rotators') = Len(rotators) /\ rotators'[i] = r
      /\ \A j \in 1 .. Len(rotators) : j # i => rotators'[j] = rotators[j]
  BY <1>1, ExceptAny
<1>3. \A j \in 1 .. Len(rotators) : rotators'[j].boot = rotators[j].boot BY <1>2
<1>4. TopBoot' = TopBoot BY <1>1, <1>2, <1>3 DEF TopBoot
<1>5. ASSUME NEW j \in 1 .. Len(rotators)
      PROVE  /\ rotators'[j].boot <= TopBoot
             /\ ~rotators'[j].closed => rotators'[j].boot = TopBoot
             /\ Held(rotators'[j]) # {} => ~rotators'[j].closed /\ rotators'[j].file # <<0, 0>>
  <2>1. CASE j = i BY <1>2, <2>1 DEF OrderInv, Boots
  <2>2. CASE j # i BY <1>2, <2>2 DEF OrderInv, Boots
  <2> QED BY <2>1, <2>2
<1>6. Boots' BY <1>2, <1>4, <1>5 DEF Boots, Held, L!Range
<1> QED BY <1>2, <1>3, <1>4, <1>6

\* No entry is accepted.
LEMMA NoneAccepted ==
    ASSUME LogInv, OrderInv, UNCHANGED <<written, owner>>, Len(rotators') \in Nat, Len(rotators) <= Len(rotators'),
           \A j \in 1 .. Len(rotators) : rotators'[j].boot = rotators[j].boot
    PROVE  Lasting /\ EntryBoots'
<1>1. Lasting BY Owners DEF Lasting
<1>2. EntryBoots' BY Owners DEF OrderInv, EntryBoots
<1> QED BY <1>1, <1>2

\* An entry is accepted.
LEMMA OneAccepted ==
    ASSUME LogInv, OrderInv, NEW g \in Loggers, loaded[g] # 0, L!Accept(g),
           Len(rotators') = Len(rotators), TopBoot' = TopBoot,
           \A j \in 1 .. Len(rotators) : rotators'[j].boot = rotators[j].boot
    PROVE  /\ Lasting /\ EntryBoots' /\ LoadedTop'
           /\ written' = written + 1 /\ owner'[written + 1] = loaded[g]
           /\ \A j \in 1 .. Len(rotators) :
                j # loaded[g] => \A x \in 1 .. written' : x \in 1 .. written \/ owner'[x] # j
<1>1. /\ written' = written + 1 /\ owner' = Append(owner, loaded[g]) /\ loaded' = [loaded EXCEPT ![g] = 0]
      /\ loaded \in [Loggers -> 0 .. Len(rotators)] /\ Len(rotators) \in Nat /\ written \in Nat
      /\ owner \in Seq(1 .. Len(rotators)) /\ Len(owner) = written /\ loaded[g] \in 1 .. Len(rotators)
  BY DEF L!Accept, LogInv, LogTypes, RotatorsOn
<1>2. owner'[written + 1] = loaded[g] /\ \A x \in 1 .. written : owner'[x] = owner[x] BY <1>1
<1>3. \A x \in 1 .. written' : x \in 1 .. written \/ x = written + 1 BY <1>1
<1>4. Lasting BY <1>1, <1>2 DEF Lasting
<1>5. LoadedTop'
  <2>1. \A h \in Loggers : loaded'[h] # 0 => loaded'[h] = loaded[h] /\ loaded[h] \in 1 .. Len(rotators) BY <1>1
  <2> QED BY <2>1 DEF OrderInv, LoadedTop
<1>6. EntryBoots'
  <2> SUFFICES ASSUME NEW x \in 1 .. written', NEW y \in 1 .. written', x < y
               PROVE  rotators'[owner'[x]].boot <= rotators'[owner'[y]].boot
    BY DEF EntryBoots
  <2>1. x \in 1 .. written BY <1>1
  <2>2. owner[x] \in 1 .. Len(rotators) /\ rotators'[owner'[x]].boot = rotators[owner[x]].boot
    BY <1>2, <2>1, Owners
  <2>3. CASE y \in 1 .. written
    <3>1. rotators'[owner'[y]].boot = rotators[owner[y]].boot BY <1>2, <2>3, Owners
    <3> QED BY <2>1, <2>2, <2>3, <3>1 DEF OrderInv, EntryBoots
  <2>4. CASE y = written + 1
    <3>1. rotators'[owner'[y]].boot = TopBoot BY <1>1, <1>2, <2>4 DEF OrderInv, LoadedTop
    <3> QED BY <2>2, <3>1 DEF OrderInv, Boots
  <2> QED BY <1>3, <2>3, <2>4
<1> QED BY <1>1, <1>2, <1>3, <1>4, <1>5, <1>6

LEMMA OrderLate == ASSUME LogInv, LogInv', OrderInv, NEW g \in Loggers, L!WriteLate(g) PROVE OrderInv'
<1> DEFINE i == loaded[g]
<1>1. /\ UNCHANGED <<disk, rotators, pruned>> /\ L!Accept(g) /\ loaded[g] # 0 /\ rotators[i].closed
  BY DEF L!WriteLate
<1>2. i \in 1 .. Len(rotators) BY <1>1 DEF LogInv, LogTypes, RotatorsOn
<1>3. TopBoot' = TopBoot /\ Boots'
  <2>1. TopBoot' = TopBoot BY <1>1 DEF TopBoot
  <2>2. \A j \in 1 .. Len(rotators) : Held(rotators[j])' = Held(rotators[j]) BY <1>1 DEF Held, L!Range
  <2> QED BY <1>1, <2>1, <2>2 DEF OrderInv, Boots
<1>4. /\ Lasting /\ EntryBoots' /\ LoadedTop'
      /\ \A j \in 1 .. Len(rotators) :
           j # loaded[g] => \A x \in 1 .. written' : x \in 1 .. written \/ owner'[x] # j
  BY <1>1, <1>3, OneAccepted
<1>5. /\ Ordered(disk)' /\ OldestOut(disk, pruned)'
      /\ \A j \in (1 .. Len(rotators))' : FilesBehind(rotators[j], j, disk)'
  <2>1. InFiles(disk) \subseteq 1 .. written BY Owners
  <2> QED BY <1>1, <1>4, <2>1, FilesAfter DEF OrderInv
<1>6. ASSUME NEW j \in 1 .. Len(rotators) PROVE Queued(rotators[j], j)'
  <2>1. CASE j = i
    <3>1. Held(rotators[j]) = {} BY <1>1, <2>1 DEF OrderInv, Boots
    <3>2. rotators[j].buffer \in Seq(Nat) BY DEF LogInv, RotatorsOn, IsRotator
    <3> QED BY <1>1, <3>1, <3>2, QueuedEmpty DEF Held, L!Range
  <2>2. CASE j # i
    <3>1. Queued(rotators[j], j) BY DEF OrderInv
    <3>2. \A x \in (1 .. written)' : x \in 1 .. written \/ owner'[x] # j BY <1>4, <2>2
    <3> QED BY <1>1, <1>4, <3>1, <3>2, QueuedLasts
  <2> QED BY <2>1, <2>2
<1> QED BY <1>1, <1>3, <1>4, <1>5, <1>6 DEF OrderInv

\* A buffer with a new entry at its end.
LEMMA QueuedAppend ==
    ASSUME LogInv, OrderInv, NEW i \in 1 .. Len(rotators), written' = written + 1, owner'[written + 1] = i,
           \A x \in 1 .. written : owner'[x] = owner[x],
           NEW s \in Seq(Nat), s = rotators[i].buffer \/ s = <<>>,
           rotators'[i].buffer = Append(s, written + 1)
    PROVE  Queued(rotators[i], i)'
<1> DEFINE t == Append(s, written + 1)
           n == written + 1
<1>1. /\ written \in Nat /\ n \in Nat /\ Held(rotators[i]) \subseteq 1 .. written BY Owners
<1>2. Len(t) = Len(s) + 1 /\ t[Len(s) + 1] = n /\ \A a \in 1 .. Len(s) : t[a] = s[a] BY <1>1
<1>3. L!Range(t) = L!Range(s) \cup {n} BY <1>1, RangeFacts
<1>4. L!Range(s) \subseteq Held(rotators[i]) BY RangeOfEmpty DEF Held
<1>5. \A a \in 1 .. Len(s) : s[a] \in L!Range(s) BY DEF L!Range
<1>6. \A a, b \in 1 .. Len(s) : a < b => s[a] < s[b] BY DEF OrderInv, Queued
<1> HIDE DEF t
<1>7. \A a, b \in 1 .. Len(t) : a < b => t[a] < t[b]
  <2> SUFFICES ASSUME NEW a \in 1 .. Len(t), NEW b \in 1 .. Len(t), a < b PROVE t[a] < t[b] OBVIOUS
  <2>0. Len(s) \in Nat OBVIOUS
  <2>1. a \in 1 .. Len(s) BY <1>2, <2>0
  <2>2. t[a] = s[a] /\ s[a] \in 1 .. written BY <1>1, <1>2, <1>4, <1>5, <2>1
  <2>3. CASE b \in 1 .. Len(s) BY <1>2, <1>6, <2>1, <2>3
  <2>4. CASE b = Len(s) + 1 BY <1>1, <1>2, <2>2, <2>4
  <2> QED BY <1>2, <2>0, <2>3, <2>4
<1>8. \A x \in L!Range(t) : owner'[x] = i BY <1>1, <1>3, <1>4 DEF OrderInv, Queued
<1>9. ASSUME NEW b \in L!Range(t), NEW x \in 1 .. n, owner'[x] = i, x \notin L!Range(t) PROVE x < b
  <2>1. x \in 1 .. written BY <1>1, <1>3, <1>9
  <2>2. CASE b = n BY <1>1, <2>1, <2>2
  <2>3. CASE b # n
    <3>1. b \in L!Range(s) BY <1>3, <2>3
    <3>2. s = rotators[i].buffer BY <3>1, RangeOfEmpty
    <3>3. x \notin Held(rotators[i]) /\ b \in Held(rotators[i]) BY <1>3, <1>9, <3>1, <3>2 DEF Held
    <3>4. owner[x] = i BY <1>9, <2>1
    <3> QED BY <2>1, <3>3, <3>4 DEF OrderInv, Queued
  <2> QED BY <2>2, <2>3
<1>10. rotators[i].buffer' = t /\ Held(rotators[i])' = L!Range(t) BY DEF t, Held, L!Range
<1>11. (1 .. written)' = 1 .. n OBVIOUS
<1> QED BY <1>7, <1>8, <1>9, <1>10, <1>11 DEF Queued

\* The rotator that got an entry, within its file.
Gets(new, r, n) == new = [r EXCEPT !.size = n, !.buffer = Append(@, written + 1)]

LEMMA GetsFields ==
    ASSUME NEW r, IsRotator(r), NEW new, NEW n, Gets(new, r, n)
    PROVE  /\ new.file = r.file /\ new.closed = r.closed /\ new.boot = r.boot
           /\ new.buffer = Append(r.buffer, written + 1)
BY DEF Gets, IsRotator

LEMMA OrderWrite == ASSUME LogInv, LogInv', OrderInv, NEW g \in Loggers, L!WriteOn(g) PROVE OrderInv'
<1>0. PICK i \in 1 .. Len(rotators) : i = loaded[g] BY DEF L!WriteOn, LogInv, LogTypes, RotatorsOn
<1> DEFINE n == rotators[i].size + EntrySize[written + 1]
           r == [rotators[i] EXCEPT !.size = n, !.buffer = Append(@, written + 1)]
<1>1. /\ UNCHANGED <<disk, pruned>> /\ L!Accept(g) /\ loaded[g] # 0
      /\ Puts(rotators', rotators, i, r) /\ Gets(r, rotators[i], n)
      /\ ~rotators[i].closed /\ rotators[i].file # <<0, 0>>
  BY <1>0 DEF L!WriteOn, L!Buffer, L!ShouldRotate, L!NoFile, Puts, Gets
<1>2. i \in 1 .. Len(rotators) OBVIOUS
<1>3. IsRotator(rotators[i]) BY <1>2 DEF LogInv, RotatorsOn
<1> HIDE DEF r, n
<1>4. /\ r.file = rotators[i].file /\ r.closed = rotators[i].closed /\ r.boot = rotators[i].boot
      /\ r.buffer = Append(rotators[i].buffer, written + 1)
  <2> DEFINE q == rotators[i]
  <2>1. IsRotator(q) /\ Gets(r, q, n) BY <1>1, <1>3
  <2> HIDE DEF q
  <2>2. /\ r.file = q.file /\ r.closed = q.closed /\ r.boot = q.boot
        /\ r.buffer = Append(q.buffer, written + 1)
    BY <2>1, GetsFields
  <2> QED BY <2>2 DEF q
<1>5. /\ Boots' /\ TopBoot' = TopBoot /\ Len(rotators') = Len(rotators) /\ rotators'[i] = r
      /\ \A j \in 1 .. Len(rotators) : rotators'[j].boot = rotators[j].boot
      /\ \A j \in 1 .. Len(rotators) : j # i => rotators'[j] = rotators[j]
  BY <1>1, <1>2, <1>4, BootsLast
<1>6. /\ Lasting /\ EntryBoots' /\ LoadedTop'
      /\ written' = written + 1 /\ owner'[written + 1] = i
      /\ \A j \in 1 .. Len(rotators) :
           j # i => \A x \in 1 .. written' : x \in 1 .. written \/ owner'[x] # j
  BY <1>0, <1>1, <1>5, OneAccepted
<1>7. /\ Ordered(disk)' /\ OldestOut(disk, pruned)'
      /\ \A j \in (1 .. Len(rotators))' : FilesBehind(rotators[j], j, disk)'
  <2>1. InFiles(disk) \subseteq 1 .. written BY Owners
  <2>2. \A j \in 1 .. Len(rotators') :
           j \in 1 .. Len(rotators) /\ rotators'[j].closed = rotators[j].closed
              /\ rotators'[j].file = rotators[j].file
    BY <1>4, <1>5
  <2> QED BY <1>1, <1>6, <2>1, <2>2, FilesAfter DEF OrderInv
<1>8. ASSUME NEW j \in 1 .. Len(rotators) PROVE Queued(rotators[j], j)'
  <2>1. CASE j = i
    <3> DEFINE s == rotators[i].buffer
    <3>1. s \in Seq(Nat) BY <1>3 DEF IsRotator
    <3>2. rotators'[i].buffer = Append(s, written + 1) BY <1>4, <1>5
    <3>3. \A x \in 1 .. written : owner'[x] = owner[x] BY <1>6 DEF Lasting
    <3> HIDE DEF s
    <3>4. s = rotators[i].buffer \/ s = <<>> BY DEF s
    <3>5. Queued(rotators[i], i)' BY <1>2, <1>6, <3>1, <3>2, <3>3, <3>4, QueuedAppend
    <3> QED BY <2>1, <3>5
  <2>2. CASE j # i
    <3>1. Queued(rotators[j], j) BY DEF OrderInv
    <3>2. \A x \in (1 .. written)' : x \in 1 .. written \/ owner'[x] # j BY <1>6, <2>2
    <3>3. rotators'[j].buffer = rotators[j].buffer BY <1>5, <2>2
    <3> QED BY <1>6, <3>1, <3>2, <3>3, QueuedLasts
  <2> QED BY <2>1, <2>2
<1> QED BY <1>5, <1>6, <1>7, <1>8 DEF OrderInv

\* The rotator i is emptied, and may be closed or lose its file.
LEMMA OrderEmptied ==
    ASSUME LogInv, LogInv', OrderInv, NEW i \in 1 .. Len(rotators), NEW r, Puts(rotators', rotators, i, r),
           r.boot = rotators[i].boot, r.buffer = <<>>,
           r.closed \/ r.closed = rotators[i].closed,
           r.closed \/ r.file = rotators[i].file \/ r.file = <<0, 0>>,
           disk' = disk \/ disk' = L!Flushed(rotators[i]),
           UNCHANGED <<written, pruned, owner>>,
           \A h \in Loggers : loaded'[h] = loaded[h] \/ loaded'[h] = 0
    PROVE  OrderInv'
<1>1. Held(r) = {} BY RangeOfEmpty DEF Held
<1>2. /\ Boots' /\ TopBoot' = TopBoot /\ Len(rotators') = Len(rotators) /\ rotators'[i] = r
      /\ \A j \in 1 .. Len(rotators) : rotators'[j].boot = rotators[j].boot
      /\ \A j \in 1 .. Len(rotators) : j # i => rotators'[j] = rotators[j]
  <2>1. ~r.closed => ~rotators[i].closed OBVIOUS
  <2> QED BY <1>1, <2>1, BootsLast
<1>3. Len(rotators) \in Nat /\ loaded \in [Loggers -> 0 .. Len(rotators)]
  BY DEF LogInv, RotatorsOn, LogTypes
<1>4. Lasting /\ EntryBoots' BY <1>2, <1>3, NoneAccepted
<1>5. LoadedTop'
  <2>1. \A h \in Loggers : loaded[h] # 0 => loaded[h] \in 1 .. Len(rotators) BY <1>3
  <2> QED BY <1>2, <2>1 DEF OrderInv, LoadedTop
<1>6. /\ Ordered(disk)' /\ OldestOut(disk, pruned)'
      /\ \A j \in (1 .. Len(rotators))' : FilesBehind(rotators[j], j, disk)'
  <2> DEFINE d == disk'
  <2>1. InFiles(d) \subseteq 1 .. written BY FlushedWritten, Owners
  <2>2. /\ Ordered(d) /\ OldestOut(d, pruned)
        /\ \A j \in 1 .. Len(rotators) : FilesBehind(rotators[j], j, d)
    BY FlushKeeps DEF OrderInv
  <2>3. \A j \in 1 .. Len(rotators') :
           \/ rotators'[j].closed \/ rotators'[j].file = <<0, 0>>
           \/ j \in 1 .. Len(rotators) /\ rotators'[j].closed = rotators[j].closed
              /\ rotators'[j].file = rotators[j].file
    BY <1>2
  <2>4. disk' = d OBVIOUS
  <2> HIDE DEF d
  <2> QED BY <1>4, <2>1, <2>2, <2>3, <2>4, FilesAfter
<1>7. ASSUME NEW j \in 1 .. Len(rotators) PROVE Queued(rotators[j], j)'
  <2>1. CASE j = i
    <3>1. Held(rotators'[j]) = {} /\ rotators'[j].buffer \in Seq(Nat) BY <1>1, <1>2, <2>1, RangeOfEmpty
    <3> QED BY <3>1, QueuedEmpty
  <2>2. CASE j # i
    <3>1. Queued(rotators[j], j) BY DEF OrderInv
    <3>2. rotators'[j].buffer = rotators[j].buffer BY <1>2, <2>2
    <3> QED BY <1>4, <3>1, <3>2, QueuedLasts
  <2> QED BY <2>1, <2>2
<1> QED BY <1>2, <1>4, <1>5, <1>6, <1>7 DEF OrderInv

\* What is left of a rotator that was flushed, closed or bared.
LEMMA EmptiedFields ==
    ASSUME NEW r, IsRotator(r)
    PROVE  /\ LET n == [r EXCEPT !.buffer = <<>>]
              IN n.boot = r.boot /\ n.buffer = <<>> /\ n.closed = r.closed /\ n.file = r.file
           /\ LET n == [r EXCEPT !.buffer = <<>>, !.closed = TRUE]
              IN n.boot = r.boot /\ n.buffer = <<>> /\ n.closed
           /\ LET n == [r EXCEPT !.file = <<0, 0>>, !.size = 0, !.buffer = <<>>]
              IN n.boot = r.boot /\ n.buffer = <<>> /\ n.closed = r.closed /\ n.file = <<0, 0>>
BY DEF IsRotator

LEMMA OrderFlush ==
    ASSUME LogInv, LogInv', OrderInv, NEW i \in 1 .. L!Current, L!FlushBuffer(i) PROVE OrderInv'
<1> DEFINE q == rotators[i]
           r == [q EXCEPT !.buffer = <<>>]
<1>1. i \in 1 .. Len(rotators) BY DEF L!Current
<1>2. IsRotator(q) BY <1>1 DEF LogInv, RotatorsOn
<1>3. /\ Puts(rotators', rotators, i, r) /\ disk' = L!Flushed(rotators[i])
      /\ UNCHANGED <<loaded, written, pruned, owner>>
  BY DEF L!FlushBuffer, Puts
<1>4. r.boot = rotators[i].boot /\ r.buffer = <<>> /\ r.closed = rotators[i].closed /\ r.file = rotators[i].file
  <2> HIDE DEF q
  <2>1. r.boot = q.boot /\ r.buffer = <<>> /\ r.closed = q.closed /\ r.file = q.file BY <1>2, EmptiedFields
  <2> QED BY <2>1 DEF q
<1> HIDE DEF r, q
<1> QED BY <1>1, <1>3, <1>4, OrderEmptied

LEMMA OrderClose == ASSUME LogInv, LogInv', OrderInv, L!CloseOld PROVE OrderInv'
<1>1. PICK i \in 1 .. Len(rotators) : i = Len(rotators) - 1
  BY DEF L!CloseOld, LogInv, LogTypes, RotatorsOn
<1> DEFINE q == rotators[i]
           r == [q EXCEPT !.buffer = <<>>, !.closed = TRUE]
<1>2. IsRotator(q) BY <1>1 DEF LogInv, RotatorsOn
<1>3. /\ Puts(rotators', rotators, i, r) /\ disk' = L!Flushed(rotators[i])
      /\ UNCHANGED <<loaded, written, pruned, owner>>
  BY <1>1 DEF L!CloseOld, L!Current, Puts
<1>4. r.boot = rotators[i].boot /\ r.buffer = <<>> /\ r.closed
  <2> HIDE DEF q
  <2>1. r.boot = q.boot /\ r.buffer = <<>> /\ r.closed BY <1>2, EmptiedFields
  <2> QED BY <2>1 DEF q
<1> HIDE DEF r, q
<1> QED BY <1>1, <1>3, <1>4, OrderEmptied

LEMMA OrderFails == ASSUME LogInv, LogInv', OrderInv, NEW g \in Loggers, L!RotateFails(g) PROVE OrderInv'
<1>1. PICK i \in 1 .. Len(rotators) : i = loaded[g] BY DEF L!RotateFails, LogInv, LogTypes, RotatorsOn
<1> DEFINE q == rotators[i]
           r == [q EXCEPT !.file = <<0, 0>>, !.size = 0, !.buffer = <<>>]
<1>2. IsRotator(q) BY <1>1 DEF LogInv, RotatorsOn
<1>3. /\ Puts(rotators', rotators, i, r) /\ (disk' = disk \/ disk' = L!Flushed(rotators[i]))
      /\ UNCHANGED <<written, pruned, owner>> /\ loaded' = [loaded EXCEPT ![g] = 0]
  BY <1>1 DEF L!RotateFails, L!NoFile, Puts
<1>4. r.boot = rotators[i].boot /\ r.buffer = <<>> /\ r.closed = rotators[i].closed /\ r.file = <<0, 0>>
  <2> HIDE DEF q
  <2>1. r.boot = q.boot /\ r.buffer = <<>> /\ r.closed = q.closed /\ r.file = <<0, 0>> BY <1>2, EmptiedFields
  <2> QED BY <2>1 DEF q
<1>5. \A h \in Loggers : loaded'[h] = loaded[h] \/ loaded'[h] = 0 BY <1>3 DEF LogInv, LogTypes
<1> HIDE DEF r, q
<1> QED BY <1>1, <1>3, <1>4, <1>5, OrderEmptied

\* The rotators, the entries and the files stay as they are.
LEMMA OrderOthers ==
    ASSUME LogInv, LogInv', OrderInv, UNCHANGED <<disk, rotators, written, pruned, owner>>,
           \A h \in Loggers : loaded'[h] = loaded[h] \/ loaded'[h] = 0 \/ loaded'[h] = Len(rotators)
    PROVE  OrderInv'
<1>1. Len(rotators) \in Nat /\ Len(rotators) \in 1 .. Len(rotators) BY DEF LogInv, RotatorsOn
<1>2. TopBoot' = TopBoot BY DEF TopBoot
<1>3. \A j \in 1 .. Len(rotators) : Held(rotators[j])' = Held(rotators[j]) BY DEF Held, L!Range
<1>4. Boots' BY <1>2, <1>3 DEF OrderInv, Boots
<1>5. LoadedTop' BY <1>1, <1>2 DEF OrderInv, LoadedTop, TopBoot
<1>6. Lasting /\ EntryBoots' BY <1>1, NoneAccepted
<1>7. /\ Ordered(disk)' /\ OldestOut(disk, pruned)'
      /\ \A j \in (1 .. Len(rotators))' : FilesBehind(rotators[j], j, disk)'
  <2>1. InFiles(disk) \subseteq 1 .. written BY Owners
  <2> QED BY <1>6, <2>1, FilesAfter DEF OrderInv
<1>8. \A j \in 1 .. Len(rotators) : Queued(rotators[j], j)'
  <2> TAKE j \in 1 .. Len(rotators)
  <2> QED BY <1>6, QueuedLasts DEF OrderInv
<1> QED BY <1>4, <1>5, <1>6, <1>7, <1>8 DEF OrderInv

\* A rotator comes after the others, which have got nothing and lost their buffers at most.
LEMMA OrderOneMore ==
    ASSUME LogInv, LogInv', OrderInv, UNCHANGED <<disk, written, pruned, owner>>,
           Len(rotators') = Len(rotators) + 1,
           rotators'[Len(rotators) + 1].buffer = <<>>, rotators'[Len(rotators) + 1].file = <<0, 0>>,
           TopBoot <= rotators'[Len(rotators) + 1].boot,
           rotators'[Len(rotators) + 1].boot = TopBoot \/ \A j \in 1 .. Len(rotators) : rotators'[j].closed,
           \A j \in 1 .. Len(rotators) :
              /\ rotators'[j].boot = rotators[j].boot
              /\ \/ rotators'[j].closed /\ rotators'[j].buffer = <<>>
                 \/ rotators'[j] = rotators[j],
           \A h \in Loggers : loaded'[h] # 0 => rotators'[Len(rotators) + 1].boot = TopBoot /\ loaded'[h] = loaded[h]
    PROVE  OrderInv'
<1> DEFINE last == Len(rotators) + 1
<1>1. /\ Len(rotators) \in Nat /\ Len(rotators') \in Nat /\ Len(rotators) <= Len(rotators')
      /\ \A j \in 1 .. Len(rotators') : j \in 1 .. Len(rotators) \/ j = last
      /\ Len(rotators') = last /\ last \in 1 .. Len(rotators')
  BY DEF LogInv, RotatorsOn
<1>2. TopBoot' = rotators'[last].boot BY <1>1 DEF TopBoot
<1>3. TopBoot \in Nat /\ TopBoot' \in Nat /\ TopBoot <= TopBoot'
  <2>1. IsRotator(rotators'[last]) BY <1>1 DEF LogInv, RotatorsOn, IsRotator
  <2> QED BY <1>2, <2>1, Owners DEF IsRotator
<1> HIDE DEF last
<1>4. ASSUME NEW j \in 1 .. Len(rotators')
      PROVE  /\ rotators'[j].boot <= TopBoot'
             /\ ~rotators'[j].closed => rotators'[j].boot = TopBoot'
             /\ Held(rotators'[j]) # {} => ~rotators'[j].closed /\ rotators'[j].file # <<0, 0>>
  <2>1. CASE j = last
    <3>1. Held(rotators'[j]) = {} BY <2>1, RangeOfEmpty DEF Held, last
    <3> QED BY <1>2, <1>3, <2>1, <3>1
  <2>2. CASE j \in 1 .. Len(rotators)
    <3>1. /\ rotators[j].boot \in Nat /\ rotators[j].boot <= TopBoot /\ rotators'[j].boot = rotators[j].boot
          /\ ~rotators[j].closed => rotators[j].boot = TopBoot
          /\ Held(rotators[j]) # {} => ~rotators[j].closed /\ rotators[j].file # <<0, 0>>
      BY <2>2, Owners DEF OrderInv, Boots
    <3>2. CASE rotators'[j].closed /\ rotators'[j].buffer = <<>>
      <4>1. Held(rotators'[j]) = {} BY <3>2, RangeOfEmpty DEF Held
      <4> QED BY <1>3, <3>1, <3>2, <4>1
    <3>3. CASE rotators'[j] = rotators[j]
      <4>1. ~rotators'[j].closed => TopBoot' = TopBoot BY <1>2, <2>2 DEF last
      <4> QED BY <1>3, <3>1, <3>3, <4>1
    <3> QED BY <2>2, <3>2, <3>3
  <2> QED BY <1>1, <2>1, <2>2
<1>5. Boots' BY <1>4 DEF Boots, Held, L!Range
<1>6. LoadedTop'
  <2>1. \A h \in Loggers : loaded'[h] # 0 =>
           loaded'[h] = loaded[h] /\ loaded[h] \in 1 .. Len(rotators) /\ TopBoot' = TopBoot
    BY <1>2 DEF LogInv, LogTypes, last
  <2> QED BY <2>1 DEF OrderInv, LoadedTop
<1>7. Lasting /\ EntryBoots' BY <1>1, NoneAccepted
<1>8. /\ Ordered(disk)' /\ OldestOut(disk, pruned)'
      /\ \A j \in (1 .. Len(rotators))' : FilesBehind(rotators[j], j, disk)'
  <2>1. InFiles(disk) \subseteq 1 .. written BY Owners
  <2>2. \A j \in 1 .. Len(rotators') :
           \/ rotators'[j].closed \/ rotators'[j].file = <<0, 0>>
           \/ j \in 1 .. Len(rotators) /\ rotators'[j].closed = rotators[j].closed
              /\ rotators'[j].file = rotators[j].file
    BY <1>1 DEF last
  <2> QED BY <1>7, <2>1, <2>2, FilesAfter DEF OrderInv
<1>9. ASSUME NEW j \in 1 .. Len(rotators') PROVE Queued(rotators[j], j)'
  <2>1. CASE rotators'[j].buffer = <<>>
    <3>1. Held(rotators'[j]) = {} /\ rotators'[j].buffer \in Seq(Nat) BY <2>1, RangeOfEmpty DEF Held
    <3> QED BY <3>1, QueuedEmpty
  <2>2. CASE rotators'[j].buffer # <<>>
    <3>1. j \in 1 .. Len(rotators) /\ rotators'[j].buffer = rotators[j].buffer BY <1>1, <2>2 DEF last
    <3>2. Queued(rotators[j], j) BY <3>1 DEF OrderInv
    <3> QED BY <1>7, <3>1, <3>2, QueuedLasts
  <2> QED BY <2>1, <2>2
<1> QED BY <1>5, <1>6, <1>7, <1>8, <1>9 DEF OrderInv

LEMMA OrderSetCores ==
    ASSUME LogInv, LogInv', OrderInv, NEW cap \in Caps, L!SetCores(cap) PROVE OrderInv'
<1> DEFINE r == [L!New(cap) EXCEPT !.boot = rotators[Len(rotators)].boot]
<1>1. UNCHANGED <<disk, loaded, written, pruned, owner>> /\ rotators' = Append(rotators, r)
  BY DEF L!SetCores, L!Current
<1>2. IsSequence(rotators) BY DEF LogInv, RotatorsOn
<1>3. r.buffer = <<>> /\ r.file = <<0, 0>> /\ r.boot = TopBoot BY DEF L!New, L!NoFile, TopBoot
<1> HIDE DEF r
<1>4. /\ Len(rotators') = Len(rotators) + 1 /\ rotators'[Len(rotators) + 1] = r
      /\ \A j \in 1 .. Len(rotators) : rotators'[j] = rotators[j]
  BY <1>1, <1>2, AppendAny
<1>5. TopBoot <= TopBoot BY Owners
<1> QED BY <1>1, <1>3, <1>4, <1>5, OrderOneMore

LEMMA OrderRestart ==
    ASSUME LogInv, LogInv', OrderInv, NEW cap \in Caps, L!Restart(cap) PROVE OrderInv'
<1> DEFINE r == [L!New(cap) EXCEPT !.boot = rotators[Len(rotators)].boot + 1]
           rs == [j \in 1 .. Len(rotators) |-> [rotators[j] EXCEPT !.buffer = <<>>, !.closed = TRUE]]
<1>1. /\ UNCHANGED <<disk, written, pruned, owner>>
      /\ rotators' = Append(rs, r) /\ loaded' = [g \in Loggers |-> 0]
  BY DEF L!Restart, L!Current
<1>2. IsSequence(rs) /\ Len(rs) = Len(rotators) BY AllShut DEF RotatorsOn
<1>3. r.buffer = <<>> /\ r.file = <<0, 0>> /\ r.boot = TopBoot + 1 BY DEF L!New, L!NoFile, TopBoot
<1>4. ASSUME NEW j \in 1 .. Len(rotators)
      PROVE  rs[j].boot = rotators[j].boot /\ rs[j].closed /\ rs[j].buffer = <<>>
  <2> DEFINE q == rotators[j]
             n == [q EXCEPT !.buffer = <<>>, !.closed = TRUE]
  <2>1. IsRotator(q) BY DEF LogInv, RotatorsOn
  <2>2. rs[j] = n OBVIOUS
  <2> HIDE DEF q, rs
  <2>3. n.boot = q.boot /\ n.buffer = <<>> /\ n.closed BY <2>1, EmptiedFields
  <2> QED BY <2>2, <2>3 DEF q
<1> HIDE DEF r, rs
<1>5. /\ Len(rotators') = Len(rotators) + 1 /\ rotators'[Len(rotators) + 1] = r
      /\ \A j \in 1 .. Len(rotators) : rotators'[j] = rs[j]
  BY <1>1, <1>2, AppendAny
<1>6. TopBoot <= TopBoot + 1 BY Owners
<1> QED BY <1>1, <1>3, <1>4, <1>5, <1>6, OrderOneMore

\* A rotator that went over to the next file.
LEMMA OpensFields ==
    ASSUME NEW r, IsRotator(r), NEW f, NEW d, NEW n, NEW new, Opens(new, r, f, d, n)
    PROVE  new.file = f /\ new.closed = r.closed /\ new.boot = r.boot /\ new.buffer = <<>>
BY DEF Opens, IsRotator

LEMMA OrderRotates ==
    ASSUME LogInv, LogInv', OrderInv, NEW g \in Loggers, L!WriteRotates(g) PROVE OrderInv'
<1>0. PICK i \in 1 .. Len(rotators) : i = loaded[g] BY DEF L!WriteRotates, LogInv, LogTypes, RotatorsOn
<1> DEFINE q == rotators[i]
           old == L!Flushed(q)
           file == L!NewPath(q, old)
           files == DOMAIN disk \cup {file}
           kept == files \ L!Excess(files, file)
           content(f) == IF f \in DOMAIN disk THEN old[f] ELSE <<>>
           gone == UNION {L!Range(content(f)) : f \in files \ kept}
           open == [q EXCEPT !.file = file, !.date = day, !.size = L!Size(content(file)), !.buffer = <<>>]
           n == open.size + EntrySize[written + 1]
           r == [open EXCEPT !.size = n, !.buffer = Append(@, written + 1)]
<1>1. /\ L!Accept(g) /\ loaded[g] # 0 /\ Puts(rotators', rotators, i, r) /\ ~q.closed
      /\ disk' = [f \in kept |-> content(f)] /\ pruned' = pruned \cup gone
  BY <1>0 DEF L!WriteRotates, L!Buffer, L!Files, Puts
<1>2. IsRotator(q) /\ day \in 0 .. day BY DEF LogInv, RotatorsOn, LogTypes
<1>3. /\ FilesOn(old, day) /\ DOMAIN old = DOMAIN disk /\ InFiles(old) \subseteq 1 .. written
      /\ Ordered(old) /\ OldestOut(old, pruned)
      /\ \A j \in 1 .. Len(rotators) : FilesBehind(rotators[j], j, old)
  <2>1. FilesOn(old, day) /\ DOMAIN old = DOMAIN disk BY Flushing
  <2>2. InFiles(old) \subseteq 1 .. written BY FlushedWritten
  <2>3. old = L!Flushed(rotators[i]) OBVIOUS
  <2> HIDE DEF old, q
  <2> QED BY <2>1, <2>2, <2>3, FlushKeeps
<1>4. file \in (1 .. day) \X Nat /\ \A f \in DOMAIN old : f = file \/ L!Earlier(f, file)
  <2> HIDE DEF old
  <2> QED BY <1>3, PathIsToday, PathIsLast
<1> HIDE DEF old, file
<1>5. IsRotator(open) /\ open.date \in 0 .. day /\ open.file = file /\ open.buffer = <<>>
      /\ open.closed = q.closed /\ open.boot = q.boot
  <2>1. Opens(open, q, file, day, L!Size(content(file))) BY DEF Opens
  <2> HIDE DEF open, q
  <2> QED BY <1>2, <2>1, Opened, OpensFields
<1>6. r.file = file /\ r.closed = q.closed /\ r.boot = q.boot /\ r.buffer = Append(<<>>, written + 1)
  <2>1. Gets(r, open, n) BY DEF Gets
  <2> HIDE DEF r, n, open
  <2>2. /\ r.file = open.file /\ r.closed = open.closed /\ r.boot = open.boot
        /\ r.buffer = Append(open.buffer, written + 1)
    BY <1>5, <2>1, GetsFields
  <2> QED BY <1>5, <2>2
<1> HIDE DEF r, n, open
<1>7. /\ Ordered(disk') /\ OldestOut(disk', pruned \cup gone)
      /\ gone \cup InFiles(disk') \subseteq 1 .. written
      /\ \A f \in DOMAIN disk' : f = file \/ L!Earlier(f, file)
      /\ \A f \in DOMAIN disk' : \A x \in L!Range(disk'[f]) : f \in DOMAIN old /\ x \in L!Range(old[f])
  <2>1. Prunes(disk', gone, old, file) BY <1>1, <1>3 DEF Prunes, Leaves
  <2> HIDE DEF gone
  <2> QED BY <1>3, <1>4, <2>1, PruneKeeps
<1>8. pruned' = pruned \cup gone BY <1>1
<1> HIDE DEF gone
<1>9. file # <<0, 0>> BY <1>4
<1>10. /\ Boots' /\ TopBoot' = TopBoot /\ Len(rotators') = Len(rotators) /\ rotators'[i] = r
       /\ \A j \in 1 .. Len(rotators) : rotators'[j].boot = rotators[j].boot
       /\ \A j \in 1 .. Len(rotators) : j # i => rotators'[j] = rotators[j]
  BY <1>1, <1>6, <1>9, BootsLast
<1>11. /\ Lasting /\ EntryBoots' /\ LoadedTop'
       /\ written' = written + 1 /\ owner'[written + 1] = i
       /\ \A j \in 1 .. Len(rotators) :
            j # i => \A x \in 1 .. written' : x \in 1 .. written \/ owner'[x] # j
  BY <1>0, <1>1, <1>10, OneAccepted
<1>12. Ordered(disk)' /\ OldestOut(disk, pruned)'
  <2> DEFINE d == disk'
             p == pruned \cup gone
  <2>1. disk' = d /\ pruned' = p /\ Ordered(d) /\ OldestOut(d, p) /\ InFiles(d) \cup p \subseteq 1 .. written
        /\ InFiles(d) \subseteq 1 .. written
    BY <1>7, <1>8, Owners
  <2> HIDE DEF d, p
  <2> QED BY <1>11, <2>1, OrderLasts, OldestLasts
<1>13. ASSUME NEW j \in 1 .. Len(rotators) PROVE FilesBehind(rotators[j], j, disk)'
  <2>1. CASE j = i
    <3>1. rotators'[j].file = file BY <1>6, <1>10, <2>1
    <3> QED BY <1>7, <3>1 DEF FilesBehind, L!Earlier
  <2>2. CASE j # i
    <3>1. rotators'[j].closed = rotators[j].closed /\ rotators'[j].file = rotators[j].file BY <1>10, <2>2
    <3>2. InFiles(disk') \subseteq 1 .. written /\ FilesBehind(rotators[j], j, old) BY <1>3, <1>7
    <3> QED BY <1>7, <1>11, <3>1, <3>2, BehindLasts
  <2> QED BY <2>1, <2>2
<1>14. ASSUME NEW j \in 1 .. Len(rotators) PROVE Queued(rotators[j], j)'
  <2>1. CASE j = i
    <3> DEFINE s == <<>>
    <3>1. s \in Seq(Nat) /\ (s = rotators[i].buffer \/ s = <<>>) BY RangeOfEmpty
    <3>2. rotators'[i].buffer = Append(s, written + 1) BY <1>6, <1>10
    <3>3. \A x \in 1 .. written : owner'[x] = owner[x] BY <1>11 DEF Lasting
    <3> HIDE DEF s
    <3>4. Queued(rotators[i], i)' BY <1>11, <3>1, <3>2, <3>3, QueuedAppend
    <3> QED BY <2>1, <3>4
  <2>2. CASE j # i
    <3>1. Queued(rotators[j], j) BY DEF OrderInv
    <3>2. \A x \in (1 .. written)' : x \in 1 .. written \/ owner'[x] # j BY <1>11, <2>2
    <3>3. rotators'[j].buffer = rotators[j].buffer BY <1>10, <2>2
    <3> QED BY <1>11, <3>1, <3>2, <3>3, QueuedLasts
  <2> QED BY <2>1, <2>2
<1> QED BY <1>10, <1>11, <1>12, <1>13, <1>14 DEF OrderInv

LEMMA OrderInit == L!Init => OrderInv
<1> SUFFICES ASSUME L!Init PROVE OrderInv OBVIOUS
<1>1. PICK cap \in Caps : rotators = <<L!New(cap)>> BY DEF L!Init
<1>2. /\ Len(rotators) = 1 /\ rotators[1].buffer = <<>> /\ rotators[1].file = <<0, 0>>
      /\ rotators[1].boot = 1
  BY <1>1 DEF L!New, L!NoFile
<1>3. written = 0 /\ loaded = [g \in Loggers |-> 0] /\ DOMAIN disk = {} /\ pruned = {} BY DEF L!Init
<1>4. Held(rotators[1]) = {} /\ Len(<<>>) = 0 BY <1>2, RangeOfEmpty DEF Held
<1>5. Boots
  <2>1. \A j \in 1 .. Len(rotators) : j = 1 BY <1>2
  <2>2. TopBoot = 1 /\ rotators[1].boot <= 1 BY <1>2 DEF TopBoot
  <2> QED BY <1>2, <1>4, <2>1, <2>2 DEF Boots
<1>6. LoadedTop /\ EntryBoots BY <1>3 DEF LoadedTop, EntryBoots
<1>7. \A j \in 1 .. Len(rotators) : Queued(rotators[j], j) /\ FilesBehind(rotators[j], j, disk)
  <2>1. \A j \in 1 .. Len(rotators) : j = 1 BY <1>2
  <2>2. Queued(rotators[1], 1) BY <1>2, <1>4 DEF Queued
  <2>3. FilesBehind(rotators[1], 1, disk) BY <1>2 DEF FilesBehind
  <2> QED BY <2>1, <2>2, <2>3
<1>8. Ordered(disk) /\ OldestOut(disk, pruned) BY <1>3 DEF Ordered, OldestOut
<1> QED BY <1>5, <1>6, <1>7, <1>8 DEF OrderInv

LEMMA OrderNext == LogInv /\ OrderInv /\ [L!Next]_logVars => OrderInv'
<1> SUFFICES ASSUME LogInv, OrderInv, [L!Next]_logVars PROVE OrderInv' OBVIOUS
<1>0. LogInv' BY LogNext
<1>1. CASE \E g \in Loggers : L!WriteLate(g) \/ L!WriteOn(g) \/ L!WriteRotates(g) \/ L!RotateFails(g)
  BY <1>0, <1>1, OrderLate, OrderWrite, OrderRotates, OrderFails
<1>2. CASE \E i \in 1 .. L!Current : L!FlushBuffer(i) BY <1>0, <1>2, OrderFlush
<1>3. CASE \E cap \in Caps : L!SetCores(cap) \/ L!Restart(cap) BY <1>0, <1>3, OrderSetCores, OrderRestart
<1>4. CASE L!CloseOld BY <1>0, <1>4, OrderClose
<1>5. CASE L!Midnight \/ (\E g \in Loggers : L!LoadCores(g)) \/ UNCHANGED logVars
  <2>1. /\ UNCHANGED <<disk, rotators, written, pruned, owner>>
        /\ loaded' = loaded \/ \E g \in Loggers : loaded' = [loaded EXCEPT ![g] = Len(rotators)]
    BY <1>5 DEF L!Midnight, L!LoadCores, L!Current, logVars
  <2>2. \A h \in Loggers : loaded'[h] = loaded[h] \/ loaded'[h] = 0 \/ loaded'[h] = Len(rotators)
    BY <2>1 DEF LogInv, LogTypes
  <2> QED BY <1>0, <2>1, <2>2, OrderOthers
<1> QED BY <1>1, <1>2, <1>3, <1>4, <1>5 DEF L!Next

LEMMA OrderSafe == OrderInv => L!InOrder /\ L!OldestGo
<1>1. Ordered(disk) => L!InOrder
  BY DEF Ordered, BehindIn, L!InOrder, L!Behind, L!Entries, L!Files
<1>2. OldestOut(disk, pruned) => L!OldestGo
  BY DEF OldestOut, L!OldestGo, InFiles, L!OnDisk, L!Entries, L!Files
<1> QED BY <1>1, <1>2 DEF OrderInv


----------------------------------------------------------------------------
(***************************************************************************)
(* The sizes of the files: a rotator knows what its file has come to, or   *)
(* shares it with another of the run (L!Beside).                           *)
(***************************************************************************)
Entry == 1 .. Len(EntrySize)

LEMMA BytesFinite ==
    ASSUME NEW s \in Seq(Entry)
    PROVE  IsFiniteSet(L!Bytes(s)) /\ L!Size(s) \in Nat /\ L!Size(s) = Cardinality(L!Bytes(s))
<1> DEFINE Part(k) == {k} \X (1 .. EntrySize[s[k]])
           parts == {Part(k) : k \in 1 .. Len(s)}
<1>1. Len(s) \in Nat /\ DOMAIN s = 1 .. Len(s) /\ \A k \in 1 .. Len(s) : s[k] \in Entry OBVIOUS
<1>2. \A e \in Entry : EntrySize[e] \in Nat BY LogAssumption DEF Entry
<1>3. ASSUME NEW k \in 1 .. Len(s) PROVE IsFiniteSet(Part(k))
  <2> DEFINE n == EntrySize[s[k]]
  <2>1. n \in Nat BY <1>1, <1>2
  <2> HIDE DEF n
  <2>2. IsFiniteSet({k}) BY FS_Singleton, Zenon
  <2>4. IsFiniteSet(1 .. n) BY <2>1, FS_Interval
  <2>3. IsFiniteSet({k} \X (1 .. n)) BY <2>2, <2>4, FS_Product
  <2> QED BY <2>3 DEF n
<1>4. IsFiniteSet(parts)
  <2> DEFINE f == [k \in 1 .. Len(s) |-> Part(k)]
  <2>1. f \in Surjection(1 .. Len(s), parts) BY DEF Surjection
  <2>2. IsFiniteSet(1 .. Len(s)) BY <1>1, FS_Interval
  <2> HIDE DEF f, parts
  <2> QED BY <2>1, <2>2, FS_Surjection
<1>5. IsFiniteSet(UNION parts) BY <1>3, <1>4, FS_UNION
<1>6. L!Bytes(s) = UNION parts BY <1>1 DEF L!Bytes
<1> HIDE DEF parts
<1>7. IsFiniteSet(L!Bytes(s)) BY <1>5, <1>6
<1> QED BY <1>7, FS_CardinalityType, CardinalityOfL DEF L!Size

LEMMA InBytes ==
    ASSUME NEW s \in Seq(Entry), NEW p
    PROVE  p \in L!Bytes(s) <=> \E k \in 1 .. Len(s) : \E b \in 1 .. EntrySize[s[k]] : p = <<k, b>>
BY DEF L!Bytes

LEMMA SizeOfEmpty == <<>> \in Seq(Entry) /\ L!Size(<<>>) = 0
<1>1. <<>> \in Seq(Entry) OBVIOUS
<1>2. L!Bytes(<<>>) = {} BY DEF L!Bytes
<1> QED BY <1>1, <1>2, BytesFinite, FS_EmptySet

\* The bytes of the one, and behind them those of the other.
LEMMA SizeOfConcat ==
    ASSUME NEW s \in Seq(Entry), NEW t \in Seq(Entry)
    PROVE  s \o t \in Seq(Entry) /\ L!Size(s \o t) = L!Size(s) + L!Size(t)
<1> DEFINE u == s \o t
           n == Len(s)
           A == L!Bytes(s)
           B == L!Bytes(t)
           C == {<<n + p[1], p[2]>> : p \in B}
<1>1. /\ u \in Seq(Entry) /\ n \in Nat /\ Len(t) \in Nat /\ Len(u) = n + Len(t)
      /\ \A k \in 1 .. n : u[k] = s[k]
      /\ \A k \in 1 .. Len(t) : u[n + k] = t[k]
  OBVIOUS
<1>2. /\ IsFiniteSet(A) /\ IsFiniteSet(B) /\ L!Size(s) = Cardinality(A) /\ L!Size(t) = Cardinality(B)
      /\ Cardinality(A) \in Nat /\ Cardinality(B) \in Nat /\ L!Size(u) = Cardinality(L!Bytes(u))
  BY <1>1, BytesFinite
<1>3. \A p \in A : p[1] \in 1 .. n BY InBytes
<1>4. \A p \in B : p = <<p[1], p[2]>> /\ p[1] \in 1 .. Len(t) BY InBytes
<1>5. IsFiniteSet(C) /\ Cardinality(C) = Cardinality(B)
  <2> DEFINE f == [p \in B |-> <<n + p[1], p[2]>>]
  <2>1. f \in Surjection(B, C) BY DEF Surjection
  <2>2. \A p, q \in B : f[p] = f[q] => p = q BY <1>1, <1>4
  <2>3. f \in Bijection(B, C) BY <2>1, <2>2 DEF Bijection, Injection, IsInjective, Surjection
  <2> HIDE DEF f, B, C
  <2>4. ExistsBijection(B, C) BY <2>3 DEF ExistsBijection
  <2> QED BY <1>2, <2>4, FS_Bijection
<1>6. A \cap C = {} BY <1>1, <1>3, <1>4
<1>7. L!Bytes(u) = A \cup C
  <2>1. ASSUME NEW p \in L!Bytes(u) PROVE p \in A \cup C
    <3>0. PICK k \in 1 .. Len(u) : \E b \in 1 .. EntrySize[u[k]] : p = <<k, b>>
      <4>1. u \in Seq(Entry) /\ p \in L!Bytes(u) BY <1>1, <2>1
      <4> HIDE DEF u
      <4> QED BY <4>1, InBytes
    <3>1. PICK b \in 1 .. EntrySize[u[k]] : p = <<k, b>> BY <3>0
    <3>2. CASE k <= n
      <4>1. k \in 1 .. n /\ u[k] = s[k] BY <1>1, <3>2
      <4>2. p \in A BY <3>1, <4>1, InBytes
      <4> QED BY <4>2
    <3>3. CASE ~(k <= n)
      <4> DEFINE j == k - n
      <4>1. j \in 1 .. Len(t) /\ k = n + j BY <1>1, <3>3
      <4>2. u[k] = t[j] BY <1>1, <4>1
      <4> HIDE DEF j, u, n
      <4>3. <<j, b>> \in B BY <3>1, <4>1, <4>2, InBytes
      <4>4. p = <<n + <<j, b>>[1], <<j, b>>[2]>> BY <3>1, <4>1
      <4> QED BY <4>3, <4>4
    <3> QED BY <3>2, <3>3
  <2>2. ASSUME NEW p \in A PROVE p \in L!Bytes(u)
    <3>0. PICK k \in 1 .. Len(s) : \E b \in 1 .. EntrySize[s[k]] : p = <<k, b>> BY InBytes
    <3>1. PICK b \in 1 .. EntrySize[s[k]] : p = <<k, b>> BY <3>0
    <3>2. k \in 1 .. Len(u) /\ u[k] = s[k] BY <1>1
    <3> HIDE DEF u
    <3> QED BY <1>1, <3>1, <3>2, InBytes
  <2>3. ASSUME NEW q \in B PROVE <<n + q[1], q[2]>> \in L!Bytes(u)
    <3>0. PICK k \in 1 .. Len(t) : \E b \in 1 .. EntrySize[t[k]] : q = <<k, b>> BY InBytes
    <3>1. PICK b \in 1 .. EntrySize[t[k]] : q = <<k, b>> BY <3>0
    <3>2. n + k \in 1 .. Len(u) /\ u[n + k] = t[k] BY <1>1
    <3>3. <<n + q[1], q[2]>> = <<n + k, b>> BY <3>1
    <3> HIDE DEF u, n
    <3> QED BY <1>1, <3>1, <3>2, <3>3, InBytes
  <2> QED BY <2>1, <2>2, <2>3
<1>8. Cardinality(A \cap C) = 0
  <2> HIDE DEF A, C
  <2> QED BY <1>6, FS_EmptySet
<1> HIDE DEF A, B, C, u
<1>9. Cardinality(A \cup C) = Cardinality(A) + Cardinality(B)
  <2>1. Cardinality(A \cup C) = Cardinality(A) + Cardinality(C) - Cardinality(A \cap C)
    BY <1>2, <1>5, FS_Union
  <2> QED BY <1>2, <1>5, <1>8, <2>1
<1> QED BY <1>1, <1>2, <1>7, <1>9 DEF u

LEMMA SizeOfOne == ASSUME NEW e \in Entry PROVE <<e>> \in Seq(Entry) /\ L!Size(<<e>>) = EntrySize[e]
<1> DEFINE n == EntrySize[e]
           s == <<e>>
<1>1. n \in Nat BY LogAssumption DEF Entry
<1>2. s \in Seq(Entry) /\ Len(s) = 1 /\ s[1] = e OBVIOUS
<1>3. L!Bytes(s) = {1} \X (1 .. n)
  <2>1. \A p : p \in L!Bytes(s) <=> \E b \in 1 .. n : p = <<1, b>>
    <3>1. 1 .. Len(s) = {1} BY <1>2
    <3> HIDE DEF s
    <3> QED BY <1>2, <3>1, InBytes
  <2> QED BY <2>1
<1> HIDE DEF n, s
<1>4. IsFiniteSet({1}) /\ Cardinality({1}) = 1 BY FS_Singleton, Zenon
<1>5. IsFiniteSet(1 .. n) /\ Cardinality(1 .. n) = n BY <1>1, FS_Interval
<1>6. Cardinality({1} \X (1 .. n)) = n
  <2>1. Cardinality({1} \X (1 .. n)) = Cardinality({1}) * Cardinality(1 .. n)
    BY <1>4, <1>5, FS_Product
  <2> QED BY <1>1, <1>4, <1>5, <2>1
<1>7. L!Size(s) = n BY <1>2, <1>3, <1>6, BytesFinite
<1> QED BY <1>2, <1>7 DEF n, s

\* A sequence with an entry at its end.
LEMMA SizeOfAppend ==
    ASSUME NEW s \in Seq(Entry), NEW e \in Entry
    PROVE  /\ Append(s, e) \in Seq(Entry) /\ Append(s, e) # <<>>
           /\ L!Size(Append(s, e)) = L!Size(s) + EntrySize[e]
           /\ L!Front(Append(s, e)) = s
<1>1. Append(s, e) = s \o <<e>> OBVIOUS
<1>2. L!Size(s \o <<e>>) = L!Size(s) + L!Size(<<e>>) BY SizeOfOne, SizeOfConcat
<1>3. /\ Append(s, e) \in Seq(Entry) /\ Len(s) \in Nat /\ Len(Append(s, e)) = Len(s) + 1
      /\ \A k \in 1 .. Len(s) : Append(s, e)[k] = s[k]
  BY AppendProperties
<1>4. Append(s, e) # <<>> BY <1>3, LenProperties
<1>5. L!Front(Append(s, e)) = s
  <2> DEFINE u == Append(s, e)
  <2>1. L!Front(u) = SubSeq(u, 1, Len(s)) BY <1>3 DEF L!Front
  <2>2. \A k \in 1 .. Len(s) : u[k] \in Entry /\ s[k] \in Entry BY <1>3
  <2> HIDE DEF u
  <2>3. /\ SubSeq(u, 1, Len(s)) \in Seq(Entry) /\ Len(SubSeq(u, 1, Len(s))) = Len(s)
        /\ \A k \in 1 .. Len(s) : SubSeq(u, 1, Len(s))[k] = u[k]
    BY <1>3, <2>2, SubSeqProperties
  <2>4. \A k \in 1 .. Len(s) : SubSeq(u, 1, Len(s))[k] = s[k] BY <1>3, <2>3 DEF u
  <2>5. SubSeq(u, 1, Len(s)) = s BY <2>3, <2>4, SeqEqual
  <2> QED BY <2>1, <2>5 DEF u
<1> QED BY <1>1, <1>2, <1>3, <1>4, <1>5, SizeOfOne

LEMMA FrontOfConcat ==
    ASSUME NEW s \in Seq(Entry), NEW t \in Seq(Entry), t # <<>>
    PROVE  /\ L!Front(t) \in Seq(Entry) /\ L!Front(s \o t) = s \o L!Front(t)
           /\ L!Size(L!Front(s \o t)) = L!Size(s) + L!Size(L!Front(t))
<1> DEFINE w == L!Front(t)
           u == s \o t
           v == s \o w
<1>1. Len(t) \in Nat \ {0} /\ Len(s) \in Nat BY EmptySeq, LenProperties
<1>2. w \in Seq(Entry) /\ Len(w) = Len(t) - 1 /\ \A k \in 1 .. Len(t) - 1 : w[k] = t[k]
  <2> DEFINE m == Len(t) - 1
  <2>1. w = SubSeq(t, 1, m) BY DEF L!Front
  <2>2. m \in Nat /\ \A k \in 1 .. m : t[k] \in Entry BY <1>1
  <2> HIDE DEF m
  <2>3. SubSeq(t, 1, m) \in Seq(Entry) /\ Len(SubSeq(t, 1, m)) = m
        /\ \A k \in 1 .. m : SubSeq(t, 1, m)[k] = t[k]
    BY <2>2, SubSeqProperties
  <2> QED BY <2>1, <2>3 DEF m
<1> HIDE DEF w
<1>3. L!Front(u) = v
  <2> DEFINE n == Len(s) + Len(t) - 1
  <2>1. u \in Seq(Entry) /\ Len(u) = Len(s) + Len(t)
        /\ \A k \in 1 .. Len(s) + Len(t) : u[k] = IF k <= Len(s) THEN s[k] ELSE t[k - Len(s)]
    BY ConcatProperties
  <2>2. v \in Seq(Entry) /\ Len(v) = Len(s) + Len(w)
        /\ \A k \in 1 .. Len(s) + Len(w) : v[k] = IF k <= Len(s) THEN s[k] ELSE w[k - Len(s)]
    BY <1>2, ConcatProperties
  <2> HIDE DEF u, v
  <2>3. Len(v) = n /\ n \in Nat BY <1>1, <1>2, <2>2
  <2>4. \A k \in 1 .. n : u[k] \in Entry /\ v[k] = u[k]
    <3> SUFFICES ASSUME NEW k \in 1 .. n PROVE u[k] \in Entry /\ v[k] = u[k] OBVIOUS
    <3>1. k \in 1 .. Len(u) /\ k \in 1 .. Len(s) + Len(t) /\ k \in 1 .. Len(s) + Len(w) BY <1>1, <1>2, <2>1
    <3>2. ~(k <= Len(s)) => k - Len(s) \in 1 .. Len(t) - 1 BY <1>1
    <3>3. u[k] \in Entry BY <2>1, <3>1
    <3>4. v[k] = u[k]
      <4>1. CASE k <= Len(s) BY <2>1, <2>2, <3>1, <4>1
      <4>2. CASE ~(k <= Len(s))
        <5> DEFINE j == k - Len(s)
        <5>1. j \in 1 .. Len(t) - 1 /\ u[k] = t[j] /\ v[k] = w[j] BY <2>1, <2>2, <3>1, <3>2, <4>2
        <5> HIDE DEF j
        <5> QED BY <1>2, <5>1
      <4> QED BY <4>1, <4>2
    <3> QED BY <3>3, <3>4
  <2>5. L!Front(u) = SubSeq(u, 1, n) BY <2>1 DEF L!Front
  <2>6. /\ SubSeq(u, 1, n) \in Seq(Entry) /\ Len(SubSeq(u, 1, n)) = n
        /\ \A k \in 1 .. n : SubSeq(u, 1, n)[k] = u[k]
    BY <2>3, <2>4, SubSeqProperties
  <2>7. \A k \in 1 .. n : SubSeq(u, 1, n)[k] = v[k] BY <2>4, <2>6
  <2> HIDE DEF n
  <2>8. SubSeq(u, 1, n) = v BY <2>2, <2>3, <2>6, <2>7, SeqEqual
  <2> QED BY <2>5, <2>8
<1>4. L!Size(v) = L!Size(s) + L!Size(w) BY <1>2, SizeOfConcat
<1> QED BY <1>2, <1>3, <1>4 DEF w

----------------------------------------------------------------------------
(* What a rotator has room for. *)

\* With c in its file, a rotator knows the size, and at most the last entry is past its cap.
Room(c, r) ==
    /\ L!Size(c) + L!Size(r.buffer) <= r.size
    /\ r.buffer # <<>> => L!Size(c) + L!Size(L!Front(r.buffer)) <= r.cap

\* No other rotator of the run has written into c.
Clean(c, i) == \A e \in L!Range(c) : ~L!Beside(i, owner[e])

Fits(i) ==
    ~rotators[i].closed /\ rotators[i].cap > 0 =>
        /\ Room(<<>>, rotators[i])
        /\ \A f \in DOMAIN disk : f = rotators[i].file /\ Clean(disk[f], i) => Room(disk[f], rotators[i])

CapInv ==
    /\ written <= Len(EntrySize)
    /\ \A i \in 1 .. Len(rotators) : rotators[i].size \in Nat /\ Fits(i)
    /\ L!WithinCap

\* A file stays, is new and empty, or gets the buffer of the rotator i.
Grows(i) ==
    \A f \in DOMAIN disk' :
        \/ disk'[f] = <<>>
        \/ f \in DOMAIN disk /\ disk'[f] = disk[f]
        \/ /\ f \in DOMAIN disk /\ f = rotators[i].file /\ rotators[i].buffer # <<>>
           /\ Joins(disk'[f], disk[f], rotators[i].buffer)

LEMMA SomeEntry == ASSUME NEW s \in Seq(Nat), s # <<>> PROVE \E e : e \in L!Range(s)
<1>1. Len(s) \in Nat \ {0} BY EmptySeq, LenProperties
<1>2. s[1] \in L!Range(s) BY <1>1 DEF L!Range
<1> QED BY <1>2

LEMMA EntriesKnown ==
    ASSUME NEW s \in Seq(Nat), NEW n \in Nat, n <= Len(EntrySize), L!Range(s) \subseteq 1 .. n
    PROVE  s \in Seq(Entry)
<1>1. Len(EntrySize) \in Nat /\ DOMAIN s = 1 .. Len(s) /\ Len(s) \in Nat BY LogAssumption
<1>2. \A k \in 1 .. Len(s) : s[k] \in Entry BY <1>1 DEF L!Range, Entry
<1> QED BY <1>1, <1>2

\* Files and buffers are of entries.
LEMMA Known ==
    ASSUME LogInv, CapInv
    PROVE  /\ \A f \in DOMAIN disk : disk[f] \in Seq(Entry) /\ L!Range(disk[f]) \subseteq 1 .. written
           /\ \A i \in 1 .. Len(rotators) :
                /\ rotators[i].buffer \in Seq(Entry) /\ Held(rotators[i]) \subseteq 1 .. written
                /\ rotators[i].cap \in Nat /\ rotators[i].size \in Nat
<1>1. written \in Nat /\ written <= Len(EntrySize) BY DEF LogInv, LogTypes, CapInv
<1>2. \A f \in DOMAIN disk : disk[f] \in Seq(Nat) /\ L!Range(disk[f]) \subseteq 1 .. written
  BY Owners DEF InFiles, LogInv, FilesOn
<1>3. ASSUME NEW i \in 1 .. Len(rotators)
      PROVE  /\ rotators[i].buffer \in Seq(Nat) /\ Held(rotators[i]) \subseteq 1 .. written
             /\ rotators[i].cap \in Nat /\ rotators[i].size \in Nat
  BY Owners, LogAssumption DEF LogInv, RotatorsOn, IsRotator, CapInv
<1>4. \A f \in DOMAIN disk : disk[f] \in Seq(Entry) BY <1>1, <1>2, EntriesKnown
<1>5. \A i \in 1 .. Len(rotators) : rotators[i].buffer \in Seq(Entry)
  BY <1>1, <1>3, EntriesKnown DEF Held
<1> QED BY <1>2, <1>3, <1>4, <1>5

\* A file that only grows was of one rotator before if it is after.
LEMMA CleanBefore ==
    ASSUME LogInv, CapInv, Lasting, NEW i \in 1 .. Len(rotators), NEW f \in DOMAIN disk,
           L!Range(disk[f]) \subseteq L!Range(disk'[f]), Clean(disk[f], i)'
    PROVE  Clean(disk[f], i)
<1> SUFFICES ASSUME NEW e \in L!Range(disk[f]) PROVE ~L!Beside(i, owner[e]) BY DEF Clean
<1>1. e \in 1 .. written /\ owner[e] \in 1 .. Len(rotators) BY Known, Owners
<1>2. /\ owner'[e] = owner[e] /\ rotators'[i].boot = rotators[i].boot
      /\ rotators'[owner[e]].boot = rotators[owner[e]].boot
  BY <1>1 DEF Lasting
<1>3. ~L!Beside(i, owner[e])' BY DEF Clean, L!Range
<1> QED BY <1>2, <1>3 DEF L!Beside

\* The room of a rotator that does nothing is what it was.
LEMMA FitsOthers ==
    ASSUME LogInv, LogInv', OrderInv, CapInv, Lasting, NEW i \in 1 .. Len(rotators), Grows(i),
           NEW j \in 1 .. Len(rotators), j # i, rotators'[j] = rotators[j]
    PROVE  Fits(j)'
<1> SUFFICES ASSUME ~rotators'[j].closed, rotators'[j].cap > 0 PROVE Fits(j)' BY DEF Fits
<1>1. Room(<<>>, rotators[j])
      /\ \A f \in DOMAIN disk : f = rotators[j].file /\ Clean(disk[f], j) => Room(disk[f], rotators[j])
  BY DEF CapInv, Fits
<1>2. ASSUME NEW f \in DOMAIN disk', f = rotators[j].file, Clean(disk[f], j)'
      PROVE  Room(disk'[f], rotators[j])
  <2>1. CASE disk'[f] = <<>> BY <1>1, <2>1
  <2>2. CASE f \in DOMAIN disk /\ disk'[f] = disk[f]
    <3>1. Clean(disk[f], j) BY <1>2, <2>2, CleanBefore
    <3> QED BY <1>1, <1>2, <2>2, <3>1
  <2>3. CASE /\ f \in DOMAIN disk /\ f = rotators[i].file /\ rotators[i].buffer # <<>>
             /\ Joins(disk'[f], disk[f], rotators[i].buffer)
    <3>1. rotators[i].buffer \in Seq(Nat) /\ disk[f] \in Seq(Nat) BY <2>3 DEF LogInv, RotatorsOn, IsRotator, FilesOn
    <3>2. PICK e : e \in Held(rotators[i]) BY <2>3, <3>1, SomeEntry DEF Held
    <3>3. e \in L!Range(disk'[f]) BY <2>3, <3>1, <3>2, RangeFacts DEF Joins, Held
    <3>4. e \in 1 .. written /\ owner'[e] = i
      <4>1. e \in 1 .. written /\ owner[e] = i BY <3>2, Known DEF OrderInv, Queued
      <4> QED BY <4>1 DEF Lasting
    <3>5. rotators[i].boot = TopBoot /\ rotators[j].boot = TopBoot BY <3>2 DEF OrderInv, Boots
    <3>6. L!Beside(j, i)' BY <3>5 DEF Lasting, L!Beside
    <3>7. ~L!Beside(j, owner[e])' BY <1>2, <3>3 DEF Clean, L!Range
    <3> QED BY <3>4, <3>6, <3>7 DEF L!Beside
  <2> QED BY <2>1, <2>2, <2>3 DEF Grows
<1>3. \A f \in DOMAIN disk' : f = rotators'[j].file /\ Clean(disk[f], j)' => Room(disk'[f], rotators'[j])
  BY <1>2 DEF Clean, L!Range
<1>4. Room(<<>>, rotators'[j]) BY <1>1
<1> QED BY <1>3, <1>4 DEF Fits, Room, Clean

LEMMA FlushGrows ==
    ASSUME LogInv, NEW i \in 1 .. Len(rotators), NEW d, d = disk \/ d = L!Flushed(rotators[i])
    PROVE  /\ DOMAIN d = DOMAIN disk
           /\ \A f \in DOMAIN disk :
                \/ d[f] = disk[f]
                \/ /\ f = rotators[i].file /\ rotators[i].buffer # <<>>
                   /\ Joins(d[f], disk[f], rotators[i].buffer)
<1> DEFINE r == rotators[i]
<1>1. FilesOn(disk, day) /\ disk \in [DOMAIN disk -> Seq(Nat)] BY DEF LogInv, FilesOn
<1>2. CASE d = disk BY <1>2
<1>3. CASE r.file \notin DOMAIN disk /\ d = L!Flushed(r)
  <2>1. d = disk BY <1>3 DEF L!Flushed, L!Files
  <2> QED BY <2>1
<1>4. CASE r.file \in DOMAIN disk /\ d = L!Flushed(r)
  <2> DEFINE a == r.file
  <2>1. /\ DOMAIN d = DOMAIN disk /\ d[a] = disk[a] \o r.buffer
        /\ \A f \in DOMAIN disk : f # a => d[f] = disk[f]
    BY <1>1, <1>4 DEF L!Flushed, L!Files
  <2>2. disk[a] \in Seq(Nat) BY <1>1, <1>4
  <2>3. r.buffer = <<>> => d[a] = disk[a]
    <3> DEFINE c == disk[a]
    <3>1. c \in Seq(Nat) BY <2>2
    <3> HIDE DEF c
    <3>2. c \o <<>> = c BY <3>1
    <3> QED BY <2>1, <3>2 DEF c
  <2> QED BY <2>1, <2>3 DEF Joins
<1> QED BY <1>2, <1>3, <1>4

\* The caps of who wrote a file.
CapsOf(c, rs, who) == {rs[j].cap : j \in {who[e] : e \in L!Range(c)}}

LEMMA CapsKnown ==
    ASSUME NEW c \in Seq(Nat), NEW rs, NEW who, \A e \in L!Range(c) : rs[who[e]].cap \in Nat
    PROVE  /\ IsFiniteSet(CapsOf(c, rs, who)) /\ CapsOf(c, rs, who) \subseteq Nat
           /\ \A e \in L!Range(c) : rs[who[e]].cap \in CapsOf(c, rs, who)
<1> DEFINE caps == CapsOf(c, rs, who)
           f == [k \in 1 .. Len(c) |-> rs[who[c[k]]].cap]
<1>1. Len(c) \in Nat /\ L!Range(c) = {c[k] : k \in 1 .. Len(c)} BY DEF L!Range
<1>2. f \in Surjection(1 .. Len(c), caps)
  <2>1. \A k \in 1 .. Len(c) : f[k] \in caps BY <1>1 DEF CapsOf
  <2>2. \A x \in caps : \E k \in 1 .. Len(c) : f[k] = x BY <1>1 DEF CapsOf
  <2>3. f \in [1 .. Len(c) -> caps] BY <2>1
  <2> HIDE DEF f, caps
  <2> QED BY <2>2, <2>3 DEF Surjection
<1>3. IsFiniteSet(1 .. Len(c)) BY <1>1, FS_Interval
<1>4. IsFiniteSet(caps) BY <1>2, <1>3, FS_Surjection
<1>5. caps \subseteq Nat /\ \A e \in L!Range(c) : rs[who[e]].cap \in caps BY DEF CapsOf
<1> QED BY <1>4, <1>5

\* A file that gets a buffer is past the cap by the last entry at most, since its rotator had room.
LEMMA WithinCapLasts ==
    ASSUME LogInv, LogInv', OrderInv, CapInv, Lasting, NEW i \in 1 .. Len(rotators), Grows(i),
           written' <= Len(EntrySize),
           \A j \in 1 .. Len(rotators) : rotators'[j].cap = rotators[j].cap
    PROVE  L!WithinCap'
<1> SUFFICES ASSUME NEW f \in DOMAIN disk', 0 \notin CapsOf(disk'[f], rotators', owner'),
                    \A a, b \in L!Range(disk'[f]) :
                       owner'[a] = owner'[b] \/ rotators'[owner'[a]].boot # rotators'[owner'[b]].boot,
                    disk'[f] # <<>>
             PROVE  L!Size(L!Front(disk'[f])) <= L!Max(CapsOf(disk'[f], rotators', owner'))
  BY DEF L!WithinCap, L!Files, CapsOf, L!Beside, L!Range, L!Max, L!Size, L!Bytes, L!Front
<1>1. CASE f \in DOMAIN disk /\ disk'[f] = disk[f]
  <2>1. \A e \in L!Range(disk[f]) :
           /\ e \in 1 .. written /\ owner[e] \in 1 .. Len(rotators) /\ owner'[e] = owner[e]
           /\ rotators'[owner[e]].cap = rotators[owner[e]].cap
           /\ rotators'[owner[e]].boot = rotators[owner[e]].boot
    BY <1>1, Known, Owners DEF Lasting
  <2>2. CapsOf(disk'[f], rotators', owner') = CapsOf(disk[f], rotators, owner) BY <1>1, <2>1 DEF CapsOf
  <2>4. \A x, y \in {owner[e] : e \in L!Range(disk[f])} : ~L!Beside(x, y)
    <3> SUFFICES ASSUME NEW a \in L!Range(disk[f]), NEW b \in L!Range(disk[f])
                 PROVE  ~L!Beside(owner[a], owner[b])
      OBVIOUS
    <3>1. owner'[a] = owner'[b] \/ rotators'[owner'[a]].boot # rotators'[owner'[b]].boot BY <1>1
    <3> QED BY <2>1, <3>1 DEF L!Beside
  <2>5. L!Size(L!Front(disk[f])) <= L!Max(CapsOf(disk[f], rotators, owner))
    <3>1. 0 \notin CapsOf(disk[f], rotators, owner) /\ disk[f] # <<>> BY <1>1, <2>2
    <3> QED BY <1>1, <2>4, <3>1 DEF CapInv, L!WithinCap, L!Files, CapsOf
  <2> QED BY <1>1, <2>2, <2>5
<1>2. CASE /\ f \in DOMAIN disk /\ f = rotators[i].file /\ rotators[i].buffer # <<>>
           /\ Joins(disk'[f], disk[f], rotators[i].buffer)
  <2> DEFINE c == disk[f]
             b == rotators[i].buffer
             caps == CapsOf(disk'[f], rotators', owner')
  <2>1. /\ c \in Seq(Entry) /\ b \in Seq(Entry) /\ b # <<>> /\ disk'[f] = c \o b
        /\ c \in Seq(Nat) /\ b \in Seq(Nat) /\ rotators[i].cap \in Nat
        /\ L!Range(c) \subseteq 1 .. written /\ L!Range(b) \subseteq 1 .. written
    BY <1>2, Known DEF Joins, LogInv, FilesOn, RotatorsOn, IsRotator, Held
  <2>2. L!Range(disk'[f]) = L!Range(c) \cup L!Range(b) BY <2>1, RangeFacts
  <2>3. PICK e : e \in L!Range(b) BY <2>1, SomeEntry
  <2>4. e \in L!Range(disk'[f]) /\ owner'[e] = i /\ ~rotators[i].closed
    <3>1. owner[e] = i /\ e \in 1 .. written BY <2>1, <2>3 DEF OrderInv, Queued, Held
    <3>2. ~rotators[i].closed BY <2>3 DEF OrderInv, Boots, Held
    <3> QED BY <2>2, <2>3, <3>1, <3>2 DEF Lasting
  <2>5. /\ IsFiniteSet(caps) /\ caps \subseteq Nat /\ rotators[i].cap \in caps
    <3> DEFINE d == disk'[f]
    <3>1. d \in Seq(Nat) BY <2>1, RangeFacts
    <3>2. \A x \in L!Range(d) : rotators'[owner'[x]].cap \in Nat
      <4> SUFFICES ASSUME NEW x \in L!Range(d) PROVE rotators'[owner'[x]].cap \in Nat OBVIOUS
      <4>1. x \in 1 .. written /\ owner[x] \in 1 .. Len(rotators) BY <2>1, <2>2, Owners
      <4>2. owner'[x] = owner[x] BY <4>1 DEF Lasting
      <4> QED BY <4>1, <4>2, Known
    <3> HIDE DEF d
    <3>3. /\ IsFiniteSet(CapsOf(d, rotators', owner')) /\ CapsOf(d, rotators', owner') \subseteq Nat
          /\ \A x \in L!Range(d) : rotators'[owner'[x]].cap \in CapsOf(d, rotators', owner')
      BY <3>1, <3>2, CapsKnown
    <3> QED BY <2>4, <3>3 DEF d
  <2> HIDE DEF caps
  <2>6. Clean(c, i)
    <3> SUFFICES ASSUME NEW x \in L!Range(c) PROVE ~L!Beside(i, owner[x]) BY DEF Clean
    <3>1. owner'[x] = owner[x] /\ owner[x] \in 1 .. Len(rotators) BY <2>1, Owners DEF Lasting
    <3>2. owner'[e] = owner'[x] \/ rotators'[owner'[e]].boot # rotators'[owner'[x]].boot BY <2>2, <2>4
    <3> QED BY <2>4, <3>1, <3>2 DEF L!Beside, Lasting
  <2>7. rotators[i].cap > 0
    <3>1. 0 \notin caps BY DEF caps
    <3> QED BY <2>1, <2>5, <3>1
  <2>8. Room(c, rotators[i]) BY <1>2, <2>4, <2>6, <2>7 DEF CapInv, Fits
  <2>9. L!Size(c) + L!Size(L!Front(b)) <= rotators[i].cap BY <2>1, <2>8 DEF Room
  <2>10. L!Front(b) \in Seq(Entry) /\ L!Size(L!Front(c \o b)) = L!Size(c) + L!Size(L!Front(b))
    <3> HIDE DEF b, c
    <3> QED BY <2>1, FrontOfConcat
  <2>11. rotators[i].cap <= L!Max(caps) /\ L!Max(caps) \in Nat BY <2>5, GreatestNatural
  <2>12. L!Size(c) \in Nat /\ L!Size(L!Front(b)) \in Nat
    <3> HIDE DEF b, c
    <3> QED BY <2>1, <2>10, BytesFinite
  <2>13. L!Size(L!Front(disk'[f])) <= L!Max(caps) BY <2>1, <2>9, <2>10, <2>11, <2>12
  <2> QED BY <2>13 DEF caps
<1> QED BY <1>1, <1>2 DEF Grows

\* What the rest of CapInv needs of a step at which the rotator i acts.
LEMMA CapLasts ==
    ASSUME LogInv, LogInv', OrderInv, CapInv, Lasting, NEW i \in 1 .. Len(rotators), Grows(i),
           written' <= Len(EntrySize), rotators'[i].size \in Nat, Fits(i)',
           \A j \in 1 .. Len(rotators) : rotators'[j].cap = rotators[j].cap,
           \A j \in 1 .. Len(rotators) : j # i => rotators'[j] = rotators[j],
           Len(rotators') = Len(rotators)
    PROVE  CapInv'
<1>1. \A j \in 1 .. Len(rotators') : Fits(j)'
  <2> SUFFICES ASSUME NEW j \in 1 .. Len(rotators), j # i PROVE Fits(j)' OBVIOUS
  <2> QED BY FitsOthers
<1>2. \A j \in 1 .. Len(rotators') : rotators'[j].size \in Nat BY DEF CapInv
<1>3. L!WithinCap' BY WithinCapLasts
<1> QED BY <1>1, <1>2, <1>3 DEF CapInv

\* A rotator keeps its run and its cap.
Same(new, r) == new.boot = r.boot /\ new.cap = r.cap

\* The rotator i is emptied, and may be closed or lose its file.
LEMMA CapEmptied ==
    ASSUME LogInv, LogInv', OrderInv, CapInv, NEW i \in 1 .. Len(rotators),
           NEW r, Puts(rotators', rotators, i, r), Same(r, rotators[i]), r.buffer = <<>>, r.size \in Nat,
           r.closed \/ (r.file = rotators[i].file /\ r.size = rotators[i].size /\ ~rotators[i].closed)
             \/ r.file = <<0, 0>>,
           disk' = disk \/ disk' = L!Flushed(rotators[i]),
           r.file = rotators[i].file => disk' = L!Flushed(rotators[i]),
           UNCHANGED <<written, owner>>
    PROVE  CapInv'
<1>1. /\ Len(rotators') = Len(rotators) /\ rotators'[i] = r /\ Len(rotators) \in Nat
      /\ \A j \in 1 .. Len(rotators) : j # i => rotators'[j] = rotators[j]
  BY ExceptAny DEF LogInv, RotatorsOn
<1>2. \A j \in 1 .. Len(rotators) : rotators'[j].boot = rotators[j].boot /\ rotators'[j].cap = rotators[j].cap
  BY <1>1 DEF Same
<1>3. Lasting BY <1>1, <1>2, NoneAccepted
<1>4. /\ DOMAIN disk' = DOMAIN disk /\ Grows(i)
  BY FlushGrows DEF Grows
<1>5. Fits(i)'
  <2> SUFFICES ASSUME ~r.closed, r.cap > 0 PROVE Fits(i)' BY <1>1 DEF Fits
  <2>1. r.cap \in Nat /\ rotators[i].size \in Nat /\ rotators[i].buffer \in Seq(Entry)
    BY <1>1, <1>2, Known
  <2>2. Room(<<>>, r)
    <3> QED BY SizeOfEmpty DEF Room
  <2>3. ASSUME NEW f \in DOMAIN disk', f = r.file, Clean(disk[f], i)' PROVE Room(disk'[f], r)
    <3>1. f \in DOMAIN disk /\ f # <<0, 0>> BY <1>4 DEF LogInv, FilesOn
    <3>2. r.file = rotators[i].file /\ r.size = rotators[i].size /\ ~rotators[i].closed
          /\ disk' = L!Flushed(rotators[i])
      BY <2>3, <3>1
    <3>3. disk[f] \in Seq(Entry) /\ L!Range(disk[f]) \subseteq 1 .. written BY <3>1, Known
    <3>4. disk'[f] = disk[f] \o rotators[i].buffer
      BY <2>3, <3>1, <3>2 DEF L!Flushed, L!Files, LogInv, FilesOn
    <3>5. L!Size(disk'[f]) = L!Size(disk[f]) + L!Size(rotators[i].buffer)
      <4> DEFINE c == disk[f]
                 b == rotators[i].buffer
      <4>1. c \in Seq(Entry) /\ b \in Seq(Entry) BY <2>1, <3>3
      <4> HIDE DEF c, b
      <4>2. L!Size(c \o b) = L!Size(c) + L!Size(b) BY <4>1, SizeOfConcat
      <4> QED BY <3>4, <4>2 DEF c, b
    <3>6. Clean(disk[f], i)
      <4> DEFINE c == disk[f]
                 b == rotators[i].buffer
      <4>1. c \in Seq(Nat) /\ b \in Seq(Nat) BY <3>1 DEF LogInv, FilesOn, RotatorsOn, IsRotator
      <4> HIDE DEF c, b
      <4>2. L!Range(c \o b) = L!Range(c) \cup L!Range(b) BY <4>1, RangeFacts
      <4>3. L!Range(disk[f]) \subseteq L!Range(disk'[f]) BY <3>4, <4>2 DEF c, b
      <4> QED BY <1>3, <2>3, <3>1, <4>3, CleanBefore
    <3>7. Room(disk[f], rotators[i])
      <4>1. rotators[i].cap > 0 BY <1>1, <1>2
      <4> QED BY <2>3, <3>1, <3>2, <3>6, <4>1 DEF CapInv, Fits
    <3>8. L!Size(disk'[f]) \in Nat
      <4>1. L!Size(disk[f]) \in Nat /\ L!Size(rotators[i].buffer) \in Nat BY <2>1, <3>3, BytesFinite
      <4> QED BY <3>5, <4>1
    <3> QED BY <3>2, <3>5, <3>7, <3>8, SizeOfEmpty DEF Room
  <2> QED BY <1>1, <2>2, <2>3 DEF Fits, Clean, Room
<1>6. written' <= Len(EntrySize) /\ rotators'[i].size \in Nat BY <1>1 DEF CapInv
<1> QED BY <1>1, <1>2, <1>3, <1>4, <1>5, <1>6, CapLasts

\* A rotator is added, and those before it may be closed: a closed one takes nothing, a new one has no file.
LEMMA CapOneMore ==
    ASSUME LogInv, LogInv', OrderInv, CapInv, UNCHANGED <<disk, written, owner>>,
           Len(rotators') = Len(rotators) + 1, NEW cap, NEW boot,
           rotators'[Len(rotators) + 1] = [L!New(cap) EXCEPT !.boot = boot],
           \A j \in 1 .. Len(rotators) :
              /\ rotators'[j].boot = rotators[j].boot /\ rotators'[j].cap = rotators[j].cap
              /\ \/ rotators'[j].closed /\ rotators'[j].size = rotators[j].size
                 \/ rotators'[j] = rotators[j]
    PROVE  CapInv'
<1> DEFINE new == [L!New(cap) EXCEPT !.boot = boot]
<1>0. PICK last : last = Len(rotators) + 1 OBVIOUS
<1>1. /\ Len(rotators) \in Nat \ {0} /\ Len(rotators') = last
      /\ \A j \in 1 .. Len(rotators') : j \in 1 .. Len(rotators) \/ j = last
  BY <1>0 DEF LogInv, RotatorsOn
<1>2. rotators'[last] = new /\ new.file = <<0, 0>> /\ new.size = 0 /\ new.buffer = <<>>
  BY <1>0 DEF L!New, L!NoFile
<1> HIDE DEF new
<1>3. Lasting
  <2>1. Len(rotators') \in Nat /\ Len(rotators) <= Len(rotators') BY <1>0, <1>1
  <2> QED BY <2>1, NoneAccepted
<1>4. L!WithinCap'
  <2>1. 1 \in 1 .. Len(rotators) /\ Grows(1) BY <1>1, FlushGrows DEF Grows
  <2>2. written' <= Len(EntrySize) BY DEF CapInv
  <2> QED BY <1>3, <2>1, <2>2, WithinCapLasts
<1>5. Fits(last)' /\ rotators'[last].size \in Nat
  <2>1. <<0, 0>> \notin DOMAIN disk' BY DEF LogInv, FilesOn
  <2>2. new.cap \in Nat
    <3>1. IsRotator(rotators'[last]) BY <1>1 DEF LogInv, RotatorsOn, IsRotator
    <3> QED BY <1>2, <3>1, LogAssumption DEF IsRotator
  <2>3. Room(<<>>, new) BY <1>2, <2>2, SizeOfEmpty DEF Room
  <2> QED BY <1>2, <2>1, <2>3 DEF Fits, Room, Clean
<1>6. ASSUME NEW j \in 1 .. Len(rotators) PROVE Fits(j)' /\ rotators'[j].size \in Nat
  <2>1. CASE rotators'[j].closed /\ rotators'[j].size = rotators[j].size BY <2>1 DEF Fits, CapInv
  <2>2. CASE rotators'[j] = rotators[j]
    <3>1. Fits(j) /\ rotators[j].size \in Nat BY DEF CapInv
    <3>2. \A f \in DOMAIN disk : Clean(disk[f], j)' => Clean(disk[f], j) BY <1>3, CleanBefore
    <3> QED BY <2>2, <3>1, <3>2 DEF Fits, Room, Clean, L!Range
  <2> QED BY <2>1, <2>2
<1>7. \A j \in 1 .. Len(rotators') : Fits(j)' /\ rotators'[j].size \in Nat BY <1>1, <1>5, <1>6
<1> QED BY <1>4, <1>7 DEF CapInv

LEMMA CapFlush ==
    ASSUME LogInv, LogInv', OrderInv, CapInv, NEW i \in 1 .. L!Current, L!FlushBuffer(i) PROVE CapInv'
<1> DEFINE q == rotators[i]
           r == [q EXCEPT !.buffer = <<>>]
<1>1. i \in 1 .. Len(rotators) BY DEF L!Current
<1>2. IsRotator(q) BY <1>1 DEF LogInv, RotatorsOn
<1>3. /\ Puts(rotators', rotators, i, r) /\ disk' = L!Flushed(rotators[i]) /\ q.buffer # <<>>
      /\ UNCHANGED <<written, owner>>
  BY DEF L!FlushBuffer, Puts
<1>4. /\ r.boot = q.boot /\ r.cap = q.cap /\ r.buffer = <<>> /\ r.size = q.size /\ r.file = q.file
      /\ r.closed = q.closed
  BY <1>2 DEF IsRotator
<1>5. ~q.closed
  <2>1. q.buffer \in Seq(Nat) BY <1>2 DEF IsRotator
  <2>2. Held(rotators[i]) # {} BY <1>3, <2>1, SomeEntry DEF Held
  <2> QED BY <1>1, <2>2 DEF OrderInv, Boots
<1>6. q.size \in Nat BY <1>1, Known
<1> HIDE DEF r
<1> QED BY <1>1, <1>3, <1>4, <1>5, <1>6, CapEmptied DEF Same

LEMMA CapClose == ASSUME LogInv, LogInv', OrderInv, CapInv, L!CloseOld PROVE CapInv'
<1> DEFINE i == Len(rotators) - 1
           q == rotators[i]
           r == [q EXCEPT !.buffer = <<>>, !.closed = TRUE]
<1>1. i \in 1 .. Len(rotators) BY DEF L!CloseOld, LogInv, LogTypes, RotatorsOn
<1>2. IsRotator(q) BY <1>1 DEF LogInv, RotatorsOn
<1>3. /\ Puts(rotators', rotators, i, r) /\ disk' = L!Flushed(rotators[i]) /\ UNCHANGED <<written, owner>>
  BY DEF L!CloseOld, L!Current, Puts
<1>4. r.boot = q.boot /\ r.cap = q.cap /\ r.buffer = <<>> /\ r.size = q.size /\ r.closed
  BY <1>2 DEF IsRotator
<1>5. q.size \in Nat BY <1>1, Known
<1> HIDE DEF r, i
<1> QED BY <1>1, <1>3, <1>4, <1>5, CapEmptied DEF Same

LEMMA CapFails ==
    ASSUME LogInv, LogInv', OrderInv, CapInv, NEW g \in Loggers, L!RotateFails(g) PROVE CapInv'
<1>0. PICK i \in 1 .. Len(rotators) : i = loaded[g] BY DEF L!RotateFails, LogInv, LogTypes, RotatorsOn
<1> DEFINE q == rotators[i]
           r == [q EXCEPT !.file = <<0, 0>>, !.size = 0, !.buffer = <<>>]
<1>1. IsRotator(q) BY DEF LogInv, RotatorsOn
<1>2. /\ Puts(rotators', rotators, i, r)
      /\ disk' = disk \/ disk' = L!Flushed(rotators[i])
      /\ UNCHANGED <<written, owner>>
  BY <1>0 DEF L!RotateFails, L!NoFile, Puts
<1>3. r.boot = q.boot /\ r.cap = q.cap /\ r.buffer = <<>> /\ r.size = 0 /\ r.file = <<0, 0>>
  BY <1>1 DEF IsRotator
<1>4. r.file = q.file => disk' = L!Flushed(rotators[i])
  <2>1. <<0, 0>> \notin DOMAIN disk BY DEF LogInv, FilesOn
  <2> QED BY <1>2, <1>3, <2>1 DEF L!Flushed, L!Files
<1> HIDE DEF r
<1> QED BY <1>0, <1>2, <1>3, <1>4, CapEmptied DEF Same

LEMMA CapSetCores ==
    ASSUME LogInv, LogInv', OrderInv, CapInv, NEW cap \in Caps, L!SetCores(cap) PROVE CapInv'
<1> DEFINE boot == rotators[Len(rotators)].boot
           r == [L!New(cap) EXCEPT !.boot = boot]
<1>1. UNCHANGED <<disk, written, owner>> /\ rotators' = Append(rotators, r)
  BY DEF L!SetCores, L!Current
<1>2. IsSequence(rotators) BY DEF LogInv, RotatorsOn
<1>3. /\ Len(rotators') = Len(rotators) + 1 /\ rotators'[Len(rotators) + 1] = r
      /\ \A j \in 1 .. Len(rotators) : rotators'[j] = rotators[j]
  <2> HIDE DEF r
  <2> QED BY <1>1, <1>2, AppendAny
<1> HIDE DEF boot
<1> QED BY <1>1, <1>3, CapOneMore

LEMMA CapRestart ==
    ASSUME LogInv, LogInv', OrderInv, CapInv, NEW cap \in Caps, L!Restart(cap) PROVE CapInv'
<1> DEFINE boot == rotators[Len(rotators)].boot + 1
           r == [L!New(cap) EXCEPT !.boot = boot]
           rs == [j \in 1 .. Len(rotators) |-> [rotators[j] EXCEPT !.buffer = <<>>, !.closed = TRUE]]
<1>1. UNCHANGED <<disk, written, owner>> /\ rotators' = Append(rs, r)
  BY DEF L!Restart, L!Current
<1>2. IsSequence(rs) /\ Len(rs) = Len(rotators) BY AllShut DEF RotatorsOn
<1>3. ASSUME NEW j \in 1 .. Len(rotators)
      PROVE  rs[j].boot = rotators[j].boot /\ rs[j].cap = rotators[j].cap /\ rs[j].closed
             /\ rs[j].size = rotators[j].size
  <2>1. IsRotator(rotators[j]) BY DEF LogInv, RotatorsOn
  <2> QED BY <2>1 DEF IsRotator
<1>4. /\ Len(rotators') = Len(rotators) + 1 /\ rotators'[Len(rotators) + 1] = r
      /\ \A j \in 1 .. Len(rotators) : rotators'[j] = rs[j]
  <2> HIDE DEF r, rs
  <2> QED BY <1>1, <1>2, AppendAny
<1> HIDE DEF boot, rs
<1> QED BY <1>1, <1>3, <1>4, CapOneMore

\* What is done to no rotator and no file.
LEMMA CapOthers ==
    ASSUME LogInv, LogInv', OrderInv, CapInv, Lasting, UNCHANGED <<disk, rotators>>,
           written' <= Len(EntrySize)
    PROVE  CapInv'
<1>1. ASSUME NEW j \in 1 .. Len(rotators) PROVE Fits(j)'
  <2>1. Fits(j) BY DEF CapInv
  <2>2. \A f \in DOMAIN disk : Clean(disk[f], j)' => Clean(disk[f], j) BY CleanBefore
  <2> QED BY <2>1, <2>2 DEF Fits, Room, Clean, L!Range
<1>2. L!WithinCap'
  <2>1. 1 \in 1 .. Len(rotators) /\ Grows(1) BY DEF Grows, LogInv, RotatorsOn
  <2> QED BY <2>1, WithinCapLasts
<1> QED BY <1>1, <1>2 DEF CapInv

LEMMA CapLate ==
    ASSUME LogInv, LogInv', OrderInv, CapInv, NEW g \in Loggers, L!WriteLate(g) PROVE CapInv'
<1>1. /\ UNCHANGED <<disk, rotators>> /\ L!Accept(g) /\ loaded[g] # 0 /\ written < Len(EntrySize)
  BY DEF L!WriteLate
<1>2. written \in Nat /\ Len(EntrySize) \in Nat BY LogAssumption DEF LogInv, LogTypes
<1>3. written' <= Len(EntrySize) BY <1>1, <1>2 DEF L!Accept
<1>4. TopBoot' = TopBoot BY <1>1 DEF TopBoot
<1>5. Lasting BY <1>1, <1>4, OneAccepted
<1> QED BY <1>1, <1>3, <1>5, CapOthers

\* A rotator takes an entry only if it has room for it, or nothing in its file.
LEMMA CapWrite ==
    ASSUME LogInv, LogInv', OrderInv, CapInv, NEW g \in Loggers, L!WriteOn(g) PROVE CapInv'
<1>0. PICK i \in 1 .. Len(rotators) : i = loaded[g] BY DEF L!WriteOn, LogInv, LogTypes, RotatorsOn
<1> DEFINE q == rotators[i]
           e == written + 1
           r == [q EXCEPT !.size = @ + EntrySize[e], !.buffer = Append(@, e)]
<1>1. /\ UNCHANGED disk /\ L!Accept(g) /\ loaded[g] # 0 /\ written < Len(EntrySize)
      /\ Puts(rotators', rotators, i, r) /\ ~q.closed
      /\ ~(q.cap > 0 /\ q.size > 0 /\ q.size + EntrySize[e] > q.cap)
  BY <1>0 DEF L!WriteOn, L!Buffer, L!ShouldRotate, Puts
<1>2. IsRotator(q) /\ q.buffer \in Seq(Entry) /\ q.cap \in Nat /\ q.size \in Nat BY Known DEF LogInv, RotatorsOn
<1>3. /\ e \in Entry /\ EntrySize[e] \in Nat /\ written' = e /\ e <= Len(EntrySize)
  BY <1>1, LogAssumption DEF Entry, LogInv, LogTypes, L!Accept
<1>4. /\ r.file = q.file /\ r.closed = q.closed /\ r.boot = q.boot /\ r.cap = q.cap
      /\ r.size = q.size + EntrySize[e] /\ r.buffer = Append(q.buffer, e)
  BY <1>2 DEF IsRotator
<1> HIDE DEF r
<1>5. /\ Len(rotators') = Len(rotators) /\ rotators'[i] = r
      /\ \A j \in 1 .. Len(rotators) : j # i => rotators'[j] = rotators[j]
  BY <1>1, ExceptAny DEF LogInv, RotatorsOn
<1>6. \A j \in 1 .. Len(rotators) : rotators'[j].boot = rotators[j].boot /\ rotators'[j].cap = rotators[j].cap
  BY <1>4, <1>5
<1>7. Lasting
  <2>1. TopBoot' = TopBoot BY <1>5, <1>6 DEF TopBoot, LogInv, RotatorsOn
  <2> QED BY <1>1, <1>5, <1>6, <2>1, OneAccepted
<1> HIDE DEF e
<1>8. /\ r.buffer # <<>> /\ L!Front(r.buffer) = q.buffer
      /\ L!Size(r.buffer) = L!Size(q.buffer) + EntrySize[e] /\ L!Size(q.buffer) \in Nat
  BY <1>2, <1>3, <1>4, SizeOfAppend, BytesFinite
<1>9. ASSUME q.cap > 0, NEW c \in Seq(Entry), Room(c, q) PROVE Room(c, r)
  <2>1. L!Size(c) \in Nat /\ L!Size(c) + L!Size(q.buffer) <= q.size BY <1>9, BytesFinite DEF Room
  <2>2. CASE q.size = 0
    <3>1. L!Size(c) + L!Size(q.buffer) <= 0 BY <2>1, <2>2
    <3> QED BY <1>2, <1>3, <1>4, <1>8, <1>9, <2>1, <2>2, <3>1 DEF Room
  <2>3. CASE q.size > 0
    <3>1. q.size + EntrySize[e] <= q.cap BY <1>1, <1>2, <1>3, <1>9, <2>3
    <3> QED BY <1>2, <1>3, <1>4, <1>8, <2>1, <3>1 DEF Room
  <2> QED BY <1>2, <2>2, <2>3
<1>10. Fits(i)'
  <2> SUFFICES ASSUME q.cap > 0 PROVE Fits(i)' BY <1>4, <1>5 DEF Fits
  <2>1. /\ Room(<<>>, q)
        /\ \A f \in DOMAIN disk : f = q.file /\ Clean(disk[f], i) => Room(disk[f], q)
    BY <1>1 DEF CapInv, Fits
  <2>2. Room(<<>>, r) BY <1>9, <2>1, SizeOfEmpty
  <2>3. ASSUME NEW f \in DOMAIN disk, f = q.file, Clean(disk[f], i)' PROVE Room(disk[f], r)
    <3>1. Clean(disk[f], i) BY <1>1, <1>7, <2>3, CleanBefore
    <3> QED BY <1>9, <2>1, <2>3, <3>1, Known
  <2> QED BY <1>1, <1>4, <1>5, <2>2, <2>3 DEF Fits, Room, Clean, L!Range
<1>11. Grows(i) BY <1>1 DEF Grows
<1>12. r.size \in Nat BY <1>2, <1>3, <1>4
<1> QED BY <1>3, <1>5, <1>6, <1>7, <1>10, <1>11, <1>12, CapLasts

\* The file that a rotator goes over to is new, or below its cap.
LEMMA PathHasRoom ==
    ASSUME LogInv, NEW d, FilesOn(d, day), NEW r, r.cap \in Nat, r.cap > 0, L!NewPath(r, d) \in DOMAIN d,
           d \in [DOMAIN d -> Seq(Entry)]
    PROVE  L!Size(d[L!NewPath(r, d)]) <= r.cap
<1> DEFINE T == L!SequencesOf(day, DOMAIN d)
<1>1. T \subseteq Nat /\ IsFiniteSet(T) BY SequencesKnown
<1>2. \A n \in Nat : <<day, n>> \in DOMAIN d => n \in T BY DEF L!SequencesOf
<1> HIDE DEF T
<1>3. L!NextSequence(DOMAIN d) \notin DOMAIN d
  <2>1. IsFiniteSet({0} \cup T) /\ {0} \cup T \subseteq Nat /\ {0} \cup T # {}
    <3>1. IsFiniteSet({0}) BY FS_Singleton, Zenon
    <3>2. IsFiniteSet({0} \cup T) BY <1>1, <3>1, FS_Union
    <3> QED BY <1>1, <3>2
  <2>2. L!Max({0} \cup T) \in Nat /\ \A k \in {0} \cup T : k <= L!Max({0} \cup T) BY <2>1, GreatestNatural
  <2>3. L!NextSequence(DOMAIN d) = <<day, L!Max({0} \cup T) + 1>> BY DEF L!NextSequence, T
  <2> DEFINE m == L!Max({0} \cup T)
  <2>4. m \in Nat /\ \A k \in T : k <= m BY <2>2
  <2> HIDE DEF m
  <2>5. m + 1 \in Nat /\ m + 1 \notin T BY <2>4
  <2> QED BY <1>2, <2>3, <2>5 DEF m
<1>4. CASE L!NewPath(r, d) = L!ResolveActive(r, d)
  <2>1. T # {}
    <3>1. T = {} => L!ResolveActive(r, d) = <<day, 0>> BY DEF L!ResolveActive, T
    <3> QED BY <1>2, <1>4, <3>1
  <2>2. L!Max(T) \in T /\ L!Max(T) \in Nat /\ \A k \in T : k <= L!Max(T) BY <1>1, <2>1, GreatestNatural
  <2> DEFINE newest == <<day, L!Max(T)>>
  <2>3. L!ResolveActive(r, d) = IF r.cap > 0 /\ L!Size(d[newest]) >= r.cap THEN <<day, L!Max(T) + 1>> ELSE newest
    BY <2>1 DEF L!ResolveActive, T
  <2>4. <<day, L!Max(T) + 1>> \notin DOMAIN d BY <1>2, <2>2
  <2> HIDE DEF newest
  <2>5. L!ResolveActive(r, d) = newest /\ ~(L!Size(d[newest]) >= r.cap) BY <1>4, <2>3, <2>4
  <2>6. L!Size(d[newest]) \in Nat BY <1>4, <2>5, BytesFinite
  <2> QED BY <1>4, <2>5, <2>6
<1>5. CASE L!NewPath(r, d) = L!NextSequence(DOMAIN d) BY <1>3, <1>5
<1> QED BY <1>4, <1>5 DEF L!NewPath

LEMMA CapRotates ==
    ASSUME LogInv, LogInv', OrderInv, CapInv, NEW g \in Loggers, L!WriteRotates(g) PROVE CapInv'
<1>0. PICK i \in 1 .. Len(rotators) : i = loaded[g] BY DEF L!WriteRotates, LogInv, LogTypes, RotatorsOn
<1> DEFINE q == rotators[i]
           e == written + 1
           old == L!Flushed(q)
           file == L!NewPath(q, old)
           files == DOMAIN disk \cup {file}
           kept == files \ L!Excess(files, file)
           content(f) == IF f \in DOMAIN disk THEN old[f] ELSE <<>>
           open == [q EXCEPT !.file = file, !.date = day, !.size = L!Size(content(file)), !.buffer = <<>>]
           r == [open EXCEPT !.size = @ + EntrySize[e], !.buffer = Append(@, e)]
<1>1. /\ L!Accept(g) /\ loaded[g] # 0 /\ written < Len(EntrySize)
      /\ Puts(rotators', rotators, i, r) /\ ~q.closed /\ disk' = [f \in kept |-> content(f)]
  BY <1>0 DEF L!WriteRotates, L!Buffer, L!Files, Puts
<1>2. IsRotator(q) /\ q.buffer \in Seq(Entry) /\ q.cap \in Nat BY Known DEF LogInv, RotatorsOn
<1>3. /\ e \in Entry /\ EntrySize[e] \in Nat /\ written' = e /\ e <= Len(EntrySize)
  BY <1>1, LogAssumption DEF Entry, LogInv, LogTypes, L!Accept
<1>4. /\ FilesOn(old, day) /\ DOMAIN old = DOMAIN disk
      /\ \A f \in DOMAIN disk :
           \/ old[f] = disk[f]
           \/ f = q.file /\ q.buffer # <<>> /\ Joins(old[f], disk[f], q.buffer)
  BY Flushing, FlushGrows
<1> HIDE DEF old, file
<1>5. old \in [DOMAIN old -> Seq(Entry)]
  <2>1. \A f \in DOMAIN disk : old[f] \in Seq(Entry)
    <3> SUFFICES ASSUME NEW f \in DOMAIN disk PROVE old[f] \in Seq(Entry) OBVIOUS
    <3>1. disk[f] \in Seq(Entry) BY Known
    <3>2. disk[f] \o q.buffer \in Seq(Entry)
      <4> DEFINE c == disk[f]
                 b == q.buffer
      <4>1. c \in Seq(Entry) /\ b \in Seq(Entry) BY <1>2, <3>1
      <4> HIDE DEF b, c
      <4>2. c \o b \in Seq(Entry) BY <4>1, SizeOfConcat
      <4> QED BY <4>2 DEF b, c
    <3> QED BY <1>4, <3>1, <3>2 DEF Joins
  <2>2. old \in [DOMAIN old -> Seq(Nat)] BY <1>4 DEF FilesOn
  <2> QED BY <1>4, <2>1, <2>2
<1>6. content(file) \in Seq(Entry) /\ L!Size(content(file)) \in Nat
      /\ (q.cap > 0 => L!Size(content(file)) <= q.cap)
  <2>1. CASE file \in DOMAIN disk
    <3>1. content(file) = old[file] /\ file \in DOMAIN old BY <1>4, <2>1
    <3>2. q.cap > 0 => L!Size(old[file]) <= q.cap BY <1>2, <1>4, <1>5, <3>1, PathHasRoom DEF file
    <3>3. old[file] \in Seq(Entry) BY <1>5, <3>1
    <3> QED BY <3>1, <3>2, <3>3, BytesFinite
  <2>2. CASE file \notin DOMAIN disk
    <3>1. content(file) = <<>> BY <2>2
    <3> HIDE DEF content
    <3>2. content(file) \in Seq(Entry) /\ L!Size(content(file)) = 0 BY <3>1, SizeOfEmpty
    <3> QED BY <1>2, <3>2
  <2> QED BY <2>1, <2>2
<1>7. /\ r.file = file /\ r.closed = q.closed /\ r.boot = q.boot /\ r.cap = q.cap
      /\ r.size = L!Size(content(file)) + EntrySize[e] /\ r.buffer = <<e>>
  <2> DEFINE n == L!Size(content(file))
  <2>1. /\ open.file = file /\ open.closed = q.closed /\ open.boot = q.boot /\ open.cap = q.cap
        /\ open.size = n /\ open.buffer = <<>>
        /\ open = [file |-> open.file, date |-> open.date, size |-> open.size, buffer |-> open.buffer,
                   closed |-> open.closed, cap |-> open.cap, boot |-> open.boot]
    <3> HIDE DEF n
    <3>1. open = [q EXCEPT !.file = file, !.date = day, !.size = n, !.buffer = <<>>] BY DEF n
    <3> HIDE DEF open, q
    <3> QED BY <1>2, <3>1 DEF IsRotator
  <2>2. r = [open EXCEPT !.size = @ + EntrySize[e], !.buffer = Append(@, e)] OBVIOUS
  <2> HIDE DEF n, open, r, q
  <2>3. /\ r.file = open.file /\ r.closed = open.closed /\ r.boot = open.boot /\ r.cap = open.cap
        /\ r.size = open.size + EntrySize[e] /\ r.buffer = Append(open.buffer, e)
    BY <2>1, <2>2
  <2>4. Append(<<>>, e) = <<e>> OBVIOUS
  <2> QED BY <2>1, <2>3, <2>4 DEF n
<1> HIDE DEF r, open
<1>8. /\ Len(rotators') = Len(rotators) /\ rotators'[i] = r
      /\ \A j \in 1 .. Len(rotators) : j # i => rotators'[j] = rotators[j]
  BY <1>1, ExceptAny DEF LogInv, RotatorsOn
<1>9. \A j \in 1 .. Len(rotators) : rotators'[j].boot = rotators[j].boot /\ rotators'[j].cap = rotators[j].cap
  BY <1>7, <1>8
<1>10. Lasting
  <2>1. TopBoot' = TopBoot BY <1>8, <1>9 DEF TopBoot, LogInv, RotatorsOn
  <2> QED BY <1>1, <1>8, <1>9, <2>1, OneAccepted
<1> HIDE DEF e, content
<1>11. /\ r.buffer # <<>> /\ L!Front(r.buffer) = <<>> /\ L!Size(r.buffer) = EntrySize[e]
  <2>1. Append(<<>>, e) = <<e>> OBVIOUS
  <2>2. <<e>> # <<>> /\ L!Front(<<e>>) = <<>> BY <1>3, <2>1, SizeOfEmpty, SizeOfAppend
  <2>3. L!Size(<<e>>) = EntrySize[e] BY <1>3, SizeOfOne
  <2> QED BY <1>7, <2>2, <2>3
<1>12. Fits(i)'
  <2> SUFFICES ASSUME q.cap > 0 PROVE Fits(i)' BY <1>7, <1>8 DEF Fits
  <2>1. Room(<<>>, r) BY <1>2, <1>3, <1>6, <1>7, <1>11, SizeOfEmpty DEF Room
  <2>2. Room(content(file), r) BY <1>2, <1>3, <1>6, <1>7, <1>11, SizeOfEmpty DEF Room
  <2>3. \A f \in DOMAIN disk' : f = file => disk'[f] = content(file) BY <1>1
  <2> QED BY <1>7, <1>8, <2>1, <2>2, <2>3 DEF Fits, Room, Clean
<1>13. Grows(i)
  <2>1. \A f \in DOMAIN disk' : disk'[f] = content(f) BY <1>1
  <2> QED BY <1>4, <2>1 DEF Grows, content
<1>14. r.size \in Nat BY <1>3, <1>6, <1>7
<1> QED BY <1>3, <1>8, <1>9, <1>10, <1>12, <1>13, <1>14, CapLasts

LEMMA CapInit == L!Init => CapInv
<1> SUFFICES ASSUME L!Init PROVE CapInv OBVIOUS
<1>1. PICK cap \in Caps : rotators = <<L!New(cap)>> BY DEF L!Init
<1>2. /\ Len(rotators) = 1 /\ rotators[1].buffer = <<>> /\ rotators[1].size = 0 /\ rotators[1].cap \in Nat
  BY <1>1, LogAssumption DEF L!New
<1>3. written = 0 /\ DOMAIN disk = {} /\ Len(EntrySize) \in Nat BY LogAssumption DEF L!Init
<1>4. Room(<<>>, rotators[1]) BY <1>2, SizeOfEmpty DEF Room
<1>5. Fits(1) BY <1>3, <1>4 DEF Fits
<1>6. L!WithinCap BY <1>3 DEF L!WithinCap, L!Files
<1>7. \A j \in 1 .. Len(rotators) : j = 1 BY <1>2
<1> QED BY <1>2, <1>3, <1>5, <1>6, <1>7 DEF CapInv

LEMMA CapNext == LogInv /\ OrderInv /\ CapInv /\ [L!Next]_logVars => CapInv'
<1> SUFFICES ASSUME LogInv, OrderInv, CapInv, [L!Next]_logVars PROVE CapInv' OBVIOUS
<1>0. LogInv' BY LogNext
<1>1. CASE \E g \in Loggers : L!WriteLate(g) \/ L!WriteOn(g) \/ L!WriteRotates(g) \/ L!RotateFails(g)
  BY <1>0, <1>1, CapLate, CapWrite, CapRotates, CapFails
<1>2. CASE \E i \in 1 .. L!Current : L!FlushBuffer(i) BY <1>0, <1>2, CapFlush
<1>3. CASE \E cap \in Caps : L!SetCores(cap) \/ L!Restart(cap) BY <1>0, <1>3, CapSetCores, CapRestart
<1>4. CASE L!CloseOld BY <1>0, <1>4, CapClose
<1>5. CASE L!Midnight \/ (\E g \in Loggers : L!LoadCores(g)) \/ UNCHANGED logVars
  <2>1. UNCHANGED <<disk, rotators, written, owner>>
    BY <1>5 DEF L!Midnight, L!LoadCores, logVars
  <2>2. Lasting
    <3>1. Len(rotators') \in Nat /\ Len(rotators) <= Len(rotators') BY <2>1 DEF LogInv, RotatorsOn
    <3> QED BY <2>1, <3>1, NoneAccepted
  <2>3. written' <= Len(EntrySize) BY <2>1 DEF CapInv
  <2> QED BY <1>0, <2>1, <2>2, <2>3, CapOthers
<1> QED BY <1>1, <1>2, <1>3, <1>4, <1>5 DEF L!Next

----------------------------------------------------------------------------
(***************************************************************************)
(* The flow of the nodes (CrawlerFlow): what is in the channels.           *)
(***************************************************************************)
LEMMA FlowInit == F!Init => F!TypeOK
<1>1. 0 \in 0 .. InCap /\ 0 \in 0 .. MaxBatch - 1 /\ 0 \in 0 .. MaxBatch /\ 0 \in 0 .. WorkCap /\ 0 \in 0 .. MaxFound
  BY FlowAssumption
<1> QED BY <1>1 DEF F!Init, F!TypeOK

\* A batch is sent as soon as it is full, and a channel takes no more than it holds.
LEMMA FlowNext == F!TypeOK /\ [F!Next]_flowVars => F!TypeOK'
<1> SUFFICES ASSUME F!TypeOK, [F!Next]_flowVars PROVE F!TypeOK' OBVIOUS
<1> USE FlowAssumption DEF F!TypeOK
<1>1. CASE F!TakeInput
  <2>1. buffer + 1 \in 1 .. MaxBatch /\ input - 1 \in 0 .. InCap BY <1>1 DEF F!TakeInput
  <2>2. CASE buffer + 1 >= MaxBatch BY <1>1, <2>1, <2>2 DEF F!TakeInput, F!BatchFull
  <2>3. CASE ~(buffer + 1 >= MaxBatch)
    <3>1. buffer + 1 \in 0 .. MaxBatch - 1 BY <2>1, <2>3
    <3> QED BY <1>1, <2>1, <2>3, <3>1 DEF F!TakeInput, F!BatchFull
  <2> QED BY <2>2, <2>3
<1>2. CASE F!Tick \/ F!SendBatch BY <1>2 DEF F!Tick, F!SendBatch
<1>3. CASE F!Routing
  <2>1. ASSUME NEW n \in 0 .. MaxBatch, F!TakeBatch(n) PROVE F!TypeOK' BY <2>1 DEF F!TakeBatch
  <2>2. ASSUME NEW w \in MCWorkers, F!Forward(w) PROVE F!TypeOK'
    <3>1. forward - 1 \in 0 .. MaxBatch /\ waiting[w] + 1 \in 0 .. WorkCap BY <2>2 DEF F!Forward
    <3> QED BY <2>2, <3>1 DEF F!Forward
  <2> QED BY <1>3, <2>1, <2>2 DEF F!Routing
<1>4. CASE F!RouterEnds \/ F!Respond \/ F!Cancel
  <2>1. CASE F!RouterEnds
    <3>1. 0 \in 0 .. MaxBatch OBVIOUS
    <3>2. /\ router' \in BOOLEAN /\ forward' = 0
          /\ UNCHANGED <<cancelled, input, buffer, flushed, output, waiting, busy, handOver, senders>>
      BY <2>1, Zenon DEF F!RouterEnds
    <3> QED BY <3>1, <3>2
  <2>3. CASE F!Cancel
    <3>1. /\ cancelled' \in BOOLEAN
          /\ UNCHANGED <<input, buffer, flushed, output, forward, router, waiting, busy, handOver, senders>>
      BY <2>3, Zenon DEF F!Cancel
    <3> QED BY <3>1
  <2>2. CASE F!Respond
    <3>1. input + 1 \in 0 .. InCap BY <2>2 DEF F!Respond, F!PutInput
    <3> QED BY <2>2, <3>1 DEF F!Respond, F!PutInput
  <2> QED BY <1>4, <2>1, <2>2, <2>3
<1>5. ASSUME NEW w \in MCWorkers, F!Feed(w) \/ F!Take(w) \/ F!RunEnds(w) PROVE F!TypeOK'
  <2>1. CASE F!Feed(w)
    <3>1. waiting[w] + 1 \in 0 .. WorkCap BY <2>1 DEF F!Feed
    <3> QED BY <2>1, <3>1 DEF F!Feed
  <2>2. CASE F!Take(w)
    <3>1. waiting[w] - 1 \in 0 .. WorkCap BY <2>2 DEF F!Take
    <3> QED BY <2>2, <3>1 DEF F!Take
  <2>3. CASE F!RunEnds(w) BY <2>3 DEF F!RunEnds
  <2> QED BY <1>5, <2>1, <2>2, <2>3
<1>6. ASSUME NEW w \in MCWorkers, F!Returns(w) PROVE F!TypeOK'
  BY <1>6 DEF F!Returns, F!Finish, F!FindFound, F!SampleFound
<1>7. CASE F!PassOn \/ F!AbandonPass BY <1>7 DEF F!PassOn, F!AbandonPass, F!PutInput
<1>8. ASSUME NEW s \in F!Senders, (\E n \in 1 .. MaxFound : F!Dispatch(s, n)) \/ F!Dispatching(s)
      PROVE  F!TypeOK'
  BY <1>8 DEF F!Dispatch, F!Dispatching, F!DispatchOne, F!DispatchTimeout, F!PutInput
<1>9. CASE UNCHANGED flowVars BY <1>9 DEF flowVars
<1> QED BY <1>1, <1>2, <1>3, <1>4, <1>5, <1>6, <1>7, <1>8, <1>9 DEF F!Next, F!Batching

----------------------------------------------------------------------------
\* The number and the filter of the crawler count an address once a run, agree, and never go back,
\* through goroutines that find the same address, loops that save apart, failures and restarts
\* (src/internal/dhtcrawler/runtime.go:31-38, runtimestore_store.go:136).  An entry of the log is in one
\* file or buffer or gone for one of four reasons, the files hold what there is in the order it was
\* written and the oldest of it goes first, unless two rotators of one run have written, and the files
\* are few, through rotations, replaced rotators, failures and restarts
\* (src/internal/logging/file_rotator.go:52-74,125-177,249).  A file that one rotator of each run has
\* written to outgrows its cap by its last entry at most, as the rotator knows what its file has come
\* to and goes over only to one that is new or below the cap (file_rotator.go:118-122,178-221).  And
\* no batch or channel of the crawler holds more than it can
\* (src/internal/concurrency/batching_channel.go:58, buffered_concurrent_channel.go:25-31).
THEOREM RecordsKept == MCSpec => RecordsContract
<1> DEFINE Inv_ == StatsInv /\ LogInv /\ OrderInv /\ CapInv /\ F!TypeOK
<1>1. MCInit => Inv_
  BY StatsInit, LogInit, OrderInit, CapInit, FlowInit DEF MCInit
<1>2. Inv_ /\ [MCNext]_<<part, vars, flowVars, logVars, statsVars>> => Inv_'
  <2> SUFFICES ASSUME Inv_, [MCNext]_<<part, vars, flowVars, logVars, statsVars>> PROVE Inv_' OBVIOUS
  <2>1. [S!Next]_statsVars /\ [L!Next]_logVars /\ [F!Next]_flowVars BY DEF MCNext
  <2> QED BY <2>1, StatsNext, LogNext, OrderNext, CapNext, FlowNext
<1>3. Inv_ => /\ S!TypeOK /\ S!OncePerRun /\ S!Agree
              /\ L!TypeOK /\ L!EveryEntryAccounted /\ L!InOrder /\ L!OldestGo /\ L!FewFiles
              /\ L!WithinCap /\ F!TypeOK
  BY StatsSafe, LogSafe, OrderSafe DEF CapInv
<1>4. Inv_ /\ [MCNext]_<<part, vars, flowVars, logVars, statsVars>> =>
        [~fresh => savedSeen \subseteq savedSeen' /\ \A p \in Addresses : numbers[p] <= numbers'[p]]_S!vars
  <2> SUFFICES ASSUME Inv_, [MCNext]_<<part, vars, flowVars, logVars, statsVars>>
               PROVE  ~fresh => savedSeen \subseteq savedSeen' /\ \A p \in Addresses : numbers[p] <= numbers'[p]
    OBVIOUS
  <2>1. [S!Next]_statsVars BY DEF MCNext
  <2> QED BY <2>1, StatsForward
<1> HIDE DEF Inv_
<1> QED BY <1>1, <1>2, <1>3, <1>4, PTL DEF MCSpec, RecordsContract, S!NeverBack
=============================================================================
