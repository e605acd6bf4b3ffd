------------------------- MODULE MemoryQueueProofs -------------------------
(***************************************************************************)
(* Proofs about MemoryQueue for every number of groups, every buffer size  *)
(* and every delivery policy.                                              *)
(***************************************************************************)
EXTENDS MemoryQueue, TLAPS

Processing == {"checking", "handling", "backoff"}
Active == {"replaying", "looping"} \cup Processing

Accounted(g) == disposed[g] \cup overflowed[g] \cup abandoned[g]

Increasing(s) == \A i, j \in 1 .. Len(s) : i < j => s[i] < s[j]
Below(s, m) == \A i \in 1 .. Len(s) : s[i] < m
Above(s, m) == \A i \in 1 .. Len(s) : m < s[i]
Contains(s, m) == \E i \in 1 .. Len(s) : s[i] = m

\* The channel holds sequence numbers in increasing order, all of them produced,
\* and all of them after the message that was taken from it last.
ChannelSorted(g) ==
    /\ Increasing(ch[g])
    /\ Below(ch[g], nextSeq)
    /\ pc[g] \in Processing /\ mode[g] = "live" => Above(ch[g], cur[g])

\* Where the two loops of run stand relative to the replayed interval.
Position(g) ==
    /\ offset[g] <= nextSeq
    /\ pc[g] \in Active => replayNext[g] <= replayEnd[g] /\ replayEnd[g] <= nextSeq
    /\ pc[g] = "looping" => replayNext[g] = replayEnd[g]
    /\ pc[g] \in Processing =>
          /\ cur[g] < nextSeq
          /\ mode[g] = "live" => replayNext[g] = replayEnd[g]
          /\ mode[g] = "replay" => cur[g] < replayNext[g]
    /\ pc[g] \in {"handling", "backoff"} => offset[g] <= cur[g]

\* Every message the group has not passed yet is still on its way to the handler.
Cover(g) ==
    pc[g] \in Active =>
      \A s \in offset[g] .. nextSeq - 1 :
        \/ s \in Accounted(g)
        \/ replayNext[g] <= s /\ s < replayEnd[g]
        \/ replayEnd[g] <= s /\ Contains(ch[g], s)
        \/ pc[g] \in Processing /\ s = cur[g]

PassedAccounted(g) == \A s \in 0 .. offset[g] - 1 : s \in Accounted(g)

DisposedPassed(g) == \A s \in disposed[g] : s < offset[g]

GroupInv(g) ==
    /\ ChannelSorted(g)
    /\ Position(g)
    /\ Cover(g)
    /\ PassedAccounted(g)
    /\ DisposedPassed(g)

IInv == TypeOK /\ \A g \in Groups : GroupInv(g)

----------------------------------------------------------------------------
\* What appending to, and taking from, an increasing sequence preserves.
LEMMA AppendIncreasing ==
  ASSUME NEW s \in Seq(Nat), NEW m \in Nat, Increasing(s), Below(s, m)
  PROVE  /\ Append(s, m) \in Seq(Nat)
         /\ Increasing(Append(s, m)) /\ Below(Append(s, m), m + 1)
         /\ \A k \in Nat : k < m /\ Above(s, k) => Above(Append(s, m), k)
         /\ \A k : Contains(s, k) \/ k = m => Contains(Append(s, m), k)
<1> DEFINE t == Append(s, m)
<1>1. /\ Len(s) \in Nat /\ Len(t) = Len(s) + 1
      /\ \A i \in 1 .. Len(s) : s[i] \in Nat /\ t[i] = s[i]
      /\ t[Len(s) + 1] = m
      /\ t \in Seq(Nat)
  OBVIOUS
<1> HIDE DEF t
<1>2. \A i \in 1 .. Len(t) : i \in 1 .. Len(s) \/ i = Len(s) + 1
  BY <1>1
<1>3. Increasing(t)
  <2> SUFFICES ASSUME NEW i \in 1 .. Len(t), NEW j \in 1 .. Len(t), i < j PROVE t[i] < t[j]
    BY DEF Increasing
  <2>1. i \in 1 .. Len(s)
    BY <1>1
  <2>2. CASE j \in 1 .. Len(s)
    BY <2>1, <2>2, <1>1 DEF Increasing
  <2>3. CASE j = Len(s) + 1
    BY <2>1, <2>3, <1>1 DEF Below
  <2>4. QED
    BY <1>2, <2>2, <2>3
<1>4. Below(t, m + 1)
  <2> SUFFICES ASSUME NEW i \in 1 .. Len(t) PROVE t[i] < m + 1
    BY DEF Below
  <2>1. CASE i \in 1 .. Len(s)
    <3>1. t[i] = s[i] /\ s[i] \in Nat /\ s[i] < m BY <2>1, <1>1 DEF Below
    <3> QED BY <3>1
  <2>2. CASE i = Len(s) + 1
    <3>1. t[i] = m BY <2>2, <1>1
    <3> QED BY <3>1
  <2>3. QED
    BY <1>2, <2>1, <2>2
<1>5. \A k \in Nat : k < m /\ Above(s, k) => Above(t, k)
  <2> SUFFICES ASSUME NEW k \in Nat, k < m, Above(s, k), NEW i \in 1 .. Len(t) PROVE k < t[i]
    BY DEF Above
  <2>1. CASE i \in 1 .. Len(s)
    <3>1. t[i] = s[i] /\ k < s[i] BY <1>1, <2>1 DEF Above
    <3> QED BY <3>1
  <2>2. CASE i = Len(s) + 1
    <3>1. t[i] = m BY <2>2, <1>1
    <3> QED BY <3>1
  <2> QED BY <1>2, <2>1, <2>2
<1>6. \A k : Contains(s, k) \/ k = m => Contains(t, k)
  BY <1>1, SMTT(30) DEF Contains
<1>7. QED
  BY <1>1, <1>3, <1>4, <1>5, <1>6 DEF t

LEMMA TailIncreasing ==
  ASSUME NEW s \in Seq(Nat), s # <<>>, Increasing(s)
  PROVE  /\ Tail(s) \in Seq(Nat) /\ Head(s) \in Nat /\ Contains(s, Head(s))
         /\ Increasing(Tail(s)) /\ Above(Tail(s), Head(s))
         /\ \A m \in Nat : Below(s, m) => Below(Tail(s), m)
         /\ \A k : Contains(s, k) => k = Head(s) \/ Contains(Tail(s), k)
<1> DEFINE t == Tail(s)
<1>1. /\ Len(s) \in Nat /\ Len(s) >= 1 /\ Len(t) = Len(s) - 1
      /\ \A i \in 1 .. Len(s) : s[i] \in Nat
      /\ \A i \in 1 .. Len(t) : t[i] = s[i + 1]
      /\ Head(s) = s[1]
      /\ t \in Seq(Nat)
  OBVIOUS
<1> HIDE DEF t
<1>2. \A i \in 1 .. Len(t) : i + 1 \in 1 .. Len(s) /\ 1 < i + 1
  BY <1>1
<1>3. Increasing(t)
  <2> SUFFICES ASSUME NEW i \in 1 .. Len(t), NEW j \in 1 .. Len(t), i < j PROVE t[i] < t[j]
    BY DEF Increasing
  <2>1. i + 1 \in 1 .. Len(s) /\ j + 1 \in 1 .. Len(s) /\ i + 1 < j + 1
    BY <1>2
  <2>2. QED
    BY <1>1, <2>1 DEF Increasing
<1>4. Above(t, Head(s))
  <2> SUFFICES ASSUME NEW i \in 1 .. Len(t) PROVE s[1] < s[i + 1]
    BY <1>1 DEF Above
  <2>1. 1 \in 1 .. Len(s)
    BY <1>1
  <2>2. QED
    BY <1>2, <2>1 DEF Increasing
<1>5. \A m \in Nat : Below(s, m) => Below(t, m)
  BY <1>1, <1>2 DEF Below
<1>6. \A k : Contains(s, k) => k = Head(s) \/ Contains(t, k)
  <2> SUFFICES ASSUME NEW i \in 1 .. Len(s), i # 1 PROVE Contains(t, s[i])
    BY <1>1 DEF Contains
  <2>1. i - 1 \in 1 .. Len(t) /\ t[i - 1] = s[i]
    BY <1>1
  <2>2. QED
    BY <2>1 DEF Contains
<1>7. QED
  BY <1>1, <1>3, <1>4, <1>5, <1>6 DEF t, Contains

----------------------------------------------------------------------------
LEMMA TypeInit == Init => TypeOK
  BY CapacityAssumption, ChanCapacityAssumption, AttemptLimitsAssumption
     DEF Init, TypeOK, PC

\* Every step keeps the variables in their types.
LEMMA TypeNext == TypeOK /\ [Next]_vars => TypeOK'
<1> USE CapacityAssumption, ChanCapacityAssumption, AttemptLimitsAssumption
<1> SUFFICES ASSUME TypeOK, [Next]_vars PROVE TypeOK'
  OBVIOUS
<1> USE DEF TypeOK, PC, topicVars, positionVars, historyVars, Max2
<1>1. CASE UNCHANGED vars
  BY <1>1 DEF vars
<1>2. CASE Produce
  BY <1>2, SMTT(40) DEF Produce, Registered, ChannelFull
<1>3. CASE SetDelivery
  BY <1>3, SMTT(40) DEF SetDelivery
<1>4. ASSUME NEW g \in Groups, Stop(g) PROVE TypeOK'
  BY <1>4, SMTT(40) DEF Stop
<1>5. ASSUME NEW g \in Groups, NewConsumer(g) PROVE TypeOK'
  BY <1>5, SMTT(40) DEF NewConsumer
<1>6. ASSUME NEW g \in Groups, Start(g) PROVE TypeOK'
  BY <1>6, SMTT(40) DEF Start
<1>7. ASSUME NEW g \in Groups, ReplaySnapshot(g) PROVE TypeOK'
  <2>1. ReplayFrom(g) \in Nat
    BY DEF ReplayFrom
  <2>2. replayNext' \in [Groups -> Nat] /\ replayEnd' \in [Groups -> Nat]
    BY <1>7, <2>1, SMTT(30) DEF ReplaySnapshot
  <2>3. pc' \in [Groups -> PC]
    <3>1. pc' = [pc EXCEPT ![g] = "replaying"] /\ pc \in [Groups -> PC]
      BY <1>7 DEF ReplaySnapshot
    <3> QED BY <3>1
  <2> QED BY <1>7, <2>2, <2>3, SMTT(30) DEF ReplaySnapshot
<1>8. ASSUME NEW g \in Groups, ReplayNext(g) PROVE TypeOK'
  BY <1>8, SMTT(40) DEF ReplayNext
<1>9. ASSUME NEW g \in Groups, ReplayReturn(g) PROVE TypeOK'
  BY <1>9, SMTT(40) DEF ReplayReturn
<1>10. ASSUME NEW g \in Groups, Receive(g) PROVE TypeOK'
  BY <1>10, SMTT(40) DEF Receive
<1>11. ASSUME NEW g \in Groups, LoopExit(g) PROVE TypeOK'
  BY <1>11, SMTT(40) DEF LoopExit
<1>12. ASSUME NEW g \in Groups, SkipProcessed(g) PROVE TypeOK'
  BY <1>12, SMTT(40) DEF SkipProcessed, ReturnTrue
<1>13. ASSUME NEW g \in Groups, BeginProcess(g) PROVE TypeOK'
  BY <1>13, SMTT(40) DEF BeginProcess, CapturedLimit
<1>13a. ASSUME NEW g \in Groups, AdvanceOffset(g) PROVE TypeOK'
  <2>1. offset' \in [Groups -> Nat] /\ disposed' \in [Groups -> SUBSET Nat]
    BY <1>13a, SMTT(40) DEF AdvanceOffset, ReturnTrue
  <2>2. pc' \in [Groups -> PC] /\ mode' \in [Groups -> {"replay", "live"}]
    BY <1>13a, SMTT(40) DEF AdvanceOffset, ReturnTrue
  <2>3. QED
    BY <1>13a, <2>1, <2>2, SMTT(40) DEF AdvanceOffset, ReturnTrue
<1>14. ASSUME NEW g \in Groups, HandlerSucceeds(g) PROVE TypeOK'
  <2> HIDE DEF TypeOK
  <2>1. AdvanceOffset(g) BY <1>14 DEF HandlerSucceeds
  <2> QED BY <1>13a, <2>1
<1>15. ASSUME NEW g \in Groups, HandlerFailsForGood(g) PROVE TypeOK'
  <2> HIDE DEF TypeOK
  <2>1. AdvanceOffset(g) BY <1>15 DEF HandlerFailsForGood
  <2> QED BY <1>13a, <2>1
<1>16. ASSUME NEW g \in Groups, DiscardPoison(g) PROVE TypeOK'
  <2> HIDE DEF TypeOK
  <2>1. AdvanceOffset(g) BY <1>16 DEF DiscardPoison
  <2> QED BY <1>13a, <2>1
<1>17. ASSUME NEW g \in Groups, HandlerFailsRetryable(g) PROVE TypeOK'
  BY <1>17, SMTT(40) DEF HandlerFailsRetryable, AttemptsExhausted
<1>18. ASSUME NEW g \in Groups, HandlerFailsCanceled(g) PROVE TypeOK'
  BY <1>18, SMTT(40) DEF HandlerFailsCanceled, GiveUp, ReturnFalse
<1>19. ASSUME NEW g \in Groups, HandlerPanics(g) PROVE TypeOK'
  BY <1>19, SMTT(40) DEF HandlerPanics
<1>20. ASSUME NEW g \in Groups, BackoffElapses(g) PROVE TypeOK'
  BY <1>20, SMTT(40) DEF BackoffElapses, NextAttempt
<1>21. ASSUME NEW g \in Groups, BackoffCanceled(g) PROVE TypeOK'
  BY <1>21, SMTT(40) DEF BackoffCanceled, GiveUp, ReturnFalse
<1>q. QED
  BY <1>1, <1>2, <1>3, <1>4, <1>5, <1>6, <1>7, <1>8, <1>9, <1>10, <1>11, <1>12, <1>13, <1>14, <1>15, <1>16, <1>17, <1>18, <1>19, <1>20, <1>21 DEF Next, Run

THEOREM TypeCorrect == Spec => []TypeOK
  BY TypeInit, TypeNext, PTL DEF Spec

----------------------------------------------------------------------------
\* What a group's invariant depends on does not change in a step.
Same(g) ==
    /\ nextSeq' = nextSeq
    /\ ch'[g] = ch[g] /\ pc'[g] = pc[g] /\ mode'[g] = mode[g]
    /\ offset'[g] = offset[g] /\ cur'[g] = cur[g]
    /\ replayNext'[g] = replayNext[g] /\ replayEnd'[g] = replayEnd[g]
    /\ disposed'[g] = disposed[g] /\ overflowed'[g] = overflowed[g]
    /\ abandoned'[g] = abandoned[g]

LEMMA Frame == ASSUME NEW g \in Groups, GroupInv(g), Same(g) PROVE GroupInv(g)'
  BY DEF GroupInv, ChannelSorted, Position, Cover, PassedAccounted, DisposedPassed,
         Accounted, Contains, Same

\* The steps of one group's consumer leave every other group alone.
LEMMA OtherGroups ==
  ASSUME TypeOK, NEW g \in Groups, Stop(g) \/ Run(g), NEW h \in Groups, h # g
  PROVE  Same(h)
<1> USE DEF TypeOK, Same, topicVars, positionVars, historyVars
<1>1. CASE Stop(g)
  BY <1>1 DEF Stop
<1>2. CASE NewConsumer(g) \/ Start(g)
  <2>1. CASE NewConsumer(g) BY <2>1 DEF NewConsumer
  <2>2. CASE Start(g) BY <2>2 DEF Start
  <2> QED BY <1>2, <2>1, <2>2
<1>3. CASE ReplaySnapshot(g) \/ ReplayNext(g) \/ ReplayReturn(g)
  BY <1>3 DEF ReplaySnapshot, ReplayNext, ReplayReturn
<1>4. CASE Receive(g) \/ LoopExit(g)
  BY <1>4 DEF Receive, LoopExit
<1>5. CASE SkipProcessed(g) \/ BeginProcess(g)
  BY <1>5 DEF SkipProcessed, BeginProcess
<1>6. CASE HandlerSucceeds(g) \/ HandlerFailsForGood(g) \/ DiscardPoison(g)
  BY <1>6 DEF HandlerSucceeds, HandlerFailsForGood, DiscardPoison, AdvanceOffset
<1>7. CASE HandlerFailsRetryable(g) \/ HandlerPanics(g) \/ BackoffElapses(g)
  BY <1>7 DEF HandlerFailsRetryable, HandlerPanics, BackoffElapses
<1>8. CASE HandlerFailsCanceled(g) \/ BackoffCanceled(g)
  BY <1>8 DEF HandlerFailsCanceled, BackoffCanceled, GiveUp
<1>9. QED
  BY <1>1, <1>2, <1>3, <1>4, <1>5, <1>6, <1>7, <1>8 DEF Run


----------------------------------------------------------------------------
LEMMA InitInv == Init => IInv
<1> SUFFICES ASSUME Init PROVE IInv
  OBVIOUS
<1>1. TypeOK
  BY TypeInit
<1>2. ASSUME NEW g \in Groups PROVE GroupInv(g)
  BY DEF Init, GroupInv, ChannelSorted, Position, Cover, PassedAccounted,
         DisposedPassed, Active, Processing, Increasing, Below
<1>3. QED
  BY <1>1, <1>2 DEF IInv

\* The types of what a group's invariant mentions.
Types(g) ==
    /\ nextSeq \in Nat /\ low \in Nat
    /\ offset[g] \in Nat /\ cur[g] \in Nat
    /\ replayNext[g] \in Nat /\ replayEnd[g] \in Nat
    /\ mode[g] \in {"replay", "live"}
    /\ ch[g] \in Seq(Nat)

LEMMA GroupTypes == ASSUME TypeOK, NEW g \in Groups PROVE Types(g)
  BY DEF TypeOK, Types

\* A produced message joins the channel of an active consumer, behind the others,
\* or is counted as overflowed.
LEMMA ProduceStep ==
  ASSUME TypeOK, NEW g \in Groups, GroupInv(g), Produce
  PROVE  GroupInv(g)'
<1> USE DEF GroupInv
<1>0. Types(g)
  BY GroupTypes
<1>1. /\ nextSeq' = nextSeq + 1
      /\ pc'[g] = pc[g] /\ mode'[g] = mode[g] /\ cur'[g] = cur[g]
      /\ offset'[g] = offset[g] /\ disposed'[g] = disposed[g]
      /\ replayNext'[g] = replayNext[g] /\ replayEnd'[g] = replayEnd[g]
      /\ abandoned'[g] = abandoned[g]
  BY DEF Produce, positionVars
<1>2. Position(g)'
  BY <1>0, <1>1 DEF Position, Types
<1>3. DisposedPassed(g)'
  BY <1>1 DEF DisposedPassed
<1>4. PassedAccounted(g)' /\ overflowed[g] \subseteq overflowed'[g]
  BY <1>1 DEF PassedAccounted, Accounted, Produce, TypeOK
<1>5. CASE pc[g] # "none" /\ ~ChannelFull(g)
  <2>1. ch'[g] = Append(ch[g], nextSeq)
    BY <1>5 DEF Produce, Registered, TypeOK
  <2>2. ChannelSorted(g)'
    BY <1>0, <1>1, <2>1, AppendIncreasing DEF ChannelSorted, Position, Types
  <2>3. \A s : Contains(ch[g], s) \/ s = nextSeq => Contains(ch'[g], s)
    <3>1. ch[g] \in Seq(Nat) /\ nextSeq \in Nat /\ Increasing(ch[g]) /\ Below(ch[g], nextSeq)
      BY <1>0 DEF ChannelSorted, Types
    <3> QED BY <2>1, <3>1, AppendIncreasing
  <2>4. Cover(g)'
    <3> SUFFICES ASSUME pc[g] \in Active, NEW s \in offset[g] .. nextSeq
                 PROVE  \/ s \in Accounted(g)'
                        \/ replayNext[g] <= s /\ s < replayEnd[g]
                        \/ replayEnd[g] <= s /\ Contains(ch'[g], s)
                        \/ pc[g] \in Processing /\ s = cur[g]
      BY <1>0, <1>1 DEF Cover, Types
    <3>1. CASE s = nextSeq
      BY <1>0, <2>3, <3>1 DEF Position
    <3>2. CASE s \in offset[g] .. nextSeq - 1
      BY <1>1, <1>4, <2>3, <3>2 DEF Cover, Accounted
    <3>3. QED
      BY <1>0, <3>1, <3>2 DEF Types
  <2>5. QED
    BY <1>2, <1>3, <1>4, <2>2, <2>4
<1>6. CASE pc[g] # "none" /\ ChannelFull(g)
  <2>1. ch'[g] = ch[g] /\ nextSeq \in overflowed'[g]
    BY <1>6 DEF Produce, Registered, TypeOK
  <2>2. ChannelSorted(g)'
    BY <1>0, <1>1, <2>1 DEF ChannelSorted, Below, Types
  <2>3. Cover(g)'
    BY <1>0, <1>1, <1>4, <2>1 DEF Cover, Accounted, Position, Types
  <2>4. QED
    BY <1>2, <1>3, <1>4, <2>2, <2>3
<1>7. CASE pc[g] = "none"
  <2>1. ch'[g] = ch[g]
    BY <1>7 DEF Produce, Registered
  <2>2. ChannelSorted(g)'
    BY <1>0, <1>1, <2>1 DEF ChannelSorted, Below, Types
  <2>3. Cover(g)'
    BY <1>1, <1>7 DEF Cover, Active, Processing
  <2>4. QED
    BY <1>2, <1>3, <1>4, <2>2, <2>3
<1>8. QED
  BY <1>5, <1>6, <1>7

\* Steps after which the goroutine stands outside its loops.
LEMMA LifecycleStep ==
  ASSUME TypeOK, NEW g \in Groups, GroupInv(g),
         NewConsumer(g) \/ Start(g) \/ LoopExit(g) \/ HandlerPanics(g)
  PROVE  GroupInv(g)'
<1> USE DEF GroupInv
<1>0. Types(g)
  BY GroupTypes
<1>1. /\ nextSeq' = nextSeq /\ offset'[g] = offset[g]
      /\ disposed'[g] = disposed[g] /\ overflowed'[g] = overflowed[g]
      /\ abandoned'[g] = abandoned[g]
      /\ ch'[g] = ch[g] \/ ch'[g] = <<>>
  BY DEF NewConsumer, Start, LoopExit, HandlerPanics, topicVars, historyVars, TypeOK
<1>2. pc'[g] \in {"created", "starting", "exited"}
  BY DEF NewConsumer, Start, LoopExit, HandlerPanics, TypeOK
<1>3. ChannelSorted(g)'
  <2>1. CASE ch'[g] = ch[g]
    BY <1>0, <1>1, <1>2, <2>1 DEF ChannelSorted, Processing, Types
  <2>2. CASE ch'[g] = <<>>
    BY <1>0, <1>1, <1>2, <2>2 DEF ChannelSorted, Increasing, Below, Processing, Types
  <2> QED BY <1>1, <2>1, <2>2
<1>4. Position(g)' /\ Cover(g)'
  BY <1>1, <1>2 DEF Position, Cover, Active, Processing
<1>5. QED
  BY <1>1, <1>3, <1>4 DEF PassedAccounted, DisposedPassed, Accounted

\* Stop, and the steps of process that change neither offset nor message.
LEMMA ProcessStep ==
  ASSUME TypeOK, NEW g \in Groups, GroupInv(g),
         \/ Stop(g) \/ SkipProcessed(g) \/ BeginProcess(g)
         \/ HandlerFailsRetryable(g) \/ BackoffElapses(g)
  PROVE  GroupInv(g)'
<1> USE DEF GroupInv
<1>0. Types(g)
  BY GroupTypes
<1>1. /\ nextSeq' = nextSeq /\ offset'[g] = offset[g] /\ ch'[g] = ch[g]
      /\ mode'[g] = mode[g] /\ cur'[g] = cur[g]
      /\ replayNext'[g] = replayNext[g] /\ replayEnd'[g] = replayEnd[g]
      /\ disposed'[g] = disposed[g] /\ overflowed'[g] = overflowed[g]
      /\ abandoned'[g] = abandoned[g]
  BY DEF Stop, SkipProcessed, BeginProcess, HandlerFailsRetryable, BackoffElapses,
         topicVars, positionVars, historyVars
<1>2. \/ pc'[g] = pc[g]
      \/ /\ pc[g] \in Processing /\ pc'[g] \in {"handling", "backoff"}
         /\ offset[g] <= cur[g]
      \/ /\ pc[g] \in Processing /\ pc'[g] = ReturnTrue(g)
         /\ cur[g] < offset[g]
  BY <1>0 DEF Stop, SkipProcessed, BeginProcess, HandlerFailsRetryable, BackoffElapses,
         AlreadyProcessed, Position, Processing, TypeOK, Types
<1>3. ChannelSorted(g)'
  BY <1>1, <1>2 DEF ChannelSorted, Processing, ReturnTrue
<1>4. Position(g)'
  BY <1>0, <1>1, <1>2 DEF Position, Processing, Active, ReturnTrue, Types
<1>5. Cover(g)'
  BY <1>0, <1>1, <1>2 DEF Cover, Accounted, Processing, Active, ReturnTrue, Types
<1>6. QED
  BY <1>1, <1>3, <1>4, <1>5 DEF PassedAccounted, DisposedPassed, Accounted

\* Acknowledging the current message skips nothing: what lies between the offset
\* and the message is already accounted for.
LEMMA AdvanceStep ==
  ASSUME TypeOK, NEW g \in Groups, GroupInv(g), pc[g] = "handling", AdvanceOffset(g)
  PROVE  GroupInv(g)'
<1> USE DEF GroupInv
<1>0. Types(g)
  BY GroupTypes
<1>1. /\ nextSeq' = nextSeq /\ ch'[g] = ch[g]
      /\ mode'[g] = mode[g] /\ cur'[g] = cur[g]
      /\ replayNext'[g] = replayNext[g] /\ replayEnd'[g] = replayEnd[g]
      /\ disposed'[g] = disposed[g] \cup {cur[g]}
      /\ overflowed'[g] = overflowed[g] /\ abandoned'[g] = abandoned[g]
      /\ pc'[g] = ReturnTrue(g)
  BY DEF AdvanceOffset, topicVars, positionVars, TypeOK
<1>2. offset[g] <= cur[g] /\ offset'[g] = cur[g] + 1
  BY <1>0 DEF AdvanceOffset, Position, Max2, TypeOK, Types
<1>3. ChannelSorted(g)'
  BY <1>1 DEF ChannelSorted, Processing, ReturnTrue
<1>4. Position(g)'
  BY <1>0, <1>1, <1>2 DEF Position, Processing, Active, ReturnTrue, Types
<1>5. \A s \in offset[g] .. cur[g] - 1 : s \in Accounted(g)
  <2> SUFFICES ASSUME NEW s \in offset[g] .. cur[g] - 1 PROVE s \in Accounted(g)
    OBVIOUS
  <2>1. \/ s \in Accounted(g)
        \/ replayNext[g] <= s /\ s < replayEnd[g]
        \/ replayEnd[g] <= s /\ Contains(ch[g], s)
    BY <1>0 DEF Cover, Position, Active, Processing, Types
  <2>2. CASE mode[g] = "live"
    BY <1>0, <2>1, <2>2 DEF ChannelSorted, Above, Contains, Position, Processing, Types
  <2>3. CASE mode[g] = "replay"
    BY <1>0, <2>1, <2>3 DEF Position, Processing, Active, Types
  <2>4. QED
    BY <1>0, <2>2, <2>3 DEF Types
<1>6. PassedAccounted(g)'
  BY <1>0, <1>1, <1>2, <1>5 DEF PassedAccounted, Accounted, Types
<1>7. DisposedPassed(g)'
  <2> SUFFICES ASSUME NEW s \in disposed[g] \cup {cur[g]} PROVE s < cur[g] + 1
    BY <1>1, <1>2 DEF DisposedPassed
  <2>1. s \in Nat
    BY <1>0 DEF TypeOK, Types
  <2>2. QED
    BY <1>0, <1>2, <2>1 DEF DisposedPassed, Types
<1>8. Cover(g)'
  BY <1>0, <1>1, <1>2 DEF Cover, Accounted, Processing, Active, ReturnTrue, Types
<1>9. QED
  BY <1>3, <1>4, <1>6, <1>7, <1>8

\* A Consumer being stopped leaves its message behind.
LEMMA GiveUpStep ==
  ASSUME TypeOK, NEW g \in Groups, GroupInv(g), pc[g] \in {"handling", "backoff"}, GiveUp(g)
  PROVE  GroupInv(g)'
<1> USE DEF GroupInv
<1>0. Types(g)
  BY GroupTypes
<1>1. /\ nextSeq' = nextSeq /\ offset'[g] = offset[g] /\ ch'[g] = ch[g]
      /\ mode'[g] = mode[g] /\ cur'[g] = cur[g]
      /\ replayNext'[g] = replayNext[g] /\ replayEnd'[g] = replayEnd[g]
      /\ disposed'[g] = disposed[g] /\ overflowed'[g] = overflowed[g]
      /\ abandoned[g] \subseteq abandoned'[g]
      /\ mode[g] = "replay" => cur[g] \in abandoned'[g]
      /\ pc'[g] = ReturnFalse(g)
  BY DEF GiveUp, topicVars, positionVars, TypeOK
<1>2. ChannelSorted(g)'
  BY <1>1 DEF ChannelSorted, Processing, ReturnFalse
<1>3. Position(g)'
  BY <1>0, <1>1 DEF Position, Processing, Active, ReturnFalse, Types
<1>4. Cover(g)'
  BY <1>0, <1>1 DEF Cover, Accounted, Processing, Active, ReturnFalse, Types
<1>5. QED
  BY <1>1, <1>2, <1>3, <1>4 DEF PassedAccounted, DisposedPassed, Accounted

LEMMA ReplaySnapshotStep ==
  ASSUME TypeOK, NEW g \in Groups, GroupInv(g), ReplaySnapshot(g)
  PROVE  GroupInv(g)'
<1> USE DEF GroupInv
<1>0. Types(g) /\ low <= nextSeq
  <2>1. Types(g) BY GroupTypes
  <2>2. low <= nextSeq BY DEF TypeOK
  <2> QED BY <2>1, <2>2
<1>1. /\ nextSeq' = nextSeq /\ offset'[g] = offset[g] /\ ch'[g] = ch[g]
      /\ replayNext'[g] = Max2(low, offset[g]) /\ replayEnd'[g] = nextSeq
      /\ disposed'[g] = disposed[g] /\ abandoned'[g] = abandoned[g]
      /\ overflowed'[g] = overflowed[g] \cup (offset[g] .. low - 1)
      /\ pc'[g] = "replaying"
  BY DEF ReplaySnapshot, ReplayFrom, topicVars, TypeOK
<1>2. ChannelSorted(g)'
  BY <1>1 DEF ChannelSorted, Processing
<1>3. Position(g)'
  BY <1>0, <1>1 DEF Position, Processing, Max2, Types
<1>4. Cover(g)'
  BY <1>0, <1>1 DEF Cover, Accounted, Max2, Types
<1>5. PassedAccounted(g)' /\ DisposedPassed(g)'
  BY <1>1 DEF PassedAccounted, DisposedPassed, Accounted
<1>6. QED
  BY <1>2, <1>3, <1>4, <1>5

LEMMA ReplayNextStep ==
  ASSUME TypeOK, NEW g \in Groups, GroupInv(g), ReplayNext(g)
  PROVE  GroupInv(g)'
<1> USE DEF GroupInv
<1>0. Types(g)
  BY GroupTypes
<1>1. /\ nextSeq' = nextSeq /\ offset'[g] = offset[g] /\ ch'[g] = ch[g]
      /\ cur'[g] = replayNext[g] /\ replayNext'[g] = replayNext[g] + 1
      /\ replayNext[g] < replayEnd[g] /\ replayEnd'[g] = replayEnd[g]
      /\ Accounted(g)' = Accounted(g) /\ disposed'[g] = disposed[g]
      /\ mode'[g] = "replay" /\ pc[g] = "replaying" /\ pc'[g] = "checking"
  BY DEF ReplayNext, topicVars, historyVars, Accounted, TypeOK
<1>2. ChannelSorted(g)'
  BY <1>1 DEF ChannelSorted
<1>3. Position(g)'
  BY <1>0, <1>1 DEF Position, Processing, Active, Types
<1>4. Cover(g)'
  BY <1>0, <1>1 DEF Cover, Active, Processing, Types
<1>5. PassedAccounted(g)' /\ DisposedPassed(g)'
  BY <1>1 DEF PassedAccounted, DisposedPassed
<1>6. QED
  BY <1>2, <1>3, <1>4, <1>5

LEMMA ReplayReturnStep ==
  ASSUME TypeOK, NEW g \in Groups, GroupInv(g), ReplayReturn(g)
  PROVE  GroupInv(g)'
<1> USE DEF GroupInv
<1>0. Types(g)
  BY GroupTypes
<1>1. /\ nextSeq' = nextSeq /\ offset'[g] = offset[g] /\ ch'[g] = ch[g]
      /\ replayNext'[g] = replayEnd[g] /\ replayEnd'[g] = replayEnd[g]
      /\ disposed'[g] = disposed[g] /\ overflowed'[g] = overflowed[g]
      /\ abandoned'[g] = abandoned[g] \cup (replayNext[g] .. replayEnd[g] - 1)
      /\ pc[g] = "replaying" /\ pc'[g] = "looping"
  BY DEF ReplayReturn, topicVars, TypeOK
<1>2. ChannelSorted(g)'
  BY <1>1 DEF ChannelSorted, Processing
<1>3. Position(g)'
  BY <1>0, <1>1 DEF Position, Processing, Active, Types
<1>4. Cover(g)'
  BY <1>0, <1>1 DEF Cover, Accounted, Active, Processing, Types
<1>5. PassedAccounted(g)' /\ DisposedPassed(g)'
  BY <1>1 DEF PassedAccounted, DisposedPassed, Accounted
<1>6. QED
  BY <1>2, <1>3, <1>4, <1>5

LEMMA ReceiveStep ==
  ASSUME TypeOK, NEW g \in Groups, GroupInv(g), Receive(g)
  PROVE  GroupInv(g)'
<1> USE DEF GroupInv
<1>0. Types(g)
  BY GroupTypes
<1>1. /\ nextSeq' = nextSeq /\ offset'[g] = offset[g]
      /\ ch[g] # <<>> /\ ch'[g] = Tail(ch[g]) /\ cur'[g] = Head(ch[g])
      /\ replayNext'[g] = replayNext[g] /\ replayEnd'[g] = replayEnd[g]
      /\ Accounted(g)' = Accounted(g) /\ disposed'[g] = disposed[g]
      /\ mode'[g] = "live" /\ pc[g] = "looping" /\ pc'[g] = "checking"
  BY DEF Receive, topicVars, historyVars, Accounted, TypeOK
<1>2. /\ cur'[g] \in Nat /\ Contains(ch[g], cur'[g])
      /\ Increasing(ch'[g]) /\ Above(ch'[g], cur'[g]) /\ Below(ch'[g], nextSeq)
      /\ \A k : Contains(ch[g], k) => k = cur'[g] \/ Contains(ch'[g], k)
  BY <1>0, <1>1, TailIncreasing DEF ChannelSorted, Types
<1>3. ChannelSorted(g)'
  BY <1>1, <1>2 DEF ChannelSorted
<1>4. cur'[g] < nextSeq
  BY <1>0, <1>2 DEF ChannelSorted, Below, Contains, Types
<1>5. Position(g)'
  BY <1>0, <1>1, <1>4 DEF Position, Processing, Active, Types
<1>6. Cover(g)'
  BY <1>0, <1>1, <1>2 DEF Cover, Position, Active, Processing, Types
<1>7. PassedAccounted(g)' /\ DisposedPassed(g)'
  BY <1>1 DEF PassedAccounted, DisposedPassed
<1>8. QED
  BY <1>3, <1>5, <1>6, <1>7

----------------------------------------------------------------------------
\* The invariant is inductive.
LEMMA InvNext == IInv /\ [Next]_vars => IInv'
<1> SUFFICES ASSUME IInv, [Next]_vars PROVE IInv'
  OBVIOUS
<1>1. TypeOK /\ TypeOK' /\ \A g \in Groups : GroupInv(g)
  BY TypeNext DEF IInv
<1>2. SUFFICES ASSUME NEW h \in Groups PROVE GroupInv(h)'
  BY <1>1 DEF IInv
<1>3. GroupInv(h)
  BY <1>1
<1>4. CASE UNCHANGED vars \/ SetDelivery
  <2>1. Same(h)
    BY <1>4 DEF vars, SetDelivery, topicVars, positionVars, historyVars, Same
  <2>2. QED
    BY <1>3, <2>1, Frame
<1>5. CASE Produce
  BY <1>1, <1>3, <1>5, ProduceStep
<1>6. ASSUME NEW g \in Groups, Stop(g) \/ Run(g), g # h PROVE GroupInv(h)'
  BY <1>1, <1>3, <1>6, OtherGroups, Frame
<1>7. CASE Stop(h) \/ Run(h)
  <2>1. CASE NewConsumer(h) \/ Start(h) \/ LoopExit(h) \/ HandlerPanics(h)
    BY <1>1, <1>3, <2>1, LifecycleStep
  <2>2. CASE \/ Stop(h) \/ SkipProcessed(h) \/ BeginProcess(h)
             \/ HandlerFailsRetryable(h) \/ BackoffElapses(h)
    BY <1>1, <1>3, <2>2, ProcessStep
  <2>3. CASE HandlerSucceeds(h) \/ HandlerFailsForGood(h) \/ DiscardPoison(h)
    BY <1>1, <1>3, <2>3, AdvanceStep
       DEF HandlerSucceeds, HandlerFailsForGood, DiscardPoison
  <2>4. CASE HandlerFailsCanceled(h) \/ BackoffCanceled(h)
    BY <1>1, <1>3, <2>4, GiveUpStep DEF HandlerFailsCanceled, BackoffCanceled
  <2>5. CASE ReplaySnapshot(h) \/ ReplayNext(h) \/ ReplayReturn(h) \/ Receive(h)
    BY <1>1, <1>3, <2>5, ReplaySnapshotStep, ReplayNextStep, ReplayReturnStep, ReceiveStep
  <2>6. QED
    BY <1>7, <2>1, <2>2, <2>3, <2>4, <2>5 DEF Run
<1>8. QED
  BY <1>4, <1>5, <1>6, <1>7 DEF Next

THEOREM Invariant == Spec => []IInv
  BY InitInv, InvNext, PTL DEF Spec

\* No offset passes a message whose loss has no name.  advanceOffset moves the offset
\* past everything up to the current message; that nothing between was skipped rests on
\* the order of the replay and of the channel, and on the channel not being read before
\* the replay is over.
THEOREM OffsetsPassAcknowledged == Spec => []AckedInOrder
<1>1. IInv => AckedInOrder
  BY DEF IInv, GroupInv, PassedAccounted, Accounted, AckedInOrder
<1>2. QED
  BY <1>1, Invariant, PTL

\* The handler never runs on a message its group has acknowledged: alreadyProcessed
\* compares with the offset, which is above every acknowledged message, and no one
\* else moves the offset while the handler runs.
THEOREM HandledMessagesNotAcknowledged == Spec => []NoDeliveryAfterAck
<1>1. IInv => NoDeliveryAfterAck
  <2> SUFFICES ASSUME IInv, NEW g \in Groups, pc[g] \in {"handling", "backoff"},
                      cur[g] \in disposed[g]
               PROVE  FALSE
    BY DEF NoDeliveryAfterAck
  <2>1. offset[g] <= cur[g] /\ cur[g] < offset[g]
    BY DEF IInv, GroupInv, Position, DisposedPassed
  <2>2. cur[g] \in Nat /\ offset[g] \in Nat
    BY DEF IInv, TypeOK
  <2>3. QED
    BY <2>1, <2>2
<1>2. QED
  BY <1>1, Invariant, PTL
============================================================================
