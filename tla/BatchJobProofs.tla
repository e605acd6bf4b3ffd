--------------------------- MODULE BatchJobProofs ---------------------------
(***************************************************************************)
(* For every set of jobs, page size and number of failures and restarts:   *)
(* one job at a time has the slot, and a run that is done has handled      *)
(* every torrent before its barrier.  Then what the reclassify job calls:  *)
(* the date lexer, the calls that share the classifier, its workflow, the  *)
(* TMDB client.                                                            *)
(***************************************************************************)
EXTENDS MCClassifier, SequenceTheorems, FiniteSetTheorems, TLAPS

\* A state with the number of the last fresh start describes the index, and one that is
\* done is at its barrier.
Describes(state, e, handled) ==
    /\ state.epoch <= e
    /\ state.epoch = e => \A t \in 1 .. state.cursor : t \in handled
    /\ state.done => state.cursor >= state.barrier

\* So do the progress and the saved state of each job, and a run that goes on is not done
\* and works on torrents after its cursor.
JobInv(j) ==
    /\ Describes(progress[j], epoch[j], index[j])
    /\ Describes(saved[j], epoch[j], index[j])
    /\ pc[j] \in {"begin", "page", "work", "save"} => ~progress[j].done
    /\ pc[j] = "work" => progress[j].cursor < page[j]

IInv == TypeOK /\ OneJobAtATime /\ \A j \in Jobs : JobInv(j)

\* The bounds of the instance, one by one.
LEMMA Bounds == MaxTorrents \in Nat /\ PageSize \in Nat \ {0} /\ 0 \in 0 .. MaxTorrents
<1>1. MaxTorrents \in Nat
  BY BatchAssumption
<1> QED BY <1>1, BatchAssumption

\* Before the first start nothing is handled, prepared or saved.
LEMMA InvInit == Init => IInv
<1> SUFFICES ASSUME Init PROVE IInv OBVIOUS
<1> USE Bounds DEF Init, NoState, Fresh, NoBarrier
<1>1. TypeOK BY DEF TypeOK, Progresses, States
<1>2. OneJobAtATime BY DEF OneJobAtATime
<1>3. ASSUME NEW j \in Jobs PROVE JobInv(j)
  <2>1. progress[j].cursor = 0 /\ progress[j].barrier = -1 /\ ~progress[j].done
    OBVIOUS
  <2>2. saved[j].cursor = 0 /\ saved[j].barrier = -1
    OBVIOUS
  <2>3. progress[j].epoch = 0 /\ saved[j].epoch = 0 /\ epoch[j] = 0 /\ pc[j] = "idle"
    OBVIOUS
  <2> QED BY <2>1, <2>2, <2>3 DEF JobInv, Describes
<1> QED BY <1>1, <1>2, <1>3 DEF IInv

\* What the steps write into the progress and the store has the right type.
LEMMA RecordTypes ==
    ASSUME TypeOK, NEW j \in Jobs
    PROVE  /\ NoState \in States
           /\ State(j) \in States
           /\ Restored(j) \in Progresses
           /\ \A e \in Nat : Fresh(e) \in Progresses
           /\ progress[j].barrier \in {NoBarrier} \cup (0 .. MaxTorrents)
           /\ progress[j].cursor \in 0 .. MaxTorrents
           /\ progress[j].epoch \in Nat /\ saved[j].epoch \in Nat
           /\ epoch[j] \in Nat
<1>1. progress[j] \in Progresses /\ saved[j] \in States /\ epoch[j] \in Nat
  BY DEF TypeOK
<1>2. NoState \in States
  BY Bounds DEF NoState, States
<1>3. State(j) \in States
  BY <1>1 DEF State, States, Progresses
<1>4. Restored(j) \in Progresses
  BY <1>1 DEF Restored, States, Progresses
<1>5. \A e \in Nat : Fresh(e) \in Progresses
  BY Bounds DEF Fresh, Progresses
<1>6. progress[j].barrier \in {NoBarrier} \cup (0 .. MaxTorrents)
      /\ progress[j].cursor \in 0 .. MaxTorrents
      /\ progress[j].epoch \in Nat /\ saved[j].epoch \in Nat
  BY <1>1 DEF Progresses, States
<1> QED BY <1>1, <1>2, <1>3, <1>4, <1>5, <1>6

\* A job's progress stays one when a flag or the cursor is set.
LEMMA ProgressSet ==
    ASSUME TypeOK, NEW j \in Jobs
    PROVE  /\ \A on \in BOOLEAN : [progress[j] EXCEPT !.running = on] \in Progresses
           /\ [progress[j] EXCEPT !.done = TRUE] \in Progresses
           /\ \A to \in 0 .. MaxTorrents : [progress[j] EXCEPT !.cursor = to] \in Progresses
           /\ \A mark \in 0 .. MaxTorrents, to \in 0 .. MaxTorrents :
                [progress[j] EXCEPT !.barrier = mark, !.cursor = to] \in Progresses
<1>1. progress[j] \in Progresses
  BY DEF TypeOK
<1> QED BY <1>1 DEF Progresses

\* Every step keeps the types.
LEMMA TypeNext == IInv /\ [Next]_vars => TypeOK'
<1> SUFFICES ASSUME IInv, [Next]_vars PROVE TypeOK' OBVIOUS
<1> USE DEF IInv, TypeOK, Goto, jobVars, workVars, storeVars
<1>1. ASSUME NEW j \in Jobs, Resume(j) PROVE TypeOK'
  <2>1. [progress[j] EXCEPT !.running = TRUE] \in Progresses
    BY ProgressSet
  <2> QED BY <1>1, <2>1 DEF Resume
<1>2. ASSUME NEW j \in Jobs, NEW force \in BOOLEAN, StartFresh(j, force) PROVE TypeOK'
  BY <1>2 DEF StartFresh
<1>3. ASSUME NEW j \in Jobs, PrepareFails(j) PROVE TypeOK'
  BY <1>3 DEF PrepareFails, ReleaseSlot
<1>4. ASSUME NEW j \in Jobs, Fail(j) PROVE TypeOK'
  <2>1. [progress[j] EXCEPT !.running = FALSE] \in Progresses
    BY ProgressSet
  <2>2. pc[j] = "work" => progress[j].cursor + 1 \in 1 .. MaxTorrents
    BY RecordTypes, Bounds DEF JobInv
  <2>3. index' \in [Jobs -> SUBSET (1 .. MaxTorrents)]
    BY <1>4, <2>2 DEF Fail
  <2> QED BY <1>4, <2>1, <2>3 DEF Fail
<1>5. ASSUME NEW j \in Jobs, Discard(j) PROVE TypeOK'
  BY <1>5 DEF Discard
<1>6. ASSUME NEW j \in Jobs, Delete(j) PROVE TypeOK'
  BY <1>6, RecordTypes DEF Delete
<1>7. ASSUME NEW j \in Jobs, Prepared(j) PROVE TypeOK'
  BY <1>7, RecordTypes DEF Prepared
<1>8. ASSUME NEW j \in Jobs, TakeBarrier(j) PROVE TypeOK'
  <2>1. [progress[j] EXCEPT !.barrier = torrents, !.cursor = 0] \in Progresses
    <3>1. torrents \in 0 .. MaxTorrents /\ 0 \in 0 .. MaxTorrents
      BY Bounds
    <3> QED BY <3>1, ProgressSet
  <2>2. progress' = [progress EXCEPT ![j] = [progress[j] EXCEPT !.barrier = torrents,
                                                                !.cursor = 0]]
    BY <1>8 DEF TakeBarrier
  <2> QED BY <1>8, <2>1, <2>2 DEF TakeBarrier
<1>9. ASSUME NEW j \in Jobs, ListPage(j) PROVE TypeOK'
  <2>1. PageEnd(j) \in 0 .. MaxTorrents
    BY <1>9, RecordTypes, Bounds DEF ListPage, PageEnd, Min2, NoBarrier
  <2> QED BY <1>9, <2>1 DEF ListPage
<1>10. ASSUME NEW j \in Jobs, Work(j) PROVE TypeOK'
  <2>1. [progress[j] EXCEPT !.cursor = page[j]] \in Progresses
    <3>1. page[j] \in 0 .. MaxTorrents
      OBVIOUS
    <3> QED BY <3>1, ProgressSet
  <2>2. Rows(j) \subseteq 1 .. MaxTorrents
    BY RecordTypes, Bounds DEF Rows
  <2> QED BY <1>10, <2>1, <2>2 DEF Work
<1>11. ASSUME NEW j \in Jobs, SavePage(j) PROVE TypeOK'
  BY <1>11, RecordTypes DEF SavePage, Save
<1>12. ASSUME NEW j \in Jobs, Finish(j) PROVE TypeOK'
  <2>1. [progress[j] EXCEPT !.done = TRUE] \in Progresses
    BY ProgressSet
  <2> QED BY <1>12, <2>1 DEF Finish
<1>13. ASSUME NEW j \in Jobs, SaveLast(j) PROVE TypeOK'
  BY <1>13, RecordTypes DEF SaveLast, Save
<1>14. ASSUME NEW j \in Jobs, Release(j) PROVE TypeOK'
  BY <1>14 DEF Release, ReleaseSlot
<1>15. CASE NewTorrent BY <1>15, Bounds DEF NewTorrent
<1>16. CASE Restart BY <1>16, RecordTypes DEF Restart
<1>17. CASE UNCHANGED vars BY <1>17 DEF vars
<1> QED BY <1>1, <1>2, <1>3, <1>4, <1>5, <1>6, <1>7, <1>8, <1>9, <1>10, <1>11, <1>12,
           <1>13, <1>14, <1>15, <1>16, <1>17 DEF Next, RunStep

\* A job gets the slot only when it is free, and leaves its run only by giving it back.
LEMMA SlotNext == IInv /\ [Next]_vars => OneJobAtATime'
<1> SUFFICES ASSUME IInv, [Next]_vars PROVE OneJobAtATime' OBVIOUS
<1> USE DEF OneJobAtATime, Goto, jobVars, workVars, storeVars
<1>0. OneJobAtATime /\ pc \in [Jobs -> {"idle", "preparing", "begin", "page", "work",
                                        "save", "ending", "saved"}]
  BY DEF IInv, TypeOK
<1>1. ASSUME NEW j \in Jobs, Resume(j) PROVE OneJobAtATime'
  BY <1>0, <1>1 DEF Resume, TryAcquire
<1>2. ASSUME NEW j \in Jobs, NEW force \in BOOLEAN, StartFresh(j, force)
      PROVE OneJobAtATime'
  BY <1>0, <1>2 DEF StartFresh, TryAcquire
<1>3. ASSUME NEW j \in Jobs, PrepareFails(j) PROVE OneJobAtATime'
  BY <1>0, <1>3 DEF PrepareFails, ReleaseSlot
<1>4. ASSUME NEW j \in Jobs, Fail(j) PROVE OneJobAtATime'
  BY <1>0, <1>4 DEF Fail
<1>5. ASSUME NEW j \in Jobs, Discard(j) \/ Delete(j) PROVE OneJobAtATime'
  BY <1>0, <1>5 DEF Discard, Delete
<1>6. ASSUME NEW j \in Jobs, Prepared(j) \/ TakeBarrier(j) \/ ListPage(j) \/ Work(j)
      PROVE OneJobAtATime'
  BY <1>0, <1>6 DEF Prepared, TakeBarrier, ListPage, Work
<1>7. ASSUME NEW j \in Jobs, SavePage(j) \/ Finish(j) \/ SaveLast(j) PROVE OneJobAtATime'
  BY <1>0, <1>7 DEF SavePage, Finish, SaveLast
<1>8. ASSUME NEW j \in Jobs, Release(j) PROVE OneJobAtATime'
  BY <1>0, <1>8 DEF Release, ReleaseSlot
<1>9. CASE NewTorrent BY <1>0, <1>9 DEF NewTorrent
<1>10. CASE Restart BY <1>10 DEF Restart
<1>11. CASE UNCHANGED vars BY <1>0, <1>11 DEF vars
<1> QED BY <1>1, <1>2, <1>3, <1>4, <1>5, <1>6, <1>7, <1>8, <1>9, <1>10, <1>11
        DEF Next, RunStep

\* Every step keeps what a job's states say of its index.
LEMMA HandledNext == IInv /\ [Next]_vars => (\A j \in Jobs : JobInv(j))'
<1> SUFFICES ASSUME IInv, [Next]_vars, NEW k \in Jobs PROVE JobInv(k)'
  OBVIOUS
<1> USE DEF Goto, jobVars, workVars, storeVars
<1>0. JobInv(k) /\ TypeOK BY DEF IInv
<1>t. /\ progress[k].barrier \in {NoBarrier} \cup (0 .. MaxTorrents)
      /\ progress[k].cursor \in 0 .. MaxTorrents
      /\ progress[k].epoch \in Nat /\ saved[k].epoch \in Nat /\ epoch[k] \in Nat
  BY <1>0, RecordTypes
<1>1. ASSUME NEW j \in Jobs, Resume(j) PROVE JobInv(k)'
  BY <1>0, <1>1 DEF Resume, CanResume, TypeOK, Progresses, JobInv, Describes
<1>2. ASSUME NEW j \in Jobs, NEW force \in BOOLEAN, StartFresh(j, force) PROVE JobInv(k)'
  BY <1>0, <1>2 DEF StartFresh, TypeOK, JobInv, Describes
<1>3. ASSUME NEW j \in Jobs, PrepareFails(j) PROVE JobInv(k)'
  BY <1>0, <1>t, <1>3 DEF PrepareFails, TypeOK, JobInv, Describes
<1>4. ASSUME NEW j \in Jobs, Fail(j) PROVE JobInv(k)'
  BY <1>0, <1>4 DEF Fail, TypeOK, Progresses, JobInv, Describes
<1>5. ASSUME NEW j \in Jobs, Discard(j) PROVE JobInv(k)'
  BY <1>0, <1>5 DEF Discard, TypeOK, JobInv, Describes
<1>6. ASSUME NEW j \in Jobs, Delete(j) PROVE JobInv(k)'
  BY <1>0, <1>t, <1>6 DEF Delete, NoState, NoBarrier, TypeOK, JobInv, Describes
<1>7. ASSUME NEW j \in Jobs, Prepared(j) PROVE JobInv(k)'
  BY <1>0, <1>t, <1>7 DEF Prepared, Fresh, TypeOK, Progresses, JobInv, Describes
<1>8. ASSUME NEW j \in Jobs, TakeBarrier(j) PROVE JobInv(k)'
  BY <1>0, <1>8 DEF TakeBarrier, TypeOK, Progresses, JobInv, Describes
<1>9. ASSUME NEW j \in Jobs, ListPage(j) PROVE JobInv(k)'
  BY <1>0, <1>t, <1>9, Bounds
     DEF ListPage, PageEnd, Min2, NoBarrier, TypeOK, JobInv, Describes
<1>10. ASSUME NEW j \in Jobs, Work(j) PROVE JobInv(k)'
  BY <1>0, <1>t, <1>10 DEF Work, Rows, TypeOK, Progresses, JobInv, Describes
<1>11. ASSUME NEW j \in Jobs, SavePage(j) PROVE JobInv(k)'
  BY <1>0, <1>11 DEF SavePage, Save, State, TypeOK, JobInv, Describes
<1>12. ASSUME NEW j \in Jobs, Finish(j) PROVE JobInv(k)'
  BY <1>0, <1>12 DEF Finish, NothingLeft, TypeOK, Progresses, JobInv, Describes
<1>13. ASSUME NEW j \in Jobs, SaveLast(j) PROVE JobInv(k)'
  BY <1>0, <1>13 DEF SaveLast, Save, State, TypeOK, JobInv, Describes
<1>14. ASSUME NEW j \in Jobs, Release(j) PROVE JobInv(k)'
  BY <1>0, <1>14 DEF Release, TypeOK, JobInv, Describes
<1>15. CASE NewTorrent BY <1>0, <1>15 DEF NewTorrent, JobInv, Describes
<1>16. CASE Restart BY <1>0, <1>16 DEF Restart, Restored, JobInv, Describes
<1>17. CASE UNCHANGED vars BY <1>0, <1>17 DEF vars, JobInv, Describes
<1> QED BY <1>1, <1>2, <1>3, <1>4, <1>5, <1>6, <1>7, <1>8, <1>9, <1>10, <1>11, <1>12,
           <1>13, <1>14, <1>15, <1>16, <1>17 DEF Next, RunStep

\* The invariant is inductive.
LEMMA InvNext == IInv /\ [Next]_vars => IInv'
BY TypeNext, SlotNext, HandledNext DEF IInv

\* A run that is done, with a state of the last fresh start, is complete.
LEMMA DoneComplete == IInv => DoneIsComplete
<1> SUFFICES ASSUME IInv, NEW j \in Jobs, progress[j].done, progress[j].epoch = epoch[j]
             PROVE  1 .. progress[j].barrier \subseteq index[j]
  BY DEF DoneIsComplete
<1>1. /\ progress[j].cursor >= progress[j].barrier
      /\ \A t \in 1 .. progress[j].cursor : t \in index[j]
  BY DEF IInv, JobInv, Describes
<1>2. progress[j].barrier \in Int /\ progress[j].cursor \in Int
  BY RecordTypes, Bounds DEF IInv, NoBarrier
<1> QED BY <1>1, <1>2

\* controller.go: only one maintenance job may be active at a time.
THEOREM MutualExclusion == Spec => []OneJobAtATime
<1>1. IInv => OneJobAtATime BY DEF IInv
<1> QED BY <1>1, InvInit, InvNext, PTL DEF Spec

\* A run that says it is done has handled every torrent before its barrier, whatever
\* failed, was resumed, restarted or discarded before.
THEOREM Completeness == Spec => []DoneIsComplete
BY InvInit, InvNext, DoneComplete, PTL DEF Spec

\* The jobs, their stored progress and the slot have their types in every behaviour.
THEOREM TypeCorrect == Spec => []TypeOK
<1>1. IInv => TypeOK BY DEF IInv
<1> QED BY <1>1, InvInit, InvNext, PTL DEF Spec

----------------------------------------------------------------------------
(***************************************************************************)
(* The date lexer, for any words and gaps.                                 *)
(***************************************************************************)

\* A name alternates, and the loop has not passed a date before which nothing is part of one.
LexerInv ==
    /\ Len(parts) \in 1 .. MaxParts /\ DOMAIN parts = 1 .. Len(parts)
    /\ \A i \in 1 .. (Len(parts) - 1) : L!IsGap(i) # L!IsGap(i + 1)
    /\ L!LexerContract


\* What stands at a place is a word or not.
LEMMA GapOrNot ==
    /\ \A i : L!IsGap(i) \in BOOLEAN
    /\ \A i : L!IsDatePart(i) => ~L!IsGap(i)
<1>1. \A i : L!IsGap(i) \in BOOLEAN
  BY DEF L!IsGap
<1>2. \A i : L!IsDatePart(i) => ~L!IsGap(i)
  BY DEF L!IsDatePart
<1> QED BY <1>1, <1>2

\* The first reading that is a date is one.
LEMMA FirstValidRight ==
    ASSUME NEW a, NEW b, NEW c
    PROVE  L!FirstValid(a, b, c) = L!NoDate \/ L!Valid(L!FirstValid(a, b, c))
<1> DEFINE read == <<<<a.year, b.month, c.day>>, <<c.year, b.month, a.day>>,
                     <<c.year, a.month, b.day>>>>
           First(k) == L!Valid(read[k]) /\ \A j \in 1 .. (k - 1) : ~L!Valid(read[j])
<1>1. L!FirstValid(a, b, c) = IF \E k \in 1 .. 3 : First(k)
                              THEN read[CHOOSE k \in 1 .. 3 : First(k)] ELSE L!NoDate
  BY DEF L!FirstValid
<1>2. CASE \E k \in 1 .. 3 : First(k)
  <2>1. First(CHOOSE k \in 1 .. 3 : First(k))
    BY <1>2
  <2> QED BY <1>1, <1>2, <2>1
<1> QED BY <1>1, <1>2

\* A name begins at its start, where no date is behind the loop.
LEMMA LexerInit == L!Init => LexerInv
<1> SUFFICES ASSUME L!Init PROVE LexerInv OBVIOUS
<1>1. PICK n \in 1 .. MaxParts : parts \in L!NamesOf(n)
  BY DEF L!Init
<1>2. n \in Nat
  BY LexerAssumption
<1> DEFINE Parts == [word : Words] \cup [gap : Gaps]
<1>3. parts \in [1 .. n -> Parts]
  BY <1>1 DEF L!NamesOf
<1>4. Len(parts) = n /\ DOMAIN parts = 1 .. n
  BY <1>2, <1>3
<1>5. \A i \in 1 .. (Len(parts) - 1) : L!IsGap(i) # L!IsGap(i + 1)
  BY <1>1, <1>4 DEF L!NamesOf, L!IsGap
<1>6. at = 1 /\ fresh = TRUE /\ date = L!NoDate
  BY DEF L!Init
<1>7. L!TypeOK
  BY <1>1, <1>2, <1>4, <1>6 DEF L!TypeOK
<1>8. L!DateIsSpelled
  BY <1>6 DEF L!DateIsSpelled
<1>9. L!PlainDateFound
  BY <1>6 DEF L!PlainDateFound
<1> QED BY <1>1, <1>4, <1>5, <1>7, <1>8, <1>9 DEF LexerInv, L!LexerContract

\* What is said of the name alone stays.
LEMMA SameName ==
    ASSUME parts' = parts
    PROVE  /\ \A i : L!IsGap(i)' = L!IsGap(i)
           /\ \A i : L!IsDatePart(i)' = L!IsDatePart(i)
           /\ \A i : L!Spelled(i)' = L!Spelled(i)
<1>1. \A i : L!IsGap(i)' = L!IsGap(i)
  BY DEF L!IsGap
<1>2. \A i : L!IsDatePart(i)' = L!IsDatePart(i)
  BY DEF L!IsDatePart, L!IsGap
<1>3. \A i : L!Spelled(i)' = L!Spelled(i)
  BY DEF L!Spelled, L!IsDatePart, L!IsGap
<1> QED BY <1>1, <1>2, <1>3

\* The loop goes on behind what it has read: it is not behind a date that is the first
\* of the name, if it was not before and if it does not stand at one.
LEMMA LexerSkips ==
    ASSUME LexerInv, NEW i \in at .. (at + 4), NEW isFresh \in BOOLEAN, L!Resume(i, isFresh),
           i <= Len(parts), date = L!NoDate,
           at = i => isFresh = L!IsGap(at) /\ (~fresh \/ ~L!IsDatePart(at)),
           at # i => L!IsDatePart(at) /\ ~L!Spelled(at)
    PROVE  LexerInv'
<1>1. parts' = parts /\ date' = date /\ at' = i + 1 /\ fresh' = isFresh
  BY DEF L!Resume
<1>2. L!TypeOK /\ L!PlainDateFound /\ at \in Nat /\ Len(parts) \in Nat
  BY LexerAssumption DEF LexerInv, L!LexerContract, L!TypeOK
<1>3. L!TypeOK'
  BY <1>1, <1>2 DEF L!TypeOK
<1>4. L!DateIsSpelled'
  BY <1>1 DEF L!DateIsSpelled, L!NoDate
<1>5. L!PlainDateFound'
  <2> SUFFICES ASSUME NEW k \in 1 .. Len(parts), L!Spelled(k),
                      \A j \in 1 .. (k - 1) : ~L!IsDatePart(j)
               PROVE  i + 1 < k \/ (i + 1 = k /\ isFresh)
    BY <1>1, SameName DEF L!PlainDateFound
  <2>1. at < k \/ (at = k /\ fresh)
    BY <1>2 DEF L!PlainDateFound
  <2>2. L!IsDatePart(k)
    BY DEF L!Spelled
  <2>3. at < k
    BY <2>1, <2>2
  <2>4. at \in 1 .. (k - 1)
    BY <1>2, <2>3 DEF L!TypeOK
  <2>5. at = i
    BY <2>4
  <2>6. i + 1 = k => L!IsGap(i)
    <3>1. i + 1 = k => i \in 1 .. (Len(parts) - 1)
      BY <1>2, <2>4, <2>5
    <3> QED BY <2>2, <3>1, GapOrNot DEF LexerInv
  <2> QED BY <1>2, <2>3, <2>5, <2>6
<1>6. \A k \in 1 .. (Len(parts) - 1) : (L!IsGap(k) # L!IsGap(k + 1))'
  BY SameName, <1>1 DEF LexerInv
<1> QED BY <1>1, <1>3, <1>4, <1>5, <1>6 DEF LexerInv, L!LexerContract

\* A date that is spelled passes every test of the loop.
LEMMA SpelledFound ==
    ASSUME LexerInv, L!Spelled(at)
    PROVE  /\ parts[at + 1].gap \in L!Separators /\ L!IsDatePart(at + 2)
           /\ L!SameGap(at) /\ L!DateAt(at) # L!NoDate
<1>1. at \in Nat \ {0} /\ Len(parts) \in Nat
  BY LexerAssumption DEF LexerInv, L!LexerContract, L!TypeOK
<1>2. /\ at + 4 <= Len(parts) /\ L!IsDatePart(at + 2) /\ L!IsDatePart(at + 4)
      /\ parts[at + 1] = parts[at + 3] /\ parts[at + 1].gap \in L!Separators
      /\ L!FirstValid(parts[at].word, parts[at + 2].word, parts[at + 4].word) # L!NoDate
  BY DEF L!Spelled
<1>3. at + 4 = Len(parts) \/ L!IsGap(at + 5)
  <2>1. at + 4 # Len(parts) => at + 4 \in 1 .. (Len(parts) - 1) /\ (at + 4) + 1 = at + 5
    BY <1>1, <1>2
  <2> QED BY <1>2, <2>1, GapOrNot DEF LexerInv
<1>4. L!DateAt(at) # L!NoDate
  BY <1>2, <1>3 DEF L!DateAt
<1> QED BY <1>2, <1>4 DEF L!SameGap

\* The date that is found is spelled where the loop stands.
LEMMA LexerFinds ==
    ASSUME LexerInv, L!DateAt(at) # L!NoDate, L!SameGap(at), L!IsDatePart(at),
           L!IsDatePart(at + 2), parts[at + 1].gap \in L!Separators, at + 4 <= Len(parts),
           date' = L!DateAt(at), UNCHANGED <<parts, at, fresh>>
    PROVE  LexerInv'
<1> DEFINE found == L!FirstValid(parts[at].word, parts[at + 2].word, parts[at + 4].word)
<1>1. L!DateAt(at) = found /\ L!IsDatePart(at + 4)
  BY DEF L!DateAt
<1>2. at \in Nat \ {0} /\ L!PlainDateFound /\ L!TypeOK
  BY LexerAssumption DEF LexerInv, L!LexerContract, L!TypeOK
<1>3. L!Spelled(at)
  BY <1>1, <1>2 DEF L!Spelled, L!SameGap
<1>4. L!Valid(date')
  BY <1>1, FirstValidRight
<1>5. L!TypeOK'
  <2>1. (date = L!NoDate \/ L!Valid(date))'
    BY <1>4
  <2> QED BY <1>2, <2>1 DEF L!TypeOK
<1>6. L!DateIsSpelled'
  <2>1. L!Spelled(at)'
    <3>1. at' = at /\ parts' = parts
      OBVIOUS
    <3> QED BY <1>3, <3>1, SameName
  <2>2. (date = found)'
    BY <1>1
  <2> QED BY <2>1, <2>2 DEF L!DateIsSpelled
<1>7. L!PlainDateFound'
  BY <1>2, SameName DEF L!PlainDateFound
<1>8. \A k \in 1 .. (Len(parts) - 1) : (L!IsGap(k) # L!IsGap(k + 1))'
  BY SameName DEF LexerInv
<1> QED BY <1>5, <1>6, <1>7, <1>8 DEF LexerInv, L!LexerContract

\* Every step of the loop keeps the invariant: it skips or it finds.
LEMMA LexerNext == LexerInv /\ [L!Next]_lexerVars => LexerInv'
<1> SUFFICES ASSUME LexerInv, [L!Next]_lexerVars PROVE LexerInv' OBVIOUS
<1>1. CASE L!Iterate
  <2>1. /\ date = L!NoDate /\ at + 4 <= Len(parts)
        /\ at \in Nat \ {0} /\ Len(parts) \in Nat
    BY <1>1, LexerAssumption DEF L!Iterate, L!MinParts, LexerInv, L!LexerContract, L!TypeOK
  <2>2. CASE ~fresh \/ ~L!IsDatePart(at)
    <3>1. L!Resume(at, L!IsGap(at))
      BY <1>1, <2>2 DEF L!Iterate
    <3> QED BY <2>1, <2>2, <3>1, GapOrNot, LexerSkips
  <2>3. CASE /\ fresh /\ L!IsDatePart(at)
             /\ ~(/\ parts[at + 1].gap \in L!Separators /\ L!IsDatePart(at + 2)
                  /\ L!SameGap(at) /\ L!DateAt(at) # L!NoDate)
    <3>1. ~L!Spelled(at)
      BY <2>3, SpelledFound
    <3>e. \/ L!Resume(at + 1, TRUE) \/ L!Resume(at + 2, L!IsGap(at + 2))
          \/ L!Resume(at + 3, L!IsGap(at + 3)) \/ L!Resume(at + 4, FALSE)
      BY <1>1, <2>3 DEF L!Iterate
    <3>2. PICK i \in {at + 1, at + 2, at + 3, at + 4}, isFresh \in BOOLEAN :
             L!Resume(i, isFresh)
      BY <3>e, GapOrNot
    <3>3. i = at + 1 \/ i = at + 2 \/ i = at + 3 \/ i = at + 4
      BY <3>2
    <3>4. i \in at .. (at + 4) /\ at # i /\ i <= Len(parts)
      <4> HIDE <3>2
      <4> QED BY <2>1, <3>3
    <3> QED BY <2>1, <2>3, <3>1, <3>2, <3>4, LexerSkips
  <2>4. CASE /\ fresh /\ L!IsDatePart(at)
             /\ parts[at + 1].gap \in L!Separators /\ L!IsDatePart(at + 2)
             /\ L!SameGap(at) /\ L!DateAt(at) # L!NoDate
    <3>1. date' = L!DateAt(at) /\ UNCHANGED <<parts, at, fresh>>
      BY <1>1, <2>4 DEF L!Iterate
    <3> QED BY <2>1, <2>4, <3>1, LexerFinds
  <2> QED BY <2>2, <2>3, <2>4
<1>2. CASE UNCHANGED lexerVars
  <2>1. UNCHANGED <<parts, at, fresh, date>>
    BY <1>2 DEF lexerVars
  <2>t. L!TypeOK'
    <3>1. L!TypeOK BY DEF LexerInv, L!LexerContract
    <3>2. L!Valid(date)' <=> L!Valid(date) BY <2>1 DEF L!Valid, L!DaysIn
    <3> QED BY <2>1, <3>1, <3>2 DEF L!TypeOK
  <2>d. L!DateIsSpelled'
    BY <2>1, SameName DEF LexerInv, L!LexerContract, L!DateIsSpelled
  <2>p. L!PlainDateFound'
    BY <2>1, SameName DEF LexerInv, L!LexerContract, L!PlainDateFound
  <2>2. L!TypeOK' /\ L!DateIsSpelled' /\ L!PlainDateFound'
    BY <2>t, <2>d, <2>p
  <2>3. \A k \in 1 .. (Len(parts) - 1) : (L!IsGap(k) # L!IsGap(k + 1))'
    BY <2>1, SameName DEF LexerInv
  <2> QED BY <2>1, <2>2, <2>3 DEF LexerInv, L!LexerContract
<1> QED BY <1>1, <1>2 DEF L!Next

----------------------------------------------------------------------------
(***************************************************************************)
(* The calls that share the classifier, for any calls and torrents.        *)
(***************************************************************************)

Doings == {"idle", "check", "enter", "joined", "leads", "marked", "runs", "lands", "landed", "done"}
Outcome == {"none", "answered", "by rules", "error", "llm", "panic"}

TroubleTypes ==
    runner \in Nat /\ troubles \in Nat /\ runner <= troubles /\ troubles <= MaxTroubles

CallsTypes ==
    /\ hashesOf \in [Calls -> SUBSET InfoHashes]
    /\ call \in [Calls -> {"waiting", "works", "acked", "failed"}]
    /\ doing \in [C!Goroutines -> Doings]
    /\ flight \in [InfoHashes -> SUBSET C!Goroutines]
    /\ joined \in [C!Goroutines -> SUBSET C!Goroutines]
    /\ outcome \in [C!Goroutines -> Outcome]
    /\ TroubleTypes /\ recent \subseteq InfoHashes
    /\ ranOn \in [C!Goroutines -> 0 .. MaxTroubles]
    /\ held \in [0 .. MaxTroubles -> Nat]

\* A goroutine is one of a call that works, about a torrent that it was given.
Owned ==
    \A g \in C!Goroutines : doing[g] # "idle" => call[g[1]] = "works" /\ g[2] \in hashesOf[g[1]]

\* A flight is about one hash, and only a flight that failed is forgotten before it lands.
Flights ==
    /\ \A h \in InfoHashes : \A l \in flight[h] : l[2] = h
    /\ \A g \in C!Goroutines :
         /\ \A l \in joined[g] : l[2] = g[2]
         /\ doing[g] \in C!InFlight => joined[g] = {g} /\ (flight[g[2]] = {g} \/ g[2] \in unlucky)

\* There is an outcome from the landing on; one that is no classification has a history.
Outcomes ==
    \A g \in C!Goroutines :
        /\ doing[g] \in {"check", "enter", "joined", "leads", "marked", "runs"} =>
             outcome[g] = "none"
        /\ doing[g] \in {"lands", "landed"} => outcome[g] # "none"
        /\ outcome[g] \in {"error", "llm", "panic"} => g[2] \in unlucky
        /\ doing[g] = "done" /\ outcome[g] = "panic" => g[2] \in excused

\* A torrent is accounted for by a goroutine that marked it or has an outcome for it.
Bears(g) == doing[g] # "idle" /\ (doing[g] \in {"marked", "runs"} \/ outcome[g] # "none")
Solid(h) == h \in stored \cup retried \cup excused \/ \E g \in C!Goroutines : g[2] = h /\ Bears(g)

\* What is marked as classified, was skipped for that, or was acknowledged, is accounted for.
Accounted ==
    /\ \A h \in recent : Solid(h)
    /\ \A g \in C!Goroutines : doing[g] = "done" /\ outcome[g] = "none" => Solid(g[2])
    /\ \A c \in Calls : call[c] = "acked" => \A h \in hashesOf[c] : Solid(h)

CallsInv ==
    /\ CallsTypes /\ Owned /\ Flights /\ Outcomes /\ Accounted
    /\ C!SlotsHeld /\ C!ModeOfTheLeader


\* A goroutine is of a call and about a torrent.
LEMMA GoroutineParts ==
    /\ \A g \in C!Goroutines : g[1] \in Calls /\ g[2] \in InfoHashes
    /\ \A c \in Calls, h \in InfoHashes :
         <<c, h>> \in C!Goroutines /\ <<c, h>>[1] = c /\ <<c, h>>[2] = h
    /\ IsFiniteSet(C!Goroutines)
<1>1. \A g \in C!Goroutines : g[1] \in Calls /\ g[2] \in InfoHashes
  BY DEF C!Goroutines
<1>2. \A c \in Calls, h \in InfoHashes :
        <<c, h>> \in C!Goroutines /\ <<c, h>>[1] = c /\ <<c, h>>[2] = h
  BY DEF C!Goroutines
<1>3. IsFiniteSet(C!Goroutines)
  BY CallsAssumption, FS_Product DEF C!Goroutines
<1> QED BY <1>1, <1>2, <1>3

\* Those of a call are the ones about its torrents.
LEMMA OfCall ==
    ASSUME CallsTypes, NEW c \in Calls
    PROVE  /\ \A g : g \in C!Of(c) <=> g \in C!Goroutines /\ g[1] = c /\ g[2] \in hashesOf[c]
           /\ hashesOf[c] \subseteq InfoHashes
<1>1. hashesOf[c] \subseteq InfoHashes
  BY DEF CallsTypes
<1>2. \A g : g \in C!Of(c) <=> g \in C!Goroutines /\ g[1] = c /\ g[2] \in hashesOf[c]
  BY <1>1 DEF C!Of, C!Goroutines
<1> QED BY <1>1, <1>2

\* The calls count as the library does.
LEMMA CallsSets == \A Q : C!Cardinality(Q) = Cardinality(Q)
BY DEF C!Cardinality, Cardinality

\* Before a call is made nothing is in flight, occupied or marked.
LEMMA CallsInit == C!Init => CallsInv
<1> SUFFICES ASSUME C!Init PROVE CallsInv OBVIOUS
<1> USE CallsAssumption DEF C!Init, C!None
<1>1. CallsTypes
  BY DEF CallsTypes, TroubleTypes, Doings, Outcome
<1>2. Owned /\ Flights /\ Outcomes
  BY DEF Owned, Flights, Outcomes, C!InFlight
<1>3. Accounted
  BY DEF Accounted
<1>4. C!SlotsHeld
  <2> SUFFICES ASSUME NEW v \in 0 .. MaxTroubles
               PROVE  held[v] = C!Cardinality(C!RunningOn(v)) /\ held[v] <= Concurrency
    BY DEF C!SlotsHeld
  <2>1. C!RunningOn(v) = {}
    BY DEF C!RunningOn
  <2>2. C!Cardinality(C!RunningOn(v)) = 0
    BY <2>1, CallsSets, FS_EmptySet
  <2> QED BY <2>2
<1>5. C!ModeOfTheLeader
  BY DEF C!ModeOfTheLeader
<1> QED BY <1>1, <1>2, <1>3, <1>4, <1>5 DEF CallsInv

\* A running workflow has its slot.
LEMMA RunnerHolds ==
    ASSUME CallsInv, NEW g \in C!Goroutines, doing[g] = "runs"
    PROVE  held[ranOn[g]] \in Nat \ {0}
<1> DEFINE v == ranOn[g]
<1>1. v \in 0 .. MaxTroubles /\ held[v] \in Nat
  BY DEF CallsInv, CallsTypes
<1>2. held[v] = Cardinality(C!RunningOn(v))
  BY <1>1, CallsSets DEF CallsInv, C!SlotsHeld
<1>3. C!RunningOn(v) \subseteq C!Goroutines /\ g \in C!RunningOn(v)
  BY DEF C!RunningOn
<1>4. held[v] # 0
  BY <1>2, <1>3, GoroutineParts, FS_Subset, FS_EmptySet
<1> QED BY <1>1, <1>4

\* Only troubles are bounded, and a swap of the runner is one.
LEMMA TroublesNext == CallsInv /\ [C!Next]_callsVars => TroubleTypes'
<1> SUFFICES ASSUME CallsInv, [C!Next]_callsVars PROVE TroubleTypes' OBVIOUS
<1> USE DEF TroubleTypes, C!envVars
<1>0. TroubleTypes /\ MaxTroubles \in Nat
  BY CallsAssumption DEF CallsInv, CallsTypes
<1>1. ASSUME NEW c \in Calls, C!Deliver(c) PROVE TroubleTypes'
  <2>1. runner' = runner /\ (troubles' = troubles \/ C!Trouble)
    BY <1>1 DEF C!Deliver
  <2> QED BY <1>0, <2>1 DEF C!Trouble
<1>2. ASSUME NEW g \in C!Goroutines,
             \/ C!Check(g) \/ C!Join(g) \/ C!Lead(g) \/ C!Mark(g) \/ C!Acquire(g)
             \/ C!Land(g) \/ C!Collect(g)
      PROVE  TroubleTypes'
  <2>1. UNCHANGED <<runner, troubles>>
    BY <1>2 DEF C!Check, C!Join, C!Lead, C!Mark, C!Acquire, C!Land, C!Collect
  <2> QED BY <1>0, <2>1
<1>3. ASSUME NEW g \in C!Goroutines, C!Finish(g) PROVE TroubleTypes'
  <2>1. runner' = runner /\ (troubles' = troubles \/ C!Trouble)
    BY <1>3 DEF C!Finish
  <2> QED BY <1>0, <2>1 DEF C!Trouble
<1>4. ASSUME NEW c \in Calls, C!Handle(c) PROVE TroubleTypes'
  <2>1. UNCHANGED <<runner, troubles>>
    BY <1>4 DEF C!Handle
  <2> QED BY <1>0, <2>1
<1>5. CASE C!Swap
  BY <1>0, <1>5 DEF C!Swap, C!Trouble
<1>6. ASSUME NEW h \in InfoHashes, C!Expire(h) PROVE TroubleTypes'
  BY <1>0, <1>6 DEF C!Expire
<1>7. CASE UNCHANGED callsVars
  BY <1>0, <1>7 DEF callsVars
<1> QED BY <1>1, <1>2, <1>3, <1>4, <1>5, <1>6, <1>7 DEF C!Next, C!Work, C!Works

\* What is counted one up or down is a number.
LEMMA Counting ==
    ASSUME NEW V, NEW f \in [V -> Nat], NEW v \in V
    PROVE  /\ [f EXCEPT ![v] = @ + 1] \in [V -> Nat]
           /\ f[v] # 0 => [f EXCEPT ![v] = @ - 1] \in [V -> Nat]
OBVIOUS

\* Every step keeps the types; what is given back was held.
LEMMA CallsTypesNext == CallsInv /\ [C!Next]_callsVars => CallsTypes'
<1> SUFFICES ASSUME CallsInv, [C!Next]_callsVars PROVE CallsTypes' OBVIOUS
<1> USE DEF C!workVars, C!storeVars, C!envVars, C!Hash, C!None, Outcome
<1>0. TroubleTypes'
  BY TroublesNext
<1>t. /\ hashesOf \in [Calls -> SUBSET InfoHashes]
      /\ call \in [Calls -> {"waiting", "works", "acked", "failed"}]
      /\ doing \in [C!Goroutines -> Doings]
      /\ flight \in [InfoHashes -> SUBSET C!Goroutines]
      /\ joined \in [C!Goroutines -> SUBSET C!Goroutines]
      /\ outcome \in [C!Goroutines -> Outcome]
      /\ ranOn \in [C!Goroutines -> 0 .. MaxTroubles]
      /\ held \in [0 .. MaxTroubles -> Nat]
      /\ recent \subseteq InfoHashes
  BY DEF CallsInv, CallsTypes
<1>1. ASSUME NEW c \in Calls, C!Deliver(c) PROVE CallsTypes'
  <2>1. doing' \in [C!Goroutines -> Doings]
    BY <1>t, <1>1 DEF C!Deliver, Doings
  <2> QED BY <1>0, <1>t, <1>1, <2>1 DEF C!Deliver, CallsTypes
<1>2. ASSUME NEW g \in C!Goroutines, C!Check(g) PROVE CallsTypes'
  <2>1. doing' \in [C!Goroutines -> Doings]
    BY <1>t, <1>2 DEF C!Check, C!Moves, Doings
  <2> QED BY <1>0, <1>t, <1>2, <2>1 DEF C!Check, CallsTypes
<1>3. ASSUME NEW g \in C!Goroutines, C!Join(g) \/ C!Lead(g) PROVE CallsTypes'
  <2>1. doing' \in [C!Goroutines -> Doings]
    BY <1>t, <1>3 DEF C!Join, C!Lead, C!Moves, Doings
  <2>2. flight' \in [InfoHashes -> SUBSET C!Goroutines]
    <3>1. flight' = flight \/ flight' = [flight EXCEPT ![g[2]] = {g}]
      BY <1>3 DEF C!Join, C!Lead
    <3>2. {g} \in SUBSET C!Goroutines
      OBVIOUS
    <3> QED BY <1>t, <3>1, <3>2
  <2>3. flight[g[2]] \in SUBSET C!Goroutines /\ {g} \in SUBSET C!Goroutines
    <3>1. g[2] \in InfoHashes
      BY GoroutineParts
    <3> QED BY <1>t, <3>1
  <2>4. joined' \in [C!Goroutines -> SUBSET C!Goroutines]
    <3>1. joined' = [joined EXCEPT ![g] = flight[g[2]]] \/ joined' = [joined EXCEPT ![g] = {g}]
      BY <1>3 DEF C!Join, C!Lead
    <3> QED BY <1>t, <2>3, <3>1
  <2> QED BY <1>0, <1>t, <1>3, <2>1, <2>2, <2>4 DEF C!Join, C!Lead, CallsTypes
<1>4. ASSUME NEW g \in C!Goroutines, C!Mark(g) PROVE CallsTypes'
  <2>1. doing' \in [C!Goroutines -> Doings]
    BY <1>t, <1>4 DEF C!Mark, C!Moves, Doings
  <2>2. ranOn' \in [C!Goroutines -> 0 .. MaxTroubles]
    <3>1. runner \in 0 .. MaxTroubles
      <4>1. MaxTroubles \in Nat
        BY CallsAssumption
      <4>2. TroubleTypes
        BY DEF CallsInv, CallsTypes
      <4> QED BY <4>1, <4>2 DEF TroubleTypes
    <3> QED BY <1>t, <1>4, <3>1 DEF C!Mark
  <2>3. recent' \subseteq InfoHashes
    <3>1. recent' = recent \cup {g[2]}
      BY <1>4 DEF C!Mark
    <3>2. g[2] \in InfoHashes
      BY GoroutineParts
    <3>3. recent \subseteq InfoHashes
      BY <1>t
    <3> QED BY <3>1, <3>2, <3>3
  <2>4. UNCHANGED <<flight, joined, outcome, held, call, hashesOf>>
    BY <1>4 DEF C!Mark
  <2> QED BY <1>0, <1>t, <2>1, <2>2, <2>3, <2>4 DEF CallsTypes
<1>5. ASSUME NEW g \in C!Goroutines, C!Acquire(g) PROVE CallsTypes'
  <2>1. doing' \in [C!Goroutines -> Doings]
    BY <1>t, <1>5 DEF C!Acquire, C!Moves, Doings
  <2>2. held' \in [0 .. MaxTroubles -> Nat]
    BY <1>t, <1>5, Counting DEF C!Acquire
  <2> QED BY <1>0, <1>t, <1>5, <2>1, <2>2 DEF C!Acquire, CallsTypes
<1>6. ASSUME NEW g \in C!Goroutines, C!Finish(g) PROVE CallsTypes'
  <2>1. held[ranOn[g]] \in Nat \ {0}
    BY <1>6, RunnerHolds DEF C!Finish
  <2>2. held' = [held EXCEPT ![ranOn[g]] = @ - 1]
    BY <1>6 DEF C!Finish, C!Freed
  <2>3. held' \in [0 .. MaxTroubles -> Nat]
    BY <1>t, <2>1, <2>2, Counting
  <2>4. outcome' \in [C!Goroutines -> Outcome]
    BY <1>t, <1>6 DEF C!Finish
  <2>5. doing' \in [C!Goroutines -> Doings]
    BY <1>t, <1>6 DEF C!Finish, C!Moves, Doings
  <2> QED BY <1>0, <1>t, <1>6, <2>3, <2>4, <2>5 DEF C!Finish, CallsTypes
<1>7. ASSUME NEW g \in C!Goroutines, C!Land(g) PROVE CallsTypes'
  <2>1. doing' \in [C!Goroutines -> Doings]
    BY <1>t, <1>7 DEF C!Land, Doings
  <2> QED BY <1>0, <1>t, <1>7, <2>1, GoroutineParts DEF C!Land, CallsTypes
<1>8. ASSUME NEW g \in C!Goroutines, C!Collect(g) PROVE CallsTypes'
  <2>1. doing' \in [C!Goroutines -> Doings]
    BY <1>t, <1>8 DEF C!Collect, C!Moves, Doings
  <2> QED BY <1>0, <1>t, <1>8, <2>1, GoroutineParts DEF C!Collect, CallsTypes
<1>9. ASSUME NEW c \in Calls, C!Handle(c) PROVE CallsTypes'
  <2>1. doing' \in [C!Goroutines -> Doings]
    BY <1>t, <1>9 DEF C!Handle, Doings
  <2> QED BY <1>0, <1>t, <1>9, <2>1 DEF C!Handle, CallsTypes
<1>10. CASE C!Swap
  BY <1>0, <1>t, <1>10 DEF C!Swap, CallsTypes
<1>11. ASSUME NEW h \in InfoHashes, C!Expire(h) PROVE CallsTypes'
  BY <1>0, <1>t, <1>11 DEF C!Expire, CallsTypes
<1>12. CASE UNCHANGED callsVars
  BY <1>0, <1>t, <1>12 DEF callsVars, CallsTypes
<1> QED BY <1>1, <1>2, <1>3, <1>4, <1>5, <1>6, <1>7, <1>8, <1>9, <1>10, <1>11, <1>12
        DEF C!Next, C!Work, C!Works

\* A call works from its delivery until all its goroutines are done.
LEMMA OwnedNext == CallsInv /\ [C!Next]_callsVars => Owned'
<1> SUFFICES ASSUME CallsInv, [C!Next]_callsVars PROVE Owned' OBVIOUS
<1> USE DEF C!Moves, C!workVars, C!storeVars, C!envVars, Owned
<1>0. CallsTypes /\ Owned
  BY DEF CallsInv
<1>t. /\ call \in [Calls -> {"waiting", "works", "acked", "failed"}]
      /\ doing \in [C!Goroutines -> Doings]
  BY <1>0 DEF CallsTypes
<1>1. ASSUME NEW c \in Calls, C!Deliver(c) PROVE Owned'
  BY <1>0, <1>t, <1>1, OfCall, GoroutineParts DEF C!Deliver
<1>2. ASSUME NEW g \in C!Goroutines, C!Check(g) \/ C!Join(g) \/ C!Lead(g) \/ C!Mark(g)
      PROVE  Owned'
  BY <1>0, <1>t, <1>2 DEF C!Check, C!Join, C!Lead, C!Mark
<1>3. ASSUME NEW g \in C!Goroutines, C!Acquire(g) \/ C!Finish(g) \/ C!Land(g) \/ C!Collect(g)
      PROVE  Owned'
  BY <1>0, <1>t, <1>3 DEF C!Acquire, C!Finish, C!Land, C!Collect
<1>4. ASSUME NEW c \in Calls, C!Handle(c) PROVE Owned'
  BY <1>0, <1>t, <1>4, OfCall, GoroutineParts DEF C!Handle
<1>5. CASE C!Swap
  BY <1>0, <1>5 DEF C!Swap
<1>6. ASSUME NEW h \in InfoHashes, C!Expire(h) PROVE Owned'
  BY <1>0, <1>6 DEF C!Expire
<1>7. CASE UNCHANGED callsVars
  BY <1>0, <1>7 DEF callsVars
<1> QED BY <1>1, <1>2, <1>3, <1>4, <1>5, <1>6, <1>7 DEF C!Next, C!Work, C!Works


\* A flight that is not forgotten has one leader until it lands.
LEMMA FlightsNext == CallsInv /\ [C!Next]_callsVars => Flights'
<1> SUFFICES ASSUME CallsInv, [C!Next]_callsVars PROVE Flights' OBVIOUS
<1> USE DEF C!Moves, C!workVars, C!storeVars, C!envVars, C!Hash, Flights, C!InFlight
<1>0. CallsTypes /\ Flights /\ Outcomes /\ Owned
  BY DEF CallsInv
<1>t. /\ doing \in [C!Goroutines -> Doings]
      /\ flight \in [InfoHashes -> SUBSET C!Goroutines]
      /\ joined \in [C!Goroutines -> SUBSET C!Goroutines]
      /\ outcome \in [C!Goroutines -> Outcome]
  BY <1>0 DEF CallsTypes
<1>1. ASSUME NEW c \in Calls, C!Deliver(c) PROVE Flights'
  BY <1>0, <1>t, <1>1 DEF C!Deliver
<1>2. ASSUME NEW g \in C!Goroutines, C!Check(g) PROVE Flights'
  BY <1>0, <1>t, <1>2 DEF C!Check
<1>3. ASSUME NEW g \in C!Goroutines, C!Join(g) PROVE Flights'
  BY <1>0, <1>t, <1>3, GoroutineParts DEF C!Join
<1>4. ASSUME NEW g \in C!Goroutines, C!Lead(g) PROVE Flights'
  BY <1>0, <1>t, <1>4, GoroutineParts DEF C!Lead
<1>5. ASSUME NEW g \in C!Goroutines, C!Mark(g) \/ C!Acquire(g) PROVE Flights'
  BY <1>0, <1>t, <1>5 DEF C!Mark, C!Acquire
<1>6. ASSUME NEW g \in C!Goroutines, C!Finish(g) PROVE Flights'
  <2>1. unlucky \subseteq unlucky'
    BY <1>6 DEF C!Finish
  <2> QED BY <1>0, <1>t, <1>6, <2>1 DEF C!Finish
<1>7. ASSUME NEW g \in C!Goroutines, C!Land(g) PROVE Flights'
  BY <1>0, <1>t, <1>7, GoroutineParts DEF C!Land
<1>8. ASSUME NEW g \in C!Goroutines, C!Collect(g) PROVE Flights'
  BY <1>0, <1>t, <1>8, GoroutineParts DEF C!Collect, Outcomes
<1>9. ASSUME NEW c \in Calls, C!Handle(c) PROVE Flights'
  BY <1>0, <1>t, <1>9 DEF C!Handle
<1>10. CASE C!Swap
  BY <1>0, <1>10 DEF C!Swap
<1>11. ASSUME NEW h \in InfoHashes, C!Expire(h) PROVE Flights'
  BY <1>0, <1>11 DEF C!Expire
<1>12. CASE UNCHANGED callsVars
  BY <1>0, <1>12 DEF callsVars
<1> QED BY <1>1, <1>2, <1>3, <1>4, <1>5, <1>6, <1>7, <1>8, <1>9, <1>10, <1>11, <1>12
        DEF C!Next, C!Work, C!Works

\* Outcomes are set at the end of a workflow and passed on at the landing.
LEMMA OutcomesNext == CallsInv /\ [C!Next]_callsVars => Outcomes'
<1> SUFFICES ASSUME CallsInv, [C!Next]_callsVars PROVE Outcomes' OBVIOUS
<1> USE DEF C!Moves, C!workVars, C!storeVars, C!envVars, C!Hash, Outcomes, C!None
<1>0. CallsTypes /\ Flights /\ Outcomes /\ Owned
  BY DEF CallsInv
<1>t. /\ doing \in [C!Goroutines -> Doings]
      /\ joined \in [C!Goroutines -> SUBSET C!Goroutines]
      /\ outcome \in [C!Goroutines -> Outcome]
  BY <1>0 DEF CallsTypes
<1>1. ASSUME NEW c \in Calls, C!Deliver(c) PROVE Outcomes'
  BY <1>0, <1>t, <1>1 DEF C!Deliver
<1>2. ASSUME NEW g \in C!Goroutines, C!Check(g) PROVE Outcomes'
  BY <1>0, <1>t, <1>2 DEF C!Check
<1>3. ASSUME NEW g \in C!Goroutines, C!Join(g) \/ C!Lead(g) PROVE Outcomes'
  BY <1>0, <1>t, <1>3 DEF C!Join, C!Lead
<1>4. ASSUME NEW g \in C!Goroutines, C!Mark(g) \/ C!Acquire(g) PROVE Outcomes'
  BY <1>0, <1>t, <1>4 DEF C!Mark, C!Acquire
<1>5. ASSUME NEW g \in C!Goroutines, C!Finish(g) PROVE Outcomes'
  <2>1. PICK how \in Outcome \ {"none"} :
           /\ outcome' = [outcome EXCEPT ![g] = how]
           /\ unlucky' = IF how \in C!Classified THEN unlucky ELSE unlucky \cup {g[2]}
    BY <1>5 DEF C!Finish, Outcome
  <2>2. doing[g] = "runs" /\ doing' = [doing EXCEPT ![g] = "lands"] /\ excused' = excused
    BY <1>5 DEF C!Finish
  <2> QED BY <1>0, <1>t, <2>1, <2>2 DEF C!Classified
<1>6. ASSUME NEW g \in C!Goroutines, C!Land(g) PROVE Outcomes'
  BY <1>0, <1>t, <1>6 DEF C!Land, Flights
<1>7. ASSUME NEW g \in C!Goroutines, C!Collect(g) PROVE Outcomes'
  BY <1>0, <1>t, <1>7 DEF C!Collect
<1>8. ASSUME NEW c \in Calls, C!Handle(c) PROVE Outcomes'
  BY <1>0, <1>t, <1>8 DEF C!Handle
<1>9. CASE C!Swap
  BY <1>0, <1>9 DEF C!Swap
<1>10. ASSUME NEW h \in InfoHashes, C!Expire(h) PROVE Outcomes'
  BY <1>0, <1>10 DEF C!Expire
<1>11. CASE UNCHANGED callsVars
  BY <1>0, <1>11 DEF callsVars
<1> QED BY <1>1, <1>2, <1>3, <1>4, <1>5, <1>6, <1>7, <1>8, <1>9, <1>10, <1>11
        DEF C!Next, C!Work, C!Works

\* Who joins gets the outcome of the leader, and its mode with it.
LEMMA ModeNext == CallsInv /\ [C!Next]_callsVars => C!ModeOfTheLeader'
<1> SUFFICES ASSUME CallsInv, [C!Next]_callsVars PROVE C!ModeOfTheLeader' OBVIOUS
<1> USE DEF C!Moves, C!workVars, C!storeVars, C!envVars, C!None, C!ModeOfTheLeader
<1>0. CallsTypes /\ Flights /\ Outcomes /\ C!ModeOfTheLeader
  BY DEF CallsInv
<1>t. /\ doing \in [C!Goroutines -> Doings]
      /\ joined \in [C!Goroutines -> SUBSET C!Goroutines]
      /\ outcome \in [C!Goroutines -> Outcome]
  BY <1>0 DEF CallsTypes
<1>1. ASSUME NEW c \in Calls, C!Deliver(c) PROVE C!ModeOfTheLeader'
  BY <1>0, <1>t, <1>1 DEF C!Deliver
<1>2. ASSUME NEW g \in C!Goroutines, C!Check(g) \/ C!Mark(g) \/ C!Acquire(g) \/ C!Collect(g)
      PROVE  C!ModeOfTheLeader'
  BY <1>0, <1>t, <1>2 DEF C!Check, C!Mark, C!Acquire, C!Collect
<1>3. ASSUME NEW g \in C!Goroutines, C!Join(g) \/ C!Lead(g) PROVE C!ModeOfTheLeader'
  BY <1>0, <1>t, <1>3 DEF C!Join, C!Lead, Outcomes
<1>4. ASSUME NEW g \in C!Goroutines, C!Finish(g) PROVE C!ModeOfTheLeader'
  <2>1. PICK how : /\ outcome' = [outcome EXCEPT ![g] = how]
                   /\ how = "by rules" => ~C!Strict(g)
                   /\ how = "llm" => C!Strict(g)
    BY <1>4 DEF C!Finish
  <2>2. joined' = joined /\ joined[g] = {g}
    BY <1>0, <1>4 DEF C!Finish, Flights, C!InFlight
  <2> QED BY <1>0, <1>t, <2>1, <2>2
<1>5. ASSUME NEW g \in C!Goroutines, C!Land(g) PROVE C!ModeOfTheLeader'
  <2>1. joined[g] = {g}
    BY <1>0, <1>5 DEF C!Land, Flights, C!InFlight
  <2> QED BY <1>0, <1>t, <1>5, <2>1 DEF C!Land
<1>6. ASSUME NEW c \in Calls, C!Handle(c) PROVE C!ModeOfTheLeader'
  BY <1>0, <1>6 DEF C!Handle
<1>7. CASE C!Swap
  BY <1>0, <1>7 DEF C!Swap
<1>8. ASSUME NEW h \in InfoHashes, C!Expire(h) PROVE C!ModeOfTheLeader'
  BY <1>0, <1>8 DEF C!Expire
<1>9. CASE UNCHANGED callsVars
  BY <1>0, <1>9 DEF callsVars
<1> QED BY <1>1, <1>2, <1>3, <1>4, <1>5, <1>6, <1>7, <1>8, <1>9
        DEF C!Next, C!Work, C!Works

\* A slot is taken and given back with the workflow that runs.
LEMMA SlotsNext == CallsInv /\ [C!Next]_callsVars => C!SlotsHeld'
<1> SUFFICES ASSUME CallsInv, [C!Next]_callsVars PROVE C!SlotsHeld' OBVIOUS
<1> USE DEF C!Moves, C!workVars, C!storeVars, C!envVars
<1>0. CallsTypes /\ Owned /\ C!SlotsHeld
  BY DEF CallsInv
<1>t. /\ doing \in [C!Goroutines -> Doings]
      /\ ranOn \in [C!Goroutines -> 0 .. MaxTroubles]
      /\ held \in [0 .. MaxTroubles -> Nat]
  BY <1>0 DEF CallsTypes
<1> DEFINE Runs(g, v) == doing[g] = "runs" /\ ranOn[g] = v
<1>s. ASSUME held' = held,
             \A g \in C!Goroutines, v \in 0 .. MaxTroubles : Runs(g, v)' <=> Runs(g, v)
      PROVE  C!SlotsHeld'
  <2> SUFFICES ASSUME NEW v \in 0 .. MaxTroubles
               PROVE  held[v] = C!Cardinality(C!RunningOn(v)') /\ held[v] <= Concurrency
    BY <1>s DEF C!SlotsHeld
  <2>1. C!RunningOn(v)' = C!RunningOn(v)
    BY <1>s DEF C!RunningOn
  <2> QED BY <1>0, <2>1 DEF C!SlotsHeld
<1>1. ASSUME NEW c \in Calls, C!Deliver(c) PROVE C!SlotsHeld'
  <2>1. \A g \in C!Of(c) : g \in C!Goroutines => doing[g] = "idle"
    BY <1>0, <1>1, OfCall DEF C!Deliver, Owned
  <2> QED BY <1>s, <1>t, <1>1, <2>1 DEF C!Deliver
<1>2. ASSUME NEW g \in C!Goroutines, C!Check(g) \/ C!Join(g) \/ C!Lead(g) \/ C!Collect(g)
      PROVE  C!SlotsHeld'
  <2>1. held' = held /\ ranOn' = ranOn /\ doing[g] # "runs"
    BY <1>2 DEF C!Check, C!Join, C!Lead, C!Collect
  <2>2. PICK to \in Doings \ {"runs"} : doing' = [doing EXCEPT ![g] = to]
    BY <1>2 DEF C!Check, C!Join, C!Lead, C!Collect, Doings
  <2>3. \A w \in C!Goroutines : doing'[w] = IF w = g THEN to ELSE doing[w]
    BY <1>t, <2>2
  <2> QED BY <1>s, <2>1, <2>3
<1>3. ASSUME NEW g \in C!Goroutines, C!Mark(g) PROVE C!SlotsHeld'
  <2>1. \A w \in C!Goroutines : /\ doing'[w] = IF w = g THEN "marked" ELSE doing[w]
                                /\ w # g => ranOn'[w] = ranOn[w]
    BY <1>t, <1>3 DEF C!Mark
  <2> QED BY <1>s, <1>3, <2>1 DEF C!Mark
<1>4. ASSUME NEW g \in C!Goroutines, C!Acquire(g) PROVE C!SlotsHeld'
  <2> DEFINE at0 == ranOn[g]
  <2>1. at0 \in 0 .. MaxTroubles /\ held[at0] \in Nat
    BY <1>t
  <2>2. /\ doing[g] # "runs" /\ held[at0] < Concurrency /\ ranOn' = ranOn
        /\ \A w \in C!Goroutines : doing'[w] = IF w = g THEN "runs" ELSE doing[w]
        /\ \A v \in 0 .. MaxTroubles : held'[v] = IF v = at0 THEN held[v] + 1 ELSE held[v]
    BY <1>t, <1>4 DEF C!Acquire
  <2> SUFFICES ASSUME NEW v \in 0 .. MaxTroubles
               PROVE  held'[v] = Cardinality(C!RunningOn(v)') /\ held'[v] <= Concurrency
    BY CallsSets DEF C!SlotsHeld
  <2>3. held[v] = Cardinality(C!RunningOn(v)) /\ held[v] <= Concurrency /\ held[v] \in Nat
    BY <1>0, <1>t, CallsSets DEF C!SlotsHeld
  <2>4. CASE v # at0
    <3>1. C!RunningOn(v)' = C!RunningOn(v)
      BY <2>2, <2>4 DEF C!RunningOn
    <3> QED BY <2>2, <2>3, <2>4, <3>1
  <2>5. CASE v = at0
    <3>1. C!RunningOn(v)' = C!RunningOn(v) \cup {g} /\ g \notin C!RunningOn(v)
      BY <2>2, <2>5 DEF C!RunningOn
    <3>2. IsFiniteSet(C!RunningOn(v))
      BY GoroutineParts, FS_Subset DEF C!RunningOn
    <3>3. Cardinality(C!RunningOn(v)') = Cardinality(C!RunningOn(v)) + 1
      BY <3>1, <3>2, FS_AddElement
    <3>4. held'[v] = held[v] + 1 /\ held[v] < Concurrency
      BY <2>2, <2>5
    <3>5. Concurrency \in Nat
      BY CallsAssumption
    <3> QED BY <2>3, <3>3, <3>4, <3>5
  <2> QED BY <2>4, <2>5
<1>5. ASSUME NEW g \in C!Goroutines, C!Finish(g) PROVE C!SlotsHeld'
  <2> DEFINE at0 == ranOn[g]
  <2>1. at0 \in 0 .. MaxTroubles /\ held[at0] \in Nat \ {0}
    BY <1>t, <1>5, RunnerHolds DEF C!Finish
  <2>2. /\ doing[g] = "runs" /\ ranOn' = ranOn
        /\ \A w \in C!Goroutines : doing'[w] = IF w = g THEN "lands" ELSE doing[w]
        /\ held' = [held EXCEPT ![at0] = @ - 1]
    BY <1>t, <1>5 DEF C!Finish, C!Freed
  <2>e. \A v \in 0 .. MaxTroubles : held'[v] = IF v = at0 THEN held[v] - 1 ELSE held[v]
    BY <1>t, <2>2
  <2> SUFFICES ASSUME NEW v \in 0 .. MaxTroubles
               PROVE  held'[v] = Cardinality(C!RunningOn(v)') /\ held'[v] <= Concurrency
    BY CallsSets DEF C!SlotsHeld
  <2>3. held[v] = Cardinality(C!RunningOn(v)) /\ held[v] <= Concurrency /\ held[v] \in Nat
    BY <1>0, <1>t, CallsSets DEF C!SlotsHeld
  <2>4. CASE v # at0
    <3>1. C!RunningOn(v)' = C!RunningOn(v)
      BY <2>2, <2>4 DEF C!RunningOn
    <3> QED BY <2>e, <2>3, <2>4, <3>1
  <2>5. CASE v = at0
    <3>1. C!RunningOn(v)' = C!RunningOn(v) \ {g} /\ g \in C!RunningOn(v)
      BY <2>2, <2>5 DEF C!RunningOn
    <3>2. IsFiniteSet(C!RunningOn(v))
      BY GoroutineParts, FS_Subset DEF C!RunningOn
    <3>3. Cardinality(C!RunningOn(v)') = Cardinality(C!RunningOn(v)) - 1
      BY <3>1, <3>2, FS_RemoveElement
    <3>4. held'[v] = held[v] - 1
      BY <2>e, <2>5
    <3>5. Concurrency \in Nat
      BY CallsAssumption
    <3> QED BY <2>3, <3>3, <3>4, <3>5
  <2> QED BY <2>4, <2>5
<1>6. ASSUME NEW g \in C!Goroutines, C!Land(g) PROVE C!SlotsHeld'
  <2>1. \A w \in C!Goroutines : doing'[w] = doing[w] \/ (doing[w] # "runs" /\ doing'[w] # "runs")
    BY <1>t, <1>6 DEF C!Land
  <2> QED BY <1>s, <1>6, <2>1 DEF C!Land
<1>7. ASSUME NEW c \in Calls, C!Handle(c) PROVE C!SlotsHeld'
  <2>1. \A g \in C!Of(c) : doing[g] # "runs"
    BY <1>7 DEF C!Handle, C!Ended
  <2> QED BY <1>s, <1>t, <1>7, <2>1 DEF C!Handle
<1>8. CASE C!Swap
  BY <1>s, <1>8 DEF C!Swap
<1>9. ASSUME NEW h \in InfoHashes, C!Expire(h) PROVE C!SlotsHeld'
  BY <1>s, <1>9 DEF C!Expire
<1>10. CASE UNCHANGED callsVars
  BY <1>s, <1>10 DEF callsVars
<1> QED BY <1>1, <1>2, <1>3, <1>4, <1>5, <1>6, <1>7, <1>8, <1>9, <1>10
        DEF C!Next, C!Work, C!Works

\* A goroutine that bears its torrent does so until its call is handled.
LEMMA BearsUntilHandled ==
    ASSUME CallsInv, NEW g \in C!Goroutines, C!Works(g), NEW w \in C!Goroutines, Bears(w)
    PROVE  Bears(w)'
<1> USE DEF C!Moves, C!workVars, C!storeVars, C!envVars, C!None, Bears
<1>0. Outcomes
  BY DEF CallsInv
<1>t. /\ doing \in [C!Goroutines -> Doings]
      /\ outcome \in [C!Goroutines -> Outcome]
  BY DEF CallsInv, CallsTypes
<1>1. CASE C!Check(g) \/ C!Join(g) \/ C!Lead(g) \/ C!Mark(g) \/ C!Acquire(g) \/ C!Collect(g)
  BY <1>0, <1>t, <1>1 DEF C!Check, C!Join, C!Lead, C!Mark, C!Acquire, C!Collect, Outcomes
<1>2. CASE C!Finish(g)
  <2>1. PICK how : how # "none" /\ outcome' = [outcome EXCEPT ![g] = how]
    BY <1>2 DEF C!Finish
  <2> QED BY <1>t, <1>2, <2>1 DEF C!Finish
<1>3. CASE C!Land(g)
  BY <1>0, <1>t, <1>3 DEF C!Land, Outcomes
<1> QED BY <1>1, <1>2, <1>3 DEF C!Works

\* What is accounted for stays so.
LEMMA SolidStays ==
    ASSUME CallsInv, C!Next, NEW h \in InfoHashes, Solid(h)
    PROVE  Solid(h)'
<1> USE DEF C!workVars, C!storeVars, C!envVars
<1>0. CallsTypes /\ Owned /\ Outcomes
  BY DEF CallsInv
<1>t. /\ doing \in [C!Goroutines -> Doings]
      /\ outcome \in [C!Goroutines -> Outcome]
  BY DEF CallsInv, CallsTypes
<1>s. ASSUME stored \subseteq stored', retried \subseteq retried', excused \subseteq excused',
             \A g \in C!Goroutines : Bears(g) => Bears(g)'
      PROVE  Solid(h)'
  BY <1>s DEF Solid
<1>1. ASSUME NEW g \in C!Goroutines, C!Works(g) PROVE Solid(h)'
  <2>1. \A w \in C!Goroutines : Bears(w) => Bears(w)'
    BY <1>1, BearsUntilHandled
  <2>2. stored' = stored /\ retried' = retried /\ excused \subseteq excused'
    BY <1>1 DEF C!Works, C!Check, C!Join, C!Lead, C!Mark, C!Acquire, C!Finish, C!Land, C!Collect
  <2> QED BY <1>s, <2>1, <2>2
<1>2. ASSUME NEW c \in Calls, C!Handle(c) PROVE Solid(h)'
  <2> DEFINE good == C!With(c, C!Classified)
             pause == C!With(c, {"llm"})
  <2>1. \/ /\ pause = {} /\ stored' = stored \cup good /\ excused' = excused
           /\ retried' = (retried \cup C!RetryableOf(c)) \ good
        \/ /\ stored' = stored /\ excused' = excused \cup (good \cup pause)
           /\ retried' = retried \cup C!RetryableOf(c)
    BY <1>2 DEF C!Handle
  <2>2. /\ stored \subseteq stored' /\ excused \subseteq excused'
        /\ retried \subseteq (retried' \cup stored')
    BY <2>1
  <2>3. good \cup pause \cup C!RetryableOf(c) \subseteq stored' \cup retried' \cup excused'
    BY <2>1
  <2>4. CASE h \in stored \cup retried \cup excused
    BY <2>2, <2>4 DEF Solid
  <2>5. ASSUME NEW g \in C!Goroutines, g[2] = h, Bears(g) PROVE Solid(h)'
    <3>1. CASE g \notin C!Of(c)
      <4>1. doing'[g] = doing[g] /\ outcome' = outcome
        BY <1>t, <1>2, <3>1 DEF C!Handle
      <4>2. Bears(g)'
        BY <2>5, <4>1 DEF Bears
      <4> QED BY <2>5, <4>2 DEF Solid
    <3>2. CASE g \in C!Of(c)
      <4>1. doing[g] = "done"
        BY <1>2, <3>2 DEF C!Handle, C!Ended
      <4>2. outcome[g] \in Outcome \ {"none"}
        BY <1>t, <2>5, <4>1 DEF Bears
      <4>3. outcome[g] = "panic" => h \in excused
        BY <1>0, <2>5, <4>1 DEF Outcomes
      <4>4. outcome[g] # "panic" => h \in good \cup pause \cup C!RetryableOf(c)
        BY <2>5, <3>2, <4>2 DEF C!With, C!RetryableOf, C!Classified, C!Hash, Outcome
      <4> QED BY <2>2, <2>3, <4>3, <4>4 DEF Solid
    <3> QED BY <3>1, <3>2
  <2> QED BY <2>4, <2>5 DEF Solid
<1>3. ASSUME NEW c \in Calls, C!Deliver(c) PROVE Solid(h)'
  <2>1. \A g \in C!Goroutines : doing[g] # "idle" => g \notin C!Of(c)
    BY <1>0, <1>3, OfCall DEF C!Deliver, Owned
  <2>2. \A g \in C!Goroutines : Bears(g) => Bears(g)'
    BY <1>3, <2>1 DEF C!Deliver, Bears
  <2> QED BY <1>s, <1>3, <2>2 DEF C!Deliver
<1>4. CASE C!Swap \/ \E k \in InfoHashes : C!Expire(k)
  <2>1. \A g \in C!Goroutines : Bears(g) => Bears(g)'
    BY <1>4 DEF C!Swap, C!Expire, Bears
  <2> QED BY <1>s, <1>4, <2>1 DEF C!Swap, C!Expire
<1> QED BY <1>1, <1>2, <1>3, <1>4 DEF C!Next, C!Work

\* A torrent that is marked, skipped or acknowledged is accounted for after every step.
LEMMA AccountedNext == CallsInv /\ [C!Next]_callsVars => Accounted'
<1> SUFFICES ASSUME CallsInv, [C!Next]_callsVars PROVE Accounted' OBVIOUS
<1> USE DEF C!Moves, C!workVars, C!storeVars, C!envVars, C!None
<1>0. CallsTypes /\ Owned /\ Outcomes /\ Accounted
  BY DEF CallsInv
<1>t. /\ doing \in [C!Goroutines -> Doings]
      /\ outcome \in [C!Goroutines -> Outcome]
      /\ hashesOf \in [Calls -> SUBSET InfoHashes]
      /\ call \in [Calls -> {"waiting", "works", "acked", "failed"}]
  BY DEF CallsInv, CallsTypes
<1>r. recent \subseteq InfoHashes
  BY <1>0 DEF CallsTypes
<1>1. CASE C!Next
  <2>s. \A h \in InfoHashes : Solid(h) => Solid(h)'
    BY <1>1, SolidStays
  <2>1. ASSUME NEW h \in recent' PROVE Solid(h)'
    <3>1. CASE h \in recent
      BY <1>0, <1>r, <2>s, <3>1 DEF Accounted
    <3>2. CASE h \notin recent
      <4>1. PICK g \in C!Goroutines : C!Mark(g) /\ g[2] = h
        <5>1. ASSUME NEW g \in C!Goroutines, C!Works(g) PROVE recent' = recent \/ C!Mark(g)
          <6>1. C!Check(g) \/ C!Join(g) \/ C!Lead(g) \/ C!Acquire(g) => recent' = recent
            BY DEF C!Check, C!Join, C!Lead, C!Acquire
          <6>2. C!Finish(g) \/ C!Land(g) \/ C!Collect(g) => recent' = recent
            BY DEF C!Finish, C!Land, C!Collect
          <6> QED BY <5>1, <6>1, <6>2 DEF C!Works
        <5>2. ASSUME NEW c \in Calls, C!Deliver(c) \/ C!Handle(c) PROVE recent' = recent
          BY <5>2 DEF C!Deliver, C!Handle
        <5>3. C!Swap => recent' = recent
          BY DEF C!Swap
        <5>4. ASSUME NEW k \in InfoHashes, C!Expire(k) PROVE recent' \subseteq recent
          BY <5>4 DEF C!Expire
        <5>5. PICK g \in C!Goroutines : C!Mark(g)
          BY <1>1, <3>2, <5>1, <5>2, <5>3, <5>4 DEF C!Next, C!Work
        <5> QED BY <3>2, <5>5 DEF C!Mark, C!Hash
      <4>2. doing'[g] = "marked"
        BY <1>t, <4>1 DEF C!Mark
      <4> QED BY <4>1, <4>2 DEF Solid, Bears
    <3> QED BY <3>1, <3>2
  <2>2. ASSUME NEW g \in C!Goroutines, doing'[g] = "done", outcome'[g] = "none" PROVE Solid(g[2])'
    <3>1. (doing[g] = "done" /\ outcome[g] = "none") \/ C!Check(g)
      <4>1. ASSUME NEW c \in Calls, C!Deliver(c) \/ C!Handle(c)
            PROVE  doing[g] = "done" /\ outcome[g] = "none"
        BY <1>t, <2>2, <4>1 DEF C!Deliver, C!Handle
      <4>2. ASSUME NEW w \in C!Goroutines, C!Works(w)
            PROVE  (doing[g] = "done" /\ outcome[g] = "none") \/ C!Check(g)
        <5>1. CASE C!Check(w) \/ C!Join(w) \/ C!Lead(w) \/ C!Mark(w) \/ C!Acquire(w) \/ C!Finish(w)
          BY <1>t, <2>2, <5>1 DEF C!Check, C!Join, C!Lead, C!Mark, C!Acquire, C!Finish
        <5>2. CASE C!Land(w)
          BY <1>t, <2>2, <5>2 DEF C!Land
        <5>3. CASE C!Collect(w)
          BY <1>0, <1>t, <2>2, <5>3 DEF C!Collect, Outcomes
        <5> QED BY <4>2, <5>1, <5>2, <5>3 DEF C!Works
      <4>3. CASE C!Swap \/ \E k \in InfoHashes : C!Expire(k)
        BY <2>2, <4>3 DEF C!Swap, C!Expire
      <4> QED BY <1>1, <4>1, <4>2, <4>3 DEF C!Next, C!Work
    <3>2. C!Check(g) => g[2] \in recent
      BY <1>t, <2>2 DEF C!Check, C!Hash
    <3>3. Solid(g[2])
      BY <1>0, <3>1, <3>2 DEF Accounted
    <3> QED BY <2>s, <3>3, GoroutineParts
  <2>3. ASSUME NEW c \in Calls, call'[c] = "acked", NEW h \in hashesOf'[c] PROVE Solid(h)'
    <3>1. hashesOf' = hashesOf /\ h \in InfoHashes
      <4>1. hashesOf' = hashesOf
        BY <1>1 DEF C!Next, C!Work, C!Works, C!Deliver, C!Check, C!Join, C!Lead, C!Mark, C!Acquire,
           C!Finish, C!Land, C!Collect, C!Handle, C!Swap, C!Expire
      <4> QED BY <1>t, <4>1
    <3>2. call[c] = "acked" \/ C!Handle(c)
      <4>1. ASSUME NEW d \in Calls, C!Deliver(d) \/ C!Handle(d)
            PROVE  call[c] = "acked" \/ C!Handle(c)
        BY <1>t, <2>3, <4>1 DEF C!Deliver, C!Handle
      <4>2. (\E d \in Calls : C!Deliver(d) \/ C!Handle(d)) \/ call' = call
        BY <1>1 DEF C!Next, C!Work, C!Works, C!Check, C!Join, C!Lead, C!Mark, C!Acquire,
           C!Finish, C!Land, C!Collect, C!Swap, C!Expire
      <4> QED BY <2>3, <4>1, <4>2
    <3>3. CASE call[c] = "acked"
      BY <1>0, <2>s, <3>1, <3>3 DEF Accounted
    <3>4. CASE C!Handle(c)
      <4> DEFINE g == <<c, h>>
      <4>1. g \in C!Goroutines /\ g[2] = h /\ g \in C!Of(c)
        BY <1>0, <3>1, GoroutineParts, OfCall
      <4> HIDE DEF g
      <4>2. doing[g] = "done"
        BY <3>4, <4>1 DEF C!Handle, C!Ended
      <4>3. Solid(h)
        BY <1>0, <4>1, <4>2 DEF Accounted, Solid, Bears
      <4> QED BY <2>s, <3>1, <4>3
    <3> QED BY <3>2, <3>3, <3>4
  <2> QED BY <2>1, <2>2, <2>3 DEF Accounted
<1>2. CASE UNCHANGED callsVars
  BY <1>0, <1>2 DEF callsVars, Accounted, Solid, Bears
<1> QED BY <1>1, <1>2

\* The invariant is inductive.
LEMMA CallsNext == CallsInv /\ [C!Next]_callsVars => CallsInv'
BY CallsTypesNext, OwnedNext, FlightsNext, OutcomesNext, AccountedNext, SlotsNext, ModeNext
   DEF CallsInv

\* What the calls promise follows.
LEMMA CallsImplied == CallsInv => C!CallsContract
<1> SUFFICES ASSUME CallsInv PROVE C!CallsContract OBVIOUS
<1>0. CallsTypes /\ Owned /\ Flights /\ Accounted /\ C!SlotsHeld /\ C!ModeOfTheLeader
  BY DEF CallsInv
<1>1. C!TypeOK
  BY <1>0 DEF CallsTypes, C!TypeOK, Doings
<1>2. C!OverlapOnlyAfterFailure
  BY <1>0, GoroutineParts DEF C!OverlapOnlyAfterFailure, Flights, C!Hash
<1>3. C!AckedAccounted
  BY <1>0 DEF C!AckedAccounted, Accounted, Solid, Bears, Owned, C!Hash
<1> QED BY <1>0, <1>1, <1>2, <1>3 DEF C!CallsContract

----------------------------------------------------------------------------
(***************************************************************************)
(* The TMDB client, for any callers, tokens and bounds.                    *)
(***************************************************************************)

Requesters == [token : Tokens, err : BOOLEAN, refused : BOOLEAN]

\* The requester that is kept is of the configuration in force.
KeptAsConfigured ==
    current # 0 => current = Len(made) /\ made[current].token = config.token /\ config.enabled

\* Who uses a requester took it under the mutex; who validates one holds the mutex.
UsesTaken ==
    \A c \in Callers :
        /\ phase[c] # "idle" => uses[c] \in 1 .. Len(made)
        /\ phase[c] = "validates" => holder = {c} /\ uses[c] = current

HeldToValidate == holder = {} \/ \E c \in Callers : holder = {c} /\ phase[c] = "validates"

TmdbTypes ==
    /\ config \in Tmdb!Configs /\ began \in [Callers -> Tmdb!Configs]
    /\ made \in Seq(Requesters) /\ current \in 0 .. Len(made)
    /\ phase \in [Callers -> {"idle", "validates", "asks", "waits", "sends"}]
    /\ uses \in [Callers -> Nat]

TmdbInv == TmdbTypes /\ KeptAsConfigured /\ UsesTaken /\ HeldToValidate /\ Tmdb!SentAsConfigured

\* What the client promises follows.
LEMMA TmdbImplied == TmdbInv => Tmdb!TmdbContract
<1> SUFFICES ASSUME TmdbInv PROVE Tmdb!TmdbContract OBVIOUS
<1>1. Tmdb!Cardinality(holder) <= 1
  <2>1. \A Q : Tmdb!Cardinality(Q) = Cardinality(Q)
    BY DEF Tmdb!Cardinality, Cardinality
  <2>2. holder = {} \/ \E c \in Callers : holder = {c}
    BY DEF TmdbInv, HeldToValidate
  <2>3. Cardinality(holder) = 0 \/ Cardinality(holder) = 1
    BY <2>2, FS_EmptySet, FS_Singleton
  <2> QED BY <2>1, <2>3
<1>2. Tmdb!TypeOK
  BY <1>1 DEF TmdbInv, TmdbTypes, Tmdb!TypeOK
<1>3. Tmdb!OneRequester
  <2> SUFFICES ASSUME NEW n \in 1 .. Len(made),
                      NEW c \in Callers, phase[c] = "validates", uses[c] = n
               PROVE  n = current /\ n = Len(made)
    BY DEF Tmdb!OneRequester
  <2>1. n = current /\ n # 0
    BY DEF TmdbInv, UsesTaken
  <2> QED BY <2>1 DEF TmdbInv, KeptAsConfigured
<1> QED BY <1>2, <1>3 DEF TmdbInv, Tmdb!TmdbContract

\* Nobody has asked, and no requester is built.
LEMMA TmdbInit == Tmdb!Init => TmdbInv
<1> SUFFICES ASSUME Tmdb!Init PROVE TmdbInv OBVIOUS
<1>1. TmdbTypes
  BY DEF Tmdb!Init, TmdbTypes
<1>2. KeptAsConfigured /\ UsesTaken /\ HeldToValidate /\ Tmdb!SentAsConfigured
  BY DEF Tmdb!Init, KeptAsConfigured, UsesTaken, HeldToValidate, Tmdb!SentAsConfigured
<1> QED BY <1>1, <1>2 DEF TmdbInv

\* A reply changes what is known of a requester, not its token.
SameTokens ==
    /\ made' \in Seq(Requesters) /\ Len(made') = Len(made)
    /\ \A n \in 1 .. Len(made) : made'[n].token = made[n].token

\* A caller goes on as it was served: neither the configuration nor who holds the mutex changes.
GoesOn(c, to) ==
    /\ SameTokens
    /\ UNCHANGED <<config, current, uses, began>>
    /\ phase' = [phase EXCEPT ![c] = to]
    /\ IF phase[c] = "validates" THEN holder' = {} ELSE holder' = holder

\* The writes of Validate and Receive are of that kind.
LEMMA KeepsTokens ==
    ASSUME TmdbInv
    PROVE  /\ made' = made => SameTokens
           /\ \A n \in 1 .. Len(made), e \in BOOLEAN, r \in BOOLEAN :
                /\ made' = [made EXCEPT ![n].err = e, ![n].refused = r] => SameTokens
                /\ made' = [made EXCEPT ![n].refused = @ \/ r] => SameTokens
<1>0. made \in Seq(Requesters)
  BY DEF TmdbInv, TmdbTypes
<1>1. made' = made => SameTokens
  BY <1>0 DEF SameTokens
<1>2. ASSUME NEW n \in 1 .. Len(made), NEW q \in Requesters, q.token = made[n].token,
             made' = [made EXCEPT ![n] = q]
      PROVE  SameTokens
  BY <1>0, <1>2 DEF SameTokens
<1>3. ASSUME NEW n \in 1 .. Len(made), NEW e \in BOOLEAN, NEW r \in BOOLEAN
      PROVE  /\ made' = [made EXCEPT ![n].err = e, ![n].refused = r] => SameTokens
             /\ made' = [made EXCEPT ![n].refused = @ \/ r] => SameTokens
  <2>1. made[n] \in Requesters
    BY <1>0
  <2> DEFINE p == [made[n] EXCEPT !.err = e, !.refused = r]
             q == [made[n] EXCEPT !.refused = @ \/ r]
  <2>2. p \in Requesters /\ p.token = made[n].token
    BY <2>1 DEF Requesters
  <2>3. q \in Requesters /\ q.token = made[n].token
    BY <2>1 DEF Requesters
  <2>4. [made EXCEPT ![n].err = e, ![n].refused = r] = [made EXCEPT ![n] = p]
    BY <1>0
  <2>5. [made EXCEPT ![n].refused = @ \/ r] = [made EXCEPT ![n] = q]
    BY <1>0
  <2> HIDE DEF p, q
  <2> QED BY <1>2, <2>2, <2>3, <2>4, <2>5
<1> QED BY <1>1, <1>3

\* What was true of a caller when it was served stays true.
LEMMA TmdbGoesOn ==
    ASSUME TmdbInv, NEW c \in Callers, phase[c] # "idle",
           NEW to \in {"idle", "asks", "waits", "sends"}, GoesOn(c, to)
    PROVE  TmdbInv'
<1>0. TmdbTypes /\ KeptAsConfigured /\ UsesTaken /\ HeldToValidate /\ Tmdb!SentAsConfigured
  BY DEF TmdbInv
<1>1. \A d \in Callers : phase'[d] = IF d = c THEN to ELSE phase[d]
  BY <1>0 DEF GoesOn, TmdbTypes
<1>2. TmdbTypes'
  BY <1>0 DEF GoesOn, SameTokens, TmdbTypes
<1>3. KeptAsConfigured'
  BY <1>0 DEF GoesOn, SameTokens, KeptAsConfigured, TmdbTypes
<1>4. UsesTaken'
  BY <1>0, <1>1 DEF GoesOn, SameTokens, UsesTaken
<1>5. HeldToValidate'
  BY <1>0, <1>1 DEF GoesOn, HeldToValidate, UsesTaken
<1>6. Tmdb!SentAsConfigured'
  <2>1. \A d \in Callers : phase'[d] # "idle" =>
           /\ phase[d] # "idle" /\ uses[d] \in 1 .. Len(made)
           /\ made'[uses[d]].token = made[uses[d]].token
    BY <1>0, <1>1 DEF GoesOn, SameTokens, UsesTaken
  <2> QED BY <1>0, <2>1 DEF GoesOn, Tmdb!SentAsConfigured
<1> QED BY <1>2, <1>3, <1>4, <1>5, <1>6 DEF TmdbInv

\* The invariant is inductive.
LEMMA TmdbNext == TmdbInv /\ [Tmdb!Next]_tmdbVars => TmdbInv'
<1> SUFFICES ASSUME TmdbInv, [Tmdb!Next]_tmdbVars PROVE TmdbInv' OBVIOUS
<1>0. TmdbTypes /\ KeptAsConfigured /\ UsesTaken /\ HeldToValidate /\ Tmdb!SentAsConfigured
  BY DEF TmdbInv
<1>t. /\ config \in Tmdb!Configs /\ began \in [Callers -> Tmdb!Configs]
      /\ made \in Seq(Requesters) /\ Len(made) \in Nat /\ current \in 0 .. Len(made)
      /\ phase \in [Callers -> {"idle", "validates", "asks", "waits", "sends"}]
      /\ uses \in [Callers -> Nat]
  BY <1>0 DEF TmdbTypes
<1>1. CASE Tmdb!UpdateConfig
  <2>1. /\ holder = {} /\ holder' = {} /\ config' \in Tmdb!Configs /\ current' = 0
        /\ UNCHANGED <<made, phase, uses, began>>
    BY <1>1 DEF Tmdb!UpdateConfig, Tmdb!Emptied
  <2>2. TmdbTypes'
    BY <1>t, <2>1 DEF TmdbTypes
  <2>3. KeptAsConfigured' /\ UsesTaken' /\ HeldToValidate' /\ Tmdb!SentAsConfigured'
    BY <1>0, <2>1 DEF KeptAsConfigured, UsesTaken, HeldToValidate, Tmdb!SentAsConfigured
  <2> QED BY <2>2, <2>3 DEF TmdbInv
<1>2. ASSUME NEW c \in Callers, Tmdb!Dismissed(c) PROVE TmdbInv'
  <2>1. /\ phase[c] = "idle" /\ began' = [began EXCEPT ![c] = config]
        /\ UNCHANGED <<config, current, made, holder, phase, uses>>
    BY <1>2 DEF Tmdb!Dismissed, Tmdb!Begins
  <2>2. TmdbTypes'
    BY <1>t, <2>1 DEF TmdbTypes
  <2>3. KeptAsConfigured' /\ UsesTaken' /\ HeldToValidate'
    BY <1>0, <2>1 DEF KeptAsConfigured, UsesTaken, HeldToValidate
  <2>4. Tmdb!SentAsConfigured'
    BY <1>0, <1>t, <2>1 DEF Tmdb!SentAsConfigured
  <2> QED BY <2>2, <2>3, <2>4 DEF TmdbInv
<1>3. ASSUME NEW c \in Callers, Tmdb!Build(c) PROVE TmdbInv'
  <2> DEFINE new == [token |-> config.token, err |-> FALSE, refused |-> FALSE]
             n == Len(made) + 1
  <2>1. /\ phase[c] = "idle" /\ holder = {} /\ began' = [began EXCEPT ![c] = config]
        /\ config.enabled /\ config.token # Tmdb!NoToken /\ config' = config
        /\ made' = Append(made, new) /\ holder' = {c}
        /\ phase' = [phase EXCEPT ![c] = "validates"]
    BY <1>3 DEF Tmdb!Build, Tmdb!Begins
  <2>2. new \in Requesters
    BY <1>t, <2>1 DEF Tmdb!Configs, Requesters
  <2>m. made' \in Seq(Requesters) /\ Len(made') = n /\ made'[n].token = config.token
        /\ \A k \in 1 .. Len(made) : made'[k] = made[k]
    <3>1. made' \in Seq(Requesters) /\ Len(made') = n /\ made'[n] = new
          /\ \A k \in 1 .. Len(made) : made'[k] = made[k]
      <4> HIDE DEF new
      <4> QED BY <1>t, <2>1, <2>2, AppendProperties
    <3> QED BY <3>1
  <2>3. current' = n /\ uses' = [uses EXCEPT ![c] = n]
    BY <1>3, <2>m DEF Tmdb!Build
  <2> HIDE DEF n, new
  <2>n. n \in Nat \ {0} /\ n = Len(made) + 1
    BY <1>t DEF n
  <2>4. TmdbTypes'
    BY <1>t, <2>1, <2>m, <2>3, <2>n DEF TmdbTypes
  <2>5. KeptAsConfigured'
    BY <2>1, <2>m, <2>3 DEF KeptAsConfigured
  <2>6. \A d \in Callers : d # c =>
           /\ phase'[d] = phase[d] /\ uses'[d] = uses[d] /\ began'[d] = began[d]
           /\ phase[d] # "validates"
           /\ phase[d] # "idle" => uses[d] \in 1 .. Len(made)
    BY <1>0, <1>t, <2>1, <2>3 DEF UsesTaken
  <2>7. phase'[c] = "validates" /\ uses'[c] = n /\ began'[c] = config
    BY <1>t, <2>1, <2>3
  <2>8. UsesTaken'
    BY <1>t, <2>1, <2>m, <2>3, <2>n, <2>6, <2>7 DEF UsesTaken
  <2>9. HeldToValidate'
    BY <2>1, <2>7 DEF HeldToValidate
  <2>10. Tmdb!SentAsConfigured'
    BY <1>0, <2>1, <2>m, <2>6, <2>7 DEF Tmdb!SentAsConfigured
  <2> QED BY <2>4, <2>5, <2>8, <2>9, <2>10 DEF TmdbInv
<1>4. ASSUME NEW c \in Callers, Tmdb!Reuse(c) PROVE TmdbInv'
  <2>1. /\ phase[c] = "idle" /\ holder = {} /\ began' = [began EXCEPT ![c] = config] /\ current # 0
        /\ uses' = [uses EXCEPT ![c] = current] /\ phase' = [phase EXCEPT ![c] = "asks"]
        /\ UNCHANGED <<config, current, made, holder>>
    BY <1>4 DEF Tmdb!Reuse, Tmdb!Begins
  <2>2. TmdbTypes'
    BY <1>t, <2>1 DEF TmdbTypes
  <2>3. KeptAsConfigured'
    BY <1>0, <2>1 DEF KeptAsConfigured
  <2>4. UsesTaken'
    BY <1>0, <1>t, <2>1 DEF UsesTaken
  <2>5. HeldToValidate'
    BY <2>1 DEF HeldToValidate
  <2>6. Tmdb!SentAsConfigured'
    BY <1>0, <1>t, <2>1 DEF Tmdb!SentAsConfigured, KeptAsConfigured
  <2> QED BY <2>2, <2>3, <2>4, <2>5, <2>6 DEF TmdbInv
<1>5. ASSUME NEW c \in Callers, Tmdb!Validate(c) PROVE TmdbInv'
  <2>1. phase[c] = "validates" /\ uses[c] \in 1 .. Len(made)
    BY <1>0, <1>5 DEF Tmdb!Validate, UsesTaken
  <2>2. PICK reply :
          /\ made' = [made EXCEPT ![uses[c]].err = reply # "accepted",
                                  ![uses[c]].refused = reply = "refused"]
          /\ phase' = [phase EXCEPT ![c] = IF reply = "accepted" THEN "asks" ELSE "idle"]
    BY <1>5 DEF Tmdb!Validate
  <2>3. SameTokens
    BY <2>1, <2>2, KeepsTokens
  <2>4. PICK to \in {"asks", "idle"} : phase' = [phase EXCEPT ![c] = to]
    BY <2>2
  <2>5. GoesOn(c, to)
    BY <1>5, <2>1, <2>3, <2>4 DEF GoesOn, Tmdb!Validate
  <2> QED BY <2>1, <2>5, TmdbGoesOn
<1>6. ASSUME NEW c \in Callers, Tmdb!Ask(c) PROVE TmdbInv'
  <2>1. PICK to \in {"idle", "waits"} : phase' = [phase EXCEPT ![c] = to]
    BY <1>6 DEF Tmdb!Ask
  <2>2. GoesOn(c, to)
    BY <1>6, <2>1, KeepsTokens DEF GoesOn, Tmdb!Ask
  <2>3. phase[c] # "idle"
    BY <1>6 DEF Tmdb!Ask
  <2> QED BY <2>2, <2>3, TmdbGoesOn
<1>7. ASSUME NEW c \in Callers, Tmdb!Acquire(c) PROVE TmdbInv'
  <2>1. phase[c] = "waits" /\ GoesOn(c, "sends")
    BY <1>7, KeepsTokens DEF GoesOn, Tmdb!Acquire
  <2> QED BY <2>1, TmdbGoesOn
<1>8. ASSUME NEW c \in Callers, Tmdb!Receive(c) PROVE TmdbInv'
  <2>1. phase[c] = "sends" /\ uses[c] \in 1 .. Len(made)
    BY <1>0, <1>8 DEF Tmdb!Receive, UsesTaken
  <2>2. PICK reply : made' = [made EXCEPT ![uses[c]].refused = @ \/ reply = "refused"]
    BY <1>8 DEF Tmdb!Receive
  <2>3. SameTokens
    BY <2>1, <2>2, KeepsTokens
  <2>4. GoesOn(c, "idle")
    BY <1>8, <2>3 DEF GoesOn, Tmdb!Receive
  <2> QED BY <2>1, <2>4, TmdbGoesOn
<1>9. ASSUME NEW token \in Tokens, Tmdb!ChangeMind(token) PROVE TmdbInv'
  BY <1>0, <1>t, <1>9 DEF Tmdb!ChangeMind, TmdbInv, TmdbTypes, KeptAsConfigured, UsesTaken,
     HeldToValidate, Tmdb!SentAsConfigured
<1>10. CASE UNCHANGED tmdbVars
  BY <1>0, <1>t, <1>10 DEF tmdbVars, TmdbInv, TmdbTypes, KeptAsConfigured, UsesTaken,
     HeldToValidate, Tmdb!SentAsConfigured
<1> QED BY <1>1, <1>2, <1>3, <1>4, <1>5, <1>6, <1>7, <1>8, <1>9, <1>10 DEF Tmdb!Next

----------------------------------------------------------------------------
(***************************************************************************)
(* The workflow of the classifier, from one of its actions to the next.    *)
(***************************************************************************)

\* What a result is made of.
RuleNames == {"audiobook", "comic", "ebook", "music", "software", "adult"}
Results ==
    [type : AnswerTypes \cup RuleNames \cup Flow!Contents \cup {Flow!None, "unknown"},
     title : {Flow!None, "llm", "name"},
     date : {Flow!None, "year", "full", "epoch", "name"},
     content : Flow!Contents \cup {Flow!None}]

Forms == {"untitled", "plain", "year", "episodes", "both"}
Said == Flow!Answers \cup {Flow!NotAsked, Flow!Failed}

\* Without an answer the type is that of the rules, or else what the name of a video says.
Named(type) ==
    /\ Flow!Ruled = Flow!None /\ Flow!MuchOf("video")
    /\ \/ type = "movie" /\ torrent.form = "year"
       \/ type = "tv_show" /\ torrent.form \in {"episodes", "both"}

ByRules ==
    /\ stage = 2 => result = [Flow!Nothing EXCEPT !.type = Flow!Ruled]
    /\ stage = 3 => result.type = Flow!Ruled /\ result.title = Flow!None
    /\ stage = 4 => result.type = Flow!Ruled \/ Named(result.type)
    /\ result.type \in {"movie", "tv_show"} => Named(result.type)

\* A run starts with nothing, ends with nothing when it fails, and has no content before its
\* last action.
FlowInv ==
    /\ torrent.form \in Forms
    /\ stage \in 1..5 /\ result \in Results /\ answer \in Said
    /\ failure \in {Flow!None, "llm", "database", "tmdb"}
    /\ stage = 1 => answer = Flow!NotAsked /\ failure = Flow!None /\ result = Flow!Nothing
    /\ failure # Flow!None => result = Flow!Nothing
    /\ stage # 5 => result.content = Flow!None
    /\ stage # 1 /\ failure = Flow!None /\ ~Flow!Answered => ByRules
    /\ Flow!StrictStops
    /\ stage # 1 => Flow!AnswerKept
    /\ Flow!ContentFits

USE DEF Flow!None

\* An answer is neither missing nor failed.
LEMMA AnswersApart ==
    /\ Flow!NotAsked \notin Flow!Answers /\ Flow!Failed \notin Flow!Answers
    /\ Flow!NotAsked # Flow!Failed
BY WorkflowAssumption DEF Flow!NotAsked, Flow!Failed, Flow!Answers

\* The first action that does not say unmatched is the outcome.
LEMMA FindsFirst ==
    ASSUME NEW outcomes, NEW r, DOMAIN outcomes \subseteq Nat, NEW k \in DOMAIN outcomes,
           outcomes[k].error # "unmatched",
           \A i \in DOMAIN outcomes : i < k => outcomes[i].error = "unmatched"
    PROVE  Flow!FindMatch(outcomes, r) = outcomes[k]
<1> DEFINE matched == {i \in DOMAIN outcomes : outcomes[i].error # "unmatched"}
           first == CHOOSE i \in matched : \A j \in matched : i <= j
<1>1. k \in matched /\ \A j \in matched : k <= j
  OBVIOUS
<1>2. first \in matched /\ \A j \in matched : first <= j
  BY <1>1
<1>3. first = k
  <2>1. first \in Nat /\ k \in Nat /\ first <= k /\ k <= first
    BY <1>1, <1>2
  <2> HIDE DEF first
  <2> QED BY <2>1
<1>4. Flow!FindMatch(outcomes, r) = outcomes[first]
  BY <1>1 DEF Flow!FindMatch
<1> QED BY <1>3, <1>4

\* That none matches is no error.
LEMMA FindsNone ==
    ASSUME NEW outcomes, NEW r, \A i \in DOMAIN outcomes : outcomes[i].error = "unmatched"
    PROVE  Flow!FindMatch(outcomes, r) = Flow!Good(r)
BY DEF Flow!FindMatch

\* Whether a torrent satisfies a rule has nothing to do with its result.
RuleAt(i) == Flow!Holds(Flow!RuleOrder[i], Flow!Nothing)

\* A rule that fits sets its type.
LEMMA RuleOutcome ==
    ASSUME NEW i \in 1..6, NEW r
    PROVE  Flow!Rule(Flow!RuleOrder[i], r) =
               IF RuleAt(i) THEN Flow!SetType(Flow!RuleOrder[i], r) ELSE Flow!Unmatched(r)
<1>1. i = 1 \/ i = 2 \/ i = 3 \/ i = 4 \/ i = 5 \/ i = 6
  OBVIOUS
<1>2. Flow!Holds(Flow!RuleOrder[i], r) = Flow!Holds(Flow!RuleOrder[i], Flow!Nothing)
  <2>1. CASE i = 1 BY <2>1 DEF Flow!Holds, Flow!RuleOrder
  <2>2. CASE i = 2 BY <2>2 DEF Flow!Holds, Flow!RuleOrder
  <2>3. CASE i = 3 BY <2>3 DEF Flow!Holds, Flow!RuleOrder
  <2>4. CASE i = 4 BY <2>4 DEF Flow!Holds, Flow!RuleOrder
  <2>5. CASE i = 5 BY <2>5 DEF Flow!Holds, Flow!RuleOrder
  <2>6. CASE i = 6 BY <2>6 DEF Flow!Holds, Flow!RuleOrder
  <2> QED BY <1>1, <2>1, <2>2, <2>3, <2>4, <2>5, <2>6
<1> QED BY <1>2 DEF Flow!Rule, Flow!IfElse, RuleAt

\* The rules in their order find what is stated of them.
LEMMA RuledFirst ==
    ASSUME NEW k \in 1..6, RuleAt(k), \A i \in 1..6 : i < k => ~RuleAt(i)
    PROVE  Flow!Ruled = Flow!RuleOrder[k]
<1> DEFINE fits == {i \in DOMAIN Flow!RuleOrder : Flow!Holds(Flow!RuleOrder[i], Flow!Nothing)}
           first == CHOOSE i \in fits : \A j \in fits : i <= j
<1>0. DOMAIN Flow!RuleOrder = 1..6
  BY DEF Flow!RuleOrder
<1>1. k \in fits /\ \A j \in fits : k <= j
  BY <1>0 DEF RuleAt
<1>2. first \in fits /\ \A j \in fits : first <= j
  BY <1>1
<1>3. first = k
  <2>1. first \in 1..6 /\ k \in 1..6 /\ first <= k /\ k <= first
    BY <1>0, <1>1, <1>2
  <2> HIDE DEF first
  <2> QED BY <2>1
<1>4. Flow!Ruled = Flow!RuleOrder[first]
  BY <1>1 DEF Flow!Ruled
<1> QED BY <1>3, <1>4

\* Rules none of which fits leave no type.
LEMMA RuledNone ==
    ASSUME \A i \in 1..6 : ~RuleAt(i) PROVE Flow!Ruled = "none"
<1>0. DOMAIN Flow!RuleOrder = 1..6
  BY DEF Flow!RuleOrder
<1> QED BY <1>0 DEF Flow!Ruled, RuleAt

\* Some rule is the first to fit, or none fits.
LEMMA FirstRule ==
    \/ \A i \in 1..6 : ~RuleAt(i)
    \/ \E k \in 1..6 : RuleAt(k) /\ \A i \in 1..6 : i < k => ~RuleAt(i)
<1>1. CASE RuleAt(1) BY <1>1
<1>2. CASE ~RuleAt(1) /\ RuleAt(2) BY <1>2
<1>3. CASE ~RuleAt(1) /\ ~RuleAt(2) /\ RuleAt(3) BY <1>3
<1>4. CASE ~RuleAt(1) /\ ~RuleAt(2) /\ ~RuleAt(3) /\ RuleAt(4) BY <1>4
<1>5. CASE ~RuleAt(1) /\ ~RuleAt(2) /\ ~RuleAt(3) /\ ~RuleAt(4) /\ RuleAt(5) BY <1>5
<1>6. CASE ~RuleAt(1) /\ ~RuleAt(2) /\ ~RuleAt(3) /\ ~RuleAt(4) /\ ~RuleAt(5) BY <1>6
<1> QED BY <1>1, <1>2, <1>3, <1>4, <1>5, <1>6

\* The rules know no film and no show.
LEMMA RuledType == Flow!Ruled \in RuleNames \cup {"none"}
<1>1. ASSUME NEW k \in 1..6, RuleAt(k), \A i \in 1..6 : i < k => ~RuleAt(i)
      PROVE  Flow!Ruled \in RuleNames
  <2>1. Flow!Ruled = Flow!RuleOrder[k]
    BY <1>1, RuledFirst
  <2> QED BY <2>1 DEF Flow!RuleOrder, RuleNames
<1> QED BY <1>1, FirstRule, RuledNone

\* The language model is the first to be asked: what it answers is the outcome, its silence
\* leaves the rules, and its failure does so unless the mode is strict.
LEMMA TypeOutcome ==
    ASSUME NEW said, said.llm \in Said
    PROVE  LET ending == Flow!TypeAction(Flow!Nothing, said) IN
             /\ said.llm \in Flow!Answers => ending = Flow!Classify(Flow!Nothing, said.llm)
             /\ said.llm = Flow!Failed /\ strict => ending = Flow!Bad("llm", Flow!Typed(Flow!Nothing))
             /\ said.llm = Flow!NotAsked \/ (said.llm = Flow!Failed /\ ~strict) =>
                    ending = Flow!Good([Flow!Nothing EXCEPT !.type = Flow!Ruled])
<1> DEFINE r == Flow!Nothing
           model == Flow!Classify(r, said.llm)
           all == <<model, Flow!Rule("audiobook", r), Flow!Rule("comic", r), Flow!Rule("ebook", r),
                    Flow!Rule("music", r), Flow!Rule("software", r), Flow!Rule("adult", r)>>
           ending == Flow!TypeAction(r, said)
<1>0. DOMAIN all = 1..7 /\ all[1] = model
  OBVIOUS
<1>1. ending = Flow!FindMatch(all, r)
  <2>1. Flow!Holds("untyped", r)
    BY DEF Flow!Holds, Flow!Untyped, Flow!Nothing
  <2> QED BY <2>1 DEF Flow!TypeAction, Flow!IfElse
<1>2. \A i \in 1..6 : all[i + 1] = Flow!Rule(Flow!RuleOrder[i], r)
  <2> SUFFICES ASSUME NEW i \in 1..6 PROVE all[i + 1] = Flow!Rule(Flow!RuleOrder[i], r)
    OBVIOUS
  <2> HIDE DEF r
  <2>1. i = 1 \/ i = 2 \/ i = 3 \/ i = 4 \/ i = 5 \/ i = 6
    OBVIOUS
  <2> QED BY <2>1 DEF Flow!RuleOrder
<1>3. ASSUME model.error # "unmatched" PROVE ending = model
  <2> HIDE DEF all, model
  <2> QED BY <1>0, <1>1, <1>3, FindsFirst
<1>4. ASSUME model.error = "unmatched"
      PROVE ending = Flow!Good([Flow!Nothing EXCEPT !.type = Flow!Ruled])
  <2>1. ASSUME NEW i \in 1..6, RuleAt(i)
        PROVE all[i + 1] = Flow!Good([r EXCEPT !.type = Flow!RuleOrder[i]]) /\ all[i + 1].error = "none"
    <3> HIDE DEF all, r
    <3> QED BY <1>2, <2>1, RuleOutcome DEF Flow!SetType, Flow!Good
  <2>2. ASSUME NEW i \in 1..6, ~RuleAt(i) PROVE all[i + 1].error = "unmatched"
    <3> HIDE DEF all, r
    <3>1. all[i + 1] = Flow!Unmatched(r)
      BY <1>2, <2>2, RuleOutcome
    <3> QED BY <3>1 DEF Flow!Unmatched, Flow!Bad
  <2>3. CASE \A i \in 1..6 : ~RuleAt(i)
    <3>1. ASSUME NEW i \in 1..7 PROVE all[i].error = "unmatched"
      <4>1. CASE i = 1 BY <1>0, <1>4, <4>1
      <4>2. CASE i # 1
        <5>1. i - 1 \in 1..6 /\ (i - 1) + 1 = i
          BY <4>2
        <5> HIDE DEF all
        <5> QED BY <2>2, <2>3, <5>1
      <4> QED BY <4>1, <4>2
    <3>2. ending = Flow!Good(r)
      <4> HIDE DEF all
      <4> QED BY <1>0, <1>1, <3>1, FindsNone
    <3>3. Flow!Good(r) = Flow!Good([Flow!Nothing EXCEPT !.type = Flow!Ruled])
      <4>1. r = [Flow!Nothing EXCEPT !.type = Flow!Ruled]
        BY <2>3, RuledNone DEF Flow!Nothing
      <4> QED BY <4>1
    <3> QED BY <3>2, <3>3
  <2>4. ASSUME NEW k \in 1..6, RuleAt(k), \A i \in 1..6 : i < k => ~RuleAt(i)
        PROVE ending = Flow!Good([Flow!Nothing EXCEPT !.type = Flow!Ruled])
    <3>1. all[k + 1] = Flow!Good([r EXCEPT !.type = Flow!RuleOrder[k]]) /\ all[k + 1].error = "none"
      BY <2>1, <2>4
    <3>2. ASSUME NEW i \in 1..7, i < k + 1 PROVE all[i].error = "unmatched"
      <4>1. CASE i = 1 BY <1>0, <1>4, <4>1
      <4>2. CASE i # 1
        <5>1. i - 1 \in 1..6 /\ (i - 1) + 1 = i /\ i - 1 < k
          BY <3>2, <4>2
        <5> HIDE DEF all
        <5> QED BY <2>2, <2>4, <5>1
      <4> QED BY <4>1, <4>2
    <3>3. ending = all[k + 1]
      <4>1. k + 1 \in DOMAIN all /\ DOMAIN all \subseteq Nat
        BY <1>0
      <4> HIDE DEF all
      <4> QED BY <1>0, <1>1, <3>1, <3>2, <4>1, FindsFirst
    <3>4. Flow!Ruled = Flow!RuleOrder[k]
      BY <2>4, RuledFirst
    <3> HIDE DEF all, ending
    <3> QED BY <3>1, <3>3, <3>4
  <2> QED BY <2>3, <2>4, FirstRule
<1>5. /\ said.llm \in Flow!Answers => model.error = "none"
      /\ said.llm = Flow!Failed /\ strict => model = Flow!Bad("llm", Flow!Typed(r))
      /\ said.llm = Flow!NotAsked \/ (said.llm = Flow!Failed /\ ~strict) => model.error = "unmatched"
  BY AnswersApart DEF Flow!Classify, Flow!Good, Flow!Bad, Flow!Unmatched
<1>6. Flow!Bad("llm", Flow!Typed(r)).error = "llm"
  BY DEF Flow!Bad
<1> HIDE DEF ending, model
<1> QED BY <1>3, <1>4, <1>5, <1>6 DEF ending, model

\* One action.
LEMMA FindsOne ==
    ASSUME NEW x, NEW r
    PROVE  Flow!FindMatch(<<x>>, r) = IF x.error = "unmatched" THEN Flow!Good(r) ELSE x
<1> DEFINE all == <<x>>
<1>1. DOMAIN all = {1} /\ all[1] = x
  OBVIOUS
<1> HIDE DEF all
<1>2. CASE x.error = "unmatched"
  BY <1>1, <1>2, FindsNone DEF all
<1>3. CASE x.error # "unmatched"
  <2>1. Flow!FindMatch(all, r) = all[1]
    BY <1>1, <1>3, FindsFirst
  <2> QED BY <1>1, <1>3, <2>1 DEF all
<1> QED BY <1>2, <1>3

\* The second is asked when the first does not match.
LEMMA FindsTwo ==
    ASSUME NEW x, NEW y, NEW r
    PROVE  Flow!FindMatch(<<x, y>>, r) =
             IF x.error # "unmatched" THEN x ELSE IF y.error # "unmatched" THEN y ELSE Flow!Good(r)
<1> DEFINE all == <<x, y>>
<1>1. DOMAIN all = {1, 2} /\ all[1] = x /\ all[2] = y
  OBVIOUS
<1> HIDE DEF all
<1>2. CASE x.error = "unmatched" /\ y.error = "unmatched"
  <2>1. \A i \in DOMAIN all : all[i].error = "unmatched"
    BY <1>1, <1>2
  <2> QED BY <1>2, <2>1, FindsNone DEF all
<1>3. CASE x.error # "unmatched"
  <2>1. Flow!FindMatch(all, r) = all[1]
    BY <1>1, <1>3, FindsFirst
  <2> QED BY <1>1, <1>3, <2>1 DEF all
<1>4. CASE x.error = "unmatched" /\ y.error # "unmatched"
  <2>1. Flow!FindMatch(all, r) = all[2]
    BY <1>1, <1>4, FindsFirst
  <2> QED BY <1>1, <1>4, <2>1 DEF all
<1> QED BY <1>2, <1>3, <1>4

\* Good and bad outcomes, whose error is what is said of them.
LEMMA LeafOutcomes ==
    ASSUME NEW e, NEW r
    PROVE  /\ Flow!Good(r).error = "none" /\ Flow!Good(r).result = r
           /\ Flow!Bad(e, r).error = e
           /\ Flow!Unmatched(r).error = "unmatched"
BY DEF Flow!Good, Flow!Bad, Flow!Unmatched

\* What a run works on is given, so that the rules are of one mind.
LEMMA SameRules ==
    ASSUME UNCHANGED <<torrent, tmdbEnabled>>
    PROVE  /\ Flow!Ruled' = Flow!Ruled
           /\ \A type : Named(type)' = Named(type)
<1>1. Flow!Ruled' = Flow!Ruled
  BY DEF Flow!Ruled, Flow!Holds, Flow!MuchOf, Flow!Most, Flow!Says
<1>2. Flow!MuchOf("video")' = Flow!MuchOf("video")
  BY DEF Flow!MuchOf, Flow!Most
<1>3. ASSUME NEW type PROVE Named(type)' = Named(type)
  BY <1>1, <1>2 DEF Named
<1> QED BY <1>1, <1>3

\* A run starts with nothing.
LEMMA FlowInit == Flow!Init => FlowInv
BY AnswersApart, WorkflowAssumption
   DEF Flow!Init, FlowInv, Forms, Results, Said, Flow!Nothing, Flow!StrictStops, Flow!ContentFits

\* The outcome of the first action is what the model or the rules say.
LEMMA IdentifyKeeps == FlowInv /\ Flow!Identify => FlowInv'
<1> SUFFICES ASSUME FlowInv, Flow!Identify PROVE FlowInv' OBVIOUS
<1>1. stage = 1 /\ result = Flow!Nothing /\ failure = "none" /\ answer = Flow!NotAsked
  BY DEF FlowInv, Flow!Identify
<1>2. PICK says \in Said : Flow!Stage([Flow!Silent EXCEPT !.llm = says]) /\ answer' = says
  BY DEF Flow!Identify, Said
<1> DEFINE said == [Flow!Silent EXCEPT !.llm = says]
           ending == Flow!TypeAction(Flow!Nothing, said)
<1>3. said.llm = says
  BY DEF Flow!Silent
<1>4. Flow!Default(said) = ending
  BY <1>1 DEF Flow!Default
<1>5. /\ failure' = ending.error /\ stage' = 2
      /\ result' = IF ending.error = "none" THEN ending.result ELSE Flow!Nothing
      /\ UNCHANGED <<torrent, tmdbEnabled, llmEnabled, strict>>
  BY <1>1, <1>2, <1>4 DEF Flow!Stage
<1> HIDE DEF said, ending
<1>o. /\ says \in Flow!Answers => ending = Flow!Classify(Flow!Nothing, says)
      /\ says = Flow!Failed /\ strict => ending = Flow!Bad("llm", Flow!Typed(Flow!Nothing))
      /\ says = Flow!NotAsked \/ (says = Flow!Failed /\ ~strict) =>
             ending = Flow!Good([Flow!Nothing EXCEPT !.type = Flow!Ruled])
  BY <1>3, TypeOutcome DEF ending
<1>6. CASE says \in Flow!Answers
  <2> DEFINE r == [Flow!Nothing EXCEPT !.type = says.type, !.title = IF says.title THEN "llm" ELSE @,
                                       !.date = says.date]
  <2>1. says # Flow!NotAsked /\ says # Flow!Failed /\ says.type # "none"
    BY <1>6, AnswersApart, WorkflowAssumption DEF Flow!Answers
  <2>2. ending = Flow!Good(r)
    <3>1. /\ says.date = "none" => Flow!Nothing.date = says.date
          /\ Flow!Typed(Flow!Nothing) = [Flow!Nothing EXCEPT !.type = "unknown"]
      BY DEF Flow!Typed, Flow!Nothing
    <3> DEFINE typed == Flow!Typed(Flow!Nothing)
               x == [typed EXCEPT !.type = IF says.type = "unknown" THEN @ ELSE says.type,
                                  !.title = IF says.title THEN "llm" ELSE @,
                                  !.date = IF says.date = "none" THEN @ ELSE says.date]
    <3>2. Flow!Classify(Flow!Nothing, says) = Flow!Good(x)
      BY <2>1 DEF Flow!Classify
    <3>3. x = r
      BY <3>1 DEF Flow!Nothing
    <3> HIDE DEF x, r
    <3> QED BY <1>6, <1>o, <3>2, <3>3
  <2>3. r \in Results /\ r.type = says.type /\ (says.title => r.title = "llm") /\ r.date = says.date
        /\ r.content = "none"
    BY <1>6 DEF Flow!Answers, Results, Flow!Nothing
  <2> HIDE DEF r
  <2>4. failure' = "none" /\ result' = r
    BY <1>5, <2>2, LeafOutcomes
  <2> QED BY <1>2, <1>5, <2>1, <2>3, <2>4
    DEF FlowInv, Flow!Answered, Flow!StrictStops, Flow!AnswerKept, Flow!ContentFits
<1>7. CASE says = Flow!Failed /\ strict
  <2>1. failure' = "llm" /\ result' = Flow!Nothing
    BY <1>5, <1>7, <1>o, LeafOutcomes
  <2>2. Flow!Nothing \in Results /\ Flow!Nothing.content = "none"
    BY DEF Results, Flow!Nothing
  <2> QED BY <1>2, <1>5, <1>7, <2>1, <2>2
    DEF FlowInv, Flow!Answered, Flow!StrictStops, Flow!AnswerKept, Flow!ContentFits, Said
<1>8. CASE says = Flow!NotAsked \/ (says = Flow!Failed /\ ~strict)
  <2> DEFINE r == [Flow!Nothing EXCEPT !.type = Flow!Ruled]
  <2>1. r \in Results /\ r.type = Flow!Ruled /\ r.content = "none"
    BY RuledType DEF Results, Flow!Nothing
  <2>2. failure' = "none" /\ result' = r
    <3>1. ending = Flow!Good(r)
      BY <1>8, <1>o
    <3> HIDE DEF r
    <3> QED BY <1>5, <3>1, LeafOutcomes
  <2>3. Flow!Ruled' = Flow!Ruled
    BY <1>5, SameRules
  <2>4. ByRules'
    <3>1. result'.type \notin {"movie", "tv_show"}
      BY <2>1, <2>2, RuledType DEF RuleNames
    <3>2. result' = [Flow!Nothing' EXCEPT !.type = Flow!Ruled']
      BY <2>2, <2>3 DEF Flow!Nothing
    <3> QED BY <1>5, <3>1, <3>2 DEF ByRules
  <2>5. says \notin Flow!Answers /\ (strict => says # Flow!Failed)
    BY <1>8, AnswersApart
  <2> HIDE DEF r
  <2> QED BY <1>2, <1>5, <1>8, <2>1, <2>2, <2>4, <2>5
    DEF FlowInv, Flow!Answered, Flow!StrictStops, Flow!AnswerKept, Flow!ContentFits, Said
<1> QED BY <1>6, <1>7, <1>8 DEF Said

\* What a name says is added to what is not known yet.
Extends(q, r) ==
    /\ q \in Results /\ q.content = r.content
    /\ r.type # Flow!None => q.type = r.type
    /\ r.title # Flow!None => q.title = r.title
    /\ r.date \in {"year", "full"} => q.date = r.date

\* The action on the date finds one or leaves the result.
LEMMA DateOutcome ==
    ASSUME NEW r \in Results
    PROVE  \E q : /\ Flow!DateAction(r) = Flow!Good(q) /\ Extends(q, r)
                  /\ q.type = r.type /\ q.title = r.title
<1>1. Flow!DateAction(r) = Flow!Good(r) \/
      (Flow!Undated(r) /\ Flow!DateAction(r) = Flow!Good([r EXCEPT !.date = "name"]))
  <2>1. CASE ~Flow!Undated(r)
    BY <2>1 DEF Flow!DateAction, Flow!IfElse, Flow!Holds
  <2>2. CASE Flow!Undated(r)
    <3>1. Flow!DateAction(r) = Flow!FindMatch(<<Flow!ParseDate(r)>>, r)
      BY <2>2 DEF Flow!DateAction, Flow!IfElse, Flow!Holds
    <3>2. \/ Flow!ParseDate(r) = Flow!Unmatched(r)
          \/ Flow!ParseDate(r) = Flow!Good([r EXCEPT !.date = "name"])
      BY DEF Flow!ParseDate
    <3> QED BY <2>2, <3>1, <3>2, FindsOne, LeafOutcomes
  <2> QED BY <2>1, <2>2
<1>2. Extends(r, r)
  BY DEF Extends
<1>3. Flow!Undated(r) => Extends([r EXCEPT !.date = "name"], r)
  BY DEF Extends, Flow!Undated, Results
<1>4. [r EXCEPT !.date = "name"].type = r.type /\ [r EXCEPT !.date = "name"].title = r.title
  BY DEF Results
<1> QED BY <1>1, <1>2, <1>3, <1>4

\* The type that the name of a video gives it, when it has none.
LEMMA VideoOutcome ==
    ASSUME NEW r \in Results, torrent.form \in Forms
    PROVE  \E q : /\ Flow!VideoAction(r) = Flow!Good(q) /\ Extends(q, r)
                  /\ q.type = r.type \/
                     (/\ r.type = "none" /\ Flow!MuchOf("video")
                      /\ \/ q.type = "movie" /\ torrent.form = "year"
                         \/ q.type = "tv_show" /\ torrent.form \in {"episodes", "both"})
<1> DEFINE found == Flow!ParseTitle(r.type \in {"none", "tv_show", "unknown"})
           type == CASE "episodes" \in found -> "tv_show"
                     [] "episodes" \notin found /\ r.type # "none" -> r.type
                     [] "year" \in found /\ "episodes" \notin found /\ r.type = "none" -> "movie"
                     [] OTHER -> "none"
           q == [r EXCEPT !.type = IF @ = "none" THEN type ELSE @,
                          !.title = IF @ = "none" /\ found \cap {"year", "episodes"} # {}
                                    THEN "name" ELSE @,
                          !.date = IF @ = "none" /\ "year" \in found THEN "name" ELSE @]
<1>1. Extends(r, r)
  BY DEF Extends
<1>2. CASE ~Flow!Holds("video", r)
  <2>1. Flow!VideoAction(r) = Flow!Good(r)
    BY <1>2 DEF Flow!VideoAction, Flow!IfElse
  <2> QED BY <1>1, <2>1
<1>3. CASE Flow!Holds("video", r)
  <2>1. Flow!VideoAction(r) = Flow!FindMatch(<<Flow!ParseVideo(r)>>, r)
    BY <1>3 DEF Flow!VideoAction, Flow!IfElse
  <2>2. Flow!ParseVideo(r) = Flow!Unmatched(r) \/ Flow!ParseVideo(r) = Flow!Good(q)
    BY DEF Flow!ParseVideo
  <2>3. /\ type \in {"tv_show", "movie", "none", r.type}
        /\ type \in AnswerTypes \cup RuleNames \cup Flow!Contents \cup {"none", "unknown"}
    BY DEF Results, Flow!Contents
  <2>4. r.type = "none" =>
          \/ type = "none"
          \/ type = "movie" /\ torrent.form = "year"
          \/ type = "tv_show" /\ torrent.form \in {"episodes", "both"}
    BY DEF Flow!ParseTitle, Forms
  <2>5. r.type = "none" => Flow!MuchOf("video")
    BY <1>3 DEF Flow!Holds
  <2> HIDE DEF type, found
  <2>7. q.type = IF r.type = "none" THEN type ELSE r.type
    BY DEF Results
  <2>6. Extends(q, r)
    <3>1. q \in Results
      <4> DEFINE named == IF r.type = "none" THEN type ELSE r.type
                 titled == IF r.title = "none" /\ found \cap {"year", "episodes"} # {} THEN "name" ELSE r.title
                 dated == IF r.date = "none" /\ "year" \in found THEN "name" ELSE r.date
      <4>1. /\ named \in AnswerTypes \cup RuleNames \cup Flow!Contents \cup {"none", "unknown"}
            /\ titled \in {"none", "llm", "name"}
            /\ dated \in {"none", "year", "full", "epoch", "name"}
        BY <2>3 DEF Results
      <4>2. q = [r EXCEPT !.type = named, !.title = titled, !.date = dated]
        OBVIOUS
      <4> HIDE DEF q, named, titled, dated
      <4> QED BY <4>1, <4>2 DEF Results
    <3>2. /\ q.content = r.content
          /\ q.title = (IF r.title = "none" /\ found \cap {"year", "episodes"} # {} THEN "name" ELSE r.title)
          /\ q.date = (IF r.date = "none" /\ "year" \in found THEN "name" ELSE r.date)
      BY DEF Results
    <3> HIDE DEF q
    <3> QED BY <2>7, <3>1, <3>2 DEF Extends
  <2> HIDE DEF q
  <2>8. Flow!VideoAction(r) = Flow!Good(r) \/ Flow!VideoAction(r) = Flow!Good(q)
    BY <2>1, <2>2, FindsOne, LeafOutcomes
  <2> QED BY <1>1, <2>4, <2>5, <2>6, <2>7, <2>8
<1> QED BY <1>2, <1>3

\* What is parsed from the name leaves what the model said, and names the films and shows that
\* no rule knows.
LEMMA ParseKeeps == FlowInv /\ Flow!Parse => FlowInv'
<1> SUFFICES ASSUME FlowInv, Flow!Parse PROVE FlowInv' OBVIOUS
<1>1. stage \in {2, 3} /\ Flow!Stage(Flow!Silent) /\ answer' = answer
  BY DEF Flow!Parse
<1>2. result \in Results /\ torrent.form \in Forms /\ result.content = "none"
  BY <1>1 DEF FlowInv
<1> DEFINE ending == Flow!Default(Flow!Silent)
<1>3. /\ failure = "none" /\ failure' = ending.error /\ stage' = stage + 1
      /\ result' = IF ending.error = "none" THEN ending.result ELSE Flow!Nothing
      /\ UNCHANGED <<torrent, tmdbEnabled, llmEnabled, strict>>
  BY <1>1 DEF Flow!Stage
<1>4. PICK q : /\ ending = Flow!Good(q) /\ Extends(q, result)
               /\ stage = 2 => q.type = result.type /\ q.title = result.title
               /\ q.type = result.type \/
                  (/\ result.type = "none" /\ Flow!MuchOf("video")
                   /\ \/ q.type = "movie" /\ torrent.form = "year"
                      \/ q.type = "tv_show" /\ torrent.form \in {"episodes", "both"})
  <2>1. CASE stage = 2
    <3>1. ending = Flow!DateAction(result)
      BY <2>1 DEF Flow!Default
    <3> QED BY <1>2, <3>1, DateOutcome
  <2>2. CASE stage = 3
    <3>1. ending = Flow!VideoAction(result)
      BY <2>2 DEF Flow!Default
    <3> QED BY <1>2, <2>2, <3>1, VideoOutcome
  <2> QED BY <1>1, <2>1, <2>2
<1> HIDE DEF ending
<1>5. failure' = "none" /\ result' = q
  BY <1>3, <1>4, LeafOutcomes
<1>6. q \in Results /\ q.content = "none"
  BY <1>2, <1>4 DEF Extends
<1>7. ASSUME ~Flow!Answered PROVE ByRules'
  <2>1. ByRules
    BY <1>1, <1>3, <1>7 DEF FlowInv
  <2>2. result.type = Flow!Ruled
    BY <1>1, <2>1 DEF ByRules, Flow!Nothing
  <2>3. Flow!Ruled' = Flow!Ruled /\ \A type : Named(type)' = Named(type)
    BY <1>3, SameRules
  <2>4. q.type = Flow!Ruled \/ Named(q.type)
    BY <1>4, <2>2 DEF Named
  <2>5. q.type \in {"movie", "tv_show"} => Named(q.type)
    BY <2>4, RuledType DEF RuleNames
  <2>6. stage = 2 => q.type = Flow!Ruled /\ q.title = "none"
    BY <1>4, <2>1, <2>2 DEF ByRules, Flow!Nothing
  <2>7. result'.type = q.type /\ Named(q.type)' = Named(q.type)
    BY <1>5, <2>3
  <2>8. Named(result.type)' = Named(q.type)
    BY <1>3, <1>5, <2>3 DEF Named
  <2> QED BY <1>1, <1>3, <1>5, <2>3, <2>4, <2>5, <2>6, <2>8 DEF ByRules
<1>8. Flow!Answered => Flow!AnswerKept'
  <2> SUFFICES ASSUME Flow!Answered PROVE Flow!AnswerKept' OBVIOUS
  <2>1. Flow!AnswerKept /\ answer.type # "none"
    <3>1. answer \in Flow!Answers
      BY DEF FlowInv, Said, Flow!Answered
    <3> QED BY <1>1, <3>1, WorkflowAssumption DEF FlowInv, Flow!Answers
  <2>2. result.type = answer.type
    BY <1>2, <1>3, <2>1 DEF Flow!AnswerKept
  <2> QED BY <1>1, <1>2, <1>3, <1>4, <1>5, <2>1, <2>2 DEF Flow!AnswerKept, Flow!Answered, Extends
<1>9. Flow!StrictStops'
  BY <1>1, <1>3, <1>5 DEF FlowInv, Flow!StrictStops
<1>10. Flow!ContentFits' /\ stage' \in {3, 4}
  BY <1>1, <1>3, <1>5, <1>6 DEF Flow!ContentFits
<1>11. Flow!Answered' = Flow!Answered /\ (~Flow!Answered => Flow!AnswerKept')
  BY <1>1 DEF Flow!Answered, Flow!AnswerKept
<1> QED BY <1>1, <1>2, <1>3, <1>5, <1>6, <1>7, <1>8, <1>9, <1>10, <1>11 DEF FlowInv

\* Content is for a film, a show or what is neither, of which there is a title.
Attached(q, r) ==
    /\ q = [r EXCEPT !.content = q.content, !.type = q.content]
    /\ r.title # Flow!None /\ r.type \in Flow!Contents
    /\ q.content = r.type \/ q.content = "other" \/ (q.content = "movie" /\ r.type = "other")

\* Content is attached, or the result is as it was, or the search has failed.
LEMMA ContentOutcome ==
    ASSUME NEW r \in Results, NEW said, said.local \in {"match", "none", "error"},
           said.tmdb \in {"match", "adult", "none", "error"}
    PROVE  LET ending == Flow!ContentAction(r, said) IN
             \/ ending.error \in {"database", "tmdb"}
             \/ \E q : ending = Flow!Good(q) /\ (q = r \/ Attached(q, r))
<1> DEFINE ending == Flow!ContentAction(r, said)
           tmdbType == IF r.type = "tv_show" THEN "tv_show" ELSE "movie"
           adultType == IF r.type = "tv_show" THEN "tv_show" ELSE "other"
<1>1. CASE ~Flow!Holds("attachable", r)
  <2>1. ending = Flow!Good(r)
    BY <1>1 DEF Flow!ContentAction, Flow!IfElse
  <2> HIDE DEF ending
  <2> QED BY <2>1 DEF ending
<1>2. CASE Flow!Holds("attachable", r)
  <2>1. r.content = "none" /\ r.title # "none" /\ r.type \in Flow!Contents
    BY <1>2 DEF Flow!Holds
  <2> DEFINE x == IF Flow!Holds("local_search_enabled", r) THEN Flow!AttachLocal(r, said.local)
                  ELSE Flow!Unmatched(r)
             y == IF Flow!Holds("tmdb_enabled", r) THEN Flow!AttachTmdb(r, said.tmdb)
                  ELSE Flow!Unmatched(r)
  <2>2. ending = Flow!FindMatch(<<x, y>>, r)
    BY <1>2 DEF Flow!ContentAction, Flow!IfElse
  <2>3. x = Flow!Unmatched(r) \/ x = Flow!Bad("database", r) \/ x = Flow!Good(Flow!Attach(r, r.type))
    <3>1. r.type # "none"
      BY <2>1 DEF Flow!Contents
    <3> QED BY <2>1, <3>1 DEF Flow!AttachLocal
  <2>4. \/ y = Flow!Unmatched(r) \/ y = Flow!Bad("tmdb", r)
        \/ y = Flow!Good(Flow!Attach(r, tmdbType)) \/ y = Flow!Good(Flow!Attach(r, adultType))
    BY <2>1 DEF Flow!AttachTmdb
  <2> HIDE DEF x, y
  <2>5. ASSUME NEW type \in {r.type, tmdbType, adultType} PROVE Attached(Flow!Attach(r, type), r)
    BY <2>1, <2>5 DEF Attached, Flow!Attach, Results, Flow!Contents
  <2> HIDE DEF tmdbType, adultType, ending
  <2>6. ending = IF x.error # "unmatched" THEN x ELSE IF y.error # "unmatched" THEN y ELSE Flow!Good(r)
    BY <2>2, FindsTwo
  <2>7. ending \in {x, y, Flow!Good(r)} /\ ending.error # "unmatched"
    BY <2>6, LeafOutcomes
  <2>8. ASSUME ending = x \/ ending = y, ending.error \notin {"database", "tmdb"}
        PROVE \E type \in {r.type, tmdbType, adultType} : ending = Flow!Good(Flow!Attach(r, type))
    BY <2>3, <2>4, <2>7, <2>8, LeafOutcomes
  <2>9. ending = x \/ ending = y \/ ending = Flow!Good(r)
    BY <2>7
  <2> QED BY <2>5, <2>8, <2>9 DEF ending
<1> QED BY <1>1, <1>2

\* What is attached fits the title, and leaves what the name and the model said of the type.
LEMMA SearchKeeps == FlowInv /\ Flow!Search => FlowInv'
<1> SUFFICES ASSUME FlowInv, Flow!Search PROVE FlowInv' OBVIOUS
<1>1. PICK local \in {"match", "none", "error"}, tmdb \in {"match", "adult", "none", "error"} :
        Flow!Stage([Flow!Silent EXCEPT !.local = local, !.tmdb = tmdb])
  BY DEF Flow!Search
<1> DEFINE said == [Flow!Silent EXCEPT !.local = local, !.tmdb = tmdb]
           ending == Flow!ContentAction(result, said)
<1>2. stage = 4 /\ answer' = answer /\ result \in Results /\ result.content = "none"
  BY DEF FlowInv, Flow!Search
<1>3. /\ failure = "none" /\ failure' = ending.error /\ stage' = 5
      /\ result' = IF ending.error = "none" THEN ending.result ELSE Flow!Nothing
      /\ UNCHANGED <<torrent, tmdbEnabled, llmEnabled, strict>>
  BY <1>1, <1>2 DEF Flow!Stage, Flow!Default
<1>4. said.local = local /\ said.tmdb = tmdb
  BY DEF Flow!Silent
<1> HIDE DEF said
<1>5. \/ ending.error \in {"database", "tmdb"}
      \/ \E q : ending = Flow!Good(q) /\ (q = result \/ Attached(q, result))
  BY <1>2, <1>4, ContentOutcome
<1> HIDE DEF ending
<1>6. Flow!Answered' = Flow!Answered /\ torrent'.form \in Forms /\ answer' \in Said
  BY <1>2, <1>3 DEF Flow!Answered, FlowInv
<1>7. ~(strict /\ answer = Flow!Failed)
  BY <1>3 DEF FlowInv, Flow!StrictStops
<1>8. CASE ending.error \in {"database", "tmdb"}
  <2>1. failure' \in {"database", "tmdb"} /\ result' = Flow!Nothing
    BY <1>3, <1>8
  <2>2. Flow!Nothing \in Results /\ Flow!Nothing.content = "none"
    BY DEF Results, Flow!Nothing
  <2>3. Flow!StrictStops' /\ Flow!AnswerKept' /\ Flow!ContentFits'
    BY <1>2, <1>3, <1>7, <2>1, <2>2 DEF Flow!StrictStops, Flow!AnswerKept, Flow!ContentFits
  <2>4. result' = Flow!Nothing' /\ (failure' # "none") /\ stage' \in 1..5 /\ stage' # 1
    BY <1>3, <2>1 DEF Flow!Nothing
  <2> QED BY <1>3, <1>6, <2>1, <2>2, <2>3, <2>4 DEF FlowInv
<1>9. ASSUME NEW q, ending = Flow!Good(q), q = result \/ Attached(q, result) PROVE FlowInv'
  <2>1. failure' = "none" /\ result' = q
    BY <1>3, <1>9, LeafOutcomes
  <2>2. /\ q \in Results /\ q.title = result.title /\ q.date = result.date
        /\ q = result \/ (q.content = q.type /\ q.content \in Flow!Contents /\ q.title # "none")
        /\ q.content = "none" => q = result
    BY <1>2, <1>9 DEF Attached, Results, Flow!Contents
  <2>3. Flow!StrictStops' /\ Flow!ContentFits'
    BY <1>2, <1>3, <1>7, <2>1, <2>2 DEF Flow!StrictStops, Flow!ContentFits
  <2>4. Flow!Answered => Flow!AnswerKept'
    BY <1>2, <1>3, <1>6, <2>1, <2>2 DEF FlowInv, Flow!AnswerKept
  <2>5. ASSUME ~Flow!Answered PROVE ByRules'
    <3>1. result.type = Flow!Ruled \/ Named(result.type)
      BY <1>2, <1>3, <2>5 DEF FlowInv, ByRules
    <3>2. result.type \in {"movie", "tv_show"} => Named(result.type)
      BY <3>1, RuledType DEF RuleNames
    <3>3. result.type # "other"
      BY <3>1, RuledType DEF RuleNames, Named
    <3>4. q = result \/ q.type = result.type \/ q.type = "other"
      BY <1>2, <1>9, <3>3 DEF Attached, Results
    <3>5. q.type \in {"movie", "tv_show"} => Named(q.type)
      BY <3>2, <3>4
    <3>6. Named(result.type)' = Named(q.type)
      BY <1>3, <2>1, SameRules DEF Named
    <3> QED BY <1>3, <2>1, <3>5, <3>6 DEF ByRules
  <2>6. ~Flow!Answered => Flow!AnswerKept'
    BY <1>6 DEF Flow!AnswerKept
  <2> QED BY <1>3, <1>6, <2>1, <2>2, <2>3, <2>4, <2>5, <2>6 DEF FlowInv
<1> QED BY <1>5, <1>8, <1>9

\* Every action of the workflow keeps it.
LEMMA FlowNext == FlowInv /\ [Flow!Next]_workflowVars => FlowInv'
<1> SUFFICES ASSUME FlowInv, UNCHANGED workflowVars PROVE FlowInv'
  BY IdentifyKeeps, ParseKeeps, SearchKeeps DEF Flow!Next
<1>1. /\ torrent' = torrent /\ tmdbEnabled' = tmdbEnabled /\ strict' = strict /\ stage' = stage
      /\ result' = result /\ failure' = failure /\ answer' = answer
  BY DEF workflowVars
<1>2. Flow!Ruled' = Flow!Ruled /\ \A type : Named(type)' = Named(type)
  BY <1>1, SameRules
<1>3. Named(result.type)' = Named(result.type)
  BY <1>1, SameRules DEF Named
<1>4. ByRules => ByRules'
  BY <1>1, <1>2, <1>3 DEF ByRules, Flow!Nothing
<1> QED BY <1>1, <1>4 DEF FlowInv, Flow!Answered, Flow!StrictStops, Flow!AnswerKept, Flow!ContentFits

\* What the workflow promises follows.
LEMMA FlowImplied == FlowInv => Flow!ClassifyContract
<1> SUFFICES ASSUME FlowInv PROVE Flow!ClassifyContract OBVIOUS
<1>1. Flow!TypeOK
  BY DEF FlowInv, Flow!TypeOK, Results, Flow!Nothing
<1>2. Flow!RulesDecide
  BY DEF FlowInv, ByRules, Flow!RulesDecide
<1>3. Flow!NameDecides
  <2> SUFFICES ASSUME ~Flow!Answered, result.type \in {"movie", "tv_show"} PROVE Named(result.type)
    BY DEF Flow!NameDecides, Named
  <2>1. result # Flow!Nothing
    BY DEF Flow!Nothing
  <2> QED BY <2>1 DEF FlowInv, ByRules
<1>4. Flow!StrictStops /\ Flow!ContentFits
  BY DEF FlowInv
<1>5. Flow!AnswerKept
  BY AnswersApart DEF FlowInv, Flow!AnswerKept, Flow!Answered
<1> QED BY <1>1, <1>2, <1>3, <1>4, <1>5 DEF Flow!ClassifyContract

----------------------------------------------------------------------------
(***************************************************************************)
(* The composition.                                                        *)
(***************************************************************************)

\* A behaviour is about one of them, which keeps what it promises.
PartInv ==
    /\ part = "dates" => LexerInv
    /\ part = "calls" => CallsInv
    /\ part = "tmdb" => TmdbInv
    /\ part = "workflow" => FlowInv

\* It holds at the start, and every step keeps it.
LEMMA PartInit == MCInit => PartInv
<1>1. MCInit /\ part = "dates" => L!Init
  BY DEF MCInit
<1>2. MCInit => C!Init /\ Tmdb!Init
  BY DEF MCInit
<1>3. MCInit /\ part = "workflow" => Flow!Init
  BY DEF MCInit
<1> QED BY <1>1, <1>2, <1>3, LexerInit, CallsInit, TmdbInit, FlowInit DEF PartInv

classifierVars == <<part, vars, lexerVars, workflowVars, callsVars, tmdbVars>>

\* A step of a part is one of the module it is about.
LEMMA PartNext == PartInv /\ [MCNext]_classifierVars => PartInv'
<1> SUFFICES ASSUME PartInv, [MCNext]_classifierVars PROVE PartInv' OBVIOUS
<1>0. part' = part
  BY DEF MCNext, Only, classifierVars
<1>1. ASSUME part = "dates" PROVE LexerInv'
  <2>1. [L!Next]_lexerVars
    BY <1>1 DEF MCNext, Only, classifierVars
  <2> QED BY <1>1, <2>1, LexerNext DEF PartInv
<1>2. ASSUME part = "calls" PROVE CallsInv'
  <2>1. [C!Next]_callsVars
    BY <1>2 DEF MCNext, Only, classifierVars
  <2> QED BY <1>2, <2>1, CallsNext DEF PartInv
<1>3. ASSUME part = "tmdb" PROVE TmdbInv'
  <2>1. [Tmdb!Next]_tmdbVars
    BY <1>3 DEF MCNext, Only, classifierVars
  <2> QED BY <1>3, <2>1, TmdbNext DEF PartInv
<1>4. ASSUME part = "workflow" PROVE FlowInv'
  <2>1. [Flow!Next]_workflowVars
    BY <1>4 DEF MCNext, Only, classifierVars
  <2> QED BY <1>4, <2>1, FlowNext DEF PartInv
<1> QED BY <1>0, <1>1, <1>2, <1>3, <1>4 DEF PartInv

\* A torrent is typed by the model when it has an answer and as if there were none when not
\* (action_llm_classify.go, classifier.core.yml, parsers_video.go).  A date that is found
\* is spelled in the name and the first that could be is not skipped (parsers_date.go); calls
\* that share a flight, a slot and the memory of what was classified lose no slot and no torrent
\* (processor.go, runner_semaphore.go); and TMDB is asked as it was configured when the caller
\* took the mutex (requester_lazy.go).
THEOREM ClassifierKept == MCSpec => []ClassifierContract
<1>1. PartInv => ClassifierContract
  BY CallsImplied, TmdbImplied, FlowImplied DEF PartInv, ClassifierContract, LexerInv
<1>2. MCSpec => MCInit /\ [][MCNext]_classifierVars
  BY PTL DEF MCSpec, classifierVars
<1> QED BY <1>1, <1>2, PartInit, PartNext, PTL
=============================================================================
