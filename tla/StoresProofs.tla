----------------------------- MODULE StoresProofs -----------------------------
(***************************************************************************)
(* What the pages of a torrent search show, for every set of torrents, of  *)
(* requests, and every size of a page; and that the dirty flag forgets no  *)
(* message, for every number of persist loops.                             *)
(*                                                                         *)
(* Of the pages: an order that has no ties arranges a finite set in one    *)
(* way only (OneArrangement), so that the pages of a walk, which are cut   *)
(* from lists made at different moments, are cut from one and the same     *)
(* list for as long as nothing disturbs what is listed.                    *)
(***************************************************************************)
EXTENDS MCStores, TLAPS, FiniteSetTheorems, FunctionTheorems, SequenceTheorems, WellFoundedInduction

----------------------------------------------------------------------------
(***************************************************************************)
(* Arrangements of a finite set.                                           *)
(***************************************************************************)
LEMMA LeastNatural == ASSUME NEW T, T \subseteq Nat, T # {} PROVE \E m \in T : \A k \in T : m <= k
<1> DEFINE R == OpToRel(<, Nat)
<1>1. IsWellFoundedOn(R, Nat) BY NatLessThanWellFounded
<1>2. \A x, y \in Nat : <<x, y>> \in R <=> x < y BY DEF OpToRel
<1> HIDE DEF R
<1>3. PICK m \in T : \A y \in T : ~ (<<y, m>> \in R) BY <1>1, WFMin
<1>4. ASSUME NEW k \in T PROVE m <= k
  <2>1. k \in Nat /\ m \in Nat OBVIOUS
  <2>2. <<k, m>> \in R <=> k < m BY <1>2, <2>1
  <2> QED BY <1>3, <2>1, <2>2
<1> QED BY <1>4

\* An arrangement is a sequence with each element of the set once.
LEMMA ArrangementFacts ==
    ASSUME NEW S, IsFiniteSet(S), NEW s \in SetToSeqs(S)
    PROVE  /\ Cardinality(S) \in Nat /\ s \in [1..Cardinality(S) -> S]
           /\ s \in Seq(S) /\ Len(s) = Cardinality(S) /\ DOMAIN s = 1..Cardinality(S)
           /\ \A i, j \in DOMAIN s : s[i] = s[j] => i = j
           /\ \A x \in S : \E i \in DOMAIN s : s[i] = x
           /\ Range(s) = S /\ IsInjective(s)
<1> DEFINE n == Cardinality(S)
<1>1. n \in Nat BY FS_CardinalityType
<1>2. s \in [1..n -> S] /\ \A i, j \in 1..n : s[i] = s[j] => i = j BY DEF SetToSeqs
<1>3. s \in Injection(1..n, S) BY <1>2, Fun_IsInj
<1>4. Cardinality(1..n) = n BY <1>1, FS_Interval
<1>5. s \in Surjection(1..n, S) BY <1>3, <1>4, FS_Injection
<1>6. \A x \in S : \E i \in 1..n : s[i] = x BY <1>5 DEF Surjection
<1>7. s \in Seq(S) /\ Len(s) = n /\ DOMAIN s = 1..n BY <1>1, <1>2
<1>8. Range(s) = S BY <1>2, <1>6, <1>7 DEF Range
<1>9. IsInjective(s) BY <1>2, <1>7 DEF IsInjective
<1> QED BY <1>1, <1>2, <1>6, <1>7, <1>8, <1>9

Arranged(R, s) == \A i, j \in DOMAIN s : i < j => <<s[i], s[j]>> \in R
NoTies(R, S) == \A a, b \in S : <<a, b>> \in R /\ <<b, a>> \in R => a = b

\* Where two arrangements first differ, each has the other's element later on: a tie.
LEMMA OneArrangement ==
    ASSUME NEW S, IsFiniteSet(S), NEW R, NoTies(R, S), NEW s \in SetToSeqs(S), NEW t \in SetToSeqs(S),
           Arranged(R, s), Arranged(R, t)
    PROVE  s = t
<1> DEFINE n == Cardinality(S)
           D == {i \in 1..n : s[i] # t[i]}
<1>1. n \in Nat /\ s \in [1..n -> S] /\ t \in [1..n -> S] /\ DOMAIN s = 1..n /\ DOMAIN t = 1..n
  BY ArrangementFacts
<1>2. \A i, j \in 1..n : (s[i] = s[j] => i = j) /\ (t[i] = t[j] => i = j) BY <1>1, ArrangementFacts
<1>3. \A x \in S : (\E i \in 1..n : s[i] = x) /\ (\E i \in 1..n : t[i] = x) BY <1>1, ArrangementFacts
<1>4. D = {}
  <2> SUFFICES ASSUME D # {} PROVE FALSE OBVIOUS
  <2>0. D \subseteq Nat BY <1>1
  <2>1. PICK k \in D : \A i \in D : k <= i BY <2>0, LeastNatural
  <2>2. \A i \in 1..n : i < k => s[i] = t[i] BY <1>1, <2>1
  <2>3. k \in 1..n /\ s[k] \in S /\ t[k] \in S /\ s[k] # t[k] BY <1>1, <2>1
  <2>4. PICK i \in 1..n : s[i] = t[k] BY <1>3, <2>3
  <2>5. PICK j \in 1..n : t[j] = s[k] BY <1>3, <2>3
  <2>6. k < i BY <1>1, <1>2, <2>2, <2>3, <2>4
  <2>7. k < j BY <1>1, <1>2, <2>2, <2>3, <2>5
  <2>8. <<s[k], t[k]>> \in R BY <1>1, <2>3, <2>4, <2>6 DEF Arranged
  <2>9. <<t[k], s[k]>> \in R BY <1>1, <2>3, <2>5, <2>7 DEF Arranged
  <2> QED BY <2>3, <2>8, <2>9 DEF NoTies
<1> QED BY <1>1, <1>4

StrictOrder(R, S) ==
    /\ \A a, b \in S : ~ (<<a, b>> \in R /\ <<b, a>> \in R)
    /\ \A a, b \in S : a # b => <<a, b>> \in R \/ <<b, a>> \in R
    /\ \A a, b, c \in S : <<a, b>> \in R /\ <<b, c>> \in R => <<a, c>> \in R

\* An element has its place after those that come before it.
LEMMA SomeArrangement ==
    ASSUME NEW S, IsFiniteSet(S), NEW R, StrictOrder(R, S)
    PROVE  \E s \in SetToSeqs(S) : Arranged(R, s)
<1> DEFINE n == Cardinality(S)
           Ahead(x) == {y \in S : <<y, x>> \in R}
           place == [x \in S |-> Cardinality(Ahead(x)) + 1]
           s == Inverse(place, S, 1..n)
<1>1. n \in Nat BY FS_CardinalityType
<1>2. \A x \in S : IsFiniteSet(Ahead(x)) /\ Cardinality(Ahead(x)) \in Nat /\ Cardinality(Ahead(x)) < n
  <2> TAKE x \in S
  <2>1. Ahead(x) \in SUBSET S /\ x \notin Ahead(x) BY DEF StrictOrder
  <2>2. IsFiniteSet(Ahead(x)) /\ Cardinality(Ahead(x)) <= n /\ (n = Cardinality(Ahead(x)) => S = Ahead(x))
    BY <2>1, FS_Subset
  <2>3. Cardinality(Ahead(x)) \in Nat BY <2>2, FS_CardinalityType
  <2> QED BY <1>1, <2>1, <2>2, <2>3
<1>3. place \in [S -> 1..n]
  <2> SUFFICES ASSUME NEW x \in S PROVE Cardinality(Ahead(x)) + 1 \in 1..n OBVIOUS
  <2> HIDE DEF Ahead
  <2> QED BY <1>1, <1>2
<1>4. \A x, y \in S : <<x, y>> \in R => place[x] < place[y]
  <2> SUFFICES ASSUME NEW x \in S, NEW y \in S, <<x, y>> \in R PROVE place[x] < place[y] OBVIOUS
  <2>1. Ahead(x) \in SUBSET Ahead(y) BY DEF StrictOrder
  <2>2. x \in Ahead(y) /\ x \notin Ahead(x) BY DEF StrictOrder
  <2>3. Cardinality(Ahead(x)) <= Cardinality(Ahead(y))
        /\ (Cardinality(Ahead(y)) = Cardinality(Ahead(x)) => Ahead(y) = Ahead(x))
    BY <1>2, <2>1, FS_Subset
  <2>4. Cardinality(Ahead(x)) < Cardinality(Ahead(y)) BY <1>2, <2>2, <2>3
  <2>5. place[x] = Cardinality(Ahead(x)) + 1 /\ place[y] = Cardinality(Ahead(y)) + 1 OBVIOUS
  <2>6. Cardinality(Ahead(x)) \in Nat /\ Cardinality(Ahead(y)) \in Nat BY <1>2
  <2> HIDE DEF Ahead, place
  <2> QED BY <2>4, <2>5, <2>6
<1> HIDE DEF place
<1>5. \A x, y \in S : place[x] = place[y] => x = y
  <2> SUFFICES ASSUME NEW x \in S, NEW y \in S, x # y PROVE place[x] # place[y] OBVIOUS
  <2>1. <<x, y>> \in R \/ <<y, x>> \in R BY DEF StrictOrder
  <2>2. place[x] < place[y] \/ place[y] < place[x] BY <1>4, <2>1
  <2>3. place[x] \in Nat /\ place[y] \in Nat BY <1>1, <1>3
  <2> QED BY <2>2, <2>3
<1>6. place \in Injection(S, 1..n) BY <1>3, <1>5, Fun_IsInj
<1>7. IsFiniteSet(1..n) /\ Cardinality(1..n) = n BY <1>1, FS_Interval
<1>8. place \in Surjection(S, 1..n) BY <1>6, <1>7, FS_Injection
<1>9. place \in Bijection(S, 1..n) BY <1>6, <1>8 DEF Bijection
<1>10. s \in Bijection(1..n, S) /\ \A x \in S : s[place[x]] = x BY <1>9, Fun_BijInverse
<1> HIDE DEF s
<1>11. s \in [1..n -> S] /\ (\A i, j \in 1..n : s[i] = s[j] => i = j) BY <1>10, Fun_BijectionProperties
<1>12. s \in SetToSeqs(S) BY <1>11 DEF SetToSeqs
<1>13. \A i \in 1..n : place[s[i]] = i BY <1>3, <1>10, <1>11
<1>14. Arranged(R, s)
  <2> SUFFICES ASSUME NEW i \in 1..n, NEW j \in 1..n, i < j PROVE <<s[i], s[j]>> \in R
    BY <1>11 DEF Arranged
  <2>1. s[i] \in S /\ s[j] \in S /\ s[i] # s[j] BY <1>11
  <2>2. ~ (<<s[j], s[i]>> \in R)
    <3> SUFFICES ASSUME <<s[j], s[i]>> \in R PROVE FALSE OBVIOUS
    <3>1. place[s[j]] < place[s[i]] BY <1>4, <2>1
    <3> QED BY <1>13, <3>1
  <2> QED BY <2>1, <2>2 DEF StrictOrder
<1> QED BY <1>12, <1>14

----------------------------------------------------------------------------
(***************************************************************************)
(* The two orders of a search, as values of the times c and the request r. *)
(***************************************************************************)
AheadOf(c, r, a, b) ==
    LET byScore == r.text # NoText /\ r.order = "relevance" IN
      IF byScore /\ r.text.score[a] # r.text.score[b] THEN r.text.score[a] > r.text.score[b]
      ELSE IF (~byScore \/ (r.text # NoText /\ r.elastic)) /\ c[a] # c[b] THEN c[a] > c[b]
      ELSE a > b
CloserOf(c, r, a, b) ==
    IF r.text.near[a] # r.text.near[b] THEN r.text.near[a] > r.text.near[b] ELSE AheadOf(c, r, a, b)

SortedOf(c, r, S) == CHOOSE s \in SetToSeqs(S) : \A i, j \in DOMAIN s : i < j => AheadOf(c, r, s[i], s[j])
ClosestOf(c, r, S) == CHOOSE s \in SetToSeqs(S) : \A i, j \in DOMAIN s : i < j => CloserOf(c, r, s[i], s[j])

AheadIn(c, r, S) == {p \in S \X S : AheadOf(c, r, p[1], p[2])}
CloserIn(c, r, S) == {p \in S \X S : CloserOf(c, r, p[1], p[2])}

\* What a client may ask for.
LEMMA RequestFacts ==
    ASSUME SearchAssumption, NEW r \in Requests
    PROVE  /\ r.types \subseteq Types
           /\ r.text # NoText => r.text.score \in [Torrents -> Nat] /\ r.text.near \in [Torrents -> Nat]
BY DEF SearchAssumption

\* Neither order has ties: hashes decide what scores, nearness and times leave open.
LEMMA AheadIsOrder ==
    ASSUME SearchAssumption, NEW c \in [Torrents -> Nat], NEW r \in Requests
    PROVE  /\ \A a, b \in Torrents : ~ (AheadOf(c, r, a, b) /\ AheadOf(c, r, b, a))
           /\ \A a, b \in Torrents : a # b => AheadOf(c, r, a, b) \/ AheadOf(c, r, b, a)
           /\ \A a, b, d \in Torrents : AheadOf(c, r, a, b) /\ AheadOf(c, r, b, d) => AheadOf(c, r, a, d)
<1>1. \A t \in Torrents : t \in Nat /\ c[t] \in Nat BY DEF SearchAssumption
<1>2. r.text # NoText => \A t \in Torrents : r.text.score[t] \in Nat BY RequestFacts
<1> QED BY <1>1, <1>2 DEF AheadOf

LEMMA CloserIsOrder ==
    ASSUME SearchAssumption, NEW c \in [Torrents -> Nat], NEW r \in Requests, r.text # NoText
    PROVE  /\ \A a, b \in Torrents : ~ (CloserOf(c, r, a, b) /\ CloserOf(c, r, b, a))
           /\ \A a, b \in Torrents : a # b => CloserOf(c, r, a, b) \/ CloserOf(c, r, b, a)
           /\ \A a, b, d \in Torrents : CloserOf(c, r, a, b) /\ CloserOf(c, r, b, d) => CloserOf(c, r, a, d)
<1>1. \A t \in Torrents : r.text.near[t] \in Nat BY RequestFacts
<1> QED BY <1>1, AheadIsOrder DEF CloserOf

\* A sorted list exists, so that it is sorted: what CHOOSE takes is what it asks for.
LEMMA SortedArranges ==
    ASSUME SearchAssumption, NEW c \in [Torrents -> Nat], NEW r \in Requests, NEW S \in SUBSET Torrents
    PROVE  /\ SortedOf(c, r, S) \in SetToSeqs(S) /\ Arranged(AheadIn(c, r, S), SortedOf(c, r, S))
           /\ StrictOrder(AheadIn(c, r, S), S)
<1> DEFINE R == AheadIn(c, r, S)
<1>1. \A a, b \in S : <<a, b>> \in R <=> AheadOf(c, r, a, b) BY DEF AheadIn
<1>2. StrictOrder(R, S) BY <1>1, AheadIsOrder DEF StrictOrder
<1>3. IsFiniteSet(S) BY FS_Subset DEF SearchAssumption
<1> HIDE DEF R
<1>4. PICK s \in SetToSeqs(S) : Arranged(R, s) BY <1>2, <1>3, SomeArrangement
<1>5. \A z \in SetToSeqs(S) : \A i \in DOMAIN z : z[i] \in S BY <1>3, ArrangementFacts
<1>6. \A z \in SetToSeqs(S) :
        Arranged(R, z) <=> \A i, j \in DOMAIN z : i < j => AheadOf(c, r, z[i], z[j])
  BY <1>1, <1>5 DEF Arranged
<1>7. \A i, j \in DOMAIN s : i < j => AheadOf(c, r, s[i], s[j]) BY <1>4, <1>6
<1>8. SortedOf(c, r, S) \in SetToSeqs(S)
      /\ \A i, j \in DOMAIN SortedOf(c, r, S) :
           i < j => AheadOf(c, r, SortedOf(c, r, S)[i], SortedOf(c, r, S)[j])
  BY <1>7 DEF SortedOf
<1> QED BY <1>2, <1>6, <1>8 DEF R

LEMMA ClosestArranges ==
    ASSUME SearchAssumption, NEW c \in [Torrents -> Nat], NEW r \in Requests, r.text # NoText,
           NEW S \in SUBSET Torrents
    PROVE  /\ ClosestOf(c, r, S) \in SetToSeqs(S) /\ Arranged(CloserIn(c, r, S), ClosestOf(c, r, S))
           /\ StrictOrder(CloserIn(c, r, S), S)
<1> DEFINE R == CloserIn(c, r, S)
<1>1. \A a, b \in S : <<a, b>> \in R <=> CloserOf(c, r, a, b) BY DEF CloserIn
<1>2. StrictOrder(R, S) BY <1>1, CloserIsOrder DEF StrictOrder
<1>3. IsFiniteSet(S) BY FS_Subset DEF SearchAssumption
<1> HIDE DEF R
<1>4. PICK s \in SetToSeqs(S) : Arranged(R, s) BY <1>2, <1>3, SomeArrangement
<1>5. \A z \in SetToSeqs(S) : \A i \in DOMAIN z : z[i] \in S BY <1>3, ArrangementFacts
<1>6. \A z \in SetToSeqs(S) :
        Arranged(R, z) <=> \A i, j \in DOMAIN z : i < j => CloserOf(c, r, z[i], z[j])
  BY <1>1, <1>5 DEF Arranged
<1>7. \A i, j \in DOMAIN s : i < j => CloserOf(c, r, s[i], s[j]) BY <1>4, <1>6
<1>8. ClosestOf(c, r, S) \in SetToSeqs(S)
      /\ \A i, j \in DOMAIN ClosestOf(c, r, S) :
           i < j => CloserOf(c, r, ClosestOf(c, r, S)[i], ClosestOf(c, r, S)[j])
  BY <1>7 DEF ClosestOf
<1> QED BY <1>2, <1>6, <1>8 DEF R

\* The order of what is listed depends on the times of what is listed only.
LEMMA SameOrder ==
    ASSUME SearchAssumption, NEW c \in [Torrents -> Nat], NEW d \in [Torrents -> Nat], NEW r \in Requests,
           NEW S \in SUBSET Torrents, \A t \in S : c[t] = d[t]
    PROVE  /\ SortedOf(c, r, S) = SortedOf(d, r, S)
           /\ r.text # NoText => ClosestOf(c, r, S) = ClosestOf(d, r, S)
<1>1. IsFiniteSet(S) BY FS_Subset DEF SearchAssumption
<1>2. \A a, b \in S : AheadOf(c, r, a, b) <=> AheadOf(d, r, a, b) BY DEF AheadOf
<1>3. AheadIn(c, r, S) = AheadIn(d, r, S) BY <1>2 DEF AheadIn
<1>4. SortedOf(c, r, S) = SortedOf(d, r, S)
  <2>1. NoTies(AheadIn(c, r, S), S) BY SortedArranges DEF StrictOrder, NoTies
  <2> QED BY <1>1, <1>3, <2>1, SortedArranges, OneArrangement
<1>5. ASSUME r.text # NoText PROVE ClosestOf(c, r, S) = ClosestOf(d, r, S)
  <2>1. \A a, b \in S : CloserOf(c, r, a, b) <=> CloserOf(d, r, a, b) BY <1>2 DEF CloserOf
  <2>2. CloserIn(c, r, S) = CloserIn(d, r, S) BY <2>1 DEF CloserIn
  <2>3. NoTies(CloserIn(c, r, S), S) BY <1>5, ClosestArranges DEF StrictOrder, NoTies
  <2>4. ClosestOf(c, r, S) \in SetToSeqs(S) /\ Arranged(CloserIn(c, r, S), ClosestOf(c, r, S))
    BY <1>5, ClosestArranges
  <2>5. ClosestOf(d, r, S) \in SetToSeqs(S) /\ Arranged(CloserIn(c, r, S), ClosestOf(d, r, S))
    BY <1>5, <2>2, ClosestArranges
  <2> QED BY <1>1, <2>3, <2>4, <2>5, OneArrangement
<1> QED BY <1>4, <1>5

\* The lists of the model are these values.
LEMMA ListsAre ==
    ASSUME NEW S
    PROVE  Sorted(S) = SortedOf(created, request, S) /\ ByNearness(S) = ClosestOf(created, request, S)
BY DEF Sorted, SortedOf, ByNearness, ClosestOf, Before, ByScore, OnElastic, HasText, Score, AheadOf,
       Nearer, Nearness, CloserOf

----------------------------------------------------------------------------
(***************************************************************************)
(* The inductive invariant.                                                *)
(***************************************************************************)
Stages == {"idle", "ask", "items", "count", "next", "facets", "text", "vector", "plain", "done"}
Rows == {"none", "open", "stored", "removed"}

StoresTyped ==
    /\ now \in MinTime..MaxTime /\ created \in [Torrents -> 0..MaxTime]
    /\ row \in [Torrents -> Rows]
    /\ indexed \subseteq {t \in Torrents : row[t] \in {"stored", "removed"}}

WalkTyped ==
    /\ walk \in [request : Requests, barrier : Int, offset : Nat, shown : Seq(Torrents), stage : Stages]
    /\ page \in [text : Seq(Torrents), items : Seq(Torrents), total : Nat, next : BOOLEAN,
                 facets : {<<>>} \cup [Types -> Nat]]
    /\ paths \subseteq {"rows", "merged", "plain"}

\* How far the client is: before the first page nothing is shown; a search has its own store.
Begun ==
    /\ ~Walking => paths = {} /\ disturbed = {}
    /\ paths = {} => walk.shown = <<>> /\ walk.offset = 0
    /\ walk.stage = "done" => paths # {}
    /\ walk.stage \in {"items", "count", "next", "facets"} => ~OnElastic
    /\ walk.stage \in {"text", "vector", "plain"} => OnElastic
    /\ OnElastic => "rows" \notin paths
    /\ ~OnElastic => paths \subseteq {"rows"}

\* A transaction that begins now is after the barrier, one that began before it is Margin old.
BarrierPast == Walking => walk.barrier + Margin <= now

\* What was found stays what it was when it was found, whatever becomes of it.
Found(t) == row[t] \in {"stored", "removed"} /\ created[t] <= walk.barrier
AskedFor(t) == request.types = {} \/ TypeOf[t] \in request.types
ShownFound ==
    /\ \A t \in Range(walk.shown) : Found(t) /\ AskedFor(t)
    /\ walk.stage \in {"count", "next", "facets"} => \A t \in Range(page.items) : Found(t) /\ AskedFor(t)
    /\ walk.stage = "vector" => \A t \in Range(page.text) : Found(t)

\* What a page finds so far is what there is.
TextHits == First(Window, Sorted(Matching))
PageCurrent ==
    /\ walk.stage \in {"count", "next", "facets"} => page.items = PageOf(Sorted(Selected))
    /\ walk.stage \in {"next", "facets"} => page.total = Cardinality(Selected)
    /\ walk.stage = "facets" => page.next = (page.items # <<>> /\ NextExists)
    /\ walk.stage = "vector" => page.text = TextHits

\* What was shown is the beginning of the list from which the next page will be cut.
ShownOf(s) == walk.offset <= Len(s) /\ walk.shown = SubSeq(s, 1, walk.offset)
ShownSoFar ==
    walk.stage # "done" =>
      /\ paths \in {{"rows"}, {"plain"}} => ShownOf(Sorted(Selected))
      /\ paths = {"merged"} =>
           ~Tied(TextHits, NearHits) /\ \E s \in Merges(TextHits, NearHits) : ShownOf(s)

\* And in the end all of it.
ShownInFull ==
    walk.stage = "done" =>
      /\ paths \in {{"rows"}, {"plain"}} =>
           /\ walk.shown = Sorted(Selected) /\ page.total = Cardinality(Selected)
           /\ page.facets \in {<<>>, Counts(Matching)}
      /\ paths = {"merged"} =>
           /\ walk.shown \in Merges(TextHits, NearHits) /\ page.total = Len(walk.shown)
           /\ page.text = TextHits /\ page.facets = Counts(Hits(TextHits, NearHits))

OneWay == paths \in {{}, {"rows"}, {"plain"}, {"merged"}}
Listed == disturbed = {} => OneWay /\ PageCurrent /\ ShownSoFar /\ ShownInFull

SearchInv == StoresTyped /\ WalkTyped /\ Begun /\ BarrierPast /\ MarginSuffices /\ ShownFound /\ Listed

----------------------------------------------------------------------------
(***************************************************************************)
(* Lists and the pages that are cut from them.                             *)
(***************************************************************************)
LEMMA FirstFacts ==
    ASSUME SearchAssumption, NEW S, NEW s \in Seq(S)
    PROVE  First(Window, s) \in Seq(S) /\ Range(First(Window, s)) \subseteq Range(s)
<1> DEFINE n == IF Window < Len(s) THEN Window ELSE Len(s)
           p == SubSeq(s, 1, n)
<1>1. Window \in Nat BY DEF SearchAssumption
<1>2. Len(s) \in Nat /\ n \in Int /\ n <= Len(s) /\ DOMAIN s = 1..Len(s) BY <1>1, LenProperties
<1>3. First(Window, s) = p BY DEF First
<1> HIDE DEF n
<1>4. \A i \in 1..n : s[i] \in S BY <1>2, ElementOfSeq
<1>5. p \in Seq(S) /\ Len(p) = (IF 1 <= n THEN n - 1 + 1 ELSE 0) /\ \A i \in 1..(n - 1 + 1) : p[i] = s[1 + i - 1]
  BY <1>2, <1>4, SubSeqProperties
<1> HIDE DEF p
<1>6. DOMAIN p = 1..Len(p) BY <1>5
<1>7. \A i \in DOMAIN p : i \in DOMAIN s /\ p[i] = s[i]
  <2> TAKE i \in DOMAIN p
  <2>1. i \in 1..n BY <1>2, <1>5, <1>6
  <2>2. i \in 1..(n - 1 + 1) /\ 1 + i - 1 = i BY <1>2, <2>1
  <2> QED BY <1>2, <1>5, <2>1, <2>2
<1> QED BY <1>3, <1>5, <1>7 DEF Range

\* The page that follows what was shown.
LEMMA PageFollows ==
    ASSUME SearchAssumption, NEW S, NEW s \in Seq(S), NEW o \in Nat, o <= Len(s)
    PROVE  LET p == PageFrom(o, s) IN
             /\ p \in Seq(S) /\ Range(p) \subseteq Range(s)
             /\ o + Limit < Len(s) => /\ SubSeq(s, 1, o) \o p = SubSeq(s, 1, o + Limit)
                                      /\ p # <<>> /\ o + Len(p) < Len(s)
             /\ ~ (o + Limit < Len(s)) => SubSeq(s, 1, o) \o p = s /\ o + Len(p) = Len(s)
<1> DEFINE e == IF o + Limit < Len(s) THEN o + Limit ELSE Len(s)
           p == SubSeq(s, o + 1, e)
<1>1. Limit \in Nat /\ Limit > 0 /\ Len(s) \in Nat /\ DOMAIN s = 1..Len(s)
  BY LenProperties DEF SearchAssumption
<1>2. e \in o..Len(s) BY <1>1
<1>3. PageFrom(o, s) = p BY DEF PageFrom
<1>4. SubSeq(s, 1, o) \o p = SubSeq(s, 1, e)
  <2>1. 1 \in 1..Len(s) + 1 /\ o \in 1 - 1..Len(s) BY <1>1
  <2> HIDE DEF e
  <2> QED BY <1>2, <2>1, ConcatAdjacentSubSeq
<1>5. SubSeq(s, 1, Len(s)) = s BY SubSeqFull
<1>6. p \in Seq(S) /\ Len(p) = e - o /\ \A i \in 1..(e - o) : p[i] = s[o + i]
  <2> HIDE DEF e
  <2>1. o + 1 \in Int /\ e \in Int BY <1>2
  <2>2. \A i \in (o + 1)..e : s[i] \in S
    <3> TAKE i \in (o + 1)..e
    <3>1. i \in 1..Len(s) BY <1>1, <1>2
    <3> QED BY <3>1, ElementOfSeq
  <2>3. /\ p \in Seq(S) /\ Len(p) = IF o + 1 <= e THEN e - (o + 1) + 1 ELSE 0
        /\ \A i \in 1..(e - (o + 1) + 1) : p[i] = s[o + 1 + i - 1]
    BY <2>1, <2>2, SubSeqProperties
  <2> HIDE DEF p
  <2>4. Len(p) = e - o BY <1>2, <2>3
  <2>5. ASSUME NEW i \in 1..(e - o) PROVE p[i] = s[o + i]
    <3>1. i \in 1..(e - (o + 1) + 1) /\ o + 1 + i - 1 = o + i BY <1>2
    <3> QED BY <2>3, <3>1
  <2> QED BY <2>3, <2>4, <2>5
<1> HIDE DEF p
<1>7. Range(p) \subseteq Range(s)
  <2>1. DOMAIN p = 1..(e - o) BY <1>6, LenProperties
  <2>2. \A i \in DOMAIN p : o + i \in DOMAIN s /\ p[i] = s[o + i] BY <1>1, <1>2, <1>6, <2>1
  <2> QED BY <2>2 DEF Range
<1>8. CASE o + Limit < Len(s)
  <2>1. e = o + Limit BY <1>8
  <2> HIDE DEF e
  <2>2. Len(p) = Limit BY <1>1, <1>6, <2>1
  <2>3. p # <<>> BY <1>1, <2>2, EmptySeq
  <2> QED BY <1>1, <1>3, <1>4, <1>6, <1>7, <1>8, <2>1, <2>2, <2>3
<1>9. CASE ~ (o + Limit < Len(s))
  <2>1. e = Len(s) BY <1>9
  <2> HIDE DEF e
  <2>2. o + Len(p) = Len(s) BY <1>1, <1>6, <2>1
  <2> QED BY <1>3, <1>4, <1>5, <1>6, <1>7, <1>9, <2>1, <2>2
<1> QED BY <1>8, <1>9

\* A page has nothing that the list it is cut from has not.
LEMMA PageIsPart ==
    ASSUME SearchAssumption, NEW S, NEW s \in Seq(S), NEW o \in Nat
    PROVE  PageFrom(o, s) \in Seq(S) /\ Range(PageFrom(o, s)) \subseteq Range(s)
<1>1. CASE o <= Len(s) BY <1>1, PageFollows
<1>2. CASE ~ (o <= Len(s))
  <2>1. Len(s) \in Nat /\ Limit \in Nat BY LenProperties DEF SearchAssumption
  <2>2. PageFrom(o, s) = SubSeq(s, o + 1, Len(s)) BY <1>2, <2>1 DEF PageFrom
  <2>3. PageFrom(o, s) = <<>> BY <1>2, <2>1, <2>2, SubSeqEmpty
  <2>4. <<>> \in Seq(S) /\ Range(<<>>) = {} BY DEF Range
  <2> QED BY <2>3, <2>4
<1> QED BY <1>1, <1>2

LEMMA RangeOfConcat ==
    ASSUME NEW S, NEW s \in Seq(S), NEW t \in Seq(S)
    PROVE  Range(s \o t) \subseteq Range(s) \cup Range(t)
<1>1. /\ s \o t \in Seq(S) /\ Len(s \o t) = Len(s) + Len(t)
      /\ \A i \in 1..Len(s) + Len(t) : (s \o t)[i] = IF i <= Len(s) THEN s[i] ELSE t[i - Len(s)]
  BY ConcatProperties
<1>2. Len(s) \in Nat /\ Len(t) \in Nat /\ DOMAIN s = 1..Len(s) /\ DOMAIN t = 1..Len(t) BY LenProperties
<1>3. DOMAIN (s \o t) = 1..Len(s) + Len(t) BY <1>1, LenProperties
<1>4. ASSUME NEW i \in 1..Len(s) + Len(t) PROVE (s \o t)[i] \in Range(s) \cup Range(t)
  <2>1. CASE i <= Len(s)
    <3>1. i \in DOMAIN s /\ (s \o t)[i] = s[i] BY <1>1, <1>2, <2>1
    <3> QED BY <3>1 DEF Range
  <2>2. CASE ~ (i <= Len(s))
    <3>1. i - Len(s) \in DOMAIN t /\ (s \o t)[i] = t[i - Len(s)] BY <1>1, <1>2, <2>2
    <3> QED BY <3>1 DEF Range
  <2> QED BY <2>1, <2>2
<1> QED BY <1>3, <1>4 DEF Range

\* What is selected is stored, and matches.
LEMMA TypedFacts ==
    ASSUME SearchAssumption, StoresTyped, WalkTyped
    PROVE  /\ created \in [Torrents -> Nat] /\ request \in Requests
           /\ Present \subseteq Torrents /\ BehindBarrier \subseteq Torrents
           /\ Matching \subseteq BehindBarrier /\ Selected \subseteq Matching
           /\ walk.offset \in Nat /\ walk.shown \in Seq(Torrents) /\ walk.stage \in Stages
<1>1. created \in [Torrents -> Nat]
  <2>1. 0..MaxTime \subseteq Nat BY DEF SearchAssumption
  <2> QED BY <2>1 DEF StoresTyped
<1>2. request \in Requests /\ walk.offset \in Nat /\ walk.shown \in Seq(Torrents) /\ walk.stage \in Stages
  BY DEF WalkTyped, request
<1>3. Present \subseteq Torrents BY DEF Present, StoresTyped
<1> QED BY <1>1, <1>2, <1>3 DEF BehindBarrier, Matching, Selected, OfTypes

\* What is sorted has each torrent once.
LEMMA ListFacts ==
    ASSUME SearchAssumption, StoresTyped, WalkTyped, NEW S \in SUBSET Torrents
    PROVE  /\ Sorted(S) \in SetToSeqs(S) /\ Sorted(S) \in Seq(S) /\ Len(Sorted(S)) = Cardinality(S)
           /\ Range(Sorted(S)) = S /\ IsInjective(Sorted(S)) /\ Cardinality(S) \in Nat
           /\ HasText => ByNearness(S) \in SetToSeqs(S) /\ ByNearness(S) \in Seq(S) /\ Range(ByNearness(S)) = S
<1>1. IsFiniteSet(S) BY FS_Subset DEF SearchAssumption
<1>2. created \in [Torrents -> Nat] /\ request \in Requests BY TypedFacts
<1>3. Sorted(S) \in SetToSeqs(S) BY <1>2, ListsAre, SortedArranges
<1>4. HasText => ByNearness(S) \in SetToSeqs(S) BY <1>2, ListsAre, ClosestArranges DEF HasText
<1> QED BY <1>1, <1>3, <1>4, ArrangementFacts

\* The hits of a text match it; those of a vector are behind the barrier.
LEMMA HitFacts ==
    ASSUME SearchAssumption, StoresTyped, WalkTyped
    PROVE  /\ TextHits \in Seq(Torrents) /\ Range(TextHits) \subseteq Matching
           /\ HasText => NearHits \in Seq(Torrents) /\ Range(NearHits) \subseteq BehindBarrier
<1>1. /\ Matching \in SUBSET Torrents /\ BehindBarrier \in SUBSET Torrents BY TypedFacts
<1>2. TextHits \in Seq(Matching) /\ Range(TextHits) \subseteq Matching
  <2>1. Sorted(Matching) \in Seq(Matching) /\ Range(Sorted(Matching)) = Matching BY <1>1, ListFacts
  <2> QED BY <2>1, FirstFacts DEF TextHits
<1>3. TextHits \in Seq(Torrents) BY <1>1, <1>2, SeqMonotonic
<1>4. ASSUME HasText PROVE NearHits \in Seq(Torrents) /\ Range(NearHits) \subseteq BehindBarrier
  <2>1. ByNearness(BehindBarrier) \in Seq(BehindBarrier) /\ Range(ByNearness(BehindBarrier)) = BehindBarrier
    BY <1>1, <1>4, ListFacts
  <2>2. Range(Nearest) \subseteq BehindBarrier BY <2>1, FirstFacts DEF Nearest
  <2> DEFINE X == {t \in Range(Nearest) : ByScore /\ Nearness(t) >= 3
                     /\ \A u \in Range(Nearest) : 10 * Nearness(t) >= 6 * Nearness(u)}
  <2>3. X \subseteq BehindBarrier /\ X \in SUBSET Torrents BY <1>1, <2>2
  <2>4. NearHits = ByNearness(X) BY DEF NearHits
  <2> HIDE DEF X
  <2>5. ByNearness(X) \in Seq(X) /\ Range(ByNearness(X)) = X BY <1>4, <2>3, ListFacts
  <2>6. NearHits \in Seq(Torrents) BY <2>3, <2>4, <2>5, SeqMonotonic
  <2> QED BY <2>3, <2>4, <2>5, <2>6
<1> QED BY <1>2, <1>3, <1>4

\* Without ties there is one merge.
LEMMA MergeFacts ==
    ASSUME SearchAssumption, NEW x \in Seq(Torrents), NEW y \in Seq(Torrents)
    PROVE  /\ Hits(x, y) \subseteq Torrents
           /\ \A s \in Merges(x, y) :
                /\ s \in SetToSeqs(OfTypes(Hits(x, y))) /\ s \in Seq(Torrents)
                /\ Range(s) = OfTypes(Hits(x, y)) /\ IsInjective(s)
           /\ ~Tied(x, y) => \A s, t \in Merges(x, y) : s = t
<1> DEFINE S == OfTypes(Hits(x, y))
           R == {p \in S \X S : NoWorse(x, y, p[1], p[2])}
<1>1. Range(x) \subseteq Torrents /\ Range(y) \subseteq Torrents BY LenProperties, ElementOfSeq DEF Range
<1>2. Hits(x, y) \subseteq Torrents /\ S \subseteq Hits(x, y) BY <1>1 DEF Hits, OfTypes
<1>3. IsFiniteSet(S) BY <1>2, FS_Subset DEF SearchAssumption
<1> HIDE DEF S
<1>4. \A s \in Merges(x, y) : s \in SetToSeqs(S) /\ \A i, j \in DOMAIN s : i < j => NoWorse(x, y, s[i], s[j])
  BY DEF Merges, S
<1>5. \A s \in Merges(x, y) : s \in Seq(S) /\ Range(s) = S /\ IsInjective(s) BY <1>3, <1>4, ArrangementFacts
<1>6. \A s \in Merges(x, y) : s \in Seq(Torrents) BY <1>2, <1>5, SeqMonotonic
<1>7. ASSUME ~Tied(x, y), NEW s \in Merges(x, y), NEW t \in Merges(x, y) PROVE s = t
  <2>1. \A a, b \in S : <<a, b>> \in R <=> NoWorse(x, y, a, b) OBVIOUS
  <2> HIDE DEF R
  <2>2. NoTies(R, S) BY <1>2, <1>7, <2>1 DEF NoTies, Tied
  <2>3. \A z \in SetToSeqs(S) : \A i \in DOMAIN z : z[i] \in S BY <1>3, ArrangementFacts
  <2>4. \A z \in Merges(x, y) : Arranged(R, z) BY <1>4, <2>1, <2>3 DEF Arranged
  <2> QED BY <1>3, <1>4, <2>2, <2>4, OneArrangement
<1> QED BY <1>2, <1>4, <1>5, <1>6, <1>7 DEF S

\* The buckets of some types together are the torrents of these types: count them in each bucket.
LEMMA BucketsAddUp ==
    ASSUME SearchAssumption, NEW S \in SUBSET Torrents, NEW types \in SUBSET Types
    PROVE  Sum(Counts(S), types) = Cardinality({t \in S : TypeOf[t] \in types})
<1> DEFINE Bucket(k) == {t \in S : TypeOf[t] = k}
           X == {t \in S : TypeOf[t] \in types}
           B == {p \in types \X (1..Cardinality(Torrents)) : p[2] <= Counts(S)[p[1]]}
           g == [k \in types |-> CHOOSE b : b \in Bijection(1..Cardinality(Bucket(k)), Bucket(k))]
           f == [p \in B |-> g[p[1]][p[2]]]
<1>1. IsFiniteSet(Torrents) /\ Cardinality(Torrents) \in Nat BY FS_CardinalityType DEF SearchAssumption
<1>2. \A k \in types :
        Cardinality(Bucket(k)) \in Nat /\ Cardinality(Bucket(k)) <= Cardinality(Torrents)
        /\ g[k] \in Bijection(1..Cardinality(Bucket(k)), Bucket(k))
  <2> TAKE k \in types
  <2>1. Bucket(k) \in SUBSET Torrents OBVIOUS
  <2>2. IsFiniteSet(Bucket(k)) /\ Cardinality(Bucket(k)) <= Cardinality(Torrents) BY <1>1, <2>1, FS_Subset
  <2>3. Cardinality(Bucket(k)) \in Nat /\ ExistsBijection(1..Cardinality(Bucket(k)), Bucket(k))
    BY <2>2, FS_CardinalityType
  <2> HIDE DEF Bucket
  <2>4. \E b : b \in Bijection(1..Cardinality(Bucket(k)), Bucket(k)) BY <2>3 DEF ExistsBijection
  <2>5. g[k] = CHOOSE b : b \in Bijection(1..Cardinality(Bucket(k)), Bucket(k)) OBVIOUS
  <2> HIDE DEF g
  <2>6. g[k] \in Bijection(1..Cardinality(Bucket(k)), Bucket(k)) BY <2>4, <2>5
  <2> QED BY <2>2, <2>3, <2>6
<1> HIDE DEF g
<1>3. \A k \in types : Counts(S)[k] = Cardinality(Bucket(k)) BY DEF Counts
<1>4. \A k \in types :
        /\ g[k] \in [1..Cardinality(Bucket(k)) -> Bucket(k)]
        /\ \A i, j \in 1..Cardinality(Bucket(k)) : g[k][i] = g[k][j] => i = j
        /\ \A t \in Bucket(k) : \E i \in 1..Cardinality(Bucket(k)) : g[k][i] = t
  <2> TAKE k \in types
  <2> DEFINE n == Cardinality(Bucket(k))
             U == Bucket(k)
  <2>1. g[k] \in Bijection(1..n, U) BY <1>2
  <2> HIDE DEF n, U
  <2>2. /\ g[k] \in [1..n -> U] /\ (\A i, j \in 1..n : g[k][i] = g[k][j] => i = j)
        /\ \A t \in U : \E i \in 1..n : g[k][i] = t
    <3>1. g[k] \in [1..n -> U] /\ IsInjective(g[k]) BY <2>1 DEF Bijection, Injection
    <3>2. \A t \in U : \E i \in 1..n : g[k][i] = t BY <2>1 DEF Bijection, Surjection
    <3> QED BY <3>1, <3>2 DEF IsInjective
  <2> QED BY <2>2 DEF n, U
<1>5. \A p \in B : p[1] \in types /\ p[2] \in 1..Cardinality(Bucket(p[1])) /\ p = <<p[1], p[2]>>
  BY <1>1, <1>2, <1>3
<1>6. \A k \in types : \A i \in 1..Cardinality(Bucket(k)) : <<k, i>> \in B
  <2> TAKE k \in types
  <2> TAKE i \in 1..Cardinality(Bucket(k))
  <2>1. i \in 1..Cardinality(Torrents) /\ i <= Counts(S)[k] BY <1>1, <1>2, <1>3
  <2> QED BY <2>1
<1>7. \A t \in S : t \in Bucket(TypeOf[t]) OBVIOUS
<1>8. \A k \in types : \A t \in Bucket(k) : t \in X /\ TypeOf[t] = k OBVIOUS
<1>9. \A t \in X : t \in S /\ TypeOf[t] \in types OBVIOUS
<1>10. IsFiniteSet(B)
  <2>1. IsFiniteSet(types) BY FS_Subset DEF SearchAssumption
  <2>2. IsFiniteSet(1..Cardinality(Torrents)) BY <1>1, FS_Interval
  <2>3. IsFiniteSet(types \X (1..Cardinality(Torrents))) BY <2>1, <2>2, FS_Product
  <2>4. B \in SUBSET (types \X (1..Cardinality(Torrents))) OBVIOUS
  <2> HIDE DEF B
  <2> QED BY <2>3, <2>4, FS_Subset
<1>11. Sum(Counts(S), types) = Cardinality(B) BY DEF Sum
<1> HIDE DEF B, X, Bucket
<1>12. \A p \in B : f[p] = g[p[1]][p[2]] /\ f[p] \in Bucket(p[1])
  <2> TAKE p \in B
  <2>1. f[p] = g[p[1]][p[2]] OBVIOUS
  <2>2. p[1] \in types /\ p[2] \in 1..Cardinality(Bucket(p[1])) BY <1>5
  <2>3. g[p[1]] \in [1..Cardinality(Bucket(p[1])) -> Bucket(p[1])] BY <1>4, <2>2
  <2>4. g[p[1]][p[2]] \in Bucket(p[1]) BY <2>2, <2>3
  <2> QED BY <2>1, <2>4
<1>13. f \in [B -> X] BY <1>5, <1>8, <1>12
<1>14. \A p, q \in B : f[p] = f[q] => p = q
  <2> SUFFICES ASSUME NEW p \in B, NEW q \in B, f[p] = f[q] PROVE p = q OBVIOUS
  <2>1. p[1] = q[1] BY <1>5, <1>8, <1>12
  <2>2. p[2] = q[2] BY <1>4, <1>5, <1>12, <2>1
  <2> QED BY <1>5, <2>1, <2>2
<1>15. \A t \in X : \E p \in B : f[p] = t
  <2> TAKE t \in X
  <2>1. TypeOf[t] \in types /\ t \in Bucket(TypeOf[t]) BY <1>7, <1>9
  <2>2. PICK i \in 1..Cardinality(Bucket(TypeOf[t])) : g[TypeOf[t]][i] = t BY <1>4, <2>1
  <2>3. <<TypeOf[t], i>> \in B BY <1>6, <2>1
  <2>4. f[<<TypeOf[t], i>>] = t BY <1>12, <2>2, <2>3
  <2> QED BY <2>3, <2>4
<1> HIDE DEF f
<1>16. f \in Injection(B, X) BY <1>13, <1>14, Fun_IsInj
<1>17. f \in Surjection(B, X) BY <1>13, <1>15, Fun_IsSurj
<1>18. ExistsBijection(B, X) BY <1>16, <1>17 DEF Bijection, ExistsBijection
<1>19. Cardinality(X) = Cardinality(B) BY <1>10, <1>18, FS_Bijection
<1> QED BY <1>11, <1>19 DEF X

----------------------------------------------------------------------------
(***************************************************************************)
(* Steps that leave what is listed as it is.                               *)
(***************************************************************************)
Steady ==
    request' = request /\ BehindBarrier' = BehindBarrier /\ \A t \in BehindBarrier : created'[t] = created[t]

NearOnes ==
    {t \in Range(Nearest) :
        ByScore /\ Nearness(t) >= 3 /\ \A u \in Range(Nearest) : 10 * Nearness(t) >= 6 * Nearness(u)}

\* As long as what is behind the barrier stays, every list made of it stays.
LEMMA SteadyLists ==
    ASSUME SearchAssumption, StoresTyped, WalkTyped, StoresTyped', WalkTyped', Steady
    PROVE  /\ OnElastic' <=> OnElastic
           /\ Matching' = Matching /\ Selected' = Selected /\ Sorted(Selected)' = Sorted(Selected)
           /\ TextHits' = TextHits /\ (HasText => NearHits' = NearHits)
           /\ \A x, y : Hits(x, y)' = Hits(x, y) /\ Merges(x, y)' = Merges(x, y) /\ (Tied(x, y)' <=> Tied(x, y))
<1>1. /\ created \in [Torrents -> Nat] /\ created' \in [Torrents -> Nat] /\ request \in Requests
      /\ BehindBarrier \subseteq Torrents /\ Matching \subseteq BehindBarrier /\ Selected \subseteq Matching
  <2>1. 0..MaxTime \subseteq Nat BY DEF SearchAssumption
  <2>2. created' \in [Torrents -> Nat] BY <2>1 DEF StoresTyped
  <2> QED BY <2>2, TypedFacts
<1>2. request' = request /\ BehindBarrier' = BehindBarrier BY DEF Steady
<1>3. (HasText' <=> HasText) /\ (OnElastic' <=> OnElastic) /\ (ByScore' <=> ByScore)
  BY <1>2 DEF HasText, OnElastic, ByScore
<1>4. Matching' = Matching BY <1>2 DEF Matching, HasText, Score
<1>5. Selected' = Selected BY <1>2, <1>4 DEF Selected, OfTypes
<1>6. \A S \in SUBSET BehindBarrier :
        /\ SortedOf(created, request, S) = SortedOf(created', request, S)
        /\ HasText => ClosestOf(created, request, S) = ClosestOf(created', request, S)
  BY <1>1, SameOrder DEF Steady, HasText
<1>7. /\ Sorted(Selected)' = SortedOf(created', request', Selected')
      /\ Sorted(Matching)' = SortedOf(created', request', Matching')
      /\ ByNearness(BehindBarrier)' = ClosestOf(created', request', BehindBarrier')
      /\ ByNearness(NearOnes)' = ClosestOf(created', request', NearOnes')
  BY DEF Sorted, SortedOf, ByNearness, ClosestOf, Before, ByScore, OnElastic, HasText, Score, AheadOf,
         Nearer, Nearness, CloserOf
<1>8. Sorted(Selected)' = Sorted(Selected) BY <1>1, <1>2, <1>5, <1>6, <1>7, ListsAre
<1>9. Sorted(Matching)' = Sorted(Matching) BY <1>1, <1>2, <1>4, <1>6, <1>7, ListsAre
<1>10. TextHits' = TextHits BY <1>9 DEF TextHits, First
<1>11. ASSUME HasText PROVE NearHits' = NearHits
  <2>1. ByNearness(BehindBarrier)' = ByNearness(BehindBarrier) BY <1>2, <1>6, <1>7, <1>11, ListsAre
  <2>2. Nearest' = Nearest BY <2>1 DEF Nearest, First
  <2>3. \A t : Nearness(t)' = Nearness(t) BY <1>2 DEF Nearness
  <2>4. NearOnes' = NearOnes BY <1>3, <2>2, <2>3 DEF NearOnes, Range
  <2>5. ByNearness(BehindBarrier) \in Seq(BehindBarrier) /\ Range(ByNearness(BehindBarrier)) = BehindBarrier
    BY <1>1, <1>11, ListFacts
  <2>6. NearOnes \subseteq BehindBarrier BY <2>5, FirstFacts DEF NearOnes, Nearest
  <2>7. ByNearness(NearOnes)' = ByNearness(NearOnes) BY <1>2, <1>6, <1>7, <1>11, <2>4, <2>6, ListsAre
  <2> QED BY <2>7 DEF NearHits, NearOnes
<1>12. \A x, y : Hits(x, y)' = Hits(x, y) BY DEF Hits, Range
<1>13. \A x, y, a, b : (NoWorse(x, y, a, b)' <=> NoWorse(x, y, a, b)) BY DEF NoWorse, RankOf, Share
<1>14. \A x, y : (Tied(x, y)' <=> Tied(x, y)) BY <1>12, <1>13 DEF Tied
<1>15. \A S : OfTypes(S)' = OfTypes(S) BY <1>2 DEF OfTypes
<1>16. \A x, y : Merges(x, y)' = Merges(x, y)
  BY <1>2 DEF Merges, OfTypes, Hits, NoWorse, RankOf, Share, Contains, Range
<1> QED BY <1>3, <1>4, <1>5, <1>8, <1>10, <1>11, <1>12, <1>14, <1>16

\* And so does every way to merge the two lists.
LEMMA SteadyMerges ==
    ASSUME SearchAssumption, StoresTyped, WalkTyped, StoresTyped', WalkTyped', Steady, HasText
    PROVE  /\ Hits(TextHits, NearHits)' = Hits(TextHits, NearHits)
           /\ Merges(TextHits, NearHits)' = Merges(TextHits, NearHits)
           /\ Tied(TextHits, NearHits)' <=> Tied(TextHits, NearHits)
<1>1. TextHits' = TextHits /\ NearHits' = NearHits BY SteadyLists
<1>2. request' = request BY DEF Steady
<1>3. Hits(TextHits, NearHits)' = Hits(TextHits, NearHits) BY <1>1 DEF Hits, Range
<1>4. Merges(TextHits, NearHits)' = Merges(TextHits, NearHits)
  BY <1>1, <1>2 DEF Merges, OfTypes, Hits, NoWorse, RankOf, Share, Contains, Range
<1>5. \A a, b : NoWorse(TextHits, NearHits, a, b)' <=> NoWorse(TextHits, NearHits, a, b)
  BY <1>1 DEF NoWorse, RankOf, Share, Contains
<1>6. Tied(TextHits, NearHits)' <=> Tied(TextHits, NearHits) BY <1>3, <1>5 DEF Tied
<1> QED BY <1>3, <1>4, <1>6

----------------------------------------------------------------------------
(***************************************************************************)
(* The stores: what happens in them leaves what was found as it was, and   *)
(* what is listed too unless it is noted.                                  *)
(***************************************************************************)
StoreStep ==
    /\ StoresTyped' /\ UNCHANGED <<walk, page, paths>>
    /\ BarrierPast' /\ MarginSuffices'
    /\ disturbed \subseteq disturbed' /\ (~Walking => disturbed' = disturbed)
    /\ Walking /\ disturbed' = {} => Steady
    /\ \A t \in Torrents : Found(t) => Found(t)'

\* The times are numbers between the bounds.
LEMMA BoundFacts ==
    ASSUME SearchAssumption, StoresTyped
    PROVE  /\ now \in Nat /\ MinTime \in Nat /\ MaxTime \in Nat /\ MinTime <= now /\ now <= MaxTime
           /\ Margin \in Nat /\ Margin > 0 /\ \A t \in Torrents : created[t] \in Nat
BY DEF SearchAssumption, StoresTyped

\* What the stores do between two queries of a walk: each step is a StoreStep.
LEMMA TickIsStoreStep == ASSUME SearchAssumption, SearchInv, Tick PROVE StoreStep
<1>1. /\ now < MaxTime /\ now' = now + 1 /\ created' = created /\ row' = row /\ indexed' = indexed
      /\ walk' = walk /\ page' = page /\ paths' = paths /\ disturbed' = disturbed
  BY DEF Tick
<1>2. StoresTyped' BY <1>1, BoundFacts DEF SearchInv, StoresTyped
<1>3. BarrierPast'
  <2>1. walk.barrier \in Int BY DEF SearchInv, WalkTyped
  <2> QED BY <1>1, <2>1, BoundFacts DEF SearchInv, BarrierPast, Walking
<1>4. MarginSuffices' BY <1>1 DEF SearchInv, MarginSuffices
<1>5. Steady BY <1>1 DEF Steady, BehindBarrier, Present, OnElastic, HasText, request
<1>6. \A t \in Torrents : Found(t) => Found(t)' BY <1>1 DEF Found
<1> QED BY <1>1, <1>2, <1>3, <1>4, <1>5, <1>6 DEF StoreStep

LEMMA BeginIsStoreStep ==
    ASSUME SearchAssumption, SearchInv, NEW x \in Torrents, Begin(x) PROVE StoreStep
<1>1. /\ row[x] = "none" /\ row' = [row EXCEPT ![x] = "open"] /\ created' = [created EXCEPT ![x] = now]
      /\ now' = now /\ indexed' = indexed
      /\ walk' = walk /\ page' = page /\ paths' = paths /\ disturbed' = disturbed
  BY DEF Begin
<1>2. StoresTyped
  BY DEF SearchInv
<1>3. StoresTyped'
  <2>1. now \in 0..MaxTime BY <1>2, BoundFacts
  <2>2. created' \in [Torrents -> 0..MaxTime] BY <1>1, <1>2, <2>1 DEF StoresTyped
  <2>3. row' \in [Torrents -> Rows] BY <1>1, <1>2 DEF StoresTyped, Rows
  <2>4. indexed' \subseteq {t \in Torrents : row'[t] \in {"stored", "removed"}} BY <1>1, <1>2 DEF StoresTyped
  <2> QED BY <1>1, <1>2, <2>2, <2>3, <2>4 DEF StoresTyped
<1>4. BarrierPast' /\ MarginSuffices' BY <1>1 DEF SearchInv, BarrierPast, Walking, MarginSuffices
<1>5. \A t \in Torrents : t # x => row'[t] = row[t] /\ created'[t] = created[t] BY <1>1, <1>2 DEF StoresTyped
<1>6. row'[x] = "open" BY <1>1, <1>2 DEF StoresTyped
<1>7. request' = request /\ (OnElastic' <=> OnElastic) BY <1>1 DEF OnElastic, HasText, request
<1>8. Present' = Present /\ x \notin Present /\ Present \subseteq Torrents
  BY <1>1, <1>2, <1>5, <1>6, <1>7 DEF Present, StoresTyped
<1>9. BehindBarrier' = BehindBarrier /\ \A t \in BehindBarrier : created'[t] = created[t]
  BY <1>1, <1>5, <1>8 DEF BehindBarrier
<1>10. Steady BY <1>7, <1>9 DEF Steady
<1>11. \A t \in Torrents : Found(t) => Found(t)' BY <1>1, <1>5 DEF Found
<1> QED BY <1>1, <1>3, <1>4, <1>10, <1>11 DEF StoreStep

\* What is noted, or it was not behind the barrier.
LEMMA NotedOrBeyond ==
    ASSUME NEW x, NEW what, Notes(x, what)
    PROVE  /\ disturbed \subseteq disturbed' /\ disturbed' \subseteq disturbed \cup {what}
           /\ ~Walking => disturbed' = disturbed
           /\ Walking /\ disturbed' = {} => ~ (created[x] <= walk.barrier)
BY DEF Notes

LEMMA CommitIsStoreStep ==
    ASSUME SearchAssumption, SearchInv, NEW x \in Torrents, Commit(x) PROVE StoreStep
<1> DEFINE what == IF now - created[x] < Margin THEN "quick" ELSE "late"
<1>1. /\ row[x] = "open" /\ row' = [row EXCEPT ![x] = "stored"] /\ created' = created
      /\ now' = now /\ indexed' = indexed /\ walk' = walk /\ page' = page /\ paths' = paths
      /\ IF OnElastic THEN disturbed' = disturbed ELSE Notes(x, what)
  BY DEF Commit
<1>2. StoresTyped /\ walk.barrier \in Int BY DEF SearchInv, WalkTyped
<1>3. StoresTyped'
  <2>1. row' \in [Torrents -> Rows] BY <1>1, <1>2 DEF StoresTyped, Rows
  <2>2. indexed' \subseteq {t \in Torrents : row'[t] \in {"stored", "removed"}} BY <1>1, <1>2 DEF StoresTyped
  <2> QED BY <1>1, <1>2, <2>1, <2>2 DEF StoresTyped
<1>4. BarrierPast' BY <1>1 DEF SearchInv, BarrierPast, Walking
<1>5. Walking /\ created[x] <= walk.barrier => what = "late"
  <2> SUFFICES ASSUME Walking, created[x] <= walk.barrier PROVE ~ (now - created[x] < Margin) OBVIOUS
  <2>1. walk.barrier + Margin <= now BY DEF SearchInv, BarrierPast
  <2>2. created[x] \in Nat /\ Margin \in Nat /\ now \in Nat BY <1>2, BoundFacts
  <2> QED BY <1>2, <2>1, <2>2
<1> HIDE DEF what
<1>6. MarginSuffices'
  <2>1. "quick" \notin disturbed BY DEF SearchInv, MarginSuffices
  <2>2. ASSUME ~OnElastic PROVE "quick" \notin disturbed'
    <3>1. disturbed' = IF Walking /\ created[x] <= walk.barrier THEN disturbed \cup {what} ELSE disturbed
      BY <1>1, <2>2 DEF Notes
    <3> QED BY <1>5, <2>1, <3>1
  <2> QED BY <1>1, <2>1, <2>2 DEF MarginSuffices
<1>7. disturbed \subseteq disturbed' /\ (~Walking => disturbed' = disturbed) BY <1>1, NotedOrBeyond
<1>8. request' = request /\ (OnElastic' <=> OnElastic) BY <1>1 DEF OnElastic, HasText, request
<1>9. ASSUME Walking, disturbed' = {} PROVE Steady
  <2>1. \A t \in Torrents : t # x => row'[t] = row[t] BY <1>1, <1>2 DEF StoresTyped
  <2>2. ~OnElastic => ~ (created[x] <= walk.barrier) BY <1>1, <1>9, NotedOrBeyond
  <2>3. BehindBarrier' = BehindBarrier
    <3>1. CASE OnElastic BY <1>1, <1>8, <3>1 DEF BehindBarrier, Present
    <3>2. CASE ~OnElastic BY <1>1, <1>8, <2>1, <2>2, <3>2 DEF BehindBarrier, Present
    <3> QED BY <3>1, <3>2
  <2> QED BY <1>1, <1>8, <2>3 DEF Steady
<1>10. \A t \in Torrents : Found(t) => Found(t)' BY <1>1, <1>2 DEF Found, StoresTyped
<1> QED BY <1>1, <1>3, <1>4, <1>6, <1>7, <1>9, <1>10 DEF StoreStep

LEMMA IndexIsStoreStep ==
    ASSUME SearchAssumption, SearchInv, NEW x \in Torrents, Index(x) PROVE StoreStep
<1>1. /\ row[x] = "stored" /\ row' = row /\ created' = created /\ indexed' = indexed \cup {x}
      /\ now' = now /\ walk' = walk /\ page' = page /\ paths' = paths
      /\ IF OnElastic THEN Notes(x, "late") ELSE disturbed' = disturbed
  BY DEF Index
<1>2. StoresTyped BY DEF SearchInv
<1>3. StoresTyped' BY <1>1, <1>2 DEF StoresTyped
<1>4. BarrierPast' BY <1>1 DEF SearchInv, BarrierPast, Walking
<1>5. disturbed \subseteq disturbed' /\ disturbed' \subseteq disturbed \cup {"late"}
      /\ (~Walking => disturbed' = disturbed)
  BY <1>1, NotedOrBeyond
<1>6. MarginSuffices' BY <1>5 DEF SearchInv, MarginSuffices
<1>7. request' = request /\ (OnElastic' <=> OnElastic) BY <1>1 DEF OnElastic, HasText, request
<1>8. ASSUME Walking, disturbed' = {} PROVE Steady
  <2>1. OnElastic => ~ (created[x] <= walk.barrier) BY <1>1, <1>8, NotedOrBeyond
  <2>2. BehindBarrier' = BehindBarrier
    <3>1. CASE ~OnElastic BY <1>1, <1>7, <3>1 DEF BehindBarrier, Present
    <3>2. CASE OnElastic BY <1>1, <1>7, <2>1, <3>2 DEF BehindBarrier, Present
    <3> QED BY <3>1, <3>2
  <2> QED BY <1>1, <1>7, <2>2 DEF Steady
<1>9. \A t \in Torrents : Found(t) => Found(t)' BY <1>1 DEF Found
<1> QED BY <1>1, <1>3, <1>4, <1>5, <1>6, <1>8, <1>9 DEF StoreStep

LEMMA DeleteIsStoreStep ==
    ASSUME SearchAssumption, SearchInv, NEW x \in Torrents, Delete(x) PROVE StoreStep
<1>1. /\ row[x] = "stored" /\ row' = [row EXCEPT ![x] = "removed"] /\ created' = created
      /\ indexed' = indexed /\ now' = now /\ walk' = walk /\ page' = page /\ paths' = paths
      /\ IF OnElastic THEN disturbed' = disturbed ELSE Notes(x, "removed")
  BY DEF Delete
<1>2. StoresTyped BY DEF SearchInv
<1>3. StoresTyped'
  <2>1. row' \in [Torrents -> Rows] BY <1>1, <1>2 DEF StoresTyped, Rows
  <2>2. indexed' \subseteq {t \in Torrents : row'[t] \in {"stored", "removed"}} BY <1>1, <1>2 DEF StoresTyped
  <2> QED BY <1>1, <1>2, <2>1, <2>2 DEF StoresTyped
<1>4. BarrierPast' BY <1>1 DEF SearchInv, BarrierPast, Walking
<1>5. disturbed \subseteq disturbed' /\ disturbed' \subseteq disturbed \cup {"removed"}
      /\ (~Walking => disturbed' = disturbed)
  BY <1>1, NotedOrBeyond
<1>6. MarginSuffices' BY <1>5 DEF SearchInv, MarginSuffices
<1>7. request' = request /\ (OnElastic' <=> OnElastic) BY <1>1 DEF OnElastic, HasText, request
<1>8. ASSUME Walking, disturbed' = {} PROVE Steady
  <2>1. \A t \in Torrents : t # x => row'[t] = row[t] BY <1>1, <1>2 DEF StoresTyped
  <2>2. ~OnElastic => ~ (created[x] <= walk.barrier) BY <1>1, <1>8, NotedOrBeyond
  <2>3. BehindBarrier' = BehindBarrier
    <3>1. CASE OnElastic BY <1>1, <1>7, <3>1 DEF BehindBarrier, Present
    <3>2. CASE ~OnElastic BY <1>1, <1>7, <2>1, <2>2, <3>2 DEF BehindBarrier, Present
    <3> QED BY <3>1, <3>2
  <2> QED BY <1>1, <1>7, <2>3 DEF Steady
<1>9. \A t \in Torrents : Found(t) => Found(t)' BY <1>1, <1>2 DEF Found, StoresTyped
<1> QED BY <1>1, <1>3, <1>4, <1>5, <1>6, <1>8, <1>9 DEF StoreStep

LEMMA UnindexIsStoreStep ==
    ASSUME SearchAssumption, SearchInv, NEW x \in Torrents, Unindex(x) PROVE StoreStep
<1>1. /\ row' = row /\ created' = created /\ indexed' = indexed \ {x}
      /\ now' = now /\ walk' = walk /\ page' = page /\ paths' = paths
      /\ IF OnElastic THEN Notes(x, "removed") ELSE disturbed' = disturbed
  BY DEF Unindex
<1>2. StoresTyped BY DEF SearchInv
<1>3. StoresTyped' BY <1>1, <1>2 DEF StoresTyped
<1>4. BarrierPast' BY <1>1 DEF SearchInv, BarrierPast, Walking
<1>5. disturbed \subseteq disturbed' /\ disturbed' \subseteq disturbed \cup {"removed"}
      /\ (~Walking => disturbed' = disturbed)
  BY <1>1, NotedOrBeyond
<1>6. MarginSuffices' BY <1>5 DEF SearchInv, MarginSuffices
<1>7. request' = request /\ (OnElastic' <=> OnElastic) BY <1>1 DEF OnElastic, HasText, request
<1>8. ASSUME Walking, disturbed' = {} PROVE Steady
  <2>1. OnElastic => ~ (created[x] <= walk.barrier) BY <1>1, <1>8, NotedOrBeyond
  <2>2. BehindBarrier' = BehindBarrier
    <3>1. CASE ~OnElastic BY <1>1, <1>7, <3>1 DEF BehindBarrier, Present
    <3>2. CASE OnElastic BY <1>1, <1>7, <2>1, <3>2 DEF BehindBarrier, Present
    <3> QED BY <3>1, <3>2
  <2> QED BY <1>1, <1>7, <2>2 DEF Steady
<1>9. \A t \in Torrents : Found(t) => Found(t)' BY <1>1 DEF Found
<1> QED BY <1>1, <1>3, <1>4, <1>5, <1>6, <1>8, <1>9 DEF StoreStep

\* As long as nothing is noted, what was listed is listed.
LEMMA StoreStepKeeps == ASSUME SearchAssumption, SearchInv, StoreStep PROVE SearchInv'
<1>1. /\ walk' = walk /\ page' = page /\ paths' = paths /\ StoresTyped /\ WalkTyped /\ StoresTyped'
  BY DEF StoreStep, SearchInv
<1>2. WalkTyped' BY <1>1 DEF WalkTyped
<1>3. request' = request /\ (OnElastic' <=> OnElastic) /\ (Walking' <=> Walking)
  BY <1>1 DEF OnElastic, HasText, request, Walking
<1>4. Begun' BY <1>1, <1>3 DEF SearchInv, StoreStep, Begun
<1>5. ShownFound'
  <2>1. \A t \in Torrents : Found(t) => Found(t)' BY DEF StoreStep
  <2>2. \A t : AskedFor(t)' <=> AskedFor(t) BY <1>3 DEF AskedFor
  <2>3. Range(walk.shown) \subseteq Torrents /\ Range(page.items) \subseteq Torrents
        /\ Range(page.text) \subseteq Torrents
    BY <1>1, LenProperties, ElementOfSeq DEF WalkTyped, Range
  <2>4. Range(walk.shown)' = Range(walk.shown) /\ Range(page.items)' = Range(page.items)
        /\ Range(page.text)' = Range(page.text)
    BY <1>1 DEF Range
  <2> QED BY <1>1, <2>1, <2>2, <2>3, <2>4 DEF SearchInv, ShownFound
<1>6. Listed'
  <2> SUFFICES ASSUME disturbed' = {} PROVE OneWay' /\ PageCurrent' /\ ShownSoFar' /\ ShownInFull'
    BY DEF Listed
  <2>1. disturbed = {} /\ OneWay /\ PageCurrent /\ ShownSoFar /\ ShownInFull
    BY DEF StoreStep, SearchInv, Listed
  <2>2. OneWay' BY <1>1, <2>1 DEF OneWay
  <2>3. CASE ~Walking
    <3>1. paths = {} /\ walk.stage = "idle" BY <2>3 DEF SearchInv, Begun, Walking
    <3>2. paths' = {} /\ walk'.stage = "idle" BY <1>1, <3>1
    <3>3. PageCurrent' /\ ShownInFull' BY <3>2 DEF PageCurrent, ShownInFull
    <3>4. ShownSoFar' BY <3>2 DEF ShownSoFar
    <3> QED BY <2>2, <3>3, <3>4
  <2>4. CASE Walking
    <3>1. Steady BY <2>4 DEF StoreStep
    <3>2. /\ Matching' = Matching /\ Selected' = Selected /\ Sorted(Selected)' = Sorted(Selected)
          /\ TextHits' = TextHits /\ (HasText => NearHits' = NearHits)
          /\ \A x, y : Hits(x, y)' = Hits(x, y) /\ Merges(x, y)' = Merges(x, y) /\ (Tied(x, y)' <=> Tied(x, y))
      BY <1>1, <1>2, <3>1, SteadyLists
    <3>3. PageCurrent' BY <1>1, <2>1, <3>2 DEF PageCurrent, PageOf, PageFrom, NextExists
    <3>4. paths = {"merged"} => HasText BY DEF SearchInv, Begun, OnElastic
    <3>5. paths = {"merged"} =>
            /\ Hits(TextHits, NearHits)' = Hits(TextHits, NearHits)
            /\ Merges(TextHits, NearHits)' = Merges(TextHits, NearHits)
            /\ (Tied(TextHits, NearHits)' <=> Tied(TextHits, NearHits))
      BY <1>1, <1>2, <3>1, <3>4, SteadyMerges
    <3>6. ShownSoFar' BY <1>1, <2>1, <3>2, <3>5 DEF ShownSoFar, ShownOf
    <3>7. ShownInFull' BY <1>1, <2>1, <3>2, <3>5 DEF ShownInFull, Counts
    <3> QED BY <2>2, <3>3, <3>6, <3>7
  <2> QED BY <2>3, <2>4
<1> QED BY <1>1, <1>2, <1>4, <1>5, <1>6 DEF SearchInv, StoreStep

----------------------------------------------------------------------------
(***************************************************************************)
(* The client and the searches it asks for.                                *)
(***************************************************************************)
LEMMA SameSearch ==
    ASSUME SearchAssumption, SearchInv, UNCHANGED storeVars, walk'.request = walk.request,
           walk'.barrier = walk.barrier
    PROVE  /\ StoresTyped' /\ Steady /\ (OnElastic' <=> OnElastic)
           /\ \A t : (Found(t)' <=> Found(t)) /\ (AskedFor(t)' <=> AskedFor(t))
<1>1. now' = now /\ created' = created /\ row' = row /\ indexed' = indexed BY DEF storeVars
<1>2. request' = request BY DEF request
<1>3. StoresTyped' BY <1>1 DEF SearchInv, StoresTyped
<1>4. OnElastic' <=> OnElastic BY <1>2 DEF OnElastic, HasText
<1>5. Present' = Present BY <1>1, <1>4 DEF Present
<1>6. Steady BY <1>1, <1>2, <1>5 DEF Steady, BehindBarrier
<1>7. \A t : (Found(t)' <=> Found(t)) /\ (AskedFor(t)' <=> AskedFor(t))
  BY <1>1, <1>2 DEF Found, AskedFor
<1> QED BY <1>3, <1>4, <1>6, <1>7

\* What a query selects is found, and of the types that were asked for.
LEMMA SelectedFound ==
    ASSUME SearchAssumption, SearchInv
    PROVE  (\A t \in BehindBarrier : Found(t)) /\ (\A t \in Selected : Found(t) /\ AskedFor(t))
<1>1. \A t \in BehindBarrier : Found(t)
  BY DEF SearchInv, StoresTyped, BehindBarrier, Present, Found
<1>2. \A t \in Selected : t \in BehindBarrier /\ AskedFor(t)
  BY DEF Selected, OfTypes, Matching, AskedFor
<1> QED BY <1>1, <1>2

\* A page of what is selected shows nothing it should not.
LEMMA SelectedPage ==
    ASSUME SearchAssumption, SearchInv
    PROVE  /\ Selected \in SUBSET Torrents /\ Sorted(Selected) \in Seq(Torrents)
           /\ Len(Sorted(Selected)) = Cardinality(Selected) /\ Cardinality(Selected) \in Nat
           /\ PageOf(Sorted(Selected)) \in Seq(Torrents)
           /\ \A t \in Range(PageOf(Sorted(Selected))) : Found(t) /\ AskedFor(t)
<1>1. StoresTyped /\ WalkTyped BY DEF SearchInv
<1>2. Selected \in SUBSET Torrents /\ walk.offset \in Nat BY <1>1, TypedFacts
<1>3. /\ Sorted(Selected) \in Seq(Selected) /\ Range(Sorted(Selected)) = Selected
      /\ Len(Sorted(Selected)) = Cardinality(Selected) /\ Cardinality(Selected) \in Nat
  BY <1>1, <1>2, ListFacts
<1>4. Sorted(Selected) \in Seq(Torrents) BY <1>2, <1>3, SeqMonotonic
<1>5. PageOf(Sorted(Selected)) \in Seq(Torrents) /\ Range(PageOf(Sorted(Selected))) \subseteq Selected
  BY <1>2, <1>3, <1>4, PageIsPart DEF PageOf
<1> QED BY <1>2, <1>3, <1>4, <1>5, SelectedFound

\* The pages that a step of a search does not reply with.
Searching(stage) ==
    /\ UNCHANGED storeVars /\ walk' = [walk EXCEPT !.stage = stage]
    /\ UNCHANGED <<paths, disturbed>>

\* A query that ends no page leaves what was shown as it is.
LEMMA SearchingKeeps ==
    ASSUME SearchAssumption, SearchInv, Walking, NEW stage \in Stages \ {"idle", "done"}, Searching(stage)
    PROVE  /\ walk'.stage = stage /\ walk'.shown = walk.shown /\ walk'.offset = walk.offset
           /\ StoresTyped' /\ Steady /\ BarrierPast' /\ MarginSuffices' /\ (OnElastic' <=> OnElastic)
           /\ \A t : (Found(t)' <=> Found(t)) /\ (AskedFor(t)' <=> AskedFor(t))
           /\ walk' \in [request : Requests, barrier : Int, offset : Nat, shown : Seq(Torrents), stage : Stages]
           /\ \A t \in Range(walk'.shown) : Found(t)' /\ AskedFor(t)'
           /\ (stage \in {"items", "count", "next", "facets"} => ~OnElastic)
              /\ (stage \in {"text", "vector", "plain"} => OnElastic) => Begun'
<1>1. /\ walk \in [request : Requests, barrier : Int, offset : Nat, shown : Seq(Torrents), stage : Stages]
      /\ walk' = [walk EXCEPT !.stage = stage] /\ UNCHANGED storeVars /\ paths' = paths /\ disturbed' = disturbed
  BY DEF SearchInv, WalkTyped, Searching
<1>2. /\ walk'.stage = stage /\ walk'.shown = walk.shown /\ walk'.offset = walk.offset
      /\ walk'.request = walk.request /\ walk'.barrier = walk.barrier
      /\ walk' \in [request : Requests, barrier : Int, offset : Nat, shown : Seq(Torrents), stage : Stages]
  BY <1>1
<1>3. /\ StoresTyped' /\ Steady /\ (OnElastic' <=> OnElastic)
      /\ \A t : (Found(t)' <=> Found(t)) /\ (AskedFor(t)' <=> AskedFor(t))
  BY <1>1, <1>2, SameSearch
<1>4. BarrierPast' BY <1>1, <1>2 DEF SearchInv, BarrierPast, storeVars
<1>5. MarginSuffices' BY <1>1 DEF SearchInv, MarginSuffices
<1>6. \A t \in Range(walk'.shown) : Found(t)' /\ AskedFor(t)' BY <1>2, <1>3 DEF SearchInv, ShownFound
<1>7. ASSUME stage \in {"items", "count", "next", "facets"} => ~OnElastic,
             stage \in {"text", "vector", "plain"} => OnElastic
      PROVE  Begun'
  <2>1. Walking' BY <1>2 DEF Walking
  <2>2. paths' = {} => walk'.shown = <<>> /\ walk'.offset = 0 BY <1>1, <1>2 DEF SearchInv, Begun
  <2>3. (OnElastic' => "rows" \notin paths') /\ (~OnElastic' => paths' \subseteq {"rows"})
    BY <1>1, <1>3 DEF SearchInv, Begun
  <2> QED BY <1>2, <1>3, <1>7, <2>1, <2>2, <2>3 DEF Begun
<1> QED BY <1>2, <1>3, <1>4, <1>5, <1>6, <1>7

\* The list from which pages are cut does not change in such a step.
LEMMA SearchingLists ==
    ASSUME SearchAssumption, SearchInv, Walking, walk.stage # "done", NEW stage \in Stages \ {"idle", "done"},
           Searching(stage), WalkTyped', disturbed' = {}
    PROVE  OneWay' /\ ShownSoFar' /\ ShownInFull'
<1>1. disturbed = {} /\ paths' = paths BY DEF Searching
<1>2. OneWay /\ ShownSoFar BY <1>1 DEF SearchInv, Listed
<1>3. /\ walk'.stage = stage /\ walk'.shown = walk.shown /\ walk'.offset = walk.offset
      /\ StoresTyped' /\ StoresTyped /\ WalkTyped /\ Steady
  BY SearchingKeeps DEF SearchInv
<1>4. Sorted(Selected)' = Sorted(Selected) BY <1>3, SteadyLists
<1>5. paths = {"merged"} => HasText BY DEF SearchInv, Begun, OnElastic
<1>6. paths = {"merged"} =>
        /\ Merges(TextHits, NearHits)' = Merges(TextHits, NearHits)
        /\ (Tied(TextHits, NearHits)' <=> Tied(TextHits, NearHits))
  BY <1>3, <1>5, SteadyMerges
<1>7. ShownSoFar' BY <1>1, <1>2, <1>3, <1>4, <1>6 DEF ShownSoFar, ShownOf
<1>8. ShownInFull' BY <1>3 DEF ShownInFull
<1>9. OneWay' BY <1>1, <1>2 DEF OneWay
<1> QED BY <1>7, <1>8, <1>9

PageType == [text : Seq(Torrents), items : Seq(Torrents), total : Nat, next : BOOLEAN,
             facets : {<<>>} \cup [Types -> Nat]]

LEMMA NoPageTyped == NoPage \in PageType
<1>1. <<>> \in Seq(Torrents) OBVIOUS
<1> QED BY <1>1 DEF NoPage, PageType

LEMMA SearchingTyped ==
    ASSUME SearchAssumption, SearchInv, Walking, NEW stage \in Stages \ {"idle", "done"}, Searching(stage),
           page' \in PageType
    PROVE  WalkTyped'
<1>1. walk' \in [request : Requests, barrier : Int, offset : Nat, shown : Seq(Torrents), stage : Stages]
  BY SearchingKeeps
<1>2. paths' \subseteq {"rows", "merged", "plain"} BY DEF Searching, SearchInv, WalkTyped
<1> QED BY <1>1, <1>2 DEF WalkTyped, PageType

\* The steps of a walk, one by one.
LEMMA AskKeeps == ASSUME SearchAssumption, SearchInv, Ask PROVE SearchInv'
<1> DEFINE stage == IF OnElastic THEN "text" ELSE "items"
<1>1. /\ walk.stage \in {"idle", "ask"} /\ page' = NoPage /\ UNCHANGED <<storeVars, paths, disturbed>>
      /\ walk' = [walk EXCEPT !.stage = stage,
                              !.barrier = IF walk.stage = "idle" THEN NewBarrier ELSE walk.barrier]
  BY DEF Ask
<1>2. /\ walk \in [request : Requests, barrier : Int, offset : Nat, shown : Seq(Torrents), stage : Stages]
      /\ StoresTyped /\ WalkTyped
  BY DEF SearchInv, WalkTyped
<1>3. stage \in Stages /\ stage \in {"text", "items"} BY DEF Stages
<1>4. page' \in PageType BY <1>1, NoPageTyped
<1>5. CASE walk.stage = "idle"
  <2>1. /\ walk' = [walk EXCEPT !.stage = stage, !.barrier = NewBarrier] /\ paths' = {} /\ disturbed' = {}
        /\ paths = {} /\ now' = now
    BY <1>1, <1>5 DEF SearchInv, Begun, Walking, storeVars
  <2>2. walk.shown = <<>> /\ walk.offset = 0 BY <2>1 DEF SearchInv, Begun
  <2>3. NewBarrier \in Int /\ NewBarrier + Margin <= now BY <1>2, BoundFacts DEF NewBarrier
  <2> HIDE DEF stage
  <2>4. /\ walk'.stage = stage /\ walk'.shown = <<>> /\ walk'.offset = 0 /\ walk'.barrier = NewBarrier
        /\ walk'.request = walk.request
        /\ walk' \in [request : Requests, barrier : Int, offset : Nat, shown : Seq(Torrents), stage : Stages]
    BY <1>2, <1>3, <2>1, <2>2, <2>3
  <2>5. StoresTyped' BY <1>1, <1>2 DEF StoresTyped, storeVars
  <2>6. WalkTyped' BY <1>4, <2>1, <2>4 DEF WalkTyped, PageType
  <2>7. OnElastic' <=> OnElastic BY <2>4 DEF OnElastic, HasText, request
  <2>8. (stage = "text" <=> OnElastic) /\ (stage = "items" <=> ~OnElastic) BY DEF stage
  <2>9. Begun' BY <1>3, <2>1, <2>4, <2>7, <2>8 DEF Begun, Walking
  <2>10. BarrierPast' BY <2>1, <2>3, <2>4 DEF BarrierPast
  <2>11. MarginSuffices' BY <2>1 DEF MarginSuffices
  <2>12. ShownFound'
    <3>1. Range(walk'.shown) = {} BY <2>4 DEF Range
    <3> QED BY <1>3, <2>4, <3>1 DEF ShownFound
  <2>13. Listed'
    <3>1. PageCurrent' BY <1>3, <2>4 DEF PageCurrent
    <3>2. ShownSoFar' BY <2>1 DEF ShownSoFar
    <3>3. ShownInFull' BY <1>3, <2>4 DEF ShownInFull
    <3> QED BY <2>1, <3>1, <3>2, <3>3 DEF Listed, OneWay
  <2> QED BY <2>5, <2>6, <2>9, <2>10, <2>11, <2>12, <2>13 DEF SearchInv
<1>6. CASE walk.stage = "ask"
  <2>1. Searching(stage)
    <3>1. walk' = [walk EXCEPT !.stage = stage, !.barrier = walk.barrier] BY <1>1, <1>6
    <3> HIDE DEF stage
    <3>2. walk' = [walk EXCEPT !.stage = stage] BY <1>2, <3>1
    <3> QED BY <1>1, <3>2 DEF Searching
  <2>2. Walking /\ walk.stage # "done" BY <1>6 DEF Walking
  <2>3. stage \in Stages \ {"idle", "done"} BY <1>3
  <2>4. (stage = "text" <=> OnElastic) /\ (stage = "items" <=> ~OnElastic) OBVIOUS
  <2> HIDE DEF stage
  <2>5. WalkTyped' BY <1>4, <2>1, <2>2, <2>3, SearchingTyped
  <2>6. /\ walk'.stage = stage /\ StoresTyped' /\ BarrierPast' /\ MarginSuffices' /\ Begun'
        /\ \A t \in Range(walk'.shown) : Found(t)' /\ AskedFor(t)'
    BY <1>3, <2>1, <2>2, <2>3, <2>4, SearchingKeeps
  <2>7. ShownFound' BY <1>3, <2>6 DEF ShownFound
  <2>8. PageCurrent' BY <1>3, <2>6 DEF PageCurrent
  <2>9. Listed' BY <2>1, <2>2, <2>3, <2>5, <2>8, SearchingLists DEF Listed
  <2> QED BY <2>5, <2>6, <2>7, <2>9 DEF SearchInv
<1> QED BY <1>1, <1>5, <1>6

LEMMA QueryItemsKeeps == ASSUME SearchAssumption, SearchInv, QueryItems PROVE SearchInv'
<1>1. /\ walk.stage = "items" /\ Searching("count")
      /\ page' = [page EXCEPT !.items = PageOf(Sorted(Selected))]
  BY DEF QueryItems, At, GoesTo, Searching
<1>2. Walking /\ walk.stage # "done" /\ "count" \in Stages \ {"idle", "done"} BY <1>1 DEF Walking, Stages
<1>3. ~OnElastic /\ StoresTyped /\ WalkTyped BY <1>1 DEF SearchInv, Begun
<1>4. PageOf(Sorted(Selected)) \in Seq(Torrents)
      /\ \A t \in Range(PageOf(Sorted(Selected))) : Found(t) /\ AskedFor(t)
  BY SelectedPage
<1>5. page \in PageType BY <1>3 DEF WalkTyped, PageType
<1>6. page' \in PageType /\ page'.items = PageOf(Sorted(Selected)) BY <1>1, <1>4, <1>5 DEF PageType
<1>7. WalkTyped' BY <1>1, <1>2, <1>6, SearchingTyped
<1>8. /\ walk'.stage = "count" /\ walk'.offset = walk.offset /\ StoresTyped' /\ Steady /\ BarrierPast'
      /\ MarginSuffices' /\ Begun' /\ (\A t \in Range(walk'.shown) : Found(t)' /\ AskedFor(t)')
      /\ \A t : (Found(t)' <=> Found(t)) /\ (AskedFor(t)' <=> AskedFor(t))
  BY <1>1, <1>2, <1>3, SearchingKeeps
<1>9. ShownFound' BY <1>4, <1>6, <1>8 DEF ShownFound
<1>10. PageCurrent'
  <2>1. Sorted(Selected)' = Sorted(Selected) BY <1>3, <1>7, <1>8, SteadyLists
  <2>2. PageOf(Sorted(Selected))' = PageOf(Sorted(Selected)) BY <1>8, <2>1 DEF PageOf, PageFrom
  <2> QED BY <1>6, <1>8, <2>2 DEF PageCurrent
<1>11. Listed' BY <1>1, <1>2, <1>7, <1>10, SearchingLists DEF Listed
<1> QED BY <1>7, <1>8, <1>9, <1>11 DEF SearchInv

LEMMA CountItemsKeeps == ASSUME SearchAssumption, SearchInv, CountItems PROVE SearchInv'
<1>1. /\ walk.stage = "count" /\ Searching("next") /\ page' = [page EXCEPT !.total = Cardinality(Selected)]
  BY DEF CountItems, At, GoesTo, Searching
<1>2. Walking /\ walk.stage # "done" /\ "next" \in Stages \ {"idle", "done"} BY <1>1 DEF Walking, Stages
<1>3. ~OnElastic /\ StoresTyped /\ WalkTyped BY <1>1 DEF SearchInv, Begun
<1>4. Cardinality(Selected) \in Nat BY SelectedPage
<1>5. page \in PageType BY <1>3 DEF WalkTyped, PageType
<1>6. page' \in PageType /\ page'.items = page.items /\ page'.total = Cardinality(Selected)
  BY <1>1, <1>4, <1>5 DEF PageType
<1>7. WalkTyped' BY <1>1, <1>2, <1>6, SearchingTyped
<1>8. /\ walk'.stage = "next" /\ walk'.offset = walk.offset /\ StoresTyped' /\ Steady /\ BarrierPast'
      /\ MarginSuffices' /\ Begun' /\ (\A t \in Range(walk'.shown) : Found(t)' /\ AskedFor(t)')
      /\ \A t : (Found(t)' <=> Found(t)) /\ (AskedFor(t)' <=> AskedFor(t))
  BY <1>1, <1>2, <1>3, SearchingKeeps
<1>9. ShownFound' BY <1>1, <1>6, <1>8 DEF ShownFound, SearchInv
<1>10. ASSUME PageCurrent PROVE PageCurrent'
  <2>1. Selected' = Selected /\ Sorted(Selected)' = Sorted(Selected) BY <1>3, <1>7, <1>8, SteadyLists
  <2>2. PageOf(Sorted(Selected))' = PageOf(Sorted(Selected)) BY <1>8, <2>1 DEF PageOf, PageFrom
  <2> QED BY <1>1, <1>6, <1>8, <1>10, <2>1, <2>2 DEF PageCurrent
<1>11. Listed'
  <2>1. disturbed' = disturbed BY <1>1 DEF Searching
  <2> QED BY <1>1, <1>2, <1>7, <1>10, <2>1, SearchingLists DEF Listed, SearchInv
<1> QED BY <1>7, <1>8, <1>9, <1>11 DEF SearchInv

LEMMA QueryNextKeeps == ASSUME SearchAssumption, SearchInv, QueryNext PROVE SearchInv'
<1>1. /\ walk.stage = "next" /\ Searching("facets")
      /\ page' = [page EXCEPT !.next = page.items # <<>> /\ NextExists]
  BY DEF QueryNext, At, GoesTo, Searching
<1>2. Walking /\ walk.stage # "done" /\ "facets" \in Stages \ {"idle", "done"} BY <1>1 DEF Walking, Stages
<1>3. ~OnElastic /\ StoresTyped /\ WalkTyped BY <1>1 DEF SearchInv, Begun
<1>5. page \in PageType BY <1>3 DEF WalkTyped, PageType
<1>6. /\ page' \in PageType /\ page'.items = page.items /\ page'.total = page.total
      /\ page'.next = (page.items # <<>> /\ NextExists)
  BY <1>1, <1>5 DEF PageType
<1>7. WalkTyped' BY <1>1, <1>2, <1>6, SearchingTyped
<1>8. /\ walk'.stage = "facets" /\ walk'.offset = walk.offset /\ StoresTyped' /\ Steady /\ BarrierPast'
      /\ MarginSuffices' /\ Begun' /\ (\A t \in Range(walk'.shown) : Found(t)' /\ AskedFor(t)')
      /\ \A t : (Found(t)' <=> Found(t)) /\ (AskedFor(t)' <=> AskedFor(t))
  BY <1>1, <1>2, <1>3, SearchingKeeps
<1>9. ShownFound' BY <1>1, <1>6, <1>8 DEF ShownFound, SearchInv
<1>10. ASSUME PageCurrent PROVE PageCurrent'
  <2>1. Selected' = Selected /\ Sorted(Selected)' = Sorted(Selected) BY <1>3, <1>7, <1>8, SteadyLists
  <2>2. PageOf(Sorted(Selected))' = PageOf(Sorted(Selected)) BY <1>8, <2>1 DEF PageOf, PageFrom
  <2>3. NextExists' <=> NextExists BY <1>8, <2>1 DEF NextExists
  <2>4. page'.items = PageOf(Sorted(Selected))' /\ page'.total = Cardinality(Selected')
    BY <1>1, <1>6, <1>10, <2>1, <2>2 DEF PageCurrent
  <2>5. page'.next = (page'.items # <<>> /\ NextExists') BY <1>6, <2>3
  <2> QED BY <1>8, <2>4, <2>5 DEF PageCurrent
<1>11. Listed'
  <2>1. disturbed' = disturbed BY <1>1 DEF Searching
  <2> QED BY <1>1, <1>2, <1>7, <1>10, <2>1, SearchingLists DEF Listed, SearchInv
<1> QED BY <1>7, <1>8, <1>9, <1>11 DEF SearchInv

LEMMA SearchTextKeeps == ASSUME SearchAssumption, SearchInv, SearchText PROVE SearchInv'
<1>1. /\ walk.stage = "text" /\ Searching("vector") /\ page' = [page EXCEPT !.text = TextHits]
  BY DEF SearchText, At, GoesTo, Searching, TextHits
<1>2. Walking /\ walk.stage # "done" /\ "vector" \in Stages \ {"idle", "done"} BY <1>1 DEF Walking, Stages
<1>3. OnElastic /\ StoresTyped /\ WalkTyped BY <1>1 DEF SearchInv, Begun
<1>4. TextHits \in Seq(Torrents) /\ (\A t \in Range(TextHits) : Found(t))
  <2>1. TextHits \in Seq(Torrents) /\ Range(TextHits) \subseteq Matching BY <1>3, HitFacts
  <2>2. Matching \subseteq BehindBarrier BY DEF Matching
  <2> QED BY <2>1, <2>2, SelectedFound
<1>5. page \in PageType BY <1>3 DEF WalkTyped, PageType
<1>6. page' \in PageType /\ page'.text = TextHits BY <1>1, <1>4, <1>5 DEF PageType
<1>7. WalkTyped' BY <1>1, <1>2, <1>6, SearchingTyped
<1>8. /\ walk'.stage = "vector" /\ walk'.offset = walk.offset /\ StoresTyped' /\ Steady /\ BarrierPast'
      /\ MarginSuffices' /\ Begun' /\ (\A t \in Range(walk'.shown) : Found(t)' /\ AskedFor(t)')
      /\ \A t : (Found(t)' <=> Found(t)) /\ (AskedFor(t)' <=> AskedFor(t))
  BY <1>1, <1>2, <1>3, SearchingKeeps
<1>9. ShownFound' BY <1>4, <1>6, <1>8 DEF ShownFound
<1>10. PageCurrent'
  <2>1. TextHits' = TextHits BY <1>3, <1>7, <1>8, SteadyLists
  <2> QED BY <1>6, <1>8, <2>1 DEF PageCurrent
<1>11. Listed' BY <1>1, <1>2, <1>7, <1>10, SearchingLists DEF Listed
<1> QED BY <1>7, <1>8, <1>9, <1>11 DEF SearchInv

\* A search without vectors goes on as a plain one.
LEMMA DegradeKeeps ==
    ASSUME SearchAssumption, SearchInv, NoVector \/ VectorFails \/ TooFar PROVE SearchInv'
<1>1. walk.stage \in {"text", "vector"} /\ Searching("plain") /\ page' = page
  BY DEF NoVector, VectorFails, TooFar, At, GoesTo, Searching
<1>2. Walking /\ walk.stage # "done" /\ "plain" \in Stages \ {"idle", "done"} BY <1>1 DEF Walking, Stages
<1>3. OnElastic /\ StoresTyped /\ WalkTyped BY <1>1 DEF SearchInv, Begun
<1>4. page' \in PageType BY <1>1, <1>3 DEF WalkTyped, PageType
<1>5. WalkTyped' BY <1>1, <1>2, <1>4, SearchingTyped
<1>6. /\ walk'.stage = "plain" /\ StoresTyped' /\ BarrierPast' /\ MarginSuffices' /\ Begun'
      /\ \A t \in Range(walk'.shown) : Found(t)' /\ AskedFor(t)'
  BY <1>1, <1>2, <1>3, SearchingKeeps
<1>7. ShownFound' BY <1>6 DEF ShownFound
<1>8. PageCurrent' BY <1>6 DEF PageCurrent
<1>9. Listed' BY <1>1, <1>2, <1>5, <1>8, SearchingLists DEF Listed
<1> QED BY <1>5, <1>6, <1>7, <1>9 DEF SearchInv

\* A facet is a number for each type.
LEMMA CountsTyped == ASSUME SearchAssumption, NEW S \in SUBSET Torrents PROVE Counts(S) \in [Types -> Nat]
<1>1. ASSUME NEW k \in Types PROVE Cardinality({t \in S : TypeOf[t] = k}) \in Nat
  <2>1. {t \in S : TypeOf[t] = k} \in SUBSET Torrents OBVIOUS
  <2>2. IsFiniteSet({t \in S : TypeOf[t] = k}) BY <2>1, FS_Subset DEF SearchAssumption
  <2> QED BY <2>2, FS_CardinalityType
<1> QED BY <1>1 DEF Counts

\* A page that the client gets.
LEMMA ReplyKeeps ==
    ASSUME SearchAssumption, SearchInv, Walking, UNCHANGED storeVars, page' \in PageType,
           NEW way \in {"rows", "merged", "plain"}, NEW items \in Seq(Torrents), NEW next \in BOOLEAN,
           Replies(way, items, next), way = "rows" <=> ~OnElastic,
           \A t \in Range(items) : Found(t) /\ AskedFor(t), "quick" \notin disturbed'
    PROVE  /\ StoresTyped' /\ WalkTyped' /\ Begun' /\ BarrierPast' /\ MarginSuffices' /\ ShownFound' /\ Steady
           /\ walk'.stage = (IF next THEN "ask" ELSE "done") /\ walk'.shown = walk.shown \o items
           /\ walk'.offset = (IF next THEN walk.offset + Limit ELSE walk.offset)
           /\ paths' = paths \cup {way} /\ (OnElastic' <=> OnElastic)
<1>1. /\ walk \in [request : Requests, barrier : Int, offset : Nat, shown : Seq(Torrents), stage : Stages]
      /\ walk' = [walk EXCEPT !.shown = walk.shown \o items,
                              !.offset = IF next THEN walk.offset + Limit ELSE walk.offset,
                              !.stage = IF next THEN "ask" ELSE "done"]
      /\ paths' = paths \cup {way}
  BY DEF SearchInv, WalkTyped, Replies
<1>2. walk.shown \o items \in Seq(Torrents) BY <1>1, ConcatProperties
<1>3. walk.offset \in Nat /\ walk.offset + Limit \in Nat BY <1>1 DEF SearchAssumption
<1>4. "ask" \in Stages /\ "done" \in Stages BY DEF Stages
<1>5. /\ walk'.stage = (IF next THEN "ask" ELSE "done") /\ walk'.shown = walk.shown \o items
      /\ walk'.offset = (IF next THEN walk.offset + Limit ELSE walk.offset)
      /\ walk'.request = walk.request /\ walk'.barrier = walk.barrier
  BY <1>1
<1>6. walk' \in [request : Requests, barrier : Int, offset : Nat, shown : Seq(Torrents), stage : Stages]
  <2>1. (IF next THEN walk.offset + Limit ELSE walk.offset) \in Nat BY <1>3
  <2>2. (IF next THEN "ask" ELSE "done") \in Stages BY <1>4
  <2> QED BY <1>1, <1>2, <2>1, <2>2
<1>7. /\ StoresTyped' /\ Steady /\ (OnElastic' <=> OnElastic)
      /\ \A t : (Found(t)' <=> Found(t)) /\ (AskedFor(t)' <=> AskedFor(t))
  BY <1>5, SameSearch
<1>8. WalkTyped'
  <2>1. paths' \subseteq {"rows", "merged", "plain"} BY <1>1 DEF SearchInv, WalkTyped
  <2> QED BY <1>6, <2>1 DEF WalkTyped, PageType
<1>9. BarrierPast' BY <1>5 DEF SearchInv, BarrierPast, storeVars, Walking
<1>10. MarginSuffices' BY DEF MarginSuffices
<1>11. walk'.stage \in {"ask", "done"} BY <1>5
<1>12. Begun'
  <2>1. paths' # {} /\ Walking' BY <1>1, <1>11 DEF Walking
  <2>2. (OnElastic' => "rows" \notin paths') /\ (~OnElastic' => paths' \subseteq {"rows"})
    BY <1>1, <1>7 DEF SearchInv, Begun
  <2> QED BY <1>11, <2>1, <2>2 DEF Begun
<1>13. ShownFound'
  <2>1. Range(walk'.shown) \subseteq Range(walk.shown) \cup Range(items) BY <1>1, <1>5, RangeOfConcat
  <2>2. \A t \in Range(walk'.shown) : Found(t) /\ AskedFor(t) BY <2>1 DEF SearchInv, ShownFound
  <2> QED BY <1>7, <1>11, <2>2 DEF ShownFound
<1> QED BY <1>1, <1>5, <1>7, <1>8, <1>9, <1>10, <1>12, <1>13

\* Before the first page every list has been shown up to the offset.
LEMMA NothingShown ==
    ASSUME SearchInv, paths = {}, NEW s \in Seq(Torrents) PROVE ShownOf(s)
<1>1. walk.shown = <<>> /\ walk.offset = 0 BY DEF SearchInv, Begun
<1>2. Len(s) \in Nat BY LenProperties
<1>3. SubSeq(s, 1, 0) = <<>> BY SubSeqEmpty
<1> QED BY <1>1, <1>2, <1>3 DEF ShownOf

\* A page of the list goes on where the last one ended, and the last one ends it.
LEMMA ReplyShows ==
    ASSUME SearchAssumption, WalkTyped, NEW s \in Seq(Torrents), ShownOf(s), NEW next \in BOOLEAN,
           next <=> walk.offset + Limit < Len(s),
           walk'.shown = walk.shown \o PageOf(s),
           walk'.offset = (IF next THEN walk.offset + Limit ELSE walk.offset)
    PROVE  (next => walk'.offset <= Len(s) /\ walk'.shown = SubSeq(s, 1, walk'.offset)) /\ (~next => walk'.shown = s)
<1>1. walk.offset \in Nat BY DEF WalkTyped
<1>2. walk.offset <= Len(s) /\ walk.shown = SubSeq(s, 1, walk.offset) BY DEF ShownOf
<1>3. Len(s) \in Nat /\ Limit \in Nat BY LenProperties DEF SearchAssumption
<1>4. CASE next
  <2>1. walk.offset + Limit < Len(s) /\ walk'.offset = walk.offset + Limit BY <1>4
  <2>2. SubSeq(s, 1, walk.offset) \o PageFrom(walk.offset, s) = SubSeq(s, 1, walk.offset + Limit)
    BY <1>1, <1>2, <2>1, PageFollows
  <2>3. walk'.shown = SubSeq(s, 1, walk.offset + Limit) BY <1>2, <2>2 DEF PageOf
  <2>4. walk.offset + Limit <= Len(s) BY <1>1, <1>3, <2>1
  <2> QED BY <1>4, <2>1, <2>3, <2>4
<1>5. CASE ~next
  <2>1. ~(walk.offset + Limit < Len(s)) BY <1>5
  <2>2. SubSeq(s, 1, walk.offset) \o PageFrom(walk.offset, s) = s BY <1>1, <1>2, <2>1, PageFollows
  <2>3. walk'.shown = s BY <1>2, <2>2 DEF PageOf
  <2> QED BY <1>5, <2>3
<1> QED BY <1>4, <1>5

\* The test for a next page is whether the list goes on behind this one.
LEMMA MorePages ==
    ASSUME SearchAssumption, WalkTyped, NEW s \in Seq(Torrents), ShownOf(s)
    PROVE  /\ walk.offset + Limit < Len(s) => PageOf(s) # <<>>
           /\ PageOf(s) # <<>> /\ walk.offset + Len(PageOf(s)) < Len(s) <=> walk.offset + Limit < Len(s)
<1>1. walk.offset \in Nat /\ walk.offset <= Len(s) BY DEF WalkTyped, ShownOf
<1>2. Len(s) \in Nat /\ Limit \in Nat BY LenProperties DEF SearchAssumption
<1>3. CASE walk.offset + Limit < Len(s) BY <1>1, <1>3, PageFollows DEF PageOf
<1>4. CASE ~ (walk.offset + Limit < Len(s))
  <2>1. walk.offset + Len(PageOf(s)) = Len(s) BY <1>1, <1>4, PageFollows DEF PageOf
  <2> QED BY <1>2, <1>4, <2>1
<1> QED BY <1>3, <1>4

\* The walk on by pages of one ordered list.
LEMMA SortedReplyListed ==
    ASSUME SearchAssumption, StoresTyped, WalkTyped, StoresTyped', WalkTyped', Steady, NEW way \in {"rows", "plain"},
           NEW next \in BOOLEAN, ShownOf(Sorted(Selected)),
           next <=> walk.offset + Limit < Len(Sorted(Selected)),
           walk'.shown = walk.shown \o PageOf(Sorted(Selected)),
           walk'.offset = (IF next THEN walk.offset + Limit ELSE walk.offset),
           walk'.stage = (IF next THEN "ask" ELSE "done"), paths' = {way},
           page'.total = Cardinality(Selected), page'.facets \in {<<>>, Counts(Matching)}
    PROVE  Listed'
<1> DEFINE s == Sorted(Selected)
<1>1. Selected \in SUBSET Torrents BY TypedFacts
<1>2. s \in Seq(Selected) BY <1>1, ListFacts
<1>3. s \in Seq(Torrents) BY <1>1, <1>2, SeqMonotonic
<1>4. (next => walk'.offset <= Len(s) /\ walk'.shown = SubSeq(s, 1, walk'.offset)) /\ (~next => walk'.shown = s)
  BY <1>3, ReplyShows
<1>5. Matching' = Matching /\ Selected' = Selected /\ Sorted(Selected)' = s BY SteadyLists
<1>6. PageCurrent' BY DEF PageCurrent
<1>7. ShownSoFar' BY <1>4, <1>5 DEF ShownSoFar, ShownOf
<1>8. ShownInFull'
  <2>1. Counts(Matching)' = Counts(Matching) BY <1>5 DEF Counts
  <2> QED BY <1>4, <1>5, <2>1 DEF ShownInFull
<1> QED BY <1>6, <1>7, <1>8 DEF Listed, OneWay

LEMMA QueryFacetsKeeps == ASSUME SearchAssumption, SearchInv, QueryFacets PROVE SearchInv'
<1>1. /\ walk.stage = "facets" /\ UNCHANGED storeVars /\ disturbed' = disturbed
      /\ page' = [page EXCEPT !.facets = IF request.facet THEN Counts(Matching) ELSE <<>>]
      /\ Replies("rows", page.items, page.next)
  BY DEF QueryFacets, At
<1>2. Walking /\ ~OnElastic /\ StoresTyped /\ WalkTyped BY <1>1 DEF Walking, SearchInv, Begun
<1>3. page \in PageType /\ page.items \in Seq(Torrents) /\ page.next \in BOOLEAN
  BY <1>2 DEF WalkTyped, PageType
<1>4. Counts(Matching) \in [Types -> Nat] BY <1>2, TypedFacts, CountsTyped
<1>5. /\ page' \in PageType /\ page'.total = page.total /\ page'.facets \in {<<>>, Counts(Matching)}
  BY <1>1, <1>3, <1>4 DEF PageType
<1>6. \A t \in Range(page.items) : Found(t) /\ AskedFor(t) BY <1>1 DEF SearchInv, ShownFound
<1>7. "quick" \notin disturbed' BY <1>1 DEF SearchInv, MarginSuffices
<1>8. /\ StoresTyped' /\ WalkTyped' /\ Begun' /\ BarrierPast' /\ MarginSuffices' /\ ShownFound' /\ Steady
      /\ walk'.stage = (IF page.next THEN "ask" ELSE "done") /\ walk'.shown = walk.shown \o page.items
      /\ walk'.offset = (IF page.next THEN walk.offset + Limit ELSE walk.offset)
      /\ paths' = paths \cup {"rows"}
  BY <1>1, <1>2, <1>3, <1>5, <1>6, <1>7, ReplyKeeps
<1>9. ASSUME disturbed = {} PROVE Listed'
  <2> DEFINE s == Sorted(Selected)
  <2>1. /\ page.items = PageOf(s) /\ page.total = Cardinality(Selected)
        /\ page.next = (page.items # <<>> /\ Cardinality(Selected) > walk.offset + Limit)
    BY <1>1, <1>9 DEF SearchInv, Listed, PageCurrent, NextExists
  <2>2. s \in Seq(Torrents) /\ Len(s) = Cardinality(Selected) /\ Cardinality(Selected) \in Nat BY SelectedPage
  <2>3. paths \subseteq {"rows"} BY <1>2 DEF SearchInv, Begun
  <2>4. ShownOf(s)
    <3>1. CASE paths = {} BY <2>2, <3>1, NothingShown
    <3>2. CASE paths = {"rows"} BY <1>1, <1>9, <3>2 DEF SearchInv, Listed, ShownSoFar
    <3> QED BY <2>3, <3>1, <3>2
  <2>5. page.next <=> walk.offset + Limit < Len(s)
    <3>1. walk.offset + Limit < Len(s) => page.items # <<>> BY <1>2, <2>1, <2>2, <2>4, MorePages
    <3>2. walk.offset + Limit \in Nat BY <1>2, TypedFacts DEF SearchAssumption
    <3> HIDE DEF s
    <3> QED BY <2>1, <2>2, <3>1, <3>2
  <2>6. paths' = {"rows"} BY <1>8, <2>3
  <2> QED BY <1>2, <1>3, <1>5, <1>8, <2>1, <2>4, <2>5, <2>6, SortedReplyListed
<1>10. Listed' BY <1>1, <1>9 DEF Listed
<1> QED BY <1>8, <1>10 DEF SearchInv

\* The buckets of the types that were asked for add up to what was selected.
LEMMA PlainTotal ==
    ASSUME SearchAssumption, SearchInv
    PROVE  LET facets == IF request.facet THEN Counts(Matching) ELSE <<>>
               counted == IF request.facet THEN Sum(facets, request.types) ELSE 0
           IN (IF counted > 0 THEN counted ELSE Cardinality(Selected)) = Cardinality(Selected)
<1>1. /\ Matching \in SUBSET Torrents /\ request.types \in SUBSET Types
  <2>1. StoresTyped /\ WalkTyped BY DEF SearchInv
  <2> QED BY <2>1, TypedFacts, RequestFacts
<1>2. Sum(Counts(Matching), request.types) = Cardinality({t \in Matching : TypeOf[t] \in request.types})
  BY <1>1, BucketsAddUp
<1>3. CASE request.types = {}
  <2>1. {t \in Matching : TypeOf[t] \in request.types} = {} BY <1>3
  <2>2. Sum(Counts(Matching), request.types) = 0 BY <1>2, <2>1, FS_EmptySet
  <2> QED BY <2>2
<1>4. CASE request.types # {}
  <2>1. {t \in Matching : TypeOf[t] \in request.types} = Selected BY <1>4 DEF Selected, OfTypes
  <2>2. Sum(Counts(Matching), request.types) = Cardinality(Selected) BY <1>2, <2>1
  <2> QED BY <2>2
<1> QED BY <1>3, <1>4

LEMMA SearchPlainKeeps == ASSUME SearchAssumption, SearchInv, SearchPlain PROVE SearchInv'
<1> DEFINE s == Sorted(Selected)
           facets == IF request.facet THEN Counts(Matching) ELSE <<>>
           counted == IF request.facet THEN Sum(facets, request.types) ELSE 0
           total == IF counted > 0 THEN counted ELSE Cardinality(Selected)
           more == PageOf(s) # <<>> /\ walk.offset + Len(PageOf(s)) < total
<1>1. /\ walk.stage = "plain" /\ UNCHANGED storeVars
      /\ page' = [page EXCEPT !.items = PageOf(s), !.facets = facets, !.total = total, !.next = more]
      /\ Replies("plain", PageOf(s), page'.next) /\ disturbed' = disturbed \cup Flips("plain")
  BY DEF SearchPlain, At, PlainFrom, PageOf
<1>2. Walking /\ OnElastic /\ StoresTyped /\ WalkTyped BY <1>1 DEF Walking, SearchInv, Begun
<1>3. total = Cardinality(Selected) BY PlainTotal
<1>4. /\ Selected \in SUBSET Torrents /\ s \in Seq(Torrents) /\ Len(s) = Cardinality(Selected)
      /\ Cardinality(Selected) \in Nat /\ PageOf(s) \in Seq(Torrents)
      /\ \A t \in Range(PageOf(s)) : Found(t) /\ AskedFor(t)
  BY SelectedPage
<1>5. facets \in {<<>>, Counts(Matching)} OBVIOUS
<1>6. facets \in {<<>>} \cup [Types -> Nat]
  <2>1. Counts(Matching) \in [Types -> Nat] BY <1>2, TypedFacts, CountsTyped
  <2> QED BY <1>5, <2>1
<1>7. page \in PageType BY <1>2 DEF WalkTyped, PageType
<1>8. more \in BOOLEAN /\ total \in Nat BY <1>3, <1>4
<1> HIDE DEF facets, counted, total, more
<1>9. page' \in PageType /\ page'.total = total /\ page'.facets = facets /\ page'.next = more
  BY <1>1, <1>4, <1>6, <1>7, <1>8 DEF PageType
<1>10. "quick" \notin disturbed' BY <1>1 DEF SearchInv, MarginSuffices, Flips
<1>11. Replies("plain", PageOf(s), more) BY <1>1, <1>9
<1> HIDE DEF s
<1>12. /\ StoresTyped' /\ WalkTyped' /\ Begun' /\ BarrierPast' /\ MarginSuffices' /\ ShownFound' /\ Steady
       /\ walk'.stage = (IF more THEN "ask" ELSE "done") /\ walk'.shown = walk.shown \o PageOf(s)
       /\ walk'.offset = (IF more THEN walk.offset + Limit ELSE walk.offset)
       /\ paths' = paths \cup {"plain"}
  BY <1>1, <1>2, <1>4, <1>8, <1>9, <1>10, <1>11, ReplyKeeps
<1>13. ASSUME disturbed' = {} PROVE Listed'
  <2>1. disturbed = {} /\ paths \subseteq {"plain"} BY <1>1, <1>13 DEF Flips
  <2>2. ShownOf(s)
    <3>1. CASE paths = {} BY <1>4, <3>1, NothingShown
    <3>2. CASE paths = {"plain"} BY <1>1, <2>1, <3>2 DEF SearchInv, Listed, ShownSoFar, s
    <3> QED BY <2>1, <3>1, <3>2
  <2>3. more <=> walk.offset + Limit < Len(s)
    <3>1. more <=> PageOf(s) # <<>> /\ walk.offset + Len(PageOf(s)) < Len(s) BY <1>3, <1>4 DEF more, s
    <3> QED BY <1>2, <1>4, <2>2, <3>1, MorePages
  <2>4. paths' = {"plain"} BY <1>12, <2>1
  <2>5. page'.total = Cardinality(Selected) /\ page'.facets \in {<<>>, Counts(Matching)} BY <1>3, <1>5, <1>9
  <2> QED BY <1>2, <1>8, <1>12, <2>2, <2>3, <2>4, <2>5, SortedReplyListed DEF s
<1>14. Listed' BY <1>13 DEF Listed
<1> QED BY <1>12, <1>14 DEF SearchInv

LEMMA MergeHitsKeeps == ASSUME SearchAssumption, SearchInv, MergeHits PROVE SearchInv'
<1> DEFINE x == page.text
           y == NearHits
           M == Merges(x, y)
<1>1. /\ walk.stage = "vector" /\ UNCHANGED storeVars
      /\ disturbed' = disturbed \cup Flips("merged") \cup IF Tied(x, y) THEN {"tied"} ELSE {}
  BY DEF MergeHits, At
<1>2. PICK s \in M :
        /\ page' = [page EXCEPT !.items = PageOf(s), !.total = Len(s), !.facets = Counts(Hits(x, y)),
                                !.next = PageOf(s) # <<>> /\ walk.offset + Len(PageOf(s)) < Len(s)]
        /\ Replies("merged", page'.items, page'.next)
  BY DEF MergeHits
<1> DEFINE more == PageOf(s) # <<>> /\ walk.offset + Len(PageOf(s)) < Len(s)
<1>3. Walking /\ OnElastic /\ HasText /\ StoresTyped /\ WalkTyped
  BY <1>1 DEF Walking, SearchInv, Begun, OnElastic
<1>4. x \in Seq(Torrents) /\ y \in Seq(Torrents) /\ Range(y) \subseteq BehindBarrier
  BY <1>3, HitFacts DEF WalkTyped
<1>5. /\ Hits(x, y) \in SUBSET Torrents /\ s \in Seq(Torrents) /\ Range(s) = OfTypes(Hits(x, y))
      /\ ~Tied(x, y) => \A t \in M : t = s
  BY <1>4, MergeFacts
<1>6. PageOf(s) \in Seq(Torrents) /\ Range(PageOf(s)) \subseteq Range(s)
  BY <1>3, <1>5, TypedFacts, PageIsPart DEF PageOf
<1>7. \A t \in Range(PageOf(s)) : Found(t) /\ AskedFor(t)
  <2>1. \A t \in Hits(x, y) : Found(t) BY <1>1, <1>4, SelectedFound DEF Hits, SearchInv, ShownFound
  <2>2. \A t \in OfTypes(Hits(x, y)) : t \in Hits(x, y) /\ AskedFor(t) BY DEF OfTypes, AskedFor
  <2> QED BY <1>5, <1>6, <2>1, <2>2
<1>8. Counts(Hits(x, y)) \in [Types -> Nat] BY <1>5, CountsTyped
<1>9. page \in PageType BY <1>3 DEF WalkTyped, PageType
<1>10. more \in BOOLEAN /\ Len(s) \in Nat BY <1>5, LenProperties
<1> HIDE DEF M, more, y
<1>11. page' = [page EXCEPT !.items = PageOf(s), !.total = Len(s), !.facets = Counts(Hits(x, y)), !.next = more]
  BY <1>2 DEF more
<1>12. /\ page' \in PageType /\ page'.text = x /\ page'.items = PageOf(s) /\ page'.total = Len(s)
       /\ page'.facets = Counts(Hits(x, y)) /\ page'.next = more
  BY <1>6, <1>8, <1>9, <1>10, <1>11 DEF PageType
<1>13. "quick" \notin disturbed' BY <1>1 DEF SearchInv, MarginSuffices, Flips
<1>14. Replies("merged", PageOf(s), more) BY <1>2, <1>12
<1>15. /\ StoresTyped' /\ WalkTyped' /\ Begun' /\ BarrierPast' /\ MarginSuffices' /\ ShownFound' /\ Steady
       /\ walk'.stage = (IF more THEN "ask" ELSE "done") /\ walk'.shown = walk.shown \o PageOf(s)
       /\ walk'.offset = (IF more THEN walk.offset + Limit ELSE walk.offset)
       /\ paths' = paths \cup {"merged"}
  BY <1>1, <1>3, <1>6, <1>7, <1>10, <1>12, <1>13, <1>14, ReplyKeeps
<1>16. ASSUME disturbed' = {} PROVE Listed'
  <2>1. disturbed = {} /\ paths \subseteq {"merged"} /\ ~Tied(x, y) BY <1>1, <1>16 DEF Flips
  <2>2. x = TextHits BY <1>1, <2>1 DEF SearchInv, Listed, PageCurrent
  <2>3. ShownOf(s)
    <3>1. CASE paths = {} BY <1>5, <3>1, NothingShown
    <3>2. CASE paths = {"merged"}
      <4>1. PICK t \in Merges(TextHits, NearHits) : ShownOf(t)
        BY <1>1, <2>1, <3>2 DEF SearchInv, Listed, ShownSoFar
      <4>2. t \in M BY <2>2, <4>1 DEF M, y
      <4> QED BY <1>5, <2>1, <4>1, <4>2
    <3> QED BY <2>1, <3>1, <3>2
  <2>4. more <=> walk.offset + Limit < Len(s) BY <1>3, <1>5, <2>3, MorePages DEF more
  <2>5. (more => walk'.offset <= Len(s) /\ walk'.shown = SubSeq(s, 1, walk'.offset)) /\ (~more => walk'.shown = s)
    BY <1>3, <1>5, <1>10, <1>15, <2>3, <2>4, ReplyShows
  <2>6. /\ TextHits' = TextHits /\ Hits(TextHits, NearHits)' = Hits(TextHits, NearHits)
        /\ Merges(TextHits, NearHits)' = Merges(TextHits, NearHits)
        /\ Tied(TextHits, NearHits)' <=> Tied(TextHits, NearHits)
    BY <1>3, <1>15, SteadyLists, SteadyMerges
  <2>7. paths' = {"merged"} BY <1>15, <2>1
  <2>8. s \in Merges(TextHits, NearHits)' /\ ~Tied(TextHits, NearHits)'
    BY <2>1, <2>2, <2>6 DEF M, y
  <2>9. PageCurrent' BY <1>15 DEF PageCurrent
  <2>10. ShownSoFar' BY <1>15, <2>5, <2>7, <2>8 DEF ShownSoFar, ShownOf
  <2>11. ShownInFull'
    <3>1. Counts(Hits(TextHits, NearHits))' = Counts(Hits(TextHits, NearHits)) BY <2>6 DEF Counts
    <3> QED BY <1>12, <1>15, <2>2, <2>5, <2>6, <2>7, <2>8, <3>1 DEF ShownInFull, y
  <2> QED BY <2>7, <2>9, <2>10, <2>11 DEF Listed, OneWay
<1>17. Listed' BY <1>16 DEF Listed
<1> QED BY <1>15, <1>17 DEF SearchInv

----------------------------------------------------------------------------
(***************************************************************************)
(* The theorem.                                                            *)
(***************************************************************************)
\* A walk begins with nothing shown.
LEMMA SearchBegins == ASSUME SearchAssumption, Init PROVE SearchInv
<1>1. PICK r \in Requests :
        walk = [request |-> r, barrier |-> 0, offset |-> 0, shown |-> <<>>, stage |-> "idle"]
  BY DEF Init
<1>2. /\ now = MinTime /\ created = [t \in Torrents |-> 0] /\ indexed = Old
      /\ row = [t \in Torrents |-> IF t \in Old THEN "stored" ELSE "none"]
      /\ page = NoPage /\ paths = {} /\ disturbed = {}
  BY DEF Init
<1>3. StoresTyped
  <2>1. now \in MinTime..MaxTime /\ created \in [Torrents -> 0..MaxTime] BY <1>2 DEF SearchAssumption
  <2>2. row \in [Torrents -> Rows] BY <1>2 DEF Rows
  <2>3. \A t \in Old : t \in Torrents /\ row[t] = "stored" BY <1>2 DEF SearchAssumption
  <2> QED BY <1>2, <2>1, <2>2, <2>3 DEF StoresTyped
<1>4. WalkTyped
  <2>1. <<>> \in Seq(Torrents) /\ "idle" \in Stages BY DEF Stages
  <2>2. page \in PageType BY <1>2, NoPageTyped
  <2>3. walk \in [request : Requests, barrier : Int, offset : Nat, shown : Seq(Torrents), stage : Stages]
    BY <1>1, <2>1
  <2> QED BY <1>2, <2>2, <2>3 DEF WalkTyped, PageType
<1>5. walk.stage = "idle" /\ walk.shown = <<>> /\ walk.offset = 0 BY <1>1
<1>6. Begun /\ BarrierPast /\ MarginSuffices BY <1>2, <1>5 DEF Begun, BarrierPast, MarginSuffices, Walking
<1>7. ShownFound
  <2>1. Range(walk.shown) = {} BY <1>5 DEF Range
  <2> QED BY <1>5, <2>1 DEF ShownFound
<1>8. Listed BY <1>2, <1>5 DEF Listed, OneWay, PageCurrent, ShownSoFar, ShownInFull
<1> QED BY <1>3, <1>4, <1>6, <1>7, <1>8 DEF SearchInv

\* Every step keeps the invariant.
LEMMA SearchStep == ASSUME SearchAssumption, SearchInv, [Next]_vars PROVE SearchInv'
<1>1. CASE Tick BY <1>1, TickIsStoreStep, StoreStepKeeps
<1>2. CASE \E t \in Torrents : Begin(t) \/ Commit(t) \/ Index(t) \/ Delete(t) \/ Unindex(t)
  BY <1>2, BeginIsStoreStep, CommitIsStoreStep, IndexIsStoreStep, DeleteIsStoreStep, UnindexIsStoreStep,
     StoreStepKeeps
<1>3. CASE Ask \/ QueryItems \/ CountItems \/ QueryNext \/ QueryFacets
  BY <1>3, AskKeeps, QueryItemsKeeps, CountItemsKeeps, QueryNextKeeps, QueryFacetsKeeps
<1>4. CASE SearchText \/ NoVector \/ VectorFails \/ MergeHits \/ TooFar \/ SearchPlain
  BY <1>4, SearchTextKeeps, DegradeKeeps, MergeHitsKeeps, SearchPlainKeeps
<1>5. CASE UNCHANGED vars
  <2>1. StoreStep
    <3>1. /\ now' = now /\ created' = created /\ row' = row /\ indexed' = indexed /\ walk' = walk
          /\ page' = page /\ paths' = paths /\ disturbed' = disturbed
      BY <1>5 DEF vars, storeVars
    <3>2. StoresTyped' /\ BarrierPast' /\ MarginSuffices'
      BY <3>1 DEF SearchInv, StoresTyped, BarrierPast, MarginSuffices, Walking
    <3>3. Steady BY <3>1 DEF Steady, BehindBarrier, Present, OnElastic, HasText, request
    <3>4. \A t \in Torrents : Found(t) => Found(t)' BY <3>1 DEF Found
    <3> QED BY <3>1, <3>2, <3>3, <3>4 DEF StoreStep
  <2> QED BY <2>1, StoreStepKeeps
<1> QED BY <1>1, <1>2, <1>3, <1>4, <1>5 DEF Next

\* The contract from the invariant.
LEMMA SearchInvSuffices == ASSUME SearchAssumption, SearchInv PROVE SearchContract
<1>1. StoresTyped /\ WalkTyped /\ Begun /\ ShownFound /\ MarginSuffices BY DEF SearchInv
<1>2. Range(walk.shown) \subseteq Torrents
  BY <1>1, LenProperties, ElementOfSeq DEF WalkTyped, Range
<1>3. TypeOK BY <1>1, <1>2 DEF TypeOK, StoresTyped, WalkTyped, Rows
<1>4. FrozenAtBarrier BY <1>1 DEF FrozenAtBarrier, ShownFound, Found, AskedFor, OfTypes
<1>5. ASSUME Undisturbed PROVE IsInjective(walk.shown) /\ Range(walk.shown) = OfTypes(Pool)
                               /\ page.total = Len(walk.shown) /\ page.facets \in {<<>>, Counts(Pool)}
  <2>1. disturbed = {} /\ walk.stage = "done" BY <1>5 DEF Undisturbed
  <2>2. OneWay /\ ShownInFull /\ paths # {} BY <1>1, <2>1 DEF SearchInv, Listed, Begun
  <2>3. CASE paths \in {{"rows"}, {"plain"}}
    <3>1. /\ walk.shown = Sorted(Selected) /\ page.total = Cardinality(Selected)
          /\ page.facets \in {<<>>, Counts(Matching)}
      BY <2>1, <2>2, <2>3 DEF ShownInFull
    <3>2. Pool = Matching BY <2>3 DEF Pool
    <3>3. Selected \in SUBSET Torrents BY <1>1, TypedFacts
    <3>4. IsInjective(Sorted(Selected)) /\ Range(Sorted(Selected)) = Selected
          /\ Len(Sorted(Selected)) = Cardinality(Selected)
      BY <1>1, <3>3, ListFacts
    <3> QED BY <3>1, <3>2, <3>4 DEF Selected
  <2>4. CASE paths = {"merged"}
    <3>1. /\ walk.shown \in Merges(TextHits, NearHits) /\ page.total = Len(walk.shown)
          /\ page.text = TextHits /\ page.facets = Counts(Hits(TextHits, NearHits))
      BY <2>1, <2>2, <2>4 DEF ShownInFull
    <3>2. Pool = Hits(TextHits, NearHits) BY <2>4, <3>1 DEF Pool
    <3>3. HasText BY <1>1, <2>4 DEF Begun, OnElastic
    <3>4. TextHits \in Seq(Torrents) /\ NearHits \in Seq(Torrents) BY <1>1, <3>3, HitFacts
    <3>5. IsInjective(walk.shown) /\ Range(walk.shown) = OfTypes(Hits(TextHits, NearHits))
      BY <3>1, <3>4, MergeFacts
    <3> QED BY <3>1, <3>2, <3>5
  <2> QED BY <2>2, <2>3, <2>4 DEF OneWay
<1>6. EachShownOnce /\ TotalTold /\ FacetsWhole BY <1>5 DEF EachShownOnce, TotalTold, FacetsWhole
<1> QED BY <1>1, <1>3, <1>4, <1>6 DEF SearchContract

----------------------------------------------------------------------------
(***************************************************************************)
(* The memory queue and its row: the flag, the loops and the persists.     *)
(***************************************************************************)
\* A process starts with one loop.
LEMMA OneLoopType ==
  ASSUME NEW l \in Loops PROVE Q!OneLoop(l) \in [Loops -> {"off", "select", "persist"}]
  BY DEF Q!OneLoop

LEMMA QueueTypeInit == Q!Init => Q!TypeOK
<1> SUFFICES ASSUME Q!Init PROVE Q!TypeOK
  OBVIOUS
<1>1. loop \in [Loops -> {"off", "select", "persist"}]
  BY OneLoopType DEF Q!Init
<1>2. /\ pc \in [Q!Persisters -> Q!PersistPC]
      /\ copied \in [Q!Persisters -> 0 .. nextSeq] /\ encoded \in [Q!Persisters -> Nat]
  BY DEF Q!Init, Q!PersistPC
<1>3. watched \in [Loops -> Nat] /\ leaving \in [Loops -> BOOLEAN]
  BY DEF Q!Init
<1>4. saved \in [next : Nat, offset : Nat]
  BY DEF Q!Init
<1>5. /\ nextSeq \in Nat /\ offset \in Nat /\ stopCh \in Nat
      /\ failures \in Nat /\ restarts \in Nat
  BY DEF Q!Init
<1>6. dirty \in BOOLEAN /\ stopped \in BOOLEAN /\ overtaken \subseteq Q!Persisters /\ setBack \in BOOLEAN
  BY Zenon DEF Q!Init
<1>7. QED
  BY <1>1, <1>2, <1>3, <1>4, <1>5, <1>6, Zenon DEF Q!TypeOK

LEMMA QueueTypeNext == Q!TypeOK /\ [Q!Next]_queueVars => Q!TypeOK'
<1> SUFFICES ASSUME Q!TypeOK, [Q!Next]_queueVars PROVE Q!TypeOK'
  OBVIOUS
<1> USE CloserAssumption, BoundsAssumption
    DEF Q!TypeOK, Q!PersistPC, Q!Persisters, Q!loopVars, Q!persistVars, Q!rowVars, Q!boundVars
<1>1. CASE Q!Produce
  BY <1>1 DEF Q!Produce, Q!DirtyAfterProduce
<1>2. CASE Q!AdvanceOffset
  BY <1>2 DEF Q!AdvanceOffset
<1>3. CASE Q!Close
  BY <1>3 DEF Q!Close, Q!BeginPersist
<1>4. CASE Q!Reset
  <2>1. PICK l \in Loops : /\ loop' = [loop EXCEPT ![l] = "select"]
                           /\ watched' = [watched EXCEPT ![l] = stopCh']
    BY <1>4 DEF Q!Reset
  <2>2. loop' \in [Loops -> {"off", "select", "persist"}] /\ watched' \in [Loops -> Nat]
    BY <1>4, <2>1 DEF Q!Reset
  <2>3. pc' \in [Q!Persisters -> Q!PersistPC]
    BY <1>4 DEF Q!Reset
  <2>4. /\ nextSeq' = nextSeq /\ offset' = offset /\ dirty' = dirty
        /\ stopCh' = stopCh + 1 /\ leaving' = leaving /\ copied' = copied
        /\ encoded' = encoded /\ saved' = saved /\ overtaken' = overtaken /\ setBack' = setBack
        /\ failures' = failures /\ restarts' = restarts
    BY <1>4 DEF Q!Reset
  <2>5. stopped' \in BOOLEAN
    BY <1>4, Zenon DEF Q!Reset
  <2>6. QED
    BY <2>2, <2>3, <2>4, <2>5
<1>5. CASE Q!Restart
  <2>1. loop' \in [Loops -> {"off", "select", "persist"}]
    BY <1>5, OneLoopType DEF Q!Restart
  <2>2. /\ pc' \in [Q!Persisters -> Q!PersistPC] /\ nextSeq' \in Nat
        /\ copied' \in [Q!Persisters -> 0 .. nextSeq'] /\ encoded' \in [Q!Persisters -> Nat]
    BY <1>5 DEF Q!Restart
  <2>3. watched' \in [Loops -> Nat] /\ leaving' \in [Loops -> BOOLEAN]
    BY <1>5 DEF Q!Restart
  <2>4. /\ offset' \in Nat /\ stopCh' = 0
        /\ saved' = saved /\ overtaken' = {}
        /\ failures' = failures /\ restarts' = restarts + 1
    BY <1>5 DEF Q!Restart, Q!RecoveredOffset
  <2>5. dirty' \in BOOLEAN /\ stopped' \in BOOLEAN /\ setBack' \in BOOLEAN
    BY <1>5, Zenon DEF Q!Restart
  <2>6. QED
    BY <2>1, <2>2, <2>3, <2>4, <2>5
<1>6. ASSUME NEW p \in Q!Persisters, Q!NotDirty(p) \/ Q!TakeDirty(p) PROVE Q!TypeOK'
  BY <1>6 DEF Q!NotDirty, Q!TakeDirty
<1>7. ASSUME NEW p \in Q!Persisters, Q!BuildPersistState(p) PROVE Q!TypeOK'
  BY <1>7 DEF Q!BuildPersistState
<1>8. ASSUME NEW p \in Q!Persisters, Q!Marshal(p) PROVE Q!TypeOK'
  BY <1>8 DEF Q!Marshal, Q!EncodedOffset
<1>9. ASSUME NEW p \in Q!Persisters, Q!Upsert(p) PROVE Q!TypeOK'
  <2>1. /\ saved' = [next |-> copied[p], offset |-> encoded[p]] /\ pc' = [pc EXCEPT ![p] = "done"]
        /\ UNCHANGED <<nextSeq, offset, dirty, stopped, stopCh, Q!loopVars, copied, encoded, Q!boundVars>>
    BY <1>9 DEF Q!Upsert, Q!DirtyAfterUpsert
  <2>2. overtaken' \subseteq Q!Persisters
    BY <1>9 DEF Q!Upsert, Q!Older
  <2>3. setBack' \in BOOLEAN
    <3>1. setBack' = (p \in overtaken) BY <1>9 DEF Q!Upsert
    <3> QED BY <3>1, SMT
  <2>4. saved' \in [next : Nat, offset : Nat] /\ pc' \in [Q!Persisters -> Q!PersistPC]
    BY <2>1
  <2>5. QED
    BY <2>1, <2>2, <2>3, <2>4
<1>10. ASSUME NEW p \in Q!Persisters, Q!PersistFails(p) PROVE Q!TypeOK'
  BY <1>10 DEF Q!PersistFails, Q!DirtyAfterFailure
<1>11. ASSUME NEW l \in Loops, Q!Tick(l) \/ Q!StopSeen(l) PROVE Q!TypeOK'
  BY <1>11 DEF Q!Tick, Q!StopSeen, Q!BeginPersist
<1>12. ASSUME NEW l \in Loops, Q!LoopAgain(l) PROVE Q!TypeOK'
  BY <1>12 DEF Q!LoopAgain
<1>13. CASE UNCHANGED queueVars
  BY <1>13 DEF queueVars
<1>14. QED
  BY <1>1, <1>2, <1>3, <1>4, <1>5, <1>6, <1>7, <1>8, <1>9, <1>10, <1>11, <1>12, <1>13
     DEF Q!Next, Q!Run, Q!Persist

\* A copy that no newer one was written after is as good as the row: what was produced since is
\* covered.
CopyCovered(p) ==
    pc[p] \in {"built", "encoded"} /\ p \notin overtaken =>
        copied[p] = nextSeq \/ dirty \/ \E q \in Q!Persisters : Q!Carries(q, nextSeq)

CoverInv == Q!RowBehindCovered /\ \A p \in Q!Persisters : CopyCovered(p)

\* The unsaved messages are covered by the flag or by a persist in flight.
Covered == dirty \/ \E q \in Q!Persisters : Q!Carries(q, nextSeq)

\* A step that leaves the row and the copies alone, and covers what was covered.
LEMMA CoverKept ==
  ASSUME Q!TypeOK, CoverInv, UNCHANGED <<nextSeq, saved, setBack>>, Covered => Covered',
         \A q \in Q!Persisters :
            pc'[q] \in {"built", "encoded"} /\ q \notin overtaken' =>
                \/ pc[q] \in {"built", "encoded"} /\ q \notin overtaken /\ copied'[q] = copied[q]
                \/ copied'[q] = nextSeq
  PROVE  CoverInv'
<1>1. Q!RowBehindCovered'
  BY DEF CoverInv, Q!RowBehindCovered, Covered
<1>2. ASSUME NEW q \in Q!Persisters, pc'[q] \in {"built", "encoded"}, q \notin overtaken'
      PROVE  copied'[q] = nextSeq' \/ Covered'
  BY <1>2 DEF CoverInv, CopyCovered, Covered
<1>3. QED
  BY <1>1, <1>2 DEF CoverInv, CopyCovered, Covered

LEMMA QueueCoverNext ==
  ASSUME Q!TypeOK, Q!TypeOK', CoverInv, [Q!Next]_queueVars
  PROVE  CoverInv'
<1> USE DEF Q!Persisters
<1>1. CASE Q!Produce
  <2>1. dirty' = TRUE
    BY <1>1 DEF Q!Produce, Q!DirtyAfterProduce
  <2>2. QED
    BY <2>1 DEF CoverInv, CopyCovered, Q!RowBehindCovered
<1>2. CASE Q!Restart
  <2>1. saved'.next = nextSeq' /\ \A p \in Q!Persisters : pc'[p] = "idle"
    BY <1>2 DEF Q!Restart
  <2>2. nextSeq' \in Nat
    BY DEF Q!TypeOK
  <2>3. QED
    BY <2>1, <2>2 DEF CoverInv, CopyCovered, Q!RowBehindCovered
<1>3. CASE UNCHANGED queueVars
  BY <1>3 DEF queueVars, CoverInv, CopyCovered, Q!RowBehindCovered, Q!Carries
<1>4. CASE Q!AdvanceOffset
  BY <1>4 DEF Q!AdvanceOffset, Q!persistVars, Q!rowVars, CoverInv, CopyCovered, Q!RowBehindCovered,
              Q!Carries
<1>5. ASSUME NEW p \in Q!Persisters, Q!PersistFails(p) PROVE CoverInv'
  <2>1. dirty' = TRUE
    BY <1>5 DEF Q!PersistFails, Q!DirtyAfterFailure
  <2>2. QED
    BY <2>1 DEF CoverInv, CopyCovered, Q!RowBehindCovered
<1>6. ASSUME NEW p \in Q!Persisters, Q!TakeDirty(p) PROVE CoverInv'
  <2>1. /\ pc'[p] = "taken" /\ \A q \in Q!Persisters \ {p} : pc'[q] = pc[q]
        /\ UNCHANGED <<nextSeq, copied, saved, overtaken, setBack>>
    BY <1>6 DEF Q!TakeDirty, Q!TypeOK, Q!rowVars
  <2>2. Covered'
    BY <2>1 DEF Covered, Q!Carries
  <2>3. QED
    BY <2>1, <2>2, CoverKept
<1>7. ASSUME NEW p \in Q!Persisters, Q!BuildPersistState(p) PROVE CoverInv'
  <2>1. /\ pc'[p] = "built" /\ copied'[p] = nextSeq
        /\ \A q \in Q!Persisters \ {p} : pc'[q] = pc[q] /\ copied'[q] = copied[q]
        /\ UNCHANGED <<nextSeq, dirty, saved, overtaken, setBack>>
    BY <1>7 DEF Q!BuildPersistState, Q!TypeOK, Q!rowVars
  <2>2. Q!Carries(p, nextSeq)'
    BY <2>1 DEF Q!Carries, Q!TypeOK
  <2>3. QED
    BY <2>1, <2>2, CoverKept DEF Covered
<1>8. ASSUME NEW p \in Q!Persisters, Q!Upsert(p) PROVE CoverInv'
  <2>1. /\ UNCHANGED <<nextSeq, dirty, copied>> /\ saved'.next = copied[p] /\ setBack' = (p \in overtaken)
        /\ pc[p] = "encoded" /\ pc'[p] = "done" /\ \A q \in Q!Persisters \ {p} : pc'[q] = pc[q]
        /\ overtaken' = (overtaken \cup Q!Older(p)) \ {p}
    BY <1>8 DEF Q!Upsert, Q!TypeOK, Q!DirtyAfterUpsert
  <2>2. copied \in [Q!Persisters -> 0 .. nextSeq] /\ nextSeq \in Nat
    BY DEF Q!TypeOK
  <2>3. CASE copied[p] = nextSeq
    <3>1. \A q \in Q!Persisters : pc'[q] \in {"built", "encoded"} /\ q \notin overtaken'
              => copied[q] = nextSeq
      BY <2>1, <2>2, <2>3 DEF Q!Older
    <3>2. QED
      BY <2>1, <2>2, <2>3, <3>1 DEF CoverInv, CopyCovered, Q!RowBehindCovered
  <2>4. CASE copied[p] # nextSeq
    <3>1. ~Q!Carries(p, nextSeq)
      BY <2>1, <2>2, <2>4 DEF Q!Carries
    <3>2. Covered => Covered'
      BY <2>1, <3>1 DEF Covered, Q!Carries
    <3>3. p \notin overtaken => Covered
      BY <2>1, <2>4 DEF CoverInv, CopyCovered, Covered
    <3>4. Q!RowBehindCovered'
      BY <2>1, <3>2, <3>3 DEF Q!RowBehindCovered, Covered
    <3>5. ASSUME NEW q \in Q!Persisters, pc'[q] \in {"built", "encoded"}, q \notin overtaken'
          PROVE  copied'[q] = nextSeq' \/ Covered'
      BY <2>1, <3>2, <3>5 DEF CoverInv, CopyCovered, Covered
    <3>6. QED
      BY <3>4, <3>5 DEF CoverInv, CopyCovered, Covered
  <2>5. QED
    BY <2>3, <2>4
<1>9. ASSUME NEW p \in Q!Persisters,
             \/ Q!NotDirty(p) \/ Q!Marshal(p) \/ Q!Close \/ Q!Reset
             \/ p \in Loops /\ (Q!Tick(p) \/ Q!StopSeen(p) \/ Q!LoopAgain(p))
      PROVE  CoverInv'
  <2>1. UNCHANGED <<nextSeq, dirty, copied, saved, overtaken, setBack>>
    BY <1>9 DEF Q!NotDirty, Q!Marshal, Q!Close, Q!Reset, Q!Tick, Q!StopSeen, Q!LoopAgain, Q!rowVars
  <2>2. \A q \in Q!Persisters : \/ pc'[q] = pc[q]
                                \/ pc[q] \in {"idle", "begin", "done"} /\ pc'[q] \in {"idle", "begin", "done"}
                                \/ pc[q] = "built" /\ pc'[q] = "encoded"
    BY <1>9 DEF Q!NotDirty, Q!Marshal, Q!Close, Q!Reset, Q!Tick, Q!StopSeen, Q!LoopAgain,
                Q!BeginPersist, Q!TypeOK
  <2>3. Covered => Covered'
    BY <2>1, <2>2 DEF Covered, Q!Carries
  <2>4. QED
    BY <2>1, <2>2, <2>3, CoverKept
<1>10. QED
  BY <1>1, <1>2, <1>3, <1>4, <1>5, <1>6, <1>7, <1>8, <1>9 DEF Q!Next, Q!Run, Q!Persist

----------------------------------------------------------------------------
(***************************************************************************)
(* The theorems.                                                           *)
(***************************************************************************)
LEMMA PartsNext == [MCNext]_allVars => [Next]_vars /\ [Q!Next]_queueVars
BY DEF MCNext, QueueNext, allVars, searchVars

LEMMA PartsInit == MCInit => Init /\ Q!Init
BY DEF MCInit

\* The pages of a search show nothing that is newer than its barrier or that was not asked for; a
\* transaction of less than Margin seconds puts nothing behind the barrier; and a walk that nothing
\* disturbs shows each torrent once, and tells their number and their types.
THEOREM SearchKept == MCSpec => []SearchContract
<1>1. Init => SearchInv BY SearchAssumed, SearchBegins
<1>2. SearchInv /\ [Next]_vars => SearchInv' BY SearchAssumed, SearchStep
<1>3. SearchInv => SearchContract BY SearchAssumed, SearchInvSuffices
<1>4. MCSpec => MCInit /\ [][MCNext]_allVars BY PTL DEF MCSpec
<1> QED BY <1>1, <1>2, <1>3, <1>4, PartsInit, PartsNext, PTL

\* Whatever the interleaving of persist loops and Close, and wherever persists fail, a message that
\* the row lacks is covered by the dirty flag or by a persist in flight, unless the row was set back
\* by a persist with an older copy than one that had written before it.
THEOREM DirtyFlagSound == MCSpec => []DurabilityContract
<1>1. Q!Init => Q!TypeOK /\ CoverInv
  <2>1. Q!Init => CoverInv BY DEF Q!Init, CoverInv, CopyCovered, Q!RowBehindCovered
  <2> QED BY <2>1, QueueTypeInit
<1>2. Q!TypeOK /\ [Q!Next]_queueVars => Q!TypeOK' BY QueueTypeNext
<1>3. Q!TypeOK /\ Q!TypeOK' /\ CoverInv /\ [Q!Next]_queueVars => CoverInv'
  BY QueueCoverNext
<1>4. MCSpec => MCInit /\ [][MCNext]_allVars BY PTL DEF MCSpec
<1>5. Q!TypeOK /\ CoverInv => DurabilityContract BY DEF DurabilityContract, CoverInv
<1> QED BY <1>1, <1>2, <1>3, <1>4, <1>5, PartsInit, PartsNext, PTL
=============================================================================
