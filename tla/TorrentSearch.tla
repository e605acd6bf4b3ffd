---------------------------- MODULE TorrentSearch ----------------------------
(***************************************************************************)
(* The pages of a torrent search while torrents come and go: the barrier   *)
(* that keeps new ones out, the router (src/internal/search), the four     *)
(* queries of a page from PostgreSQL (src/internal/database/search), and   *)
(* the text and vector searches of Elasticsearch, whose hits are merged by *)
(* reciprocal rank (src/internal/elasticsearch/search).  The two stores    *)
(* answer a query as their documentation says; a client asks for the next  *)
(* page for as long as there is one.                                       *)
(***************************************************************************)
EXTENDS Naturals, Sequences, FiniteSets, SequencesExt

CONSTANTS Torrents,    \* info hashes: numbers, which gives their order
          Types, TypeOf,
          Old,         \* torrents both stores have from the start
          Requests,    \* [text: how the torrents match it, or NoText, elastic, facet: BOOLEAN,
                       \*  types: SUBSET Types, order]
          Limit, Window,       \* of a page, and of what is merged
          RrfText, RrfVector,  \* 30 and 60
          Margin,              \* seconds between the barrier and the first page
          MinTime, MaxTime       \* bounds: the seconds that pass

VARIABLES now,
          created,    \* when the transaction that stores a torrent began
          row,        \* torrent -> "none", "open" (not committed), "stored", "removed"
          indexed,    \* the torrents Elasticsearch has
          walk,       \* the client: request, barrier, offset, shown, and stage
          page,       \* the page being made: text (hits), items, total, next, facets
          paths,      \* history: how the pages of the walk were made
          disturbed   \* history: what the barrier and the order cannot make up for

\* A text is a score of each torrent, 0 for no match, and a nearness of its vector, in tenths.
NoText == [score |-> <<>>, near |-> <<>>]

\* Hashes have an order, scores and times are compared; a client asks for pages that are not empty.
SearchAssumption ==
    /\ Torrents \subseteq Nat /\ IsFiniteSet(Torrents) /\ Old \subseteq Torrents
    /\ IsFiniteSet(Types) /\ TypeOf \in [Torrents -> Types]
    /\ \A r \in Requests :
         /\ r.elastic \in BOOLEAN /\ r.facet \in BOOLEAN /\ r.types \subseteq Types
         /\ r.text # NoText => r.text.score \in [Torrents -> Nat] /\ r.text.near \in [Torrents -> Nat]
    /\ Limit \in Nat \ {0} /\ Window \in Nat
    /\ Margin \in Nat \ {0} /\ MinTime \in Nat /\ MaxTime \in Nat /\ Margin <= MinTime /\ MinTime <= MaxTime

ASSUME SearchAssumed == SearchAssumption

storeVars == <<now, created, row, indexed>>
vars == <<storeVars, walk, page, paths, disturbed>>

NoPage == [text |-> <<>>, items |-> <<>>, total |-> 0, next |-> FALSE, facets |-> <<>>]

Init ==
    /\ now = MinTime
    /\ created = [t \in Torrents |-> 0]
    /\ row = [t \in Torrents |-> IF t \in Old THEN "stored" ELSE "none"]
    /\ indexed = Old
    /\ \E r \in Requests : walk = [request |-> r, barrier |-> 0, offset |-> 0, shown |-> <<>>, stage |-> "idle"]
    /\ page = NoPage
    /\ paths = {} /\ disturbed = {}

----------------------------------------------------------------------------
(***************************************************************************)
(* What a query selects and in which order.                                *)
(***************************************************************************)
request == walk.request
HasText == request.text # NoText
Score(t) == request.text.score[t]
Nearness(t) == request.text.near[t]
OnElastic == HasText /\ request.elastic

Present == IF OnElastic THEN indexed ELSE {t \in Torrents : row[t] = "stored"}
OfTypes(S) == {t \in S : request.types = {} \/ TypeOf[t] \in request.types}
BehindBarrier == {t \in Present : created[t] <= walk.barrier}

\* The filters without the one on content types, which the facets do not see.
Matching == {t \in BehindBarrier : HasText => Score(t) > 0}
Selected == OfTypes(Matching)

ByScore == HasText /\ request.order = "relevance"
Before(a, b) ==
    IF ByScore /\ Score(a) # Score(b) THEN Score(a) > Score(b)
    ELSE IF (~ByScore \/ OnElastic) /\ created[a] # created[b] THEN created[a] > created[b]
    ELSE a > b
Sorted(S) == CHOOSE s \in SetToSeqs(S) : \A i, j \in DOMAIN s : i < j => Before(s[i], s[j])

First(n, s) == SubSeq(s, 1, IF n < Len(s) THEN n ELSE Len(s))
PageFrom(offset, s) == SubSeq(s, offset + 1, IF offset + Limit < Len(s) THEN offset + Limit ELSE Len(s))
PageOf(s) == PageFrom(walk.offset, s)
Counts(S) == [k \in Types |-> Cardinality({t \in S : TypeOf[t] = k})]

----------------------------------------------------------------------------
(***************************************************************************)
(* Torrents are stored by transactions, indexed some time after, and       *)
(* removed.  What the walk would see of it is noted.                       *)
(***************************************************************************)
Walking == walk.stage # "idle"
Notes(t, what) == disturbed' = IF Walking /\ created[t] <= walk.barrier THEN disturbed \cup {what} ELSE disturbed

Tick == now < MaxTime /\ now' = now + 1 /\ UNCHANGED <<created, row, indexed, walk, page, paths, disturbed>>

Begin(t) ==
    /\ row[t] = "none"
    /\ row' = [row EXCEPT ![t] = "open"] /\ created' = [created EXCEPT ![t] = now]
    /\ UNCHANGED <<now, indexed, walk, page, paths, disturbed>>

Commit(t) ==
    /\ row[t] = "open"
    /\ row' = [row EXCEPT ![t] = "stored"]
    /\ IF OnElastic THEN UNCHANGED disturbed
       ELSE Notes(t, IF now - created[t] < Margin THEN "quick" ELSE "late")
    /\ UNCHANGED <<now, created, indexed, walk, page, paths>>

Index(t) ==
    /\ row[t] = "stored" /\ t \notin indexed
    /\ indexed' = indexed \cup {t}
    /\ IF OnElastic THEN Notes(t, "late") ELSE UNCHANGED disturbed
    /\ UNCHANGED <<now, created, row, walk, page, paths>>

Delete(t) ==
    /\ row[t] = "stored"
    /\ row' = [row EXCEPT ![t] = "removed"]
    /\ IF OnElastic THEN UNCHANGED disturbed ELSE Notes(t, "removed")
    /\ UNCHANGED <<now, created, indexed, walk, page, paths>>

Unindex(t) ==
    /\ row[t] = "removed" /\ t \in indexed
    /\ indexed' = indexed \ {t}
    /\ IF OnElastic THEN Notes(t, "removed") ELSE UNCHANGED disturbed
    /\ UNCHANGED <<now, created, row, walk, page, paths>>

----------------------------------------------------------------------------
(***************************************************************************)
(* A page.  The first one draws the barrier, the others are given it.      *)
(***************************************************************************)
NewBarrier == now - Margin

Ask ==
    /\ walk.stage \in {"idle", "ask"}
    /\ walk' = [walk EXCEPT !.stage = IF OnElastic THEN "text" ELSE "items",
                            !.barrier = IF walk.stage = "idle" THEN NewBarrier ELSE @]
    /\ page' = NoPage
    /\ UNCHANGED <<storeVars, paths, disturbed>>

At(stage) == walk.stage = stage /\ UNCHANGED storeVars
GoesTo(stage) == walk' = [walk EXCEPT !.stage = stage] /\ UNCHANGED <<paths, disturbed>>

\* The client has the page, and asks for the next one if it was told of one.
Replies(way, items, next) ==
    /\ walk' = [walk EXCEPT !.shown = @ \o items,
                            !.offset = IF next THEN @ + Limit ELSE @,
                            !.stage = IF next THEN "ask" ELSE "done"]
    /\ paths' = paths \cup {way}

Flips(way) == IF paths \ {way} # {} THEN {"flip"} ELSE {}

QueryItems == At("items") /\ page' = [page EXCEPT !.items = PageOf(Sorted(Selected))] /\ GoesTo("count")

CountItems == At("count") /\ page' = [page EXCEPT !.total = Cardinality(Selected)] /\ GoesTo("next")

\* As NextExists, one row too far.
NextExistsBeyond == Cardinality(Selected) > walk.offset + Limit + 1

\* Is there a row at the offset where the next page begins?
NextExists == Cardinality(Selected) > walk.offset + Limit

QueryNext ==
    /\ At("next")
    /\ page' = [page EXCEPT !.next = page.items # <<>> /\ NextExists]
    /\ GoesTo("facets")

QueryFacets ==
    /\ At("facets")
    /\ page' = [page EXCEPT !.facets = IF request.facet THEN Counts(Matching) ELSE <<>>]
    /\ Replies("rows", page.items, page.next)
    /\ UNCHANGED disturbed

----------------------------------------------------------------------------
\* With a vector of the text, the text search is asked for the whole window.
SearchText ==
    /\ At("text")
    /\ page' = [page EXCEPT !.text = First(Window, Sorted(Matching))]
    /\ GoesTo("vector")

\* No embedder, or it fails; or the vector search fails.
NoVector == At("text") /\ UNCHANGED page /\ GoesTo("plain")
VectorFails == At("vector") /\ UNCHANGED page /\ GoesTo("plain")

Nearer(a, b) == IF Nearness(a) # Nearness(b) THEN Nearness(a) > Nearness(b) ELSE Before(a, b)
ByNearness(S) == CHOOSE s \in SetToSeqs(S) : \A i, j \in DOMAIN s : i < j => Nearer(s[i], s[j])

\* As Nearest, for a vector search without the filters of the text search.
NearestOfAll == First(Window, ByNearness(Present))

\* The hits of the vector search, which has the filters of the text search.
Nearest == First(Window, ByNearness(BehindBarrier))

\* Hits have a score only if they are sorted by it; of those, the near ones are kept.
NearHits ==
    ByNearness({t \in Range(Nearest) :
        ByScore /\ Nearness(t) >= 3 /\ \A u \in Range(Nearest) : 10 * Nearness(t) >= 6 * Nearness(u)})

\* Reciprocal ranks, over a common denominator.
Scale == FoldLeft(LAMBDA x, y : x * y, 1, [i \in 1..(RrfVector + Window) |-> i])
Share(s, t, k) == IF Contains(s, t) THEN Scale \div (k + CHOOSE i \in DOMAIN s : s[i] = t) ELSE 0
RankOf(text, near, t) == Share(text, t, RrfText) + Share(near, t, RrfVector)
NoWorse(text, near, a, b) == RankOf(text, near, a) >= RankOf(text, near, b)
Hits(text, near) == Range(text) \cup Range(near)

\* Entries come out of a map in any order, and a sort that is not stable keeps none.
Merges(text, near) ==
    {s \in SetToSeqs(OfTypes(Hits(text, near))) :
       \A i, j \in DOMAIN s : i < j => NoWorse(text, near, s[i], s[j])}
Tied(text, near) ==
    \E a, b \in Hits(text, near) : a # b /\ NoWorse(text, near, a, b) /\ NoWorse(text, near, b, a)

MergeHits ==
    /\ At("vector")
    /\ Nearest # <<>> => NearHits # <<>>
    /\ \E s \in Merges(page.text, NearHits) :
         /\ page' = [page EXCEPT !.items = PageOf(s), !.total = Len(s),
                                 !.facets = Counts(Hits(page.text, NearHits)),
                                 !.next = PageOf(s) # <<>> /\ walk.offset + Len(PageOf(s)) < Len(s)]
         /\ Replies("merged", page'.items, page'.next)
    /\ disturbed' = disturbed \cup Flips("merged") \cup IF Tied(page.text, NearHits) THEN {"tied"} ELSE {}

TooFar == At("vector") /\ Nearest # <<>> /\ NearHits = <<>> /\ UNCHANGED page /\ GoesTo("plain")

\* As PlainFrom, for a search that keeps what the text search was asked for.
FromWindow == 0

\* Where a search by text alone begins, whatever was asked of it before.
PlainFrom == walk.offset

\* The sum of the buckets of these types: as many as there are in them all, side by side.
Sum(buckets, types) == Cardinality({p \in types \X (1..Cardinality(Torrents)) : p[2] <= buckets[p[1]]})

\* With a facet the types are filtered after it, and the total is what it counted of them.
SearchPlain ==
    LET items == PageFrom(PlainFrom, Sorted(Selected))
        facets == IF request.facet THEN Counts(Matching) ELSE <<>>
        counted == IF request.facet THEN Sum(facets, request.types) ELSE 0
        total == IF counted > 0 THEN counted ELSE Cardinality(Selected)
    IN /\ At("plain")
       /\ page' = [page EXCEPT !.items = items, !.facets = facets, !.total = total,
                               !.next = items # <<>> /\ walk.offset + Len(items) < total]
       /\ Replies("plain", items, page'.next)
       /\ disturbed' = disturbed \cup Flips("plain")

Next ==
    \/ Tick
    \/ \E t \in Torrents : Begin(t) \/ Commit(t) \/ Index(t) \/ Delete(t) \/ Unindex(t)
    \/ Ask \/ QueryItems \/ CountItems \/ QueryNext \/ QueryFacets
    \/ SearchText \/ NoVector \/ VectorFails \/ MergeHits \/ TooFar \/ SearchPlain

Spec == Init /\ [][Next]_vars

----------------------------------------------------------------------------
(***************************************************************************)
(* Properties.                                                             *)
(***************************************************************************)
TypeOK ==
    /\ now \in MinTime..MaxTime /\ created \in [Torrents -> 0..MaxTime]
    /\ row \in [Torrents -> {"none", "open", "stored", "removed"}]
    /\ indexed \subseteq {t \in Torrents : row[t] \in {"stored", "removed"}}
    /\ walk.request \in Requests /\ Range(walk.shown) \subseteq Torrents
    /\ paths \subseteq {"rows", "merged", "plain"}

\* The result set is frozen: whatever happens, no page shows a torrent that is newer than the
\* barrier, or of a type that was not asked for (torrent_search.graphqls:21-24).
FrozenAtBarrier == \A t \in Range(walk.shown) : created[t] <= walk.barrier /\ t \in OfTypes({t})

\* The barrier is that much before the first page that a transaction which takes less cannot
\* put a torrent behind it afterwards.
MarginSuffices == "quick" \notin disturbed

\* What the pages are cut from.
Pool == IF "merged" \in paths THEN Hits(page.text, NearHits) ELSE Matching
Undisturbed == disturbed = {} /\ walk.stage = "done"

\* Unless a torrent came late or went, the pages were made in two ways, or ranks were tied, a
\* walk shows everything there is to show, and nothing twice, and the total says how much.
EachShownOnce == Undisturbed => IsInjective(walk.shown) /\ Range(walk.shown) = OfTypes(Pool)
TotalTold == Undisturbed => page.total = Len(walk.shown)

\* The facet counts what there would be for every type, whichever were asked for.
FacetsWhole == Undisturbed /\ page.facets # <<>> => page.facets = Counts(Pool)

SearchContract == TypeOK /\ FrozenAtBarrier /\ MarginSuffices /\ EachShownOnce /\ TotalTold /\ FacetsWhole
=============================================================================
