------------------------------ MODULE BucketTree ------------------------------
(***************************************************************************)
(* The binary tree below the DHT routing table                             *)
(* (src/internal/protocol/dht/ktable/btree).  An id is the sequence of its *)
(* bits after the exclusive or with the origin, so the origin itself is    *)
(* all zeros and a smaller id is a closer one.  A node of the tree is      *)
(* empty, a leaf, or a branch that caches the sizes of its two sides.      *)
(***************************************************************************)
EXTENDS Naturals, Sequences, FiniteSets

CONSTANTS N,         \* bits of an id
          K,         \* the size of a bucket
          Splitting, \* splittingEnabled
          MaxSize    \* bound: ids in the tree

VARIABLES tree,         \* rootNode.node
          bucketCounts, \* leading zeros -> how many ids have them
          members,      \* history: the ids accepted and not dropped since
          offered       \* history: the id last offered, how full its bucket was, and the answer

vars == <<tree, bucketCounts, members, offered>>

Bit == {0, 1}
AllIds == [1 .. N -> Bit]
Origin == [i \in 1 .. N |-> 0]

Empty == [kind |-> "empty"]
Leaf(x) == [kind |-> "leaf", xor |-> x]
Branch(side, size) == [kind |-> "branch", side |-> side, size |-> size]

LeadingZeros(x) == CHOOSE z \in 0 .. N : (\A i \in 1 .. z : x[i] = 0) /\ (z < N => x[z + 1] = 1)

----------------------------------------------------------------------------
(* Every operator takes the depth of the node, the length of its path. *)

Size(node) ==
    CASE node.kind = "empty" -> 0
      [] node.kind = "leaf" -> 1
      [] OTHER -> node.size[0] + node.size[1]

RECURSIVE Has(_, _, _)
Has(node, depth, x) ==
    CASE node.kind = "empty" -> FALSE
      [] node.kind = "leaf" -> node.xor = x
      [] OTHER -> Has(node.side[x[depth + 1]], depth + 1, x)

\* A leaf becomes a branch that holds it and the new id.
RECURSIVE Put(_, _, _)
Put(node, depth, x) ==
    CASE node.kind = "empty" -> Leaf(x)
      [] node.kind = "leaf" ->
            LET both == Branch([b \in Bit |-> Empty], [b \in Bit |-> 0])
            IN Put(Put(both, depth, node.xor), depth, x)
      [] OTHER ->
            LET b == x[depth + 1]
                new == Put(node.side[b], depth + 1, x)
            IN Branch([node.side EXCEPT ![b] = new], [node.size EXCEPT ![b] = Size(new)])

RECURSIVE AllXors(_)
AllXors(node) ==
    CASE node.kind = "empty" -> <<>>
      [] node.kind = "leaf" -> <<node.xor>>
      [] OTHER -> AllXors(node.side[0]) \o AllXors(node.side[1])

\* A branch left with nothing or with one id on its other side is folded; x is in the tree.
SizeKept(node, b, new) == node.size
SizeAfter(node, b, new) == [node.size EXCEPT ![b] = Size(new)]

RECURSIVE Drop(_, _, _)
Drop(node, depth, x) ==
    IF node.kind = "leaf" THEN Empty
    ELSE LET b == x[depth + 1]
             new == Drop(node.side[b], depth + 1, x)
             other == node.size[1 - b]
         IN IF Size(new) = 0 /\ other = 0 THEN Empty
            ELSE IF Size(new) = 0 /\ other = 1 THEN Leaf(AllXors(node.side[1 - b])[1])
            ELSE Branch([node.side EXCEPT ![b] = new], SizeAfter(node, b, new))

\* How many ids are closer to the origin than path.  For a leaf the answer is 0 as soon as
\* the path has a 1 where the leaf has none.
LeafCounts(node, depth, path) ==
    IF \E i \in 1 .. Len(path) : path[i] = 1 /\ node.xor[i + depth] = 0 THEN 0 ELSE 1

RECURSIVE CountCloser(_, _, _)
CountCloser(node, depth, path) ==
    CASE node.kind = "empty" -> 0
      [] node.kind = "leaf" -> LeafCounts(node, depth, path)
      [] path = <<>> -> 0
      [] Len(path) = 1 -> IF path[1] = 0 THEN node.size[0] ELSE node.size[0] + node.size[1]
      [] path[1] = 0 -> CountCloser(node.side[0], depth + 1, Tail(path))
      [] OTHER -> node.size[0] + CountCloser(node.side[1], depth + 1, Tail(path))

\* The side that the path does not take is asked without a path: from its zeros on.
FirstOnly(closest, count) == FALSE  \* the other side is never asked
Missing(closest, count) == Len(closest) < count

RECURSIVE Closest(_, _, _)
Closest(node, path, count) ==
    CASE node.kind = "empty" -> <<>>
      [] node.kind = "leaf" -> IF count < 1 THEN <<>> ELSE <<node.xor>>
      [] OTHER ->
            LET way == IF path = <<>> THEN <<0>> ELSE path
                near == Closest(node.side[way[1]], Tail(way), count)
            IN IF Missing(near, count)
               THEN near \o Closest(node.side[1 - way[1]], <<>>, count - Len(near))
               ELSE near

----------------------------------------------------------------------------
Init ==
    /\ tree = Empty
    /\ bucketCounts = [z \in 0 .. N |-> 0]
    /\ members = {}
    /\ offered = [answer |-> "none"]

FullSomewhere(x) == Splitting => CountCloser(tree, 0, x) >= K  \* the bucket's own count not asked
Full(x) ==
    /\ bucketCounts[LeadingZeros(x)] >= K
    /\ Splitting => CountCloser(tree, 0, x) >= K

Answer(x) ==
    CASE x = Origin -> "rejected"
      [] Has(tree, 0, x) -> "already exists"
      [] Full(x) -> "rejected"
      [] OTHER -> "accepted"

PutId(x) ==
    /\ Cardinality(members) < MaxSize
    /\ offered' = [answer |-> Answer(x), id |-> x, inBucket |-> bucketCounts[LeadingZeros(x)]]
    /\ IF Answer(x) = "accepted"
       THEN /\ tree' = Put(tree, 0, x)
            /\ bucketCounts' = [bucketCounts EXCEPT ![LeadingZeros(x)] = @ + 1]
            /\ members' = members \cup {x}
       ELSE UNCHANGED <<tree, bucketCounts, members>>

CountKept(x) == bucketCounts  \* dropBucketCount forgotten
CountLowered(x) == [bucketCounts EXCEPT ![LeadingZeros(x)] = @ - 1]

DropId(x) ==
    /\ offered' = [answer |-> "none"]
    /\ IF Has(tree, 0, x)
       THEN /\ tree' = Drop(tree, 0, x)
            /\ bucketCounts' = CountLowered(x)
            /\ members' = members \ {x}
       ELSE UNCHANGED <<tree, bucketCounts, members>>

Next == \E x \in AllIds : PutId(x) \/ DropId(x)
Spec == Init /\ [][Next]_vars

----------------------------------------------------------------------------
\* A subtree is well formed below a prefix: its ids begin with the prefix, and the cached
\* sizes are those of the sides.
RECURSIVE WellFormed(_, _)
WellFormed(node, prefix) ==
    CASE node.kind = "empty" -> TRUE
      [] node.kind = "leaf" -> SubSeq(node.xor, 1, Len(prefix)) = prefix
      [] OTHER -> \A b \in Bit :
                     /\ WellFormed(node.side[b], Append(prefix, b))
                     /\ node.size[b] = Len(AllXors(node.side[b]))

\* Type invariant.
TypeOK ==
    /\ members \subseteq AllIds /\ Cardinality(members) <= MaxSize
    /\ bucketCounts \in [0 .. N -> 0 .. MaxSize]
    /\ offered.answer \in {"none", "rejected", "already exists", "accepted"}

\* Through splits and folds in any order, what the tree finds is what was accepted and
\* not dropped, and its cached sizes, from which the folds and the answers are made, fit.
TreeIsSet ==
    /\ \A x \in AllIds : Has(tree, 0, x) <=> x \in members
    /\ {AllXors(tree)[i] : i \in 1 .. Len(AllXors(tree))} = members
    /\ WellFormed(tree, <<>>)

\* The counts that decide about a rejection follow the tree.
CountsFollow ==
    \A z \in 0 .. N : bucketCounts[z] = Cardinality({x \in members : LeadingZeros(x) = z})

\* The bits that two ids have in common at the front.
Shared(x, y) == LeadingZeros([i \in 1 .. N |-> (x[i] + y[i]) % 2])

\* Closest has as many different ids to give as there are, up to the number asked for, begins
\* with the id itself when the tree has it, and leaves out none that has more bits in common
\* with it at the front than one that it gives.  Among those with as many in common it is not
\* the distance that decides: the side off the path is gone through from its zeros on
\* (node.go:340).
ClosestGives ==
    \A x \in AllIds, count \in 1 .. MaxSize :
        LET found == Closest(tree, x, count)
            set == {found[i] : i \in 1 .. Len(found)}
        IN /\ set \subseteq members
           /\ Cardinality(set) = Len(found)
           /\ Len(found) = (IF count < Cardinality(members) THEN count ELSE Cardinality(members))
           /\ x \in members => found[1] = x
           /\ \A given \in set, out \in members \ set : Shared(x, given) >= Shared(x, out)

\* An id other than the origin is turned away only for a full bucket.
RoomIsUsed ==
    offered.answer = "rejected" => offered.id = Origin \/ offered.inBucket >= K
=============================================================================
