----------------------------- MODULE RoutingTable -----------------------------
(***************************************************************************)
(* The DHT routing table (src/internal/protocol/dht/ktable): the nodes and *)
(* the hashes that the program knows, and the map that leads from an IP    *)
(* address back to them, by which addresses already known are left out.    *)
(* Every command runs under the table's mutex.  Of the two binary trees    *)
(* only their contents are kept: module BucketTree shows that the tree is  *)
(* the set of what it accepted; here it may turn any new id away.          *)
(***************************************************************************)
EXTENDS Naturals, FiniteSets

CONSTANTS NodeIds, HashIds,
          Ips, Ports,
          MaxPeers  \* maxPeersPerHash

VARIABLES nodes,      \* node id -> its address, or NoAddr (nodes.items)
          nodeTree,   \* the ids in nodes.btree
          hashes,     \* hash id -> the addresses of its peers, or NoHash (hashes.items)
          addrs,      \* address -> what the reverse map has for it
          failing     \* history: a command met an id of the tree without an item

vars == <<nodes, nodeTree, hashes, addrs, failing>>

NoAddr == [ip |-> "none", port |-> 0]
NoHash == {"none"}
NoPeer == "none"   \* the zero ID of an entry that only has hashes
NoInfo == [peer |-> NoPeer, hashes |-> {}, there |-> FALSE]
Infos == [peer : NodeIds \cup {NoPeer}, hashes : SUBSET HashIds, there : BOOLEAN]
Addresses == [ip : Ips, port : Ports]

Init ==
    /\ nodes = [n \in NodeIds |-> NoAddr]
    /\ nodeTree = {}
    /\ hashes = [h \in HashIds |-> NoHash]
    /\ addrs = [a \in Ips |-> NoInfo]
    /\ failing = FALSE

----------------------------------------------------------------------------
(* The reverse map, as operators from one map to the next. *)

PutPeer(m, ip, id) == [m EXCEPT ![ip] = [peer |-> id, hashes |-> @.hashes, there |-> TRUE]]
PutHashes(m, ip, id) == [m EXCEPT ![ip] = [peer |-> @.peer, hashes |-> @.hashes \cup {id}, there |-> TRUE]]

KeepAddr(m, ip) == m   \* the entry left behind
DropAddr(m, ip) == [m EXCEPT ![ip] = NoInfo]

\* The entry goes when neither hashes nor a node are left in it.
ForgetHash(info, id) ==
    IF info.hashes \ {id} = {} /\ info.peer = NoPeer THEN NoInfo
    ELSE [peer |-> info.peer, hashes |-> info.hashes \ {id}, there |-> info.there]

EvictedFrom(m, id, ips) == m  \* only the hash's own list is cut
DropHashFor(m, id, ips) == [ip \in Ips |-> IF ip \in ips /\ m[ip].there THEN ForgetHash(m[ip], id) ELSE m[ip]]

----------------------------------------------------------------------------
(* keyspace.put and drop for nodes. *)

\* A new node is not entered in the reverse map; only its next update does that.
AcceptNode(id, addr) ==
    /\ id \notin nodeTree
    /\ nodeTree' = nodeTree \cup {id}
    /\ nodes' = [nodes EXCEPT ![id] = IF @ = NoAddr THEN addr ELSE @]
    /\ UNCHANGED <<hashes, addrs, failing>>

RejectNode(id) ==
    /\ id \notin nodeTree
    /\ UNCHANGED <<nodes, nodeTree, hashes, addrs, failing>>

UpdateNode(id, addr) ==
    /\ id \in nodeTree
    /\ failing' = (failing \/ nodes[id] = NoAddr)
    /\ nodes' = [nodes EXCEPT ![id] = addr]
    /\ addrs' = PutPeer(IF nodes[id] # addr /\ nodes[id] # NoAddr
                        THEN DropAddr(addrs, nodes[id].ip) ELSE addrs, addr.ip, id)
    /\ UNCHANGED <<nodeTree, hashes>>

InTreeAfter(id) == nodeTree  \* btree.Drop forgotten
LeftTree(id) == nodeTree \ {id}

DropNode(id) ==
    /\ IF nodes[id] # NoAddr
       THEN /\ addrs' = DropAddr(addrs, nodes[id].ip)
            /\ nodes' = [nodes EXCEPT ![id] = NoAddr]
            /\ nodeTree' = LeftTree(id)
       ELSE UNCHANGED <<addrs, nodes, nodeTree>>
    /\ UNCHANGED <<hashes, failing>>

----------------------------------------------------------------------------
(* keyspace.put for hashes, which are never dropped.  A node that announces *)
(* itself is the one peer of the command.                                   *)

AcceptHash(id, ip) ==
    /\ hashes[id] = NoHash
    /\ hashes' = [hashes EXCEPT ![id] = {ip}]
    /\ addrs' = PutHashes(addrs, ip, id)
    /\ UNCHANGED <<nodes, nodeTree, failing>>

RejectHash(id) ==
    /\ hashes[id] = NoHash
    /\ UNCHANGED <<nodes, nodeTree, hashes, addrs, failing>>

\* Of too many peers any go, in the order of the map: also the one that came last.
Unbounded(all, out) == out = {}
Evicted(all, out) ==
    /\ Cardinality(all \ out) <= MaxPeers
    /\ out # {} => Cardinality(all \ out) = MaxPeers

UpdateHash(id, ip) ==
    /\ hashes[id] # NoHash
    /\ \E out \in SUBSET (hashes[id] \cup {ip}) :
         /\ Evicted(hashes[id] \cup {ip}, out)
         /\ hashes' = [hashes EXCEPT ![id] = (@ \cup {ip}) \ out]
         /\ addrs' = DropHashFor(PutHashes(addrs, ip, id), id, out)
    /\ UNCHANGED <<nodes, nodeTree, failing>>

----------------------------------------------------------------------------
\* What the callers are told: addresses of which nothing is known, and the nodes of Closest.
Unknown(ips) == {ip \in ips : ~addrs[ip].there}
ClosestNodes == {nodes[id] : id \in nodeTree}

Next ==
    \/ \E id \in NodeIds, addr \in Addresses : AcceptNode(id, addr) \/ UpdateNode(id, addr)
    \/ \E id \in NodeIds : RejectNode(id) \/ DropNode(id)
    \/ \E id \in HashIds, ip \in Ips : AcceptHash(id, ip) \/ UpdateHash(id, ip)
    \/ \E id \in HashIds : RejectHash(id)

Spec == Init /\ [][Next]_vars

----------------------------------------------------------------------------
\* Type invariant.
TypeOK ==
    /\ nodes \in [NodeIds -> Addresses \cup {NoAddr}]
    /\ nodeTree \subseteq NodeIds
    /\ hashes \in [HashIds -> (SUBSET Ips) \cup {NoHash}]
    /\ \A h \in HashIds : hashes[h] # NoHash => Cardinality(hashes[h]) <= MaxPeers
    /\ addrs \in [Ips -> Infos]

\* The tree and the items agree, so that no update and no list of closest nodes meets an
\* id without its node.
TreeMatchesItems ==
    /\ nodeTree = {id \in NodeIds : nodes[id] # NoAddr}
    /\ ~failing /\ NoAddr \notin ClosestNodes

\* An address counts as known only for something that is still there: a node now at that
\* address, whatever the nodes that share or change addresses do.
NoStaleNode == \A ip \in Ips : addrs[ip].peer # NoPeer => nodes[addrs[ip].peer].ip = ip

\* ... or a hash that still has that address among the peers it keeps.
NoStaleHash ==
    \A ip \in Ips :
        /\ \A h \in addrs[ip].hashes : ip \in hashes[h]
        /\ ip \notin Unknown(Ips) => addrs[ip].peer # NoPeer \/ addrs[ip].hashes # {}
=============================================================================
