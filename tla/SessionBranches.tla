--------------------------- MODULE SessionBranches ---------------------------
(***************************************************************************)
(* What a session of packages/agent promises one caller at a time          *)
(* (packages/agent/docs/durable-harness.md:19 "session is the durable      *)
(* append-only state tree"): a tree that only grows and an active leaf in  *)
(* it.  A node of the tree is the path of entries from the root to it, so  *)
(* that a node never changes its parent.                                   *)
(***************************************************************************)
EXTENDS Naturals, Sequences

CONSTANT Ids

VARIABLES
    nodes,      \* the paths of all entries, and the empty path
    leaf        \* the active branch

Root == <<>>

Fresh(id) == \A n \in nodes : \A i \in DOMAIN n : n[i] # id

Init == nodes = {Root} /\ leaf = Root

\* A new entry becomes a child of the leaf and the new leaf.
AppendEntry(id) ==
    /\ Fresh(id)
    /\ leaf' = Append(leaf, id)
    /\ nodes' = nodes \union {leaf'}

\* Moving the leaf is itself an entry; any node can become the leaf.
MoveLeaf(id) ==
    /\ Fresh(id)
    /\ nodes' = nodes \union {Append(leaf, id)}
    /\ leaf' \in nodes

Next == \E id \in Ids : AppendEntry(id) \/ MoveLeaf(id)

vars == <<nodes, leaf>>

Spec == Init /\ [][Next]_vars
=============================================================================
