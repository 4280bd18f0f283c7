--------------------------- MODULE NgxRbtreeOrder ---------------------------
(***************************************************************************)
(* What the nginx red-black tree promises its callers, as an abstract      *)
(* ordered index: a sequence of <<node, key>> pairs.  Adding a node puts   *)
(* it after every pair whose key does not compare greater than its own,   *)
(* so the sequence stays sorted under the tree's comparator and nodes      *)
(* with equal keys stay in the order they were added.  Removing a node     *)
(* leaves the others in order.  Nothing here says how the order is kept.   *)
(***************************************************************************)
EXTENDS Integers, Sequences, FiniteSets

CONSTANTS Nodes, Keys, Less(_, _)

VARIABLE index

IndexedNodes(s) == {s[i][1] : i \in 1 .. Len(s)}

(* The position a key of k takes in s: after the last pair not greater    *)
(* than k.                                                                 *)
Position(s, k) == 1 + Cardinality({i \in 1 .. Len(s) : ~Less(k, s[i][2])})

(* The index s after adding node n with key k, and after removing n.      *)
Added(s, n, k) ==
  LET p == Position(s, k)
  IN  SubSeq(s, 1, p - 1) \o <<<<n, k>>>> \o SubSeq(s, p, Len(s))
Removed(s, n)  == SelectSeq(s, LAMBDA p : p[1] # n)

Init == index = <<>>

(* Every step adds one node that is not indexed or removes one that is.    *)
Next ==
  LET s  == index
      ix == IndexedNodes(s)
  IN  index' \in {Added(s, n, k) : n \in Nodes \ ix, k \in Keys}
                   \cup {Removed(s, n) : n \in ix}

Spec == Init /\ [][Next]_index

=============================================================================
