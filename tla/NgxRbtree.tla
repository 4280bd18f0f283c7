------------------------------ MODULE NgxRbtree ------------------------------
(***************************************************************************)
(* The nginx red-black tree, src/core/ngx_rbtree.c, at the level of its    *)
(* links: every node (and the shared sentinel) has left, right, parent,    *)
(* color and key fields, and the tree has a root pointer, exactly the      *)
(* fields the C code reads and writes.  Nodes are caller-owned; the tree    *)
(* never allocates.                                                        *)
(*                                                                         *)
(* ngx_rbtree_insert and ngx_rbtree_delete are modelled as a first step    *)
(* (the binary-tree insert or splice) followed by one step per iteration   *)
(* of their re-balancing while-loops, in the order the code runs them.     *)
(* While pc # "idle" no other operation can start: the tree is             *)
(* unsynchronized and every call runs to completion on its caller's        *)
(* thread.                                                                 *)
(***************************************************************************)
EXTENDS Integers, Sequences, FiniteSets

CONSTANTS
  Nodes,          \* the caller-owned ngx_rbtree_node_t records
  Sentinel,       \* tree->sentinel, the shared black leaf
  NULL,           \* the C null pointer
  Keys,           \* key values callers store in node->key
  NodeKeys,       \* NodeKeys[n]: the keys a caller may give node n
  KeyBits,        \* width of ngx_rbtree_key_t, for the timer comparator
  InsertStrategy  \* tree->insert: "value" or "timer"

ASSUME Sentinel \notin Nodes /\ NULL \notin Nodes \cup {Sentinel}
ASSUME KeyBits \in Nat \ {0} /\ Keys \subseteq 0 .. (2^KeyBits - 1)
ASSUME InsertStrategy \in {"value", "timer"}
ASSUME NodeKeys \in [Nodes -> SUBSET Keys]

VARIABLES
  tree,      \* [root, left, right, parent, color, key] of all nodes
  pc,        \* "idle", "insert_fixup" or "delete_fixup"
  cur,       \* node (insert) or temp (delete) of the fixup loop
  inserted   \* the caller's record of which nodes it has inserted

vars == <<tree, pc, cur, inserted>>

Slots == Nodes \cup {Sentinel}
Ptr   == Slots \cup {NULL}

-----------------------------------------------------------------------------
(* Comparators: ngx_rbtree_insert_value orders by node->key < temp->key;   *)
(* ngx_rbtree_insert_timer_value by (ngx_rbtree_key_int_t)(a - b) < 0, the *)
(* difference taken modulo 2^KeyBits and read as a signed integer.         *)
SignedDiff(a, b) ==
  LET d == (a - b) % (2^KeyBits)
  IN  IF d >= 2^(KeyBits - 1) THEN d - 2^KeyBits ELSE d

Less(a, b) ==
  IF InsertStrategy = "value" THEN a < b ELSE SignedDiff(a, b) < 0

-----------------------------------------------------------------------------
(* Field access by direction d \in {"left", "right"}.                      *)
Other(d) == IF d = "left" THEN "right" ELSE "left"

Kid(s, d, n) == IF d = "left" THEN s.left[n] ELSE s.right[n]

SetKid(s, d, n, v) ==
  IF d = "left" THEN [s EXCEPT !.left[n] = v] ELSE [s EXCEPT !.right[n] = v]

SetParent(s, n, v) == [s EXCEPT !.parent[n] = v]
Paint(s, n, c)     == [s EXCEPT !.color[n] = c]
IsRed(s, n)        == s.color[n] = "red"

(* Which child of its parent n is, as the code tests it.                   *)
SideOf(s, n) == IF n = s.left[s.parent[n]] THEN "left" ELSE "right"

(* Mutation: a left rotation that forgets node->right = temp->left.      *)
LeftRotateNoLink(s, node) ==
  LET temp == s.right[node]
      s3 == SetParent(s, temp, s.parent[node])
      s4 == IF node = s3.root THEN [s3 EXCEPT !.root = temp]
            ELSE IF node = s3.left[s3.parent[node]]
              THEN [s3 EXCEPT !.left[s3.parent[node]] = temp]
            ELSE [s3 EXCEPT !.right[s3.parent[node]] = temp]
  IN  SetParent([s4 EXCEPT !.left[temp] = node], node, temp)

(* Mutation: a left rotation that does not re-parent temp->left.          *)
LeftRotateStaleParent(s, node) ==
  LET temp == s.right[node]
      s1 == [s EXCEPT !.right[node] = s.left[temp]]
      s3 == SetParent(s1, temp, s1.parent[node])
      s4 == IF node = s3.root THEN [s3 EXCEPT !.root = temp]
            ELSE IF node = s3.left[s3.parent[node]]
              THEN [s3 EXCEPT !.left[s3.parent[node]] = temp]
            ELSE [s3 EXCEPT !.right[s3.parent[node]] = temp]
  IN  SetParent([s4 EXCEPT !.left[temp] = node], node, temp)

(* ngx_rbtree_left_rotate.                                                 *)
LeftRotate(s, node) ==
  LET temp == s.right[node]
      s1 == [s EXCEPT !.right[node] = s.left[temp]]
      s2 == IF s.left[temp] # Sentinel
              THEN SetParent(s1, s.left[temp], node) ELSE s1
      s3 == SetParent(s2, temp, s2.parent[node])
      s4 == IF node = s3.root THEN [s3 EXCEPT !.root = temp]
            ELSE IF node = s3.left[s3.parent[node]]
              THEN [s3 EXCEPT !.left[s3.parent[node]] = temp]
            ELSE [s3 EXCEPT !.right[s3.parent[node]] = temp]
  IN  SetParent([s4 EXCEPT !.left[temp] = node], node, temp)

(* Mutation: a right rotation that does not re-parent temp->right.        *)
RightRotateStaleParent(s, node) ==
  LET temp == s.left[node]
      s1 == [s EXCEPT !.left[node] = s.right[temp]]
      s3 == SetParent(s1, temp, s1.parent[node])
      s4 == IF node = s3.root THEN [s3 EXCEPT !.root = temp]
            ELSE IF node = s3.right[s3.parent[node]]
              THEN [s3 EXCEPT !.right[s3.parent[node]] = temp]
            ELSE [s3 EXCEPT !.left[s3.parent[node]] = temp]
  IN  SetParent([s4 EXCEPT !.right[temp] = node], node, temp)

(* ngx_rbtree_right_rotate.                                                *)
RightRotate(s, node) ==
  LET temp == s.left[node]
      s1 == [s EXCEPT !.left[node] = s.right[temp]]
      s2 == IF s.right[temp] # Sentinel
              THEN SetParent(s1, s.right[temp], node) ELSE s1
      s3 == SetParent(s2, temp, s2.parent[node])
      s4 == IF node = s3.root THEN [s3 EXCEPT !.root = temp]
            ELSE IF node = s3.right[s3.parent[node]]
              THEN [s3 EXCEPT !.right[s3.parent[node]] = temp]
            ELSE [s3 EXCEPT !.left[s3.parent[node]] = temp]
  IN  SetParent([s4 EXCEPT !.right[temp] = node], node, temp)

(* A rotation that lifts the child opposite to d: "left" is a left        *)
(* rotation, which moves node down to the left.                            *)
Rotate(s, d, n) == IF d = "left" THEN LeftRotate(s, n) ELSE RightRotate(s, n)

(* ngx_rbtree_min: follow left links to the sentinel.                      *)
RECURSIVE TreeMin(_, _)
TreeMin(s, n) == IF s.left[n] = Sentinel THEN n ELSE TreeMin(s, s.left[n])

(* ngx_rbtree_next: the in-order successor of node, or NULL.               *)
RECURSIVE Climb(_, _)
Climb(s, n) ==
  IF n = s.root THEN NULL
  ELSE IF n = s.left[s.parent[n]] THEN s.parent[n]
  ELSE Climb(s, s.parent[n])

TreeNext(s, n) ==
  IF s.right[n] # Sentinel THEN TreeMin(s, s.right[n]) ELSE Climb(s, n)

(* Mutation: a timer tree given ngx_rbtree_insert_value, which compares   *)
(* keys as unsigned integers.                                              *)
RECURSIVE InsertPointPlain(_, _, _)
InsertPointPlain(s, node, temp) ==
  LET d == IF s.key[node] < s.key[temp] THEN "left" ELSE "right"
  IN  IF Kid(s, d, temp) = Sentinel THEN <<temp, d>>
      ELSE InsertPointPlain(s, node, Kid(s, d, temp))

(* The descent of ngx_rbtree_insert_value / _timer_value: the node under   *)
(* which the new node is linked, and on which side.                        *)
RECURSIVE InsertPoint(_, _, _)
InsertPoint(s, node, temp) ==
  LET d == IF Less(s.key[node], s.key[temp]) THEN "left" ELSE "right"
  IN  IF Kid(s, d, temp) = Sentinel THEN <<temp, d>>
      ELSE InsertPoint(s, node, Kid(s, d, temp))

(* tree->insert(root, node, sentinel):  link node as a red leaf.           *)
InsertValue(s, node) ==
  LET at == InsertPoint(s, node, s.root)
      s1 == SetKid(s, at[2], at[1], node)
  IN  [s1 EXCEPT !.parent[node] = at[1], !.left[node] = Sentinel,
                 !.right[node] = Sentinel, !.color[node] = "red"]

-----------------------------------------------------------------------------
Init ==
  /\ tree = [root   |-> Sentinel,
             left   |-> [n \in Slots |-> NULL],
             right  |-> [n \in Slots |-> NULL],
             parent |-> [n \in Slots |-> NULL],
             color  |-> [n \in Slots |-> "black"],
             key    |-> [n \in Slots |-> 0]]
  /\ pc = "idle"
  /\ cur = NULL
  /\ inserted = {}

(* ngx_rbtree_insert into an empty tree: node becomes the black root.      *)
InsertRoot(node, k) ==
  /\ pc = "idle" /\ node \notin inserted
  /\ tree.root = Sentinel
  /\ tree' = [tree EXCEPT !.key[node] = k, !.parent[node] = NULL,
                 !.left[node] = Sentinel, !.right[node] = Sentinel,
                 !.color[node] = "black", !.root = node]
  /\ inserted' = inserted \cup {node}
  /\ UNCHANGED <<pc, cur>>

(* ngx_rbtree_insert into a non-empty tree: the caller sets node->key,     *)
(* tree->insert links node as a red leaf, and re-balancing starts at node. *)
Insert(node, k) ==
  /\ pc = "idle" /\ node \notin inserted
  /\ tree.root # Sentinel
  /\ tree' = InsertValue([tree EXCEPT !.key[node] = k], node)
  /\ pc' = "insert_fixup" /\ cur' = node
  /\ inserted' = inserted \cup {node}

(* Mutation: the red-uncle case forgets to redden the grandparent.        *)
InsertFixupRecolorNoRed ==
  LET p == tree.parent[cur]
      g == tree.parent[p]
      uncle == Kid(tree, Other(SideOf(tree, p)), g)
  IN  /\ pc = "insert_fixup"
      /\ cur # tree.root /\ IsRed(tree, p)
      /\ IsRed(tree, uncle)
      /\ tree' = Paint(Paint(tree, p, "black"), uncle, "black")
      /\ cur' = g
      /\ UNCHANGED <<pc, inserted>>

(* One iteration of the insert while-loop with a red uncle: recolor and    *)
(* continue from the grandparent.                                          *)
InsertFixupRecolor ==
  LET p == tree.parent[cur]
      g == tree.parent[p]
      uncle == Kid(tree, Other(SideOf(tree, p)), g)
  IN  /\ pc = "insert_fixup"
      /\ cur # tree.root /\ IsRed(tree, p)
      /\ IsRed(tree, uncle)
      /\ tree' = Paint(Paint(Paint(tree, p, "black"), uncle, "black"), g, "red")
      /\ cur' = g
      /\ UNCHANGED <<pc, inserted>>

(* One iteration with a black uncle: an inner grandchild is first rotated  *)
(* to the outside, then the parent is blackened, the grandparent reddened  *)
(* and rotated the other way.                                              *)
InsertFixupRotate ==
  LET d  == SideOf(tree, tree.parent[cur])
      uncle == Kid(tree, Other(d), tree.parent[tree.parent[cur]])
      inner == cur = Kid(tree, Other(d), tree.parent[cur])
      n1 == IF inner THEN tree.parent[cur] ELSE cur
      s1 == IF inner THEN Rotate(tree, d, n1) ELSE tree
      s2 == Paint(Paint(s1, s1.parent[n1], "black"),
                  s1.parent[s1.parent[n1]], "red")
  IN  /\ pc = "insert_fixup"
      /\ cur # tree.root /\ IsRed(tree, tree.parent[cur])
      /\ ~IsRed(tree, uncle)
      /\ tree' = Rotate(s2, Other(d), s2.parent[s2.parent[n1]])
      /\ cur' = n1
      /\ UNCHANGED <<pc, inserted>>

(* Loop exit: ngx_rbt_black(root).                                         *)
InsertFixupDone ==
  /\ pc = "insert_fixup"
  /\ ~(cur # tree.root /\ IsRed(tree, tree.parent[cur]))
  /\ tree' = Paint(tree, tree.root, "black")
  /\ pc' = "idle" /\ cur' = NULL
  /\ UNCHANGED inserted
(* The node ngx_rbtree_delete splices out ("subst") and the node that      *)
(* takes its place ("temp").                                               *)
Subst(s, node) ==
  IF s.left[node] = Sentinel \/ s.right[node] = Sentinel THEN node
  ELSE TreeMin(s, s.right[node])

Temp(s, node) ==
  LET subst == Subst(s, node)
  IN  IF s.left[node] = Sentinel THEN s.right[node]
      ELSE IF s.right[node] = Sentinel THEN s.left[node]
      ELSE IF s.left[subst] # Sentinel THEN s.left[subst]
      ELSE s.right[subst]

(* The "DEBUG stuff" that clears the deleted node.                         *)
Clear(s, node) ==
  [s EXCEPT !.left[node] = NULL, !.right[node] = NULL,
            !.parent[node] = NULL, !.key[node] = 0]

(* The splice of a non-root subst: temp replaces subst under subst's       *)
(* parent and, when subst # node, subst takes node's place, links and      *)
(* color.  Every statement reads the fields as the previous one left them. *)
Splice(s, node) ==
  LET subst == Subst(s, node)
      temp  == Temp(s, node)
      s1 == SetKid(s, SideOf(s, subst), s.parent[subst], temp)
      s2 == IF subst = node THEN SetParent(s1, temp, s1.parent[subst])
            ELSE IF s1.parent[subst] = node THEN SetParent(s1, temp, subst)
            ELSE SetParent(s1, temp, s1.parent[subst])
      s3 == [s2 EXCEPT !.left[subst] = s2.left[node],
                       !.right[subst] = s2.right[node],
                       !.parent[subst] = s2.parent[node],
                       !.color[subst] = s2.color[node]]
      s4 == IF node = s3.root THEN [s3 EXCEPT !.root = subst]
            ELSE SetKid(s3, SideOf(s3, node), s3.parent[node], subst)
      s5 == IF s4.left[subst] # Sentinel
              THEN SetParent(s4, s4.left[subst], subst) ELSE s4
      s6 == IF s5.right[subst] # Sentinel
              THEN SetParent(s5, s5.right[subst], subst) ELSE s5
  IN  Clear(IF subst = node THEN s2 ELSE s6, node)

(* ngx_rbtree_delete when subst is the root (node is the root and has at   *)
(* most one child): temp becomes the black root and the call returns.      *)
(* temp->parent is left pointing at the deleted node.                      *)
DeleteRoot(node) ==
  LET temp == Temp(tree, node)
  IN  /\ pc = "idle" /\ node \in inserted
      /\ Subst(tree, node) = tree.root
      /\ tree' = Clear(Paint([tree EXCEPT !.root = temp], temp, "black"), node)
      /\ inserted' = inserted \ {node}
      /\ UNCHANGED <<pc, cur>>

(* ngx_rbtree_delete otherwise: splice, then re-balance from temp when the *)
(* spliced-out node was black.                                             *)
Delete(node) ==
  LET subst == Subst(tree, node)
  IN  /\ pc = "idle" /\ node \in inserted
      /\ subst # tree.root
      /\ tree' = Splice(tree, node)
      /\ IF IsRed(tree, subst)
           THEN UNCHANGED <<pc, cur>>
           ELSE pc' = "delete_fixup" /\ cur' = Temp(tree, node)
      /\ inserted' = inserted \ {node}

(* The delete-fixup loop runs while temp is a black non-root node; w is    *)
(* temp's sibling.                                                         *)
DeleteLoops == pc = "delete_fixup" /\ cur # tree.root /\ ~IsRed(tree, cur)

Sibling(s, n) == Kid(s, Other(SideOf(s, n)), s.parent[n])

(* Mutation: the red-sibling case forgets to redden the parent.          *)
DeleteFixupRedSiblingNoRed ==
  LET d == SideOf(tree, cur)
      w == Sibling(tree, cur)
  IN  /\ DeleteLoops
      /\ IsRed(tree, w)
      /\ tree' = Rotate(Paint(tree, w, "black"), d, tree.parent[cur])
      /\ UNCHANGED <<pc, cur, inserted>>

(* Red sibling: blacken w, redden the parent and rotate towards temp; the  *)
(* loop test still holds afterwards, so the iteration goes on in one of    *)
(* the black-sibling cases below.                                          *)
DeleteFixupRedSibling ==
  LET d == SideOf(tree, cur)
      w == Sibling(tree, cur)
  IN  /\ DeleteLoops
      /\ IsRed(tree, w)
      /\ tree' = Rotate(Paint(Paint(tree, w, "black"), tree.parent[cur], "red"),
                        d, tree.parent[cur])
      /\ UNCHANGED <<pc, cur, inserted>>

(* Black sibling with two black children: redden w, move up.               *)
DeleteFixupPushUp ==
  LET w == Sibling(tree, cur)
  IN  /\ DeleteLoops
      /\ ~IsRed(tree, w)
      /\ ~IsRed(tree, tree.left[w]) /\ ~IsRed(tree, tree.right[w])
      /\ tree' = Paint(tree, w, "red")
      /\ cur' = tree.parent[cur]
      /\ UNCHANGED <<pc, inserted>>

(* Black sibling with a red child: a red near child is first rotated to    *)
(* the far side, then the terminal rotation at the parent; temp = *root.   *)
DeleteFixupRotate ==
  LET d  == SideOf(tree, cur)
      w  == Sibling(tree, cur)
      nearOnly == ~IsRed(tree, Kid(tree, Other(d), w))
      s1 == IF nearOnly
              THEN Rotate(Paint(Paint(tree, Kid(tree, d, w), "black"), w, "red"),
                          Other(d), w)
              ELSE tree
      w1 == Sibling(s1, cur)
      p  == s1.parent[cur]
      s2 == Paint(Paint([s1 EXCEPT !.color[w1] = s1.color[p]], p, "black"),
                  Kid(s1, Other(d), w1), "black")
      s3 == Rotate(s2, d, p)
  IN  /\ DeleteLoops
      /\ ~IsRed(tree, w)
      /\ IsRed(tree, tree.left[w]) \/ IsRed(tree, tree.right[w])
      /\ tree' = s3
      /\ cur' = s3.root
      /\ UNCHANGED <<pc, inserted>>

(* Loop exit: ngx_rbt_black(temp).                                         *)
DeleteFixupDone ==
  /\ pc = "delete_fixup"
  /\ ~DeleteLoops
  /\ tree' = Paint(tree, cur, "black")
  /\ pc' = "idle" /\ cur' = NULL
  /\ UNCHANGED inserted

Next ==
  \/ \E n \in Nodes : \E k \in NodeKeys[n] : InsertRoot(n, k) \/ Insert(n, k)
  \/ InsertFixupRecolor \/ InsertFixupRotate \/ InsertFixupDone
  \/ \E n \in Nodes : DeleteRoot(n) \/ Delete(n)
  \/ DeleteFixupRedSibling \/ DeleteFixupPushUp \/ DeleteFixupRotate
  \/ DeleteFixupDone

Spec == Init /\ [][Next]_vars

-----------------------------------------------------------------------------
(* Views of the tree for the properties.  The walks carry fuel so that a   *)
(* corrupted (cyclic) link structure still evaluates.                      *)
Fuel == Cardinality(Nodes) + 1

(* The in-order sequence of nodes, following child links only.             *)
RECURSIVE InOrder(_, _, _)
InOrder(s, n, fuel) ==
  IF n \notin Nodes \/ fuel = 0 THEN <<>>
  ELSE InOrder(s, s.left[n], fuel - 1) \o <<n>> \o InOrder(s, s.right[n], fuel - 1)

Members == InOrder(tree, tree.root, Fuel)

(* The nodes ngx_event_no_timers_left visits: ngx_rbtree_min of the root,  *)
(* then ngx_rbtree_next until NULL; this walk also follows parent links.   *)
RECURSIVE NextWalk(_, _, _)
NextWalk(s, n, fuel) ==
  IF n \notin Nodes \/ fuel = 0 THEN <<>>
  ELSE <<n>> \o NextWalk(s, TreeNext(s, n), fuel - 1)

Iteration == IF tree.root = Sentinel THEN <<>>
             ELSE NextWalk(tree, TreeMin(tree, tree.root), Fuel)

(* Number of black nodes from n down to a sentinel along left spines, and  *)
(* whether every path below n has that many.                               *)
RECURSIVE BlackHeight(_, _, _)
BlackHeight(s, n, fuel) ==
  IF n \notin Nodes \/ fuel = 0 THEN 1
  ELSE BlackHeight(s, s.left[n], fuel - 1) + (IF IsRed(s, n) THEN 0 ELSE 1)

Balanced(s, n) ==
  BlackHeight(s, s.left[n], Fuel) = BlackHeight(s, s.right[n], Fuel)

-----------------------------------------------------------------------------
TypeOK ==
  /\ tree.root \in Slots
  /\ tree.left \in [Slots -> Ptr] /\ tree.right \in [Slots -> Ptr]
  /\ tree.parent \in [Slots -> Ptr]
  /\ tree.color \in [Slots -> {"red", "black"}]
  /\ tree.key \in [Slots -> Keys \cup {0}]
  /\ pc \in {"idle", "insert_fixup", "delete_fixup"}
  /\ cur \in Ptr
  /\ inserted \subseteq Nodes

(* Between calls, the child links from the root reach exactly the nodes    *)
(* the callers have inserted and not deleted, each once, and every leaf    *)
(* link is the shared sentinel.  A lost or duplicated subtree after a      *)
(* rotation or a two-child splice breaks it.                               *)
LinksConsistent ==
  pc = "idle" =>
    /\ Len(Members) = Cardinality(inserted)
    /\ {Members[i] : i \in 1 .. Len(Members)} = inserted
    /\ \A n \in inserted : {tree.left[n], tree.right[n]} \subseteq inserted \cup {Sentinel}

(* Between calls the red-black rules hold: the root and the sentinel are   *)
(* black, no red node has a red child, and every node has equal black      *)
(* heights on both sides.  The re-balancing loops of insert and delete     *)
(* must restore them after every sequence of calls.                        *)
RedBlack ==
  pc = "idle" =>
    /\ ~IsRed(tree, tree.root) /\ ~IsRed(tree, Sentinel)
    /\ \A n \in inserted :
         /\ IsRed(tree, n) => ~IsRed(tree, tree.left[n]) /\ ~IsRed(tree, tree.right[n])
         /\ Balanced(tree, n)

(* Between calls, iterating with ngx_rbtree_min and ngx_rbtree_next (which *)
(* climb parent links) visits the same nodes in the same order as the     *)
(* child links; a parent pointer left stale by a rotation or by the splice *)
(* (including the sentinel's, which the delete fixup reads) breaks it.     *)
SuccessorWalk == pc = "idle" => Iteration = Members

-----------------------------------------------------------------------------
(* The tree refines the ordered index of NgxRbtreeOrder: its in-order      *)
(* sequence, with each node's key, is the sequence in which equal keys     *)
(* keep their insertion order.                                             *)
Abstract == INSTANCE NgxRbtreeOrder WITH
              index <- LET m == Members
                       IN  [i \in 1 .. Len(m) |-> <<m[i], tree.key[m[i]]>>]

OrderRefinement == Abstract!Spec

=============================================================================
