---------------------------- MODULE NgxRadixTree ----------------------------
(***************************************************************************)
(* The radix tree of src/core/ngx_radix_tree.c, narrowed to a key of       *)
(* KeyWidth bits.  A tree is used either through the ngx_radix32tree_*     *)
(* functions (api "32", the key a uint32_t) or through the                 *)
(* ngx_radix128tree_* ones (api "128", the key and mask arrays of NBytes   *)
(* bytes of ByteBits bits, as in6_addr.s6_addr).  Nodes are slots 1 .. MaxPages * PageNodes of the     *)
(* pool; left, right, parent and value are the fields of ngx_radix_node_t, *)
(* free, start and size those of ngx_radix_tree_t (start as the index of   *)
(* the next unused slot, size counted in nodes).  The pool grants at most  *)
(* MaxPages pages; ngx_pmemalign fails after that.                         *)
(*                                                                         *)
(* Every call of the API runs to completion in one step: the tree is       *)
(* unsynchronized and its callers call it from one thread.  ret is the     *)
(* value the last call returned; "SEGV" is a NULL dereference.             *)
(***************************************************************************)
EXTENDS Integers, Sequences, FiniteSets

CONSTANTS
  KeyWidth,     \* bits of a key (32 in the code)
  PageNodes,    \* ngx_pagesize / sizeof(ngx_radix_node_t)
  MaxPages,     \* pages the pool can give before ngx_pmemalign fails
  Prealloc,     \* the preallocate argument of ngx_radix_tree_create
  Values,       \* values callers store
  NoValue,      \* NGX_RADIX_NO_VALUE
  NULL,
  InsertMasks,  \* masks callers insert with
  DeleteMasks,  \* masks callers delete with
  Keys,         \* keys callers pass
  ByteBits,     \* bits of a key byte of the 128-bit functions (8 in the code)
  Variants      \* the function families a tree may be used with

ASSUME KeyWidth \in Nat \ {0} /\ PageNodes \in Nat \ {0} /\ MaxPages \in Nat
ASSUME Prealloc \in 0 .. KeyWidth
ASSUME NoValue \notin Values
ASSUME ByteBits \in Nat \ {0} /\ KeyWidth % ByteBits = 0
ASSUME Variants \subseteq {"32", "128"}
ASSUME InsertMasks \cup DeleteMasks \cup Keys \subseteq 0 .. 2^KeyWidth - 1

VARIABLES
  t,       \* the tree: node fields and the allocator's state
  phase,   \* "none" before ngx_radix_tree_create, then "ready" or "failed"
  ret,     \* what the last call returned
  api      \* the function family the tree is used with

vars == <<t, phase, ret, api>>

Slots   == 1 .. MaxPages * PageNodes
Link    == Slots \cup {NULL}
TopBit  == 2^(KeyWidth - 1)
NBytes  == KeyWidth \div ByteBits

(* key & bit, for bit a power of two or 0.                                 *)
Test(x, bit) == bit > 0 /\ (x \div bit) % 2 = 1

Child(s, n, key, bit) == IF Test(key, bit) THEN s.right[n] ELSE s.left[n]

(* Mutation: the page test never sees an exhausted page.                  *)
AllocNoNewPage(s) ==
  IF s.free # NULL
    THEN [s |-> [s EXCEPT !.free = s.right[s.free]], p |-> s.free]
  ELSE IF s.size < 0 /\ s.pages = MaxPages
    THEN [s |-> [s EXCEPT !.start = NULL], p |-> NULL]
  ELSE LET s1 == IF s.size < 0 \/ s.pages = 0
                   THEN [s EXCEPT !.start = s.pages * PageNodes + 1,
                                  !.size = PageNodes, !.pages = s.pages + 1]
                   ELSE s
       IN  [s |-> [s1 EXCEPT !.start = s1.start + 1, !.size = s1.size - 1],
            p |-> s1.start]

(* Mutation: a free-list allocation that does not advance the list head.  *)
AllocKeepFree(s) ==
  IF s.free # NULL
    THEN [s |-> s, p |-> s.free]
  ELSE IF s.size < 1 /\ s.pages = MaxPages
    THEN [s |-> [s EXCEPT !.start = NULL], p |-> NULL]
  ELSE LET s1 == IF s.size < 1
                   THEN [s EXCEPT !.start = s.pages * PageNodes + 1,
                                  !.size = PageNodes, !.pages = s.pages + 1]
                   ELSE s
       IN  [s |-> [s1 EXCEPT !.start = s1.start + 1, !.size = s1.size - 1],
            p |-> s1.start]

(* ngx_radix_alloc: the head of the free list (linked through right), else *)
(* the next node of the current page, taking a new page when none is left. *)
(* Returns the new state and the node, NULL when ngx_pmemalign fails, which *)
(* also leaves tree->start NULL.                                           *)
Alloc(s) ==
  IF s.free # NULL
    THEN [s |-> [s EXCEPT !.free = s.right[s.free]], p |-> s.free]
  ELSE IF s.size < 1 /\ s.pages = MaxPages
    THEN [s |-> [s EXCEPT !.start = NULL], p |-> NULL]
  ELSE LET s1 == IF s.size < 1
                   THEN [s EXCEPT !.start = s.pages * PageNodes + 1,
                                  !.size = PageNodes, !.pages = s.pages + 1]
                   ELSE s
       IN  [s |-> [s1 EXCEPT !.start = s1.start + 1, !.size = s1.size - 1],
            p |-> s1.start]

(* The first loop of ngx_radix32tree_insert: descend while the mask bit is *)
(* set and the child exists.                                               *)
RECURSIVE Descend(_, _, _, _, _, _)
Descend(s, node, next, bit, key, mask) ==
  IF ~Test(mask, bit) THEN [node |-> node, next |-> next, bit |-> bit]
  ELSE LET nx == Child(s, node, key, bit)
       IN  IF nx = NULL THEN [node |-> node, next |-> NULL, bit |-> bit]
           ELSE Descend(s, nx, nx, bit \div 2, key, mask)

(* Mutation: new nodes keep the parent they had on the free list.        *)
RECURSIVE ExtendNoParent(_, _, _, _, _, _)
ExtendNoParent(s, node, bit, key, mask, value) ==
  IF ~Test(mask, bit)
    THEN [s |-> [s EXCEPT !.value[node] = value], r |-> "OK"]
  ELSE LET a  == Alloc(s)
           n  == a.p
           s1 == [a.s EXCEPT !.right[n] = NULL, !.left[n] = NULL,
                             !.value[n] = NoValue]
           s2 == IF Test(key, bit) THEN [s1 EXCEPT !.right[node] = n]
                 ELSE [s1 EXCEPT !.left[node] = n]
       IN  IF n = NULL THEN [s |-> a.s, r |-> "ERROR"]
           ELSE ExtendNoParent(s2, n, bit \div 2, key, mask, value)

(* The second loop: allocate and link the missing nodes, then store the    *)
(* value; NGX_ERROR leaves the nodes already linked in the tree.           *)
RECURSIVE Extend(_, _, _, _, _, _)
Extend(s, node, bit, key, mask, value) ==
  IF ~Test(mask, bit)
    THEN [s |-> [s EXCEPT !.value[node] = value], r |-> "OK"]
  ELSE LET a  == Alloc(s)
           n  == a.p
           s1 == [a.s EXCEPT !.right[n] = NULL, !.left[n] = NULL,
                             !.parent[n] = node, !.value[n] = NoValue]
           s2 == IF Test(key, bit) THEN [s1 EXCEPT !.right[node] = n]
                 ELSE [s1 EXCEPT !.left[node] = n]
       IN  IF n = NULL THEN [s |-> a.s, r |-> "ERROR"]
           ELSE Extend(s2, n, bit \div 2, key, mask, value)

(* Mutation: an insert that overwrites a stored value.                    *)
InsertOpOverwrite(s, key, mask, value) ==
  LET d == Descend(s, s.root, s.root, TopBit, key, mask)
  IN  IF d.next # NULL
        THEN [s |-> [s EXCEPT !.value[d.node] = value], r |-> "OK"]
      ELSE Extend(s, d.node, d.bit, key, mask, value)

(* ngx_radix32tree_insert.                                                 *)
InsertOp(s, key, mask, value) ==
  LET d == Descend(s, s.root, s.root, TopBit, key, mask)
  IN  IF d.next # NULL
        THEN IF s.value[d.node] # NoValue THEN [s |-> s, r |-> "BUSY"]
             ELSE [s |-> [s EXCEPT !.value[d.node] = value], r |-> "OK"]
      ELSE Extend(s, d.node, d.bit, key, mask, value)

(* The preallocation loops of ngx_radix_tree_create: for each of levels    *)
(* levels, every key of the level with NGX_RADIX_NO_VALUE; key += inc      *)
(* wraps at the key width, which ends the do-while.                        *)
(* Mutation: the loop tests for the wrap one key ahead and stops before    *)
(* the last key of the level.                                              *)
RECURSIVE PreallocKeysEarly(_, _, _, _)
PreallocKeysEarly(s, key, mask, inc) ==
  LET a    == InsertOp(s, key, mask, NoValue)
      next == (key + inc) % 2^KeyWidth
  IN  IF a.r # "OK" THEN a
      ELSE IF (next + inc) % 2^KeyWidth = 0 THEN a
      ELSE PreallocKeysEarly(a.s, next, mask, inc)

RECURSIVE PreallocKeys(_, _, _, _)
PreallocKeys(s, key, mask, inc) ==
  LET a    == InsertOp(s, key, mask, NoValue)
      next == (key + inc) % 2^KeyWidth
  IN  IF a.r # "OK" THEN a
      ELSE IF next = 0 THEN a ELSE PreallocKeys(a.s, next, mask, inc)

RECURSIVE PreallocLevels(_, _, _, _)
PreallocLevels(s, levels, mask, inc) ==
  IF levels = 0 THEN [s |-> s, r |-> "OK"]
  ELSE LET m == mask \div 2 + TopBit
           a == PreallocKeys(s, 0, m, inc)
       IN  IF a.r # "OK" THEN a
           ELSE PreallocLevels(a.s, levels - 1, m, inc \div 2)

-----------------------------------------------------------------------------
Init ==
  /\ t = [left   |-> [n \in Slots |-> NULL], right |-> [n \in Slots |-> NULL],
          parent |-> [n \in Slots |-> NULL], value |-> [n \in Slots |-> NoValue],
          root |-> NULL, free |-> NULL, start |-> NULL, size |-> 0, pages |-> 0]
  /\ phase = "none"
  /\ ret = "none"
  /\ api \in Variants

(* ngx_radix_tree_create(pool, Prealloc): the root, then the preallocated  *)
(* levels; NULL (phase "failed") when an allocation fails.                 *)
Create ==
  LET a  == Alloc(t)
      s1 == [a.s EXCEPT !.root = a.p, !.right[a.p] = NULL, !.left[a.p] = NULL,
                        !.parent[a.p] = NULL, !.value[a.p] = NoValue]
      b  == PreallocLevels(s1, Prealloc, 0, TopBit)
  IN  /\ phase = "none"
      /\ IF a.p = NULL THEN t' = a.s /\ phase' = "failed"
         ELSE t' = b.s /\ phase' = IF b.r = "OK" THEN "ready" ELSE "failed"
      /\ UNCHANGED <<ret, api>>

Insert(key, mask, value) ==
  LET a == InsertOp(t, key, mask, value)
  IN  /\ phase = "ready" /\ ret # "SEGV" /\ api = "32"
      /\ t' = a.s /\ ret' = a.r
      /\ UNCHANGED <<phase, api>>

(* The walk of ngx_radix32tree_delete: follow the key while the mask bit   *)
(* is set, stopping at NULL.                                               *)
RECURSIVE Locate(_, _, _, _, _)
Locate(s, node, bit, key, mask) ==
  IF node # NULL /\ Test(mask, bit)
    THEN Locate(s, Child(s, node, key, bit), bit \div 2, key, mask)
  ELSE node

(* Mutation: unlinked nodes are not pushed on the free list.              *)
RECURSIVE PruneNoFree(_, _)
PruneNoFree(s, node) ==
  LET p  == s.parent[node]
      s2 == IF s.right[p] = node THEN [s EXCEPT !.right[p] = NULL]
            ELSE [s EXCEPT !.left[p] = NULL]
  IN  IF p = NULL THEN [s |-> s, r |-> "SEGV"]
      ELSE IF s2.right[p] # NULL \/ s2.left[p] # NULL
              \/ s2.value[p] # NoValue \/ s2.parent[p] = NULL
        THEN [s |-> s2, r |-> "OK"]
      ELSE PruneNoFree(s2, p)

(* Mutation: the loop stops after freeing the leaf.                       *)
PruneOnce(s, node) ==
  LET p  == s.parent[node]
      s1 == IF s.right[p] = node THEN [s EXCEPT !.right[p] = NULL]
            ELSE [s EXCEPT !.left[p] = NULL]
      s2 == [s1 EXCEPT !.right[node] = s1.free, !.free = node]
  IN  IF p = NULL THEN [s |-> s, r |-> "SEGV"] ELSE [s |-> s2, r |-> "OK"]

(* Mutation: the leaf is always unlinked as a left child.                 *)
RECURSIVE PruneLeftOnly(_, _)
PruneLeftOnly(s, node) ==
  LET p  == s.parent[node]
      s1 == [s EXCEPT !.left[p] = NULL]
      s2 == [s1 EXCEPT !.right[node] = s1.free, !.free = node]
  IN  IF p = NULL THEN [s |-> s, r |-> "SEGV"]
      ELSE IF s2.right[p] # NULL \/ s2.left[p] # NULL
              \/ s2.value[p] # NoValue \/ s2.parent[p] = NULL
        THEN [s |-> s2, r |-> "OK"]
      ELSE PruneLeftOnly(s2, p)

(* The for-loop of ngx_radix32tree_delete on a leaf: unlink it from its    *)
(* parent, push it on the free list, and go on with the parent while it is *)
(* a valueless leaf that has a parent.  node->parent is read before any    *)
(* test, so a leaf root is a NULL dereference.                             *)
RECURSIVE Prune(_, _)
Prune(s, node) ==
  LET p  == s.parent[node]
      s1 == IF s.right[p] = node THEN [s EXCEPT !.right[p] = NULL]
            ELSE [s EXCEPT !.left[p] = NULL]
      s2 == [s1 EXCEPT !.right[node] = s1.free, !.free = node]
  IN  IF p = NULL THEN [s |-> s, r |-> "SEGV"]
      ELSE IF s2.right[p] # NULL \/ s2.left[p] # NULL
              \/ s2.value[p] # NoValue \/ s2.parent[p] = NULL
        THEN [s |-> s2, r |-> "OK"]
      ELSE Prune(s2, p)

(* What delete does with the node its walk found: not found, clear the     *)
(* value of an inner node, or unlink and prune a leaf.                     *)
DeleteAt(s, node) ==
  IF node = NULL THEN [s |-> s, r |-> "ERROR"]
  ELSE IF s.right[node] # NULL \/ s.left[node] # NULL
    THEN IF s.value[node] # NoValue
           THEN [s |-> [s EXCEPT !.value[node] = NoValue], r |-> "OK"]
         ELSE [s |-> s, r |-> "ERROR"]
  ELSE Prune(s, node)

(* ngx_radix32tree_delete.                                                 *)
DeleteOp(s, key, mask) == DeleteAt(s, Locate(s, s.root, TopBit, key, mask))

(* Mutation: find copies node->value without testing for NO_VALUE.       *)
RECURSIVE FindFromNoTest(_, _, _, _, _)
FindFromNoTest(s, node, bit, key, value) ==
  IF node = NULL THEN value
  ELSE FindFromNoTest(s, Child(s, node, key, bit), bit \div 2, key, s.value[node])

(* ngx_radix32tree_find: the last value met on the key's path.             *)
RECURSIVE FindFrom(_, _, _, _, _)
FindFrom(s, node, bit, key, value) ==
  IF node = NULL THEN value
  ELSE FindFrom(s, Child(s, node, key, bit), bit \div 2, key,
                IF s.value[node] # NoValue THEN s.value[node] ELSE value)

FindOp(s, key) == FindFrom(s, s.root, TopBit, key, NoValue)

Delete(key, mask) ==
  LET a == DeleteOp(t, key, mask)
  IN  /\ phase = "ready" /\ ret # "SEGV" /\ api = "32"
      /\ t' = a.s /\ ret' = a.r
      /\ UNCHANGED <<phase, api>>

Find(key) ==
  /\ phase = "ready" /\ ret # "SEGV" /\ api = "32"
  /\ ret' = FindOp(t, key)
  /\ UNCHANGED <<t, phase, api>>

-----------------------------------------------------------------------------
(* The 128-bit functions walk the key with a cursor c = [i, bit]: byte     *)
(* key[c.i] and the bit c.bit of it, byte 0 the most significant.          *)
TopByteBit == 2^(ByteBits - 1)
Start128   == [i |-> 0, bit |-> TopByteBit]

(* key[i] & bit, or mask[i] & bit; a bit of 0 (the loop ended at the last *)
(* byte) tests false before the byte is read.                             *)
Test128(x, c) == c.bit > 0 /\ Test(x, c.bit * 2^(KeyWidth - (c.i + 1) * ByteBits))

Child128(s, n, key, c) == IF Test128(key, c) THEN s.right[n] ELSE s.left[n]

(* Mutation: the walk stops one byte early (++i == 15).                   *)
Step128Early(c) ==
  IF c.bit \div 2 # 0 THEN [c EXCEPT !.bit = c.bit \div 2]
  ELSE IF c.i + 2 = NBytes THEN [i |-> c.i + 1, bit |-> 0]
  ELSE [i |-> c.i + 1, bit |-> TopByteBit]

(* bit >>= 1; if (bit == 0) { if (++i == 16) break; bit = 0x80; } of the   *)
(* insert and delete loops; the break leaves bit 0, which ends the loop.   *)
Step128(c) ==
  IF c.bit \div 2 # 0 THEN [c EXCEPT !.bit = c.bit \div 2]
  ELSE IF c.i + 1 = NBytes THEN [i |-> c.i + 1, bit |-> 0]
  ELSE [i |-> c.i + 1, bit |-> TopByteBit]

(* The first loop of ngx_radix128tree_insert.                              *)
RECURSIVE Descend128(_, _, _, _, _, _)
Descend128(s, node, next, c, key, mask) ==
  IF ~Test128(mask, c) THEN [node |-> node, next |-> next, c |-> c]
  ELSE LET nx == Child128(s, node, key, c)
       IN  IF nx = NULL THEN [node |-> node, next |-> NULL, c |-> c]
           ELSE Descend128(s, nx, nx, Step128(c), key, mask)

(* The second loop of ngx_radix128tree_insert, then the store.            *)
RECURSIVE Extend128(_, _, _, _, _, _)
Extend128(s, node, c, key, mask, value) ==
  IF ~Test128(mask, c)
    THEN [s |-> [s EXCEPT !.value[node] = value], r |-> "OK"]
  ELSE LET a  == Alloc(s)
           n  == a.p
           s1 == [a.s EXCEPT !.right[n] = NULL, !.left[n] = NULL,
                             !.parent[n] = node, !.value[n] = NoValue]
           s2 == IF Test128(key, c) THEN [s1 EXCEPT !.right[node] = n]
                 ELSE [s1 EXCEPT !.left[node] = n]
       IN  IF n = NULL THEN [s |-> a.s, r |-> "ERROR"]
           ELSE Extend128(s2, n, Step128(c), key, mask, value)

(* ngx_radix128tree_insert.                                                *)
InsertOp128(s, key, mask, value) ==
  LET d == Descend128(s, s.root, s.root, Start128, key, mask)
  IN  IF d.next # NULL
        THEN IF s.value[d.node] # NoValue THEN [s |-> s, r |-> "BUSY"]
             ELSE [s |-> [s EXCEPT !.value[d.node] = value], r |-> "OK"]
      ELSE Extend128(s, d.node, d.c, key, mask, value)

(* The walk of ngx_radix128tree_delete.                                    *)
RECURSIVE Locate128(_, _, _, _, _)
Locate128(s, node, c, key, mask) ==
  IF node # NULL /\ Test128(mask, c)
    THEN Locate128(s, Child128(s, node, key, c), Step128(c), key, mask)
  ELSE node

(* ngx_radix128tree_delete: the walk, then the same code as the 32-bit    *)
(* delete.                                                                 *)
DeleteOp128(s, key, mask) == DeleteAt(s, Locate128(s, s.root, Start128, key, mask))

(* The loop of ngx_radix128tree_find: while (node), with no test of i.     *)
(* Below a node of full depth the loop reads key[NBytes], past the key;    *)
(* that byte is any byte, so the result is the set of values the walk can *)
(* return.                                                                 *)
RECURSIVE Find128From(_, _, _, _, _)
Find128From(s, node, c, key, value) ==
  IF node = NULL THEN {value}
  ELSE LET v  == IF s.value[node] # NoValue THEN s.value[node] ELSE value
           c2 == IF c.bit \div 2 # 0 THEN [c EXCEPT !.bit = c.bit \div 2]
                 ELSE [i |-> c.i + 1, bit |-> TopByteBit]
           kids == IF c.i < NBytes THEN {Child128(s, node, key, c)}
                   ELSE {s.left[node], s.right[node]}
       IN  UNION {Find128From(s, k, c2, key, v) : k \in kids}

Find128Op(s, key) == Find128From(s, s.root, Start128, key, NoValue)

Insert128(key, mask, value) ==
  LET a == InsertOp128(t, key, mask, value)
  IN  /\ phase = "ready" /\ ret # "SEGV" /\ api = "128"
      /\ t' = a.s /\ ret' = a.r
      /\ UNCHANGED <<phase, api>>

Delete128(key, mask) ==
  LET a == DeleteOp128(t, key, mask)
  IN  /\ phase = "ready" /\ ret # "SEGV" /\ api = "128"
      /\ t' = a.s /\ ret' = a.r
      /\ UNCHANGED <<phase, api>>

Find128(key) ==
  /\ phase = "ready" /\ ret # "SEGV" /\ api = "128"
  /\ ret' \in Find128Op(t, key)
  /\ UNCHANGED <<t, phase, api>>

Next ==
  \/ Create
  \/ \E k \in Keys, m \in InsertMasks, v \in Values : Insert(k, m, v)
  \/ \E k \in Keys, m \in DeleteMasks : Delete(k, m)
  \/ \E k \in Keys : Find(k)
  \/ \E k \in Keys, m \in InsertMasks, v \in Values : Insert128(k, m, v)
  \/ \E k \in Keys, m \in DeleteMasks : Delete128(k, m)
  \/ \E k \in Keys : Find128(k)

Spec == Init /\ [][Next]_vars

-----------------------------------------------------------------------------
(* Views of the tree for the properties; the walks carry fuel so that a    *)
(* corrupted link structure still evaluates.                               *)
RECURSIVE Subtree(_, _, _)
Subtree(s, n, fuel) ==
  IF n = NULL \/ fuel = 0 THEN {}
  ELSE {n} \cup Subtree(s, s.left[n], fuel - 1) \cup Subtree(s, s.right[n], fuel - 1)

RECURSIVE FreeChain(_, _, _)
FreeChain(s, n, fuel) ==
  IF n = NULL \/ fuel = 0 THEN <<>> ELSE <<n>> \o FreeChain(s, s.right[n], fuel - 1)

Reachable == Subtree(t, t.root, KeyWidth + 2)
FreeList  == FreeChain(t, t.free, Cardinality(Slots) + 1)
FreeSet   == {FreeList[i] : i \in 1 .. Len(FreeList)}
HandedOut == 1 .. (t.pages * PageNodes - t.size)

(* The node a prefix of length l with bits b leads to, or NULL.            *)
RECURSIVE PathNode(_, _, _, _)
PathNode(s, n, l, b) ==
  IF n = NULL \/ l = 0 THEN n
  ELSE PathNode(s, IF Test(b, 2^(l - 1)) THEN s.right[n] ELSE s.left[n], l - 1, b)

(* Prefixes as <<length, bits>>: the first length bits of a key.          *)
Prefixes == UNION {{<<l, b>> : b \in 0 .. 2^l - 1} : l \in 0 .. KeyWidth}

(* What the tree stores at each prefix <<length, bits>>.                   *)
Table ==
  [p \in Prefixes |->
     LET n == PathNode(t, t.root, p[1], p[2])
     IN  IF n = NULL THEN NoValue ELSE t.value[n]]

Abstract == INSTANCE NgxRadixPrefixes WITH table <- Table, ret <- ret

-----------------------------------------------------------------------------
TypeOK ==
  /\ phase \in {"none", "ready", "failed"}
  /\ api \in Variants
  /\ ret \in {"none", "OK", "BUSY", "ERROR", "SEGV"} \cup Values \cup {NoValue}
  /\ t.left \in [Slots -> Link] /\ t.right \in [Slots -> Link]
  /\ t.parent \in [Slots -> Link] /\ t.value \in [Slots -> Values \cup {NoValue}]
  /\ t.root \in Link /\ t.free \in Link
  /\ t.pages \in 0 .. MaxPages /\ t.size \in 0 .. PageNodes

(* Allocation accounting over ngx_radix_alloc, insert and the pruning of   *)
(* delete: every node the pool has handed out is either in the tree or on  *)
(* the free list threaded through right, never both, and the free list is *)
(* a chain without repeats.                                                *)
NoLeak ==
  phase = "ready" =>
    /\ Reachable \cap FreeSet = {}
    /\ Reachable \cup FreeSet = HandedOut
    /\ Len(FreeList) = Cardinality(FreeSet)

(* The links insert writes and delete unlinks agree: the root has no       *)
(* parent, every other node of the tree is a child of its parent, and no   *)
(* node lies deeper than the key width.                                    *)
TreeLinked ==
  phase = "ready" =>
    /\ t.parent[t.root] = NULL
    /\ \A n \in Reachable \ {t.root} :
         /\ t.parent[n] \in Reachable
         /\ n \in {t.left[t.parent[n]], t.right[t.parent[n]]}
    /\ \A l \in 0 .. 2^KeyWidth - 1 :
         LET n == PathNode(t, t.root, KeyWidth, l)
         IN  n # NULL => t.left[n] = NULL /\ t.right[n] = NULL

(* The pruning loop of ngx_radix32tree_delete leaves no valueless leaf     *)
(* below the root.                                                         *)
NoValuelessLeaf ==
  phase = "ready" =>
    \A n \in Reachable \ {t.root} :
      t.left[n] = NULL /\ t.right[n] = NULL => t.value[n] # NoValue

(* ngx_radix32tree_find returns, for every key, the value of the longest   *)
(* stored prefix of the key.                                               *)
FindIsLongestPrefix ==
  phase = "ready" =>
    \A k \in 0 .. 2^KeyWidth - 1 : FindOp(t, k) = Abstract!Lookup(Table, k)

(* The byte-wise walks of ngx_radix128tree_insert, delete and find, with  *)
(* their i == 16 break and the byte find reads past the key, do on every  *)
(* tree what the bit-wise 32-bit functions do with the same key and mask: *)
(* the same nodes written, the same result.                               *)
Api128Agrees ==
  phase = "ready" =>
    /\ \A k \in Keys, m \in InsertMasks, v \in Values :
         InsertOp128(t, k, m, v) = InsertOp(t, k, m, v)
    /\ \A k \in Keys, m \in DeleteMasks :
         DeleteOp128(t, k, m) = DeleteOp(t, k, m)
    /\ \A k \in 0 .. 2^KeyWidth - 1 : Find128Op(t, k) = {FindOp(t, k)}

(* Insert, delete and find, with their return values, implement the       *)
(* prefix table of NgxRadixPrefixes.                                       *)
PrefixRefinement == Abstract!Spec

(* A failed insert leaves nothing new reachable from the root (the error  *)
(* handling the callers rely on).                                          *)
NoPartialInsert ==
  [][ret' = "ERROR" /\ phase = "ready" => Reachable' = Reachable]_vars

(* ngx_radix_tree_create, when it returns a tree, has preallocated every *)
(* node of the first Prealloc levels and no deeper one: the do-while of   *)
(* each level, ended only by key += inc wrapping to 0, visits every key of *)
(* the level once.                                                         *)
PreallocComplete ==
  [][phase = "none" /\ phase' = "ready" =>
       /\ \A l \in 0 .. Prealloc, b \in 0 .. 2^KeyWidth - 1 :
            PathNode(t', t'.root, l, b \div 2^(KeyWidth - l)) # NULL
       /\ Cardinality(Reachable') = 2^(Prealloc + 1) - 1]_vars

(* No call dereferences a NULL node pointer.                               *)
NoNullDereference == ret # "SEGV"
====
