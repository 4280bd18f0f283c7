------------------------------- MODULE NgxArray -------------------------------
(***************************************************************************)
(* ngx_array_t and ngx_list_t of src/core/ngx_array.c, ngx_array.h and    *)
(* ngx_list.c/.h, over one ngx_pool_t they share.  Memory is cells of one *)
(* unit; an element, an array header, a list header and a list part       *)
(* header are one unit each.  A cell is <<block, offset>>: block 0 is     *)
(* the pool's first block, whose cursor p->d.last the arrays compare      *)
(* against, and blocks 1 .. MaxFresh hold allocations that did not fit    *)
(* in it.  mem is what the callers wrote: each element stamped with its   *)
(* container and index, each header with its container.                  *)
(*                                                                         *)
(* ngx_palloc is not in the repository; it is modelled from the spec's    *)
(* arena interface: the next bytes of the first block when they fit,      *)
(* otherwise a block of its own, and NULL once MaxFresh blocks are used.  *)
(* Each call runs to completion in one step: a pool belongs to one        *)
(* request or cycle and is used from one thread.                          *)
(***************************************************************************)
EXTENDS Integers, Sequences, FiniteSets

CONSTANTS
  Arrays,     \* ngx_array_t objects callers create
  Lists,      \* ngx_list_t objects callers create
  End,        \* units in the first block (p->d.end - start)
  MaxFresh,   \* blocks the pool can add before allocation fails
  FreshCap,   \* the largest allocation a block of its own holds
  CreateN,    \* the n callers pass to create
  PushN,      \* the n callers pass to ngx_array_push_n
  MaxElts,    \* elements a caller stores in one container
  NONE

Cells  == ({0} \X (0 .. End - 1)) \cup ((1 .. MaxFresh) \X (0 .. FreshCap - 1))

VARIABLES
  pool,   \* [last |-> p->d.last, fresh |-> blocks added, len |-> their sizes]
  arr,    \* each array: st, hdr, elts, nelts, nalloc
  lst,    \* each list: st, hdr, nalloc, parts (header, elts, nelts of each)
  mem     \* the stamp each cell holds

vars == <<pool, arr, lst, mem>>

At(a, k) == <<a[1], a[2] + k>>

(* ngx_palloc(pool, sz): the address and the pool after it, or NONE.      *)
Palloc(pl, sz) ==
  IF pl.last + sz <= End
    THEN [p |-> <<0, pl.last>>, pool |-> [pl EXCEPT !.last = pl.last + sz]]
  ELSE IF pl.fresh < MaxFresh /\ sz <= FreshCap
    THEN [p |-> <<pl.fresh + 1, 0>>,
          pool |-> [pl EXCEPT !.fresh = pl.fresh + 1, !.len[pl.fresh + 1] = sz]]
  ELSE [p |-> NONE, pool |-> pl]

(* The callers' stores, and the ngx_memcpy of a move.                      *)
Write(m, c, v) == IF c \in Cells THEN [m EXCEPT ![c] = v] ELSE m
Read(m, c) == IF c \in Cells THEN m[c] ELSE NONE
Copy(m, from, to, k) ==
  [c \in Cells |-> IF c[1] = to[1] /\ c[2] - to[2] \in 0 .. k - 1
                     THEN Read(m, At(from, c[2] - to[2])) ELSE m[c]]
Stores(m, base, from, k, tag) ==
  [c \in Cells |-> IF c[1] = base[1] /\ c[2] - base[2] \in from .. from + k - 1
                     THEN <<tag, c[2] - base[2]>> ELSE m[c]]

Init ==
  /\ pool = [last |-> 0, fresh |-> 0, len |-> [b \in 1 .. MaxFresh |-> 0]]
  /\ arr = [a \in Arrays |-> [st |-> "none", hdr |-> NONE, elts |-> NONE,
                              nelts |-> 0, nalloc |-> 0]]
  /\ lst = [l \in Lists |-> [st |-> "none", hdr |-> NONE, nalloc |-> 0, parts |-> <<>>]]
  /\ mem = [c \in Cells |-> NONE]

(* ngx_array_init and ngx_list_init: the fields of a container whose      *)
(* header is at h and whose first n elements are at e.                    *)
ArrayInit(h, e, n) == [st |-> "live", hdr |-> h, elts |-> e, nelts |-> 0, nalloc |-> n]
ListInit(h, e, n) ==
  [st |-> "live", hdr |-> h, nalloc |-> n, parts |-> <<[ph |-> h, elts |-> e, nelts |-> 0]>>]

(* ngx_array_create: the header, then ngx_array_init's elements; NULL     *)
(* when either allocation fails, the header then staying allocated.       *)
ArrayCreate(a, n) ==
  LET h == Palloc(pool, 1)
      e == Palloc(h.pool, n)
  IN  /\ arr[a].st = "none"
      /\ IF h.p = NONE \/ e.p = NONE
           THEN /\ arr' = [arr EXCEPT ![a].st = "null"]
                /\ pool' = IF h.p = NONE THEN pool ELSE e.pool
                /\ UNCHANGED mem
         ELSE /\ arr' = [arr EXCEPT ![a] = ArrayInit(h.p, e.p, n)]
              /\ pool' = e.pool
              /\ mem' = Write(mem, h.p, <<a, "hdr">>)
      /\ UNCHANGED lst

(* Mutation: the array grows in place without being the last allocation. *)
ArrayPushNoLastTest(a) ==
  LET x == arr[a]
      grow == x.nelts = x.nalloc
      inplace == pool.last + 1 <= End /\ x.elts[1] = 0
      g == Palloc(pool, 2 * x.nalloc)
      moved == grow /\ ~inplace
      elts == IF moved THEN g.p ELSE x.elts
  IN  /\ x.st = "live" /\ x.nelts < MaxElts
      /\ IF moved /\ g.p = NONE THEN UNCHANGED vars
         ELSE /\ pool' = IF ~grow THEN pool ELSE IF inplace
                           THEN [pool EXCEPT !.last = pool.last + 1] ELSE g.pool
              /\ arr' = [arr EXCEPT ![a].elts = elts, ![a].nelts = x.nelts + 1,
                           ![a].nalloc = IF ~grow THEN x.nalloc ELSE IF inplace
                                           THEN x.nalloc + 1 ELSE 2 * x.nalloc]
              /\ mem' = Write(IF moved THEN Copy(mem, x.elts, g.p, x.nalloc) ELSE mem,
                              At(elts, x.nelts), <<a, x.nelts>>)
              /\ UNCHANGED lst

(* ngx_array_push, and the caller's store through the pointer it returns. *)
(* A full array grows by one in place when its elements end at p->d.last *)
(* and the block has room; otherwise it moves to 2 * nalloc elements,    *)
(* copying them, and the old ones stay allocated.  A NULL from that      *)
(* allocation changes nothing.                                            *)
ArrayPush(a) ==
  LET x == arr[a]
      grow == x.nelts = x.nalloc
      inplace == At(x.elts, x.nalloc) = <<0, pool.last>> /\ pool.last + 1 <= End
      g == Palloc(pool, 2 * x.nalloc)
      moved == grow /\ ~inplace
      elts == IF moved THEN g.p ELSE x.elts
  IN  /\ x.st = "live" /\ x.nelts < MaxElts
      /\ IF moved /\ g.p = NONE THEN UNCHANGED vars
         ELSE /\ pool' = IF ~grow THEN pool ELSE IF inplace
                           THEN [pool EXCEPT !.last = pool.last + 1] ELSE g.pool
              /\ arr' = [arr EXCEPT ![a].elts = elts, ![a].nelts = x.nelts + 1,
                           ![a].nalloc = IF ~grow THEN x.nalloc ELSE IF inplace
                                           THEN x.nalloc + 1 ELSE 2 * x.nalloc]
              /\ mem' = Write(IF moved THEN Copy(mem, x.elts, g.p, x.nalloc) ELSE mem,
                              At(elts, x.nelts), <<a, x.nelts>>)
              /\ UNCHANGED lst

(* ngx_array_push_n, and the caller's n stores.  The move allocates        *)
(* 2 * max(n, nalloc) elements and copies the nelts in use.               *)
ArrayPushN(a, n) ==
  LET x == arr[a]
      grow == x.nelts + n > x.nalloc
      inplace == At(x.elts, x.nalloc) = <<0, pool.last>> /\ pool.last + n <= End
      na == 2 * (IF n >= x.nalloc THEN n ELSE x.nalloc)
      g == Palloc(pool, na)
      moved == grow /\ ~inplace
      elts == IF moved THEN g.p ELSE x.elts
  IN  /\ x.st = "live" /\ x.nelts + n <= MaxElts
      /\ IF moved /\ g.p = NONE THEN UNCHANGED vars
         ELSE /\ pool' = IF ~grow THEN pool ELSE IF inplace
                           THEN [pool EXCEPT !.last = pool.last + n] ELSE g.pool
              /\ arr' = [arr EXCEPT ![a].elts = elts, ![a].nelts = x.nelts + n,
                           ![a].nalloc = IF ~grow THEN x.nalloc ELSE IF inplace
                                           THEN x.nalloc + n ELSE na]
              /\ mem' = Stores(IF moved THEN Copy(mem, x.elts, g.p, x.nelts) ELSE mem,
                               elts, x.nelts, n, a)
              /\ UNCHANGED lst

(* Mutation: destroy gives back the elements whatever lies after them.    *)
ArrayDestroyAlways(a) ==
  LET x == arr[a]
      l1 == IF x.elts[1] = 0 THEN x.elts[2] ELSE pool.last
  IN  /\ x.st = "live"
      /\ pool' = [pool EXCEPT !.last = IF At(x.hdr, 1) = <<0, l1>> THEN x.hdr[2] ELSE l1]
      /\ arr' = [arr EXCEPT ![a].st = "dead"]
      /\ UNCHANGED <<lst, mem>>

(* ngx_array_destroy: p->d.last moves back over the elements, then over   *)
(* the header, each only when it is the last allocation of the block.    *)
ArrayDestroy(a) ==
  LET x == arr[a]
      l1 == IF At(x.elts, x.nalloc) = <<0, pool.last>> THEN x.elts[2] ELSE pool.last
  IN  /\ x.st = "live"
      /\ pool' = [pool EXCEPT !.last = IF At(x.hdr, 1) = <<0, l1>> THEN x.hdr[2] ELSE l1]
      /\ arr' = [arr EXCEPT ![a].st = "dead"]
      /\ UNCHANGED <<lst, mem>>

(* ngx_list_create and ngx_list_init: the header, which holds the first   *)
(* part, then the part's n elements.                                      *)
ListCreate(l, n) ==
  LET h == Palloc(pool, 1)
      e == Palloc(h.pool, n)
  IN  /\ lst[l].st = "none"
      /\ IF h.p = NONE \/ e.p = NONE
           THEN /\ lst' = [lst EXCEPT ![l].st = "null"]
                /\ pool' = IF h.p = NONE THEN pool ELSE e.pool
                /\ UNCHANGED mem
         ELSE /\ lst' = [lst EXCEPT ![l] = ListInit(h.p, e.p, n)]
              /\ pool' = e.pool
              /\ mem' = Write(mem, h.p, <<l, "hdr">>)
      /\ UNCHANGED arr

Total(l) == LET ps == lst[l].parts IN
            IF ps = <<>> THEN 0 ELSE (Len(ps) - 1) * lst[l].nalloc + ps[Len(ps)].nelts

(* ngx_list_push and the caller's store: a full last part gets a new part *)
(* header and nalloc elements; NULL from either allocation leaves the     *)
(* list as it was, a part header allocated before the failure included.  *)
ListPush(l) ==
  LET x == lst[l]
      lp == x.parts[Len(x.parts)]
      full == lp.nelts = x.nalloc
      h == Palloc(pool, 1)
      e == Palloc(h.pool, x.nalloc)
      ps == IF full THEN Append(x.parts, [ph |-> h.p, elts |-> e.p, nelts |-> 1])
            ELSE [x.parts EXCEPT ![Len(x.parts)].nelts = lp.nelts + 1]
      slot == IF full THEN e.p ELSE At(lp.elts, lp.nelts)
  IN  /\ x.st = "live" /\ Total(l) < MaxElts
      /\ IF full /\ (h.p = NONE \/ e.p = NONE)
           THEN /\ pool' = IF h.p = NONE THEN pool ELSE e.pool
                /\ UNCHANGED <<lst, mem>>
         ELSE /\ pool' = IF full THEN e.pool ELSE pool
              /\ lst' = [lst EXCEPT ![l].parts = ps]
              /\ mem' = Write(IF full THEN Write(mem, h.p, <<l, "part", Len(ps)>>) ELSE mem,
                              slot, <<l, Total(l)>>)
      /\ UNCHANGED arr

Next ==
  \/ \E a \in Arrays, n \in CreateN : ArrayCreate(a, n)
  \/ \E a \in Arrays : ArrayPush(a) \/ ArrayDestroy(a)
  \/ \E a \in Arrays, n \in PushN : ArrayPushN(a, n)
  \/ \E l \in Lists, n \in CreateN : ListCreate(l, n)
  \/ \E l \in Lists : ListPush(l)

Spec == Init /\ [][Next]_vars

-----------------------------------------------------------------------------
(* Memory the pool has handed out and not taken back: below p->d.last in  *)
(* the first block, within its size in an added block.                    *)
Reserved(c) ==
  IF c[1] = 0 THEN c[2] < pool.last
  ELSE c[1] <= pool.fresh /\ c[2] < pool.len[c[1]]

(* Every cell a live container uses, with the stamp it must hold.         *)
ArrayCells(a) ==
  {<<arr[a].hdr, <<a, "hdr">>>>} \cup
  {<<At(arr[a].elts, i), <<a, i>>>> : i \in 0 .. arr[a].nelts - 1}
ListCells(l) ==
  LET ps == lst[l].parts IN
  {<<lst[l].hdr, <<l, "hdr">>>>} \cup
  {<<ps[k].ph, <<l, "part", k>>>> : k \in 2 .. Len(ps)} \cup
  UNION {{<<At(ps[k].elts, i), <<l, (k - 1) * lst[l].nalloc + i>>>> : i \in 0 .. ps[k].nelts - 1}
         : k \in 1 .. Len(ps)}
Used ==
  UNION ({ArrayCells(a) : a \in {b \in Arrays : arr[b].st = "live"}} \cup
         {ListCells(l) : l \in {m \in Lists : lst[m].st = "live"}})

(* Every element and header of a live array or list lies in memory the    *)
(* pool has handed out: a push never writes past what it allocated, and  *)
(* a destroy never gives back memory that a live container still uses.   *)
ElementsReserved == \A u \in Used : Reserved(u[1])

(* Every element and header of a live container still holds what was     *)
(* stored there: growth in place never runs into another allocation, a   *)
(* move copies every element, and no two containers share a cell.        *)
ContentsIntact == \A u \in Used : Read(mem, u[1]) = u[2]

=============================================================================
