------------------------------- MODULE NgxQueue -------------------------------
(***************************************************************************)
(* The intrusive doubly linked queue of ngx_queue.h and ngx_queue.c, at   *)
(* the level of its prev and next pointers.  A queue is a ring through a  *)
(* head node that holds no data; elements are the ngx_queue_t fields      *)
(* embedded in caller records.  Each macro or function is one atomic      *)
(* action whose LET chain performs the code's assignments in order, each  *)
(* reading the links as the previous one left them.                       *)
(*                                                                         *)
(* live[h] is the caller's knowledge that head h was set up by            *)
(* ngx_queue_init or ngx_queue_split and not consumed by ngx_queue_add.   *)
(***************************************************************************)
EXTENDS Integers, Sequences, FiniteSets

CONSTANTS
  Heads,   \* ngx_queue_t heads
  Elems,   \* ngx_queue_t links embedded in records
  Key,     \* the record field the comparator of ngx_queue_sort reads
  NULL

ASSUME Heads \cap Elems = {} /\ NULL \notin Heads \cup Elems
ASSUME Key \in [Elems -> Int]

VARIABLES
  prev,   \* q->prev
  next,   \* q->next
  live,   \* which heads the caller may use
  ret     \* what the last ngx_queue_middle returned

vars == <<prev, next, live, ret>>

Slots == Heads \cup Elems

(* The elements of the ring of h in order, following next from h, with   *)
(* enough fuel for a ring through every element.                           *)
RECURSIVE WalkFrom(_, _, _, _)
WalkFrom(nx, h, x, fuel) ==
  IF x = h \/ x = NULL \/ fuel = 0 THEN <<>>
  ELSE <<x>> \o WalkFrom(nx, h, nx[x], fuel - 1)
Walk(h) == WalkFrom(next, h, next[h], Cardinality(Elems) + 1)

Members(h) == {Walk(h)[i] : i \in 1 .. Len(Walk(h))}
LiveHeads == {h \in Heads : live[h]}
Queued == UNION {Members(h) : h \in LiveHeads}

(* ngx_queue_init.                                                         *)
QueueInit(h) ==
  /\ ~live[h]
  /\ prev' = [prev EXCEPT ![h] = h]
  /\ next' = [next EXCEPT ![h] = h]
  /\ live' = [live EXCEPT ![h] = TRUE]
  /\ UNCHANGED ret

(* Mutation: (x)->next->prev = x is left out.                              *)
InsertAfterNoBack(pn, h, x) ==
  LET n1 == [pn[2] EXCEPT ![x] = pn[2][h]]
  IN  <<[pn[1] EXCEPT ![x] = h], [n1 EXCEPT ![h] = x]>>

(* ngx_queue_insert_head, also ngx_queue_insert_after, on the links       *)
(* <<prev, next>>: x after h.                                              *)
InsertAfter(pn, h, x) ==
  LET n1 == [pn[2] EXCEPT ![x] = pn[2][h]]
      p1 == [pn[1] EXCEPT ![n1[x]] = x]
  IN  <<[p1 EXCEPT ![x] = h], [n1 EXCEPT ![h] = x]>>

InsertHead(h, x) ==
  /\ live[h] /\ x \in Elems \ Queued
  /\ LET r == InsertAfter(<<prev, next>>, h, x) IN prev' = r[1] /\ next' = r[2]
  /\ UNCHANGED <<live, ret>>

(* Mutation: (x)->next = h is left out.                                    *)
InsertBeforeNoNext(pn, h, x) ==
  LET p1 == [pn[1] EXCEPT ![x] = pn[1][h]]
      n1 == [pn[2] EXCEPT ![p1[x]] = x]
  IN  <<[p1 EXCEPT ![h] = x], n1>>

(* ngx_queue_insert_tail on the links <<prev, next>>: x before h.          *)
InsertBefore(pn, h, x) ==
  LET p1 == [pn[1] EXCEPT ![x] = pn[1][h]]
      n1 == [pn[2] EXCEPT ![p1[x]] = x]
  IN  <<[p1 EXCEPT ![h] = x], [n1 EXCEPT ![x] = h]>>

InsertTail(h, x) ==
  /\ live[h] /\ x \in Elems \ Queued
  /\ LET r == InsertBefore(<<prev, next>>, h, x) IN prev' = r[1] /\ next' = r[2]
  /\ UNCHANGED <<live, ret>>

(* ngx_queue_remove, release build: x keeps its stale links.               *)
Unlink(pn, x) ==
  LET p1 == [pn[1] EXCEPT ![pn[2][x]] = pn[1][x]]
  IN  <<p1, [pn[2] EXCEPT ![p1[x]] = pn[2][x]]>>

Remove(x) ==
  /\ x \in Queued
  /\ LET r == Unlink(<<prev, next>>, x) IN prev' = r[1] /\ next' = r[2]
  /\ UNCHANGED <<live, ret>>

(* ngx_queue_split: h keeps the elements before q, n takes q and the rest. *)
Split(h, q, n) ==
  LET p1 == [prev EXCEPT ![n] = prev[h]]
      n1 == [next EXCEPT ![p1[n]] = n]
      n2 == [n1 EXCEPT ![n] = q]
      p2 == [p1 EXCEPT ![h] = p1[q]]
      n3 == [n2 EXCEPT ![p2[h]] = h]
  IN  /\ live[h] /\ ~live[n] /\ q \in Members(h)
      /\ next' = n3
      /\ prev' = [p2 EXCEPT ![q] = n]
      /\ live' = [live EXCEPT ![n] = TRUE]
      /\ UNCHANGED ret

(* ngx_queue_add: the elements of n go after those of h; n is used up.     *)
Add(h, n) ==
  LET n1 == [next EXCEPT ![prev[h]] = next[n]]
      p1 == [prev EXCEPT ![n1[n]] = prev[h]]
      p2 == [p1 EXCEPT ![h] = p1[n]]
      n2 == [n1 EXCEPT ![p2[h]] = h]
  IN  /\ live[h] /\ live[n] /\ h # n
      /\ next' = n2
      /\ prev' = p2
      /\ live' = [live EXCEPT ![n] = FALSE]
      /\ UNCHANGED ret

(* The do-while of ngx_queue_sort: from pv backwards, the first element q *)
(* may follow, cmp(prev, q) <= 0, or the head when there is none.          *)
(* Mutation: the do-while stops only at a strictly smaller key, so equal  *)
(* keys swap.                                                              *)
RECURSIVE BackStrict(_, _, _, _)
BackStrict(pn, h, q, pv) ==
  IF Key[pv] - Key[q] < 0 THEN pv
  ELSE IF pn[1][pv] = h THEN h ELSE BackStrict(pn, h, q, pn[1][pv])

RECURSIVE Back(_, _, _, _)
Back(pn, h, q, pv) ==
  IF Key[pv] - Key[q] <= 0 THEN pv
  ELSE IF pn[1][pv] = h THEN h ELSE Back(pn, h, q, pn[1][pv])

(* The outer loop of ngx_queue_sort from q: q is taken out and inserted   *)
(* after the element Back stops at, then the loop goes on at q's old next. *)
RECURSIVE SortFrom(_, _, _)
SortFrom(pn, h, q) ==
  IF q = h THEN pn
  ELSE LET pv == pn[1][q]
           nx == pn[2][q]
           r  == Unlink(pn, q)
       IN  SortFrom(InsertAfter(r, Back(r, h, q, pv), q), h, nx)

(* ngx_queue_sort: the stable insertion sort.                              *)
Sort(h) ==
  /\ live[h]
  /\ LET r == IF next[h] = prev[h] THEN <<prev, next>>
              ELSE SortFrom(<<prev, next>>, h, next[next[h]])
     IN  prev' = r[1] /\ next' = r[2]
  /\ UNCHANGED <<live, ret>>

(* The loop of ngx_queue_middle: middle steps once and next twice, each    *)
(* step of next tested against the last element.                          *)
RECURSIVE MiddleLoop(_, _, _, _)
MiddleLoop(h, m, nx, fuel) ==
  LET m1 == next[m]
      n1 == next[nx]
      n2 == next[n1]
  IN  IF fuel = 0 THEN NULL
      ELSE IF n1 = prev[h] \/ n2 = prev[h] THEN m1
      ELSE MiddleLoop(h, m1, n2, fuel - 1)

(* ngx_queue_middle.                                                       *)
Middle(h) ==
  /\ live[h]
  /\ ret' = IF next[h] = prev[h] THEN next[h]
            ELSE MiddleLoop(h, next[h], next[h], Cardinality(Elems))
  /\ UNCHANGED <<prev, next, live>>

Init ==
  /\ prev = [s \in Slots |-> NULL]
  /\ next = [s \in Slots |-> NULL]
  /\ live = [h \in Heads |-> FALSE]
  /\ ret = NULL

Next ==
  \/ \E h \in Heads : QueueInit(h) \/ Sort(h) \/ Middle(h)
  \/ \E h \in Heads, x \in Elems : InsertHead(h, x) \/ InsertTail(h, x)
  \/ \E x \in Elems : Remove(x)
  \/ \E h, q, n \in Slots : h \in Heads /\ n \in Heads /\ Split(h, q, n)
  \/ \E h, n \in Heads : Add(h, n)

Spec == Init /\ [][Next]_vars

-----------------------------------------------------------------------------

(* Every slot of a live ring has both links set; ret is a slot.            *)
TypeOK ==
  /\ prev \in [Slots -> Slots \cup {NULL}]
  /\ next \in [Slots -> Slots \cup {NULL}]
  /\ live \in [Heads -> BOOLEAN]
  /\ ret \in Slots \cup {NULL}
  /\ \A h \in LiveHeads : \A s \in {h} \cup Members(h) :
        next[s] \in Slots /\ prev[s] \in Slots

(* The rings are well formed after any sequence of the macros: following  *)
(* next from a live head comes back to it, prev undoes next everywhere on  *)
(* the ring, and no element is on two rings.                               *)
Linked ==
  /\ \A h \in LiveHeads :
       /\ LET w == Walk(h) IN Len(w) = 0 \/ next[w[Len(w)]] = h
       /\ \A s \in {h} \cup Members(h) : prev[next[s]] = s
  /\ \A h, g \in LiveHeads : h # g => Members(h) \cap Members(g) = {}

Abstract == INSTANCE NgxQueueSeq
              WITH queues <- [h \in Heads |-> IF live[h] THEN Walk(h) ELSE <<>>]

(* The pointer operations implement the sequence operations of            *)
(* NgxQueueSeq: insert, remove, split and add move elements as their names *)
(* say, ngx_queue_sort is a stable sort by Key and ngx_queue_middle        *)
(* returns the element at position Len \div 2 + 1.                         *)
QueueRefinement == Abstract!Spec

=============================================================================
