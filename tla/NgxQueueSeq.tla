----------------------------- MODULE NgxQueueSeq -----------------------------
(***************************************************************************)
(* What the intrusive queue of ngx_queue.h promises: every initialized    *)
(* head holds a sequence of elements, no element is in two queues, and    *)
(* each operation changes the sequences as its name says.  Sort is the    *)
(* stable sort by the caller's comparator, given here by a rank and not   *)
(* by an algorithm; middle is the element at position Len \div 2 + 1.     *)
(***************************************************************************)
EXTENDS Integers, Sequences, FiniteSets

CONSTANTS Heads, Elems, Key, NULL

VARIABLES queues, live, ret

Members(s) == {s[i] : i \in 1 .. Len(s)}
Queued == UNION {Members(queues[h]) : h \in {g \in Heads : live[g]}}

Pos(s, x) == CHOOSE i \in 1 .. Len(s) : s[i] = x

(* The stable sort of s: x goes after every element with a smaller key    *)
(* and after every element with an equal key that came before it.         *)
Rank(s, x) ==
  1 + Cardinality({y \in Members(s) :
                     Key[y] < Key[x] \/ (Key[y] = Key[x] /\ Pos(s, y) < Pos(s, x))})
StableSort(s) == [i \in 1 .. Len(s) |-> CHOOSE x \in Members(s) : Rank(s, x) = i]

Init ==
  /\ queues = [h \in Heads |-> <<>>]
  /\ live = [h \in Heads |-> FALSE]
  /\ ret = NULL

Next ==
  LET qs == queues
      Set(h, s) == [qs EXCEPT ![h] = s]
  IN  \/ \E h \in Heads :
           /\ ~live[h]
           /\ queues' = Set(h, <<>>) /\ live' = [live EXCEPT ![h] = TRUE]
           /\ UNCHANGED ret
      \/ \E h \in Heads, x \in Elems \ Queued :
           /\ live[h]
           /\ queues' \in {Set(h, <<x>> \o qs[h]), Set(h, Append(qs[h], x))}
           /\ UNCHANGED <<live, ret>>
      \/ \E h \in Heads : \E i \in 1 .. Len(qs[h]) :
           /\ live[h]
           /\ queues' = Set(h, SubSeq(qs[h], 1, i - 1) \o SubSeq(qs[h], i + 1, Len(qs[h])))
           /\ UNCHANGED <<live, ret>>
      \/ \E h, n \in Heads : \E i \in 1 .. Len(qs[h]) :
           /\ live[h] /\ ~live[n] /\ h # n
           /\ queues' = [qs EXCEPT ![h] = SubSeq(qs[h], 1, i - 1),
                                   ![n] = SubSeq(qs[h], i, Len(qs[h]))]
           /\ live' = [live EXCEPT ![n] = TRUE]
           /\ UNCHANGED ret
      \/ \E h, n \in Heads :
           /\ live[h] /\ live[n] /\ h # n
           /\ queues' = [qs EXCEPT ![h] = qs[h] \o qs[n], ![n] = <<>>]
           /\ live' = [live EXCEPT ![n] = FALSE]
           /\ UNCHANGED ret
      \/ \E h \in Heads :
           /\ live[h]
           /\ queues' = Set(h, StableSort(qs[h]))
           /\ UNCHANGED <<live, ret>>
      \/ \E h \in Heads :
           /\ live[h]
           /\ ret' = IF qs[h] = <<>> THEN h ELSE qs[h][Len(qs[h]) \div 2 + 1]
           /\ UNCHANGED <<queues, live>>

Spec == Init /\ [][Next]_<<queues, live, ret>>

=============================================================================
