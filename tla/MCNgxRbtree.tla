----------------------------- MODULE MCNgxRbtree -----------------------------
(***************************************************************************)
(* Model-checking instance of NgxRbtree.                                   *)
(***************************************************************************)
EXTENDS NgxRbtree, TLC

(* Six nodes with one key each, two of them equal: deep enough for the    *)
(* red-sibling case of the delete fixup, which needs a black height of 2  *)
(* on both sides of the parent and so at least six nodes on the way.      *)
(* The keys are 4-bit and straddle the wrap of the timer comparator:      *)
(* 14 < 15 = 15 < 0 < 1 < 2 by the signed difference.                      *)
MCNodes6 == 1 .. 6
MCWrapKey6 == [n \in MCNodes6 |-> IF n <= 2 THEN {(n + 13) % 16} ELSE {(n + 12) % 16}]
=============================================================================
