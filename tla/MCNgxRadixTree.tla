--------------------------- MODULE MCNgxRadixTree ---------------------------
(***************************************************************************)
(* Model-checking instances of NgxRadixTree, with 3-bit keys.             *)
(***************************************************************************)
EXTENDS NgxRadixTree, TLC

(* Masks of prefix length 0 (the default entry), 1, 2 and 3 bits.          *)
MCMasks == {0, 4, 6, 7}
(* The same without length 0: deleting it from a tree whose root has no    *)
(* child is the NULL dereference the violation run shows.                  *)
MCDeleteMasks == {4, 6, 7}
(* Keys 100 and 101: prefixes 1, 10, 100 and 101 nest under the root.     *)
MCKeys == {4, 5}
(* Adds 110, so that a tree of six nodes cannot hold every path.           *)
MCKeys3 == {4, 5, 6}
=============================================================================
