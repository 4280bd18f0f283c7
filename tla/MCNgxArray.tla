------------------------------ MODULE MCNgxArray ------------------------------
EXTENDS NgxArray, TLC

(* Two arrays and a list on one pool, so that each can be the last        *)
(* allocation of the first block or not.                                  *)
MCArrays == {"a1", "a2"}
MCLists == {"l1"}
=============================================================================
