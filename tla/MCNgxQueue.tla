------------------------------ MODULE MCNgxQueue ------------------------------
EXTENDS NgxQueue, TLC

(* Two heads, so that split and add have a second queue, and three         *)
(* elements, two of them with equal keys so that sort shows stability.    *)
MCHeads == {"h1", "h2"}
MCElems == {"a", "b", "c"}
MCKey == [x \in MCElems |-> IF x = "c" THEN 0 ELSE 1]

=============================================================================
