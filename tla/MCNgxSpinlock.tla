----------------------------- MODULE MCNgxSpinlock -----------------------------
EXTENDS NgxSpinlock, TLC

(* Three workers with distinct pids.                                       *)
MCProcs == {"w1", "w2", "w3"}
MCPid == [p \in MCProcs |-> CASE p = "w1" -> 11 [] p = "w2" -> 12 [] OTHER -> 13]

=============================================================================
