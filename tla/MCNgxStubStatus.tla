---------------------------- MODULE MCNgxStubStatus ----------------------------
EXTENDS NgxStubStatus, TLC

(* Connections are model values and interchangeable.                      *)
Perms == Permutations(Conns)

=============================================================================
