--------------------------- MODULE MCNgxEventTimer ---------------------------
EXTENDS NgxEventTimer, TLC

(* Three events, one of them cancelable.                                   *)
MCEvents == {"e1", "e2", "e3"}
MCCancelable == {"e3"}

=============================================================================
