------------------------------ MODULE MCRestart ------------------------------
(* Restart for TLC: one restart among two edits, and two restarts in one   *)
(* turn.                                                                   *)
EXTENDS Restart

CONSTANTS r1, r2, e1, e2

OneRestarter == {r1}
TwoRestarters == {r1, r2}
TwoEditors == {e1, e2}
NoEditors == {}
=============================================================================
