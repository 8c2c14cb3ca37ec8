------------------------------ MODULE MCRequests ------------------------------
(* Requests for TLC: the default of three tries. *)
EXTENDS Requests

MCTries == 3
=============================================================================
