------------------------------ MODULE MCPolicy ------------------------------
(* A small instance of Policy for TLC.                                     *)
EXTENDS Policy
CONSTANTS e1, e2, a, b
=============================================================================
