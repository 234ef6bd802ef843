------------------------------ MODULE MCBearer ------------------------------
(* Small instances of Bearer for TLC.                                      *)
EXTENDS Bearer
=============================================================================
