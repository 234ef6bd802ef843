--------------------------- MODULE MCClientToken ---------------------------
(* Small instances of ClientToken for TLC.                                 *)
EXTENDS ClientToken

CONSTANTS c1, c2, c3
=============================================================================
