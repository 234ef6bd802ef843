------------------------------ MODULE MCPaging ------------------------------
(* Small instances of Paging for TLC.                                      *)
EXTENDS Paging, TLC

CONSTANTS e1, e2, e3
=============================================================================
