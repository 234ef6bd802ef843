------------------------------ MODULE MCSetup ------------------------------
(* Small instances of Setup, and with it of Bootstrap, for TLC.            *)
EXTENDS Setup, MCBootstrap

CONSTANTS u1, u2

\* Users of the script: with roles and without.
MCSpecs == <<[username |-> u1, roles |-> {r1, r2}], [username |-> u2, roles |-> {}]>>
=============================================================================
