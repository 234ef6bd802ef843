---------------------------- MODULE MCBootstrap ----------------------------
(* Small instances of Bootstrap for TLC.                                   *)
EXTENDS Bootstrap, TLC

CONSTANTS o1, o2, p1, p2, r1, r2, ns1, ns2, bad, a1, a2, m1, m2

\* Two namespaces that differ in punctuation get one action name.
MCDistinct  == ns1 :> a1 @@ ns2 :> a2
MCColliding == ns1 :> a1 @@ ns2 :> a1

\* The operation on a permission, and one whose method was left empty.
Call(r)     == [method |-> "a method", permission |-> r]
Nameless(r) == [method |-> None, permission |-> r]

First   == [project |-> p1, namespace |-> ns1, operations |-> {Call(r1), Call(r2)}]
Second  == [project |-> p1, namespace |-> ns2, operations |-> {Call(r1), Nameless(r2)}]
Invalid == [project |-> p1, namespace |-> bad, operations |-> {Call(r1)}]

MCBoth    == {First, Second}
MCInvalid == {First, Invalid}
MCMany    == {First, Second, Invalid}
=============================================================================
