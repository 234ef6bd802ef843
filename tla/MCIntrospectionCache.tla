------------------------ MODULE MCIntrospectionCache ------------------------
(* Small instances of IntrospectionCache for TLC.                          *)
EXTENDS IntrospectionCache, TLC

CONSTANTS c1, c2, c3, t1, t2, t3

\* One token expires while the clock runs, the other has no expiry hint.
MCExp    == t1 :> 3 @@ t2 :> 0

MCOneExp == t1 :> 3
MCNoExp  == [t \in Tokens |-> 0]

Symmetry == Permutations(Calls)
=============================================================================
