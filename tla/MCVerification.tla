--------------------------- MODULE MCVerification ---------------------------
(* Small instances of Verification for TLC.                                *)
EXTENDS Verification, TLC

CONSTANTS o1, n1, n2, p1, r1, r2, a1, w1

Access(k, q) == [key |-> k, policy |-> q]
Req(kind, name, roles, access) ==
    [kind |-> kind, name |-> name, project |-> p1, by |-> "name",
     roles |-> roles, access |-> access, password |-> w1]

Human  == Req("OnboardHuman", n1, {r1}, Access(None, a1))
Human2 == Req("OnboardHuman", n1, {}, Access(None, None))
Bare   == Req("OnboardHuman", n2, {}, Access(None, None))
Robot  == Req("Onboard", n1, {}, Access(None, None))
Delete == Req("DeleteUser", n1, {}, Access(None, None))

MCRequests == {Human, Human2, Bare, Robot, Delete}

Verifies(humans) == [project |-> p1, humans |-> humans]
\* One human, two, and a list that is refused.
MCInputs == {Verifies(<<Human>>), Verifies(<<Human2, Bare>>), Verifies(<<Human, Human2>>)}

\* For the counterexamples.
FewRequests == {Human, Human2}
FewInputs   == {Verifies(<<Human>>), Verifies(<<Human2>>)}

\* Somebody else's authorization, first in every list.
OneForeign == {[id |-> 1, user |-> -1, project |-> p1, roles |-> {r2}]}
=============================================================================
