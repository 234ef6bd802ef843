--------------------------- MODULE MCProvisioning ---------------------------
(* Small instances of Provisioning for TLC.                                *)
EXTENDS Provisioning, TLC

CONSTANTS o1, o2, n1, p1, p2, r1, r2, a1, w1, w2

Symmetry == Permutations(Ops)

Access(k, q) == [key |-> k, policy |-> q]
Req(kind, roles, access, pw) ==
    [kind |-> kind, name |-> n1, project |-> p1, by |-> "id",
     roles |-> roles, access |-> access, password |-> pw]

Narrow  == Req("Onboard", {r1}, Access(a1, None), None)
Wide    == Req("Onboard", {r1, r2}, Access(a1, a1), None)
Bare    == [Req("Onboard", {}, Access(None, None), None) EXCEPT !.by = "sole"]
Human   == Req("OnboardHuman", {r1}, Access(None, a1), w1)
Human2  == Req("OnboardHuman", {r2}, Access(None, None), w2)
Reset   == Req("Reset", {}, Access(None, None), w2)
Revoke  == Req("RevokeGrants", {}, Access(None, None), None)
Remove  == Req("DeleteUser", {}, Access(None, None), None)

\* The same user, for another service, whose project is given by name.
Other   == [Narrow EXCEPT !.project = p2, !.by = "name"]

MCMachine  == {Narrow, Wide, Bare, Revoke, Other}
MCRace     == {Narrow, Human, Human2, Reset, Remove, Other}
MCAll      == {Narrow, Bare, Human, Human2, Reset, Revoke, Remove, Other}
MCShared   == {Narrow, Revoke, Other}

\* Somebody else's authorization, first in every unfiltered list.
NoForeign  == {}
OneForeign == {[id |-> 1, user |-> -1, project |-> p1, roles |-> {r2}]}
=============================================================================
