---------------------------- MODULE MCAuthServer ----------------------------
(* Small instances of AuthServer for TLC.                                  *)
EXTENDS AuthServer, TLC

CONSTANTS c1, c2, t1, pub, guarded, other, refl

MCExp    == t1 :> 1
MCNoExp  == t1 :> 0
Symmetry == Permutations(Calls)

\* Policies of a guarded method: one may be nil, one answers a status of its own.
NeedsRead  == [needs |-> "read", err |-> "ErrForbidden"]
NeedsWrite == [needs |-> "write", err |-> "NotFound"]
NeedsDB    == [needs |-> "db", err |-> "other"]

Strict == [RequireAuth |-> TRUE, Introspector |-> "default", Issuer |-> "https",
           ClientID |-> "id", ClientSecret |-> "secret", Insecure |-> FALSE,
           Policies |-> guarded :> <<NilPolicy, NeedsRead, NeedsWrite>> @@ refl :> <<>>,
           PublicMethods |-> {pub}, AllowUnauthenticatedReflection |-> FALSE,
           ExpectedIssuer |-> "zitadel", ExpectedAudience |-> {"api", "project"}]
Lax      == [Strict EXCEPT !.Introspector = "custom", !.Issuer = "", !.ClientID = "",
                           !.ExpectedIssuer = "", !.ExpectedAudience = {},
                           !.AllowUnauthenticatedReflection = TRUE,
                           !.Policies = guarded :> <<NeedsDB>>]
Off      == [Strict EXCEPT !.RequireAuth = FALSE]
Overlap  == [Strict EXCEPT !.PublicMethods = {pub, guarded}]
Plain    == [Strict EXCEPT !.Issuer = "http"]
DevPlain == [Plain EXCEPT !.Insecure = TRUE]

MCConfigs     == {Strict, Lax, Off, Overlap, Plain}
StrictOnly    == {Strict}
LaxOnly       == {Lax}
MCLiveConfigs == {DevPlain, Plain}

Good       == [iss |-> "zitadel", aud |-> {"api"}, perms |-> {"read", "write", "db"}]
WrongIss   == [Good EXCEPT !.iss = "other"]
WrongAud   == [Good EXCEPT !.aud = {"elsewhere"}]
ReadOnly   == [Good EXCEPT !.perms = {"read"}]
Powerless  == [Good EXCEPT !.perms = {}]

MCClaims     == {Good, WrongIss, WrongAud, ReadOnly, Powerless}
MCFewClaims  == {Good, ReadOnly}
MCOneClaim   == {Good}
=============================================================================
