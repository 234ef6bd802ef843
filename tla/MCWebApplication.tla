-------------------------- MODULE MCWebApplication --------------------------
(* Small instances of WebApplication for TLC.                              *)
EXTENDS WebApplication, TLC

CONSTANTS o1, o2

Symmetry == Permutations(Ops)

URI(scheme, loopback, mixed, path) ==
    [scheme |-> scheme, loopback |-> loopback, mixed |-> mixed,
     path |-> path, wellFormed |-> TRUE]

Callback == URI("https", FALSE, FALSE, 1)
Shouted  == URI("https", FALSE, TRUE, 1)
Second   == URI("https", FALSE, FALSE, 2)
Local    == URI("http", TRUE, TRUE, 1)
Remote   == URI("http", FALSE, FALSE, 1)
Broken   == [Callback EXCEPT !.wellFormed = FALSE]

\* Production, the same in another order and case, development, and inputs
\* that are refused: duplicates, plain HTTP, a malformed URI, no URI at all.
Production == [redirects |-> <<Callback, Second>>, logout |-> <<Second>>,
               refresh |-> TRUE, devMode |-> FALSE]
Reordered  == [Production EXCEPT !.redirects = <<Second, Shouted>>]
Develop    == [redirects |-> <<Local>>, logout |-> <<>>, refresh |-> FALSE, devMode |-> TRUE]
Refused    == {[Production EXCEPT !.redirects = <<Callback, Shouted>>],
               [Production EXCEPT !.logout = <<Local>>],
               [Develop EXCEPT !.redirects = <<Remote>>],
               [Develop EXCEPT !.redirects = <<Broken>>],
               [Develop EXCEPT !.redirects = <<>>]}

MCRequests == {Production, Reordered, Develop} \cup Refused

\* By hand: reordered, with a URI twice, a weakened profile, and an API
\* application under the same name.
Swapped  == [id |-> 0, type |-> "oidc", redirects |-> <<Second, Callback>>, logout |-> <<Second>>,
             refresh |-> TRUE, devMode |-> FALSE, profile |-> "PKCE"]
Straight == [Swapped EXCEPT !.redirects = <<Callback, Second>>]
Doubled  == [Swapped EXCEPT !.redirects = <<Callback, Second, Second>>]
Weakened == [Swapped EXCEPT !.profile = "weaker"]
API      == [Swapped EXCEPT !.type = "other", !.redirects = <<>>, !.logout = <<>>]

MCEdits == {Swapped, Straight, Doubled, Weakened, API}
=============================================================================
