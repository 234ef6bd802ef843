-------------------------------- MODULE Glob --------------------------------
(***************************************************************************)
(* matchGlob, AuthorizeGlobPattern and AuthorizeGlobPatternStrict          *)
(* (src/policy.go).  A name or a pattern is a sequence of letters; Star is *)
(* the wildcard.                                                           *)
(***************************************************************************)
EXTENDS Integers, Sequences, SequencesExt

CONSTANTS
    Star,       \* '*'
    Allow,      \* a nil error
    Forbidden   \* an error that wraps ErrForbidden

\* Mutant of matchGlob: the order of the cases is swapped, and "*" alone gets
\* no case of its own.
matchGlobSwapped(pattern, n) ==
    IF IsPrefix(<<Star>>, pattern) THEN IsSuffix(Tail(pattern), n)
    ELSE IF IsSuffix(<<Star>>, pattern) THEN IsPrefix(Front(pattern), n)
    ELSE pattern = n

\* Literal text between a star at the beginning and one at the end.
matchGlob(pattern, n) ==
    LET hasPrefixStar == IsPrefix(<<Star>>, pattern)
        hasSuffixStar == IsSuffix(<<Star>>, pattern)
    IN  IF pattern = <<Star>> THEN TRUE
        ELSE IF hasPrefixStar /\ hasSuffixStar
             THEN \E i \in 0..Len(n) : IsPrefix(Front(Tail(pattern)), SubSeq(n, i + 1, Len(n)))
        ELSE IF hasSuffixStar THEN IsPrefix(Front(pattern), n)
        ELSE IF hasPrefixStar THEN IsSuffix(Tail(pattern), n)
        ELSE pattern = n

Matches(patterns, n) == \E i \in DOMAIN patterns : matchGlob(patterns[i], n)

AuthorizeGlobPattern(n, allowed, denied) ==
    IF Matches(denied, n) THEN Forbidden
    ELSE IF allowed = <<>> \/ Matches(allowed, n) THEN Allow ELSE Forbidden

\* Mutant of AuthorizeGlobPatternStrict: no list means no restriction.
StrictOpen(n, allowed, denied) == AuthorizeGlobPattern(n, allowed, denied)

AuthorizeGlobPatternStrict(n, allowed, denied) ==
    IF Matches(denied, n) THEN Forbidden
    ELSE IF Matches(allowed, n) THEN Allow ELSE Forbidden

-----------------------------------------------------------------------------
(* The reference: every star of a pattern stands for any text.             *)

\* The name can be cut so that each letter of the pattern stands for itself and
\* each star for the text between two cuts; the i-th piece ends at cut[i].
Wildcard(pattern, n) ==
    \E cut \in [0..Len(pattern) -> 0..Len(n)] :
        /\ cut[0] = 0 /\ cut[Len(pattern)] = Len(n)
        /\ \A i \in DOMAIN pattern :
              IF pattern[i] = Star THEN cut[i-1] <= cut[i]
              ELSE cut[i] = cut[i-1] + 1 /\ pattern[i] = n[cut[i]]

\* The patterns the documentation describes: stars at the ends only.
Documented(pattern) == \A i \in 2..(Len(pattern) - 1) : pattern[i] # Star
=============================================================================
