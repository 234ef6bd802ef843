------------------------------- MODULE Policy -------------------------------
(***************************************************************************)
(* The policies of src/policy.go: the loops of All and Any over a list of  *)
(* policies, and the glob checks that most policies are made of.  A listed *)
(* policy is known by what it answers for the call at hand: it allows,     *)
(* fails with an error, or is a nil PolicyFunc.  The enforcer's own loop   *)
(* (src/server/interceptor.go) is the one of All.                          *)
(***************************************************************************)
EXTENDS Integers, Sequences, Glob

CONSTANTS
    Errors,       \* the errors a policy may fail with
    NilFunc,      \* a nil PolicyFunc
    Running,      \* the call has not returned
    MaxPolicies,  \* bound on the number of policies
    Letters,      \* what the names of resources are made of
    MaxLen,       \* bound on the length of names and patterns
    MaxPatterns   \* bound on the length of allow- and deny-lists

ASSUME PolicyAssumption ==
    /\ Forbidden \in Errors
    /\ Allow \notin Errors /\ NilFunc \notin Errors /\ Running \notin Errors
    /\ Allow # NilFunc /\ Allow # Running /\ NilFunc # Running
    /\ MaxPolicies \in Nat /\ MaxLen \in Nat /\ MaxPatterns \in Nat
    /\ Star \notin Letters

VARIABLES
    op,        \* "All", "Any", "Glob" or "GlobStrict"
    policies,  \* what each policy of All or Any answers
    asked,     \* the question put to a glob check: [name, allow, deny]
    i,         \* the position of the loop
    lastErr,   \* Any's lastErr, Allow for nil
    result,    \* what the call returns
    called     \* history: the policies that were called

vars == <<op, policies, asked, i, lastErr, result, called>>

Answers == Errors \cup {Allow, NilFunc}

UpTo(S, n) == UNION {[1..k -> S] : k \in 0..n}
Patterns   == UpTo(Letters \cup {Star}, MaxLen)
Questions  == [name: UpTo(Letters, MaxLen), allow: UpTo(Patterns, MaxPatterns),
               deny: UpTo(Patterns, MaxPatterns)]
Nothing    == [name |-> <<>>, allow |-> <<>>, deny |-> <<>>]

-----------------------------------------------------------------------------
Init ==
    /\ \/ /\ op \in {"All", "Any"}
          /\ policies \in UpTo(Answers, MaxPolicies)
          /\ asked = Nothing
       \/ /\ op \in {"Glob", "GlobStrict"}
          /\ policies = <<>>
          /\ asked \in Questions
    /\ i = 1
    /\ lastErr = Allow
    /\ result = Running
    /\ called = {}

\* Any() without arguments denies.
AnyOfNone ==
    /\ result = Running /\ op = "Any" /\ policies = <<>>
    /\ result' = Forbidden
    /\ UNCHANGED <<op, policies, asked, i, lastErr, called>>

InLoop == result = Running /\ i \in DOMAIN policies

\* A nil policy is skipped.
Skip ==
    /\ InLoop /\ policies[i] = NilFunc
    /\ i' = i + 1
    /\ UNCHANGED <<op, policies, asked, lastErr, result, called>>

\* A policy allows: Any returns, All goes on.
Allows ==
    /\ InLoop /\ policies[i] = Allow
    /\ called' = called \cup {i}
    /\ IF op = "Any" THEN result' = Allow /\ UNCHANGED i
                     ELSE i' = i + 1 /\ UNCHANGED result
    /\ UNCHANGED <<op, policies, asked, lastErr>>

\* Mutant of Fails: Any keeps its first error.
FailsKeepingFirst ==
    /\ InLoop /\ policies[i] \in Errors
    /\ called' = called \cup {i}
    /\ IF op = "All" THEN result' = policies[i] /\ UNCHANGED <<i, lastErr>>
                     ELSE /\ i' = i + 1
                          /\ lastErr' = IF lastErr = Allow THEN policies[i] ELSE lastErr
                          /\ UNCHANGED result
    /\ UNCHANGED <<op, policies, asked>>

\* Mutant of Fails: All goes on after an error.
FailsGoingOn ==
    /\ InLoop /\ policies[i] \in Errors
    /\ called' = called \cup {i}
    /\ i' = i + 1 /\ lastErr' = policies[i]
    /\ UNCHANGED <<op, policies, asked, result>>

\* A policy fails: All returns the error, Any remembers it and goes on.
Fails ==
    /\ InLoop /\ policies[i] \in Errors
    /\ called' = called \cup {i}
    /\ IF op = "All" THEN result' = policies[i] /\ UNCHANGED <<i, lastErr>>
                     ELSE i' = i + 1 /\ lastErr' = policies[i] /\ UNCHANGED result
    /\ UNCHANGED <<op, policies, asked>>

\* The list is exhausted: All allows, Any returns lastErr.
Exhausted ==
    /\ op \in {"All", "Any"}
    /\ result = Running /\ i = Len(policies) + 1
    /\ ~(op = "Any" /\ policies = <<>>)
    /\ result' = IF op = "All" THEN Allow ELSE lastErr
    /\ UNCHANGED <<op, policies, asked, i, lastErr, called>>

\* A glob check is asked about a resource and the caller's pattern lists.
Authorize ==
    /\ op \in {"Glob", "GlobStrict"} /\ result = Running
    /\ result' = IF op = "Glob"
                   THEN AuthorizeGlobPattern(asked.name, asked.allow, asked.deny)
                   ELSE AuthorizeGlobPatternStrict(asked.name, asked.allow, asked.deny)
    /\ UNCHANGED <<op, policies, asked, i, lastErr, called>>

Next == AnyOfNone \/ Skip \/ Allows \/ Fails \/ Exhausted \/ Authorize

Spec == Init /\ [][Next]_vars

-----------------------------------------------------------------------------
(* Properties                                                              *)

Failing  == {k \in DOMAIN policies : policies[k] \in Errors}
Allowing == {k \in DOMAIN policies : policies[k] = Allow}

\* Types; a glob check has no policies to go through.
TypeOK ==
    /\ op \in {"All", "Any", "Glob", "GlobStrict"}
    /\ policies \in Seq(Answers)
    /\ op \in {"Glob", "GlobStrict"} => policies = <<>>
    /\ i \in 1..(Len(policies) + 1)
    /\ lastErr \in Errors \cup {Allow}
    /\ result \in Errors \cup {Allow, Running}
    /\ called \subseteq DOMAIN policies

\* All is a conjunction: it allows exactly when no policy fails, and fails with
\* the error of the first one that does; nil policies do not count.
AllIsConjunction ==
    op = "All" /\ result # Running =>
        /\ result = Allow <=> Failing = {}
        /\ result # Allow => \E k \in Failing : /\ result = policies[k]
                                                /\ \A j \in Failing : k <= j

\* Any is a disjunction of its policies, when it has one that is not nil: it
\* allows exactly when one allows, and otherwise fails with the last error.
AnyIsDisjunction ==
    op = "Any" /\ result # Running /\ (policies = <<>> \/ Failing \cup Allowing # {}) =>
        /\ result = Allow <=> Allowing # {}
        /\ result # Allow /\ policies # <<>>
              => \E k \in Failing : result = policies[k] /\ \A j \in Failing : j <= k

\* Evaluation is short-circuit: no policy is called once the answer is known,
\* after the first error of All or the first consent of Any.
ShortCircuit ==
    \A k \in called : \A j \in 1..(k-1) :
        policies[j] \notin (IF op = "All" THEN Errors ELSE {Allow})

\* With documented patterns a name passes the strict check exactly when some
\* allow pattern covers it and no deny pattern does, stars read as wildcards.
StrictMeansCovered ==
    /\ op = "GlobStrict" /\ result # Running
    /\ \A k \in DOMAIN asked.allow : Documented(asked.allow[k])
    /\ \A k \in DOMAIN asked.deny : Documented(asked.deny[k])
    => (result = Allow <=>
          /\ \E k \in DOMAIN asked.allow : Wildcard(asked.allow[k], asked.name)
          /\ ~\E k \in DOMAIN asked.deny : Wildcard(asked.deny[k], asked.name))

\* The lax check differs from the strict one for an empty allow-list only, and
\* even then a deny pattern wins.
LaxOnlyWithoutAllow ==
    /\ op = "Glob" /\ result # Running
    /\ result # AuthorizeGlobPatternStrict(asked.name, asked.allow, asked.deny)
    => asked.allow = <<>> /\ result = Allow /\ ~Matches(asked.deny, asked.name)

\* Taking a pattern off the allow-list, or adding one to the deny-list, never
\* lets a name through that the strict check refused.
RevokingNeverGrants ==
    op = "GlobStrict" /\ result = Forbidden =>
        /\ \A k \in DOMAIN asked.allow :
              AuthorizeGlobPatternStrict(asked.name, RemoveAt(asked.allow, k), asked.deny) = Forbidden
        /\ \A p \in Patterns :
              AuthorizeGlobPatternStrict(asked.name, asked.allow, Append(asked.deny, p)) = Forbidden

\* The loop's invariant: everything before i was looked at, and decided nothing.
LoopInv ==
    /\ result = Running =>
         /\ called = (Failing \cup Allowing) \cap 1..(i-1)
         /\ \A k \in 1..(i-1) : policies[k] \notin (IF op = "All" THEN Errors ELSE {Allow})
         /\ op = "Any" => IF Failing \cap 1..(i-1) = {} THEN lastErr = Allow
                          ELSE \E k \in Failing \cap 1..(i-1) :
                                  /\ lastErr = policies[k]
                                  /\ \A j \in Failing \cap 1..(i-1) : j <= k

IInv == TypeOK /\ LoopInv /\ AllIsConjunction /\ AnyIsDisjunction /\ ShortCircuit

-----------------------------------------------------------------------------
\* Any: "the composite allows if any one returns nil".  It allows only because
\* some policy said so.  A list of nil policies only is let through.
AnyNeedsConsent == op = "Any" /\ result = Allow => Allowing # {}

\* matchGlob: '"*" anywhere, prefix-*, *-suffix, or exact'.  A star in the
\* middle of a pattern is a wildcard too.
StarAnywhere ==
    result # Running => \A k \in DOMAIN asked.allow :
        matchGlob(asked.allow[k], asked.name) = Wildcard(asked.allow[k], asked.name)
=============================================================================
