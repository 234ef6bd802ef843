---------------------------- MODULE PolicyProofs ----------------------------
(***************************************************************************)
(* Proofs about the loops of All and Any in Policy, for lists of any       *)
(* length: what they answer and that they stop as soon as they can; about  *)
(* the glob checks, whatever the matcher does; and about the matcher, for  *)
(* patterns and names of any length.                                       *)
(***************************************************************************)
EXTENDS Policy, SequenceTheorems, WellFoundedInduction, TLAPS

\* What decides the composite: an error for All, a consent for Any.
Deciding == IF op = "All" THEN Errors ELSE {Allow}

\* A list of bounded length is a sequence.
LEMMA ListsAreSequences ==
    ASSUME NEW S, NEW n \in Nat, NEW s \in UpTo(S, n)
    PROVE  s \in Seq(S)
<1>1. PICK k \in 0..n : s \in [1..k -> S]
  BY DEF UpTo
<1> QED
  BY <1>1

LEMMA InitIInv == Init => IInv
<1> SUFFICES ASSUME Init PROVE IInv
  OBVIOUS
<1>1. op \in {"All", "Any"} => policies \in Seq(Answers)
  BY PolicyAssumption, ListsAreSequences DEF Init
<1>2. TypeOK
  <2>1. policies \in Seq(Answers) /\ (op \in {"Glob", "GlobStrict"} => policies = <<>>)
    <3>1. CASE op \in {"All", "Any"}
      BY <1>1, <3>1
    <3>2. CASE op \in {"Glob", "GlobStrict"} /\ policies = <<>>
      BY <3>2
    <3> QED
      BY <3>1, <3>2 DEF Init
  <2>2. i \in 1..(Len(policies) + 1)
    BY <2>1 DEF Init
  <2> QED
    BY <2>1, <2>2 DEF Init, TypeOK
<1>3. 1..(i-1) = {}
  BY DEF Init
<1>4. LoopInv
  BY <1>3, PolicyAssumption DEF Init, LoopInv
<1> QED
  BY <1>2, <1>4 DEF Init, IInv, AllIsConjunction, AnyIsDisjunction, ShortCircuit

\* One more position of the loop is behind us.
LEMMA OneFurther ==
    ASSUME TypeOK, InLoop
    PROVE  /\ i \in DOMAIN policies /\ i \in Nat /\ i + 1 \in 1..(Len(policies) + 1)
           /\ 1..((i + 1) - 1) = 1..(i-1) \cup {i}
           /\ DOMAIN policies = 1..Len(policies)
           /\ policies[i] \in Answers
BY DEF TypeOK, InLoop

\* A nil policy is neither failing nor allowing.
LEMMA SkipIInv == IInv /\ Skip => IInv'
<1> SUFFICES ASSUME IInv, Skip PROVE IInv'
  OBVIOUS
<1> USE DEF Skip
<1>1. TypeOK /\ LoopInv /\ ShortCircuit /\ InLoop /\ result = Running
  BY DEF IInv, InLoop
<1>2. /\ i \in DOMAIN policies /\ i \in Nat /\ i + 1 \in 1..(Len(policies) + 1)
      /\ 1..(i' - 1) = 1..(i-1) \cup {i}
  BY <1>1, OneFurther
<1>3. UNCHANGED <<Failing, Allowing>> /\ i \notin Failing \cup Allowing
  BY PolicyAssumption DEF Failing, Allowing
<1>4. TypeOK'
  BY <1>1, <1>2 DEF TypeOK
<1>5. policies[i] \notin Errors /\ policies[i] # Allow
  BY PolicyAssumption
<1>6. Failing' \cap 1..(i'-1) = Failing \cap 1..(i-1)
      /\ Allowing' \cap 1..(i'-1) = Allowing \cap 1..(i-1)
  BY <1>2, <1>3
<1>7. LoopInv'
  BY <1>1, <1>2, <1>5, <1>6 DEF LoopInv
<1>8. AllIsConjunction' /\ AnyIsDisjunction'
  BY <1>1 DEF AllIsConjunction, AnyIsDisjunction
<1>9. ShortCircuit'
  BY <1>1 DEF ShortCircuit
<1> QED
  BY <1>4, <1>7, <1>8, <1>9 DEF IInv

\* All goes on; Any has found its consent.
LEMMA AllowsIInv == IInv /\ Allows => IInv'
<1> SUFFICES ASSUME IInv, Allows PROVE IInv'
  OBVIOUS
<1> USE DEF Allows
<1>1. TypeOK /\ LoopInv /\ ShortCircuit /\ InLoop /\ result = Running
  BY DEF IInv, InLoop
<1>2. /\ i \in DOMAIN policies /\ i \in Nat /\ i + 1 \in 1..(Len(policies) + 1)
      /\ 1..((i + 1) - 1) = 1..(i-1) \cup {i} /\ DOMAIN policies = 1..Len(policies)
  BY <1>1, OneFurther
<1>3. UNCHANGED <<Failing, Allowing>> /\ i \in Allowing /\ i \notin Failing
  BY <1>2, PolicyAssumption DEF Failing, Allowing
<1>4. op \in {"All", "Any"}
  BY <1>1, <1>2 DEF TypeOK
<1>5. TypeOK'
  BY <1>1, <1>2, <1>4 DEF TypeOK
<1>6. \A k \in 1..(i-1) : policies[k] \notin (IF op = "All" THEN Errors ELSE {Allow})
  BY <1>1 DEF LoopInv
<1>7. ShortCircuit'
  BY <1>1, <1>6 DEF ShortCircuit
<1>8. CASE op = "All"
  <2>1. i' = i + 1 /\ result' = Running /\ op' = "All"
    BY <1>1, <1>8
  <2>2. called' = (Failing' \cup Allowing') \cap 1..(i'-1)
    BY <2>1, <1>1, <1>2, <1>3 DEF LoopInv
  <2>3. LoopInv'
    BY <2>1, <2>2, <1>2, <1>6, <1>8, PolicyAssumption DEF LoopInv
  <2> QED
    BY <2>1, <2>3, <1>5, <1>7 DEF IInv, AllIsConjunction, AnyIsDisjunction
<1>9. CASE op = "Any"
  <2>1. result' = Allow /\ op' = "Any" /\ result' # Running
    BY <1>9, PolicyAssumption
  <2>2. AnyIsDisjunction'
    BY <2>1, <1>3 DEF AnyIsDisjunction
  <2> QED
    BY <2>1, <2>2, <1>5, <1>7 DEF IInv, AllIsConjunction, LoopInv
<1> QED
  BY <1>4, <1>8, <1>9

\* All has found its error; Any remembers the latest one.
LEMMA FailsIInv == IInv /\ Fails => IInv'
<1> SUFFICES ASSUME IInv, Fails PROVE IInv'
  OBVIOUS
<1> USE DEF Fails
<1>1. TypeOK /\ LoopInv /\ ShortCircuit /\ InLoop /\ result = Running
  BY DEF IInv, InLoop
<1>2. /\ i \in DOMAIN policies /\ i \in Nat /\ i + 1 \in 1..(Len(policies) + 1)
      /\ 1..((i + 1) - 1) = 1..(i-1) \cup {i} /\ DOMAIN policies = 1..Len(policies)
  BY <1>1, OneFurther
<1>3. UNCHANGED <<Failing, Allowing>> /\ i \in Failing /\ i \notin Allowing
  BY <1>2, PolicyAssumption DEF Failing, Allowing
<1>4. op \in {"All", "Any"}
  BY <1>1, <1>2 DEF TypeOK
<1>5. TypeOK'
  BY <1>1, <1>2, <1>4 DEF TypeOK
<1>6. \A k \in 1..(i-1) : policies[k] \notin (IF op = "All" THEN Errors ELSE {Allow})
  BY <1>1 DEF LoopInv
<1>7. ShortCircuit'
  BY <1>1, <1>6 DEF ShortCircuit
<1>8. CASE op = "All"
  <2>1. /\ result' = policies[i] /\ op' = "All"
        /\ result' # Running /\ result' # Allow
    BY <1>8, PolicyAssumption
  <2>2. \A j \in Failing : i <= j
    BY <1>2, <1>6, <1>8 DEF Failing
  <2>3. AllIsConjunction'
    BY <2>1, <2>2, <1>3 DEF AllIsConjunction
  <2> QED
    BY <2>1, <2>3, <1>5, <1>7 DEF IInv, AnyIsDisjunction, LoopInv
<1>9. CASE op = "Any"
  <2>1. /\ i' = i + 1 /\ lastErr' = policies[i] /\ result' = Running /\ op' = "Any"
        /\ UNCHANGED policies
    BY <1>1, <1>9
  <2>2. called' = (Failing' \cup Allowing') \cap 1..(i'-1)
    BY <2>1, <1>1, <1>2, <1>3 DEF LoopInv
  <2>3. i \in Failing' \cap 1..(i'-1) /\ \A j \in Failing' \cap 1..(i'-1) : j <= i
    BY <2>1, <1>2, <1>3
  <2>4. \A k \in 1..(i'-1) : policies'[k] \notin {Allow}
    BY <2>1, <1>2, <1>6, <1>9, PolicyAssumption
  <2>5. LoopInv'
    BY <2>1, <2>2, <2>3, <2>4 DEF LoopInv
  <2> QED
    BY <2>1, <2>5, <1>5, <1>7 DEF IInv, AllIsConjunction, AnyIsDisjunction
<1> QED
  BY <1>4, <1>8, <1>9

\* All of the list was looked at.
LEMMA ExhaustedIInv == IInv /\ Exhausted => IInv'
<1> SUFFICES ASSUME IInv, Exhausted PROVE IInv'
  OBVIOUS
<1> USE DEF Exhausted
<1>1. TypeOK /\ LoopInv /\ ShortCircuit /\ result = Running
  BY DEF IInv
<1>2. 1..(i-1) = DOMAIN policies
  BY <1>1 DEF TypeOK
<1>3. UNCHANGED <<Failing, Allowing>> /\ Failing \subseteq DOMAIN policies
  BY DEF Failing, Allowing
<1>4. TypeOK'
  BY <1>1 DEF TypeOK
<1>5. \A k \in DOMAIN policies : policies[k] \notin (IF op = "All" THEN Errors ELSE {Allow})
  BY <1>1, <1>2 DEF LoopInv
<1>6. ShortCircuit'
  BY <1>1 DEF ShortCircuit
<1>7. CASE op = "All"
  <2>1. Failing = {} /\ result' = Allow /\ op' = "All" /\ result' # Running
    BY <1>5, <1>7, PolicyAssumption DEF Failing
  <2> QED
    BY <2>1, <1>3, <1>4, <1>6 DEF IInv, LoopInv, AllIsConjunction, AnyIsDisjunction
<1>8. CASE op = "Any"
  <2>1. Allowing = {} /\ result' = lastErr /\ op' = "Any" /\ result' # Running
    BY <1>1, <1>5, <1>8, PolicyAssumption DEF Allowing, TypeOK
  <2>2. IF Failing = {} THEN lastErr = Allow
        ELSE \E k \in Failing : lastErr = policies[k] /\ \A j \in Failing : j <= k
    <3>1. Failing \cap 1..(i-1) = Failing
      BY <1>2, <1>3
    <3> QED
      BY <3>1, <1>1, <1>8 DEF LoopInv
  <2>3. Failing # {} => lastErr # Allow
    BY <2>2, PolicyAssumption DEF Failing
  <2>4. AnyIsDisjunction'
    BY <2>1, <2>2, <2>3, <1>3, <1>8 DEF AnyIsDisjunction
  <2> QED
    BY <2>1, <2>4, <1>4, <1>6 DEF IInv, LoopInv, AllIsConjunction
<1> QED
  BY <1>7, <1>8

LEMMA OthersIInv == IInv /\ (AnyOfNone \/ Authorize) => IInv'
<1>1. ASSUME IInv, AnyOfNone PROVE IInv'
  <2>1. Allowing = {} /\ Allowing' = {} /\ called = {} /\ Forbidden # Running /\ Forbidden # Allow
    BY <1>1, PolicyAssumption DEF AnyOfNone, Allowing, IInv, TypeOK
  <2>2. TypeOK'
    BY <1>1, PolicyAssumption DEF AnyOfNone, IInv, TypeOK
  <2> QED
    BY <1>1, <2>1, <2>2
    DEF AnyOfNone, IInv, LoopInv, AllIsConjunction, AnyIsDisjunction, ShortCircuit
<1>2. ASSUME IInv, Authorize PROVE IInv'
  <2>1. result' \in {Allow, Forbidden} /\ result' # Running
    BY <1>2, PolicyAssumption DEF Authorize, AuthorizeGlobPattern, AuthorizeGlobPatternStrict
  <2>2. TypeOK'
    BY <1>2, <2>1, PolicyAssumption DEF Authorize, IInv, TypeOK
  <2> QED
    BY <1>2, <2>1, <2>2
    DEF Authorize, IInv, LoopInv, AllIsConjunction, AnyIsDisjunction, ShortCircuit
<1> QED
  BY <1>1, <1>2

\* The loop invariant of All and Any is inductive.
THEOREM Inductive == Spec => []IInv
<1>1. IInv /\ [Next]_vars => IInv'
  <2>1. IInv /\ UNCHANGED vars => IInv'
    BY DEF IInv, vars, TypeOK, LoopInv, AllIsConjunction, AnyIsDisjunction, ShortCircuit,
           Failing, Allowing
  <2> QED
    BY <2>1, SkipIInv, AllowsIInv, FailsIInv, ExhaustedIInv, OthersIInv DEF Next
<1> QED
  BY <1>1, InitIInv, PTL DEF Spec

\* All allows exactly when no policy fails, and fails with the first error, for
\* lists of every length (policy.go, All; the enforcer's loop is the same).
THEOREM Conjunction == Spec => []AllIsConjunction
<1>1. IInv => AllIsConjunction
  BY DEF IInv
<1> QED
  BY <1>1, Inductive, PTL

\* Any allows exactly when a policy does, and fails with the last error, for
\* lists of every length (policy.go, Any).
THEOREM Disjunction == Spec => []AnyIsDisjunction
<1>1. IInv => AnyIsDisjunction
  BY DEF IInv
<1> QED
  BY <1>1, Inductive, PTL

\* No policy is called once the answer is known.
THEOREM StopsEarly == Spec => []ShortCircuit
<1>1. IInv => ShortCircuit
  BY DEF IInv
<1> QED
  BY <1>1, Inductive, PTL

-----------------------------------------------------------------------------
(* The glob checks, whatever the matcher does                              *)

\* The lax check differs from the strict one for an empty allow-list only, and
\* even then a deny pattern wins.
THEOREM LaxAtMostOpen == Spec => []LaxOnlyWithoutAllow
<1> DEFINE Answered == op = "Glob" /\ result # Running
                         => result = AuthorizeGlobPattern(asked.name, asked.allow, asked.deny)
           GInv == Answered /\ (op \in {"Glob", "GlobStrict"} => policies = <<>>)
<1>1. Init => GInv
  BY DEF Init
<1>2. GInv /\ [Next]_vars => GInv'
  BY DEF Next, vars, AnyOfNone, Skip, Allows, Fails, Exhausted, Authorize, InLoop
<1>3. GInv => LaxOnlyWithoutAllow
  BY DEF LaxOnlyWithoutAllow, AuthorizeGlobPattern, AuthorizeGlobPatternStrict
<1> HIDE DEF GInv
<1> QED
  BY <1>1, <1>2, <1>3, PTL DEF Spec

\* What is left of a list was in it.
LEMMA RemovedIsFewer ==
    ASSUME NEW S, NEW s \in Seq(S), NEW k \in DOMAIN s
    PROVE  \A j \in DOMAIN RemoveAt(s, k) : \E h \in DOMAIN s : RemoveAt(s, k)[j] = s[h]
<1> DEFINE front == SubSeq(s, 1, k - 1)
           back  == SubSeq(s, k + 1, Len(s))
<1>0. Len(s) \in Nat /\ DOMAIN s = 1..Len(s) /\ k \in Nat /\ k >= 1 /\ k <= Len(s)
  OBVIOUS
<1>1. front \in Seq(S) /\ Len(front) = k - 1 /\ \A j \in 1..(k - 1) : front[j] = s[j]
  BY <1>0, SubSeqProperties
<1>2. /\ back \in Seq(S) /\ Len(back) = Len(s) - k
      /\ \A j \in 1..(Len(s) - k) : back[j] = s[k + j]
  BY <1>0, SubSeqProperties
<1>3. RemoveAt(s, k) = front \o back
  BY DEF RemoveAt
<1> HIDE DEF front, back
<1>4. /\ DOMAIN (front \o back) = 1..(Len(s) - 1)
      /\ \A j \in 1..(Len(s) - 1) :
            (front \o back)[j] = IF j <= k - 1 THEN front[j] ELSE back[j - (k - 1)]
  <2>1. /\ front \o back \in Seq(S) /\ Len(front \o back) = Len(front) + Len(back)
        /\ \A j \in 1..(Len(front) + Len(back)) :
              (front \o back)[j] = IF j <= Len(front) THEN front[j] ELSE back[j - Len(front)]
    BY <1>1, <1>2, ConcatProperties
  <2>2. Len(front) = k - 1 /\ Len(front) + Len(back) = Len(s) - 1
    BY <1>0, <1>1, <1>2
  <2> QED
    BY <2>1, <2>2
<1>5. ASSUME NEW j \in 1..(Len(s) - 1)
      PROVE  \E h \in DOMAIN s : (front \o back)[j] = s[h]
  <2>1. CASE j <= k - 1
    <3>1. j \in 1..(k - 1) /\ j \in DOMAIN s
      BY <1>0, <2>1
    <3> QED
      BY <1>1, <1>4, <2>1, <3>1
  <2>2. CASE ~(j <= k - 1)
    <3>1. j - (k - 1) \in 1..(Len(s) - k) /\ k + (j - (k - 1)) \in DOMAIN s
      BY <1>0, <2>2
    <3> QED
      BY <1>2, <1>4, <2>2, <3>1
  <2> QED
    BY <2>1, <2>2
<1> QED
  BY <1>3, <1>4, <1>5

\* A longer deny-list matches no less, and a shorter allow-list no more.
LEMMA ListsAreMonotone ==
    ASSUME NEW S, NEW s \in Seq(S), NEW n
    PROVE  /\ \A p \in S : Matches(s, n) => Matches(Append(s, p), n)
           /\ \A k \in DOMAIN s : Matches(RemoveAt(s, k), n) => Matches(s, n)
<1>1. ASSUME NEW p \in S, Matches(s, n) PROVE Matches(Append(s, p), n)
  <2>1. PICK k \in DOMAIN s : matchGlob(s[k], n)
    BY <1>1 DEF Matches
  <2>2. k \in DOMAIN Append(s, p) /\ Append(s, p)[k] = s[k]
    BY AppendProperties
  <2> QED
    BY <2>1, <2>2 DEF Matches
<1>2. ASSUME NEW k \in DOMAIN s, Matches(RemoveAt(s, k), n) PROVE Matches(s, n)
  <2>1. PICK j \in DOMAIN RemoveAt(s, k) : matchGlob(RemoveAt(s, k)[j], n)
    BY <1>2 DEF Matches
  <2>2. PICK h \in DOMAIN s : RemoveAt(s, k)[j] = s[h]
    BY RemovedIsFewer
  <2> QED
    BY <2>1, <2>2 DEF Matches
<1> QED
  BY <1>1, <1>2

\* A name the strict check refused stays refused when a pattern is taken off the
\* allow-list or added to the deny-list (AuthorizeGlobPatternStrict).
THEOREM RevocationIsMonotone == Spec => []RevokingNeverGrants
<1> DEFINE Lists == asked.allow \in Seq(Patterns) /\ asked.deny \in Seq(Patterns)
           Strict == op = "GlobStrict" /\ result # Running
                       => result = AuthorizeGlobPatternStrict(asked.name, asked.allow, asked.deny)
           GInv == Lists /\ Strict /\ (op \in {"Glob", "GlobStrict"} => policies = <<>>)
<1>1. Init => GInv
  <2> SUFFICES ASSUME Init PROVE GInv
    OBVIOUS
  <2>1. CASE asked = Nothing
    BY <2>1 DEF Init, Nothing
  <2>2. CASE asked \in Questions
    <3>1. asked.allow \in UpTo(Patterns, MaxPatterns) /\ asked.deny \in UpTo(Patterns, MaxPatterns)
      BY <2>2 DEF Questions
    <3>2. Lists
      BY <3>1, PolicyAssumption, ListsAreSequences
    <3> QED
      BY <3>2 DEF Init
  <2> QED
    BY <2>1, <2>2 DEF Init
<1>2. GInv /\ [Next]_vars => GInv'
  BY DEF Next, vars, AnyOfNone, Skip, Allows, Fails, Exhausted, Authorize, InLoop
<1>3. GInv => RevokingNeverGrants
  <2> SUFFICES ASSUME GInv, op = "GlobStrict", result = Forbidden
               PROVE  RevokingNeverGrants
    BY DEF RevokingNeverGrants
  <2>1. result # Running
    BY PolicyAssumption
  <2>2. Allow # Forbidden
    BY PolicyAssumption
  <2>3. Matches(asked.deny, asked.name) \/ ~Matches(asked.allow, asked.name)
    BY <2>1, <2>2 DEF AuthorizeGlobPatternStrict
  <2>4. ASSUME NEW k \in DOMAIN asked.allow
        PROVE  Matches(asked.deny, asked.name) \/ ~Matches(RemoveAt(asked.allow, k), asked.name)
    BY <2>3, ListsAreMonotone
  <2>5. ASSUME NEW p \in Patterns
        PROVE  Matches(Append(asked.deny, p), asked.name) \/ ~Matches(asked.allow, asked.name)
    BY <2>3, ListsAreMonotone
  <2> QED
    BY <2>4, <2>5 DEF RevokingNeverGrants, AuthorizeGlobPatternStrict
<1> HIDE DEF GInv
<1> QED
  BY <1>1, <1>2, <1>3, PTL DEF Spec
-----------------------------------------------------------------------------
(* The matcher is what the documents describe                              *)

\* Letter by letter, one sequence is the beginning of another.
LEMMA PrefixByLetters ==
    ASSUME NEW S, NEW s \in Seq(S), NEW T, NEW t \in Seq(T)
    PROVE  IsPrefix(s, t) <=> Len(s) <= Len(t) /\ \A z \in 1..Len(s) : s[z] = t[z]
<1>0. Len(s) \in Nat /\ Len(t) \in Nat /\ DOMAIN s = 1..Len(s) /\ DOMAIN t = 1..Len(t)
  OBVIOUS
<1>1. CASE ~(Len(s) <= Len(t))
  BY <1>1 DEF IsPrefix
<1>2. CASE Len(s) <= Len(t)
  <2>1. /\ Len(SubSeq(s, 1, Len(s))) = Len(s) /\ SubSeq(s, 1, Len(s)) \in Seq(S)
        /\ \A z \in 1..Len(s) : SubSeq(s, 1, Len(s))[z] = s[z]
    BY <1>0, SubSeqFull
  <2>2. /\ Len(SubSeq(t, 1, Len(s))) = Len(s) /\ SubSeq(t, 1, Len(s)) \in Seq(T)
        /\ \A z \in 1..Len(s) : SubSeq(t, 1, Len(s))[z] = t[z]
    <3>1. \A z \in 1..Len(s) : t[z] \in T
      BY <1>0, <1>2
    <3>2. /\ SubSeq(t, 1, Len(s)) \in Seq(T)
          /\ Len(SubSeq(t, 1, Len(s))) = IF 1 <= Len(s) THEN Len(s) - 1 + 1 ELSE 0
          /\ \A z \in 1..(Len(s) - 1 + 1) : SubSeq(t, 1, Len(s))[z] = t[1 + z - 1]
      BY <1>0, <3>1, SubSeqProperties
    <3> QED
      BY <1>0, <3>2
  <2>3. SubSeq(s, 1, Len(s)) = SubSeq(t, 1, Len(s))
          <=> \A z \in 1..Len(s) : SubSeq(s, 1, Len(s))[z] = SubSeq(t, 1, Len(s))[z]
    BY <2>1, <2>2
  <2> QED
    BY <1>2, <2>1, <2>2, <2>3 DEF IsPrefix
<1> QED
  BY <1>1, <1>2

\* The same of the end.
LEMMA SuffixByLetters ==
    ASSUME NEW S, NEW s \in Seq(S), NEW T, NEW t \in Seq(T)
    PROVE  IsSuffix(s, t) <=> /\ Len(s) <= Len(t)
                              /\ \A z \in 1..Len(s) : s[z] = t[Len(t) - Len(s) + z]
<1> DEFINE rs == Reverse(s)
           rt == Reverse(t)
<1>0. Len(s) \in Nat /\ Len(t) \in Nat /\ DOMAIN s = 1..Len(s) /\ DOMAIN t = 1..Len(t)
  OBVIOUS
<1>1. rs \in Seq(S) /\ Len(rs) = Len(s) /\ \A z \in 1..Len(s) : rs[z] = s[Len(s) - z + 1]
  <2>1. \A z \in 1..Len(s) : Len(s) - z + 1 \in 1..Len(s)
    BY <1>0
  <2> QED
    BY <1>0, <2>1 DEF Reverse
<1>2. rt \in Seq(T) /\ Len(rt) = Len(t) /\ \A z \in 1..Len(t) : rt[z] = t[Len(t) - z + 1]
  <2>1. \A z \in 1..Len(t) : Len(t) - z + 1 \in 1..Len(t)
    BY <1>0
  <2> QED
    BY <1>0, <2>1 DEF Reverse
<1> HIDE DEF rs, rt
<1>3. IsPrefix(rs, rt) <=> Len(s) <= Len(t) /\ \A z \in 1..Len(s) : rs[z] = rt[z]
  BY <1>1, <1>2, PrefixByLetters
<1>4. ASSUME Len(s) <= Len(t)
      PROVE  (\A z \in 1..Len(s) : rs[z] = rt[z])
               <=> \A z \in 1..Len(s) : s[z] = t[Len(t) - Len(s) + z]
  <2>1. \A z \in 1..Len(s) : rs[z] = s[Len(s) - z + 1] /\ rt[z] = t[Len(t) - z + 1]
    BY <1>0, <1>1, <1>2, <1>4
  <2>2. ASSUME NEW z \in 1..Len(s)
        PROVE  /\ Len(s) - z + 1 \in 1..Len(s) /\ Len(s) - (Len(s) - z + 1) + 1 = z
               /\ Len(t) - (Len(s) - z + 1) + 1 = Len(t) - Len(s) + z
               /\ Len(t) - Len(s) + (Len(s) - z + 1) = Len(t) - z + 1
    <3>1. \A a, b \in Nat : \A k \in 1..a :
             /\ a - k + 1 \in 1..a /\ a - (a - k + 1) + 1 = k
             /\ b - (a - k + 1) + 1 = b - a + k /\ b - a + (a - k + 1) = b - k + 1
      OBVIOUS
    <3> QED
      BY <1>0, <3>1
  <2>3. ASSUME \A z \in 1..Len(s) : rs[z] = rt[z], NEW z \in 1..Len(s)
        PROVE  s[z] = t[Len(t) - Len(s) + z]
    <3> DEFINE j == Len(s) - z + 1
    <3>1. j \in 1..Len(s) /\ Len(s) - j + 1 = z /\ Len(t) - j + 1 = Len(t) - Len(s) + z
      BY <2>2
    <3>2. rs[j] = s[Len(s) - j + 1] /\ rt[j] = t[Len(t) - j + 1] /\ rs[j] = rt[j]
      BY <2>1, <2>3, <3>1
    <3> QED
      BY <3>1, <3>2
  <2>4. ASSUME \A z \in 1..Len(s) : s[z] = t[Len(t) - Len(s) + z], NEW z \in 1..Len(s)
        PROVE  rs[z] = rt[z]
    <3> DEFINE j == Len(s) - z + 1
    <3>1. j \in 1..Len(s) /\ Len(t) - Len(s) + j = Len(t) - z + 1
      BY <2>2
    <3>2. s[j] = t[Len(t) - Len(s) + j]
      BY <2>4, <3>1
    <3> QED
      BY <2>1, <3>1, <3>2
  <2> QED
    BY <2>3, <2>4
<1> QED
  BY <1>3, <1>4 DEF IsSuffix, rs, rt

\* The letters of the pattern between lo and hi lie in the name behind d.
LiesAt(p, n, lo, hi, d) == \A z \in (lo + 1)..hi : p[z] = n[d + z - lo]

\* Cuts that are one letter apart are as far apart as their numbers.
LEMMA CutsInARow ==
    ASSUME NEW L \in Nat, NEW M \in Nat, NEW cut \in [0..L -> 0..M],
           NEW lo \in 0..L, NEW hi \in 0..L,
           \A z \in (lo + 1)..hi : cut[z] = cut[z-1] + 1
    PROVE  \A z \in lo..hi : cut[z] = cut[lo] + z - lo
<1> DEFINE Bad == {z \in lo..hi : cut[z] # cut[lo] + z - lo}
<1> SUFFICES ASSUME Bad # {} PROVE FALSE
  OBVIOUS
<1>1. PICK b \in Bad : \A j \in Bad : ~(<<j, b>> \in OpToRel(<, Nat))
  <2>1. Bad \subseteq Nat
    OBVIOUS
  <2> QED
    BY <2>1, NatLessThanWellFounded, WFMin, Zenon
<1>2. b \in lo..hi /\ cut[b] # cut[lo] + b - lo /\ cut[lo] \in Nat
  OBVIOUS
<1>3. b # lo
  BY <1>2
<1>4. b - 1 \in lo..hi /\ b \in (lo + 1)..hi
  BY <1>2, <1>3
<1>5. b - 1 \notin Bad
  <2>1. b - 1 \in Nat /\ b \in Nat /\ b - 1 < b
    BY <1>4
  <2> QED
    BY <1>1, <2>1 DEF OpToRel
<1>6. cut[b - 1] = cut[lo] + (b - 1) - lo
  BY <1>4, <1>5
<1>7. cut[b] = cut[b - 1] + 1
  BY <1>4
<1> QED
  BY <1>2, <1>4, <1>6, <1>7

\* A pattern with stars at its ends only, other than "*", covers the names that
\* have its letters in a row: from the first one unless a star precedes them,
\* to the last one unless a star follows.
LEMMA CoveredInARow ==
    ASSUME NEW S, NEW p \in Seq(S), NEW T, NEW n \in Seq(T),
           NEW lo \in {0, 1}, NEW hi \in {Len(p) - 1, Len(p)}, lo <= hi,
           \A z \in DOMAIN p : p[z] = Star <=> z <= lo \/ z > hi
    PROVE  Wildcard(p, n) <=>
             \E d \in 0..Len(n) :
                /\ lo = 0 => d = 0
                /\ d + (hi - lo) <= Len(n) /\ (hi = Len(p) => d + (hi - lo) = Len(n))
                /\ LiesAt(p, n, lo, hi, d)
<1> SUFFICES ASSUME NEW L, NEW M, L = Len(p), M = Len(n)
             PROVE  Wildcard(p, n) <=>
                      \E d \in 0..M : /\ lo = 0 => d = 0
                                      /\ d + (hi - lo) <= M /\ (hi = L => d + (hi - lo) = M)
                                      /\ LiesAt(p, n, lo, hi, d)
  OBVIOUS
<1>0. /\ L \in Nat /\ M \in Nat /\ DOMAIN p = 1..L /\ hi \in Nat /\ lo \in Nat
      /\ lo \in 0..1 /\ hi \in (L - 1)..L /\ lo \in 0..L /\ hi \in 0..L /\ lo <= hi
  OBVIOUS
<1>1. \A z \in 1..L : p[z] = Star <=> z <= lo \/ z > hi
  BY <1>0
<1>2. Wildcard(p, n) <=> \E cut \in [0..L -> 0..M] :
               /\ cut[0] = 0 /\ cut[L] = M
               /\ \A z \in 1..L : IF p[z] = Star THEN cut[z-1] <= cut[z]
                                   ELSE cut[z] = cut[z-1] + 1 /\ p[z] = n[cut[z]]
  BY <1>0 DEF Wildcard
<1>3. ASSUME Wildcard(p, n)
      PROVE  \E d \in 0..M : /\ lo = 0 => d = 0
                             /\ d + (hi - lo) <= M /\ (hi = L => d + (hi - lo) = M)
                             /\ LiesAt(p, n, lo, hi, d)
  <2>1. PICK cut \in [0..L -> 0..M] :
               /\ cut[0] = 0 /\ cut[L] = M
               /\ \A z \in 1..L : IF p[z] = Star THEN cut[z-1] <= cut[z]
                                   ELSE cut[z] = cut[z-1] + 1 /\ p[z] = n[cut[z]]
    BY <1>3, <1>2
  <2>2. \A z \in (lo + 1)..hi : /\ cut[z] = cut[z-1] + 1 /\ p[z] = n[cut[z]]
    <3> SUFFICES ASSUME NEW z \in (lo + 1)..hi
                 PROVE  cut[z] = cut[z-1] + 1 /\ p[z] = n[cut[z]]
      OBVIOUS
    <3>1. z \in 1..L /\ ~(z <= lo \/ z > hi)
      BY <1>0
    <3> QED
      BY <1>1, <2>1, <3>1
  <2>3. \A z \in lo..hi : cut[z] = cut[lo] + z - lo
    <3>1. \A z \in (lo + 1)..hi : cut[z] = cut[z-1] + 1
      BY <2>2
    <3>2. /\ L \in Nat /\ M \in Nat /\ cut \in [0..L -> 0..M]
          /\ lo \in 0..L /\ hi \in 0..L
      BY <1>0
    <3> QED
      BY <3>1, <3>2, CutsInARow, Zenon
  <2>4. cut[lo] \in 0..M /\ cut[hi] \in 0..M /\ cut[hi] = cut[lo] + hi - lo
    <3>1. hi \in lo..hi /\ cut[lo] \in 0..M /\ cut[hi] \in 0..M
      BY <1>0
    <3> QED
      BY <2>3, <3>1
  <2>5. LiesAt(p, n, lo, hi, cut[lo])
    <3> SUFFICES ASSUME NEW z \in (lo + 1)..hi PROVE p[z] = n[cut[lo] + z - lo]
      BY DEF LiesAt
    <3>1. z \in lo..hi
      BY <1>0
    <3> QED
      BY <2>2, <2>3, <3>1
  <2>6. (lo = 0 => cut[lo] = 0) /\ (hi = L => cut[hi] = M)
    BY <2>1
  <2>7. cut[lo] + (hi - lo) <= M /\ (hi = L => cut[lo] + (hi - lo) = M)
    BY <1>0, <2>4, <2>6
  <2> QED
    BY <2>4, <2>5, <2>6, <2>7
<1>4. ASSUME NEW d \in 0..M, lo = 0 => d = 0, d + (hi - lo) <= M,
             hi = L => d + (hi - lo) = M, LiesAt(p, n, lo, hi, d)
      PROVE  Wildcard(p, n)
  <2> DEFINE cut == [z \in 0..L |-> IF z < lo THEN 0 ELSE IF z <= hi THEN d + z - lo ELSE M]
  <2>1. cut \in [0..L -> 0..M]
    BY <1>0, <1>4
  <2>2. cut[0] = 0
    BY <1>0, <1>4
  <2>3. cut[L] = M
    BY <1>0, <1>4
  <2>4. ASSUME NEW z \in 1..L
        PROVE  IF p[z] = Star THEN cut[z-1] <= cut[z]
               ELSE cut[z] = cut[z-1] + 1 /\ p[z] = n[cut[z]]
    <3>0. z \in 1..L /\ z \in 0..L /\ z - 1 \in 0..L
      BY <1>0
    <3>1. /\ cut[z] = IF z < lo THEN 0 ELSE IF z <= hi THEN d + z - lo ELSE M
          /\ cut[z-1] = IF z - 1 < lo THEN 0 ELSE IF z - 1 <= hi THEN d + (z - 1) - lo ELSE M
      BY <3>0
    <3> HIDE DEF cut
    <3>2. CASE z <= lo
      <4>1. p[z] = Star /\ cut[z-1] = 0 /\ cut[z] \in 0..M
        BY <1>0, <1>1, <2>1, <3>0, <3>1, <3>2
      <4> QED
        BY <4>1
    <3>3. CASE z > hi
      <4>1. p[z] = Star
        BY <1>1, <3>0, <3>3
      <4>2. cut[z] = M
        BY <1>0, <3>0, <3>1, <3>3
      <4>3. cut[z-1] \in 0..M
        BY <2>1, <3>0
      <4> QED
        BY <1>0, <4>1, <4>2, <4>3
    <3>4. CASE z > lo /\ z <= hi
      <4>1. p[z] # Star /\ z \in (lo + 1)..hi
        BY <1>0, <1>1, <3>0, <3>4
      <4>2. cut[z] = d + z - lo /\ cut[z-1] = d + (z - 1) - lo
        BY <1>0, <3>0, <3>1, <3>4
      <4>3. p[z] = n[d + z - lo]
        BY <1>4, <4>1 DEF LiesAt
      <4>4. cut[z] = cut[z-1] + 1
        BY <1>0, <3>0, <4>2
      <4> QED
        BY <4>1, <4>2, <4>3, <4>4
    <3> QED
      BY <1>0, <3>0, <3>2, <3>3, <3>4
  <2> HIDE DEF cut
  <2> QED
    BY <1>2, <2>1, <2>2, <2>3, <2>4
<1> QED
  BY <1>3, <1>4

\* A text without its last letter, and without its first ones.
LEMMA FrontByLetters ==
    ASSUME NEW S, NEW s \in Seq(S), Len(s) >= 1
    PROVE  /\ Front(s) \in Seq(S) /\ Len(Front(s)) = Len(s) - 1
           /\ \A k \in 1..(Len(s) - 1) : Front(s)[k] = s[k]
<1> DEFINE L == Len(s)
<1>0. L \in Nat /\ L >= 1 /\ DOMAIN s = 1..L
  OBVIOUS
<1>3. Front(s) = SubSeq(s, 1, L - 1)
  BY DEF Front
<1> SUFFICES /\ SubSeq(s, 1, L - 1) \in Seq(S) /\ Len(SubSeq(s, 1, L - 1)) = L - 1
             /\ \A k \in 1..(L - 1) : SubSeq(s, 1, L - 1)[k] = s[k]
  BY <1>3, Zenon
<1>4. \A z \in 1..L : s[z] \in S
  BY <1>0
<1> HIDE DEF L
<1>1. \A z \in 1..(L - 1) : s[z] \in S
  BY <1>0, <1>4
<1>2. /\ SubSeq(s, 1, L - 1) \in Seq(S)
      /\ Len(SubSeq(s, 1, L - 1)) = IF 1 <= L - 1 THEN (L - 1) - 1 + 1 ELSE 0
      /\ \A z \in 1..((L - 1) - 1 + 1) : SubSeq(s, 1, L - 1)[z] = s[1 + z - 1]
  BY <1>0, <1>1, SubSeqProperties
<1> QED
  BY <1>0, <1>2

LEMMA RestByLetters ==
    ASSUME NEW S, NEW s \in Seq(S), NEW d \in 0..Len(s)
    PROVE  /\ SubSeq(s, d + 1, Len(s)) \in Seq(S) /\ Len(SubSeq(s, d + 1, Len(s))) = Len(s) - d
           /\ \A k \in 1..(Len(s) - d) : SubSeq(s, d + 1, Len(s))[k] = s[d + k]
<1> SUFFICES ASSUME NEW L, L = Len(s), L \in Nat, d \in Nat, d <= L
             PROVE  /\ SubSeq(s, d + 1, L) \in Seq(S) /\ Len(SubSeq(s, d + 1, L)) = L - d
                    /\ \A k \in 1..(L - d) : SubSeq(s, d + 1, L)[k] = s[d + k]
  OBVIOUS
<1>1. \A z \in (d + 1)..L : s[z] \in S
  OBVIOUS
<1>2. /\ SubSeq(s, d + 1, L) \in Seq(S)
      /\ Len(SubSeq(s, d + 1, L)) = IF d + 1 <= L THEN L - (d + 1) + 1 ELSE 0
      /\ \A z \in 1..(L - (d + 1) + 1) : SubSeq(s, d + 1, L)[z] = s[(d + 1) + z - 1]
  BY <1>1, SubSeqProperties
<1> QED
  BY <1>2

LEMMA PrefixOfOne ==
    ASSUME NEW S, NEW p \in Seq(S)
    PROVE  /\ IsPrefix(<<Star>>, p) <=> Len(p) >= 1 /\ p[1] = Star
           /\ IsSuffix(<<Star>>, p) <=> Len(p) >= 1 /\ p[Len(p)] = Star
<1> DEFINE s == <<Star>>
<1>1. s \in Seq({Star}) /\ Len(s) = 1 /\ s[1] = Star
  OBVIOUS
<1> HIDE DEF s
<1>2. IsPrefix(s, p) <=> Len(s) <= Len(p) /\ \A z \in 1..Len(s) : s[z] = p[z]
  BY <1>1, PrefixByLetters
<1>3. IsSuffix(s, p) <=> Len(s) <= Len(p) /\ \A z \in 1..Len(s) : s[z] = p[Len(p) - Len(s) + z]
  BY <1>1, SuffixByLetters
<1>4. IsPrefix(s, p) <=> Len(p) >= 1 /\ p[1] = Star
  BY <1>1, <1>2
<1>5. IsSuffix(s, p) <=> Len(p) >= 1 /\ p[Len(p)] = Star
  BY <1>1, <1>3
<1> QED
  BY <1>4, <1>5 DEF s

LEMMA LiesAtFromZero ==
    ASSUME NEW p, NEW n, NEW hi \in Int
    PROVE  LiesAt(p, n, 0, hi, 0) <=> \A k \in 1..hi : p[k] = n[k]
BY DEF LiesAt

LEMMA LiesAtFromOne ==
    ASSUME NEW p, NEW n, NEW hi \in Int, NEW d \in Int
    PROVE  LiesAt(p, n, 1, hi, d) <=> \A k \in 1..(hi - 1) : p[k + 1] = n[d + k]
<1>1. ASSUME LiesAt(p, n, 1, hi, d), NEW k \in 1..(hi - 1) PROVE p[k + 1] = n[d + k]
  <2>1. k + 1 \in (1 + 1)..hi /\ d + (k + 1) - 1 = d + k
    OBVIOUS
  <2> QED
    BY <1>1, <2>1 DEF LiesAt
<1>2. ASSUME \A k \in 1..(hi - 1) : p[k + 1] = n[d + k], NEW z \in (1 + 1)..hi
      PROVE  p[z] = n[d + z - 1]
  <2>1. z - 1 \in 1..(hi - 1) /\ (z - 1) + 1 = z /\ d + (z - 1) = d + z - 1
    OBVIOUS
  <2> QED
    BY <1>2, <2>1
<1> QED
  BY <1>1, <1>2 DEF LiesAt

\* matchGlob, for a pattern of the documented form: a star before, after, on both
\* sides of a literal, alone, or none.
LEMMA MatchesInARow ==
    ASSUME NEW S, NEW p \in Seq(S), NEW T, NEW n \in Seq(T), p # <<Star>>,
           NEW lo \in {0, 1}, NEW hi \in {Len(p) - 1, Len(p)}, lo <= hi,
           lo = 1 <=> IsPrefix(<<Star>>, p), hi = Len(p) - 1 <=> IsSuffix(<<Star>>, p)
    PROVE  matchGlob(p, n) <=>
             \E d \in 0..Len(n) :
                /\ lo = 0 => d = 0
                /\ d + (hi - lo) <= Len(n) /\ (hi = Len(p) => d + (hi - lo) = Len(n))
                /\ LiesAt(p, n, lo, hi, d)
<1> SUFFICES ASSUME NEW L, NEW M, L = Len(p), M = Len(n)
             PROVE  matchGlob(p, n) <=>
                      \E d \in 0..M : /\ lo = 0 => d = 0
                                      /\ d + (hi - lo) <= M /\ (hi = L => d + (hi - lo) = M)
                                      /\ LiesAt(p, n, lo, hi, d)
  OBVIOUS
<1>0. /\ L \in Nat /\ M \in Nat /\ DOMAIN p = 1..L /\ DOMAIN n = 1..M /\ hi \in Nat /\ lo \in Nat
      /\ lo \in 0..1 /\ hi \in (L - 1)..L /\ lo <= hi
  OBVIOUS
<1>1. CASE lo = 1 /\ hi = L - 1
  <2> DEFINE mid == Front(Tail(p))
  <2>1. L >= 2
    BY <1>0, <1>1
  <2>2. mid \in Seq(S) /\ Len(mid) = L - 2 /\ \A k \in 1..(L - 2) : mid[k] = p[k + 1]
    <3> DEFINE t == Tail(p)
    <3>1. t \in Seq(S) /\ Len(t) = L - 1 /\ \A k \in 1..(L - 1) : t[k] = p[k + 1]
      BY <1>0, <2>1, HeadTailProperties
    <3> HIDE DEF t
    <3>2. Len(t) >= 1 /\ Len(t) - 1 = L - 2
      BY <1>0, <2>1, <3>1
    <3>3. /\ Front(t) \in Seq(S) /\ Len(Front(t)) = Len(t) - 1
          /\ \A k \in 1..(Len(t) - 1) : Front(t)[k] = t[k]
      BY <3>1, <3>2, FrontByLetters
    <3>4. \A k \in 1..(L - 2) : k \in 1..(L - 1)
      BY <1>0
    <3> QED
      BY <3>1, <3>2, <3>3, <3>4 DEF t
  <2> HIDE DEF mid
  <2>3. ASSUME NEW d \in 0..M
        PROVE  IsPrefix(mid, SubSeq(n, d + 1, M)) <=> d + (L - 2) <= M /\ LiesAt(p, n, 1, L - 1, d)
    <3> DEFINE rest == SubSeq(n, d + 1, M)
    <3>1. rest \in Seq(T) /\ Len(rest) = M - d /\ \A k \in 1..(M - d) : rest[k] = n[d + k]
      BY <1>0, RestByLetters
    <3> HIDE DEF rest
    <3>2. IsPrefix(mid, rest) <=> L - 2 <= M - d /\ \A k \in 1..(L - 2) : mid[k] = rest[k]
      <4>1. IsPrefix(mid, rest) <=> Len(mid) <= Len(rest) /\ \A k \in 1..Len(mid) : mid[k] = rest[k]
        BY <2>2, <3>1, PrefixByLetters
      <4> QED
        BY <2>2, <3>1, <4>1
    <3>3. ASSUME L - 2 <= M - d
          PROVE  (\A k \in 1..(L - 2) : mid[k] = rest[k])
                   <=> \A k \in 1..(L - 2) : p[k + 1] = n[d + k]
      <4>1. \A k \in 1..(L - 2) : k \in 1..(M - d)
        BY <1>0, <3>3
      <4> QED
        BY <2>2, <3>1, <4>1
    <3>4. LiesAt(p, n, 1, L - 1, d) <=> \A k \in 1..(L - 2) : p[k + 1] = n[d + k]
      <4> DEFINE h == L - 1
      <4>1. h \in Int /\ d \in Int /\ h - 1 = L - 2
        BY <1>0
      <4> HIDE DEF h
      <4>2. LiesAt(p, n, 1, h, d) <=> \A k \in 1..(h - 1) : p[k + 1] = n[d + k]
        BY <4>1, LiesAtFromOne
      <4> QED
        BY <4>1, <4>2 DEF h
    <3>5. L - 2 <= M - d <=> d + (L - 2) <= M
      BY <1>0
    <3> QED
      BY <3>2, <3>3, <3>4, <3>5 DEF rest
  <2>4. matchGlob(p, n) <=> \E d \in 0..M : IsPrefix(mid, SubSeq(n, d + 1, M))
    <3>1. IsPrefix(<<Star>>, p) /\ IsSuffix(<<Star>>, p)
      BY <1>1
    <3> QED
      BY <3>1 DEF matchGlob, mid
  <2>5. (L - 1) - 1 = L - 2 /\ L - 1 # L
    BY <1>0
  <2> QED
    BY <1>0, <1>1, <2>1, <2>3, <2>4, <2>5
<1>2. CASE lo = 0 /\ hi = L - 1
  <2>1. L >= 1
    BY <1>0, <1>2
  <2>2. Front(p) \in Seq(S) /\ Len(Front(p)) = L - 1 /\ \A k \in 1..(L - 1) : Front(p)[k] = p[k]
    BY <2>1, FrontByLetters
  <2>3. matchGlob(p, n) <=> IsPrefix(Front(p), n)
    <3>1. ~IsPrefix(<<Star>>, p) /\ IsSuffix(<<Star>>, p)
      BY <1>2
    <3> QED
      BY <3>1 DEF matchGlob
  <2>4. IsPrefix(Front(p), n) <=> L - 1 <= M /\ \A k \in 1..(L - 1) : Front(p)[k] = n[k]
    <3> DEFINE f == Front(p)
    <3>1. f \in Seq(S) /\ Len(f) = L - 1
      BY <2>2
    <3> HIDE DEF f
    <3>2. IsPrefix(f, n) <=> L - 1 <= M /\ \A k \in 1..(L - 1) : f[k] = n[k]
      <4>1. IsPrefix(f, n) <=> Len(f) <= Len(n) /\ \A k \in 1..Len(f) : f[k] = n[k]
        BY <3>1, PrefixByLetters
      <4> QED
        BY <1>0, <3>1, <4>1
    <3> QED
      BY <3>2 DEF f
  <2>5. LiesAt(p, n, 0, L - 1, 0) <=> \A k \in 1..(L - 1) : p[k] = n[k]
    BY <1>0, <2>1, LiesAtFromZero
  <2> QED
    BY <1>0, <1>2, <2>1, <2>2, <2>3, <2>4, <2>5
<1>3. CASE lo = 1 /\ hi = L
  <2>1. L >= 1
    BY <1>0, <1>3
  <2>2. Tail(p) \in Seq(S) /\ Len(Tail(p)) = L - 1 /\ \A k \in 1..(L - 1) : Tail(p)[k] = p[k + 1]
    BY <2>1, HeadTailProperties
  <2>3. matchGlob(p, n) <=> IsSuffix(Tail(p), n)
    <3>0. L # L - 1
      BY <1>0
    <3>1. IsPrefix(<<Star>>, p) /\ ~IsSuffix(<<Star>>, p)
      BY <1>3, <3>0
    <3> QED
      BY <3>1 DEF matchGlob
  <2>4. IsSuffix(Tail(p), n)
          <=> L - 1 <= M /\ \A k \in 1..(L - 1) : Tail(p)[k] = n[M - (L - 1) + k]
    <3> DEFINE t == Tail(p)
    <3>1. t \in Seq(S) /\ Len(t) = L - 1
      BY <2>2
    <3> HIDE DEF t
    <3>2. IsSuffix(t, n) <=> L - 1 <= M /\ \A k \in 1..(L - 1) : t[k] = n[M - (L - 1) + k]
      <4>1. IsSuffix(t, n) <=> Len(t) <= Len(n) /\ \A k \in 1..Len(t) : t[k] = n[Len(n) - Len(t) + k]
        BY <3>1, SuffixByLetters
      <4> QED
        BY <1>0, <3>1, <4>1
    <3> QED
      BY <3>2 DEF t
  <2>5. ASSUME NEW d \in 0..M
        PROVE  LiesAt(p, n, 1, L, d) <=> \A k \in 1..(L - 1) : p[k + 1] = n[d + k]
    <3>1. L \in Int /\ d \in Int
      BY <1>0
    <3> QED
      BY <3>1, LiesAtFromOne
  <2>6. ASSUME L - 1 <= M
        PROVE  M - (L - 1) \in 0..M /\ \A d \in 0..M : d + (L - 1) = M <=> d = M - (L - 1)
    BY <1>0, <2>1, <2>6
  <2>7. IsSuffix(Tail(p), n)
          <=> L - 1 <= M /\ \A k \in 1..(L - 1) : p[k + 1] = n[M - (L - 1) + k]
    BY <2>2, <2>4
  <2>8. hi - lo = L - 1 /\ lo # 0 /\ hi = L
    BY <1>0, <1>3
  <2>9. ASSUME NEW d \in 0..M, d + (L - 1) = M PROVE L - 1 <= M
    BY <1>0, <2>1, <2>9
  <2>10. ASSUME NEW d \in 0..M
         PROVE  d + (L - 1) <= M /\ d + (L - 1) = M <=> d + (L - 1) = M
    BY <1>0, <2>1
  <2>11. matchGlob(p, n) <=> \E d \in 0..M : /\ d + (L - 1) = M
                                             /\ \A k \in 1..(L - 1) : p[k + 1] = n[d + k]
    BY <2>3, <2>6, <2>7, <2>9
  <2>12. (\E d \in 0..M : /\ d + (L - 1) = M
                           /\ \A k \in 1..(L - 1) : p[k + 1] = n[d + k])
           <=> \E d \in 0..M : /\ d + (L - 1) <= M /\ d + (L - 1) = M
                               /\ LiesAt(p, n, 1, L, d)
    BY <2>5, <2>10
  <2> QED
    BY <1>3, <2>8, <2>11, <2>12
<1>4. CASE lo = 0 /\ hi = L
  <2>1. matchGlob(p, n) <=> p = n
    <3>0. L # L - 1
      BY <1>0
    <3>1. ~IsPrefix(<<Star>>, p) /\ ~IsSuffix(<<Star>>, p)
      BY <1>4, <3>0
    <3> QED
      BY <3>1 DEF matchGlob
  <2>2. p = n <=> L = M /\ \A k \in 1..L : p[k] = n[k]
    BY <1>0
  <2>3. LiesAt(p, n, 0, L, 0) <=> \A k \in 1..L : p[k] = n[k]
    BY <1>0, LiesAtFromZero
  <2> QED
    BY <1>0, <1>4, <2>1, <2>2, <2>3
<1> QED
  BY <1>0, <1>1, <1>2, <1>3, <1>4

\* With stars at its ends only, a pattern matches the names its stars can be
\* filled in for.
LEMMA GlobIsWildcard ==
    ASSUME NEW S, NEW p \in Seq(S), NEW T, NEW n \in Seq(T), Documented(p)
    PROVE  matchGlob(p, n) <=> Wildcard(p, n)
<1> SUFFICES ASSUME NEW L, L = Len(p)
             PROVE  matchGlob(p, n) <=> Wildcard(p, n)
  OBVIOUS
<1>0. L \in Nat /\ DOMAIN p = 1..L /\ Len(n) \in Nat
  OBVIOUS
<1>1. CASE p = <<Star>>
  <2>1. matchGlob(p, n)
    BY <1>1 DEF matchGlob
  <2>2. Wildcard(p, n)
    <3> DEFINE cut == [z \in 0..1 |-> IF z = 0 THEN 0 ELSE Len(n)]
    <3>1. cut \in [0..1 -> 0..Len(n)] /\ cut[0] = 0 /\ cut[1] = Len(n)
      BY <1>0
    <3> HIDE DEF cut
    <3>2. Len(p) = 1 /\ DOMAIN p = 1..1 /\ p[1] = Star
      BY <1>1
    <3>3. \A z \in DOMAIN p : IF p[z] = Star THEN cut[z-1] <= cut[z]
                              ELSE cut[z] = cut[z-1] + 1 /\ p[z] = n[cut[z]]
      BY <1>0, <3>1, <3>2
    <3> QED
      BY <3>1, <3>2, <3>3 DEF Wildcard
  <2> QED
    BY <2>1, <2>2
<1>2. CASE p # <<Star>>
  <2>1. IsPrefix(<<Star>>, p) <=> L >= 1 /\ p[1] = Star
    BY <1>0, PrefixOfOne
  <2>2. IsSuffix(<<Star>>, p) <=> L >= 1 /\ p[L] = Star
    BY <1>0, PrefixOfOne
  <2> DEFINE lo == IF IsPrefix(<<Star>>, p) THEN 1 ELSE 0
             hi == IF IsSuffix(<<Star>>, p) THEN L - 1 ELSE L
  <2>3. lo \in {0, 1} /\ hi \in {L - 1, L}
    OBVIOUS
  <2>4. /\ lo = 1 <=> IsPrefix(<<Star>>, p)
        /\ hi = L - 1 <=> IsSuffix(<<Star>>, p)
    BY <1>0
  <2>5. lo <= hi
    <3>1. L # 1 \/ p[1] # Star
      BY <1>0, <1>2
    <3> QED
      BY <1>0, <2>1, <2>2, <3>1
  <2>6. \A z \in 1..L : p[z] = Star <=> z <= lo \/ z > hi
    <3>1. \A z \in 2..(L - 1) : p[z] # Star
      BY DEF Documented
    <3> QED
      BY <1>0, <2>1, <2>2, <2>5, <3>1
  <2> HIDE DEF lo, hi
  <2> QED
    <3> DEFINE InARow == \E d \in 0..Len(n) :
                           /\ lo = 0 => d = 0
                           /\ d + (hi - lo) <= Len(n) /\ (hi = Len(p) => d + (hi - lo) = Len(n))
                           /\ LiesAt(p, n, lo, hi, d)
    <3>1. hi \in {Len(p) - 1, Len(p)} /\ (hi = Len(p) - 1 <=> IsSuffix(<<Star>>, p))
      BY <2>3, <2>4
    <3>2. \A z \in DOMAIN p : p[z] = Star <=> z <= lo \/ z > hi
      BY <1>0, <2>6
    <3>3. matchGlob(p, n) <=> InARow
      BY <1>2, <2>3, <2>4, <2>5, <3>1, MatchesInARow
    <3>4. Wildcard(p, n) <=> InARow
      BY <2>3, <2>5, <3>1, <3>2, CoveredInARow
    <3> HIDE DEF InARow
    <3> QED
      BY <3>3, <3>4
<1> QED
  BY <1>1, <1>2

\* The strict check answers what the documents promise: a name passes exactly
\* when some allow pattern covers it and no deny pattern does, for names, lists
\* and documented patterns of every length (AuthorizeGlobPatternStrict).
THEOREM StrictIsCoverage == Spec => []StrictMeansCovered
<1> DEFINE Asked == /\ asked.name \in Seq(Letters)
                    /\ asked.allow \in Seq(Patterns) /\ asked.deny \in Seq(Patterns)
           Strict == op = "GlobStrict" /\ result # Running
                       => result = AuthorizeGlobPatternStrict(asked.name, asked.allow, asked.deny)
           GInv == Asked /\ Strict /\ (op \in {"Glob", "GlobStrict"} => policies = <<>>)
<1>1. Init => GInv
  <2> SUFFICES ASSUME Init PROVE GInv
    OBVIOUS
  <2>1. CASE asked = Nothing
    BY <2>1 DEF Init, Nothing
  <2>2. CASE asked \in Questions
    <3>1. /\ asked.name \in UpTo(Letters, MaxLen)
          /\ asked.allow \in UpTo(Patterns, MaxPatterns) /\ asked.deny \in UpTo(Patterns, MaxPatterns)
      BY <2>2 DEF Questions
    <3>2. Asked
      BY <3>1, PolicyAssumption, ListsAreSequences
    <3> QED
      BY <3>2 DEF Init
  <2> QED
    BY <2>1, <2>2 DEF Init
<1>2. GInv /\ [Next]_vars => GInv'
  BY DEF Next, vars, AnyOfNone, Skip, Allows, Fails, Exhausted, Authorize, InLoop
<1>3. GInv => StrictMeansCovered
  <2> SUFFICES ASSUME GInv, op = "GlobStrict", result # Running,
                      \A k \in DOMAIN asked.allow : Documented(asked.allow[k]),
                      \A k \in DOMAIN asked.deny : Documented(asked.deny[k])
               PROVE  result = Allow <=>
                        /\ \E k \in DOMAIN asked.allow : Wildcard(asked.allow[k], asked.name)
                        /\ ~\E k \in DOMAIN asked.deny : Wildcard(asked.deny[k], asked.name)
    BY DEF StrictMeansCovered
  <2>1. ASSUME NEW list \in Seq(Patterns), \A k \in DOMAIN list : Documented(list[k])
        PROVE  Matches(list, asked.name) <=> \E k \in DOMAIN list : Wildcard(list[k], asked.name)
    <3>1. ASSUME NEW k \in DOMAIN list
          PROVE  matchGlob(list[k], asked.name) <=> Wildcard(list[k], asked.name)
      <4>1. list[k] \in Patterns
        OBVIOUS
      <4>2. list[k] \in Seq(Letters \cup {Star})
        BY <4>1, PolicyAssumption, ListsAreSequences DEF Patterns
      <4> QED
        BY <2>1, <4>2, GlobIsWildcard
    <3> QED
      BY <3>1 DEF Matches
  <2>2. Allow # Forbidden
    BY PolicyAssumption
  <2>3. result = Allow <=> ~Matches(asked.deny, asked.name) /\ Matches(asked.allow, asked.name)
    BY <2>2 DEF AuthorizeGlobPatternStrict
  <2> QED
    BY <2>1, <2>3
<1> HIDE DEF GInv
<1> QED
  BY <1>1, <1>2, <1>3, PTL DEF Spec
=============================================================================
