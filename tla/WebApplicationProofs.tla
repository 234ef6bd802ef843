------------------------ MODULE WebApplicationProofs ------------------------
(***************************************************************************)
(* Proofs about WebApplication, for any operators, requests and edits:     *)
(* what an operator writes is safe as a whole, and an undisturbed          *)
(* EnsureWebApplication puts what was asked for in place, writing only     *)
(* what has drifted.                                                       *)
(***************************************************************************)
EXTENDS WebApplication, FiniteSetTheorems, TLAPS

-----------------------------------------------------------------------------
(* Sequences without repetition                                            *)

\* A finite set as a sequence: every element once, and nothing else.
LEMMA SetToSeqProperties ==
    ASSUME NEW S, IsFiniteSet(S)
    PROVE  /\ SetToSeq(S) \in Seq(S)
           /\ Len(SetToSeq(S)) = Cardinality(S)
           /\ IsInjective(SetToSeq(S))
           /\ Range(SetToSeq(S)) = S
<1>1. Cardinality(S) \in Nat /\ ExistsBijection(1..Cardinality(S), S)
  BY FS_CardinalityType
<1>2. \E f \in [1..Cardinality(S) -> S] : IsInjective(f)
  BY <1>1 DEF ExistsBijection, Bijection, Injection
<1>3. SetToSeq(S) \in [1..Cardinality(S) -> S] /\ IsInjective(SetToSeq(S))
  BY <1>2 DEF SetToSeq
<1>4. SetToSeq(S) \in Seq(S) /\ Len(SetToSeq(S)) = Cardinality(S)
  BY <1>1, <1>3
<1>5. SetToSeq(S) \in Injection(1..Cardinality(S), S)
  BY <1>3 DEF Injection
<1>6. IsFiniteSet(1..Cardinality(S)) /\ Cardinality(1..Cardinality(S)) = Cardinality(S)
  BY <1>1, FS_Interval
<1>7. SetToSeq(S) \in Surjection(1..Cardinality(S), S)
  BY <1>5, <1>6, FS_Injection
<1>8. Range(SetToSeq(S)) = S
  BY <1>3, <1>7 DEF Surjection, Range
<1> QED
  BY <1>3, <1>4, <1>8

\* The range of a sequence is finite, no larger than the sequence is long, and
\* just as large if and only if nothing repeats.
LEMMA RangeSize ==
    ASSUME NEW S, NEW s \in Seq(S)
    PROVE  /\ IsFiniteSet(Range(s))
           /\ Range(s) \subseteq S
           /\ (Cardinality(Range(s)) = Len(s)) <=> IsInjective(s)
<1>1. Len(s) \in Nat /\ DOMAIN s = 1..Len(s) /\ s \in [1..Len(s) -> S]
  OBVIOUS
<1>2. s \in Surjection(1..Len(s), Range(s)) /\ Range(s) \subseteq S
  BY <1>1 DEF Surjection, Range
<1>3. IsFiniteSet(1..Len(s)) /\ Cardinality(1..Len(s)) = Len(s)
  BY <1>1, FS_Interval
<1>4. /\ IsFiniteSet(Range(s))
      /\ Cardinality(Range(s)) = Cardinality(1..Len(s)) <=> s \in Injection(1..Len(s), Range(s))
  BY <1>2, <1>3, FS_Surjection
<1>5. s \in Injection(1..Len(s), Range(s)) <=> IsInjective(s)
  BY <1>1, <1>2 DEF Injection, Surjection
<1>6. Cardinality(Range(s)) = Cardinality(1..Len(s)) <=> Cardinality(Range(s)) = Len(s)
  BY <1>3, Zenon
<1>7. Cardinality(Range(s)) = Len(s) <=> IsInjective(s)
  BY <1>4, <1>5, <1>6, Zenon
<1> QED
  BY <1>2, <1>4, <1>7, Zenon

\* Two sequences without repetition are equal as bags if their ranges are.
LEMMA SameBags ==
    ASSUME NEW S, NEW s \in Seq(S), NEW t \in Seq(S), IsInjective(s), IsInjective(t)
    PROVE  Range(s) = Range(t) => ToBag(s) = ToBag(t)
<1>1. ASSUME NEW r \in Seq(S), IsInjective(r), NEW x \in Range(r)
      PROVE  Cardinality({i \in DOMAIN r : r[i] = x}) = 1
  <2>1. PICK i \in DOMAIN r : r[i] = x
    BY DEF Range
  <2>2. {j \in DOMAIN r : r[j] = x} = {i}
    BY <1>1, <2>1 DEF IsInjective
  <2> QED
    BY <2>2, FS_Singleton
<1>2. ToBag(s) = [x \in Range(s) |-> 1] /\ ToBag(t) = [x \in Range(t) |-> 1]
  BY <1>1 DEF ToBag
<1> QED
  BY <1>2

-----------------------------------------------------------------------------
(* Normalization                                                           *)

\* What may be in an application of that mode.
Allowed(u, devMode) == u.scheme = "https" \/ (u.scheme = "http" /\ u.loopback /\ devMode)

LEMMA NormalizedURI ==
    ASSUME NEW u \in URIs, NEW devMode \in BOOLEAN, normalizeWebURI(u, devMode) # Invalid
    PROVE  /\ normalizeWebURI(u, devMode) = Folded(u)
           /\ Folded(u) \in URIs /\ Allowed(Folded(u), devMode)
BY DEF normalizeWebURI, Folded, URIs, Allowed

\* A list that is not refused comes out with every URI folded, in some order.
LEMMA NormalizedSet ==
    ASSUME NEW values \in Seq(URIs), NEW devMode \in BOOLEAN,
           normalizeWebURISet(values, devMode) # Invalid
    PROVE  LET w == normalizeWebURISet(values, devMode) IN
           /\ w \in Seq(URIs) /\ IsInjective(w) /\ Len(w) = Len(values)
           /\ Range(w) = {Folded(u) : u \in Range(values)}
           /\ \A u \in Range(w) : Allowed(u, devMode)
<1> DEFINE n == [i \in DOMAIN values |-> normalizeWebURI(values[i], devMode)]
<1>1. /\ Invalid \notin Range(n) /\ IsInjective(n)
      /\ normalizeWebURISet(values, devMode) = SetToSeq(Range(n))
  BY DEF normalizeWebURISet
<1>2. Len(values) \in Nat /\ DOMAIN values = 1..Len(values) /\ \A i \in DOMAIN values : values[i] \in URIs
  OBVIOUS
<1>3. ASSUME NEW i \in DOMAIN values
      PROVE  /\ n[i] = Folded(values[i])
             /\ Folded(values[i]) \in URIs /\ Allowed(Folded(values[i]), devMode)
  <2>1. normalizeWebURI(values[i], devMode) # Invalid
    BY <1>1 DEF Range
  <2> QED
    BY <2>1, <1>2, NormalizedURI
<1>4. DOMAIN n = DOMAIN values
  OBVIOUS
<1> HIDE DEF n
<1>5. n \in Seq(URIs) /\ Len(n) = Len(values)
  <2>1. n = [i \in 1..Len(values) |-> Folded(values[i])]
    BY <1>2, <1>3, <1>4 DEF n
  <2> QED
    BY <1>2, <1>3, <2>1
<1>6. IsFiniteSet(Range(n)) /\ Range(n) \subseteq URIs /\ Cardinality(Range(n)) = Len(values)
  BY <1>1, <1>5, RangeSize
<1>7. Range(n) = {Folded(u) : u \in Range(values)}
  BY <1>3, <1>4 DEF Range
<1>8. \A u \in Range(n) : Allowed(u, devMode)
  BY <1>3, <1>4 DEF Range
<1>9. /\ SetToSeq(Range(n)) \in Seq(Range(n)) /\ IsInjective(SetToSeq(Range(n)))
      /\ Len(SetToSeq(Range(n))) = Len(values) /\ Range(SetToSeq(Range(n))) = Range(n)
  BY <1>6, SetToSeqProperties
<1>10. SetToSeq(Range(n)) \in Seq(URIs)
  BY <1>6, <1>9
<1> QED
  BY <1>1, <1>7, <1>8, <1>9, <1>10

\* What an accepted request comes to.
LEMMA NormalizedInput ==
    ASSUME NEW r \in Wants, normalizeWebApplicationInput(r) # Invalid
    PROVE  LET w == normalizeWebApplicationInput(r) IN
           /\ w \in Wants /\ w.refresh = r.refresh /\ w.devMode = r.devMode
           /\ \A f \in {"redirects", "logout"} :
                 /\ IsInjective(w[f]) /\ Len(w[f]) = Len(r[f])
                 /\ Range(w[f]) = {Folded(u) : u \in Range(r[f])}
                 /\ \A u \in Range(w[f]) : Allowed(u, w.devMode)
<1> DEFINE redirects == normalizeWebURISet(r.redirects, r.devMode)
           logout    == normalizeWebURISet(r.logout, r.devMode)
<1>1. /\ redirects # Invalid /\ logout # Invalid
      /\ normalizeWebApplicationInput(r) = [redirects |-> redirects, logout |-> logout,
                                            refresh |-> r.refresh, devMode |-> r.devMode]
  BY DEF normalizeWebApplicationInput
<1>2. r.redirects \in Seq(URIs) /\ r.logout \in Seq(URIs) /\ r.devMode \in BOOLEAN /\ r.refresh \in BOOLEAN
  BY DEF Wants
<1>3. /\ redirects \in Seq(URIs) /\ IsInjective(redirects) /\ Len(redirects) = Len(r.redirects)
      /\ Range(redirects) = {Folded(u) : u \in Range(r.redirects)}
      /\ \A u \in Range(redirects) : Allowed(u, r.devMode)
  BY <1>1, <1>2, NormalizedSet
<1>4. /\ logout \in Seq(URIs) /\ IsInjective(logout) /\ Len(logout) = Len(r.logout)
      /\ Range(logout) = {Folded(u) : u \in Range(r.logout)}
      /\ \A u \in Range(logout) : Allowed(u, r.devMode)
  BY <1>1, <1>2, NormalizedSet
<1> HIDE DEF redirects, logout
<1>5. normalizeWebApplicationInput(r) \in Wants
  BY <1>1, <1>2, <1>3, <1>4 DEF Wants
<1> DEFINE w == normalizeWebApplicationInput(r)
<1>6. /\ w.refresh = r.refresh /\ w.devMode = r.devMode
      /\ w["redirects"] = redirects /\ w["logout"] = logout
  BY <1>1
<1> HIDE DEF w
<1>7. \A f \in {"redirects", "logout"} :
                 /\ IsInjective(w[f]) /\ Len(w[f]) = Len(r[f])
                 /\ Range(w[f]) = {Folded(u) : u \in Range(r[f])}
                 /\ \A u \in Range(w[f]) : Allowed(u, w.devMode)
  BY <1>3, <1>4, <1>6
<1> QED
  BY <1>5, <1>6, <1>7 DEF w

\* The comparison of the code decides just whether the application is the one
\* that was asked for.
LEMMA MatchesMeansDescribes ==
    ASSUME NEW r \in Wants, normalizeWebApplicationInput(r) # Invalid,
           NEW a \in Applications, a.type = "oidc"
    PROVE  webApplicationMatches(a, normalizeWebApplicationInput(r)) <=> Describes(r, a)
<1> DEFINE w == normalizeWebApplicationInput(r)
<1>1. /\ w \in Wants /\ w.refresh = r.refresh /\ w.devMode = r.devMode
      /\ \A f \in {"redirects", "logout"} :
            /\ IsInjective(w[f]) /\ Len(w[f]) = Len(r[f])
            /\ Range(w[f]) = {Folded(u) : u \in Range(r[f])}
  BY NormalizedInput
<1> HIDE DEF w
<1>2. a # None
  BY WebAssumption
<1>3. ASSUME NEW f \in {"redirects", "logout"}
      PROVE  sameMembers(a[f], w[f]) <=> /\ Range(a[f]) = {Folded(u) : u \in Range(r[f])}
                                        /\ Len(a[f]) = Len(r[f])
  <2>1. a[f] \in Seq(URIs) /\ w[f] \in Seq(URIs)
    BY <1>1 DEF Applications, Wants
  <2>2. ToBag(a[f]) = ToBag(w[f]) => Range(a[f]) = Range(w[f])
    <3>1. DOMAIN ToBag(a[f]) = Range(a[f]) /\ DOMAIN ToBag(w[f]) = Range(w[f])
      BY DEF ToBag
    <3> QED
      BY <3>1
  <2>3. ASSUME Range(a[f]) = Range(w[f]), Len(a[f]) = Len(w[f])
        PROVE  ToBag(a[f]) = ToBag(w[f])
    <3>1. Cardinality(Range(w[f])) = Len(w[f])
      BY <1>1, <2>1, RangeSize
    <3>2. IsInjective(a[f])
      BY <2>1, <2>3, <3>1, RangeSize
    <3> QED
      BY <1>1, <2>1, <2>3, <3>2, SameBags
  <2> QED
    BY <1>1, <2>2, <2>3 DEF sameMembers
<1>4. /\ a["redirects"] = a.redirects /\ a["logout"] = a.logout
      /\ w["redirects"] = w.redirects /\ w["logout"] = w.logout
  OBVIOUS
<1>5. Describes(r, a) <=> /\ a.profile = "PKCE"
                          /\ sameMembers(a.redirects, w.redirects)
                          /\ sameMembers(a.logout, w.logout)
                          /\ a.refresh = r.refresh /\ a.devMode = r.devMode
  BY <1>2, <1>3, <1>4 DEF Describes
<1>6. webApplicationMatches(a, w) <=> Describes(r, a)
  BY <1>1, <1>5 DEF webApplicationMatches
<1> QED
  BY <1>6 DEF w

\* What is written is what was asked for, and safe.
LEMMA WrittenProperties ==
    ASSUME NEW r \in Wants, normalizeWebApplicationInput(r) # Invalid, NEW id \in Nat
    PROVE  LET a == Written(id, normalizeWebApplicationInput(r)) IN
           /\ a \in Applications /\ a.id = id /\ a.type = "oidc" /\ a.profile = "PKCE"
           /\ Describes(r, a)
           /\ \A u \in Range(a.redirects) \cup Range(a.logout) : Safe(u, a)
<1> DEFINE w == normalizeWebApplicationInput(r)
           a == Written(id, w)
<1>1. /\ w \in Wants /\ w.refresh = r.refresh /\ w.devMode = r.devMode
      /\ \A f \in {"redirects", "logout"} :
            /\ Len(w[f]) = Len(r[f])
            /\ Range(w[f]) = {Folded(u) : u \in Range(r[f])}
            /\ \A u \in Range(w[f]) : Allowed(u, w.devMode)
  BY NormalizedInput
<1> HIDE DEF w
<1>2. /\ a.id = id /\ a.type = "oidc" /\ a.profile = "PKCE"
      /\ a.refresh = w.refresh /\ a.devMode = w.devMode
      /\ a["redirects"] = w["redirects"] /\ a["logout"] = w["logout"]
      /\ a["redirects"] = a.redirects /\ a["logout"] = a.logout
  BY DEF Written
<1>3. a \in Applications
  BY <1>1 DEF Written, Applications, Wants
<1>4. a # None
  BY <1>3, WebAssumption
<1> HIDE DEF a
<1>5. Describes(r, a)
  BY <1>1, <1>2, <1>4 DEF Describes
<1>6. \A u \in Range(a.redirects) \cup Range(a.logout) : Safe(u, a)
  BY <1>1, <1>2 DEF Allowed, Safe
<1> QED
  BY <1>2, <1>3, <1>5, <1>6 DEF a, w

-----------------------------------------------------------------------------
(* Steps of an operation                                                   *)

Operations == [pc : {"idle", "lookup", "create", "update", "finish", "ok"},
               req : Requests \cup {None}, want : Wants \cup {None},
               id : Nat, alone : BOOLEAN]

LEMMA IdleTyped == Idle \in Operations /\ Idle.pc = "idle" /\ ~Idle.alone
BY DEF Idle, Operations

\* What a step of o's operation does to the operations.
Advances(o, p) ==
    /\ op' \in [Ops -> Operations]
    /\ \A q \in Ops \ {o} : op'[q] = op[q]
    /\ op'[o].pc = p /\ op'[o].req = op[o].req /\ op'[o].want = op[o].want
    /\ op'[o].alone = op[o].alone

Drops(o) ==
    /\ op' \in [Ops -> Operations]
    /\ \A q \in Ops \ {o} : op'[q] = op[q]
    /\ op'[o] = Idle

LEMMA GotoAdvances ==
    ASSUME TypeOK, NEW o \in Ops, NEW p \in {"create", "update", "finish", "ok"}, Goto(o, p)
    PROVE  Advances(o, p) /\ op'[o].id = op[o].id
<1>1. op \in [Ops -> Operations] /\ op[o] \in Operations
  BY DEF TypeOK, Operations
<1> DEFINE n == [op[o] EXCEPT !.pc = p]
<1>2. /\ n \in Operations /\ n.pc = p /\ n.req = op[o].req /\ n.want = op[o].want
      /\ n.id = op[o].id /\ n.alone = op[o].alone
  BY <1>1 DEF Operations
<1>3. op' = [op EXCEPT ![o] = n]
  BY DEF Goto
<1> HIDE DEF n
<1> QED
  BY <1>1, <1>2, <1>3 DEF Advances

LEMMA GotoDrops ==
    ASSUME TypeOK, NEW o \in Ops, Goto(o, "error")
    PROVE  Drops(o)
<1>1. op \in [Ops -> Operations] /\ op' = [op EXCEPT ![o] = Idle]
  BY DEF TypeOK, Operations, Goto
<1> QED
  BY <1>1, IdleTyped DEF Drops

\* Where an operation with nobody beside it goes on, the others have none of
\* their own under way.
LEMMA NobodyElse ==
    ASSUME IInv, NEW o \in Ops, Active(o), NEW q \in Ops \ {o}
    PROVE  ~op[q].alone
BY DEF IInv, AloneInv

\* A step that takes o's operation further preserves the invariant if what it
\* leaves behind is what the next step relies on.
LEMMA AdvanceIInv ==
    ASSUME IInv, NEW o \in Ops, Active(o), NEW p \in {"create", "update", "finish", "ok"},
           Advances(o, p), project' = project,
           apps' \in Nat, apps <= apps', app' \in Applications \cup {None},
           app' # None => app'.id <= apps',
           \A q \in Ops \ {o} : op[q].pc = "update" /\ app' # None /\ app'.id = op[q].id
                                  => app'.type = "oidc",
           p = "update" => /\ op'[o].id <= apps'
                           /\ app' # None /\ app'.id = op'[o].id => app'.type = "oidc",
           op[o].alone =>
               /\ p = "create" => app' = None
               /\ p = "update" => /\ app' # None /\ app'.id = op'[o].id
                                  /\ ~webApplicationMatches(app', op[o].want)
               /\ p \in {"finish", "ok"} => Describes(op[o].req, app')
    PROVE  IInv'
<1>1. TypeOK /\ WantInv /\ IdInv /\ AloneInv
  BY DEF IInv
<1>2. /\ op' \in [Ops -> Operations]
      /\ \A q \in Ops \ {o} : op'[q] = op[q]
      /\ op'[o].pc = p /\ op'[o].req = op[o].req /\ op'[o].want = op[o].want
      /\ op'[o].alone = op[o].alone
  BY DEF Advances
<1>3. op[o].pc # "idle"
  BY DEF Active
<1>4. TypeOK'
  BY <1>1, <1>2 DEF TypeOK, Operations
<1>5. WantInv'
  BY <1>1, <1>2, <1>3 DEF WantInv
<1>6. IdInv'
  <2>1. ASSUME NEW q \in Ops \ {o}, op'[q].pc = "update"
        PROVE  op'[q].id <= apps' /\ (app' # None /\ app'.id = op'[q].id => app'.type = "oidc")
    <3>1. op[q].id <= apps /\ op[q].id \in Nat /\ apps \in Nat
      BY <1>1, <1>2, <2>1 DEF IdInv, TypeOK
    <3> QED
      BY <1>2, <2>1, <3>1
  <2> QED
    BY <1>2, <2>1 DEF IdInv
<1>7. AloneInv'
  <2>1. \A q \in Ops \ {o} : ~op'[q].alone
    BY <1>2, NobodyElse
  <2>2. ASSUME op[o].alone PROVE \A q \in Ops \ {o} : ~Active(q)'
    BY <1>1, <1>2, <2>2 DEF AloneInv, Active
  <2> QED
    BY <1>2, <2>1, <2>2 DEF AloneInv
<1> QED
  BY <1>4, <1>5, <1>6, <1>7 DEF IInv

\* So does one that ends an operation without result.
LEMMA DropIInv ==
    ASSUME IInv, NEW o \in Ops, Drops(o), UNCHANGED <<project, apps, app>>
    PROVE  IInv'
<1>1. TypeOK /\ WantInv /\ IdInv /\ AloneInv
  BY DEF IInv
<1>2. /\ op' \in [Ops -> Operations]
      /\ \A q \in Ops \ {o} : op'[q] = op[q]
      /\ op'[o].pc = "idle" /\ ~op'[o].alone
  BY IdleTyped DEF Drops
<1>3. TypeOK'
  BY <1>1, <1>2 DEF TypeOK, Operations
<1>4. WantInv'
  BY <1>1, <1>2 DEF WantInv
<1>5. IdInv'
  BY <1>1, <1>2 DEF IdInv
<1>6. AloneInv'
  BY <1>1, <1>2 DEF AloneInv, Active
<1> QED
  BY <1>3, <1>4, <1>5, <1>6 DEF IInv

\* What the state of an operation under way says of its request.
LEMMA WantedWritten ==
    ASSUME IInv, NEW o \in Ops, op[o].pc # "idle", NEW id \in Nat
    PROVE  LET a == Written(id, op[o].want) IN
           /\ op[o].req \in Wants /\ op[o].want = normalizeWebApplicationInput(op[o].req)
           /\ normalizeWebApplicationInput(op[o].req) # Invalid
           /\ a \in Applications /\ a.id = id /\ a.type = "oidc" /\ a.profile = "PKCE"
           /\ Describes(op[o].req, a)
           /\ \A u \in Range(a.redirects) \cup Range(a.logout) : Safe(u, a)
<1>1. /\ op[o].req \in Wants /\ op[o].want = normalizeWebApplicationInput(op[o].req)
      /\ normalizeWebApplicationInput(op[o].req) # Invalid
  BY WebAssumption DEF IInv, WantInv
<1> QED
  BY <1>1, WrittenProperties

\* What the types say of the application.
LEMMA AppTyped ==
    ASSUME IInv
    PROVE  /\ apps \in Nat /\ app \in Applications \cup {None} /\ None \notin Applications
           /\ app # None => app.id \in Nat /\ app.id <= apps
BY WebAssumption DEF IInv, TypeOK, IdInv, Applications

LEMMA LookupIInv == ASSUME IInv, NEW o \in Ops, Lookup(o) PROVE IInv'
<1>0. TypeOK /\ op[o].pc = "lookup" /\ Active(o) /\ UNCHANGED <<project, apps, app>>
  BY DEF IInv, Lookup, Active
<1>1. CASE app = None
  <2>1. Goto(o, "create")
    BY <1>1 DEF Lookup
  <2> QED
    BY <1>0, <1>1, <2>1, GotoAdvances, AdvanceIInv, AppTyped
<1>2. CASE app # None /\ app.type # "oidc"
  <2>1. Goto(o, "error")
    BY <1>2 DEF Lookup
  <2> QED
    BY <1>0, <2>1, GotoDrops, DropIInv
<1>3. CASE app # None /\ app.type = "oidc" /\ webApplicationMatches(app, op[o].want)
  <2>1. Goto(o, "finish")
    BY <1>3 DEF Lookup
  <2>2. Describes(op[o].req, app)
    BY <1>0, <1>3, WantedWritten, AppTyped, MatchesMeansDescribes
  <2> QED
    BY <1>0, <1>3, <2>1, <2>2, GotoAdvances, AdvanceIInv, AppTyped
<1>4. CASE app # None /\ app.type = "oidc" /\ ~webApplicationMatches(app, op[o].want)
  <2> DEFINE n == [op[o] EXCEPT !.pc = "update", !.id = app.id]
  <2>1. op \in [Ops -> Operations] /\ op[o] \in Operations /\ app.id \in Nat /\ app.id <= apps
    BY <1>0, <1>4, AppTyped DEF TypeOK, Operations
  <2>2. /\ n \in Operations /\ n.pc = "update" /\ n.req = op[o].req /\ n.want = op[o].want
        /\ n.id = app.id /\ n.alone = op[o].alone
    BY <2>1 DEF Operations
  <2>3. op' = [op EXCEPT ![o] = n]
    BY <1>4, <2>1 DEF Lookup, Operations
  <2> HIDE DEF n
  <2>4. Advances(o, "update") /\ op'[o].id = app.id
    BY <2>1, <2>2, <2>3 DEF Advances
  <2> QED
    BY <1>0, <1>4, <2>1, <2>4, AdvanceIInv, AppTyped
<1> QED
  BY <1>1, <1>2, <1>3, <1>4

LEMMA CreateIInv == ASSUME IInv, NEW o \in Ops, Create(o) PROVE IInv'
<1>0. TypeOK /\ op[o].pc = "create" /\ Active(o) /\ op[o].pc # "idle" /\ UNCHANGED project
  BY DEF IInv, Create, Active
<1>1. CASE app # None \/ apps = MaxApps
  <2>1. Goto(o, "error") /\ UNCHANGED <<project, apps, app>>
    BY <1>1 DEF Create
  <2> QED
    BY <1>0, <2>1, GotoDrops, DropIInv
<1>2. CASE ~(app # None \/ apps = MaxApps)
  <2>1. /\ apps \in Nat /\ apps + 1 \in Nat /\ apps' = apps + 1 /\ app' = Written(apps + 1, op[o].want)
        /\ Goto(o, "finish")
    BY <1>2, AppTyped DEF Create
  <2>2. /\ app' \in Applications /\ app'.id = apps + 1 /\ app'.type = "oidc"
        /\ Describes(op[o].req, app')
    BY <1>0, <2>1, WantedWritten
  <2> QED
    BY <1>0, <2>1, <2>2, GotoAdvances, AdvanceIInv
<1> QED
  BY <1>1, <1>2

LEMMA UpdateIInv == ASSUME IInv, NEW o \in Ops, Update(o) PROVE IInv'
<1>0. TypeOK /\ op[o].pc = "update" /\ Active(o) /\ op[o].pc # "idle" /\ UNCHANGED <<project, apps>>
  BY DEF IInv, Update, Active
<1>1. CASE app = None \/ app.id # op[o].id \/ app = Requested(op[o].want)
  <2>1. Goto(o, "error") /\ UNCHANGED <<project, apps, app>>
    BY <1>1, <1>0 DEF Update
  <2> QED
    BY <1>0, <2>1, GotoDrops, DropIInv
<1>2. CASE ~(app = None \/ app.id # op[o].id \/ app = Requested(op[o].want))
  <2>1. /\ app # None /\ app.id \in Nat /\ app.id <= apps /\ apps \in Nat
        /\ app' = Written(app.id, op[o].want) /\ Goto(o, "finish")
    BY <1>2, AppTyped DEF Update, Requested
  <2>2. /\ app' \in Applications /\ app'.id = app.id /\ app'.type = "oidc"
        /\ Describes(op[o].req, app')
    BY <1>0, <2>1, WantedWritten
  <2> QED
    BY <1>0, <2>1, <2>2, GotoAdvances, AdvanceIInv
<1> QED
  BY <1>1, <1>2

LEMMA FinishIInv == ASSUME IInv, NEW o \in Ops, Finish(o) PROVE IInv'
<1>0. /\ TypeOK /\ op[o].pc = "finish" /\ Active(o) /\ UNCHANGED <<project, apps, app>>
      /\ Goto(o, "ok")
  BY DEF IInv, Finish, Active
<1>1. op[o].alone => Describes(op[o].req, app)
  BY <1>0 DEF IInv, AloneInv
<1>2. \A q \in Ops : op[q].pc = "update" /\ app # None /\ app.id = op[q].id => app.type = "oidc"
  BY DEF IInv, IdInv
<1> QED
  BY <1>0, <1>1, <1>2, GotoAdvances, AdvanceIInv, AppTyped

LEMMA EndIInv == ASSUME IInv, NEW o \in Ops, Abort(o) \/ Again(o) PROVE IInv'
<1>1. TypeOK /\ Goto(o, "error") /\ UNCHANGED <<project, apps, app>>
  BY DEF IInv, Abort, Again
<1> QED
  BY <1>1, GotoDrops, DropIInv

-----------------------------------------------------------------------------
(* Steps that take company away                                            *)

LEMMA CompanyProperties ==
    ASSUME TypeOK
    PROVE  /\ Company \in [Ops -> Operations]
           /\ \A q \in Ops : /\ Company[q].pc = op[q].pc /\ Company[q].req = op[q].req
                             /\ Company[q].want = op[q].want /\ Company[q].id = op[q].id
                             /\ ~Company[q].alone
<1>1. \A q \in Ops : op[q] \in Operations
  BY DEF TypeOK, Operations
<1>2. ASSUME NEW q \in Ops
      PROVE  LET n == [op[q] EXCEPT !.alone = FALSE] IN
             /\ n \in Operations /\ n.pc = op[q].pc /\ n.req = op[q].req
             /\ n.want = op[q].want /\ n.id = op[q].id /\ ~n.alone
  BY <1>1 DEF Operations
<1>3. \A q \in Ops : Company[q] = [op[q] EXCEPT !.alone = FALSE]
  BY DEF Company
<1>4. Company \in [Ops -> Operations]
  BY <1>2 DEF Company
<1> QED
  BY <1>2, <1>3, <1>4

LEMMA StartIInv ==
    ASSUME IInv, NEW o \in Ops, NEW r \in Requests, Start(o, r) PROVE IInv'
<1> DEFINE want  == normalizeWebApplicationInput(r)
           alone == \A q \in Ops : ~Active(q)
           n     == [Idle EXCEPT !.pc = "lookup", !.req = r, !.want = want, !.alone = alone]
<1>0. TypeOK /\ WantInv /\ IdInv /\ AloneInv
  BY DEF IInv
<1>1. /\ op[o].pc = "idle" /\ want # Invalid /\ op' = [Company EXCEPT ![o] = n]
      /\ UNCHANGED <<project, apps, app>>
  BY DEF Start
<1>2. want \in Wants
  BY <1>1, NormalizedInput, WebAssumption
<1>3. alone \in BOOLEAN
  OBVIOUS
<1> HIDE DEF want, alone
<1>4. n \in Operations /\ n.pc = "lookup" /\ n.req = r /\ n.want = want /\ n.alone = alone
  BY <1>2, <1>3 DEF Idle, Operations
<1> HIDE DEF n
<1>5. /\ op' \in [Ops -> Operations]
      /\ op'[o] = n
      /\ \A q \in Ops \ {o} : op'[q] = Company[q]
  BY <1>0, <1>1, <1>4, CompanyProperties
<1>6. \A q \in Ops \ {o} : /\ op'[q].pc = op[q].pc /\ op'[q].req = op[q].req
                           /\ op'[q].want = op[q].want /\ op'[q].id = op[q].id /\ ~op'[q].alone
  BY <1>0, <1>5, CompanyProperties
<1>7. TypeOK'
  BY <1>0, <1>1, <1>5 DEF TypeOK, Operations
<1>8. WantInv'
  BY <1>0, <1>1, <1>4, <1>5, <1>6 DEF WantInv, want
<1>9. IdInv'
  BY <1>0, <1>1, <1>4, <1>5, <1>6 DEF IdInv
<1>10. AloneInv'
  <2>1. ASSUME alone PROVE \A q \in Ops \ {o} : ~Active(q)'
    BY <1>6, <2>1 DEF alone, Active
  <2> QED
    BY <1>4, <1>5, <1>6, <2>1 DEF AloneInv
<1> QED
  BY <1>7, <1>8, <1>9, <1>10 DEF IInv

LEMMA EditIInv == ASSUME IInv, Edit PROVE IInv'
<1>0. TypeOK /\ WantInv /\ IdInv /\ AloneInv /\ op' = Company /\ UNCHANGED project
  BY DEF IInv, Edit
<1>1. /\ op' \in [Ops -> Operations]
      /\ \A q \in Ops : /\ op'[q].pc = op[q].pc /\ op'[q].req = op[q].req
                        /\ op'[q].want = op[q].want /\ op'[q].id = op[q].id /\ ~op'[q].alone
  BY <1>0, CompanyProperties
<1>2. ASSUME NEW e \in Edits, NEW id \in Nat
      PROVE  /\ [e EXCEPT !.id = id] \in Applications
             /\ [e EXCEPT !.id = id].id = id /\ [e EXCEPT !.id = id].type = e.type
  <2>1. e \in Applications
    BY WebAssumption
  <2> QED
    BY <2>1 DEF Applications
<1> DEFINE Kept == /\ apps' \in Nat /\ apps <= apps' /\ app' \in Applications \cup {None}
                   /\ app' # None => /\ app'.id <= apps'
                                     /\ \/ app # None /\ app'.id = app.id /\ app'.type = app.type
                                        \/ app'.id = apps + 1
<1>3. Kept
  <2>1. CASE app' = None /\ UNCHANGED apps
    BY <2>1, AppTyped
  <2>2. ASSUME NEW e \in Edits, app # None, app.type = e.type, app' = [e EXCEPT !.id = app.id],
               UNCHANGED apps
        PROVE  Kept
    BY <1>2, <2>2, AppTyped
  <2>3. ASSUME NEW e \in Edits, apps' = apps + 1, app' = [e EXCEPT !.id = apps + 1]
        PROVE  Kept
    <3>1. apps \in Nat /\ apps + 1 \in Nat
      BY AppTyped
    <3> QED
      BY <1>2, <2>3, <3>1
  <2> QED
    BY <2>1, <2>2, <2>3 DEF Edit
<1>4. TypeOK'
  BY <1>0, <1>1, <1>3 DEF TypeOK, Operations
<1>5. WantInv'
  BY <1>0, <1>1 DEF WantInv
<1>6. IdInv'
  <2>1. ASSUME NEW q \in Ops, op[q].pc = "update"
        PROVE  op[q].id <= apps' /\ (app' # None /\ app'.id = op[q].id => app'.type = "oidc")
    <3>1. op[q].id <= apps /\ op[q].id \in Nat /\ apps \in Nat
          /\ (app # None /\ app.id = op[q].id => app.type = "oidc")
      BY <1>0, <2>1 DEF IdInv, TypeOK
    <3> QED
      BY <1>3, <3>1
  <2> QED
    BY <1>1, <1>3, <2>1 DEF IdInv
<1>7. AloneInv'
  BY <1>1 DEF AloneInv
<1> QED
  BY <1>4, <1>5, <1>6, <1>7 DEF IInv

-----------------------------------------------------------------------------
(* The invariant                                                           *)

LEMMA InitIInv == Init => IInv
<1> SUFFICES ASSUME Init PROVE IInv
  OBVIOUS
<1>1. op \in [Ops -> Operations] /\ \A o \in Ops : op[o].pc = "idle" /\ ~op[o].alone
  BY IdleTyped DEF Init
<1>2. TypeOK
  BY <1>1 DEF Init, TypeOK, Operations
<1> QED
  BY <1>1, <1>2 DEF Init, IInv, WantInv, IdInv, AloneInv

LEMMA NextIInv == IInv /\ [Next]_vars => IInv'
<1> SUFFICES ASSUME IInv, [Next]_vars PROVE IInv'
  OBVIOUS
<1>1. CASE UNCHANGED vars
  BY <1>1 DEF vars, IInv, TypeOK, WantInv, IdInv, AloneInv, Active, Describes
<1>2. CASE ProjectCreated
  BY <1>2 DEF ProjectCreated, IInv, TypeOK, WantInv, IdInv, AloneInv, Active, Describes
<1>3. ASSUME NEW o \in Ops, Work(o) PROVE IInv'
  BY <1>3, LookupIInv, CreateIInv, UpdateIInv, FinishIInv DEF Work
<1> QED
  BY <1>1, <1>2, <1>3, StartIInv, EndIInv, EditIInv DEF Next

\* An operation wants what was asked for, knows the application it updates, and,
\* alone, has seen it as it is (web_application.go, EnsureWebApplication).
THEOREM Invariance == Spec => []IInv
BY InitIInv, NextIInv, PTL DEF Spec

-----------------------------------------------------------------------------
(* What follows from it                                                    *)

\* An undisturbed EnsureWebApplication that succeeds leaves just what was asked
\* for, whatever was there before.
THEOREM EnsuresWhatWasAsked == Spec => []EnsuredIsInPlace
<1>1. IInv => EnsuredIsInPlace
  BY DEF IInv, AloneInv, EnsuredIsInPlace
<1> QED
  BY <1>1, Invariance, PTL

\* An undisturbed operation sends an update only if something has drifted.
THEOREM OnlyDriftIsWritten == Spec => UpdatesOnlyDrift
<1> DEFINE Drifted == \A o \in Ops : Update(o) /\ op[o].alone => ~Describes(op[o].req, app)
<1>1. ASSUME IInv, NEW o \in Ops, Update(o), op[o].alone PROVE ~Describes(op[o].req, app)
  <2>1. op[o].pc = "update" /\ op[o].pc # "idle"
    BY <1>1 DEF Update
  <2>2. app # None /\ app.id = op[o].id /\ ~webApplicationMatches(app, op[o].want)
    BY <1>1, <2>1 DEF IInv, AloneInv
  <2>3. app.type = "oidc"
    BY <1>1, <2>1, <2>2 DEF IInv, IdInv
  <2> QED
    BY <1>1, <2>1, <2>2, <2>3, WantedWritten, AppTyped, MatchesMeansDescribes
<1>2. IInv /\ [Next]_vars => [Drifted]_vars
  BY <1>1
<1> QED
  BY <1>2, Invariance, PTL DEF Spec, UpdatesOnlyDrift

\* Whatever races, an operator only ever writes an application that is safe as
\* a whole, and never over one of another type.
THEOREM NothingUnsafeIsWritten == Spec => WritesAreSafe
<1> DEFINE Goal(o) == Work(o) /\ app' # app =>
                         /\ app # None => app.type = "oidc"
                         /\ app'.profile = "PKCE"
                         /\ \A u \in Range(app'.redirects) \cup Range(app'.logout) : Safe(u, app')
           AllSafe == \A o \in Ops : Goal(o)
<1>1. ASSUME IInv, NEW o \in Ops PROVE Goal(o)
  <2> SUFFICES ASSUME Work(o), app' # app
               PROVE  /\ app # None => app.type = "oidc"
                      /\ app'.profile = "PKCE"
                      /\ \A u \in Range(app'.redirects) \cup Range(app'.logout) : Safe(u, app')
    OBVIOUS
  <2>1. Create(o) \/ Update(o)
    BY DEF Work, Lookup, Finish
  <2>2. CASE Create(o)
    <3>1. app = None /\ apps + 1 \in Nat /\ app' = Written(apps + 1, op[o].want) /\ op[o].pc # "idle"
      BY <1>1, <2>2, AppTyped DEF Create
    <3> QED
      BY <1>1, <3>1, WantedWritten
  <2>3. CASE Update(o)
    <3>1. /\ app # None /\ app.id \in Nat /\ app.id = op[o].id /\ op[o].pc = "update"
          /\ op[o].pc # "idle" /\ app' = Written(app.id, op[o].want)
      BY <1>1, <2>3, AppTyped DEF Update, Requested
    <3>2. app.type = "oidc"
      BY <1>1, <3>1 DEF IInv, IdInv
    <3> QED
      BY <1>1, <3>1, <3>2, WantedWritten
  <2> QED
    BY <2>1, <2>2, <2>3
<1>2. IInv /\ [Next]_vars => [AllSafe]_vars
  BY <1>1
<1> QED
  BY <1>2, Invariance, PTL DEF Spec, WritesAreSafe
=============================================================================
