------------------------- MODULE ClientTokenProofs -------------------------
(***************************************************************************)
(* Proofs about ClientToken, for any RPCs, lifetimes and margin: the RPCs  *)
(* of a client share one token, and reuse alone never hands out one that   *)
(* the server finds expired.                                               *)
(***************************************************************************)
EXTENDS ClientToken, TLAPS

\* There is one source.
LEMMA OneSource == Sources = {"src"} /\ \A k : sourceOf(k) = "src"
BY DEF Sources, sourceOf, Kinds

\* The types of a step's parts that are used again and again.
LEMMA TypeKept == TypeOK /\ [Next]_vars => TypeOK'
<1> SUFFICES ASSUME TypeOK, [Next]_vars PROVE TypeOK'
  OBVIOUS
<1> USE OneSource, ClientAssumption
<1>1. ASSUME NEW AttachToken \in BOOLEAN, NEW complete \in BOOLEAN, New(AttachToken, complete)
      PROVE  TypeOK'
  BY <1>1 DEF New, TypeOK
<1>2. ASSUME NEW r \in RPCs, NEW kind \in Kinds, Call(r, kind) PROVE TypeOK'
  BY <1>2 DEF Call, TypeOK, Idle, NoToken, Tokens
<1>3. ASSUME NEW r \in RPCs, NEW life \in Lifetimes, Issue(r, life) PROVE TypeOK'
  BY <1>3 DEF Issue, TypeOK, Tokens
<1>4. ASSUME NEW r \in RPCs, Token(r) PROVE TypeOK'
  BY <1>4 DEF Token, Handed, TypeOK
<1>5. ASSUME NEW r \in RPCs, Receive(r) PROVE TypeOK'
  <2>0. answer[r] \in Tokens /\ now \in Nat
    BY DEF TypeOK
  <2>1. [answer[r] EXCEPT !.received = now] \in Tokens
    BY <2>0 DEF Tokens
  <2>2. NoToken \in Tokens
    BY DEF Tokens, NoToken
  <2>3. rpc' \in [RPCs -> [pc : {"idle", "waiting", "requesting", "handed", "sent",
                                 "failed", "arrived", "expired"},
                           kind : Kinds, token : Tokens, at : Nat, over : BOOLEAN]]
    <3> DEFINE t == [answer[r] EXCEPT !.received = now]
               n == [rpc[r] EXCEPT !.pc = "handed", !.token = t, !.at = now]
    <3>1. t \in Tokens
      BY <2>1
    <3> HIDE DEF t
    <3>2. n \in [pc : {"idle", "waiting", "requesting", "handed", "sent",
                       "failed", "arrived", "expired"},
                 kind : Kinds, token : Tokens, at : Nat, over : BOOLEAN]
      BY <2>0, <3>1 DEF TypeOK
    <3>3. rpc' = [rpc EXCEPT ![r] = n]
      BY <1>5 DEF Receive, Handed, TypeOK, t
    <3> HIDE DEF n
    <3> QED
      BY <3>2, <3>3 DEF TypeOK
  <2>4. last' \in [Sources -> Tokens] /\ answer' \in [RPCs -> Tokens]
    BY <1>5, <2>1, <2>2 DEF Receive, TypeOK
  <2>5. holder' \in [Sources -> RPCs \cup {Nobody}]
    BY <1>5 DEF Receive, TypeOK
  <2> QED
    BY <1>5, <2>3, <2>4, <2>5 DEF Receive, TypeOK
<1>6. ASSUME NEW r \in RPCs, RequestFails(r) PROVE TypeOK'
  <2>1. NoToken \in Tokens /\ "unary" \in Kinds
    BY DEF Tokens, NoToken, Kinds
  <2>2. rpc' \in [RPCs -> [pc : {"idle", "waiting", "requesting", "handed", "sent",
                                 "failed", "arrived", "expired"},
                           kind : Kinds, token : Tokens, at : Nat, over : BOOLEAN]]
    BY <1>6, <2>1 DEF RequestFails, TypeOK, Idle
  <2>3. answer' \in [RPCs -> Tokens]
    BY <1>6, <2>1 DEF RequestFails, TypeOK
  <2>4. holder' \in [Sources -> RPCs \cup {Nobody}]
    BY <1>6 DEF RequestFails, TypeOK
  <2> QED
    BY <1>6, <2>2, <2>3, <2>4 DEF RequestFails, TypeOK
<1>7. ASSUME NEW r \in RPCs, withBearer(r) PROVE TypeOK'
  BY <1>7 DEF withBearer, TypeOK
<1>8. ASSUME NEW r \in RPCs, Arrive(r) PROVE TypeOK'
  BY <1>8 DEF Arrive, TypeOK
<1>9. ASSUME NEW r \in RPCs, ContextEnds(r) PROVE TypeOK'
  BY <1>9 DEF ContextEnds, TypeOK
<1>10. ASSUME NEW r \in RPCs, Again(r) PROVE TypeOK'
  BY <1>10 DEF Again, TypeOK, Idle, NoToken, Tokens, Kinds
<1>11. CASE Cancel
  BY <1>11 DEF Cancel, TypeOK
<1>12. CASE Tick
  BY <1>12 DEF Tick, TypeOK
<1>13. CASE UNCHANGED vars
  BY <1>13 DEF vars, TypeOK
<1> QED
  BY <1>1, <1>2, <1>3, <1>4, <1>5, <1>6, <1>7, <1>8, <1>9, <1>10, <1>11, <1>12, <1>13 DEF Next

\* No token is good that was not: time only passes.
LEMMA ValidFades ==
    ASSUME NEW t \in Tokens, now \in Nat, now' \in Nat, now <= now'
    PROVE  Valid(t)' => Valid(t)
BY ClientAssumption DEF Valid, Tokens

\* Steps that leave the source, the clock and the answers alone, and of one RPC
\* change nothing but its progress, without a request beginning.
LEMMA ProgressOnly ==
    ASSUME IInv, NEW r \in RPCs, TypeOK',
           UNCHANGED <<now, last, holder, answer>>,
           \A q \in RPCs : q # r => rpc'[q] = rpc[q],
           rpc'[r].kind = rpc[r].kind, rpc'[r].token = rpc[r].token, rpc'[r].at = rpc[r].at,
           rpc'[r].pc = "requesting" => rpc[r].pc = "requesting",
           rpc'[r].pc = "expired" => rpc[r].pc = "expired" \/ Expired(rpc[r].token)
    PROVE  IInv'
<1>1. HolderInv /\ LastInv /\ TimeInv
  BY DEF IInv
<1>2. \A q \in RPCs : /\ rpc'[q].kind = rpc[q].kind /\ rpc'[q].token = rpc[q].token
                      /\ rpc'[q].at = rpc[q].at
                      /\ rpc'[q].pc = "requesting" => rpc[q].pc = "requesting"
                      /\ rpc'[q].pc = "expired" => rpc[q].pc = "expired" \/ Expired(rpc[q].token)
  OBVIOUS
<1>3. HolderInv'
  BY <1>1, <1>2 DEF HolderInv, Valid, sourceOf
<1>4. LastInv'
  BY <1>1, <1>2 DEF LastInv, Valid, sourceOf
<1>5. TimeInv'
  BY <1>1, <1>2 DEF TimeInv, Expired
<1> QED
  BY <1>3, <1>4, <1>5 DEF IInv

\* An RPC that starts anew, or gives its request up, holds no token.
LEMMA Cleared ==
    ASSUME IInv, NEW r \in RPCs, TypeOK',
           UNCHANGED <<now, last>>,
           \A q \in RPCs : q # r => rpc'[q] = rpc[q] /\ holder'[sourceOf(rpc[q].kind)] \in {holder[sourceOf(rpc[q].kind)], Nobody},
           rpc[r].pc # "requesting" => holder' = holder,
           \A q \in RPCs : answer'[q].issued <= answer[q].issued,
           rpc'[r].token = NoToken, rpc'[r].at = 0, rpc'[r].pc \notin {"requesting", "expired"}
    PROVE  IInv'
<1>1. HolderInv /\ LastInv /\ TimeInv /\ TypeOK
  BY DEF IInv
<1>2. ASSUME NEW q \in RPCs, rpc'[q].pc = "requesting"
      PROVE  holder'[sourceOf(rpc'[q].kind)] = q /\ ~Valid(last[sourceOf(rpc[q].kind)]) /\ rpc'[q] = rpc[q]
  <2>1. q # r /\ rpc'[q] = rpc[q]
    BY <1>2
  <2>2. holder["src"] = q /\ ~Valid(last["src"])
    BY <1>1, <1>2, <2>1 DEF HolderInv, sourceOf
  <2>3. rpc[r].pc # "requesting"
    BY <1>1, <2>1, <2>2 DEF HolderInv, sourceOf
  <2> QED
    BY <2>1, <2>2, <2>3 DEF sourceOf
<1>3. HolderInv'
  BY <1>2 DEF HolderInv, Valid, sourceOf
<1>4. LastInv'
  BY <1>1 DEF LastInv, Valid, sourceOf
<1>5. TimeInv'
  <2>1. \A q \in RPCs : answer'[q].issued <= now
    BY <1>1 DEF TimeInv, TypeOK, Tokens
  <2>2. ASSUME NEW q \in RPCs, q # r
        PROVE  LET t == rpc[q].token IN
               /\ t.issued <= t.received /\ t.received <= rpc[q].at /\ rpc[q].at <= now
               /\ t # NoToken => rpc[q].at = t.received \/ rpc[q].at <= t.received + t.life - Margin
               /\ rpc[q].pc = "expired" => t # NoToken /\ now >= t.issued + t.life
    BY <1>1 DEF TimeInv
  <2>3. now \in Nat
    BY <1>1 DEF TypeOK
  <2>4. /\ rpc'[r].token.issued <= rpc'[r].token.received
        /\ rpc'[r].token.received <= rpc'[r].at /\ rpc'[r].at <= now
    BY <2>3 DEF NoToken
  <2> QED
    BY <1>1, <2>1, <2>2, <2>4 DEF TimeInv
<1> QED
  BY <1>3, <1>4, <1>5 DEF IInv

\* A request begins: the mutex is free, so nobody else is requesting.
LEMMA TokenStep == ASSUME IInv, NEW r \in RPCs, Token(r), TypeOK' PROVE IInv'
<1>1. HolderInv /\ LastInv /\ TimeInv /\ TypeOK
  BY DEF IInv
<1>2. CASE reuse(last["src"])
  <2>1. /\ UNCHANGED <<now, last, holder, answer>>
        /\ \A q \in RPCs : q # r => rpc'[q] = rpc[q]
        /\ rpc'[r].kind = rpc[r].kind /\ rpc'[r].pc = "handed"
        /\ rpc'[r].token = last["src"] /\ rpc'[r].at = now
    BY <1>1, <1>2 DEF Token, Handed, TypeOK, sourceOf
  <2>2. HolderInv'
    BY <1>1, <2>1 DEF HolderInv, Valid, sourceOf
  <2>3. LastInv'
    BY <1>1, <2>1 DEF LastInv, Valid, sourceOf
  <2>4. now <= last["src"].received + last["src"].life - Margin
    BY <1>2 DEF reuse, Valid
  <2>5. /\ last["src"] \in Tokens /\ now \in Nat
        /\ last["src"].issued <= last["src"].received /\ last["src"].received <= now
    BY <1>1, OneSource DEF TimeInv, TypeOK
  <2>6. TimeInv'
    BY <1>1, <2>1, <2>4, <2>5 DEF TimeInv
  <2> QED
    BY <2>2, <2>3, <2>6 DEF IInv
<1>3. CASE ~reuse(last["src"])
  <2>1. /\ UNCHANGED <<now, last, answer>>
        /\ \A q \in RPCs : q # r => rpc'[q] = rpc[q]
        /\ rpc'[r].kind = rpc[r].kind /\ rpc'[r].pc = "requesting"
        /\ rpc'[r].token = rpc[r].token /\ rpc'[r].at = rpc[r].at
        /\ holder["src"] = Nobody /\ holder'["src"] = r
    BY <1>1, <1>3, OneSource DEF Token, TypeOK, sourceOf
  <2>2. \A q \in RPCs : q # r => rpc[q].pc # "requesting"
    BY <1>1, <2>1, ClientAssumption DEF HolderInv, sourceOf
  <2>3. HolderInv'
    BY <1>3, <2>1, <2>2 DEF HolderInv, Valid, reuse, sourceOf
  <2>4. LastInv'
    BY <1>1, <2>1 DEF LastInv, Valid, sourceOf
  <2>5. TimeInv'
    BY <1>1, <2>1 DEF TimeInv
  <2> QED
    BY <2>3, <2>4, <2>5 DEF IInv
<1> QED
  BY <1>2, <1>3

\* The answer comes: the token that is replaced was not good any more, so no
\* other RPC holds a good one.
LEMMA ReceiveStep == ASSUME IInv, NEW r \in RPCs, Receive(r), TypeOK' PROVE IInv'
<1> DEFINE t == [answer[r] EXCEPT !.received = now]
<1>1. HolderInv /\ LastInv /\ TimeInv /\ TypeOK
  BY DEF IInv
<1>2. /\ now' = now /\ rpc[r].pc = "requesting"
      /\ \A q \in RPCs : q # r => rpc'[q] = rpc[q] /\ answer'[q] = answer[q]
      /\ answer'[r] = NoToken /\ last'["src"] = t /\ \A s \in Sources : s = "src"
      /\ rpc'[r].kind = rpc[r].kind /\ rpc'[r].pc = "handed"
      /\ rpc'[r].token = t /\ rpc'[r].at = now
  BY <1>1, OneSource DEF Receive, Handed, TypeOK, sourceOf
<1>3. /\ t.received = now /\ t.issued = answer[r].issued /\ t.issued <= now /\ now \in Nat
      /\ 0 <= now /\ NoToken.issued = 0
  BY <1>1 DEF TimeInv, TypeOK, Tokens, NoToken
<1> HIDE DEF t
<1>4. holder["src"] = r /\ ~Valid(last["src"])
  BY <1>1, <1>2 DEF HolderInv, sourceOf
<1>5. HolderInv'
  <2>1. \A q \in RPCs : rpc'[q].pc # "requesting"
    BY <1>1, <1>2, <1>4 DEF HolderInv, sourceOf
  <2> QED
    BY <2>1 DEF HolderInv
<1>6. LastInv'
  <2>1. \A q \in RPCs : ~Valid(rpc[q].token)
    BY <1>1, <1>4 DEF LastInv, sourceOf
  <2> QED
    BY <1>2, <2>1 DEF LastInv, Valid, sourceOf
<1>7. TimeInv'
  <2>1. \A q \in RPCs : answer'[q].issued <= now
    BY <1>1, <1>2, <1>3 DEF TimeInv
  <2> QED
    BY <1>1, <1>2, <1>3, <2>1 DEF TimeInv
<1> QED
  BY <1>5, <1>6, <1>7 DEF IInv

\* The endpoint issues a token; only the answer on its way changes.
LEMMA IssueStep ==
    ASSUME IInv, NEW r \in RPCs, NEW life \in Lifetimes, Issue(r, life), TypeOK'
    PROVE  IInv'
<1>1. HolderInv /\ LastInv /\ TimeInv /\ TypeOK
  BY DEF IInv
<1>2. /\ UNCHANGED <<now, last, holder, rpc>>
      /\ \A q \in RPCs : answer'[q].issued \in {answer[q].issued, now}
      /\ now \in Nat
  BY <1>1 DEF Issue, TypeOK
<1>3. HolderInv' /\ LastInv'
  BY <1>1, <1>2 DEF HolderInv, LastInv, Valid, sourceOf
<1>4. TimeInv'
  <2>1. \A q \in RPCs : answer'[q].issued <= now
    BY <1>1, <1>2 DEF TimeInv
  <2> QED
    BY <1>1, <1>2, <2>1 DEF TimeInv
<1> QED
  BY <1>3, <1>4 DEF IInv

\* Time passes.
LEMMA TickStep == ASSUME IInv, Tick, TypeOK' PROVE IInv'
<1>1. HolderInv /\ LastInv /\ TimeInv /\ TypeOK
  BY DEF IInv
<1>2. /\ UNCHANGED <<last, holder, answer, rpc>> /\ now \in Nat /\ now' = now + 1
      /\ \A r \in RPCs : rpc[r].pc # "expired"
  BY <1>1 DEF Tick, TypeOK
<1>3. now' \in Nat /\ now <= now'
  BY <1>2
<1>4. /\ \A r \in RPCs : Valid(rpc[r].token)' => Valid(rpc[r].token)
      /\ Valid(last["src"])' => Valid(last["src"])
  <2>1. ASSUME NEW t \in Tokens PROVE Valid(t)' => Valid(t)
    BY <1>2, <1>3, ValidFades
  <2>2. \A r \in RPCs : rpc[r].token \in Tokens
    BY <1>1 DEF TypeOK
  <2>3. last["src"] \in Tokens
    BY <1>1, OneSource DEF TypeOK
  <2> QED
    BY <1>2, <2>1, <2>2, <2>3 DEF Valid
<1>5. HolderInv'
  BY <1>1, <1>2, <1>4 DEF HolderInv, sourceOf
<1>6. LastInv'
  BY <1>1, <1>2, <1>4 DEF LastInv, sourceOf
<1>7. TimeInv'
  <2>1. \A r \in RPCs : answer[r].issued \in Nat /\ rpc[r].at \in Nat
    BY <1>1 DEF TypeOK, Tokens
  <2>2. \A s \in Sources : last[s].received \in Nat
    BY <1>1 DEF TypeOK, Tokens
  <2> QED
    BY <1>1, <1>2, <2>1, <2>2 DEF TimeInv
<1> QED
  BY <1>5, <1>6, <1>7 DEF IInv

\* The invariant holds for any RPCs, lifetimes and margin.
THEOREM Invariance == Spec => []IInv
<1>1. Init => IInv
  <2> SUFFICES ASSUME Init PROVE IInv
    OBVIOUS
  <2>1. NoToken \in Tokens /\ "unary" \in Kinds
    BY DEF NoToken, Tokens, Kinds
  <2>2. TypeOK
    BY <2>1 DEF Init, TypeOK, Idle
  <2>3. HolderInv
    BY DEF Init, HolderInv, Idle
  <2>4. LastInv
    BY OneSource DEF Init, LastInv, Idle
  <2>5. TimeInv
    BY DEF Init, TimeInv, Idle, NoToken
  <2> QED
    BY <2>2, <2>3, <2>4, <2>5 DEF IInv
<1>2. ASSUME IInv, [Next]_vars PROVE IInv'
  <2>0. TypeOK /\ TypeOK'
    BY <1>2, TypeKept DEF IInv
  <2>1. ASSUME NEW AttachToken \in BOOLEAN, NEW complete \in BOOLEAN, New(AttachToken, complete)
        PROVE  IInv'
    BY <1>2, <2>0, <2>1 DEF New, IInv, HolderInv, LastInv, TimeInv, Valid
  <2>2. ASSUME NEW r \in RPCs, NEW kind \in Kinds, Call(r, kind) PROVE IInv'
    <3>1. /\ UNCHANGED <<now, last, holder, answer>>
          /\ \A q \in RPCs : q # r => rpc'[q] = rpc[q]
          /\ rpc'[r].token = NoToken /\ rpc'[r].at = 0 /\ rpc'[r].pc \notin {"requesting", "expired"}
      BY <2>0, <2>2 DEF Call, TypeOK, Idle
    <3>2. \A q \in RPCs : answer'[q].issued <= answer[q].issued
      BY <2>0, <3>1 DEF TypeOK, Tokens
    <3> QED
      BY <1>2, <2>0, <3>1, <3>2, Cleared
  <2>3. ASSUME NEW r \in RPCs, NEW life \in Lifetimes, Issue(r, life) PROVE IInv'
    BY <1>2, <2>0, <2>3, IssueStep
  <2>4. ASSUME NEW r \in RPCs, Token(r) PROVE IInv'
    BY <1>2, <2>0, <2>4, TokenStep
  <2>5. ASSUME NEW r \in RPCs, Receive(r) PROVE IInv'
    BY <1>2, <2>0, <2>5, ReceiveStep
  <2>6. ASSUME NEW r \in RPCs, RequestFails(r) PROVE IInv'
    <3>1. /\ UNCHANGED <<now, last>> /\ rpc[r].pc = "requesting"
          /\ \A q \in RPCs : q # r => rpc'[q] = rpc[q]
          /\ \A s \in Sources : holder'[s] \in {holder[s], Nobody}
          /\ \A q \in RPCs : answer'[q] \in {answer[q], NoToken}
          /\ rpc'[r].token = NoToken /\ rpc'[r].at = 0 /\ rpc'[r].pc = "failed"
      BY <2>0, <2>6 DEF RequestFails, TypeOK, Idle
    <3>2. \A q \in RPCs : answer'[q].issued <= answer[q].issued
      BY <2>0, <3>1 DEF TypeOK, Tokens, NoToken
    <3> QED
      BY <1>2, <2>0, <3>1, <3>2, Cleared, OneSource
  <2>7. ASSUME NEW r \in RPCs, withBearer(r) PROVE IInv'
    <3>1. /\ UNCHANGED <<now, last, holder, answer>>
          /\ \A q \in RPCs : q # r => rpc'[q] = rpc[q]
          /\ rpc'[r].kind = rpc[r].kind /\ rpc'[r].token = rpc[r].token /\ rpc'[r].at = rpc[r].at
          /\ rpc'[r].pc \notin {"requesting", "expired"}
      BY <2>0, <2>7 DEF withBearer, TypeOK
    <3> QED
      BY <1>2, <2>0, <3>1, ProgressOnly
  <2>8. ASSUME NEW r \in RPCs, Arrive(r) PROVE IInv'
    <3>1. /\ UNCHANGED <<now, last, holder, answer>>
          /\ \A q \in RPCs : q # r => rpc'[q] = rpc[q]
          /\ rpc'[r].kind = rpc[r].kind /\ rpc'[r].token = rpc[r].token /\ rpc'[r].at = rpc[r].at
          /\ rpc'[r].pc # "requesting"
          /\ rpc'[r].pc = "expired" => Expired(rpc[r].token)
      BY <2>0, <2>8 DEF Arrive, TypeOK
    <3> QED
      BY <1>2, <2>0, <3>1, ProgressOnly
  <2>9. ASSUME NEW r \in RPCs, ContextEnds(r) PROVE IInv'
    <3>1. /\ UNCHANGED <<now, last, holder, answer>>
          /\ \A q \in RPCs : q # r => rpc'[q] = rpc[q]
          /\ rpc'[r].kind = rpc[r].kind /\ rpc'[r].token = rpc[r].token /\ rpc'[r].at = rpc[r].at
          /\ rpc'[r].pc = rpc[r].pc
      BY <2>0, <2>9 DEF ContextEnds, TypeOK
    <3> QED
      BY <1>2, <2>0, <3>1, ProgressOnly
  <2>10. ASSUME NEW r \in RPCs, Again(r) PROVE IInv'
    <3>1. /\ UNCHANGED <<now, last, holder, answer>>
          /\ \A q \in RPCs : q # r => rpc'[q] = rpc[q]
          /\ rpc'[r].token = NoToken /\ rpc'[r].at = 0 /\ rpc'[r].pc \notin {"requesting", "expired"}
      BY <2>0, <2>10 DEF Again, TypeOK, Idle
    <3>2. \A q \in RPCs : answer'[q].issued <= answer[q].issued
      BY <2>0, <3>1 DEF TypeOK, Tokens
    <3> QED
      BY <1>2, <2>0, <3>1, <3>2, Cleared
  <2>11. CASE Cancel
    BY <1>2, <2>0, <2>11 DEF Cancel, IInv, HolderInv, LastInv, TimeInv, Valid
  <2>12. CASE Tick
    BY <1>2, <2>0, <2>12, TickStep
  <2>13. CASE UNCHANGED vars
    BY <1>2, <2>0, <2>13 DEF vars, IInv, HolderInv, LastInv, TimeInv, Valid
  <2> QED
    BY <1>2, <2>1, <2>2, <2>3, <2>4, <2>5, <2>6, <2>7, <2>8, <2>9, <2>10, <2>11, <2>12, <2>13 DEF Next
<1> QED
  BY <1>1, <1>2, PTL DEF Spec

\* The RPCs of a client share one token.
THEOREM TokenIsShared == Spec => []OneTokenInUse
<1>1. IInv => OneTokenInUse
  BY DEF IInv, LastInv, OneTokenInUse, sourceOf
<1> QED
  BY <1>1, Invariance, PTL

\* Reuse alone hands out no token that the server finds expired.
THEOREM ReuseIsTimely == Spec => []ExpiredOnlyIfSlow
<1>1. IInv => ExpiredOnlyIfSlow
  <2> SUFFICES ASSUME IInv, NEW r \in RPCs, rpc[r].pc = "expired"
               PROVE  LET t == rpc[r].token IN
                      (t.received - t.issued) + (now - rpc[r].at) >= Margin \/ t.life <= Margin
    BY DEF ExpiredOnlyIfSlow
  <2> DEFINE t == rpc[r].token
  <2>1. /\ t.issued \in Nat /\ t.received \in Nat /\ t.life \in Nat /\ rpc[r].at \in Nat /\ now \in Nat
        /\ Margin \in Nat
    BY ClientAssumption DEF IInv, TypeOK, Tokens
  <2>2. /\ t.issued <= t.received /\ t.received <= rpc[r].at /\ rpc[r].at <= now
        /\ rpc[r].at = t.received \/ rpc[r].at <= t.received + t.life - Margin
        /\ now >= t.issued + t.life
    BY DEF IInv, TimeInv
  <2> HIDE DEF t
  <2>3. (t.received - t.issued) + (now - rpc[r].at) >= Margin \/ t.life <= Margin
    BY <2>1, <2>2
  <2> QED
    BY <2>3 DEF t
<1> QED
  BY <1>1, Invariance, PTL

=============================================================================
