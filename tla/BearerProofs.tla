---------------------------- MODULE BearerProofs ----------------------------
(***************************************************************************)
(* Proofs about Bearer, for headers with any number of values and tokens   *)
(* of any length.                                                          *)
(***************************************************************************)
EXTENDS Bearer, WellFoundedInduction, SequenceTheorems, TLAPS

-----------------------------------------------------------------------------
(* What is left of a text                                                  *)

\* A set of positions that is not empty has a first and a last one.
LEMMA FirstPosition ==
    ASSUME NEW T, T \subseteq Nat, T # {}
    PROVE  \E x \in T : \A y \in T : x <= y
<1>1. PICK x \in T : \A y \in T : ~(<<y, x>> \in OpToRel(<, Nat))
  BY NatLessThanWellFounded, WFMin
<1>2. ASSUME NEW y \in T PROVE x <= y
  <2>1. ~(<<y, x>> \in OpToRel(<, Nat))
    BY <1>1
  <2>2. x \in Nat /\ y \in Nat
    OBVIOUS
  <2>3. ~(y < x)
    BY <2>1, <2>2 DEF OpToRel
  <2> QED
    BY <2>2, <2>3
<1> QED
  BY <1>2

LEMMA LastPosition ==
    ASSUME NEW n \in Nat, NEW T, T \subseteq 1..n, T # {}
    PROVE  \E x \in T : \A y \in T : y <= x
<1> DEFINE U == {n - x : x \in T}
<1>1. U \subseteq Nat
  <2>1. ASSUME NEW x \in T PROVE n - x \in Nat
    <3>1. x \in 1..n
      OBVIOUS
    <3> QED
      BY <3>1
  <2> QED
    BY <2>1
<1>2. U # {}
  OBVIOUS
<1> HIDE DEF U
<1>3. PICK u \in U : \A v \in U : u <= v
  BY <1>1, <1>2, FirstPosition
<1>4. PICK x \in T : u = n - x
  BY DEF U
<1>5. ASSUME NEW y \in T PROVE y <= x
  <2>1. n - y \in U
    BY DEF U
  <2>2. u <= n - y /\ x \in 1..n /\ y \in 1..n
    BY <1>3, <2>1
  <2> QED
    BY <1>4, <2>2
<1> QED
  BY <1>5

\* What TrimSpace leaves is a part of the text; it begins and ends with runes
\* that are not white, and nothing that is not white is lost.
LEMMA TrimProperties ==
    ASSUME NEW R, NEW s \in Seq(R)
    PROVE  /\ TrimSpace(s) \in Seq(R)
           /\ TrimSpace(s) # <<>> => /\ 1 \in DOMAIN TrimSpace(s)
                                     /\ ~White(TrimSpace(s)[1])
                                     /\ ~White(TrimSpace(s)[Len(TrimSpace(s))])
           /\ s # <<>> /\ (\A i \in DOMAIN s : ~White(s[i])) => TrimSpace(s) = s
<1> DEFINE solid == {i \in DOMAIN s : ~White(s[i])}
<1>0. Len(s) \in Nat /\ DOMAIN s = 1..Len(s) /\ solid \subseteq 1..Len(s) /\ solid \subseteq Nat
  OBVIOUS
<1>1. CASE solid = {}
  <2>1. TrimSpace(s) = <<>>
    BY <1>1 DEF TrimSpace
  <2>2. s # <<>> => \E i \in DOMAIN s : White(s[i])
    BY <1>0, <1>1
  <2> QED
    BY <2>1, <2>2
<1>2. CASE solid # {}
  <2> DEFINE first == CHOOSE i \in solid : \A j \in solid : i <= j
             last  == CHOOSE i \in solid : \A j \in solid : j <= i
  <2>1. first \in solid /\ \A j \in solid : first <= j
    BY <1>0, <1>2, FirstPosition
  <2>2. last \in solid /\ \A j \in solid : j <= last
    BY <1>0, <1>2, LastPosition
  <2>3. TrimSpace(s) = SubSeq(s, first, last)
    BY <1>2 DEF TrimSpace
  <2>4. ~White(s[first]) /\ ~White(s[last])
    BY <2>1, <2>2
  <2> HIDE DEF solid, first, last
  <2>5. first \in 1..Len(s) /\ last \in 1..Len(s) /\ first <= last
    BY <1>0, <2>1, <2>2
  <2>6. /\ SubSeq(s, first, last) \in Seq(R) /\ Len(SubSeq(s, first, last)) = last - first + 1
        /\ \A i \in 1..(last - first + 1) : SubSeq(s, first, last)[i] = s[first + i - 1]
    BY <1>0, <2>5, SubSeqProperties
  <2>7. /\ last - first + 1 \in Nat /\ 1 \in 1..(last - first + 1)
        /\ last - first + 1 \in 1..(last - first + 1)
        /\ first + 1 - 1 = first /\ first + (last - first + 1) - 1 = last
    BY <1>0, <2>5
  <2>8. /\ SubSeq(s, first, last)[1] = s[first]
        /\ SubSeq(s, first, last)[last - first + 1] = s[last]
        /\ 1 \in DOMAIN SubSeq(s, first, last)
    BY <2>6, <2>7
  <2>9. ASSUME \A i \in DOMAIN s : ~White(s[i]), s # <<>>
        PROVE  SubSeq(s, first, last) = s
    <3>0. Len(s) >= 1
      BY <1>0, <2>9
    <3>1. 1 \in solid /\ Len(s) \in solid
      BY <1>0, <2>9, <3>0 DEF solid
    <3>2. first <= 1 /\ Len(s) <= last
      BY <2>1, <2>2, <3>1
    <3>3. first = 1 /\ last = Len(s)
      <4>1. first \in Int /\ last \in Int /\ Len(s) \in Int /\ 1 <= first /\ last <= Len(s)
        BY <1>0, <2>5
      <4>2. first = 1
        BY <3>2, <4>1
      <4>3. last = Len(s)
        BY <3>2, <4>1
      <4> QED
        BY <4>2, <4>3
    <3>4. \A i \in 1..Len(s) : 1 + i - 1 = i
      BY <1>0
    <3> QED
      BY <1>0, <2>6, <3>3, <3>4
  <2> QED
    BY <2>3, <2>4, <2>6, <2>8, <2>9
<1> QED
  BY <1>1, <1>2

-----------------------------------------------------------------------------
(* From the client to the server                                           *)

Headers == [scheme : Schemes, rest : Seq(Runes)]

\* The header is the caller's, with the client's value behind it once sent; a
\* token that is received is what extract makes of it.
HeaderInv ==
    /\ attach \in BOOLEAN
    /\ stage \in {"calling", "sent", "failed", "received"}
    /\ accessToken \in Seq(Runes) /\ md \in Seq(Headers)
    /\ attach /\ stage \in {"sent", "received"} =>
          /\ accessToken # <<>>
          /\ \E own \in Seq(Headers) : md = Append(own, [scheme |-> "Bearer ", rest |-> accessToken])
    /\ stage = "received" => token = extract(md)

LEMMA TextsAreSequences == Texts \subseteq Seq(Runes) /\ <<>> \in Seq(Runes) /\ Values \subseteq Headers
<1>1. ASSUME NEW t \in Texts PROVE t \in Seq(Runes)
  <2>1. PICK n \in Nat : t \in [1..n -> Runes]
    BY BearerAssumption DEF Texts
  <2> QED
    BY <2>1
<1> QED
  BY <1>1 DEF Values, Headers

LEMMA HeaderInit == Init => HeaderInv
<1> SUFFICES ASSUME Init PROVE HeaderInv
  OBVIOUS
<1>1. accessToken \in Seq(Runes)
  <2>1. accessToken \in Texts \/ accessToken \in {<<>>}
    BY DEF Init
  <2> QED
    BY <2>1, TextsAreSequences
<1>2. md \in Seq(Headers)
  <2>1. PICK n \in Nat : md \in [1..n -> Values]
    BY BearerAssumption DEF Init
  <2>2. md \in [1..n -> Headers]
    BY <2>1, TextsAreSequences
  <2> QED
    BY <2>2
<1> QED
  BY <1>1, <1>2 DEF Init, HeaderInv

LEMMA HeaderNext == HeaderInv /\ [Next]_vars => HeaderInv'
<1> SUFFICES ASSUME HeaderInv, [Next]_vars PROVE HeaderInv'
  OBVIOUS
<1> DEFINE value == [scheme |-> "Bearer ", rest |-> accessToken]
<1>1. CASE withBearer
  <2>1. CASE accessToken = <<>>
    BY <1>1, <2>1 DEF withBearer, HeaderInv
  <2>2. CASE accessToken # <<>>
    <3>1. md' = Append(md, value) /\ stage' = "sent" /\ UNCHANGED <<attach, accessToken, token>>
      BY <1>1, <2>2 DEF withBearer
    <3>2. value \in Headers
      BY DEF HeaderInv, Headers, Schemes
    <3>3. md' \in Seq(Headers)
      <4>1. md \in Seq(Headers)
        BY DEF HeaderInv
      <4> HIDE DEF value
      <4> QED
        BY <3>1, <3>2, <4>1, AppendProperties
    <3>4. \E own \in Seq(Headers) : md' = Append(own, [scheme |-> "Bearer ", rest |-> accessToken'])
      BY <3>1 DEF HeaderInv
    <3> QED
      BY <2>2, <3>1, <3>3, <3>4 DEF HeaderInv
  <2> QED
    BY <2>1, <2>2
<1>2. CASE noop
  BY <1>2 DEF noop, HeaderInv
<1>3. CASE FromIncomingMetadata
  BY <1>3 DEF FromIncomingMetadata, HeaderInv
<1>4. CASE UNCHANGED vars
  BY <1>4 DEF vars, HeaderInv
<1> QED
  BY <1>1, <1>2, <1>3, <1>4 DEF Next

LEMMA HeaderAlways == Spec => []HeaderInv
BY HeaderInit, HeaderNext, PTL DEF Spec

\* A token that is received is the trimmed rest of the only value.
LEMMA ReceivedToken ==
    ASSUME HeaderInv, stage = "received", token # <<>>
    PROVE  /\ Len(md) = 1 /\ md[1] \in Headers /\ IsBearer(md[1])
           /\ token = TrimSpace(md[1].rest)
           /\ \A i \in DOMAIN token : ~Rejected(token[i])
<1>1. token = extract(md) /\ md \in Seq(Headers)
  BY DEF HeaderInv
<1>2. Len(md) = 1 /\ IsBearer(md[1])
  BY <1>1 DEF extract
<1>3. /\ token = TrimSpace(md[1].rest)
      /\ \A i \in DOMAIN token : ~Rejected(token[i])
  BY <1>1, <1>2 DEF extract
<1> QED
  BY <1>1, <1>2, <1>3

\* What an attaching client's RPC carries if it carries one value.
LEMMA OnlyValue ==
    ASSUME HeaderInv, attach, stage = "received", Len(md) = 1
    PROVE  accessToken # <<>> /\ md[1] = [scheme |-> "Bearer ", rest |-> accessToken]
<1> DEFINE value == [scheme |-> "Bearer ", rest |-> accessToken]
<1>1. PICK own \in Seq(Headers) : md = Append(own, value)
  BY DEF HeaderInv
<1>2. value \in Headers
  BY DEF HeaderInv, Headers, Schemes
<1> HIDE DEF value
<1>3. Len(own) + 1 = 1 /\ Len(own) \in Nat /\ md[Len(own) + 1] = value
  BY <1>1, <1>2, AppendProperties
<1>4. md[1] = value
  BY <1>3
<1> QED
  BY <1>4 DEF HeaderInv, value

-----------------------------------------------------------------------------
\* The RPC of an attaching client is judged by the token of its source or by
\* none (withBearer, extract).
THEOREM NoOtherToken == Spec => []TokenIsTheClients
<1>1. ASSUME HeaderInv, attach, stage = "received", token # <<>>
      PROVE  token = TrimSpace(accessToken)
  <2>1. Len(md) = 1 /\ token = TrimSpace(md[1].rest)
    BY <1>1, ReceivedToken
  <2>2. md[1] = [scheme |-> "Bearer ", rest |-> accessToken]
    BY <1>1, <2>1, OnlyValue
  <2>3. md[1].rest = accessToken
    <3> DEFINE value == [scheme |-> "Bearer ", rest |-> accessToken]
    <3>1. value.rest = accessToken
      OBVIOUS
    <3>2. md[1] = value
      BY <2>2
    <3> QED
      BY <3>1, <3>2
  <2> QED
    BY <2>1, <2>3
<1>2. HeaderInv => TokenIsTheClients
  BY <1>1 DEF TokenIsTheClients
<1> QED
  BY <1>2, HeaderAlways, PTL

\* What is accepted is clean (extract).
THEOREM CleanOrRefused == Spec => []AcceptedIsClean
<1>1. ASSUME HeaderInv, stage = "received", token # <<>>
      PROVE  /\ Len(md) = 1 /\ IsBearer(md[1])
             /\ \A i \in DOMAIN token : token[i] \notin {"space", "ctl"}
             /\ ~White(token[1]) /\ ~White(token[Len(token)])
  <2>1. /\ Len(md) = 1 /\ md[1] \in Headers /\ IsBearer(md[1]) /\ token = TrimSpace(md[1].rest)
        /\ \A i \in DOMAIN token : ~Rejected(token[i])
    BY <1>1, ReceivedToken
  <2>2. md[1].rest \in Seq(Runes)
    BY <2>1 DEF Headers
  <2>3. ~White(token[1]) /\ ~White(token[Len(token)])
    BY <1>1, <2>1, <2>2, TrimProperties
  <2> QED
    BY <2>1, <2>3 DEF Rejected
<1>2. HeaderInv => AcceptedIsClean
  BY <1>1 DEF AcceptedIsClean
<1> QED
  BY <1>2, HeaderAlways, PTL

\* A token of graphic ASCII arrives as it is (withBearer, extract).
THEOREM CleanTokensArrive == Spec => []CleanTokenArrives
<1>1. ASSUME HeaderInv, attach, stage = "received", Len(md) = 1,
             \A i \in DOMAIN accessToken : accessToken[i] = "ascii"
      PROVE  token = accessToken /\ token # <<>>
  <2>1. accessToken # <<>> /\ md[1] = [scheme |-> "Bearer ", rest |-> accessToken]
    BY <1>1, OnlyValue
  <2>2. accessToken \in Seq(Runes)
    BY <1>1 DEF HeaderInv
  <2>3. TrimSpace(accessToken) = accessToken
    BY <1>1, <2>1, <2>2, TrimProperties DEF White
  <2>4. \A i \in DOMAIN accessToken : ~Rejected(accessToken[i])
    BY <1>1 DEF Rejected
  <2>5. IsBearer(md[1]) /\ md[1].rest = accessToken
    <3> DEFINE value == [scheme |-> "Bearer ", rest |-> accessToken]
    <3>1. value.scheme # "other" /\ value.rest = accessToken
      OBVIOUS
    <3>2. md[1] = value
      BY <2>1
    <3> QED
      BY <3>1, <3>2 DEF IsBearer
  <2>6. extract(md) = accessToken
    BY <1>1, <2>3, <2>4, <2>5 DEF extract
  <2> QED
    BY <1>1, <2>1, <2>6 DEF HeaderInv
<1>2. HeaderInv => CleanTokenArrives
  BY <1>1 DEF CleanTokenArrives
<1> QED
  BY <1>2, HeaderAlways, PTL
=============================================================================
