---------------------------- MODULE PagingProofs ----------------------------
(***************************************************************************)
(* Proofs about Paging, for lists, pages and totals of any size: a walk    *)
(* that nothing moved under reads what one read would, and one that        *)
(* something moved under still sees everything that stayed.                *)
(***************************************************************************)
EXTENDS Paging, FiniteSetTheorems, SequenceTheorems, TLAPS

-----------------------------------------------------------------------------
(* Lists                                                                   *)

\* An element is put in at a place; what lies behind moves up.
LEMMA InsertProperties ==
    ASSUME NEW S, NEW s \in Seq(S), NEW e \in S, NEW i \in 1..(Len(s) + 1)
    PROVE  /\ InsertAt(s, i, e) \in Seq(S)
           /\ Len(InsertAt(s, i, e)) = Len(s) + 1
           /\ \A j \in 1..(Len(s) + 1) : InsertAt(s, i, e)[j] =
                 IF j < i THEN s[j] ELSE IF j = i THEN e ELSE s[j - 1]
<1> DEFINE front == SubSeq(s, 1, i - 1)
           back  == SubSeq(s, i, Len(s))
<1>0. Len(s) \in Nat /\ i \in Nat /\ i >= 1 /\ i <= Len(s) + 1 /\ \A j \in 1..Len(s) : s[j] \in S
  OBVIOUS
<1>1. /\ front \in Seq(S) /\ Len(front) = i - 1
      /\ \A j \in 1..(i - 1) : front[j] = s[j]
  BY <1>0, SubSeqProperties
<1>2. /\ back \in Seq(S) /\ Len(back) = Len(s) - i + 1
      /\ \A j \in 1..(Len(s) - i + 1) : back[j] = s[i + j - 1]
  BY <1>0, SubSeqProperties
<1>3. <<e>> \in Seq(S) /\ Len(<<e>>) = 1 /\ <<e>>[1] = e
  OBVIOUS
<1> HIDE DEF front, back
<1> DEFINE head == front \o <<e>>
<1>4. /\ head \in Seq(S) /\ Len(head) = i
      /\ \A j \in 1..i : head[j] = IF j < i THEN s[j] ELSE e
  BY <1>0, <1>1, <1>3, ConcatProperties
<1> HIDE DEF head
<1>5. /\ head \o back \in Seq(S) /\ Len(head \o back) = Len(s) + 1
      /\ \A j \in 1..(Len(s) + 1) : (head \o back)[j] = IF j <= i THEN head[j] ELSE back[j - i]
  <2>1. /\ head \o back \in Seq(S) /\ Len(head \o back) = Len(head) + Len(back)
        /\ \A j \in 1..(Len(head) + Len(back)) :
              (head \o back)[j] = IF j <= Len(head) THEN head[j] ELSE back[j - Len(head)]
    BY <1>2, <1>4, ConcatProperties
  <2>2. Len(head) = i /\ Len(head) + Len(back) = Len(s) + 1
    BY <1>0, <1>2, <1>4
  <2> QED
    BY <2>1, <2>2
<1>6. InsertAt(s, i, e) = head \o back
  BY DEF InsertAt, front, back, head
<1>7. ASSUME NEW j \in 1..(Len(s) + 1)
      PROVE  (head \o back)[j] = IF j < i THEN s[j] ELSE IF j = i THEN e ELSE s[j - 1]
  <2>0. j <= i \/ j > i
    BY <1>0
  <2>1. CASE j <= i
    BY <1>0, <1>4, <1>5, <2>1
  <2>2. CASE j > i
    <3>1. j - i \in 1..(Len(s) - i + 1) /\ i + (j - i) - 1 = j - 1
      BY <1>0, <2>2
    <3> QED
      BY <1>0, <1>2, <1>5, <2>2, <3>1
  <2> QED
    BY <2>0, <2>1, <2>2
<1> QED
  BY <1>5, <1>6, <1>7

\* An element is taken out; what lies behind it moves down.
LEMMA RemoveProperties ==
    ASSUME NEW S, NEW s \in Seq(S), NEW i \in 1..Len(s)
    PROVE  /\ RemoveAt(s, i) \in Seq(S)
           /\ Len(RemoveAt(s, i)) = Len(s) - 1
           /\ \A j \in 1..(Len(s) - 1) : RemoveAt(s, i)[j] = IF j < i THEN s[j] ELSE s[j + 1]
<1> DEFINE front == SubSeq(s, 1, i - 1)
           back  == SubSeq(s, i + 1, Len(s))
<1>0. Len(s) \in Nat /\ i \in Nat /\ i >= 1 /\ i <= Len(s) /\ \A j \in 1..Len(s) : s[j] \in S
  OBVIOUS
<1>1. /\ front \in Seq(S) /\ Len(front) = i - 1
      /\ \A j \in 1..(i - 1) : front[j] = s[j]
  BY <1>0, SubSeqProperties
<1>2. /\ back \in Seq(S) /\ Len(back) = Len(s) - i
      /\ \A j \in 1..(Len(s) - i) : back[j] = s[i + j]
  BY <1>0, SubSeqProperties
<1> HIDE DEF front, back
<1>3. /\ front \o back \in Seq(S) /\ Len(front \o back) = Len(s) - 1
      /\ \A j \in 1..(Len(s) - 1) : (front \o back)[j] = IF j < i THEN front[j] ELSE back[j - (i - 1)]
  <2>1. /\ front \o back \in Seq(S) /\ Len(front \o back) = Len(front) + Len(back)
        /\ \A j \in 1..(Len(front) + Len(back)) :
              (front \o back)[j] = IF j <= Len(front) THEN front[j] ELSE back[j - Len(front)]
    BY <1>1, <1>2, ConcatProperties
  <2>2. Len(front) = i - 1 /\ Len(front) + Len(back) = Len(s) - 1
    BY <1>0, <1>1, <1>2
  <2>3. \A j \in 1..(Len(s) - 1) : j <= i - 1 <=> j < i
    BY <1>0
  <2> QED
    BY <2>1, <2>2, <2>3
<1>4. RemoveAt(s, i) = front \o back
  BY DEF RemoveAt, front, back
<1>5. ASSUME NEW j \in 1..(Len(s) - 1)
      PROVE  (front \o back)[j] = IF j < i THEN s[j] ELSE s[j + 1]
  <2>0. j < i \/ j >= i
    BY <1>0
  <2>1. CASE j < i
    BY <1>0, <1>1, <1>3, <2>1
  <2>2. CASE j >= i
    <3>1. j - (i - 1) \in 1..(Len(s) - i) /\ i + (j - (i - 1)) = j + 1
      BY <1>0, <2>2
    <3> QED
      BY <1>0, <1>2, <1>3, <2>2, <3>1
  <2> QED
    BY <2>0, <2>1, <2>2
<1> QED
  BY <1>3, <1>4, <1>5

\* What a turn receives: what was there, and the list from the offset to the
\* end of the page, which is not empty unless the list ends before it.
LEMMA Receives ==
    ASSUME TypeOK
    PROVE  LET end == PageEnd(list, offset) IN
           /\ Received \in Seq(Entries) /\ Len(Received) = end
           /\ end \in Nat /\ offset \in Nat /\ Len(list) \in Nat
           /\ offset >= Len(list) => end = offset
           /\ offset < Len(list) => end > offset /\ end <= Len(list)
           /\ \A k \in 1..offset : Received[k] = seen[k]
           /\ \A k \in (offset + 1)..end : Received[k] = list[k]
<1> DEFINE end  == PageEnd(list, offset)
           page == SubSeq(list, offset + 1, end)
<1>0. /\ list \in Seq(Entries) /\ seen \in Seq(Entries)
      /\ Len(list) \in Nat /\ offset \in Nat /\ offset = Len(seen)
      /\ max \in Nat \ {0} /\ lookupPageSize \in Nat \ {0}
      /\ \A j \in 1..Len(list) : list[j] \in Entries
  BY PagingAssumption DEF TypeOK, offset
<1>1. /\ end \in Nat
      /\ offset >= Len(list) => end = offset
      /\ offset < Len(list) => end > offset /\ end <= Len(list)
  BY <1>0 DEF PageEnd, Smaller
<1> HIDE DEF end
<1>2. /\ page \in Seq(Entries) /\ Len(page) = end - offset
      /\ \A j \in 1..(end - offset) : page[j] = list[offset + j]
  <2>1. \A j \in (offset + 1)..end : list[j] \in Entries
    BY <1>0, <1>1
  <2>2. /\ page \in Seq(Entries)
        /\ Len(page) = IF offset + 1 <= end THEN end - (offset + 1) + 1 ELSE 0
        /\ \A j \in 1..(end - (offset + 1) + 1) : page[j] = list[(offset + 1) + j - 1]
    BY <1>0, <1>1, <2>1, SubSeqProperties
  <2> QED
    BY <1>0, <1>1, <2>2
<1> HIDE DEF page
<1>3. /\ seen \o page \in Seq(Entries) /\ Len(seen \o page) = offset + (end - offset)
      /\ \A k \in 1..(offset + (end - offset)) :
            (seen \o page)[k] = IF k <= offset THEN seen[k] ELSE page[k - offset]
  BY <1>0, <1>2, ConcatProperties
<1>4. end >= offset
  BY <1>0, <1>1
<1>5. \A k \in 1..offset : (seen \o page)[k] = seen[k]
  BY <1>0, <1>1, <1>3, <1>4
<1>6. ASSUME NEW k \in (offset + 1)..end PROVE (seen \o page)[k] = list[k]
  <2>1. k - offset \in 1..(end - offset) /\ offset + (k - offset) = k /\ ~(k <= offset)
    BY <1>0, <1>1
  <2> QED
    BY <1>0, <1>1, <1>2, <1>3, <2>1
<1>7. Received = seen \o page
  BY DEF Received, page, end
<1> QED
  BY <1>0, <1>1, <1>3, <1>4, <1>5, <1>6, <1>7 DEF end

-----------------------------------------------------------------------------
(* The invariant                                                           *)

LEMMA InitIInv == Init => IInv
<1> SUFFICES ASSUME Init PROVE IInv
  OBVIOUS
<1>1. PICK n \in 0..Cardinality(Entries) : list \in [1..n -> Entries] /\ IsInjective(list)
  BY DEF Init
<1>2. n \in Nat
  BY PagingAssumption, FS_CardinalityType
<1>3. list \in Seq(Entries) /\ DOMAIN list = 1..n /\ Len(list) = n
  BY <1>1, <1>2
<1>4. stayed = {list[i] : i \in DOMAIN list}
  BY DEF Init, ToSet
<1>5. seen = <<>> /\ Len(seen) = 0 /\ DOMAIN seen = {} /\ seen \in Seq(Entries) /\ offset = 0
  BY DEF Init, offset
<1>6. TypeOK
  <2>1. stayed \subseteq Entries
    BY <1>1, <1>3, <1>4
  <2> QED
    BY <1>3, <1>5, <2>1 DEF Init, TypeOK
<1>7. ListInv
  BY <1>1, <1>3, <1>4 DEF ListInv, IsInjective
<1>8. WalkInv /\ PrefixInv /\ DoneInv
  BY <1>3, <1>5 DEF Init, WalkInv, PrefixInv, DoneInv, Ambiguous
<1> QED
  BY <1>6, <1>7, <1>8 DEF IInv

\* A page that is taken for the last one is the last one.
LEMMA CompleteMeansEnd ==
    ASSUME TypeOK, Honest,
           paginationComplete(Len(Received), Len(Received) - offset, Total(list))
    PROVE  Len(Received) >= Len(list)
<1>1. /\ Len(Received) = PageEnd(list, offset) /\ PageEnd(list, offset) \in Nat
      /\ offset \in Nat /\ Len(list) \in Nat /\ max \in Nat \ {0} /\ lookupPageSize \in Nat \ {0}
      /\ offset >= Len(list) => PageEnd(list, offset) = offset
  BY Receives, PagingAssumption DEF TypeOK
<1>2. CASE totals = "exact"
  BY <1>1, <1>2 DEF paginationComplete, Total, PageEnd, Smaller
<1>3. CASE totals = "none" /\ max >= lookupPageSize
  BY <1>1, <1>3 DEF paginationComplete, Total, PageEnd, Smaller
<1> QED
  BY <1>2, <1>3 DEF Honest

LEMMA TurnIInv == IInv /\ ReadPage => IInv'
<1> SUFFICES ASSUME IInv, ReadPage PROVE IInv'
  OBVIOUS
<1> DEFINE end == PageEnd(list, offset)
<1>1. /\ TypeOK /\ ListInv /\ WalkInv /\ PrefixInv /\ DoneInv
      /\ pc = "walking" /\ seen' = Received /\ pc' = Outcome(list, Received)
      /\ kind' = kind /\ totals' = totals /\ max' = max /\ list' = list
      /\ stayed' = stayed /\ gone' = gone /\ came' = came
  BY DEF IInv, ReadPage, Turn, env, hist
<1>2. /\ seen' \in Seq(Entries) /\ Len(seen') = end
      /\ end \in Nat /\ offset \in Nat /\ Len(list) \in Nat
      /\ offset >= Len(list) => end = offset
      /\ offset < Len(list) => end > offset /\ end <= Len(list)
      /\ \A k \in 1..offset : seen'[k] = seen[k]
      /\ \A k \in (offset + 1)..end : seen'[k] = list[k]
  BY <1>1, Receives
<1>3. /\ DOMAIN list = 1..Len(list) /\ DOMAIN seen = 1..offset /\ DOMAIN seen' = 1..end
      /\ offset' = end
  BY <1>1, <1>2 DEF TypeOK, offset
<1> HIDE DEF end
<1>4. TypeOK'
  BY <1>1, <1>2 DEF TypeOK, Outcome
<1>5. ListInv'
  BY <1>1 DEF ListInv
<1>6. \A k \in 1..end : k <= offset \/ k \in (offset + 1)..end
  BY <1>2
<1>7. WalkInv'
  <2>1. ASSUME ~gone, NEW i \in DOMAIN list, i <= end, list[i] \in stayed
        PROVE  \E k \in DOMAIN seen' : seen'[k] = list[i]
    <3>1. CASE i <= offset
      <4>1. PICK k \in DOMAIN seen : seen[k] = list[i]
        BY <1>1, <2>1, <3>1 DEF WalkInv
      <4>2. k \in 1..offset /\ k \in 1..end
        BY <1>2, <1>3, <4>1
      <4> QED
        BY <1>2, <1>3, <4>1, <4>2
    <3>2. CASE i \in (offset + 1)..end
      <4>1. i \in 1..end
        BY <1>2, <3>2
      <4> QED
        BY <1>2, <1>3, <3>2, <4>1
    <3> QED
      BY <1>2, <1>3, <2>1, <3>1, <3>2
  <2>2. ASSUME ~came, NEW i \in DOMAIN list, NEW k \in 1..end, i > end, list[i] \in stayed
        PROVE  seen'[k] # list[i]
    <3>0. i > offset /\ i # k /\ i \in Nat
      BY <1>2, <1>3, <2>2
    <3>1. CASE k <= offset
      BY <1>1, <1>2, <1>3, <2>2, <3>0, <3>1 DEF WalkInv
    <3>2. CASE k \in (offset + 1)..end
      <4>1. k \in DOMAIN list
        BY <1>2, <1>3, <3>2
      <4> QED
        BY <1>1, <1>2, <3>0, <3>2, <4>1 DEF ListInv
    <3> QED
      BY <1>6, <3>1, <3>2
  <2>3. ASSUME ~came, NEW k \in 1..end, NEW m \in 1..end, seen'[k] = seen'[m], seen'[k] \in stayed
        PROVE  k = m
    <3>1. CASE k <= offset /\ m <= offset
      <4>1. k \in DOMAIN seen /\ m \in DOMAIN seen
        BY <1>2, <1>3, <3>1
      <4> QED
        BY <1>1, <1>2, <1>3, <2>3, <4>1 DEF WalkInv
    <3>2. CASE k \in (offset + 1)..end /\ m \in (offset + 1)..end
      <4>1. k \in DOMAIN list /\ m \in DOMAIN list
        BY <1>2, <1>3, <3>2
      <4> QED
        BY <1>1, <1>2, <2>3, <3>2, <4>1 DEF ListInv
    <3>3. CASE k <= offset /\ m \in (offset + 1)..end
      <4>1. k \in DOMAIN seen /\ m \in DOMAIN list /\ m > offset
        BY <1>2, <1>3, <3>3
      <4>2. list[m] = seen[k] /\ list[m] \in stayed
        BY <1>2, <1>3, <2>3, <3>3, <4>1
      <4> QED
        BY <1>1, <2>3, <4>1, <4>2 DEF WalkInv
    <3>4. CASE m <= offset /\ k \in (offset + 1)..end
      <4>1. m \in DOMAIN seen /\ k \in DOMAIN list /\ k > offset
        BY <1>2, <1>3, <3>4
      <4>2. list[k] = seen[m] /\ list[k] \in stayed
        BY <1>2, <1>3, <2>3, <3>4, <4>1
      <4> QED
        BY <1>1, <2>3, <4>1, <4>2 DEF WalkInv
    <3> QED
      BY <1>6, <3>1, <3>2, <3>3, <3>4
  <2> QED
    BY <1>1, <1>3, <2>1, <2>2, <2>3 DEF WalkInv
<1>8. PrefixInv'
  <2> SUFFICES ASSUME ~gone, ~came
               PROVE  end <= Len(list) /\ \A i \in 1..end : seen'[i] = list[i]
    BY <1>1, <1>3 DEF PrefixInv
  <2>1. offset <= Len(list) /\ \A i \in 1..offset : seen[i] = list[i]
    BY <1>1, <1>3 DEF PrefixInv
  <2>2. end <= Len(list)
    BY <1>2, <2>1
  <2>3. ASSUME NEW i \in 1..end PROVE seen'[i] = list[i]
    <3>1. CASE i <= offset
      <4>1. i \in 1..offset
        BY <1>2, <3>1
      <4> QED
        BY <1>2, <2>1, <4>1
    <3> QED
      BY <1>2, <1>6, <3>1
  <2> QED
    BY <2>2, <2>3
<1>9. DoneInv'
  <2>1. pc' = "done" /\ Honest' => offset' >= Len(list')
    <3> SUFFICES ASSUME pc' = "done", Honest PROVE end >= Len(list)
      BY <1>1, <1>3 DEF Honest
    <3>1. paginationComplete(Len(Received), Len(Received) - offset, Total(list))
      BY <1>1 DEF Outcome
    <3> QED
      BY <1>1, <1>2, <3>1, CompleteMeansEnd
  <2>2. pc' \in {"walking", "done"} /\ kind = "lookup" => ~Ambiguous(Received)
    BY <1>1 DEF Outcome
  <2>3. pc' = "ambiguous" => kind = "lookup" /\ Ambiguous(Received)
    BY <1>1 DEF Outcome
  <2>4. Ambiguous(seen)' <=> Ambiguous(Received)
    BY <1>1 DEF Ambiguous
  <2> QED
    BY <1>1, <2>1, <2>2, <2>3, <2>4 DEF DoneInv
<1> QED
  BY <1>4, <1>5, <1>7, <1>8, <1>9 DEF IInv

LEMMA CreateIInv ==
    ASSUME IInv, NEW e \in Entries, NEW i \in 1..(Len(list) + 1), Create(e, i)
    PROVE  IInv'
<1>1. /\ TypeOK /\ ListInv /\ WalkInv /\ PrefixInv /\ DoneInv
      /\ pc = "walking" /\ pc' = pc /\ seen' = seen /\ list' = InsertAt(list, i, e)
      /\ kind' = kind /\ totals' = totals /\ max' = max
      /\ stayed' = stayed /\ gone' = gone /\ came' = (came \/ i <= offset)
      /\ e \notin ToSet(list)
  BY DEF IInv, Create, env
<1>2. /\ Len(list) \in Nat /\ i \in Nat /\ i >= 1 /\ i <= Len(list) + 1
      /\ list \in Seq(Entries) /\ seen \in Seq(Entries)
      /\ DOMAIN list = 1..Len(list) /\ offset \in Nat /\ DOMAIN seen = 1..offset
      /\ offset' = offset
  BY <1>1 DEF TypeOK, offset
<1>3. /\ list' \in Seq(Entries) /\ Len(list') = Len(list) + 1
      /\ DOMAIN list' = 1..(Len(list) + 1)
      /\ \A j \in 1..(Len(list) + 1) : list'[j] =
            IF j < i THEN list[j] ELSE IF j = i THEN e ELSE list[j - 1]
  <2>1. /\ list' \in Seq(Entries) /\ Len(list') = Len(list) + 1
        /\ \A j \in 1..(Len(list) + 1) : list'[j] =
              IF j < i THEN list[j] ELSE IF j = i THEN e ELSE list[j - 1]
    <3>1. /\ InsertAt(list, i, e) \in Seq(Entries) /\ Len(InsertAt(list, i, e)) = Len(list) + 1
          /\ \A j \in 1..(Len(list) + 1) : InsertAt(list, i, e)[j] =
                IF j < i THEN list[j] ELSE IF j = i THEN e ELSE list[j - 1]
      BY <1>2, InsertProperties
    <3> QED
      BY <1>1, <3>1
  <2>2. DOMAIN list' = 1..Len(list')
    BY <2>1
  <2> QED
    BY <2>1, <2>2
<1>4. /\ \A j \in DOMAIN list : list[j] # e
      /\ e \notin stayed
  BY <1>1 DEF ToSet, ListInv
\* Where an old element is in the new list, and where it came from.
<1>5. ASSUME NEW j \in DOMAIN list', list'[j] # e
      PROVE  \E h \in DOMAIN list : /\ list'[j] = list[h]
                                    /\ h <= j /\ (j < i => h = j) /\ (j > i => h >= i /\ h = j - 1) /\ j # i
  <2>1. j \in Nat /\ j >= 1 /\ j <= Len(list) + 1 /\ j # i
    BY <1>2, <1>3, <1>5
  <2>2. CASE j < i
    BY <1>2, <1>3, <1>5, <2>1, <2>2
  <2>3. CASE j > i
    <3>1. j - 1 \in DOMAIN list /\ list'[j] = list[j - 1]
      BY <1>2, <1>3, <1>5, <2>1, <2>3
    <3> QED
      BY <1>2, <2>1, <2>3, <3>1
  <2> QED
    BY <1>2, <2>1, <2>2, <2>3
<1>5a. ASSUME NEW j \in DOMAIN list', list'[j] = e PROVE j = i
  <2>1. j \in Nat /\ j >= 1 /\ j <= Len(list) + 1
    BY <1>2, <1>3
  <2>2. CASE j < i
    BY <1>2, <1>3, <1>4, <1>5a, <2>1, <2>2
  <2>3. CASE j > i
    <3>1. j - 1 \in DOMAIN list /\ list'[j] = list[j - 1]
      BY <1>2, <1>3, <2>1, <2>3
    <3> QED
      BY <1>4, <1>5a, <3>1
  <2> QED
    BY <1>2, <2>1, <2>2, <2>3
<1>6. ASSUME NEW h \in DOMAIN list PROVE \E j \in DOMAIN list' : list'[j] = list[h]
  <2>1. CASE h < i
    BY <1>2, <1>3, <2>1
  <2>2. CASE h >= i
    <3>1. h + 1 \in 1..(Len(list) + 1) /\ h + 1 > i /\ (h + 1) - 1 = h
      BY <1>2, <2>2
    <3>2. list'[h + 1] = list[h]
      BY <1>2, <1>3, <3>1
    <3> QED
      BY <1>3, <3>1, <3>2
  <2> QED
    BY <1>2, <2>1, <2>2
<1>7. TypeOK'
  BY <1>1, <1>2, <1>3 DEF TypeOK
<1>8. ListInv'
  <2>1. ASSUME NEW j \in DOMAIN list', NEW k \in DOMAIN list', list'[j] = list'[k] PROVE j = k
    <3>1. CASE list'[j] = e
      <4>1. j = i /\ k = i
        BY <1>4, <1>5a, <2>1, <3>1
      <4> QED
        BY <4>1
    <3>2. CASE list'[j] # e
      <4>1. PICK h \in DOMAIN list : /\ list'[j] = list[h] /\ j # i
                                     /\ (j < i => h = j) /\ (j > i => h >= i /\ h = j - 1)
        BY <1>5, <3>2
      <4>2. PICK g \in DOMAIN list : /\ list'[k] = list[g] /\ k # i
                                     /\ (k < i => g = k) /\ (k > i => g >= i /\ g = k - 1)
        BY <1>5, <2>1, <3>2
      <4>3. h = g
        BY <1>1, <2>1, <4>1, <4>2 DEF ListInv
      <4> QED
        BY <1>2, <1>3, <4>1, <4>2, <4>3
    <3> QED
      BY <3>1, <3>2
  <2>2. ASSUME NEW x \in stayed PROVE \E j \in DOMAIN list' : list'[j] = x
    BY <1>1, <1>6 DEF ListInv
  <2> QED
    BY <1>1, <2>1, <2>2 DEF ListInv
<1>9. WalkInv'
  <2>1. ASSUME ~gone, NEW j \in DOMAIN list', j <= offset, list'[j] \in stayed
        PROVE  \E k \in DOMAIN seen : seen[k] = list'[j]
    <3>1. PICK h \in DOMAIN list : list'[j] = list[h] /\ h <= j
      BY <1>4, <1>5, <2>1
    <3>2. h <= offset
      BY <1>2, <1>3, <2>1, <3>1
    <3> QED
      BY <1>1, <2>1, <3>1, <3>2 DEF WalkInv
  <2>2. ASSUME ~came', NEW j \in DOMAIN list', NEW k \in DOMAIN seen, j > offset, list'[j] \in stayed
        PROVE  seen[k] # list'[j]
    <3>1. PICK h \in DOMAIN list : /\ list'[j] = list[h] /\ j # i
                                   /\ (j < i => h = j) /\ (j > i => h >= i /\ h = j - 1)
      BY <1>4, <1>5, <2>2
    <3>0. ~came /\ ~(i <= offset)
      BY <1>1, <2>2, Zenon
    <3>3. j \in Nat /\ h \in Nat /\ (j < i \/ j > i)
      BY <1>2, <1>3, <3>1
    <3>2. h > offset /\ ~came
      BY <1>2, <2>2, <3>0, <3>1, <3>3
    <3> QED
      BY <1>1, <2>2, <3>1, <3>2 DEF WalkInv
  <2>3. ~came' => \A k, m \in DOMAIN seen : seen[k] = seen[m] /\ seen[k] \in stayed => k = m
    BY <1>1 DEF WalkInv
  <2> QED
    BY <1>1, <1>2, <2>1, <2>2, <2>3 DEF WalkInv
<1>10. PrefixInv'
  <2> SUFFICES ASSUME ~gone, ~came, i > offset
               PROVE  offset <= Len(list') /\ \A k \in DOMAIN seen : seen[k] = list'[k]
    <3>1. ~gone' /\ ~came' => ~gone /\ ~came /\ ~(i <= offset)
      BY <1>1, Zenon
    <3>2. ~(i <= offset) => i > offset
      BY <1>2
    <3> QED
      BY <1>1, <1>2, <3>1, <3>2 DEF PrefixInv
  <2>1. offset <= Len(list) /\ \A k \in DOMAIN seen : seen[k] = list[k]
    BY <1>1 DEF PrefixInv
  <2>2. \A k \in DOMAIN seen : k \in 1..(Len(list) + 1) /\ k < i
    BY <1>2, <2>1
  <2> QED
    BY <1>2, <1>3, <2>1, <2>2
<1>11. DoneInv'
  BY <1>1 DEF DoneInv, Ambiguous
<1> QED
  BY <1>7, <1>8, <1>9, <1>10, <1>11 DEF IInv

LEMMA DeleteIInv ==
    ASSUME IInv, NEW i \in DOMAIN list, Delete(i)
    PROVE  IInv'
<1>1. /\ TypeOK /\ ListInv /\ WalkInv /\ PrefixInv /\ DoneInv
      /\ pc = "walking" /\ pc' = pc /\ seen' = seen /\ list' = RemoveAt(list, i)
      /\ kind' = kind /\ totals' = totals /\ max' = max
      /\ stayed' = stayed \ {list[i]} /\ gone' = (gone \/ i <= offset) /\ came' = came
  BY DEF IInv, Delete, env
<1>2. /\ Len(list) \in Nat /\ i \in Nat /\ i >= 1 /\ i <= Len(list)
      /\ list \in Seq(Entries) /\ seen \in Seq(Entries)
      /\ DOMAIN list = 1..Len(list) /\ offset \in Nat /\ DOMAIN seen = 1..offset
      /\ offset' = offset
  BY <1>1 DEF TypeOK, offset
<1>3. /\ list' \in Seq(Entries) /\ Len(list') = Len(list) - 1
      /\ \A j \in 1..(Len(list) - 1) : list'[j] = IF j < i THEN list[j] ELSE list[j + 1]
  BY <1>1, <1>2, RemoveProperties
<1>4. DOMAIN list' = 1..(Len(list) - 1)
  BY <1>2, <1>3
\* Where an element of the new list was.
<1>5. ASSUME NEW j \in DOMAIN list'
      PROVE  \E h \in DOMAIN list : /\ list'[j] = list[h] /\ h >= j
                                    /\ (j < i => h = j) /\ (j >= i => h = j + 1)
  <2>1. j \in Nat /\ j >= 1 /\ j <= Len(list) - 1
    BY <1>2, <1>4
  <2>2. CASE j < i
    BY <1>2, <1>3, <1>4, <2>1, <2>2
  <2>3. CASE j >= i
    <3>1. j + 1 \in DOMAIN list /\ list'[j] = list[j + 1]
      BY <1>2, <1>3, <1>4, <2>1, <2>3
    <3> QED
      BY <1>2, <2>1, <2>3, <3>1
  <2> QED
    BY <1>2, <2>1, <2>2, <2>3
<1>6. ASSUME NEW h \in DOMAIN list, h # i PROVE \E j \in DOMAIN list' : list'[j] = list[h]
  <2>1. CASE h < i
    BY <1>2, <1>3, <1>4, <2>1
  <2>2. CASE h > i
    <3>1. h - 1 \in 1..(Len(list) - 1) /\ ~(h - 1 < i) /\ (h - 1) + 1 = h
      BY <1>2, <2>2
    <3>2. list'[h - 1] = list[h]
      BY <1>3, <3>1
    <3> QED
      BY <1>4, <3>1, <3>2
  <2> QED
    BY <1>2, <1>6, <2>1, <2>2
<1>7. TypeOK'
  BY <1>1, <1>2, <1>3 DEF TypeOK
<1>8. ListInv'
  <2>1. ASSUME NEW j \in DOMAIN list', NEW k \in DOMAIN list', list'[j] = list'[k] PROVE j = k
    <3>1. PICK h \in DOMAIN list : list'[j] = list[h] /\ (j < i => h = j) /\ (j >= i => h = j + 1)
      BY <1>5
    <3>2. PICK g \in DOMAIN list : list'[k] = list[g] /\ (k < i => g = k) /\ (k >= i => g = k + 1)
      BY <1>5
    <3>3. h = g
      BY <1>1, <2>1, <3>1, <3>2 DEF ListInv
    <3> QED
      BY <1>2, <1>4, <3>1, <3>2, <3>3
  <2>2. ASSUME NEW x \in stayed' PROVE \E j \in DOMAIN list' : list'[j] = x
    <3>1. PICK h \in DOMAIN list : list[h] = x
      BY <1>1 DEF ListInv
    <3>2. h # i
      BY <1>1, <3>1
    <3> QED
      BY <1>6, <3>1, <3>2
  <2> QED
    BY <2>1, <2>2 DEF ListInv
<1>9. WalkInv'
  <2>1. ASSUME ~gone', NEW j \in DOMAIN list', j <= offset, list'[j] \in stayed'
        PROVE  \E k \in DOMAIN seen : seen[k] = list'[j]
    <3>1. PICK h \in DOMAIN list : list'[j] = list[h] /\ (j < i => h = j)
      BY <1>5
    <3>0. ~gone /\ ~(i <= offset)
      BY <1>1, <2>1, Zenon
    <3>2. j < i /\ ~gone
      BY <1>2, <1>4, <2>1, <3>0
    <3> QED
      BY <1>1, <2>1, <3>1, <3>2 DEF WalkInv
  <2>2. ASSUME ~came, NEW j \in DOMAIN list', NEW k \in DOMAIN seen, j > offset, list'[j] \in stayed'
        PROVE  seen[k] # list'[j]
    <3>1. PICK h \in DOMAIN list : list'[j] = list[h] /\ h >= j
      BY <1>5
    <3>2. h > offset
      BY <1>2, <1>4, <2>2, <3>1
    <3> QED
      BY <1>1, <2>2, <3>1, <3>2 DEF WalkInv
  <2>3. ~came => \A k, m \in DOMAIN seen : seen[k] = seen[m] /\ seen[k] \in stayed' => k = m
    BY <1>1 DEF WalkInv
  <2> QED
    BY <1>1, <1>2, <2>1, <2>2, <2>3 DEF WalkInv
<1>10. PrefixInv'
  <2> SUFFICES ASSUME ~gone, ~came, i > offset
               PROVE  offset <= Len(list') /\ \A k \in DOMAIN seen : seen[k] = list'[k]
    <3>1. ~gone' /\ ~came' => ~gone /\ ~came /\ ~(i <= offset)
      BY <1>1, Zenon
    <3>2. ~(i <= offset) => i > offset
      BY <1>2
    <3> QED
      BY <1>1, <1>2, <3>1, <3>2 DEF PrefixInv
  <2>1. offset <= Len(list') /\ \A k \in DOMAIN seen : seen[k] = list[k]
    BY <1>1, <1>2, <1>3 DEF PrefixInv
  <2>2. \A k \in DOMAIN seen : k \in 1..(Len(list) - 1) /\ k < i
    BY <1>2
  <2> QED
    BY <1>3, <2>1, <2>2
<1>11. DoneInv'
  BY <1>1 DEF DoneInv, Ambiguous
<1> QED
  BY <1>7, <1>8, <1>9, <1>10, <1>11 DEF IInv

\* The invariant holds for lists, pages and totals of any size.
THEOREM Invariance == Spec => []IInv
<1>1. IInv /\ [Next]_vars => IInv'
  <2> SUFFICES ASSUME IInv, [Next]_vars PROVE IInv'
    OBVIOUS
  <2>1. CASE ReadPage
    BY <2>1, TurnIInv
  <2>2. ASSUME NEW e \in Entries, NEW i \in 1..(Len(list) + 1), Create(e, i) PROVE IInv'
    BY <2>2, CreateIInv
  <2>3. ASSUME NEW i \in DOMAIN list, Delete(i) PROVE IInv'
    BY <2>3, DeleteIInv
  <2>4. CASE UNCHANGED vars
    BY <2>4 DEF vars, env, hist, IInv, TypeOK, ListInv, WalkInv, PrefixInv, DoneInv, Honest,
                Ambiguous, offset
  <2> QED
    BY <2>1, <2>2, <2>3, <2>4 DEF Next
<1> QED
  BY <1>1, InitIInv, PTL DEF Spec

\* What stays in the list is received, and once, unless something was deleted,
\* or put, in front of the offset.
THEOREM StayersAreSeenOnce == Spec => []StayersSeenOnce
<1>1. IInv => StayersSeenOnce
  <2> SUFFICES ASSUME IInv, pc = "done", NEW e \in stayed
               PROVE  /\ Honest /\ ~gone => \E i \in DOMAIN seen : seen[i] = e
                      /\ ~came => \A i, j \in DOMAIN seen : seen[i] = e /\ seen[j] = e => i = j
    BY DEF StayersSeenOnce
  <2>1. ASSUME Honest, ~gone PROVE \E i \in DOMAIN seen : seen[i] = e
    <3>1. PICK i \in DOMAIN list : list[i] = e
      BY DEF IInv, ListInv
    <3>2. i <= offset
      BY <2>1, <3>1 DEF IInv, DoneInv, TypeOK, offset
    <3> QED
      BY <2>1, <3>1, <3>2 DEF IInv, WalkInv
  <2>2. ~came => \A i, j \in DOMAIN seen : seen[i] = e /\ seen[j] = e => i = j
    BY DEF IInv, WalkInv
  <2> QED
    BY <2>1, <2>2
<1> QED
  BY <1>1, Invariance, PTL

\* A walk in front of whose offset nothing moved answers what one read of the
\* whole list at the end would have.
THEOREM WalkIsARead == Spec => []AsIfAtOnce
<1>1. IInv => AsIfAtOnce
  <2> SUFFICES ASSUME IInv, ~gone, ~came
               PROVE  /\ pc = "done" /\ Honest => seen = list /\ (kind = "lookup" => ~Ambiguous(list))
                      /\ pc = "ambiguous" => kind = "lookup" /\ Ambiguous(list)
    BY DEF AsIfAtOnce
  <2>1. /\ list \in Seq(Entries) /\ seen \in Seq(Entries)
        /\ Len(list) \in Nat /\ offset \in Nat /\ offset = Len(seen)
        /\ DOMAIN seen = 1..offset /\ DOMAIN list = 1..Len(list)
        /\ offset <= Len(list) /\ \A i \in 1..offset : seen[i] = list[i]
    BY DEF IInv, TypeOK, PrefixInv, offset
  <2>2. ASSUME pc = "done", Honest PROVE seen = list
    <3>1. Len(seen) = Len(list)
      <4>1. offset >= Len(list)
        BY <2>2 DEF IInv, DoneInv
      <4> QED
        BY <2>1, <4>1
    <3> QED
      BY <2>1, <3>1, SeqEqual
  <2>3. pc = "done" /\ kind = "lookup" => ~Ambiguous(seen)
    BY DEF IInv, DoneInv
  <2>4. ASSUME pc = "ambiguous" PROVE kind = "lookup" /\ Ambiguous(list)
    <3>1. kind = "lookup" /\ Ambiguous(seen)
      BY <2>4 DEF IInv, DoneInv
    <3>2. PICK i \in 1..offset, j \in 1..offset : i < j /\ seen[i] \in Wanted /\ seen[j] \in Wanted
      BY <2>1, <3>1 DEF Ambiguous
    <3>3. i \in DOMAIN list /\ j \in DOMAIN list /\ list[i] \in Wanted /\ list[j] \in Wanted
      BY <2>1, <3>2
    <3> QED
      BY <3>1, <3>2, <3>3 DEF Ambiguous
  <2> QED
    BY <2>2, <2>3, <2>4
<1> QED
  BY <1>1, Invariance, PTL
=============================================================================
