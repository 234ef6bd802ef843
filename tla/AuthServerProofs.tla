-------------------------- MODULE AuthServerProofs --------------------------
(***************************************************************************)
(* Proofs about the cache and about the server on top of it, for every set *)
(* of calls, tokens, methods, configurations, policies and claims, every   *)
(* TTL, capacity and bound of the clock.                                   *)
(*                                                                         *)
(* The first part is about IntrospectionCache alone, whose variables and   *)
(* steps AuthServer takes over; its theorems are about the cache's own     *)
(* specification Spec.  The second part is about ServerSpec: no claims     *)
(* that the introspector did not give, no guarded method served as public, *)
(* and the enforcer on top of the cache implements AccessControl.          *)
(***************************************************************************)
EXTENDS AuthServer, TLAPS, FiniteSetTheorems, SequenceTheorems, WellFoundedInduction

\* A nonempty set of naturals has a least element.
LEMMA LeastNatural ==
    ASSUME NEW T, T \subseteq Nat, T # {}
    PROVE  \E i \in T : \A j \in T : i <= j
<1>1. PICK i \in T : \A j \in T : ~(<<j, i>> \in OpToRel(<, Nat))
  BY NatLessThanWellFounded, WFMin, Zenon
<1>2. \A j \in T : ~(j < i)
  BY <1>1 DEF OpToRel
<1> QED
  BY <1>2

-----------------------------------------------------------------------------
(* The data structure                                                      *)

\* Appending an element adds it to the range of a sequence.
LEMMA AppendRange ==
    ASSUME NEW S, NEW s \in Seq(S), NEW x \in S
    PROVE  Range(Append(s, x)) = Range(s) \cup {x}
<1>1. /\ DOMAIN Append(s, x) = 1..(Len(s) + 1)
      /\ \A j \in 1..Len(s) : Append(s, x)[j] = s[j]
      /\ Append(s, x)[Len(s) + 1] = x
      /\ DOMAIN s = 1..Len(s) /\ Len(s) \in Nat
  OBVIOUS
<1>2. 1..(Len(s) + 1) = 1..Len(s) \cup {Len(s) + 1}
  BY <1>1
<1> QED
  BY <1>1, <1>2 DEF Range

\* boundTTL and the lifetimes built on it are natural numbers no larger than
\* the configured TTL, and within the token's remaining lifetime.
LEMMA Lifetimes ==
    ASSUME NEW t \in Tokens, NEW n \in Nat, NEW o \in Outcome
    PROVE  /\ ttlOf(t, n, o) \in Nat
           /\ ttlOf(t, n, o) <= TTL
           /\ o.kind \notin {"claims", "inactive"} => ttlOf(t, n, o) <= TransportErrorTTL
           /\ o.kind = "claims" /\ Exp[t] # 0 /\ ttlOf(t, n, o) > 0
                => n + ttlOf(t, n, o) <= Exp[t]
BY CacheAssumption DEF ttlOf, boundTTL, Min2, Outcome, Kinds, IsUnauthenticated

\* Removing a key leaves the other entries as they are.
LEMMA WithoutKey ==
    ASSUME NEW f, NEW t
    PROVE  /\ DOMAIN Without(f, t) = DOMAIN f \ {t}
           /\ \A k \in DOMAIN f \ {t} : Without(f, t)[k] = f[k]
BY DEF Without, Restrict

\* evictOldestLocked removes one live key and every position up to it: what
\* is left in the map is still covered by what is left in the queue.
LEMMA Eviction ==
    ASSUME order \in Seq(Tokens), OrderCovers, DOMAIN entries # {}
    PROVE  \E v \in DOMAIN entries :
              /\ evictedEntries = Without(entries, v)
              /\ evictedOrder \in Seq(Tokens)
              /\ DOMAIN entries \ {v} \subseteq Range(evictedOrder)
<1>1. LivePositions # {} /\ LivePositions \subseteq Nat
  BY DEF LivePositions, OrderCovers, Range
<1>2. /\ FirstLive \in LivePositions
      /\ \A j \in LivePositions : FirstLive <= j
  <2>1. \E i \in LivePositions : \A j \in LivePositions : i <= j
    BY <1>1, LeastNatural
  <2> QED
    BY <2>1, Zenon DEF FirstLive
<1> DEFINE i == FirstLive
           v == order[i]
           rest == SubSeq(order, i + 1, Len(order))
<1>3. i \in 1..Len(order) /\ v \in DOMAIN entries
  BY <1>2 DEF LivePositions
<1>4. evictedEntries = Without(entries, v) /\ evictedOrder = rest
  BY <1>1 DEF evictedEntries, evictedOrder
<1> HIDE DEF i
<1>5. /\ rest \in Seq(Tokens)
      /\ Len(rest) = Len(order) - i
      /\ \A k \in 1..(Len(order) - i) : rest[k] = order[i + k]
  <2>1. /\ i + 1 \in Int /\ Len(order) \in Int
        /\ \A k \in (i + 1)..Len(order) : order[k] \in Tokens
    BY <1>3
  <2>2. /\ rest \in Seq(Tokens)
        /\ Len(rest) = IF i + 1 <= Len(order) THEN Len(order) - (i + 1) + 1 ELSE 0
        /\ \A k \in 1..(Len(order) - (i + 1) + 1) : rest[k] = order[(i + 1) + k - 1]
    BY <2>1, SubSeqProperties
  <2> HIDE DEF rest
  <2> QED
    BY <2>2, <1>3
<1>6. ASSUME NEW k \in DOMAIN entries, k # v
      PROVE  k \in Range(rest)
  <2>1. PICK j \in 1..Len(order) : order[j] = k
    BY DEF OrderCovers, Range
  <2>2. i < j
    BY <2>1, <1>2, <1>3, <1>6 DEF LivePositions, i
  <2>3. j - i \in 1..(Len(order) - i) /\ rest[j - i] = k
    <3>1. j - i \in 1..(Len(order) - i)
      BY <2>2, <1>3
    <3> QED
      BY <3>1, <2>1, <1>3, <1>5
  <2> HIDE DEF rest
  <2>4. DOMAIN rest = 1..(Len(order) - i)
    BY <1>5
  <2> QED
    BY <2>3, <2>4 DEF Range
<1> HIDE DEF v, rest
<1> QED
  BY <1>3, <1>4, <1>5, <1>6

\* put keeps the map within its capacity and within the queue.
LEMMA PutKeeps ==
    ASSUME NEW t \in Tokens, NEW e,
           order \in Seq(Tokens), DOMAIN entries \subseteq Tokens,
           IsFiniteSet(DOMAIN entries), SizeBounded, OrderCovers,
           ~disabled, put(t, e)
    PROVE  /\ DOMAIN entries' \subseteq DOMAIN entries \cup {t}
           /\ t \in DOMAIN entries' /\ entries'[t] = e
           /\ \A k \in DOMAIN entries' \ {t} : entries'[k] = entries[k]
           /\ entries' = [k \in DOMAIN entries' |-> entries'[k]]
           /\ order' \in Seq(Tokens)
           /\ IsFiniteSet(DOMAIN entries')
           /\ SizeBounded'
           /\ OrderCovers'
<1> DEFINE D == DOMAIN entries
<1>0. MaxSize \in Nat /\ MaxSize > 0 /\ Cardinality(D) \in Nat
  BY CacheAssumption, FS_CardinalityType DEF disabled
<1>1. CASE t \in D
  <2>1. order' = order /\ entries' = Stored(entries, t, e)
    BY <1>1 DEF put, AtCapacity
  <2>2. DOMAIN entries' = D
    BY <2>1, <1>1 DEF Stored
  <2> QED
    BY <2>1, <2>2, <1>1 DEF Stored, SizeBounded, OrderCovers
<1>2. CASE t \notin D /\ ~AtCapacity(t)
  <2>1. order' = Append(order, t) /\ entries' = Stored(entries, t, e)
    BY <1>2 DEF put
  <2>2. DOMAIN entries' = D \cup {t}
    BY <2>1 DEF Stored
  <2>3. Cardinality(D) < MaxSize
    BY <1>0, <1>2 DEF AtCapacity
  <2>4. IsFiniteSet(D \cup {t}) /\ Cardinality(D \cup {t}) = Cardinality(D) + 1
    BY <1>2, FS_AddElement
  <2>5. Range(order') = Range(order) \cup {t}
    BY <2>1, AppendRange
  <2>6. SizeBounded' /\ OrderCovers'
    BY <2>2, <2>3, <2>4, <2>5, <1>0 DEF SizeBounded, OrderCovers
  <2> QED
    BY <2>1, <2>2, <2>4, <2>6 DEF Stored
<1>3. CASE t \notin D /\ AtCapacity(t)
  <2>1. order' = Append(evictedOrder, t) /\ entries' = Stored(evictedEntries, t, e)
    BY <1>3 DEF put
  <2>2. D # {}
    BY <1>0, <1>3, FS_EmptySet DEF AtCapacity
  <2>3. PICK v \in D : /\ evictedEntries = Without(entries, v)
                       /\ evictedOrder \in Seq(Tokens)
                       /\ D \ {v} \subseteq Range(evictedOrder)
    BY <2>2, Eviction
  <2>4. DOMAIN entries' = (D \ {v}) \cup {t}
    BY <2>1, <2>3, WithoutKey DEF Stored
  <2>5. IsFiniteSet(D \ {v}) /\ Cardinality(D \ {v}) = Cardinality(D) - 1
    BY FS_RemoveElement
  <2>6. /\ IsFiniteSet((D \ {v}) \cup {t})
        /\ Cardinality((D \ {v}) \cup {t}) = Cardinality(D)
    <3>1. t \notin D \ {v}
      BY <1>3
    <3>2. /\ IsFiniteSet((D \ {v}) \cup {t})
          /\ Cardinality((D \ {v}) \cup {t}) = Cardinality(D \ {v}) + 1
      BY <3>1, <2>5, FS_AddElement
    <3> QED
      BY <3>2, <2>5, <1>0
  <2>7. Range(order') = Range(evictedOrder) \cup {t}
    BY <2>1, <2>3, AppendRange
  <2>8. SizeBounded' /\ OrderCovers'
    BY <2>3, <2>4, <2>6, <2>7 DEF SizeBounded, OrderCovers
  <2>9. order' \in Seq(Tokens)
    BY <2>1, <2>3
  <2>10. \A k \in D \ {v} : evictedEntries[k] = entries[k]
    BY <2>3, WithoutKey
  <2> QED
    BY <2>1, <2>3, <2>4, <2>6, <2>8, <2>9, <2>10, WithoutKey DEF Stored
<1> QED
  BY <1>1, <1>2, <1>3

-----------------------------------------------------------------------------
(* Steps                                                                   *)

\* The actions a step of the specification can be.
LEMMA NextCases ==
    ASSUME [Next]_vars
    PROVE  \/ \E c \in Calls, t \in Tokens : ~crashed /\ Resolve(c, t)
           \/ \E c \in Calls : ~crashed /\ Lookup(c)
           \/ \E c \in Calls : ~crashed /\ Do(c)
           \/ \E c \in Calls : ~crashed /\ Recheck(c)
           \/ \E c \in Calls : ~crashed /\ Store(c)
           \/ \E c \in Calls : ~crashed /\ Publish(c)
           \/ \E c \in Calls, kind \in Kinds : ~crashed /\ Introspected(c, kind)
           \/ \E c \in Calls : ~crashed /\ Return(c)
           \/ ~crashed /\ Close
           \/ ~crashed /\ Tick
           \/ UNCHANGED vars
BY DEF Next, Step, Upstream, Answer, Fail, Cancel, Dead, Kinds

\* get only ever removes the entry it was asked for, and only when it misses.
LEMMA GetEffect ==
    ASSUME NEW t, NEW n, get(t, n)
    PROVE  /\ order' = order
           /\ DOMAIN entries' \subseteq DOMAIN entries
           /\ \A k \in DOMAIN entries' : entries'[k] = entries[k]
           /\ Hit(t, n) => entries' = entries
           /\ ~Hit(t, n) /\ ~disabled => t \notin DOMAIN entries'
           /\ DOMAIN entries = {} => entries' = entries
BY WithoutKey DEF get, Hit

\* What any step does to the cache: entries only disappear, except that Store
\* writes the entry of its own flight.
LEMMA MapEffect ==
    ASSUME IInv, [Next]_vars
    PROVE  /\ \A k \in DOMAIN entries' :
                \/ k \in DOMAIN entries /\ entries'[k] = entries[k]
                \/ \E c \in Calls : /\ Store(c) /\ k = tok[c]
                                    /\ entries'[k] = newEntry(c)
                                    /\ Stores(tok[c], now[c], out[c])
           /\ MapInv'
           /\ SizeBounded'
           /\ OrderCovers'
           /\ order' \in Seq(Tokens)
<1> USE DEF IInv, MapInv
<1>0. order \in Seq(Tokens) /\ DOMAIN entries \subseteq Tokens
  BY DEF TypeOK
<1>a. ASSUME order' = order, DOMAIN entries' \subseteq DOMAIN entries,
             \A k \in DOMAIN entries' : entries'[k] = entries[k]
      PROVE  /\ \A k \in DOMAIN entries' : k \in DOMAIN entries /\ entries'[k] = entries[k]
             /\ MapInv' /\ SizeBounded' /\ OrderCovers'
             /\ order' \in Seq(Tokens)
  <2>1. /\ IsFiniteSet(DOMAIN entries')
        /\ Cardinality(DOMAIN entries') <= Cardinality(DOMAIN entries)
    BY <1>a, FS_Subset
  <2>2. /\ Cardinality(DOMAIN entries') \in Nat /\ Cardinality(DOMAIN entries) \in Nat
        /\ MaxSize \in Nat
    BY <2>1, FS_CardinalityType, CacheAssumption
  <2>3. SizeBounded'
    BY <2>1, <2>2 DEF SizeBounded
  <2>4. OrderCovers'
    BY <1>a DEF OrderCovers
  <2> QED
    BY <1>a, <1>0, <2>1, <2>3, <2>4 DEF disabled
<1>b. ASSUME UNCHANGED cacheVars
      PROVE  order' = order /\ entries' = entries
  BY <1>b DEF cacheVars
<1>1. CASE \E c \in Calls : Lookup(c) \/ Recheck(c)
  <2>1. PICK c \in Calls : get(tok[c], now[c])
    BY <1>1 DEF Lookup, Recheck
  <2> QED
    BY <2>1, <1>a, GetEffect
<1>2. CASE \E c \in Calls : Store(c)
  <2>1. PICK c \in Calls : Store(c)
    BY <1>2
  <2>2. CASE ~(Stores(tok[c], now[c], out[c]) /\ ~closed)
    BY <2>1, <2>2, <1>a, <1>b DEF Store
  <2>3. CASE Stores(tok[c], now[c], out[c]) /\ ~closed
    <3>1. put(tok[c], newEntry(c)) /\ ~disabled
      BY <2>1, <2>3 DEF Store, Stores
    <3>2. tok[c] \in Tokens
      BY <2>1 DEF TypeOK, Store
    <3>3. /\ DOMAIN entries' \subseteq DOMAIN entries \cup {tok[c]}
          /\ entries'[tok[c]] = newEntry(c)
          /\ \A k \in DOMAIN entries' \ {tok[c]} : entries'[k] = entries[k]
          /\ order' \in Seq(Tokens)
          /\ IsFiniteSet(DOMAIN entries') /\ SizeBounded' /\ OrderCovers'
      BY <3>1, <3>2, <1>0, PutKeeps
    <3> QED
      BY <3>1, <3>3, <2>1, <2>3 DEF disabled
  <2> QED
    BY <2>2, <2>3
<1>3. CASE Close
  <2>1. DOMAIN entries' = {} /\ order' = <<>>
    BY <1>3 DEF Close
  <2>2. IsFiniteSet({}) /\ Cardinality({}) = 0 /\ MaxSize \in Nat
    BY FS_EmptySet, CacheAssumption
  <2> QED
    BY <2>1, <2>2 DEF SizeBounded, OrderCovers, disabled
<1>4. CASE UNCHANGED cacheVars
  BY <1>4, <1>a, <1>b
<1> QED
  BY <1>1, <1>2, <1>3, <1>4, NextCases
     DEF Resolve, Do, Publish, Introspected, Return, Tick, vars, cacheVars

-----------------------------------------------------------------------------
(* Every step keeps every part of the invariant                            *)

\* TypeOK is kept: in particular a stored lifetime is a natural number.
LEMMA TypeKept ==
    ASSUME IInv, [Next]_vars
    PROVE  TypeOK'
<1>0. /\ MapInv' /\ order' \in Seq(Tokens)
      /\ TypeOK
  BY MapEffect DEF IInv
<1>m. DOMAIN entries' \subseteq Tokens /\ \A k \in DOMAIN entries' : entries'[k] \in cachedEntry
  <2>1. ASSUME NEW c \in Calls, Store(c)
        PROVE  newEntry(c) \in cachedEntry /\ tok[c] \in Tokens
    <3>1. tok[c] \in Tokens /\ now[c] \in Nat /\ out[c] \in Outcome
      BY <2>1, <1>0 DEF Store, TypeOK
    <3> QED
      BY <3>1, Lifetimes DEF newEntry, cachedEntry
  <2> QED
    BY <2>1, <1>0, MapEffect DEF TypeOK
<1>h. \A c \in Calls : Hit(tok[c], now[c]) => entries[tok[c]].out \in Outcome
  BY <1>0 DEF Hit, TypeOK, cachedEntry
<1>e. ASSUME NEW c \in Calls, get(tok[c], now[c]), closed
      PROVE  entries' = entries /\ order' = order
  <2>1. DOMAIN entries = {}
    BY <1>0, <1>e DEF TypeOK
  <2> QED
    BY <2>1, <1>e, GetEffect
<1>1. ASSUME NEW c \in Calls, NEW t \in Tokens, ~crashed, Resolve(c, t)
      PROVE  TypeOK'
  BY <1>1, <1>0, <1>m, CacheAssumption
     DEF Resolve, cacheVars, TypeOK, PCs, Outcome, Kinds, NoOutcome
<1>2. ASSUME NEW c \in Calls, ~crashed, Lookup(c)
      PROVE  TypeOK'
  <2>1. CASE Hit(tok[c], now[c])
    BY <2>1, <1>2, <1>0, <1>m, <1>h, <1>e
       DEF Lookup, TypeOK, PCs
  <2>2. CASE ~(Hit(tok[c], now[c]))
    BY <2>2, <1>2, <1>0, <1>m, <1>h, <1>e
       DEF Lookup, TypeOK, PCs
  <2> QED
    BY <2>1, <2>2
<1>3. ASSUME NEW c \in Calls, ~crashed, Do(c)
      PROVE  TypeOK'
  <2>1. /\ tok[c] \in Tokens /\ pc[c] = "do"
        /\ UNCHANGED <<clock, entries, order, closed, crashed, tok, out, via>>
    BY <1>3, <1>0 DEF Do, cacheVars, TypeOK
  <2>2. /\ pc' \in [Calls -> PCs]
        /\ pc'[c] # "idle" /\ \A d \in Calls \ {c} : pc'[d] = pc[d]
    BY <1>3, <1>0 DEF Do, TypeOK, PCs
  <2>3. flight' \in [Tokens -> Calls \cup {NoCall}]
    <3>1. flight \in [Tokens -> Calls \cup {NoCall}]
      BY <1>0 DEF TypeOK
    <3>2. flight' = flight \/ flight' = [flight EXCEPT ![tok[c]] = c]
      BY <1>3 DEF Do
    <3> QED
      BY <3>1, <3>2
  <2>4. now' \in [Calls -> 0..MaxTime]
    BY <1>3, <1>0, CacheAssumption DEF Do, TypeOK
  <2> QED
    BY <2>1, <2>2, <2>3, <2>4, <1>0 DEF TypeOK
<1>4. ASSUME NEW c \in Calls, ~crashed, Recheck(c)
      PROVE  TypeOK'
  <2>1. CASE Hit(tok[c], now[c])
    BY <2>1, <1>4, <1>0, <1>m, <1>h, <1>e
       DEF Recheck, TypeOK, PCs
  <2>2. CASE ~(Hit(tok[c], now[c]))
    BY <2>2, <1>4, <1>0, <1>m, <1>h, <1>e
       DEF Recheck, TypeOK, PCs
  <2> QED
    BY <2>1, <2>2
<1>5. ASSUME NEW c \in Calls, ~crashed, Store(c)
      PROVE  TypeOK'
  BY <1>5, <1>0, <1>m, CacheAssumption
     DEF Store, cacheVars, TypeOK, PCs, Outcome, Kinds, NoOutcome
<1>6. ASSUME NEW c \in Calls, ~crashed, Publish(c)
      PROVE  TypeOK'
  BY <1>6, <1>0, <1>m, CacheAssumption
     DEF Publish, cacheVars, TypeOK, PCs, Outcome, Kinds, NoOutcome, Leading
<1>7. ASSUME NEW c \in Calls, NEW kind \in Kinds, ~crashed, Introspected(c, kind)
      PROVE  TypeOK'
  BY <1>7, <1>0, <1>m, CacheAssumption
     DEF Introspected, cacheVars, TypeOK, PCs, Outcome, Kinds, NoOutcome
<1>8. ASSUME NEW c \in Calls, ~crashed, Return(c)
      PROVE  TypeOK'
  BY <1>8, <1>0, <1>m, CacheAssumption
     DEF Return, cacheVars, TypeOK, PCs, Outcome, Kinds, NoOutcome
<1>9. ASSUME ~crashed, Close
      PROVE  TypeOK'
  BY <1>9, <1>0, <1>m, CacheAssumption
     DEF Close, callVars, TypeOK, PCs, Outcome, Kinds, NoOutcome
<1>10. ASSUME ~crashed, Tick
       PROVE  TypeOK'
  BY <1>10, <1>0, <1>m, CacheAssumption
     DEF Tick, callVars, cacheVars, TypeOK, PCs, Outcome, Kinds, NoOutcome
<1>11. ASSUME UNCHANGED vars
       PROVE  TypeOK'
  BY <1>11, <1>0, <1>m, CacheAssumption
     DEF vars, callVars, cacheVars, TypeOK, PCs, Outcome, Kinds, NoOutcome
<1> QED
  BY <1>1, <1>2, <1>3, <1>4, <1>5, <1>6, <1>7, <1>8, <1>9, <1>10, <1>11, NextCases

\* singleflight's bookkeeping is kept: a flight begins with its leader and ends
\* with its followers.
LEMMA FlightKept ==
    ASSUME IInv, [Next]_vars
    PROVE  FlightInv'
<1>0. /\ FlightInv
      /\ flight \in [Tokens -> Calls \cup {NoCall}]
      /\ pc \in [Calls -> PCs]
      /\ tok \in [Calls -> Tokens \cup {NoToken}]
      /\ \A c \in Calls : pc[c] # "idle" => tok[c] \in Tokens
  BY DEF IInv, TypeOK
<1>1. ASSUME NEW c \in Calls, NEW t \in Tokens, ~crashed, Resolve(c, t)
      PROVE  FlightInv'
  BY <1>1, <1>0, CacheAssumption
     DEF Resolve, cacheVars, FlightInv, Leading
<1>2. ASSUME NEW c \in Calls, ~crashed, Lookup(c)
      PROVE  FlightInv'
  <2>1. CASE Hit(tok[c], now[c])
    BY <2>1, <1>2, <1>0
       DEF Lookup, FlightInv, Leading
  <2>2. CASE ~(Hit(tok[c], now[c]))
    BY <2>2, <1>2, <1>0
       DEF Lookup, FlightInv, Leading
  <2> QED
    BY <2>1, <2>2
<1>3. ASSUME NEW c \in Calls, ~crashed, Do(c)
      PROVE  FlightInv'
  <2>1. /\ tok[c] \in Tokens /\ pc[c] = "do" /\ tok' = tok
    BY <1>3, <1>0 DEF Do
  <2>2. CASE flight[tok[c]] # NoCall
    <3>1. pc' = [pc EXCEPT ![c] = "wait"] /\ flight' = flight
      BY <2>2, <1>3 DEF Do
    <3> QED
      BY <3>1, <2>1, <2>2, <1>0 DEF FlightInv, Leading
  <2>3. CASE flight[tok[c]] = NoCall
    <3>1. /\ pc' = [pc EXCEPT ![c] = "recheck"]
          /\ flight' = [flight EXCEPT ![tok[c]] = c]
      BY <2>3, <1>3 DEF Do
    <3>2. \A d \in Calls \ {c} : pc'[d] = pc[d] /\ (pc[d] \in Leading => tok[d] # tok[c])
      BY <3>1, <2>3, <1>0, CacheAssumption DEF FlightInv, Leading
    <3> QED
      BY <3>1, <3>2, <2>1, <2>3, <1>0, CacheAssumption DEF FlightInv, Leading
  <2> QED
    BY <2>2, <2>3
<1>4. ASSUME NEW c \in Calls, ~crashed, Recheck(c)
      PROVE  FlightInv'
  <2>1. /\ flight' = flight /\ tok' = tok
        /\ \/ pc' = [pc EXCEPT ![c] = "publish"]
           \/ pc' = [pc EXCEPT ![c] = "introspect"]
    BY <1>4 DEF Recheck
  <2>2. pc[c] = "recheck"
    BY <1>4 DEF Recheck
  <2> QED
    BY <2>1, <2>2, <1>0 DEF FlightInv, Leading
<1>5. ASSUME NEW c \in Calls, ~crashed, Store(c)
      PROVE  FlightInv'
  BY <1>5, <1>0, CacheAssumption
     DEF Store, cacheVars, FlightInv, Leading
<1>6. ASSUME NEW c \in Calls, ~crashed, Publish(c)
      PROVE  FlightInv'
  BY <1>6, <1>0, CacheAssumption
     DEF Publish, cacheVars, FlightInv, Leading
<1>7. ASSUME NEW c \in Calls, NEW kind \in Kinds, ~crashed, Introspected(c, kind)
      PROVE  FlightInv'
  BY <1>7, <1>0, CacheAssumption
     DEF Introspected, cacheVars, FlightInv, Leading
<1>8. ASSUME NEW c \in Calls, ~crashed, Return(c)
      PROVE  FlightInv'
  BY <1>8, <1>0, CacheAssumption
     DEF Return, cacheVars, FlightInv, Leading
<1>9. ASSUME ~crashed, Close
      PROVE  FlightInv'
  BY <1>9, <1>0, CacheAssumption
     DEF Close, callVars, FlightInv, Leading
<1>10. ASSUME ~crashed, Tick
       PROVE  FlightInv'
  BY <1>10, <1>0, CacheAssumption
     DEF Tick, callVars, cacheVars, FlightInv, Leading
<1>11. ASSUME UNCHANGED vars
       PROVE  FlightInv'
  BY <1>11, <1>0, CacheAssumption
     DEF vars, callVars, cacheVars, FlightInv, Leading
<1> QED
  BY <1>1, <1>2, <1>3, <1>4, <1>5, <1>6, <1>7, <1>8, <1>9, <1>10, <1>11, NextCases

\* While a flight introspects, nobody else can store an entry for its token:
\* that would take a second leader.
LEMMA UncachedKept ==
    ASSUME IInv, [Next]_vars
    PROVE  IntrospectsOnlyUncached'
<1>0. /\ IntrospectsOnlyUncached /\ FlightInv /\ MapInv
      /\ pc \in [Calls -> PCs]
  BY DEF IInv, TypeOK
<1>1. ASSUME NEW c \in Calls, NEW t \in Tokens, ~crashed, Resolve(c, t)
      PROVE  IntrospectsOnlyUncached'
  BY <1>1, <1>0
     DEF Resolve, cacheVars, IntrospectsOnlyUncached
<1>2. ASSUME NEW c \in Calls, ~crashed, Lookup(c)
      PROVE  IntrospectsOnlyUncached'
  <2>1. CASE Hit(tok[c], now[c])
    BY <2>1, <1>2, <1>0, GetEffect
       DEF Lookup, IntrospectsOnlyUncached
  <2>2. CASE ~(Hit(tok[c], now[c]))
    BY <2>2, <1>2, <1>0, GetEffect
       DEF Lookup, IntrospectsOnlyUncached
  <2> QED
    BY <2>1, <2>2
<1>3. ASSUME NEW c \in Calls, ~crashed, Do(c)
      PROVE  IntrospectsOnlyUncached'
  <2>1. CASE flight[tok[c]] # NoCall
    BY <2>1, <1>3, <1>0
       DEF Do, cacheVars, IntrospectsOnlyUncached
  <2>2. CASE ~(flight[tok[c]] # NoCall)
    BY <2>2, <1>3, <1>0
       DEF Do, cacheVars, IntrospectsOnlyUncached
  <2> QED
    BY <2>1, <2>2
<1>4. ASSUME NEW c \in Calls, ~crashed, Recheck(c)
      PROVE  IntrospectsOnlyUncached'
  <2>1. CASE Hit(tok[c], now[c])
    BY <2>1, <1>4, <1>0, GetEffect
       DEF Recheck, MapInv, IntrospectsOnlyUncached
  <2>2. CASE ~(Hit(tok[c], now[c]))
    BY <2>2, <1>4, <1>0, GetEffect
       DEF Recheck, MapInv, IntrospectsOnlyUncached
  <2> QED
    BY <2>1, <2>2
<1>5. ASSUME NEW c \in Calls, ~crashed, Store(c)
      PROVE  IntrospectsOnlyUncached'
  <2>1. \A k \in DOMAIN entries' : k \in DOMAIN entries \/ k = tok[c]
    <3>1. ASSUME NEW d \in Calls, Store(d)
          PROVE  d = c
      BY <3>1, <1>5, <1>0 DEF Store
    <3> QED
      BY <3>1, MapEffect
  <2>2. \A d \in Calls \ {c} : pc[d] \in Leading => tok[d] # tok[c]
    BY <1>5, <1>0 DEF Store, FlightInv, Leading
  <2> QED
    BY <2>1, <2>2, <1>5, <1>0 DEF Store, IntrospectsOnlyUncached, Leading
<1>6. ASSUME NEW c \in Calls, ~crashed, Publish(c)
      PROVE  IntrospectsOnlyUncached'
  BY <1>6, <1>0
     DEF Publish, cacheVars, IntrospectsOnlyUncached
<1>7. ASSUME NEW c \in Calls, NEW kind \in Kinds, ~crashed, Introspected(c, kind)
      PROVE  IntrospectsOnlyUncached'
  BY <1>7, <1>0
     DEF Introspected, cacheVars, IntrospectsOnlyUncached
<1>8. ASSUME NEW c \in Calls, ~crashed, Return(c)
      PROVE  IntrospectsOnlyUncached'
  BY <1>8, <1>0
     DEF Return, cacheVars, IntrospectsOnlyUncached
<1>9. ASSUME ~crashed, Close
      PROVE  IntrospectsOnlyUncached'
  BY <1>9, <1>0
     DEF Close, callVars, IntrospectsOnlyUncached
<1>10. ASSUME ~crashed, Tick
       PROVE  IntrospectsOnlyUncached'
  BY <1>10, <1>0
     DEF Tick, callVars, cacheVars, IntrospectsOnlyUncached
<1>11. ASSUME UNCHANGED vars
       PROVE  IntrospectsOnlyUncached'
  BY <1>11, <1>0
     DEF vars, callVars, cacheVars, IntrospectsOnlyUncached
<1> QED
  BY <1>1, <1>2, <1>3, <1>4, <1>5, <1>6, <1>7, <1>8, <1>9, <1>10, <1>11, NextCases

\* No date lies in the future, and a leader's reading of the clock precedes its
\* answer.
LEMMA TimeKept ==
    ASSUME IInv, [Next]_vars
    PROVE  TimeInv'
<1>0. /\ TimeInv /\ TypeOK
      /\ pc \in [Calls -> PCs]
      /\ tok \in [Calls -> Tokens \cup {NoToken}]
      /\ now \in [Calls -> Nat] /\ out \in [Calls -> Outcome]
      /\ clock \in Nat /\ TTL \in Nat
  BY CacheAssumption DEF IInv, TypeOK
<1>m. ASSUME UNCHANGED <<now, out, clock>>
      PROVE  \A k \in DOMAIN entries' : entries'[k].out.asOf <= clock'
  BY <1>m, <1>0, MapEffect DEF TimeInv, newEntry
<1>h. \A c \in Calls : Hit(tok[c], now[c]) => /\ entries[tok[c]].out \in Outcome
                                             /\ entries[tok[c]].out.asOf <= clock
  BY <1>0 DEF Hit, TypeOK, cachedEntry, TimeInv
<1>n. /\ \A c \in Calls : now[c] \in Nat /\ out[c].asOf \in Nat
      /\ \A k \in DOMAIN entries : entries[k].out.asOf \in Nat
  BY <1>0 DEF TypeOK, cachedEntry, Outcome
<1>g. ASSUME NEW c \in Calls, get(tok[c], now[c]), clock' = clock
      PROVE  \A k \in DOMAIN entries' : entries'[k].out.asOf <= clock'
  BY <1>g, <1>0, GetEffect DEF TimeInv
<1>1. ASSUME NEW c \in Calls, NEW t \in Tokens, ~crashed, Resolve(c, t)
      PROVE  TimeInv'
  BY <1>1, <1>0
     DEF Resolve, cacheVars, TimeInv, PCs, Outcome
<1>2. ASSUME NEW c \in Calls, ~crashed, Lookup(c)
      PROVE  TimeInv'
  <2>1. CASE Hit(tok[c], now[c])
    <3>1. /\ now' = now /\ clock' = clock
          /\ pc' = [pc EXCEPT ![c] = "done"]
          /\ out' = [out EXCEPT ![c] = entries[tok[c]].out]
          /\ via' = [via EXCEPT ![c] = "cache"]
      BY <2>1, <1>2 DEF Lookup
    <3>2. \A d \in Calls : now'[d] <= clock' /\ out'[d].asOf <= clock'
      BY <3>1, <2>1, <1>h, <1>0 DEF TimeInv
    <3>3. \A d \in Calls : pc'[d] = "answered" => now'[d] <= out'[d].asOf /\ via'[d] = "leader"
      BY <3>1, <1>0 DEF TimeInv
    <3> QED
      BY <3>1, <3>2, <3>3, <1>2, <1>g DEF TimeInv, Lookup
  <2>2. CASE ~Hit(tok[c], now[c])
    BY <2>2, <1>0, <1>g, <1>2
       DEF Lookup, TimeInv
  <2> QED
    BY <2>1, <2>2
<1>3. ASSUME NEW c \in Calls, ~crashed, Do(c)
      PROVE  TimeInv'
  <2>1. CASE flight[tok[c]] # NoCall
    BY <2>1, <1>3, <1>0
       DEF Do, cacheVars, TimeInv
  <2>2. CASE ~(flight[tok[c]] # NoCall)
    BY <2>2, <1>3, <1>0
       DEF Do, cacheVars, TimeInv
  <2> QED
    BY <2>1, <2>2
<1>4. ASSUME NEW c \in Calls, ~crashed, Recheck(c)
      PROVE  TimeInv'
  <2>1. CASE Hit(tok[c], now[c])
    <3>1. /\ now' = now /\ clock' = clock
          /\ pc' = [pc EXCEPT ![c] = "publish"]
          /\ out' = [out EXCEPT ![c] = entries[tok[c]].out]
          /\ via' = [via EXCEPT ![c] = "cache"]
      BY <2>1, <1>4 DEF Recheck
    <3>2. \A d \in Calls : now'[d] <= clock' /\ out'[d].asOf <= clock'
      BY <3>1, <2>1, <1>h, <1>0 DEF TimeInv
    <3>3. \A d \in Calls : pc'[d] = "answered" => now'[d] <= out'[d].asOf /\ via'[d] = "leader"
      BY <3>1, <1>0 DEF TimeInv
    <3> QED
      BY <3>1, <3>2, <3>3, <1>4, <1>g DEF TimeInv, Recheck
  <2>2. CASE ~Hit(tok[c], now[c])
    BY <2>2, <1>0, <1>g, <1>4
       DEF Recheck, TimeInv
  <2> QED
    BY <2>1, <2>2
<1>5. ASSUME NEW c \in Calls, ~crashed, Store(c)
      PROVE  TimeInv'
  BY <1>5, <1>0, <1>m
     DEF Store, cacheVars, TimeInv, PCs, Outcome
<1>6. ASSUME NEW c \in Calls, ~crashed, Publish(c)
      PROVE  TimeInv'
  BY <1>6, <1>0
     DEF Publish, cacheVars, TimeInv, PCs, Outcome
<1>7. ASSUME NEW c \in Calls, NEW kind \in Kinds, ~crashed, Introspected(c, kind)
      PROVE  TimeInv'
  <2>1. /\ now' = now /\ clock' = clock /\ entries' = entries
        /\ pc' = [pc EXCEPT ![c] = "answered"]
        /\ out' = [out EXCEPT ![c] = [kind |-> kind, asOf |-> clock]]
        /\ \A d \in Calls \ {c} : via'[d] = via[d]
        /\ via'[c] = "leader"
    BY <1>7, <1>0 DEF Introspected, cacheVars, TypeOK
  <2>2. out'[c].asOf = clock /\ \A d \in Calls \ {c} : out'[d] = out[d]
    BY <2>1, <1>0
  <2>3. \A d \in Calls : now'[d] <= clock' /\ out'[d].asOf <= clock'
    BY <2>1, <2>2, <1>0 DEF TimeInv
  <2>4. \A d \in Calls : pc'[d] = "answered" => now'[d] <= out'[d].asOf /\ via'[d] = "leader"
    BY <2>1, <2>2, <1>0 DEF TimeInv
  <2> QED
    BY <2>1, <2>3, <2>4, <1>0 DEF TimeInv
<1>8. ASSUME NEW c \in Calls, ~crashed, Return(c)
      PROVE  TimeInv'
  BY <1>8, <1>0
     DEF Return, cacheVars, TimeInv, PCs, Outcome, NoOutcome
<1>9. ASSUME ~crashed, Close
      PROVE  TimeInv'
  BY <1>9, <1>0
     DEF Close, callVars, TimeInv, PCs, Outcome
<1>10. ASSUME ~crashed, Tick
       PROVE  TimeInv'
  BY <1>10, <1>0, <1>n
     DEF Tick, callVars, cacheVars, TimeInv, PCs, Outcome
<1>11. ASSUME UNCHANGED vars
       PROVE  TimeInv'
  BY <1>11, <1>0
     DEF vars, callVars, cacheVars, TimeInv, PCs, Outcome
<1> QED
  BY <1>1, <1>2, <1>3, <1>4, <1>5, <1>6, <1>7, <1>8, <1>9, <1>10, <1>11, NextCases

\* A stored entry is usable no longer than its outcome justifies: the leader
\* read the clock before the introspector settled the outcome.
LEMMA EntryKept ==
    ASSUME IInv, [Next]_vars
    PROVE  EntryBounds'
<1>1. ASSUME NEW c \in Calls, Store(c), Stores(tok[c], now[c], out[c])
      PROVE  LET e == newEntry(c) IN
             /\ e.expiresAt <= e.out.asOf + TTL
             /\ e.out.kind \notin {"claims", "inactive"}
                   => e.expiresAt <= e.out.asOf + TransportErrorTTL
             /\ e.out.kind = "claims" /\ Exp[tok[c]] # 0 => e.expiresAt <= Exp[tok[c]]
  <2>1. /\ tok[c] \in Tokens /\ now[c] \in Nat /\ out[c] \in Outcome
        /\ out[c].asOf \in Nat /\ now[c] <= out[c].asOf
    BY <1>1 DEF Store, IInv, TypeOK, TimeInv, Outcome
  <2> DEFINE l == ttlOf(tok[c], now[c], out[c])
  <2>2. /\ l \in Nat /\ l <= TTL
        /\ out[c].kind \notin {"claims", "inactive"} => l <= TransportErrorTTL
        /\ out[c].kind = "claims" /\ Exp[tok[c]] # 0 /\ l > 0
             => now[c] + l <= Exp[tok[c]]
    BY <2>1, Lifetimes
  <2>3. out[c].kind = "claims" => l > 0
    BY <1>1 DEF Stores
  <2>4. newEntry(c).out = out[c] /\ newEntry(c).expiresAt = now[c] + l
    BY DEF newEntry
  <2> HIDE DEF l
  <2> QED
    BY <2>1, <2>2, <2>3, <2>4, CacheAssumption
<1> QED
  BY <1>1, MapEffect DEF IInv, EntryBounds

\* A result keeps the bounds of the entry or the answer it came from.
LEMMA HeldKept ==
    ASSUME IInv, [Next]_vars
    PROVE  HeldInv'
<1>0. /\ HeldInv /\ EntryBounds /\ TimeInv /\ TypeOK
      /\ pc \in [Calls -> PCs]
      /\ tok \in [Calls -> Tokens \cup {NoToken}]
      /\ now \in [Calls -> Nat] /\ out \in [Calls -> Outcome]
      /\ clock \in Nat /\ TTL \in Nat
  BY CacheAssumption DEF IInv, TypeOK
<1>n. \A c \in Calls : out[c].asOf \in Nat
  BY <1>0 DEF Outcome
<1>h. ASSUME NEW c \in Calls, Hit(tok[c], now[c])
      PROVE  /\ now[c] <= entries[tok[c]].out.asOf + TTL
             /\ entries[tok[c]].out.kind = "claims" /\ Exp[tok[c]] # 0
                  => now[c] <= Exp[tok[c]]
  <2>1. /\ entries[tok[c]] \in cachedEntry /\ tok[c] \in DOMAIN entries /\ tok[c] \in Tokens
        /\ now[c] <= entries[tok[c]].expiresAt
    BY <1>h, <1>0 DEF Hit, TypeOK, cachedEntry
  <2>2. /\ entries[tok[c]].expiresAt \in Nat /\ entries[tok[c]].out.asOf \in Nat
        /\ Exp[tok[c]] \in Nat
    BY <2>1, CacheAssumption DEF cachedEntry, Outcome
  <2> QED
    BY <2>1, <2>2, <1>0 DEF EntryBounds
<1>1. ASSUME NEW c \in Calls, NEW t \in Tokens, ~crashed, Resolve(c, t)
      PROVE  HeldInv'
  BY <1>1, <1>0
     DEF Resolve, cacheVars, HeldInv
<1>2. ASSUME NEW c \in Calls, ~crashed, Lookup(c)
      PROVE  HeldInv'
  <2>1. CASE Hit(tok[c], now[c])
    <3>1. /\ now' = now /\ tok' = tok
          /\ pc' = [pc EXCEPT ![c] = "done"]
          /\ out' = [out EXCEPT ![c] = entries[tok[c]].out]
          /\ \A d \in Calls \ {c} : via'[d] = via[d]
      BY <2>1, <1>2, <1>0 DEF Lookup, TypeOK
    <3>2. out'[c] = entries[tok[c]].out /\ \A d \in Calls \ {c} : out'[d] = out[d]
      BY <3>1, <1>0
    <3>3. \A d \in Calls \ {c} : pc'[d] = pc[d]
      BY <3>1, <1>0
    <3> QED
      BY <3>1, <3>2, <3>3, <2>1, <1>h, <1>0 DEF HeldInv
  <2>2. CASE ~Hit(tok[c], now[c])
    BY <2>2, <1>0, <1>2
       DEF Lookup, HeldInv
  <2> QED
    BY <2>1, <2>2
<1>3. ASSUME NEW c \in Calls, ~crashed, Do(c)
      PROVE  HeldInv'
  <2>1. CASE flight[tok[c]] # NoCall
    BY <2>1, <1>3, <1>0
       DEF Do, cacheVars, HeldInv
  <2>2. CASE ~(flight[tok[c]] # NoCall)
    BY <2>2, <1>3, <1>0
       DEF Do, cacheVars, HeldInv
  <2> QED
    BY <2>1, <2>2
<1>4. ASSUME NEW c \in Calls, ~crashed, Recheck(c)
      PROVE  HeldInv'
  <2>1. CASE Hit(tok[c], now[c])
    <3>1. /\ now' = now /\ tok' = tok
          /\ pc' = [pc EXCEPT ![c] = "publish"]
          /\ out' = [out EXCEPT ![c] = entries[tok[c]].out]
          /\ \A d \in Calls \ {c} : via'[d] = via[d]
      BY <2>1, <1>4, <1>0 DEF Recheck, TypeOK
    <3>2. out'[c] = entries[tok[c]].out /\ \A d \in Calls \ {c} : out'[d] = out[d]
      BY <3>1, <1>0
    <3>3. \A d \in Calls \ {c} : pc'[d] = pc[d]
      BY <3>1, <1>0
    <3> QED
      BY <3>1, <3>2, <3>3, <2>1, <1>h, <1>0 DEF HeldInv
  <2>2. CASE ~Hit(tok[c], now[c])
    BY <2>2, <1>0, <1>4
       DEF Recheck, HeldInv
  <2> QED
    BY <2>1, <2>2
<1>5. ASSUME NEW c \in Calls, ~crashed, Store(c)
      PROVE  HeldInv'
  BY <1>5, <1>0, <1>n
     DEF Store, cacheVars, HeldInv, TimeInv
<1>6. ASSUME NEW c \in Calls, ~crashed, Publish(c)
      PROVE  HeldInv'
  <2>1. \A d \in Calls : pc'[d] \in {"publish", "done"} /\ via'[d] # "shared"
          => pc[d] \in {"publish", "done"} /\ out'[d] = out[d] /\ via'[d] = via[d]
    BY <1>6, <1>0 DEF Publish
  <2>2. now' = now /\ tok' = tok
    BY <1>6 DEF Publish
  <2> QED
    BY <2>1, <2>2, <1>0 DEF HeldInv
<1>7. ASSUME NEW c \in Calls, NEW kind \in Kinds, ~crashed, Introspected(c, kind)
      PROVE  HeldInv'
  BY <1>7, <1>0
     DEF Introspected, cacheVars, HeldInv
<1>8. ASSUME NEW c \in Calls, ~crashed, Return(c)
      PROVE  HeldInv'
  BY <1>8, <1>0
     DEF Return, cacheVars, HeldInv
<1>9. ASSUME ~crashed, Close
      PROVE  HeldInv'
  BY <1>9, <1>0
     DEF Close, callVars, HeldInv
<1>10. ASSUME ~crashed, Tick
       PROVE  HeldInv'
  BY <1>10, <1>0
     DEF Tick, callVars, cacheVars, HeldInv
<1>11. ASSUME UNCHANGED vars
       PROVE  HeldInv'
  BY <1>11, <1>0
     DEF vars, callVars, cacheVars, HeldInv
<1> QED
  BY <1>1, <1>2, <1>3, <1>4, <1>5, <1>6, <1>7, <1>8, <1>9, <1>10, <1>11, NextCases

\* Until it is published, an outcome that was stored stays what the cache holds.
LEMMA PublishKept ==
    ASSUME IInv, [Next]_vars
    PROVE  PublishInv'
<1>0. /\ PublishInv /\ FlightInv /\ IntrospectsOnlyUncached
      /\ pc \in [Calls -> PCs] /\ out \in [Calls -> Outcome]
  BY DEF IInv, TypeOK
<1>1. ASSUME NEW c \in Calls, NEW t \in Tokens, ~crashed, Resolve(c, t)
      PROVE  PublishInv'
  BY <1>1, <1>0
     DEF Resolve, cacheVars, PublishInv
<1>2. ASSUME NEW c \in Calls, ~crashed, Lookup(c)
      PROVE  PublishInv'
  <2>1. CASE Hit(tok[c], now[c])
    BY <2>1, <1>2, <1>0, GetEffect DEF Lookup, PublishInv
  <2>2. CASE ~Hit(tok[c], now[c])
    BY <2>2, <1>2, <1>0, GetEffect DEF Lookup, PublishInv
  <2> QED
    BY <2>1, <2>2
<1>3. ASSUME NEW c \in Calls, ~crashed, Do(c)
      PROVE  PublishInv'
  <2>1. CASE flight[tok[c]] # NoCall
    BY <2>1, <1>3, <1>0
       DEF Do, cacheVars, PublishInv
  <2>2. CASE ~(flight[tok[c]] # NoCall)
    BY <2>2, <1>3, <1>0
       DEF Do, cacheVars, PublishInv
  <2> QED
    BY <2>1, <2>2
<1>4. ASSUME NEW c \in Calls, ~crashed, Recheck(c)
      PROVE  PublishInv'
  <2>1. CASE Hit(tok[c], now[c])
    BY <2>1, <1>4, <1>0, GetEffect DEF Recheck, PublishInv
  <2>2. CASE ~Hit(tok[c], now[c])
    BY <2>2, <1>4, <1>0, GetEffect DEF Recheck, PublishInv
  <2> QED
    BY <2>1, <2>2
<1>5. ASSUME NEW c \in Calls, ~crashed, Store(c)
      PROVE  PublishInv'
  <2>1. \A k \in DOMAIN entries' :
          \/ k \in DOMAIN entries /\ entries'[k] = entries[k]
          \/ k = tok[c] /\ entries'[k].out = out[c]
    <3>1. ASSUME NEW d \in Calls, Store(d)
          PROVE  d = c
      BY <3>1, <1>5, <1>0 DEF Store
    <3> QED
      BY <3>1, MapEffect DEF newEntry
  <2>2. \A d \in Calls \ {c} : pc[d] \in Leading => tok[d] # tok[c]
    BY <1>5, <1>0 DEF Store, FlightInv, Leading
  <2>3. tok[c] \notin DOMAIN entries
    BY <1>5, <1>0 DEF Store, IntrospectsOnlyUncached
  <2> QED
    BY <2>1, <2>2, <2>3, <1>5, <1>0 DEF Store, PublishInv, Leading
<1>6. ASSUME NEW c \in Calls, ~crashed, Publish(c)
      PROVE  PublishInv'
  BY <1>6, <1>0
     DEF Publish, cacheVars, PublishInv
<1>7. ASSUME NEW c \in Calls, NEW kind \in Kinds, ~crashed, Introspected(c, kind)
      PROVE  PublishInv'
  BY <1>7, <1>0
     DEF Introspected, cacheVars, PublishInv
<1>8. ASSUME NEW c \in Calls, ~crashed, Return(c)
      PROVE  PublishInv'
  BY <1>8, <1>0
     DEF Return, cacheVars, PublishInv
<1>9. ASSUME ~crashed, Close
      PROVE  PublishInv'
  BY <1>9, <1>0
     DEF Close, callVars, PublishInv
<1>10. ASSUME ~crashed, Tick
       PROVE  PublishInv'
  BY <1>10, <1>0
     DEF Tick, callVars, cacheVars, PublishInv
<1>11. ASSUME UNCHANGED vars
       PROVE  PublishInv'
  BY <1>11, <1>0
     DEF vars, callVars, cacheVars, PublishInv
<1> QED
  BY <1>1, <1>2, <1>3, <1>4, <1>5, <1>6, <1>7, <1>8, <1>9, <1>10, <1>11, NextCases

\* Whatever can be told next about a token is at least as recent as what a
\* finished call was told.
LEMMA RegressionKept ==
    ASSUME IInv, [Next]_vars
    PROVE  NoRegression'
<1>0. /\ NoRegression /\ PublishInv /\ FlightInv /\ IntrospectsOnlyUncached /\ TimeInv
      /\ pc \in [Calls -> PCs]
      /\ tok \in [Calls -> Tokens \cup {NoToken}]
      /\ now \in [Calls -> Nat] /\ out \in [Calls -> Outcome]
      /\ clock \in Nat /\ TTL \in Nat
  BY CacheAssumption DEF IInv, TypeOK
<1>n. /\ \A c \in Calls : out[c].asOf \in Nat
      /\ \A k \in DOMAIN entries : entries[k].out.asOf \in Nat
  BY DEF IInv, TypeOK, cachedEntry, Outcome
<1>l. \A c, d \in Calls : pc[c] \in Leading /\ pc[d] \in Leading /\ tok[c] = tok[d] => c = d
  BY <1>0 DEF FlightInv
<1>p. \A d \in Calls : pc[d] \in {"answered", "publish"} /\ tok[d] \in DOMAIN entries
                          => pc[d] = "publish" /\ out[d] = entries[tok[d]].out
  BY <1>0 DEF PublishInv, IntrospectsOnlyUncached
<1>1. ASSUME NEW c \in Calls, NEW t \in Tokens, ~crashed, Resolve(c, t)
      PROVE  NoRegression'
  BY <1>1, <1>0
     DEF Resolve, cacheVars, NoRegression
<1>2. ASSUME NEW c \in Calls, ~crashed, Lookup(c)
      PROVE  NoRegression'
  <2>1. CASE Hit(tok[c], now[c])
    <3>1. /\ tok' = tok /\ entries' = entries /\ tok[c] \in DOMAIN entries
          /\ pc'[c] = "done" /\ out'[c] = entries[tok[c]].out
          /\ \A d \in Calls \ {c} : pc'[d] = pc[d] /\ out'[d] = out[d]
      BY <2>1, <1>2, <1>0, GetEffect DEF Lookup, Hit
    <3> QED
      BY <3>1, <1>0, <1>n, <1>p DEF NoRegression
  <2>2. CASE ~Hit(tok[c], now[c])
    <3>1. /\ tok' = tok /\ out' = out /\ DOMAIN entries' \subseteq DOMAIN entries
          /\ \A k \in DOMAIN entries' : entries'[k] = entries[k]
          /\ pc'[c] \in {"do", "introspect"}
          /\ \A d \in Calls \ {c} : pc'[d] = pc[d]
      BY <2>2, <1>2, <1>0, GetEffect DEF Lookup
    <3> QED
      BY <3>1, <1>0 DEF NoRegression
  <2> QED
    BY <2>1, <2>2
<1>3. ASSUME NEW c \in Calls, ~crashed, Do(c)
      PROVE  NoRegression'
  <2>1. CASE flight[tok[c]] # NoCall
    BY <2>1, <1>3, <1>0
       DEF Do, cacheVars, NoRegression
  <2>2. CASE ~(flight[tok[c]] # NoCall)
    BY <2>2, <1>3, <1>0
       DEF Do, cacheVars, NoRegression
  <2> QED
    BY <2>1, <2>2
<1>4. ASSUME NEW c \in Calls, ~crashed, Recheck(c)
      PROVE  NoRegression'
  <2>1. CASE Hit(tok[c], now[c])
    <3>1. /\ tok' = tok /\ entries' = entries /\ tok[c] \in DOMAIN entries
          /\ pc'[c] = "publish" /\ out'[c] = entries[tok[c]].out
          /\ \A d \in Calls \ {c} : pc'[d] = pc[d] /\ out'[d] = out[d]
      BY <2>1, <1>4, <1>0, GetEffect DEF Recheck, Hit
    <3> QED
      BY <3>1, <1>0, <1>n, <1>p DEF NoRegression
  <2>2. CASE ~Hit(tok[c], now[c])
    <3>1. /\ tok' = tok /\ out' = out /\ DOMAIN entries' \subseteq DOMAIN entries
          /\ \A k \in DOMAIN entries' : entries'[k] = entries[k]
          /\ pc'[c] \in {"do", "introspect"}
          /\ \A d \in Calls \ {c} : pc'[d] = pc[d]
      BY <2>2, <1>4, <1>0, GetEffect DEF Recheck
    <3> QED
      BY <3>1, <1>0 DEF NoRegression
  <2> QED
    BY <2>1, <2>2
<1>5. ASSUME NEW c \in Calls, ~crashed, Store(c)
      PROVE  NoRegression'
  <2>1. \A k \in DOMAIN entries' :
          \/ k \in DOMAIN entries /\ entries'[k] = entries[k]
          \/ k = tok[c] /\ entries'[k].out = out[c]
    <3>1. ASSUME NEW d \in Calls, Store(d)
          PROVE  d = c
      BY <3>1, <1>5, <1>0 DEF Store
    <3> QED
      BY <3>1, MapEffect DEF newEntry
  <2>2. /\ tok' = tok /\ out' = out /\ pc[c] = "answered" /\ pc'[c] = "publish"
        /\ \A d \in Calls \ {c} : pc'[d] = pc[d]
    BY <1>5, <1>0 DEF Store
  <2> QED
    BY <2>1, <2>2, <1>0 DEF NoRegression
<1>6. ASSUME NEW c \in Calls, ~crashed, Publish(c)
      PROVE  NoRegression'
  <2> DEFINE told == {d \in Calls : pc[d] = "wait" /\ tok[d] = tok[c]} \cup {c}
  <2>1. /\ tok' = tok /\ entries' = entries /\ pc[c] = "publish"
        /\ \A d \in told : pc'[d] = "done" /\ out'[d] = out[c] /\ tok[d] = tok[c]
        /\ \A d \in Calls \ told : pc'[d] = pc[d] /\ out'[d] = out[d]
    BY <1>6, <1>0 DEF Publish, cacheVars
  <2>2. \A d \in Calls : pc'[d] \in {"answered", "publish"} =>
          /\ d \notin told /\ pc[d] \in {"answered", "publish"} /\ tok[d] # tok[c]
    BY <2>1, <1>l DEF Leading
  <2>3. ASSUME NEW d \in told
        PROVE  /\ tok'[d] \in DOMAIN entries' => out'[d].asOf <= entries'[tok'[d]].out.asOf
               /\ \A f \in Calls : pc'[f] \in {"answered", "publish"} => tok'[f] # tok'[d]
    BY <2>1, <2>2, <1>n, <1>p
  <2>4. ASSUME NEW d \in Calls \ told, pc[d] = "done"
        PROVE  /\ tok'[d] \in DOMAIN entries' => out'[d].asOf <= entries'[tok'[d]].out.asOf
               /\ \A f \in Calls : pc'[f] \in {"answered", "publish"} /\ tok'[f] = tok'[d]
                                     => out'[d].asOf <= out'[f].asOf
    BY <2>1, <2>2, <2>4, <1>0 DEF NoRegression
  <2> HIDE DEF told
  <2> QED
    BY <2>1, <2>3, <2>4 DEF NoRegression
<1>7. ASSUME NEW c \in Calls, NEW kind \in Kinds, ~crashed, Introspected(c, kind)
      PROVE  NoRegression'
  <2>1. /\ tok' = tok /\ entries' = entries
        /\ pc'[c] = "answered" /\ out'[c] = [kind |-> kind, asOf |-> clock]
        /\ \A d \in Calls \ {c} : pc'[d] = pc[d] /\ out'[d] = out[d]
    BY <1>7, <1>0 DEF Introspected, cacheVars
  <2>2. \A d \in Calls : out[d].asOf <= clock
    BY <1>0 DEF TimeInv
  <2> QED
    BY <2>1, <2>2, <1>0 DEF NoRegression
<1>8. ASSUME NEW c \in Calls, ~crashed, Return(c)
      PROVE  NoRegression'
  BY <1>8, <1>0
     DEF Return, cacheVars, NoRegression
<1>9. ASSUME ~crashed, Close
      PROVE  NoRegression'
  BY <1>9, <1>0
     DEF Close, callVars, NoRegression
<1>10. ASSUME ~crashed, Tick
       PROVE  NoRegression'
  BY <1>10, <1>0
     DEF Tick, callVars, cacheVars, NoRegression
<1>11. ASSUME UNCHANGED vars
       PROVE  NoRegression'
  BY <1>11, <1>0
     DEF vars, callVars, cacheVars, NoRegression
<1> QED
  BY <1>1, <1>2, <1>3, <1>4, <1>5, <1>6, <1>7, <1>8, <1>9, <1>10, <1>11, NextCases

-----------------------------------------------------------------------------
(* Theorems                                                                *)

\* The invariant is inductive.
THEOREM Inductive ==
    /\ Init => IInv
    /\ IInv /\ [Next]_vars => IInv'
<1>1. Init => IInv
  <2> SUFFICES ASSUME Init PROVE IInv
    OBVIOUS
  <2> USE CacheAssumption DEF Init, newCache
  <2>1. TypeOK
    <3>1. clock \in 1..MaxTime /\ DOMAIN entries = {} /\ order \in Seq(Tokens)
      OBVIOUS
    <3>7. closed \in BOOLEAN /\ crashed \in BOOLEAN
      OBVIOUS
    <3>2. flight \in [Tokens -> Calls \cup {NoCall}] /\ tok \in [Calls -> Tokens \cup {NoToken}]
      OBVIOUS
    <3>3. pc \in [Calls -> PCs] /\ \A c \in Calls : pc[c] = "idle" /\ tok[c] = NoToken
      BY DEF PCs
    <3>4. NoOutcome \in Outcome
      BY DEF NoOutcome, Outcome, Kinds
    <3>5. now \in [Calls -> 0..MaxTime] /\ out \in [Calls -> Outcome]
      BY <3>4
    <3>6. via \in [Calls -> {"none", "cache", "leader", "shared"}]
      OBVIOUS
    <3> QED
      BY <3>1, <3>2, <3>3, <3>5, <3>6, <3>7 DEF TypeOK
  <2>2. MapInv /\ SizeBounded /\ OrderCovers
    BY FS_EmptySet DEF MapInv, SizeBounded, OrderCovers, disabled
  <2>3. FlightInv /\ IntrospectsOnlyUncached /\ PublishInv /\ NoRegression /\ HeldInv
    BY DEF FlightInv, IntrospectsOnlyUncached, PublishInv, NoRegression, HeldInv, Leading
  <2>4. TimeInv /\ EntryBounds
    BY DEF TimeInv, EntryBounds, NoOutcome
  <2> QED
    BY <2>1, <2>2, <2>3, <2>4 DEF IInv
<1>2. ASSUME IInv, [Next]_vars
      PROVE  IInv'
  BY <1>2, TypeKept, MapEffect, FlightKept, UncachedKept, TimeKept, EntryKept,
     HeldKept, PublishKept, RegressionKept DEF IInv
<1> QED
  BY <1>1, <1>2

THEOREM Invariance == Spec => []IInv
  BY Inductive, PTL DEF Spec

\* Type correctness of the cache and its callers.
THEOREM TypeCorrect == Spec => []TypeOK
<1>1. IInv => TypeOK
  BY DEF IInv
<1> QED
  BY <1>1, Invariance, PTL

\* SizeBounded: the capacity of the cache is respected whatever calls race.
THEOREM Capacity == Spec => []SizeBounded
<1>1. IInv => SizeBounded
  BY DEF IInv
<1> QED
  BY <1>1, Invariance, PTL

\* OrderCovers: every cached key is queued for eviction, so put finds a victim
\* whenever it needs one.
THEOREM AlwaysEvictable == Spec => []OrderCovers
<1>1. IInv => OrderCovers
  BY DEF IInv
<1> QED
  BY <1>1, Invariance, PTL

\* OneFlight: at most one introspection per token is under way.
THEOREM SingleFlight == Spec => []OneFlight
<1>1. IInv => OneFlight
  BY DEF IInv, FlightInv, OneFlight
<1> QED
  BY <1>1, Invariance, PTL

\* NoOrphan: nobody waits for a flight that has ended.
THEOREM NobodyIsLeft == Spec => []NoOrphan
<1>1. IInv => NoOrphan
  <2> SUFFICES ASSUME IInv, NEW c \in Calls, pc[c] = "wait"
               PROVE  \E d \in Calls : pc[d] \in Leading /\ tok[d] = tok[c]
    BY DEF NoOrphan
  <2>1. FlightInv /\ tok[c] \in Tokens /\ flight \in [Tokens -> Calls \cup {NoCall}]
    BY DEF IInv, TypeOK
  <2> QED
    BY <2>1 DEF FlightInv
<1> QED
  BY <1>1, Invariance, PTL

\* The introspector is asked only about tokens without a usable entry.
THEOREM NoNeedlessIntrospection == Spec => []IntrospectsOnlyUncached
<1>1. IInv => IntrospectsOnlyUncached
  BY DEF IInv
<1> QED
  BY <1>1, Invariance, PTL

\* EntryBounds: how long entries live.
THEOREM Lifespans == Spec => []EntryBounds
<1>1. IInv => EntryBounds
  BY DEF IInv
<1> QED
  BY <1>1, Invariance, PTL

\* BoundedStaleness: how old an answer can be.
THEOREM Freshness == Spec => []BoundedStaleness
<1>1. IInv => BoundedStaleness
  BY DEF IInv, HeldInv, BoundedStaleness
<1> QED
  BY <1>1, Invariance, PTL

\* NotPastExpiry: no claims from the cache for a token that has expired.
THEOREM NeverPastExpiry == Spec => []NotPastExpiry
<1>1. IInv => NotPastExpiry
  BY DEF IInv, HeldInv, NotPastExpiry
<1> QED
  BY <1>1, Invariance, PTL

\* A token's answers never go back in time.
THEOREM Monotonic == Spec => []NoRegression
<1>1. IInv => NoRegression
  BY DEF IInv
<1> QED
  BY <1>1, Invariance, PTL

-----------------------------------------------------------------------------
(* The server                                                              *)

LEMMA ServerCases ==
    ASSUME [ServerNext]_serverVars
    PROVE  \/ \E c \in Calls, m \in Methods, t \in Tokens \cup {NoToken} : Arrive(c, m, t)
           \/ \E c \in Calls : Bypass(c)
           \/ \E c \in Calls : RejectBearer(c)
           \/ \E c \in Calls : ~crashed /\ Authenticate(c)
           \/ \E c \in Calls : ~crashed /\ Resolving(c)
           \/ \E c \in Calls : ~crashed /\ Introspection(c)
           \/ \E c \in Calls : ~crashed /\ Decide(c)
           \/ \E c \in Calls : End(c)
           \/ ~crashed /\ Shutdown
           \/ ~crashed /\ Tick /\ UNCHANGED authVars
           \/ UNCHANGED serverVars
BY DEF ServerNext, RPCStep, Dead, serverVars

-----------------------------------------------------------------------------
(* The cache underneath                                                    *)

\* Whatever the enforcer does is, for the cache, one of its steps or none.
LEMMA Underneath ==
    ASSUME ServerTypeOK, [ServerNext]_serverVars
    PROVE  [Next]_vars
<1>1. ASSUME NEW c \in Calls, ~crashed, Authenticate(c) PROVE Next
  <2>1. header[c] \in Tokens
    BY <1>1 DEF ServerTypeOK, Authenticate
  <2> QED
    BY <1>1, <2>1 DEF Next, Authenticate
<1>2. ASSUME NEW c \in Calls, ~crashed, Resolving(c) \/ Introspection(c) \/ Decide(c)
      PROVE  Next
  BY <1>2 DEF Next, Resolving, Introspection, Decide
<1>3. ASSUME ~crashed, Shutdown \/ Tick PROVE Next
  BY <1>3 DEF Next, Shutdown
<1>4. ASSUME NEW c \in Calls,
             \/ \E m \in Methods, t \in Tokens \cup {NoToken} : Arrive(c, m, t)
             \/ Bypass(c) \/ RejectBearer(c) \/ End(c)
      PROVE  UNCHANGED vars
  BY <1>4 DEF Arrive, Bypass, RejectBearer, End
<1>5. UNCHANGED serverVars => UNCHANGED vars
  BY DEF serverVars
<1> QED
  BY <1>1, <1>2, <1>3, <1>4, <1>5, ServerCases

\* Inside resolve a call keeps its token and stays inside.
LEMMA InsideResolve ==
    ASSUME TypeOK, NEW c \in Calls, Step(c) \/ Upstream(c)
    PROVE  /\ tok' = tok /\ clock' = clock
           /\ \A d \in Calls : pc'[d] = "idle" <=> pc[d] = "idle"
<1>0. pc \in [Calls -> PCs]
  BY DEF TypeOK
<1>1. CASE Lookup(c) \/ Do(c) \/ Recheck(c) \/ Store(c)
  BY <1>0, <1>1 DEF Lookup, Do, Recheck, Store
<1>2. CASE Publish(c)
  BY <1>0, <1>2 DEF Publish
<1>3. CASE Upstream(c)
  BY <1>0, <1>3 DEF Upstream, Answer, Fail, Cancel, Introspected
<1> QED
  BY <1>1, <1>2, <1>3 DEF Step

\* What the introspector settles is for the token of a call inside resolve.
LEMMA OutcomeOf ==
    ASSUME TypeOK, NEW c \in Calls, Introspection(c)
    PROVE  /\ tok[c] \in Tokens /\ tok' = tok
           /\ pc[c] = "introspect" /\ pc' = [pc EXCEPT ![c] = "answered"]
           /\ \E kind \in Kinds : out' = [out EXCEPT ![c] = [kind |-> kind, asOf |-> clock]]
           /\ out'[c].kind \in Kinds
           /\ UNCHANGED <<clock, entries>>
<1>1. PICK kind \in Kinds : Introspected(c, kind)
  BY DEF Introspection, Upstream, Answer, Fail, Cancel, Kinds
<1>2. /\ tok[c] \in Tokens \cup {NoToken} /\ (pc[c] = "idle" <=> tok[c] = NoToken)
      /\ out \in [Calls -> Outcome]
  BY DEF TypeOK
<1>3. /\ pc[c] = "introspect" /\ pc' = [pc EXCEPT ![c] = "answered"]
      /\ tok' = tok /\ UNCHANGED <<clock, entries>>
      /\ out' = [out EXCEPT ![c] = [kind |-> kind, asOf |-> clock]]
  BY <1>1 DEF Introspected, cacheVars
<1>4. out'[c].kind = kind
  BY <1>2, <1>3
<1>5. tok[c] \in Tokens
  BY <1>2, <1>3
<1> QED
  BY <1>3, <1>4, <1>5

-----------------------------------------------------------------------------
(* The invariant                                                           *)

LEMMA CodesAreCodes == \A err : toGRPCStatus(err) \in CallerFacing \cup {"Internal"}
BY DEF toGRPCStatus, CallerFacing

\* authorize lets a call through or refuses it with a status code.
LEMMA Decisions ==
    ASSUME NEW c
    PROVE  decision(c) \in CallerFacing \cup {"Internal", "OK"}
BY CodesAreCodes DEF decision, policyCode, CallerFacing

LEMMA ServerTypeKept ==
    ASSUME IInv', ServerTypeOK, [ServerNext]_serverVars
    PROVE  ServerTypeOK'
<1> DEFINE Types ==
      /\ cfg \in Configs /\ minted \in [Tokens -> ClaimSets] /\ said \in [Tokens -> SUBSET Kinds]
      /\ method \in [Calls -> Methods \cup {NoMethod}]
      /\ header \in [Calls -> Tokens \cup {NoToken}]
      /\ phase \in [Calls -> {"idle", "arrived", "resolving", "handling", "denied"}]
      /\ code \in [Calls -> CallerFacing \cup {"Internal", "OK"}]
    Agree ==
      \A c \in Calls : /\ phase[c] = "resolving" <=> pc[c] # "idle"
                       /\ phase[c] = "resolving" => tok[c] = header[c]
<1>0. TypeOK /\ TypeOK' /\ Types /\ Agree
  BY DEF ServerTypeOK, IInv
<1>p. /\ pc \in [Calls -> PCs] /\ tok \in [Calls -> Tokens \cup {NoToken}]
      /\ \A c \in Calls : pc[c] = "idle" <=> tok[c] = NoToken
  BY <1>0 DEF TypeOK
<1> SUFFICES Types' /\ Agree'
  BY <1>0 DEF ServerTypeOK
<1>1. ASSUME NEW c \in Calls, NEW m \in Methods, NEW t \in Tokens \cup {NoToken}, Arrive(c, m, t)
      PROVE  Types' /\ Agree'
  BY <1>0, <1>1 DEF Arrive, vars, callVars
<1>2. ASSUME NEW c \in Calls, Bypass(c) PROVE Types' /\ Agree'
  BY <1>0, <1>2 DEF Bypass, vars, callVars
<1>3. ASSUME NEW c \in Calls, RejectBearer(c) PROVE Types' /\ Agree'
  BY <1>0, <1>3 DEF RejectBearer, vars, callVars, CallerFacing
<1>4. ASSUME NEW c \in Calls, Authenticate(c) PROVE Types' /\ Agree'
  BY <1>0, <1>p, <1>4 DEF Authenticate, Resolve
<1>5. ASSUME NEW c \in Calls, Resolving(c) PROVE Types' /\ Agree'
  <2>1. tok' = tok /\ \A d \in Calls : pc'[d] = "idle" <=> pc[d] = "idle"
    BY <1>0, <1>5, InsideResolve DEF Resolving
  <2> QED
    BY <1>0, <1>5, <2>1 DEF Resolving, authVars, rpcVars
<1>6. ASSUME NEW c \in Calls, Introspection(c) PROVE Types' /\ Agree'
  <2>1. tok' = tok /\ \A d \in Calls : pc'[d] = "idle" <=> pc[d] = "idle"
    BY <1>0, <1>6, InsideResolve DEF Introspection
  <2>2. tok[c] \in Tokens /\ out'[c].kind \in Kinds
    BY <1>p, <1>0, <1>6, OutcomeOf
  <2>3. said' \in [Tokens -> SUBSET Kinds]
    BY <1>0, <1>6, <2>2 DEF Introspection
  <2> QED
    BY <1>0, <1>6, <2>1, <2>3 DEF Introspection, rpcVars
<1>7. ASSUME NEW c \in Calls, Decide(c) PROVE Types' /\ Agree'
  <2>1. Types'
    BY <1>0, <1>7, Decisions DEF Decide
  <2>2. Agree'
    BY <1>0, <1>p, <1>7 DEF Decide, Return
  <2> QED
    BY <2>1, <2>2
<1>8. ASSUME NEW c \in Calls, End(c) PROVE Types' /\ Agree'
  BY <1>0, <1>8 DEF End, vars, callVars
<1>9. ASSUME Shutdown \/ (Tick /\ UNCHANGED authVars) PROVE Types' /\ Agree'
  BY <1>0, <1>9 DEF Shutdown, Close, Tick, authVars, rpcVars, callVars
<1>10. ASSUME UNCHANGED serverVars PROVE Types' /\ Agree'
  BY <1>0, <1>10 DEF serverVars, authVars, rpcVars, vars, callVars
<1> QED
  BY <1>1, <1>2, <1>3, <1>4, <1>5, <1>6, <1>7, <1>8, <1>9, <1>10, ServerCases

\* What the introspector has said stays said, and minted and the configuration
\* do not change.
LEMMA Settled ==
    ASSUME ServerTypeOK, [ServerNext]_serverVars
    PROVE  /\ UNCHANGED <<cfg, minted>>
           /\ \A t \in Tokens : said[t] \subseteq said'[t]
           /\ confirmed \subseteq confirmed'
<1>1. UNCHANGED <<cfg, minted>>
  BY ServerCases DEF Arrive, Bypass, RejectBearer, Authenticate, Resolving, Introspection,
     Decide, End, Shutdown, authVars, serverVars
<1>2. UNCHANGED said \/ \E c \in Calls : Introspection(c)
  BY ServerCases DEF Arrive, Bypass, RejectBearer, Authenticate, Resolving,
     Decide, End, Shutdown, authVars, serverVars
<1>3. \A t \in Tokens : said[t] \subseteq said'[t]
  BY <1>2 DEF Introspection, ServerTypeOK
<1> QED
  BY <1>1, <1>3 DEF confirmed

\* The claims in the cache and in the callers' hands are confirmed, since all
\* that is there was said.
LEMMA HeardClaims ==
    ASSUME ServerTypeOK, HeardInv
    PROVE  ClaimsAreConfirmed
<1>1. /\ DOMAIN entries \subseteq Tokens
      /\ \A c \in Calls : pc[c] # "idle" => tok[c] \in Tokens
  BY DEF ServerTypeOK, TypeOK
<1> QED
  BY <1>1 DEF HeardInv, ClaimsAreConfirmed, confirmed, NoOutcome

\* What is cached or handed on was said, and stays so: Store and Publish move an
\* outcome between calls and entries of one token, and Lookup and Recheck take it
\* from there.
LEMMA HeardKept ==
    ASSUME IInv, ServerTypeOK, HeardInv, [ServerNext]_serverVars
    PROVE  HeardInv'
<1> DEFINE Kept == \A t \in DOMAIN entries : entries[t].out.kind \in said[t]
           Own(c) == IF pc[c] \in Told THEN out[c].kind \in said[tok[c]]
                                       ELSE out[c] = NoOutcome
           Held == \A c \in Calls : Own(c)
<1>0. Held /\ Kept
  BY DEF HeardInv
<1>t. /\ pc \in [Calls -> PCs] /\ tok \in [Calls -> Tokens \cup {NoToken}]
      /\ out \in [Calls -> Outcome] /\ DOMAIN entries \subseteq Tokens
      /\ \A c \in Calls : pc[c] = "idle" <=> tok[c] = NoToken
  BY DEF IInv, TypeOK
<1>m. \A t \in Tokens : said[t] \subseteq said'[t]
  BY Settled
<1>u. [Next]_vars
  BY Underneath
<1>k. \A c \in Calls : pc[c] \in Told => tok[c] \in Tokens
  BY <1>t DEF Told
<1> SUFFICES Held' /\ Kept'
  BY DEF HeardInv
<1>1. Kept'
  <2> SUFFICES ASSUME NEW k \in DOMAIN entries'
               PROVE  entries'[k].out.kind \in said'[k]
    OBVIOUS
  <2>1. CASE k \in DOMAIN entries /\ entries'[k] = entries[k]
    BY <2>1, <1>0, <1>m, <1>t
  <2>2. CASE \E c \in Calls : Store(c) /\ k = tok[c] /\ entries'[k] = newEntry(c)
    <3>1. PICK c \in Calls : Store(c) /\ k = tok[c] /\ entries'[k] = newEntry(c)
      BY <2>2
    <3>2. pc[c] \in Told /\ entries'[k].out = out[c]
      BY <3>1 DEF Store, newEntry, Told
    <3> QED
      BY <3>1, <3>2, <1>0, <1>m, <1>k
  <2> QED
    BY <2>1, <2>2, <1>u, MapEffect
<1>o. ASSUME NEW d \in Calls, pc'[d] = pc[d], out'[d] = out[d], tok'[d] = tok[d]
      PROVE  Own(d)'
  BY <1>o, <1>0, <1>m, <1>k
<1>2. ASSUME NEW c \in Calls, Lookup(c) \/ Recheck(c), UNCHANGED said PROVE Held'
  <2>1. tok' = tok /\ \A d \in Calls \ {c} : pc'[d] = pc[d] /\ out'[d] = out[d]
    BY <1>2, <1>t DEF Lookup, Recheck
  <2>2. CASE Hit(tok[c], now[c])
    <3>1. pc'[c] \in Told /\ out'[c] = entries[tok[c]].out /\ tok[c] \in DOMAIN entries
      BY <1>2, <1>t, <2>2 DEF Lookup, Recheck, Hit, Told
    <3> QED
      BY <3>1, <2>1, <1>o, <1>0, <1>2
  <2>3. CASE ~Hit(tok[c], now[c])
    <3>1. pc[c] \notin Told /\ pc'[c] \notin Told /\ out'[c] = out[c]
      BY <1>2, <1>t, <2>3 DEF Lookup, Recheck, Told
    <3> QED
      BY <3>1, <2>1, <1>o, <1>0, <1>2
  <2> QED
    BY <2>2, <2>3
<1>3. ASSUME NEW c \in Calls, Do(c) \/ Store(c), UNCHANGED said PROVE Held'
  BY <1>0, <1>t, <1>3 DEF Do, Store, Told
<1>4. ASSUME NEW c \in Calls, Publish(c), UNCHANGED said PROVE Held'
  <2>1. pc[c] \in Told /\ tok' = tok
    BY <1>4 DEF Publish, Told
  <2>2. ASSUME NEW d \in Calls, (pc[d] = "wait" /\ tok[d] = tok[c]) \/ d = c
        PROVE  pc'[d] = "done" /\ out'[d] = out[c] /\ tok[d] = tok[c]
    BY <1>4, <1>t, <2>2 DEF Publish
  <2>3. ASSUME NEW d \in Calls, ~(pc[d] = "wait" /\ tok[d] = tok[c]), d # c
        PROVE  pc'[d] = pc[d] /\ out'[d] = out[d]
    BY <1>4, <1>t, <2>3 DEF Publish
  <2>4. ASSUME NEW d \in Calls PROVE Own(d)'
    <3>1. CASE (pc[d] = "wait" /\ tok[d] = tok[c]) \/ d = c
      BY <3>1, <2>1, <2>2, <1>0, <1>4 DEF Told
    <3>2. CASE ~(pc[d] = "wait" /\ tok[d] = tok[c]) /\ d # c
      BY <3>2, <2>1, <2>3, <1>o
    <3> QED
      BY <3>1, <3>2
  <2> QED
    BY <2>4
<1>5. ASSUME NEW c \in Calls, Introspection(c) PROVE Held'
  <2>1. PICK kind \in Kinds : out' = [out EXCEPT ![c] = [kind |-> kind, asOf |-> clock]]
    BY <1>5, OutcomeOf DEF IInv
  <2>2. /\ tok' = tok /\ tok[c] \in Tokens
        /\ pc' = [pc EXCEPT ![c] = "answered"]
    BY <1>5, OutcomeOf DEF IInv
  <2>3. out'[c].kind \in said'[tok[c]]
    BY <1>5, <2>2 DEF Introspection, ServerTypeOK
  <2>4. Own(c)'
    BY <2>2, <2>3, <1>t DEF Told
  <2>5. ASSUME NEW d \in Calls, d # c PROVE Own(d)'
    BY <2>1, <2>2, <2>5, <1>o, <1>t
  <2> QED
    BY <2>4, <2>5
<1>6. ASSUME NEW c \in Calls, Authenticate(c) PROVE Held'
  BY <1>0, <1>t, <1>6 DEF Authenticate, Resolve, Told
<1>7. ASSUME NEW c \in Calls, Decide(c) PROVE Held'
  BY <1>0, <1>t, <1>7 DEF Decide, Return, Told
<1>8. ASSUME UNCHANGED <<pc, tok, out, said>> PROVE Held'
  BY <1>0, <1>8
<1>9. ASSUME NEW c \in Calls, Resolving(c) PROVE Held'
  BY <1>2, <1>3, <1>4, <1>9 DEF Resolving, Step, authVars
<1>10. ASSUME NEW c \in Calls,
              \/ \E m \in Methods, t \in Tokens \cup {NoToken} : Arrive(c, m, t)
              \/ Bypass(c) \/ RejectBearer(c) \/ End(c)
       PROVE  UNCHANGED <<pc, tok, out, said>>
  BY <1>10 DEF Arrive, Bypass, RejectBearer, End, vars, callVars
<1>11. ASSUME Shutdown \/ (Tick /\ UNCHANGED authVars) \/ UNCHANGED serverVars
       PROVE  UNCHANGED <<pc, tok, out, said>>
  BY <1>11 DEF Shutdown, Close, Tick, serverVars, authVars, vars, callVars
<1> HIDE DEF Held, Kept
<1> QED
  BY <1>1, <1>5, <1>6, <1>7, <1>8, <1>9, <1>10, <1>11, ServerCases

\* Who authorize lets through has claims, and they pass every check.
LEMMA LetThrough ==
    ASSUME ServerTypeOK, HeardInv, NEW c \in Calls,
           phase[c] = "resolving", decision(c) = "OK"
    PROVE  out[c].kind = "claims" /\ header[c] = tok[c] /\ header[c] \in confirmed
<1>1. out[c].kind = "claims"
  BY CodesAreCodes DEF decision, CallerFacing
<1> QED
  BY <1>1, HeardClaims DEF ServerTypeOK, ClaimsAreConfirmed

LEMMA GuardedKept ==
    ASSUME ServerTypeOK, Validated, HeardInv, GuardedNeverAnonymous,
           [ServerNext]_serverVars
    PROVE  GuardedNeverAnonymous'
<1>t. /\ phase \in [Calls -> {"idle", "arrived", "resolving", "handling", "denied"}]
      /\ method \in [Calls -> Methods \cup {NoMethod}]
      /\ header \in [Calls -> Tokens \cup {NoToken}]
  BY DEF ServerTypeOK
<1>m. cfg' = cfg /\ confirmed \subseteq confirmed'
  BY Settled
<1> SUFFICES ASSUME NEW d \in Calls, cfg.RequireAuth, phase'[d] = "handling",
                    method'[d] \in DOMAIN cfg.Policies \ Reflection
             PROVE  header'[d] \in confirmed'
  BY <1>m DEF GuardedNeverAnonymous
<1>1. CASE phase[d] = "handling" /\ method'[d] = method[d] /\ header'[d] = header[d]
  BY <1>1, <1>m DEF GuardedNeverAnonymous
<1>2. CASE Bypass(d)
  <2>1. isPublic(method[d]) /\ method[d] \notin Reflection
    BY <1>2 DEF Bypass
  <2>2. method[d] \in cfg.PublicMethods \cap DOMAIN cfg.Policies
    BY <1>2, <2>1 DEF isPublic, Bypass
  <2> QED
    BY <2>2 DEF Validated, validateMethodSets
<1>3. CASE Decide(d)
  <2>1. phase[d] = "resolving" /\ decision(d) = "OK" /\ header' = header
    BY <1>3, <1>t DEF Decide
  <2> QED
    BY <2>1, <1>m, LetThrough
<1>4. ASSUME NEW c \in Calls,
             \/ \E m \in Methods, t \in Tokens \cup {NoToken} : Arrive(c, m, t)
             \/ RejectBearer(c) \/ Authenticate(c) \/ End(c)
             \/ c # d /\ Bypass(c)
             \/ c # d /\ Decide(c)
      PROVE  phase[d] = "handling" /\ method'[d] = method[d] /\ header'[d] = header[d]
  BY <1>t, <1>4 DEF Arrive, RejectBearer, Authenticate, End, Bypass, Decide
<1>5. ASSUME NEW c \in Calls, Resolving(c) \/ Introspection(c)
      PROVE  phase[d] = "handling" /\ method'[d] = method[d] /\ header'[d] = header[d]
  BY <1>5 DEF Resolving, Introspection, authVars, rpcVars
<1>6. ASSUME Shutdown \/ UNCHANGED authVars \/ UNCHANGED serverVars
      PROVE  phase[d] = "handling" /\ method'[d] = method[d] /\ header'[d] = header[d]
  BY <1>6 DEF Shutdown, serverVars, authVars, rpcVars
<1> QED
  BY <1>1, <1>2, <1>3, <1>4, <1>5, <1>6, ServerCases

LEMMA UndecidedKept ==
    ASSUME ServerTypeOK, Undecided, [ServerNext]_serverVars
    PROVE  Undecided'
<1>t. /\ phase \in [Calls -> {"idle", "arrived", "resolving", "handling", "denied"}]
      /\ method \in [Calls -> Methods \cup {NoMethod}]
      /\ code \in [Calls -> CallerFacing \cup {"Internal", "OK"}]
  BY DEF ServerTypeOK
<1>c. cfg' = cfg
  BY Settled
<1>1. ASSUME NEW c \in Calls, NEW m \in Methods, NEW t \in Tokens \cup {NoToken}, Arrive(c, m, t)
      PROVE  Undecided'
  BY <1>t, <1>1 DEF Arrive, Undecided, isPublic
<1>2. ASSUME NEW c \in Calls, Bypass(c) \/ RejectBearer(c) PROVE Undecided'
  BY <1>t, <1>2 DEF Bypass, RejectBearer, Undecided, isPublic
<1>3. ASSUME NEW c \in Calls, Authenticate(c) PROVE Undecided'
  BY <1>t, <1>3 DEF Authenticate, Undecided, isPublic
<1>4. ASSUME NEW c \in Calls, Decide(c) PROVE Undecided'
  BY <1>t, <1>4 DEF Decide, Undecided, isPublic
<1>5. ASSUME NEW c \in Calls, End(c) PROVE Undecided'
  BY <1>t, <1>5 DEF End, Undecided, isPublic
<1>6. ASSUME NEW c \in Calls, Resolving(c) \/ Introspection(c) PROVE Undecided'
  BY <1>6 DEF Resolving, Introspection, authVars, rpcVars, Undecided, isPublic
<1>7. ASSUME Shutdown \/ UNCHANGED authVars \/ UNCHANGED serverVars PROVE Undecided'
  BY <1>7 DEF Shutdown, serverVars, authVars, rpcVars, Undecided, isPublic
<1> QED
  BY <1>1, <1>2, <1>3, <1>4, <1>5, <1>6, <1>7, ServerCases

LEMMA ServerInitial == ServerInit => ServerIInv
<1> SUFFICES ASSUME ServerInit PROVE ServerIInv
  OBVIOUS
<1>1. IInv
  BY Inductive DEF ServerInit
<1>2. /\ pc = [c \in Calls |-> "idle"] /\ entries = <<>>
      /\ out = [c \in Calls |-> NoOutcome]
  BY DEF ServerInit, Init, newCache
<1>3. ServerTypeOK
  BY <1>1, <1>2 DEF ServerInit, ServerTypeOK, IInv, CallerFacing
<1>4. Validated
  BY DEF ServerInit, Validated, New
<1>5. HeardInv /\ GuardedNeverAnonymous /\ Undecided
  BY <1>2 DEF ServerInit, HeardInv, Told, GuardedNeverAnonymous, Undecided
<1> QED
  BY <1>1, <1>3, <1>4, <1>5 DEF ServerIInv

\* The invariant of cache and enforcer together.
THEOREM ServerInvariance == ServerSpec => []ServerIInv
<1>1. ServerIInv /\ [ServerNext]_serverVars => ServerIInv'
  <2> SUFFICES ASSUME ServerIInv, [ServerNext]_serverVars PROVE ServerIInv'
    OBVIOUS
  <2>0. /\ IInv /\ ServerTypeOK /\ Validated /\ HeardInv /\ Undecided
        /\ GuardedNeverAnonymous
    BY DEF ServerIInv
  <2>1. IInv'
    BY <2>0, Underneath, Inductive
  <2>2. ServerTypeOK'
    BY <2>0, <2>1, ServerTypeKept
  <2>3. Validated'
    BY <2>0, Settled DEF Validated, validateMethodSets
  <2>4. HeardInv' /\ GuardedNeverAnonymous' /\ Undecided'
    BY <2>0, HeardKept, GuardedKept, UndecidedKept
  <2> QED
    BY <2>1, <2>2, <2>3, <2>4 DEF ServerIInv
<1> QED
  BY <1>1, ServerInitial, PTL DEF ServerSpec

\* The enforcer and the cache agree at all times: an RPC is in resolve exactly
\* while authorize waits for it, with the token of its own metadata.
THEOREM ServerTypes == ServerSpec => []ServerTypeOK
<1>1. ServerIInv => ServerTypeOK
  BY DEF ServerIInv
<1> QED
  BY <1>1, ServerInvariance, PTL

\* authorize acts on no claims, cached, shared or fresh, that the introspector
\* has not given for that very token.
THEOREM NoForgedClaims == ServerSpec => []ClaimsAreConfirmed
<1>1. ServerIInv => ClaimsAreConfirmed
  BY HeardClaims DEF ServerIInv
<1> QED
  BY <1>1, ServerInvariance, PTL

\* A method with policies is never served to a caller who did not
\* authenticate, because New refuses one that is public as well.
THEOREM NeverServedAsPublic == ServerSpec => []GuardedNeverAnonymous
<1>1. ServerIInv => GuardedNeverAnonymous
  BY DEF ServerIInv
<1> QED
  BY <1>1, ServerInvariance, PTL

-----------------------------------------------------------------------------
(* The enforcer implements AccessControl                                   *)

\* AccessControl and the code read the same table of codes.
LEMMA SameCodes == \A e : toGRPCStatus(e) = Promise!StatusOf(e)
BY DEF toGRPCStatus, CallerFacing, Promise!StatusOf, Promise!CallerFacing

\* The policies that deny are those AccessControl calls discontent.
LEMMA PoliciesAgree ==
    ASSUME NEW ps, NEW t
    PROVE  Promise!Discontent(ps, t) = {i \in DOMAIN ps : denies(ps[i], minted[t])}
BY DEF Promise!Discontent, denies

\* The code that the policies of a method yield is one of the objections, or OK
\* when there is none.
LEMMA PolicyCodes ==
    ASSUME ServerTypeOK, NEW m \in DOMAIN cfg.Policies, NEW t
    PROVE  LET k == policyCode(cfg.Policies[m], minted[t])
           IN  IF Promise!Authorized(m, t) THEN k = "OK" ELSE k \in Promise!Objections(m, t)
<1> DEFINE ps == cfg.Policies[m]
           D == {i \in DOMAIN ps : denies(ps[i], minted[t])}
<1>1. Promise!Objections(m, t) = {toGRPCStatus(ps[i].err) : i \in D}
  BY PoliciesAgree, SameCodes DEF Promise!Objections
<1>2. CASE D = {}
  BY <1>1, <1>2 DEF policyCode, Promise!Authorized
<1>3. CASE D # {}
  <2> DEFINE f == firstDenial(ps, minted[t])
  <2>0. ps \in Seq(Range(ps))
    BY ServerAssumption DEF ServerTypeOK
  <2> HIDE DEF ps
  <2>1. DOMAIN ps = 1..Len(ps) /\ Len(ps) \in Nat
    BY <2>0
  <2>2. PICK i \in D : \A j \in D : i <= j
    <3>1. D \subseteq Nat
      BY <2>1
    <3> HIDE DEF D
    <3> QED
      BY <1>3, <3>1, LeastNatural
  <2>3. i \in 1..Len(ps) /\ denies(ps[i], minted[t])
    BY <2>1, <2>2
  <2>4. ASSUME NEW j \in 1..(i - 1) PROVE ~denies(ps[j], minted[t])
    <3>1. j \in DOMAIN ps /\ j < i /\ j \in Int /\ i \in Int
      BY <2>1, <2>3
    <3> QED
      BY <3>1, <2>2
  <2>5. f \in D
    BY <2>1, <2>3, <2>4, Zenon DEF firstDenial
  <2>6. policyCode(ps, minted[t]) = toGRPCStatus(ps[f].err)
    BY <1>3 DEF policyCode
  <2> QED
    BY <1>1, <2>5, <2>6 DEF Promise!Authorized, ps
<1> QED
  BY <1>2, <1>3

\* The claims of a call: the introspector gave them for the token it presents.
LEMMA ClaimsOfCall ==
    ASSUME ServerIInv, NEW c \in Calls, phase[c] = "resolving", pc[c] = "done"
    PROVE  /\ header[c] = tok[c] /\ header[c] \in Tokens /\ header[c] # NoToken
           /\ out[c].kind \in said[header[c]]
<1>1. tok[c] = header[c] /\ tok[c] \in Tokens
  BY DEF ServerIInv, ServerTypeOK, TypeOK
<1>2. out[c].kind \in said[tok[c]]
  BY DEF ServerIInv, HeardInv, Told
<1> QED
  BY <1>1, <1>2, CacheAssumption

\* The checks decision makes of the claims are those of AccessControl.
LEMMA ChecksAgree ==
    ASSUME ServerIInv, NEW c \in Calls, phase[c] = "resolving", pc[c] = "done"
    PROVE  Promise!Acceptable(header[c]) <=>
             /\ ~expired(c)
             /\ cfg.ExpectedIssuer = "" \/ minted[tok[c]].iss = cfg.ExpectedIssuer
             /\ cfg.ExpectedAudience = {} \/ audienceMatches(minted[tok[c]].aud, cfg.ExpectedAudience)
<1>1. header[c] = tok[c] /\ tok[c] \in Tokens
  BY ClaimsOfCall
<1>2. clock \in Int /\ Exp[tok[c]] \in Int
  BY <1>1, CacheAssumption DEF ServerIInv, ServerTypeOK, TypeOK
<1>3. expired(c) <=> ~(Exp[tok[c]] = 0 \/ clock <= Exp[tok[c]])
  BY <1>2 DEF expired
<1> QED
  BY <1>1, <1>3 DEF Promise!Acceptable, audienceMatches

\* A call that authorize lets through is authenticated and authorized in the
\* sense of AccessControl, at the moment it is let through.
LEMMA OKMeansAllowed ==
    ASSUME ServerIInv, NEW c \in Calls, phase[c] = "resolving", pc[c] = "done",
           decision(c) = "OK"
    PROVE  Promise!Authenticated(header[c]) /\ Promise!Authorized(method[c], header[c])
<1>1. out[c].kind = "claims"
  BY CodesAreCodes DEF decision, CallerFacing
<1>2. Promise!Authenticated(header[c]) /\ header[c] = tok[c]
  BY <1>1, ClaimsOfCall, ChecksAgree DEF decision, Promise!Authenticated
<1>3. /\ method[c] \in DOMAIN cfg.Policies
      /\ policyCode(cfg.Policies[method[c]], minted[tok[c]]) = "OK"
  BY <1>1 DEF decision
<1>4. "OK" \notin Promise!Objections(method[c], header[c])
  BY <1>3, SameCodes, CodesAreCodes DEF Promise!Objections, CallerFacing
<1> QED
  BY <1>2, <1>3, <1>4, PolicyCodes DEF ServerIInv

\* A refusal after resolve has one of AccessControl's reasons: the caller's token
\* is not good, the introspector has failed on it with an error of that code, or
\* it is good and the code is what a policy of the method objects.
LEMMA RefusalsAreDue ==
    ASSUME ServerIInv, NEW c \in Calls, phase[c] = "resolving", pc[c] = "done",
           decision(c) # "OK"
    PROVE  \/ decision(c) = "Unauthenticated" /\ Promise!Unwelcome(header[c])
           \/ decision(c) \in {Promise!StatusOf(e) : e \in Promise!Failures(header[c])}
           \/ /\ Promise!Authenticated(header[c])
              /\ decision(c) \in Promise!Objections(method[c], header[c])
<1> DEFINE t == header[c]
<1>0. t = tok[c] /\ t # NoToken /\ out[c].kind \in said[t]
  BY ClaimsOfCall
<1>1. CASE out[c].kind = "inactive"
  <2>1. decision(c) = "Unauthenticated"
    <3>1. errOf(out[c]) = "ErrUnauthenticated" /\ decision(c) = toGRPCStatus(errOf(out[c]))
      BY <1>1 DEF decision, errOf, IsUnauthenticated
    <3>2. toGRPCStatus("ErrUnauthenticated") = "Unauthenticated"
      BY DEF toGRPCStatus, CallerFacing
    <3> QED
      BY <3>1, <3>2
  <2> QED
    BY <1>0, <1>1, <2>1 DEF Promise!Unwelcome
<1>2. CASE out[c].kind \notin {"claims", "inactive"}
  <2>1. decision(c) = Promise!StatusOf(out[c].kind)
    BY <1>2, SameCodes DEF decision, errOf, IsUnauthenticated
  <2>2. out[c].kind \in Promise!Failures(t)
    BY <1>0, <1>2 DEF Promise!Failures
  <2> QED
    BY <2>1, <2>2
<1>3. CASE out[c].kind = "claims" /\ ~Promise!Acceptable(t)
  <2>1. decision(c) = "Unauthenticated"
    BY <1>3, ChecksAgree DEF decision
  <2> QED
    BY <1>0, <1>3, <2>1 DEF Promise!Unwelcome
<1>4. CASE out[c].kind = "claims" /\ Promise!Acceptable(t)
  <2>1. Promise!Authenticated(t)
    BY <1>0, <1>4 DEF Promise!Authenticated
  <2>2. decision(c) = IF method[c] \notin DOMAIN cfg.Policies THEN "PermissionDenied"
                      ELSE policyCode(cfg.Policies[method[c]], minted[t])
    BY <1>0, <1>4, ChecksAgree DEF decision
  <2>3. decision(c) \in Promise!Objections(method[c], t)
    <3>1. CASE method[c] \notin DOMAIN cfg.Policies
      BY <2>2, <3>1 DEF Promise!Objections
    <3>2. CASE method[c] \in DOMAIN cfg.Policies
      BY <2>2, <3>2, PolicyCodes DEF ServerIInv
    <3> QED
      BY <3>1, <3>2
  <2> QED
    BY <2>1, <2>3
<1> QED
  BY <1>1, <1>2, <1>3, <1>4

\* Every step of the enforcer and the cache is a step of AccessControl or none.
LEMMA StepSimulation ==
    ASSUME ServerIInv, [ServerNext]_serverVars
    PROVE  [Promise!Next]_(Promise!vars)
<1>0. ServerTypeOK
  BY DEF ServerIInv
<1>t. phase \in [Calls -> {"idle", "arrived", "resolving", "handling", "denied"}]
  BY <1>0 DEF ServerTypeOK
<1>1. ASSUME NEW c \in Calls, NEW m \in Methods, NEW t \in Tokens \cup {NoToken}, Arrive(c, m, t)
      PROVE  Promise!Ask(c, m, t)
  BY <1>t, <1>1 DEF Arrive, Promise!Ask, vars
<1>2. ASSUME NEW c \in Calls, Bypass(c) PROVE Promise!Allow(c)
  <2>1. Promise!Open(method[c])
    BY <1>2 DEF Bypass, isPublic, Promise!Open
  <2> QED
    BY <1>t, <1>2, <2>1 DEF Bypass, Promise!Allow, vars
<1>3. ASSUME NEW c \in Calls, RejectBearer(c) PROVE Promise!Deny(c, "Unauthenticated")
  <2>1. ~Promise!Open(method[c])
    BY <1>3 DEF RejectBearer, isPublic, Promise!Open
  <2>2. Promise!Unwelcome(header[c])
    BY <1>3 DEF RejectBearer, Promise!Unwelcome
  <2> QED
    BY <1>t, <1>3, <2>1, <2>2 DEF RejectBearer, Promise!Deny, vars
<1>4. ASSUME NEW c \in Calls, Authenticate(c) PROVE UNCHANGED Promise!vars
  BY <1>t, <1>4 DEF Authenticate, Resolve, Promise!vars
<1>5. ASSUME NEW c \in Calls, Resolving(c) PROVE UNCHANGED Promise!vars
  <2>1. clock' = clock
    BY <1>0, <1>5, InsideResolve DEF Resolving, ServerTypeOK
  <2> QED
    BY <1>5, <2>1 DEF Resolving, authVars, rpcVars, Promise!vars
<1>6. ASSUME NEW c \in Calls, Introspection(c)
      PROVE  \E t \in Tokens, e \in Kinds : Promise!Say(t, e)
  <2>1. /\ clock' = clock /\ tok[c] \in Tokens
        /\ out'[c].kind \in Kinds
    BY <1>0, <1>6, OutcomeOf DEF ServerTypeOK
  <2> QED
    BY <1>6, <2>1 DEF Introspection, rpcVars, Promise!Say
<1>7. ASSUME NEW c \in Calls, Decide(c)
      PROVE  Promise!Allow(c) \/ \E k \in Promise!Codes : Promise!Deny(c, k)
  <2> DEFINE d == decision(c)
  <2>1. phase[c] = "resolving" /\ pc[c] = "done" /\ clock' = clock
    BY <1>7 DEF Decide, Return
  <2>2. CASE d = "OK"
    <3>1. code' = code
      BY <1>0, <1>7, <2>1, <2>2 DEF Decide, ServerIInv, ServerTypeOK, Undecided
    <3>2. Promise!Authenticated(header[c]) /\ Promise!Authorized(method[c], header[c])
      BY <2>1, <2>2, OKMeansAllowed
    <3> QED
      BY <1>t, <1>7, <2>1, <2>2, <3>1, <3>2 DEF Decide, Promise!Allow
  <2>3. CASE d # "OK"
    <3>1. d \in Promise!Codes
      BY <2>3, Decisions DEF Promise!Codes, CallerFacing, Promise!CallerFacing
    <3>2. ~Promise!Open(method[c])
      BY <2>1 DEF ServerIInv, Undecided, isPublic, Promise!Open
    <3> QED
      BY <1>t, <1>7, <2>1, <2>3, <3>1, <3>2, RefusalsAreDue DEF Decide, Promise!Deny
  <2> QED
    BY <2>2, <2>3
<1>8. ASSUME NEW c \in Calls, End(c) PROVE Promise!End(c)
  BY <1>t, <1>8 DEF End, Promise!End, vars
<1>9. ASSUME Shutdown PROVE UNCHANGED Promise!vars
  BY <1>9 DEF Shutdown, Close, authVars, rpcVars, Promise!vars
<1>10. ASSUME Tick, UNCHANGED authVars PROVE Promise!Tick
  BY <1>10 DEF Tick, authVars, rpcVars, Promise!Tick
<1>11. ASSUME UNCHANGED serverVars PROVE UNCHANGED Promise!vars
  BY <1>11 DEF serverVars, vars, authVars, rpcVars, Promise!vars
<1>12. CASE \/ \E c \in Calls, m \in Methods, t \in Tokens \cup {NoToken} : Arrive(c, m, t)
            \/ \E c \in Calls : Bypass(c) \/ RejectBearer(c) \/ Decide(c) \/ End(c)
            \/ Tick /\ UNCHANGED authVars
  <2>1. "Unauthenticated" \in Promise!Codes
    BY DEF Promise!Codes, Promise!CallerFacing
  <2> QED
    BY <2>1, <1>1, <1>2, <1>3, <1>7, <1>8, <1>10, <1>12 DEF Promise!Next
<1>13. CASE \E c \in Calls : Introspection(c)
  BY <1>6, <1>13 DEF Promise!Next
<1>14. CASE \/ \E c \in Calls : Authenticate(c) \/ Resolving(c)
            \/ Shutdown \/ UNCHANGED serverVars
  BY <1>4, <1>5, <1>9, <1>11, <1>14
<1> QED
  BY <1>12, <1>13, <1>14, ServerCases

\* The enforcer, with its cache, keeps what AccessControl says: who reaches a
\* handler is allowed to, and whoever is refused is told the code of a reason that
\* applies.  Strangers learn nothing of the method's policies; what a failing
\* introspector of the application's own says of their token, they do learn.
THEOREM Refinement == ServerSpec => KeepsPromise
<1>1. ServerInit => Promise!Init
  BY DEF ServerInit, Init, newCache, Promise!Init
<1> QED
  BY <1>1, StepSimulation, ServerInvariance, PTL DEF ServerSpec, KeepsPromise, Promise!Spec
=============================================================================
