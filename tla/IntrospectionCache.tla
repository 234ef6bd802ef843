------------------------- MODULE IntrospectionCache -------------------------
(***************************************************************************)
(* The introspection cache of the server package (src/server/cache.go):    *)
(* concurrent calls of resolve over the mutex-protected map "entries", the *)
(* eviction queue "order" and the singleflight group, with the introspector*)
(* (Zitadel) as an external party that answers late, fails, or is cut off  *)
(* by the cancellation of the leader's own RPC.                            *)
(*                                                                         *)
(* One step is one critical section or one read of the clock.  Time is the *)
(* variable "clock" and passes between any two steps.  A token stands for  *)
(* its SHA-256 key: hashToken is taken to be injective.                    *)
(***************************************************************************)
EXTENDS Integers, Sequences, FiniteSets, Functions

CONSTANTS
    Calls,              \* goroutines that run resolve, one per RPC in flight
    Tokens,             \* the bearer tokens presented
    Exp,                \* Exp[t]: the token's expiry; 0 is Go's zero time
    TTL,                \* introspectionCache.ttl (Config.CacheTTL)
    MaxSize,            \* introspectionCache.maxSize
    TransportErrorTTL,  \* transportErrorTTL
    OwnErrors,          \* what else an Introspector may fail with, see Kinds
    MaxTime,            \* bound of the clock
    NoCall,             \* no flight for a token
    NoToken             \* what an idle goroutine holds

ASSUME CacheAssumption ==
    /\ Exp \in [Tokens -> Nat]
    /\ TTL \in Nat
    /\ MaxSize \in Nat
    /\ TransportErrorTTL \in Nat \ {0}
    /\ MaxTime \in Nat \ {0}
    /\ NoCall \notin Calls
    /\ NoToken \notin Tokens
    /\ OwnErrors \cap {"claims", "inactive", "unavailable", "cancelled", "ErrUnauthenticated"} = {}

VARIABLES
    clock,    \* what time.Now() returns
    entries,  \* introspectionCache.entries: a function on the cached tokens
    order,    \* introspectionCache.order
    closed,   \* Close has set entries to the nil map
    crashed,  \* the process has died in a panic
    flight,   \* sf: the leading call of each token's flight
    pc,       \* where each call is in resolve
    tok,      \* its token
    now,      \* the last value it read from the clock
    out,      \* the outcome it holds
    via       \* how it got it: from the cache, by leading or by sharing

callVars  == <<pc, tok, now, out, via>>
cacheVars == <<entries, order>>
vars      == <<clock, entries, order, closed, crashed, flight, callVars>>

-----------------------------------------------------------------------------
(* Outcomes of an introspection.  "inactive" wraps ErrUnauthenticated;     *)
(* "unavailable" (timeout, 5xx, network) and "cancelled" (the context of   *)
(* the leader's RPC is done) do not, and are nothing else by which an      *)
(* error is told apart.  An Introspector of the application may also fail  *)
(* with an error that wraps ErrForbidden, or with a gRPC status: these are *)
(* OwnErrors, a status being named by its code.  The cache keeps an error  *)
(* as it is.  asOf is when the outcome came about.                         *)

Kinds   == {"claims", "inactive", "unavailable", "cancelled"} \cup OwnErrors
Outcome == [kind: Kinds, asOf: Nat]
NoOutcome == [kind |-> "unavailable", asOf |-> 0]

cachedEntry == [out: Outcome, expiresAt: Nat]

IsUnauthenticated(o) == o.kind = "inactive"

PCs     == {"idle", "lookup", "do", "recheck", "introspect", "answered",
            "publish", "wait", "done"}
Leading == {"recheck", "introspect", "answered", "publish"}

-----------------------------------------------------------------------------
(* The data structure.                                                     *)

disabled == TTL <= 0 \/ MaxSize <= 0

\* Mutant of Hit: the expiry of the entry is not looked at.
HitExpired(t, n) == ~disabled /\ t \in DOMAIN entries

\* What get finds for a token at a time read earlier.
Hit(t, n) ==
    /\ ~disabled
    /\ t \in DOMAIN entries
    /\ ~(n > entries[t].expiresAt)

Without(f, t) == Restrict(f, DOMAIN f \ {t})

\* get deletes an expired entry and leaves its position in order behind.
get(t, n) ==
    /\ entries' = IF ~disabled /\ t \in DOMAIN entries /\ n > entries[t].expiresAt
                    THEN Without(entries, t)
                    ELSE entries
    /\ UNCHANGED order

\* The positions of order whose key is still in the map.
LivePositions == {i \in DOMAIN order : order[i] \in DOMAIN entries}
FirstLive     == CHOOSE i \in LivePositions : \A j \in LivePositions : i <= j

\* evictOldestLocked pops order up to and including the first live key.
evictedOrder   == IF LivePositions = {} THEN <<>>
                  ELSE SubSeq(order, FirstLive + 1, Len(order))
evictedEntries == IF LivePositions = {} THEN entries
                  ELSE Without(entries, order[FirstLive])

\* Mutant of AtCapacity: off by one.
AtCapacityLate(t) ==
    /\ t \notin DOMAIN entries
    /\ Cardinality(DOMAIN entries) > MaxSize

AtCapacity(t) ==
    /\ t \notin DOMAIN entries
    /\ Cardinality(DOMAIN entries) >= MaxSize

Stored(f, t, e) == [k \in DOMAIN f \cup {t} |-> IF k = t THEN e ELSE f[k]]

put(t, e) ==
    /\ entries' = Stored(IF AtCapacity(t) THEN evictedEntries ELSE entries, t, e)
    /\ order' = IF t \in DOMAIN entries THEN order
                ELSE Append(IF AtCapacity(t) THEN evictedOrder ELSE order, t)

Min2(a, b) == IF a < b THEN a ELSE b

\* Mutant of boundTTL: the token's own expiry does not bound the entry.
unboundTTL(n, exp) == TTL

boundTTL(n, exp) ==
    IF exp = 0 THEN TTL ELSE IF exp - n <= 0 THEN 0 ELSE Min2(exp - n, TTL)

\* The lifetime resolve gives an outcome; 0 for claims means "do not store".
ttlOf(t, n, o) ==
    IF o.kind = "claims"        THEN boundTTL(n, Exp[t])
    ELSE IF IsUnauthenticated(o) THEN TTL
    ELSE Min2(TransportErrorTTL, TTL)

\* Whether resolve calls put, and put does not return early.
Stores(t, n, o) == ~disabled /\ (o.kind = "claims" => ttlOf(t, n, o) > 0)

-----------------------------------------------------------------------------
(* resolve                                                                 *)

newCache ==
    /\ clock = 1
    /\ entries = <<>>
    /\ order = <<>>
    /\ closed = FALSE
    /\ crashed = FALSE
    /\ flight = [t \in Tokens |-> NoCall]
    /\ pc = [c \in Calls |-> "idle"]
    /\ tok = [c \in Calls |-> NoToken]
    /\ now = [c \in Calls |-> 0]
    /\ out = [c \in Calls |-> NoOutcome]
    /\ via = [c \in Calls |-> "none"]

\* resolve is entered: the key is computed and the clock is read.
Resolve(c, t) ==
    /\ pc[c] = "idle"
    /\ pc'  = [pc EXCEPT ![c] = "lookup"]
    /\ tok' = [tok EXCEPT ![c] = t]
    /\ now' = [now EXCEPT ![c] = clock]
    /\ UNCHANGED <<clock, cacheVars, closed, crashed, flight, out, via>>

\* Mutant of Lookup: the error of a cached entry is not returned.
LookupDroppingError(c) ==
    /\ pc[c] = "lookup"
    /\ get(tok[c], now[c])
    /\ IF Hit(tok[c], now[c])
         THEN /\ pc'  = [pc EXCEPT ![c] = "done"]
              /\ out' = [out EXCEPT ![c] = [entries[tok[c]].out EXCEPT !.kind = "claims"]]
              /\ via' = [via EXCEPT ![c] = "cache"]
         ELSE /\ pc'  = [pc EXCEPT ![c] = "do"]
              /\ UNCHANGED <<out, via>>
    /\ UNCHANGED <<clock, closed, crashed, flight, tok, now>>

\* The first get: a hit is the answer, a miss goes on to singleflight.
Lookup(c) ==
    /\ pc[c] = "lookup"
    /\ get(tok[c], now[c])
    /\ IF Hit(tok[c], now[c])
         THEN /\ pc'  = [pc EXCEPT ![c] = "done"]
              /\ out' = [out EXCEPT ![c] = entries[tok[c]].out]
              /\ via' = [via EXCEPT ![c] = "cache"]
         ELSE /\ pc'  = [pc EXCEPT ![c] = "do"]
              /\ UNCHANGED <<out, via>>
    /\ UNCHANGED <<clock, closed, crashed, flight, tok, now>>

\* Mutant of Do: without singleflight every call leads.
DoAlone(c) ==
    /\ pc[c] = "do"
    /\ pc'     = [pc EXCEPT ![c] = "recheck"]
    /\ flight' = [flight EXCEPT ![tok[c]] = c]
    /\ now'    = [now EXCEPT ![c] = clock]
    /\ UNCHANGED <<clock, cacheVars, closed, crashed, tok, out, via>>

\* sf.Do: join the flight of the token, or lead a new one and read the clock.
Do(c) ==
    /\ pc[c] = "do"
    /\ IF flight[tok[c]] # NoCall
         THEN /\ pc' = [pc EXCEPT ![c] = "wait"]
              /\ UNCHANGED <<flight, now>>
         ELSE /\ pc'     = [pc EXCEPT ![c] = "recheck"]
              /\ flight' = [flight EXCEPT ![tok[c]] = c]
              /\ now'    = [now EXCEPT ![c] = clock]
    /\ UNCHANGED <<clock, cacheVars, closed, crashed, tok, out, via>>

\* Mutant of Recheck: the flight introspects without a second look.
RecheckNothing(c) ==
    /\ pc[c] = "recheck"
    /\ pc'  = [pc EXCEPT ![c] = "introspect"]
    /\ UNCHANGED <<clock, cacheVars, closed, crashed, flight, tok, now, out, via>>

\* The second get, inside the flight: a hit is what the flight returns.
Recheck(c) ==
    /\ pc[c] = "recheck"
    /\ get(tok[c], now[c])
    /\ IF Hit(tok[c], now[c])
         THEN /\ pc'  = [pc EXCEPT ![c] = "publish"]
              /\ out' = [out EXCEPT ![c] = entries[tok[c]].out]
              /\ via' = [via EXCEPT ![c] = "cache"]
         ELSE /\ pc'  = [pc EXCEPT ![c] = "introspect"]
              /\ UNCHANGED <<out, via>>
    /\ UNCHANGED <<clock, closed, crashed, flight, tok, now>>

\* The introspector's outcome for the flight led by c, settled at this moment.
Introspected(c, kind) ==
    /\ pc[c] = "introspect"
    /\ pc'  = [pc EXCEPT ![c] = "answered"]
    /\ out' = [out EXCEPT ![c] = [kind |-> kind, asOf |-> clock]]
    /\ via' = [via EXCEPT ![c] = "leader"]
    /\ UNCHANGED <<clock, cacheVars, closed, crashed, flight, tok, now>>

\* Zitadel answers.  Its clock is its own, so it may call a token active that
\* has expired by ours.
Answer(c) == \E kind \in {"claims", "inactive"} : Introspected(c, kind)

\* The round trip fails or runs into the HTTP timeout, or the Introspector has
\* an error of its own.
Fail(c) == \E kind \in {"unavailable"} \cup OwnErrors : Introspected(c, kind)

\* The context of the leading RPC is cancelled or past its deadline.
Cancel(c) == Introspected(c, "cancelled")

\* The entry's lifetime is counted from before the round trip.
newEntry(c) == [out       |-> out[c],
                expiresAt |-> now[c] + ttlOf(tok[c], now[c], out[c])]

\* The outcome is stored.  After Close, assigning into the nil map panics.
Store(c) ==
    LET stores == Stores(tok[c], now[c], out[c])
    IN  /\ pc[c] = "answered"
        /\ pc' = [pc EXCEPT ![c] = "publish"]
        /\ IF stores /\ ~closed THEN put(tok[c], newEntry(c)) ELSE UNCHANGED cacheVars
        /\ crashed' = (stores /\ closed)
        /\ UNCHANGED <<clock, closed, flight, tok, now, out, via>>

\* Mutant of Publish: the flight ends and its followers are not told.
PublishToLeader(c) ==
    /\ pc[c] = "publish"
    /\ flight' = [flight EXCEPT ![tok[c]] = NoCall]
    /\ pc'  = [pc EXCEPT ![c] = "done"]
    /\ UNCHANGED <<clock, cacheVars, closed, crashed, tok, now, out, via>>

\* singleflight forgets the flight and hands its outcome to every follower.
Publish(c) ==
    LET followers == {d \in Calls : pc[d] = "wait" /\ tok[d] = tok[c]}
    IN  /\ pc[c] = "publish"
        /\ flight' = [flight EXCEPT ![tok[c]] = NoCall]
        /\ pc'  = [d \in Calls |-> IF d \in followers \cup {c} THEN "done" ELSE pc[d]]
        /\ out' = [d \in Calls |-> IF d \in followers THEN out[c] ELSE out[d]]
        /\ via' = [d \in Calls |-> IF d \in followers THEN "shared" ELSE via[d]]
        /\ UNCHANGED <<clock, cacheVars, closed, crashed, tok, now>>

\* resolve's caller takes the result; the goroutine is free for another RPC.
Return(c) ==
    /\ pc[c] = "done"
    /\ pc'  = [pc EXCEPT ![c] = "idle"]
    /\ tok' = [tok EXCEPT ![c] = NoToken]
    /\ now' = [now EXCEPT ![c] = 0]
    /\ out' = [out EXCEPT ![c] = NoOutcome]
    /\ via' = [via EXCEPT ![c] = "none"]
    /\ UNCHANGED <<clock, cacheVars, closed, crashed, flight>>

\* Close may be called while calls are in flight; it drops both collections.
Close ==
    /\ closed' = TRUE
    /\ entries' = <<>>
    /\ order' = <<>>
    /\ UNCHANGED <<clock, crashed, flight, callVars>>

Tick ==
    /\ clock < MaxTime
    /\ clock' = clock + 1
    /\ UNCHANGED <<cacheVars, closed, crashed, flight, callVars>>

-----------------------------------------------------------------------------
\* A step of call c that its goroutine takes on its own.
Step(c) ==
    Lookup(c) \/ Do(c) \/ Recheck(c) \/ Store(c) \/ Publish(c)

\* A step of the introspector on behalf of call c.
Upstream(c) == Answer(c) \/ Fail(c) \/ Cancel(c)

\* The process is gone; nothing happens any more.
Dead == crashed /\ UNCHANGED vars

Next ==
    \/ /\ ~crashed
       /\ \/ \E c \in Calls : \/ \E t \in Tokens : Resolve(c, t)
                              \/ Step(c)
                              \/ Upstream(c)
                              \/ Return(c)
          \/ Close
          \/ Tick
    \/ Dead

Init == newCache

Spec == Init /\ [][Next]_vars

-----------------------------------------------------------------------------
(* Properties                                                              *)

\* Every variable has its type, and the parts that are reset together agree:
\* an idle goroutine holds nothing (Return), and a closed cache is empty
\* (Close drops entries and order).
TypeOK ==
    /\ clock \in 1..MaxTime
    /\ DOMAIN entries \subseteq Tokens
    /\ \A t \in DOMAIN entries : entries[t] \in cachedEntry
    /\ order \in Seq(Tokens)
    /\ closed \in BOOLEAN
    /\ crashed \in BOOLEAN
    /\ flight \in [Tokens -> Calls \cup {NoCall}]
    /\ pc \in [Calls -> PCs]
    /\ tok \in [Calls -> Tokens \cup {NoToken}]
    /\ now \in [Calls -> 0..MaxTime]
    /\ out \in [Calls -> Outcome]
    /\ via \in [Calls -> {"none", "cache", "leader", "shared"}]
    /\ \A c \in Calls : pc[c] = "idle" <=> tok[c] = NoToken
    /\ closed => entries = <<>> /\ order = <<>>

\* The cache never holds more than MaxSize entries, whatever calls race
\* between lazy expiry in get and eviction in put.
SizeBounded == Cardinality(DOMAIN entries) <= MaxSize

\* Every cached key is still queued for eviction, so evictOldestLocked can
\* always make room; lazy expiry only leaves extra positions behind.
OrderCovers == DOMAIN entries \subseteq Range(order)

\* A token has at most one introspection under way (resolve: "at most once
\* per (token, in-flight window)").
OneFlight ==
    \A c, d \in Calls :
        pc[c] \in Leading /\ pc[d] \in Leading /\ tok[c] = tok[d] => c = d

\* A call waiting in singleflight has a leader that still has to publish for
\* its token, so it cannot be left behind.
NoOrphan ==
    \A c \in Calls :
        pc[c] = "wait" => \E d \in Calls : pc[d] \in Leading /\ tok[d] = tok[c]

\* The introspector is only asked about a token the cache has no usable entry
\* for, from the second look inside the flight until the flight is over.
IntrospectsOnlyUncached ==
    \A c \in Calls : pc[c] \in {"introspect", "answered"} => tok[c] \notin DOMAIN entries

\* An entry is usable for at most TTL after the introspector settled it, at
\* most TransportErrorTTL if it records a failure of the round trip, and
\* never beyond the token's own expiry.
EntryBounds ==
    \A t \in DOMAIN entries :
        LET e == entries[t] IN
        /\ e.expiresAt <= e.out.asOf + TTL
        /\ e.out.kind \notin {"claims", "inactive"}
              => e.expiresAt <= e.out.asOf + TransportErrorTTL
        /\ e.out.kind = "claims" /\ Exp[t] # 0 => e.expiresAt <= Exp[t]

\* A call that did not share another call's flight never gets an outcome
\* older than TTL when it read the clock.
BoundedStaleness ==
    \A c \in Calls :
        pc[c] = "done" /\ via[c] # "shared" => now[c] <= out[c].asOf + TTL

\* "never serves a token past its own expiry": claims served from the cache
\* belong to a token not expired when the call read the clock.
NotPastExpiry ==
    \A c \in Calls :
        /\ pc[c] = "done" /\ via[c] = "cache"
        /\ out[c].kind = "claims" /\ Exp[tok[c]] # 0
        => now[c] <= Exp[tok[c]]

\* Reads do not go back in time: once a call has its outcome, neither the
\* cache nor an answered flight of the token holds an older one, so no later
\* call can be told something that was superseded.
NoRegression ==
    \A c \in Calls : pc[c] = "done" =>
        /\ tok[c] \in DOMAIN entries => out[c].asOf <= entries[tok[c]].out.asOf
        /\ \A d \in Calls :
              pc[d] \in {"answered", "publish"} /\ tok[d] = tok[c]
                => out[c].asOf <= out[d].asOf

-----------------------------------------------------------------------------
(* The inductive invariant: the properties above and what they rest on     *)

\* sf.m names exactly the leading calls, and only followers wait.
FlightInv ==
    /\ \A c \in Calls : pc[c] \in Leading => flight[tok[c]] = c
    /\ \A c \in Calls : pc[c] = "wait" => flight[tok[c]] # NoCall
    /\ \A t \in Tokens : flight[t] # NoCall
          => pc[flight[t]] \in Leading /\ tok[flight[t]] = t

\* Nothing is dated after the present, and a leader read the clock before the
\* introspector settled its outcome.
TimeInv ==
    /\ \A c \in Calls : now[c] <= clock /\ out[c].asOf <= clock
    /\ \A c \in Calls : pc[c] = "answered" => now[c] <= out[c].asOf /\ via[c] = "leader"
    /\ \A t \in DOMAIN entries : entries[t].out.asOf <= clock

\* The bounds on results, from the moment the leader has one to publish.
HeldInv ==
    \A c \in Calls : pc[c] \in {"publish", "done"} =>
        /\ via[c] # "shared" => now[c] <= out[c].asOf + TTL
        /\ via[c] = "cache" /\ out[c].kind = "claims" /\ Exp[tok[c]] # 0
              => now[c] <= Exp[tok[c]]

\* A flight about to publish has just what the cache holds, if anything.
PublishInv ==
    \A c \in Calls : pc[c] = "publish" /\ tok[c] \in DOMAIN entries
        => entries[tok[c]].out = out[c]

\* The map is finite, and empty when caching is off.
MapInv ==
    /\ IsFiniteSet(DOMAIN entries)
    /\ disabled => DOMAIN entries = {}

IInv ==
    /\ TypeOK
    /\ MapInv /\ SizeBounded /\ OrderCovers
    /\ FlightInv /\ IntrospectsOnlyUncached
    /\ TimeInv /\ EntryBounds /\ HeldInv
    /\ PublishInv /\ NoRegression

-----------------------------------------------------------------------------
(* What comments and the README say of the cache, and the code does not do *)

\* evictOldestLocked "drops the oldest live entry": the key that put evicts
\* was stored before every other key in the cache.  The place where a key was
\* last queued is its last position in order.
LastQueued(t) == CHOOSE i \in DOMAIN order : /\ order[i] = t
                                             /\ \A j \in DOMAIN order : order[j] = t => j <= i
EvictsOldest ==
    [][\A c \in Calls : Store(c) =>
          \A t \in DOMAIN entries \ DOMAIN entries' :
             \A u \in DOMAIN entries : LastQueued(t) <= LastQueued(u)]_vars

\* get: the "order slice is cleaned lazily on next put; cost is bounded".
\* However long the cache runs, order holds no more than MaxSize positions
\* plus one left-over for each token ever presented.
OrderBounded == Len(order) <= MaxSize + Cardinality(Tokens)

\* README: "A failed introspection (timeout, 5xx) is cached for 1 second".
\* The stored failure is usable for that long after it happened.
FailureIsCached ==
    \A t \in DOMAIN entries :
        entries[t].out.kind = "unavailable"
          => entries[t].expiresAt >= entries[t].out.asOf + Min2(TransportErrorTTL, TTL)

\* README: "Transport errors are NOT cached."
TransportErrorsNotCached ==
    \A t \in DOMAIN entries : entries[t].out.kind # "unavailable"

\* Close is a "no-op today": closing the cache does not bring down a process
\* that still has calls in flight.
CloseIsHarmless == ~crashed

\* README: a change "takes effect at most CacheTTL later": no call, sharing or
\* not, is answered from a state of the token more than TTL before it started.
ChangeWithinTTL ==
    \A c \in Calls : pc[c] = "done" => now[c] <= out[c].asOf + TTL
=============================================================================
