---------------------------- MODULE ClientToken ----------------------------
(***************************************************************************)
(* The dialling side (client.go): New makes one token source for all RPCs  *)
(* of a connection, unary and streaming; every RPC takes its bearer token  *)
(* from it before it is sent.                                              *)
(*                                                                         *)
(* The source is external (oauth2.ReuseTokenSource over a client           *)
(* credentials source): a mutex, held while a token is requested, and the  *)
(* last token, which is reused until Margin before what the client takes   *)
(* for its expiry.  It knows the lifetime context given to New and no      *)
(* context of an RPC.  External too are the token endpoint, the network,   *)
(* and the server that finds a token expired.                              *)
(***************************************************************************)
EXTENDS Integers

CONSTANTS
    RPCs,      \* slots for RPCs
    Lifetimes, \* lifetimes the endpoint gives its tokens
    Margin,    \* how long before its expiry a token is no longer reused
    MaxTime, MaxTokens, \* bounds
    Nobody

ASSUME ClientAssumption ==
    /\ Lifetimes \subseteq Nat \ {0} /\ Margin \in Nat /\ MaxTime \in Nat /\ MaxTokens \in Nat
    /\ Nobody \notin RPCs

VARIABLES
    mode,      \* what New made: "none" yet, "refused", "noop" or "source"
    cancelled, \* the lifetime context given to New has ended
    now,
    made,      \* tokens issued so far
    last,      \* last[s]: the token source s keeps
    holder,    \* holder[s]: the RPC that holds the mutex of s
    answer,    \* answer[r]: the token on its way from the endpoint to r
    rpc        \* rpc[r]: [pc, kind, token, at, over]

vars == <<mode, cancelled, now, made, last, holder, answer, rpc>>

NoToken == [id |-> 0, issued |-> 0, received |-> 0, life |-> 0]

Kinds == {"unary", "stream"}
Idle  == [pc |-> "idle", kind |-> "unary", token |-> NoToken, at |-> 0, over |-> FALSE]

\* Mutant of sourceOf: every interceptor has a source of its own.
sourceOfEach(kind) == kind

\* unaryAttachToken and streamAttachToken are given the same source.
sourceOf(kind) == "src"
Sources == {sourceOf(k) : k \in Kinds}

\* Mutant of lifetime: tokens are requested under a context that never ends.
lifetimeBackground == FALSE

\* The context of token requests is done.
lifetime == cancelled

\* The source takes a token for good (oauth2's Token.Valid).
Valid(t) == t # NoToken /\ now <= t.received + t.life - Margin

\* Mutant of reuse: the first token is kept for ever.
reuseAlways(t) == t # NoToken

\* A token that is kept is handed out again until it expires.
reuse(t) == Valid(t)

-----------------------------------------------------------------------------
Init ==
    /\ mode = "none" /\ cancelled = FALSE /\ now = 0 /\ made = 0
    /\ last = [s \in Sources |-> NoToken]
    /\ holder = [s \in Sources |-> Nobody]
    /\ answer = [r \in RPCs |-> NoToken]
    /\ rpc = [r \in RPCs |-> Idle]

\* New: pass-through interceptors, an error, or a source that has no token yet.
New(AttachToken, complete) ==
    /\ mode = "none"
    /\ mode' = IF ~AttachToken THEN "noop" ELSE IF complete THEN "source" ELSE "refused"
    /\ UNCHANGED <<cancelled, now, made, last, holder, answer, rpc>>

\* An RPC begins; with pass-through interceptors it is sent as it is.
Call(r, kind) ==
    /\ rpc[r].pc = "idle" /\ mode \in {"noop", "source"}
    /\ rpc' = [rpc EXCEPT ![r] = [Idle EXCEPT !.pc = IF mode = "noop" THEN "sent" ELSE "waiting",
                                              !.kind = kind]]
    /\ UNCHANGED <<mode, cancelled, now, made, last, holder, answer>>

\* r has the token t; the time is noted.
Handed(r, t) == rpc' = [rpc EXCEPT ![r].pc = "handed", ![r].token = t, ![r].at = now]

\* src.Token() gets the mutex: a good token is handed out, or one is requested
\* with the mutex held.
Token(r) ==
    LET s == sourceOf(rpc[r].kind) IN
    /\ rpc[r].pc = "waiting" /\ holder[s] = Nobody
    /\ IF reuse(last[s]) THEN Handed(r, last[s]) /\ UNCHANGED holder
       ELSE /\ rpc' = [rpc EXCEPT ![r].pc = "requesting"]
            /\ holder' = [holder EXCEPT ![s] = r]
    /\ UNCHANGED <<mode, cancelled, now, made, last, answer>>

\* The endpoint issues a token; a request is not sent once the context is done.
Issue(r, life) ==
    /\ rpc[r].pc = "requesting" /\ answer[r] = NoToken /\ ~lifetime
    /\ made < MaxTokens /\ made' = made + 1
    /\ answer' = [answer EXCEPT ![r] = [id |-> made + 1, issued |-> now, received |-> now, life |-> life]]
    /\ UNCHANGED <<mode, cancelled, now, last, holder, rpc>>

\* The answer arrives; its lifetime is counted from now on.
Receive(r) ==
    LET s == sourceOf(rpc[r].kind)
        t == [answer[r] EXCEPT !.received = now]
    IN  /\ rpc[r].pc = "requesting" /\ answer[r] # NoToken
        /\ Handed(r, t)
        /\ last' = [last EXCEPT ![s] = t]
        /\ holder' = [holder EXCEPT ![s] = Nobody]
        /\ answer' = [answer EXCEPT ![r] = NoToken]
        /\ UNCHANGED <<mode, cancelled, now, made>>

\* The request fails, with or without the endpoint having issued a token; the
\* RPC fails with it, and the next one requests again.
RequestFails(r) ==
    LET s == sourceOf(rpc[r].kind) IN
    /\ rpc[r].pc = "requesting"
    /\ rpc' = [rpc EXCEPT ![r] = [Idle EXCEPT !.pc = "failed"]]
    /\ holder' = [holder EXCEPT ![s] = Nobody]
    /\ answer' = [answer EXCEPT ![r] = NoToken]
    /\ UNCHANGED <<mode, cancelled, now, made, last>>

\* withBearer puts the token into the outgoing metadata and the RPC is sent,
\* or not, if its own context is done by now.
withBearer(r) ==
    /\ rpc[r].pc = "handed"
    /\ rpc' = [rpc EXCEPT ![r].pc = IF rpc[r].over THEN "failed" ELSE "sent"]
    /\ UNCHANGED <<mode, cancelled, now, made, last, holder, answer>>

\* The RPC reaches the server, for which the token has expired or not.
Expired(t) == t # NoToken /\ now >= t.issued + t.life
Arrive(r) ==
    /\ rpc[r].pc = "sent"
    /\ rpc' = [rpc EXCEPT ![r].pc = IF Expired(rpc[r].token) THEN "expired" ELSE "arrived"]
    /\ UNCHANGED <<mode, cancelled, now, made, last, holder, answer>>

\* The context of the RPC ends; nothing looks at it before the RPC is sent.
ContextEnds(r) ==
    /\ rpc[r].pc \in {"waiting", "requesting", "handed"} /\ ~rpc[r].over
    /\ rpc' = [rpc EXCEPT ![r].over = TRUE]
    /\ UNCHANGED <<mode, cancelled, now, made, last, holder, answer>>

\* The slot is free for another RPC.
Again(r) ==
    /\ rpc[r].pc \in {"failed", "arrived", "expired"}
    /\ rpc' = [rpc EXCEPT ![r] = Idle]
    /\ UNCHANGED <<mode, cancelled, now, made, last, holder, answer>>

\* The application ends the context it gave to New.
Cancel ==
    /\ ~cancelled /\ cancelled' = TRUE
    /\ UNCHANGED <<mode, now, made, last, holder, answer, rpc>>

\* Time passes; an RPC that has arrived is judged at once.
Tick ==
    /\ now < MaxTime /\ now' = now + 1
    /\ \A r \in RPCs : rpc[r].pc \notin {"arrived", "expired"}
    /\ UNCHANGED <<mode, cancelled, made, last, holder, answer, rpc>>

Next ==
    \/ \E AttachToken, complete \in BOOLEAN : New(AttachToken, complete)
    \/ \E r \in RPCs :
          \/ \E kind \in Kinds : Call(r, kind)
          \/ \E life \in Lifetimes : Issue(r, life)
          \/ Token(r) \/ Receive(r) \/ RequestFails(r) \/ withBearer(r)
          \/ Arrive(r) \/ ContextEnds(r) \/ Again(r)
    \/ Cancel \/ Tick

Spec == Init /\ [][Next]_vars

\* The mutex is fair to every RPC that waits for it, goroutines go on, and a
\* request is given up once its context is done.  The endpoint may never answer.
FairSpec ==
    /\ Spec
    /\ \A r \in RPCs : /\ SF_vars(Token(r))
                       /\ WF_vars(RequestFails(r) /\ lifetime)
                       /\ WF_vars(withBearer(r))

-----------------------------------------------------------------------------
(* Properties                                                              *)

\* A token that the server finds expired took Margin or longer on its way, from
\* the endpoint to the client and from the client to the server, or was never
\* meant to live longer than that: reuse alone hands out no expired token.
ExpiredOnlyIfSlow ==
    \A r \in RPCs : rpc[r].pc = "expired" =>
        LET t == rpc[r].token IN
        (t.received - t.issued) + (now - rpc[r].at) >= Margin \/ t.life <= Margin

\* The RPCs of a client share one token, however they race for it and whatever
\* their kind: no second one is requested while the first is good.
OneTokenInUse ==
    \A r, q \in RPCs : Valid(rpc[r].token) /\ Valid(rpc[q].token)
        => rpc[r].token = rpc[q].token

\* Ending the lifetime context releases every RPC that waits for a token, even
\* if the endpoint never answers and others keep calling.
CancelReleases ==
    \A r \in RPCs :
        rpc[r].pc \in {"waiting", "requesting"} /\ cancelled
            ~> rpc[r].pc \notin {"waiting", "requesting"}

-----------------------------------------------------------------------------
(* The inductive invariant                                                 *)

Tokens == [id : Nat, issued : Nat, received : Nat, life : Nat]

TypeOK ==
    /\ mode \in {"none", "refused", "noop", "source"}
    /\ cancelled \in BOOLEAN /\ now \in Nat /\ made \in Nat
    /\ last \in [Sources -> Tokens]
    /\ holder \in [Sources -> RPCs \cup {Nobody}]
    /\ answer \in [RPCs -> Tokens]
    /\ rpc \in [RPCs -> [pc : {"idle", "waiting", "requesting", "handed", "sent",
                               "failed", "arrived", "expired"},
                         kind : Kinds, token : Tokens, at : Nat, over : BOOLEAN]]

\* The mutex belongs to the one RPC that requests a token, and it does because
\* the last token is no longer good.
HolderInv ==
    \A r \in RPCs : rpc[r].pc = "requesting" =>
        /\ holder[sourceOf(rpc[r].kind)] = r
        /\ ~Valid(last[sourceOf(rpc[r].kind)])

\* A token that is still good is the last one.
LastInv == \A r \in RPCs : Valid(rpc[r].token) => rpc[r].token = last[sourceOf(rpc[r].kind)]

\* A token was issued, received and handed out in this order, and handed out
\* when it came or while it was good.
TimeInv ==
    /\ \A r \in RPCs : answer[r].issued <= now
    /\ \A s \in Sources : last[s].issued <= last[s].received /\ last[s].received <= now
    /\ \A r \in RPCs : LET t == rpc[r].token IN
          /\ t.issued <= t.received /\ t.received <= rpc[r].at /\ rpc[r].at <= now
          /\ t # NoToken => rpc[r].at = t.received \/ rpc[r].at <= t.received + t.life - Margin
          /\ rpc[r].pc = "expired" => t # NoToken /\ now >= t.issued + t.life

IInv == TypeOK /\ HolderInv /\ LastInv /\ TimeInv

-----------------------------------------------------------------------------
\* What would be expected of any RPC, and src.Token(), which takes no context,
\* does not give: an RPC whose context has ended is over.
DeadlineReleases ==
    \A r \in RPCs : rpc[r].over ~> ~rpc[r].over \/ rpc[r].pc \notin {"waiting", "requesting"}
=============================================================================
