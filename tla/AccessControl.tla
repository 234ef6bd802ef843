--------------------------- MODULE AccessControl ----------------------------
(***************************************************************************)
(* What the server package promises of every RPC, without saying how: who  *)
(* gets to the handler, and what a refusal may reveal and to whom.  The    *)
(* sources are the Config type of src/server/server.go and the decision    *)
(* flow documented on authorize, and for the codes the table documented on *)
(* toGRPCStatus; AuthServer is the code that implements it.                *)
(*                                                                         *)
(* One promise is left out because the code does not keep it: Introspector *)
(* says that every failure of its own is translated to Internal.  Here, as *)
(* in the code, a failure has the code that toGRPCStatus's table gives it  *)
(* (see AuthServer's IntrospectorFailuresAreInternal).                     *)
(***************************************************************************)
EXTENDS Integers, Sequences

CONSTANTS
    Calls,        \* RPC slots
    Tokens,       \* bearer tokens
    NoToken,      \* no usable bearer token
    Exp,          \* expiry of each token, 0 for none
    Methods,      \* fully-qualified methods
    NoMethod,     \* what a free RPC slot calls
    Reflection,   \* those of the reflection service
    Kinds,        \* what the introspector can say of a token
    NilPolicy     \* a nil PolicyFunc

VARIABLES
    clock,      \* the server's clock
    cfg,        \* the configuration the server runs with
    minted,     \* the claims of each token
    said,       \* what the introspector has said of each token so far
    phase,      \* of each RPC: idle, pending, handling or denied
    method,     \* the method it calls
    header,     \* the token it presents, or NoToken
    code        \* the status code of a denied RPC

vars == <<clock, cfg, minted, said, phase, method, header, code>>

-----------------------------------------------------------------------------
\* The status codes an RPC can be refused with.
CallerFacing == {"Unauthenticated", "PermissionDenied", "InvalidArgument",
                 "NotFound", "FailedPrecondition", "ResourceExhausted"}
Codes == CallerFacing \cup {"Internal"}

\* The code for an error of the introspector or of a policy.
StatusOf(e) ==
    CASE e = "ErrUnauthenticated" -> "Unauthenticated"
      [] e = "ErrForbidden"       -> "PermissionDenied"
      [] e \in CallerFacing       -> e
      [] OTHER                    -> "Internal"

\* Everything may proceed, or the method is open to everybody.
Open(m) ==
    \/ ~cfg.RequireAuth
    \/ m \in cfg.PublicMethods
    \/ cfg.AllowUnauthenticatedReflection /\ m \in Reflection

\* The claims the token was minted with are acceptable, and it has not expired.
Acceptable(t) ==
    /\ Exp[t] = 0 \/ clock <= Exp[t]
    /\ cfg.ExpectedIssuer \in {"", minted[t].iss}
    /\ cfg.ExpectedAudience = {} \/ cfg.ExpectedAudience \cap minted[t].aud # {}

Authenticated(t) == t # NoToken /\ "claims" \in said[t] /\ Acceptable(t)

\* The places of the policies that do not find in the claims what they need.
Discontent(ps, t) ==
    {i \in DOMAIN ps : ps[i] # NilPolicy /\ ps[i].needs \notin minted[t].perms}

\* What is held against calling a method with a token, as status codes: a method
\* nobody registered is refused.
Objections(m, t) ==
    IF m \notin DOMAIN cfg.Policies THEN {"PermissionDenied"}
    ELSE {StatusOf(cfg.Policies[m][i].err) : i \in Discontent(cfg.Policies[m], t)}

Authorized(m, t) == Objections(m, t) = {}

\* Why a caller is refused before any policy is asked: there is no token, or the
\* introspector finds it inactive, or its claims are not acceptable; or the
\* introspector has failed on it.
Unwelcome(t) ==
    \/ t = NoToken
    \/ "inactive" \in said[t]
    \/ "claims" \in said[t] /\ ~Acceptable(t)

Failures(t) == IF t = NoToken THEN {} ELSE said[t] \ {"claims", "inactive"}

-----------------------------------------------------------------------------
Init ==
    /\ clock = 1
    /\ said = [t \in Tokens |-> {}]
    /\ phase = [c \in Calls |-> "idle"]
    /\ method = [c \in Calls |-> NoMethod]
    /\ header = [c \in Calls |-> NoToken]
    /\ code = [c \in Calls |-> "OK"]

Ask(c, m, t) ==
    /\ phase[c] = "idle"
    /\ phase'  = [phase EXCEPT ![c] = "pending"]
    /\ method' = [method EXCEPT ![c] = m]
    /\ header' = [header EXCEPT ![c] = t]
    /\ UNCHANGED <<clock, cfg, minted, said, code>>

Say(t, e) ==
    /\ said' = [said EXCEPT ![t] = @ \cup {e}]
    /\ UNCHANGED <<clock, cfg, minted, phase, method, header, code>>

\* The handler runs.
Allow(c) ==
    /\ phase[c] = "pending"
    /\ Open(method[c]) \/ (Authenticated(header[c]) /\ Authorized(method[c], header[c]))
    /\ phase' = [phase EXCEPT ![c] = "handling"]
    /\ UNCHANGED <<clock, cfg, minted, said, method, header, code>>

\* A refusal has a reason, and its code is that reason's: what a policy of the
\* method objects is only for callers who have authenticated.
Deny(c, k) ==
    /\ phase[c] = "pending"
    /\ ~Open(method[c])
    /\ \/ k = "Unauthenticated" /\ Unwelcome(header[c])
       \/ k \in {StatusOf(e) : e \in Failures(header[c])}
       \/ Authenticated(header[c]) /\ k \in Objections(method[c], header[c])
    /\ phase' = [phase EXCEPT ![c] = "denied"]
    /\ code'  = [code EXCEPT ![c] = k]
    /\ UNCHANGED <<clock, cfg, minted, said, method, header>>

End(c) ==
    /\ phase[c] \in {"handling", "denied"}
    /\ phase'  = [phase EXCEPT ![c] = "idle"]
    /\ code'   = [code EXCEPT ![c] = "OK"]
    /\ method' = [method EXCEPT ![c] = NoMethod]
    /\ header' = [header EXCEPT ![c] = NoToken]
    /\ UNCHANGED <<clock, cfg, minted, said>>

Tick ==
    /\ clock' = clock + 1
    /\ UNCHANGED <<cfg, minted, said, phase, method, header, code>>

Next ==
    \/ \E c \in Calls :
          \/ \E m \in Methods, t \in Tokens \cup {NoToken} : Ask(c, m, t)
          \/ Allow(c)
          \/ \E k \in Codes : Deny(c, k)
          \/ End(c)
    \/ \E t \in Tokens, e \in Kinds : Say(t, e)
    \/ Tick

Spec == Init /\ [][Next]_vars
=============================================================================
