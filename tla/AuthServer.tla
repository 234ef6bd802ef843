----------------------------- MODULE AuthServer -----------------------------
(***************************************************************************)
(* The server package: New validates a configuration and wires the enforcer*)
(* to the introspection cache; each RPC runs authorize (server.go,         *)
(* interceptor.go).  The cache's actions are those of IntrospectionCache;  *)
(* here an RPC arrives, is let through, refused or authenticated, and is   *)
(* decided when resolve returns.                                           *)
(*                                                                         *)
(* Unary and stream RPCs differ only in what the handler is given, so both *)
(* are the same slots: authorize runs once, before the handler.            *)
(***************************************************************************)
EXTENDS IntrospectionCache

CONSTANTS
    Configs,          \* the configurations New may be called with
    ClaimSets,        \* the claims Zitadel may have minted into a token
    CacheMaxEntries,  \* Config.CacheMaxEntries
    Methods,          \* fully-qualified methods
    Reflection,       \* the methods under /grpc.reflection.v1. and .v1alpha.
    NoMethod,         \* what a free RPC slot calls
    NilPolicy         \* a nil PolicyFunc

VARIABLES
    cfg,        \* the enforcer's configuration
    minted,     \* minted[t]: the claims the introspector reports for token t
    said,       \* history: the outcomes the introspector has given for each token
    method,     \* info.FullMethod of each RPC
    header,     \* the bearer token of each RPC, NoToken if none is well formed
    phase,      \* idle, arrived, resolving, handling or denied
    code        \* the status code of a denied RPC

rpcVars  == <<method, header, phase, code>>
authVars == <<cfg, minted, said, rpcVars>>
serverVars == <<vars, authVars>>

\* The tokens the introspector has reported active so far.
confirmed == {t \in Tokens : "claims" \in said[t]}

-----------------------------------------------------------------------------
(* Configuration                                                           *)

effectiveMaxEntries ==
    IF TTL <= 0 THEN 0 ELSE IF CacheMaxEntries > 0 THEN CacheMaxEntries ELSE 10000

ASSUME ServerAssumption ==
    /\ CacheMaxEntries \in Nat
    /\ MaxSize = effectiveMaxEntries
    /\ Reflection \subseteq Methods
    /\ NoMethod \notin Methods
    /\ \A k \in Configs : \A m \in DOMAIN k.Policies :
          k.Policies[m] \in Seq(Range(k.Policies[m]))

\* The default introspector needs an issuer, credentials and https, unless
\* plaintext is asked for.  A custom introspector needs nothing.
buildDefaultIntrospector(k) ==
    /\ k.Issuer # "" /\ k.ClientID # "" /\ k.ClientSecret # ""
    /\ k.Insecure \/ k.Issuer = "https"

\* Mutant of validateMethodSets: the overlap is not looked for.
validateNothing(k) == TRUE

\* A method is not both public and guarded by policies.
validateMethodSets(k) == k.PublicMethods \cap DOMAIN k.Policies = {}

\* The configurations New accepts.
New(k) ==
    \/ ~k.RequireAuth
    \/ /\ k.Introspector = "custom" \/ buildDefaultIntrospector(k)
       /\ validateMethodSets(k)

-----------------------------------------------------------------------------
(* Errors and status codes                                                 *)

\* Status codes that are passed on to the caller as they are.
CallerFacing == {"Unauthenticated", "PermissionDenied", "InvalidArgument",
                 "NotFound", "FailedPrecondition", "ResourceExhausted"}

\* Mutant of toGRPCStatus: whatever is not recognised goes out as it is.
toGRPCStatusLeaky(err) ==
    CASE err = "ErrUnauthenticated" -> "Unauthenticated"
      [] err = "ErrForbidden"       -> "PermissionDenied"
      [] OTHER                      -> err

\* An error wraps one of the sentinels, is a gRPC status (named by its code),
\* or is anything else.
toGRPCStatus(err) ==
    CASE err = "ErrUnauthenticated" -> "Unauthenticated"
      [] err = "ErrForbidden"       -> "PermissionDenied"
      [] err \in CallerFacing       -> err
      [] OTHER                      -> "Internal"

\* The error resolve returns for an outcome other than claims: the one the
\* introspector gave, untouched.
errOf(o) == IF IsUnauthenticated(o) THEN "ErrUnauthenticated" ELSE o.kind

-----------------------------------------------------------------------------
(* authorize                                                               *)

isPublic(m) ==
    \/ m \in cfg.PublicMethods
    \/ cfg.AllowUnauthenticatedReflection /\ m \in Reflection

audienceMatches(tokenAud, expected) == tokenAud \cap expected # {}

\* Mutant of expired: the expiry is compared with the clock resolve read.
expiredAtResolve(c) == Exp[tok[c]] # 0 /\ now[c] > Exp[tok[c]]

\* "Expiry is rechecked": the clock is read again after resolve.
expired(c) == Exp[tok[c]] # 0 /\ clock > Exp[tok[c]]

\* A policy asks for a permission and fails with an error of its own.
denies(p, claims) == p # NilPolicy /\ p.needs \notin claims.perms

\* The first policy that denies.
firstDenial(ps, claims) ==
    CHOOSE i \in DOMAIN ps : /\ denies(ps[i], claims)
                             /\ \A j \in 1..(i-1) : ~denies(ps[j], claims)

\* What the registered policies make of the claims.
policyCode(ps, claims) ==
    IF \E i \in DOMAIN ps : denies(ps[i], claims)
      THEN toGRPCStatus(ps[firstDenial(ps, claims)].err)
      ELSE "OK"

\* What authorize makes of what resolve returned: "OK" or a status code.
decision(c) ==
    LET claims == minted[tok[c]] IN
    IF out[c].kind # "claims"                  THEN toGRPCStatus(errOf(out[c]))
    ELSE IF expired(c)                         THEN "Unauthenticated"
    ELSE IF cfg.ExpectedIssuer # "" /\ claims.iss # cfg.ExpectedIssuer
                                               THEN "Unauthenticated"
    ELSE IF cfg.ExpectedAudience # {} /\ ~audienceMatches(claims.aud, cfg.ExpectedAudience)
                                               THEN "Unauthenticated"
    ELSE IF method[c] \notin DOMAIN cfg.Policies THEN "PermissionDenied"
    ELSE policyCode(cfg.Policies[method[c]], claims)

-----------------------------------------------------------------------------
(* RPCs                                                                    *)

ServerInit ==
    /\ Init
    /\ cfg \in {k \in Configs : New(k)}
    /\ minted \in [Tokens -> ClaimSets]
    /\ said = [t \in Tokens |-> {}]
    /\ method = [c \in Calls |-> NoMethod]
    /\ header = [c \in Calls |-> NoToken]
    /\ phase = [c \in Calls |-> "idle"]
    /\ code = [c \in Calls |-> "OK"]

\* An RPC arrives; t is what bearer.FromIncomingMetadata makes of its metadata.
Arrive(c, m, t) ==
    /\ phase[c] = "idle"
    /\ method' = [method EXCEPT ![c] = m]
    /\ header' = [header EXCEPT ![c] = t]
    /\ phase'  = [phase EXCEPT ![c] = "arrived"]
    /\ UNCHANGED <<vars, cfg, minted, said, code>>

\* noopUnary and noopStream, or a public method: the handler runs.
Bypass(c) ==
    /\ phase[c] = "arrived"
    /\ ~cfg.RequireAuth \/ isPublic(method[c])
    /\ phase' = [phase EXCEPT ![c] = "handling"]
    /\ UNCHANGED <<vars, cfg, minted, said, method, header, code>>

\* No well-formed bearer token.
RejectBearer(c) ==
    /\ phase[c] = "arrived"
    /\ cfg.RequireAuth /\ ~isPublic(method[c])
    /\ header[c] = NoToken
    /\ phase' = [phase EXCEPT ![c] = "denied"]
    /\ code'  = [code EXCEPT ![c] = "Unauthenticated"]
    /\ UNCHANGED <<vars, cfg, minted, said, method, header>>

\* authorize calls resolve.
Authenticate(c) ==
    /\ phase[c] = "arrived"
    /\ cfg.RequireAuth /\ ~isPublic(method[c])
    /\ header[c] # NoToken
    /\ Resolve(c, header[c])
    /\ phase' = [phase EXCEPT ![c] = "resolving"]
    /\ UNCHANGED <<cfg, minted, said, method, header, code>>

\* resolve returns and the rest of authorize runs.
Decide(c) ==
    LET d == decision(c) IN
    /\ phase[c] = "resolving"
    /\ Return(c)
    /\ phase' = [phase EXCEPT ![c] = IF d = "OK" THEN "handling" ELSE "denied"]
    /\ code'  = [code EXCEPT ![c] = d]
    /\ UNCHANGED <<cfg, minted, said, method, header>>

\* The handler, or the refusal, is done.
End(c) ==
    /\ phase[c] \in {"handling", "denied"}
    /\ phase'  = [phase EXCEPT ![c] = "idle"]
    /\ code'   = [code EXCEPT ![c] = "OK"]
    /\ method' = [method EXCEPT ![c] = NoMethod]
    /\ header' = [header EXCEPT ![c] = NoToken]
    /\ UNCHANGED <<vars, cfg, minted, said>>

\* Inside resolve.
Resolving(c) ==
    /\ Step(c)
    /\ UNCHANGED authVars

\* The introspector vouches for the token, rejects it, or fails.  Those of this
\* package (introspector.go, introspector_sdk.go) have no errors of their own.
Introspection(c) ==
    /\ Upstream(c)
    /\ out'[c].kind \in OwnErrors => cfg.Introspector = "custom"
    /\ said' = [said EXCEPT ![tok[c]] = @ \cup {out'[c].kind}]
    /\ UNCHANGED <<cfg, minted, rpcVars>>

\* The Closer that New returned; without authentication it does nothing.
Shutdown ==
    /\ cfg.RequireAuth
    /\ Close
    /\ UNCHANGED authVars

RPCStep(c) == Bypass(c) \/ RejectBearer(c) \/ Authenticate(c) \/ Resolving(c) \/ Decide(c)

ServerNext ==
    \/ /\ ~crashed
       /\ \/ \E c \in Calls : \/ \E m \in Methods, t \in Tokens \cup {NoToken} : Arrive(c, m, t)
                              \/ RPCStep(c)
                              \/ Introspection(c)
                              \/ End(c)
          \/ Shutdown
          \/ Tick /\ UNCHANGED authVars
    \/ Dead /\ UNCHANGED authVars

ServerSpec == ServerInit /\ [][ServerNext]_serverVars

\* A goroutine that can run does, and the introspector answers or times out
\* (defaultHTTPTimeout); nothing forces time, new RPCs or Shutdown.
ServerFairness ==
    \A c \in Calls : /\ WF_serverVars(~crashed /\ RPCStep(c))
                     /\ WF_serverVars(~crashed /\ Introspection(c))

FairServerSpec == ServerSpec /\ ServerFairness

-----------------------------------------------------------------------------
(* Properties                                                              *)

\* Types, and the agreement of the enforcer with the cache: an RPC is inside
\* resolve exactly while authorize waits for it, with the token it presented.
ServerTypeOK ==
    /\ TypeOK
    /\ cfg \in Configs /\ minted \in [Tokens -> ClaimSets] /\ said \in [Tokens -> SUBSET Kinds]
    /\ method \in [Calls -> Methods \cup {NoMethod}]
    /\ header \in [Calls -> Tokens \cup {NoToken}]
    /\ phase \in [Calls -> {"idle", "arrived", "resolving", "handling", "denied"}]
    /\ code \in [Calls -> CallerFacing \cup {"Internal", "OK"}]
    /\ \A c \in Calls :
          /\ phase[c] = "resolving" <=> pc[c] # "idle"
          /\ phase[c] = "resolving" => tok[c] = header[c]

\* A handler that runs without authentication serves a method that nobody
\* guarded with policies: a guarded method is never served as public.
GuardedNeverAnonymous ==
    \A c \in Calls :
        /\ cfg.RequireAuth /\ phase[c] = "handling"
        /\ method[c] \in DOMAIN cfg.Policies \ Reflection
        => header[c] \in confirmed

\* Everything in the cache that reads as claims was vouched for by the
\* introspector, and so was every such result on its way to a caller.
ClaimsAreConfirmed ==
    /\ \A t \in DOMAIN entries : entries[t].out.kind = "claims" => t \in confirmed
    /\ \A c \in Calls : pc[c] # "idle" /\ out[c].kind = "claims" => tok[c] \in confirmed

\* The invariant these rest on.  The configuration was validated.
Validated == cfg.RequireAuth => validateMethodSets(cfg)

\* Whatever the cache holds, and whatever a call has been told, the introspector
\* has said of that very token; a call that has been told nothing holds nothing
\* that its caller could take for an answer.
Told == {"answered", "publish", "done"}
HeardInv ==
    /\ \A t \in DOMAIN entries : entries[t].out.kind \in said[t]
    /\ \A c \in Calls : IF pc[c] \in Told THEN out[c].kind \in said[tok[c]]
                                          ELSE out[c] = NoOutcome

\* resolve is only called for RPCs that need it, and only a refusal has a code.
Undecided ==
    \A c \in Calls :
        /\ phase[c] = "resolving" => cfg.RequireAuth /\ ~isPublic(method[c])
        /\ phase[c] # "denied" => code[c] = "OK"

ServerIInv ==
    /\ IInv /\ ServerTypeOK
    /\ Validated /\ HeardInv /\ Undecided /\ GuardedNeverAnonymous

\* The enforcer implements what the package promises: see AccessControl.
\* Arrival is Ask, and an RPC in resolve is still pending.
Promise == INSTANCE AccessControl
             WITH phase <- [c \in Calls |->
                              IF phase[c] \in {"arrived", "resolving"} THEN "pending" ELSE phase[c]]
KeepsPromise == Promise!Spec

\* Every RPC that arrives reaches its handler or is refused.
EveryRPCDecided ==
    \A c \in Calls : phase[c] = "arrived" ~> (phase[c] \in {"handling", "denied"} \/ crashed)

-----------------------------------------------------------------------------
(* What comments say of the enforcer, and the code does not do             *)

\* toGRPCStatus: an error of the introspector is "a server-side failure, not
\* the client's fault".  An RPC is refused as Internal only for a failure of
\* the introspection, not because another client's RPC was cancelled.
InternalIsServerSide ==
    [][\A c \in Calls : Decide(c) /\ code'[c] = "Internal" /\ out[c].kind = "cancelled"
          => via[c] = "leader"]_serverVars

\* Introspector: a failure that is not an inactive token is returned "untouched
\* (the interceptor fails closed and translates them to codes.Internal)".  A
\* token of which the introspector has said nothing but failures is refused with
\* Internal, whatever the failures were.
IntrospectorFailuresAreInternal ==
    \A c \in Calls :
        /\ phase[c] = "denied" /\ header[c] \in Tokens
        /\ said[header[c]] \cap {"claims", "inactive"} = {}
        => code[c] = "Internal"

\* PolicyFunc: apart from the two sentinels, "Any other error" is Internal.
OtherErrorsInternal ==
    [][\A c \in Calls : Decide(c) => code'[c] \in {"OK", "Unauthenticated", "PermissionDenied", "Internal"}]_serverVars
=============================================================================
