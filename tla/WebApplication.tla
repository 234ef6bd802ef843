--------------------------- MODULE WebApplication ---------------------------
(***************************************************************************)
(* EnsureWebApplication (web_application.go): the Web/OIDC application of  *)
(* one name, looked up, and then created or updated, by several operators  *)
(* and beside an administrator who edits it.                               *)
(*                                                                         *)
(* Zitadel is external: the name of an application is unique in a project, *)
(* an update names the application by its id, and one that would change    *)
(* nothing is refused ("No Changes", FailedPrecondition).                  *)
(*                                                                         *)
(* Of a URI the model keeps what the code tells apart: the scheme, whether *)
(* the host is a loopback host, whether letters of scheme or host are upper*)
(* case, and whether it is well formed (not empty, absolute, a host, no    *)
(* wildcard, fragment or user information).  "profile" stands for the      *)
(* fields that are always the same: response type, application type, no    *)
(* client authentication, bearer access tokens, no assertions.             *)
(***************************************************************************)
EXTENDS Integers, Sequences, SequencesExt

CONSTANTS
    Ops,       \* operators
    Requests,  \* [redirects, logout : raw URIs, refresh, devMode : BOOLEAN]
    Edits,     \* what an administrator may make of the application
    None,      \* no application, no request
    Invalid,   \* what normalization returns for a bad input
    Paths,     \* all that comes after the host
    MaxApps    \* bound on the applications Zitadel creates

URIs == [scheme : {"https", "http", "other"}, loopback : BOOLEAN, mixed : BOOLEAN, path : Paths,
         wellFormed : BOOLEAN]

Wants == [redirects : Seq(URIs), logout : Seq(URIs), refresh : BOOLEAN, devMode : BOOLEAN]

Applications ==
    [id : Nat, type : {"oidc", "other"}, redirects : Seq(URIs), logout : Seq(URIs),
     refresh : BOOLEAN, devMode : BOOLEAN, profile : {"PKCE", "weaker"}]

ASSUME WebAssumption ==
    /\ MaxApps \in Nat
    /\ Requests \subseteq Wants /\ Edits \subseteq Applications
    /\ None \notin Wants /\ None \notin Applications

VARIABLES
    project, \* the project exists, so that resolveProject finds it
    apps,    \* applications created so far (identifiers)
    app,     \* None, or [id, type, redirects, logout, refresh, devMode, profile]
    op       \* the operations: [pc, req, want, id, alone]

vars == <<project, apps, app, op>>

Idle == [pc |-> "idle", req |-> None, want |-> None, id |-> 0, alone |-> FALSE]
Active(o) == op[o].pc \notin {"idle", "ok"}

-----------------------------------------------------------------------------
(* Normalization                                                           *)

\* Mutant of normalizeWebURI: development mode opens plain HTTP for any host.
normalizeWebURIAnyHost(u, devMode) ==
    IF u.wellFormed /\ (u.scheme = "https" \/ (u.scheme = "http" /\ devMode))
      THEN [u EXCEPT !.mixed = FALSE] ELSE Invalid

\* Scheme and host are lower-cased; plain HTTP is for loopback hosts of
\* development applications.
normalizeWebURI(u, devMode) ==
    IF u.wellFormed /\ (u.scheme = "https" \/ (u.scheme = "http" /\ devMode /\ u.loopback))
      THEN [u EXCEPT !.mixed = FALSE] ELSE Invalid

\* One bad URI, or two that are the same once normalized, refuse the input;
\* the result is sorted (any fixed order of a set).
normalizeWebURISet(values, devMode) ==
    LET n == [i \in DOMAIN values |-> normalizeWebURI(values[i], devMode)] IN
    IF Invalid \in Range(n) \/ ~IsInjective(n) THEN Invalid ELSE SetToSeq(Range(n))

normalizeWebApplicationInput(in) ==
    LET redirects == normalizeWebURISet(in.redirects, in.devMode)
        logout    == normalizeWebURISet(in.logout, in.devMode)
    IN  IF in.redirects = <<>> \/ redirects = Invalid \/ logout = Invalid THEN Invalid
        ELSE [redirects |-> redirects, logout |-> logout,
              refresh |-> in.refresh, devMode |-> in.devMode]

\* Mutant of sameMembers: the order counts.
sameOrder(left, right) == left = right

\* Mutant of sameMembers: what is there twice counts once.
sameSets(left, right) == Range(left) = Range(right)

\* Equal as multisets.
sameMembers(left, right) == Len(left) = Len(right) /\ ToBag(left) = ToBag(right)

webApplicationMatches(actual, desired) ==
    /\ sameMembers(actual.redirects, desired.redirects)
    /\ sameMembers(actual.logout, desired.logout)
    /\ actual.refresh = desired.refresh
    /\ actual.devMode = desired.devMode
    /\ actual.profile = "PKCE"

\* What a create or update request writes: every field, always the profile.
Written(id, want) ==
    [id |-> id, type |-> "oidc", redirects |-> want.redirects, logout |-> want.logout,
     refresh |-> want.refresh, devMode |-> want.devMode, profile |-> "PKCE"]

\* Mutant of Requested: the update leaves development mode as it is.
RequestedKeepingMode(want) == [Written(app.id, want) EXCEPT !.devMode = app.devMode]

\* newWebApplicationUpdateRequest, applied to the application.
Requested(want) == Written(app.id, want)

-----------------------------------------------------------------------------
Init ==
    /\ project = FALSE
    /\ apps = 0
    /\ app = None
    /\ op = [o \in Ops |-> Idle]

Goto(o, p) ==
    op' = [op EXCEPT ![o] = IF p = "error" THEN Idle ELSE [@ EXCEPT !.pc = p]]

\* Operations in this state of op no longer have Zitadel to themselves.
Company == [o \in Ops |-> [op[o] EXCEPT !.alone = FALSE]]

\* The input is normalized and the project resolved; either may refuse it,
\* which changes nothing.
Start(o, r) ==
    LET want  == normalizeWebApplicationInput(r)
        alone == \A q \in Ops : ~Active(q)
    IN  /\ op[o].pc = "idle" /\ project
        /\ want # Invalid
        /\ op' = [Company EXCEPT ![o] =
                     [Idle EXCEPT !.pc = "lookup", !.req = r, !.want = want, !.alone = alone]]
        /\ UNCHANGED <<project, apps, app>>

\* Mutant of Lookup: the type of the application found is not looked at.
LookupAnyType(o) ==
    /\ op[o].pc = "lookup"
    /\ IF app = None THEN Goto(o, "create")
       ELSE IF webApplicationMatches(app, op[o].want) THEN Goto(o, "finish")
       ELSE op' = [op EXCEPT ![o].pc = "update", ![o].id = app.id]
    /\ UNCHANGED <<project, apps, app>>

\* lookupApplicationByName, and what becomes of the answer.
Lookup(o) ==
    /\ op[o].pc = "lookup"
    /\ IF app = None THEN Goto(o, "create")
       ELSE IF app.type # "oidc" THEN Goto(o, "error")
       ELSE IF webApplicationMatches(app, op[o].want) THEN Goto(o, "finish")
       ELSE op' = [op EXCEPT ![o].pc = "update", ![o].id = app.id]
    /\ UNCHANGED <<project, apps, app>>

\* CreateApplication; the name may have been taken since the lookup.
Create(o) ==
    /\ op[o].pc = "create"
    /\ IF app # None \/ apps = MaxApps
         THEN Goto(o, "error") /\ UNCHANGED <<apps, app>>
         ELSE /\ apps' = apps + 1
              /\ app' = Written(apps + 1, op[o].want)
              /\ Goto(o, "finish")
    /\ UNCHANGED project

\* UpdateOIDCAppConfig of the application that was found; it may be gone, and
\* one that is as requested already (in the same order) is refused.
Update(o) ==
    /\ op[o].pc = "update"
    /\ IF app = None \/ app.id # op[o].id \/ app = Requested(op[o].want)
         THEN Goto(o, "error") /\ UNCHANGED app
         ELSE app' = Requested(op[o].want) /\ Goto(o, "finish")
    /\ UNCHANGED <<project, apps>>

\* The operation returns its result.
Finish(o) == op[o].pc = "finish" /\ Goto(o, "ok") /\ UNCHANGED <<project, apps, app>>

\* A call fails, its answer is lost after it took effect, or the process dies.
Abort(o) == Active(o) /\ Goto(o, "error") /\ UNCHANGED <<project, apps, app>>

\* The operator's next operation.
Again(o) == op[o].pc = "ok" /\ Goto(o, "error") /\ UNCHANGED <<project, apps, app>>

\* The project is created, by Bootstrap for instance.
ProjectCreated == ~project /\ project' = TRUE /\ UNCHANGED <<apps, app, op>>

\* An administrator deletes the application, or creates or edits it by hand.
Edit ==
    /\ project
    /\ \/ app # None /\ app' = None /\ UNCHANGED apps
       \/ \E e \in Edits :
            \/ /\ app # None /\ app.type = e.type
               /\ app' = [e EXCEPT !.id = app.id] /\ UNCHANGED apps
            \/ /\ app = None /\ apps < MaxApps
               /\ apps' = apps + 1 /\ app' = [e EXCEPT !.id = apps + 1]
    /\ op' = Company
    /\ UNCHANGED project

Work(o) == Lookup(o) \/ Create(o) \/ Update(o) \/ Finish(o)

Next ==
    \/ \E o \in Ops : \/ \E r \in Requests : Start(o, r)
                      \/ Work(o) \/ Abort(o) \/ Again(o)
    \/ Edit \/ ProjectCreated

Spec == Init /\ [][Next]_vars

-----------------------------------------------------------------------------
(* Properties                                                              *)

\* The URI as the browser will present it: letters of scheme and host folded.
Folded(u) == [u EXCEPT !.mixed = FALSE]

\* The application is the one that r describes: just the URIs of r, in any
\* order, the grants and the mode, and the profile of a public PKCE client.
Describes(r, a) ==
    /\ a # None /\ a.type = "oidc" /\ a.profile = "PKCE"
    /\ \A f \in {"redirects", "logout"} :
          /\ Range(a[f]) = {Folded(u) : u \in Range(r[f])}
          /\ Len(a[f]) = Len(r[f])
    /\ a.refresh = r.refresh /\ a.devMode = r.devMode

\* Once an EnsureWebApplication that had no company has succeeded, the
\* application is what was asked for, whatever others left behind before.
EnsuredIsInPlace ==
    \A o \in Ops : op[o].pc = "ok" /\ op[o].alone => Describes(op[o].req, app)

\* "drift produces one exact update call", "reordered equivalent URI input is
\* idempotent": an update is sent only if the application that was read is not
\* what is asked for, and is sent to no other application.
UpdatesOnlyDrift ==
    [][\A o \in Ops : Update(o) /\ op[o].alone => ~Describes(op[o].req, app)]_vars

\* A URI that may be registered: HTTPS, or plain HTTP to the developer's own
\* machine if the application is marked as a development application.
Safe(u, a) == u.scheme = "https" \/ (u.scheme = "http" /\ u.loopback /\ a.devMode)

\* Whatever operators race with each other and with edits, what one of them
\* writes is safe as a whole: no URI of one operator ends up beside the
\* development mode of another, and no application of another kind is changed.
WritesAreSafe ==
    [][\A o \in Ops : Work(o) /\ app' # app =>
          /\ app # None => app.type = "oidc"
          /\ app'.profile = "PKCE"
          /\ \A u \in Range(app'.redirects) \cup Range(app'.logout) : Safe(u, app')]_vars

-----------------------------------------------------------------------------
(* The inductive invariant                                                 *)

TypeOK ==
    /\ project \in BOOLEAN
    /\ apps \in Nat
    /\ app \in Applications \cup {None}
    /\ op \in [Ops -> [pc : {"idle", "lookup", "create", "update", "finish", "ok"},
                       req : Requests \cup {None}, want : Wants \cup {None},
                       id : Nat, alone : BOOLEAN]]

\* An operation at work wants what its request comes to once normalized.
WantInv ==
    \A o \in Ops : op[o].pc # "idle" =>
        /\ op[o].req \in Requests
        /\ op[o].want = normalizeWebApplicationInput(op[o].req)
        /\ op[o].want # Invalid

\* An identifier never means two applications, not even one that is gone and
\* still in somebody's hands; so what is updated is what was looked at.
IdInv ==
    /\ app # None => app.id <= apps
    /\ \A o \in Ops : op[o].pc = "update" =>
          /\ op[o].id <= apps
          /\ app # None /\ app.id = op[o].id => app.type = "oidc"

\* An operation without company has Zitadel to itself, and what it has seen of
\* the application still holds.
AloneInv ==
    \A o \in Ops : op[o].alone =>
        /\ \A q \in Ops \ {o} : ~Active(q) /\ ~op[q].alone
        /\ op[o].pc = "create" => app = None
        /\ op[o].pc = "update" => /\ app # None /\ app.id = op[o].id
                                  /\ ~webApplicationMatches(app, op[o].want)
        /\ op[o].pc \in {"finish", "ok"} => Describes(op[o].req, app)

IInv == TypeOK /\ WantInv /\ IdInv /\ AloneInv

-----------------------------------------------------------------------------
\* HUMAN_LOGIN_IMPLEMENTATION_PLAN.md: "Web/OIDC creation is idempotent and
\* drift is reconciled".  An operator who comes to repair what somebody else
\* has just repaired does not fail for it.
RepairIsIdempotent ==
    [][\A o \in Ops : Update(o) /\ app # None /\ Describes(op[o].req, app)
          => op'[o].pc = "finish"]_vars
=============================================================================
