---------------------------- MODULE Provisioning ----------------------------
(***************************************************************************)
(* Onboard, OnboardHuman, ResetHumanPassword and Revoke of the admin       *)
(* package (onboard.go, human.go, revoke.go, metadata.go), run by several  *)
(* operators at a time against one Zitadel.  Every remote call that changes*)
(* something, or whose answer is acted on later, is a step; an operation   *)
(* may end in an error or die before any step (Abort), so also after a call*)
(* that took effect and whose answer was lost.                             *)
(*                                                                         *)
(* Zitadel is an external party: it stores users, grants, metadata and     *)
(* credentials, gives out identifiers, refuses a user name that is taken,  *)
(* and answers NotFound for what is gone.                                  *)
(***************************************************************************)
EXTENDS Integers, FiniteSets, FiniteSetsExt

CONSTANTS
    Ops,           \* operators: each runs one operation at a time
    Requests,      \* what they may ask for: [kind, name, roles, access, password],
                   \* with the project of their Config and how it says so (by)
    Usernames,
    Projects,      \* one project, and metadata namespace, per service
    NoProject,     \* the empty project id
    None,          \* no metadata, no password, no request
    PageSize,      \* authorizations in the page that ListAuthorizations returns
    PartialDelete, \* deleting several metadata keys deletes those that exist
    Foreign,       \* authorizations of other users, there from the start
    MaxId          \* bound on the identifiers Zitadel gives out

Keys == {"key", "policy"}

ASSUME ProvisioningAssumption ==
    /\ PageSize \in Nat /\ MaxId \in Nat
    /\ PartialDelete \in BOOLEAN
    /\ NoProject \notin Projects
    /\ None \notin Requests
    /\ \A r \in Requests :
          /\ r.kind \in {"Onboard", "OnboardHuman", "Reset", "RevokeGrants", "DeleteUser"}
          /\ r.name \in Usernames /\ r.project \in Projects
          /\ r.access = [k \in Keys |-> r.access[k]]
    /\ IsFiniteSet(Foreign)
    /\ \A a \in Foreign : /\ a.id \in 1..MaxId /\ a.user \notin 0..MaxId /\ a.project \in Projects
                          /\ \A b \in Foreign : a.id = b.id => a = b

VARIABLES
    exists,    \* the projects that exist
    ids,       \* identifiers given out so far
    user,      \* user[n]: the id of the user with that name, 0 if there is none
    human,     \* ids of human users
    auths,     \* authorizations: [id, user, project, roles]
    metadata,  \* of each user id and service: [key |-> KeyAccess, policy |-> PolicyAccess]
    password,  \* of each user id
    secret,    \* of each user id: the identity of its client secret, 0 for none
    op,        \* the operations
    delivered  \* history: <<user id, client secret>> returned to an operator

zitadel == <<user, human, auths, metadata, password, secret>>
vars    == <<exists, ids, zitadel, op, delivered>>

Ids      == 1..MaxId
NoAccess == [k \in Keys |-> None]
Onboards == {"Onboard", "OnboardHuman"}
Revokes  == {"RevokeGrants", "DeleteUser"}

Exists(u)    == \E n \in Usernames : user[n] = u
AuthsOf(u)   == {a \in auths : a.user = u}
InProject(S, p) == {a \in S : a.project = p}
RolesOf(S)   == UNION {a.roles : a \in S}
Idle         == [pc |-> "idle", req |-> None, uid |-> 0, pid |-> NoProject,
                 secret |-> 0, found |-> {}, alone |-> FALSE]

\* The bound: Zitadel refuses to create anything more.
Full == ids = MaxId

\* The operation of o is under way.
Active(o) == op[o].pc \notin {"idle", "ok"}

\* The operation of o goes on at p; after an error it is over, with no result.
Goto(o, p) ==
    op' = [op EXCEPT ![o] = IF p = "error" THEN Idle ELSE [@ EXCEPT !.pc = p]]

-----------------------------------------------------------------------------
Init ==
    /\ exists \in SUBSET Projects
    /\ ids = Max({a.id : a \in Foreign} \cup {0})
    /\ user = [n \in Usernames |-> 0]
    /\ human = {}
    /\ auths = Foreign
    /\ metadata = [u \in Ids |-> [p \in Projects |-> NoAccess]]
    /\ password = [u \in Ids |-> None]
    /\ secret = [u \in Ids |-> 0]
    /\ op = [o \in Ops |-> Idle]
    /\ delivered = {}

\* resolveProject: with neither id nor name it takes the only project there is,
\* which is then the one the request stands for.
\* A project that is not found is an error, except that for a name
\* findProjectByName returns nil, and the nil project's id is empty.  Only
\* onboarding needs it.
found(r) == IF r.by = "sole" THEN exists = {r.project} ELSE r.project \in exists
resolveProject(r) ==
    IF r.kind \notin Onboards \/ found(r) THEN r.project
    ELSE IF r.by = "name" THEN NoProject ELSE None

\* An operation starts: its input is valid and organization and project are
\* resolved (one that is refused here has changed nothing).  From now on every
\* operation under way has company.
Start(o, r) ==
    LET pid   == resolveProject(r)
        alone == \A q \in Ops : ~Active(q)
    IN  /\ op[o].pc = "idle"
        /\ pid # None
        /\ op' = [q \in Ops |->
                    IF q = o THEN [Idle EXCEPT !.pc = "lookup", !.req = r, !.pid = pid,
                                               !.alone = alone]
                    ELSE [op[q] EXCEPT !.alone = FALSE]]
        /\ UNCHANGED <<exists, ids, zitadel, delivered>>

\* Mutant of Lookup: a secret is minted for a user that exists as well.
LookupAndMint(o) ==
    LET r == op[o].req
        u == user[r.name]
        p == IF u = 0 THEN CASE r.kind \in Onboards -> "create"
                             [] r.kind = "Reset"    -> "error"
                             [] r.kind \in Revokes  -> "ok"
             ELSE CASE r.kind = "Onboard"      -> IF u \in human THEN "error" ELSE "addSecret"
                    [] r.kind = "OnboardHuman" -> IF u \in human THEN "list" ELSE "error"
                    [] r.kind = "Reset"        -> IF u \in human THEN "setPassword" ELSE "error"
                    [] r.kind \in Revokes      -> "list"
    IN  /\ op[o].pc = "lookup"
        /\ op' = [op EXCEPT ![o] = IF p = "error" THEN Idle ELSE [@ EXCEPT !.pc = p, !.uid = u]]
        /\ UNCHANGED <<exists, ids, zitadel, delivered>>

\* lookupUserByUsername, and what each operation makes of the answer.
Lookup(o) ==
    LET r == op[o].req
        u == user[r.name]
        p == IF u = 0 THEN CASE r.kind \in Onboards -> "create"
                             [] r.kind = "Reset"    -> "error"
                             [] r.kind \in Revokes  -> "ok"
             ELSE CASE r.kind = "Onboard"      -> IF u \in human THEN "error" ELSE "list"
                    [] r.kind = "OnboardHuman" -> IF u \in human THEN "list" ELSE "error"
                    [] r.kind = "Reset"        -> IF u \in human THEN "setPassword" ELSE "error"
                    [] r.kind \in Revokes      -> "list"
    IN  /\ op[o].pc = "lookup"
        /\ op' = [op EXCEPT ![o] = IF p = "error" THEN Idle ELSE [@ EXCEPT !.pc = p, !.uid = u]]
        /\ UNCHANGED <<exists, ids, zitadel, delivered>>

\* Mutant of CreateUser: the password is written also to a user found there.
CreateOrReuse(o) ==
    LET r == op[o].req
        u == user[r.name]
    IN  /\ op[o].pc = "create"
        /\ IF u # 0
             THEN /\ op' = [op EXCEPT ![o].pc = "list", ![o].uid = u]
                  /\ password' = IF r.kind = "OnboardHuman" THEN [password EXCEPT ![u] = r.password]
                                 ELSE password
                  /\ UNCHANGED <<ids, user, human>>
             ELSE /\ ~Full
                  /\ ids'  = ids + 1
                  /\ user' = [user EXCEPT ![r.name] = ids + 1]
                  /\ human' = IF r.kind = "OnboardHuman" THEN human \cup {ids + 1} ELSE human
                  /\ op' = [op EXCEPT ![o].pc = "get", ![o].uid = ids + 1]
                  /\ UNCHANGED password
        /\ UNCHANGED <<exists, auths, metadata, secret, delivered>>

\* CreateUser.  Somebody else may have taken the name since the lookup.
CreateUser(o) ==
    LET r == op[o].req
        u == ids + 1
    IN  /\ op[o].pc = "create"
        /\ IF user[r.name] # 0 \/ Full
             THEN /\ Goto(o, "error")
                  /\ UNCHANGED <<ids, user, human, password>>
             ELSE /\ ids'  = u
                  /\ user' = [user EXCEPT ![r.name] = u]
                  /\ IF r.kind = "OnboardHuman"
                       THEN /\ human' = human \cup {u}
                            /\ password' = [password EXCEPT ![u] = r.password]
                       ELSE UNCHANGED <<human, password>>
                  /\ op' = [op EXCEPT ![o].pc = "get", ![o].uid = u]
        /\ UNCHANGED <<exists, auths, metadata, secret, delivered>>

\* GetUserByID of the user just created.
GetUser(o) ==
    /\ op[o].pc = "get"
    /\ Goto(o, IF ~Exists(op[o].uid) THEN "error"
               ELSE IF op[o].req.kind = "Onboard" THEN "addSecret" ELSE "list")
    /\ UNCHANGED <<exists, ids, zitadel, delivered>>

\* AddSecret replaces whatever secret the user had.
AddSecret(o) ==
    LET u == op[o].uid IN
    /\ op[o].pc = "addSecret"
    /\ IF ~Exists(u) \/ Full
         THEN Goto(o, "error") /\ UNCHANGED <<ids, secret>>
         ELSE /\ ids' = ids + 1
              /\ secret' = [secret EXCEPT ![u] = ids + 1]
              /\ op' = [op EXCEPT ![o].pc = "list", ![o].secret = ids + 1]
    /\ UNCHANGED <<exists, user, human, auths, metadata, password, delivered>>

\* Mutant of Reconciled: holding more than was asked is good enough.
ReconciledAtLeast(S, roles) == roles \subseteq RolesOf(S) /\ Cardinality(S) <= 1

\* sameRoleSet, and not more than one authorization.
Reconciled(S, roles) == RolesOf(S) = roles /\ Cardinality(S) <= 1

\* What ListAuthorizations may return: one page, of everybody's.
Pages == IF Cardinality(auths) <= PageSize THEN {auths} ELSE kSubset(PageSize, auths)

\* Mutant of List: the project is not looked at.
ListAllProjects(o) ==
    /\ op[o].pc = "list"
    /\ \E page \in Pages :
          LET mine == {a \in page : a.user = op[o].uid}
          IN  op' = [op EXCEPT
                ![o].found = mine,
                ![o].pc = IF op[o].req.kind \in Onboards /\ Reconciled(mine, op[o].req.roles)
                            THEN "setMetadata" ELSE "delete"]
    /\ UNCHANGED <<exists, ids, zitadel, delivered>>

\* ListAuthorizations, filtered by user; onboarding also by project.
List(o) ==
    /\ op[o].pc = "list"
    /\ \E page \in Pages :
          LET mine == {a \in page : /\ a.user = op[o].uid
                                    /\ op[o].req.kind \in Onboards => a.project = op[o].pid}
          IN  op' = [op EXCEPT
                ![o].found = mine,
                ![o].pc = IF op[o].req.kind \in Onboards /\ Reconciled(mine, op[o].req.roles)
                            THEN "setMetadata" ELSE "delete"]
    /\ UNCHANGED <<exists, ids, zitadel, delivered>>

\* DeleteAuthorization of one of those found; gone already is as good.
DeleteAuthorization(o) ==
    /\ op[o].pc = "delete"
    /\ \E a \in op[o].found :
          /\ auths' = {b \in auths : b.id # a.id}
          /\ op' = [op EXCEPT ![o].found = @ \ {a}]
    /\ UNCHANGED <<exists, ids, user, human, metadata, password, secret, delivered>>

\* Mutant of Deleted: revocation stops if there is nothing left to ask for.
DeletedThenDone(o) ==
    /\ op[o].pc = "delete" /\ op[o].found = {}
    /\ Goto(o, IF op[o].req.kind = "RevokeGrants" THEN "finish"
               ELSE IF op[o].req.kind = "DeleteUser" THEN "deleteMetadata"
               ELSE IF op[o].req.roles = {} THEN "setMetadata" ELSE "grant")
    /\ UNCHANGED <<exists, ids, zitadel, delivered>>

\* All found are deleted.
Deleted(o) ==
    /\ op[o].pc = "delete" /\ op[o].found = {}
    /\ Goto(o, IF op[o].req.kind \in Revokes THEN "deleteMetadata"
               ELSE IF op[o].req.roles = {} THEN "setMetadata" ELSE "grant")
    /\ UNCHANGED <<exists, ids, zitadel, delivered>>

\* CreateAuthorization, which needs the user and the project.
CreateAuthorization(o) ==
    LET u == op[o].uid IN
    /\ op[o].pc = "grant"
    /\ IF ~Exists(u) \/ op[o].pid = NoProject \/ Full
         THEN Goto(o, "error") /\ UNCHANGED <<ids, auths>>
         ELSE /\ ids' = ids + 1
              /\ auths' = auths \cup {[id |-> ids + 1, user |-> u, project |-> op[o].pid,
                                       roles |-> op[o].req.roles]}
              /\ Goto(o, "setMetadata")
    /\ UNCHANGED <<exists, user, human, metadata, password, secret, delivered>>

\* SetUserMetadata with the kinds of access that are not empty; no call if
\* both are.
SetMetadata(o) ==
    LET u == op[o].uid
        r == op[o].req
        toSet == {k \in Keys : r.access[k] # None}
    IN  /\ op[o].pc = "setMetadata"
        /\ IF toSet # {} /\ ~Exists(u)
             THEN Goto(o, "error") /\ UNCHANGED metadata
             ELSE /\ metadata' = [metadata EXCEPT ![u][r.project] =
                        [k \in Keys |-> IF k \in toSet THEN r.access[k] ELSE @[k]]]
                  /\ Goto(o, IF toSet = Keys THEN "finish" ELSE "deleteMetadata")
        /\ UNCHANGED <<exists, ids, user, human, auths, password, secret, delivered>>

\* DeleteUserMetadata of the keys not asked for; NotFound is not an error.
DeleteMetadata(o) ==
    LET u == op[o].uid
        r == op[o].req
        keys == {k \in Keys : r.kind \in Revokes \/ r.access[k] = None}
        all  == \A k \in keys : metadata[u][r.project][k] # None
    IN  /\ op[o].pc = "deleteMetadata"
        /\ metadata' = IF all \/ PartialDelete
             THEN [metadata EXCEPT ![u][r.project] =
                        [k \in Keys |-> IF k \in keys THEN None ELSE @[k]]]
             ELSE metadata
        /\ Goto(o, IF r.kind = "DeleteUser" THEN "deleteUser" ELSE "finish")
        /\ UNCHANGED <<exists, ids, user, human, auths, password, secret, delivered>>

\* DeleteUser takes the user's grants, metadata and credentials along.
DeleteUser(o) ==
    LET u == op[o].uid IN
    /\ op[o].pc = "deleteUser"
    /\ user' = [n \in Usernames |-> IF user[n] = u THEN 0 ELSE user[n]]
    /\ human' = human \ {u}
    /\ auths' = auths \ AuthsOf(u)
    /\ metadata' = [metadata EXCEPT ![u] = [p \in Projects |-> NoAccess]]
    /\ password' = [password EXCEPT ![u] = None]
    /\ secret' = [secret EXCEPT ![u] = 0]
    /\ Goto(o, "finish")
    /\ UNCHANGED <<exists, ids, delivered>>

\* SetPassword of ResetHumanPassword.
SetPassword(o) ==
    LET u == op[o].uid IN
    /\ op[o].pc = "setPassword"
    /\ IF Exists(u)
         THEN Goto(o, "finish") /\ password' = [password EXCEPT ![u] = op[o].req.password]
         ELSE Goto(o, "error") /\ UNCHANGED password
    /\ UNCHANGED <<exists, ids, user, human, auths, metadata, secret, delivered>>

\* The operation returns its result, a new client secret included.
Finish(o) ==
    /\ op[o].pc = "finish"
    /\ op' = [op EXCEPT ![o] = [Idle EXCEPT !.pc = "ok", !.req = op[o].req, !.alone = op[o].alone]]
    /\ delivered' = delivered \cup (IF op[o].secret = 0 THEN {} ELSE {<<op[o].uid, op[o].secret>>})
    /\ UNCHANGED <<exists, ids, zitadel>>

\* A call fails, its answer is lost, or the operator's process dies.
Abort(o) ==
    /\ Active(o)
    /\ Goto(o, "error")
    /\ UNCHANGED <<exists, ids, zitadel, delivered>>

\* The operator has taken the result and may start another operation.
Again(o) ==
    /\ op[o].pc = "ok"
    /\ op' = [op EXCEPT ![o] = Idle]
    /\ UNCHANGED <<exists, ids, zitadel, delivered>>

\* Bootstrap, or somebody else, creates a project.
ProjectCreated(p) ==
    /\ p \notin exists
    /\ exists' = exists \cup {p}
    /\ UNCHANGED <<ids, zitadel, op, delivered>>

\* A step inside the operation of o.
Work(o) ==
    \/ Lookup(o) \/ CreateUser(o) \/ GetUser(o) \/ AddSecret(o)
    \/ List(o) \/ DeleteAuthorization(o) \/ Deleted(o) \/ CreateAuthorization(o)
    \/ SetMetadata(o) \/ DeleteMetadata(o) \/ DeleteUser(o) \/ SetPassword(o) \/ Finish(o)

Next ==
    \/ \E o \in Ops : \/ \E r \in Requests : Start(o, r)
                      \/ Work(o) \/ Abort(o) \/ Again(o)
    \/ \E p \in Projects : ProjectCreated(p)

Spec == Init /\ [][Next]_vars

-----------------------------------------------------------------------------
(* Properties                                                              *)

PCs == {"idle", "lookup", "create", "get", "addSecret", "list", "delete", "grant", "setMetadata",
        "deleteMetadata", "deleteUser", "setPassword", "finish", "ok"}

\* Types; credentials fit the kind of user that holds them: client secrets
\* belong to machine users and passwords to humans, whoever runs what when.
TypeOK ==
    /\ exists \subseteq Projects /\ ids \in 0..MaxId
    /\ user \in [Usernames -> 0..MaxId] /\ human \subseteq Ids
    /\ \A a \in auths : a.id \in Ids /\ a.project \in Projects
    /\ \A o \in Ops : op[o].pc \in PCs /\ op[o].uid \in 0..MaxId
    /\ \A u \in Ids : /\ secret[u] # 0 => u \notin human
                      /\ password[u] # None => u \in human

Succeeded(o, kinds) == op[o].pc = "ok" /\ op[o].req.kind \in kinds

\* What r asks for is in place: the user has the right kind, holds in the
\* project just the roles asked for, by at most one authorization, and just the
\* metadata asked for.
GrantsApplied(r) ==
    LET held == InProject(AuthsOf(user[r.name]), r.project)
    IN  RolesOf(held) = r.roles /\ Cardinality(held) <= 1
Applied(r) ==
    LET u == user[r.name] IN
    /\ u # 0 /\ (u \in human <=> r.kind = "OnboardHuman")
    /\ GrantsApplied(r)
    /\ metadata[u][r.project] = r.access

\* Onboarding is a reconciliation: once an operation that had no company has
\* succeeded, just what it asked for is in place, whatever earlier operations
\* did or left half done.
AppliesWhatWasAsked ==
    \A o \in Ops : Succeeded(o, Onboards) /\ op[o].alone => Applied(op[o].req)

\* The user has no grant and no metadata of the service, or is gone.
Revoked(r) ==
    LET u == user[r.name] IN
    u # 0 => /\ r.kind = "RevokeGrants"
             /\ AuthsOf(u) = {} /\ metadata[u][r.project] = NoAccess

\* After a revocation that had no company nothing is left of the access.
RevokedHoldsNothing ==
    \A o \in Ops : Succeeded(o, Revokes) /\ op[o].alone => Revoked(op[o].req)

\* A client secret that was handed out keeps working for as long as the user
\* exists: onboarding again, also by two operators at a time, rotates nothing.
DeliveredStaysValid == \A d \in delivered : Exists(d[1]) => secret[d[1]] = d[2]

\* "Onboarding never changes an existing password", also when two operators
\* create the same human at the same time: an existing user's password changes
\* only in a step of ResetHumanPassword, or goes with the user.
PasswordStep ==
    \A u \in Ids : Exists(u) /\ password'[u] # password[u] =>
        \/ ~Exists(u)'
        \/ \E o \in Ops : op[o].req # None /\ op[o].req.kind = "Reset" /\ SetPassword(o)
PasswordKept == [][PasswordStep]_vars

\* An operation of one of these kinds changes grants of its own service only.
StaysInProject(kinds) ==
    \A o \in Ops : op[o].req # None /\ op[o].req.kind \in kinds /\ Work(o) =>
        \A p \in Projects \ {op[o].req.project} : InProject(auths', p) = InProject(auths, p)

\* Onboarding for one service leaves the grants of the others alone, also when
\* what it listed has changed by the time it deletes.
OnboardStaysInProject == [][StaysInProject(Onboards)]_vars

-----------------------------------------------------------------------------
(* The invariant behind the properties that hold in every interleaving     *)

\* All authorizations there can ever be, and all operations.
Grants == Foreign \cup {[id |-> i, user |-> u, project |-> p, roles |-> r.roles] :
                          i \in Ids, u \in 0..MaxId, p \in Projects, r \in Requests}
Values == {None} \cup {r.access[k] : r \in Requests, k \in Keys}
Operations == [pc: PCs, req: Requests \cup {None}, uid: 0..MaxId,
               pid: Projects \cup {NoProject}, secret: 0..MaxId,
               found: SUBSET Grants, alone: BOOLEAN]

ShapeInv ==
    /\ op \in [Ops -> Operations]
    /\ auths \subseteq Grants /\ delivered \subseteq Ids \X Ids
    /\ secret \in [Ids -> 0..MaxId]
    /\ password \in [Ids -> {r.password : r \in Requests} \cup {None}]

\* What an operation is, given the call it has come to.
StageAt(o) ==
    LET p == op[o].pc  r == op[o].req  u == op[o].uid IN
    /\ p # "idle" => r \in Requests
    /\ p \notin {"idle", "lookup", "create", "ok"} => u \in Ids
    /\ p \in {"create", "get", "grant"} => r.kind \in Onboards
    /\ p = "addSecret" => r.kind = "Onboard"
    /\ p \in {"list", "delete"} => r.kind # "Reset"
    /\ p = "deleteUser" => r.kind = "DeleteUser"
    /\ p = "setPassword" => r.kind = "Reset" /\ (Exists(u) => u \in human)
    /\ p \in {"get", "addSecret"} /\ r.kind = "Onboard" => u \notin human
    /\ p \in {"idle", "lookup", "create", "ok"} => op[o].secret = 0 /\ op[o].found = {}
    /\ p \notin {"idle", "ok"} /\ r.kind \in Onboards =>
          /\ op[o].pid \in {r.project, NoProject}
          /\ \A a \in op[o].found : a.project = r.project
StageInv == \A o \in Ops : StageAt(o)

\* Identifiers are fresh, and those of authorizations are never reused.
Known == auths \cup UNION {op[o].found : o \in Ops}
FreshInv ==
    /\ \A n \in Usernames : user[n] <= ids
    /\ \A o \in Ops : op[o].uid <= ids
    /\ \A u \in human : u <= ids
    /\ \A u \in Ids : secret[u] # 0 \/ password[u] # None => u <= ids
    /\ \A a \in Known : a.id <= ids /\ \A b \in Known : a.id = b.id => a = b

\* A user in creation belongs to one operation, and nobody holds a secret of it.
Creating(o) == op[o].pc \in {"get", "addSecret"}
Minting(o)  == Creating(o) \/ op[o].secret # 0
SecretInv ==
    /\ \A o, q \in Ops : Minting(o) /\ Minting(q) /\ op[q].uid = op[o].uid => o = q
    /\ \A o \in Ops : Creating(o) =>
          op[o].secret = 0 /\ \A d \in delivered : d[1] # op[o].uid
    /\ \A o \in Ops : op[o].secret # 0 /\ Exists(op[o].uid) => secret[op[o].uid] = op[o].secret
    /\ \A d \in delivered : d[1] <= ids

\* Nobody's grant is that of no user, a grant of a user that was created carries
\* roles, and metadata are values.
HeldInv ==
    /\ metadata \in [Ids -> [Projects -> [Keys -> Values]]]
    /\ \A a \in auths : a.user # 0 /\ (a.user \in Ids => a.user <= ids /\ a.roles # {})
    /\ \A o \in Ops : op[o].pc = "grant" => op[o].req.roles # {}

IInv == TypeOK /\ ShapeInv /\ StageInv /\ FreshInv /\ SecretInv /\ DeliveredStaysValid

-----------------------------------------------------------------------------
(* The invariant behind what undisturbed operations achieve                *)

\* What they need of Zitadel: a page holds all authorizations, and a bulk
\* deletion deletes the keys that exist.
Cooperative == MaxId <= PageSize /\ PartialDelete

\* Grants are in projects that exist, and so is the project of an onboarding
\* that found one.
ProjectInv ==
    /\ metadata \in [Ids -> [Projects -> [Keys -> Values]]]
    /\ \A a \in auths : a.user \in Ids => a.project \in exists
    /\ \A o \in Ops : Active(o) /\ op[o].req.kind \in Onboards
          => op[o].pid \in exists \cup {NoProject}

\* How far an onboarding that is alone has come, at each of its calls.
OnboardProgress(o) ==
    LET p == op[o].pc  r == op[o].req  u == user[r.name]
        held == InProject(AuthsOf(u), r.project)
    IN  /\ p \notin {"lookup", "create", "ok"} =>
              u = op[o].uid /\ u # 0 /\ (u \in human <=> r.kind = "OnboardHuman")
        /\ p # "ok" /\ op[o].pid = NoProject
              => \A a \in InProject(auths, r.project) : a.user \notin Ids
        /\ p = "delete" => held \subseteq op[o].found
        /\ p = "grant" => held = {}
        /\ p \in {"setMetadata", "deleteMetadata", "finish"} => GrantsApplied(r)
        /\ p = "deleteMetadata" =>
              \A k \in Keys : r.access[k] # None => metadata[u][r.project][k] = r.access[k]
        /\ p = "finish" => metadata[u][r.project] = r.access
        /\ p = "ok" => Applied(r)

\* The same of a revocation.
RevokeProgress(o) ==
    LET p == op[o].pc  r == op[o].req  u == user[r.name]
    IN  /\ p # "setMetadata"
        /\ p \in {"list", "delete", "deleteMetadata", "deleteUser"} => u = op[o].uid /\ u # 0
        /\ p = "delete" => AuthsOf(u) \subseteq op[o].found
        /\ p \in {"deleteMetadata", "deleteUser"} => AuthsOf(u) = {}
        /\ p \in {"finish", "ok"} => Revoked(r)

\* An operation that is alone has Zitadel to itself.
AloneInv ==
    \A o \in Ops : op[o].alone =>
        /\ op[o].pc # "idle"
        /\ \A q \in Ops \ {o} : ~Active(q) /\ ~op[q].alone
        /\ op[o].req.kind \in Onboards => OnboardProgress(o)
        /\ op[o].req.kind \in Revokes => RevokeProgress(o)

UndisturbedInv == ProjectInv /\ AloneInv

-----------------------------------------------------------------------------
(* What documents say of provisioning, and the code does not do            *)

\* The package manages "Zitadel state for a single service": revoking grants
\* for one service leaves those of the others alone.
RevokeStaysInProject == [][StaysInProject({"RevokeGrants"})]_vars

\* setup-sdk: "idempotent", "safe to re-run".  When onboarding a machine user
\* has succeeded, the user's client secret is in somebody's hands.
SecretNotLost ==
    \A o \in Ops : Succeeded(o, {"Onboard"}) /\ op[o].alone =>
        \E d \in delivered : d[1] = user[op[o].req.name]
=============================================================================
