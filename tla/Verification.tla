---------------------------- MODULE Verification ----------------------------
(***************************************************************************)
(* VerifyHumanAuthConfiguration (verify.go): reads the project, the claim  *)
(* action and its flow, the web application, all authorizations, and the   *)
(* user and metadata of every expected human, one remote call after the    *)
(* other, and reports what is not as expected.  It runs beside the         *)
(* operations of Provisioning and beside an administrator who edits by     *)
(* hand, and never writes.                                                 *)
(*                                                                         *)
(* What a part is compared with is kept as its outcome: the script, state, *)
(* time-out of the action are right or not; so are the fields of the web   *)
(* application, and state, profile and e-mail of a human.                  *)
(***************************************************************************)
EXTENDS Provisioning, Sequences, SequencesExt

CONSTANTS
    Inputs,         \* [project, humans : a list of OnboardHuman requests]
    lookupPageSize, \* the limit in the request for a page
    totals, max,    \* what the server reports as total; its own limit (see Paging)
    MaxEdits        \* bound on the edits by hand

ASSUME VerificationAssumption ==
    /\ lookupPageSize \in Nat \ {0} /\ max \in Nat \ {0} /\ MaxEdits \in Nat
    /\ totals \in {"exact", "none", "over"}
    /\ \A in \in Inputs : in.project \in Projects /\ in.humans \in Seq(Requests)
    /\ Usernames \cap {"project", "action", "application"} = {}

VARIABLES
    asserts,  \* the project asserts its roles
    action,   \* [count: actions of the name; same: as expected; flow: its trigger]
    app,      \* the web application: "current", "drifted", "other" (not OIDC), "absent"
    inactive, \* ids of authorizations that were deactivated
    altered,  \* ids of users whose state, profile or e-mail was changed
    edits,    \* edits so far
    vpc,      \* the verification: "off", the next remote call, or "done"
    in,       \* its input
    walk,     \* its walk through the authorizations
    seen,     \* the authorizations received
    left,     \* the expected humans not yet verified
    uid,      \* the user whose metadata is next
    drift,    \* what was found, <<resource, field>>
    quiet,    \* history: nothing has changed since the verification started
    standing, \* history: authorizations that have been there ever since
    deleted   \* history: an authorization was deleted since

settings == <<asserts, action, app, inactive, altered>>
local    == <<vpc, in, walk, seen, left, uid, drift>>
past     == <<quiet, standing, deleted>>
verVars  == <<vars, settings, edits, local, past>>

\* Zitadel lists authorizations in the order in which they were created.
InOrder(S) ==
    LET place(a) == Cardinality({b \in S : b.id <= a.id})
    IN  [i \in 1..Cardinality(S) |-> CHOOSE a \in S : place(a) = i]
AuthList == InOrder(auths)

Walk == INSTANCE Paging WITH
    Entries <- Grants, Wanted <- {}, ServerMax <- {max},
    kind <- "all", list <- AuthList, pc <- walk,
    stayed <- standing, gone <- deleted, came <- FALSE

\* The server says how many there are, or sends as much as it is asked for.
ListEnds == totals = "none" => max >= lookupPageSize

-----------------------------------------------------------------------------
(* What is compared                                                        *)

validateHumanConfigurations(humans) ==
    \A i, j \in DOMAIN humans : humans[i].name = humans[j].name => i = j

\* Mutant of verifyRoles: the roles decide alone.
verifyRolesOnly(u, h) ==
    LET matching == {a \in Range(seen) : a.user = u /\ a.project = in.project}
    IN  {<<h.name, "roles">> : x \in {y \in {0} : RolesOf(matching) # h.roles}}

\* Exactly one authorization, an active one, if there are roles, and none if
\* there are not; and the roles.
verifyRoles(u, h) ==
    LET matching == {a \in Range(seen) : a.user = u /\ a.project = in.project}
        count    == Cardinality(matching)
        fields   == {f \in {"authorization.count", "authorization.state", "roles"} :
                        CASE f = "authorization.count" -> count # IF h.roles # {} THEN 1 ELSE 0
                          [] f = "authorization.state" ->
                                count = 1 /\ \A a \in matching : a.id \in inactive
                          [] f = "roles" -> RolesOf(matching) # h.roles}
    IN  {h.name} \X fields

\* Every key has the payload that is expected, or is absent if none is.
verifyAccessMetadata(u, h) ==
    {<<h.name, k>> : k \in {k \in Keys : metadata[u][in.project][k] # h.access[k]}}

-----------------------------------------------------------------------------
\* The claim action as Bootstrap leaves it.
Wired == [count |-> 1, same |-> TRUE, flow |-> "wired"]

\* Everything is set up; edits may take any of it down.
VerInit ==
    /\ Init
    /\ asserts = TRUE /\ action = Wired /\ app = "current"
    /\ inactive = {} /\ altered = {} /\ edits = 0
    /\ vpc = "off" /\ in = None /\ walk = "walking" /\ seen = <<>> /\ left = <<>>
    /\ uid = 0 /\ drift = {}
    /\ quiet = TRUE /\ standing = {} /\ deleted = FALSE

\* Nothing but the verification moves.
Reading == UNCHANGED <<vars, settings, edits, past>>

\* A verification starts with valid input and reads the project, which must
\* exist.
VerifyHumanAuthConfiguration(i) ==
    /\ vpc = "off"
    /\ validateHumanConfigurations(i.humans)
    /\ i.project \in exists
    /\ vpc' = "actions" /\ in' = i /\ left' = i.humans
    /\ drift' = IF asserts THEN {} ELSE {<<"project", "project_role_assertion">>}
    /\ standing' = auths
    /\ UNCHANGED <<vars, settings, edits, walk, seen, uid, quiet, deleted>>

\* verifyClaimAction, the actions.
ListActions ==
    /\ vpc = "actions"
    /\ CASE action.count = 0 -> /\ drift' = drift \cup {<<"action", "exists">>}
                                /\ vpc' = "application"
         [] action.count > 1 -> /\ drift' = drift \cup {<<"action", "count">>}
                                /\ vpc' = "application"
         [] action.count = 1 -> /\ drift' = drift \cup (IF action.same THEN {} ELSE {<<"action", "fields">>})
                                /\ vpc' = "flow"
    /\ Reading /\ UNCHANGED <<in, walk, seen, left, uid>>

\* verifyClaimAction, the flow: no flow and no wiring both are drift.
GetFlow ==
    /\ vpc = "flow" /\ vpc' = "application"
    /\ drift' = drift \cup (IF action.flow = "wired" THEN {} ELSE {<<"action", "token_flow_trigger">>})
    /\ Reading /\ UNCHANGED <<in, walk, seen, left, uid>>

verifyWebApplication ==
    /\ vpc = "application" /\ vpc' = "authorizations"
    /\ drift' = drift \cup (CASE app = "absent"  -> {<<"application", "exists">>}
                              [] app = "other"   -> {<<"application", "type">>}
                              [] app = "drifted" -> {<<"application", "fields">>}
                              [] app = "current" -> {})
    /\ Reading /\ UNCHANGED <<in, walk, seen, left, uid>>

\* Where the loop over the humans goes on.
AtHuman(humans) == IF humans = <<>> THEN "done" ELSE "user"

\* Mutant of listAllAuthorizations: one page, as provisioning reads them.
listFirstAuthorizations ==
    /\ vpc = "authorizations"
    /\ Reading /\ UNCHANGED <<in, left, uid, drift>>
    /\ Walk!Turn
    /\ vpc' = AtHuman(left)

\* listAllAuthorizations: the next page, an error, or on with the humans.
listAllAuthorizations ==
    /\ vpc = "authorizations"
    /\ Reading /\ UNCHANGED <<in, left, uid, drift>>
    /\ Walk!Turn
    /\ vpc' = CASE walk' = "walking" -> "authorizations"
                [] walk' = "done"    -> AtHuman(left)
                [] walk' = "stuck"   -> "failed"

\* verifyHuman: the user by name, and the roles in what was listed before.
verifyHuman ==
    LET h == Head(left)
        u == user[h.name]
    IN  /\ vpc = "user"
        /\ IF u # 0 /\ u \in human
             THEN /\ drift' = drift \cup verifyRoles(u, h)
                                    \cup (IF u \in altered THEN {<<h.name, "profile">>} ELSE {})
                  /\ vpc' = "metadata" /\ uid' = u /\ UNCHANGED left
             ELSE /\ drift' = drift \cup {<<h.name, IF u = 0 THEN "exists" ELSE "type">>}
                  /\ left' = Tail(left) /\ vpc' = AtHuman(Tail(left)) /\ UNCHANGED uid
        /\ Reading /\ UNCHANGED <<in, walk, seen>>

\* verifyHuman, the metadata: a handful of keys, one page.
listAllUserMetadata ==
    /\ vpc = "metadata"
    /\ drift' = drift \cup verifyAccessMetadata(uid, Head(left))
    /\ left' = Tail(left) /\ vpc' = AtHuman(Tail(left)) /\ uid' = 0
    /\ Reading /\ UNCHANGED <<in, walk, seen>>

\* A call fails (an error is the result), or the result has been taken.
End ==
    /\ vpc # "off" /\ vpc' = "off"
    /\ in' = None /\ walk' = "walking" /\ seen' = <<>> /\ left' = <<>> /\ uid' = 0 /\ drift' = {}
    /\ quiet' = TRUE /\ standing' = {} /\ deleted' = FALSE
    /\ UNCHANGED <<vars, settings, edits>>

Verify ==
    \/ \E i \in Inputs : VerifyHumanAuthConfiguration(i)
    \/ ListActions \/ GetFlow \/ verifyWebApplication \/ listAllAuthorizations
    \/ verifyHuman \/ listAllUserMetadata \/ End

\* What others change while a verification is under way.
Meanwhile ==
    IF vpc = "off" THEN UNCHANGED past
    ELSE /\ quiet' = (quiet /\ UNCHANGED <<exists, zitadel, settings>>)
         /\ standing' = standing \cap auths'
         /\ deleted' = (deleted \/ ~(auths \subseteq auths'))

\* A step of provisioning; what is deleted takes its state along.
Provision ==
    /\ Next
    /\ inactive' = inactive \cap {a.id : a \in auths'}
    /\ altered' = {u \in altered : Exists(u)'}
    /\ UNCHANGED <<asserts, action, app, edits, local>>
    /\ Meanwhile

\* Somebody changes the settings of the service by hand, or runs Bootstrap or
\* EnsureWebApplication.
EditSettings ==
    /\ \/ asserts' = ~asserts /\ UNCHANGED <<action, app>>
       \/ /\ \/ \E n \in 0..2 \ {action.count} : action' = [action EXCEPT !.count = n]
             \/ action' = [action EXCEPT !.same = ~@]
             \/ \E f \in {"wired", "unwired", "missing"} \ {action.flow} :
                    action' = [action EXCEPT !.flow = f]
          /\ UNCHANGED <<asserts, app>>
       \/ /\ app' \in {"current", "drifted", "other", "absent"} \ {app}
          /\ UNCHANGED <<asserts, action>>
    /\ UNCHANGED <<auths, inactive, altered>>

\* Somebody deactivates or deletes an authorization, or deactivates a user or
\* changes a profile.
EditUsers ==
    /\ \/ /\ \E a \in auths : a.id \notin inactive /\ inactive' = inactive \cup {a.id}
          /\ UNCHANGED <<auths, altered>>
       \/ /\ \E a \in auths : auths' = auths \ {a} /\ inactive' = inactive \ {a.id}
          /\ UNCHANGED altered
       \/ /\ \E n \in Usernames : /\ user[n] \in human \ altered
                                  /\ altered' = altered \cup {user[n]}
          /\ UNCHANGED <<auths, inactive>>
    /\ UNCHANGED <<asserts, action, app>>

\* An edit by hand is company for the operations under way, not for those that
\* start later.
Edit ==
    /\ edits < MaxEdits /\ edits' = edits + 1
    /\ EditSettings \/ EditUsers
    /\ op' = [o \in Ops |-> [op[o] EXCEPT !.alone = FALSE]]
    /\ UNCHANGED <<exists, ids, user, human, metadata, password, secret, delivered, local>>
    /\ Meanwhile

VerNext == Verify \/ Provision \/ Edit

VerSpec == VerInit /\ [][VerNext]_verVars

-----------------------------------------------------------------------------
(* Properties                                                              *)

\* The configuration as the documents ask for it, read at once.
HumanInPlace(h) ==
    LET u    == user[h.name]
        mine == InProject(AuthsOf(u), in.project)
    IN  /\ u \in human \ altered
        /\ IF h.roles = {} THEN mine = {}
           ELSE \E a \in mine : mine = {a} /\ a.roles = h.roles /\ a.id \notin inactive
        /\ metadata[u][in.project] = h.access

InPlace ==
    /\ asserts /\ app = "current"
    /\ action = Wired
    /\ \A h \in Range(in.humans) : HumanInPlace(h)

\* Unless something changed meanwhile, the configuration is reported current
\* if and only if it is in place: everything matters and nothing else does,
\* whatever early return one of the parts took.
CurrentIsTrue == vpc = "done" /\ quiet => (drift = {} <=> InPlace)

\* The verification agrees with OnboardHuman about what an onboarded human is:
\* right after an undisturbed OnboardHuman has succeeded, nothing is reported
\* of its human but what OnboardHuman leaves alone (the state of the grant, and
\* the profile of a user that exists).
OnboardedIsCurrent ==
    \A o \in Ops :
        /\ vpc = "done" /\ quiet
        /\ Succeeded(o, {"OnboardHuman"}) /\ op[o].alone
        /\ op[o].req \in Range(in.humans) /\ op[o].req.project = in.project
        => \A d \in drift : d[1] = op[o].req.name => d[2] \in {"authorization.state", "profile"}

\* Whatever others create and edit meanwhile: if the result is "current", no
\* authorization that was there from beginning to end gives one of the humans
\* more than what is expected.  (A deletion may shift it out of the pages.)
ExcessIsSeen ==
    vpc = "done" /\ drift = {} /\ ~deleted =>
        \A h \in Range(in.humans) :
            \A a \in InProject(standing, in.project) : a.user = user[h.name] => a.roles \subseteq h.roles

-----------------------------------------------------------------------------
(* The inductive invariant                                                 *)

Late   == {"user", "metadata", "done"}
VerPCs == {"off", "actions", "flow", "application", "authorizations", "failed"} \cup Late

SettingsInv ==
    /\ asserts \in BOOLEAN
    /\ action \in [count: 0..2, same: BOOLEAN, flow: {"wired", "unwired", "missing"}]
    /\ app \in {"current", "drifted", "other", "absent"}

\* What a verification holds, given the call it has come to.
LocalInv ==
    /\ vpc \in VerPCs /\ standing \subseteq auths
    /\ vpc = "off" => quiet /\ ~deleted /\ standing = {}
    /\ vpc # "off" => /\ in \in Inputs /\ validateHumanConfigurations(in.humans)
                      /\ left \in Seq(Requests) /\ Range(left) \subseteq Range(in.humans)
                      /\ validateHumanConfigurations(left)
    /\ vpc \notin Late \cup {"failed"} => walk = "walking" /\ (vpc # "off" => left = in.humans)
    /\ vpc \notin Late \cup {"failed", "authorizations"} => seen = <<>>
    /\ vpc \in {"user", "metadata"} => left # <<>>
    /\ vpc = "done" => left = <<>>

\* Until something is deleted, what was received is the beginning of the list,
\* in the end with everything in it that was there all the time.
ReceivedInv ==
    /\ ~deleted => /\ Len(seen) \in 0..Len(AuthList)
                   /\ seen = SubSeq(AuthList, 1, Len(seen))
                   /\ vpc \in Late => standing \subseteq Range(seen)
    /\ quiet /\ vpc # "off" => ~deleted /\ standing = auths
    /\ quiet /\ vpc = "metadata" => uid = user[Head(left).name] /\ uid \in human

\* The humans whose grants, and whose metadata, have been compared.
Listed == Range(in.humans) \ Range(left)
Graded == Listed \cup {h \in Range(left) : vpc = "metadata" /\ h = Head(left)}

\* The parts of HumanInPlace.
GrantInPlace(h) ==
    LET u    == user[h.name]
        mine == InProject(AuthsOf(u), in.project)
    IN  /\ u \in human \ altered
        /\ IF h.roles = {} THEN mine = {}
           ELSE \E a \in mine : mine = {a} /\ a.roles = h.roles /\ a.id \notin inactive
MetadataInPlace(h) == metadata[user[h.name]][in.project] = h.access

\* The settings compared so far.
SettingsInPlace ==
    /\ asserts
    /\ vpc # "actions" => action.count = 1 /\ action.same
    /\ vpc \notin {"actions", "flow"} => action.flow = "wired"
    /\ vpc \notin {"actions", "flow", "application"} => app = "current"

\* So far, drift was found just if something compared was not in place.
SoFar == /\ SettingsInPlace
         /\ \A h \in Graded : GrantInPlace(h)
         /\ \A h \in Listed : MetadataInPlace(h)
DriftInv == quiet /\ vpc \notin {"off", "failed"} => (drift = {} <=> SoFar)

Excusable == {"authorization.state", "profile"}

\* Of a human for whom all is applied nothing else was found.
ExcuseInv ==
    quiet /\ vpc # "off" =>
        \A h \in Range(in.humans) :
            h.kind = "OnboardHuman" /\ h.project = in.project /\ Applied(h) =>
                \A d \in drift : d[1] = h.name => d[2] \in Excusable

\* As long as no drift was found, none of the humans compared has more than is
\* expected by what was there all the time.
ExcessInv ==
    vpc \in Late /\ drift = {} /\ ~deleted =>
        \A h \in Graded : \A a \in InProject(standing, in.project) :
            a.user = user[h.name] => a.roles \subseteq h.roles

VerIInv == SettingsInv /\ LocalInv /\ ReceivedInv /\ DriftInv /\ ExcuseInv /\ ExcessInv

-----------------------------------------------------------------------------
(* What documents say, and the code does not do                            *)

\* HUMAN_LOGIN_IMPLEMENTATION_PLAN.md: "grant and metadata drift is repaired
\* exactly" by onboarding again.
RepairsExactly ==
    \A o \in Ops :
        /\ vpc = "done" /\ quiet
        /\ Succeeded(o, {"OnboardHuman"}) /\ op[o].alone
        /\ op[o].req \in Range(in.humans) /\ op[o].req.project = in.project
        => \A d \in drift : d[1] = op[o].req.name => d[2] = "profile"

\* HUMAN_LOGIN_IMPLEMENTATION_PLAN.md: "Reports drift in human type/state,
\* grants, metadata", also of a grant that is there all the time.
SeesEveryGrant ==
    vpc = "done" /\ drift = {} =>
        \A h \in Range(in.humans) :
            \A a \in InProject(standing, in.project) : a.user = user[h.name] => a.roles \subseteq h.roles
=============================================================================
