------------------------------- MODULE Setup -------------------------------
(***************************************************************************)
(* The set-up script (scripts/setup-sdk): one Bootstrap, then an Onboard   *)
(* for each of a list of machine users, then a file with the identifiers   *)
(* and secrets.  Any error ends the process (log.Fatalf), it may die at any*)
(* point, and it is run again.  Meanwhile other operators bootstrap and    *)
(* administrators edit the trigger, as in module Bootstrap, whose actions  *)
(* these are.                                                              *)
(*                                                                         *)
(* An Onboard is taken by its promise (module Provisioning): it succeeds   *)
(* and returns a secret if and only if it created the user, or it fails    *)
(* and leaves a part of its work behind.                                   *)
(***************************************************************************)
EXTENDS Bootstrap

CONSTANTS
    Script,      \* the operator that is the script
    SetupInput,  \* its request to Bootstrap
    specs,       \* the users, in order: [username, roles]
    Truncated    \* a file that is there and not yet written

ASSUME SetupAssumption ==
    /\ Script \in Ops /\ SetupInput \in Requests
    /\ specs \in Seq(Range(specs))
    /\ \A i, j \in DOMAIN specs : specs[i].username = specs[j].username => i = j
    /\ None \notin [roles : {{}} \cup {s.roles : s \in Range(specs)}, secret : {0, 1}]

VARIABLES
    step, \* "off", "bootstrap", "onboard" or "write" (the file)
    pending, \* the specs not yet onboarded
    held, \* results so far: [api, users, first]; see Empty
    user, \* user[n]: None, or [roles, secret] in Zitadel; 0 is no secret
    file  \* generated-config.json: None, Truncated, or what was held

script_vars == <<step, pending, held, user, file>>
setupVars   == <<vars, script_vars>>

Users == {specs[i].username : i \in DOMAIN specs}
SpecOf(n) == CHOOSE s \in Range(specs) : s.username = n

\* No secrets; first says that nothing was set up when the run began and that
\* its Bootstrap had no company.
Empty == [api |-> FALSE, users |-> [n \in Users |-> 0], first |-> FALSE]

SetupInit ==
    /\ Init
    /\ step = "off" /\ pending = <<>> /\ held = Empty
    /\ user = [n \in Users |-> None]
    /\ file = None

\* The script is started.
Launch ==
    /\ step = "off" /\ step' = "bootstrap"
    /\ Start(Script, SetupInput)
    /\ held' = [Empty EXCEPT !.first = /\ app[SetupInput.project] = None
                                       /\ \A n \in Users : user[n] = None]
    /\ UNCHANGED <<pending, user, file>>

\* A step of its Bootstrap.
Bootstrapping ==
    /\ step = "bootstrap"
    /\ Work(Script)
    /\ UNCHANGED script_vars

\* Bootstrap has returned; its secret may be empty.
Bootstrapped ==
    /\ step = "bootstrap" /\ step' = "onboard"
    /\ op[Script].pc = "ok"
    /\ Again(Script)
    /\ held' = [held EXCEPT !.api = op[Script].secret, !.first = @ /\ op[Script].alone]
    /\ pending' = specs
    /\ UNCHANGED <<user, file>>

\* Mutant of Onboarded: the user's secret is minted anew.
OnboardedAnew(u, s) ==
    [roles |-> s.roles, secret |-> IF u = None \/ u.secret = 2 THEN 1 ELSE 2]

\* A user that Onboard has left in place: secrets are for new users only.
Onboarded(u, s) == [roles |-> s.roles, secret |-> IF u = None THEN 1 ELSE u.secret]

\* What a failed Onboard can leave of user u: nothing done, created without or
\* with a secret, grants deleted; grants that are as desired are not touched.
Partly(u, s) ==
    {u, Onboarded(u, s)} \cup
    (IF u = None THEN {[roles |-> {}, secret |-> k] : k \in {0, 1}}
     ELSE IF u.roles = s.roles THEN {} ELSE {[u EXCEPT !.roles = {}]})

\* The next Onboard succeeds.
Onboard ==
    /\ step = "onboard" /\ pending # <<>>
    /\ LET s == Head(pending)
           u == Onboarded(user[s.username], s)
           secret == IF user[s.username] = None THEN u.secret ELSE 0
       IN  /\ user' = [user EXCEPT ![s.username] = u]
           /\ held' = [held EXCEPT !.users[s.username] = secret]
    /\ pending' = Tail(pending)
    /\ UNCHANGED <<vars, step, file>>

\* os.WriteFile creates or truncates the file and then writes it.
CreateFile ==
    /\ step = "onboard" /\ pending = <<>>
    /\ step' = "write" /\ file' = Truncated
    /\ UNCHANGED <<vars, pending, held, user>>

WriteFile ==
    /\ step = "write" /\ step' = "off"
    /\ file' = held /\ held' = Empty
    /\ UNCHANGED <<vars, pending, user>>

\* An error or the end of the process; an Onboard under way is left half done.
Die ==
    /\ step # "off" /\ step' = "off"
    /\ IF step = "bootstrap" /\ op[Script].pc # "idle" THEN Abort(Script) \/ Again(Script)
       ELSE UNCHANGED vars
    /\ IF step = "onboard" /\ pending # <<>>
         THEN LET s == Head(pending) IN
              \E u \in Partly(user[s.username], s) : user' = [user EXCEPT ![s.username] = u]
         ELSE UNCHANGED user
    /\ pending' = <<>> /\ held' = Empty
    /\ UNCHANGED file

\* bootstrap-zitadel.sh removes the file before it starts the script.
RemoveFile ==
    /\ step = "off" /\ file # None /\ file' = None
    /\ UNCHANGED <<vars, step, pending, held, user>>

\* Everybody else.
Others ==
    /\ \/ \E o \in Ops \ {Script} : \/ \E r \in Requests : Start(o, r)
                                    \/ Work(o) \/ Abort(o) \/ Again(o)
       \/ EditByHand
    /\ UNCHANGED script_vars

SetupNext ==
    \/ Launch \/ Bootstrapping \/ Bootstrapped \/ Onboard \/ CreateFile \/ WriteFile
    \/ Die \/ RemoveFile \/ Others

SetupSpec == SetupInit /\ [][SetupNext]_setupVars

-----------------------------------------------------------------------------
(* Properties                                                              *)

\* A file that has been written stays usable, whatever other operators and
\* later runs of the script do and wherever they die: project, roles and API
\* application exist, every user has the roles of its spec, and every secret in
\* the file works; none is missing if nothing had been set up before.
FileIsUsable ==
    file \notin {None, Truncated} =>
        /\ dedupeOperations(SetupInput.operations) \subseteq roles[SetupInput.project]
        /\ app[SetupInput.project] = "api"
        /\ \A n \in Users :
              /\ user[n] # None /\ user[n].roles = SpecOf(n).roles
              /\ file.users[n] \in {0, user[n].secret}
        /\ file.first => file.api /\ \A n \in Users : file.users[n] # 0

\* setup-sdk: "idempotent - safe to re-run".  Running the script again does not
\* take the secrets out of the file.
RerunKeepsSecrets ==
    [][WriteFile => \A n \in Users : user[n].secret # 0 => file'.users[n] # 0]_setupVars
=============================================================================
