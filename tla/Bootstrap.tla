----------------------------- MODULE Bootstrap -----------------------------
(***************************************************************************)
(* Bootstrap of the admin package (bootstrap.go, action.go): operators     *)
(* create a project with its roles and API application, install the action *)
(* that injects the claims of a namespace, and wire it to the token        *)
(* trigger, whose list of actions they share with whoever administers the  *)
(* same Zitadel by hand.  Every remote call is a step; an operation may end*)
(* in an error or die before any of them (Abort), so also after a call     *)
(* that took effect.                                                       *)
(*                                                                         *)
(* Zitadel is an external party; it refuses a second project, application  *)
(* or action of a name that is taken.                                      *)
(***************************************************************************)
EXTENDS Integers, Sequences, FiniteSets, SequencesExt

CONSTANTS
    Ops,         \* operators: each runs one Bootstrap at a time
    Requests,    \* [project, namespace, operations]: what they may ask for
    Namespaces,  \* claim namespaces that pass validateNamespace
    ActionNames, \* the names actions can have
    NameOf,      \* actionNameForNamespace, by namespace
    Manual,      \* actions installed by hand, by their ids
    Projects,    \* project names
    None,        \* nothing there
    FlowMayFail, \* GetFlow may fail
    ByHand       \* the trigger is also edited by hand

\* An operation is [method, permission]; one without a method is dropped.
dedupeOperations(operations) ==
    {x.permission : x \in {y \in operations : y.method # None}}

ASSUME BootstrapAssumption ==
    /\ NameOf \in [Namespaces -> ActionNames]
    /\ FlowMayFail \in BOOLEAN /\ ByHand \in BOOLEAN
    /\ Manual \cap ActionNames = {}
    /\ \A r \in Requests : r.project \in Projects /\ IsFiniteSet(dedupeOperations(r.operations))
    \* None is none of the values it stands beside.
    /\ None \notin {"api", "other"} \cup Namespaces
    /\ None \notin Seq(ActionNames \cup Manual)
    /\ \A K \in SUBSET UNION {dedupeOperations(r.operations) : r \in Requests} : K # None

VARIABLES
    roles,      \* roles[p]: the roles of project p, None if it does not exist
    app,        \* app[p]: None, "api", or "other" for an application of another type
    script,     \* script[a]: the namespace rendered into action a, None if there is none
    trigger,    \* the actions wired to the trigger, in order
    op,         \* the operations
    delivered   \* history: projects whose API secret an operator was given

zitadel == <<roles, app, script, trigger>>
vars    == <<zitadel, op, delivered>>

\* An action goes by its name, which is unique.
Actions == ActionNames \cup Manual

Idle == [pc |-> "idle", req |-> None, todo |-> {}, secret |-> FALSE,
         list |-> <<>>, read |-> None, alone |-> FALSE]

Active(o)  == op[o].pc \notin {"idle", "ok"}
\* The operation of o goes on at p; after an error it is over, with no result.
Goto(o, p) ==
    op' = [op EXCEPT ![o] = IF p = "error" THEN Idle ELSE [@ EXCEPT !.pc = p]]
Own(o)     == NameOf[op[o].req.namespace]

-----------------------------------------------------------------------------
Init ==
    /\ roles = [p \in Projects |-> None]
    /\ app \in [Projects -> {None, "other"}]
    /\ script = [a \in ActionNames |-> None]
    /\ trigger = <<>>
    /\ op = [o \in Ops |-> Idle]
    /\ delivered = {}

\* Project name, operations and permissions are valid.  The namespace is not
\* looked at yet.
Start(o, r) ==
    LET alone == \A q \in Ops : ~Active(q) IN
    /\ op[o].pc = "idle"
    /\ op' = [q \in Ops |->
                IF q = o THEN [Idle EXCEPT !.pc = "project", !.req = r, !.alone = alone,
                                           !.todo = dedupeOperations(r.operations)]
                ELSE [op[q] EXCEPT !.alone = FALSE]]
    /\ UNCHANGED <<zitadel, delivered>>

\* findProjectByName.
FindProject(o) ==
    /\ op[o].pc = "project"
    /\ Goto(o, IF roles[op[o].req.project] = None THEN "createProject" ELSE "roles")
    /\ UNCHANGED <<zitadel, delivered>>

CreateProject(o) ==
    LET p == op[o].req.project IN
    /\ op[o].pc = "createProject"
    /\ IF roles[p] = None
         THEN roles' = [roles EXCEPT ![p] = {}] /\ Goto(o, "roles")
         ELSE Goto(o, "error") /\ UNCHANGED roles
    /\ UNCHANGED <<app, script, trigger, delivered>>

\* AddProjectRole for one permission after the other; AlreadyExists is fine.
AddRole(o) ==
    /\ op[o].pc = "roles"
    /\ \E k \in op[o].todo :
          /\ roles' = [roles EXCEPT ![op[o].req.project] = @ \cup {k}]
          /\ op' = [op EXCEPT ![o].todo = @ \ {k},
                              ![o].pc = IF op[o].todo = {k} THEN "app" ELSE "roles"]
    /\ UNCHANGED <<app, script, trigger, delivered>>

\* ensureAPIApplication: the lookup.
FindApp(o) ==
    LET a == app[op[o].req.project] IN
    /\ op[o].pc = "app"
    /\ Goto(o, CASE a = None -> "createApp" [] a = "api" -> "render" [] OTHER -> "error")
    /\ UNCHANGED <<zitadel, delivered>>

\* CreateApplication answers with the secret, this once.
CreateApp(o) ==
    LET p == op[o].req.project IN
    /\ op[o].pc = "createApp"
    /\ IF app[p] = None
         THEN /\ app' = [app EXCEPT ![p] = "api"]
              /\ op' = [op EXCEPT ![o].pc = "render", ![o].secret = TRUE]
         ELSE Goto(o, "error") /\ UNCHANGED app
    /\ UNCHANGED <<roles, script, trigger, delivered>>

\* RenderActionScript validates the namespace.
Render(o) ==
    /\ op[o].pc = "render"
    /\ Goto(o, IF op[o].req.namespace \in Namespaces THEN "action" ELSE "error")
    /\ UNCHANGED <<zitadel, delivered>>

\* Mutant of FindAction: an action that is there is taken to be up to date.
FindActionByName(o) ==
    /\ op[o].pc = "action"
    /\ Goto(o, IF script[Own(o)] = None THEN "createAction" ELSE "flow")
    /\ UNCHANGED <<zitadel, delivered>>

\* ensureAction: ListActions, by name, and what is to be done.
FindAction(o) ==
    /\ op[o].pc = "action"
    /\ Goto(o, CASE script[Own(o)] = None                -> "createAction"
                 [] script[Own(o)] = op[o].req.namespace -> "flow"
                 [] OTHER                                -> "updateAction")
    /\ UNCHANGED <<zitadel, delivered>>

CreateAction(o) ==
    /\ op[o].pc = "createAction"
    /\ IF script[Own(o)] = None
         THEN script' = [script EXCEPT ![Own(o)] = op[o].req.namespace] /\ Goto(o, "flow")
         ELSE Goto(o, "error") /\ UNCHANGED script
    /\ UNCHANGED <<roles, app, trigger, delivered>>

UpdateAction(o) ==
    /\ op[o].pc = "updateAction"
    /\ script' = [script EXCEPT ![Own(o)] = op[o].req.namespace]
    /\ Goto(o, "flow")
    /\ UNCHANGED <<roles, app, trigger, delivered>>

\* What is left of a list without an action: the loop that skips it.
Without(a, list) ==
    LET kept[i \in 0..Len(list)] ==
            IF i = 0 THEN <<>>
            ELSE IF list[i] = a THEN kept[i-1] ELSE Append(kept[i-1], list[i])
    IN  kept[Len(list)]

\* Mutant of union: what is wired is replaced.
onlyOwn(a, wired) == <<a>>

\* The list to set: the own action, then the others that are wired.
union(a, wired) == <<a>> \o Without(a, wired)

\* unionTriggerActions: GetFlow, or a fall-back to the own action alone.
ReadFlow(o) ==
    /\ op[o].pc = "flow"
    /\ \/ op' = [op EXCEPT ![o].pc = "wire", ![o].read = trigger,
                           ![o].list = union(Own(o), trigger)]
       \/ /\ FlowMayFail
          /\ op' = [op EXCEPT ![o].pc = "wire", ![o].list = <<Own(o)>>]
    /\ UNCHANGED <<zitadel, delivered>>

\* setTriggerActions; a refusal because nothing changes is a success.
SetTriggerActions(o) ==
    /\ op[o].pc = "wire"
    /\ trigger' = op[o].list
    /\ Goto(o, "ok")
    /\ delivered' = IF op[o].secret THEN delivered \cup {op[o].req.project} ELSE delivered
    /\ UNCHANGED <<roles, app, script>>

\* A call fails, its answer is lost, or the operator's process dies.
Abort(o) ==
    /\ Active(o)
    /\ Goto(o, "error")
    /\ UNCHANGED <<zitadel, delivered>>

\* The operator has taken the result and may start another operation.
Again(o) ==
    /\ op[o].pc = "ok"
    /\ op' = [op EXCEPT ![o] = Idle]
    /\ UNCHANGED <<zitadel, delivered>>

\* Somebody wires an action of their own to the trigger, or takes it away.
EditByHand ==
    /\ ByHand
    /\ \E a \in Manual : trigger' = IF a \in ToSet(trigger) THEN Without(a, trigger)
                                    ELSE Append(trigger, a)
    /\ UNCHANGED <<roles, app, script, op, delivered>>

Work(o) ==
    \/ FindProject(o) \/ CreateProject(o) \/ AddRole(o) \/ FindApp(o) \/ CreateApp(o)
    \/ Render(o) \/ FindAction(o) \/ CreateAction(o) \/ UpdateAction(o)
    \/ ReadFlow(o) \/ SetTriggerActions(o)

Next ==
    \/ \E o \in Ops : \/ \E r \in Requests : Start(o, r)
                      \/ Work(o) \/ Abort(o) \/ Again(o)
    \/ EditByHand

Spec == Init /\ [][Next]_vars

-----------------------------------------------------------------------------
(* Properties                                                              *)

\* Types; a wired action that Bootstrap manages exists, and is wired once.
TypeOK ==
    /\ \A p \in Projects : roles[p] # None => IsFiniteSet(roles[p])
    /\ app \in [Projects -> {None, "api", "other"}]
    /\ script \in [ActionNames -> Namespaces \cup {None}]
    /\ ToSet(trigger) \subseteq Actions /\ IsInjective(trigger)
    /\ \A a \in ToSet(trigger) \cap ActionNames : script[a] # None

\* Once a Bootstrap that had no company has succeeded, everything is in place,
\* whatever earlier ones left half done: the roles of the operations that have a
\* method, the API application, the action with the script of the namespace,
\* wired to the trigger.
BootstrapsCompletely ==
    \A o \in Ops : op[o].pc = "ok" /\ op[o].alone =>
        LET r == op[o].req IN
        /\ dedupeOperations(r.operations) \subseteq roles[r.project]
        /\ app[r.project] = "api"
        /\ script[NameOf[r.namespace]] = r.namespace
        /\ NameOf[r.namespace] \in ToSet(trigger)

\* Wiring drops nobody's action when the flow could be read and was not changed
\* in the meantime.
WiringKeepsOthers ==
    [][\A o \in Ops : SetTriggerActions(o) /\ op[o].read = trigger
          => ToSet(trigger) \subseteq ToSet(trigger')]_vars

-----------------------------------------------------------------------------
(* What comments say of Bootstrap, and the code does not do                *)

\* unionTriggerActions "protects operators who have manually wired additional
\* actions": wiring never drops one.
NeverDropsActions ==
    [][\A o \in Ops : SetTriggerActions(o) => ToSet(trigger) \subseteq ToSet(trigger')]_vars

\* unionTriggerActions: the existing list "with actionID appended if it is not
\* already present".  Wiring an action that is wired changes nothing.
RewiringIsIdempotent ==
    [][\A o \in Ops : SetTriggerActions(o) /\ Own(o) \in ToSet(trigger) /\ op[o].read = trigger
          => trigger' = trigger]_vars

\* setup-sdk: "action wiring without clobbering": bootstrapping one namespace
\* leaves the script of another one in place.
NamespacesCoexist ==
    [][\A a \in ActionNames : script[a] # None => script'[a] = script[a]]_vars

\* "All inputs that flow into Zitadel state" are validated "before any side
\* effect": an operation on an invalid namespace changes nothing.
ValidatedFirst ==
    [][\A o \in Ops : op[o].req # None /\ op[o].req.namespace \notin Namespaces /\ Work(o)
          => UNCHANGED zitadel]_vars

\* setup-sdk: "idempotent", "safe to re-run".  When a Bootstrap has succeeded,
\* somebody was given the secret of the project's API application.
ApiSecretNotLost ==
    \A o \in Ops : op[o].pc = "ok" /\ op[o].alone => op[o].req.project \in delivered
=============================================================================
