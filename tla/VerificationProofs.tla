------------------------ MODULE VerificationProofs -------------------------
(***************************************************************************)
(* Proofs about Provisioning and about Verification, for any number of     *)
(* operators, users, services, requests and edits by hand.  First what     *)
(* holds however operations race and wherever they are cut off, and what   *)
(* an operation that nobody disturbs achieves.  Then, beside verifications *)
(* and edits: both still hold, the list of authorizations grows at its end *)
(* as long as nothing is deleted, and a verification's findings agree with *)
(* what it has compared; so that what it reports in the end is true.       *)
(***************************************************************************)
EXTENDS Verification, SequenceTheorems, FiniteSetTheorems, WellFoundedInduction, TLAPS

-----------------------------------------------------------------------------
(* How an operation moves                                                  *)

\* An idle operation is an operation.
LEMMA IdleTyped == Idle \in Operations
BY ProvisioningAssumption DEF Idle, Operations, PCs

\* Goto moves one operation, or ends it.
LEMMA GotoEffect ==
    ASSUME ShapeInv, NEW o \in Ops, NEW p, p \in PCs \cup {"error"}, Goto(o, p)
    PROVE  /\ op' \in [Ops -> Operations]
           /\ \A q \in Ops \ {o} : op'[q] = op[q]
           /\ p = "error" => op'[o] = Idle
           /\ p # "error" => /\ op'[o].pc = p /\ op'[o].req = op[o].req
                             /\ op'[o].uid = op[o].uid /\ op'[o].pid = op[o].pid
                             /\ op'[o].secret = op[o].secret /\ op'[o].found = op[o].found
                             /\ op'[o].alone = op[o].alone
<1>0. op \in [Ops -> Operations] /\ "error" \notin PCs
  BY DEF ShapeInv, PCs
<1>1. CASE p = "error"
  BY <1>0, <1>1, IdleTyped DEF Goto
<1>2. CASE p # "error"
  <2>1. op' = [op EXCEPT ![o] = [op[o] EXCEPT !.pc = p]]
    BY <1>2 DEF Goto
  <2>2. op[o] \in Operations /\ p \in PCs
    BY <1>0, <1>2
  <2>3. /\ [op[o] EXCEPT !.pc = p] \in Operations
        /\ LET e == [op[o] EXCEPT !.pc = p] IN
             /\ e.pc = p /\ e.req = op[o].req /\ e.uid = op[o].uid /\ e.pid = op[o].pid
             /\ e.secret = op[o].secret /\ e.found = op[o].found /\ e.alone = op[o].alone
    BY <2>2 DEF Operations
  <2> QED
    BY <1>0, <1>2, <2>1, <2>3
<1> QED
  BY <1>1, <1>2

\* What the invariant needs of an operation does not depend on its company.
Same(e, f) == /\ e.pc = f.pc /\ e.req = f.req /\ e.uid = f.uid /\ e.pid = f.pid
              /\ e.secret = f.secret /\ e.found = f.found

\* A step of one operation that creates, deletes and delivers nothing.
LEMMA Quiet ==
    ASSUME IInv, NEW o \in Ops,
           UNCHANGED <<ids, user, human, secret, delivered>>,
           exists' \subseteq Projects, auths' \subseteq auths,
           password' \in [Ids -> {r.password : r \in Requests} \cup {None}],
           \A u \in Ids : password'[u] # None => password[u] # None \/ u \in human,
           op' \in [Ops -> Operations],
           \A q \in Ops \ {o} : Same(op'[q], op[q]),
           StageAt(o)',
           op'[o].uid <= ids,
           op'[o].found \subseteq Known,
           Minting(o)' => Minting(o) /\ op'[o].uid = op[o].uid /\ op'[o].secret = op[o].secret,
           Creating(o)' => Creating(o)
    PROVE  IInv'
<1>0. TypeOK /\ ShapeInv /\ StageInv /\ FreshInv /\ SecretInv /\ DeliveredStaysValid
  BY DEF IInv
<1>1. TypeOK'
  BY <1>0 DEF TypeOK, Operations, Ids
<1>2. ShapeInv'
  BY <1>0 DEF ShapeInv, Grants, Ids
<1>3. StageInv'
  <2> SUFFICES ASSUME NEW q \in Ops, q # o PROVE StageAt(q)'
    BY DEF StageInv
  <2>1. StageAt(q)
    BY <1>0 DEF StageInv
  <2> QED
    BY <2>1 DEF StageAt, Same, Exists, Ids
<1>4. FreshInv'
  <2>1. Known' \subseteq Known
    <3>1. \A q \in Ops : op'[q].found \subseteq Known
      BY DEF Same, Known
    <3> QED
      BY <3>1 DEF Known
  <2>2. \A q \in Ops : op'[q].uid <= ids
    BY <1>0 DEF FreshInv, Same
  <2> QED
    BY <1>0, <2>1, <2>2 DEF FreshInv, Ids
<1>5. \A q \in Ops : /\ Minting(q)' => Minting(q) /\ op'[q].uid = op[q].uid
                                       /\ op'[q].secret = op[q].secret
                     /\ Creating(q)' => Creating(q)
  BY DEF Same, Minting, Creating
<1>6. SecretInv'
  <2>1. \A q, r \in Ops : Minting(q)' /\ Minting(r)' /\ op'[r].uid = op'[q].uid => q = r
    BY <1>0, <1>5 DEF SecretInv
  <2>2. \A q \in Ops : Creating(q)' =>
          op'[q].secret = 0 /\ \A d \in delivered : d[1] # op'[q].uid
    BY <1>0, <1>5 DEF SecretInv, Creating, Minting
  <2>3. \A q \in Ops : op'[q].secret # 0 /\ Exists(op'[q].uid)
           => secret[op'[q].uid] = op'[q].secret
    BY <1>0, <1>5 DEF SecretInv, Minting
  <2> QED
    BY <1>0, <2>1, <2>2, <2>3 DEF SecretInv, Exists
<1>7. DeliveredStaysValid'
  BY <1>0 DEF DeliveredStaysValid, Exists
<1> QED
  BY <1>1, <1>2, <1>3, <1>4, <1>6, <1>7 DEF IInv

\* A step that changes one operation and nothing else the invariant speaks of.
LEMMA Quieter ==
    ASSUME IInv, NEW o \in Ops,
           UNCHANGED <<ids, user, human, auths, password, secret, delivered>>,
           exists' \subseteq Projects,
           op' \in [Ops -> Operations],
           \A q \in Ops \ {o} : Same(op'[q], op[q]),
           StageAt(o)',
           op'[o].uid <= ids,
           op'[o].found \subseteq Known,
           Minting(o)' => Minting(o) /\ op'[o].uid = op[o].uid /\ op'[o].secret = op[o].secret,
           Creating(o)' => Creating(o)
    PROVE  IInv'
<1>1. /\ auths' \subseteq auths
      /\ password' \in [Ids -> {r.password : r \in Requests} \cup {None}]
      /\ \A u \in Ids : password'[u] # None => password[u] # None \/ u \in human
  BY DEF IInv, ShapeInv
<1> QED
  BY <1>1, Quiet

\* An operation that goes on with what it has, or is over.
LEMMA QuietGoto ==
    ASSUME IInv, NEW o \in Ops, NEW p, p \in PCs \cup {"error"}, Goto(o, p),
           UNCHANGED <<exists, ids, user, human, auths, password, secret, delivered>>,
           op[o].pc # "idle", p \notin {"idle", "ok", "get"},
           p # "error" => StageAt(o)',
           p = "addSecret" => Creating(o)
    PROVE  IInv'
<1>0. TypeOK /\ ShapeInv /\ StageInv /\ FreshInv
  BY DEF IInv
<1>1. /\ op' \in [Ops -> Operations]
      /\ \A q \in Ops \ {o} : op'[q] = op[q]
      /\ p = "error" => op'[o] = Idle
      /\ p # "error" => /\ op'[o].pc = p /\ op'[o].req = op[o].req
                        /\ op'[o].uid = op[o].uid /\ op'[o].pid = op[o].pid
                        /\ op'[o].secret = op[o].secret /\ op'[o].found = op[o].found
  BY <1>0, GotoEffect
<1>2. exists' \subseteq Projects
  BY <1>0 DEF TypeOK
<1>3. CASE p = "error"
  <2>1. StageAt(o)'
    BY <1>1, <1>3 DEF StageAt, Idle
  <2>2. op'[o].uid <= ids /\ op'[o].found \subseteq Known /\ ~Minting(o)' /\ ~Creating(o)'
    BY <1>0, <1>1, <1>3 DEF Idle, Minting, Creating, TypeOK
  <2> QED
    BY <1>1, <1>2, <2>1, <2>2, Quieter DEF Same
<1>4. CASE p # "error"
  <2>1. op'[o].uid <= ids /\ op'[o].found \subseteq Known
    BY <1>0, <1>1, <1>4 DEF FreshInv, Known
  <2>2. /\ Creating(o)' => Creating(o)
        /\ Minting(o)' => Minting(o)
    BY <1>1, <1>4 DEF Creating, Minting
  <2> QED
    BY <1>1, <1>2, <1>4, <2>1, <2>2, Quieter DEF Same
<1> QED
  BY <1>3, <1>4

LEMMA StartIInv ==
    ASSUME IInv, NEW o \in Ops, NEW r \in Requests, Start(o, r)
    PROVE  IInv'
<1>0. TypeOK /\ ShapeInv /\ StageInv /\ FreshInv
  BY DEF IInv
<1>1. /\ op \in [Ops -> Operations] /\ op[o].pc = "idle"
      /\ UNCHANGED <<exists, ids, user, human, auths, password, secret, delivered>>
      /\ resolveProject(r) # None
  BY <1>0 DEF ShapeInv, Start, zitadel
<1> DEFINE pid   == resolveProject(r)
           alone == \A q \in Ops : ~Active(q)
           new   == [Idle EXCEPT !.pc = "lookup", !.req = r, !.pid = pid, !.alone = alone]
<1>2. pid \in {r.project, NoProject} /\ r.project \in Projects
  BY <1>1, ProvisioningAssumption DEF resolveProject, found
<1>3. /\ new \in Operations /\ new.pc = "lookup" /\ new.req = r /\ new.pid = pid
      /\ new.secret = 0 /\ new.found = {} /\ new.uid = 0
  <2>1. \E b \in BOOLEAN : new = [Idle EXCEPT !.pc = "lookup", !.req = r, !.pid = pid, !.alone = b]
    OBVIOUS
  <2>2. PICK b \in BOOLEAN :
          new = [Idle EXCEPT !.pc = "lookup", !.req = r, !.pid = pid, !.alone = b]
    BY <2>1
  <2> HIDE DEF new, alone, pid
  <2>3. Idle \in Operations /\ Idle.secret = 0 /\ Idle.found = {} /\ Idle.uid = 0
    BY IdleTyped DEF Idle
  <2>4. pid \in Projects \cup {NoProject} /\ r \in Requests \cup {None} /\ "lookup" \in PCs
    BY <1>2 DEF PCs
  <2> QED
    BY <2>2, <2>3, <2>4 DEF Operations
<1>4. op' = [q \in Ops |-> IF q = o THEN new ELSE [op[q] EXCEPT !.alone = FALSE]]
  BY DEF Start
<1> HIDE DEF new
<1>5. \A q \in Ops : [op[q] EXCEPT !.alone = FALSE] \in Operations
                     /\ Same([op[q] EXCEPT !.alone = FALSE], op[q])
  BY <1>1 DEF Operations, Same
<1>6. op' \in [Ops -> Operations] /\ op'[o] = new /\ \A q \in Ops \ {o} : Same(op'[q], op[q])
  BY <1>3, <1>4, <1>5
<1>7. StageAt(o)'
  BY <1>2, <1>3, <1>6 DEF StageAt
<1>8. /\ exists' \subseteq Projects /\ op'[o].uid <= ids /\ op'[o].found \subseteq Known
      /\ ~Minting(o)' /\ ~Creating(o)'
  BY <1>0, <1>1, <1>3, <1>6 DEF Minting, Creating, TypeOK
<1> QED
  BY <1>1, <1>6, <1>7, <1>8, Quieter

LEMMA LookupIInv ==
    ASSUME IInv, NEW o \in Ops, Lookup(o)
    PROVE  IInv'
<1>0. TypeOK /\ ShapeInv /\ StageInv /\ FreshInv /\ SecretInv
  BY DEF IInv
<1> DEFINE r == op[o].req
           u == user[r.name]
<1>1. /\ op \in [Ops -> Operations] /\ op[o] \in Operations /\ op[o].pc = "lookup"
      /\ UNCHANGED <<exists, ids, user, human, auths, password, secret, delivered>>
      /\ r \in Requests /\ r.name \in Usernames
  BY <1>0, ProvisioningAssumption DEF ShapeInv, Lookup, zitadel, StageInv, StageAt
<1>2. PICK p \in {"create", "error", "ok", "list", "setPassword"} :
        /\ op' = [op EXCEPT ![o] = IF p = "error" THEN Idle ELSE [@ EXCEPT !.pc = p, !.uid = u]]
        /\ p = "create" => r.kind \in Onboards
        /\ p \in {"list", "setPassword"} => u # 0
        /\ p = "setPassword" => r.kind = "Reset" /\ u \in human
        /\ p = "list" => r.kind # "Reset"
  BY <1>1, ProvisioningAssumption DEF Lookup, Onboards, Revokes
<1>3. u \in 0..MaxId /\ u <= ids
  BY <1>0, <1>1 DEF TypeOK, FreshInv
<1>4. \A q \in Ops \ {o} : op'[q] = op[q]
  BY <1>1, <1>2
<1> HIDE DEF u
<1>5. CASE p = "error"
  <2>1. op' \in [Ops -> Operations] /\ op'[o] = Idle
    BY <1>1, <1>2, <1>5, IdleTyped
  <2>2. StageAt(o)' /\ op'[o].uid <= ids /\ op'[o].found \subseteq Known
        /\ ~Minting(o)' /\ ~Creating(o)'
    BY <2>1, <1>0 DEF StageAt, Idle, Minting, Creating, TypeOK
  <2> QED
    BY <1>0, <1>1, <1>4, <2>1, <2>2, Quieter DEF Same, TypeOK
<1>6. CASE p # "error"
  <2>1. /\ [op[o] EXCEPT !.pc = p, !.uid = u] \in Operations
        /\ LET e == [op[o] EXCEPT !.pc = p, !.uid = u] IN
             /\ e.pc = p /\ e.req = r /\ e.uid = u /\ e.pid = op[o].pid
             /\ e.secret = op[o].secret /\ e.found = op[o].found
    BY <1>1, <1>2, <1>3, <1>6 DEF Operations, PCs
  <2>2. op' = [op EXCEPT ![o] = [op[o] EXCEPT !.pc = p, !.uid = u]]
    BY <1>2, <1>6
  <2>3. /\ op' \in [Ops -> Operations] /\ op'[o].pc = p /\ op'[o].req = r /\ op'[o].uid = u
        /\ op'[o].pid = op[o].pid /\ op'[o].secret = op[o].secret /\ op'[o].found = op[o].found
    BY <1>1, <2>1, <2>2
  <2>4. op[o].secret = 0 /\ op[o].found = {}
    BY <1>0, <1>1 DEF StageInv, StageAt
  <2>5. StageAt(o)'
    <3>1. r.kind \in Onboards => op[o].pid \in {r.project, NoProject}
      BY <1>0, <1>1 DEF StageInv, StageAt
    <3>2. p \in {"list", "setPassword"} => u \in Ids
      BY <1>2, <1>3 DEF Ids
    <3> QED
      BY <1>1, <1>2, <1>6, <2>3, <2>4, <3>1, <3>2 DEF StageAt
  <2>6. /\ op'[o].uid <= ids /\ op'[o].found \subseteq Known /\ ~Minting(o)' /\ ~Creating(o)'
    BY <1>2, <1>3, <2>3, <2>4 DEF Minting, Creating
  <2> QED
    BY <1>0, <1>1, <1>4, <2>3, <2>5, <2>6, Quieter DEF Same, TypeOK
<1> QED
  BY <1>5, <1>6

\* The user in creation is read back.
LEMMA GetUserIInv ==
    ASSUME IInv, NEW o \in Ops, GetUser(o)
    PROVE  IInv'
<1>0. ShapeInv /\ StageAt(o) /\ op[o].pc = "get" /\ Creating(o)
  BY DEF IInv, StageInv, GetUser, Creating
<1>1. PICK p \in {"error", "addSecret", "list"} :
        /\ Goto(o, p)
        /\ p = "addSecret" <=> p # "error" /\ op[o].req.kind = "Onboard"
  BY DEF GetUser
<1>2. UNCHANGED <<exists, ids, user, human, auths, password, secret, delivered>>
  BY DEF GetUser, zitadel
<1>3. p # "error" => StageAt(o)'
  <2> SUFFICES ASSUME p # "error" PROVE StageAt(o)'
    OBVIOUS
  <2>1. /\ op'[o].pc = p /\ op'[o].req = op[o].req /\ op'[o].uid = op[o].uid
        /\ op'[o].pid = op[o].pid /\ op'[o].found = op[o].found
    BY <1>0, <1>1, GotoEffect DEF PCs
  <2> QED
    BY <1>0, <1>1, <1>2, <2>1 DEF StageAt, Onboards
<1> QED
  BY <1>0, <1>1, <1>2, <1>3, QuietGoto DEF PCs

\* The authorizations of one page that are the user's.
LEMMA ListIInv ==
    ASSUME IInv, NEW o \in Ops, List(o)
    PROVE  IInv'
<1>0. TypeOK /\ ShapeInv /\ StageAt(o) /\ FreshInv /\ op[o].pc = "list"
  BY DEF IInv, StageInv, List
<1>1. PICK page \in Pages :
        LET mine == {a \in page : /\ a.user = op[o].uid
                                  /\ op[o].req.kind \in Onboards => a.project = op[o].pid}
        IN  op' = [op EXCEPT
              ![o].found = mine,
              ![o].pc = IF op[o].req.kind \in Onboards /\ Reconciled(mine, op[o].req.roles)
                          THEN "setMetadata" ELSE "delete"]
  BY DEF List
<1> DEFINE mine == {a \in page : /\ a.user = op[o].uid
                                 /\ op[o].req.kind \in Onboards => a.project = op[o].pid}
<1>2. page \subseteq auths
  <2>1. CASE Pages = {auths}
    BY <2>1
  <2>2. CASE Pages = kSubset(PageSize, auths)
    BY <2>2 DEF kSubset
  <2> QED
    BY <2>1, <2>2 DEF Pages
<1>3. /\ mine \subseteq Grants /\ mine \subseteq auths
      /\ op[o].req.kind \in Onboards => \A a \in mine : a.project = op[o].pid
  BY <1>0, <1>2 DEF ShapeInv
<1>4. PICK p \in {"setMetadata", "delete"} :
        op' = [op EXCEPT ![o].found = mine, ![o].pc = p]
  BY <1>1
<1> HIDE DEF mine
<1>5. /\ op \in [Ops -> Operations] /\ op[o] \in Operations
      /\ UNCHANGED <<exists, ids, user, human, auths, password, secret, delivered>>
  BY <1>0 DEF ShapeInv, List, zitadel
<1>6. /\ op' \in [Ops -> Operations] /\ \A q \in Ops \ {o} : op'[q] = op[q]
      /\ op'[o].pc = p /\ op'[o].req = op[o].req /\ op'[o].uid = op[o].uid
      /\ op'[o].pid = op[o].pid /\ op'[o].secret = op[o].secret /\ op'[o].found = mine
  BY <1>3, <1>4, <1>5 DEF Operations, PCs
<1>7. op[o].req.kind \in Onboards => \A a \in mine : a.project = op[o].req.project
  <2>1. \A a \in auths : a.project \in Projects
    BY <1>0 DEF TypeOK
  <2> QED
    BY <2>1, <1>0, <1>3, ProvisioningAssumption DEF StageAt
<1>8. StageAt(o)'
  BY <1>0, <1>6, <1>7 DEF StageAt
<1>9. op'[o].uid <= ids /\ op'[o].found \subseteq Known
  BY <1>0, <1>3, <1>6 DEF FreshInv, Known
<1>10. /\ Minting(o)' => Minting(o) /\ op'[o].uid = op[o].uid /\ op'[o].secret = op[o].secret
       /\ ~Creating(o)'
  BY <1>6 DEF Minting, Creating
<1>11. exists' \subseteq Projects
  BY <1>0, <1>5 DEF TypeOK
<1> QED
  BY <1>5, <1>6, <1>8, <1>9, <1>10, <1>11, Quieter DEF Same

\* Steps after which an operation goes on with what it has.
LEMMA GoesOnIInv ==
    ASSUME IInv, NEW o \in Ops, Deleted(o) \/ SetMetadata(o) \/ DeleteMetadata(o) \/ Abort(o)
    PROVE  IInv'
<1>0. ShapeInv /\ StageAt(o)
  BY DEF IInv, StageInv
<1>1. /\ op[o].pc # "idle" /\ op[o].pc # "ok"
      /\ UNCHANGED <<exists, ids, user, human, auths, password, secret, delivered>>
  BY DEF Deleted, SetMetadata, DeleteMetadata, Abort, Active, zitadel
<1>2. \E p \in {"error", "deleteMetadata", "setMetadata", "grant", "finish", "deleteUser"} :
        /\ Goto(o, p)
        /\ p # "error" => op[o].pc \in {"delete", "setMetadata", "deleteMetadata"}
        /\ p = "grant" => op[o].req.kind \in Onboards
        /\ p = "deleteUser" => op[o].req.kind = "DeleteUser"
  <2>1. CASE Deleted(o)
    <3>1. op[o].req.kind \in Onboards \cup Revokes
      BY <2>1, <1>0, <1>1, ProvisioningAssumption DEF StageAt, Onboards, Revokes, Deleted
    <3> QED
      BY <2>1, <3>1, <1>0 DEF Deleted
  <2>2. CASE SetMetadata(o)
    BY <2>2 DEF SetMetadata
  <2>3. CASE DeleteMetadata(o)
    BY <2>3 DEF DeleteMetadata
  <2>4. CASE Abort(o)
    BY <2>4 DEF Abort
  <2> QED
    BY <2>1, <2>2, <2>3, <2>4
<1>3. PICK p \in {"error", "deleteMetadata", "setMetadata", "grant", "finish", "deleteUser"} :
        /\ Goto(o, p)
        /\ p # "error" => op[o].pc \in {"delete", "setMetadata", "deleteMetadata"}
        /\ p = "grant" => op[o].req.kind \in Onboards
        /\ p = "deleteUser" => op[o].req.kind = "DeleteUser"
  BY <1>2
<1>4. p # "error" => StageAt(o)'
  <2> SUFFICES ASSUME p # "error" PROVE StageAt(o)'
    OBVIOUS
  <2>1. /\ op'[o].pc = p /\ op'[o].req = op[o].req /\ op'[o].uid = op[o].uid
        /\ op'[o].pid = op[o].pid /\ op'[o].found = op[o].found
    BY <1>0, <1>3, GotoEffect DEF PCs
  <2> QED
    BY <1>0, <1>3, <2>1 DEF StageAt
<1> QED
  BY <1>1, <1>3, <1>4, QuietGoto DEF PCs

\* Starting over, and a project that somebody creates.
LEMMA OutsideIInv ==
    /\ \A o \in Ops : IInv /\ Again(o) => IInv'
    /\ \A p \in Projects : IInv /\ ProjectCreated(p) => IInv'
<1>1. ASSUME NEW o \in Ops, IInv, Again(o) PROVE IInv'
  <2>0. TypeOK /\ ShapeInv
    BY <1>1 DEF IInv
  <2>1. /\ UNCHANGED <<exists, ids, user, human, auths, password, secret, delivered>>
        /\ op' = [op EXCEPT ![o] = Idle] /\ op \in [Ops -> Operations]
    BY <1>1, <2>0 DEF Again, zitadel, ShapeInv
  <2>2. op' \in [Ops -> Operations] /\ op'[o] = Idle /\ \A q \in Ops \ {o} : op'[q] = op[q]
    BY <2>1, IdleTyped
  <2>3. StageAt(o)' /\ op'[o].uid <= ids /\ op'[o].found \subseteq Known
        /\ ~Minting(o)' /\ ~Creating(o)' /\ exists' \subseteq Projects
    BY <2>0, <2>1, <2>2 DEF StageAt, Idle, Minting, Creating, TypeOK
  <2> QED
    BY <1>1, <2>1, <2>2, <2>3, Quieter DEF Same
<1>2. ASSUME NEW p \in Projects, IInv, ProjectCreated(p) PROVE IInv'
  <2>1. /\ UNCHANGED <<ids, user, human, auths, password, secret, op, delivered>>
        /\ exists' = exists \cup {p}
    BY <1>2 DEF ProjectCreated, zitadel
  <2> QED
    BY <1>2, <2>1 DEF IInv, TypeOK, ShapeInv, Grants, Ids, StageInv, StageAt, Exists,
       FreshInv, Known, SecretInv, Minting, Creating, DeliveredStaysValid
<1> QED
  BY <1>1, <1>2

-----------------------------------------------------------------------------
(* The calls that change Zitadel                                           *)

\* A call that fails ends the operation.
LEMMA FailureIInv ==
    ASSUME IInv, NEW o \in Ops, op[o].pc # "idle", Goto(o, "error"),
           UNCHANGED <<exists, ids, user, human, auths, password, secret, delivered>>
    PROVE  IInv'
BY QuietGoto

\* The new user has a fresh identifier: nobody else knows of it.
LEMMA CreateUserIInv ==
    ASSUME IInv, NEW o \in Ops, CreateUser(o)
    PROVE  IInv'
<1>0. /\ TypeOK /\ ShapeInv /\ StageInv /\ FreshInv /\ SecretInv /\ DeliveredStaysValid
      /\ op[o].pc = "create"
  BY DEF IInv, CreateUser
<1> DEFINE r == op[o].req
           u == ids + 1
<1>1. CASE Goto(o, "error") /\ UNCHANGED <<ids, user, human, password>>
  BY <1>0, <1>1, FailureIInv DEF CreateUser
<1>2. CASE /\ user[r.name] = 0 /\ ~Full
           /\ ids' = u /\ user' = [user EXCEPT ![r.name] = u]
           /\ IF r.kind = "OnboardHuman"
                THEN human' = human \cup {u} /\ password' = [password EXCEPT ![u] = r.password]
                ELSE UNCHANGED <<human, password>>
           /\ op' = [op EXCEPT ![o].pc = "get", ![o].uid = u]
  <2>1. /\ r \in Requests /\ r.name \in Usernames /\ r.kind \in Onboards
        /\ op[o].secret = 0 /\ op[o].found = {}
        /\ op[o].pid \in {r.project, NoProject}
    BY <1>0, ProvisioningAssumption DEF StageInv, StageAt
  <2>2. /\ ids \in Nat /\ u \in Ids /\ u > ids /\ u # 0 /\ MaxId \in Nat
    BY <1>0, <1>2, ProvisioningAssumption DEF TypeOK, Full, Ids
  <2>3. /\ op \in [Ops -> Operations] /\ op[o] \in Operations
        /\ user \in [Usernames -> 0..MaxId]
        /\ UNCHANGED <<exists, auths, metadata, secret, delivered>>
    BY <1>0 DEF ShapeInv, TypeOK, CreateUser
  <2>4. /\ op' \in [Ops -> Operations] /\ \A q \in Ops \ {o} : op'[q] = op[q]
        /\ op'[o].pc = "get" /\ op'[o].req = r /\ op'[o].uid = u
        /\ op'[o].pid = op[o].pid /\ op'[o].secret = 0 /\ op'[o].found = {}
    <3> DEFINE e == [op[o] EXCEPT !.pc = "get", !.uid = u]
    <3>1. op' = [op EXCEPT ![o] = e]
      BY <1>2
    <3>2. u \in 0..MaxId /\ "get" \in PCs
      BY <2>2 DEF Ids, PCs
    <3> HIDE DEF u
    <3>3. /\ e \in Operations /\ e.pc = "get" /\ e.req = r /\ e.uid = u
          /\ e.pid = op[o].pid /\ e.secret = op[o].secret /\ e.found = op[o].found
      BY <2>3, <3>2 DEF Operations
    <3> HIDE DEF e
    <3> QED
      BY <2>1, <2>3, <3>1, <3>3
  <2>5. \A v : v # u /\ Exists(v)' => Exists(v)
    BY <1>2, <2>1, <2>3 DEF Exists
  <2>6. /\ human \subseteq human' /\ human' \subseteq human \cup {u}
        /\ u \in human' => r.kind = "OnboardHuman"
        /\ r.kind = "OnboardHuman" => u \in human'
    <3>1. u \notin human
      BY <1>0, <2>2 DEF FreshInv
    <3> QED
      BY <1>2, <3>1
  <2>7. /\ password' \in [Ids -> {p.password : p \in Requests} \cup {None}]
        /\ \A v \in Ids \ {u} : password'[v] = password[v]
        /\ password'[u] # None => u \in human'
    BY <1>0, <1>2, <2>1, <2>2, <2>6 DEF ShapeInv, TypeOK, FreshInv
  <2>8. secret[u] = 0
    BY <1>0, <2>2 DEF FreshInv
  <2>9. TypeOK'
    <3>1. /\ exists' \subseteq Projects /\ ids' \in 0..MaxId
          /\ user' \in [Usernames -> 0..MaxId] /\ human' \subseteq Ids
          /\ \A a \in auths' : a.id \in Ids /\ a.project \in Projects
      <4>1. u \in 0..MaxId
        BY <2>2 DEF Ids
      <4>2. user' \in [Usernames -> 0..MaxId] /\ ids' \in 0..MaxId
        BY <1>2, <2>3, <4>1
      <4>3. human' \subseteq Ids
        BY <1>0, <2>2, <2>6 DEF TypeOK
      <4> QED
        BY <1>0, <2>3, <4>2, <4>3 DEF TypeOK, Ids
    <3>2. \A q \in Ops : op'[q].pc \in PCs /\ op'[q].uid \in 0..MaxId
      BY <2>4 DEF Operations
    <3>3. \A v \in Ids : /\ secret'[v] # 0 => v \notin human'
                         /\ password'[v] # None => v \in human'
      BY <1>0, <2>3, <2>6, <2>7, <2>8 DEF TypeOK
    <3> QED
      BY <3>1, <3>2, <3>3 DEF TypeOK, Ids
  <2>10. ShapeInv'
    BY <1>0, <2>3, <2>4, <2>7 DEF ShapeInv, Grants, Ids
  <2>11. StageInv'
    <3>1. StageAt(o)'
      BY <2>1, <2>2, <2>4, <2>6 DEF StageAt, Ids, Onboards
    <3>2. ASSUME NEW q \in Ops, q # o PROVE StageAt(q)'
      <4>1. StageAt(q) /\ op[q].uid # u
        BY <1>0, <2>2, <2>3 DEF StageInv, FreshInv
      <4> QED
        BY <3>2, <4>1, <2>4, <2>5, <2>6 DEF StageAt, Ids
    <3> QED
      BY <3>1, <3>2 DEF StageInv
  <2>12. FreshInv'
    <3>1. Known' \subseteq Known
      BY <2>3, <2>4 DEF Known
    <3>2. /\ \A n \in Usernames : user'[n] <= ids'
          /\ \A q \in Ops : op'[q].uid <= ids'
          /\ \A v \in human' : v <= ids'
      <4>1. \A n \in Usernames : user[n] \in Int /\ user[n] <= ids
        BY <1>0 DEF TypeOK, FreshInv
      <4>2. \A q \in Ops : op[q].uid \in Int /\ op[q].uid <= ids
        BY <1>0 DEF TypeOK, FreshInv
      <4>3. \A v \in human : v \in Int /\ v <= ids
        BY <1>0 DEF TypeOK, FreshInv, Ids
      <4> QED
        BY <1>2, <2>1, <2>2, <2>3, <2>4, <2>6, <4>1, <4>2, <4>3
    <3>3. \A v \in Ids : secret'[v] # 0 \/ password'[v] # None => v <= ids'
      BY <1>0, <1>2, <2>2, <2>3, <2>7 DEF FreshInv, Ids
    <3>4. \A a \in Known : a.id <= ids'
      <4>1. \A a \in Known : a.id \in Ids
        BY <1>0, ProvisioningAssumption DEF ShapeInv, Known, Operations, Grants, Ids
      <4> QED
        BY <4>1, <1>0, <1>2, <2>2 DEF FreshInv, Ids
    <3> QED
      BY <1>0, <3>1, <3>2, <3>3, <3>4 DEF FreshInv, Ids
  <2>13. SecretInv'
    <3>1. \A q \in Ops \ {o} : /\ op'[q] = op[q] /\ op[q].uid # u
                               /\ Minting(q)' <=> Minting(q)
                               /\ Creating(q)' <=> Creating(q)
      BY <1>0, <2>2, <2>3, <2>4 DEF FreshInv, Minting, Creating
    <3>2. \A p, q \in Ops : Minting(p)' /\ Minting(q)' /\ op'[q].uid = op'[p].uid => p = q
      BY <1>0, <2>4, <3>1 DEF SecretInv
    <3>3. \A d \in delivered : d[1] # u /\ d[1] <= ids'
      <4>1. \A d \in delivered : d[1] \in Int /\ d[1] <= ids
        BY <1>0 DEF SecretInv, ShapeInv, Ids
      <4> QED
        BY <1>2, <2>2, <4>1
    <3>4. \A q \in Ops : Creating(q)' =>
            op'[q].secret = 0 /\ \A d \in delivered : d[1] # op'[q].uid
      BY <1>0, <2>4, <3>1, <3>3 DEF SecretInv
    <3>5. \A q \in Ops : op'[q].secret # 0 /\ Exists(op[q].uid)'
             => secret[op'[q].uid] = op'[q].secret
      BY <1>0, <2>4, <2>5, <3>1 DEF SecretInv
    <3> QED
      BY <2>3, <3>2, <3>3, <3>4, <3>5 DEF SecretInv
  <2>14. DeliveredStaysValid'
    <3>1. \A d \in delivered : d[1] # u
      BY <1>0, <2>2 DEF SecretInv, ShapeInv, Ids
    <3> QED
      BY <1>0, <2>3, <2>5, <3>1 DEF DeliveredStaysValid
  <2> QED
    BY <2>9, <2>10, <2>11, <2>12, <2>13, <2>14 DEF IInv
<1> QED
  BY <1>1, <1>2 DEF CreateUser

\* The secret goes to a user that is this operation's own.
LEMMA AddSecretIInv ==
    ASSUME IInv, NEW o \in Ops, AddSecret(o)
    PROVE  IInv'
<1>0. /\ TypeOK /\ ShapeInv /\ StageInv /\ FreshInv /\ SecretInv /\ DeliveredStaysValid
      /\ op[o].pc = "addSecret" /\ StageAt(o)
  BY DEF IInv, AddSecret, StageInv
<1> DEFINE u == op[o].uid
           k == ids + 1
<1>1. CASE Goto(o, "error") /\ UNCHANGED <<ids, secret>>
  BY <1>0, <1>1, FailureIInv DEF AddSecret
<1>2. CASE /\ ~Full /\ ids' = k /\ secret' = [secret EXCEPT ![u] = k]
           /\ op' = [op EXCEPT ![o].pc = "list", ![o].secret = k]
  <2>1. /\ u \in Ids /\ op[o].req \in Requests /\ op[o].req.kind = "Onboard" /\ u \notin human
        /\ op[o].found = op[o].found /\ op[o].secret = 0 /\ Minting(o) /\ Creating(o)
    BY <1>0 DEF StageAt, SecretInv, Creating, Minting
  <2>2. /\ ids \in Nat /\ k \in Ids /\ k > ids /\ k # 0 /\ MaxId \in Nat /\ u <= ids
    BY <1>0, <1>2, ProvisioningAssumption DEF TypeOK, Full, Ids, FreshInv
  <2>3. /\ op \in [Ops -> Operations] /\ op[o] \in Operations /\ secret \in [Ids -> 0..MaxId]
        /\ UNCHANGED <<exists, user, human, auths, metadata, password, delivered>>
    BY <1>0 DEF ShapeInv, AddSecret
  <2>4. /\ op' \in [Ops -> Operations] /\ \A q \in Ops \ {o} : op'[q] = op[q]
        /\ op'[o].pc = "list" /\ op'[o].req = op[o].req /\ op'[o].uid = u
        /\ op'[o].pid = op[o].pid /\ op'[o].secret = k /\ op'[o].found = op[o].found
    <3> DEFINE e == [op[o] EXCEPT !.pc = "list", !.secret = k]
    <3>1. op' = [op EXCEPT ![o] = e]
      BY <1>2
    <3>2. k \in 0..MaxId /\ "list" \in PCs
      BY <2>2 DEF Ids, PCs
    <3> HIDE DEF k
    <3>3. /\ e \in Operations /\ e.pc = "list" /\ e.req = op[o].req /\ e.uid = u
          /\ e.pid = op[o].pid /\ e.secret = k /\ e.found = op[o].found
      BY <2>3, <3>2 DEF Operations
    <3> HIDE DEF e
    <3> QED
      BY <2>3, <3>1, <3>3
  <2>5. /\ secret' \in [Ids -> 0..MaxId] /\ secret'[u] = k
        /\ \A v \in Ids \ {u} : secret'[v] = secret[v]
    BY <1>2, <2>1, <2>2, <2>3 DEF Ids
  <2>6. \A v : Exists(v)' <=> Exists(v)
    BY <2>3 DEF Exists
  <2>7. TypeOK'
    <3>1. ids' \in 0..MaxId
      BY <1>2, <2>2 DEF Ids
    <3>2. \A q \in Ops : op'[q].pc \in PCs /\ op'[q].uid \in 0..MaxId
      BY <2>4 DEF Operations
    <3>3. \A v \in Ids : secret'[v] # 0 => v \notin human
      BY <1>0, <2>1, <2>5 DEF TypeOK
    <3> QED
      BY <1>0, <2>3, <3>1, <3>2, <3>3 DEF TypeOK, Ids
  <2>8. ShapeInv'
    BY <1>0, <2>3, <2>4, <2>5 DEF ShapeInv, Grants, Ids
  <2>9. StageInv'
    <3>1. StageAt(o)'
      BY <1>0, <2>1, <2>4 DEF StageAt, Ids
    <3>2. ASSUME NEW q \in Ops, q # o PROVE StageAt(q)'
      <4>1. StageAt(q)
        BY <1>0 DEF StageInv
      <4> QED
        BY <3>2, <4>1, <2>3, <2>4, <2>6 DEF StageAt, Ids
    <3> QED
      BY <3>1, <3>2 DEF StageInv
  <2>10. FreshInv'
    <3>1. Known' = Known
      <4>1. \A q \in Ops : op'[q].found = op[q].found
        BY <2>4
      <4> QED
        BY <4>1, <2>3 DEF Known
    <3>2. \A x \in Int : x <= ids => x <= ids'
      BY <1>2, <2>2
    <3>3. /\ \A n \in Usernames : user[n] \in Int
          /\ \A q \in Ops : op[q].uid \in Int /\ op'[q].uid = op[q].uid
          /\ \A v \in Ids : v \in Int
          /\ \A a \in Known : a.id \in Int
      <4>1. \A a \in Known : a.id \in Ids
        BY <1>0, ProvisioningAssumption DEF ShapeInv, Known, Operations, Grants, Ids
      <4> QED
        BY <1>0, <2>4, <4>1 DEF TypeOK, Ids
    <3>4. \A v \in Ids : secret'[v] # 0 \/ password[v] # None => v <= ids
      <4>1. \A v \in Ids : secret[v] # 0 \/ password[v] # None => v <= ids
        BY <1>0 DEF FreshInv
      <4> HIDE DEF u, k
      <4> QED
        BY <2>2, <2>5, <4>1
    <3>5. \A v \in human : v \in Int
      <4>1. human \subseteq Ids
        BY <1>0 DEF TypeOK
      <4> QED
        BY <3>3, <4>1
    <3>6. /\ \A n \in Usernames : user[n] <= ids
          /\ \A q \in Ops : op[q].uid <= ids
          /\ \A v \in human : v <= ids
          /\ \A a \in Known : a.id <= ids /\ \A b \in Known : a.id = b.id => a = b
      BY <1>0 DEF FreshInv
    <3>7. /\ \A n \in Usernames : user'[n] <= ids'
          /\ \A q \in Ops : op'[q].uid <= ids'
          /\ \A v \in human' : v <= ids'
      BY <2>3, <3>2, <3>3, <3>5, <3>6
    <3>8. \A v \in Ids : secret'[v] # 0 \/ password'[v] # None => v <= ids'
      BY <2>3, <3>2, <3>3, <3>4
    <3>9. \A a \in Known' : a.id <= ids' /\ \A b \in Known' : a.id = b.id => a = b
      BY <3>1, <3>2, <3>3, <3>6
    <3> QED
      BY <3>7, <3>8, <3>9 DEF FreshInv, Ids
  <2>11. SecretInv'
    <3>1. \A q \in Ops : /\ op'[q].uid = op[q].uid
                         /\ Minting(q)' <=> Minting(q)
                         /\ Creating(q)' => Creating(q) /\ q # o
      BY <2>1, <2>2, <2>4 DEF Minting, Creating
    <3>2. \A p, q \in Ops : Minting(p)' /\ Minting(q)' /\ op'[q].uid = op'[p].uid => p = q
      BY <1>0, <3>1 DEF SecretInv
    <3>3. \A q \in Ops : Creating(q)' =>
            op'[q].secret = 0 /\ \A d \in delivered : d[1] # op'[q].uid
      BY <1>0, <2>4, <3>1 DEF SecretInv
    <3>4. \A q \in Ops : op'[q].secret # 0 /\ Exists(op[q].uid)
             => secret'[op'[q].uid] = op'[q].secret
      <4> SUFFICES ASSUME NEW q \in Ops, op'[q].secret # 0, Exists(op[q].uid)
                   PROVE  secret'[op[q].uid] = op'[q].secret
        BY <3>1
      <4>1. CASE q = o
        BY <4>1, <2>4, <2>5
      <4>2. CASE q # o
        <5>1. Minting(q) /\ op[q].secret # 0 /\ op'[q] = op[q] /\ op[q].uid # u
          BY <4>2, <1>0, <2>1, <2>4 DEF SecretInv, Minting
        <5>2. op[q].uid \in Ids
          BY <5>1, <1>0 DEF StageInv, StageAt
        <5> QED
          BY <5>1, <5>2, <1>0, <2>5 DEF SecretInv
      <4> QED
        BY <4>1, <4>2
    <3>5. \A d \in delivered : d[1] <= ids'
      <4>1. \A d \in delivered : d[1] \in Int /\ d[1] <= ids
        BY <1>0 DEF SecretInv, ShapeInv, Ids
      <4> QED
        BY <1>2, <2>2, <4>1
    <3> QED
      BY <2>3, <2>6, <3>1, <3>2, <3>3, <3>4, <3>5 DEF SecretInv
  <2>12. DeliveredStaysValid'
    <3>1. \A d \in delivered : d[1] # u /\ d[1] \in Ids
      BY <1>0, <2>1 DEF SecretInv, ShapeInv
    <3> QED
      BY <1>0, <2>3, <2>5, <2>6, <3>1 DEF DeliveredStaysValid
  <2> QED
    BY <2>7, <2>8, <2>9, <2>10, <2>11, <2>12 DEF IInv
<1> QED
  BY <1>1, <1>2 DEF AddSecret

LEMMA DeleteAuthorizationIInv ==
    ASSUME IInv, NEW o \in Ops, DeleteAuthorization(o)
    PROVE  IInv'
<1>0. /\ TypeOK /\ ShapeInv /\ StageAt(o) /\ FreshInv /\ op[o].pc = "delete"
  BY DEF IInv, StageInv, DeleteAuthorization
<1>1. PICK a \in op[o].found : /\ auths' = {b \in auths : b.id # a.id}
                               /\ op' = [op EXCEPT ![o].found = @ \ {a}]
  BY DEF DeleteAuthorization
<1>2. /\ op \in [Ops -> Operations] /\ op[o] \in Operations
      /\ UNCHANGED <<exists, ids, user, human, metadata, password, secret, delivered>>
  BY <1>0 DEF ShapeInv, DeleteAuthorization
<1>3. /\ op' \in [Ops -> Operations] /\ \A q \in Ops \ {o} : op'[q] = op[q]
      /\ op'[o].pc = "delete" /\ op'[o].req = op[o].req /\ op'[o].uid = op[o].uid
      /\ op'[o].pid = op[o].pid /\ op'[o].secret = op[o].secret
      /\ op'[o].found = op[o].found \ {a}
  <2> DEFINE f == op[o].found \ {a}
             e == [op[o] EXCEPT !.found = f]
  <2>1. op' = [op EXCEPT ![o] = e]
    BY <1>1
  <2>2. f \subseteq Grants
    BY <1>2 DEF Operations
  <2> HIDE DEF f
  <2>3. /\ e \in Operations /\ e.pc = op[o].pc /\ e.req = op[o].req /\ e.uid = op[o].uid
        /\ e.pid = op[o].pid /\ e.secret = op[o].secret /\ e.found = f
    BY <1>2, <2>2 DEF Operations
  <2> HIDE DEF e
  <2> QED
    BY <1>0, <1>2, <2>1, <2>3 DEF f
<1>4. StageAt(o)'
  BY <1>0, <1>3 DEF StageAt
<1>5. /\ op'[o].uid <= ids /\ op'[o].found \subseteq Known
      /\ Minting(o)' => Minting(o) /\ op'[o].uid = op[o].uid /\ op'[o].secret = op[o].secret
      /\ ~Creating(o)' /\ exists' \subseteq Projects /\ auths' \subseteq auths
  BY <1>0, <1>1, <1>2, <1>3 DEF FreshInv, Known, Minting, Creating, TypeOK
<1>6. /\ password' \in [Ids -> {r.password : r \in Requests} \cup {None}]
      /\ \A v \in Ids : password'[v] # None => password[v] # None \/ v \in human
  BY <1>0, <1>2 DEF ShapeInv
<1> QED
  BY <1>2, <1>3, <1>4, <1>5, <1>6, Quiet DEF Same

LEMMA SetPasswordIInv ==
    ASSUME IInv, NEW o \in Ops, SetPassword(o)
    PROVE  IInv'
<1>0. /\ TypeOK /\ ShapeInv /\ StageAt(o) /\ FreshInv /\ op[o].pc = "setPassword"
  BY DEF IInv, StageInv, SetPassword
<1> DEFINE u == op[o].uid
<1>1. CASE Goto(o, "error") /\ UNCHANGED password
  BY <1>0, <1>1, FailureIInv DEF SetPassword
<1>2. CASE /\ Exists(u) /\ Goto(o, "finish")
           /\ password' = [password EXCEPT ![u] = op[o].req.password]
  <2>1. /\ u \in human /\ u \in Ids /\ op[o].req \in Requests /\ op[o].req.kind = "Reset"
        /\ UNCHANGED <<exists, ids, user, human, auths, metadata, secret, delivered>>
    BY <1>0, <1>2 DEF StageAt, SetPassword
  <2>2. /\ op' \in [Ops -> Operations] /\ \A q \in Ops \ {o} : op'[q] = op[q]
        /\ op'[o].pc = "finish" /\ op'[o].req = op[o].req /\ op'[o].uid = u
        /\ op'[o].pid = op[o].pid /\ op'[o].secret = op[o].secret /\ op'[o].found = op[o].found
    BY <1>0, <1>2, GotoEffect DEF PCs
  <2>3. /\ password' \in [Ids -> {r.password : r \in Requests} \cup {None}]
        /\ \A v \in Ids : password'[v] # None => password[v] # None \/ v \in human
    BY <1>0, <1>2, <2>1 DEF ShapeInv
  <2>4. StageAt(o)'
    BY <1>0, <2>1, <2>2 DEF StageAt, Onboards
  <2>5. /\ op'[o].uid <= ids /\ op'[o].found \subseteq Known
        /\ Minting(o)' => Minting(o) /\ op'[o].uid = op[o].uid /\ op'[o].secret = op[o].secret
        /\ ~Creating(o)' /\ exists' \subseteq Projects /\ auths' \subseteq auths
    BY <1>0, <2>1, <2>2 DEF FreshInv, Known, Minting, Creating, TypeOK
  <2> QED
    BY <2>1, <2>2, <2>3, <2>4, <2>5, Quiet DEF Same
<1> QED
  BY <1>1, <1>2 DEF SetPassword

\* The new authorization has a fresh identifier and the project asked for.
LEMMA CreateAuthorizationIInv ==
    ASSUME IInv, NEW o \in Ops, CreateAuthorization(o)
    PROVE  IInv'
<1>0. /\ TypeOK /\ ShapeInv /\ StageInv /\ FreshInv /\ SecretInv /\ DeliveredStaysValid
      /\ op[o].pc = "grant" /\ StageAt(o)
  BY DEF IInv, CreateAuthorization, StageInv
<1> DEFINE u == op[o].uid
           k == ids + 1
           new == [id |-> k, user |-> u, project |-> op[o].pid, roles |-> op[o].req.roles]
<1>1. CASE Goto(o, "error") /\ UNCHANGED <<ids, auths>>
  BY <1>0, <1>1, FailureIInv DEF CreateAuthorization
<1>2. CASE /\ op[o].pid # NoProject /\ ~Full
           /\ ids' = k /\ auths' = auths \cup {new} /\ Goto(o, "setMetadata")
  <2>1. /\ u \in Ids /\ op[o].req \in Requests /\ op[o].req.kind \in Onboards
        /\ op[o].pid \in Projects
    BY <1>0, <1>2 DEF StageAt, ShapeInv, Operations
  <2>2. /\ ids \in Nat /\ k \in Ids /\ k > ids /\ MaxId \in Nat
    BY <1>0, <1>2, ProvisioningAssumption DEF TypeOK, Full, Ids
  <2>3. /\ op \in [Ops -> Operations]
        /\ UNCHANGED <<exists, user, human, metadata, password, secret, delivered>>
    BY <1>0 DEF ShapeInv, CreateAuthorization
  <2>4. /\ op' \in [Ops -> Operations] /\ \A q \in Ops \ {o} : op'[q] = op[q]
        /\ op'[o].pc = "setMetadata" /\ op'[o].req = op[o].req /\ op'[o].uid = u
        /\ op'[o].pid = op[o].pid /\ op'[o].secret = op[o].secret /\ op'[o].found = op[o].found
    BY <1>0, <1>2, GotoEffect DEF PCs
  <2>5. new \in Grants /\ new.id = k /\ new.project \in Projects
    <3>1. u \in 0..MaxId
      BY <2>1, <2>2 DEF Ids
    <3> HIDE DEF u, k
    <3>2. new \in {[id |-> i, user |-> v, project |-> p, roles |-> r.roles] :
                     i \in Ids, v \in 0..MaxId, p \in Projects, r \in Requests}
      BY <2>1, <2>2, <3>1
    <3>3. new.id = k /\ new.project \in Projects
      BY <2>1
    <3> HIDE DEF new
    <3> QED
      BY <3>2, <3>3 DEF Grants
  <2>6. \A v : Exists(v)' <=> Exists(v)
    BY <2>3 DEF Exists
  <2> HIDE DEF new
  <2>7. TypeOK'
    <3>1. ids' \in 0..MaxId
      BY <1>2, <2>2 DEF Ids
    <3>2. \A q \in Ops : op'[q].pc \in PCs /\ op'[q].uid \in 0..MaxId
      BY <2>4 DEF Operations
    <3>3. \A a \in auths' : a.id \in Ids /\ a.project \in Projects
      BY <1>0, <1>2, <2>2, <2>5 DEF TypeOK
    <3> QED
      BY <1>0, <2>3, <3>1, <3>2, <3>3 DEF TypeOK, Ids
  <2>8. ShapeInv'
    <3>1. auths' \subseteq Grants
      BY <1>0, <1>2, <2>5 DEF ShapeInv
    <3> QED
      BY <1>0, <2>3, <2>4, <3>1 DEF ShapeInv, Grants, Ids
  <2>9. StageInv'
    <3>1. StageAt(o)'
      BY <1>0, <2>1, <2>4 DEF StageAt, Ids
    <3>2. ASSUME NEW q \in Ops, q # o PROVE StageAt(q)'
      <4>1. StageAt(q)
        BY <1>0 DEF StageInv
      <4> QED
        BY <3>2, <4>1, <2>3, <2>4, <2>6 DEF StageAt, Ids
    <3> QED
      BY <3>1, <3>2 DEF StageInv
  <2>10. FreshInv'
    <3>1. Known' = Known \cup {new}
      <4>1. \A q \in Ops : op'[q].found = op[q].found
        BY <2>4
      <4> QED
        BY <4>1, <1>2 DEF Known
    <3>2. \A x \in Int : x <= ids => x <= ids'
      BY <1>2, <2>2
    <3>3. /\ \A n \in Usernames : user[n] \in Int
          /\ \A q \in Ops : op[q].uid \in Int /\ op'[q].uid = op[q].uid
          /\ \A v \in Ids : v \in Int
          /\ \A a \in Known : a.id \in Int
      <4>1. \A a \in Known : a.id \in Ids
        BY <1>0, ProvisioningAssumption DEF ShapeInv, Known, Operations, Grants, Ids
      <4> QED
        BY <1>0, <2>4, <4>1 DEF TypeOK, Ids
    <3>4. \A v \in human : v \in Int
      <4>1. human \subseteq 1..MaxId
        BY <1>0 DEF TypeOK, Ids
      <4> QED
        BY <4>1
    <3>5. /\ \A n \in Usernames : user[n] <= ids
          /\ \A q \in Ops : op[q].uid <= ids
          /\ \A v \in human : v <= ids
          /\ \A v \in Ids : secret[v] # 0 \/ password[v] # None => v <= ids
          /\ \A a \in Known : a.id <= ids /\ \A b \in Known : a.id = b.id => a = b
      BY <1>0 DEF FreshInv
    <3>6. /\ \A n \in Usernames : user'[n] <= ids'
          /\ \A q \in Ops : op'[q].uid <= ids'
          /\ \A v \in human' : v <= ids'
      BY <2>3, <3>2, <3>3, <3>4, <3>5
    <3>7. \A v \in Ids : secret'[v] # 0 \/ password'[v] # None => v <= ids'
      BY <2>3, <3>2, <3>3, <3>5
    <3>8. \A a \in Known : a.id <= ids' /\ a.id # k
      BY <2>2, <3>2, <3>3, <3>5
    <3>9. \A a \in Known' : a.id <= ids' /\ \A b \in Known' : a.id = b.id => a = b
      BY <1>2, <2>2, <2>5, <3>1, <3>5, <3>8
    <3> QED
      BY <3>6, <3>7, <3>9 DEF FreshInv, Ids
  <2>11. SecretInv'
    <3>1. \A q \in Ops : /\ op'[q].uid = op[q].uid /\ op'[q].secret = op[q].secret
                         /\ Minting(q)' => Minting(q)
                         /\ Creating(q)' => Creating(q)
      BY <2>4 DEF Minting, Creating
    <3>2. \A d \in delivered : d[1] <= ids'
      <4>1. \A d \in delivered : d[1] \in Int /\ d[1] <= ids
        BY <1>0 DEF SecretInv, ShapeInv, Ids
      <4> QED
        BY <1>2, <2>2, <4>1
    <3> QED
      BY <1>0, <2>3, <2>6, <3>1, <3>2 DEF SecretInv
  <2>12. DeliveredStaysValid'
    BY <1>0, <2>3, <2>6 DEF DeliveredStaysValid
  <2> QED
    BY <2>7, <2>8, <2>9, <2>10, <2>11, <2>12 DEF IInv
<1> QED
  BY <1>1, <1>2 DEF CreateAuthorization

\* The user's identifier is never used again.
LEMMA DeleteUserIInv ==
    ASSUME IInv, NEW o \in Ops, DeleteUser(o)
    PROVE  IInv'
<1>0. /\ TypeOK /\ ShapeInv /\ StageInv /\ FreshInv /\ SecretInv /\ DeliveredStaysValid
      /\ op[o].pc = "deleteUser" /\ StageAt(o)
  BY DEF IInv, DeleteUser, StageInv
<1> DEFINE u == op[o].uid
<1>1. /\ u \in Ids /\ u # 0 /\ op[o].req \in Requests /\ op[o].req.kind = "DeleteUser"
  BY <1>0 DEF StageAt, Ids
<1>2. /\ user' = [n \in Usernames |-> IF user[n] = u THEN 0 ELSE user[n]]
      /\ human' = human \ {u} /\ auths' \subseteq auths
      /\ password' = [password EXCEPT ![u] = None]
      /\ secret' = [secret EXCEPT ![u] = 0]
      /\ Goto(o, "finish")
      /\ UNCHANGED <<exists, ids, delivered>>
  BY DEF DeleteUser
<1>3. /\ op' \in [Ops -> Operations] /\ \A q \in Ops \ {o} : op'[q] = op[q]
      /\ op'[o].pc = "finish" /\ op'[o].req = op[o].req /\ op'[o].uid = u
      /\ op'[o].pid = op[o].pid /\ op'[o].secret = op[o].secret /\ op'[o].found = op[o].found
  BY <1>0, <1>2, GotoEffect DEF PCs
<1> DEFINE Left(v) == \E n \in Usernames : user'[n] = v
<1>4. \A v \in Ids : Left(v) => Exists(v) /\ v # u
  <2>1. 0 \notin Ids /\ \A n \in Usernames : user'[n] = IF user[n] = u THEN 0 ELSE user[n]
    BY <1>2 DEF Ids
  <2> HIDE DEF u
  <2> QED
    BY <1>1, <2>1 DEF Exists
<1>5. /\ secret' \in [Ids -> 0..MaxId] /\ password' \in [Ids -> {r.password : r \in Requests} \cup {None}]
      /\ \A v \in Ids : IF v = u THEN secret'[v] = 0 /\ password'[v] = None
                        ELSE secret'[v] = secret[v] /\ password'[v] = password[v]
  BY <1>0, <1>1, <1>2, ProvisioningAssumption DEF ShapeInv
<1>6. TypeOK'
  <2>1. user' \in [Usernames -> 0..MaxId]
    BY <1>0, <1>2, ProvisioningAssumption DEF TypeOK
  <2>2. \A q \in Ops : op'[q].pc \in PCs /\ op'[q].uid \in 0..MaxId
    BY <1>3 DEF Operations
  <2>3. \A v \in Ids : /\ secret'[v] # 0 => v \notin human'
                       /\ password'[v] # None => v \in human'
    BY <1>0, <1>2, <1>5 DEF TypeOK
  <2> QED
    BY <1>0, <1>2, <2>1, <2>2, <2>3 DEF TypeOK, Ids
<1>7. ShapeInv'
  BY <1>0, <1>2, <1>3, <1>5 DEF ShapeInv, Grants, Ids
<1>8. StageInv'
  <2>1. StageAt(o)'
    BY <1>0, <1>1, <1>3 DEF StageAt, Ids
  <2>2. ASSUME NEW q \in Ops, q # o PROVE StageAt(q)'
    <3>1. StageAt(q)
      BY <1>0 DEF StageInv
    <3>2. op'[q] = op[q] /\ human' \subseteq human
      BY <2>2, <1>2, <1>3
    <3>3. op[q].uid \in Ids /\ Exists(op[q].uid)'
             => Exists(op[q].uid) /\ (op[q].uid \in human => op[q].uid \in human')
      <4>1. Exists(op[q].uid)' => Left(op[q].uid)
        BY <3>2 DEF Exists
      <4> QED
        BY <4>1, <1>2, <1>4
    <3> HIDE DEF u
    <3> QED
      BY <3>1, <3>2, <3>3 DEF StageAt
  <2> QED
    BY <2>1, <2>2 DEF StageInv
<1>9. FreshInv'
  <2>1. Known' \subseteq Known
    <3>1. \A q \in Ops : op'[q].found = op[q].found
      BY <1>3
    <3> QED
      BY <3>1, <1>2 DEF Known
  <2>2. \A n \in Usernames : user'[n] <= ids'
    BY <1>0, <1>2 DEF TypeOK, FreshInv
  <2>3. /\ \A q \in Ops : op'[q].uid <= ids'
        /\ \A v \in human' : v <= ids'
        /\ \A v \in Ids : secret'[v] # 0 \/ password'[v] # None => v <= ids'
    BY <1>0, <1>2, <1>3, <1>5 DEF FreshInv
  <2> QED
    BY <1>0, <1>2, <2>1, <2>2, <2>3 DEF FreshInv, Ids
<1>10. SecretInv'
  <2>1. \A q \in Ops : /\ op'[q].uid = op[q].uid /\ op'[q].secret = op[q].secret
                       /\ Minting(q)' => Minting(q)
                       /\ Creating(q)' => Creating(q)
    BY <1>3 DEF Minting, Creating
  <2>2. \A q \in Ops : op'[q].secret # 0 /\ Left(op'[q].uid)
           => secret'[op'[q].uid] = op'[q].secret
    <3> SUFFICES ASSUME NEW q \in Ops, op[q].secret # 0, Left(op[q].uid)
                 PROVE  secret'[op[q].uid] = op[q].secret
      BY <2>1
    <3>1. op[q].uid \in Ids
      BY <1>0 DEF StageInv, StageAt
    <3>2. Exists(op[q].uid) /\ op[q].uid # u
      BY <3>1, <1>4
    <3>3. secret[op[q].uid] = op[q].secret
      BY <3>2, <1>0 DEF SecretInv
    <3> HIDE DEF u
    <3> QED
      BY <3>1, <3>2, <3>3, <1>5
  <2>3. \A q \in Ops : op'[q].secret # 0 /\ Exists(op[q].uid)'
           => secret'[op'[q].uid] = op'[q].secret
    BY <2>2 DEF Exists
  <2> QED
    BY <1>0, <1>2, <2>1, <2>3 DEF SecretInv
<1>11. DeliveredStaysValid'
  <2>1. \A d \in delivered : d[1] \in Ids
    BY <1>0 DEF ShapeInv
  <2> QED
    BY <2>1, <1>0, <1>2, <1>4, <1>5 DEF DeliveredStaysValid, Exists
<1> QED
  BY <1>6, <1>7, <1>8, <1>9, <1>10, <1>11 DEF IInv

\* The secret that is handed out is the one the user has, if it still exists.
LEMMA FinishIInv ==
    ASSUME IInv, NEW o \in Ops, Finish(o)
    PROVE  IInv'
<1>0. /\ TypeOK /\ ShapeInv /\ StageInv /\ FreshInv /\ SecretInv /\ DeliveredStaysValid
      /\ op[o].pc = "finish" /\ StageAt(o)
  BY DEF IInv, Finish, StageInv
<1> DEFINE u == op[o].uid
           k == op[o].secret
           e == [Idle EXCEPT !.pc = "ok", !.req = op[o].req, !.alone = op[o].alone]
<1>1. /\ op' = [op EXCEPT ![o] = e]
      /\ delivered' = delivered \cup (IF k = 0 THEN {} ELSE {<<u, k>>})
      /\ UNCHANGED <<exists, ids, user, human, auths, metadata, password, secret>>
  BY DEF Finish, zitadel
<1>2. /\ u \in Ids /\ op[o].req \in Requests /\ op[o] \in Operations /\ op \in [Ops -> Operations]
      /\ k \in 0..MaxId
  BY <1>0 DEF StageAt, ShapeInv, Operations
<1>3. /\ e \in Operations /\ e.pc = "ok" /\ e.req = op[o].req /\ e.uid = 0
      /\ e.secret = 0 /\ e.found = {}
  <2>1. Idle \in Operations /\ Idle.secret = 0 /\ Idle.found = {} /\ Idle.uid = 0
    BY IdleTyped DEF Idle
  <2> QED
    BY <1>2, <2>1 DEF Operations, PCs
<1> HIDE DEF e
<1>4. op' \in [Ops -> Operations] /\ op'[o] = e /\ \A q \in Ops \ {o} : op'[q] = op[q]
  BY <1>1, <1>2, <1>3
<1>5. \A v : Exists(v)' <=> Exists(v)
  BY <1>1 DEF Exists
<1>6. TypeOK'
  <2>1. \A q \in Ops : op'[q].pc \in PCs /\ op'[q].uid \in 0..MaxId
    BY <1>4 DEF Operations
  <2> QED
    BY <1>0, <1>1, <2>1 DEF TypeOK, Ids
<1>7. ShapeInv'
  <2>1. k # 0 => k \in Ids
    BY <1>2, ProvisioningAssumption DEF Ids
  <2>2. delivered' \subseteq Ids \X Ids
    BY <1>0, <1>1, <1>2, <2>1 DEF ShapeInv
  <2> QED
    BY <1>0, <1>1, <1>4, <2>2 DEF ShapeInv, Grants, Ids
<1>8. StageInv'
  <2>1. StageAt(o)'
    BY <1>2, <1>3, <1>4 DEF StageAt
  <2>2. ASSUME NEW q \in Ops, q # o PROVE StageAt(q)'
    <3>1. StageAt(q)
      BY <1>0 DEF StageInv
    <3> QED
      BY <2>2, <3>1, <1>1, <1>4, <1>5 DEF StageAt, Ids
  <2> QED
    BY <2>1, <2>2 DEF StageInv
<1>9. FreshInv'
  <2>1. Known' \subseteq Known
    <3>1. \A q \in Ops : op'[q].found \subseteq op[q].found
      BY <1>3, <1>4
    <3> QED
      BY <3>1, <1>1 DEF Known
  <2>2. \A q \in Ops : op'[q].uid <= ids'
    BY <1>0, <1>1, <1>3, <1>4 DEF TypeOK, FreshInv
  <2> QED
    BY <1>0, <1>1, <2>1, <2>2 DEF FreshInv, Ids
<1>10. ~Minting(o)' /\ ~Creating(o)' /\ op'[o].secret = 0
  BY <1>3, <1>4 DEF Minting, Creating
<1>11. \A q \in Ops \ {o} : op'[q] = op[q] /\ (Minting(q)' <=> Minting(q))
                            /\ (Creating(q)' <=> Creating(q))
  BY <1>4 DEF Minting, Creating
<1>12. SecretInv'
  <2>1. \A p, q \in Ops : Minting(p)' /\ Minting(q)' /\ op'[q].uid = op'[p].uid => p = q
    BY <1>0, <1>10, <1>11 DEF SecretInv
  <2>2. \A q \in Ops : Creating(q)' =>
          op'[q].secret = 0 /\ \A d \in delivered' : d[1] # op'[q].uid
    <3> SUFFICES ASSUME NEW q \in Ops, Creating(q)'
                 PROVE  op'[q].secret = 0 /\ \A d \in delivered' : d[1] # op'[q].uid
      OBVIOUS
    <3>1. q # o /\ op'[q] = op[q] /\ Creating(q) /\ Minting(q)
      BY <1>10, <1>11 DEF Minting
    <3>2. k # 0 => u # op[q].uid
      BY <1>0, <3>1 DEF SecretInv, Minting
    <3> QED
      BY <1>0, <1>1, <3>1, <3>2 DEF SecretInv
  <2>3. \A q \in Ops : op'[q].secret # 0 /\ Exists(op[q].uid)
           => secret[op'[q].uid] = op'[q].secret
    BY <1>0, <1>10, <1>11 DEF SecretInv
  <2>4. \A d \in delivered' : d[1] <= ids
    BY <1>0, <1>1 DEF SecretInv, FreshInv
  <2>5. \A q \in Ops : op'[q].secret # 0 => op'[q].uid = op[q].uid
    BY <1>10, <1>11
  <2> QED
    BY <1>1, <1>5, <2>1, <2>2, <2>3, <2>4, <2>5 DEF SecretInv
<1>13. DeliveredStaysValid'
  BY <1>0, <1>1, <1>5 DEF DeliveredStaysValid, SecretInv
<1> QED
  BY <1>6, <1>7, <1>8, <1>9, <1>12, <1>13 DEF IInv

-----------------------------------------------------------------------------
(* The invariant                                                           *)

\* A nonempty set of naturals has a least element.
LEMMA LeastNatural ==
    ASSUME NEW T, T \subseteq Nat, T # {}
    PROVE  \E i \in T : \A j \in T : i <= j
<1>1. PICK i \in T : \A j \in T : ~(<<j, i>> \in OpToRel(<, Nat))
  BY NatLessThanWellFounded, WFMin, Zenon
<1>2. \A j \in T : ~(j < i)
  BY <1>1 DEF OpToRel
<1> QED
  BY <1>2

\* The greatest identifier of a foreign authorization.
LEMMA GreatestForeign ==
    LET S == {a.id : a \in Foreign} \cup {0} IN
    Max(S) \in 0..MaxId /\ \A x \in S : x <= Max(S)
<1> DEFINE S == {a.id : a \in Foreign} \cup {0}
           T == {MaxId - x : x \in S}
<1>1. S \subseteq 0..MaxId /\ MaxId \in Nat /\ 0 \in S
  BY ProvisioningAssumption
<1> HIDE DEF S
<1>2. T \subseteq Nat /\ T # {}
  BY <1>1
<1>4. PICK i \in T : \A j \in T : i <= j
  BY <1>2, LeastNatural
<1>5. PICK m \in S : i = MaxId - m
  OBVIOUS
<1>6. \A x \in S : m >= x
  <2> TAKE x \in S
  <2>1. MaxId - x \in T /\ x \in Int /\ m \in Int /\ MaxId \in Int
    BY <1>1, <1>5
  <2>2. MaxId - m <= MaxId - x
    BY <2>1, <1>4, <1>5
  <2> QED
    BY <2>1, <2>2
<1>7. Max(S) \in S /\ \A x \in S : Max(S) >= x
  BY <1>6 DEF Max
<1>8. Max(S) \in 0..MaxId /\ \A x \in S : x <= Max(S)
  <2> DEFINE top == Max(S)
  <2>1. top \in S /\ \A x \in S : top >= x /\ x \in Int
    BY <1>1, <1>7
  <2> HIDE DEF top
  <2>2. top \in 0..MaxId /\ \A x \in S : x <= top
    BY <1>1, <2>1
  <2> QED
    BY <2>2 DEF top
<1> QED
  BY <1>8 DEF S

LEMMA InitIInv == Init => IInv
<1> SUFFICES ASSUME Init PROVE IInv
  OBVIOUS
<1>1. /\ exists \subseteq Projects /\ human = {} /\ auths = Foreign /\ delivered = {}
      /\ user = [n \in Usernames |-> 0] /\ password = [u \in Ids |-> None]
      /\ secret = [u \in Ids |-> 0] /\ op = [o \in Ops |-> Idle]
  BY DEF Init
<1>2. ids \in 0..MaxId /\ MaxId \in Nat /\ 0 <= ids /\ \A a \in Foreign : a.id <= ids
  <2>1. ids = Max({a.id : a \in Foreign} \cup {0})
    BY DEF Init
  <2>2. ids \in 0..MaxId /\ \A x \in {a.id : a \in Foreign} \cup {0} : x <= ids
    BY <2>1, GreatestForeign
  <2> HIDE <2>1
  <2> QED
    BY <2>2, ProvisioningAssumption
<1>3. /\ \A o \in Ops : op[o] = Idle
      /\ Idle.pc = "idle" /\ Idle.uid = 0 /\ Idle.secret = 0 /\ Idle.found = {}
      /\ Idle \in Operations /\ 0 \in 0..MaxId
  BY <1>1, <1>2, IdleTyped DEF Idle
<1>4. TypeOK
  <2>1. user \in [Usernames -> 0..MaxId]
    BY <1>1, <1>3
  <2>2. \A a \in auths : a.id \in Ids /\ a.project \in Projects
    BY <1>1, ProvisioningAssumption DEF Ids
  <2>3. \A o \in Ops : op[o].pc \in PCs /\ op[o].uid \in 0..MaxId
    BY <1>3 DEF PCs
  <2> QED
    BY <1>1, <1>2, <2>1, <2>2, <2>3 DEF TypeOK
<1>5. ShapeInv
  BY <1>1, <1>3 DEF ShapeInv, Grants
<1>6. StageInv
  BY <1>3 DEF StageInv, StageAt
<1>7. FreshInv
  <2>1. Known = Foreign
    BY <1>1, <1>3 DEF Known
  <2>2. \A a \in Known : a.id <= ids /\ \A b \in Known : a.id = b.id => a = b
    BY <1>2, <2>1, ProvisioningAssumption
  <2> QED
    BY <1>1, <1>2, <1>3, <2>2 DEF FreshInv
<1>8. SecretInv /\ DeliveredStaysValid
  BY <1>1, <1>3 DEF SecretInv, DeliveredStaysValid, Minting, Creating
<1> QED
  BY <1>4, <1>5, <1>6, <1>7, <1>8 DEF IInv

LEMMA StepIInv == IInv /\ [Next]_vars => IInv'
<1> SUFFICES ASSUME IInv, [Next]_vars PROVE IInv'
  OBVIOUS
<1>1. CASE UNCHANGED vars
  BY <1>1 DEF vars, zitadel, IInv, TypeOK, ShapeInv, StageInv, StageAt, FreshInv, Known, SecretInv,
              Minting, Creating, DeliveredStaysValid, Exists
<1>2. ASSUME NEW o \in Ops, NEW r \in Requests, Start(o, r) PROVE IInv'
  BY <1>2, StartIInv
<1>3. ASSUME NEW o \in Ops, Work(o) PROVE IInv'
  BY <1>3, LookupIInv, CreateUserIInv, GetUserIInv, AddSecretIInv, ListIInv,
     DeleteAuthorizationIInv, GoesOnIInv, CreateAuthorizationIInv, DeleteUserIInv,
     SetPasswordIInv, FinishIInv DEF Work
<1>4. ASSUME NEW o \in Ops, Abort(o) PROVE IInv'
  BY <1>4, GoesOnIInv
<1>5. ASSUME NEW o \in Ops, Again(o) PROVE IInv'
  BY <1>5, OutsideIInv
<1>6. ASSUME NEW p \in Projects, ProjectCreated(p) PROVE IInv'
  BY <1>6, OutsideIInv
<1> QED
  BY <1>1, <1>2, <1>3, <1>4, <1>5, <1>6 DEF Next

\* Whatever operators do at the same time, and wherever operations are cut
\* off, the invariant behind the properties below holds.
THEOREM Invariance == Spec => []IInv
BY InitIInv, StepIInv, PTL DEF Spec

\* Credentials always fit the kind of user that holds them.
THEOREM TypeCorrectness == Spec => []TypeOK
<1>1. IInv => TypeOK
  BY DEF IInv
<1> QED
  BY <1>1, Invariance, PTL

\* A client secret that was handed out to an operator works for as long as its
\* user exists, whoever onboards, resets or revokes what in the meantime.
THEOREM SecretsStayValid == Spec => []DeliveredStaysValid
<1>1. IInv => DeliveredStaysValid
  BY DEF IInv
<1> QED
  BY <1>1, Invariance, PTL

-----------------------------------------------------------------------------
(* What a step may never do                                                *)

\* Passwords change in three calls only.
LEMMA PasswordChange ==
    ASSUME [Next]_vars
    PROVE  \/ UNCHANGED password
           \/ \E o \in Ops : CreateUser(o) \/ DeleteUser(o) \/ SetPassword(o)
<1>1. CASE UNCHANGED vars
  BY <1>1 DEF vars, zitadel
<1>2. CASE \E o \in Ops, r \in Requests : Start(o, r)
  BY <1>2 DEF Start, zitadel
<1>3. ASSUME NEW o \in Ops, Work(o)
      PROVE  UNCHANGED password \/ CreateUser(o) \/ DeleteUser(o) \/ SetPassword(o)
  BY <1>3 DEF Work, Lookup, GetUser, AddSecret, List, DeleteAuthorization, Deleted,
              CreateAuthorization, SetMetadata, DeleteMetadata, Finish, zitadel
<1>4. CASE \E o \in Ops : Abort(o) \/ Again(o)
  BY <1>4 DEF Abort, Again, zitadel
<1>5. CASE \E p \in Projects : ProjectCreated(p)
  BY <1>5 DEF ProjectCreated, zitadel
<1> QED
  BY <1>1, <1>2, <1>3, <1>4, <1>5 DEF Next

\* Onboarding, by however many operators at a time, never changes the password
\* of a user that exists: CreateUser gives one only to a fresh identifier, and
\* only a reset comes to SetPassword.
THEOREM PasswordsAreKept == Spec => PasswordKept
<1>1. ASSUME IInv, [Next]_vars
      PROVE  PasswordStep
  <2> SUFFICES ASSUME NEW v \in Ids, Exists(v), password'[v] # password[v]
               PROVE  \/ ~Exists(v)'
                      \/ \E o \in Ops : /\ op[o].req # None /\ op[o].req.kind = "Reset"
                                        /\ SetPassword(o)
    BY DEF PasswordStep
  <2>0. /\ TypeOK /\ ShapeInv /\ StageInv /\ FreshInv
        /\ password \in [Ids -> {r.password : r \in Requests} \cup {None}]
    BY <1>1 DEF IInv, ShapeInv
  <2>1. PICK o \in Ops : CreateUser(o) \/ DeleteUser(o) \/ SetPassword(o)
    BY <1>1, PasswordChange
  <2>2. CASE CreateUser(o)
    <3>1. password' = [password EXCEPT ![ids + 1] = op[o].req.password]
      BY <2>2 DEF CreateUser
    <3>2. v = ids + 1
      BY <2>0, <3>1
    <3>3. PICK n \in Usernames : user[n] = v
      BY DEF Exists
    <3>4. ids \in Int /\ user[n] <= ids
      BY <2>0 DEF TypeOK, FreshInv
    <3> QED
      BY <3>2, <3>3, <3>4
  <2>3. CASE DeleteUser(o)
    <3> DEFINE u == op[o].uid
    <3>1. /\ password' = [password EXCEPT ![u] = None]
          /\ user' = [n \in Usernames |-> IF user[n] = u THEN 0 ELSE user[n]]
      BY <2>3 DEF DeleteUser
    <3>2. v = u
      BY <2>0, <3>1
    <3>3. v # 0
      BY DEF Ids
    <3>4. \A n \in Usernames : user'[n] # v
      BY <3>1, <3>2, <3>3
    <3> QED
      BY <3>4 DEF Exists
  <2>4. CASE SetPassword(o)
    <3>1. op[o].pc = "setPassword" /\ StageAt(o)
      BY <2>0, <2>4 DEF SetPassword, StageInv
    <3>2. op[o].req \in Requests /\ op[o].req.kind = "Reset"
      BY <3>1 DEF StageAt
    <3> QED
      BY <2>4, <3>2, ProvisioningAssumption
  <2> QED
    BY <2>1, <2>2, <2>3, <2>4
<1> QED
  BY <1>1, Invariance, PTL DEF Spec, PasswordKept

\* Onboarding for one service neither adds nor removes an authorization in
\* another one's project: what it deletes was found in its own, and an
\* identifier never comes to mean another authorization.
THEOREM OnboardingStaysInProject == Spec => OnboardStaysInProject
<1>1. ASSUME IInv PROVE StaysInProject(Onboards)
  <2> SUFFICES ASSUME NEW o \in Ops, op[o].req # None, op[o].req.kind \in Onboards, Work(o),
                      NEW p \in Projects, p # op[o].req.project
               PROVE  InProject(auths', p) = InProject(auths, p)
    BY DEF StaysInProject
  <2>0. ShapeInv /\ StageAt(o) /\ FreshInv
    BY <1>1 DEF IInv, StageInv
  <2>1. CASE DeleteAuthorization(o)
    <3>1. PICK a \in op[o].found : auths' = {b \in auths : b.id # a.id}
      BY <2>1 DEF DeleteAuthorization
    <3>2. a.project = op[o].req.project
      BY <2>0, <2>1 DEF DeleteAuthorization, StageAt
    <3>3. \A b \in auths : b.id = a.id => b = a
      BY <2>0 DEF FreshInv, Known
    <3> QED
      BY <3>1, <3>2, <3>3 DEF InProject
  <2>2. CASE CreateAuthorization(o)
    <3>1. op[o].pid \in {op[o].req.project, NoProject}
      BY <2>0, <2>2 DEF CreateAuthorization, StageAt
    <3> DEFINE new == [id |-> ids + 1, user |-> op[o].uid, project |-> op[o].pid,
                       roles |-> op[o].req.roles]
    <3>2. new.project = op[o].pid
      OBVIOUS
    <3> HIDE DEF new
    <3>3. CASE auths' = auths
      BY <3>3
    <3>4. CASE op[o].pid # NoProject /\ auths' = auths \cup {new}
      BY <3>1, <3>2, <3>4 DEF InProject
    <3> QED
      BY <2>2, <3>3, <3>4 DEF CreateAuthorization, new
  <2>3. CASE DeleteUser(o)
    <3>1. op[o].req.kind = "DeleteUser"
      BY <2>0, <2>3 DEF DeleteUser, StageAt
    <3> QED
      BY <3>1 DEF Onboards
  <2>4. CASE \/ Lookup(o) \/ CreateUser(o) \/ GetUser(o) \/ AddSecret(o) \/ List(o)
             \/ Deleted(o) \/ SetMetadata(o) \/ DeleteMetadata(o) \/ SetPassword(o) \/ Finish(o)
    <3>1. auths' = auths
      BY <2>4 DEF Lookup, CreateUser, GetUser, AddSecret, List, Deleted, SetMetadata,
                  DeleteMetadata, SetPassword, Finish, zitadel
    <3> QED
      BY <3>1 DEF InProject
  <2> QED
    BY <2>1, <2>2, <2>3, <2>4 DEF Work
<1> QED
  BY <1>1, Invariance, PTL DEF OnboardStaysInProject

-----------------------------------------------------------------------------
(* What undisturbed operations achieve                                     *)

\* A page that holds as many authorizations as there can be holds all.
LEMMA WholeList ==
    ASSUME IInv, Cooperative
    PROVE  Pages = {auths}
<1> DEFINE idOf == [a \in auths |-> a.id]
<1>1. auths \subseteq Known /\ \A a \in auths : a.id \in Ids /\ a.id <= ids
  BY DEF IInv, FreshInv, TypeOK, Known
<1>2. \A a, b \in auths : a.id = b.id => a = b
  BY <1>1 DEF IInv, FreshInv
<1>3. idOf \in Injection(auths, Ids)
  BY <1>1, <1>2 DEF Injection, IsInjective
<1>4. MaxId \in Nat /\ IsFiniteSet(Ids) /\ Cardinality(Ids) = MaxId
  <2>1. MaxId \in Nat /\ 1 \in Int
    BY ProvisioningAssumption
  <2>2. IsFiniteSet(1..MaxId) /\ Cardinality(1..MaxId) = IF 1 > MaxId THEN 0 ELSE MaxId - 1 + 1
    BY <2>1, FS_Interval
  <2> QED
    BY <2>1, <2>2 DEF Ids
<1> HIDE DEF idOf
<1>5. IsFiniteSet(auths) /\ Cardinality(auths) <= MaxId
  BY <1>3, <1>4, FS_Injection
<1>6. Cardinality(auths) \in Nat /\ PageSize \in Nat /\ MaxId <= PageSize
  BY <1>5, FS_CardinalityType, ProvisioningAssumption DEF Cooperative
<1>7. Cardinality(auths) <= PageSize
  BY <1>4, <1>5, <1>6
<1> QED
  BY <1>7 DEF Pages

\* A step of an operation under way; what it has come to, if it is alone, is
\* left to show.
LEMMA StepUndisturbed ==
    ASSUME UndisturbedInv, NEW o \in Ops, Active(o),
           \A q \in Ops \ {o} : op'[q] = op[q],
           exists' = exists,
           metadata' \in [Ids -> [Projects -> [Keys -> Values]]],
           \A a \in auths' : a.user \in Ids => a.project \in exists,
           Active(o)' => op'[o].req = op[o].req /\ op'[o].pid = op[o].pid,
           op'[o].alone => op[o].alone /\ op'[o].pc # "idle",
           op'[o].alone /\ op'[o].req.kind \in Onboards => OnboardProgress(o)',
           op'[o].alone /\ op'[o].req.kind \in Revokes => RevokeProgress(o)'
    PROVE  UndisturbedInv'
<1>1. ProjectInv /\ AloneInv
  BY DEF UndisturbedInv
<1>2. ProjectInv'
  <2> SUFFICES ASSUME NEW q \in Ops, Active(q)', op'[q].req.kind \in Onboards
               PROVE  op'[q].pid \in exists \cup {NoProject}
    BY DEF ProjectInv
  <2>1. Active(q) /\ op'[q].req = op[q].req /\ op'[q].pid = op[q].pid
    BY DEF Active
  <2> QED
    BY <1>1, <2>1 DEF ProjectInv
<1>3. ASSUME NEW q \in Ops, op'[q].alone PROVE q = o
  BY <1>1, <1>3 DEF AloneInv
<1>4. op'[o].alone => \A q \in Ops \ {o} : ~Active(q)' /\ ~op'[q].alone
  BY <1>1, <1>3 DEF AloneInv, Active
<1>5. AloneInv'
  BY <1>3, <1>4 DEF AloneInv
<1> QED
  BY <1>2, <1>5 DEF UndisturbedInv

\* The same of a step that takes the operation to p, or ends it.
LEMMA GotoUndisturbed ==
    ASSUME IInv, UndisturbedInv, NEW o \in Ops, Active(o),
           NEW p, p \in (PCs \ {"idle"}) \cup {"error"}, Goto(o, p),
           exists' = exists,
           metadata' \in [Ids -> [Projects -> [Keys -> Values]]],
           \A a \in auths' : a.user \in Ids => a.project \in exists,
           p # "error" /\ op[o].alone /\ op[o].req.kind \in Onboards => OnboardProgress(o)',
           p # "error" /\ op[o].alone /\ op[o].req.kind \in Revokes => RevokeProgress(o)'
    PROVE  UndisturbedInv'
<1>1. /\ \A q \in Ops \ {o} : op'[q] = op[q]
      /\ p = "error" => op'[o] = Idle
      /\ p # "error" => /\ op'[o].pc = p /\ op'[o].req = op[o].req /\ op'[o].pid = op[o].pid
                        /\ op'[o].alone = op[o].alone
  BY GotoEffect DEF IInv
<1>2. CASE p = "error"
  <2>1. op'[o].pc = "idle" /\ ~op'[o].alone
    BY <1>1, <1>2 DEF Idle
  <2>2. ~Active(o)'
    BY <2>1 DEF Active
  <2> QED
    BY <1>1, <2>1, <2>2, StepUndisturbed
<1>3. CASE p # "error"
  BY <1>1, <1>3, StepUndisturbed
<1> QED
  BY <1>2, <1>3

\* What is there to begin with, and what deleting leaves of it.
LEMMA Kept ==
    ASSUME UndisturbedInv, auths' \subseteq auths
    PROVE  /\ metadata \in [Ids -> [Projects -> [Keys -> Values]]]
           /\ \A a \in auths' : a.user \in Ids => a.project \in exists
BY DEF UndisturbedInv, ProjectInv

\* An operation that is alone, at work, and its user.
LEMMA AtWork ==
    ASSUME IInv, UndisturbedInv, NEW o \in Ops, op[o].alone, op[o].pc # "ok"
    PROVE  /\ op[o] \in Operations /\ op[o].req \in Requests
           /\ op[o].req.name \in Usernames /\ op[o].req.project \in Projects
           /\ op[o].pc \notin {"idle", "lookup", "create", "ok"} => op[o].uid \in Ids
           /\ op[o].req.kind \in Onboards => OnboardProgress(o) /\ op[o].req.kind \notin Revokes
           /\ op[o].req.kind \in Revokes => RevokeProgress(o)
           /\ op[o].req.kind \in Onboards => op[o].pid \in {op[o].req.project, NoProject}
<1>1. op[o].pc # "idle" /\ StageAt(o) /\ op[o] \in Operations
  BY DEF UndisturbedInv, AloneInv, IInv, StageInv, ShapeInv
<1>2. op[o].req \in Requests
  BY <1>1 DEF StageAt
<1> QED
  BY <1>1, <1>2, ProvisioningAssumption DEF StageAt, UndisturbedInv, AloneInv, Onboards, Revokes

-----------------------------------------------------------------------------
LEMMA StartUndisturbed ==
    ASSUME IInv, UndisturbedInv, NEW o \in Ops, NEW r \in Requests, Start(o, r)
    PROVE  UndisturbedInv'
<1> DEFINE pid   == resolveProject(r)
           alone == \A q \in Ops : ~Active(q)
           n     == [Idle EXCEPT !.pc = "lookup", !.req = r, !.pid = pid, !.alone = alone]
<1>0. ProjectInv /\ AloneInv /\ op \in [Ops -> Operations] /\ r.project \in Projects
  BY ProvisioningAssumption DEF UndisturbedInv, IInv, ShapeInv
<1>1. /\ op' = [q \in Ops |-> IF q = o THEN n ELSE [op[q] EXCEPT !.alone = FALSE]]
      /\ pid # None /\ UNCHANGED <<exists, ids, zitadel, delivered>>
  BY DEF Start
<1>2. /\ op'[o].pc = "lookup" /\ op'[o].req = r /\ op'[o].pid = pid /\ op'[o].alone = alone
  BY <1>1 DEF Idle
<1>3. \A q \in Ops \ {o} : /\ op'[q].pc = op[q].pc /\ op'[q].req = op[q].req
                           /\ op'[q].pid = op[q].pid /\ op'[q].alone = FALSE
  BY <1>0, <1>1 DEF Operations
<1>4. r.kind \in Onboards => pid \in exists \cup {NoProject} /\ (pid = NoProject => r.project \notin exists)
  BY <1>0, <1>1, ProvisioningAssumption DEF resolveProject, found
<1> HIDE DEF pid, n
<1>5. ProjectInv'
  <2>1. ASSUME NEW q \in Ops, Active(q)', op'[q].req.kind \in Onboards
        PROVE  op'[q].pid \in exists \cup {NoProject}
    <3>1. CASE q = o
      BY <1>2, <1>4, <2>1, <3>1
    <3>2. CASE q # o
      <4>1. Active(q) /\ op[q].req.kind \in Onboards /\ op'[q].pid = op[q].pid
        BY <1>3, <2>1, <3>2 DEF Active
      <4> QED
        BY <1>0, <4>1 DEF ProjectInv
    <3> QED
      BY <3>1, <3>2
  <2> QED
    BY <1>0, <1>1, <2>1 DEF ProjectInv, zitadel
<1>6. AloneInv'
  <2> SUFFICES ASSUME NEW q \in Ops, op'[q].alone
               PROVE  /\ op'[q].pc # "idle"
                      /\ \A s \in Ops \ {q} : ~Active(s)' /\ ~op'[s].alone
                      /\ op'[q].req.kind \in Onboards => OnboardProgress(q)'
                      /\ op'[q].req.kind \in Revokes => RevokeProgress(q)'
    BY DEF AloneInv
  <2>1. q = o /\ alone
    BY <1>2, <1>3
  <2>2. \A s \in Ops \ {o} : ~Active(s)' /\ ~op'[s].alone
    BY <1>3, <2>1 DEF Active
  <2>3. r.kind \in Onboards /\ pid = NoProject => \A a \in InProject(auths, r.project) : a.user \notin Ids
    BY <1>0, <1>4 DEF ProjectInv, InProject
  <2>4. r.kind \in Onboards => OnboardProgress(o)'
    BY <1>1, <1>2, <2>3 DEF OnboardProgress, InProject, zitadel
  <2>5. RevokeProgress(o)'
    BY <1>2 DEF RevokeProgress
  <2> QED
    BY <1>2, <2>1, <2>2, <2>4, <2>5
<1> QED
  BY <1>5, <1>6 DEF UndisturbedInv

LEMMA LookupUndisturbed ==
    ASSUME IInv, UndisturbedInv, NEW o \in Ops, Lookup(o)
    PROVE  UndisturbedInv'
<1> DEFINE r == op[o].req
           u == user[r.name]
<1>1. /\ op[o] \in Operations /\ op \in [Ops -> Operations] /\ op[o].pc = "lookup" /\ Active(o)
      /\ UNCHANGED <<exists, user, human, auths, metadata>>
  BY DEF IInv, ShapeInv, Lookup, zitadel, Active
<1>2. PICK p \in {"create", "error", "ok", "list", "setPassword"} :
        /\ op' = [op EXCEPT ![o] = IF p = "error" THEN Idle ELSE [@ EXCEPT !.pc = p, !.uid = u]]
        /\ p = "list" => u # 0 /\ (r.kind = "Onboard" => u \notin human)
                               /\ (r.kind = "OnboardHuman" => u \in human)
        /\ p = "ok" => u = 0 /\ r.kind \notin Onboards
        /\ p = "create" => r.kind \in Onboards
        /\ p = "setPassword" => r.kind = "Reset"
  <2>1. StageAt(o)
    BY DEF IInv, StageInv
  <2> QED
    BY <1>1, <2>1, ProvisioningAssumption DEF Lookup, Onboards, Revokes, StageAt
<1>3. \A q \in Ops \ {o} : op'[q] = op[q]
  BY <1>1, <1>2
<1>4. /\ metadata' \in [Ids -> [Projects -> [Keys -> Values]]]
      /\ \A a \in auths' : a.user \in Ids => a.project \in exists
  BY <1>1, Kept
<1> HIDE DEF u
<1>5. CASE p = "error"
  <2>1. op'[o] = Idle
    BY <1>1, <1>2, <1>5
  <2>2. op'[o].pc = "idle" /\ ~op'[o].alone
    BY <2>1 DEF Idle
  <2>3. ~Active(o)'
    BY <2>2 DEF Active
  <2> QED
    BY <1>1, <1>3, <1>4, <2>2, <2>3, StepUndisturbed
<1>6. CASE p # "error"
  <2>1. /\ op'[o].pc = p /\ op'[o].req = r /\ op'[o].uid = u
        /\ op'[o].pid = op[o].pid /\ op'[o].alone = op[o].alone
    <3>1. op' = [op EXCEPT ![o] = [op[o] EXCEPT !.pc = p, !.uid = u]]
      BY <1>2, <1>6
    <3>2. op'[o] = [op[o] EXCEPT !.pc = p, !.uid = u]
      BY <1>1, <3>1
    <3> QED
      BY <1>1, <3>2 DEF Operations
  <2>2. ASSUME op[o].alone, r.kind \in Onboards PROVE OnboardProgress(o)'
    <3>1. OnboardProgress(o)
      BY <1>1, <2>2, AtWork
    <3>2. p = "list" => u # 0 /\ (u \in human <=> r.kind = "OnboardHuman")
      BY <1>2, <2>2 DEF Onboards
    <3>3. p \in {"create", "list"}
      BY <1>2, <1>6, <2>2 DEF Onboards
    <3>4. op[o].pid = NoProject => \A a \in InProject(auths, r.project) : a.user \notin Ids
      BY <1>1, <3>1 DEF OnboardProgress
    <3> QED
      BY <1>1, <2>1, <3>2, <3>3, <3>4 DEF OnboardProgress, InProject, u
  <2>3. ASSUME op[o].alone, r.kind \in Revokes PROVE RevokeProgress(o)'
    <3>1. p \in {"ok", "list"}
      BY <1>2, <1>6, <2>3 DEF Onboards, Revokes
    <3> QED
      BY <1>1, <1>2, <2>1, <3>1 DEF RevokeProgress, Revoked, u
  <2> QED
    BY <1>1, <1>2, <1>3, <1>4, <1>6, <2>1, <2>2, <2>3, StepUndisturbed
<1> QED
  BY <1>5, <1>6

\* The new user has the name that was asked for, and the right kind.
LEMMA CreateUserUndisturbed ==
    ASSUME IInv, UndisturbedInv, NEW o \in Ops, CreateUser(o)
    PROVE  UndisturbedInv'
<1> DEFINE r == op[o].req
           u == ids + 1
<1>1. /\ op[o] \in Operations /\ op \in [Ops -> Operations] /\ op[o].pc = "create" /\ Active(o)
      /\ UNCHANGED <<exists, auths, metadata>>
      /\ r \in Requests /\ r.kind \in Onboards /\ r.name \in Usernames /\ r.kind \notin Revokes
  BY ProvisioningAssumption
     DEF IInv, ShapeInv, StageInv, StageAt, CreateUser, Active, Onboards, Revokes
<1>2. /\ metadata' \in [Ids -> [Projects -> [Keys -> Values]]]
      /\ \A a \in auths' : a.user \in Ids => a.project \in exists
  BY <1>1, Kept
<1>3. CASE user[r.name] # 0 \/ Full
  <2>1. Goto(o, "error")
    BY <1>3 DEF CreateUser
  <2> QED
    BY <1>1, <1>2, <2>1, GotoUndisturbed
<1>4. CASE ~(user[r.name] # 0 \/ Full)
  <2>1. /\ user' = [user EXCEPT ![r.name] = u]
        /\ human' = IF r.kind = "OnboardHuman" THEN human \cup {u} ELSE human
        /\ op' = [op EXCEPT ![o].pc = "get", ![o].uid = u]
    BY <1>4 DEF CreateUser
  <2>2. \A q \in Ops \ {o} : op'[q] = op[q]
    BY <1>1, <2>1
  <2>3. /\ op'[o].pc = "get" /\ op'[o].req = r /\ op'[o].uid = u
        /\ op'[o].pid = op[o].pid /\ op'[o].alone = op[o].alone
    <3>1. op'[o] = [op[o] EXCEPT !.pc = "get", !.uid = u]
      BY <1>1, <2>1
    <3> QED
      BY <1>1, <3>1 DEF Operations
  <2>4. user'[r.name] = u /\ u # 0 /\ u \notin human
    <3>1. ids \in Nat /\ user \in [Usernames -> 0..MaxId] /\ \A v \in human : v <= ids
      BY ProvisioningAssumption DEF IInv, TypeOK, FreshInv
    <3> QED
      BY <1>1, <2>1, <3>1
  <2>5. u \in human' <=> r.kind = "OnboardHuman"
    BY <2>1, <2>4
  <2> HIDE DEF u
  <2>6. ASSUME op[o].alone PROVE OnboardProgress(o)'
    <3>1. OnboardProgress(o)
      BY <1>1, <2>6, AtWork
    <3>2. op[o].pid = NoProject => \A a \in InProject(auths, r.project) : a.user \notin Ids
      BY <1>1, <3>1 DEF OnboardProgress
    <3> QED
      BY <1>1, <2>3, <2>4, <2>5, <3>2 DEF OnboardProgress, InProject
  <2> QED
    BY <1>1, <1>2, <2>2, <2>3, <2>6, StepUndisturbed
<1> QED
  BY <1>3, <1>4

\* The user just created is read back, or given a secret.
LEMMA CreationUndisturbed ==
    ASSUME IInv, UndisturbedInv, NEW o \in Ops, GetUser(o) \/ AddSecret(o)
    PROVE  UndisturbedInv'
<1>1. /\ op[o] \in Operations /\ op \in [Ops -> Operations] /\ op[o].pc \in {"get", "addSecret"}
      /\ Active(o) /\ UNCHANGED <<exists, user, human, auths, metadata>>
      /\ op[o].req.kind \notin Revokes
  BY DEF IInv, ShapeInv, StageInv, StageAt, GetUser, AddSecret, Active, Onboards, Revokes, zitadel
<1>2. /\ metadata' \in [Ids -> [Projects -> [Keys -> Values]]]
      /\ \A a \in auths' : a.user \in Ids => a.project \in exists
  BY <1>1, Kept
<1>3. ASSUME op[o].alone, op[o].req.kind \in Onboards,
             op'[o].pc \in {"addSecret", "list"}, op'[o].req = op[o].req,
             op'[o].uid = op[o].uid, op'[o].pid = op[o].pid
      PROVE  OnboardProgress(o)'
  <2>1. OnboardProgress(o)
    BY <1>1, <1>3, AtWork
  <2> QED
    BY <1>1, <1>3, <2>1 DEF OnboardProgress, InProject
<1>4. CASE \E p \in {"error", "addSecret", "list"} : Goto(o, p)
  <2>1. PICK p \in {"error", "addSecret", "list"} : Goto(o, p)
    BY <1>4
  <2>2. p # "error" => /\ op'[o].pc = p /\ op'[o].req = op[o].req
                       /\ op'[o].uid = op[o].uid /\ op'[o].pid = op[o].pid
    BY <2>1, GotoEffect DEF IInv, PCs
  <2> QED
    BY <1>1, <1>2, <1>3, <2>1, <2>2, GotoUndisturbed DEF PCs
<1>5. CASE op' = [op EXCEPT ![o].pc = "list", ![o].secret = ids + 1]
  <2>1. \A q \in Ops \ {o} : op'[q] = op[q]
    BY <1>1, <1>5
  <2>2. /\ op'[o].pc = "list" /\ op'[o].req = op[o].req /\ op'[o].uid = op[o].uid
        /\ op'[o].pid = op[o].pid /\ op'[o].alone = op[o].alone
    <3>1. op'[o] = [op[o] EXCEPT !.pc = "list", !.secret = ids + 1]
      BY <1>1, <1>5
    <3> QED
      BY <1>1, <3>1 DEF Operations
  <2> QED
    BY <1>1, <1>2, <1>3, <2>1, <2>2, StepUndisturbed
<1> QED
  BY <1>4, <1>5 DEF GetUser, AddSecret

\* What is listed is all the operation is about.
LEMMA ListUndisturbed ==
    ASSUME IInv, UndisturbedInv, Cooperative, NEW o \in Ops, List(o)
    PROVE  UndisturbedInv'
<1> DEFINE r == op[o].req
           mine == {a \in auths : /\ a.user = op[o].uid
                                  /\ r.kind \in Onboards => a.project = op[o].pid}
<1>1. /\ op[o] \in Operations /\ op \in [Ops -> Operations] /\ op[o].pc = "list" /\ Active(o)
      /\ UNCHANGED <<exists, user, human, auths, metadata>>
  BY DEF IInv, ShapeInv, List, Active, zitadel
<1>2. /\ metadata' \in [Ids -> [Projects -> [Keys -> Values]]]
      /\ \A a \in auths' : a.user \in Ids => a.project \in exists
  BY <1>1, Kept
<1>3. PICK p \in {"setMetadata", "delete"} :
        /\ op' = [op EXCEPT ![o].found = mine, ![o].pc = p]
        /\ p = "setMetadata" => r.kind \in Onboards /\ Reconciled(mine, r.roles)
  BY WholeList DEF List
<1> HIDE DEF mine
<1>4. \A q \in Ops \ {o} : op'[q] = op[q]
  BY <1>1, <1>3
<1>5. /\ op'[o].pc = p /\ op'[o].req = r /\ op'[o].uid = op[o].uid /\ op'[o].found = mine
      /\ op'[o].pid = op[o].pid /\ op'[o].alone = op[o].alone
  <2>1. op'[o] = [op[o] EXCEPT !.found = mine, !.pc = p]
    BY <1>1, <1>3
  <2> QED
    BY <1>1, <2>1 DEF Operations
<1>6. ASSUME op[o].alone, r.kind \in Onboards PROVE OnboardProgress(o)'
  <2>1. OnboardProgress(o) /\ op[o].uid \in Ids /\ op[o].pid \in {r.project, NoProject}
        /\ r.project \in Projects
    BY <1>1, <1>6, AtWork
  <2>2. /\ user[r.name] = op[o].uid /\ op[o].uid # 0
        /\ op[o].uid \in human <=> r.kind = "OnboardHuman"
        /\ op[o].pid = NoProject => \A a \in InProject(auths, r.project) : a.user \notin Ids
    BY <1>1, <2>1 DEF OnboardProgress
  <2>3. mine = InProject(AuthsOf(op[o].uid), r.project)
    <3>1. CASE op[o].pid = r.project
      BY <1>6, <3>1 DEF mine, InProject, AuthsOf
    <3>2. CASE op[o].pid = NoProject
      <4>1. \A a \in auths : a.project \in Projects
        BY DEF IInv, TypeOK
      <4>2. mine = {}
        BY <1>6, <3>2, <4>1, ProvisioningAssumption DEF mine
      <4>3. InProject(AuthsOf(op[o].uid), r.project) = {}
        BY <2>1, <2>2, <3>2 DEF InProject, AuthsOf
      <4> QED
        BY <4>2, <4>3
    <3> QED
      BY <2>1, <3>1, <3>2
  <2>4. p = "setMetadata" => GrantsApplied(r)
    BY <1>3, <2>2, <2>3 DEF GrantsApplied, Reconciled
  <2>5. p = "setMetadata" => GrantsApplied(r)'
    BY <1>1, <1>5, <2>4 DEF GrantsApplied, InProject, AuthsOf, RolesOf
  <2> QED
    BY <1>1, <1>5, <2>2, <2>3, <2>5 DEF OnboardProgress, InProject, AuthsOf
<1>7. ASSUME op[o].alone, r.kind \in Revokes PROVE RevokeProgress(o)'
  <2>1. RevokeProgress(o) /\ r.kind \notin Onboards
    BY <1>1, <1>7, AtWork
  <2>2. user[r.name] = op[o].uid /\ op[o].uid # 0
    BY <1>1, <2>1 DEF RevokeProgress
  <2>3. mine = AuthsOf(op[o].uid) /\ p = "delete"
    BY <1>3, <2>1 DEF mine, AuthsOf
  <2> QED
    BY <1>1, <1>5, <2>2, <2>3 DEF RevokeProgress, AuthsOf
<1> QED
  BY <1>1, <1>2, <1>3, <1>4, <1>5, <1>6, <1>7, StepUndisturbed

\* Nothing is granted while grants are deleted.
LEMMA DeleteAuthorizationUndisturbed ==
    ASSUME IInv, UndisturbedInv, NEW o \in Ops, DeleteAuthorization(o)
    PROVE  UndisturbedInv'
<1> DEFINE r == op[o].req
<1>1. /\ op[o] \in Operations /\ op \in [Ops -> Operations] /\ op[o].pc = "delete" /\ Active(o)
      /\ UNCHANGED <<exists, user, human, metadata>>
  BY DEF IInv, ShapeInv, DeleteAuthorization, Active
<1>2. PICK a \in op[o].found :
        /\ auths' = {b \in auths : b.id # a.id}
        /\ op' = [op EXCEPT ![o].found = op[o].found \ {a}]
  BY <1>1 DEF DeleteAuthorization
<1>3. auths' \subseteq auths /\ a \notin auths'
  BY <1>2
<1>4. /\ metadata' \in [Ids -> [Projects -> [Keys -> Values]]]
      /\ \A b \in auths' : b.user \in Ids => b.project \in exists
  BY <1>1, <1>3, Kept
<1>5. \A q \in Ops \ {o} : op'[q] = op[q]
  BY <1>1, <1>2
<1>6. /\ op'[o].pc = "delete" /\ op'[o].req = r /\ op'[o].uid = op[o].uid
      /\ op'[o].found = op[o].found \ {a} /\ op'[o].pid = op[o].pid /\ op'[o].alone = op[o].alone
  <2>1. op'[o] = [op[o] EXCEPT !.found = op[o].found \ {a}]
    BY <1>1, <1>2
  <2> QED
    BY <1>1, <2>1 DEF Operations
<1>7. ASSUME op[o].alone, r.kind \in Onboards PROVE OnboardProgress(o)'
  <2>1. OnboardProgress(o)
    BY <1>1, <1>7, AtWork
  <2>2. /\ user[r.name] = op[o].uid /\ op[o].uid # 0
        /\ op[o].uid \in human <=> r.kind = "OnboardHuman"
        /\ op[o].pid = NoProject => \A b \in InProject(auths, r.project) : b.user \notin Ids
        /\ InProject(AuthsOf(op[o].uid), r.project) \subseteq op[o].found
    BY <1>1, <2>1 DEF OnboardProgress
  <2>3. InProject(AuthsOf(op[o].uid), r.project)' \subseteq op'[o].found
    BY <1>3, <1>6, <2>2 DEF InProject, AuthsOf
  <2>4. op[o].pid = NoProject => \A b \in InProject(auths', r.project) : b.user \notin Ids
    BY <1>3, <2>2 DEF InProject
  <2> QED
    BY <1>1, <1>6, <2>2, <2>3, <2>4 DEF OnboardProgress, InProject, AuthsOf
<1>8. ASSUME op[o].alone, r.kind \in Revokes PROVE RevokeProgress(o)'
  <2>1. RevokeProgress(o)
    BY <1>1, <1>8, AtWork
  <2>2. /\ user[r.name] = op[o].uid /\ op[o].uid # 0
        /\ AuthsOf(op[o].uid) \subseteq op[o].found
    BY <1>1, <2>1 DEF RevokeProgress
  <2> QED
    BY <1>1, <1>3, <1>6, <2>2 DEF RevokeProgress, AuthsOf
<1> QED
  BY <1>1, <1>4, <1>5, <1>6, <1>7, <1>8, StepUndisturbed

\* When all that was found is deleted, nothing is left.
LEMMA DeletedUndisturbed ==
    ASSUME IInv, UndisturbedInv, NEW o \in Ops, Deleted(o)
    PROVE  UndisturbedInv'
<1> DEFINE r == op[o].req
<1>1. /\ op[o].pc = "delete" /\ Active(o) /\ op[o].found = {}
      /\ UNCHANGED <<exists, user, human, auths, metadata>>
  BY DEF Deleted, Active, zitadel
<1>2. /\ metadata' \in [Ids -> [Projects -> [Keys -> Values]]]
      /\ \A a \in auths' : a.user \in Ids => a.project \in exists
  BY <1>1, Kept
<1>3. PICK p \in {"deleteMetadata", "setMetadata", "grant"} :
        /\ Goto(o, p)
        /\ r.kind \in Revokes => p = "deleteMetadata"
        /\ r.kind \notin Revokes => p # "deleteMetadata" /\ (p = "setMetadata" => r.roles = {})
  BY DEF Deleted
<1>4. /\ op'[o].pc = p /\ op'[o].req = r /\ op'[o].uid = op[o].uid /\ op'[o].pid = op[o].pid
  BY <1>3, GotoEffect DEF IInv, PCs
<1>5. ASSUME op[o].alone, r.kind \in Onboards PROVE OnboardProgress(o)'
  <2>1. OnboardProgress(o) /\ r.kind \notin Revokes
    BY <1>1, <1>5, AtWork
  <2>2. /\ user[r.name] = op[o].uid /\ op[o].uid # 0
        /\ op[o].uid \in human <=> r.kind = "OnboardHuman"
        /\ op[o].pid = NoProject => \A a \in InProject(auths, r.project) : a.user \notin Ids
        /\ InProject(AuthsOf(op[o].uid), r.project) = {}
    BY <1>1, <2>1 DEF OnboardProgress
  <2>3. p = "setMetadata" => GrantsApplied(r)'
    <3>1. RolesOf({}) = {} /\ Cardinality({}) <= 1
      <4>1. Cardinality({}) = 0
        BY FS_EmptySet
      <4> QED
        BY <4>1 DEF RolesOf
    <3>2. p = "setMetadata" => GrantsApplied(r)
      BY <1>3, <2>1, <2>2, <3>1, Zenon DEF GrantsApplied
    <3> QED
      BY <1>1, <1>4, <3>2 DEF GrantsApplied, InProject, AuthsOf, RolesOf
  <2> QED
    BY <1>1, <1>3, <1>4, <2>1, <2>2, <2>3 DEF OnboardProgress, InProject, AuthsOf
<1>6. ASSUME op[o].alone, r.kind \in Revokes PROVE RevokeProgress(o)'
  <2>1. RevokeProgress(o)
    BY <1>1, <1>6, AtWork
  <2>2. user[r.name] = op[o].uid /\ op[o].uid # 0 /\ AuthsOf(op[o].uid) = {}
    BY <1>1, <2>1 DEF RevokeProgress
  <2> QED
    BY <1>1, <1>3, <1>4, <1>6, <2>2 DEF RevokeProgress, AuthsOf
<1> QED
  BY <1>1, <1>2, <1>3, <1>5, <1>6, GotoUndisturbed DEF PCs

\* The grant is the only one, and just what was asked for.
LEMMA CreateAuthorizationUndisturbed ==
    ASSUME IInv, UndisturbedInv, NEW o \in Ops, CreateAuthorization(o)
    PROVE  UndisturbedInv'
<1> DEFINE r == op[o].req
           new == [id |-> ids + 1, user |-> op[o].uid, project |-> op[o].pid, roles |-> r.roles]
<1>1. /\ op[o].pc = "grant" /\ Active(o) /\ UNCHANGED <<exists, user, human, metadata>>
      /\ r.kind \in Onboards /\ r.kind \notin Revokes
  BY DEF CreateAuthorization, Active, IInv, StageInv, StageAt, Onboards, Revokes
<1>2. /\ metadata' \in [Ids -> [Projects -> [Keys -> Values]]]
      /\ \A a \in auths : a.user \in Ids => a.project \in exists
  <2>1. /\ metadata \in [Ids -> [Projects -> [Keys -> Values]]]
        /\ \A a \in auths : a.user \in Ids => a.project \in exists
    BY DEF UndisturbedInv, ProjectInv
  <2> QED
    BY <1>1, <2>1
<1>3. CASE Goto(o, "error") /\ UNCHANGED auths
  BY <1>1, <1>2, <1>3, GotoUndisturbed
<1>4. CASE auths' = auths \cup {new} /\ Goto(o, "setMetadata") /\ op[o].pid # NoProject
  <2>1. new.user = op[o].uid /\ new.project = op[o].pid /\ new.roles = r.roles
    OBVIOUS
  <2>2. op[o].pid \in exists
    BY <1>1, <1>4 DEF UndisturbedInv, ProjectInv
  <2> HIDE DEF new
  <2>3. \A a \in auths' : a.user \in Ids => a.project \in exists
    BY <1>2, <1>4, <2>1, <2>2
  <2>4. op'[o].pc = "setMetadata" /\ op'[o].req = r /\ op'[o].uid = op[o].uid /\ op'[o].pid = op[o].pid
    BY <1>4, GotoEffect DEF IInv, PCs
  <2>5. ASSUME op[o].alone PROVE OnboardProgress(o)'
    <3>1. OnboardProgress(o) /\ op[o].pid = r.project
      BY <1>1, <1>4, <2>5, AtWork
    <3>2. /\ user[r.name] = op[o].uid /\ op[o].uid # 0
          /\ op[o].uid \in human <=> r.kind = "OnboardHuman"
          /\ InProject(AuthsOf(op[o].uid), r.project) = {}
      BY <1>1, <3>1 DEF OnboardProgress
    <3>3. {a \in {b \in auths' : b.user = op[o].uid} : a.project = r.project} = {new}
      BY <1>4, <2>1, <3>1, <3>2 DEF InProject, AuthsOf
    <3>4. UNION {a.roles : a \in {new}} = r.roles /\ Cardinality({new}) <= 1
      <4>1. Cardinality({new}) = 1
        BY FS_Singleton
      <4> QED
        BY <2>1, <4>1
    <3>5. GrantsApplied(r)'
      <4>1. /\ user'[op'[o].req.name] = op[o].uid
            /\ op'[o].req.project = r.project /\ op'[o].req.roles = r.roles
        BY <1>1, <2>4, <3>2
      <4>2. InProject(AuthsOf(user[op[o].req.name]), op[o].req.project)' = {new}
        BY <3>3, <4>1 DEF InProject, AuthsOf
      <4> QED
        BY <3>4, <4>1, <4>2 DEF GrantsApplied, RolesOf
    <3> QED
      BY <1>1, <1>4, <2>4, <3>2, <3>5 DEF OnboardProgress
  <2> QED
    BY <1>1, <1>2, <1>4, <2>3, <2>5, GotoUndisturbed DEF PCs
<1> QED
  BY <1>3, <1>4 DEF CreateAuthorization

\* What is asked for is a value, or none, for each kind of access.
LEMMA AccessTyped ==
    ASSUME NEW r \in Requests
    PROVE  r.access \in [Keys -> Values]
<1>1. r.access = [k \in Keys |-> r.access[k]]
  BY ProvisioningAssumption
<1>2. \A k \in Keys : r.access[k] \in Values
  BY DEF Values
<1>3. [k \in Keys |-> r.access[k]] \in [Keys -> Values]
  BY <1>2
<1> QED
  BY <1>1, <1>3

\* The metadata of one user and service are written.
LEMMA MetadataWritten ==
    ASSUME metadata \in [Ids -> [Projects -> [Keys -> Values]]],
           NEW u \in Ids, NEW p \in Projects, NEW m \in [Keys -> Values],
           metadata' = [metadata EXCEPT ![u][p] = m]
    PROVE  metadata' \in [Ids -> [Projects -> [Keys -> Values]]] /\ metadata'[u][p] = m
<1>2. metadata[u] \in [Projects -> [Keys -> Values]]
  OBVIOUS
<1>3. /\ [metadata[u] EXCEPT ![p] = m] \in [Projects -> [Keys -> Values]]
      /\ [metadata[u] EXCEPT ![p] = m][p] = m
  BY <1>2
<1>4. metadata' = [metadata EXCEPT ![u] = [metadata[u] EXCEPT ![p] = m]]
  OBVIOUS
<1> QED
  BY <1>3, <1>4

LEMMA SetMetadataUndisturbed ==
    ASSUME IInv, UndisturbedInv, Cooperative, NEW o \in Ops, SetMetadata(o)
    PROVE  UndisturbedInv'
<1> DEFINE r == op[o].req
           u == op[o].uid
           toSet == {k \in Keys : r.access[k] # None}
           m == [k \in Keys |-> IF k \in toSet THEN r.access[k] ELSE metadata[u][r.project][k]]
<1>1. /\ op[o].pc = "setMetadata" /\ Active(o) /\ UNCHANGED <<exists, user, human, auths>>
      /\ r \in Requests /\ r.project \in Projects /\ u \in Ids
  BY ProvisioningAssumption DEF SetMetadata, Active, IInv, StageInv, StageAt
<1>2. /\ metadata \in [Ids -> [Projects -> [Keys -> Values]]]
      /\ \A a \in auths' : a.user \in Ids => a.project \in exists
  BY <1>1, Kept
<1>3. CASE Goto(o, "error") /\ UNCHANGED metadata
  BY <1>1, <1>2, <1>3, GotoUndisturbed
<1>4. CASE /\ metadata' = [metadata EXCEPT ![u][r.project] = m]
           /\ Goto(o, IF toSet = Keys THEN "finish" ELSE "deleteMetadata")
  <2>1. r.access \in [Keys -> Values] /\ metadata[u][r.project] \in [Keys -> Values]
    BY <1>1, <1>2, AccessTyped
  <2>2. m \in [Keys -> Values]
    BY <2>1
  <2>3. metadata' \in [Ids -> [Projects -> [Keys -> Values]]] /\ metadata'[u][r.project] = m
    <3> HIDE DEF m
    <3> QED
      BY <1>1, <1>2, <1>4, <2>2, MetadataWritten
  <2>4. PICK p \in {"finish", "deleteMetadata"} : Goto(o, p) /\ (p = "finish" <=> toSet = Keys)
    BY <1>4
  <2>5. op'[o].pc = p /\ op'[o].req = r /\ op'[o].uid = u /\ op'[o].pid = op[o].pid
    BY <2>4, GotoEffect DEF IInv, PCs
  <2>6. \A k \in Keys : r.access[k] # None => metadata'[u][r.project][k] = r.access[k]
    BY <2>3
  <2>7. p = "finish" => metadata'[u][r.project] = r.access
    <3> SUFFICES ASSUME toSet = Keys PROVE m = r.access
      BY <2>3, <2>4
    <3> QED
      BY <2>1
  <2> HIDE DEF m, toSet
  <2>8. ASSUME op[o].alone, r.kind \in Onboards PROVE OnboardProgress(o)'
    <3>1. OnboardProgress(o)
      BY <1>1, <2>8, AtWork
    <3>2. /\ user[r.name] = op[o].uid /\ op[o].uid # 0
          /\ op[o].uid \in human <=> r.kind = "OnboardHuman"
          /\ op[o].pid = NoProject => \A a \in InProject(auths, r.project) : a.user \notin Ids
          /\ GrantsApplied(r)
      BY <1>1, <3>1 DEF OnboardProgress
    <3>3. GrantsApplied(r)'
      BY <1>1, <2>5, <3>2 DEF GrantsApplied, InProject, AuthsOf, RolesOf
    <3> QED
      BY <1>1, <2>4, <2>5, <2>6, <2>7, <3>2, <3>3 DEF OnboardProgress, InProject
  <2>9. ASSUME op[o].alone, r.kind \in Revokes PROVE RevokeProgress(o)'
    <3>1. RevokeProgress(o)
      BY <1>1, <2>9, AtWork
    <3> QED
      BY <1>1, <3>1 DEF RevokeProgress
  <2> QED
    BY <1>1, <1>2, <2>3, <2>4, <2>8, <2>9, GotoUndisturbed DEF PCs
<1> QED
  BY <1>3, <1>4 DEF SetMetadata

\* The keys that are not asked for are gone, if Zitadel deletes what is there.
LEMMA DeleteMetadataUndisturbed ==
    ASSUME IInv, UndisturbedInv, Cooperative, NEW o \in Ops, DeleteMetadata(o)
    PROVE  UndisturbedInv'
<1> DEFINE r == op[o].req
           u == op[o].uid
           keys == {k \in Keys : r.kind \in Revokes \/ r.access[k] = None}
           m == [k \in Keys |-> IF k \in keys THEN None ELSE metadata[u][r.project][k]]
<1>1. /\ op[o].pc = "deleteMetadata" /\ Active(o) /\ UNCHANGED <<exists, user, human, auths>>
      /\ r \in Requests /\ r.project \in Projects /\ u \in Ids
      /\ metadata' = [metadata EXCEPT ![u][r.project] = m]
  BY ProvisioningAssumption DEF DeleteMetadata, Active, IInv, StageInv, StageAt, Cooperative
<1>2. /\ metadata \in [Ids -> [Projects -> [Keys -> Values]]]
      /\ \A a \in auths' : a.user \in Ids => a.project \in exists
  BY <1>1, Kept
<1>3. r.access \in [Keys -> Values] /\ metadata[u][r.project] \in [Keys -> Values]
  BY <1>1, <1>2, AccessTyped
<1>4. m \in [Keys -> Values]
  BY <1>3 DEF Values
<1>5. metadata' \in [Ids -> [Projects -> [Keys -> Values]]] /\ metadata'[u][r.project] = m
  <2>1. u \in Ids /\ r.project \in Projects /\ metadata' = [metadata EXCEPT ![u][r.project] = m]
    BY <1>1
  <2> HIDE DEF m
  <2> QED
    BY <1>2, <1>4, <2>1, MetadataWritten
<1>6. PICK p \in {"finish", "deleteUser"} : Goto(o, p) /\ (p = "deleteUser" <=> r.kind = "DeleteUser")
  BY DEF DeleteMetadata
<1>7. op'[o].pc = p /\ op'[o].req = r /\ op'[o].uid = u /\ op'[o].pid = op[o].pid
  BY <1>6, GotoEffect DEF IInv, PCs
<1>8. ASSUME op[o].alone, r.kind \in Onboards PROVE OnboardProgress(o)'
  <2>1. OnboardProgress(o) /\ r.kind \notin Revokes
    BY <1>1, <1>8, AtWork
  <2>2. /\ user[r.name] = op[o].uid /\ op[o].uid # 0
        /\ op[o].uid \in human <=> r.kind = "OnboardHuman"
        /\ op[o].pid = NoProject => \A a \in InProject(auths, r.project) : a.user \notin Ids
        /\ GrantsApplied(r)
        /\ \A k \in Keys : r.access[k] # None => metadata[u][r.project][k] = r.access[k]
    BY <1>1, <2>1 DEF OnboardProgress
  <2>3. m = r.access
    <3>1. ASSUME NEW k \in Keys PROVE m[k] = r.access[k]
      BY <2>1, <2>2
    <3> HIDE DEF m
    <3> QED
      BY <1>3, <1>4, <3>1
  <2> HIDE DEF m
  <2>4. p = "finish"
    BY <1>6, <2>1 DEF Revokes
  <2>5. GrantsApplied(r)'
    BY <1>1, <1>7, <2>2 DEF GrantsApplied, InProject, AuthsOf, RolesOf
  <2> QED
    BY <1>1, <1>5, <1>7, <2>2, <2>3, <2>4, <2>5 DEF OnboardProgress, InProject
<1>9. ASSUME op[o].alone, r.kind \in Revokes PROVE RevokeProgress(o)'
  <2>1. RevokeProgress(o)
    BY <1>1, <1>9, AtWork
  <2>2. user[r.name] = op[o].uid /\ op[o].uid # 0 /\ AuthsOf(op[o].uid) = {}
    BY <1>1, <2>1 DEF RevokeProgress
  <2>3. m = NoAccess
    BY <1>9 DEF NoAccess
  <2> HIDE DEF m
  <2>4. p = "finish" => r.kind = "RevokeGrants"
    BY <1>6, <1>9 DEF Revokes
  <2> QED
    BY <1>1, <1>5, <1>6, <1>7, <2>2, <2>3, <2>4 DEF RevokeProgress, Revoked, AuthsOf
<1> QED
  BY <1>1, <1>2, <1>5, <1>6, <1>8, <1>9, GotoUndisturbed DEF PCs

\* The user's name is free again.
LEMMA DeleteUserUndisturbed ==
    ASSUME IInv, UndisturbedInv, NEW o \in Ops, DeleteUser(o)
    PROVE  UndisturbedInv'
<1> DEFINE r == op[o].req
           u == op[o].uid
<1>1. /\ op[o].pc = "deleteUser" /\ Active(o) /\ UNCHANGED exists /\ Goto(o, "finish")
      /\ r.kind = "DeleteUser" /\ r.kind \notin Onboards /\ r.name \in Usernames
      /\ auths' \subseteq auths
      /\ user' = [n \in Usernames |-> IF user[n] = u THEN 0 ELSE user[n]]
      /\ metadata' = [metadata EXCEPT ![u] = [p \in Projects |-> NoAccess]]
  BY ProvisioningAssumption DEF DeleteUser, Active, IInv, StageInv, StageAt, Onboards
<1>2. /\ metadata' \in [Ids -> [Projects -> [Keys -> Values]]]
      /\ \A a \in auths' : a.user \in Ids => a.project \in exists
  <2>1. [p \in Projects |-> NoAccess] \in [Projects -> [Keys -> Values]]
    BY DEF NoAccess, Values
  <2> QED
    BY <1>1, <2>1, Kept
<1>3. op'[o].pc = "finish" /\ op'[o].req = r
  BY <1>1, GotoEffect DEF IInv, PCs
<1>4. ASSUME op[o].alone PROVE RevokeProgress(o)'
  <2>1. user[r.name] = u
    <3>1. RevokeProgress(o)
      BY <1>1, <1>4, AtWork DEF Revokes
    <3> QED
      BY <1>1, <3>1 DEF RevokeProgress
  <2>2. user'[r.name] = 0
    BY <1>1, <2>1
  <2> QED
    BY <1>3, <2>2 DEF RevokeProgress, Revoked
<1> QED
  BY <1>1, <1>2, <1>4, GotoUndisturbed DEF PCs

\* A reset is neither.
LEMMA SetPasswordUndisturbed ==
    ASSUME IInv, UndisturbedInv, NEW o \in Ops, SetPassword(o)
    PROVE  UndisturbedInv'
<1>1. /\ op[o].pc = "setPassword" /\ Active(o) /\ UNCHANGED <<exists, auths, metadata>>
      /\ op[o].req.kind \notin Onboards /\ op[o].req.kind \notin Revokes
  BY DEF SetPassword, Active, IInv, StageInv, StageAt, Onboards, Revokes
<1>2. PICK p \in {"finish", "error"} : Goto(o, p)
  BY DEF SetPassword
<1> QED
  BY <1>1, <1>2, Kept, GotoUndisturbed DEF PCs

\* The result is returned: what is in place is what was promised.
LEMMA FinishUndisturbed ==
    ASSUME IInv, UndisturbedInv, NEW o \in Ops, Finish(o)
    PROVE  UndisturbedInv'
<1> DEFINE r == op[o].req
           n == [Idle EXCEPT !.pc = "ok", !.req = op[o].req, !.alone = op[o].alone]
<1>1. /\ op \in [Ops -> Operations] /\ op[o].pc = "finish" /\ Active(o)
      /\ UNCHANGED <<exists, user, human, auths, metadata>> /\ op' = [op EXCEPT ![o] = n]
  BY DEF Finish, Active, IInv, ShapeInv, zitadel
<1>2. n.pc = "ok" /\ n.req = r /\ n.alone = op[o].alone
  BY DEF Idle
<1> HIDE DEF n
<1>3. /\ \A q \in Ops \ {o} : op'[q] = op[q]
      /\ op'[o].pc = "ok" /\ op'[o].req = r /\ op'[o].alone = op[o].alone
  BY <1>1, <1>2
<1>4. ~Active(o)'
  BY <1>3 DEF Active
<1>5. ASSUME op[o].alone, r.kind \in Onboards PROVE OnboardProgress(o)'
  <2>1. OnboardProgress(o)
    BY <1>1, <1>5, AtWork
  <2>2. Applied(r)
    BY <1>1, <2>1 DEF OnboardProgress, Applied
  <2>3. r' = r /\ user' = user /\ human' = human /\ metadata' = metadata
    BY <1>1, <1>3
  <2>4. GrantsApplied(r)'
    <3> DEFINE held == InProject(AuthsOf(user[r.name]), r.project)
    <3>1. RolesOf(held) = r.roles /\ Cardinality(held) <= 1
      BY <2>2 DEF Applied, GrantsApplied
    <3>2. held' = held /\ RolesOf(held') = RolesOf(held) /\ (r.roles)' = r.roles
      BY <1>1, <2>3 DEF InProject, AuthsOf, RolesOf
    <3>3. RolesOf(held') = (r.roles)' /\ Cardinality(held') <= 1
      BY <3>1, <3>2
    <3> QED
      BY <3>3, Zenon DEF GrantsApplied, RolesOf
  <2>5. user[r.name] # 0 /\ metadata[user[r.name]][r.project] = r.access
    BY <2>2 DEF Applied
  <2>6. user[r.name] \in human <=> r.kind = "OnboardHuman"
    BY <2>2 DEF Applied
  <2>7. user'[(r.name)'] # 0 /\ metadata'[user'[(r.name)']][(r.project)'] = (r.access)'
    BY <2>3, <2>5
  <2>8. user'[(r.name)'] \in human' <=> (r.kind)' = "OnboardHuman"
    BY <2>3, <2>6, Zenon
  <2>9. Applied(r)'
    BY <2>4, <2>7, <2>8, Zenon DEF Applied
  <2> QED
    BY <1>3, <2>9 DEF OnboardProgress
<1>6. ASSUME op[o].alone, r.kind \in Revokes PROVE RevokeProgress(o)'
  <2>1. RevokeProgress(o)
    BY <1>1, <1>6, AtWork
  <2>2. Revoked(r)
    BY <1>1, <2>1 DEF RevokeProgress
  <2>3. Revoked(r)'
    BY <1>1, <1>3, <2>2 DEF Revoked, AuthsOf
  <2> QED
    BY <1>3, <2>3 DEF RevokeProgress
<1> QED
  BY <1>1, <1>3, <1>4, <1>5, <1>6, Kept, StepUndisturbed

\* An operation ends, fails or gives room to the next one.
LEMMA OverUndisturbed ==
    ASSUME IInv, UndisturbedInv, NEW o \in Ops, Abort(o) \/ Again(o)
    PROVE  UndisturbedInv'
<1>1. CASE Abort(o)
  <2>1. Active(o) /\ Goto(o, "error") /\ UNCHANGED <<exists, auths, metadata>>
    BY <1>1 DEF Abort, zitadel
  <2> QED
    BY <2>1, Kept, GotoUndisturbed
<1>2. CASE Again(o)
  <2>1. /\ op \in [Ops -> Operations] /\ op' = [op EXCEPT ![o] = Idle]
        /\ UNCHANGED <<exists, user, human, auths, metadata>>
    BY <1>2 DEF Again, zitadel, IInv, ShapeInv
  <2>2. /\ \A q \in Ops \ {o} : op'[q] = op[q]
        /\ op'[o].pc = "idle" /\ ~op'[o].alone /\ ~Active(o)'
    BY <2>1 DEF Idle, Active
  <2>3. ProjectInv'
    <3> SUFFICES ASSUME NEW q \in Ops, Active(q)', op'[q].req.kind \in Onboards
                 PROVE  op'[q].pid \in exists \cup {NoProject}
      BY <2>1 DEF UndisturbedInv, ProjectInv
    <3>1. q # o
      BY <2>2
    <3> QED
      BY <2>2, <3>1 DEF UndisturbedInv, ProjectInv, Active
  <2>4. AloneInv'
    <3> SUFFICES ASSUME NEW q \in Ops, op'[q].alone
                 PROVE  /\ op'[q].pc # "idle"
                        /\ \A s \in Ops \ {q} : ~Active(s)' /\ ~op'[s].alone
                        /\ op'[q].req.kind \in Onboards => OnboardProgress(q)'
                        /\ op'[q].req.kind \in Revokes => RevokeProgress(q)'
      BY DEF AloneInv
    <3>1. q # o /\ op'[q] = op[q]
      BY <2>2
    <3>2. /\ op[q].pc # "idle" /\ \A s \in Ops \ {q} : ~Active(s) /\ ~op[s].alone
          /\ op[q].req.kind \in Onboards => OnboardProgress(q)
          /\ op[q].req.kind \in Revokes => RevokeProgress(q)
      BY <3>1 DEF UndisturbedInv, AloneInv
    <3>3. \A s \in Ops \ {q} : ~Active(s)' /\ ~op'[s].alone
      BY <2>2, <3>2 DEF Active
    <3>4. op'[q].req.kind \in Onboards => OnboardProgress(q)'
      BY <2>1, <3>1, <3>2
         DEF OnboardProgress, Applied, GrantsApplied, InProject, AuthsOf, RolesOf
    <3>5. op'[q].req.kind \in Revokes => RevokeProgress(q)'
      BY <2>1, <3>1, <3>2 DEF RevokeProgress, Revoked, AuthsOf
    <3> QED
      BY <3>1, <3>2, <3>3, <3>4, <3>5
  <2> QED
    BY <2>3, <2>4 DEF UndisturbedInv
<1> QED
  BY <1>1, <1>2

\* New projects disturb nobody.
LEMMA ElsewhereUndisturbed ==
    ASSUME UndisturbedInv, UNCHANGED vars \/ \E p \in Projects : ProjectCreated(p)
    PROVE  UndisturbedInv'
<1>1. exists \subseteq exists' /\ UNCHANGED <<user, human, auths, metadata, op>>
  BY DEF vars, zitadel, ProjectCreated
<1>2. ProjectInv'
  BY <1>1 DEF UndisturbedInv, ProjectInv, Active
<1>3. ASSUME NEW o \in Ops
      PROVE  /\ OnboardProgress(o) => OnboardProgress(o)'
             /\ RevokeProgress(o) => RevokeProgress(o)'
  <2>1. OnboardProgress(o) => OnboardProgress(o)'
    BY <1>1 DEF OnboardProgress, Applied, GrantsApplied, InProject, AuthsOf, RolesOf
  <2>2. RevokeProgress(o) => RevokeProgress(o)'
    BY <1>1 DEF RevokeProgress, Revoked, AuthsOf
  <2> QED
    BY <2>1, <2>2
<1>4. AloneInv'
  BY <1>1, <1>3 DEF UndisturbedInv, AloneInv, Active
<1> QED
  BY <1>2, <1>4 DEF UndisturbedInv

LEMMA InitUndisturbed == Cooperative /\ Init => UndisturbedInv
<1> SUFFICES ASSUME Cooperative, Init PROVE UndisturbedInv
  OBVIOUS
<1>1. metadata \in [Ids -> [Projects -> [Keys -> Values]]]
  <2>1. NoAccess \in [Keys -> Values]
    BY DEF NoAccess, Values
  <2> QED
    BY <2>1 DEF Init
<1>2. \A o \in Ops : op[o].pc = "idle" /\ ~op[o].alone
  BY DEF Init, Idle
<1>3. ProjectInv
  BY <1>1, <1>2, ProvisioningAssumption DEF Init, ProjectInv, Active, Ids
<1> QED
  BY <1>2, <1>3 DEF UndisturbedInv, AloneInv

LEMMA StepsUndisturbed == Cooperative /\ IInv /\ UndisturbedInv /\ [Next]_vars => UndisturbedInv'
<1> SUFFICES ASSUME Cooperative, IInv, UndisturbedInv, [Next]_vars PROVE UndisturbedInv'
  OBVIOUS
<1>1. ASSUME NEW o \in Ops, Work(o) PROVE UndisturbedInv'
  BY <1>1, LookupUndisturbed, CreateUserUndisturbed, CreationUndisturbed, ListUndisturbed,
     DeleteAuthorizationUndisturbed, DeletedUndisturbed, CreateAuthorizationUndisturbed,
     SetMetadataUndisturbed, DeleteMetadataUndisturbed, DeleteUserUndisturbed,
     SetPasswordUndisturbed, FinishUndisturbed DEF Work
<1> QED
  BY <1>1, StartUndisturbed, OverUndisturbed, ElsewhereUndisturbed DEF Next

\* An operation that is alone has come as far as the call it is at says, if
\* Zitadel cooperates.
THEOREM Undisturbed == Cooperative => (Spec => []UndisturbedInv)
<1> SUFFICES ASSUME Cooperative PROVE Spec => []UndisturbedInv
  OBVIOUS
<1>1. Init => UndisturbedInv
  BY InitUndisturbed
<1>2. IInv /\ UndisturbedInv /\ [Next]_vars => UndisturbedInv'
  BY StepsUndisturbed
<1> QED
  BY <1>1, <1>2, Invariance, PTL DEF Spec

\* Onboarding that was alone and has succeeded leaves just what was asked for,
\* whatever earlier operations did, raced for or left half done, if a page of
\* the list holds all authorizations and a bulk deletion deletes what is there
\* (onboard.go, human.go).
THEOREM OnboardingReconciles == Cooperative => (Spec => []AppliesWhatWasAsked)
<1> SUFFICES ASSUME Cooperative PROVE Spec => []AppliesWhatWasAsked
  OBVIOUS
<1>1. UndisturbedInv => AppliesWhatWasAsked
  BY DEF UndisturbedInv, AloneInv, AppliesWhatWasAsked, Succeeded, OnboardProgress
<1> QED
  BY <1>1, Undisturbed, PTL

\* A revocation that was alone and has succeeded leaves the user no grant and no
\* metadata of the service, or no user (revoke.go).
THEOREM RevocationIsComplete == Cooperative => (Spec => []RevokedHoldsNothing)
<1> SUFFICES ASSUME Cooperative PROVE Spec => []RevokedHoldsNothing
  OBVIOUS
<1>1. UndisturbedInv => RevokedHoldsNothing
  BY DEF UndisturbedInv, AloneInv, RevokedHoldsNothing, Succeeded, RevokeProgress
<1> QED
  BY <1>1, Undisturbed, PTL

-----------------------------------------------------------------------------
(* What a step of provisioning does to users and authorizations            *)

\* Identifiers are given out one at a time; a user keeps its name, loses it, or
\* is new; authorizations go, or one is created, with roles, for a user that
\* was created before.
LEMMA StepEffect ==
    ASSUME IInv, HeldInv, [Next]_vars
    PROVE  /\ ids \in Nat /\ ids' \in {ids, ids + 1}
           /\ \A n \in Usernames : user'[n] \in {user[n], 0} \/ (user'[n] = ids + 1 /\ ids' = ids + 1)
           /\ \/ auths' \subseteq auths
              \/ \E a : /\ auths' = auths \cup {a} /\ a.id = ids + 1 /\ ids' = ids + 1
                        /\ a.user \in Ids /\ a.user <= ids /\ a.roles # {}
<1>0. /\ ids \in Nat /\ user \in [Usernames -> 0..MaxId]
      /\ \A o \in Ops : StageAt(o) /\ op[o] \in Operations /\ op[o].uid <= ids
  BY ProvisioningAssumption DEF IInv, TypeOK, StageInv, ShapeInv, FreshInv
<1>1. CASE UNCHANGED <<ids, user, auths>>
  BY <1>0, <1>1
<1>2. CASE UNCHANGED vars
  BY <1>1, <1>2 DEF vars, zitadel
<1>3. ASSUME NEW o \in Ops, NEW r \in Requests, Start(o, r) PROVE UNCHANGED <<ids, user, auths>>
  BY <1>3 DEF Start, zitadel
<1>4. ASSUME NEW o \in Ops, Abort(o) \/ Again(o) PROVE UNCHANGED <<ids, user, auths>>
  BY <1>4 DEF Abort, Again, zitadel
<1>5. ASSUME NEW p \in Projects, ProjectCreated(p) PROVE UNCHANGED <<ids, user, auths>>
  BY <1>5 DEF ProjectCreated, zitadel
<1>6. ASSUME NEW o \in Ops, CreateUser(o)
      PROVE  /\ auths' = auths /\ ids' \in {ids, ids + 1}
             /\ \A n \in Usernames : user'[n] = user[n] \/ (user'[n] = ids + 1 /\ ids' = ids + 1)
  <2>1. CASE UNCHANGED <<ids, user, auths>>
    BY <1>0, <2>1
  <2>2. CASE /\ ids' = ids + 1 /\ auths' = auths
             /\ user' = [user EXCEPT ![op[o].req.name] = ids + 1]
    BY <1>0, <2>2
  <2> QED
    BY <1>6, <2>1, <2>2 DEF CreateUser
<1>7. ASSUME NEW o \in Ops, AddSecret(o) PROVE ids' \in {ids, ids + 1} /\ UNCHANGED <<user, auths>>
  BY <1>7 DEF AddSecret
<1>8. ASSUME NEW o \in Ops, DeleteAuthorization(o) PROVE UNCHANGED <<ids, user>> /\ auths' \subseteq auths
  BY <1>8 DEF DeleteAuthorization
<1>9. ASSUME NEW o \in Ops, DeleteUser(o)
      PROVE  /\ ids' = ids /\ auths' \subseteq auths
             /\ \A n \in Usernames : user'[n] \in {user[n], 0}
  BY <1>9 DEF DeleteUser
<1>10. ASSUME NEW o \in Ops, CreateAuthorization(o)
       PROVE  /\ user' = user
              /\ \/ UNCHANGED <<ids, auths>>
                 \/ \E a : /\ auths' = auths \cup {a} /\ a.id = ids + 1 /\ ids' = ids + 1
                           /\ a.user \in Ids /\ a.user <= ids /\ a.roles # {}
  <2>1. op[o].uid \in Ids /\ op[o].uid <= ids /\ op[o].req.roles # {}
    BY <1>0, <1>10 DEF CreateAuthorization, StageAt, HeldInv
  <2> DEFINE a == [id |-> ids + 1, user |-> op[o].uid, project |-> op[o].pid, roles |-> op[o].req.roles]
  <2>2. a.id = ids + 1 /\ a.user = op[o].uid /\ a.roles = op[o].req.roles
    OBVIOUS
  <2>3. user' = user /\ (UNCHANGED <<ids, auths>> \/ (auths' = auths \cup {a} /\ ids' = ids + 1))
    BY <1>10 DEF CreateAuthorization
  <2> HIDE DEF a
  <2> QED
    BY <2>1, <2>2, <2>3
<1>11. ASSUME NEW o \in Ops,
              \/ Lookup(o) \/ GetUser(o) \/ List(o) \/ Deleted(o) \/ SetMetadata(o)
              \/ DeleteMetadata(o) \/ SetPassword(o) \/ Finish(o)
       PROVE  UNCHANGED <<ids, user, auths>>
  BY <1>11 DEF Lookup, GetUser, List, Deleted, SetMetadata, DeleteMetadata, SetPassword, Finish, zitadel
<1>12. ASSUME NEW o \in Ops, Work(o) PROVE
         \/ UNCHANGED <<ids, user, auths>>
         \/ CreateUser(o) \/ AddSecret(o) \/ DeleteAuthorization(o) \/ DeleteUser(o) \/ CreateAuthorization(o)
  BY <1>11, <1>12 DEF Work
<1>13. ASSUME NEW o \in Ops, Work(o)
       PROVE  /\ ids' \in {ids, ids + 1}
              /\ \A n \in Usernames : user'[n] \in {user[n], 0} \/ (user'[n] = ids + 1 /\ ids' = ids + 1)
              /\ \/ auths' \subseteq auths
                 \/ \E a : /\ auths' = auths \cup {a} /\ a.id = ids + 1 /\ ids' = ids + 1
                           /\ a.user \in Ids /\ a.user <= ids /\ a.roles # {}
  <2>1. CASE UNCHANGED <<ids, user, auths>>
    BY <2>1
  <2>2. CASE CreateUser(o)
    BY <1>6, <2>2
  <2>3. CASE AddSecret(o)
    BY <1>7, <2>3
  <2>4. CASE DeleteAuthorization(o)
    BY <1>8, <2>4
  <2>5. CASE DeleteUser(o)
    BY <1>9, <2>5
  <2>6. CASE CreateAuthorization(o)
    <3>1. user' = user
      BY <1>10, <2>6
    <3>2. CASE UNCHANGED <<ids, auths>>
      BY <3>1, <3>2
    <3>3. CASE \E a : /\ auths' = auths \cup {a} /\ a.id = ids + 1 /\ ids' = ids + 1
                      /\ a.user \in Ids /\ a.user <= ids /\ a.roles # {}
      <4>1. ids' = ids + 1
        BY <3>3
      <4> QED
        BY <3>1, <3>3, <4>1
    <3> QED
      BY <1>10, <2>6, <3>2, <3>3
  <2> QED
    BY <1>12, <1>13, <2>1, <2>2, <2>3, <2>4, <2>5, <2>6
<1> QED
  BY <1>0, <1>1, <1>2, <1>3, <1>4, <1>5, <1>13 DEF Next

\* No more is asked for by an operation at the creation of a grant than roles.
LEMMA GrantsHaveRoles ==
    ASSUME IInv, HeldInv, [Next]_vars
    PROVE  \A q \in Ops : op'[q].pc = "grant" => op'[q].req.roles # {}
<1>0. /\ op \in [Ops -> Operations] /\ ShapeInv
      /\ \A q \in Ops : op[q].pc = "grant" => op[q].req.roles # {}
  BY DEF IInv, ShapeInv, HeldInv
<1>1. CASE op' = op
  BY <1>0, <1>1
<1>2. Idle.pc = "idle"
  BY DEF Idle
\* A step of one operation that comes to another call.
<1>3. ASSUME NEW o \in Ops, \A q \in Ops \ {o} : op'[q] = op[q], op'[o].pc # "grant"
      PROVE  \A q \in Ops : op'[q].pc = "grant" => op'[q].req.roles # {}
  BY <1>0, <1>3
<1>4. ASSUME NEW o \in Ops, NEW p \in (PCs \cup {"error"}) \ {"grant"}, Goto(o, p)
      PROVE  (\A q \in Ops \ {o} : op'[q] = op[q]) /\ op'[o].pc # "grant"
  BY <1>0, <1>2, <1>4, GotoEffect
<1>5. ASSUME NEW o \in Ops, NEW r \in Requests, Start(o, r)
      PROVE  \A q \in Ops : op'[q].pc = "grant" => op'[q].req.roles # {}
  <2> DEFINE n == [Idle EXCEPT !.pc = "lookup", !.req = r, !.pid = resolveProject(r),
                               !.alone = \A q \in Ops : ~Active(q)]
  <2>1. n.pc = "lookup"
    BY DEF Idle
  <2>2. op' = [q \in Ops |-> IF q = o THEN n ELSE [op[q] EXCEPT !.alone = FALSE]]
    BY <1>5 DEF Start
  <2> HIDE DEF n
  <2>3. ASSUME NEW q \in Ops
        PROVE  [op[q] EXCEPT !.alone = FALSE].pc = op[q].pc /\ [op[q] EXCEPT !.alone = FALSE].req = op[q].req
    <3>1. op[q] \in Operations
      BY <1>0
    <3> QED
      BY <3>1 DEF Operations
  <2>4. ASSUME NEW q \in Ops, op'[q].pc = "grant" PROVE op'[q].req.roles # {}
    <3>1. q # o
      BY <2>1, <2>2, <2>4
    <3>2. op'[q].pc = op[q].pc /\ op'[q].req = op[q].req
      BY <2>2, <2>3, <3>1
    <3> QED
      BY <1>0, <2>4, <3>2
  <2> QED
    BY <2>4
<1>6. ASSUME NEW o \in Ops, Work(o) \/ Abort(o) \/ Again(o)
      PROVE  \A q \in Ops : op'[q].pc = "grant" => op'[q].req.roles # {}
  <2>0. op[o] \in Operations
    BY <1>0
  <2>1. CASE Lookup(o)
    <3> DEFINE r == op[o].req
    <3>1. StageAt(o) /\ op[o].pc = "lookup" /\ r \in Requests
      BY <2>1 DEF IInv, StageInv, StageAt, Lookup
    <3>2. PICK p \in {"create", "error", "ok", "list", "setPassword"} :
            op' = [op EXCEPT ![o] = IF p = "error" THEN Idle ELSE [@ EXCEPT !.pc = p, !.uid = user[r.name]]]
      BY <2>1, <3>1, ProvisioningAssumption DEF Lookup, Onboards, Revokes
    <3>3. [op[o] EXCEPT !.pc = p, !.uid = user[r.name]].pc = p
      BY <2>0 DEF Operations
    <3>4. op'[o] = IF p = "error" THEN Idle ELSE [op[o] EXCEPT !.pc = p, !.uid = user[r.name]]
      BY <1>0, <3>2
    <3>5. op'[o].pc # "grant"
      BY <1>2, <3>3, <3>4
    <3>6. \A q \in Ops \ {o} : op'[q] = op[q]
      BY <1>0, <3>2
    <3> QED
      BY <1>3, <3>5, <3>6
  <2>2. CASE CreateUser(o)
    <3>1. CASE Goto(o, "error")
      BY <1>3, <1>4, <3>1 DEF PCs
    <3>2. CASE op' = [op EXCEPT ![o].pc = "get", ![o].uid = ids + 1]
      <4>1. op'[o].pc = "get" /\ \A q \in Ops \ {o} : op'[q] = op[q]
        BY <1>0, <2>0, <3>2 DEF Operations
      <4> QED
        BY <1>3, <4>1
    <3> QED
      BY <2>2, <3>1, <3>2 DEF CreateUser
  <2>3. CASE AddSecret(o)
    <3>1. CASE Goto(o, "error")
      BY <1>3, <1>4, <3>1 DEF PCs
    <3>2. CASE op' = [op EXCEPT ![o].pc = "list", ![o].secret = ids + 1]
      <4>1. op'[o].pc = "list" /\ \A q \in Ops \ {o} : op'[q] = op[q]
        BY <1>0, <2>0, <3>2 DEF Operations
      <4> QED
        BY <1>3, <4>1
    <3> QED
      BY <2>3, <3>1, <3>2 DEF AddSecret
  <2>4. CASE List(o)
    <3>1. PICK page \in Pages :
            LET mine == {a \in page : /\ a.user = op[o].uid
                                      /\ op[o].req.kind \in Onboards => a.project = op[o].pid}
            IN  op' = [op EXCEPT
                  ![o].found = mine,
                  ![o].pc = IF op[o].req.kind \in Onboards /\ Reconciled(mine, op[o].req.roles)
                              THEN "setMetadata" ELSE "delete"]
      BY <2>4 DEF List
    <3> DEFINE mine == {a \in page : /\ a.user = op[o].uid
                                     /\ op[o].req.kind \in Onboards => a.project = op[o].pid}
    <3>1a. PICK p \in {"setMetadata", "delete"} : op' = [op EXCEPT ![o].found = mine, ![o].pc = p]
      BY <3>1
    <3> HIDE DEF mine
    <3>2. op'[o].pc = p /\ \A q \in Ops \ {o} : op'[q] = op[q]
      BY <1>0, <2>0, <3>1a DEF Operations
    <3> QED
      BY <1>3, <3>2
  <2>5. CASE DeleteAuthorization(o)
    <3>1. PICK mine : op' = [op EXCEPT ![o].found = mine] /\ op[o].pc = "delete"
      BY <2>5 DEF DeleteAuthorization
    <3>2. op'[o].pc = "delete" /\ \A q \in Ops \ {o} : op'[q] = op[q]
      BY <1>0, <2>0, <3>1 DEF Operations
    <3> QED
      BY <1>3, <3>2
  <2>6. CASE Deleted(o)
    <3>1. CASE op[o].req.roles = {}
      <4>1. Goto(o, "deleteMetadata") \/ Goto(o, "setMetadata")
        BY <2>6, <3>1 DEF Deleted
      <4> QED
        BY <1>3, <1>4, <4>1 DEF PCs
    <3>2. CASE op[o].req.roles # {}
      <4>1. PICK p \in {"deleteMetadata", "setMetadata", "grant"} : Goto(o, p)
        BY <2>6 DEF Deleted
      <4>2. op'[o].req = op[o].req /\ \A q \in Ops \ {o} : op'[q] = op[q]
        BY <1>0, <4>1, GotoEffect DEF PCs
      <4> QED
        BY <1>0, <3>2, <4>2
    <3> QED
      BY <3>1, <3>2
  <2>7. CASE \/ GetUser(o) \/ CreateAuthorization(o) \/ SetMetadata(o) \/ DeleteMetadata(o)
             \/ DeleteUser(o) \/ SetPassword(o) \/ Abort(o)
    <3>1. PICK p \in {"error", "addSecret", "list", "setMetadata", "finish", "deleteMetadata", "deleteUser"} :
             Goto(o, p)
      BY <2>7 DEF GetUser, CreateAuthorization, SetMetadata, DeleteMetadata, DeleteUser, SetPassword, Abort
    <3> QED
      BY <1>3, <1>4, <3>1 DEF PCs
  <2>8. CASE Finish(o)
    <3> DEFINE n == [Idle EXCEPT !.pc = "ok", !.req = op[o].req, !.alone = op[o].alone]
    <3>1. n.pc = "ok"
      BY DEF Idle
    <3>2. op' = [op EXCEPT ![o] = n]
      BY <2>8 DEF Finish
    <3> HIDE DEF n
    <3> QED
      BY <1>0, <1>3, <3>1, <3>2
  <2>9. CASE Again(o)
    <3>1. op' = [op EXCEPT ![o] = Idle]
      BY <2>9 DEF Again
    <3> QED
      BY <1>0, <1>2, <1>3, <3>1
  <2> QED
    BY <1>6, <2>1, <2>2, <2>3, <2>4, <2>5, <2>6, <2>7, <2>8, <2>9 DEF Work
<1>7. CASE UNCHANGED vars \/ \E p \in Projects : ProjectCreated(p)
  BY <1>1, <1>7 DEF vars, ProjectCreated
<1> QED
  BY <1>5, <1>6, <1>7 DEF Next

\* Metadata are written by three calls.
LEMMA MetadataKept ==
    ASSUME IInv, metadata \in [Ids -> [Projects -> [Keys -> Values]]], [Next]_vars
    PROVE  metadata' \in [Ids -> [Projects -> [Keys -> Values]]]
<1>0. \A o \in Ops : StageAt(o)
  BY DEF IInv, StageInv
<1>1. ASSUME NEW o \in Ops, SetMetadata(o) PROVE metadata' \in [Ids -> [Projects -> [Keys -> Values]]]
  <2> DEFINE r == op[o].req
             u == op[o].uid
             m == [k \in Keys |-> IF k \in {j \in Keys : r.access[j] # None} THEN r.access[k]
                                  ELSE metadata[u][r.project][k]]
  <2>1. r \in Requests /\ r.project \in Projects /\ u \in Ids
    BY <1>0, <1>1, ProvisioningAssumption DEF SetMetadata, StageAt
  <2>2. r.access \in [Keys -> Values] /\ metadata[u][r.project] \in [Keys -> Values]
    BY <2>1, AccessTyped
  <2>3. m \in [Keys -> Values]
    BY <2>2
  <2>4. metadata' = metadata \/ metadata' = [metadata EXCEPT ![u][r.project] = m]
    BY <1>1 DEF SetMetadata
  <2> HIDE DEF m
  <2> QED
    BY <2>1, <2>3, <2>4, MetadataWritten
<1>2. ASSUME NEW o \in Ops, DeleteMetadata(o) PROVE metadata' \in [Ids -> [Projects -> [Keys -> Values]]]
  <2> DEFINE r == op[o].req
             u == op[o].uid
             m == [k \in Keys |-> IF k \in {j \in Keys : r.kind \in Revokes \/ r.access[j] = None}
                                  THEN None ELSE metadata[u][r.project][k]]
  <2>1. r \in Requests /\ r.project \in Projects /\ u \in Ids
    BY <1>0, <1>2, ProvisioningAssumption DEF DeleteMetadata, StageAt
  <2>2. metadata[u][r.project] \in [Keys -> Values]
    BY <2>1
  <2>2a. None \in Values
    BY DEF Values
  <2>3. m \in [Keys -> Values]
    BY <2>2, <2>2a
  <2>4. metadata' = metadata \/ metadata' = [metadata EXCEPT ![u][r.project] = m]
    BY <1>2 DEF DeleteMetadata
  <2> HIDE DEF m
  <2> QED
    BY <2>1, <2>3, <2>4, MetadataWritten
<1>3. ASSUME NEW o \in Ops, DeleteUser(o) PROVE metadata' \in [Ids -> [Projects -> [Keys -> Values]]]
  <2>1. [p \in Projects |-> NoAccess] \in [Projects -> [Keys -> Values]]
    BY DEF NoAccess, Values
  <2> QED
    BY <1>3, <2>1 DEF DeleteUser
<1>4. ASSUME NEW o \in Ops, Work(o)
      PROVE  UNCHANGED metadata \/ SetMetadata(o) \/ DeleteMetadata(o) \/ DeleteUser(o)
  BY <1>4 DEF Work, Lookup, CreateUser, GetUser, AddSecret, List, DeleteAuthorization, Deleted,
              CreateAuthorization, SetPassword, Finish, zitadel
<1>5. ASSUME NEW o \in Ops, NEW r \in Requests, Start(o, r) PROVE UNCHANGED metadata
  BY <1>5 DEF Start, zitadel
<1>6. ASSUME NEW o \in Ops, Abort(o) \/ Again(o) PROVE UNCHANGED metadata
  BY <1>6 DEF Abort, Again, zitadel
<1>7. ASSUME UNCHANGED vars \/ \E p \in Projects : ProjectCreated(p) PROVE UNCHANGED metadata
  BY <1>7 DEF vars, ProjectCreated, zitadel
<1> QED
  BY <1>1, <1>2, <1>3, <1>4, <1>5, <1>6, <1>7 DEF Next

LEMMA HeldInit == Init => HeldInv
<1> SUFFICES ASSUME Init PROVE HeldInv
  OBVIOUS
<1>1. NoAccess \in [Keys -> Values]
  BY DEF NoAccess, Values
<1>2. metadata \in [Ids -> [Projects -> [Keys -> Values]]]
  BY <1>1 DEF Init
<1>3. \A o \in Ops : op[o].pc = "idle"
  BY DEF Init, Idle
<1>4. \A a \in auths : a.user # 0 /\ a.user \notin Ids
  BY ProvisioningAssumption DEF Init, Ids
<1> QED
  BY <1>2, <1>3, <1>4 DEF HeldInv

LEMMA HeldStep ==
    ASSUME IInv, HeldInv, [Next]_vars
    PROVE  HeldInv'
<1>1. metadata' \in [Ids -> [Projects -> [Keys -> Values]]]
  BY MetadataKept DEF HeldInv
<1>2. \A o \in Ops : op'[o].pc = "grant" => op'[o].req.roles # {}
  BY GrantsHaveRoles
<1>3. ASSUME NEW a \in auths', a.user \in Ids PROVE a.user <= ids' /\ a.roles # {}
  <2>0. /\ ids \in Nat /\ ids' \in {ids, ids + 1} /\ MaxId \in Nat /\ a.user \in Nat
    BY <1>3, StepEffect, ProvisioningAssumption DEF Ids
  <2>1. CASE a \in auths
    <3>1. a.user <= ids /\ a.roles # {}
      BY <1>3, <2>1 DEF HeldInv
    <3> QED
      BY <2>0, <3>1
  <2>2. CASE a \notin auths
    <3>1. PICK b : /\ auths' = auths \cup {b} /\ ids' = ids + 1
                   /\ b.user \in Ids /\ b.user <= ids /\ b.roles # {}
      BY <1>3, <2>2, StepEffect
    <3>2. a = b
      BY <1>3, <2>2, <3>1
    <3> QED
      BY <2>0, <3>1, <3>2
  <2> QED
    BY <2>1, <2>2
<1>4. ASSUME NEW a \in auths' PROVE a.user # 0
  <2>1. CASE a \in auths
    BY <2>1 DEF HeldInv
  <2>2. CASE a \notin auths
    <3>1. PICK b : auths' = auths \cup {b} /\ b.user \in Ids
      BY <1>4, <2>2, StepEffect
    <3> QED
      BY <2>2, <3>1 DEF Ids
  <2> QED
    BY <2>1, <2>2
<1> QED
  BY <1>1, <1>2, <1>3, <1>4 DEF HeldInv

-----------------------------------------------------------------------------
(* Edits by hand                                                           *)

\* An edit takes authorizations away at most, and its company from everybody.
LEMMA EditEffect ==
    ASSUME IInv, Edit
    PROVE  /\ UNCHANGED <<exists, ids, user, human, metadata, password, secret, delivered, local>>
           /\ auths' \subseteq auths /\ Meanwhile
           /\ op' \in [Ops -> Operations]
           /\ \A o \in Ops : Same(op'[o], op[o]) /\ ~op'[o].alone
<1>1. op \in [Ops -> Operations]
  BY DEF IInv, ShapeInv
<1>2. \A o \in Ops : LET e == [op[o] EXCEPT !.alone = FALSE] IN
                     e \in Operations /\ Same(e, op[o]) /\ ~e.alone
  BY <1>1 DEF Operations, Same
<1>3. op' = [o \in Ops |-> [op[o] EXCEPT !.alone = FALSE]]
  BY DEF Edit
<1>4. auths' \subseteq auths
  BY DEF Edit, EditSettings, EditUsers
<1>5. UNCHANGED <<exists, ids, user, human, metadata, password, secret, delivered, local>> /\ Meanwhile
  BY DEF Edit
<1> QED
  BY <1>2, <1>3, <1>4, <1>5

LEMMA EditIInv ==
    ASSUME IInv, HeldInv, Edit
    PROVE  IInv' /\ HeldInv'
<1>0. /\ UNCHANGED <<exists, ids, user, human, metadata, password, secret, delivered>>
      /\ auths' \subseteq auths /\ op' \in [Ops -> Operations]
      /\ \A o \in Ops : Same(op'[o], op[o])
  BY EditEffect
<1>1. TypeOK /\ ShapeInv /\ StageInv /\ FreshInv /\ SecretInv /\ DeliveredStaysValid
  BY DEF IInv
<1>2. IInv'
  <2>1. CASE Ops = {}
    <3>1. TypeOK' /\ ShapeInv' /\ StageInv'
      BY <1>0, <1>1, <2>1 DEF TypeOK, ShapeInv, StageInv
    <3>2. FreshInv'
      <4>1. Known' \subseteq Known
        BY <1>0, <2>1 DEF Known
      <4> QED
        BY <1>0, <1>1, <2>1, <4>1 DEF FreshInv
    <3>3. SecretInv' /\ DeliveredStaysValid'
      BY <1>0, <1>1, <2>1 DEF SecretInv, DeliveredStaysValid, Exists
    <3> QED
      BY <3>1, <3>2, <3>3 DEF IInv
  <2>2. ASSUME NEW o \in Ops PROVE IInv'
    <3>1. StageAt(o)'
      BY <1>0, <1>1 DEF StageInv, StageAt, Same, Exists, Ids
    <3>2. op'[o].uid <= ids /\ op'[o].found \subseteq Known
      BY <1>0, <1>1 DEF Same, FreshInv, Known
    <3>3. /\ Minting(o)' => Minting(o) /\ op'[o].uid = op[o].uid /\ op'[o].secret = op[o].secret
          /\ Creating(o)' => Creating(o)
      BY <1>0 DEF Same, Minting, Creating
    <3>4. /\ exists' \subseteq Projects
          /\ password' \in [Ids -> {r.password : r \in Requests} \cup {None}]
          /\ \A u \in Ids : password'[u] # None => password[u] # None \/ u \in human
      BY <1>0, <1>1 DEF TypeOK, ShapeInv
    <3> QED
      BY <1>0, <3>1, <3>2, <3>3, <3>4, Quiet
  <2> QED
    BY <2>1, <2>2
<1>3. HeldInv'
  <2>1. metadata' \in [Ids -> [Projects -> [Keys -> Values]]]
    BY <1>0 DEF HeldInv
  <2>2. \A a \in auths' : a.user # 0 /\ (a.user \in Ids => a.user <= ids' /\ a.roles # {})
    BY <1>0 DEF HeldInv
  <2>3. \A o \in Ops : op'[o].pc = "grant" => op'[o].req.roles # {}
    BY <1>0 DEF HeldInv, Same
  <2> QED
    BY <2>1, <2>2, <2>3 DEF HeldInv
<1> QED
  BY <1>2, <1>3

LEMMA EditUndisturbed ==
    ASSUME IInv, UndisturbedInv, Edit
    PROVE  UndisturbedInv'
<1>0. /\ UNCHANGED <<exists, metadata>> /\ auths' \subseteq auths
      /\ \A o \in Ops : Same(op'[o], op[o]) /\ ~op'[o].alone
  BY EditEffect
<1>1. ProjectInv'
  BY <1>0 DEF UndisturbedInv, ProjectInv, Active, Same
<1>2. AloneInv'
  BY <1>0 DEF AloneInv
<1> QED
  BY <1>1, <1>2 DEF UndisturbedInv

\* A verification itself changes nothing, and whatever happens beside it is a
\* step of provisioning or an edit by hand.
LEMMA VerSteps ==
    ASSUME [VerNext]_verVars
    PROVE  UNCHANGED vars \/ Provision \/ Edit
<1>1. Verify => UNCHANGED vars
  BY DEF Verify, VerifyHumanAuthConfiguration, ListActions, GetFlow, verifyWebApplication,
         listAllAuthorizations, verifyHuman, listAllUserMetadata, End, Reading
<1> QED
  BY <1>1 DEF VerNext, verVars

\* Beside verifications and edits by hand provisioning keeps its invariant.
THEOREM VerProvisioning == VerSpec => [](IInv /\ HeldInv)
<1>1. VerInit => IInv /\ HeldInv
  BY InitIInv, HeldInit DEF VerInit
<1>2. IInv /\ HeldInv /\ [VerNext]_verVars => (IInv /\ HeldInv)'
  <2> SUFFICES ASSUME IInv, HeldInv, [VerNext]_verVars PROVE IInv' /\ HeldInv'
    OBVIOUS
  <2>1. [Next]_vars \/ Edit
    BY VerSteps DEF Provision
  <2> QED
    BY <2>1, StepIInv, HeldStep, EditIInv
<1> QED
  BY <1>1, <1>2, PTL DEF VerSpec

\* And an operation that is alone comes as far as it does without them.
LEMMA VerUndisturbed == Cooperative => (VerSpec => []UndisturbedInv)
<1> SUFFICES ASSUME Cooperative PROVE VerSpec => []UndisturbedInv
  OBVIOUS
<1>1. VerInit => UndisturbedInv
  BY InitUndisturbed DEF VerInit
<1>2. IInv /\ UndisturbedInv /\ [VerNext]_verVars => UndisturbedInv'
  <2> SUFFICES ASSUME IInv, UndisturbedInv, [VerNext]_verVars PROVE UndisturbedInv'
    OBVIOUS
  <2>1. [Next]_vars \/ Edit
    BY VerSteps DEF Provision
  <2> QED
    BY <2>1, StepsUndisturbed, EditUndisturbed
<1> QED
  BY <1>1, <1>2, VerProvisioning, PTL DEF VerSpec

-----------------------------------------------------------------------------
(* The list of the authorizations                                          *)

\* What is told apart by numbers.
Numbered(S) == /\ IsFiniteSet(S)
               /\ \A a \in S : a.id \in Nat
               /\ \A a, b \in S : a.id = b.id => a = b

Place(S, a) == Cardinality({b \in S : b.id <= a.id})

\* Places in a finite set are its numbers from 1, one for each element.
LEMMA Places ==
    ASSUME NEW S, Numbered(S)
    PROVE  /\ Cardinality(S) \in Nat
           /\ \A a \in S : Place(S, a) \in 1..Cardinality(S)
           /\ \A a, b \in S : Place(S, a) = Place(S, b) => a = b
           /\ \A i \in 1..Cardinality(S) : \E a \in S : Place(S, a) = i
<1> DEFINE N == Cardinality(S)
           Below(a) == {b \in S : b.id <= a.id}
           f == [a \in S |-> Cardinality(Below(a))]
<1>0. IsFiniteSet(S) /\ N \in Nat
  BY FS_CardinalityType DEF Numbered
<1>1. ASSUME NEW a \in S
      PROVE  /\ IsFiniteSet(Below(a)) /\ Cardinality(Below(a)) \in Nat
             /\ Cardinality(Below(a)) <= N /\ Cardinality(Below(a)) # 0
  <2>1. Below(a) \in SUBSET S /\ a \in Below(a)
    BY DEF Numbered
  <2> HIDE DEF Below
  <2>2. IsFiniteSet(Below(a)) /\ Cardinality(Below(a)) <= N
    BY <1>0, <2>1, FS_Subset
  <2>3. Cardinality(Below(a)) \in Nat
    BY <2>2, FS_CardinalityType
  <2>4. Cardinality(Below(a)) # 0
    BY <2>1, <2>2, FS_EmptySet
  <2> QED
    BY <2>2, <2>3, <2>4
<1>2. ASSUME NEW a \in S, NEW b \in S, a.id < b.id
      PROVE  Cardinality(Below(a)) < Cardinality(Below(b))
  <2>1. Below(a) \in SUBSET Below(b) /\ b \in Below(b) /\ b \notin Below(a)
    BY <1>2 DEF Numbered
  <2> HIDE DEF Below
  <2>2. /\ Cardinality(Below(a)) <= Cardinality(Below(b))
        /\ Cardinality(Below(b)) = Cardinality(Below(a)) => Below(b) = Below(a)
    BY <1>1, <2>1, FS_Subset
  <2>3. Cardinality(Below(a)) # Cardinality(Below(b))
    BY <2>1, <2>2
  <2>4. Cardinality(Below(a)) \in Nat /\ Cardinality(Below(b)) \in Nat
    BY <1>1
  <2> QED
    BY <2>2, <2>3, <2>4
<1>3. ASSUME NEW a \in S, NEW b \in S, Cardinality(Below(a)) = Cardinality(Below(b)) PROVE a = b
  <2>1. ~(a.id < b.id) /\ ~(b.id < a.id)
    <3>1. Cardinality(Below(a)) \in Nat /\ Cardinality(Below(b)) \in Nat
      BY <1>1
    <3> HIDE DEF Below
    <3> QED
      BY <1>2, <1>3, <3>1
  <2>2. a.id \in Nat /\ b.id \in Nat
    BY DEF Numbered
  <2>3. a.id = b.id
    BY <2>1, <2>2
  <2> QED
    BY <2>3 DEF Numbered
<1> HIDE DEF Below
<1>4. f \in Injection(S, 1..N)
  <2>1. f \in [S -> 1..N]
    BY <1>0, <1>1
  <2> QED
    BY <1>3, <2>1 DEF Injection, IsInjective
<1>5. IsFiniteSet(1..N) /\ Cardinality(1..N) = N
  <2>1. IsFiniteSet(1..N) /\ Cardinality(1..N) = IF 1 > N THEN 0 ELSE N - 1 + 1
    BY <1>0, FS_Interval
  <2> QED
    BY <1>0, <2>1
<1>6. f \in Surjection(S, 1..N)
  <2> HIDE DEF f
  <2> QED
    BY <1>4, <1>5, FS_Injection
<1>7. \A i \in 1..N : \E a \in S : f[a] = i
  BY <1>6 DEF Surjection
<1>8. \A a \in S : f[a] = Place(S, a) /\ Cardinality(Below(a)) = Place(S, a)
  BY DEF Place, Below
<1>9. \A a \in S : Place(S, a) \in 1..N
  BY <1>0, <1>1, <1>8
<1> QED
  BY <1>0, <1>3, <1>7, <1>8, <1>9

\* The list has every element, at its place.
LEMMA Order ==
    ASSUME NEW S, Numbered(S)
    PROVE  /\ InOrder(S) \in Seq(S) /\ Len(InOrder(S)) = Cardinality(S) /\ Cardinality(S) \in Nat
           /\ \A i \in 1..Cardinality(S) : InOrder(S)[i] \in S /\ Place(S, InOrder(S)[i]) = i
           /\ \A a \in S : InOrder(S)[Place(S, a)] = a
<1>0. Cardinality(S) \in Nat
  BY Places
<1>1. InOrder(S) = [i \in 1..Cardinality(S) |-> CHOOSE a \in S : Place(S, a) = i]
  BY DEF InOrder, Place
<1>2. ASSUME NEW i \in 1..Cardinality(S)
      PROVE  InOrder(S)[i] \in S /\ Place(S, InOrder(S)[i]) = i
  <2>1. \E a \in S : Place(S, a) = i
    BY Places
  <2>2. InOrder(S)[i] = CHOOSE a \in S : Place(S, a) = i
    BY <1>1
  <2> QED
    BY <2>1, <2>2
<1>3. InOrder(S) \in Seq(S) /\ Len(InOrder(S)) = Cardinality(S)
  <2>1. InOrder(S) \in [1..Cardinality(S) -> S]
    BY <1>1, <1>2
  <2> QED
    BY <1>0, <2>1
<1>4. ASSUME NEW a \in S PROVE InOrder(S)[Place(S, a)] = a
  <2>1. Place(S, a) \in 1..Cardinality(S)
    BY Places
  <2>2. InOrder(S)[Place(S, a)] \in S /\ Place(S, InOrder(S)[Place(S, a)]) = Place(S, a)
    BY <1>2, <2>1
  <2> QED
    BY <2>2, Places
<1> QED
  BY <1>0, <1>2, <1>3, <1>4

\* What is created is listed behind all that was there.
LEMMA OrderGrows ==
    ASSUME NEW S, Numbered(S), NEW a, a.id \in Nat, \A b \in S : b.id < a.id,
           NEW k \in 0..Cardinality(S)
    PROVE  /\ Len(InOrder(S)) <= Len(InOrder(S \cup {a}))
           /\ SubSeq(InOrder(S \cup {a}), 1, k) = SubSeq(InOrder(S), 1, k)
<1> DEFINE T == S \cup {a}
           N == Cardinality(S)
<1>0. /\ InOrder(S) \in Seq(S) /\ Len(InOrder(S)) = N /\ N \in Nat
      /\ \A i \in 1..N : InOrder(S)[i] \in S /\ Place(S, InOrder(S)[i]) = i
  BY Order
<1>1. a \notin S
  BY DEF Numbered
<1>2. Numbered(T) /\ Cardinality(T) = N + 1
  <2>1. IsFiniteSet(T) /\ Cardinality(T) = N + 1
    BY <1>1, FS_AddElement DEF Numbered
  <2>2. \A b \in T : b.id \in Nat
    BY DEF Numbered
  <2>3. \A b, c \in T : b.id = c.id => b = c
    BY DEF Numbered
  <2> QED
    BY <2>1, <2>2, <2>3 DEF Numbered
<1> HIDE DEF N
<1>3. /\ InOrder(T) \in Seq(T) /\ Len(InOrder(T)) = N + 1
      /\ \A b \in T : InOrder(T)[Place(T, b)] = b
  BY <1>2, Order
<1>4. ASSUME NEW b \in S PROVE Place(T, b) = Place(S, b)
  <2>1. a.id \in Nat /\ b.id \in Nat /\ b.id < a.id
    BY DEF Numbered
  <2>2. ~(a.id <= b.id)
    BY <2>1
  <2>3. {c \in T : c.id <= b.id} = {c \in S : c.id <= b.id}
    BY <2>2
  <2> QED
    BY <2>3 DEF Place
<1>5. ASSUME NEW i \in 1..N PROVE InOrder(T)[i] = InOrder(S)[i]
  <2>1. InOrder(S)[i] \in S /\ Place(S, InOrder(S)[i]) = i
    BY <1>0
  <2>2. Place(T, InOrder(S)[i]) = i
    BY <1>4, <2>1
  <2>3. InOrder(S)[i] \in T
    BY <2>1
  <2> QED
    BY <1>3, <2>2, <2>3
<1>6. k \in Nat /\ k <= N
  BY <1>0 DEF N
<1>7. /\ SubSeq(InOrder(S), 1, k) \in Seq(S) /\ Len(SubSeq(InOrder(S), 1, k)) = k
      /\ \A i \in 1..k : SubSeq(InOrder(S), 1, k)[i] = InOrder(S)[i]
  <2>1. \A i \in 1..k : InOrder(S)[i] \in S
    BY <1>0, <1>6
  <2>2. /\ SubSeq(InOrder(S), 1, k) \in Seq(S)
        /\ Len(SubSeq(InOrder(S), 1, k)) = IF 1 <= k THEN k - 1 + 1 ELSE 0
        /\ \A i \in 1..(k - 1 + 1) : SubSeq(InOrder(S), 1, k)[i] = InOrder(S)[1 + i - 1]
    BY <1>6, <2>1, SubSeqProperties
  <2> QED
    BY <1>6, <2>2
<1> DEFINE p == InOrder(S)
           q == InOrder(T)
<1>8. /\ SubSeq(q, 1, k) \in Seq(S) /\ Len(SubSeq(q, 1, k)) = k
      /\ \A i \in 1..k : SubSeq(q, 1, k)[i] = q[i]
  <2>1. \A i \in 1..N : q[i] \in S
    BY <1>0, <1>5
  <2> HIDE DEF q
  <2>2. \A i \in 1..k : q[i] \in S
    BY <1>0, <1>6, <2>1
  <2>3. /\ SubSeq(q, 1, k) \in Seq(S)
        /\ Len(SubSeq(q, 1, k)) = IF 1 <= k THEN k - 1 + 1 ELSE 0
        /\ \A i \in 1..(k - 1 + 1) : SubSeq(q, 1, k)[i] = q[1 + i - 1]
    BY <1>6, <2>2, SubSeqProperties
  <2> QED
    BY <1>6, <2>3
<1>9. \A i \in 1..k : SubSeq(q, 1, k)[i] = SubSeq(p, 1, k)[i]
  <2>1. \A i \in 1..N : q[i] = p[i]
    BY <1>5
  <2>2. \A i \in 1..k : SubSeq(p, 1, k)[i] = p[i]
    BY <1>7
  <2> HIDE DEF p, q
  <2> QED
    BY <1>0, <1>6, <1>8, <2>1, <2>2
<1>10. SubSeq(InOrder(T), 1, k) = SubSeq(InOrder(S), 1, k)
  <2> DEFINE s == SubSeq(InOrder(S), 1, k)
             t == SubSeq(InOrder(T), 1, k)
  <2>1. s \in Seq(S) /\ t \in Seq(S) /\ Len(t) = Len(s) /\ \A i \in 1..Len(t) : t[i] = s[i]
    BY <1>7, <1>8, <1>9 DEF p, q
  <2> HIDE DEF s, t
  <2>2. t = s
    BY <2>1, SeqEqual
  <2> QED
    BY <2>2 DEF s, t
<1>11. Len(p) <= Len(q)
  <2>1. Len(p) = N /\ Len(q) = N + 1
    BY <1>0, <1>3
  <2> HIDE DEF p, q
  <2> QED
    BY <1>0, <2>1
<1> QED
  BY <1>10, <1>11 DEF T

\* Identifiers are bounded, so that what they tell apart is finite.
LEMMA FewNumbers ==
    ASSUME NEW S, \A a \in S : a.id \in Ids, \A a, b \in S : a.id = b.id => a = b
    PROVE  Numbered(S)
<1> DEFINE idOf == [a \in S |-> a.id]
<1>1. idOf \in Injection(S, Ids)
  BY DEF Injection, IsInjective
<1>2. IsFiniteSet(Ids)
  BY ProvisioningAssumption, FS_Interval DEF Ids
<1> HIDE DEF idOf
<1>3. IsFiniteSet(S)
  BY <1>1, <1>2, FS_Injection
<1>4. \A a \in S : a.id \in Nat
  BY DEF Ids
<1> QED
  BY <1>3, <1>4 DEF Numbered

\* Authorizations are told apart by their identifiers.
LEMMA AuthsNumbered ==
    ASSUME IInv
    PROVE  Numbered(auths) /\ \A a \in auths : a.id <= ids
<1>1. \A a \in auths : a.id \in Ids /\ a.id <= ids /\ \A b \in auths : a.id = b.id => a = b
  BY DEF IInv, FreshInv, TypeOK, Known
<1> QED
  BY <1>1, FewNumbers

\* A turn of the walk through a list whose beginning was received receives a
\* longer beginning, and the walk is done at the end of the list only.
LEMMA WalkTurn ==
    ASSUME NEW S, AuthList \in Seq(S), Len(seen) \in Nat, Len(seen) <= Len(AuthList),
           seen = SubSeq(AuthList, 1, Len(seen)), Walk!Turn
    PROVE  /\ Len(seen') \in Nat /\ Len(seen') <= Len(AuthList)
           /\ seen' = SubSeq(AuthList, 1, Len(seen'))
           /\ walk' \in {"walking", "done", "stuck"}
           /\ ListEnds /\ walk' = "done" => Len(seen') = Len(AuthList)
<1> DEFINE o == Len(seen)
           L == Len(AuthList)
           e == Walk!PageEnd(AuthList, o)
<1>0. /\ o \in Nat /\ L \in Nat /\ o <= L /\ lookupPageSize \in Nat \ {0} /\ max \in Nat \ {0}
      /\ totals \in {"exact", "none", "over"} /\ \A i \in 1..L : AuthList[i] \in S
  BY VerificationAssumption
<1>1. /\ seen' = seen \o SubSeq(AuthList, o + 1, e)
      /\ walk' = Walk!Outcome(AuthList, seen \o SubSeq(AuthList, o + 1, e))
  BY DEF Walk!Turn, Walk!Received, Walk!offset
<1>2. /\ e \in Nat /\ o <= e /\ e <= L
      /\ e - o < lookupPageSize /\ max >= lookupPageSize => e = L
  <2>1. e = IF o >= L THEN o
            ELSE IF L <= o + (IF lookupPageSize <= max THEN lookupPageSize ELSE max) THEN L
                 ELSE o + (IF lookupPageSize <= max THEN lookupPageSize ELSE max)
    BY DEF Walk!PageEnd, Walk!Smaller
  <2> HIDE DEF e, o, L
  <2> QED
    BY <1>0, <2>1
<1> HIDE DEF e, L
<1>3. seen \o SubSeq(AuthList, o + 1, e) = SubSeq(AuthList, 1, e)
  <2>1. 1 \in 1..(Len(AuthList) + 1) /\ o \in 0..Len(AuthList) /\ e \in o..Len(AuthList)
    BY <1>0, <1>2 DEF L
  <2>2. SubSeq(AuthList, 1, o) \o SubSeq(AuthList, o + 1, e) = SubSeq(AuthList, 1, e)
    <3> HIDE DEF o
    <3>1. o \in (1 - 1)..Len(AuthList)
      BY <2>1
    <3> QED
      BY <2>1, <3>1, ConcatAdjacentSubSeq
  <2> QED
    BY <2>2
<1>4. Len(SubSeq(AuthList, 1, e)) = e
  <2>1. \A i \in 1..e : AuthList[i] \in S
    BY <1>0, <1>2
  <2>2. Len(SubSeq(AuthList, 1, e)) = IF 1 <= e THEN e - 1 + 1 ELSE 0
    BY <1>2, <2>1, SubSeqProperties
  <2> QED
    BY <1>2, <2>2
<1>5. seen' = SubSeq(AuthList, 1, e) /\ Len(seen') = e
  BY <1>1, <1>3, <1>4
<1>6. Walk!offset = o
  BY DEF Walk!offset
<1>7. walk' = IF (IF Walk!Total(AuthList) > 0 THEN e >= Walk!Total(AuthList)
                  ELSE e - o < lookupPageSize) THEN "done"
              ELSE IF e = o THEN "stuck" ELSE "walking"
  BY <1>1, <1>3, <1>4, <1>6 DEF Walk!Outcome, Walk!paginationComplete
<1>8. Walk!Total(AuthList) = IF totals = "exact" THEN L ELSE IF totals = "none" THEN 0 ELSE L + 1
  BY <1>0 DEF Walk!Total, Walk!Hidden, L
<1>9. ASSUME ListEnds, walk' = "done" PROVE e = L
  <2> HIDE DEF o
  <2>1. CASE totals = "exact"
    <3>1. Walk!Total(AuthList) = L
      BY <1>8, <2>1
    <3>2. IF L > 0 THEN e >= L ELSE e - o < lookupPageSize
      BY <1>7, <1>9, <3>1
    <3> QED
      BY <1>0, <1>2, <3>2
  <2>2. CASE totals = "none"
    <3>1. Walk!Total(AuthList) = 0 /\ max >= lookupPageSize
      BY <1>8, <1>9, <2>2 DEF ListEnds
    <3>2. e - o < lookupPageSize
      BY <1>7, <1>9, <3>1
    <3> QED
      BY <1>2, <3>1, <3>2
  <2>3. CASE totals = "over"
    <3>1. Walk!Total(AuthList) = L + 1
      BY <1>8, <2>3
    <3>2. ~(e >= L + 1) /\ L + 1 > 0
      BY <1>0, <1>2
    <3> QED
      BY <1>7, <1>9, <3>1, <3>2
  <2> QED
    BY <1>0, <2>1, <2>2, <2>3
<1> QED
  BY <1>2, <1>5, <1>7, <1>9 DEF L

-----------------------------------------------------------------------------
(* What happens beside a verification                                      *)

\* A step that is not the verification's leaves what the verification holds,
\* and its history tells what the step has done.
LEMMA Beside ==
    ASSUME IInv, HeldInv, LocalInv, Provision \/ Edit \/ UNCHANGED verVars
    PROVE  /\ UNCHANGED local /\ standing' \subseteq auths'
           /\ vpc = "off" => UNCHANGED past
           /\ vpc # "off" =>
                 /\ standing' = standing \cap auths'
                 /\ quiet' => quiet /\ UNCHANGED <<user, human, auths, metadata, settings>>
                 /\ ~deleted' => ~deleted /\ auths \subseteq auths'
                 /\ quiet' /\ ~deleted => ~deleted'
           /\ \A n \in Usernames : user'[n] \in {user[n], 0} \/ user'[n] = ids + 1
           /\ ids \in Nat
           /\ \/ auths' \subseteq auths
              \/ \E a : auths' = auths \cup {a} /\ a.id = ids + 1
<1>0. standing \subseteq auths /\ (vpc = "off" => standing = {})
  BY DEF LocalInv
<1>1. ASSUME Provision \/ Edit PROVE UNCHANGED local /\ Meanwhile
  BY <1>1 DEF Provision, Edit
<1>2. ASSUME Provision \/ UNCHANGED verVars
      PROVE  /\ \A n \in Usernames : user'[n] \in {user[n], 0} \/ user'[n] = ids + 1
             /\ ids \in Nat
             /\ \/ auths' \subseteq auths
                \/ \E a : auths' = auths \cup {a} /\ a.id = ids + 1
  <2>1. [Next]_vars
    BY <1>2 DEF Provision, verVars
  <2>2. /\ ids \in Nat
        /\ \A n \in Usernames : user'[n] \in {user[n], 0} \/ (user'[n] = ids + 1 /\ ids' = ids + 1)
        /\ \/ auths' \subseteq auths
           \/ \E a : /\ auths' = auths \cup {a} /\ a.id = ids + 1 /\ ids' = ids + 1
                     /\ a.user \in Ids /\ a.user <= ids /\ a.roles # {}
    BY <2>1, StepEffect
  <2> QED
    BY <2>2
<1>3. ASSUME Edit
      PROVE  /\ \A n \in Usernames : user'[n] \in {user[n], 0} \/ user'[n] = ids + 1
             /\ ids \in Nat /\ auths' \subseteq auths
  <2>1. user' = user /\ auths' \subseteq auths
    BY <1>3, EditEffect
  <2>2. ids \in Nat
    BY ProvisioningAssumption DEF IInv, TypeOK
  <2> QED
    BY <2>1, <2>2
<1>4. ASSUME Meanwhile
      PROVE  /\ standing' \subseteq auths'
             /\ vpc = "off" => UNCHANGED past
             /\ vpc # "off" =>
                   /\ standing' = standing \cap auths'
                   /\ quiet' => quiet /\ UNCHANGED <<user, human, auths, metadata, settings>>
                   /\ ~deleted' => ~deleted /\ auths \subseteq auths'
                   /\ quiet' /\ ~deleted => ~deleted'
  <2>1. CASE vpc = "off"
    BY <1>0, <1>4, <2>1 DEF Meanwhile, past
  <2>2. CASE vpc # "off"
    <3>1. standing' = standing \cap auths'
      BY <1>4, <2>2 DEF Meanwhile
    <3>2. quiet' => quiet /\ UNCHANGED <<user, human, auths, metadata, settings>>
      BY <1>4, <2>2 DEF Meanwhile, zitadel
    <3>3. deleted' = (deleted \/ ~(auths \subseteq auths'))
      BY <1>4, <2>2 DEF Meanwhile
    <3>4. quiet' /\ ~deleted => ~deleted'
      BY <3>2, <3>3
    <3> QED
      BY <2>2, <3>1, <3>2, <3>3, <3>4
  <2> QED
    BY <2>1, <2>2
<1>5. ASSUME UNCHANGED verVars
      PROVE  UNCHANGED <<user, human, auths, metadata, settings, local, past>>
  BY <1>5 DEF verVars, vars, zitadel, local, past, settings
<1>6. CASE UNCHANGED verVars
  <2>1. /\ quiet' = quiet /\ standing' = standing /\ deleted' = deleted
        /\ UNCHANGED <<user, human, auths, metadata, settings, local, past>>
    BY <1>5, <1>6 DEF past
  <2>2. standing' = standing \cap auths' /\ standing' \subseteq auths'
    BY <1>0, <2>1
  <2> QED
    BY <1>2, <1>6, <2>1, <2>2
<1>7. CASE Provision \/ Edit
  <2>1. CASE Provision
    BY <1>1, <1>2, <1>4, <2>1
  <2>2. CASE Edit
    BY <1>1, <1>3, <1>4, <2>2
  <2> QED
    BY <1>7, <2>1, <2>2
<1> QED
  BY <1>6, <1>7

\* The rest of the humans.
LEMMA Rest ==
    ASSUME NEW s \in Seq(Requests), s # <<>>, validateHumanConfigurations(s)
    PROVE  /\ Head(s) \in Range(s) /\ Head(s) \in Requests
           /\ Tail(s) \in Seq(Requests) /\ Range(Tail(s)) = Range(s) \ {Head(s)}
           /\ validateHumanConfigurations(Tail(s))
<1>1. /\ Head(s) = s[1] /\ Head(s) \in Requests
      /\ Tail(s) \in Seq(Requests) /\ Len(Tail(s)) = Len(s) - 1
      /\ \A i \in 1..Len(Tail(s)) : Tail(s)[i] = s[i + 1]
  BY HeadTailProperties
<1>2. Len(s) \in Nat /\ Len(s) # 0 /\ DOMAIN s = 1..Len(s) /\ DOMAIN Tail(s) = 1..Len(Tail(s))
  BY <1>1, EmptySeq
<1> DEFINE L == Len(s)
           M == Len(Tail(s))
           t == Tail(s)
<1>3. /\ L \in Nat /\ L # 0 /\ DOMAIN s = 1..L /\ DOMAIN t = 1..M /\ M = L - 1
      /\ \A i \in 1..M : t[i] = s[i + 1]
      /\ Range(s) = {s[i] : i \in 1..L} /\ Range(t) = {t[i] : i \in 1..M}
      /\ \A i, j \in 1..L : s[i].name = s[j].name => i = j
  BY <1>1, <1>2 DEF Range, validateHumanConfigurations
<1> HIDE DEF L, M, t
<1>4. s[1] \in Range(s)
  BY <1>3
<1>5. Range(t) \subseteq Range(s) \ {s[1]}
  <2> SUFFICES ASSUME NEW i \in 1..M PROVE t[i] \in Range(s) /\ t[i] # s[1]
    BY <1>3
  <2>1. i + 1 \in 1..L /\ 1 \in 1..L /\ i + 1 # 1 /\ t[i] = s[i + 1]
    BY <1>3
  <2> QED
    BY <1>3, <2>1
<1>6. Range(s) \ {s[1]} \subseteq Range(t)
  <2> SUFFICES ASSUME NEW i \in 1..L, s[i] # s[1] PROVE s[i] \in Range(t)
    BY <1>3
  <2>1. i - 1 \in 1..M /\ i - 1 + 1 = i
    BY <1>3
  <2>2. t[i - 1] = s[i]
    BY <1>3, <2>1
  <2> QED
    BY <1>3, <2>1, <2>2
<1>7. \A i, j \in 1..M : t[i].name = t[j].name => i = j
  <2> SUFFICES ASSUME NEW i \in 1..M, NEW j \in 1..M, t[i].name = t[j].name PROVE i = j
    OBVIOUS
  <2>1. i + 1 \in 1..L /\ j + 1 \in 1..L /\ t[i] = s[i + 1] /\ t[j] = s[j + 1]
    BY <1>3
  <2>2. i + 1 = j + 1
    BY <1>3, <2>1
  <2> QED
    BY <2>2
<1>8. validateHumanConfigurations(t)
  BY <1>3, <1>7 DEF validateHumanConfigurations
<1>9. Range(t) = Range(s) \ {s[1]}
  BY <1>5, <1>6
<1> QED
  BY <1>1, <1>4, <1>8, <1>9 DEF t

\* Humans are told apart by their names.
LEMMA OneName ==
    ASSUME NEW s \in Seq(Requests), validateHumanConfigurations(s),
           NEW g \in Range(s), NEW h \in Range(s), g.name = h.name
    PROVE  g = h
BY DEF Range, validateHumanConfigurations

LEMMA InRange ==
    ASSUME NEW S, NEW s \in Seq(S)
    PROVE  Range(s) \subseteq S
BY DEF Range

-----------------------------------------------------------------------------
(* The invariant of a verification, part by part                           *)

\* A step is one of the verification, or is beside it.
LEMMA VerCases ==
    ASSUME [VerNext]_verVars
    PROVE  \/ Provision \/ Edit \/ UNCHANGED verVars
           \/ \E i \in Inputs : VerifyHumanAuthConfiguration(i)
           \/ ListActions \/ GetFlow \/ verifyWebApplication \/ listAllAuthorizations
           \/ verifyHuman \/ listAllUserMetadata \/ End
BY DEF VerNext, Verify

\* Nothing but a verification's own state moves when it starts or goes on.
LEMMA VerifyReads ==
    /\ \A i \in Inputs : VerifyHumanAuthConfiguration(i) =>
           /\ UNCHANGED <<user, human, auths, metadata, asserts, action, app, inactive, altered>>
           /\ quiet' = quiet /\ deleted' = deleted
    /\ ListActions \/ GetFlow \/ verifyWebApplication \/ listAllAuthorizations
       \/ verifyHuman \/ listAllUserMetadata =>
           /\ UNCHANGED <<user, human, auths, metadata, asserts, action, app, inactive, altered>>
           /\ quiet' = quiet /\ deleted' = deleted /\ standing' = standing
    /\ End => UNCHANGED <<user, human, auths, metadata, asserts, action, app, inactive, altered>>
BY DEF VerifyHumanAuthConfiguration, ListActions, GetFlow, verifyWebApplication, listAllAuthorizations,
       verifyHuman, listAllUserMetadata, End, Reading, vars, zitadel, settings, past

LEMMA SettingsStep ==
    ASSUME SettingsInv, [VerNext]_verVars
    PROVE  SettingsInv'
<1>1. CASE UNCHANGED <<asserts, action, app>>
  BY <1>1 DEF SettingsInv
<1>2. CASE EditSettings
  <2>0. /\ asserts \in BOOLEAN /\ app \in {"current", "drifted", "other", "absent"}
        /\ action \in [count: 0..2, same: BOOLEAN, flow: {"wired", "unwired", "missing"}]
    BY DEF SettingsInv
  <2>1. asserts' \in BOOLEAN
    BY <1>2, <2>0 DEF EditSettings
  <2>2. app' \in {"current", "drifted", "other", "absent"}
    BY <1>2, <2>0 DEF EditSettings
  <2>3. action' \in [count: 0..2, same: BOOLEAN, flow: {"wired", "unwired", "missing"}]
    BY <1>2, <2>0 DEF EditSettings
  <2> QED
    BY <2>1, <2>2, <2>3 DEF SettingsInv
<1>3. Edit => EditSettings \/ UNCHANGED <<asserts, action, app>>
  BY DEF Edit, EditUsers
<1>4. Provision \/ UNCHANGED verVars => UNCHANGED <<asserts, action, app>>
  BY DEF Provision, verVars, settings
<1> QED
  BY <1>1, <1>2, <1>3, <1>4, VerCases, VerifyReads

\* What a walk comes to.
LEMMA WalkOutcome ==
    ASSUME Walk!Turn
    PROVE  walk = "walking" /\ walk' \in {"walking", "done", "stuck"}
BY DEF Walk!Turn, Walk!Outcome

LEMMA LocalStep ==
    ASSUME IInv, HeldInv, SettingsInv, LocalInv, [VerNext]_verVars
    PROVE  LocalInv'
<1>0. vpc \in VerPCs /\ standing \subseteq auths
  BY DEF LocalInv
<1>1. ASSUME Provision \/ Edit \/ UNCHANGED verVars PROVE LocalInv'
  <2>1. UNCHANGED local /\ standing' \subseteq auths'
    BY <1>1, Beside
  <2>2. UNCHANGED <<vpc, in, walk, seen, left>>
    BY <2>1 DEF local
  <2>3. vpc = "off" => quiet' /\ ~deleted' /\ standing' = {}
    BY <1>1, Beside DEF LocalInv, past
  <2> QED
    BY <2>1, <2>2, <2>3 DEF LocalInv
<1>2. ASSUME NEW i \in Inputs, VerifyHumanAuthConfiguration(i) PROVE LocalInv'
  <2>1. /\ vpc = "off" /\ vpc' = "actions" /\ in' = i /\ left' = i.humans /\ standing' = auths
        /\ auths' = auths /\ UNCHANGED <<walk, seen>> /\ validateHumanConfigurations(i.humans)
    BY <1>2, VerifyReads DEF VerifyHumanAuthConfiguration
  <2>2. i.humans \in Seq(Requests)
    BY VerificationAssumption
  <2>3. walk = "walking" /\ seen = <<>>
    BY <2>1 DEF LocalInv, Late
  <2> QED
    BY <2>1, <2>2, <2>3 DEF LocalInv, VerPCs, Late
\* The calls that leave the walk and the humans alone.
<1>3. ASSUME UNCHANGED <<in, walk, seen, left, standing, auths>>,
             \/ vpc = "actions" /\ vpc' \in {"flow", "application"}
             \/ vpc = "flow" /\ vpc' = "application"
             \/ vpc = "application" /\ vpc' = "authorizations"
      PROVE  LocalInv'
  <2>1. vpc' \in VerPCs /\ standing' \subseteq auths' /\ vpc' # "off"
    BY <1>0, <1>3 DEF VerPCs
  <2>2. /\ in \in Inputs /\ validateHumanConfigurations(in.humans)
        /\ left \in Seq(Requests) /\ Range(left) \subseteq Range(in.humans)
        /\ validateHumanConfigurations(left)
        /\ walk = "walking" /\ left = in.humans /\ seen = <<>>
    BY <1>3 DEF LocalInv, Late
  <2>3. vpc' \notin Late \cup {"failed", "off"}
    BY <1>3 DEF Late
  <2> QED
    BY <1>3, <2>1, <2>2, <2>3 DEF LocalInv, Late
<1>4. ASSUME ListActions \/ GetFlow \/ verifyWebApplication PROVE LocalInv'
  <2>1. UNCHANGED <<in, walk, seen, left, standing, auths>>
    BY <1>4, VerifyReads DEF ListActions, GetFlow, verifyWebApplication
  <2>2. \/ vpc = "actions" /\ vpc' \in {"flow", "application"}
        \/ vpc = "flow" /\ vpc' = "application"
        \/ vpc = "application" /\ vpc' = "authorizations"
    <3>1. CASE ListActions
      <4>1. action.count = 0 \/ action.count > 1 \/ action.count = 1
        BY DEF SettingsInv
      <4>2. action.count = 1 => ~(action.count = 0) /\ ~(action.count > 1)
        BY DEF SettingsInv
      <4> QED
        BY <3>1, <4>1, <4>2 DEF ListActions
    <3>2. CASE GetFlow
      BY <3>2 DEF GetFlow
    <3>3. CASE verifyWebApplication
      BY <3>3 DEF verifyWebApplication
    <3> QED
      BY <1>4, <3>1, <3>2, <3>3
  <2> QED
    BY <1>3, <2>1, <2>2
<1>5. ASSUME listAllAuthorizations PROVE LocalInv'
  <2>1. /\ vpc = "authorizations" /\ UNCHANGED <<in, left, standing, auths>>
        /\ vpc' = CASE walk' = "walking" -> "authorizations"
                    [] walk' = "done"    -> AtHuman(left)
                    [] walk' = "stuck"   -> "failed"
    BY <1>5, VerifyReads DEF listAllAuthorizations
  <2>2. walk' \in {"walking", "done", "stuck"}
    BY <1>5, WalkOutcome DEF listAllAuthorizations
  <2>3. /\ in \in Inputs /\ validateHumanConfigurations(in.humans)
        /\ left \in Seq(Requests) /\ Range(left) \subseteq Range(in.humans)
        /\ validateHumanConfigurations(left) /\ left = in.humans
    BY <2>1 DEF LocalInv, Late
  <2>4. \/ vpc' = "authorizations" /\ walk' = "walking"
        \/ vpc' = "done" /\ left = <<>>
        \/ vpc' = "user" /\ left # <<>>
        \/ vpc' = "failed"
    BY <2>1, <2>2 DEF AtHuman
  <2> QED
    BY <1>0, <2>1, <2>3, <2>4 DEF LocalInv, Late, VerPCs
\* The calls made for one human after the other.
<1>6. ASSUME vpc \in {"user", "metadata"}, UNCHANGED <<in, walk, seen, standing, auths>>,
             \/ vpc' = "metadata" /\ left' = left
             \/ vpc' = AtHuman(Tail(left)) /\ left' = Tail(left)
      PROVE  LocalInv'
  <2>1. /\ in \in Inputs /\ validateHumanConfigurations(in.humans)
        /\ left \in Seq(Requests) /\ Range(left) \subseteq Range(in.humans)
        /\ validateHumanConfigurations(left) /\ left # <<>>
    BY <1>6 DEF LocalInv
  <2>2. /\ Tail(left) \in Seq(Requests) /\ Range(Tail(left)) \subseteq Range(in.humans)
        /\ validateHumanConfigurations(Tail(left))
    BY <2>1, Rest
  <2>3. /\ left' \in Seq(Requests) /\ Range(left') \subseteq Range(in.humans)
        /\ validateHumanConfigurations(left')
    BY <1>6, <2>1, <2>2
  <2>4. \/ vpc' \in {"user", "metadata"} /\ left' # <<>>
        \/ vpc' = "done" /\ left' = <<>>
    BY <1>6, <2>1 DEF AtHuman
  <2> QED
    BY <1>0, <1>6, <2>1, <2>3, <2>4 DEF LocalInv, Late, VerPCs
<1>7. ASSUME verifyHuman \/ listAllUserMetadata PROVE LocalInv'
  <2>1. UNCHANGED <<in, walk, seen, standing, auths>> /\ vpc \in {"user", "metadata"}
    BY <1>7, VerifyReads DEF verifyHuman, listAllUserMetadata
  <2>2. \/ vpc' = "metadata" /\ left' = left
        \/ vpc' = AtHuman(Tail(left)) /\ left' = Tail(left)
    BY <1>7 DEF verifyHuman, listAllUserMetadata
  <2> QED
    BY <1>6, <2>1, <2>2
<1>8. ASSUME End PROVE LocalInv'
  BY <1>8 DEF End, LocalInv, Late, VerPCs
<1> QED
  BY <1>1, <1>2, <1>4, <1>5, <1>7, <1>8, VerCases

\* While nothing is deleted, a list only grows at its end.
LEMMA BeginningStays ==
    ASSUME IInv, HeldInv, auths \subseteq auths', NEW k \in 0..Len(AuthList), ids \in Nat,
           auths' \subseteq auths \/ \E a : auths' = auths \cup {a} /\ a.id = ids + 1
    PROVE  /\ k \in 0..Len(AuthList')
           /\ SubSeq(AuthList', 1, k) = SubSeq(AuthList, 1, k)
<1>0. Numbered(auths) /\ \A a \in auths : a.id <= ids
  BY AuthsNumbered
<1>1. AuthList = InOrder(auths) /\ AuthList' = InOrder(auths')
  BY DEF AuthList
<1>2. /\ Len(AuthList) = Cardinality(auths) /\ Cardinality(auths) \in Nat
  BY <1>0, <1>1, Order
<1>3. CASE auths' = auths
  BY <1>1, <1>3
<1>4. CASE auths' # auths
  <2>1. PICK a : auths' = auths \cup {a} /\ a.id = ids + 1
    BY <1>4
  <2>2. a.id \in Nat /\ \A b \in auths : b.id < a.id
    BY <1>0, <2>1 DEF Numbered
  <2>3. k \in 0..Cardinality(auths)
    BY <1>2
  <2>4. /\ Len(InOrder(auths)) <= Len(InOrder(auths \cup {a}))
        /\ SubSeq(InOrder(auths \cup {a}), 1, k) = SubSeq(InOrder(auths), 1, k)
    BY <1>0, <2>2, <2>3, OrderGrows
  <2>5. Len(AuthList') \in Nat
    <3>1. \A b, c \in auths' : b.id = c.id => b = c
      BY <1>0, <2>1, <2>2 DEF Numbered
    <3>2. IsFiniteSet(auths')
      BY <1>0, <2>1, FS_AddElement DEF Numbered
    <3>3. \A b \in auths' : b.id \in Nat
      BY <1>0, <2>1, <2>2 DEF Numbered
    <3>4. Numbered(auths')
      BY <3>1, <3>2, <3>3 DEF Numbered
    <3> QED
      BY <1>1, <3>4, Order
  <2>6. /\ Len(AuthList) <= Len(AuthList')
        /\ SubSeq(AuthList', 1, k) = SubSeq(AuthList, 1, k)
    BY <1>1, <2>1, <2>4
  <2>7. k \in Nat /\ k <= Len(AuthList) /\ Len(AuthList) \in Nat
    BY <1>2
  <2> QED
    BY <2>5, <2>6, <2>7
<1> QED
  BY <1>3, <1>4

\* The list is one of authorizations, of all of them.
LEMMA ListShape ==
    ASSUME IInv
    PROVE  AuthList \in Seq(auths) /\ Len(AuthList) \in Nat
<1>1. Numbered(auths)
  BY AuthsNumbered
<1>2. /\ AuthList \in Seq(auths) /\ Len(AuthList) = Cardinality(auths) /\ Cardinality(auths) \in Nat
  BY <1>1, Order DEF AuthList
<1> QED
  BY <1>2

LEMMA AllListed ==
    ASSUME IInv
    PROVE  Range(AuthList) = auths
<1>0. Numbered(auths)
  BY AuthsNumbered
<1>1. /\ AuthList \in Seq(auths) /\ Len(AuthList) = Cardinality(auths) /\ Cardinality(auths) \in Nat
      /\ \A a \in auths : AuthList[Place(auths, a)] = a
  BY <1>0, Order DEF AuthList
<1>2. \A a \in auths : Place(auths, a) \in 1..Cardinality(auths)
  BY <1>0, Places
<1>3. DOMAIN AuthList = 1..Cardinality(auths)
  BY <1>1
<1>4. auths \subseteq Range(AuthList)
  BY <1>1, <1>2, <1>3 DEF Range
<1>5. Range(AuthList) \subseteq auths
  BY <1>1, InRange
<1> QED
  BY <1>4, <1>5

\* It still is after the next step.
LEMMA NextList ==
    ASSUME IInv'
    PROVE  Len(AuthList') \in Nat
<1>1. \A a \in auths' : a.id \in Ids /\ \A b \in auths' : a.id = b.id => a = b
  BY DEF IInv, FreshInv, TypeOK, Known, Ids
<1>2. Numbered(auths')
  BY <1>1, FewNumbers
<1> QED
  BY <1>2, Order DEF AuthList

LEMMA ReceivedStep ==
    ASSUME ListEnds, IInv, HeldInv, SettingsInv, LocalInv, ReceivedInv, [VerNext]_verVars
    PROVE  ReceivedInv'
<1>0. AuthList \in Seq(auths) /\ Len(AuthList) \in Nat
  BY ListShape
<1>1. ASSUME Provision \/ Edit \/ UNCHANGED verVars PROVE ReceivedInv'
  <2>0. UNCHANGED <<vpc, seen, left, uid>>
    BY <1>1, Beside DEF local
  <2>1. ~deleted' => ~deleted /\ (vpc = "off" \/ auths \subseteq auths')
    BY <1>1, Beside DEF past
  <2>2. ~deleted' => /\ Len(seen) \in 0..Len(AuthList')
                     /\ seen = SubSeq(AuthList', 1, Len(seen))
    <3> SUFFICES ASSUME ~deleted' PROVE Len(seen) \in 0..Len(AuthList') /\ seen = SubSeq(AuthList', 1, Len(seen))
      OBVIOUS
    <3>1. CASE vpc = "off"
      <4>1. seen = <<>> /\ Len(seen) = 0
        BY <3>1 DEF LocalInv, Late
      <4>2. SubSeq(AuthList', 1, 0) = <<>>
        BY SubSeqEmpty
      <4>3. Len(AuthList') \in Nat
        <5>1. IInv'
          <6>1. [Next]_vars \/ Edit
            BY <1>1 DEF Provision, verVars
          <6> QED
            BY <6>1, StepIInv, EditIInv
        <5> QED
          BY <5>1, NextList
      <4> QED
        BY <4>1, <4>2, <4>3
    <3>2. CASE vpc # "off"
      <4>1. Len(seen) \in 0..Len(AuthList) /\ seen = SubSeq(AuthList, 1, Len(seen))
        BY <2>1 DEF ReceivedInv
      <4>2. /\ auths \subseteq auths' /\ ids \in Nat
            /\ auths' \subseteq auths \/ \E a : auths' = auths \cup {a} /\ a.id = ids + 1
        BY <1>1, <2>1, <3>2, Beside
      <4> QED
        BY <4>1, <4>2, BeginningStays
    <3> QED
      BY <3>1, <3>2
  <2>3. ~deleted' /\ vpc \in Late => standing' \subseteq Range(seen)
    <3>1. vpc \in Late => vpc # "off"
      BY DEF Late
    <3>2. vpc \in Late => standing' \subseteq standing
      BY <1>1, <3>1, Beside
    <3> QED
      BY <2>1, <3>2 DEF ReceivedInv
  <2>4. quiet' /\ vpc # "off" => ~deleted' /\ standing' = auths'
    BY <1>1, Beside DEF ReceivedInv
  <2>5. quiet' /\ vpc = "metadata" => UNCHANGED <<user, human>> /\ quiet
    BY <1>1, Beside
  <2> QED
    BY <2>0, <2>2, <2>3, <2>4, <2>5 DEF ReceivedInv
<1>2. ASSUME NEW i \in Inputs, VerifyHumanAuthConfiguration(i) PROVE ReceivedInv'
  <2>1. /\ vpc = "off" /\ vpc' = "actions" /\ standing' = auths /\ UNCHANGED <<seen, auths, deleted>>
    BY <1>2, VerifyReads DEF VerifyHumanAuthConfiguration
  <2>2. AuthList' = AuthList /\ ~deleted
    BY <2>1 DEF AuthList, LocalInv
  <2> QED
    BY <2>1, <2>2 DEF ReceivedInv, Late
\* The calls that leave the walk alone.
<1>3. ASSUME UNCHANGED <<seen, auths, quiet, standing, deleted, user, human>>, vpc # "off",
             vpc' \in Late => vpc \in Late, vpc' = "metadata" => uid' = user[Head(left').name] /\ uid' \in human
      PROVE  ReceivedInv'
  <2>1. AuthList' = AuthList
    BY <1>3 DEF AuthList
  <2> QED
    BY <1>3, <2>1 DEF ReceivedInv
<1>4. ASSUME ListActions \/ GetFlow \/ verifyWebApplication PROVE ReceivedInv'
  <2>1. UNCHANGED <<seen, auths, quiet, standing, deleted, user, human>>
    BY <1>4, VerifyReads DEF ListActions, GetFlow, verifyWebApplication
  <2>2. vpc # "off" /\ vpc' \notin Late
    <3>1. action.count = 0 \/ action.count > 1 \/ action.count = 1
      BY DEF SettingsInv
    <3>2. action.count = 1 => ~(action.count = 0) /\ ~(action.count > 1)
      BY DEF SettingsInv
    <3> QED
      BY <1>4, <3>1, <3>2 DEF ListActions, GetFlow, verifyWebApplication, Late
  <2> QED
    BY <1>3, <2>1, <2>2 DEF Late
<1>5. ASSUME listAllAuthorizations PROVE ReceivedInv'
  <2>1. /\ vpc = "authorizations" /\ UNCHANGED <<auths, quiet, standing, deleted>> /\ Walk!Turn
        /\ vpc' = CASE walk' = "walking" -> "authorizations"
                    [] walk' = "done"    -> AtHuman(left)
                    [] walk' = "stuck"   -> "failed"
    BY <1>5, VerifyReads DEF listAllAuthorizations
  <2>2. AuthList' = AuthList
    BY <2>1 DEF AuthList
  <2>3. walk' \in {"walking", "done", "stuck"}
    BY <2>1, WalkOutcome
  <2>4. vpc' # "metadata" /\ (vpc' \in Late => walk' = "done")
    BY <2>1, <2>3 DEF AtHuman, Late
  <2>5. CASE ~deleted
    <3>1. /\ Len(seen) \in Nat /\ Len(seen) <= Len(AuthList)
          /\ seen = SubSeq(AuthList, 1, Len(seen))
      BY <1>0, <2>5 DEF ReceivedInv
    <3>2. /\ Len(seen') \in Nat /\ Len(seen') <= Len(AuthList)
          /\ seen' = SubSeq(AuthList, 1, Len(seen'))
          /\ walk' = "done" => Len(seen') = Len(AuthList)
      BY <1>0, <2>1, <3>1, WalkTurn
    <3>3. walk' = "done" => Range(seen') = auths
      <4>1. walk' = "done" => seen' = AuthList
        BY <1>0, <3>2, SubSeqFull
      <4> QED
        BY AllListed, <4>1
    <3>4. vpc' \in Late => standing' \subseteq Range(seen')
      BY <2>1, <2>4, <3>3 DEF LocalInv
    <3>5. Len(seen') \in 0..Len(AuthList)
      BY <1>0, <3>2
    <3> QED
      BY <2>1, <2>2, <2>4, <3>2, <3>4, <3>5 DEF ReceivedInv
  <2>6. CASE deleted
    BY <2>1, <2>4, <2>6 DEF ReceivedInv
  <2> QED
    BY <2>5, <2>6
<1>6. ASSUME verifyHuman PROVE ReceivedInv'
  <2>1. UNCHANGED <<seen, auths, quiet, standing, deleted, user, human>> /\ vpc = "user"
    BY <1>6, VerifyReads DEF verifyHuman
  <2>2. vpc' = "metadata" => uid' = user[Head(left').name] /\ uid' \in human
    BY <1>6 DEF verifyHuman, AtHuman
  <2> QED
    BY <1>3, <2>1, <2>2 DEF Late
<1>7. ASSUME listAllUserMetadata PROVE ReceivedInv'
  <2>1. UNCHANGED <<seen, auths, quiet, standing, deleted, user, human>> /\ vpc = "metadata"
    BY <1>7, VerifyReads DEF listAllUserMetadata
  <2>2. vpc' # "metadata"
    BY <1>7 DEF listAllUserMetadata, AtHuman
  <2> QED
    BY <1>3, <2>1, <2>2 DEF Late
<1>8. ASSUME End PROVE ReceivedInv'
  <2>1. vpc' = "off" /\ seen' = <<>> /\ auths' = auths
    BY <1>8, VerifyReads DEF End
  <2>2. AuthList' = AuthList
    BY <2>1 DEF AuthList
  <2>3. Len(seen') = 0 /\ SubSeq(AuthList, 1, 0) = <<>>
    BY <2>1, SubSeqEmpty
  <2> QED
    BY <1>0, <2>1, <2>2, <2>3 DEF ReceivedInv, Late
<1> QED
  BY <1>1, <1>2, <1>4, <1>5, <1>6, <1>7, <1>8, VerCases

-----------------------------------------------------------------------------
(* What is found of a human                                                *)

\* The fields of verifyRoles, one by one.
LEMMA RolesFound ==
    ASSUME NEW u, NEW h
    PROVE  LET matching == {a \in Range(seen) : a.user = u /\ a.project = in.project}
               count    == Cardinality(matching)
               C == count # IF h.roles # {} THEN 1 ELSE 0
               S == count = 1 /\ \A a \in matching : a.id \in inactive
               R == RolesOf(matching) # h.roles
           IN  /\ verifyRoles(u, h) = {} <=> ~C /\ ~S /\ ~R
               /\ \A d \in verifyRoles(u, h) :
                     /\ d[1] = h.name
                     /\ ~C /\ ~R => d[2] = "authorization.state"
<1> DEFINE matching == {a \in Range(seen) : a.user = u /\ a.project = in.project}
           count    == Cardinality(matching)
           C == count # IF h.roles # {} THEN 1 ELSE 0
           S == count = 1 /\ \A a \in matching : a.id \in inactive
           R == RolesOf(matching) # h.roles
           P(f) == CASE f = "authorization.count" -> C
                     [] f = "authorization.state" -> S
                     [] f = "roles" -> R
           fields == {f \in {"authorization.count", "authorization.state", "roles"} : P(f)}
<1>1. verifyRoles(u, h) = {h.name} \X fields
  BY DEF verifyRoles
<1> HIDE DEF matching, C, S, R
<1>2. /\ P("authorization.count") <=> C
      /\ P("authorization.state") <=> S
      /\ P("roles") <=> R
  OBVIOUS
<1> HIDE DEF P
<1>3. fields = {} <=> ~C /\ ~S /\ ~R
  BY <1>2
<1>4. \A f \in fields : ~C /\ ~R => f = "authorization.state"
  BY <1>2
<1> HIDE DEF fields
<1>5. verifyRoles(u, h) = {} <=> fields = {}
  <2>1. ASSUME NEW f \in fields PROVE <<h.name, f>> \in {h.name} \X fields
    OBVIOUS
  <2>2. ASSUME NEW d \in {h.name} \X fields PROVE d[2] \in fields
    OBVIOUS
  <2> QED
    BY <1>1, <2>1, <2>2
<1>6. \A d \in verifyRoles(u, h) : d[1] = h.name /\ d[2] \in fields
  BY <1>1
<1> QED
  BY <1>3, <1>4, <1>5, <1>6 DEF C, S, R, matching

LEMMA Sizes ==
    ASSUME NEW S, IsFiniteSet(S)
    PROVE  /\ Cardinality(S) \in Nat
           /\ Cardinality(S) = 0 <=> S = {}
           /\ Cardinality(S) = 1 <=> \E a \in S : S = {a}
<1>1. Cardinality(S) \in Nat /\ (Cardinality(S) = 0 <=> S = {})
  BY FS_CardinalityType, FS_EmptySet
<1>2. Cardinality(S) = 1 <=> \E a : S = {a}
  BY FS_Singleton
<1> QED
  BY <1>1, <1>2

\* With all authorizations received, no field is found just if the grant is as
\* it is expected.
LEMMA RolesCompared ==
    ASSUME IInv, Range(seen) = auths, NEW h, NEW u
    PROVE  LET mine == InProject(AuthsOf(u), in.project) IN
           verifyRoles(u, h) = {} <=>
               IF h.roles = {} THEN mine = {} /\ RolesOf(mine) = h.roles
               ELSE \E a \in mine : mine = {a} /\ a.roles = h.roles /\ a.id \notin inactive
<1> DEFINE mine == InProject(AuthsOf(u), in.project)
<1>1. {a \in Range(seen) : a.user = u /\ a.project = in.project} = mine
  BY DEF InProject, AuthsOf
<1>2. IsFiniteSet(mine)
  <2>1. mine \in SUBSET auths
    BY DEF InProject, AuthsOf
  <2> HIDE DEF mine
  <2> QED
    BY <2>1, AuthsNumbered, FS_Subset DEF Numbered
<1> HIDE DEF mine
<1>3. verifyRoles(u, h) = {} <=>
        /\ Cardinality(mine) = IF h.roles # {} THEN 1 ELSE 0
        /\ ~(Cardinality(mine) = 1 /\ \A a \in mine : a.id \in inactive)
        /\ RolesOf(mine) = h.roles
  <2> DEFINE matching == {a \in Range(seen) : a.user = u /\ a.project = in.project}
  <2>1. verifyRoles(u, h) = {} <=>
          /\ ~(Cardinality(matching) # IF h.roles # {} THEN 1 ELSE 0)
          /\ ~(Cardinality(matching) = 1 /\ \A a \in matching : a.id \in inactive)
          /\ ~(RolesOf(matching) # h.roles)
    BY RolesFound
  <2>2. matching = mine
    BY <1>1
  <2> HIDE DEF matching
  <2> QED
    BY <2>1, <2>2
<1>4. /\ Cardinality(mine) = 0 <=> mine = {}
      /\ Cardinality(mine) = 1 <=> \E a \in mine : mine = {a}
  BY <1>2, Sizes
<1>5. \A a \in mine : mine = {a} => RolesOf(mine) = a.roles
  BY DEF RolesOf
<1>6. CASE h.roles = {}
  <2>1. verifyRoles(u, h) = {} <=> Cardinality(mine) = 0 /\ RolesOf(mine) = h.roles
    BY <1>3, <1>6
  <2> QED
    BY <1>4, <1>6, <2>1 DEF mine
<1>7. CASE h.roles # {}
  <2>1. verifyRoles(u, h) = {} <=>
          /\ \E a \in mine : mine = {a}
          /\ ~(\A a \in mine : a.id \in inactive)
          /\ RolesOf(mine) = h.roles
    BY <1>3, <1>4, <1>7
  <2>2. verifyRoles(u, h) = {} <=> \E a \in mine : mine = {a} /\ a.roles = h.roles /\ a.id \notin inactive
    BY <1>5, <2>1
  <2> QED
    BY <1>7, <2>2 DEF mine
<1> QED
  BY <1>6, <1>7

\* The same of the metadata.
LEMMA MetadataCompared ==
    ASSUME HeldInv, SettingsInv, NEW h \in Requests, NEW u \in Ids, in \in Inputs
    PROVE  /\ verifyAccessMetadata(u, h) = {} <=> metadata[u][in.project] = h.access
           /\ \A d \in verifyAccessMetadata(u, h) : d[1] = h.name
<1>1. in.project \in Projects
  BY VerificationAssumption
<1>2. metadata[u][in.project] \in [Keys -> Values] /\ h.access \in [Keys -> Values]
  BY <1>1, AccessTyped DEF HeldInv
<1>3. metadata[u][in.project] = h.access <=> \A k \in Keys : metadata[u][in.project][k] = h.access[k]
  BY <1>2
<1>4. verifyAccessMetadata(u, h) = {} <=> \A k \in Keys : metadata[u][in.project][k] = h.access[k]
  BY DEF verifyAccessMetadata
<1>5. \A d \in verifyAccessMetadata(u, h) : d[1] = h.name
  BY DEF verifyAccessMetadata
<1> QED
  BY <1>3, <1>4, <1>5

-----------------------------------------------------------------------------
(* The humans one after the other                                          *)

LEMMA HumanTurn ==
    ASSUME LocalInv, in' = in, vpc \in {"user", "metadata"}
    PROVE  LET h == Head(left) IN
           /\ h \in Requests /\ h \in Range(in.humans)
           /\ vpc = "user" => Graded = Listed
           /\ vpc = "metadata" => Graded = Listed \cup {h}
           /\ vpc' = "metadata" /\ left' = left => Listed' = Listed /\ Graded' = Listed \cup {h}
           /\ vpc' = AtHuman(Tail(left)) /\ left' = Tail(left) =>
                 Listed' = Listed \cup {h} /\ Graded' = Listed \cup {h} /\ vpc' \in {"user", "done"}
<1> DEFINE h == Head(left)
<1>1. /\ left \in Seq(Requests) /\ left # <<>> /\ Range(left) \subseteq Range(in.humans)
      /\ validateHumanConfigurations(left)
  BY DEF LocalInv
<1>2. h \in Range(left) /\ h \in Requests /\ Range(Tail(left)) = Range(left) \ {h}
  BY <1>1, Rest
<1>3. vpc = "user" => Graded = Listed
  BY DEF Graded
<1>4. vpc = "metadata" => Graded = Listed \cup {h}
  BY <1>2 DEF Graded
<1>5. ASSUME vpc' = "metadata", left' = left PROVE Listed' = Listed /\ Graded' = Listed \cup {h}
  BY <1>2, <1>5 DEF Listed, Graded
<1>6. ASSUME vpc' = AtHuman(Tail(left)), left' = Tail(left)
      PROVE  Listed' = Listed \cup {h} /\ Graded' = Listed \cup {h} /\ vpc' \in {"user", "done"}
  <2>1. vpc' \in {"user", "done"}
    BY <1>6 DEF AtHuman
  <2>2. Listed' = Range(in.humans) \ Range(Tail(left))
    BY <1>6 DEF Listed
  <2>3. Listed' = Listed \cup {h}
    BY <1>1, <1>2, <2>2 DEF Listed
  <2>4. Graded' = Listed'
    BY <2>1 DEF Graded
  <2> QED
    BY <2>1, <2>3, <2>4
<1>7. h \in Range(in.humans)
  BY <1>1, <1>2
<1> QED
  BY <1>2, <1>3, <1>4, <1>5, <1>6, <1>7

\* Before the humans nobody was compared.
LEMMA NobodyYet ==
    ASSUME in.humans = left, vpc # "metadata"
    PROVE  Listed = {} /\ Graded = {}
BY DEF Listed, Graded

\* All received, if nothing has changed.
LEMMA AllReceived ==
    ASSUME IInv, LocalInv, ReceivedInv, quiet, vpc \in Late
    PROVE  Range(seen) = auths
<1>1. vpc # "off"
  BY DEF Late
<1>2. /\ ~deleted /\ standing = auths /\ standing \subseteq Range(seen)
      /\ Len(seen) \in 0..Len(AuthList) /\ seen = SubSeq(AuthList, 1, Len(seen))
  BY <1>1 DEF ReceivedInv
<1>3. AuthList \in Seq(auths) /\ Len(AuthList) \in Nat
  BY ListShape
<1>4. \A i \in 1..Len(AuthList) : AuthList[i] \in auths
  BY <1>3
<1>5. \A i \in 1..Len(seen) : AuthList[i] \in auths
  BY <1>2, <1>3, <1>4
<1>6. Len(seen) \in Int
  BY <1>2, <1>3
<1>7. SubSeq(AuthList, 1, Len(seen)) \in Seq(auths)
  BY <1>5, <1>6, SubSeqProperties
<1>8. seen \in Seq(auths)
  BY <1>2, <1>7
<1>9. Range(seen) \subseteq auths
  BY <1>8, InRange
<1> QED
  BY <1>2, <1>9

-----------------------------------------------------------------------------
(* The invariant of a verification, ctd.                                   *)

\* What is expected of a human stays as it is while nothing changes.
LEMMA SamePlaces ==
    ASSUME UNCHANGED <<user, human, auths, metadata, altered, inactive, in>>, NEW h
    PROVE  /\ GrantInPlace(h)' <=> GrantInPlace(h)
           /\ MetadataInPlace(h)' <=> MetadataInPlace(h)
           /\ Applied(h)' <=> Applied(h)
BY DEF GrantInPlace, MetadataInPlace, Applied, GrantsApplied, AuthsOf, InProject, RolesOf

\* Steps that find something in the settings only.
LEMMA SettingsFound ==
    ASSUME LocalInv, DriftInv, quiet,
           UNCHANGED <<user, human, auths, metadata, altered, inactive, in, left>>,
           vpc \in {"actions", "flow", "application", "authorizations"},
           vpc' # "metadata",
           SettingsInPlace' /\ drift = {} => SettingsInPlace,
           drift = {} /\ SettingsInPlace => (drift' = {} <=> SettingsInPlace'),
           drift # {} => drift' # {},
           ~SettingsInPlace => ~SettingsInPlace'
    PROVE  drift' = {} <=> SoFar'
<1>1. vpc \notin Late \cup {"failed", "off"} /\ vpc # "metadata"
  BY DEF Late
<1>2. Listed = {} /\ Graded = {}
  BY <1>1, NobodyYet DEF LocalInv
<1>3. Listed' = {} /\ Graded' = {}
  BY <1>2 DEF Listed, Graded
<1>4. drift = {} <=> SettingsInPlace
  BY <1>1, <1>2 DEF DriftInv, SoFar
<1>5. SoFar' <=> SettingsInPlace'
  BY <1>3 DEF SoFar
<1> QED
  BY <1>4, <1>5

LEMMA DriftStep ==
    ASSUME IInv, HeldInv, SettingsInv, LocalInv, ReceivedInv, DriftInv, [VerNext]_verVars
    PROVE  DriftInv'
<1>0. SUFFICES ASSUME quiet', vpc' \notin {"off", "failed"} PROVE drift' = {} <=> SoFar'
  BY DEF DriftInv, SoFar
<1>0a. vpc \notin {"off", "failed"} /\ quiet => (drift = {} <=> SoFar)
  BY DEF DriftInv, SoFar
<1>0b. action.count \in 0..2 /\ app \in {"current", "drifted", "other", "absent"}
  BY DEF SettingsInv
<1>1. ASSUME Provision \/ Edit \/ UNCHANGED verVars PROVE drift' = {} <=> SoFar'
  <2>1. UNCHANGED <<vpc, in, left, drift>>
    BY <1>1, Beside DEF local
  <2>2. quiet /\ UNCHANGED <<user, human, auths, metadata, settings>>
    BY <1>0, <1>1, <2>1, Beside
  <2>3. UNCHANGED <<asserts, action, app, inactive, altered>>
    BY <2>2 DEF settings
  <2>4. \A h : (GrantInPlace(h)' <=> GrantInPlace(h)) /\ (MetadataInPlace(h)' <=> MetadataInPlace(h))
    BY <2>1, <2>2, <2>3, SamePlaces
  <2>5. Listed' = Listed /\ Graded' = Graded
    BY <2>1 DEF Listed, Graded
  <2>6. SettingsInPlace' <=> SettingsInPlace
    BY <2>1, <2>3 DEF SettingsInPlace
  <2>7. SoFar' <=> SoFar
    BY <2>4, <2>5, <2>6 DEF SoFar
  <2>8. drift = {} <=> SoFar
    BY <1>0, <1>0a, <2>1, <2>2
  <2> QED
    BY <2>1, <2>7, <2>8
<1>2. ASSUME NEW i \in Inputs, VerifyHumanAuthConfiguration(i) PROVE drift' = {} <=> SoFar'
  <2>1. /\ vpc' = "actions" /\ in' = i /\ left' = i.humans /\ asserts' = asserts
        /\ drift' = IF asserts THEN {} ELSE {<<"project", "project_role_assertion">>}
    BY <1>2, VerifyReads DEF VerifyHumanAuthConfiguration
  <2>2. Listed' = {} /\ Graded' = {}
    BY <2>1 DEF Listed, Graded
  <2>3. SettingsInPlace' <=> asserts
    BY <2>1 DEF SettingsInPlace
  <2>4. drift' = {} <=> asserts
    BY <2>1
  <2> QED
    BY <2>2, <2>3, <2>4 DEF SoFar
<1>3. ASSUME ListActions \/ GetFlow \/ verifyWebApplication \/ listAllAuthorizations
             \/ verifyHuman \/ listAllUserMetadata
      PROVE  /\ UNCHANGED <<user, human, auths, metadata, asserts, action, app, inactive, altered, in>>
             /\ quiet /\ vpc \notin {"off", "failed"} /\ (drift = {} <=> SoFar)
  <2>1. /\ UNCHANGED <<user, human, auths, metadata, asserts, action, app, inactive, altered>> /\ quiet
    BY <1>0, <1>3, VerifyReads
  <2>2. in' = in /\ vpc \notin {"off", "failed"}
    BY <1>3 DEF ListActions, GetFlow, verifyWebApplication, listAllAuthorizations,
                verifyHuman, listAllUserMetadata
  <2> QED
    BY <1>0a, <2>1, <2>2
<1>4. CASE ListActions
  <2>0. /\ vpc = "actions" /\ left' = left
        /\ CASE action.count = 0 -> /\ drift' = drift \cup {<<"action", "exists">>}
                                    /\ vpc' = "application"
             [] action.count > 1 -> /\ drift' = drift \cup {<<"action", "count">>}
                                    /\ vpc' = "application"
             [] action.count = 1 -> /\ drift' = drift \cup (IF action.same THEN {} ELSE {<<"action", "fields">>})
                                    /\ vpc' = "flow"
    BY <1>4 DEF ListActions
  <2>1. SettingsInPlace <=> asserts
    BY <2>0 DEF SettingsInPlace
  <2>2. CASE action.count # 1
    <3>1. drift' # {} /\ vpc' = "application"
      <4>1. CASE action.count = 0
        <5>1. ~(action.count > 1) /\ ~(action.count = 1)
          BY <4>1
        <5>2. drift' = drift \cup {<<"action", "exists">>} /\ vpc' = "application"
          BY <2>0, <4>1, <5>1
        <5> QED
          BY <5>2
      <4>2. CASE action.count > 1
        <5>1. ~(action.count = 0) /\ ~(action.count = 1)
          BY <1>0b, <4>2
        <5>2. drift' = drift \cup {<<"action", "count">>} /\ vpc' = "application"
          BY <2>0, <4>2, <5>1
        <5> QED
          BY <5>2
      <4> QED
        BY <1>0b, <2>2, <4>1, <4>2
    <3>2. ~SettingsInPlace'
      BY <1>3, <1>4, <2>2, <3>1 DEF SettingsInPlace
    <3> QED
      BY <3>1, <3>2 DEF SoFar
  <2>3. CASE action.count = 1
    <3>1. vpc' = "flow" /\ drift' = drift \cup (IF action.same THEN {} ELSE {<<"action", "fields">>})
      BY <1>0b, <2>0, <2>3
    <3>2. SettingsInPlace' <=> asserts /\ action.same
      BY <1>3, <1>4, <2>3, <3>1 DEF SettingsInPlace
    <3>3. drift' = {} <=> drift = {} /\ action.same
      BY <3>1
    <3> QED
      BY <1>3, <1>4, <2>0, <2>1, <3>1, <3>2, <3>3, SettingsFound
  <2> QED
    BY <2>2, <2>3
<1>5. CASE GetFlow
  <2>0. /\ vpc = "flow" /\ vpc' = "application" /\ left' = left
        /\ drift' = drift \cup (IF action.flow = "wired" THEN {} ELSE {<<"action", "token_flow_trigger">>})
    BY <1>5 DEF GetFlow
  <2>1. SettingsInPlace' <=> SettingsInPlace /\ action.flow = "wired"
    BY <1>3, <1>5, <2>0 DEF SettingsInPlace
  <2>2. drift' = {} <=> drift = {} /\ action.flow = "wired"
    BY <2>0
  <2> QED
    BY <1>3, <1>5, <2>0, <2>1, <2>2, SettingsFound
<1>6. CASE verifyWebApplication
  <2>0. /\ vpc = "application" /\ vpc' = "authorizations" /\ left' = left
        /\ drift' = drift \cup (CASE app = "absent"  -> {<<"application", "exists">>}
                              [] app = "other"   -> {<<"application", "type">>}
                              [] app = "drifted" -> {<<"application", "fields">>}
                              [] app = "current" -> {})
    BY <1>6 DEF verifyWebApplication
  <2>1. SettingsInPlace' <=> SettingsInPlace /\ app = "current"
    BY <1>3, <1>6, <2>0 DEF SettingsInPlace
  <2>2. drift' = {} <=> drift = {} /\ app = "current"
    BY <1>0b, <2>0
  <2> QED
    BY <1>3, <1>6, <2>0, <2>1, <2>2, SettingsFound
<1>7. CASE listAllAuthorizations
  <2>0. /\ vpc = "authorizations" /\ left' = left /\ drift' = drift
        /\ vpc' \in {"authorizations", "user", "done", "failed"}
    <3>1. /\ vpc = "authorizations" /\ left' = left /\ drift' = drift /\ Walk!Turn
          /\ vpc' = CASE walk' = "walking" -> "authorizations"
                      [] walk' = "done"    -> AtHuman(left)
                      [] walk' = "stuck"   -> "failed"
      BY <1>7 DEF listAllAuthorizations
    <3>2. walk' \in {"walking", "done", "stuck"}
      BY <3>1, WalkOutcome
    <3> QED
      BY <3>1, <3>2 DEF AtHuman
  <2>1. SettingsInPlace' <=> SettingsInPlace
    BY <1>3, <1>7, <2>0 DEF SettingsInPlace
  <2> QED
    BY <1>3, <1>7, <2>0, <2>1, SettingsFound
\* From one human to the next the settings have been compared.
<1>8. ASSUME verifyHuman \/ listAllUserMetadata
      PROVE  SettingsInPlace' <=> SettingsInPlace
  <2>1. vpc \in {"user", "metadata"} /\ vpc' \in {"user", "metadata", "done"}
    BY <1>8 DEF verifyHuman, listAllUserMetadata, AtHuman
  <2> QED
    BY <1>3, <1>8, <2>1 DEF SettingsInPlace
<1>9. CASE verifyHuman
  <2> DEFINE h == Head(left)
             u == user[h.name]
  <2>0. vpc = "user" /\ in' = in
    BY <1>3, <1>9 DEF verifyHuman
  <2>1. /\ h \in Requests /\ Graded = Listed
        /\ vpc' = "metadata" /\ left' = left => Listed' = Listed /\ Graded' = Listed \cup {h}
        /\ vpc' = AtHuman(Tail(left)) /\ left' = Tail(left) =>
                 Listed' = Listed \cup {h} /\ Graded' = Listed \cup {h}
    BY <2>0, HumanTurn
  <2>2. \A g : (GrantInPlace(g)' <=> GrantInPlace(g)) /\ (MetadataInPlace(g)' <=> MetadataInPlace(g))
    BY <1>3, <1>9, SamePlaces
  <2>3. CASE u # 0 /\ u \in human
    <3>1. /\ vpc' = "metadata" /\ left' = left
          /\ drift' = drift \cup verifyRoles(u, h) \cup (IF u \in altered THEN {<<h.name, "profile">>} ELSE {})
      BY <1>9, <2>3 DEF verifyHuman
    <3>2. Listed' = Listed /\ Graded' = Listed \cup {h}
      BY <2>1, <3>1
    <3>3. drift' = {} <=> drift = {} /\ verifyRoles(u, h) = {} /\ u \notin altered
      BY <3>1
    <3>4. GrantInPlace(h) <=> u \notin altered /\ verifyRoles(u, h) = {}
      <4> DEFINE mine == InProject(AuthsOf(u), in.project)
      <4>1. Range(seen) = auths
        BY <1>3, <1>9, <2>0, AllReceived DEF Late
      <4>2. verifyRoles(u, h) = {} <=>
              IF h.roles = {} THEN mine = {} /\ RolesOf(mine) = h.roles
              ELSE \E a \in mine : mine = {a} /\ a.roles = h.roles /\ a.id \notin inactive
        BY <4>1, RolesCompared
      <4>3. mine = {} => RolesOf(mine) = {}
        BY DEF RolesOf
      <4>4. verifyRoles(u, h) = {} <=>
              IF h.roles = {} THEN mine = {}
              ELSE \E a \in mine : mine = {a} /\ a.roles = h.roles /\ a.id \notin inactive
        <5> HIDE DEF mine
        <5>1. CASE h.roles = {}
          BY <4>2, <4>3, <5>1
        <5>2. CASE h.roles # {}
          BY <4>2, <5>2
        <5> QED
          BY <5>1, <5>2
      <4>5. GrantInPlace(h) <=>
              /\ u \notin altered
              /\ IF h.roles = {} THEN mine = {}
                 ELSE \E a \in mine : mine = {a} /\ a.roles = h.roles /\ a.id \notin inactive
        BY <2>3 DEF GrantInPlace
      <4> QED
        BY <4>4, <4>5
    <3>5. SoFar' <=> SoFar /\ GrantInPlace(h)
      BY <1>8, <1>9, <2>1, <2>2, <3>2 DEF SoFar
    <3> QED
      BY <1>3, <1>9, <3>3, <3>4, <3>5
  <2>4. CASE ~(u # 0 /\ u \in human)
    <3>1. /\ vpc' = AtHuman(Tail(left)) /\ left' = Tail(left) /\ drift' # {}
      BY <1>9, <2>4 DEF verifyHuman
    <3>2. h \in Graded'
      BY <2>1, <3>1
    <3>3. ~GrantInPlace(h)
      <4>1. 0 \notin human
        BY DEF IInv, TypeOK, Ids
      <4>2. u \notin human
        BY <2>4, <4>1
      <4> QED
        BY <4>2 DEF GrantInPlace
    <3>4. ~SoFar'
      BY <2>2, <3>2, <3>3 DEF SoFar
    <3> QED
      BY <3>1, <3>4
  <2> QED
    BY <2>3, <2>4
<1>10. CASE listAllUserMetadata
  <2> DEFINE h == Head(left)
  <2>0. /\ vpc = "metadata" /\ in' = in
        /\ drift' = drift \cup verifyAccessMetadata(uid, h)
        /\ left' = Tail(left) /\ vpc' = AtHuman(Tail(left))
    BY <1>3, <1>10 DEF listAllUserMetadata
  <2>1. /\ h \in Requests /\ Graded = Listed \cup {h}
        /\ Listed' = Listed \cup {h} /\ Graded' = Listed \cup {h}
    BY <2>0, HumanTurn
  <2>2. \A g : (GrantInPlace(g)' <=> GrantInPlace(g)) /\ (MetadataInPlace(g)' <=> MetadataInPlace(g))
    BY <1>3, <1>10, SamePlaces
  <2>3. uid = user[h.name] /\ uid \in Ids /\ in \in Inputs
    <3>1. uid = user[h.name] /\ uid \in human
      BY <1>3, <1>10, <2>0 DEF ReceivedInv
    <3>2. in \in Inputs
      BY <2>0 DEF LocalInv
    <3> QED
      BY <3>1, <3>2 DEF IInv, TypeOK
  <2>4. verifyAccessMetadata(uid, h) = {} <=> MetadataInPlace(h)
    BY <2>1, <2>3, MetadataCompared DEF MetadataInPlace
  <2>5. drift' = {} <=> drift = {} /\ MetadataInPlace(h)
    BY <2>0, <2>4
  <2>6. SoFar' <=> SoFar /\ MetadataInPlace(h)
    BY <1>8, <1>10, <2>1, <2>2 DEF SoFar
  <2> QED
    BY <1>3, <1>10, <2>5, <2>6
<1>11. CASE End
  BY <1>0, <1>11 DEF End
<1> QED
  BY <1>1, <1>2, <1>4, <1>5, <1>6, <1>7, <1>9, <1>10, <1>11, VerCases

\* What is found of a human is found under its name.
LEMMA NamesFound ==
    ASSUME NEW u, NEW h, NEW d \in verifyRoles(u, h)
    PROVE  d[1] = h.name
BY DEF verifyRoles

\* Of one whose grants and metadata are applied only the state of the grant and
\* the profile can be found.
LEMMA OnlyExcusable ==
    ASSUME IInv, HeldInv, SettingsInv, LocalInv, ReceivedInv, quiet, vpc \in Late,
           NEW h \in Requests, h.kind = "OnboardHuman", h.project = in.project, Applied(h),
           NEW d \in verifyRoles(user[h.name], h)
    PROVE  d[2] = "authorization.state"
<1> DEFINE u    == user[h.name]
           mine == InProject(AuthsOf(u), in.project)
<1>1. Range(seen) = auths
  BY AllReceived
<1>2. {a \in Range(seen) : a.user = u /\ a.project = in.project} = mine
  BY <1>1 DEF InProject, AuthsOf
<1>3. RolesOf(mine) = h.roles /\ Cardinality(mine) <= 1 /\ u \in human
  BY DEF Applied, GrantsApplied
<1>4. IsFiniteSet(mine)
  <2>1. mine \in SUBSET auths
    BY DEF InProject, AuthsOf
  <2> HIDE DEF mine
  <2> QED
    BY <2>1, AuthsNumbered, FS_Subset DEF Numbered
<1>5. \A a \in mine : a.roles # {}
  <2>1. u \in Ids
    BY <1>3 DEF IInv, TypeOK
  <2>2. \A a \in mine : a \in auths /\ a.user = u
    BY DEF InProject, AuthsOf
  <2> QED
    BY <2>1, <2>2 DEF HeldInv
<1> HIDE DEF mine
<1>6. /\ Cardinality(mine) \in Nat
      /\ Cardinality(mine) = 0 <=> mine = {}
  BY <1>4, Sizes
<1>7. mine = {} <=> h.roles = {}
  <2>1. mine = {} => RolesOf(mine) = {}
    BY DEF RolesOf
  <2>2. ASSUME NEW a \in mine PROVE RolesOf(mine) # {}
    BY <1>5 DEF RolesOf
  <2> QED
    BY <1>3, <2>1, <2>2
<1>8. Cardinality(mine) = IF h.roles # {} THEN 1 ELSE 0
  <2>1. CASE h.roles = {}
    BY <1>6, <1>7, <2>1
  <2>2. CASE h.roles # {}
    <3>1. Cardinality(mine) # 0
      BY <1>6, <1>7, <2>2
    <3> QED
      BY <1>3, <1>6, <2>2, <3>1
  <2> QED
    BY <2>1, <2>2
<1> DEFINE matching == {a \in Range(seen) : a.user = u /\ a.project = in.project}
<1>9. ~(Cardinality(matching) # IF h.roles # {} THEN 1 ELSE 0) /\ ~(RolesOf(matching) # h.roles)
      => d[2] = "authorization.state"
  BY RolesFound
<1>10. matching = mine
  BY <1>2
<1> HIDE DEF matching
<1> QED
  BY <1>3, <1>8, <1>9, <1>10

LEMMA ExcuseStep ==
    ASSUME IInv, HeldInv, SettingsInv, LocalInv, ReceivedInv, ExcuseInv, [VerNext]_verVars
    PROVE  ExcuseInv'
<1>0. SUFFICES ASSUME quiet', vpc' # "off",
                      NEW g \in Range(in'.humans), g.kind = "OnboardHuman", g.project = in'.project,
                      Applied(g)', NEW d \in drift', d[1] = g.name
               PROVE  d[2] \in Excusable
  BY DEF ExcuseInv
<1>1. CASE Provision \/ Edit \/ UNCHANGED verVars
  <2>1. UNCHANGED <<vpc, in, left, drift>>
    BY <1>1, Beside DEF local
  <2>2. quiet /\ UNCHANGED <<user, human, auths, metadata, settings>>
    BY <1>0, <1>1, <2>1, Beside
  <2>3. Applied(g)
    BY <1>0, <2>1, <2>2, SamePlaces DEF settings
  <2> QED
    BY <1>0, <2>1, <2>2, <2>3 DEF ExcuseInv
<1>2. ASSUME NEW r, r \in Requests, r.name = "project" \/ r.name = "action" \/ r.name = "application" PROVE FALSE
  BY <1>2, ProvisioningAssumption, VerificationAssumption
<1>3. ASSUME NEW i \in Inputs, VerifyHumanAuthConfiguration(i) PROVE d[2] \in Excusable
  <2>1. in' = i /\ drift' \subseteq {<<"project", "project_role_assertion">>}
    BY <1>3 DEF VerifyHumanAuthConfiguration
  <2>2. g \in Requests
    <3>1. i.humans \in Seq(Requests)
      BY VerificationAssumption
    <3> QED
      BY <2>1, <3>1, InRange
  <2>3. g.name = "project"
    BY <1>0, <2>1
  <2> QED
    BY <1>2, <2>2, <2>3
<1>4. ASSUME ListActions \/ GetFlow \/ verifyWebApplication \/ listAllAuthorizations
             \/ verifyHuman \/ listAllUserMetadata
      PROVE  /\ UNCHANGED <<user, human, auths, metadata, asserts, action, app, inactive, altered, in>>
             /\ quiet /\ vpc # "off" /\ Applied(g)
             /\ g \in Range(in.humans) /\ g \in Requests /\ g.project = in.project
             /\ d \in drift => d[2] \in Excusable
  <2>1. UNCHANGED <<user, human, auths, metadata, asserts, action, app, inactive, altered>> /\ quiet
    BY <1>0, <1>4, VerifyReads
  <2>2. in' = in /\ vpc # "off"
    BY <1>4 DEF ListActions, GetFlow, verifyWebApplication, listAllAuthorizations,
                verifyHuman, listAllUserMetadata
  <2>3. Applied(g)
    BY <1>0, <2>1, <2>2, SamePlaces
  <2>4. g \in Requests
    <3>1. in.humans \in Seq(Requests)
      BY <2>2, VerificationAssumption DEF LocalInv
    <3> QED
      BY <2>2, <3>1, InRange
  <2>5. d \in drift => d[2] \in Excusable
    BY <1>0, <2>1, <2>2, <2>3 DEF ExcuseInv
  <2>6. g \in Range(in.humans) /\ g.project = in.project
    BY <1>0, <2>2
  <2> QED
    BY <2>1, <2>2, <2>3, <2>4, <2>5, <2>6
<1>5. ASSUME ListActions \/ GetFlow \/ verifyWebApplication, d \notin drift PROVE d[2] \in Excusable
  <2>1. d[1] = "action" \/ d[1] = "application"
    <3>1. CASE ListActions
      <4>1. drift' \subseteq drift \cup {<<"action", "exists">>, <<"action", "count">>, <<"action", "fields">>}
        <5>1. action.count = 0 \/ action.count > 1 \/ action.count = 1
          BY DEF SettingsInv
        <5>2. action.count = 1 => ~(action.count = 0) /\ ~(action.count > 1)
          BY DEF SettingsInv
        <5>3. action.count > 1 => ~(action.count = 0)
          BY DEF SettingsInv
        <5> QED
          BY <3>1, <5>1, <5>2, <5>3 DEF ListActions
      <4> QED
        BY <1>5, <4>1
    <3>2. CASE GetFlow
      BY <1>5, <3>2 DEF GetFlow
    <3>3. CASE verifyWebApplication
      <4>1. drift' \subseteq drift \cup {<<"application", "exists">>, <<"application", "type">>,
                                         <<"application", "fields">>}
        <5>1. app \in {"current", "drifted", "other", "absent"}
          BY DEF SettingsInv
        <5> QED
          BY <3>3, <5>1 DEF verifyWebApplication
      <4> QED
        BY <1>5, <4>1
    <3> QED
      BY <1>5, <3>1, <3>2, <3>3
  <2>2. g.name = "action" \/ g.name = "application"
    BY <1>0, <2>1
  <2> QED
    BY <1>2, <1>4, <1>5, <2>2
<1>6. CASE listAllAuthorizations
  <2>1. drift' = drift
    BY <1>6 DEF listAllAuthorizations
  <2> QED
    BY <1>4, <1>6, <2>1
\* The human compared is the one in question, or has another name.
<1>7. ASSUME verifyHuman \/ listAllUserMetadata
      PROVE  /\ vpc \in {"user", "metadata"} /\ Head(left) \in Requests
             /\ Head(left).name = g.name => Head(left) = g
  <2>1. vpc \in {"user", "metadata"}
    BY <1>7 DEF verifyHuman, listAllUserMetadata
  <2>2. Head(left) \in Requests /\ Head(left) \in Range(in.humans)
    BY <1>4, <1>7, <2>1, HumanTurn
  <2>3. in.humans \in Seq(Requests) /\ validateHumanConfigurations(in.humans)
    BY <2>1, VerificationAssumption DEF LocalInv
  <2>4. g \in Range(in.humans)
    BY <1>4, <1>7
  <2>5. Head(left).name = g.name => Head(left) = g
    BY <2>2, <2>3, <2>4, OneName
  <2> QED
    BY <2>1, <2>2, <2>5
<1>8. CASE verifyHuman
  <2> DEFINE h == Head(left)
             u == user[h.name]
  <2>1. CASE d \in drift
    BY <1>4, <1>8, <2>1
  <2>2. CASE d \notin drift
    <3>1. d[1] = h.name
      <4>1. CASE u # 0 /\ u \in human
        <5>1. drift' = drift \cup verifyRoles(u, h) \cup (IF u \in altered THEN {<<h.name, "profile">>} ELSE {})
          BY <1>8, <4>1 DEF verifyHuman
        <5>2. \A e \in verifyRoles(u, h) : e[1] = h.name
          BY NamesFound
        <5>3. d \in verifyRoles(u, h) \/ d = <<h.name, "profile">>
          BY <2>2, <5>1
        <5> QED
          BY <5>2, <5>3
      <4>2. CASE ~(u # 0 /\ u \in human)
        BY <1>8, <2>2, <4>2 DEF verifyHuman
      <4> QED
        BY <4>1, <4>2
    <3>2. h = g
      BY <1>0, <1>7, <1>8, <3>1
    <3>3. u # 0 /\ u \in human
      BY <1>0, <1>4, <1>8, <3>2 DEF Applied
    <3>4. d \in verifyRoles(u, h) \/ d = <<h.name, "profile">>
      BY <1>8, <2>2, <3>3 DEF verifyHuman
    <3>5. CASE d \in verifyRoles(u, h)
      <4>1. d \in verifyRoles(user[g.name], g) /\ vpc \in Late
        BY <1>7, <1>8, <3>2, <3>5 DEF Late
      <4>2. d[2] = "authorization.state"
        BY <1>0, <1>4, <1>8, <4>1, OnlyExcusable
      <4> QED
        BY <4>2 DEF Excusable
    <3>6. CASE d = <<h.name, "profile">>
      BY <3>6 DEF Excusable
    <3> QED
      BY <3>4, <3>5, <3>6
  <2> QED
    BY <2>1, <2>2
<1>9. CASE listAllUserMetadata
  <2> DEFINE h == Head(left)
  <2>1. CASE d \in drift
    BY <1>4, <1>9, <2>1
  <2>2. CASE d \notin drift
    <3>0. vpc = "metadata" /\ d \in verifyAccessMetadata(uid, h)
      BY <2>2, <1>9 DEF listAllUserMetadata
    <3>1. uid = user[h.name] /\ uid \in Ids /\ in \in Inputs
      <4>1. uid = user[h.name] /\ uid \in human
        BY <1>4, <1>9, <3>0 DEF ReceivedInv
      <4>2. in \in Inputs
        BY <3>0 DEF LocalInv
      <4> QED
        BY <4>1, <4>2 DEF IInv, TypeOK
    <3>2. /\ verifyAccessMetadata(uid, h) = {} <=> metadata[uid][in.project] = h.access
          /\ d[1] = h.name
      BY <1>7, <1>9, <3>0, <3>1, MetadataCompared
    <3>3. h = g
      BY <1>0, <1>7, <1>9, <3>2
    <3>4. metadata[uid][in.project] = h.access
      BY <1>4, <1>9, <3>1, <3>3 DEF Applied
    <3> QED
      BY <3>0, <3>2, <3>4
  <2> QED
    BY <2>1, <2>2
<1>10. CASE End
  BY <1>0, <1>10 DEF End
<1>11. CASE ListActions \/ GetFlow \/ verifyWebApplication
  BY <1>4, <1>5, <1>11
<1> QED
  BY <1>1, <1>3, <1>6, <1>8, <1>9, <1>10, <1>11, VerCases

LEMMA ExcessStep ==
    ASSUME IInv, HeldInv, SettingsInv, LocalInv, ReceivedInv, ExcessInv, [VerNext]_verVars
    PROVE  ExcessInv'
<1>0. SUFFICES ASSUME vpc' \in Late, drift' = {}, ~deleted',
                      NEW g \in Graded', NEW a \in InProject(standing', in'.project), a.user = user'[g.name]
               PROVE  a.roles \subseteq g.roles
  BY DEF ExcessInv, InProject
<1>1. CASE Provision \/ Edit \/ UNCHANGED verVars
  <2>1. UNCHANGED <<vpc, in, left, drift>>
    BY <1>1, Beside DEF local
  <2>2. vpc # "off" /\ vpc \in Late
    BY <1>0, <2>1 DEF Late
  <2>3. ~deleted /\ standing' \subseteq standing
    BY <1>0, <1>1, <2>2, Beside
  <2>4. g \in Graded
    BY <2>1 DEF Graded, Listed
  <2>5. a \in InProject(standing, in.project) /\ a \in auths
    BY <2>1, <2>3 DEF InProject, LocalInv
  <2>6. g.name \in Usernames
    <3>1. in.humans \in Seq(Requests) /\ left \in Seq(Requests)
      BY <2>2, VerificationAssumption DEF LocalInv
    <3>2. g \in Requests
      BY <2>4, <3>1, InRange DEF Graded, Listed
    <3> QED
      BY <3>2, ProvisioningAssumption
\* No grant is of nobody, and none of a user who is still to be created.
  <2>7. user'[g.name] = user[g.name]
    <3>1. user'[g.name] \in {user[g.name], 0} \/ user'[g.name] = ids + 1
      BY <1>1, <2>6, Beside
    <3>2. a.user # 0 /\ (a.user \in Ids => a.user <= ids)
      BY <2>5 DEF HeldInv
    <3>3. user'[g.name] \in 0..MaxId
      <4>1. [Next]_vars \/ Edit
        BY <1>1 DEF Provision, verVars
      <4>2. IInv'
        BY <4>1, StepIInv, EditIInv
      <4> QED
        BY <2>6, <4>2 DEF IInv, TypeOK
    <3>4. ids \in Nat /\ MaxId \in Nat
      BY <1>1, Beside, ProvisioningAssumption
    <3>5. user'[g.name] # 0
      BY <1>0, <3>2
    <3>6. user'[g.name] # ids + 1
      <4>1. user'[g.name] \in Ids
        BY <3>3, <3>4, <3>5 DEF Ids
      <4>2. user'[g.name] <= ids
        BY <1>0, <3>2, <4>1
      <4> QED
        BY <3>4, <4>1, <4>2 DEF Ids
    <3> QED
      BY <3>1, <3>5, <3>6
  <2> QED
    BY <1>0, <2>1, <2>2, <2>3, <2>4, <2>5, <2>7 DEF ExcessInv
<1>2. CASE \E i \in Inputs : VerifyHumanAuthConfiguration(i)
  BY <1>0, <1>2 DEF VerifyHumanAuthConfiguration, Late
<1>3. CASE ListActions \/ GetFlow \/ verifyWebApplication
  <2>1. vpc' \notin Late
    <3>1. action.count = 0 \/ action.count > 1 \/ action.count = 1
      BY DEF SettingsInv
    <3>2. action.count = 1 => ~(action.count = 0) /\ ~(action.count > 1)
      BY DEF SettingsInv
    <3> QED
      BY <1>3, <3>1, <3>2 DEF ListActions, GetFlow, verifyWebApplication, Late
  <2> QED
    BY <1>0, <2>1
<1>4. CASE listAllAuthorizations
  <2>1. /\ vpc = "authorizations" /\ left' = left /\ in' = in /\ vpc' # "metadata"
    <3>1. /\ vpc = "authorizations" /\ left' = left /\ in' = in /\ Walk!Turn
          /\ vpc' = CASE walk' = "walking" -> "authorizations"
                      [] walk' = "done"    -> AtHuman(left)
                      [] walk' = "stuck"   -> "failed"
      BY <1>4 DEF listAllAuthorizations
    <3>2. walk' \in {"walking", "done", "stuck"}
      BY <3>1, WalkOutcome
    <3> QED
      BY <3>1, <3>2 DEF AtHuman
  <2>2. left = in.humans
    BY <2>1 DEF LocalInv, Late
  <2>3. Graded' = {}
    BY <2>1, <2>2 DEF Graded, Listed
  <2> QED
    BY <2>3
<1>5. ASSUME verifyHuman \/ listAllUserMetadata
      PROVE  /\ vpc \in {"user", "metadata"} /\ vpc \in Late /\ ~deleted /\ drift = {}
             /\ in' = in /\ seen' = seen /\ a \in InProject(standing, in.project) /\ a.user = user[g.name]
  <2>1. ~deleted /\ standing' = standing /\ user' = user
    BY <1>0, <1>5, VerifyReads
  <2>2. vpc \in {"user", "metadata"} /\ drift = {} /\ in' = in /\ seen' = seen
    BY <1>0, <1>5 DEF verifyHuman, listAllUserMetadata
  <2> QED
    BY <1>0, <2>1, <2>2 DEF Late
<1>6. ASSUME g \in Graded, verifyHuman \/ listAllUserMetadata PROVE a.roles \subseteq g.roles
  BY <1>5, <1>6 DEF ExcessInv
<1>7. CASE verifyHuman
  <2> DEFINE h == Head(left)
             u == user[h.name]
  <2>0. vpc = "user"
    BY <1>7 DEF verifyHuman
  <2>1. /\ vpc' = "metadata" /\ left' = left /\ drift' = drift \cup verifyRoles(u, h)
                                    \cup (IF u \in altered THEN {<<h.name, "profile">>} ELSE {})
    BY <1>0, <1>7 DEF verifyHuman
  <2>2. Graded = Listed /\ Graded' = Listed \cup {h}
    BY <1>5, <1>7, <2>0, <2>1, HumanTurn
  <2>3. CASE g = h
    <3> DEFINE matching == {b \in Range(seen) : b.user = u /\ b.project = in.project}
    <3>1. verifyRoles(u, h) = {}
      BY <1>0, <2>1
    <3>2. ~(RolesOf(matching) # h.roles)
      BY <3>1, RolesFound
    <3>3. a \in matching
      <4>1. standing \subseteq Range(seen)
        BY <1>5, <1>7 DEF ReceivedInv
      <4> QED
        BY <1>5, <1>7, <2>3, <4>1 DEF InProject
    <3> HIDE DEF matching
    <3> QED
      BY <2>3, <3>2, <3>3 DEF RolesOf
  <2> QED
    BY <1>6, <1>7, <2>2, <2>3
<1>8. CASE listAllUserMetadata
  <2>1. vpc = "metadata" /\ vpc' = AtHuman(Tail(left)) /\ left' = Tail(left)
    BY <1>8 DEF listAllUserMetadata
  <2>2. Graded' = Graded
    BY <1>5, <1>8, <2>1, HumanTurn
  <2> QED
    BY <1>6, <1>8, <2>2
<1>9. CASE End
  BY <1>0, <1>9 DEF End, Late
<1> QED
  BY <1>1, <1>2, <1>3, <1>4, <1>7, <1>8, <1>9, VerCases

-----------------------------------------------------------------------------
(* What a verification says is true                                        *)

LEMMA VerBegins == VerInit => VerIInv
<1> SUFFICES ASSUME VerInit PROVE VerIInv
  OBVIOUS
<1>1. /\ vpc = "off" /\ seen = <<>> /\ walk = "walking" /\ quiet = TRUE /\ standing = {} /\ deleted = FALSE
      /\ asserts = TRUE /\ action = Wired /\ app = "current"
  BY DEF VerInit
<1>2. SettingsInv
  BY <1>1 DEF SettingsInv, Wired
<1>3. LocalInv
  BY <1>1 DEF LocalInv, VerPCs, Late
<1>4. ReceivedInv
  <2>1. IInv
    BY InitIInv DEF VerInit
  <2>2. Len(AuthList) \in Nat
    BY <2>1, ListShape
  <2>3. Len(seen) = 0 /\ SubSeq(AuthList, 1, 0) = <<>>
    BY <1>1, SubSeqEmpty
  <2> QED
    BY <1>1, <2>2, <2>3 DEF ReceivedInv, Late
<1>5. DriftInv /\ ExcuseInv /\ ExcessInv
  BY <1>1 DEF DriftInv, ExcuseInv, ExcessInv, Late
<1> QED
  BY <1>2, <1>3, <1>4, <1>5 DEF VerIInv

\* What a verification has received, what it has found, and what there is fit
\* together all the way, if the list ends where the server says.
THEOREM VerInvariance == ListEnds => (VerSpec => []VerIInv)
<1> SUFFICES ASSUME ListEnds PROVE VerSpec => []VerIInv
  OBVIOUS
<1>1. VerInit => VerIInv
  BY VerBegins
<1>2. IInv /\ HeldInv /\ VerIInv /\ [VerNext]_verVars => VerIInv'
  BY SettingsStep, LocalStep, ReceivedStep, DriftStep, ExcuseStep, ExcessStep DEF VerIInv
<1> QED
  BY <1>1, <1>2, VerProvisioning, PTL DEF VerSpec

\* verify.go: unless something changed meanwhile, "current" is reported just if
\* the settings, and the grants and metadata of every human, are in place.
THEOREM VerifiedIsTrue == ListEnds => (VerSpec => []CurrentIsTrue)
<1> SUFFICES ASSUME ListEnds PROVE VerSpec => []CurrentIsTrue
  OBVIOUS
<1>1. IInv /\ VerIInv => CurrentIsTrue
  <2> SUFFICES ASSUME VerIInv, vpc = "done", quiet PROVE drift = {} <=> InPlace
    BY DEF CurrentIsTrue
  <2>1. drift = {} <=> SoFar
    BY DEF VerIInv, DriftInv
  <2>2. left = <<>>
    BY DEF VerIInv, LocalInv
  <2>3. Listed = Range(in.humans) /\ Graded = Range(in.humans)
    <3>1. Range(left) = {}
      BY <2>2 DEF Range
    <3> QED
      BY <3>1 DEF Listed, Graded
  <2>4. \A h : HumanInPlace(h) <=> GrantInPlace(h) /\ MetadataInPlace(h)
    BY DEF HumanInPlace, GrantInPlace, MetadataInPlace
  <2>5. action = Wired <=> action.count = 1 /\ action.same /\ action.flow = "wired"
    BY DEF VerIInv, SettingsInv, Wired
  <2>6. SettingsInPlace <=> asserts /\ app = "current" /\ action = Wired
    BY <2>5 DEF SettingsInPlace
  <2> QED
    BY <2>1, <2>3, <2>4, <2>6 DEF SoFar, InPlace
<1> QED
  BY <1>1, VerProvisioning, VerInvariance, PTL

\* verify.go, listAllAuthorizations: whatever others create and edit meanwhile,
\* what is reported as current gives no human more than is expected by a grant
\* that was there from beginning to end, unless one was deleted.
THEOREM ExcessIsReported == ListEnds => (VerSpec => []ExcessIsSeen)
<1> SUFFICES ASSUME ListEnds PROVE VerSpec => []ExcessIsSeen
  OBVIOUS
<1>1. VerIInv => ExcessIsSeen
  <2> SUFFICES ASSUME VerIInv, vpc = "done", drift = {}, ~deleted,
                      NEW h \in Range(in.humans), NEW a \in InProject(standing, in.project), a.user = user[h.name]
               PROVE  a.roles \subseteq h.roles
    BY DEF ExcessIsSeen
  <2>1. h \in Graded
    <3>1. left = <<>>
      BY DEF VerIInv, LocalInv
    <3>2. Range(left) = {}
      BY <3>1 DEF Range
    <3> QED
      BY <3>2 DEF Listed, Graded
  <2> QED
    BY <2>1 DEF VerIInv, ExcessInv, Late
<1> QED
  BY <1>1, VerInvariance, PTL

\* onboard.go and verify.go agree about what an onboarded human is: right after
\* an undisturbed OnboardHuman nothing is found of its human but what it does
\* not repair.
THEOREM OnboardingIsVerified == Cooperative /\ ListEnds => (VerSpec => []OnboardedIsCurrent)
<1> SUFFICES ASSUME Cooperative, ListEnds PROVE VerSpec => []OnboardedIsCurrent
  OBVIOUS
<1>1. VerIInv /\ UndisturbedInv => OnboardedIsCurrent
  <2> SUFFICES ASSUME VerIInv, UndisturbedInv, NEW o \in Ops, vpc = "done", quiet,
                      Succeeded(o, {"OnboardHuman"}), op[o].alone,
                      op[o].req \in Range(in.humans), op[o].req.project = in.project,
                      NEW d \in drift, d[1] = op[o].req.name
               PROVE  d[2] \in {"authorization.state", "profile"}
    BY DEF OnboardedIsCurrent
  <2>1. op[o].pc = "ok" /\ op[o].req.kind = "OnboardHuman"
    BY DEF Succeeded
  <2>2. Applied(op[o].req)
    BY <2>1 DEF UndisturbedInv, AloneInv, OnboardProgress, Onboards
  <2> QED
    BY <2>1, <2>2 DEF VerIInv, ExcuseInv, Excusable
<1> QED
  BY <1>1, VerInvariance, VerUndisturbed, PTL
=============================================================================
