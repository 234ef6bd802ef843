---------------------------- MODULE SetupProofs ----------------------------
(***************************************************************************)
(* Proofs about Bootstrap and the set-up script, for any operators,        *)
(* projects, namespaces and users: what a Bootstrap has done stays done,   *)
(* one without company leaves everything in place, wiring is a union, and  *)
(* a file that was written stays usable.                                   *)
(*                                                                         *)
(* The invariant has two halves.  IInv is about the operations of all      *)
(* operators and is kept by every step of Bootstrap; ScriptInv follows the *)
(* script's run and rests on IInv, since every step of Setup is one of     *)
(* Bootstrap or leaves Bootstrap's variables alone.                        *)
(***************************************************************************)
EXTENDS Setup, FiniteSetTheorems, SequenceTheorems, WellFoundedInduction, TLAPS

\* All permissions that are asked for.
AllPermissions == UNION {dedupeOperations(r.operations) : r \in Requests}

Steps == {"idle", "project", "createProject", "roles", "app", "createApp", "render", "action",
          "createAction", "updateAction", "flow", "wire", "ok"}

Operations == [pc : Steps, req : Requests \cup {None}, todo : SUBSET AllPermissions,
               secret : BOOLEAN, list : Seq(Actions), read : Seq(Actions) \cup {None},
               alone : BOOLEAN]

\* What lies behind an operation at each of its steps.
ActionDone  == {"flow", "wire", "ok"}
ScriptDone  == ActionDone \cup {"action", "createAction", "updateAction"}
AppDone     == ScriptDone \cup {"render"}
RolesDone   == AppDone \cup {"app", "createApp"}
ProjectDone == RolesDone \cup {"roles"}

Zitadel ==
    /\ roles \in [Projects -> {None} \cup SUBSET AllPermissions]
    /\ \A p \in Projects : roles[p] # None => IsFiniteSet(roles[p])
    /\ app \in [Projects -> {None, "api", "other"}]
    /\ script \in [ActionNames -> Namespaces \cup {None}]
    /\ trigger \in Seq(Actions) /\ IsInjective(trigger)
    /\ \A a \in ToSet(trigger) \cap ActionNames : script[a] # None

\* What an operation has done is still there, and stays what it made of it while
\* it has no company; the list it is about to set has its own action and drops
\* none that it read.
OpInv(o) ==
    /\ op[o].pc # "idle" => op[o].req \in Requests
    /\ op[o].pc \in {"project", "createProject"} => op[o].todo = dedupeOperations(op[o].req.operations)
    /\ op[o].pc \in ProjectDone =>
         /\ roles[op[o].req.project] # None
         /\ dedupeOperations(op[o].req.operations) \subseteq roles[op[o].req.project] \cup op[o].todo
    /\ op[o].pc \in RolesDone => op[o].todo = {}
    /\ op[o].pc \in AppDone => app[op[o].req.project] = "api"
    /\ op[o].pc \in ScriptDone => op[o].req.namespace \in Namespaces
    /\ op[o].pc \in ActionDone => script[Own(o)] # None
    /\ op[o].pc \in ActionDone /\ op[o].alone => script[Own(o)] = op[o].req.namespace
    /\ op[o].pc \notin {"wire", "ok"} => op[o].read = None
    /\ op[o].pc = "wire" =>
         /\ IsInjective(op[o].list) /\ Own(o) \in ToSet(op[o].list)
         /\ \A a \in ToSet(op[o].list) \cap ActionNames : script[a] # None
         /\ op[o].read # None => ToSet(op[o].read) \subseteq ToSet(op[o].list)
    /\ op[o].pc = "ok" /\ op[o].alone => Own(o) \in ToSet(trigger)

\* Who is alone has nobody else at work.
Solitude(o) == op[o].alone => \A q \in Ops \ {o} : ~Active(q)

IInv ==
    /\ op \in [Ops -> Operations]
    /\ Zitadel
    /\ \A o \in Ops : OpInv(o) /\ Solitude(o)

-----------------------------------------------------------------------------
(* A list without an action                                                *)

\* A set of numbers that is not empty has a least one.
LEMMA LeastOne == \A B \in SUBSET Nat : B # {} => \E b \in B : \A j \in B : b <= j
<1> SUFFICES ASSUME NEW B \in SUBSET Nat, B # {}
             PROVE  \E b \in B : \A j \in B : b <= j
  OBVIOUS
<1>1. PICK b \in B : \A j \in B : ~(<<j, b>> \in OpToRel(<, Nat))
  BY NatLessThanWellFounded, WFMin, Zenon
<1>2. \A j \in B : ~(j < b)
  BY <1>1 DEF OpToRel
<1> QED
  BY <1>2

\* One round of the loop after the other.
Rounds(a, list, n, g) ==
    /\ g[0] = <<>>
    /\ \A i \in 1..n : g[i] = IF list[i] = a THEN g[i-1] ELSE Append(g[i-1], list[i])

\* The loop gets to the end of the list.
LEMMA LoopRuns ==
    ASSUME NEW S, NEW list \in Seq(S), NEW a
    PROVE  \A n \in 0..Len(list) : \E g \in [0..n -> Seq(S)] : Rounds(a, list, n, g)
<1> DEFINE Bad == {n \in 0..Len(list) : ~\E g \in [0..n -> Seq(S)] : Rounds(a, list, n, g)}
<1> SUFFICES ASSUME Bad # {} PROVE FALSE
  OBVIOUS
<1>0. Len(list) \in Nat /\ DOMAIN list = 1..Len(list)
  OBVIOUS
<1>1. PICK b \in Bad : \A j \in Bad : b <= j
  <2>1. Bad \in SUBSET Nat
    BY <1>0
  <2> HIDE DEF Bad
  <2> QED
    BY <2>1, LeastOne
<1>2. b \in 0..Len(list) /\ ~\E g \in [0..b -> Seq(S)] : Rounds(a, list, b, g)
  BY <1>1
<1>3. b # 0
  <2> DEFINE g == [i \in 0..0 |-> <<>>]
  <2>1. g \in [0..0 -> Seq(S)] /\ Rounds(a, list, 0, g)
    BY DEF Rounds
  <2> QED
    BY <1>2, <2>1
<1>4. b - 1 \in 0..Len(list) /\ b \in 1..Len(list) /\ b - 1 \notin Bad
  <2>1. b - 1 \in 0..Len(list) /\ b \in 1..Len(list) /\ ~(b <= b - 1)
    BY <1>0, <1>2, <1>3
  <2> QED
    BY <1>1, <2>1
<1>5. PICK g \in [0..(b - 1) -> Seq(S)] : Rounds(a, list, b - 1, g)
  BY <1>4
<1> DEFINE last == IF list[b] = a THEN g[b - 1] ELSE Append(g[b - 1], list[b])
           h == [i \in 0..b |-> IF i = b THEN last ELSE g[i]]
<1>6. list[b] \in S /\ g[b - 1] \in Seq(S)
  BY <1>0, <1>4
<1>7. last \in Seq(S)
  BY <1>6
<1>8. \A i \in 0..b : i # b => i \in 0..(b - 1)
  BY <1>0, <1>4
<1> HIDE DEF last
<1>9. h \in [0..b -> Seq(S)] /\ h[b] = last /\ \A i \in 0..(b - 1) : h[i] = g[i]
  <2>1. \A i \in 0..(b - 1) : i \in 0..b /\ i # b
    BY <1>0, <1>4
  <2>2. b \in 0..b
    BY <1>4
  <2> QED
    BY <1>7, <1>8, <2>1, <2>2
<1> HIDE DEF h
<1>10. Rounds(a, list, b, h)
  <2>1. h[0] = <<>>
    <3>1. 0 \in 0..(b - 1)
      BY <1>4
    <3> QED
      BY <1>5, <1>9, <3>1 DEF Rounds
  <2>2. ASSUME NEW i \in 1..b
        PROVE  h[i] = IF list[i] = a THEN h[i-1] ELSE Append(h[i-1], list[i])
    <3>1. CASE i = b
      <4>1. h[b - 1] = g[b - 1]
        BY <1>4, <1>9
      <4> QED
        BY <1>9, <3>1, <4>1 DEF last
    <3>2. CASE i # b
      <4>1. i \in 1..(b - 1) /\ i \in 0..(b - 1) /\ i - 1 \in 0..(b - 1)
        BY <1>4, <3>2
      <4> QED
        BY <1>5, <1>9, <4>1 DEF Rounds
    <3> QED
      BY <3>1, <3>2
  <2> QED
    BY <2>1, <2>2 DEF Rounds
<1> QED
  BY <1>2, <1>9, <1>10

\* What the loop has kept after n rounds: the first n members without a, none
\* twice unless the list has it twice.
LEMMA LoopKeeps ==
    ASSUME NEW S, NEW list \in Seq(S), NEW a, NEW g \in [0..Len(list) -> Seq(S)],
           Rounds(a, list, Len(list), g), IsInjective(list)
    PROVE  \A n \in 0..Len(list) : /\ ToSet(g[n]) = {list[j] : j \in 1..n} \ {a}
                                   /\ IsInjective(g[n])
<1> DEFINE Good(n) == ToSet(g[n]) = {list[j] : j \in 1..n} \ {a} /\ IsInjective(g[n])
           Bad == {n \in 0..Len(list) : ~Good(n)}
<1> SUFFICES ASSUME Bad # {} PROVE FALSE
  OBVIOUS
<1>0. Len(list) \in Nat /\ DOMAIN list = 1..Len(list)
  OBVIOUS
<1>1. PICK b \in Bad : \A j \in Bad : b <= j
  <2>1. Bad \in SUBSET Nat
    BY <1>0
  <2> HIDE DEF Bad
  <2> QED
    BY <2>1, LeastOne
<1>2. b \in 0..Len(list) /\ ~Good(b)
  BY <1>1
<1>3. b # 0
  <2>1. g[0] = <<>> /\ 1..0 = {}
    BY DEF Rounds
  <2>2. Good(0)
    BY <2>1 DEF ToSet, IsInjective
  <2> QED
    BY <1>2, <2>2
<1>4. b - 1 \in 0..Len(list) /\ b \in 1..Len(list) /\ Good(b - 1)
  <2>1. b - 1 \in 0..Len(list) /\ b \in 1..Len(list) /\ ~(b <= b - 1)
    BY <1>0, <1>2, <1>3
  <2>2. b - 1 \notin Bad
    BY <1>1, <2>1
  <2> QED
    BY <2>1, <2>2
<1> DEFINE x == list[b]
           s == g[b - 1]
<1>5. x \in S /\ s \in Seq(S) /\ g[b] = IF x = a THEN s ELSE Append(s, x)
  <2>1. b \in 1..Len(list) /\ b \in DOMAIN list /\ g[b - 1] \in Seq(S)
    BY <1>0, <1>4
  <2>2. g[b] = IF list[b] = a THEN g[b - 1] ELSE Append(g[b - 1], list[b])
    BY <2>1 DEF Rounds
  <2> QED
    BY <2>1, <2>2
<1>6. {list[j] : j \in 1..b} = {list[j] : j \in 1..(b - 1)} \cup {x}
  <2>1. 1..b = 1..(b - 1) \cup {b}
    BY <1>4
  <2> QED
    BY <2>1
<1>7. x \notin {list[j] : j \in 1..(b - 1)}
  <2>1. \A j \in 1..(b - 1) : j \in DOMAIN list /\ b \in DOMAIN list /\ j # b
    BY <1>0, <1>4
  <2> QED
    BY <2>1 DEF IsInjective
<1>8. ToSet(s) = {list[j] : j \in 1..(b - 1)} \ {a} /\ IsInjective(s)
  BY <1>4
<1> HIDE DEF x, s
<1>9. CASE x = a
  BY <1>2, <1>5, <1>6, <1>8, <1>9
<1>10. CASE x # a
  <2>1. g[b] = Append(s, x)
    BY <1>5, <1>10
  <2>2. /\ DOMAIN s = 1..Len(s) /\ Len(s) \in Nat /\ DOMAIN Append(s, x) = 1..(Len(s) + 1)
        /\ \A i \in 1..Len(s) : Append(s, x)[i] = s[i]
        /\ Append(s, x)[Len(s) + 1] = x
    BY <1>5, AppendProperties
  <2>3. ToSet(Append(s, x)) = ToSet(s) \cup {x}
    <3>1. 1..(Len(s) + 1) = 1..Len(s) \cup {Len(s) + 1}
      BY <2>2
    <3> QED
      BY <2>2, <3>1 DEF ToSet
  <2>4. x \notin ToSet(s)
    BY <1>7, <1>8
  <2>5. IsInjective(Append(s, x))
    <3> SUFFICES ASSUME NEW i \in DOMAIN Append(s, x), NEW j \in DOMAIN Append(s, x),
                        Append(s, x)[i] = Append(s, x)[j]
                 PROVE  i = j
      BY DEF IsInjective
    <3>1. (i \in 1..Len(s) \/ i = Len(s) + 1) /\ (j \in 1..Len(s) \/ j = Len(s) + 1)
      BY <2>2
    <3>2. \A k \in 1..Len(s) : s[k] \in ToSet(s)
      BY <2>2 DEF ToSet
    <3> QED
      <4>1. CASE i \in 1..Len(s) /\ j \in 1..Len(s)
        BY <1>8, <2>2, <4>1 DEF IsInjective
      <4>2. CASE i \in 1..Len(s) /\ j = Len(s) + 1
        BY <2>2, <2>4, <3>2, <4>2
      <4>3. CASE i = Len(s) + 1 /\ j \in 1..Len(s)
        BY <2>2, <2>4, <3>2, <4>3
      <4> QED
        BY <3>1, <4>1, <4>2, <4>3
  <2> QED
    BY <1>2, <1>6, <1>8, <1>10, <2>1, <2>3, <2>5
<1> QED
  BY <1>9, <1>10

\* Without leaves out one action and no other.
LEMMA WithoutProperties ==
    ASSUME NEW S, NEW list \in Seq(S), NEW a, IsInjective(list)
    PROVE  /\ Without(a, list) \in Seq(S)
           /\ ToSet(Without(a, list)) = ToSet(list) \ {a}
           /\ IsInjective(Without(a, list))
<1> DEFINE L == Len(list)
           Loop(g) == [i \in 0..L |-> IF i = 0 THEN <<>>
                                      ELSE IF list[i] = a THEN g[i-1]
                                      ELSE Append(g[i-1], list[i])]
           kept == CHOOSE g : g = Loop(g)
<1>0. L \in Nat /\ DOMAIN list = 1..L
  OBVIOUS
<1>1. Without(a, list) = kept[L]
  BY DEF Without
<1>2. PICK h \in [0..L -> Seq(S)] : Rounds(a, list, L, h)
  <2>1. Len(list) \in 0..Len(list)
    BY <1>0
  <2> QED
    BY <2>1, LoopRuns
<1>3. h = Loop(h)
  <2>1. \A i \in 0..L : h[i] = Loop(h)[i]
    <3> TAKE i \in 0..L
    <3>1. i = 0 \/ i \in 1..L
      BY <1>0
    <3> QED
      BY <1>2, <3>1 DEF Rounds
  <2> QED
    BY <2>1
<1>4. kept = Loop(kept)
  BY <1>3
<1> HIDE DEF kept
<1>5. Rounds(a, list, L, kept) /\ DOMAIN kept = 0..L
  <2>1. \A i \in 0..L : kept[i] = IF i = 0 THEN <<>>
                                  ELSE IF list[i] = a THEN kept[i-1] ELSE Append(kept[i-1], list[i])
    BY <1>4
  <2>2. 0 \in 0..L /\ \A i \in 1..L : i \in 0..L /\ i # 0
    BY <1>0
  <2> QED
    BY <1>4, <2>1, <2>2 DEF Rounds
<1>6. kept = h
  <2>1. ASSUME NEW n \in 0..L, kept[n] # h[n] PROVE FALSE
    <3> DEFINE Bad == {i \in 0..L : kept[i] # h[i]}
    <3>1. PICK b \in Bad : \A j \in Bad : b <= j
      <4>1. Bad \in SUBSET Nat /\ Bad # {}
        BY <1>0, <2>1
      <4> HIDE DEF Bad
      <4> QED
        BY <4>1, LeastOne
    <3>2. b # 0
      BY <1>2, <1>5 DEF Rounds
    <3>3. b \in 1..L /\ b - 1 \in 0..L /\ ~(b <= b - 1)
      BY <1>0, <3>1, <3>2
    <3>4. kept[b - 1] = h[b - 1]
      BY <3>1, <3>3
    <3>5. kept[b] = h[b]
      BY <1>2, <1>5, <3>3, <3>4 DEF Rounds
    <3> QED
      BY <3>1, <3>5
  <2> QED
    BY <1>5, <2>1
<1>7. \A n \in 0..Len(list) : ToSet(h[n]) = {list[j] : j \in 1..n} \ {a} /\ IsInjective(h[n])
  BY <1>2, LoopKeeps
<1>8. L \in 0..Len(list) /\ {list[j] : j \in 1..L} = ToSet(list)
  BY <1>0 DEF ToSet
<1> QED
  BY <1>1, <1>2, <1>6, <1>7, <1>8
-----------------------------------------------------------------------------
(* The steps of a Bootstrap                                                *)

\* The list that is set: the own action and all that were wired, each once.
LEMMA UnionProperties ==
    ASSUME NEW a \in Actions, NEW list \in Seq(Actions), IsInjective(list)
    PROVE  /\ union(a, list) \in Seq(Actions)
           /\ ToSet(union(a, list)) = {a} \cup ToSet(list)
           /\ IsInjective(union(a, list))
<1> DEFINE w == Without(a, list)
           u == union(a, list)
<1>1. w \in Seq(Actions) /\ ToSet(w) = ToSet(list) \ {a} /\ IsInjective(w)
  BY WithoutProperties
<1>2. u = <<a>> \o w
  BY DEF union
<1> HIDE DEF w, u
<1>3. Len(w) \in Nat /\ DOMAIN w = 1..Len(w)
  BY <1>1
<1>4. /\ u \in Seq(Actions) /\ DOMAIN u = 1..(Len(w) + 1) /\ u[1] = a
      /\ \A i \in 2..(Len(w) + 1) : u[i] = w[i - 1]
  <2>1. <<a>> \in Seq(Actions) /\ Len(<<a>>) = 1 /\ <<a>>[1] = a
    OBVIOUS
  <2>2. /\ <<a>> \o w \in Seq(Actions) /\ Len(<<a>> \o w) = 1 + Len(w)
        /\ \A i \in 1..(1 + Len(w)) : (<<a>> \o w)[i] = IF i <= 1 THEN <<a>>[i] ELSE w[i - 1]
    BY <1>1, <2>1, ConcatProperties
  <2> QED
    BY <1>2, <1>3, <2>1, <2>2
<1>5. a \notin ToSet(w) /\ \A i \in 1..Len(w) : w[i] \in ToSet(w)
  BY <1>1, <1>3 DEF ToSet
<1>6. ToSet(u) = {a} \cup ToSet(w)
  <2>1. ASSUME NEW x \in ToSet(u) PROVE x \in {a} \cup ToSet(w)
    <3>1. PICK i \in 1..(Len(w) + 1) : x = u[i]
      BY <1>4, <2>1 DEF ToSet
    <3>2. i = 1 \/ (i \in 2..(Len(w) + 1) /\ i - 1 \in 1..Len(w))
      BY <1>3
    <3> QED
      BY <1>4, <1>5, <3>1, <3>2
  <2>2. ASSUME NEW x \in {a} \cup ToSet(w) PROVE x \in ToSet(u)
    <3>1. CASE x = a
      <4>1. 1 \in DOMAIN u
        BY <1>3, <1>4
      <4> QED
        BY <1>4, <3>1, <4>1 DEF ToSet
    <3>2. CASE x \in ToSet(w)
      <4>1. PICK i \in 1..Len(w) : x = w[i]
        BY <1>3, <3>2 DEF ToSet
      <4>2. i + 1 \in 2..(Len(w) + 1) /\ i + 1 \in DOMAIN u /\ (i + 1) - 1 = i
        BY <1>3, <1>4
      <4>3. u[i + 1] = x
        BY <1>4, <4>1, <4>2
      <4> QED
        BY <4>2, <4>3 DEF ToSet
    <3> QED
      BY <3>1, <3>2
  <2> QED
    BY <2>1, <2>2
<1>7. IsInjective(u)
  <2> SUFFICES ASSUME NEW i \in DOMAIN u, NEW j \in DOMAIN u, u[i] = u[j]
               PROVE  i = j
    BY DEF IsInjective
  <2>1. /\ i = 1 \/ (i \in 2..(Len(w) + 1) /\ i - 1 \in 1..Len(w))
        /\ j = 1 \/ (j \in 2..(Len(w) + 1) /\ j - 1 \in 1..Len(w))
    BY <1>3, <1>4
  <2>2. CASE i = 1 \/ j = 1
    BY <1>4, <1>5, <2>1, <2>2
  <2>3. CASE i # 1 /\ j # 1
    <3>1. w[i - 1] = w[j - 1] /\ i - 1 \in DOMAIN w /\ j - 1 \in DOMAIN w
      BY <1>3, <1>4, <2>1, <2>3
    <3>2. i - 1 = j - 1
      BY <1>1, <3>1 DEF IsInjective
    <3> QED
      BY <2>1, <2>3, <3>2
  <2> QED
    BY <2>2, <2>3
<1> QED
  BY <1>1, <1>4, <1>6, <1>7 DEF u

\* Goto takes one operation on and leaves the others alone.
LEMMA GoesOn ==
    ASSUME op \in [Ops -> Operations], NEW o \in Ops, NEW p \in Steps, Goto(o, p)
    PROVE  /\ op' \in [Ops -> Operations]
           /\ \A q \in Ops \ {o} : op'[q] = op[q]
           /\ op'[o] = [op[o] EXCEPT !.pc = p]
           /\ op'[o].pc = p /\ op'[o].req = op[o].req /\ op'[o].todo = op[o].todo
           /\ op'[o].secret = op[o].secret /\ op'[o].list = op[o].list
           /\ op'[o].read = op[o].read /\ op'[o].alone = op[o].alone
<1>1. p # "error"
  BY DEF Steps
<1>2. op' = [op EXCEPT ![o] = [op[o] EXCEPT !.pc = p]]
  BY <1>1 DEF Goto
<1>3. op[o] \in Operations
  OBVIOUS
<1> DEFINE n == [op[o] EXCEPT !.pc = p]
<1>4. /\ n \in Operations /\ n.pc = p /\ n.req = op[o].req /\ n.todo = op[o].todo
      /\ n.secret = op[o].secret /\ n.list = op[o].list /\ n.read = op[o].read
      /\ n.alone = op[o].alone
  BY <1>3 DEF Operations
<1>5. op' = [op EXCEPT ![o] = n]
  BY <1>2
<1> HIDE DEF n
<1>6. op' \in [Ops -> Operations] /\ op'[o] = n /\ \A q \in Ops \ {o} : op'[q] = op[q]
  BY <1>4, <1>5
<1> QED
  BY <1>4, <1>6 DEF n

LEMMA IdleIsOperation == Idle \in Operations
BY DEF Idle, Operations, Steps

LEMMA Ends ==
    ASSUME op \in [Ops -> Operations], NEW o \in Ops,
           Goto(o, "error") \/ op' = [op EXCEPT ![o] = Idle]
    PROVE  /\ op' \in [Ops -> Operations] /\ op'[o] = Idle
           /\ \A q \in Ops \ {o} : op'[q] = op[q]
           /\ ~op'[o].alone /\ OpInv(o)'
<1>1. op' = [op EXCEPT ![o] = Idle]
  BY DEF Goto
<1>2. op' \in [Ops -> Operations] /\ op'[o] = Idle /\ \A q \in Ops \ {o} : op'[q] = op[q]
  BY <1>1, IdleIsOperation
<1>3. op'[o].pc = "idle" /\ op'[o].read = None /\ op'[o].alone = FALSE
  BY <1>2 DEF Idle
<1>4. OpInv(o)'
  BY <1>3 DEF OpInv, ProjectDone, RolesDone, AppDone, ScriptDone, ActionDone
<1> QED
  BY <1>2, <1>3, <1>4

\* Nothing that is done is undone.
Grows ==
    /\ \A p \in Projects : roles[p] # None => roles'[p] # None /\ roles[p] \subseteq roles'[p]
    /\ \A p \in Projects : app[p] = "api" => app'[p] = "api"
    /\ \A a \in ActionNames : script[a] # None => script'[a] # None

\* An operation that has company only looks at what grows.
LEMMA Bystander ==
    ASSUME NEW q \in Ops, OpInv(q), op[q] \in Operations, ~op[q].alone, op'[q] = op[q], Grows
    PROVE  OpInv(q)'
<1>0. op[q].pc # "idle" => op[q].req \in Requests /\ op[q].req.project \in Projects
  BY BootstrapAssumption DEF OpInv
<1>1. Own(q)' = Own(q) /\ op'[q].alone = FALSE
  BY DEF Own, Operations
<1>2. op[q].pc \in ScriptDone => Own(q) \in ActionNames
  BY BootstrapAssumption DEF OpInv, Own
<1>3. op[q].pc \in ProjectDone =>
         /\ roles'[op[q].req.project] # None
         /\ dedupeOperations(op[q].req.operations) \subseteq roles'[op[q].req.project] \cup op[q].todo
  <2>1. op[q].pc \in ProjectDone => op[q].pc # "idle"
    BY DEF ProjectDone, RolesDone, AppDone, ScriptDone, ActionDone
  <2> QED
    BY <1>0, <2>1 DEF OpInv, Grows
<1>4. op[q].pc \in AppDone => app'[op[q].req.project] = "api"
  <2>1. op[q].pc \in AppDone => op[q].pc # "idle"
    BY DEF AppDone, ScriptDone, ActionDone
  <2> QED
    BY <1>0, <2>1 DEF OpInv, Grows
<1>5. op[q].pc \in ActionDone => script'[Own(q)] # None
  <2>1. op[q].pc \in ActionDone => op[q].pc \in ScriptDone
    BY DEF ScriptDone
  <2> QED
    BY <1>2, <2>1 DEF OpInv, Grows
<1>6. op[q].pc = "wire" => \A a \in ToSet(op[q].list) \cap ActionNames : script'[a] # None
  BY DEF OpInv, Grows
<1> QED
  BY <1>1, <1>3, <1>4, <1>5, <1>6 DEF OpInv

\* A step of one operation at work keeps what holds of the others.
LEMMA OneWorks ==
    ASSUME IInv, NEW o \in Ops, Active(o),
           op' \in [Ops -> Operations], \A q \in Ops \ {o} : op'[q] = op[q],
           op'[o].alone => op[o].alone, Zitadel', Grows, OpInv(o)'
    PROVE  IInv'
<1>1. ASSUME NEW q \in Ops PROVE OpInv(q)' /\ Solitude(q)'
  <2>1. CASE q = o
    <3>1. Solitude(o)'
      BY DEF IInv, Solitude, Active
    <3> QED
      BY <2>1, <3>1
  <2>2. CASE q # o
    <3>1. op'[q] = op[q] /\ OpInv(q) /\ Solitude(q) /\ op[q] \in Operations
      BY <2>2 DEF IInv
    <3>2. op[q].alone \in BOOLEAN
      BY <3>1 DEF Operations
    <3>3. ~op[q].alone
      BY <2>2, <3>1 DEF Solitude
    <3> QED
      BY <3>1, <3>3, Bystander DEF Solitude
  <2> QED
    BY <2>1, <2>2
<1> QED
  BY <1>1 DEF IInv

\* The request of an operation at work is one that is made.
LEMMA AtWork ==
    ASSUME IInv, NEW o \in Ops, Active(o)
    PROVE  /\ op[o].req \in Requests /\ op[o].req.project \in Projects
           /\ op[o] \in Operations /\ OpInv(o) /\ op \in [Ops -> Operations] /\ Zitadel
BY BootstrapAssumption DEF IInv, Active, OpInv

LEMMA OwnIsAction ==
    ASSUME NEW o \in Ops, op[o].req.namespace \in Namespaces
    PROVE  Own(o) \in ActionNames /\ Own(o) \in Actions
BY BootstrapAssumption DEF Own, Actions

LEMMA NothingChanges ==
    ASSUME Zitadel, UNCHANGED zitadel PROVE Zitadel' /\ Grows
BY DEF Zitadel, zitadel, Grows

\* An operation that gives up leaves everything as it is.
LEMMA GivesUp ==
    ASSUME IInv, NEW o \in Ops, Active(o), Goto(o, "error"), UNCHANGED zitadel
    PROVE  IInv'
<1>1. op \in [Ops -> Operations] /\ Zitadel
  BY DEF IInv
<1>2. Zitadel' /\ Grows
  BY <1>1, NothingChanges
<1>3. /\ op' \in [Ops -> Operations] /\ \A q \in Ops \ {o} : op'[q] = op[q]
      /\ ~op'[o].alone /\ OpInv(o)'
  BY <1>1, Ends
<1> QED
  BY <1>2, <1>3, OneWorks

LEMMA FindProjectStep == ASSUME IInv, NEW o \in Ops, FindProject(o) PROVE IInv'
<1> USE DEF FindProject
<1>1. Active(o)
  BY DEF Active
<1>2. /\ op[o].req \in Requests /\ op[o].req.project \in Projects /\ op[o] \in Operations
      /\ OpInv(o) /\ op \in [Ops -> Operations] /\ Zitadel
  BY <1>1, AtWork
<1>3. Zitadel' /\ Grows
  BY <1>2, NothingChanges
<1> DEFINE p == IF roles[op[o].req.project] = None THEN "createProject" ELSE "roles"
<1>4. /\ op' \in [Ops -> Operations] /\ \A q \in Ops \ {o} : op'[q] = op[q]
      /\ op'[o].pc = p /\ op'[o].req = op[o].req /\ op'[o].todo = op[o].todo
      /\ op'[o].read = op[o].read /\ op'[o].alone = op[o].alone
  BY <1>2, GoesOn DEF Steps
<1>5. OpInv(o)'
  <2>1. op[o].todo = dedupeOperations(op[o].req.operations) /\ op[o].read = None /\ roles' = roles
    BY <1>2 DEF OpInv, zitadel
  <2>2. p \in {"createProject", "roles"} /\ (p = "roles" => roles[op[o].req.project] # None)
    OBVIOUS
  <2> HIDE DEF p, FindProject
  <2> QED
    BY <1>2, <1>4, <2>1, <2>2 DEF OpInv, ProjectDone, RolesDone, AppDone, ScriptDone, ActionDone
<1> QED
  BY <1>1, <1>3, <1>4, <1>5, OneWorks

LEMMA CreateProjectStep == ASSUME IInv, NEW o \in Ops, CreateProject(o) PROVE IInv'
<1> DEFINE p == op[o].req.project
<1>0. op[o].pc = "createProject" /\ UNCHANGED <<app, script, trigger>>
  BY DEF CreateProject
<1>1. Active(o)
  BY <1>0 DEF Active
<1>2. /\ op[o].req \in Requests /\ p \in Projects /\ op[o] \in Operations
      /\ OpInv(o) /\ op \in [Ops -> Operations] /\ Zitadel
  BY <1>1, AtWork
<1>3. CASE roles[p] # None
  <2>1. Goto(o, "error") /\ UNCHANGED zitadel
    BY <1>0, <1>3 DEF CreateProject, zitadel
  <2> QED
    BY <1>1, <2>1, GivesUp
<1>4. CASE roles[p] = None
  <2>1. roles' = [roles EXCEPT ![p] = {}] /\ Goto(o, "roles")
    BY <1>4 DEF CreateProject
  <2>2. /\ op' \in [Ops -> Operations] /\ \A q \in Ops \ {o} : op'[q] = op[q]
        /\ op'[o].pc = "roles" /\ op'[o].req = op[o].req /\ op'[o].todo = op[o].todo
        /\ op'[o].read = op[o].read /\ op'[o].alone = op[o].alone
    BY <1>2, <2>1, GoesOn DEF Steps
  <2>3. {} # None
    BY BootstrapAssumption
  <2>4. /\ roles' \in [Projects -> {None} \cup SUBSET AllPermissions] /\ roles'[p] = {}
        /\ \A x \in Projects \ {p} : roles'[x] = roles[x]
    BY <1>2, <2>1 DEF Zitadel
  <2>5. Zitadel'
    BY <1>0, <1>2, <2>3, <2>4, FS_EmptySet DEF Zitadel
  <2>6. Grows
    BY <1>0, <1>4, <2>3, <2>4 DEF Grows
  <2>7. OpInv(o)'
    <3>1. op[o].todo = dedupeOperations(op[o].req.operations) /\ op[o].read = None
      BY <1>0, <1>2 DEF OpInv
    <3> HIDE DEF p
    <3>2. op'[o].req.project = p
      BY <2>2 DEF p
    <3> QED
      BY <1>2, <2>2, <2>3, <2>4, <3>1, <3>2
         DEF OpInv, ProjectDone, RolesDone, AppDone, ScriptDone, ActionDone
  <2> QED
    BY <1>1, <2>2, <2>5, <2>6, <2>7, OneWorks
<1> QED
  BY <1>3, <1>4

LEMMA AddRoleStep == ASSUME IInv, NEW o \in Ops, AddRole(o) PROVE IInv'
<1> DEFINE p == op[o].req.project
<1>0. op[o].pc = "roles" /\ UNCHANGED <<app, script, trigger>>
  BY DEF AddRole
<1>1. Active(o)
  BY <1>0 DEF Active
<1>2. /\ op[o].req \in Requests /\ p \in Projects /\ op[o] \in Operations
      /\ OpInv(o) /\ op \in [Ops -> Operations] /\ Zitadel
  BY <1>1, AtWork
<1>3. PICK k \in op[o].todo :
          /\ roles' = [roles EXCEPT ![p] = @ \cup {k}]
          /\ op' = [op EXCEPT ![o].todo = @ \ {k},
                              ![o].pc = IF op[o].todo = {k} THEN "app" ELSE "roles"]
  BY DEF AddRole
<1> DEFINE n == [op[o] EXCEPT !.todo = @ \ {k},
                              !.pc = IF op[o].todo = {k} THEN "app" ELSE "roles"]
<1>4. /\ n \in Operations /\ n.pc = (IF op[o].todo = {k} THEN "app" ELSE "roles")
      /\ n.req = op[o].req /\ n.todo = op[o].todo \ {k} /\ n.read = op[o].read
      /\ n.alone = op[o].alone
  BY <1>2 DEF Operations, Steps
<1>5. op' = [op EXCEPT ![o] = n]
  BY <1>3
<1> HIDE DEF n
<1>6. op' \in [Ops -> Operations] /\ op'[o] = n /\ \A q \in Ops \ {o} : op'[q] = op[q]
  BY <1>2, <1>4, <1>5
<1>7. /\ roles[p] # None /\ dedupeOperations(op[o].req.operations) \subseteq roles[p] \cup op[o].todo
      /\ op[o].read = None
  BY <1>0, <1>2 DEF OpInv, ProjectDone
<1>8. k \in AllPermissions /\ roles[p] \in SUBSET AllPermissions /\ IsFiniteSet(roles[p])
  BY <1>2, <1>7 DEF Operations, Zitadel
<1> DEFINE K == roles[p] \cup {k}
<1>9. K \in SUBSET AllPermissions /\ IsFiniteSet(K) /\ K # None
  <2>1. K \in SUBSET AllPermissions /\ IsFiniteSet(K)
    BY <1>8, FS_AddElement
  <2> QED
    BY <2>1, BootstrapAssumption DEF AllPermissions
<1>10. /\ roles' \in [Projects -> {None} \cup SUBSET AllPermissions] /\ roles'[p] = K
       /\ \A x \in Projects \ {p} : roles'[x] = roles[x]
  BY <1>2, <1>3, <1>9 DEF Zitadel
<1>11. roles[p] \subseteq K /\ k \in K
  OBVIOUS
<1> HIDE DEF K, p
<1>12. Zitadel'
  BY <1>0, <1>2, <1>9, <1>10 DEF Zitadel
<1>13. Grows
  BY <1>0, <1>9, <1>10, <1>11 DEF Grows
<1>14. OpInv(o)'
  <2>1. /\ op'[o].req.project = p /\ op'[o].pc \in {"app", "roles"}
        /\ op'[o].pc = "app" => op'[o].todo = {}
        /\ op'[o].todo = op[o].todo \ {k} /\ op'[o].req = op[o].req /\ op'[o].read = None
    BY <1>4, <1>6, <1>7 DEF p
  <2>2. dedupeOperations(op[o].req.operations) \subseteq K \cup (op[o].todo \ {k})
    BY <1>7, <1>11
  <2> QED
    BY <1>2, <1>9, <1>10, <2>1, <2>2
       DEF OpInv, ProjectDone, RolesDone, AppDone, ScriptDone, ActionDone
<1> QED
  BY <1>1, <1>4, <1>6, <1>12, <1>13, <1>14, OneWorks

LEMMA FindAppStep == ASSUME IInv, NEW o \in Ops, FindApp(o) PROVE IInv'
<1>0. op[o].pc = "app" /\ UNCHANGED zitadel
  BY DEF FindApp
<1>1. Active(o)
  BY <1>0 DEF Active
<1>2. /\ op[o].req \in Requests /\ op[o].req.project \in Projects /\ op[o] \in Operations
      /\ OpInv(o) /\ op \in [Ops -> Operations] /\ Zitadel
  BY <1>1, AtWork
<1>3. Zitadel' /\ Grows
  BY <1>0, <1>2, NothingChanges
<1>4. \/ Goto(o, "error")
      \/ \E p \in {"createApp", "render"} :
            Goto(o, p) /\ (p = "render" => app[op[o].req.project] = "api")
  <2>1. app[op[o].req.project] \in {None, "api", "other"} /\ None # "api"
    BY <1>2, BootstrapAssumption DEF Zitadel
  <2>2. CASE app[op[o].req.project] = None
    BY <2>1, <2>2 DEF FindApp
  <2>3. CASE app[op[o].req.project] = "api"
    BY <2>1, <2>3 DEF FindApp
  <2>4. CASE app[op[o].req.project] # None /\ app[op[o].req.project] # "api"
    BY <2>4 DEF FindApp
  <2> QED
    BY <2>2, <2>3, <2>4
<1>5. ASSUME NEW p \in {"createApp", "render"}, Goto(o, p),
             p = "render" => app[op[o].req.project] = "api"
      PROVE  IInv'
  <2>1. /\ op' \in [Ops -> Operations] /\ \A q \in Ops \ {o} : op'[q] = op[q]
        /\ op'[o].pc = p /\ op'[o].req = op[o].req /\ op'[o].todo = op[o].todo
        /\ op'[o].read = op[o].read /\ op'[o].alone = op[o].alone
    BY <1>2, <1>5, GoesOn DEF Steps
  <2>2. OpInv(o)'
    <3>1. roles' = roles /\ app' = app
      BY <1>0 DEF zitadel
    <3> QED
      BY <1>0, <1>2, <1>5, <2>1, <3>1
         DEF OpInv, ProjectDone, RolesDone, AppDone, ScriptDone, ActionDone
  <2> QED
    BY <1>1, <1>3, <2>1, <2>2, OneWorks
<1> QED
  BY <1>0, <1>1, <1>4, <1>5, GivesUp

LEMMA CreateAppStep == ASSUME IInv, NEW o \in Ops, CreateApp(o) PROVE IInv'
<1> DEFINE p == op[o].req.project
<1>0. op[o].pc = "createApp" /\ UNCHANGED <<roles, script, trigger>>
  BY DEF CreateApp
<1>1. Active(o)
  BY <1>0 DEF Active
<1>2. /\ op[o].req \in Requests /\ p \in Projects /\ op[o] \in Operations
      /\ OpInv(o) /\ op \in [Ops -> Operations] /\ Zitadel
  BY <1>1, AtWork
<1>3. CASE app[p] # None
  <2>1. Goto(o, "error") /\ UNCHANGED zitadel
    BY <1>0, <1>3 DEF CreateApp, zitadel
  <2> QED
    BY <1>1, <2>1, GivesUp
<1>4. CASE app[p] = None
  <2> DEFINE n == [op[o] EXCEPT !.pc = "render", !.secret = TRUE]
  <2>1. app' = [app EXCEPT ![p] = "api"] /\ op' = [op EXCEPT ![o] = n]
    BY <1>4 DEF CreateApp
  <2>2. /\ n \in Operations /\ n.pc = "render" /\ n.req = op[o].req /\ n.todo = op[o].todo
        /\ n.read = op[o].read /\ n.alone = op[o].alone
    BY <1>2 DEF Operations, Steps
  <2> HIDE DEF n
  <2>3. op' \in [Ops -> Operations] /\ op'[o] = n /\ \A q \in Ops \ {o} : op'[q] = op[q]
    BY <1>2, <2>1, <2>2
  <2>4. /\ app' \in [Projects -> {None, "api", "other"}] /\ app'[p] = "api"
        /\ \A x \in Projects \ {p} : app'[x] = app[x]
    BY <1>2, <2>1 DEF Zitadel
  <2>5. Zitadel' /\ Grows
    BY <1>0, <1>2, <2>4 DEF Zitadel, Grows
  <2>6. OpInv(o)'
    BY <1>0, <1>2, <2>2, <2>3, <2>4
       DEF OpInv, ProjectDone, RolesDone, AppDone, ScriptDone, ActionDone
  <2> QED
    BY <1>1, <2>2, <2>3, <2>5, <2>6, OneWorks
<1> QED
  BY <1>3, <1>4

LEMMA RenderStep == ASSUME IInv, NEW o \in Ops, Render(o) PROVE IInv'
<1>0. op[o].pc = "render" /\ UNCHANGED zitadel
  BY DEF Render
<1>1. Active(o)
  BY <1>0 DEF Active
<1>2. /\ op[o].req \in Requests /\ op[o].req.project \in Projects /\ op[o] \in Operations
      /\ OpInv(o) /\ op \in [Ops -> Operations] /\ Zitadel
  BY <1>1, AtWork
<1>3. Zitadel' /\ Grows
  BY <1>0, <1>2, NothingChanges
<1>4. CASE op[o].req.namespace \notin Namespaces
  <2>1. Goto(o, "error")
    BY <1>4 DEF Render
  <2> QED
    BY <1>0, <1>1, <2>1, GivesUp
<1>5. CASE op[o].req.namespace \in Namespaces
  <2>1. Goto(o, "action")
    BY <1>5 DEF Render
  <2>2. /\ op' \in [Ops -> Operations] /\ \A q \in Ops \ {o} : op'[q] = op[q]
        /\ op'[o].pc = "action" /\ op'[o].req = op[o].req /\ op'[o].todo = op[o].todo
        /\ op'[o].read = op[o].read /\ op'[o].alone = op[o].alone
    BY <1>2, <2>1, GoesOn DEF Steps
  <2>3. OpInv(o)'
    <3>1. roles' = roles /\ app' = app
      BY <1>0 DEF zitadel
    <3> QED
      BY <1>0, <1>2, <1>5, <2>2, <3>1
         DEF OpInv, ProjectDone, RolesDone, AppDone, ScriptDone, ActionDone
  <2> QED
    BY <1>1, <1>3, <2>2, <2>3, OneWorks
<1> QED
  BY <1>4, <1>5

LEMMA FindActionStep == ASSUME IInv, NEW o \in Ops, FindAction(o) PROVE IInv'
<1>0. op[o].pc = "action" /\ UNCHANGED zitadel
  BY DEF FindAction
<1>1. Active(o)
  BY <1>0 DEF Active
<1>2. /\ op[o].req \in Requests /\ op[o].req.project \in Projects /\ op[o] \in Operations
      /\ OpInv(o) /\ op \in [Ops -> Operations] /\ Zitadel
  BY <1>1, AtWork
<1>3. Zitadel' /\ Grows
  BY <1>0, <1>2, NothingChanges
<1>4. op[o].req.namespace \in Namespaces /\ op[o].req.namespace # None
  BY <1>0, <1>2, BootstrapAssumption DEF OpInv, ScriptDone
<1>5. \E p \in {"createAction", "flow", "updateAction"} :
         Goto(o, p) /\ (p = "flow" => script[Own(o)] = op[o].req.namespace)
  <2>1. CASE script[Own(o)] = None
    BY <1>4, <2>1 DEF FindAction
  <2>2. CASE script[Own(o)] = op[o].req.namespace
    BY <1>4, <2>2 DEF FindAction
  <2>3. CASE script[Own(o)] # None /\ script[Own(o)] # op[o].req.namespace
    BY <2>3 DEF FindAction
  <2> QED
    BY <2>1, <2>2, <2>3
<1>6. PICK p \in {"createAction", "flow", "updateAction"} :
         Goto(o, p) /\ (p = "flow" => script[Own(o)] = op[o].req.namespace)
  BY <1>5
<1>7. /\ op' \in [Ops -> Operations] /\ \A q \in Ops \ {o} : op'[q] = op[q]
      /\ op'[o].pc = p /\ op'[o].req = op[o].req /\ op'[o].todo = op[o].todo
      /\ op'[o].read = op[o].read /\ op'[o].alone = op[o].alone
  BY <1>2, <1>6, GoesOn DEF Steps
<1>8. OpInv(o)'
  <2>1. roles' = roles /\ app' = app /\ script' = script
    BY <1>0 DEF zitadel
  <2>2. Own(o)' = Own(o)
    BY <1>7 DEF Own
  <2> QED
    BY <1>0, <1>2, <1>4, <1>6, <1>7, <2>1, <2>2
       DEF OpInv, ProjectDone, RolesDone, AppDone, ScriptDone, ActionDone
<1> QED
  BY <1>1, <1>3, <1>7, <1>8, OneWorks

\* The script of the own action is put in place, by creating or updating it.
LEMMA ScriptIsPut ==
    ASSUME IInv, NEW o \in Ops, op[o].pc \in {"createAction", "updateAction"},
           script' = [script EXCEPT ![Own(o)] = op[o].req.namespace], Goto(o, "flow"),
           UNCHANGED <<roles, app, trigger>>
    PROVE  IInv'
<1>1. Active(o)
  BY DEF Active
<1>2. /\ op[o].req \in Requests /\ op[o].req.project \in Projects /\ op[o] \in Operations
      /\ OpInv(o) /\ op \in [Ops -> Operations] /\ Zitadel
  BY <1>1, AtWork
<1>3. op[o].req.namespace \in Namespaces /\ op[o].req.namespace # None
  BY <1>2, BootstrapAssumption DEF OpInv, ScriptDone
<1>4. Own(o) \in ActionNames
  BY <1>3, OwnIsAction
<1>5. /\ script' \in [ActionNames -> Namespaces \cup {None}]
      /\ script'[Own(o)] = op[o].req.namespace
      /\ \A a \in ActionNames : a # Own(o) => script'[a] = script[a]
  BY <1>2, <1>3, <1>4 DEF Zitadel
<1>6. \A a \in ActionNames : script[a] # None => script'[a] # None
  BY <1>3, <1>5
<1>7. Zitadel' /\ Grows
  BY <1>2, <1>5, <1>6 DEF Zitadel, Grows
<1>8. /\ op' \in [Ops -> Operations] /\ \A q \in Ops \ {o} : op'[q] = op[q]
      /\ op'[o].pc = "flow" /\ op'[o].req = op[o].req /\ op'[o].todo = op[o].todo
      /\ op'[o].read = op[o].read /\ op'[o].alone = op[o].alone
  BY <1>2, GoesOn DEF Steps
<1>9. OpInv(o)'
  <2>1. Own(o)' = Own(o)
    BY <1>8 DEF Own
  <2> QED
    BY <1>2, <1>3, <1>5, <1>8, <2>1
       DEF OpInv, ProjectDone, RolesDone, AppDone, ScriptDone, ActionDone
<1> QED
  BY <1>1, <1>7, <1>8, <1>9, OneWorks

LEMMA CreateActionStep == ASSUME IInv, NEW o \in Ops, CreateAction(o) PROVE IInv'
<1>1. CASE script[Own(o)] = None
  BY <1>1, ScriptIsPut DEF CreateAction
<1>2. CASE script[Own(o)] # None
  BY <1>2, GivesUp DEF CreateAction, Active, zitadel
<1> QED
  BY <1>1, <1>2

LEMMA UpdateActionStep == ASSUME IInv, NEW o \in Ops, UpdateAction(o) PROVE IInv'
BY ScriptIsPut DEF UpdateAction

LEMMA ReadFlowStep == ASSUME IInv, NEW o \in Ops, ReadFlow(o) PROVE IInv'
<1>0. op[o].pc = "flow" /\ UNCHANGED zitadel
  BY DEF ReadFlow
<1>1. Active(o)
  BY <1>0 DEF Active
<1>2. /\ op[o].req \in Requests /\ op[o].req.project \in Projects /\ op[o] \in Operations
      /\ OpInv(o) /\ op \in [Ops -> Operations] /\ Zitadel
  BY <1>1, AtWork
<1>3. Zitadel' /\ Grows
  BY <1>0, <1>2, NothingChanges
<1>4. op[o].req.namespace \in Namespaces /\ script[Own(o)] # None /\ op[o].read = None
  BY <1>0, <1>2 DEF OpInv, ScriptDone, ActionDone
<1>5. Own(o) \in ActionNames /\ Own(o) \in Actions
  BY <1>4, OwnIsAction
<1>6. trigger \in Seq(Actions) /\ IsInjective(trigger)
  BY <1>2 DEF Zitadel
<1>7. ASSUME NEW l \in Seq(Actions), NEW r \in Seq(Actions) \cup {None},
             op' = [op EXCEPT ![o].pc = "wire", ![o].read = r, ![o].list = l],
             IsInjective(l), Own(o) \in ToSet(l),
             \A a \in ToSet(l) \cap ActionNames : script[a] # None,
             r # None => ToSet(r) \subseteq ToSet(l)
      PROVE  IInv'
  <2> DEFINE n == [op[o] EXCEPT !.pc = "wire", !.read = r, !.list = l]
  <2>1. op' = [op EXCEPT ![o] = n]
    BY <1>7
  <2>2. /\ n \in Operations /\ n.pc = "wire" /\ n.req = op[o].req /\ n.todo = op[o].todo
        /\ n.read = r /\ n.list = l /\ n.alone = op[o].alone
    BY <1>2 DEF Operations, Steps
  <2> HIDE DEF n
  <2>3. op' \in [Ops -> Operations] /\ op'[o] = n /\ \A q \in Ops \ {o} : op'[q] = op[q]
    BY <1>2, <2>1, <2>2
  <2>4. OpInv(o)'
    <3>1. roles' = roles /\ app' = app /\ script' = script /\ trigger' = trigger
      BY <1>0 DEF zitadel
    <3>2. Own(o)' = Own(o)
      BY <2>2, <2>3 DEF Own
    <3>3. /\ op'[o].pc = "wire" /\ op'[o].req = op[o].req /\ op'[o].todo = op[o].todo
          /\ op'[o].read = r /\ op'[o].list = l /\ op'[o].alone = op[o].alone
      BY <2>2, <2>3
    <3> QED
      BY <1>0, <1>2, <1>4, <1>7, <3>1, <3>2, <3>3
         DEF OpInv, ProjectDone, RolesDone, AppDone, ScriptDone, ActionDone
  <2> QED
    BY <1>1, <1>3, <2>2, <2>3, <2>4, OneWorks
<1>8. CASE op' = [op EXCEPT ![o].pc = "wire", ![o].read = trigger,
                            ![o].list = union(Own(o), trigger)]
  <2>1. /\ union(Own(o), trigger) \in Seq(Actions)
        /\ ToSet(union(Own(o), trigger)) = {Own(o)} \cup ToSet(trigger)
        /\ IsInjective(union(Own(o), trigger))
    BY <1>5, <1>6, UnionProperties
  <2>2. \A a \in ToSet(union(Own(o), trigger)) \cap ActionNames : script[a] # None
    BY <1>2, <1>4, <2>1 DEF Zitadel
  <2> QED
    BY <1>6, <1>7, <1>8, <2>1, <2>2
<1>9. CASE op' = [op EXCEPT ![o].pc = "wire", ![o].list = <<Own(o)>>]
  <2>1. <<Own(o)>> \in Seq(Actions) /\ ToSet(<<Own(o)>>) = {Own(o)} /\ IsInjective(<<Own(o)>>)
    BY <1>5 DEF ToSet, IsInjective
  <2>2. op' = [op EXCEPT ![o].pc = "wire", ![o].read = None, ![o].list = <<Own(o)>>]
    BY <1>2, <1>4, <1>9 DEF Operations
  <2> QED
    BY <1>4, <1>7, <2>1, <2>2
<1> QED
  BY <1>8, <1>9 DEF ReadFlow

LEMMA SetTriggerActionsStep == ASSUME IInv, NEW o \in Ops, SetTriggerActions(o) PROVE IInv'
<1>0. /\ op[o].pc = "wire" /\ UNCHANGED <<roles, app, script>> /\ Goto(o, "ok")
      /\ trigger' = op[o].list
  BY DEF SetTriggerActions
<1>1. Active(o)
  BY <1>0 DEF Active
<1>2. /\ op[o].req \in Requests /\ op[o].req.project \in Projects /\ op[o] \in Operations
      /\ OpInv(o) /\ op \in [Ops -> Operations] /\ Zitadel
  BY <1>1, AtWork
<1>3. /\ op[o].list \in Seq(Actions) /\ IsInjective(op[o].list)
      /\ Own(o) \in ToSet(op[o].list)
      /\ \A a \in ToSet(op[o].list) \cap ActionNames : script[a] # None
  BY <1>0, <1>2 DEF OpInv, Operations
<1>4. Zitadel' /\ Grows
  BY <1>0, <1>2, <1>3 DEF Zitadel, Grows
<1>5. /\ op' \in [Ops -> Operations] /\ \A q \in Ops \ {o} : op'[q] = op[q]
      /\ op'[o].pc = "ok" /\ op'[o].req = op[o].req /\ op'[o].todo = op[o].todo
      /\ op'[o].alone = op[o].alone
  BY <1>0, <1>2, GoesOn DEF Steps
<1>6. OpInv(o)'
  <2>1. Own(o)' = Own(o)
    BY <1>5 DEF Own
  <2>2. Own(o) \in ToSet(trigger')
    BY <1>0, <1>3
  <2> QED
    BY <1>0, <1>2, <1>5, <2>1, <2>2
       DEF OpInv, ProjectDone, RolesDone, AppDone, ScriptDone, ActionDone
<1> QED
  BY <1>1, <1>4, <1>5, <1>6, OneWorks

LEMMA WorkStep == ASSUME IInv, NEW o \in Ops, Work(o) PROVE IInv'
BY FindProjectStep, CreateProjectStep, AddRoleStep, FindAppStep, CreateAppStep, RenderStep,
   FindActionStep, CreateActionStep, UpdateActionStep, ReadFlowStep, SetTriggerActionsStep
   DEF Work

LEMMA AbortStep == ASSUME IInv, NEW o \in Ops, Abort(o) PROVE IInv'
BY GivesUp DEF Abort

\* Starting over: what is alone is not disturbed by it.
LEMMA AgainStep == ASSUME IInv, NEW o \in Ops, Again(o) PROVE IInv'
<1>0. op[o].pc = "ok" /\ op' = [op EXCEPT ![o] = Idle] /\ UNCHANGED zitadel
  BY DEF Again
<1>1. op \in [Ops -> Operations] /\ Zitadel
  BY DEF IInv
<1>2. Zitadel'
  BY <1>0, <1>1, NothingChanges
<1>3. /\ op' \in [Ops -> Operations] /\ op'[o] = Idle /\ \A q \in Ops \ {o} : op'[q] = op[q]
      /\ ~op'[o].alone /\ OpInv(o)'
  BY <1>0, <1>1, Ends
<1>4. ASSUME NEW q \in Ops \ {o} PROVE OpInv(q)' /\ Solitude(q)'
  <2>1. op'[q] = op[q] /\ OpInv(q) /\ Solitude(q)
    BY <1>3 DEF IInv
  <2>2. OpInv(q)'
    <3>1. roles' = roles /\ app' = app /\ script' = script /\ trigger' = trigger
      BY <1>0 DEF zitadel
    <3> QED
      BY <2>1, <3>1 DEF OpInv, Own
  <2>3. \A p \in Ops : Active(p)' => Active(p)
    BY <1>3 DEF Active, Idle
  <2> QED
    BY <2>1, <2>2, <2>3 DEF Solitude
<1>5. Solitude(o)'
  BY <1>3 DEF Solitude
<1> QED
  BY <1>2, <1>3, <1>4, <1>5 DEF IInv

\* Who starts ends the solitude of everybody else.
LEMMA StartStep == ASSUME IInv, NEW o \in Ops, NEW r \in Requests, Start(o, r) PROVE IInv'
<1> DEFINE alone == \A q \in Ops : ~Active(q)
           n == [Idle EXCEPT !.pc = "project", !.req = r, !.alone = alone,
                              !.todo = dedupeOperations(r.operations)]
<1>1. /\ op' = [q \in Ops |-> IF q = o THEN n ELSE [op[q] EXCEPT !.alone = FALSE]]
      /\ UNCHANGED zitadel
  BY DEF Start
<1>2. op \in [Ops -> Operations] /\ Zitadel /\ Zitadel'
  BY <1>1, NothingChanges DEF IInv
<1>3. alone \in BOOLEAN
  OBVIOUS
<1> HIDE DEF alone
<1>4. /\ n \in Operations /\ n.pc = "project" /\ n.req = r /\ n.todo = dedupeOperations(r.operations)
      /\ n.read = None /\ n.alone = alone
  <2>1. dedupeOperations(r.operations) \in SUBSET AllPermissions
    BY DEF AllPermissions
  <2>2. Idle \in Operations /\ Idle.read = None
    BY IdleIsOperation DEF Idle
  <2> QED
    BY <1>3, <2>1, <2>2 DEF Operations, Steps
<1> HIDE DEF n
<1>5. \A q \in Ops : LET m == [op[q] EXCEPT !.alone = FALSE] IN
         /\ m \in Operations /\ m.pc = op[q].pc /\ m.req = op[q].req /\ m.todo = op[q].todo
         /\ m.read = op[q].read /\ m.list = op[q].list /\ m.alone = FALSE
  BY <1>2 DEF Operations
<1>6. /\ op' \in [Ops -> Operations] /\ op'[o] = n
      /\ \A q \in Ops \ {o} :
            /\ op'[q].pc = op[q].pc /\ op'[q].req = op[q].req /\ op'[q].todo = op[q].todo
            /\ op'[q].read = op[q].read /\ op'[q].list = op[q].list /\ op'[q].alone = FALSE
  BY <1>1, <1>4, <1>5
<1>7. OpInv(o)' /\ Solitude(o)'
  <2>1. OpInv(o)'
    BY <1>4, <1>6 DEF OpInv, ProjectDone, RolesDone, AppDone, ScriptDone, ActionDone
  <2>2. Solitude(o)'
    <3> SUFFICES ASSUME alone PROVE \A q \in Ops \ {o} : ~(op'[q].pc \notin {"idle", "ok"})
      BY <1>4, <1>6 DEF Solitude, Active
    <3>1. \A q \in Ops : op[q].pc \in {"idle", "ok"}
      BY DEF alone, Active
    <3> QED
      BY <1>6, <3>1
  <2> QED
    BY <2>1, <2>2
<1>8. ASSUME NEW q \in Ops \ {o} PROVE OpInv(q)' /\ Solitude(q)'
  <2>1. roles' = roles /\ app' = app /\ script' = script /\ trigger' = trigger
    BY <1>1 DEF zitadel
  <2>2. OpInv(q)
    BY DEF IInv
  <2>3. Own(q)' = Own(q)
    BY <1>6 DEF Own
  <2>4. OpInv(q)'
    BY <1>6, <2>1, <2>2, <2>3 DEF OpInv
  <2>5. Solitude(q)'
    BY <1>6 DEF Solitude
  <2> QED
    BY <2>4, <2>5
<1> QED
  BY <1>2, <1>6, <1>7, <1>8 DEF IInv

\* Edits by hand touch no action that Bootstrap manages.
LEMMA EditByHandStep == ASSUME IInv, EditByHand PROVE IInv'
<1>1. PICK a \in Manual : trigger' = IF a \in ToSet(trigger) THEN Without(a, trigger)
                                     ELSE Append(trigger, a)
  BY DEF EditByHand
<1>2. UNCHANGED <<roles, app, script, op>>
  BY DEF EditByHand
<1>3. op \in [Ops -> Operations] /\ Zitadel /\ trigger \in Seq(Actions) /\ IsInjective(trigger)
  BY DEF IInv, Zitadel
<1>4. a \in Actions /\ a \notin ActionNames
  BY BootstrapAssumption DEF Actions
<1>5. /\ trigger' \in Seq(Actions) /\ IsInjective(trigger')
      /\ ToSet(trigger') \subseteq ToSet(trigger) \cup {a}
      /\ ToSet(trigger) \subseteq ToSet(trigger') \cup {a}
  <2>1. CASE a \in ToSet(trigger)
    BY <1>1, <1>3, <2>1, WithoutProperties
  <2>2. CASE a \notin ToSet(trigger)
    <3> DEFINE t == Append(trigger, a)
               L == Len(trigger)
    <3>1. /\ L \in Nat /\ DOMAIN trigger = 1..L /\ DOMAIN t = 1..(L + 1) /\ t \in Seq(Actions)
          /\ \A i \in 1..L : t[i] = trigger[i] /\ t[L + 1] = a
      BY <1>3, <1>4, AppendProperties
    <3>2. t[L + 1] = a
      BY <1>3, <1>4, AppendProperties
    <3> HIDE DEF t, L
    <3>3. \A i \in 1..(L + 1) : i \in 1..L \/ i = L + 1
      BY <3>1
    <3>4. \A i \in 1..L : i \in 1..(L + 1) /\ trigger[i] \in ToSet(trigger)
      BY <3>1 DEF ToSet
    <3>5. IsInjective(t)
      <4> SUFFICES ASSUME NEW i \in 1..(L + 1), NEW j \in 1..(L + 1), t[i] = t[j] PROVE i = j
        BY <3>1 DEF IsInjective
      <4>1. CASE i \in 1..L /\ j \in 1..L
        BY <1>3, <3>1, <4>1 DEF IsInjective
      <4>2. CASE i = L + 1 \/ j = L + 1
        BY <2>2, <3>1, <3>2, <3>3, <3>4, <4>2
      <4> QED
        BY <3>3, <4>1, <4>2
    <3>6. ToSet(t) \subseteq ToSet(trigger) \cup {a} /\ ToSet(trigger) \subseteq ToSet(t)
      BY <3>1, <3>2, <3>3, <3>4 DEF ToSet
    <3> QED
      BY <1>1, <2>2, <3>1, <3>5, <3>6 DEF t
  <2> QED
    BY <2>1, <2>2
<1>6. Zitadel'
  BY <1>2, <1>3, <1>4, <1>5 DEF Zitadel
<1>7. ASSUME NEW q \in Ops PROVE OpInv(q)' /\ Solitude(q)'
  <2>1. OpInv(q) /\ Solitude(q)
    BY DEF IInv
  <2>2. Own(q)' = Own(q)
    BY <1>2 DEF Own
  <2>3. op[q].pc = "ok" /\ op[q].alone => Own(q) \in ToSet(trigger')
    <3>1. op[q].pc = "ok" => Own(q) \in ActionNames
      BY <2>1, OwnIsAction DEF OpInv, ScriptDone, ActionDone
    <3> QED
      BY <1>4, <1>5, <2>1, <3>1 DEF OpInv
  <2>4. OpInv(q)'
    BY <1>2, <2>1, <2>2, <2>3 DEF OpInv
  <2> QED
    BY <1>2, <2>1, <2>4 DEF Solitude, Active
<1> QED
  BY <1>2, <1>3, <1>6, <1>7 DEF IInv

LEMMA InitIInv == Init => IInv
<1> SUFFICES ASSUME Init PROVE IInv
  OBVIOUS
<1>1. op \in [Ops -> Operations] /\ \A o \in Ops : op[o] = Idle
  BY IdleIsOperation DEF Init
<1>2. Zitadel
  <2>1. trigger \in Seq(Actions) /\ IsInjective(trigger) /\ ToSet(trigger) = {}
    BY DEF Init, IsInjective, ToSet
  <2> QED
    BY <2>1 DEF Init, Zitadel
<1>3. ASSUME NEW o \in Ops PROVE OpInv(o) /\ Solitude(o)
  <2>1. op[o].pc = "idle" /\ op[o].read = None /\ op[o].alone = FALSE
    BY <1>1 DEF Idle
  <2> QED
    BY <2>1 DEF OpInv, Solitude, ProjectDone, RolesDone, AppDone, ScriptDone, ActionDone
<1> QED
  BY <1>1, <1>2, <1>3 DEF IInv

LEMMA NextIInv == IInv /\ [Next]_vars => IInv'
<1> SUFFICES ASSUME IInv, [Next]_vars PROVE IInv'
  OBVIOUS
<1>1. CASE UNCHANGED vars
  <2>1. UNCHANGED <<roles, app, script, trigger, op>>
    BY <1>1 DEF vars, zitadel
  <2>2. \A o \in Ops : OpInv(o)' /\ Solitude(o)'
    BY <2>1 DEF IInv, OpInv, Solitude, Own, Active
  <2> QED
    BY <2>1, <2>2 DEF IInv, Zitadel
<1>2. CASE Next
  BY <1>2, WorkStep, AbortStep, AgainStep, StartStep, EditByHandStep DEF Next
<1> QED
  BY <1>1, <1>2

-----------------------------------------------------------------------------
(* The run of the script                                                   *)

\* The script is done with user n.
DoneWith(n) == \A i \in DOMAIN pending : pending[i].username # n

UserRecords == [roles : {{}} \cup {s.roles : s \in Range(specs)}, secret : {0, 1}]

\* User n has what its spec says, and if v is a secret, it is the user's.
Settled(n, v) ==
    /\ user[n] # None /\ user[n].roles = SpecOf(n).roles
    /\ v \in {0, user[n].secret}

\* What Bootstrap was asked for is there.
InPlace ==
    /\ dedupeOperations(SetupInput.operations) \subseteq roles[SetupInput.project]
    /\ roles[SetupInput.project] # None
    /\ app[SetupInput.project] = "api"

ScriptTypes ==
    /\ step \in {"off", "bootstrap", "onboard", "write"}
    /\ pending \in Seq(Range(specs))
    /\ \A i, j \in DOMAIN pending : pending[i].username = pending[j].username => i = j
    /\ user \in [Users -> {None} \cup UserRecords]
    /\ held \in [api : BOOLEAN, users : [Users -> {0, 1}], first : BOOLEAN]

\* In the first run an operation without company has the secret of the
\* application it made, or nobody has made it yet.
FirstSecret(o) ==
    IF op[o].pc \in AppDone THEN op[o].secret = TRUE ELSE app[op[o].req.project] = None

Underway ==
    step = "bootstrap" =>
        /\ op[Script].pc # "idle" => /\ op[Script].req = SetupInput
                                     /\ held.first /\ op[Script].alone => FirstSecret(Script)
        /\ held.first => \A n \in Users : user[n] = None
        /\ held.users = [n \in Users |-> 0]

HeldInv ==
    step \in {"onboard", "write"} =>
        /\ InPlace
        /\ held.first => held.api = TRUE
        /\ \A n \in Users :
             IF DoneWith(n) THEN Settled(n, held.users[n]) /\ (held.first => held.users[n] # 0)
             ELSE held.users[n] = 0 /\ (held.first => user[n] = None)
        /\ step = "write" => pending = <<>>

FileInv ==
    file \notin {None, Truncated} =>
        /\ InPlace
        /\ \A n \in Users : Settled(n, file.users[n])
        /\ file.first => file.api = TRUE /\ \A n \in Users : file.users[n] # 0

ScriptInv == ScriptTypes /\ Underway /\ HeldInv /\ FileInv

\* What an operation without company knows of the application stays true while it
\* works.
LEMMA SecretIsKept ==
    ASSUME IInv, NEW o \in Ops, Work(o), op'[o].pc # "idle"
    PROVE  /\ op'[o].req = op[o].req /\ op'[o].alone = op[o].alone
           /\ FirstSecret(o) => FirstSecret(o)'
<1>1. op \in [Ops -> Operations] /\ Zitadel /\ OpInv(o) /\ op[o] \in Operations
  BY DEF IInv
<1> DEFINE Kept == /\ op'[o].req = op[o].req /\ op'[o].alone = op[o].alone
                   /\ FirstSecret(o) => FirstSecret(o)'
<1>2. ASSUME Goto(o, "error") PROVE FALSE
  BY <1>1, <1>2, Ends DEF Idle
<1>3. ASSUME NEW p \in Steps, Goto(o, p),
             op[o].pc \in AppDone => p \in AppDone,
             op[o].pc \notin AppDone => p \notin AppDone /\ app' = app
      PROVE  Kept
  <2>1. /\ op'[o].pc = p /\ op'[o].req = op[o].req /\ op'[o].secret = op[o].secret
        /\ op'[o].alone = op[o].alone
    BY <1>1, <1>3, GoesOn
  <2> QED
    BY <1>3, <2>1 DEF FirstSecret
<1> USE DEF AppDone, ScriptDone, ActionDone
<1>4. CASE FindProject(o)
  BY <1>3, <1>4 DEF FindProject, zitadel, Steps
<1>5. CASE CreateProject(o)
  BY <1>2, <1>3, <1>5 DEF CreateProject, Steps
<1>6. CASE AddRole(o)
  <2>1. PICK k \in op[o].todo :
          op' = [op EXCEPT ![o].todo = @ \ {k},
                           ![o].pc = IF op[o].todo = {k} THEN "app" ELSE "roles"]
    BY <1>6 DEF AddRole
  <2> DEFINE n == [op[o] EXCEPT !.todo = @ \ {k},
                                !.pc = IF op[o].todo = {k} THEN "app" ELSE "roles"]
  <2>2. n.pc \in {"app", "roles"} /\ n.req = op[o].req /\ n.alone = op[o].alone
    BY <1>1 DEF Operations, Steps
  <2>3. op' = [op EXCEPT ![o] = n]
    BY <2>1
  <2> HIDE DEF n
  <2>4. op'[o] = n
    BY <1>1, <2>3
  <2>5. op[o].pc = "roles" /\ app' = app
    BY <1>6 DEF AddRole
  <2> QED
    BY <2>2, <2>4, <2>5 DEF FirstSecret
<1>7. CASE FindApp(o)
  <2>1. op[o].pc = "app" /\ app' = app
    BY <1>7 DEF FindApp, zitadel
  <2>2. CASE app[op[o].req.project] = None
    <3>1. Goto(o, "createApp")
      BY <1>7, <2>2, BootstrapAssumption DEF FindApp
    <3> QED
      BY <1>3, <2>1, <3>1 DEF Steps
  <2>3. CASE app[op[o].req.project] # None
    <3>1. ~FirstSecret(o)
      BY <2>1, <2>3 DEF FirstSecret
    <3>2. CASE app[op[o].req.project] = "api"
      <4>1. Goto(o, "render")
        BY <1>7, <2>3, <3>2 DEF FindApp
      <4>2. op'[o].req = op[o].req /\ op'[o].alone = op[o].alone
        BY <1>1, <4>1, GoesOn DEF Steps
      <4> QED
        BY <3>1, <4>2
    <3>3. CASE app[op[o].req.project] # "api"
      BY <1>2, <1>7, <2>3, <3>3 DEF FindApp
    <3> QED
      BY <3>2, <3>3
  <2> QED
    BY <2>2, <2>3
<1>8. CASE CreateApp(o)
  <2>1. CASE app[op[o].req.project] # None
    BY <1>2, <1>8, <2>1 DEF CreateApp
  <2>2. CASE app[op[o].req.project] = None
    <3> DEFINE n == [op[o] EXCEPT !.pc = "render", !.secret = TRUE]
    <3>1. op' = [op EXCEPT ![o] = n]
      BY <1>8, <2>2 DEF CreateApp
    <3>2. n.pc = "render" /\ n.req = op[o].req /\ n.alone = op[o].alone /\ n.secret = TRUE
      BY <1>1 DEF Operations
    <3> HIDE DEF n
    <3>3. op'[o] = n
      BY <1>1, <3>1
    <3> QED
      BY <3>2, <3>3 DEF FirstSecret
  <2> QED
    BY <2>1, <2>2
<1>9. CASE Render(o)
  BY <1>2, <1>3, <1>9 DEF Render, Steps
<1>10. CASE FindAction(o)
  <2>1. op[o].req.namespace \in Namespaces /\ op[o].req.namespace # None
    BY <1>1, <1>10, BootstrapAssumption DEF FindAction, OpInv
  <2>2. \E p \in {"createAction", "flow", "updateAction"} : Goto(o, p)
    <3>1. CASE script[Own(o)] = None
      BY <1>10, <2>1, <3>1 DEF FindAction
    <3>2. CASE script[Own(o)] = op[o].req.namespace
      BY <1>10, <2>1, <3>2 DEF FindAction
    <3>3. CASE script[Own(o)] # None /\ script[Own(o)] # op[o].req.namespace
      BY <1>10, <3>3 DEF FindAction
    <3> QED
      BY <3>1, <3>2, <3>3
  <2>3. op[o].pc = "action"
    BY <1>10 DEF FindAction
  <2> QED
    BY <1>3, <2>2, <2>3 DEF Steps
<1>11. CASE CreateAction(o)
  BY <1>2, <1>3, <1>11 DEF CreateAction, Steps
<1>12. CASE UpdateAction(o)
  BY <1>3, <1>12 DEF UpdateAction, Steps
<1>13. CASE ReadFlow(o)
  <2>1. op[o].pc = "flow"
    BY <1>13 DEF ReadFlow
  <2>2. \E l, r : op' = [op EXCEPT ![o].pc = "wire", ![o].read = r, ![o].list = l]
    <3>1. op[o].read = op[o].read
      OBVIOUS
    <3>2. CASE op' = [op EXCEPT ![o].pc = "wire", ![o].list = <<Own(o)>>]
      <4>1. op' = [op EXCEPT ![o].pc = "wire", ![o].read = op[o].read, ![o].list = <<Own(o)>>]
        BY <1>1, <3>2 DEF Operations
      <4> QED
        BY <4>1
    <3> QED
      BY <1>13, <3>2 DEF ReadFlow
  <2>3. PICK l, r : op' = [op EXCEPT ![o].pc = "wire", ![o].read = r, ![o].list = l]
    BY <2>2
  <2> DEFINE n == [op[o] EXCEPT !.pc = "wire", !.read = r, !.list = l]
  <2>4. n.pc = "wire" /\ n.req = op[o].req /\ n.alone = op[o].alone /\ n.secret = op[o].secret
    BY <1>1 DEF Operations
  <2>5. op' = [op EXCEPT ![o] = n]
    BY <2>3
  <2> HIDE DEF n
  <2>6. op'[o] = n
    BY <1>1, <2>5
  <2> QED
    BY <2>1, <2>4, <2>6 DEF FirstSecret
<1>14. CASE SetTriggerActions(o)
  BY <1>3, <1>14 DEF SetTriggerActions, Steps
<1> QED
  BY <1>4, <1>5, <1>6, <1>7, <1>8, <1>9, <1>10, <1>11, <1>12, <1>13, <1>14 DEF Work

\* Whatever is done to the Zitadel, nothing that was there is lost.
LEMMA NextGrows == IInv /\ [Next]_vars => Grows
<1> SUFFICES ASSUME IInv, [Next]_vars PROVE Grows
  OBVIOUS
<1>1. Zitadel
  BY DEF IInv
<1>2. CASE UNCHANGED zitadel
  BY <1>1, <1>2, NothingChanges
<1>3. CASE UNCHANGED <<roles, app, script>>
  BY <1>3 DEF Grows
<1>4. ASSUME NEW o \in Ops, CreateProject(o) \/ AddRole(o) PROVE Grows
  <2>1. Active(o) /\ UNCHANGED <<app, script>>
    BY <1>4 DEF Active, CreateProject, AddRole
  <2>2. op[o].req.project \in Projects
    BY <2>1, AtWork
  <2>3. \A p \in Projects : roles[p] # None => roles[p] \subseteq roles'[p]
    BY <1>1, <1>4, <2>2 DEF CreateProject, AddRole, Zitadel
  <2>4. IInv'
    BY <1>4, CreateProjectStep, AddRoleStep
  <2>5. \A p \in Projects : roles[p] # None => roles'[p] # None
    <3>1. CASE CreateProject(o)
      BY <1>1, <2>2, <3>1 DEF CreateProject, Zitadel
    <3>2. CASE AddRole(o)
      <4>1. PICK k \in op[o].todo : roles' = [roles EXCEPT ![op[o].req.project] = @ \cup {k}]
        BY <3>2 DEF AddRole
      <4>2. op[o] \in Operations
        BY <2>1, AtWork
      <4>3. k \in AllPermissions
        BY <4>2 DEF Operations
      <4>4. ASSUME NEW p \in Projects, roles[p] # None PROVE roles'[p] # None
        <5>1. roles[p] \in SUBSET AllPermissions
          BY <1>1, <4>4 DEF Zitadel
        <5>2. roles[p] \cup {k} # None
          <6>1. roles[p] \cup {k} \in SUBSET AllPermissions
            BY <4>3, <5>1
          <6> QED
            BY <6>1, BootstrapAssumption DEF AllPermissions
        <5>3. roles'[p] = roles[p] \/ roles'[p] = roles[p] \cup {k}
          BY <1>1, <2>2, <4>1 DEF Zitadel
        <5> QED
          BY <4>4, <5>2, <5>3
      <4> QED
        BY <4>4
    <3> QED
      BY <1>4, <3>1, <3>2
  <2> QED
    BY <2>1, <2>3, <2>5 DEF Grows
<1>5. ASSUME NEW o \in Ops, CreateApp(o) PROVE Grows
  <2>1. Active(o) /\ UNCHANGED <<roles, script>>
    BY <1>5 DEF Active, CreateApp
  <2>2. op[o].req.project \in Projects
    BY <2>1, AtWork
  <2>3. \A p \in Projects : app[p] = "api" => app'[p] = "api"
    BY <1>1, <1>5, <2>2 DEF CreateApp, Zitadel
  <2> QED
    BY <2>1, <2>3 DEF Grows
<1>6. ASSUME NEW o \in Ops, CreateAction(o) \/ UpdateAction(o) PROVE Grows
  <2>1. Active(o) /\ UNCHANGED <<roles, app>>
    BY <1>6 DEF Active, CreateAction, UpdateAction
  <2>2. op[o].req.namespace \in Namespaces /\ op[o].req.namespace # None
    <3>1. OpInv(o) /\ op[o].pc \in ScriptDone
      BY <1>6 DEF IInv, CreateAction, UpdateAction, ScriptDone
    <3> QED
      BY <3>1, BootstrapAssumption DEF OpInv
  <2>3. \A a \in ActionNames : script[a] # None => script'[a] # None
    BY <1>1, <1>6, <2>2 DEF CreateAction, UpdateAction, Zitadel
  <2> QED
    BY <2>1, <2>3 DEF Grows
<1> QED
  BY <1>2, <1>3, <1>4, <1>5, <1>6
     DEF Next, Work, Start, Abort, Again, EditByHand, FindProject, FindApp, Render, FindAction,
         ReadFlow, SetTriggerActions, vars, zitadel

\* Every step of the script and of everybody else is one of Bootstrap or leaves
\* Bootstrap alone.
LEMMA SetupStepsAreNext == SetupNext => [Next]_vars
<1> SUFFICES ASSUME SetupNext PROVE Next \/ UNCHANGED vars
  OBVIOUS
<1>0. Script \in Ops /\ SetupInput \in Requests
  BY SetupAssumption
<1> QED
  BY <1>0 DEF SetupNext, Launch, Bootstrapping, Bootstrapped, Onboard, CreateFile, WriteFile,
              Die, RemoveFile, Others, Next

\* What was in place stays in place.
LEMMA InPlaceStays == ASSUME IInv, [Next]_vars, InPlace PROVE InPlace'
<1>1. SetupInput.project \in Projects
  BY SetupAssumption, BootstrapAssumption
<1>2. Grows
  BY NextGrows
<1>3. \A p \in Projects : roles[p] # None => roles'[p] # None /\ roles[p] \subseteq roles'[p]
  BY <1>2 DEF Grows
<1>4. \A p \in Projects : app[p] = "api" => app'[p] = "api"
  BY <1>2 DEF Grows
<1> QED
  BY <1>1, <1>3, <1>4 DEF InPlace

\* A spec is found by its name.
LEMMA SpecIsFound ==
    ASSUME NEW s \in Range(specs)
    PROVE  s.username \in Users /\ SpecOf(s.username) = s
<1>1. \A x, y \in Range(specs) : x.username = y.username => x = y
  BY SetupAssumption DEF Range
<1>2. s.username \in Users
  BY DEF Users, Range
<1> QED
  BY <1>1, <1>2 DEF SpecOf

\* What Onboard makes of a user, and what is left by one that fails.
LEMMA OnboardedUser ==
    ASSUME NEW s \in Range(specs), NEW u \in {None} \cup UserRecords
    PROVE  /\ Onboarded(u, s) \in UserRecords /\ Onboarded(u, s).roles = s.roles
           /\ u = None => Onboarded(u, s).secret = 1
           /\ u # None => Onboarded(u, s).secret = u.secret
BY DEF Onboarded, UserRecords

LEMMA PartlyDone ==
    ASSUME NEW s \in Range(specs), NEW u \in {None} \cup UserRecords, NEW v \in Partly(u, s)
    PROVE  /\ v \in {None} \cup UserRecords
           /\ u # None => v # None /\ v.secret = u.secret
           /\ u # None /\ u.roles = s.roles => v.roles = s.roles
<1>1. None \notin UserRecords
  BY SetupAssumption DEF UserRecords
<1>2. /\ Onboarded(u, s) \in UserRecords /\ Onboarded(u, s).roles = s.roles
      /\ u # None => Onboarded(u, s).secret = u.secret
  BY OnboardedUser
<1>3. CASE v = u
  BY <1>3
<1>4. CASE v = Onboarded(u, s)
  BY <1>1, <1>2, <1>4
<1>5. CASE u = None /\ v \in {[roles |-> {}, secret |-> k] : k \in {0, 1}}
  BY <1>5 DEF UserRecords
<1>6. CASE u # None /\ u.roles # s.roles /\ v = [u EXCEPT !.roles = {}]
  <2>1. v \in UserRecords /\ v.secret = u.secret
    BY <1>6 DEF UserRecords
  <2> QED
    BY <1>1, <1>6, <2>1
<1> QED
  BY <1>3, <1>4, <1>5, <1>6 DEF Partly

\* One user less is pending.
LEMMA NextPending ==
    ASSUME ScriptTypes, pending # <<>>, pending' = Tail(pending)
    PROVE  /\ Head(pending) \in Range(specs)
           /\ ~DoneWith(Head(pending).username)
           /\ pending' \in Seq(Range(specs))
           /\ \A i, j \in DOMAIN pending' : pending'[i].username = pending'[j].username => i = j
           /\ \A n : DoneWith(n)' <=> DoneWith(n) \/ n = Head(pending).username
<1> DEFINE L == Len(pending)
           t == Tail(pending)
<1>0. pending \in Seq(Range(specs)) /\ L \in Nat /\ DOMAIN pending = 1..L /\ L >= 1
  BY DEF ScriptTypes
<1>1. /\ Head(pending) \in Range(specs) /\ Head(pending) = pending[1]
      /\ t \in Seq(Range(specs)) /\ DOMAIN t = 1..(L - 1)
      /\ \A i \in 1..(L - 1) : t[i] = pending[i + 1]
  BY <1>0, HeadTailProperties
<1>2. 1 \in DOMAIN pending /\ \A i \in 1..(L - 1) : i + 1 \in DOMAIN pending /\ i + 1 # 1
  BY <1>0
<1>3. \A i \in DOMAIN pending : i = 1 \/ (i - 1 \in 1..(L - 1) /\ (i - 1) + 1 = i)
  BY <1>0
<1>4. \A i, j \in DOMAIN pending : pending[i].username = pending[j].username => i = j
  BY DEF ScriptTypes
<1>5. pending' = t
  OBVIOUS
<1> HIDE DEF t, L
<1>6. \A i, j \in DOMAIN t : t[i].username = t[j].username => i = j
  <2> SUFFICES ASSUME NEW i \in DOMAIN t, NEW j \in DOMAIN t, t[i].username = t[j].username
               PROVE  i = j
    OBVIOUS
  <2>1. i + 1 = j + 1
    BY <1>1, <1>2, <1>4
  <2> QED
    BY <1>1, <2>1
<1>7. ASSUME NEW n PROVE DoneWith(n)' <=> DoneWith(n) \/ n = pending[1].username
  <2>1. DoneWith(n)' <=> \A i \in 1..(L - 1) : pending[i + 1].username # n
    BY <1>1, <1>5 DEF DoneWith
  <2>2. ASSUME n = pending[1].username, NEW i \in 1..(L - 1) PROVE pending[i + 1].username # n
    BY <1>2, <1>4, <2>2
  <2>3. ASSUME \A i \in 1..(L - 1) : pending[i + 1].username # n, n # pending[1].username
        PROVE  DoneWith(n)
    BY <1>3, <2>3 DEF DoneWith
  <2>4. ASSUME DoneWith(n), NEW i \in 1..(L - 1) PROVE pending[i + 1].username # n
    BY <1>2, <2>4 DEF DoneWith
  <2> QED
    BY <2>1, <2>2, <2>3, <2>4
<1>8. ~DoneWith(pending[1].username)
  BY <1>2 DEF DoneWith
<1> QED
  BY <1>1, <1>5, <1>6, <1>7, <1>8

LEMMA EmptyIsHeld ==
    /\ Empty \in [api : BOOLEAN, users : [Users -> {0, 1}], first : BOOLEAN]
    /\ Empty.users = [n \in Users |-> 0] /\ Empty.api = FALSE /\ Empty.first = FALSE
BY DEF Empty

\* The script's own variables, while it does nothing.
LEMMA ScriptRests ==
    ASSUME IInv, ScriptInv, [Next]_vars, UNCHANGED <<user, file>>
    PROVE  FileInv'
<1>1. file \notin {None, Truncated} => InPlace'
  BY InPlaceStays DEF ScriptInv, FileInv
<1> QED
  BY <1>1 DEF ScriptInv, FileInv, Settled

LEMMA LaunchStep == ASSUME IInv, ScriptInv, Launch PROVE ScriptInv'
<1>0. Script \in Ops /\ SetupInput \in Requests
  BY SetupAssumption
<1>1. [Next]_vars
  BY SetupStepsAreNext DEF SetupNext
<1>2. FileInv'
  BY <1>1, ScriptRests DEF Launch
<1> DEFINE first == app[SetupInput.project] = None /\ \A n \in Users : user[n] = None
<1>3. first \in BOOLEAN
  OBVIOUS
<1>4. /\ held' \in [api : BOOLEAN, users : [Users -> {0, 1}], first : BOOLEAN]
      /\ held'.users = [n \in Users |-> 0] /\ held'.first = first
  <2>1. held' = [Empty EXCEPT !.first = first]
    BY DEF Launch
  <2> HIDE DEF first
  <2> QED
    BY <1>3, <2>1, EmptyIsHeld
<1>5. step' = "bootstrap" /\ UNCHANGED <<pending, user>>
  BY DEF Launch
<1>6. ScriptTypes'
  BY <1>4, <1>5 DEF ScriptInv, ScriptTypes
<1>7. op'[Script].pc = "project" /\ op'[Script].req = SetupInput /\ app' = app
  <2> DEFINE alone == \A q \in Ops : ~Active(q)
             n == [Idle EXCEPT !.pc = "project", !.req = SetupInput, !.alone = alone,
                               !.todo = dedupeOperations(SetupInput.operations)]
  <2>1. op' = [q \in Ops |-> IF q = Script THEN n ELSE [op[q] EXCEPT !.alone = FALSE]]
    BY DEF Launch, Start
  <2>2. n.pc = "project" /\ n.req = SetupInput
    BY IdleIsOperation DEF Operations
  <2> HIDE DEF n
  <2>3. app' = app
    BY DEF Launch, Start, zitadel
  <2> QED
    BY <1>0, <2>1, <2>2, <2>3
<1>8. Underway'
  <2>1. first => FirstSecret(Script)'
    BY <1>7 DEF FirstSecret, AppDone, ScriptDone, ActionDone
  <2>2. first => \A n \in Users : user'[n] = None
    BY <1>5
  <2> HIDE DEF first
  <2> QED
    BY <1>4, <1>7, <2>1, <2>2 DEF Underway
<1>9. HeldInv'
  BY <1>5 DEF HeldInv
<1> QED
  BY <1>2, <1>6, <1>8, <1>9 DEF ScriptInv

LEMMA BootstrappingStep == ASSUME IInv, ScriptInv, Bootstrapping PROVE ScriptInv'
<1>0. Script \in Ops /\ Work(Script) /\ step = "bootstrap"
      /\ UNCHANGED <<step, pending, held, user, file>>
  BY SetupAssumption DEF Bootstrapping, script_vars
<1>1. [Next]_vars
  BY SetupStepsAreNext DEF SetupNext
<1>2. FileInv'
  BY <1>0, <1>1, ScriptRests
<1>3. ScriptTypes' /\ HeldInv'
  BY <1>0 DEF ScriptInv, ScriptTypes, HeldInv
<1>4. op[Script].pc # "idle"
  BY <1>0 DEF Work, FindProject, CreateProject, AddRole, FindApp, CreateApp, Render, FindAction,
              CreateAction, UpdateAction, ReadFlow, SetTriggerActions
<1>5. op'[Script].pc # "idle" =>
         /\ op'[Script].req = op[Script].req /\ op'[Script].alone = op[Script].alone
         /\ FirstSecret(Script) => FirstSecret(Script)'
  BY <1>0, SecretIsKept
<1>6. Underway'
  BY <1>0, <1>4, <1>5 DEF ScriptInv, Underway
<1> QED
  BY <1>2, <1>3, <1>6 DEF ScriptInv

LEMMA BootstrappedStep == ASSUME IInv, ScriptInv, Bootstrapped PROVE ScriptInv'
<1>0. /\ Script \in Ops /\ step = "bootstrap" /\ step' = "onboard" /\ op[Script].pc = "ok"
      /\ pending' = specs /\ UNCHANGED <<user, file>> /\ Again(Script)
  BY SetupAssumption DEF Bootstrapped
<1>1. [Next]_vars
  BY SetupStepsAreNext DEF SetupNext
<1>2. FileInv'
  BY <1>0, <1>1, ScriptRests
<1>3. /\ op[Script] \in Operations /\ OpInv(Script) /\ op[Script].req = SetupInput
      /\ held.first /\ op[Script].alone => FirstSecret(Script)
      /\ held.first => \A n \in Users : user[n] = None
      /\ held.users = [n \in Users |-> 0]
      /\ held \in [api : BOOLEAN, users : [Users -> {0, 1}], first : BOOLEAN]
  BY <1>0 DEF IInv, ScriptInv, Underway, ScriptTypes
<1> DEFINE first == held.first /\ op[Script].alone
<1>4. /\ held' \in [api : BOOLEAN, users : [Users -> {0, 1}], first : BOOLEAN]
      /\ held'.users = [n \in Users |-> 0] /\ held'.first = first /\ held'.api = op[Script].secret
  <2>1. op[Script].secret \in BOOLEAN /\ first \in BOOLEAN
    BY <1>3 DEF Operations
  <2>2. held' = [held EXCEPT !.api = op[Script].secret, !.first = first]
    BY DEF Bootstrapped
  <2> HIDE DEF first
  <2> QED
    BY <1>3, <2>1, <2>2
<1>5. first => op[Script].secret = TRUE
  BY <1>0, <1>3 DEF FirstSecret, AppDone, ScriptDone, ActionDone
<1>6. first => \A n \in Users : user[n] = None
  BY <1>3
<1> HIDE DEF first
<1>7. ScriptTypes'
  BY <1>0, <1>4, SetupAssumption DEF ScriptInv, ScriptTypes
<1>8. InPlace'
  <2>1. InPlace
    BY <1>0, <1>3 DEF OpInv, InPlace, ProjectDone, RolesDone, AppDone, ScriptDone, ActionDone
  <2> QED
    BY <1>1, <2>1, InPlaceStays
<1>9. \A n \in Users : ~DoneWith(n)'
  BY <1>0 DEF DoneWith, Users
<1>10. HeldInv'
  BY <1>0, <1>4, <1>5, <1>6, <1>8, <1>9 DEF HeldInv
<1>11. Underway'
  BY <1>0 DEF Underway
<1> QED
  BY <1>2, <1>7, <1>10, <1>11 DEF ScriptInv

LEMMA OnboardStep == ASSUME IInv, ScriptInv, Onboard PROVE ScriptInv'
<1> DEFINE s == Head(pending)
           m == s.username
           u == Onboarded(user[m], s)
           secret == IF user[m] = None THEN u.secret ELSE 0
<1>0. /\ step = "onboard" /\ pending # <<>> /\ pending' = Tail(pending)
      /\ user' = [user EXCEPT ![m] = u] /\ held' = [held EXCEPT !.users[m] = secret]
      /\ UNCHANGED <<vars, step, file>>
  BY DEF Onboard
<1>1. ScriptTypes /\ HeldInv /\ FileInv
  BY DEF ScriptInv
<1>2. /\ s \in Range(specs) /\ ~DoneWith(m) /\ pending' \in Seq(Range(specs))
      /\ \A i, j \in DOMAIN pending' : pending'[i].username = pending'[j].username => i = j
      /\ \A n : DoneWith(n)' <=> DoneWith(n) \/ n = m
  BY <1>0, <1>1, NextPending
<1> HIDE DEF s
<1>3. m \in Users /\ SpecOf(m) = s
  BY <1>2, SpecIsFound
<1>4. /\ user \in [Users -> {None} \cup UserRecords] /\ held.users \in [Users -> {0, 1}]
      /\ held \in [api : BOOLEAN, users : [Users -> {0, 1}], first : BOOLEAN]
      /\ user[m] \in {None} \cup UserRecords
  BY <1>1, <1>3 DEF ScriptTypes
<1>5. /\ u \in UserRecords /\ u.roles = s.roles
      /\ user[m] = None => u.secret = 1
      /\ user[m] # None => u.secret = user[m].secret
  BY <1>2, <1>4, OnboardedUser
<1>6. u # None
  BY <1>5, SetupAssumption DEF UserRecords
<1>7. secret \in {0, u.secret} /\ secret \in {0, 1} /\ (user[m] = None => secret = 1)
  BY <1>5
<1> HIDE DEF u, secret, m
<1>8. /\ user' \in [Users -> {None} \cup UserRecords] /\ user'[m] = u
      /\ \A n \in Users : n # m => user'[n] = user[n]
  BY <1>0, <1>3, <1>4, <1>5
<1>9. /\ held' \in [api : BOOLEAN, users : [Users -> {0, 1}], first : BOOLEAN]
      /\ held'.api = held.api /\ held'.first = held.first /\ held'.users[m] = secret
      /\ \A n \in Users : n # m => held'.users[n] = held.users[n]
  <2>1. held' = [held EXCEPT !.users = [held.users EXCEPT ![m] = secret]]
    BY <1>0, <1>4
  <2> DEFINE w == [held.users EXCEPT ![m] = secret]
  <2>2. /\ w \in [Users -> {0, 1}] /\ w[m] = secret
        /\ \A n \in Users : n # m => w[n] = held.users[n]
    BY <1>3, <1>4, <1>7
  <2> HIDE DEF w
  <2>3. held' = [held EXCEPT !.users = w]
    BY <2>1 DEF w
  <2>4. /\ held' \in [api : BOOLEAN, users : [Users -> {0, 1}], first : BOOLEAN]
        /\ held'.api = held.api /\ held'.first = held.first /\ held'.users = w
    BY <1>4, <2>2, <2>3
  <2> QED
    BY <2>2, <2>4
<1>10. ScriptTypes'
  BY <1>0, <1>1, <1>2, <1>8, <1>9 DEF ScriptTypes
<1>11. InPlace => InPlace'
  BY <1>0 DEF InPlace, vars, zitadel
<1>12. HeldInv'
  <2>1. ASSUME NEW n \in Users
        PROVE  IF DoneWith(n)'
               THEN Settled(n, held.users[n])' /\ (held'.first => held'.users[n] # 0)
               ELSE held'.users[n] = 0 /\ (held'.first => user'[n] = None)
    <3>1. IF DoneWith(n) THEN Settled(n, held.users[n]) /\ (held.first => held.users[n] # 0)
          ELSE held.users[n] = 0 /\ (held.first => user[n] = None)
      BY <1>0, <1>1 DEF HeldInv
    <3>2. CASE n = m
      <4>1. DoneWith(n)'
        BY <1>2, <3>2 DEF m
      <4>2. Settled(n, held.users[n])'
        <5>1. /\ user'[n] # None /\ user'[n].roles = SpecOf(n).roles
              /\ held'.users[n] \in {0, user'[n].secret}
          BY <1>3, <1>5, <1>6, <1>7, <1>8, <1>9, <3>2
        <5> QED
          BY <5>1 DEF Settled
      <4>3. held.first => user[m] = None
        BY <1>2, <3>1, <3>2 DEF m
      <4> QED
        BY <1>7, <1>9, <3>2, <4>1, <4>2, <4>3
    <3>3. CASE n # m
      <4>1. DoneWith(n)' <=> DoneWith(n)
        BY <1>2, <3>3 DEF m
      <4>2. user'[n] = user[n] /\ held'.users[n] = held.users[n]
        BY <1>8, <1>9, <3>3
      <4> QED
        BY <1>9, <3>1, <4>1, <4>2 DEF Settled
    <3> QED
      BY <3>2, <3>3
  <2>2. InPlace' /\ (held'.first => held'.api = TRUE) /\ step' # "write"
    BY <1>0, <1>1, <1>9, <1>11 DEF HeldInv
  <2> QED
    BY <2>1, <2>2 DEF HeldInv
<1>13. FileInv'
  <2>1. ASSUME NEW n \in Users, Settled(n, file.users[n]) PROVE Settled(n, file.users[n])'
    <3>1. CASE n = m
      BY <1>0, <1>3, <1>5, <1>6, <1>8, <2>1, <3>1 DEF Settled
    <3>2. CASE n # m
      BY <1>0, <1>8, <2>1, <3>2 DEF Settled
    <3> QED
      BY <3>1, <3>2
  <2> QED
    BY <1>0, <1>1, <1>11, <2>1 DEF FileInv
<1>14. Underway'
  BY <1>0 DEF Underway
<1> QED
  BY <1>10, <1>12, <1>13, <1>14 DEF ScriptInv

LEMMA FileSteps == ASSUME IInv, ScriptInv, CreateFile \/ WriteFile \/ RemoveFile PROVE ScriptInv'
<1>0. UNCHANGED <<roles, app, pending, user>>
  BY DEF CreateFile, WriteFile, RemoveFile, vars, zitadel
<1>1. \A n, v : Settled(n, v)' <=> Settled(n, v')
  BY <1>0 DEF Settled
<1>2. CASE CreateFile
  <2>1. step = "onboard" /\ step' = "write" /\ file' = Truncated /\ pending = <<>> /\ held' = held
    BY <1>2 DEF CreateFile
  <2>2. ScriptTypes' /\ Underway' /\ HeldInv' /\ FileInv'
    BY <1>0, <2>1 DEF ScriptInv, ScriptTypes, Underway, HeldInv, FileInv, InPlace, DoneWith, Settled
  <2> QED
    BY <2>2 DEF ScriptInv
<1>3. CASE WriteFile
  <2>1. step = "write" /\ step' = "off" /\ file' = held /\ held' = Empty
    BY <1>3 DEF WriteFile
  <2>2. ScriptTypes' /\ Underway' /\ HeldInv'
    BY <1>0, <2>1, EmptyIsHeld DEF ScriptInv, ScriptTypes, Underway, HeldInv
  <2>3. pending = <<>> /\ \A n \in Users : DoneWith(n)
    BY <2>1 DEF ScriptInv, HeldInv, DoneWith
  <2>4. FileInv'
    BY <1>0, <2>1, <2>3 DEF ScriptInv, HeldInv, FileInv, InPlace, Settled
  <2> QED
    BY <2>2, <2>4 DEF ScriptInv
<1>4. CASE RemoveFile
  <2>1. file' = None /\ UNCHANGED <<step, held, op>>
    BY <1>4 DEF RemoveFile, vars
  <2>2. ScriptTypes' /\ FileInv'
    BY <1>0, <2>1 DEF ScriptInv, ScriptTypes, FileInv
  <2>3. Underway'
    BY <1>0, <2>1 DEF ScriptInv, Underway, FirstSecret
  <2>4. HeldInv'
    BY <1>0, <2>1 DEF ScriptInv, HeldInv, InPlace, DoneWith, Settled
  <2> QED
    BY <2>2, <2>3, <2>4 DEF ScriptInv
<1> QED
  BY <1>2, <1>3, <1>4

LEMMA DieStep == ASSUME IInv, ScriptInv, Die PROVE ScriptInv'
<1>0. step' = "off" /\ pending' = <<>> /\ held' = Empty /\ file' = file
  BY DEF Die
<1>1. [Next]_vars
  BY SetupStepsAreNext DEF SetupNext
<1>2. ScriptTypes /\ FileInv
  BY DEF ScriptInv
<1>3. /\ user' \in [Users -> {None} \cup UserRecords]
      /\ \A n \in Users : \A v :
            Settled(n, v) => /\ user'[n] # None /\ user'[n].roles = SpecOf(n).roles
                             /\ v \in {0, user'[n].secret}
  <2>1. CASE UNCHANGED user
    BY <1>2, <2>1 DEF ScriptTypes, Settled
  <2>2. CASE step = "onboard" /\ pending # <<>>
    <3> DEFINE s == Head(pending)
               m == s.username
    <3>1. s \in Range(specs)
      BY <1>2, <2>2, HeadTailProperties DEF ScriptTypes
    <3>2. PICK v \in Partly(user[m], s) : user' = [user EXCEPT ![m] = v]
      BY <2>2 DEF Die
    <3> HIDE DEF s
    <3>3. m \in Users /\ SpecOf(m) = s
      BY <3>1, SpecIsFound
    <3> HIDE DEF m
    <3>4. user \in [Users -> {None} \cup UserRecords] /\ user[m] \in {None} \cup UserRecords
      BY <1>2, <3>3 DEF ScriptTypes
    <3>5. /\ v \in {None} \cup UserRecords
          /\ user[m] # None => v # None /\ v.secret = user[m].secret
          /\ user[m] # None /\ user[m].roles = s.roles => v.roles = s.roles
      BY <3>1, <3>2, <3>4, PartlyDone
    <3>6. /\ user' \in [Users -> {None} \cup UserRecords] /\ user'[m] = v
          /\ \A n \in Users : n # m => user'[n] = user[n]
      BY <3>2, <3>3, <3>4, <3>5
    <3>7. ASSUME NEW n \in Users, NEW x, Settled(n, x)
          PROVE  /\ user'[n] # None /\ user'[n].roles = SpecOf(n).roles
                 /\ x \in {0, user'[n].secret}
      <4>1. CASE n = m
        BY <3>3, <3>5, <3>6, <3>7, <4>1 DEF Settled
      <4>2. CASE n # m
        BY <3>6, <3>7, <4>2 DEF Settled
      <4> QED
        BY <4>1, <4>2
    <3> QED
      BY <3>6, <3>7
  <2> QED
    BY <2>1, <2>2 DEF Die
<1>4. ScriptTypes'
  BY <1>0, <1>3, EmptyIsHeld DEF ScriptTypes
<1>5. FileInv'
  <2>1. InPlace => InPlace'
    BY <1>1, InPlaceStays
  <2>2. \A n \in Users : Settled(n, file.users[n]) => Settled(n, file.users[n])'
    BY <1>0, <1>3 DEF Settled
  <2> QED
    BY <1>0, <1>2, <2>1, <2>2 DEF FileInv
<1>6. Underway' /\ HeldInv'
  BY <1>0 DEF Underway, HeldInv
<1> QED
  BY <1>4, <1>5, <1>6 DEF ScriptInv

\* Others end the solitude of the script's Bootstrap when they start, and are not
\* at work while it is alone.
LEMMA OthersStep == ASSUME IInv, ScriptInv, Others PROVE ScriptInv'
<1>0. UNCHANGED <<step, pending, held, user, file>> /\ Script \in Ops
  BY SetupAssumption DEF Others, script_vars
<1>1. [Next]_vars
  BY SetupStepsAreNext DEF SetupNext
<1>2. FileInv'
  BY <1>0, <1>1, ScriptRests
<1>3. ScriptTypes'
  BY <1>0 DEF ScriptInv, ScriptTypes
<1>4. HeldInv'
  <2>1. InPlace => InPlace'
    BY <1>1, InPlaceStays
  <2>2. \A n \in Users : Settled(n, held.users[n])' <=> Settled(n, held.users[n])
    BY <1>0 DEF Settled
  <2>3. \A n : DoneWith(n)' <=> DoneWith(n)
    BY <1>0 DEF DoneWith
  <2> QED
    BY <1>0, <2>1, <2>2, <2>3 DEF ScriptInv, HeldInv
<1>5. /\ op \in [Ops -> Operations] /\ Zitadel /\ Solitude(Script) /\ op[Script] \in Operations
  BY <1>0 DEF IInv
<1>6. /\ op'[Script].pc = op[Script].pc /\ op'[Script].req = op[Script].req
      /\ op'[Script].secret = op[Script].secret
      /\ op'[Script].alone = TRUE => op[Script].alone = TRUE /\ app' = app
  <2>1. CASE EditByHand
    BY <2>1 DEF EditByHand
  <2>2. ASSUME NEW o \in Ops \ {Script}, NEW r \in Requests, Start(o, r)
        PROVE  /\ op'[Script].pc = op[Script].pc /\ op'[Script].req = op[Script].req
               /\ op'[Script].secret = op[Script].secret /\ op'[Script].alone = FALSE
    <3>1. op'[Script] = [op[Script] EXCEPT !.alone = FALSE]
      BY <1>0, <2>2 DEF Start
    <3> QED
      BY <1>5, <3>1 DEF Operations
  <2>3. ASSUME NEW o \in Ops \ {Script}, Work(o) \/ Abort(o)
        PROVE  op'[Script] = op[Script] /\ op[Script].alone # TRUE
    <3>1. Active(o)
      BY <2>3 DEF Active, Abort, Work, FindProject, CreateProject, AddRole, FindApp, CreateApp,
                  Render, FindAction, CreateAction, UpdateAction, ReadFlow, SetTriggerActions
    <3>2. op[Script].alone # TRUE
      BY <1>5, <3>1 DEF Solitude
    <3>3. \E n : op' = [op EXCEPT ![o] = n]
      BY <2>3 DEF Goto, Abort, Work, FindProject, CreateProject, AddRole, FindApp, CreateApp,
                  Render, FindAction, CreateAction, UpdateAction, ReadFlow, SetTriggerActions
    <3> QED
      BY <1>0, <1>5, <3>2, <3>3
  <2>4. ASSUME NEW o \in Ops \ {Script}, Again(o) PROVE op'[Script] = op[Script] /\ app' = app
    BY <1>5, <2>4 DEF Again, zitadel
  <2>5. CASE \E o \in Ops \ {Script} : Work(o) \/ Abort(o)
    BY <2>3, <2>5
  <2>6. CASE \E o \in Ops \ {Script} : Again(o)
    BY <2>4, <2>6
  <2>7. CASE \E o \in Ops \ {Script} : \E r \in Requests : Start(o, r)
    BY <2>2, <2>7
  <2> QED
    BY <2>1, <2>5, <2>6, <2>7 DEF Others
<1>7. Underway'
  <2>1. op[Script].alone \in BOOLEAN /\ op'[Script].alone \in BOOLEAN
    <3>1. IInv'
      BY <1>1, NextIInv
    <3> QED
      BY <1>0, <1>5, <3>1 DEF IInv, Operations
  <2>2. op'[Script].alone /\ FirstSecret(Script) => FirstSecret(Script)'
    BY <1>6, <2>1 DEF FirstSecret
  <2>3. op'[Script].alone => op[Script].alone
    BY <1>6, <2>1
  <2> QED
    BY <1>0, <1>6, <2>2, <2>3 DEF ScriptInv, Underway
<1> QED
  BY <1>2, <1>3, <1>4, <1>7 DEF ScriptInv

LEMMA ScriptInit == SetupInit => IInv /\ ScriptInv
<1> SUFFICES ASSUME SetupInit PROVE IInv /\ ScriptInv
  OBVIOUS
<1>1. IInv
  BY InitIInv DEF SetupInit
<1>2. /\ step = "off" /\ pending = <<>> /\ held = Empty /\ file = None
      /\ user = [n \in Users |-> None]
  BY DEF SetupInit
<1>3. ScriptTypes
  BY <1>2, EmptyIsHeld DEF ScriptTypes
<1>4. Underway /\ HeldInv /\ FileInv
  BY <1>2 DEF Underway, HeldInv, FileInv
<1> QED
  BY <1>1, <1>3, <1>4 DEF ScriptInv

\* The invariant of Bootstrap and of the script's run holds, whatever others do
\* and wherever a run dies (bootstrap.go, scripts/setup-sdk).
THEOREM SetupInductive == SetupSpec => [](IInv /\ ScriptInv)
<1>1. IInv /\ ScriptInv /\ [SetupNext]_setupVars => (IInv /\ ScriptInv)'
  <2> SUFFICES ASSUME IInv, ScriptInv, [SetupNext]_setupVars PROVE IInv' /\ ScriptInv'
    OBVIOUS
  <2>1. CASE UNCHANGED setupVars
    <3>1. UNCHANGED <<vars, step, pending, held, user, file>>
      BY <2>1 DEF setupVars, script_vars
    <3>2. IInv'
      BY <3>1, NextIInv
    <3>3. UNCHANGED <<roles, app, op>>
      BY <3>1 DEF vars, zitadel
    <3>4. ScriptTypes' /\ Underway'
      BY <3>1, <3>3 DEF ScriptInv, ScriptTypes, Underway, FirstSecret
    <3>5. HeldInv' /\ FileInv'
      BY <3>1, <3>3 DEF ScriptInv, HeldInv, FileInv, InPlace, DoneWith, Settled
    <3> QED
      BY <3>2, <3>4, <3>5 DEF ScriptInv
  <2>2. CASE SetupNext
    <3>1. IInv'
      BY <2>2, SetupStepsAreNext, NextIInv
    <3>2. ScriptInv'
      BY <2>2, LaunchStep, BootstrappingStep, BootstrappedStep, OnboardStep, FileSteps, DieStep,
         OthersStep DEF SetupNext
    <3> QED
      BY <3>1, <3>2
  <2> QED
    BY <2>1, <2>2
<1> QED
  BY <1>1, ScriptInit, PTL DEF SetupSpec

-----------------------------------------------------------------------------
(* Theorems                                                                *)

\* A trigger never has an action twice, nor one that Bootstrap manages and that
\* does not exist (bootstrap.go, action.go).
THEOREM TypeCorrect == SetupSpec => []TypeOK
<1>1. IInv => TypeOK
  <2>1. \A s \in Seq(Actions) : ToSet(s) \subseteq Actions
    BY DEF ToSet
  <2> QED
    BY <2>1 DEF IInv, Zitadel, TypeOK
<1> QED
  BY <1>1, SetupInductive, PTL

\* A Bootstrap that had no company leaves everything in place, whatever earlier
\* ones left half done and whatever is wired by hand meanwhile (Bootstrap).
THEOREM BootstrapCompletes == SetupSpec => []BootstrapsCompletely
<1>1. IInv => BootstrapsCompletely
  BY DEF IInv, OpInv, Own, BootstrapsCompletely, ProjectDone, RolesDone, AppDone, ScriptDone,
         ActionDone
<1> QED
  BY <1>1, SetupInductive, PTL

\* Wiring drops nobody's action if the flow could be read and did not change in
\* between (unionTriggerActions).
THEOREM WiringIsUnion == SetupSpec => WiringKeepsOthers
<1>1. IInv /\ [SetupNext]_setupVars
        => [\A o \in Ops : SetTriggerActions(o) /\ op[o].read = trigger
              => ToSet(trigger) \subseteq ToSet(trigger')]_vars
  <2> SUFFICES ASSUME IInv, NEW o \in Ops, SetTriggerActions(o), op[o].read = trigger
               PROVE  ToSet(trigger) \subseteq ToSet(trigger')
    OBVIOUS
  <2>1. trigger \in Seq(Actions) /\ OpInv(o)
    BY DEF IInv, Zitadel
  <2>2. op[o].read # None
    BY <2>1, BootstrapAssumption DEF Actions
  <2> QED
    BY <2>1, <2>2 DEF OpInv, SetTriggerActions
<1> QED
  BY <1>1, SetupInductive, PTL DEF SetupSpec, WiringKeepsOthers

\* A file that was written stays usable, whatever other operators and later runs
\* of the script do and wherever they die (scripts/setup-sdk).
THEOREM FileStaysUsable == SetupSpec => []FileIsUsable
<1>1. ScriptInv => FileIsUsable
  BY DEF ScriptInv, FileInv, InPlace, Settled, FileIsUsable
<1> QED
  BY <1>1, SetupInductive, PTL
=============================================================================
