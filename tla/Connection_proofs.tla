-------------------------- MODULE Connection_proofs --------------------------
(***************************************************************************)
(* Proofs about Connection, for any number of employees, codes, accounts   *)
(* and handlers in flight.                                                 *)
(***************************************************************************)
EXTENDS Connection, FiniteSetTheorems, TLAPS

LEMMA IdleIsTask == Idle \in Task
<1>1. (CHOOSE e \in Employees : TRUE) \in Employees
  BY FiniteAssumption DEF FiniteAssumption
<1>. QED
  BY <1>1 DEF Idle, Task, Ops

LEMMA TypeInductive ==
  ASSUME TypeOK, BindHoldsCode, [Next]_vars
  PROVE  TypeOK'
<1> USE DistinctAssumption, CodeForAssumption DEF DistinctAssumption, CodeForAssumption
<1> USE DEF TypeOK, table
<1>1. ASSUME NEW c \in Codes, GenerateCode(c) \/ Lapse(c) PROVE TypeOK'
  BY <1>1 DEF GenerateCode, Lapse
<1>2. ASSUME NEW t \in Tasks, NEW op \in Ops, NEW e \in Employees, NEW c \in Codes \cup {NoCode},
             NEW g \in Tg \cup {NoTg}, Begin(t, op, e, c, g)
      PROVE  TypeOK'
  <2>1. [pc |-> "read", op |-> op, emp |-> e, code |-> c, tg |-> g, seen |-> linked[e]] \in Task
    BY DEF Task
  <2>. QED
    BY <1>2, <2>1 DEF Begin
<1>3. ASSUME NEW t \in Tasks, Write(t) \/ Notify(t) PROVE TypeOK'
  <2>1. /\ [task[t] EXCEPT !.pc = "wrote"] \in Task
        /\ [task[t] EXCEPT !.pc = "told"] \in Task
        /\ task[t].emp \in Employees
    BY DEF Task
  <2>2. CASE Write(t)
    <3>1. task' = [task EXCEPT ![t] = [task[t] EXCEPT !.pc = "wrote"]]
      BY <2>2 DEF Write
    <3>. QED
      BY <2>1, <2>2, <3>1 DEF Write
  <2>3. CASE Notify(t)
    <3>1. task' = [task EXCEPT ![t] = [task[t] EXCEPT !.pc = "told"]]
      BY <2>3 DEF Notify
    <3>. QED
      BY <2>1, <2>3, <3>1 DEF Notify
  <2>. QED
    BY <1>3, <2>2, <2>3
<1>4. ASSUME NEW t \in Tasks, Release(t) PROVE task' \in [Tasks -> Task] /\ lock' \in [Employees -> Tasks \cup {NoTask}]
  BY <1>4, IdleIsTask DEF Release
<1>5. ASSUME NEW t \in Tasks, Commit(t) \/ Rollback(t) PROVE TypeOK'
  <2>1. Release(t)
    BY <1>5 DEF Commit, CommitBind, CommitDisconnect, CommitLeave, CommitReturn, Rollback
  <2>2. task[t].emp \in Employees
    BY DEF Task
  <2>3. CASE CommitBind(t)
    <3>1. task[t].code \in Codes /\ task[t].tg \in Tg
      BY <2>3 DEF CommitBind, BindHoldsCode
    <3>2. status' \in [Codes -> {"unissued", "ACTIVE", "USED"}]
      BY <2>3, <3>1 DEF CommitBind
    <3>3. linked' \in [Employees -> Tg \cup {NoTg}]
      BY <2>2, <2>3, <3>1 DEF CommitBind
    <3>4. redeemed' \in [Codes -> SUBSET Tg]
      BY <2>3, <3>1 DEF CommitBind
    <3>. QED
      BY <1>4, <2>1, <2>3, <3>2, <3>3, <3>4 DEF CommitBind
  <2>4. Unlinked(task[t]) \in [Employees -> Tg \cup {NoTg}]
    BY <2>2 DEF Unlinked
  <2>5. CASE CommitDisconnect(t) \/ CommitLeave(t)
    BY <1>4, <2>1, <2>4, <2>5 DEF CommitDisconnect, CommitLeave
  <2>6. CASE CommitReturn(t) \/ Rollback(t)
    BY <1>4, <2>1, <2>2, <2>6 DEF CommitReturn, Rollback
  <2>. QED
    BY <1>5, <2>3, <2>5, <2>6 DEF Commit
<1>6. CASE UNCHANGED vars
  BY <1>6 DEF vars
<1>. QED
  BY <1>1, <1>2, <1>3, <1>5, <1>6 DEF Next, BindRead, DisconnectRead, LeaveRead, ReturnRead, Ops

-----------------------------------------------------------------------------
(* What a step does to the handlers.                                       *)

Advances(t) ==
  task[t].pc # "idle" /\ \E pc \in {"wrote", "told"} : task'[t] = [task[t] EXCEPT !.pc = pc]

BeginsOther(t) ==
  \E op \in Ops \ {"bind"}, e \in Employees :
    task'[t] = [pc |-> "read", op |-> op, emp |-> e, code |-> NoCode, tg |-> NoTg, seen |-> linked[e]]

BeginsBind(t) ==
  \E c \in Codes, g \in Tg :
    /\ status[c] = "ACTIVE"
    /\ task'[t] = [pc |-> "read", op |-> "bind", emp |-> CodeFor[c], code |-> c,
                   tg |-> g, seen |-> linked[CodeFor[c]]]

(* Only bind_employee's read makes a task the holder of a code, and it     *)
(* reads codes that are active; every other step of a task keeps or drops  *)
(* what it holds.                                                          *)
LEMMA TaskSteps ==
  ASSUME TypeOK, [Next]_vars, NEW t \in Tasks
  PROVE  task'[t] = task[t] \/ Advances(t) \/ task'[t] = Idle \/ BeginsOther(t) \/ BeginsBind(t)
<1> USE DEF TypeOK
<1>1. ASSUME NEW c \in Codes, GenerateCode(c) \/ Lapse(c) PROVE task'[t] = task[t]
  BY <1>1 DEF GenerateCode, Lapse
<1>2. ASSUME NEW u \in Tasks, NEW c \in Codes, NEW g \in Tg, BindRead(u, c, g)
      PROVE  task'[t] = task[t] \/ BeginsBind(t)
  <2>1. CASE u = t
    <3>1. /\ status[c] = "ACTIVE"
          /\ task'[t] = [pc |-> "read", op |-> "bind", emp |-> CodeFor[c], code |-> c,
                         tg |-> g, seen |-> linked[CodeFor[c]]]
      BY <1>2, <2>1 DEF BindRead, Begin
    <3>. QED
      BY <3>1 DEF BeginsBind
  <2>2. CASE u # t
    BY <1>2, <2>2 DEF BindRead, Begin
  <2>. QED
    BY <2>1, <2>2
<1>3. ASSUME NEW u \in Tasks, NEW e \in Employees, NEW op \in Ops \ {"bind"},
             Begin(u, op, e, NoCode, NoTg)
      PROVE  task'[t] = task[t] \/ BeginsOther(t)
  <2>1. CASE u = t
    <3>1. task'[t] = [pc |-> "read", op |-> op, emp |-> e, code |-> NoCode,
                      tg |-> NoTg, seen |-> linked[e]]
      BY <1>3, <2>1 DEF Begin
    <3>. QED
      BY <3>1 DEF BeginsOther
  <2>2. CASE u # t
    BY <1>3, <2>2 DEF Begin
  <2>. QED
    BY <2>1, <2>2
<1>4. ASSUME NEW u \in Tasks, Write(u) \/ Notify(u) PROVE task'[t] = task[t] \/ Advances(t)
  BY <1>4 DEF Write, Notify, Advances
<1>5. ASSUME NEW u \in Tasks, Commit(u) \/ Rollback(u) PROVE task'[t] = task[t] \/ task'[t] = Idle
  BY <1>5 DEF Commit, CommitBind, CommitDisconnect, CommitLeave, CommitReturn, Rollback, Release
<1>6. CASE UNCHANGED vars
  BY <1>6 DEF vars
<1>7. ASSUME NEW u \in Tasks, NEW e \in Employees,
             DisconnectRead(u, e) \/ LeaveRead(u, e) \/ ReturnRead(u, e)
      PROVE  task'[t] = task[t] \/ BeginsOther(t)
  <2>1. {"disconnect", "leave", "return"} = Ops \ {"bind"}
    BY DEF Ops
  <2>. QED
    BY <1>3, <1>7, <2>1 DEF DisconnectRead, LeaveRead, ReturnRead
<1>. QED
  BY <1>1, <1>2, <1>4, <1>5, <1>6, <1>7 DEF Next

LEMMA BindHoldsCodeInductive ==
  ASSUME TypeOK, BindHoldsCode, [Next]_vars
  PROVE  BindHoldsCode'
<1> SUFFICES ASSUME NEW t \in Tasks, task'[t].pc # "idle", task'[t].op = "bind"
             PROVE  /\ task'[t].code \in Codes
                    /\ CodeFor[task'[t].code] = task'[t].emp
                    /\ task'[t].tg \in Tg
  BY DEF BindHoldsCode
<1>1. task[t] \in Task
  BY DEF TypeOK
<1>2. CASE task'[t] = task[t]
  BY <1>2 DEF BindHoldsCode
<1>3. CASE Advances(t)
  BY <1>1, <1>3 DEF Advances, BindHoldsCode, Task
<1>4. CASE BeginsOther(t)
  BY <1>4 DEF BeginsOther
<1>7. CASE task'[t] = Idle
  BY <1>7 DEF Idle
<1>5. CASE BeginsBind(t)
  BY <1>5 DEF BeginsBind
<1>6. task'[t] = task[t] \/ Advances(t) \/ task'[t] = Idle \/ BeginsOther(t) \/ BeginsBind(t)
  BY TaskSteps
<1>. QED
  BY <1>2, <1>3, <1>4, <1>5, <1>6, <1>7

(* A code that is not active gets no new holder.                           *)
LEMMA HoldersShrink ==
  ASSUME TypeOK, [Next]_vars, NEW c \in Codes, status[c] # "ACTIVE"
  PROVE  Holders(c)' \subseteq Holders(c)
<1> SUFFICES ASSUME NEW t \in Tasks, task'[t].pc # "idle", task'[t].op = "bind", task'[t].code = c
             PROVE  task[t].pc # "idle" /\ task[t].op = "bind" /\ task[t].code = c
  BY DEF Holders, Holds
<1>1. task[t] \in Task
  BY DEF TypeOK
<1>2. CASE task'[t] = task[t]
  BY <1>2
<1>3. CASE Advances(t)
  BY <1>1, <1>3 DEF Advances, Task
<1>4. CASE BeginsOther(t)
  BY <1>4 DEF BeginsOther
<1>7. CASE task'[t] = Idle
  BY <1>7 DEF Idle
<1>5. CASE BeginsBind(t)
  BY <1>5 DEF BeginsBind
<1>6. task'[t] = task[t] \/ Advances(t) \/ task'[t] = Idle \/ BeginsOther(t) \/ BeginsBind(t)
  BY TaskSteps
<1>. QED
  BY <1>2, <1>3, <1>4, <1>5, <1>6, <1>7

-----------------------------------------------------------------------------
(* Only a committed binding writes to what the properties speak of: it     *)
(* marks the code and records the account, and the binder holds it no more.*)
Unbinding ==
  /\ redeemed' = redeemed
  /\ \A c \in Codes : status'[c] = status[c] \/ (status[c] = "unissued" /\ status'[c] = "ACTIVE")
  /\ \A e \in Employees : linked'[e] \in {linked[e], NoTg}

LEMMA TableSteps ==
  ASSUME TypeOK, [Next]_vars
  PROVE  Unbinding \/ \E t \in Tasks : CommitBind(t)
<1> USE DEF TypeOK, table, Unbinding
<1>1. ASSUME NEW c \in Codes, GenerateCode(c) \/ Lapse(c) PROVE Unbinding
  BY <1>1 DEF GenerateCode, Lapse
<1>2. ASSUME NEW t \in Tasks, NEW c \in Codes, NEW g \in Tg, BindRead(t, c, g) PROVE Unbinding
  BY <1>2 DEF BindRead, Begin
<1>3. ASSUME NEW t \in Tasks, NEW e \in Employees,
             DisconnectRead(t, e) \/ LeaveRead(t, e) \/ ReturnRead(t, e)
      PROVE  Unbinding
  BY <1>3 DEF DisconnectRead, LeaveRead, ReturnRead, Begin
<1>4. ASSUME NEW t \in Tasks, Write(t) \/ Notify(t) \/ CommitReturn(t) \/ Rollback(t) PROVE Unbinding
  BY <1>4 DEF Write, Notify, CommitReturn, Rollback
<1>5. ASSUME NEW t \in Tasks, CommitDisconnect(t) \/ CommitLeave(t) PROVE Unbinding
  <2>1. linked' = Unlinked(task[t]) /\ UNCHANGED <<status, redeemed>>
    BY <1>5 DEF CommitDisconnect, CommitLeave
  <2>2. \A e \in Employees : Unlinked(task[t])[e] \in {linked[e], NoTg}
    BY DEF Unlinked
  <2>. QED
    BY <2>1, <2>2
<1>6. CASE UNCHANGED vars
  BY <1>6 DEF vars
<1>. QED
  BY <1>1, <1>2, <1>3, <1>4, <1>5, <1>6 DEF Next, Commit

LEMMA RedeemedOnlyUsedInductive ==
  ASSUME TypeOK, BindHoldsCode, RedeemedOnlyUsed, [Next]_vars
  PROVE  RedeemedOnlyUsed'
<1>1. ASSUME NEW t \in Tasks, CommitBind(t) PROVE RedeemedOnlyUsed'
  <2>1. task[t].code \in Codes
    BY <1>1 DEF CommitBind, BindHoldsCode
  <2>. QED
    BY <1>1, <2>1 DEF CommitBind, RedeemedOnlyUsed, TypeOK
<1>2. CASE Unbinding
  BY <1>2 DEF Unbinding, RedeemedOnlyUsed
<1>. QED
  BY <1>1, <1>2, TableSteps

(* The link is written together with the mark; only a link is ever undone. *)
LEMMA LinkHasUsedCodeInductive ==
  ASSUME TypeOK, BindHoldsCode, LinkHasUsedCode, [Next]_vars
  PROVE  LinkHasUsedCode'
<1> SUFFICES ASSUME NEW e \in Employees, linked'[e] # NoTg
             PROVE  \E c \in Codes : /\ CodeFor[c] = e /\ status'[c] = "USED"
                                     /\ linked'[e] \in redeemed'[c]
  BY DEF LinkHasUsedCode
<1>1. ASSUME NEW t \in Tasks, CommitBind(t)
      PROVE  \E c \in Codes : /\ CodeFor[c] = e /\ status'[c] = "USED"
                              /\ linked'[e] \in redeemed'[c]
  <2>1. /\ task[t].code \in Codes /\ CodeFor[task[t].code] = task[t].emp /\ task[t].tg \in Tg
    BY <1>1 DEF CommitBind, BindHoldsCode
  <2>2. /\ status' = [status EXCEPT ![task[t].code] = "USED"]
        /\ redeemed' = [redeemed EXCEPT ![task[t].code] = @ \cup {task[t].tg}]
    BY <1>1 DEF CommitBind
  <2>3. CASE linked'[e] = linked[e]
    <3>1. PICK c \in Codes : CodeFor[c] = e /\ status[c] = "USED" /\ linked[e] \in redeemed[c]
      BY <2>3 DEF LinkHasUsedCode
    <3>. QED
      BY <2>1, <2>2, <2>3, <3>1 DEF TypeOK
  <2>4. CASE linked'[e] # linked[e]
    <3>1. e = task[t].emp /\ linked'[e] = task[t].tg
      BY <1>1, <2>4 DEF CommitBind, TypeOK
    <3>. QED
      BY <2>1, <2>2, <3>1 DEF TypeOK
  <2>. QED
    BY <2>3, <2>4
<1>2. CASE Unbinding
  BY <1>2 DEF LinkHasUsedCode, Unbinding
<1>. QED
  BY <1>1, <1>2, TableSteps

-----------------------------------------------------------------------------
(* The accounts that redeemed a used code and the handlers that still hold *)
(* it are together no more than the handlers there are: each redemption    *)
(* costs a holder.                                                         *)
LEMMA Finite ==
  ASSUME TypeOK, NEW c \in Codes
  PROVE  /\ IsFiniteSet(Holders(c)) /\ Cardinality(Holders(c)) <= Cardinality(Tasks)
         /\ IsFiniteSet(redeemed[c])
         /\ Cardinality(Holders(c)) \in Nat /\ Cardinality(redeemed[c]) \in Nat
         /\ Cardinality(Tasks) \in Nat
<1>1. IsFiniteSet(Tasks) /\ IsFiniteSet(Tg)
  BY FiniteAssumption DEF FiniteAssumption
<1>2. Holders(c) \subseteq Tasks /\ redeemed[c] \subseteq Tg
  BY DEF Holders, TypeOK
<1>3. IsFiniteSet(Holders(c)) /\ Cardinality(Holders(c)) <= Cardinality(Tasks)
  BY <1>1, <1>2, FS_Subset
<1>4. IsFiniteSet(redeemed[c])
  BY <1>1, <1>2, FS_Subset
<1>. QED
  BY <1>1, <1>3, <1>4, FS_CardinalityType

LEMMA BindReleasesHolder ==
  ASSUME TypeOK, NEW t \in Tasks, CommitBind(t)
  PROVE  t \in Holders(task[t].code) /\ t \notin Holders(task[t].code)'
<1>1. task[t].pc # "idle" /\ task[t].op = "bind" /\ task'[t] = Idle
  BY DEF CommitBind, Release, TypeOK
<1>2. Idle.pc = "idle"
  BY DEF Idle
<1>. QED
  BY <1>1, <1>2 DEF Holders, Holds

LEMMA UsedGoesToHoldersInductive ==
  ASSUME TypeOK, TypeOK', BindHoldsCode, RedeemedOnlyUsed, UsedGoesToHolders, [Next]_vars
  PROVE  UsedGoesToHolders'
<1> SUFFICES ASSUME NEW c \in Codes, status'[c] = "USED"
             PROVE  Cardinality(redeemed'[c]) + Cardinality(Holders(c)') <= Cardinality(Tasks)
  BY DEF UsedGoesToHolders
<1> DEFINE H == Cardinality(Holders(c))
           R == Cardinality(redeemed[c])
           N == Cardinality(Tasks)
<1>1. H \in Nat /\ R \in Nat /\ N \in Nat /\ H <= N /\ IsFiniteSet(Holders(c)) /\ IsFiniteSet(redeemed[c])
  BY Finite
<1>2. Cardinality(Holders(c)') \in Nat /\ Cardinality(redeemed'[c]) \in Nat
  <2>1. Holders(c)' \subseteq Tasks /\ redeemed'[c] \subseteq Tg
    BY DEF Holders, TypeOK
  <2>2. IsFiniteSet(Tasks) /\ IsFiniteSet(Tg)
    BY FiniteAssumption DEF FiniteAssumption
  <2>. QED
    BY <2>1, <2>2, FS_Subset, FS_CardinalityType
<1>3. CASE status[c] = "USED" /\ redeemed'[c] = redeemed[c]
  <2>1. Holders(c)' \subseteq Holders(c)
    BY <1>3, HoldersShrink
  <2>2. Cardinality(Holders(c)') <= H
    BY <1>1, <2>1, FS_Subset
  <2>3. R + H <= N
    BY <1>3 DEF UsedGoesToHolders
  <2>. QED
    BY <1>1, <1>2, <1>3, <2>2, <2>3
<1>4. ASSUME NEW t \in Tasks, CommitBind(t), task[t].code = c
      PROVE  Cardinality(redeemed'[c]) + Cardinality(Holders(c)') <= N
  <2>1. redeemed'[c] = redeemed[c] \cup {task[t].tg}
    BY <1>4 DEF CommitBind, TypeOK
  <2>2. Cardinality(redeemed'[c]) <= R + 1
    <3>1. \/ Cardinality(redeemed[c] \cup {task[t].tg}) = R
          \/ Cardinality(redeemed[c] \cup {task[t].tg}) = R + 1
      BY <1>1, FS_AddElement
    <3>. QED
      BY <1>1, <2>1, <3>1
  <2>3. t \in Holders(c) /\ t \notin Holders(c)'
    BY <1>4, BindReleasesHolder DEF Holders, Holds
  <2>4. Holders(c)' \subseteq Holders(c) \ {t}
    <3>1. \A u \in Tasks \ {t} : task'[u] = task[u]
      BY <1>4 DEF CommitBind, Release, TypeOK
    <3>. QED
      BY <2>3, <3>1 DEF Holders, Holds
  <2>5. IsFiniteSet(Holders(c) \ {t}) /\ Cardinality(Holders(c) \ {t}) = H - 1
    BY <1>1, <2>3, FS_RemoveElement
  <2>6. Cardinality(Holders(c)') <= H - 1
    BY <2>4, <2>5, FS_Subset
  <2>7. R + H <= N
    <3>1. CASE status[c] = "USED"
      BY <3>1 DEF UsedGoesToHolders
    <3>2. CASE status[c] # "USED"
      <4>1. R = 0
        BY <3>2, FS_EmptySet DEF RedeemedOnlyUsed
      <4>. QED
        BY <1>1, <4>1
    <3>. QED
      BY <3>1, <3>2
  <2>. QED
    BY <1>1, <1>2, <2>2, <2>6, <2>7
<1>5. ASSUME NEW t \in Tasks, CommitBind(t), task[t].code # c
      PROVE  status[c] = "USED" /\ redeemed'[c] = redeemed[c]
  <2>1. task[t].code \in Codes
    BY <1>5 DEF CommitBind, BindHoldsCode
  <2>. QED
    BY <1>5, <2>1 DEF CommitBind, TypeOK
<1>6. CASE Unbinding
  BY <1>3, <1>6 DEF Unbinding
<1>. QED
  BY <1>3, <1>4, <1>5, <1>6, TableSteps

-----------------------------------------------------------------------------
LEMMA InvariantAlways == Spec => [](TypeOK /\ ConnectionInv)
<1>1. Init => TypeOK
  BY IdleIsTask, DistinctAssumption DEF Init, TypeOK, DistinctAssumption
<1>2. Init => ConnectionInv
  <2> SUFFICES ASSUME Init PROVE ConnectionInv
    OBVIOUS
  <2>1. \A t \in Tasks : task[t].pc = "idle"
    BY DEF Init, Idle
  <2>2. \A c \in Codes : status[c] = "unissued" /\ redeemed[c] = {}
    BY DEF Init
  <2>3. \A e \in Employees : linked[e] = NoTg
    BY DEF Init
  <2>. QED
    BY <2>1, <2>2, <2>3
       DEF ConnectionInv, BindHoldsCode, RedeemedOnlyUsed, UsedGoesToHolders, LinkHasUsedCode
<1>3. TypeOK /\ ConnectionInv /\ [Next]_vars => (TypeOK /\ ConnectionInv)'
  BY TypeInductive, BindHoldsCodeInductive, RedeemedOnlyUsedInductive,
     UsedGoesToHoldersInductive, LinkHasUsedCodeInductive DEF ConnectionInv
<1>. QED
  BY <1>1, <1>2, <1>3, PTL DEF Spec

(* Every variable keeps its type.                                          *)
THEOREM TypeCorrect == Spec => []TypeOK
BY InvariantAlways, PTL

(* No interleaving of handlers, failures and synchronisations ties an      *)
(* employee to an account that did not redeem a code issued for him.       *)
THEOREM LinkHasUsedCodeAlways == Spec => []LinkHasUsedCode
<1>1. ConnectionInv => LinkHasUsedCode
  BY DEF ConnectionInv
<1>. QED
  BY <1>1, InvariantAlways, PTL

(* A code is redeemed at most as often as handlers are in flight together. *)
THEOREM RedeemedInFlightAlways == Spec => []RedeemedInFlight
<1>1. TypeOK /\ ConnectionInv => RedeemedInFlight
  <2> SUFFICES ASSUME TypeOK, ConnectionInv, NEW c \in Codes
               PROVE  Cardinality(redeemed[c]) <= Cardinality(Tasks)
    BY DEF RedeemedInFlight
  <2>1. CASE status[c] = "USED"
    BY <2>1, Finite DEF ConnectionInv, UsedGoesToHolders
  <2>2. CASE status[c] # "USED"
    <3>1. Cardinality(redeemed[c]) = 0
      BY <2>2, FS_EmptySet DEF ConnectionInv, RedeemedOnlyUsed
    <3>. QED
      BY <3>1, Finite
  <2>. QED
    BY <2>1, <2>2
<1>. QED
  BY <1>1, InvariantAlways, PTL

-----------------------------------------------------------------------------
(* Handlers that run one after the other: the one that runs has seen the   *)
(* link that is there, and what it read is still so.                       *)
AloneInv ==
  /\ \A t, u \in Tasks : task[t].pc # "idle" /\ task[u].pc # "idle" => t = u
  /\ \A t \in Tasks : task[t].pc # "idle" => task[t].seen = linked[task[t].emp]
  /\ \A t \in Tasks : task[t].pc # "idle" /\ task[t].op = "bind"
                        => status[task[t].code] = "ACTIVE" /\ task[t].emp \in working
  /\ \A e \in Employees \ working : linked[e] = NoTg
  /\ \A c \in Codes : redeemed[c] = {} \/ \E g \in Tg : redeemed[c] = {g}

(* Handlers that overlap too: a code that lapsed or is held was issued.    *)
IssuedInv ==
  /\ \A c \in lapsed : status[c] # "unissued"
  /\ \A t \in Tasks : task[t].pc # "idle" /\ task[t].op = "bind" => status[task[t].code] # "unissued"

SerialInv == IssuedInv /\ (alone => AloneInv)

(* A committed or rolled back handler is idle and the others go on; when   *)
(* it was the only one, all are idle.                                      *)
LEMMA ReleaseSteps ==
  ASSUME TypeOK, NEW t \in Tasks, Release(t)
  PROVE  /\ task'[t].pc = "idle"
         /\ \A u \in Tasks \ {t} : task'[u] = task[u]
<1>1. Idle.pc = "idle"
  BY DEF Idle
<1>. QED
  BY <1>1 DEF Release, TypeOK

LEMMA IssuedInductive ==
  ASSUME TypeOK, BindHoldsCode, IssuedInv, [Next]_vars
  PROVE  IssuedInv'
<1>1. \A c \in Codes : status[c] # "unissued" => status'[c] # "unissued"
  <2>1. ASSUME NEW t \in Tasks, CommitBind(t)
        PROVE  \A c \in Codes : status[c] # "unissued" => status'[c] # "unissued"
    BY <2>1 DEF CommitBind, TypeOK
  <2>. QED
    BY <2>1, TableSteps DEF Unbinding
<1>2. \A c \in lapsed' : c \in lapsed \/ status'[c] # "unissued"
  <2>1. ASSUME NEW c \in Codes, Lapse(c) PROVE \A d \in lapsed' : d \in lapsed \/ status'[d] # "unissued"
    BY <2>1 DEF Lapse, table
  <2>2. CASE \A c \in Codes : ~Lapse(c)
    <3>1. lapsed' = lapsed
      BY <2>2 DEF Next, GenerateCode, BindRead, DisconnectRead, LeaveRead, ReturnRead, Begin, Write,
         Notify, Commit, CommitBind, CommitDisconnect, CommitLeave, CommitReturn, Rollback, vars
    <3>. QED
      BY <3>1
  <2>. QED
    BY <2>1, <2>2
<1>3. lapsed \subseteq Codes /\ lapsed' \subseteq Codes
  BY TypeInductive DEF TypeOK
<1>4. ASSUME NEW t \in Tasks, task'[t].pc # "idle", task'[t].op = "bind"
      PROVE  status'[task'[t].code] # "unissued"
  <2>1. task[t] \in Task
    BY DEF TypeOK
  <2>2. CASE task'[t] = task[t] \/ Advances(t)
    <3>1. task[t].pc # "idle" /\ task[t].op = "bind" /\ task'[t].code = task[t].code
      BY <1>4, <2>1, <2>2 DEF Advances, Task
    <3>. QED
      BY <1>1, <3>1 DEF IssuedInv, BindHoldsCode
  <2>3. CASE BeginsBind(t)
    <3>1. task'[t].code \in Codes /\ status[task'[t].code] = "ACTIVE"
      BY <2>3 DEF BeginsBind
    <3>. QED
      BY <1>1, <3>1
  <2>4. CASE task'[t] = Idle
    BY <1>4, <2>4 DEF Idle
  <2>5. CASE BeginsOther(t)
    BY <1>4, <2>5 DEF BeginsOther
  <2>. QED
    BY <2>2, <2>3, <2>4, <2>5, TaskSteps
<1>. QED
  BY <1>1, <1>2, <1>3, <1>4 DEF IssuedInv

LEMMA AloneInductive ==
  ASSUME TypeOK, ConnectionInv, alone, AloneInv, [Next]_vars
  PROVE  AloneInv'
<1> USE DEF TypeOK, table
<1> USE DistinctAssumption, CodeForAssumption DEF DistinctAssumption, CodeForAssumption
<1>1. ASSUME NEW c \in Codes, GenerateCode(c) \/ Lapse(c) PROVE AloneInv'
  <2>1. UNCHANGED <<task, linked, working, redeemed>>
    BY <1>1 DEF GenerateCode, Lapse
  <2>2. \A d \in Codes : status[d] = "ACTIVE" => status'[d] = "ACTIVE"
    BY <1>1 DEF GenerateCode, Lapse
  <2>3. \A t \in Tasks : task[t].pc # "idle" /\ task[t].op = "bind" => task[t].code \in Codes
    BY DEF ConnectionInv, BindHoldsCode
  <2>. QED
    BY <2>1, <2>2, <2>3 DEF AloneInv
<1>2. ASSUME NEW t \in Tasks, NEW op \in Ops, NEW e \in Employees, NEW c \in Codes \cup {NoCode},
             NEW g \in Tg \cup {NoTg}, Begin(t, op, e, c, g),
             op = "bind" => c \in Codes /\ status[c] = "ACTIVE" /\ e \in working
      PROVE  AloneInv'
  <2>1. /\ \A u \in Tasks : task[u].pc = "idle"
        /\ UNCHANGED <<status, linked, working, redeemed>>
    BY <1>2 DEF Begin
  <2>2. /\ task'[t] = [pc |-> "read", op |-> op, emp |-> e, code |-> c, tg |-> g, seen |-> linked[e]]
        /\ \A u \in Tasks \ {t} : task'[u] = task[u]
    BY <1>2 DEF Begin
  <2>. QED
    BY <1>2, <2>1, <2>2 DEF AloneInv
<1>3. ASSUME NEW t \in Tasks, Write(t) \/ Notify(t) PROVE AloneInv'
  <2>1. /\ \A u \in Tasks \ {t} : task'[u] = task[u]
        /\ UNCHANGED <<status, linked, working, redeemed>>
    BY <1>3 DEF Write, Notify
  <2>2. task[t] \in Task /\ task[t].pc # "idle"
    BY <1>3 DEF Write, Notify
  <2>3. \E pc \in {"wrote", "told"} : task'[t] = [task[t] EXCEPT !.pc = pc]
    BY <1>3 DEF Write, Notify
  <2>4. /\ task'[t].pc # "idle" /\ task'[t].op = task[t].op /\ task'[t].emp = task[t].emp
        /\ task'[t].code = task[t].code /\ task'[t].seen = task[t].seen
    BY <2>2, <2>3 DEF Task
  <2>. QED
    BY <2>1, <2>2, <2>4 DEF AloneInv
<1>4. ASSUME NEW t \in Tasks, Commit(t) \/ Rollback(t) PROVE AloneInv'
  <2>1. Release(t) /\ task[t].pc # "idle" /\ task[t].emp \in Employees
    BY <1>4 DEF Commit, CommitBind, CommitDisconnect, CommitLeave, CommitReturn, Rollback, Task
  <2>2. \A u \in Tasks : task'[u].pc = "idle"
    BY <2>1, ReleaseSteps DEF AloneInv
  <2>3. task[t].seen = linked[task[t].emp]
    BY <2>1 DEF AloneInv
  <2>4. ASSUME CommitBind(t)
        PROVE  /\ \A e \in Employees \ working' : linked'[e] = NoTg
               /\ \A c \in Codes : redeemed'[c] = {} \/ \E g \in Tg : redeemed'[c] = {g}
    <3>1. /\ task[t].code \in Codes /\ task[t].tg \in Tg /\ status[task[t].code] = "ACTIVE"
          /\ task[t].emp \in working
      BY <2>1, <2>4 DEF CommitBind, AloneInv, ConnectionInv, BindHoldsCode
    <3>2. redeemed[task[t].code] = {}
      BY <3>1 DEF ConnectionInv, RedeemedOnlyUsed
    <3>3. redeemed'[task[t].code] = {task[t].tg}
      BY <2>4, <3>1, <3>2 DEF CommitBind
    <3>4. \A c \in Codes : c # task[t].code => redeemed'[c] = redeemed[c]
      BY <2>4, <3>1 DEF CommitBind
    <3>5. working' = working /\ \A e \in Employees : e # task[t].emp => linked'[e] = linked[e]
      BY <2>4 DEF CommitBind
    <3>6. \A e \in Employees \ working' : linked'[e] = NoTg
      BY <3>1, <3>5 DEF AloneInv
    <3>7. \A c \in Codes : redeemed'[c] = {} \/ \E g \in Tg : redeemed'[c] = {g}
      <4>1. \E g \in Tg : redeemed'[task[t].code] = {g}
        BY <3>1, <3>3
      <4>2. \A c \in Codes : redeemed[c] = {} \/ \E g \in Tg : redeemed[c] = {g}
        BY DEF AloneInv
      <4>. QED
        BY <3>4, <4>1, <4>2, Zenon
    <3>. QED
      BY <3>6, <3>7
  <2>5. ASSUME ~CommitBind(t)
        PROVE  /\ \A e \in Employees \ working' : linked'[e] = NoTg
               /\ \A c \in Codes : redeemed'[c] = {} \/ \E g \in Tg : redeemed'[c] = {g}
    <3>1. redeemed' = redeemed
      BY <1>4, <2>5 DEF Commit, CommitDisconnect, CommitLeave, CommitReturn, Rollback
    <3>2. Unlinked(task[t]) = [linked EXCEPT ![task[t].emp] = NoTg]
      BY <2>1, <2>3 DEF Unlinked
    <3>3. \/ linked' = linked /\ working \subseteq working'
          \/ linked' = [linked EXCEPT ![task[t].emp] = NoTg] /\ working \ {task[t].emp} \subseteq working'
      <4>1. CASE CommitDisconnect(t) \/ CommitLeave(t)
        <5>1. linked' = Unlinked(task[t]) /\ working \ {task[t].emp} \subseteq working'
          BY <4>1 DEF CommitDisconnect, CommitLeave
        <5>. QED
          BY <3>2, <5>1
      <4>2. CASE CommitReturn(t) \/ Rollback(t)
        BY <4>2 DEF CommitReturn, Rollback
      <4>. QED
        BY <1>4, <2>5, <4>1, <4>2 DEF Commit
    <3>4. \A e \in Employees \ working' : linked'[e] = NoTg
      BY <3>3 DEF AloneInv
    <3>. QED
      BY <3>1, <3>4 DEF AloneInv
  <2>. QED
    BY <2>2, <2>4, <2>5 DEF AloneInv
<1>5. CASE UNCHANGED vars
  BY <1>5 DEF AloneInv, vars
<1>6. ASSUME NEW t \in Tasks, NEW c \in Codes, NEW g \in Tg, BindRead(t, c, g) PROVE AloneInv'
  BY <1>2, <1>6 DEF BindRead, Ops
<1>7. ASSUME NEW t \in Tasks, NEW e \in Employees,
             DisconnectRead(t, e) \/ LeaveRead(t, e) \/ ReturnRead(t, e)
      PROVE  AloneInv'
  BY <1>2, <1>7 DEF DisconnectRead, LeaveRead, ReturnRead, Ops
<1>. QED
  BY <1>1, <1>3, <1>4, <1>5, <1>6, <1>7 DEF Next

LEMMA AloneUnchanged == [Next]_vars => alone' = alone
BY DEF Next, GenerateCode, Lapse, BindRead, DisconnectRead, LeaveRead, ReturnRead, Begin, Write, Notify,
   Commit, CommitBind, CommitDisconnect, CommitLeave, CommitReturn, Rollback, vars

LEMMA SerialAlways == Spec => [](TypeOK /\ ConnectionInv /\ SerialInv)
<1>1. Init => SerialInv
  <2> SUFFICES ASSUME Init PROVE SerialInv
    OBVIOUS
  <2>1. \A t \in Tasks : task[t].pc = "idle"
    BY DEF Init, Idle
  <2>2. lapsed = {} /\ working = Employees /\ \A c \in Codes : redeemed[c] = {}
    BY DEF Init
  <2>. QED
    BY <2>1, <2>2 DEF SerialInv, IssuedInv, AloneInv
<1>2. TypeOK /\ ConnectionInv /\ SerialInv /\ [Next]_vars => SerialInv'
  BY IssuedInductive, AloneInductive, AloneUnchanged DEF SerialInv, ConnectionInv
<1>. QED
  BY <1>1, <1>2, InvariantAlways, PTL DEF Spec

(* One handler at a time, nobody who left keeps an account.                *)
THEOREM GoneIsUnlinkedAlways == Spec => []GoneIsUnlinked
<1>1. SerialInv => GoneIsUnlinked
  BY DEF SerialInv, AloneInv, GoneIsUnlinked
<1>. QED
  BY <1>1, SerialAlways, PTL

(* One handler at a time, a code ties one account.                         *)
THEOREM OneTimeSerially == Spec => [](alone => OneTime)
<1>1. TypeOK /\ SerialInv => (alone => OneTime)
  <2> SUFFICES ASSUME SerialInv, alone, NEW c \in Codes
               PROVE  Cardinality(redeemed[c]) <= 1
    BY DEF OneTime
  <2>1. CASE redeemed[c] = {}
    BY <2>1, FS_EmptySet
  <2>2. ASSUME NEW g \in Tg, redeemed[c] = {g} PROVE Cardinality(redeemed[c]) <= 1
    <3>1. Cardinality({g}) = 1
      BY FS_Singleton
    <3>. QED
      BY <2>2, <3>1
  <2>. QED
    BY <2>1, <2>2 DEF SerialInv, AloneInv
<1>. QED
  BY <1>1, SerialAlways, PTL
-----------------------------------------------------------------------------
(* Handlers implement the promise.  Reading, writing and telling change    *)
(* nothing it speaks of; a committed handler does in one step what it      *)
(* promises, and one that gives up a code past its expiry lets it expire.  *)
LEMMA ExpiredKept ==
  ASSUME lapsed' = lapsed, status' = status, \A t \in Tasks, c \in Codes : Holds(t, c)' <=> Holds(t, c),
         lapsed \subseteq Codes
  PROVE  Expired' = Expired
BY DEF Expired

LEMMA NextKeepsPromise ==
  ASSUME TypeOK, ConnectionInv, SerialInv, [Next]_vars
  PROVE  Promise!Next \/ UNCHANGED <<status, Expired, working, linked, alone>>
<1> USE DEF TypeOK
<1> USE DistinctAssumption, CodeForAssumption DEF DistinctAssumption, CodeForAssumption
<1>0. alone' = alone
  BY AloneUnchanged
<1>1. ASSUME NEW c \in Codes, GenerateCode(c) PROVE Promise!Next
  <2>1. c \notin lapsed
    BY <1>1 DEF GenerateCode, SerialInv, IssuedInv
  <2>2. \A d \in lapsed : status'[d] = status[d]
    BY <1>1, <2>1 DEF GenerateCode
  <2>3. \A t \in Tasks, d \in Codes : Holds(t, d)' <=> Holds(t, d)
    BY <1>1 DEF GenerateCode, Holds
  <2>4. Expired' = Expired
    BY <1>1, <2>2, <2>3 DEF Expired, GenerateCode
  <2>5. Promise!Issue(c)
    BY <1>1, <2>4 DEF GenerateCode, Promise!Issue
  <2>. QED
    BY <2>5 DEF Promise!Next
<1>2. ASSUME NEW c \in Codes, Lapse(c)
      PROVE  Promise!Next \/ UNCHANGED <<status, Expired, working, linked, alone>>
  <2>1. \A t \in Tasks, d \in Codes : Holds(t, d)' <=> Holds(t, d)
    BY <1>2 DEF Lapse, Holds
  <2>2. status[c] = "ACTIVE" /\ lapsed' = lapsed \cup {c} /\ UNCHANGED <<status, working, linked>>
    BY <1>2 DEF Lapse, table
  <2>3. Expired' = Expired \/ Expired' = Expired \cup {c}
    <3>1. CASE \A t \in Tasks : ~Holds(t, c)
      BY <2>1, <2>2, <3>1 DEF Expired
    <3>2. CASE \E t \in Tasks : Holds(t, c)
      BY <2>1, <2>2, <3>2 DEF Expired
    <3>. QED
      BY <3>1, <3>2
  <2>4. CASE Expired' = Expired \cup {c}
    <3>1. Promise!Lapse(c)
      BY <1>0, <2>2, <2>4 DEF Promise!Lapse
    <3>. QED
      BY <3>1 DEF Promise!Next
  <2>. QED
    BY <1>0, <2>2, <2>3, <2>4
<1>3. ASSUME NEW t \in Tasks, NEW c \in Codes, NEW g \in Tg, BindRead(t, c, g)
      PROVE  UNCHANGED <<status, Expired, working, linked, alone>>
  <2>1. c \notin lapsed /\ task[t].pc = "idle" /\ UNCHANGED <<status, working, linked, lapsed>>
    BY <1>3 DEF BindRead, Begin, table
  <2>2. task'[t].code = c /\ \A u \in Tasks \ {t} : task'[u] = task[u]
    BY <1>3 DEF BindRead, Begin
  <2>3. \A u \in Tasks, d \in lapsed : Holds(u, d)' <=> Holds(u, d)
    BY <2>1, <2>2 DEF Holds
  <2>. QED
    BY <1>0, <2>1, <2>3 DEF Expired
<1>4. ASSUME NEW t \in Tasks, NEW op \in Ops \ {"bind"}, NEW e \in Employees, Begin(t, op, e, NoCode, NoTg)
      PROVE  UNCHANGED <<status, Expired, working, linked, alone>>
  <2>1. task[t].pc = "idle" /\ UNCHANGED <<status, working, linked, lapsed>>
    BY <1>4 DEF Begin, table
  <2>2. task'[t].op = op /\ \A u \in Tasks \ {t} : task'[u] = task[u]
    BY <1>4 DEF Begin
  <2>3. \A u \in Tasks, d \in Codes : Holds(u, d)' <=> Holds(u, d)
    BY <2>1, <2>2 DEF Holds
  <2>. QED
    BY <1>0, <2>1, <2>3, ExpiredKept
<1>5. ASSUME NEW t \in Tasks, Write(t) \/ Notify(t)
      PROVE  UNCHANGED <<status, Expired, working, linked, alone>>
  <2>1. task[t] \in Task /\ task[t].pc # "idle" /\ UNCHANGED <<status, working, linked, lapsed>>
    BY <1>5 DEF Write, Notify, table
  <2>2. /\ \A u \in Tasks \ {t} : task'[u] = task[u]
        /\ \E pc \in {"wrote", "told"} : task'[t] = [task[t] EXCEPT !.pc = pc]
    BY <1>5 DEF Write, Notify
  <2>3. task'[t].pc # "idle" /\ task'[t].op = task[t].op /\ task'[t].code = task[t].code
    BY <2>1, <2>2 DEF Task
  <2>4. \A u \in Tasks, d \in Codes : Holds(u, d)' <=> Holds(u, d)
    BY <2>1, <2>2, <2>3 DEF Holds
  <2>. QED
    BY <1>0, <2>1, <2>4, ExpiredKept
(* What ends a handler that holds no code leaves the expired ones alone.   *)
<1>6. ASSUME NEW t \in Tasks, Release(t), task[t].op # "bind", UNCHANGED <<lapsed, status>>
      PROVE  Expired' = Expired
  <2>1. task'[t].pc = "idle" /\ \A u \in Tasks \ {t} : task'[u] = task[u]
    BY <1>6, ReleaseSteps
  <2>2. \A u \in Tasks, d \in Codes : Holds(u, d)' <=> Holds(u, d)
    BY <1>6, <2>1 DEF Holds
  <2>. QED
    BY <1>6, <2>2, ExpiredKept
<1>7. ASSUME NEW t \in Tasks, task[t].pc # "idle", linked' = Unlinked(task[t])
      PROVE  Promise!Link(task[t].emp, NoTg)
  <2>1. task[t].emp \in Employees
    BY DEF Task
  <2>2. alone => task[t].seen = linked[task[t].emp]
    BY <1>7 DEF SerialInv, AloneInv
  <2>3. CASE task[t].seen = NoTg
    <3>1. linked' = linked
      BY <1>7, <2>3 DEF Unlinked
    <3>2. alone => linked' = [linked EXCEPT ![task[t].emp] = NoTg]
      BY <2>1, <2>2, <2>3, <3>1
    <3>. QED
      BY <3>1, <3>2 DEF Promise!Link
  <2>4. CASE task[t].seen # NoTg
    BY <1>7, <2>4 DEF Unlinked, Promise!Link
  <2>. QED
    BY <2>3, <2>4
<1>8. ASSUME NEW t \in Tasks, CommitDisconnect(t) \/ CommitLeave(t) \/ CommitReturn(t) PROVE Promise!Next
  <2>1. /\ Release(t) /\ task[t].pc # "idle" /\ task[t].op # "bind" /\ UNCHANGED <<lapsed, status>>
        /\ task[t].emp \in Employees
    BY <1>8 DEF CommitDisconnect, CommitLeave, CommitReturn, Task
  <2>2. Expired' = Expired
    BY <1>6, <2>1
  <2>3. CASE CommitDisconnect(t)
    <3>1. Promise!Disconnect(task[t].emp)
      BY <1>0, <1>7, <2>1, <2>2, <2>3 DEF CommitDisconnect, Promise!Disconnect
    <3>. QED
      BY <2>1, <3>1 DEF Promise!Next
  <2>4. CASE CommitLeave(t)
    <3>1. Promise!Leave(task[t].emp)
      BY <1>0, <1>7, <2>1, <2>2, <2>4 DEF CommitLeave, Promise!Leave
    <3>. QED
      BY <2>1, <3>1 DEF Promise!Next
  <2>5. CASE CommitReturn(t)
    <3>1. Promise!Return(task[t].emp)
      BY <1>0, <2>1, <2>2, <2>5 DEF CommitReturn, Promise!Return
    <3>. QED
      BY <2>1, <3>1 DEF Promise!Next
  <2>. QED
    BY <1>8, <2>3, <2>4, <2>5
<1>9. ASSUME NEW t \in Tasks, CommitBind(t) PROVE Promise!Next
  <2> DEFINE c == task[t].code
             g == task[t].tg
  <2>1. /\ c \in Codes /\ g \in Tg /\ CodeFor[c] = task[t].emp /\ task[t].emp \in Employees
        /\ task[t].pc # "idle" /\ task[t].op = "bind"
    BY <1>9 DEF CommitBind, ConnectionInv, BindHoldsCode, Task
  <2>2. /\ status' = [status EXCEPT ![c] = "USED"]
        /\ linked' = IF task[t].seen = g THEN linked ELSE [linked EXCEPT ![task[t].emp] = g]
        /\ UNCHANGED <<lapsed, working>>
    BY <1>9 DEF CommitBind
  <2>3. Holds(t, c)
    BY <2>1 DEF Holds
  <2>4. status[c] # "unissued" /\ (alone => status[c] = "ACTIVE" /\ task[t].emp \in working)
    BY <2>1 DEF SerialInv, IssuedInv, AloneInv
  <2>5. c \notin Expired /\ c \notin Expired'
    BY <2>1, <2>2, <2>3 DEF Expired
  <2>6. task'[t].pc = "idle" /\ \A u \in Tasks \ {t} : task'[u] = task[u]
    BY <1>9, ReleaseSteps DEF CommitBind
  <2>7. \A u \in Tasks, d \in Codes \ {c} : Holds(u, d)' <=> Holds(u, d)
    BY <2>1, <2>6 DEF Holds
  <2>8. Expired' = Expired
    <3>1. \A d \in lapsed \ {c} : status'[d] = status[d]
      BY <2>2
    <3>2. \A d \in Codes \ {c} : d \in Expired' <=> d \in Expired
      BY <2>2, <2>7, <3>1 DEF Expired
    <3>3. Expired \subseteq Codes /\ Expired' \subseteq Codes
      BY <2>2 DEF Expired
    <3>. QED
      <4>1. \A d : d \in Expired' <=> d \in Expired
        <5> HIDE DEF c
        <5>. QED
          BY <2>5, <3>2, <3>3
      <4>. QED
        BY <4>1, Zenon
  <2>9. Promise!Link(CodeFor[c], g)
    <3>1. CASE task[t].seen = g
      <4>1. alone => linked[task[t].emp] = g
        BY <2>1, <3>1 DEF SerialInv, AloneInv
      <4>2. alone => linked = [linked EXCEPT ![task[t].emp] = g]
        BY <2>1, <4>1
      <4>. QED
        BY <2>1, <2>2, <3>1, <4>2 DEF Promise!Link
    <3>2. CASE task[t].seen # g
      BY <2>1, <2>2, <3>2 DEF Promise!Link
    <3>. QED
      BY <3>1, <3>2
  <2>10. Promise!Redeem(c, g)
    BY <1>0, <2>1, <2>2, <2>4, <2>5, <2>8, <2>9 DEF Promise!Redeem
  <2>. QED
    BY <2>1, <2>10 DEF Promise!Next
<1>10. ASSUME NEW t \in Tasks, Rollback(t)
       PROVE  Promise!Next \/ UNCHANGED <<status, Expired, working, linked, alone>>
  <2>1. Release(t) /\ task[t].pc # "idle" /\ UNCHANGED <<status, lapsed, working, linked>>
    BY <1>10 DEF Rollback, table
  <2>2. CASE task[t].op # "bind"
    BY <1>0, <1>6, <2>1, <2>2
  <2>3. CASE task[t].op = "bind"
    <3> DEFINE c == task[t].code
    <3>1. c \in Codes
      BY <2>1, <2>3 DEF ConnectionInv, BindHoldsCode
    <3>2. task'[t].pc = "idle" /\ \A u \in Tasks \ {t} : task'[u] = task[u]
      BY <2>1, ReleaseSteps
    <3>3. \A u \in Tasks, d \in Codes \ {c} : Holds(u, d)' <=> Holds(u, d)
      BY <2>3, <3>2 DEF Holds
    <3>4. \A d \in Codes \ {c} : d \in Expired' <=> d \in Expired
      BY <2>1, <3>3 DEF Expired
    <3>5. c \notin Expired
      BY <2>1, <2>3, <3>1 DEF Expired, Holds
    <3>6. Expired \subseteq Codes /\ Expired' \subseteq Codes
      BY <2>1 DEF Expired
    <3>7. CASE c \in Expired'
      <4>1. status[c] = "ACTIVE" /\ Expired' = Expired \cup {c}
        BY <2>1, <3>1, <3>4, <3>6, <3>7 DEF Expired
      <4>2. Promise!Lapse(c)
        BY <1>0, <2>1, <4>1 DEF Promise!Lapse
      <4>. QED
        BY <3>1, <4>2 DEF Promise!Next
    <3>8. CASE c \notin Expired'
      <4>1. Expired' = Expired
        <5>1. \A d : d \in Expired' <=> d \in Expired
          <6> HIDE DEF c
          <6>. QED
            BY <3>4, <3>5, <3>6, <3>8
        <5>. QED
          BY <5>1, Zenon
      <4>. QED
        BY <1>0, <2>1, <4>1
    <3>. QED
      BY <3>7, <3>8
  <2>. QED
    BY <2>2, <2>3
<1>11. CASE UNCHANGED vars
  <2>1. \A u \in Tasks, d \in Codes : Holds(u, d)' <=> Holds(u, d)
    BY <1>11 DEF vars, Holds
  <2>. QED
    BY <1>11, <2>1, ExpiredKept DEF vars, table
<1>12. ASSUME NEW t \in Tasks, NEW e \in Employees,
              DisconnectRead(t, e) \/ LeaveRead(t, e) \/ ReturnRead(t, e)
       PROVE  UNCHANGED <<status, Expired, working, linked, alone>>
  BY <1>4, <1>12 DEF DisconnectRead, LeaveRead, ReturnRead, Ops
<1>. QED
  BY <1>1, <1>2, <1>3, <1>5, <1>8, <1>9, <1>10, <1>11, <1>12 DEF Next, Commit

(* Whatever the handlers do, together or one by one, committed or not, is  *)
(* what the codes promise.                                                 *)
THEOREM KeepsPromiseAlways == Spec => KeepsPromise
<1>1. Init => Promise!Init
  <2> SUFFICES ASSUME Init PROVE Promise!Init
    OBVIOUS
  <2>1. Expired = {}
    BY DEF Init, Expired
  <2>. QED
    BY <2>1 DEF Init, Promise!Init
<1>2. TypeOK /\ ConnectionInv /\ SerialInv /\ [Next]_vars => [Promise!Next]_(Promise!vars)
  BY NextKeepsPromise DEF Promise!vars
<1>. QED
  BY <1>1, <1>2, SerialAlways, PTL DEF Spec, KeepsPromise, Promise!Spec
=============================================================================
