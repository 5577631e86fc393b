--------------------------- MODULE Refresh_proofs ---------------------------
(***************************************************************************)
(* Proofs about Refresh, for any staff, branches, reports, number of       *)
(* handlers in flight and number of changes in YCLIENTS.                   *)
(***************************************************************************)
EXTENDS Refresh, FiniteSetTheorems, WellFoundedInduction, TLAPS

(* A set of numbers that is not empty has a least one, which Min is.       *)
LEMMA MinIsMember ==
  ASSUME NEW S \in SUBSET Nat, S # {}
  PROVE  /\ Min(S) \in S
         /\ \A y \in S : Min(S) <= y
<1> DEFINE Less == {p \in Nat \X Nat : p[1] < p[2]}
<1>1. IsWellFoundedOn(Less, Nat)
  BY NatLessThanWellFounded DEF OpToRel
<1>2. PICK x \in S : \A y \in S : ~ (<<y, x>> \in Less)
  <2> HIDE DEF Less
  <2>. QED
    BY <1>1, WFMin
<1>3. ASSUME NEW y \in S PROVE x <= y
  <2>1. x \in Nat /\ y \in Nat
    OBVIOUS
  <2>2. ~ (<<y, x>> \in Less)
    BY <1>2
  <2>. QED
    BY <2>1, <2>2
<1>. QED
  BY <1>2, <1>3 DEF Min

-----------------------------------------------------------------------------
(* What a handler is working on.                                           *)

Working(t) == task[t].pc \in {"asking", "select", "flush"}

WorkOK ==
  \A t \in Tasks :
    /\ {} \notin task[t].todo
    /\ Working(t) => task[t].todo # {}
    /\ At(t, "flush") => task[t].rest # {}

LEMMA UnitIsInTodo ==
  ASSUME NEW t \in Tasks, TypeOK, WorkOK, task[t].todo # {}
  PROVE  /\ Unit(t) \in task[t].todo
         /\ Unit(t) \in SUBSET Staff
         /\ Unit(t) # {}
<1> DEFINE T == task[t].todo
           Least == {Min(u) : u \in T}
<1>1. T \in SUBSET SUBSET Staff /\ {} \notin T
  BY DEF TypeOK, Task, WorkOK
<1>2. \A u \in T : Min(u) \in Nat
  <2>1. \A u \in T : u \in SUBSET Nat /\ u # {}
    BY <1>1, StaffAssumption DEF StaffAssumption
  <2>. QED
    BY <2>1, MinIsMember
<1>3. Least \in SUBSET Nat /\ Least # {}
  BY <1>2
<1>4. PICK u \in T : Min(u) = Min(Least)
  BY <1>3, MinIsMember
<1>5. \A w \in T : Min(u) <= Min(w)
  BY <1>3, <1>4, MinIsMember
<1>6. Unit(t) \in T
  BY <1>4, <1>5 DEF Unit
<1>. QED
  BY <1>1, <1>6

LEMMA KeyIsKey ==
  ASSUME NEW t \in Tasks, TypeOK, WorkOK, task[t].todo # {}
  PROVE  Key(t) \in Keys
<1> DEFINE e == CHOOSE e \in Unit(t) : TRUE
<1>1. e \in Staff
  BY UnitIsInTodo
<1>2. BranchOf[e] \in Branches
  BY <1>1 DEF Branches
<1>3. <<"employee", e>> \in Keys /\ <<"branch", BranchOf[e]>> \in Keys
  <2> HIDE DEF e
  <2>. QED
    BY <1>1, <1>2 DEF Keys
<1>. QED
  BY <1>3 DEF Key

LEMMA WritingIsWritten ==
  ASSUME NEW t \in Tasks, TypeOK, task[t].rest # {}
  PROVE  Writing(t) \in task[t].rest /\ Writing(t) \in Staff
<1>1. task[t].rest \in SUBSET Staff /\ task[t].rest \in SUBSET Nat
  BY StaffAssumption DEF StaffAssumption, TypeOK, Task
<1>. QED
  BY <1>1, MinIsMember DEF Writing

LEMMA WrittenInUnit ==
  ASSUME NEW t \in Tasks
  PROVE  Written(t) \in SUBSET Unit(t)
BY DEF Written

LEMMA UnitsAreStaff ==
  ASSUME NEW scope \in SUBSET Staff, NEW mode \in Modes
  PROVE  Units(scope, mode) \in SUBSET SUBSET Staff /\ {} \notin Units(scope, mode)
BY DEF Units

LEMMA UpdatedIsRow ==
  ASSUME NEW row \in Rows, NEW seen \in Rows, NEW new \in Row, seen # NoRow => row # NoRow
  PROVE  Updated(row, seen, new) \in Row
<1>1. CASE seen = NoRow
  BY <1>1 DEF Updated
<1>2. CASE seen # NoRow
  <2>1. row \in Row /\ seen \in Row
    BY <1>2 DEF Rows
  <2>2. [c \in {"cuts", "money"} |-> IF seen[c] = new[c] THEN row[c] ELSE new[c]] \in Row
    BY <2>1 DEF Row
  <2>. QED
    BY <1>2, <2>2 DEF Updated
<1>. QED
  BY <1>1, <1>2

-----------------------------------------------------------------------------
(* Types, the work left, and that a row once stored is not removed.        *)

SeenOK == \A t \in Tasks : At(t, "flush") /\ task[t].seen # NoRow => stat[Writing(t)] # NoRow

TInv == TypeOK /\ WorkOK /\ SeenOK

LEMMA IdleIsTask == Idle \in Task
BY DEF Idle, Task, NoFigures, Row, Rows, Modes

(* What a step of one handler has to show.                                 *)
LEMMA OneHandler ==
  ASSUME TInv, NEW t \in Tasks, NEW w \in Task, task' = [task EXCEPT ![t] = w],
         {} \notin w.todo,
         w.pc \in {"asking", "select", "flush"} => w.todo # {},
         w.pc = "flush" => w.rest # {} /\ (w.seen # NoRow => stat'[Min(w.rest)] # NoRow),
         \A e \in Staff : stat[e] # NoRow => stat'[e] # NoRow
  PROVE  task' \in [Tasks -> Task] /\ WorkOK' /\ SeenOK'
<1> USE DEF TInv, TypeOK
<1>1. task' \in [Tasks -> Task] /\ task'[t] = w /\ \A u \in Tasks \ {t} : task'[u] = task[u]
  OBVIOUS
<1>2. WorkOK'
  BY <1>1 DEF WorkOK, Working, At
<1>3. ASSUME NEW u \in Tasks, At(u, "flush")', (task[u].seen # NoRow)'
      PROVE  (stat[Writing(u)] # NoRow)'
  <2>1. CASE u = t
    BY <1>1, <1>3, <2>1 DEF At, Writing
  <2>2. CASE u # t
    <3>1. At(u, "flush") /\ task[u].seen # NoRow /\ task[u].rest # {} /\ Writing(u)' = Writing(u)
      BY <1>1, <1>3, <2>2 DEF At, Writing, WorkOK
    <3>2. Writing(u) \in Staff /\ stat[Writing(u)] # NoRow
      BY <3>1, WritingIsWritten DEF SeenOK
    <3>. QED
      BY <3>1, <3>2
  <2>. QED
    BY <2>1, <2>2
<1>. QED
  BY <1>1, <1>2, <1>3 DEF SeenOK

LEMMA TInvInductive ==
  ASSUME TInv, [Next]_vars
  PROVE  TInv'
<1> USE DEF TInv
<1>0. ASSUME NEW t \in Tasks PROVE task[t] \in Task /\ {} \notin task[t].todo
  BY DEF TypeOK, WorkOK
<1>1. ASSUME NEW e \in Staff, Change(e) PROVE TInv'
  <2>1. remote' \in [Staff -> Row] /\ recorded' \in SUBSET Staff
    <3>1. /\ [remote[e] EXCEPT !.money = @ + 1] \in Row
          /\ [cuts |-> remote[e].cuts + 1, money |-> remote[e].money + 1] \in Row
      <4>1. remote[e] \in Row
        BY DEF TypeOK
      <4>. QED
        BY <4>1 DEF Row
    <3>2. \/ remote' = [remote EXCEPT ![e] = [cuts |-> remote[e].cuts + 1,
                                             money |-> remote[e].money + 1]]
          \/ remote' = [remote EXCEPT ![e] = [remote[e] EXCEPT !.money = @ + 1]]
      BY <1>1 DEF Change, TypeOK
    <3>3. recorded' \in SUBSET Staff
      BY <1>1 DEF Change, TypeOK
    <3>. QED
      BY <3>1, <3>2, <3>3 DEF TypeOK
  <2>. QED
    BY <1>1, <2>1 DEF Change, TypeOK, WorkOK, SeenOK, Working, At, Writing
<1>2. ASSUME NEW k \in Keys, Expire(k) PROVE TInv'
  BY <1>2 DEF Expire, TypeOK, WorkOK, SeenOK, Working, At, Writing
<1>3. ASSUME NEW t \in Tasks, NEW r \in Reports, Begin(t, r[1], r[2]) PROVE TInv'
  <2> DEFINE w == [Idle EXCEPT !.pc = "units", !.mode = r[2], !.todo = Units(r[1], r[2])]
  <2>1. r[1] \in SUBSET Staff /\ r[2] \in Modes
    BY ReportsAssumption DEF ReportsAssumption
  <2>2. w \in Task /\ w.pc = "units" /\ {} \notin w.todo
    <3>1. Units(r[1], r[2]) \in SUBSET SUBSET Staff /\ {} \notin Units(r[1], r[2])
      BY <2>1, UnitsAreStaff
    <3>. QED
      BY <2>1, <3>1, IdleIsTask DEF Task
  <2>3. task' = [task EXCEPT ![t] = w] /\ stat' = stat
    BY <1>3 DEF Begin
  <2>4. task' \in [Tasks -> Task] /\ WorkOK' /\ SeenOK'
    <3> HIDE DEF w
    <3>. QED
      BY <2>2, <2>3, OneHandler
  <2>5. Nothing \in [Keys -> [Staff -> Rows]] /\ Alone(t) \in BOOLEAN
    BY DEF Nothing, Rows, Alone
  <2>. QED
    BY <1>3, <2>4, <2>5 DEF Begin, TypeOK
<1>4. ASSUME NEW t \in Tasks, Skip(t) PROVE TInv'
  <2> DEFINE w == [task[t] EXCEPT !.todo = @ \ {Unit(t)}]
  <2>1. w \in Task /\ w.pc = "units" /\ {} \notin w.todo
    BY <1>0, <1>4 DEF Skip, Busy, At, Task
  <2>2. task' = [task EXCEPT ![t] = w] /\ stat' = stat
    BY <1>4 DEF Skip
  <2>3. task' \in [Tasks -> Task] /\ WorkOK' /\ SeenOK'
    <3> HIDE DEF w
    <3>. QED
      BY <2>1, <2>2, OneHandler
  <2>. QED
    BY <1>4, <2>3 DEF Skip, TypeOK
<1>5. ASSUME NEW t \in Tasks, Ask(t) PROVE TInv'
  <2> DEFINE w == [task[t] EXCEPT !.pc = "asking"]
  <2>1. w \in Task /\ w.pc = "asking" /\ {} \notin w.todo /\ w.todo # {}
    BY <1>0, <1>5 DEF Ask, Busy, At, Task
  <2>2. task' = [task EXCEPT ![t] = w] /\ stat' = stat
    BY <1>5 DEF Ask
  <2>3. task' \in [Tasks -> Task] /\ WorkOK' /\ SeenOK'
    <3> HIDE DEF w
    <3>. QED
      BY <2>1, <2>2, OneHandler
  <2>. QED
    BY <1>5, <2>3 DEF Ask, TypeOK
<1>6. ASSUME NEW t \in Tasks, Owe(t), WorkOK, task[t].todo # {}
      PROVE  owed' \in [Keys -> [Staff -> Rows]]
  <2>1. [e \in Staff |-> IF e \in Unit(t) \cap recorded THEN remote[e] ELSE NoRow] \in [Staff -> Rows]
    BY DEF TypeOK, Rows
  <2>. QED
    BY <1>6, <2>1 DEF Owe, TypeOK
<1>7. ASSUME NEW t \in Tasks, Receive(t) PROVE TInv'
  <2> DEFINE answer == [e \in Staff |-> IF e \in Unit(t) THEN remote[e] ELSE NoFigures]
             w == [task[t] EXCEPT !.pc = "select", !.rest = Written(t), !.answer = answer]
  <2>1. task[t].todo # {}
    BY <1>7 DEF Receive, At, WorkOK, Working
  <2>2. Written(t) \in SUBSET Staff
    BY <2>1, UnitIsInTodo, WrittenInUnit
  <2>3. answer \in [Staff -> Row]
    BY DEF TypeOK, NoFigures, Row
  <2>4. w \in Task /\ w.pc = "select" /\ {} \notin w.todo /\ w.todo # {}
    <3> HIDE DEF answer
    <3>. QED
      BY <1>0, <2>1, <2>2, <2>3 DEF Task
  <2>5. task' = [task EXCEPT ![t] = w] /\ stat' = stat
    BY <1>7 DEF Receive
  <2>6. task' \in [Tasks -> Task] /\ WorkOK' /\ SeenOK'
    <3> HIDE DEF w
    <3>. QED
      BY <2>4, <2>5, OneHandler
  <2>7. owed' \in [Keys -> [Staff -> Rows]]
    BY <1>6, <1>7, <2>1 DEF Receive
  <2>8. late' \in [Keys -> Nat]
    BY <1>7 DEF Receive, TypeOK
  <2>. QED
    BY <1>7, <2>6, <2>7, <2>8 DEF Receive, TypeOK
<1>8. ASSUME NEW t \in Tasks, AskFails(t) PROVE TInv'
  <2>1. PICK todo \in {{}, task[t].todo \ {Unit(t)}} :
          task' = [task EXCEPT ![t].pc = "units", ![t].todo = todo]
    BY <1>8 DEF AskFails
  <2> DEFINE w == [task[t] EXCEPT !.pc = "units", !.todo = todo]
  <2>2. w \in Task /\ w.pc = "units" /\ {} \notin w.todo
    BY <1>0 DEF Task
  <2>3. task' = [task EXCEPT ![t] = w] /\ stat' = stat
    BY <1>8, <2>1 DEF AskFails
  <2>4. task' \in [Tasks -> Task] /\ WorkOK' /\ SeenOK'
    <3> HIDE DEF w
    <3>. QED
      BY <2>2, <2>3, OneHandler
  <2>5. owed' \in [Keys -> [Staff -> Rows]]
    BY <1>6, <1>8 DEF AskFails, At, WorkOK, Working
  <2>. QED
    BY <1>8, <2>4, <2>5 DEF AskFails, TypeOK
<1>9. ASSUME NEW t \in Tasks, Select(t) PROVE TInv'
  <2> DEFINE w == [task[t] EXCEPT !.pc = "flush", !.seen = stat[Writing(t)]]
  <2>1. task[t].rest # {} /\ task[t].todo # {}
    BY <1>9 DEF Select, At, WorkOK, Working
  <2>2. stat[Writing(t)] \in Rows
    BY <2>1, WritingIsWritten DEF TypeOK
  <2>3. /\ w \in Task /\ w.pc = "flush" /\ {} \notin w.todo /\ w.todo # {} /\ w.rest # {}
        /\ w.seen = stat[Min(w.rest)]
    BY <1>0, <2>1, <2>2 DEF Task, Writing
  <2>4. task' = [task EXCEPT ![t] = w] /\ stat' = stat
    BY <1>9 DEF Select
  <2>5. task' \in [Tasks -> Task] /\ WorkOK' /\ SeenOK'
    <3> HIDE DEF w
    <3>. QED
      BY <2>3, <2>4, OneHandler
  <2>. QED
    BY <1>9, <2>5 DEF Select, TypeOK
<1>10. ASSUME NEW t \in Tasks PROVE Released(t) \in [Staff -> Tasks \cup {NoTask}]
  BY DEF Released, TypeOK
<1>11. ASSUME NEW t \in Tasks, task' = [task EXCEPT ![t].pc = "broken"], stat' = stat
       PROVE  task' \in [Tasks -> Task] /\ WorkOK' /\ SeenOK'
  <2> DEFINE w == [task[t] EXCEPT !.pc = "broken"]
  <2>1. w \in Task /\ w.pc = "broken" /\ {} \notin w.todo
    BY <1>0 DEF Task
  <2>2. task' = [task EXCEPT ![t] = w]
    BY <1>11
  <2> HIDE DEF w
  <2>. QED
    BY <1>11, <2>1, <2>2, OneHandler
<1>12. ASSUME NEW t \in Tasks, Flush(t) PROVE TInv'
  <2> DEFINE e == Writing(t)
             row == IF Differs(t) THEN Updated(stat[e], task[t].seen, task[t].answer[e]) ELSE NoRow
             pending == [task[t].pending EXCEPT ![e] = row]
             w == [task[t] EXCEPT !.pc = "select", !.rest = @ \ {e}, !.seen = NoRow,
                                  !.pending = pending]
  <2>1. task[t].rest # {} /\ task[t].todo # {} /\ e \in Staff
    BY <1>12, WritingIsWritten DEF Flush, At, WorkOK, Working
  <2>2. CASE task[t].seen = NoRow /\ stat[e] # NoRow
    BY <1>10, <1>11, <1>12, <2>2 DEF Flush, TypeOK
  <2>3. CASE ~(task[t].seen = NoRow /\ stat[e] # NoRow)
    <3>1. task[t].seen # NoRow => stat[e] # NoRow
      BY <1>12, <2>3 DEF Flush, SeenOK
    <3>2. task[t].seen \in Rows /\ task[t].answer[e] \in Row /\ stat[e] \in Rows
      BY <2>1 DEF TypeOK, Task
    <3>3. row \in Rows
      BY <3>1, <3>2, UpdatedIsRow DEF Rows
    <3>4. w \in Task /\ w.pc = "select" /\ {} \notin w.todo /\ w.todo # {}
      <4>1. pending \in [Staff -> Rows]
        <5>1. task[t].pending \in [Staff -> Rows]
          BY <1>0 DEF Task
        <5> HIDE DEF row, e
        <5>. QED
          BY <3>3, <5>1
      <4>2. NoRow \in Rows
        BY DEF Rows
      <4> HIDE DEF pending, e
      <4>. QED
        BY <1>0, <2>1, <4>1, <4>2 DEF Task
    <3>5. task' = [task EXCEPT ![t] = w] /\ stat' = stat
      BY <1>12, <2>3 DEF Flush
    <3>6. task' \in [Tasks -> Task] /\ WorkOK' /\ SeenOK'
      <4> HIDE DEF w
      <4>. QED
        BY <3>4, <3>5, OneHandler
    <3>7. lock' \in [Staff -> Tasks \cup {NoTask}]
      BY <1>12, <2>1, <2>3 DEF Flush, TypeOK
    <3>. QED
      BY <1>12, <3>6, <3>7 DEF Flush, TypeOK
  <2>. QED
    BY <2>2, <2>3
<1>13. ASSUME NEW t \in Tasks, Mark(t) PROVE TInv'
  <2> DEFINE w == [task[t] EXCEPT !.pc = "units", !.todo = @ \ {Unit(t)}, !.answer = Idle.answer]
  <2>1. Idle.answer \in [Staff -> Row]
    BY IdleIsTask DEF Task
  <2>2. w \in Task /\ w.pc = "units" /\ {} \notin w.todo
    BY <1>0, <2>1 DEF Task
  <2>3. task' = [task EXCEPT ![t] = w] /\ stat' = stat
    BY <1>13 DEF Mark
  <2>4. task' \in [Tasks -> Task] /\ WorkOK' /\ SeenOK'
    <3> HIDE DEF w
    <3>. QED
      BY <2>2, <2>3, OneHandler
  <2>5. Key(t) \in Keys
    BY <1>13, KeyIsKey DEF Mark, At, WorkOK, Working
  <2>6. cache' \in SUBSET Keys /\ late' \in [Keys -> Nat]
    BY <1>13, <2>5 DEF Mark, TypeOK
  <2>. QED
    BY <1>13, <2>4, <2>6 DEF Mark, TypeOK
<1>14. ASSUME NEW t \in Tasks, DeadlockAbort(t) PROVE TInv'
  BY <1>10, <1>11, <1>14 DEF DeadlockAbort, TypeOK
<1>15. ASSUME NEW t \in Tasks, NEW rows \in [Staff -> Rows], End(t, rows),
              \A e \in Staff : stat[e] # NoRow => rows[e] # NoRow
       PROVE  /\ stat' \in [Staff -> Rows] /\ settled' \in [Staff -> Rows]
              /\ lock' \in [Staff -> Tasks \cup {NoTask}]
              /\ task' \in [Tasks -> Task] /\ WorkOK' /\ SeenOK'
  <2>1. stat' \in [Staff -> Rows] /\ settled' \in [Staff -> Rows]
        /\ lock' \in [Staff -> Tasks \cup {NoTask}]
    BY <1>10, <1>15 DEF End, TypeOK
  <2>2. task' \in [Tasks -> Task] /\ WorkOK' /\ SeenOK'
    <3>1. {} \notin Idle.todo /\ Idle.pc = "idle"
      BY DEF Idle
    <3>2. task' = [task EXCEPT ![t] = Idle] /\ stat' = rows
      BY <1>15 DEF End
    <3>. QED
      BY <1>15, <3>1, <3>2, IdleIsTask, OneHandler
  <2>. QED
    BY <2>1, <2>2
<1>16. ASSUME NEW t \in Tasks, Commit(t) PROVE TInv'
  <2> DEFINE rows == [e \in Staff |-> IF task[t].pending[e] = NoRow THEN stat[e]
                                      ELSE task[t].pending[e]]
  <2>1. rows \in [Staff -> Rows] /\ \A e \in Staff : stat[e] # NoRow => rows[e] # NoRow
    BY DEF TypeOK, Task
  <2>2. End(t, rows)
    BY <1>16 DEF Commit
  <2> HIDE DEF rows
  <2>. QED
    BY <1>15, <1>16, <2>1, <2>2 DEF Commit, TypeOK
<1>17. ASSUME NEW t \in Tasks, Rollback(t) PROVE TInv'
  <2>1. stat \in [Staff -> Rows] /\ End(t, stat)
    BY <1>17 DEF Rollback, TypeOK
  <2>2. owed' \in [Keys -> [Staff -> Rows]]
    BY <1>17 DEF Rollback, Nothing, Rows
  <2>. QED
    BY <1>15, <1>17, <2>1, <2>2 DEF Rollback, TypeOK
<1>18. CASE UNCHANGED vars
  BY <1>18 DEF vars, TypeOK, WorkOK, SeenOK, Working, At, Writing
<1>. QED
  BY <1>1, <1>2, <1>3, <1>4, <1>5, <1>7, <1>8, <1>9, <1>12, <1>13, <1>14, <1>16, <1>17, <1>18
     DEF Next

LEMMA InitTInv == Init => TInv
<1> SUFFICES ASSUME Init PROVE TInv
  OBVIOUS
<1>1. TypeOK
  BY IdleIsTask DEF Init, TypeOK, NoFigures, Row, Rows, Nothing
<1>2. WorkOK /\ SeenOK
  BY DEF Init, WorkOK, SeenOK, Working, At, Idle
<1>. QED
  BY <1>1, <1>2 DEF TInv

(* Every variable keeps its type, whatever the staff and the reports.      *)
THEOREM TypeCorrect == Spec => []TypeOK
<1>1. TInv => TypeOK
  BY DEF TInv
<1>. QED
  BY <1>1, InitTInv, TInvInductive, PTL DEF Spec

-----------------------------------------------------------------------------
(* Nothing that is stored, or about to be, is older than the rows of the   *)
(* last quiet moment, or newer than YCLIENTS.                              *)

Between(low, row, high) == AtLeast(row, low) /\ AtLeast(high, row)

Writes(w) == w.pc \in {"select", "flush"}

WorkBetween(w) ==
  \A e \in Staff :
    /\ Writes(w) /\ e \in w.rest => Between(settled[e], w.answer[e], remote[e])
    /\ w.pc # "idle" /\ w.pending[e] # NoRow => Between(settled[e], w.pending[e], remote[e])

QuietOK ==
  /\ \A e \in Staff : Between(settled[e], stat[e], remote[e])
  /\ \A t \in Tasks : WorkBetween(task[t])

LEMMA NoRowIsNotRow == NoRow \notin Row
BY NoRowAssumption DEF NoRowAssumption, Row

LEMMA AtLeastReflexive ==
  ASSUME NEW row \in Rows
  PROVE  AtLeast(row, row)
BY NoRowIsNotRow DEF AtLeast, Rows, Row

LEMMA AtLeastTransitive ==
  ASSUME NEW x \in Rows, NEW y \in Rows, NEW z \in Rows, AtLeast(x, y), AtLeast(y, z)
  PROVE  AtLeast(x, z)
BY DEF AtLeast, Rows, Row

(* The columns kept and the columns updated are both in between.           *)
LEMMA UpdatedBetween ==
  ASSUME NEW row \in Rows, NEW seen \in Rows, NEW new \in Row, NEW low \in Rows, NEW high \in Row,
         seen # NoRow => row # NoRow, Between(low, row, high), Between(low, new, high)
  PROVE  Between(low, Updated(row, seen, new), high)
<1>1. CASE seen = NoRow
  BY <1>1 DEF Updated
<1>2. CASE seen # NoRow
  <2> DEFINE u == Updated(row, seen, new)
  <2>1. row \in Row /\ row # NoRow /\ new # NoRow /\ high # NoRow
    BY <1>2, NoRowIsNotRow DEF Rows
  <2>2. u \in Row /\ u # NoRow
    BY <2>1, NoRowIsNotRow, UpdatedIsRow
  <2>3. u.cuts \in {row.cuts, new.cuts} /\ u.money \in {row.money, new.money}
    BY <1>2 DEF Updated
  <2>4. low = NoRow \/ (low \in Row /\ low # NoRow)
    BY NoRowIsNotRow DEF Rows
  <2> HIDE DEF u
  <2>5. AtLeast(u, low)
    BY <2>1, <2>2, <2>3, <2>4 DEF Between, AtLeast, Row
  <2>6. AtLeast(high, u)
    BY <2>1, <2>2, <2>3 DEF Between, AtLeast, Row
  <2>. QED
    BY <2>5, <2>6 DEF Between, u
<1>. QED
  BY <1>1, <1>2

LEMMA OneHandlerBetween ==
  ASSUME TypeOK, QuietOK, NEW t \in Tasks, NEW w, task' = [task EXCEPT ![t] = w],
         UNCHANGED <<remote, stat, settled>>, WorkBetween(w)
  PROVE  QuietOK'
<1>1. task'[t] = w /\ \A u \in Tasks \ {t} : task'[u] = task[u]
  BY DEF TypeOK
<1>2. \A u \in Tasks : WorkBetween(task'[u])
  BY <1>1 DEF QuietOK
<1>3. \A u \in Tasks : WorkBetween(task[u])'
  BY <1>2 DEF WorkBetween
<1>. QED
  BY <1>3 DEF QuietOK

LEMMA EndBetween ==
  ASSUME TInv, QuietOK, NEW t \in Tasks, NEW rows \in [Staff -> Rows], End(t, rows),
         remote' = remote, \A e \in Staff : Between(settled[e], rows[e], remote[e])
  PROVE  QuietOK'
<1> USE DEF TInv
<1>1. task'[t] = Idle /\ (\A u \in Tasks \ {t} : task'[u] = task[u]) /\ stat' = rows
  BY DEF End, TypeOK
<1>2. CASE ~Alone(t)
  <2>1. settled' = settled
    BY <1>2 DEF End
  <2>2. WorkBetween(Idle)
    BY DEF WorkBetween, Idle, Writes
  <2>3. \A u \in Tasks : WorkBetween(task'[u])
    BY <1>1, <2>2 DEF QuietOK
  <2>4. \A u \in Tasks : WorkBetween(task[u])'
    BY <2>1, <2>3 DEF WorkBetween
  <2>. QED
    BY <1>1, <2>1, <2>4 DEF QuietOK
<1>3. CASE Alone(t)
  <2>1. settled' = rows
    BY <1>3 DEF End
  <2>2. \A u \in Tasks : task'[u].pc = "idle"
    BY <1>1, <1>3 DEF Alone, InFlight, Idle
  <2>3. \A u \in Tasks : WorkBetween(task[u])'
    BY <2>2 DEF WorkBetween, Writes
  <2>4. \A e \in Staff : Between(settled[e], stat[e], remote[e])'
    BY <1>1, <2>1, AtLeastReflexive DEF Between
  <2>. QED
    BY <2>3, <2>4 DEF QuietOK
<1>. QED
  BY <1>2, <1>3

LEMMA QuietInductive ==
  ASSUME TInv, QuietOK, [Next]_vars
  PROVE  QuietOK'
<1> USE DEF TInv
<1>0. ASSUME NEW t \in Tasks PROVE task[t] \in Task /\ WorkBetween(task[t])
  BY DEF TypeOK, QuietOK
<1>1. ASSUME NEW e \in Staff, Change(e) PROVE QuietOK'
  <2>1. \A f \in Staff : remote[f] \in Row /\ remote'[f] \in Row /\ AtLeast(remote'[f], remote[f])
    <3>1. remote \in [Staff -> Row] /\ remote' \in [Staff -> Row]
      BY <1>1, TInvInductive DEF Next, TypeOK
    <3>2. /\ remote'[e].cuts >= remote[e].cuts /\ remote'[e].money >= remote[e].money
          /\ \A f \in Staff \ {e} : remote'[f] = remote[f]
      BY <1>1, <3>1 DEF Change, Row
    <3>3. \A f \in Staff : remote'[f] \in Row /\ remote[f] \in Row
      BY <3>1
    <3>. QED
      BY <3>2, <3>3, NoRowIsNotRow DEF AtLeast, Row
  <2>2. ASSUME NEW f \in Staff, NEW low \in Rows, NEW row \in Rows, Between(low, row, remote[f])
        PROVE  Between(low, row, remote'[f])
    BY <2>1, <2>2, AtLeastTransitive DEF Between, Rows
  <2>3. stat' = stat /\ settled' = settled /\ task' = task
    BY <1>1 DEF Change
  <2>4. \A f \in Staff : settled[f] \in Rows /\ stat[f] \in Rows
    BY DEF TypeOK
  <2>5. \A t \in Tasks, f \in Staff : task[t].answer[f] \in Rows /\ task[t].pending[f] \in Rows
    BY <1>0 DEF Task, Rows
  <2>6. \A f \in Staff : Between(settled[f], stat[f], remote[f])'
    BY <2>2, <2>3, <2>4 DEF QuietOK
  <2>7. ASSUME NEW t \in Tasks PROVE WorkBetween(task[t])'
    BY <1>0, <2>2, <2>3, <2>4, <2>5 DEF WorkBetween
  <2>. QED
    BY <2>6, <2>7 DEF QuietOK
<1>2. ASSUME NEW k \in Keys, Expire(k) PROVE QuietOK'
  BY <1>2 DEF Expire, QuietOK, WorkBetween
<1>3. ASSUME NEW t \in Tasks, NEW r \in Reports, Begin(t, r[1], r[2]) PROVE QuietOK'
  <2> DEFINE w == [Idle EXCEPT !.pc = "units", !.mode = r[2], !.todo = Units(r[1], r[2])]
  <2>1. WorkBetween(w)
    BY DEF WorkBetween, Idle, Writes
  <2>2. task' = [task EXCEPT ![t] = w] /\ UNCHANGED <<remote, stat, settled>>
    BY <1>3 DEF Begin
  <2> HIDE DEF w
  <2>. QED
    BY <2>1, <2>2, OneHandlerBetween
<1>4. ASSUME NEW t \in Tasks, Skip(t) PROVE QuietOK'
  <2> DEFINE w == [task[t] EXCEPT !.todo = @ \ {Unit(t)}]
  <2>1. WorkBetween(w)
    BY <1>0 DEF Task, WorkBetween, Writes
  <2>2. task' = [task EXCEPT ![t] = w] /\ UNCHANGED <<remote, stat, settled>>
    BY <1>4 DEF Skip
  <2> HIDE DEF w
  <2>. QED
    BY <2>1, <2>2, OneHandlerBetween
<1>5. ASSUME NEW t \in Tasks, Ask(t) PROVE QuietOK'
  <2> DEFINE w == [task[t] EXCEPT !.pc = "asking"]
  <2>1. WorkBetween(w)
    BY <1>0, <1>5 DEF Ask, Busy, At, Task, WorkBetween, Writes
  <2>2. task' = [task EXCEPT ![t] = w] /\ UNCHANGED <<remote, stat, settled>>
    BY <1>5 DEF Ask
  <2> HIDE DEF w
  <2>. QED
    BY <2>1, <2>2, OneHandlerBetween
<1>6. ASSUME NEW t \in Tasks, Receive(t) PROVE QuietOK'
  <2> DEFINE answer == [e \in Staff |-> IF e \in Unit(t) THEN remote[e] ELSE NoFigures]
             w == [task[t] EXCEPT !.pc = "select", !.rest = Written(t), !.answer = answer]
  <2>1. \A e \in Staff : e \in Written(t) => answer[e] = remote[e]
    BY WrittenInUnit
  <2>2. \A e \in Staff : Between(settled[e], remote[e], remote[e])
    <3>1. \A e \in Staff : remote[e] \in Rows /\ stat[e] \in Rows /\ settled[e] \in Rows
      BY DEF TypeOK, Rows
    <3>. QED
      BY <3>1, AtLeastReflexive, AtLeastTransitive DEF Between, QuietOK
  <2>3. WorkBetween(w)
    <3> HIDE DEF answer
    <3>. QED
      BY <1>0, <1>6, <2>1, <2>2 DEF Receive, At, Task, WorkBetween, Writes
  <2>4. task' = [task EXCEPT ![t] = w] /\ UNCHANGED <<remote, stat, settled>>
    BY <1>6 DEF Receive
  <2> HIDE DEF w
  <2>. QED
    BY <2>3, <2>4, OneHandlerBetween
<1>7. ASSUME NEW t \in Tasks, AskFails(t) PROVE QuietOK'
  <2>1. PICK todo \in {{}, task[t].todo \ {Unit(t)}} :
          task' = [task EXCEPT ![t].pc = "units", ![t].todo = todo]
    BY <1>7 DEF AskFails
  <2> DEFINE w == [task[t] EXCEPT !.pc = "units", !.todo = todo]
  <2>2. WorkBetween(w)
    BY <1>0, <1>7 DEF AskFails, At, Task, WorkBetween, Writes
  <2>3. task' = [task EXCEPT ![t] = w] /\ UNCHANGED <<remote, stat, settled>>
    BY <1>7, <2>1 DEF AskFails
  <2> HIDE DEF w
  <2>. QED
    BY <2>2, <2>3, OneHandlerBetween
<1>8. ASSUME NEW t \in Tasks, Select(t) PROVE QuietOK'
  <2> DEFINE w == [task[t] EXCEPT !.pc = "flush", !.seen = stat[Writing(t)]]
  <2>1. WorkBetween(w)
    BY <1>0, <1>8 DEF Select, At, Task, WorkBetween, Writes
  <2>2. task' = [task EXCEPT ![t] = w] /\ UNCHANGED <<remote, stat, settled>>
    BY <1>8 DEF Select
  <2> HIDE DEF w
  <2>. QED
    BY <2>1, <2>2, OneHandlerBetween
<1>9. ASSUME NEW t \in Tasks, InFlight(t), task' = [task EXCEPT ![t].pc = "broken"],
             UNCHANGED <<remote, stat, settled>>
      PROVE  QuietOK'
  <2> DEFINE w == [task[t] EXCEPT !.pc = "broken"]
  <2>1. WorkBetween(w)
    BY <1>0, <1>9 DEF InFlight, Task, WorkBetween, Writes
  <2>2. task' = [task EXCEPT ![t] = w]
    BY <1>9
  <2> HIDE DEF w
  <2>. QED
    BY <1>9, <2>1, <2>2, OneHandlerBetween
<1>10. ASSUME NEW t \in Tasks, Flush(t) PROVE QuietOK'
  <2> DEFINE e == Writing(t)
             row == IF Differs(t) THEN Updated(stat[e], task[t].seen, task[t].answer[e]) ELSE NoRow
             pending == [task[t].pending EXCEPT ![e] = row]
             w == [task[t] EXCEPT !.pc = "select", !.rest = @ \ {e}, !.seen = NoRow,
                                  !.pending = pending]
  <2>1. task[t].rest # {} /\ e \in Staff /\ e \in task[t].rest /\ task[t].pc = "flush"
    BY <1>10, WritingIsWritten DEF Flush, At, WorkOK
  <2>2. CASE task[t].seen = NoRow /\ stat[e] # NoRow
    BY <1>9, <1>10, <2>1, <2>2 DEF Flush, InFlight
  <2>3. CASE ~(task[t].seen = NoRow /\ stat[e] # NoRow)
    <3>1. task[t].seen # NoRow => stat[e] # NoRow
      BY <1>10, <2>3 DEF Flush, SeenOK
    <3>2. /\ task[t].seen \in Rows /\ task[t].answer[e] \in Row /\ stat[e] \in Rows
          /\ settled[e] \in Rows /\ remote[e] \in Row
      BY <1>0, <2>1 DEF TypeOK, Task
    <3>3. Between(settled[e], stat[e], remote[e]) /\ Between(settled[e], task[t].answer[e], remote[e])
      BY <1>0, <2>1 DEF QuietOK, WorkBetween, Writes
    <3>4. row # NoRow => Between(settled[e], row, remote[e])
      BY <3>1, <3>2, <3>3, UpdatedBetween
    <3>5. pending[e] = row /\ \A f \in Staff \ {e} : pending[f] = task[t].pending[f]
      <4>1. task[t].pending \in [Staff -> Rows]
        BY <1>0 DEF Task
      <4> HIDE DEF row, e
      <4>. QED
        BY <2>1, <4>1
    <3>6. w.pc = "select" /\ w.rest = task[t].rest \ {e} /\ w.pending = pending /\ w.answer = task[t].answer
      <4> HIDE DEF pending, e
      <4>. QED
        BY <1>0 DEF Task
    <3>7. WorkBetween(w)
      <4> HIDE DEF w, pending, row, e
      <4>. QED
        BY <1>0, <2>1, <3>4, <3>5, <3>6 DEF WorkBetween, Writes
    <3>8. task' = [task EXCEPT ![t] = w] /\ UNCHANGED <<remote, stat, settled>>
      BY <1>10, <2>3 DEF Flush
    <3> HIDE DEF w
    <3>. QED
      BY <3>7, <3>8, OneHandlerBetween
  <2>. QED
    BY <2>2, <2>3
<1>11. ASSUME NEW t \in Tasks, Mark(t) PROVE QuietOK'
  <2> DEFINE w == [task[t] EXCEPT !.pc = "units", !.todo = @ \ {Unit(t)}, !.answer = Idle.answer]
  <2>1. WorkBetween(w)
    BY <1>0, <1>11 DEF Mark, At, Task, WorkBetween, Writes
  <2>2. task' = [task EXCEPT ![t] = w] /\ UNCHANGED <<remote, stat, settled>>
    BY <1>11 DEF Mark
  <2> HIDE DEF w
  <2>. QED
    BY <2>1, <2>2, OneHandlerBetween
<1>12. ASSUME NEW t \in Tasks, DeadlockAbort(t) PROVE QuietOK'
  <2>1. InFlight(t)
    BY <1>12 DEF DeadlockAbort, WaitsWithin, Blocked, At, InFlight
  <2>. QED
    BY <1>9, <1>12, <2>1 DEF DeadlockAbort
<1>13. ASSUME NEW t \in Tasks, Commit(t) PROVE QuietOK'
  <2> DEFINE rows == [e \in Staff |-> IF task[t].pending[e] = NoRow THEN stat[e]
                                      ELSE task[t].pending[e]]
  <2>1. rows \in [Staff -> Rows]
    BY <1>0 DEF TypeOK, Task
  <2>2. \A e \in Staff : Between(settled[e], rows[e], remote[e])
    BY <1>0, <1>13 DEF Commit, Ready, At, QuietOK, WorkBetween
  <2>3. End(t, rows) /\ remote' = remote
    BY <1>13 DEF Commit
  <2> HIDE DEF rows
  <2>. QED
    BY <2>1, <2>2, <2>3, EndBetween
<1>14. ASSUME NEW t \in Tasks, Rollback(t) PROVE QuietOK'
  <2>1. stat \in [Staff -> Rows] /\ End(t, stat) /\ remote' = remote
    BY <1>14 DEF Rollback, TypeOK
  <2>. QED
    BY <2>1, EndBetween DEF QuietOK
<1>15. CASE UNCHANGED vars
  BY <1>15 DEF vars, QuietOK, WorkBetween
<1>. QED
  BY <1>1, <1>2, <1>3, <1>4, <1>5, <1>6, <1>7, <1>8, <1>10, <1>11, <1>12, <1>13, <1>14, <1>15 DEF Next

LEMMA InitQuiet == Init => QuietOK
<1> SUFFICES ASSUME Init PROVE QuietOK
  OBVIOUS
<1>1. \A e \in Staff : Between(settled[e], stat[e], remote[e])
  BY DEF Init, Between, AtLeast
<1>2. \A t \in Tasks : WorkBetween(task[t])
  BY DEF Init, WorkBetween, Writes, Idle
<1>. QED
  BY <1>1, <1>2 DEF QuietOK

(* However many handlers refresh, fail and overtake each other, no stored  *)
(* column falls behind the last moment without a refresh.                  *)
THEOREM NeverBehindQuietAlways == Spec => []NeverBehindQuiet
<1>1. Init => TInv /\ QuietOK
  BY InitTInv, InitQuiet
<1>2. TInv /\ QuietOK /\ [Next]_vars => (TInv /\ QuietOK)'
  BY TInvInductive, QuietInductive
<1>3. TInv /\ QuietOK => NeverBehindQuiet
  BY DEF QuietOK, Between, NeverBehindQuiet
<1>. QED
  BY <1>1, <1>2, <1>3, PTL DEF Spec

-----------------------------------------------------------------------------
(* An answer that comes for a marked key takes one of those who wait for   *)
(* it, of whom there are no new ones while the key is marked.              *)

Askers(k) == {t \in Tasks : At(t, "asking") /\ Key(t) = k}

FetchOK ==
  \A k \in Keys : IF k \in cache THEN late[k] + Cardinality(Askers(k)) < Cardinality(Tasks)
                  ELSE late[k] = 0

LEMMA SubsetsOfTasks ==
  ASSUME NEW S \in SUBSET Tasks
  PROVE  /\ IsFiniteSet(S) /\ Cardinality(S) \in Nat /\ Cardinality(S) <= Cardinality(Tasks)
         /\ \A t \in S : Cardinality(S \ {t}) = Cardinality(S) - 1
         /\ S # Tasks => Cardinality(S) < Cardinality(Tasks)
<1> IsFiniteSet(Tasks)
  BY TasksAssumption DEF TasksAssumption
<1>1. IsFiniteSet(S) /\ Cardinality(S) <= Cardinality(Tasks)
      /\ (Cardinality(S) = Cardinality(Tasks) => S = Tasks)
  BY FS_Subset
<1>2. Cardinality(S) \in Nat /\ Cardinality(Tasks) \in Nat
  BY <1>1, FS_CardinalityType
<1>3. \A t \in S : Cardinality(S \ {t}) = Cardinality(S) - 1
  BY <1>1, FS_RemoveElement
<1>. QED
  BY <1>1, <1>2, <1>3

LEMMA SameKey ==
  ASSUME NEW t \in Tasks, task'[t].todo = task[t].todo, task'[t].mode = task[t].mode
  PROVE  Key(t)' = Key(t)
<1> DEFINE First(T) == CHOOSE u \in T : \A w \in T : Min(u) <= Min(w)
           KeyOf(mode, u) == LET e == CHOOSE e \in u : TRUE
                             IN IF mode = "employee" THEN <<"employee", e>>
                                ELSE <<"branch", BranchOf[e]>>
<1>1. Unit(t) = First(task[t].todo) /\ Unit(t)' = First(task'[t].todo)
  BY DEF Unit
<1>2. Unit(t)' = Unit(t)
  <2> HIDE DEF First
  <2>. QED
    BY <1>1
<1>3. Key(t) = KeyOf(task[t].mode, Unit(t)) /\ Key(t)' = KeyOf(task'[t].mode, Unit(t)')
  BY DEF Key
<1> HIDE DEF KeyOf
<1>. QED
  BY <1>2, <1>3

LEMMA AskersOfOthers ==
  ASSUME NEW t \in Tasks, \A u \in Tasks \ {t} : task'[u] = task[u], task'[t].pc # "asking", NEW k
  PROVE  Askers(k)' = Askers(k) \ {t}
<1>1. \A u \in Tasks \ {t} : At(u, "asking")' = At(u, "asking") /\ Key(u)' = Key(u)
  BY SameKey DEF At
<1>2. ~At(t, "asking")'
  BY DEF At
<1>. QED
  BY <1>1, <1>2 DEF Askers

LEMMA FewerAskers ==
  ASSUME TypeOK, FetchOK, cache' = cache, late' = late,
         \A k \in cache : Askers(k)' \in SUBSET Askers(k)
  PROVE  FetchOK'
<1>1. ASSUME NEW k \in Keys, k \in cache
      PROVE  late[k] + Cardinality(Askers(k)') < Cardinality(Tasks)
  <2>1. Askers(k) \in SUBSET Tasks
    BY DEF Askers
  <2>2. Cardinality(Askers(k)') <= Cardinality(Askers(k))
    BY <1>1, <2>1, SubsetsOfTasks, FS_Subset
  <2>3. Cardinality(Askers(k)) \in Nat /\ Cardinality(Askers(k)') \in Nat
    BY <1>1, <2>1, SubsetsOfTasks
  <2>4. Cardinality(Tasks) \in Nat /\ late[k] \in Nat
    BY SubsetsOfTasks DEF TypeOK
  <2>5. late[k] + Cardinality(Askers(k)) < Cardinality(Tasks)
    BY <1>1 DEF FetchOK
  <2>. QED
    BY <2>2, <2>3, <2>4, <2>5
<1>. QED
  BY <1>1 DEF FetchOK

LEMMA FetchInductive ==
  ASSUME TInv, FetchOK, [Next]_vars
  PROVE  FetchOK'
<1> USE DEF TInv
<1>1. CASE \/ \E e \in Staff : Change(e)
           \/ UNCHANGED vars
  <2>1. UNCHANGED <<task, cache, late>>
    BY <1>1 DEF Change, vars
  <2>. QED
    BY <2>1 DEF FetchOK, Askers, At, Key, Unit
<1>2. ASSUME NEW k \in Keys, Expire(k) PROVE FetchOK'
  <2>1. task' = task /\ cache' = cache \ {k} /\ late'[k] = 0
        /\ \A l \in Keys \ {k} : late'[l] = late[l]
    BY <1>2 DEF Expire, TypeOK
  <2>2. \A l \in Keys : Askers(l)' = Askers(l)
    BY <2>1 DEF Askers, At, Key, Unit
  <2>. QED
    BY <2>1, <2>2 DEF FetchOK
<1>3. ASSUME NEW t \in Tasks, cache' = cache, late' = late,
             \A u \in Tasks \ {t} : task'[u] = task[u], task'[t].pc # "asking"
      PROVE  FetchOK'
  <2>1. \A k \in cache : Askers(k)' \in SUBSET Askers(k)
    BY <1>3, AskersOfOthers
  <2>. QED
    BY <1>3, <2>1, FewerAskers
<1>4. ASSUME NEW t \in Tasks, NEW r \in Reports, Begin(t, r[1], r[2]) PROVE FetchOK'
  BY <1>3, <1>4 DEF Begin, TypeOK, Idle
<1>5. ASSUME NEW t \in Tasks, Skip(t) PROVE FetchOK'
  BY <1>3, <1>5 DEF Skip, Busy, At, TypeOK, Task
<1>6. ASSUME NEW t \in Tasks, Ask(t) PROVE FetchOK'
  <2>1. /\ task'[t].mode = task[t].mode /\ task'[t].todo = task[t].todo
        /\ \A u \in Tasks \ {t} : task'[u] = task[u]
    BY <1>6 DEF Ask, TypeOK, Task
  <2>2. \A u \in Tasks : Key(u)' = Key(u)
    BY <2>1, SameKey
  <2>3. \A k \in cache : Askers(k)' \in SUBSET Askers(k)
    BY <1>6, <2>1, <2>2 DEF Ask, Askers, At
  <2>. QED
    BY <1>6, <2>3, FewerAskers DEF Ask
<1>7. ASSUME NEW t \in Tasks, Receive(t) PROVE FetchOK'
  <2>0. PICK k \in Keys : k = Key(t)
    BY <1>7, KeyIsKey DEF Receive, At, WorkOK, Working
  <2>1. task'[t].pc # "asking" /\ \A u \in Tasks \ {t} : task'[u] = task[u]
    BY <1>7 DEF Receive, TypeOK, Task
  <2>2. CASE k \notin cache
    BY <1>3, <1>7, <2>0, <2>1, <2>2 DEF Receive
  <2>3. CASE k \in cache
    <3>1. t \in Askers(k) /\ Askers(k) \in SUBSET Tasks
      BY <1>7, <2>0 DEF Receive, Askers
    <3>2. late' = [late EXCEPT ![k] = @ + 1] /\ cache' = cache
      BY <1>7, <2>0, <2>3 DEF Receive
    <3>3. ASSUME NEW l \in Keys PROVE Askers(l)' = Askers(l) \ {t}
      BY <2>1, AskersOfOthers
    <3>4. late'[k] + Cardinality(Askers(k)') < Cardinality(Tasks)
      <4>1. Cardinality(Askers(k)') = Cardinality(Askers(k)) - 1 /\ Cardinality(Askers(k)) \in Nat
        <5>1. Askers(k)' = Askers(k) \ {t}
          BY <3>1, <3>3
        <5>. QED
          BY <3>1, <5>1, SubsetsOfTasks
      <4>2. late'[k] = late[k] + 1 /\ late[k] \in Nat /\ Cardinality(Tasks) \in Nat
        BY <3>1, <3>2, SubsetsOfTasks DEF TypeOK
      <4>3. late[k] + Cardinality(Askers(k)) < Cardinality(Tasks)
        BY <2>3, <3>1 DEF FetchOK
      <4>. QED
        BY <4>1, <4>2, <4>3
    <3>5. ASSUME NEW l \in Keys, l # k
          PROVE  late'[l] = late[l] /\ Askers(l)' = Askers(l)
      <4>1. t \notin Askers(l)
        BY <2>0, <3>5 DEF Askers
      <4>. QED
        BY <3>2, <3>3, <3>5, <4>1 DEF TypeOK
    <3>. QED
      BY <2>3, <3>2, <3>4, <3>5 DEF FetchOK
  <2>. QED
    BY <2>2, <2>3
<1>8. ASSUME NEW t \in Tasks, AskFails(t) PROVE FetchOK'
  BY <1>3, <1>8 DEF AskFails, TypeOK, Task
<1>9. ASSUME NEW t \in Tasks, Select(t) PROVE FetchOK'
  BY <1>3, <1>9 DEF Select, TypeOK, Task
<1>10. ASSUME NEW t \in Tasks, Flush(t) PROVE FetchOK'
  BY <1>3, <1>10 DEF Flush, TypeOK, Task
<1>11. ASSUME NEW t \in Tasks, Mark(t) PROVE FetchOK'
  <2>0. PICK k \in Keys : k = Key(t)
    BY <1>11, KeyIsKey DEF Mark, At, WorkOK, Working
  <2>1. task'[t].pc # "asking" /\ \A u \in Tasks \ {t} : task'[u] = task[u]
    BY <1>11 DEF Mark, TypeOK, Task
  <2>2. \A l \in Keys : Askers(l)' = Askers(l) \ {t}
    BY <2>1, AskersOfOthers
  <2>3. ASSUME NEW l \in Keys, l # k \/ k \in cache
        PROVE  /\ late'[l] = late[l] /\ (l \in cache' <=> l \in cache) /\ Askers(l)' = Askers(l)
    <3>1. t \notin Askers(l)
      BY <1>11 DEF Mark, Askers, At
    <3>. QED
      BY <1>11, <2>0, <2>2, <2>3, <3>1 DEF Mark, TypeOK
  <2>4. ASSUME k \notin cache
        PROVE  late'[k] + Cardinality(Askers(k)') < Cardinality(Tasks)
    <3>1. late'[k] = 0
      BY <1>11, <2>0, <2>4 DEF Mark, TypeOK
    <3>2. Askers(k)' = Askers(k) \ {t} /\ Askers(k) \in SUBSET Tasks
      BY <2>2 DEF Askers
    <3>. QED
      <4>1. Askers(k)' \in SUBSET Tasks /\ Askers(k)' # Tasks
        BY <3>2
      <4>2. Cardinality(Askers(k)') < Cardinality(Tasks) /\ Cardinality(Askers(k)') \in Nat
        BY <4>1, SubsetsOfTasks
      <4>. QED
        BY <3>1, <4>2
  <2>5. cache' = cache \cup {k}
    BY <1>11, <2>0 DEF Mark
  <2>. QED
    BY <2>3, <2>4, <2>5 DEF FetchOK
<1>12. ASSUME NEW t \in Tasks, DeadlockAbort(t) PROVE FetchOK'
  BY <1>3, <1>12 DEF DeadlockAbort, TypeOK, Task
<1>13. ASSUME NEW t \in Tasks, Commit(t) \/ Rollback(t) PROVE FetchOK'
  BY <1>3, <1>13 DEF Commit, Rollback, End, TypeOK, Idle
<1>. QED
  BY <1>1, <1>2, <1>4, <1>5, <1>6, <1>7, <1>8, <1>9, <1>10, <1>11, <1>12, <1>13 DEF Next

(* While a key is marked, YCLIENTS is asked for it at most once by each of *)
(* the other handlers.                                                     *)
THEOREM FetchedInFlightAlways == Spec => []FetchedInFlight
<1>1. Init => TInv /\ FetchOK
  BY InitTInv DEF Init, FetchOK
<1>2. TInv /\ FetchOK /\ [Next]_vars => (TInv /\ FetchOK)'
  BY TInvInductive, FetchInductive
<1>3. TInv /\ FetchOK => FetchedInFlight
  <2> SUFFICES ASSUME TInv, FetchOK, NEW k \in Keys PROVE late[k] < Cardinality(Tasks)
    BY DEF FetchedInFlight
  <2>1. Askers(k) \in SUBSET Tasks /\ late[k] \in Nat
    BY DEF Askers, TInv, TypeOK
  <2>2. Cardinality(Askers(k)) \in Nat /\ Cardinality(Tasks) \in Nat
    BY <2>1, SubsetsOfTasks
  <2>3. 0 < Cardinality(Tasks)
    BY TasksAssumption, FS_EmptySet, SubsetsOfTasks DEF TasksAssumption
  <2>. QED
    BY <2>1, <2>2, <2>3 DEF FetchOK
<1>. QED
  BY <1>1, <1>2, <1>3, PTL DEF Spec

-----------------------------------------------------------------------------
(* A handler that has the database to itself stores what its requests      *)
(* gave, before it marks their keys; once another one runs beside it       *)
(* nothing is owed any more.                                               *)

(* What a handler leaves of a row if it is committed.                      *)
Kept(t, e) == IF task[t].pending[e] = NoRow THEN stat[e] ELSE task[t].pending[e]

AloneOK(t) ==
  /\ task[t].pc # "broken" => \A k \in cache, e \in Staff : AtLeast(Kept(t, e), owed[k][e])
  /\ At(t, "asking") => Key(t) \notin cache
  /\ Writes(task[t]) =>
       /\ \A e \in task[t].rest, k \in Keys : AtLeast(task[t].answer[e], owed[k][e])
       /\ \A e \in Staff \ task[t].rest : AtLeast(Kept(t, e), owed[Key(t)][e])
  /\ At(t, "flush") => task[t].seen = stat[Writing(t)]

CacheOK ==
  /\ \A k \in Keys, e \in Staff : AtLeast(remote[e], owed[k][e])
  /\ CacheHonest
  /\ \A t \in Tasks : alone /\ InFlight(t) => Alone(t) /\ AloneOK(t)
  /\ \A t \in Tasks : ~alone /\ InFlight(t) => owed = Nothing

(* Nothing is owed when no handler in flight has the database to itself.   *)
LEMMA NothingOwed ==
  ASSUME TypeOK', owed' = Nothing, \A t \in Tasks : InFlight(t)' => ~alone'
  PROVE  CacheOK'
<1>1. \A k \in Keys, e \in Staff : owed'[k][e] = NoRow
  BY DEF Nothing
<1>2. cache' \in SUBSET Keys
  BY DEF TypeOK
<1>. QED
  BY <1>1, <1>2 DEF CacheOK, CacheHonest, AtLeast

(* What a step of the only handler has to show.                            *)
LEMMA OnlyHandler ==
  ASSUME TypeOK, CacheOK, NEW t \in Tasks, InFlight(t), alone, alone' = alone,
         \A u \in Tasks \ {t} : task'[u] = task[u],
         \A k \in Keys, e \in Staff : AtLeast(remote'[e], owed'[k][e]),
         InFlight(t)' => AloneOK(t)', ~InFlight(t)' => CacheHonest'
  PROVE  CacheOK'
<1>1. \A u \in Tasks \ {t} : ~InFlight(u) /\ ~InFlight(u)'
  BY DEF CacheOK, Alone, InFlight
<1>2. Alone(t)'
  BY <1>1 DEF Alone
<1>3. CacheHonest'
  BY DEF CacheHonest
<1>. QED
  BY <1>1, <1>2, <1>3 DEF CacheOK

LEMMA WrittenHasRecords ==
  ASSUME NEW t \in Tasks
  PROVE  Unit(t) \cap recorded \in SUBSET Written(t)
BY DEF Written, Shown

LEMMA UpdatedCovers ==
  ASSUME NEW row \in Rows, NEW new \in Row, NEW old \in Rows, AtLeast(new, old)
  PROVE  Updated(row, row, new) # NoRow /\ AtLeast(Updated(row, row, new), old)
<1> DEFINE u == Updated(row, row, new)
<1>1. u \in Row /\ u # NoRow /\ new # NoRow
  BY UpdatedIsRow, NoRowIsNotRow
<1>2. u.cuts = new.cuts /\ u.money = new.money
  BY DEF Updated
<1> HIDE DEF u
<1>. QED
  BY <1>1, <1>2 DEF AtLeast, u

LEMMA CacheInductive ==
  ASSUME TInv, CacheOK, [Next]_vars
  PROVE  CacheOK'
<1> USE DEF TInv
<1>0. TypeOK /\ TypeOK' /\ WorkOK /\ cache \in SUBSET Keys
  BY TInvInductive DEF TypeOK
<1>1. ASSUME NEW e \in Staff, Change(e) PROVE CacheOK'
  <2>1. \A f \in Staff : remote[f] \in Row /\ remote'[f] \in Row /\ AtLeast(remote'[f], remote[f])
    <3>1. remote \in [Staff -> Row] /\ remote' \in [Staff -> Row]
      BY <1>0 DEF TypeOK
    <3>2. /\ remote'[e].cuts >= remote[e].cuts /\ remote'[e].money >= remote[e].money
          /\ \A f \in Staff \ {e} : remote'[f] = remote[f]
      BY <1>1, <3>1 DEF Change, Row
    <3>3. \A f \in Staff : remote'[f] \in Row /\ remote[f] \in Row
      BY <3>1
    <3>. QED
      BY <3>2, <3>3, NoRowIsNotRow DEF AtLeast, Row
  <2>2. UNCHANGED <<stat, cache, task, alone, owed>>
    BY <1>1 DEF Change
  <2>3. \A k \in Keys, f \in Staff : AtLeast(remote'[f], owed'[k][f])
    <3>1. ASSUME NEW k \in Keys, NEW f \in Staff PROVE AtLeast(remote'[f], owed[k][f])
      <4>1. owed[k][f] \in Rows /\ remote[f] \in Rows /\ remote'[f] \in Rows
        BY <2>1 DEF TypeOK, Rows
      <4>. QED
        BY <2>1, <4>1, AtLeastTransitive DEF CacheOK
    <3>. QED
      BY <2>2, <3>1
  <2>4. \A t \in Tasks : Key(t)' = Key(t) /\ AloneOK(t)' = AloneOK(t)
    BY <2>2, SameKey DEF AloneOK, Kept, At, Writing
  <2>5. CacheHonest' = CacheHonest /\ \A t \in Tasks : Alone(t)' = Alone(t) /\ InFlight(t)' = InFlight(t)
    BY <2>2 DEF CacheHonest, Alone, InFlight
  <2>. QED
    BY <2>2, <2>3, <2>4, <2>5 DEF CacheOK
<1>2. ASSUME NEW k \in Keys, Expire(k) PROVE CacheOK'
  <2>1. UNCHANGED <<remote, stat, task, alone, owed>> /\ cache' \in SUBSET cache
    BY <1>2 DEF Expire
  <2>2. \A t \in Tasks : Key(t)' = Key(t) /\ Alone(t)' = Alone(t) /\ InFlight(t)' = InFlight(t)
    BY <2>1, SameKey DEF Alone, InFlight
  <2>3. ASSUME NEW t \in Tasks, AloneOK(t) PROVE AloneOK(t)'
    BY <2>1, <2>2, <2>3 DEF AloneOK, Kept, At, Writing
  <2>4. CacheHonest'
    BY <2>1 DEF CacheOK, CacheHonest, InFlight
  <2>. QED
    BY <2>1, <2>2, <2>3, <2>4 DEF CacheOK
<1>3. ASSUME NEW t \in Tasks, NEW r \in Reports, Begin(t, r[1], r[2]) PROVE CacheOK'
  <2>1. /\ ~InFlight(t) /\ \A u \in Tasks \ {t} : task'[u] = task[u]
        /\ task'[t].pc = "units" /\ task'[t].pending = Idle.pending
        /\ UNCHANGED <<remote, stat, cache>>
    BY <1>3 DEF Begin, TypeOK, Idle
  <2>2. CASE Alone(t)
    <3>1. alone' /\ owed' = owed /\ \A u \in Tasks : ~InFlight(u)
      BY <1>3, <2>1, <2>2 DEF Begin, Alone
    <3>2. \A e \in Staff : Kept(t, e)' = stat[e]
      BY <2>1 DEF Kept, Idle
    <3>3. \A k \in cache, e \in Staff : AtLeast(stat[e], owed[k][e])
      BY <3>1 DEF CacheOK, CacheHonest
    <3>4. AloneOK(t)'
      BY <2>1, <3>1, <3>2, <3>3 DEF AloneOK, At, Writes
    <3>5. InFlight(t)' /\ \A u \in Tasks \ {t} : ~InFlight(u)'
      BY <2>1, <3>1 DEF InFlight
    <3>. QED
      BY <2>1, <3>1, <3>4, <3>5 DEF CacheOK, CacheHonest, Alone
  <2>3. CASE ~Alone(t)
    BY <1>0, <1>3, <2>3, NothingOwed DEF Begin
  <2>. QED
    BY <2>2, <2>3

(* A step of a handler in flight: the others keep it from being owed, or   *)
(* it is the only one.                                                     *)
<1>4. ASSUME NEW t \in Tasks, InFlight(t), ~alone, alone' = alone, owed' \in {owed, Nothing}
      PROVE  CacheOK'
  <2>1. owed' = Nothing
    BY <1>4 DEF CacheOK
  <2>. QED
    BY <1>0, <1>4, <2>1, NothingOwed
<1>5. ASSUME NEW t \in Tasks, InFlight(t), alone
      PROVE  AloneOK(t) /\ \A k \in Keys, e \in Staff : AtLeast(remote[e], owed[k][e])
  BY <1>5 DEF CacheOK
<1>6. ASSUME NEW t \in Tasks, Skip(t) PROVE CacheOK'
  <2>1. /\ InFlight(t) /\ alone' = alone /\ owed' = owed
        /\ UNCHANGED <<remote, stat, cache>> /\ task[t].pc = "units" /\ task'[t].pc = "units"
        /\ task'[t].pending = task[t].pending /\ \A u \in Tasks \ {t} : task'[u] = task[u]
    BY <1>6 DEF Skip, Busy, At, InFlight, TypeOK, Task
  <2>2. alone => AloneOK(t)'
    BY <1>5, <2>1 DEF AloneOK, Kept, At, Writes
  <2>. QED
    BY <1>0, <1>4, <1>5, <2>1, <2>2, OnlyHandler DEF InFlight
<1>7. ASSUME NEW t \in Tasks, Ask(t) PROVE CacheOK'
  <2>1. /\ InFlight(t) /\ alone' = alone /\ owed' = owed
        /\ UNCHANGED <<remote, stat, cache>> /\ task[t].pc = "units" /\ task'[t].pc = "asking"
        /\ task'[t].pending = task[t].pending /\ \A u \in Tasks \ {t} : task'[u] = task[u]
        /\ task'[t].todo = task[t].todo /\ task'[t].mode = task[t].mode
    BY <1>7 DEF Ask, Busy, At, InFlight, TypeOK, Task
  <2>2. Key(t)' = Key(t)
    BY <2>1, SameKey
  <2>3. alone => AloneOK(t)'
    BY <1>5, <1>7, <2>1, <2>2 DEF Ask, AloneOK, Kept, At, Writes
  <2>. QED
    BY <1>0, <1>4, <1>5, <2>1, <2>3, OnlyHandler DEF InFlight

(* What a request is made for is what YCLIENTS has now.                    *)
<1>8. ASSUME NEW t \in Tasks, At(t, "asking"), alone, Owe(t), cache' = cache, remote' = remote
      PROVE  /\ Key(t) \in Keys /\ Key(t) \notin cache
             /\ owed'[Key(t)] = [e \in Staff |-> IF e \in Unit(t) \cap recorded
                                                 THEN remote[e] ELSE NoRow]
             /\ \A k \in Keys \ {Key(t)} : owed'[k] = owed[k]
             /\ \A k \in Keys, e \in Staff : AtLeast(remote[e], owed'[k][e])
  <2>1. task[t].todo # {} /\ InFlight(t)
    BY <1>8 DEF WorkOK, Working, At, InFlight
  <2>2. Key(t) \in Keys /\ Key(t) \notin cache
    BY <1>0, <1>5, <1>8, <2>1, KeyIsKey DEF AloneOK
  <2>3. /\ owed'[Key(t)] = [e \in Staff |-> IF e \in Unit(t) \cap recorded
                                            THEN remote[e] ELSE NoRow]
        /\ \A k \in Keys \ {Key(t)} : owed'[k] = owed[k]
    BY <1>8, <2>2 DEF Owe, TypeOK
  <2>4. ASSUME NEW e \in Staff PROVE AtLeast(remote[e], owed'[Key(t)][e])
    <3>1. remote[e] \in Rows
      BY DEF TypeOK, Rows
    <3>. QED
      BY <2>3, <3>1, AtLeastReflexive DEF AtLeast
  <2>. QED
    BY <1>5, <1>8, <2>1, <2>2, <2>3, <2>4
<1>9. ASSUME NEW t \in Tasks, Receive(t) PROVE CacheOK'
  <2>1. /\ InFlight(t) /\ alone' = alone
        /\ UNCHANGED <<remote, stat, cache>> /\ task[t].pc = "asking" /\ task'[t].pc = "select"
        /\ task'[t].pending = task[t].pending /\ \A u \in Tasks \ {t} : task'[u] = task[u]
        /\ task'[t].todo = task[t].todo /\ task'[t].mode = task[t].mode
        /\ task'[t].rest = Written(t)
        /\ task'[t].answer = [e \in Staff |-> IF e \in Unit(t) THEN remote[e] ELSE NoFigures]
    BY <1>9 DEF Receive, At, InFlight, TypeOK, Task
  <2>2. CASE ~alone
    BY <1>4, <1>9, <2>1, <2>2 DEF Receive, Owe
  <2>3. CASE alone
    <3>1. /\ Key(t) \in Keys /\ Key(t) \notin cache
          /\ owed'[Key(t)] = [e \in Staff |-> IF e \in Unit(t) \cap recorded
                                              THEN remote[e] ELSE NoRow]
          /\ \A k \in Keys \ {Key(t)} : owed'[k] = owed[k]
          /\ \A k \in Keys, e \in Staff : AtLeast(remote[e], owed'[k][e])
      BY <1>8, <1>9, <2>1, <2>3 DEF Receive
    <3>2. Key(t)' = Key(t)
      BY <2>1, SameKey
    <3>3. \A e \in Staff : Kept(t, e)' = Kept(t, e)
      BY <2>1 DEF Kept
    <3>4. \A k \in cache', e \in Staff : AtLeast(Kept(t, e)', owed'[k][e])
      <4>1. \A k \in cache, e \in Staff : AtLeast(Kept(t, e), owed[k][e])
        BY <1>5, <2>1, <2>3 DEF AloneOK
      <4>. QED
        BY <1>0, <2>1, <3>1, <3>3, <4>1
    <3>5. \A e \in Written(t), k \in Keys : AtLeast(task'[t].answer[e], owed'[k][e])
      <4>1. Written(t) \in SUBSET Unit(t) /\ Written(t) \in SUBSET Staff
        <5>1. task[t].todo # {}
          BY <2>1 DEF WorkOK, Working
        <5>. QED
          BY <1>0, <5>1, UnitIsInTodo, WrittenInUnit
      <4>2. \A e \in Written(t) : task'[t].answer[e] = remote[e]
        BY <2>1, <4>1
      <4>. QED
        BY <3>1, <4>1, <4>2
    <3>6. \A e \in Staff \ Written(t) : AtLeast(Kept(t, e)', owed'[Key(t)][e])
      BY <3>1, WrittenHasRecords DEF AtLeast
    <3>7. AloneOK(t)'
      BY <2>1, <3>2, <3>4, <3>5, <3>6 DEF AloneOK, At
    <3>. QED
      BY <1>0, <2>1, <2>3, <3>1, <3>7, OnlyHandler DEF InFlight
  <2>. QED
    BY <2>2, <2>3
<1>10. ASSUME NEW t \in Tasks, AskFails(t) PROVE CacheOK'
  <2>1. /\ InFlight(t) /\ alone' = alone
        /\ UNCHANGED <<remote, stat, cache>> /\ task[t].pc = "asking" /\ task'[t].pc = "units"
        /\ task'[t].pending = task[t].pending /\ \A u \in Tasks \ {t} : task'[u] = task[u]
    BY <1>10 DEF AskFails, At, InFlight, TypeOK, Task
  <2>2. CASE ~alone
    BY <1>4, <1>10, <2>1, <2>2 DEF AskFails, Owe
  <2>3. CASE alone
    <3>1. /\ Key(t) \notin cache
          /\ \A k \in Keys \ {Key(t)} : owed'[k] = owed[k]
          /\ \A k \in Keys, e \in Staff : AtLeast(remote[e], owed'[k][e])
      BY <1>8, <1>10, <2>1, <2>3 DEF AskFails
    <3>2. \A k \in cache, e \in Staff : AtLeast(Kept(t, e), owed[k][e])
      BY <1>5, <2>1, <2>3 DEF AloneOK
    <3>3. \A e \in Staff : Kept(t, e)' = Kept(t, e)
      BY <2>1 DEF Kept
    <3>4. AloneOK(t)'
      BY <1>0, <2>1, <3>1, <3>2, <3>3 DEF AloneOK, At, Writes
    <3>. QED
      BY <1>0, <2>1, <2>3, <3>1, <3>4, OnlyHandler DEF InFlight
  <2>. QED
    BY <2>2, <2>3
<1>11. ASSUME NEW t \in Tasks, Select(t) PROVE CacheOK'
  <2>1. /\ InFlight(t) /\ alone' = alone /\ owed' = owed
        /\ UNCHANGED <<remote, stat, cache>> /\ task[t].pc = "select" /\ task'[t].pc = "flush"
        /\ task'[t].pending = task[t].pending /\ \A u \in Tasks \ {t} : task'[u] = task[u]
        /\ task'[t].todo = task[t].todo /\ task'[t].mode = task[t].mode
        /\ task'[t].rest = task[t].rest /\ task'[t].answer = task[t].answer
        /\ task'[t].seen = stat[Writing(t)]
    BY <1>11 DEF Select, At, InFlight, TypeOK, Task
  <2>2. Key(t)' = Key(t) /\ Writing(t)' = Writing(t)
    BY <2>1, SameKey DEF Writing
  <2>3. \A e \in Staff : Kept(t, e)' = Kept(t, e)
    BY <2>1 DEF Kept
  <2>4. alone => AloneOK(t)'
    BY <1>0, <1>5, <2>1, <2>2, <2>3 DEF AloneOK, At, Writes
  <2>. QED
    BY <1>0, <1>4, <1>5, <2>1, <2>4, OnlyHandler DEF InFlight

(* A transaction that is broken will be rolled back.                       *)
<1>12. ASSUME NEW t \in Tasks, InFlight(t), task' = [task EXCEPT ![t].pc = "broken"],
              UNCHANGED <<remote, alone, owed>>
       PROVE  CacheOK'
  <2>1. task'[t].pc = "broken" /\ \A u \in Tasks \ {t} : task'[u] = task[u]
    BY <1>12 DEF TypeOK, Task
  <2>2. AloneOK(t)'
    BY <2>1 DEF AloneOK, At, Writes
  <2>. QED
    BY <1>0, <1>4, <1>5, <1>12, <2>1, <2>2, OnlyHandler DEF InFlight
<1>13. ASSUME NEW t \in Tasks, Flush(t) PROVE CacheOK'
  <2>0. PICK e \in Staff : e = Writing(t) /\ e \in task[t].rest
    BY <1>13, WritingIsWritten DEF Flush, At, WorkOK
  <2> DEFINE row == IF Differs(t) THEN Updated(stat[e], task[t].seen, task[t].answer[e]) ELSE NoRow
  <2>1. /\ InFlight(t) /\ task[t].pc = "flush" /\ UNCHANGED <<remote, stat, cache, alone, owed>>
    BY <1>13 DEF Flush, At, InFlight
  <2>2. CASE task[t].seen = NoRow /\ stat[e] # NoRow
    BY <1>12, <1>13, <2>0, <2>1, <2>2 DEF Flush
  <2>3. CASE ~(task[t].seen = NoRow /\ stat[e] # NoRow)
    <3>1. /\ \A u \in Tasks \ {t} : task'[u] = task[u]
          /\ task'[t].pc = "select" /\ task'[t].rest = task[t].rest \ {e}
          /\ task'[t].pending = [task[t].pending EXCEPT ![e] = row]
          /\ task'[t].todo = task[t].todo /\ task'[t].mode = task[t].mode
          /\ task'[t].answer = task[t].answer
      <4>1. task' = [task EXCEPT ![t].pc = "select", ![t].rest = @ \ {e}, ![t].seen = NoRow,
                                 ![t].pending = [@ EXCEPT ![e] = row]]
        BY <1>13, <2>0, <2>3 DEF Flush
      <4> HIDE DEF row
      <4>. QED
        BY <4>1 DEF TypeOK, Task
    <3>2. CASE ~alone
      BY <1>4, <2>1, <3>2
    <3>3. CASE alone
      <4>1. task[t].seen = stat[e] /\ \A k \in Keys : AtLeast(task[t].answer[e], owed[k][e])
        BY <1>5, <2>0, <2>1, <3>3 DEF AloneOK, At, Writes
      <4>2. Key(t)' = Key(t)
        BY <3>1, SameKey
      <4>3. task'[t].pending[e] = row /\ \A f \in Staff \ {e} : task'[t].pending[f] = task[t].pending[f]
        <5>1. task[t].pending \in [Staff -> Rows]
          BY DEF TypeOK, Task
        <5> HIDE DEF row
        <5>. QED
          BY <2>1, <3>1, <5>1
      <4>4. \A f \in Staff \ {e} : Kept(t, f)' = Kept(t, f)
        BY <2>1, <4>3 DEF Kept
      <4>5. ASSUME NEW k \in Keys PROVE AtLeast(Kept(t, e)', owed[k][e])
        <5>1. stat[e] \in Rows /\ task[t].answer[e] \in Row /\ owed[k][e] \in Rows
          BY <2>1 DEF TypeOK, Task
        <5>2. CASE Differs(t)
          <6>1. row # NoRow /\ AtLeast(row, owed[k][e])
            BY <4>1, <5>1, <5>2, UpdatedCovers
          <6>2. Kept(t, e)' = row
            <7> HIDE DEF row
            <7>. QED
              BY <4>3, <6>1 DEF Kept
          <6>. QED
            BY <6>1, <6>2
        <5>3. CASE ~Differs(t)
          <6>1. row = NoRow /\ stat[e] = task[t].answer[e]
            BY <2>0, <4>1, <5>3 DEF Differs
          <6>2. Kept(t, e)' = stat[e]
            <7> HIDE DEF row
            <7>. QED
              BY <2>1, <4>3, <6>1 DEF Kept
          <6>. QED
            BY <4>1, <6>1, <6>2
        <5>. QED
          BY <5>2, <5>3
      <4>6. /\ \A k \in cache, f \in Staff : AtLeast(Kept(t, f), owed[k][f])
            /\ \A f \in task[t].rest, k \in Keys : AtLeast(task[t].answer[f], owed[k][f])
            /\ \A f \in Staff \ task[t].rest : AtLeast(Kept(t, f), owed[Key(t)][f])
        BY <1>5, <2>1, <3>3 DEF AloneOK, At, Writes
      <4>7. Key(t) \in Keys
        BY <1>0, <2>1, KeyIsKey DEF WorkOK, Working
      <4>8. /\ \A k \in cache, f \in Staff : AtLeast(Kept(t, f)', owed[k][f])
            /\ \A f \in Staff \ (task[t].rest \ {e}) : AtLeast(Kept(t, f)', owed[Key(t)][f])
        <5> HIDE DEF row
        <5>. QED
          BY <1>0, <4>4, <4>5, <4>6, <4>7
      <4>9. AloneOK(t)'
        <5> HIDE DEF row
        <5>. QED
          BY <2>1, <3>1, <4>2, <4>6, <4>8 DEF AloneOK, At
      <4>. QED
        BY <1>0, <1>5, <2>1, <3>1, <3>3, <4>9, OnlyHandler DEF InFlight
    <3>. QED
      BY <3>2, <3>3
  <2>. QED
    BY <2>2, <2>3
<1>14. ASSUME NEW t \in Tasks, Mark(t) PROVE CacheOK'
  <2>1. /\ InFlight(t) /\ alone' = alone /\ owed' = owed
        /\ UNCHANGED <<remote, stat>> /\ cache' = cache \cup {Key(t)}
        /\ task[t].pc = "select" /\ task[t].rest = {} /\ task'[t].pc = "units"
        /\ task'[t].pending = task[t].pending /\ \A u \in Tasks \ {t} : task'[u] = task[u]
    BY <1>14 DEF Mark, At, InFlight, TypeOK, Task
  <2>2. \A e \in Staff : Kept(t, e)' = Kept(t, e)
    BY <2>1 DEF Kept
  <2>3. ASSUME alone PROVE AloneOK(t)'
    <3>1. /\ \A k \in cache, e \in Staff : AtLeast(Kept(t, e), owed[k][e])
          /\ \A e \in Staff : AtLeast(Kept(t, e), owed[Key(t)][e])
      BY <1>5, <2>1, <2>3 DEF AloneOK, Writes
    <3>. QED
      BY <2>1, <2>2, <3>1 DEF AloneOK, At, Writes
  <2>. QED
    BY <1>0, <1>4, <1>5, <2>1, <2>3, OnlyHandler DEF InFlight
<1>15. ASSUME NEW t \in Tasks, DeadlockAbort(t) PROVE CacheOK'
  <2>1. InFlight(t)
    BY <1>15 DEF DeadlockAbort, WaitsWithin, Blocked, At, InFlight
  <2>. QED
    BY <1>12, <1>15, <2>1 DEF DeadlockAbort
<1>16. ASSUME NEW t \in Tasks, Commit(t) PROVE CacheOK'
  <2>1. /\ InFlight(t) /\ UNCHANGED <<remote, cache, alone, owed>>
        /\ task[t].pc = "units" /\ ~InFlight(t)' /\ \A u \in Tasks \ {t} : task'[u] = task[u]
        /\ \A e \in Staff : stat'[e] = Kept(t, e)
    BY <1>16 DEF Commit, Ready, At, End, InFlight, Kept, TypeOK, Idle
  <2>2. ASSUME alone PROVE CacheHonest'
    <3>1. \A k \in cache, e \in Staff : AtLeast(Kept(t, e), owed[k][e])
      BY <1>5, <2>1, <2>2 DEF AloneOK
    <3>. QED
      BY <2>1, <3>1 DEF CacheHonest
  <2>. QED
    BY <1>0, <1>4, <1>5, <2>1, <2>2, OnlyHandler
<1>17. ASSUME NEW t \in Tasks, Rollback(t) PROVE CacheOK'
  <2>1. /\ InFlight(t) /\ alone' = alone /\ owed' = Nothing
        /\ ~InFlight(t)' /\ \A u \in Tasks \ {t} : task'[u] = task[u]
    BY <1>17 DEF Rollback, Ready, At, End, InFlight, TypeOK, Idle
  <2>2. ASSUME alone, NEW u \in Tasks PROVE ~InFlight(u)'
    BY <2>1, <2>2 DEF CacheOK, Alone, InFlight
  <2>. QED
    BY <1>0, <2>1, <2>2, NothingOwed
<1>18. CASE UNCHANGED vars
  <2>1. UNCHANGED <<remote, stat, cache, task, alone, owed>>
    BY <1>18 DEF vars
  <2>2. \A t \in Tasks : Key(t)' = Key(t) /\ AloneOK(t)' = AloneOK(t)
    BY <2>1, SameKey DEF AloneOK, Kept, At, Writing
  <2>3. CacheHonest' = CacheHonest /\ \A t \in Tasks : Alone(t)' = Alone(t) /\ InFlight(t)' = InFlight(t)
    BY <2>1 DEF CacheHonest, Alone, InFlight
  <2>. QED
    BY <2>1, <2>2, <2>3 DEF CacheOK
<1>. QED
  BY <1>1, <1>2, <1>3, <1>6, <1>7, <1>9, <1>10, <1>11, <1>13, <1>14, <1>15, <1>16, <1>17, <1>18
     DEF Next

(* A key that keeps others from asking YCLIENTS stands for what its last   *)
(* request was made for, if that had the database to itself: whatever the  *)
(* staff, the reports and the number of handlers.                          *)
THEOREM CacheHonestAlways == Spec => []CacheHonest
<1>1. Init => TInv /\ CacheOK
  <2> SUFFICES ASSUME Init PROVE TInv /\ CacheOK
    OBVIOUS
  <2>1. cache = {} /\ \A t \in Tasks : ~InFlight(t)
    BY DEF Init, InFlight, Idle
  <2>2. \A k \in Keys, e \in Staff : owed[k][e] = NoRow
    BY DEF Init, Nothing
  <2>. QED
    BY <2>1, <2>2, InitTInv DEF CacheOK, CacheHonest, AtLeast
<1>2. TInv /\ CacheOK /\ [Next]_vars => (TInv /\ CacheOK)'
  BY TInvInductive, CacheInductive
<1>3. TInv /\ CacheOK => CacheHonest
  BY DEF CacheOK
<1>. QED
  BY <1>1, <1>2, <1>3, PTL DEF Spec
=============================================================================
