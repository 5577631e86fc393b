------------------------------ MODULE Refresh ------------------------------
(***************************************************************************)
(* Refreshing the statistics of one period from YCLIENTS.                  *)
(*                                                                         *)
(* A handler looks in _REFRESH_CACHE whether somebody refreshed the branch *)
(* (or the employee) lately, and if not fetches the records, writes a row  *)
(* for each employee and marks the cache; at its end it answers, and is    *)
(* committed or rolled back.  Handlers run beside each other: each write   *)
(* selects the row and updates the columns that differ from it, under a    *)
(* row lock held until the commit.                                         *)
(*                                                                         *)
(* A row stands for the rows of the period.  Its columns change together   *)
(* (a visit) or apart (a sale, a corrected price); the value of a column   *)
(* is the number of its changes in YCLIENTS, so that older is smaller.     *)
(***************************************************************************)
EXTENDS Naturals, FiniteSets, FiniteSetsExt

CONSTANTS
  Staff,      \* employees, numbered in the order of their names
  BranchOf,   \* the branch of each
  Reports,    \* the reports: a set of employees, refreshed one by one or by branch
  Tasks,      \* handlers that can be in flight together
  MaxChanges, \* bound: changes in YCLIENTS
  NoRow,      \* an employee without statistics
  NoTask      \* an unlocked row

ASSUME StaffAssumption == Staff \subseteq Nat /\ IsFiniteSet(Staff)
ASSUME TasksAssumption == IsFiniteSet(Tasks) /\ Tasks # {} /\ NoTask \notin Tasks
ASSUME MaxChangesAssumption == MaxChanges \in Nat
ASSUME NoRowAssumption == NoRow \notin [cuts : Nat, money : Nat]

VARIABLES
  remote,    \* the figures of each employee in YCLIENTS
  recorded,  \* employees with records in the period
  stat,      \* daily_statistics, committed
  lock,      \* the task that holds the lock of an employee's row
  cache,     \* the keys of _REFRESH_CACHE that have not expired
  task,      \* what each handler is doing
  settled,   \* history: stat when no handler was in flight last
  alone,     \* history: nothing ran beside the handler in flight
  owed,      \* history: the figures of a key's last request, if that ran alone
  late       \* history: answers fetched for a key since it was marked

vars == <<remote, recorded, stat, lock, cache, task, settled, alone, owed, late>>

Row == [cuts : Nat, money : Nat]
Rows == Row \cup {NoRow}
Modes == {"employee", "branch"}

ASSUME ReportsAssumption == Reports \subseteq (SUBSET Staff) \X Modes

Branches == {BranchOf[e] : e \in Staff}
Keys == ({"employee"} \X Staff) \cup ({"branch"} \X Branches)

Task == [pc : {"idle", "units", "asking", "select", "flush", "broken"}, mode : Modes,
         todo : SUBSET SUBSET Staff, rest : SUBSET Staff, answer : [Staff -> Row],
         seen : Rows, pending : [Staff -> Rows]]

NoFigures == [cuts |-> 0, money |-> 0]
Idle == [pc |-> "idle", mode |-> "branch", todo |-> {}, rest |-> {},
         answer |-> [e \in Staff |-> NoFigures], seen |-> NoRow,
         pending |-> [e \in Staff |-> NoRow]]

Nothing == [k \in Keys |-> [e \in Staff |-> NoRow]]

TypeOK ==
  /\ remote \in [Staff -> Row]
  /\ recorded \in SUBSET Staff
  /\ stat \in [Staff -> Rows]
  /\ lock \in [Staff -> Tasks \cup {NoTask}]
  /\ cache \in SUBSET Keys
  /\ task \in [Tasks -> Task]
  /\ settled \in [Staff -> Rows]
  /\ alone \in BOOLEAN
  /\ owed \in [Keys -> [Staff -> Rows]]
  /\ late \in [Keys -> Nat]

Init ==
  /\ remote = [e \in Staff |-> NoFigures]
  /\ recorded = {}
  /\ stat = [e \in Staff |-> NoRow]
  /\ lock = [e \in Staff |-> NoTask]
  /\ cache = {}
  /\ task = [t \in Tasks |-> Idle]
  /\ settled = [e \in Staff |-> NoRow]
  /\ alone = TRUE
  /\ owed = Nothing
  /\ late = [k \in Keys |-> 0]

-----------------------------------------------------------------------------
(* What the receptionist does in YCLIENTS: a visit, the cancellation of    *)
(* the last one, a sale or a correction.                                   *)
Changes == MapThenSumSet(LAMBDA e : remote[e].money, Staff)

Change(e) ==
  /\ Changes < MaxChanges
  /\ \/ /\ remote' = [remote EXCEPT ![e] = [cuts |-> @.cuts + 1, money |-> @.money + 1]]
        /\ \/ recorded' = recorded \cup {e}
           \/ e \in recorded /\ recorded' = recorded \ {e}
     \/ /\ e \in recorded
        /\ remote' = [remote EXCEPT ![e].money = @ + 1]
        /\ UNCHANGED recorded
  /\ UNCHANGED <<stat, lock, cache, task, settled, alone, owed, late>>

Expire(k) ==
  /\ k \in cache
  /\ cache' = cache \ {k}
  /\ late' = [late EXCEPT ![k] = 0]
  /\ UNCHANGED <<remote, recorded, stat, lock, task, settled, alone, owed>>

-----------------------------------------------------------------------------
InFlight(t) == task[t].pc # "idle"
Alone(t) == \A u \in Tasks \ {t} : ~InFlight(u)

(* _employees_by_branch groups a team by branch, in the order of the first *)
(* employee of each; an employee's own report is refreshed one by one.     *)
Units(scope, mode) ==
  IF mode = "employee" THEN {{e} : e \in scope}
  ELSE {{e \in scope : BranchOf[e] = b} : b \in {BranchOf[e] : e \in scope}}

Unit(t) == CHOOSE u \in task[t].todo : \A w \in task[t].todo : Min(u) <= Min(w)
Key(t) == LET e == CHOOSE e \in Unit(t) : TRUE
          IN IF task[t].mode = "employee" THEN <<"employee", e>> ELSE <<"branch", BranchOf[e]>>

Begin(t, scope, mode) ==
  /\ ~InFlight(t)
  /\ task' = [task EXCEPT ![t] = [Idle EXCEPT !.pc = "units", !.mode = mode,
                                              !.todo = Units(scope, mode)]]
  /\ alone' = Alone(t)
  /\ owed' = IF Alone(t) THEN owed ELSE Nothing
  /\ UNCHANGED <<remote, recorded, stat, lock, cache, settled, late>>

At(t, pc) == task[t].pc = pc
Busy(t) == At(t, "units") /\ task[t].todo # {}
Ready(t) == At(t, "units") /\ task[t].todo = {}

Skip(t) ==
  /\ Busy(t)
  /\ Key(t) \in cache
  /\ task' = [task EXCEPT ![t].todo = @ \ {Unit(t)}]
  /\ UNCHANGED <<remote, recorded, stat, lock, cache, settled, alone, owed, late>>

(* Mutant: the key is marked before the records are fetched.               *)
AskMarks(t) ==
  /\ Busy(t)
  /\ Key(t) \notin cache
  /\ cache' = cache \cup {Key(t)}
  /\ task' = [task EXCEPT ![t].pc = "asking"]
  /\ UNCHANGED <<remote, recorded, stat, lock, settled, alone, owed, late>>

(* Mutant: a refresh that was already asked for is asked for again.        *)
AskAnyway(t) ==
  /\ Busy(t)
  /\ task' = [task EXCEPT ![t].pc = "asking"]
  /\ UNCHANGED <<remote, recorded, stat, lock, cache, settled, alone, owed, late>>

Ask(t) ==
  /\ Busy(t)
  /\ Key(t) \notin cache
  /\ task' = [task EXCEPT ![t].pc = "asking"]
  /\ UNCHANGED <<remote, recorded, stat, lock, cache, settled, alone, owed, late>>

(* When the records show some of a branch's employees and no others, the   *)
(* token is taken not to see the rest, who are skipped.                    *)
Shown(t) == IF task[t].mode = "employee" THEN recorded \cap Unit(t)
            ELSE {e \in recorded : \E f \in Unit(t) : BranchOf[e] = BranchOf[f]}
Written(t) == IF Shown(t) # {} /\ Shown(t) \subseteq Unit(t) THEN Shown(t) ELSE Unit(t)

(* The figures a request that nobody else competes with was made for.      *)
Owe(t) == owed' =
  IF alone
  THEN [owed EXCEPT ![Key(t)] = [e \in Staff |-> IF e \in Unit(t) \cap recorded
                                                 THEN remote[e] ELSE NoRow]]
  ELSE owed

Receive(t) ==
  /\ At(t, "asking")
  /\ task' = [task EXCEPT ![t].pc = "select", ![t].rest = Written(t),
                           ![t].answer = [e \in Staff |-> IF e \in Unit(t) THEN remote[e]
                                                          ELSE NoFigures]]
  /\ Owe(t)
  /\ late' = IF Key(t) \in cache THEN [late EXCEPT ![Key(t)] = @ + 1] ELSE late
  /\ UNCHANGED <<remote, recorded, stat, lock, cache, settled, alone>>

(* Mutant: no answer is taken for an empty one.                            *)
AskFailsEmpty(t) ==
  /\ At(t, "asking")
  /\ task' = [task EXCEPT ![t].pc = "select", ![t].rest = Unit(t)]
  /\ Owe(t)
  /\ UNCHANGED <<remote, recorded, stat, lock, cache, settled, alone, late>>

(* YCLIENTS refuses or does not answer: the caller shows what is stored,   *)
(* or goes on with the next employee.                                      *)
AskFails(t) ==
  /\ At(t, "asking")
  /\ \E todo \in {{}, task[t].todo \ {Unit(t)}} :
       /\ todo = {} \/ task[t].mode = "employee"
       /\ task' = [task EXCEPT ![t].pc = "units", ![t].todo = todo]
  /\ Owe(t)
  /\ UNCHANGED <<remote, recorded, stat, lock, cache, settled, alone, late>>

Writing(t) == Min(task[t].rest)

Select(t) ==
  /\ At(t, "select") /\ task[t].rest # {}
  /\ task' = [task EXCEPT ![t].pc = "flush", ![t].seen = stat[Writing(t)]]
  /\ UNCHANGED <<remote, recorded, stat, lock, cache, settled, alone, owed, late>>

(* Mutant: a new row is written without its zero columns.                  *)
UpdatedSparse(row, seen, new) ==
  IF seen = NoRow THEN [c \in {c \in {"cuts", "money"} : new[c] # 0} |-> new[c]]
  ELSE [c \in {"cuts", "money"} |-> IF seen[c] = new[c] THEN row[c] ELSE new[c]]

(* The row after the update: columns equal to what was read are not in it. *)
Updated(row, seen, new) ==
  IF seen = NoRow THEN new
  ELSE [c \in {"cuts", "money"} |-> IF seen[c] = new[c] THEN row[c] ELSE new[c]]

Differs(t) == task[t].seen # task[t].answer[Writing(t)]

Blocked(t) == At(t, "flush") /\ Differs(t) /\ lock[Writing(t)] \notin {NoTask, t}

Released(t) == [e \in Staff |-> IF lock[e] = t THEN NoTask ELSE lock[e]]

(* A row that appeared meanwhile breaks the insertion, and the transaction.*)
Flush(t) ==
  LET e == Writing(t) IN
  /\ At(t, "flush") /\ ~Blocked(t)
  /\ IF task[t].seen = NoRow /\ stat[e] # NoRow
     THEN /\ task' = [task EXCEPT ![t].pc = "broken"]
          /\ lock' = Released(t)
     ELSE /\ lock' = IF Differs(t) THEN [lock EXCEPT ![e] = t] ELSE lock
          /\ LET row == IF Differs(t) THEN Updated(stat[e], task[t].seen, task[t].answer[e])
                        ELSE NoRow
             IN task' = [task EXCEPT ![t].pc = "select", ![t].rest = @ \ {e}, ![t].seen = NoRow,
                                     ![t].pending = [@ EXCEPT ![e] = row]]
  /\ UNCHANGED <<remote, recorded, stat, cache, settled, alone, owed, late>>

Mark(t) ==
  /\ At(t, "select") /\ task[t].rest = {}
  /\ cache' = cache \cup {Key(t)}
  /\ late' = IF Key(t) \in cache THEN late ELSE [late EXCEPT ![Key(t)] = 0]
  /\ task' = [task EXCEPT ![t].pc = "units", ![t].todo = @ \ {Unit(t)},
                           ![t].answer = Idle.answer]
  /\ UNCHANGED <<remote, recorded, stat, lock, settled, alone, owed>>

(* PostgreSQL breaks a circle of waiters by failing one of them.           *)
WaitsWithin(t, circle) == Blocked(t) /\ lock[Writing(t)] \in circle

DeadlockAbort(t) ==
  /\ \E circle \in SUBSET Tasks : t \in circle /\ \A u \in circle : WaitsWithin(u, circle)
  /\ task' = [task EXCEPT ![t].pc = "broken"]
  /\ lock' = Released(t)
  /\ UNCHANGED <<remote, recorded, stat, cache, settled, alone, owed, late>>

End(t, rows) ==
  /\ stat' = rows
  /\ task' = [task EXCEPT ![t] = Idle]
  /\ lock' = Released(t)
  /\ settled' = IF Alone(t) THEN rows ELSE settled

Commit(t) ==
  /\ Ready(t)
  /\ End(t, [e \in Staff |-> IF task[t].pending[e] = NoRow THEN stat[e] ELSE task[t].pending[e]])
  /\ UNCHANGED <<remote, recorded, cache, alone, owed, late>>

(* Mutant: only a handler that came to its end is rolled back.             *)
RollbackReady(t) ==
  /\ Ready(t)
  /\ End(t, stat)
  /\ owed' = Nothing
  /\ UNCHANGED <<remote, recorded, cache, alone, late>>

(* The answer could not be sent, or the transaction is broken: the rows    *)
(* are rolled back, the marks in the cache stay.                           *)
Rollback(t) ==
  /\ Ready(t) \/ At(t, "broken")
  /\ End(t, stat)
  /\ owed' = Nothing
  /\ UNCHANGED <<remote, recorded, cache, alone, late>>

Next ==
  \/ \E e \in Staff : Change(e)
  \/ \E k \in Keys : Expire(k)
  \/ \E t \in Tasks :
       \/ \E r \in Reports : Begin(t, r[1], r[2])
       \/ Skip(t) \/ Ask(t) \/ Receive(t) \/ AskFails(t)
       \/ Select(t) \/ Flush(t) \/ Mark(t) \/ DeadlockAbort(t)
       \/ Commit(t) \/ Rollback(t)

Spec == Init /\ [][Next]_vars

(* The event loop resumes every coroutine, YCLIENTS answers or times out,  *)
(* and PostgreSQL hands a released lock to a waiter and looks for circles. *)
Progress(t) == \/ Skip(t) \/ Ask(t) \/ Receive(t) \/ AskFails(t) \/ Select(t)
               \/ Mark(t) \/ DeadlockAbort(t) \/ Commit(t) \/ Rollback(t)

Fairness == \A t \in Tasks : WF_vars(Progress(t)) /\ SF_vars(Flush(t))

FairSpec == Spec /\ Fairness

-----------------------------------------------------------------------------
(* Properties.                                                             *)

AtLeast(row, old) ==
  old = NoRow \/ (row # NoRow /\ row.cuts >= old.cuts /\ row.money >= old.money)

(* However the refreshes of several handlers interleave, fail and overtake *)
(* each other, they may lose what one of them wrote, and never fall behind *)
(* what the database held when none was running: no column of any row.     *)
NeverBehindQuiet == \A e \in Staff : AtLeast(stat[e], settled[e])

(* When nothing runs, a key that keeps others from asking YCLIENTS stands  *)
(* for figures at least as new as those of its last refresh, if that one   *)
(* had the database to itself.                                             *)
CacheHonest ==
  (\A t \in Tasks : ~InFlight(t)) =>
    \A k \in cache, e \in Staff : AtLeast(stat[e], owed[k][e])

(* While a key is marked, YCLIENTS is asked for it only by handlers that   *)
(* looked before it was marked: at most all the others, once.              *)
FetchedInFlight == \A k \in Keys : late[k] < Cardinality(Tasks)

(* Every refresh ends, although branches are locked in different orders.   *)
EveryTaskEnds == \A t \in Tasks : InFlight(t) ~> ~InFlight(t)
=============================================================================
