-------------------------------- MODULE Sync --------------------------------
(***************************************************************************)
(* Staff and services of the branches, brought over from YCLIENTS: the job *)
(* and the API synchronise the company branch after branch in one session, *)
(* a manager one branch, and an employee who opens the services refreshes  *)
(* the catalogue of his branch.  Each is a transaction of its own at       *)
(* READ COMMITTED: it asks, reads a row, flushes it (and then holds its    *)
(* lock), and commits everything at its end.                               *)
(*                                                                         *)
(* A session writes only the columns that differ from what it has loaded,  *)
(* and does not load an object again that it still holds: the company's    *)
(* session holds all the staff there was when it began (Branch.employees), *)
(* the catalogue's the employee it is for.  Every other row is loaded when *)
(* it is needed and let go once it is written.                             *)
(***************************************************************************)
EXTENDS Integers, FiniteSets

CONSTANTS
  Branches,  \* branches, numbered in the order of their names
  Staff,     \* rows of employees that may come to be, in the order of their keys
  Services,  \* rows of services, likewise
  BranchOf,  \* the branch of each row
  Tasks,     \* sessions that can be in flight together
  Job,       \* the session of the scheduled job, one at a time
  NoTask,    \* an unlocked row
  MaxEvents  \* bound: changes, connections, failures and sessions of people

Items == Staff \cup Services

ASSUME BranchesAssumption == Branches \subseteq Nat
ASSUME ItemsAssumption == Items \subseteq Nat /\ Staff \cap Services = {}
ASSUME BranchOfAssumption == BranchOf \in [Items -> Branches]
ASSUME TasksAssumption == Job \in Tasks /\ NoTask \notin Tasks
ASSUME MaxEventsAssumption == MaxEvents \in Nat

VARIABLES
  remote,  \* what YCLIENTS lists
  row,     \* employees and services: is_active, or no row
  linked,  \* employees with a telegram_user_id
  status,  \* branches.sync_status
  fresh,   \* _SERVICES_REFRESH_CACHE: branches with a mark that has not lapsed
  lock,    \* the session that holds the lock of a row
  task,    \* what each session is doing
  events   \* how many of the bounded events there were

table == <<row, linked, status>>
vars == <<remote, table, fresh, lock, task, events>>

-----------------------------------------------------------------------------
(* A unit of work is one list of one branch: staff before services, branch *)
(* after branch.                                                           *)

Units == Branches \X {"staff", "services"}
ListOf(i) == IF i \in Staff THEN "staff" ELSE "services"
UnitOf(i) == <<BranchOf[i], ListOf(i)>>
ItemsOf(u) == {i \in Items : UnitOf(i) = u}

IsFirst(u, left) ==
  /\ u \in left
  /\ \A v \in left : u[1] < v[1] \/ (u[1] = v[1] /\ (u[2] = "staff" \/ v[2] = "services"))

None == 0 - 1
NoUnit == <<None, "staff">>

Idle == [pc |-> "idle", kind |-> "company", left |-> {}, at |-> NoUnit, ok |-> {}, got |-> {},
         todo |-> {}, gone |-> {}, cur |-> None, held |-> {},
         seen |-> [i \in Items |-> "unknown"], tied |-> {},
         put |-> [i \in Items |-> "nothing"], cut |-> {},
         verdict |-> [b \in Branches |-> "none"], old |-> [b \in Branches |-> "SYNCED"],
         alone |-> TRUE]

Task == [pc : {"idle", "ask", "take", "upsert", "flush", "sweep", "end"},
         kind : {"company", "branch", "catalogue"},
         left : SUBSET Units,      \* lists still to do
         at : Units \cup {NoUnit}, \* the list in work
         ok : SUBSET Units,        \* lists YCLIENTS has answered
         got : SUBSET Items,       \* what it answered
         todo : SUBSET Items,      \* answered and not yet upserted
         gone : SUBSET Items,      \* selected to be deactivated
         cur : Items \cup {None},  \* the row selected and not yet flushed
         held : SUBSET Items,      \* objects the session keeps
         seen : [Items -> {"unknown", "absent", "on", "off"}],  \* as loaded
         tied : SUBSET Staff,      \* loaded with an account
         put : [Items -> {"nothing", "insert", "on", "off"}],   \* flushed
         cut : SUBSET Staff,       \* flushed without the account
         verdict : [Branches -> {"none", "SYNCED", "ERROR"}],
         old : [Branches -> {"SYNCED", "ERROR"}],               \* status as loaded
         alone : BOOLEAN]          \* history: no other session beside it

TypeOK ==
  /\ remote \in SUBSET Items
  /\ row \in [Items -> {"absent", "on", "off"}]
  /\ linked \in SUBSET Staff
  /\ status \in [Branches -> {"SYNCED", "ERROR"}]
  /\ fresh \in SUBSET Branches
  /\ lock \in [Items -> Tasks \cup {NoTask}]
  /\ task \in [Tasks -> Task]
  /\ events \in 0..MaxEvents

(* Each branch was synchronised when it was added.                         *)
Init ==
  /\ remote \in SUBSET Items
  /\ row = [i \in Items |-> IF i \in remote THEN "on" ELSE "absent"]
  /\ linked = {}
  /\ status = [b \in Branches |-> "SYNCED"]
  /\ fresh = {}
  /\ lock = [i \in Items |-> NoTask]
  /\ task = [t \in Tasks |-> Idle]
  /\ events = 0

Event == events < MaxEvents /\ events' = events + 1

(* The session t goes on with what it is doing now.                        *)
Goes(t, k) == task' = [task EXCEPT ![t] = k]

-----------------------------------------------------------------------------
(* Around the sessions.                                                    *)

RemoteChange(i) ==
  /\ Event
  /\ remote' = IF i \in remote THEN remote \ {i} ELSE remote \cup {i}
  /\ UNCHANGED <<table, fresh, lock, task>>

(* An employee redeems his code; Connection has the steps of that.         *)
AttachTelegram(i) ==
  /\ Event
  /\ row[i] = "on" /\ lock[i] = NoTask
  /\ linked' = linked \cup {i}
  /\ UNCHANGED <<remote, row, status, fresh, lock, task>>

MarkLapses(b) ==
  /\ b \in fresh
  /\ fresh' = fresh \ {b}
  /\ UNCHANGED <<remote, table, lock, task, events>>

-----------------------------------------------------------------------------
(* Sessions begin.                                                         *)

Busy(t) == task[t].pc # "idle"

(* Whoever is in flight is not alone any more.                             *)
Begin(t, k) ==
  /\ ~Busy(t)
  /\ task' = [u \in Tasks |->
                IF u = t
                THEN [k EXCEPT !.pc = "ask", !.old = status,
                               !.alone = \A v \in Tasks \ {t} : ~Busy(v)]
                ELSE [task[u] EXCEPT !.alone = task[u].alone /\ ~Busy(u)]]
  /\ UNCHANGED <<remote, table, lock>>

(* list_by_company loads the branches and all their staff.                 *)
ListByCompany(t) ==
  LET loaded == {i \in Staff : row[i] # "absent"} IN
  Begin(t, [Idle EXCEPT
              !.left = Units,
              !.held = loaded,
              !.seen = [i \in Items |-> IF i \in loaded THEN row[i] ELSE "unknown"],
              !.tied = linked])

SyncAllBranches == ListByCompany(Job) /\ UNCHANGED <<fresh, events>>

SyncCompany(t) == t # Job /\ Event /\ ListByCompany(t) /\ UNCHANGED fresh

SyncBranch(t, b) ==
  /\ t # Job
  /\ Event
  /\ Begin(t, [Idle EXCEPT !.kind = "branch", !.left = {b} \X {"staff", "services"}])
  /\ UNCHANGED fresh

(* The mark is set before YCLIENTS is asked and stays whatever happens     *)
(* next; the session holds the employee who opened the services.           *)
RefreshCatalogue(t, i) ==
  /\ t # Job
  /\ Event
  /\ i \in linked /\ row[i] = "on"
  /\ BranchOf[i] \notin fresh
  /\ fresh' = fresh \cup {BranchOf[i]}
  /\ Begin(t, [Idle EXCEPT !.kind = "catalogue",
                           !.left = {BranchOf[i]} \X {"staff", "services"},
                           !.held = {i}, !.tied = {i},
                           !.seen = [j \in Items |-> IF j = i THEN "on" ELSE "unknown"]])

-----------------------------------------------------------------------------
(* Asking YCLIENTS.                                                        *)

(* An answer of an unexpected form is read as an empty list.               *)
Answered(t, u) ==
  /\ task[t].pc = "ask" /\ task[t].kind # "catalogue"
  /\ IsFirst(u, task[t].left)
  /\ \E items \in {remote \cap ItemsOf(u), {}} :
       /\ IF items = remote \cap ItemsOf(u) THEN UNCHANGED events ELSE Event
       /\ Goes(t, [task[t] EXCEPT !.pc = "upsert", !.at = u,
                                  !.left = task[t].left \ {u},
                                  !.ok = task[t].ok \cup {u},
                                  !.got = task[t].got \cup items,
                                  !.todo = items])
  /\ UNCHANGED <<remote, table, fresh, lock>>

(* What a session does after a list.                                       *)
After(t, left) ==
  CASE left = {} -> "end"
    [] task[t].kind = "catalogue" -> "take"
    [] OTHER -> "ask"

WithoutBranch(left, b) == {v \in left : v[1] # b}

(* Mutant: the failure is logged and the branch counts as synchronised.    *)
RequestFailsUnnoticed(t, u) ==
  LET left == WithoutBranch(task[t].left, u[1]) IN
  /\ Event
  /\ task[t].pc = "ask" /\ task[t].kind # "catalogue"
  /\ IsFirst(u, task[t].left)
  /\ Goes(t, [task[t] EXCEPT !.verdict[u[1]] = "SYNCED",
                             !.left = left, !.pc = After(t, left)])
  /\ UNCHANGED <<remote, table, fresh, lock>>

(* mark_sync_error: what the branch has been given so far stays, the rest  *)
(* of it is left out, and the next branch has its turn.                    *)
RequestFails(t, u) ==
  LET left == WithoutBranch(task[t].left, u[1]) IN
  /\ Event
  /\ task[t].pc = "ask" /\ task[t].kind # "catalogue"
  /\ IsFirst(u, task[t].left)
  /\ Goes(t, [task[t] EXCEPT !.verdict[u[1]] = "ERROR",
                             !.left = left, !.pc = After(t, left)])
  /\ UNCHANGED <<remote, table, fresh, lock>>

(* Mutant: a list that failed is read as an empty one.                     *)
CatalogueAnsweredEmpty(t) ==
  /\ task[t].pc = "ask" /\ task[t].kind = "catalogue"
  /\ \E ok \in SUBSET task[t].left :
       /\ IF ok = task[t].left THEN UNCHANGED events ELSE Event
       /\ Goes(t, [task[t] EXCEPT !.ok = ok,
                                  !.got = {i \in remote : UnitOf(i) \in ok},
                                  !.verdict = [b \in Branches |->
                                    IF \E u \in ok : u[1] = b THEN "SYNCED" ELSE "none"],
                                  !.pc = "take"])
  /\ UNCHANGED <<remote, table, fresh, lock>>

(* The catalogue asks for both lists at once.  A list that failed is left  *)
(* alone, and one list is enough for the branch to count as synchronised.  *)
CatalogueAnswered(t) ==
  /\ task[t].pc = "ask" /\ task[t].kind = "catalogue"
  /\ \E ok \in SUBSET task[t].left :
       /\ IF ok = task[t].left THEN UNCHANGED events ELSE Event
       /\ Goes(t, [task[t] EXCEPT !.ok = ok, !.left = ok,
                                  !.got = {i \in remote : UnitOf(i) \in ok},
                                  !.verdict = [b \in Branches |->
                                    IF \E u \in ok : u[1] = b THEN "SYNCED" ELSE "none"],
                                  !.pc = After(t, ok)])
  /\ UNCHANGED <<remote, table, fresh, lock>>

Take(t, u) ==
  /\ task[t].pc = "take"
  /\ IsFirst(u, task[t].left)
  /\ Goes(t, [task[t] EXCEPT !.pc = "upsert", !.at = u,
                             !.left = task[t].left \ {u},
                             !.todo = task[t].got \cap ItemsOf(u)])
  /\ UNCHANGED <<remote, table, fresh, lock, events>>

-----------------------------------------------------------------------------
(* Writing one list.                                                       *)

(* What a query of the session returns: its own writes over the committed. *)
View(t, i) ==
  CASE task[t].put[i] \in {"insert", "on"} -> "on"
    [] task[t].put[i] = "off" -> "off"
    [] OTHER -> row[i]

Free(t, i) == lock[i] \in {NoTask, t}

(* What of a row the session knows once it is written.                     *)
Kept(t, i, state) == IF i \in task[t].held THEN state ELSE "unknown"

Select(t, i) ==
  /\ task[t].pc = "upsert"
  /\ i \in task[t].todo
  /\ Goes(t, [task[t] EXCEPT !.pc = "flush", !.cur = i,
                             !.todo = task[t].todo \ {i},
                             !.seen[i] = IF i \in task[t].held THEN task[t].seen[i]
                                            ELSE View(t, i)])
  /\ UNCHANGED <<remote, table, fresh, lock, events>>

(* Mutant: is_active = True is missing.                                    *)
FlushNamesOnly(t) ==
  LET i == task[t].cur IN
  /\ task[t].pc = "flush"
  /\ Free(t, i)
  /\ task[t].seen[i] = "absent" => row[i] = "absent"
  /\ lock' = [lock EXCEPT ![i] = t]
  /\ Goes(t, [task[t] EXCEPT !.pc = "upsert", !.cur = None,
                             !.put[i] = IF task[t].seen[i] = "absent" THEN "insert"
                                           ELSE task[t].put[i],
                             !.seen[i] = Kept(t, i, task[t].seen[i])])
  /\ UNCHANGED <<remote, table, fresh, events>>

(* A row that was there is at least marked as synchronised just now.       *)
Flush(t) ==
  LET i == task[t].cur IN
  /\ task[t].pc = "flush"
  /\ Free(t, i)
  /\ task[t].seen[i] = "absent" => row[i] = "absent"
  /\ lock' = [lock EXCEPT ![i] = t]
  /\ Goes(t, [task[t] EXCEPT !.pc = "upsert", !.cur = None,
                             !.put[i] = CASE task[t].seen[i] = "absent" -> "insert"
                                             [] task[t].seen[i] = "off" -> "on"
                                             [] OTHER -> task[t].put[i],
                             !.seen[i] = Kept(t, i, "on")])
  /\ UNCHANGED <<remote, table, fresh, events>>

(* deactivate_missing_*: active rows that were not answered.               *)
SelectMissing(t) ==
  LET missing == {i \in ItemsOf(task[t].at) \ task[t].got : View(t, i) = "on"}
      loaded == missing \ task[t].held IN
  /\ task[t].pc = "upsert" /\ task[t].todo = {}
  /\ Goes(t, [task[t] EXCEPT !.pc = "sweep", !.gone = missing,
                             !.seen = [i \in Items |-> IF i \in loaded THEN "on"
                                                          ELSE task[t].seen[i]],
                             !.tied = task[t].tied \cup (linked \cap loaded)])
  /\ UNCHANGED <<remote, table, fresh, lock, events>>

IsLeast(i, s) == i \in s /\ \A j \in s : i <= j

Deactivate(t, i) ==
  /\ task[t].pc = "sweep"
  /\ IsLeast(i, task[t].gone)
  /\ Free(t, i)
  /\ lock' = [lock EXCEPT ![i] = t]
  /\ Goes(t, [task[t] EXCEPT !.gone = task[t].gone \ {i},
                             !.put[i] = IF task[t].seen[i] = "on" THEN "off"
                                           ELSE task[t].put[i],
                             !.cut = task[t].cut \cup (task[t].tied \cap {i}),
                             !.tied = task[t].tied \ {i},
                             !.seen[i] = Kept(t, i, "off")])
  /\ UNCHANGED <<remote, table, fresh, events>>

(* With the services done the branch is SYNCED.                            *)
ListDone(t) ==
  LET u == task[t].at IN
  /\ task[t].pc = "sweep" /\ task[t].gone = {}
  /\ Goes(t, [task[t] EXCEPT !.pc = After(t, task[t].left), !.at = NoUnit,
                             !.verdict[u[1]] = IF task[t].kind # "catalogue" /\ u[2] = "services"
                                                  THEN "SYNCED" ELSE task[t].verdict[u[1]]])
  /\ UNCHANGED <<remote, table, fresh, lock, events>>

-----------------------------------------------------------------------------
(* Sessions end.                                                           *)

Released(t) == [i \in Items |-> IF lock[i] = t THEN NoTask ELSE lock[i]]

(* Mutant: the flag is taken over as it was flushed.                       *)
CommitAsFlushed(t) ==
  LET k == task[t] IN
  /\ k.pc = "end"
  /\ row' = [i \in Items |-> IF k.put[i] = "nothing" THEN row[i] ELSE k.put[i]]
  /\ linked' = linked \ k.cut
  /\ status' = [b \in Branches |-> IF k.verdict[b] = "none" THEN status[b] ELSE k.verdict[b]]
  /\ lock' = Released(t)
  /\ task' = [task EXCEPT ![t] = Idle]
  /\ UNCHANGED <<remote, fresh, events>>

(* Only what differs from what was loaded is written.                      *)
Commit(t) ==
  LET k == task[t] IN
  /\ k.pc = "end"
  /\ row' = [i \in Items |-> IF k.put[i] = "nothing" THEN row[i]
                             ELSE IF k.put[i] = "off" THEN "off" ELSE "on"]
  /\ linked' = linked \ k.cut
  /\ status' = [b \in Branches |-> IF k.verdict[b] \in {"none", k.old[b]} THEN status[b]
                                   ELSE k.verdict[b]]
  /\ lock' = Released(t)
  /\ task' = [task EXCEPT ![t] = Idle]
  /\ UNCHANGED <<remote, fresh, events>>

RollBack(t) ==
  /\ lock' = Released(t)
  /\ task' = [task EXCEPT ![t] = Idle]
  /\ UNCHANGED <<remote, table, fresh>>

(* The process stops, the connection or the commit fails.                  *)
Abort(t) == Event /\ Busy(t) /\ RollBack(t)

(* Somebody else has inserted the row: nothing after that can be flushed   *)
(* in this session, the mark of the error included.                        *)
Clash(t) ==
  /\ task[t].pc = "flush"
  /\ Free(t, task[t].cur)
  /\ task[t].seen[task[t].cur] = "absent" /\ row[task[t].cur] # "absent"
  /\ RollBack(t)
  /\ UNCHANGED events

Waits(t, u) ==
  /\ t # u
  /\ \E i \in Items : /\ lock[i] = u
                      /\ \/ task[t].pc = "flush" /\ task[t].cur = i
                         \/ task[t].pc = "sweep" /\ IsLeast(i, task[t].gone)

(* PostgreSQL ends one of the sessions that wait for each other.           *)
Deadlock(t) ==
  /\ \E s \in SUBSET Tasks :
       /\ t \in s
       /\ \A u \in s : (\E v \in s : Waits(u, v)) /\ (\E v \in s : Waits(v, u))
  /\ RollBack(t)
  /\ UNCHANGED events

-----------------------------------------------------------------------------
Step(t) ==
  \/ \E u \in Units : Answered(t, u) \/ Take(t, u)
  \/ CatalogueAnswered(t)
  \/ \E i \in Items : Select(t, i) \/ Deactivate(t, i)
  \/ Flush(t)
  \/ SelectMissing(t)
  \/ ListDone(t)
  \/ Commit(t)
  \/ Clash(t)
  \/ Deadlock(t)

Next ==
  \/ \E i \in Items : RemoteChange(i)
  \/ \E i \in Staff : AttachTelegram(i)
  \/ \E b \in Branches : MarkLapses(b)
  \/ SyncAllBranches
  \/ \E t \in Tasks :
       \/ SyncCompany(t)
       \/ \E b \in Branches : SyncBranch(t, b)
       \/ \E i \in Staff : RefreshCatalogue(t, i)
       \/ \E u \in Units : RequestFails(t, u)
       \/ Abort(t)
       \/ Step(t)

Spec == Init /\ [][Next]_vars

(* The scheduler runs, requests time out, and who waits for a lock gets it *)
(* when it is let go, before a job that begins later.                      *)
Fairness ==
  /\ WF_vars(SyncAllBranches)
  /\ WF_vars(Step(Job))
  /\ \A t \in Tasks \ {Job} : SF_vars(Step(t))

-----------------------------------------------------------------------------
(* Properties.                                                             *)

(* deactivate_missing_*: a row only becomes inactive, and an employee only *)
(* loses his account, in a session to which YCLIENTS has answered the list *)
(* of his branch without him; a list that failed costs nobody anything.    *)
OnlyMissingLeave ==
  [][\A i \in Items :
       (row[i] = "on" /\ row'[i] # "on") \/ (i \in linked /\ i \notin linked')
       => \E t \in Tasks : /\ task[t].pc = "end"
                           /\ UnitOf(i) \in task[t].ok
                           /\ i \notin task[t].got]_vars

(* upsert and deactivate_missing_*: a session that had nobody beside it    *)
(* ends with exactly what was answered active, whatever was there before.  *)
AloneShowsAnswer ==
  \A t \in Tasks : task[t].pc = "end" /\ task[t].alone =>
    \A i \in Items : UnitOf(i) \in task[t].ok =>
      (View(t, i) = "on" <=> i \in task[t].got)

(* sync_branch: a branch is called synchronised by a session that has      *)
(* written both its lists, and in error by one that lacks a list, even     *)
(* though the staff may already be written.                                *)
VerdictTells ==
  \A t \in Tasks : task[t].pc = "end" /\ task[t].kind # "catalogue" =>
    \A b \in Branches :
      /\ task[t].verdict[b] = "SYNCED" => {b} \X {"staff", "services"} \subseteq task[t].ok
      /\ task[t].verdict[b] = "ERROR" => <<b, "services">> \notin task[t].ok

(* sync_all_branches: once changes and failures cease, the job brings      *)
(* every branch to what YCLIENTS lists and its status to SYNCED for good.  *)
Converges ==
  <>[](/\ \A i \in Items : row[i] = "on" <=> i \in remote
       /\ \A b \in Branches : status[b] = "SYNCED")
=============================================================================
