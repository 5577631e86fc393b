----------------------------- MODULE Connection -----------------------------
(***************************************************************************)
(* Connecting employees by code, at the level of database transactions.    *)
(*                                                                         *)
(* aiogram runs each update as its own task, the scheduler and the API run *)
(* beside them, and every one of them has a session of its own at          *)
(* READ COMMITTED.  A handler reads its rows, decides, flushes UPDATEs by  *)
(* primary key (which take row locks until the end of the transaction and  *)
(* do not look again at what was read), calls Telegram, and is committed   *)
(* by the middleware, or rolled back if anything raised.                   *)
(*                                                                         *)
(* SQLAlchemy writes only the attributes that differ from what was loaded, *)
(* so a task remembers what it saw.                                        *)
(***************************************************************************)
EXTENDS Naturals, FiniteSets

CONSTANTS
  Tg,         \* Telegram accounts
  Employees,  \* rows of employees
  Codes,      \* connection codes that can be generated
  CodeFor,    \* the employee each code is generated for
  Tasks,      \* handlers and jobs that can be in flight together
  NoTg,       \* "no Telegram account"
  NoTask,     \* an unlocked row
  NoCode      \* a task that holds no code

ASSUME CodeForAssumption == CodeFor \in [Codes -> Employees]
ASSUME FiniteAssumption == IsFiniteSet(Tasks) /\ IsFiniteSet(Tg) /\ Employees # {}
ASSUME DistinctAssumption == NoTg \notin Tg /\ NoTask \notin Tasks /\ NoCode \notin Codes

VARIABLES
  status,     \* connection_codes.status
  lapsed,     \* codes whose expires_at has passed
  working,    \* employees with is_active
  linked,     \* employees.telegram_user_id
  lock,       \* the task that holds the lock of an employee's row
  task,       \* what each task is doing
  alone,      \* whether handlers and jobs run one after the other in this
              \* behaviour, or overlap; it never changes
  redeemed    \* history: the accounts whose redemption of a code was committed

table == <<status, working, linked, redeemed>>
vars == <<table, lapsed, lock, task, alone>>

Ops == {"bind", "disconnect", "leave", "return"}

Idle == [pc |-> "idle", op |-> "bind", emp |-> CHOOSE e \in Employees : TRUE,
         code |-> NoCode, tg |-> NoTg, seen |-> NoTg]

Task == [pc : {"idle", "read", "wrote", "told"}, op : Ops, emp : Employees,
         code : Codes \cup {NoCode}, tg : Tg \cup {NoTg}, seen : Tg \cup {NoTg}]

TypeOK ==
  /\ status \in [Codes -> {"unissued", "ACTIVE", "USED"}]
  /\ lapsed \in SUBSET Codes
  /\ working \in SUBSET Employees
  /\ linked \in [Employees -> Tg \cup {NoTg}]
  /\ lock \in [Employees -> Tasks \cup {NoTask}]
  /\ task \in [Tasks -> Task]
  /\ redeemed \in [Codes -> SUBSET Tg]
  /\ alone \in BOOLEAN

Init ==
  /\ status = [c \in Codes |-> "unissued"]
  /\ lapsed = {}
  /\ working = Employees
  /\ linked = [e \in Employees |-> NoTg]
  /\ lock = [e \in Employees |-> NoTask]
  /\ task = [t \in Tasks |-> Idle]
  /\ redeemed = [c \in Codes |-> {}]
  /\ alone \in BOOLEAN

-----------------------------------------------------------------------------
(* Mutant: the column has another default.                                 *)
GenerateCodeNew(c) ==
  /\ status[c] = "unissued"
  /\ status' = [status EXCEPT ![c] = "NEW"]
  /\ UNCHANGED <<lapsed, working, linked, lock, task, redeemed, alone>>

(* generate_code, committed.  The 15-minute text and the configured TTL    *)
(* are abstracted to the moment the code lapses.                           *)
GenerateCode(c) ==
  /\ status[c] = "unissued"
  /\ status' = [status EXCEPT ![c] = "ACTIVE"]
  /\ UNCHANGED <<lapsed, working, linked, lock, task, redeemed, alone>>

Lapse(c) ==
  /\ status[c] = "ACTIVE"
  /\ c \notin lapsed
  /\ lapsed' = lapsed \cup {c}
  /\ UNCHANGED <<table, lock, task, alone>>

Begin(t, op, e, c, g) ==
  /\ task[t].pc = "idle"
  /\ alone => \A u \in Tasks : task[u].pc = "idle"
  /\ task' = [task EXCEPT ![t] = [pc |-> "read", op |-> op, emp |-> e,
                                  code |-> c, tg |-> g, seen |-> linked[e]]]
  /\ UNCHANGED <<table, lapsed, lock, alone>>

(* Mutants: a used code is found too; an expired one passes.               *)
BindReadAnyStatus(t, c, g) ==
  /\ status[c] # "unissued"
  /\ c \notin lapsed
  /\ CodeFor[c] \in working
  /\ Begin(t, "bind", CodeFor[c], c, g)

BindReadExpired(t, c, g) ==
  /\ status[c] = "ACTIVE"
  /\ CodeFor[c] \in working
  /\ Begin(t, "bind", CodeFor[c], c, g)

(* bind_employee up to its checks.  A code past its expiry is marked       *)
(* EXPIRED and the handler raises, so the mark is rolled back: no step.    *)
BindRead(t, c, g) ==
  /\ status[c] = "ACTIVE"
  /\ c \notin lapsed
  /\ CodeFor[c] \in working
  /\ Begin(t, "bind", CodeFor[c], c, g)

DisconnectRead(t, e) == Begin(t, "disconnect", e, NoCode, NoTg)

(* deactivate_missing_staff selects the active employees YCLIENTS no       *)
(* longer lists; upsert finds one it lists again.                          *)
LeaveRead(t, e)  == e \in working /\ Begin(t, "leave", e, NoCode, NoTg)
ReturnRead(t, e) == e \notin working /\ Begin(t, "return", e, NoCode, NoTg)

(* Whether the flush has anything to write to the employee's row.          *)
Writes(k) == k.op = "disconnect" => k.seen # NoTg

Write(t) ==
  /\ task[t].pc = "read"
  /\ IF Writes(task[t])
     THEN /\ lock[task[t].emp] = NoTask
          /\ lock' = [lock EXCEPT ![task[t].emp] = t]
     ELSE UNCHANGED lock
  /\ task' = [task EXCEPT ![t].pc = "wrote"]
  /\ UNCHANGED <<table, lapsed, alone>>

(* The manager's message is edited before the commit; a message that can   *)
(* no longer be edited is let be.                                          *)
Notify(t) ==
  /\ task[t].pc = "wrote" /\ task[t].op = "bind"
  /\ task' = [task EXCEPT ![t].pc = "told"]
  /\ UNCHANGED <<table, lapsed, lock, alone>>

(* Mutant: the transaction is left open.                                   *)
ReleaseNothing(t) ==
  /\ UNCHANGED lock
  /\ task' = [task EXCEPT ![t] = Idle]

Release(t) ==
  /\ lock' = [e \in Employees |-> IF lock[e] = t THEN NoTask ELSE lock[e]]
  /\ task' = [task EXCEPT ![t] = Idle]

(* Mutant: the code is not marked.                                         *)
CommitBindUnmarked(t) ==
  LET k == task[t] IN
  /\ k.pc = "told" /\ k.op = "bind"
  /\ linked' = IF k.seen = k.tg THEN linked ELSE [linked EXCEPT ![k.emp] = k.tg]
  /\ redeemed' = [redeemed EXCEPT ![k.code] = @ \cup {k.tg}]
  /\ Release(t)
  /\ UNCHANGED <<status, lapsed, working, alone>>

CommitBind(t) ==
  LET k == task[t] IN
  /\ k.pc = "told" /\ k.op = "bind"
  /\ status' = [status EXCEPT ![k.code] = "USED"]
  /\ linked' = IF k.seen = k.tg THEN linked ELSE [linked EXCEPT ![k.emp] = k.tg]
  /\ redeemed' = [redeemed EXCEPT ![k.code] = @ \cup {k.tg}]
  /\ Release(t)
  /\ UNCHANGED <<lapsed, working, alone>>

Unlinked(k) == IF k.seen = NoTg THEN linked ELSE [linked EXCEPT ![k.emp] = NoTg]

CommitDisconnect(t) ==
  /\ task[t].pc = "wrote" /\ task[t].op = "disconnect"
  /\ linked' = Unlinked(task[t])
  /\ Release(t)
  /\ UNCHANGED <<status, lapsed, working, redeemed, alone>>

(* Mutant: the account stays with who left.                                *)
CommitLeaveLinked(t) ==
  /\ task[t].pc = "wrote" /\ task[t].op = "leave"
  /\ working' = working \ {task[t].emp}
  /\ Release(t)
  /\ UNCHANGED <<status, lapsed, linked, redeemed, alone>>

CommitLeave(t) ==
  /\ task[t].pc = "wrote" /\ task[t].op = "leave"
  /\ working' = working \ {task[t].emp}
  /\ linked' = Unlinked(task[t])
  /\ Release(t)
  /\ UNCHANGED <<status, lapsed, redeemed, alone>>

CommitReturn(t) ==
  /\ task[t].pc = "wrote" /\ task[t].op = "return"
  /\ working' = working \cup {task[t].emp}
  /\ Release(t)
  /\ UNCHANGED <<status, lapsed, linked, redeemed, alone>>

(* Telegram does not answer, the connection breaks, the process stops.     *)
Rollback(t) ==
  /\ task[t].pc # "idle"
  /\ Release(t)
  /\ UNCHANGED <<table, lapsed, alone>>

Commit(t) == CommitBind(t) \/ CommitDisconnect(t) \/ CommitLeave(t) \/ CommitReturn(t)

Next ==
  \/ \E c \in Codes : GenerateCode(c) \/ Lapse(c)
  \/ \E t \in Tasks, c \in Codes, g \in Tg : BindRead(t, c, g)
  \/ \E t \in Tasks, e \in Employees :
       DisconnectRead(t, e) \/ LeaveRead(t, e) \/ ReturnRead(t, e)
  \/ \E t \in Tasks : Write(t) \/ Notify(t) \/ Commit(t) \/ Rollback(t)

Spec == Init /\ [][Next]_vars

(* Every coroutine is resumed when what it awaits is there, a call to      *)
(* Telegram times out, and PostgreSQL hands a row lock to the waiter that  *)
(* came first.                                                             *)
Fairness == \A t \in Tasks : SF_vars(Write(t)) /\ WF_vars(Notify(t)) /\ WF_vars(Commit(t))

LiveSpec == Spec /\ Fairness

-----------------------------------------------------------------------------
(* Properties.                                                             *)

Holds(t, c) == task[t].pc # "idle" /\ task[t].op = "bind" /\ task[t].code = c

(* An employee is tied to an account only by a code issued for that        *)
(* employee which that account redeemed and which is marked USED: the      *)
(* link and the mark are written together, whatever else runs or fails.    *)
LinkHasUsedCode ==
  \A e \in Employees : linked[e] # NoTg =>
     \E c \in Codes : /\ CodeFor[c] = e
                      /\ status[c] = "USED"
                      /\ linked[e] \in redeemed[c]

(* However many accounts send a code, it is redeemed at most once by each   *)
(* handler that can be in flight together: only those that read it before  *)
(* the first of them committed still get through.                          *)
RedeemedInFlight == \A c \in Codes : Cardinality(redeemed[c]) <= Cardinality(Tasks)

Holders(c) == {t \in Tasks : Holds(t, c)}

(* What keeps the two above true: a handler that binds holds a code of its *)
(* employee, nobody redeemed a code that is not used, and a used one only  *)
(* has the handlers left that had it already.                              *)
BindHoldsCode ==
  \A t \in Tasks : task[t].pc # "idle" /\ task[t].op = "bind" =>
    task[t].code \in Codes /\ CodeFor[task[t].code] = task[t].emp /\ task[t].tg \in Tg

RedeemedOnlyUsed == \A c \in Codes : status[c] # "USED" => redeemed[c] = {}

UsedGoesToHolders ==
  \A c \in Codes : status[c] = "USED" =>
    Cardinality(redeemed[c]) + Cardinality(Holders(c)) <= Cardinality(Tasks)

ConnectionInv == BindHoldsCode /\ RedeemedOnlyUsed /\ UsedGoesToHolders /\ LinkHasUsedCode

(* Every handler ends and lets go of the rows it locked.                   *)
EveryTaskEnds == \A t \in Tasks : task[t].pc # "idle" ~> task[t].pc = "idle"

(* README.md:3: the codes are one-time.                                    *)
OneTime == \A c \in Codes : Cardinality(redeemed[c]) <= 1

(* An employee who left has no account tied to the row.                    *)
GoneIsUnlinked == alone => \A e \in Employees \ working : linked[e] = NoTg

(* A code counts as expired when no handler that read it in time is still  *)
(* at work.                                                                *)
Expired == {c \in lapsed : status[c] = "ACTIVE" /\ \A t \in Tasks : ~Holds(t, c)}

(* The promise, as OneTimeCode states it, for handlers that run one after  *)
(* the other and for those that overlap.                                   *)
Promise == INSTANCE OneTimeCode WITH lapsed <- Expired

KeepsPromise == Promise!Spec
=============================================================================
