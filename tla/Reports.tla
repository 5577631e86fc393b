------------------------------ MODULE Reports ------------------------------
(***************************************************************************)
(* The KPI percentage of a closed month, its rules, and the job that tells *)
(* the employees of it on the first day of the next one.                   *)
(*                                                                         *)
(* The job is one transaction over all employees: for each it sends the    *)
(* statistics, calculates the KPI twice (for the rich message and for the  *)
(* text used when that is refused), sends it, and sends the grade.  Beside *)
(* it employees turn to the same month on their KPI screen, and an admin   *)
(* edits the rules.  The first calculation of a month inserts its rows,    *)
(* later ones update the columns that differ from what was read; locks on  *)
(* rows last until the commit.                                             *)
(*                                                                         *)
(* Refreshes of the month's statistics are transactions of their own here; *)
(* how they run beside each other is in Refresh.                           *)
(***************************************************************************)
EXTENDS Lists, SequencesExt

CONSTANTS
  Employees,
  Handlers,    \* KPI screens that can be in flight together
  Job,         \* send_monthly_reports, at most one instance
  Thresholds,  \* amounts a rule can ask for
  Percents,
  Texts,       \* texts of rules, each a sequence of <<threshold, percent>>
  Default,     \* the text that stands for the rules of a new database
  NoRule, NoRow, NoGoal, NoTask,
  MaxEdits,    \* bound: edits of the rules and restarts
  MaxChanges   \* bound: new figures, disconnections and switches

Tasks == Handlers \cup {Job}

ASSUME TasksAssumption == IsFiniteSet(Employees) /\ Job \notin Handlers /\ NoTask \notin Tasks
ASSUME RulesAssumption ==
  /\ Thresholds \subseteq Nat /\ 0 \in Thresholds
  /\ Percents \subseteq Nat /\ 0 \in Percents
  /\ Texts \subseteq Seq(Thresholds \X Percents) \ {<<>>}
  /\ Default \in Texts
  /\ NoRule \notin [percent : Percents, active : BOOLEAN]
ASSUME RowsAssumption ==
  NoRow \notin Nat /\ NoRow \notin [base : Nat, percent : Percents]
ASSUME BoundsAssumption == MaxEdits \in Nat /\ MaxChanges \in Nat

VARIABLES
  rule,       \* kpi_rules, by threshold
  figure,     \* the month's KPI base of each employee, by daily_statistics
  monthly,    \* monthly_statistics: the base of the month
  kpi,        \* employee_kpi: base and percentage of the month
  connected,  \* active employees with a Telegram account
  muted,      \* accounts that switched the monthly report off
  lock,       \* the task that holds the lock of a row
  task,       \* what each task is doing
  edits, changes,
  written,    \* history: the text the rules were last taken from
  report      \* history: what became of the job

vars == <<rule, figure, monthly, kpi, connected, muted, lock, task, edits, changes, written, report>>

Rule == [percent : Percents, active : BOOLEAN]
Kpi == [base : Nat, percent : Percents]
Tables == {"monthly", "kpi"}

Task == [pc : {"idle", "stats", "sum", "store", "rate", "write", "tell", "grade", "end"},
         queue : Seq(Employees), round : {1, 2}, base : Nat, percent : Percents,
         seen : Nat \cup {NoRow}, found : Kpi \cup {NoRow}, rich : Kpi,
         monthly : [Employees -> Nat \cup {NoRow}], kpi : [Employees -> Kpi \cup {NoRow}],
         from : Nat, texts : SUBSET Texts]

Idle == [pc |-> "idle", queue |-> <<>>, round |-> 1, base |-> 0, percent |-> 0,
         seen |-> NoRow, found |-> NoRow, rich |-> [base |-> 0, percent |-> 0],
         monthly |-> [e \in Employees |-> NoRow], kpi |-> [e \in Employees |-> NoRow],
         from |-> 0, texts |-> {}]

Report == [state : {"due", "running", "done", "failed", "lost"}, invited : SUBSET Employees,
           told : SUBSET Employees, refused : BOOLEAN, crossed : BOOLEAN]

TypeOK ==
  /\ rule \in [Thresholds -> Rule \cup {NoRule}]
  /\ figure \in [Employees -> Nat]
  /\ monthly \in [Employees -> Nat \cup {NoRow}]
  /\ kpi \in [Employees -> Kpi \cup {NoRow}]
  /\ connected \in SUBSET Employees /\ muted \in SUBSET Employees
  /\ lock \in [Tables \X Employees -> Tasks \cup {NoTask}]
  /\ task \in [Tasks -> Task]
  /\ edits \in Nat /\ changes \in Nat
  /\ written \in Texts
  /\ report \in Report

-----------------------------------------------------------------------------
(* The rules.                                                              *)

(* A rule for nothing earned is added when the text has none; of several   *)
(* lines for one threshold the last counts.                                *)
ParsedRules(text) ==
  LET lines == IF \E i \in DOMAIN text : text[i][1] = 0 THEN text
               ELSE Append(text, <<0, 0>>)
      last(th) == CHOOSE i \in DOMAIN lines :
                    lines[i][1] = th /\ \A j \in DOMAIN lines : lines[j][1] = th => j <= i
  IN [th \in {lines[i][1] : i \in DOMAIN lines} |-> lines[last(th)][2]]

(* Mutant: a rule that is there already is not switched on again.          *)
ReplacedOnce(rules) ==
  [th \in Thresholds |->
     IF rule[th] = NoRule
     THEN IF th \in DOMAIN rules THEN [percent |-> rules[th], active |-> TRUE] ELSE NoRule
     ELSE IF th \in DOMAIN rules THEN [rule[th] EXCEPT !.percent = rules[th]]
     ELSE [rule[th] EXCEPT !.active = FALSE]]

(* Rows are never deleted: a rule left out is switched off, and switched   *)
(* on again when a later text has it.                                      *)
Replaced(rules) ==
  [th \in Thresholds |->
     IF th \in DOMAIN rules THEN [percent |-> rules[th], active |-> TRUE]
     ELSE IF rule[th] = NoRule THEN NoRule
     ELSE [rule[th] EXCEPT !.active = FALSE]]

Active == {th \in Thresholds : rule[th] # NoRule /\ rule[th].active}

(* Mutant: rules that were switched off are listed as well.                *)
ListAll == Ascending({th \in Thresholds : rule[th] # NoRule})

ListActive == Ascending(Active)

(* The last rule reached in ascending order is the one that counts.        *)
EarnedPercent(base) ==
  LET reached == {th \in Active : base >= th}
  IN IF reached = {} THEN 0 ELSE rule[Max(reached)].percent

NextGoal(base) ==
  LET paid == Picked(ListActive, {i \in DOMAIN ListActive : ListActive[i] > 0})
      ahead == {i \in DOMAIN paid : base < paid[i]}
  IN IF paid = <<>> THEN NoGoal ELSE IF ahead # {} THEN paid[Min(ahead)] ELSE Last(paid)

Init ==
  /\ rule = [th \in Thresholds |->
               IF th \in DOMAIN ParsedRules(Default)
               THEN [percent |-> ParsedRules(Default)[th], active |-> TRUE] ELSE NoRule]
  /\ figure = [e \in Employees |-> 0]
  /\ monthly = [e \in Employees |-> NoRow]
  /\ kpi = [e \in Employees |-> NoRow]
  /\ connected = Employees /\ muted = {}
  /\ lock = [r \in Tables \X Employees |-> NoTask]
  /\ task = [t \in Tasks |-> Idle]
  /\ edits = 0 /\ changes = 0
  /\ written = Default
  /\ report = [state |-> "due", invited |-> {}, told |-> {}, refused |-> FALSE, crossed |-> FALSE]

-----------------------------------------------------------------------------
(* The admin and the employees, one transaction each.                      *)
InFlight(t) == task[t].pc # "idle"
At(t, pc) == task[t].pc = pc

Edit(text) ==
  /\ edits < MaxEdits
  /\ edits' = edits + 1
  /\ rule' = Replaced(ParsedRules(text))
  /\ written' = text
  /\ task' = [t \in Tasks |-> IF task[t].texts = {} THEN task[t]
                              ELSE [task[t] EXCEPT !.texts = @ \cup {text}]]
  /\ UNCHANGED <<figure, monthly, kpi, connected, muted, lock, changes, report>>

(* ensure_default_setup replaces the rules at every start.  Jobs and       *)
(* handlers are gone, and the schedule has no memory of a job it missed.   *)
Restart ==
  /\ edits < MaxEdits
  /\ edits' = edits + 1
  /\ rule' = Replaced(ParsedRules(Default))
  /\ written' = Default
  /\ task' = [t \in Tasks |-> Idle]
  /\ lock' = [r \in Tables \X Employees |-> NoTask]
  /\ \/ report.state \in {"due", "running"} /\ report' = [report EXCEPT !.state = "lost"]
     \/ report.state # "running" /\ UNCHANGED report
  /\ UNCHANGED <<figure, monthly, kpi, connected, muted, changes>>

Changed == changes < MaxChanges /\ changes' = changes + 1

(* A refresh finds a sale of the closed month.                             *)
Refreshed(e) ==
  /\ Changed
  /\ figure' = [figure EXCEPT ![e] = @ + 1]
  /\ UNCHANGED <<rule, monthly, kpi, connected, muted, lock, task, edits, written, report>>

Disconnects(e) ==
  /\ Changed
  /\ connected' = connected \ {e}
  /\ UNCHANGED <<rule, figure, monthly, kpi, muted, lock, task, edits, written, report>>

Connects(e) ==
  /\ connected' = connected \cup {e}
  /\ UNCHANGED <<rule, figure, monthly, kpi, muted, lock, task, edits, changes, written, report>>

Toggle(e) ==
  /\ Changed
  /\ e \in connected
  /\ muted' = IF e \in muted THEN muted \ {e} ELSE muted \cup {e}
  /\ UNCHANGED <<rule, figure, monthly, kpi, connected, lock, task, edits, written, report>>

-----------------------------------------------------------------------------
(* The calculation of one employee's month, step by step.                  *)
Now(t) == Head(task[t].queue)
Free(t, table) == lock[<<table, Now(t)>>] \in {NoTask, t}
Locked(t, table) == [lock EXCEPT ![<<table, Now(t)>>] = t]
Released(t) == [r \in Tables \X Employees |-> IF lock[r] = t THEN NoTask ELSE lock[r]]

(* What a query of the transaction shows of a row.                         *)
Monthly(t) == IF task[t].monthly[Now(t)] # NoRow THEN task[t].monthly[Now(t)] ELSE monthly[Now(t)]
KpiRow(t) == IF task[t].kpi[Now(t)] # NoRow THEN task[t].kpi[Now(t)] ELSE kpi[Now(t)]

Sum(t) ==
  /\ At(t, "sum")
  /\ task' = [task EXCEPT ![t] =
       [@ EXCEPT !.base = figure[Now(t)], !.seen = Monthly(t),
                 !.pc = IF Monthly(t) = figure[Now(t)] THEN "rate" ELSE "store",
                 !.from = IF task[t].round = 1 THEN figure[Now(t)] ELSE task[t].from,
                 !.texts = IF task[t].round = 1 THEN {written} ELSE task[t].texts]]
  /\ UNCHANGED <<rule, figure, monthly, kpi, connected, muted, lock, edits, changes, written, report>>

(* A task that fails is rolled back; the messages it sent are not.         *)
Fails(t) ==
  /\ task' = [task EXCEPT ![t] = Idle]
  /\ lock' = Released(t)
  /\ report' = IF t = Job THEN [report EXCEPT !.state = "failed"] ELSE report

Clash(t) ==
  \/ At(t, "store") /\ task[t].seen = NoRow /\ Monthly(t) # NoRow
  \/ At(t, "write") /\ task[t].found = NoRow /\ KpiRow(t) # NoRow

(* Another transaction inserted the row after this one looked for it.      *)
Collide(t) ==
  /\ Clash(t) /\ Free(t, IF At(t, "store") THEN "monthly" ELSE "kpi")
  /\ Fails(t)
  /\ UNCHANGED <<rule, figure, monthly, kpi, connected, muted, edits, changes, written>>

Store(t) ==
  /\ At(t, "store") /\ Free(t, "monthly") /\ ~Clash(t)
  /\ lock' = Locked(t, "monthly")
  /\ task' = [task EXCEPT ![t] = [@ EXCEPT !.pc = "rate", !.seen = NoRow,
       !.monthly = [e \in Employees |-> IF e = Now(t) THEN task[t].base ELSE task[t].monthly[e]]]]
  /\ UNCHANGED <<rule, figure, monthly, kpi, connected, muted, edits, changes, written, report>>

(* Mutant: a percentage that was calculated once is kept.                  *)
RateKept(t) ==
  /\ At(t, "rate")
  /\ task' = [task EXCEPT ![t] = [@ EXCEPT !.pc = "write", !.seen = NoRow, !.found = KpiRow(t),
       !.percent = IF KpiRow(t) = NoRow THEN EarnedPercent(task[t].base) ELSE KpiRow(t).percent]]
  /\ UNCHANGED <<rule, figure, monthly, kpi, connected, muted, lock, edits, changes, written, report>>

(* Mutant: the row is always inserted.                                     *)
RateInserts(t) ==
  /\ At(t, "rate")
  /\ task' = [task EXCEPT ![t] = [@ EXCEPT !.pc = "write", !.seen = NoRow,
       !.percent = EarnedPercent(task[t].base), !.found = NoRow]]
  /\ UNCHANGED <<rule, figure, monthly, kpi, connected, muted, lock, edits, changes, written, report>>

Rate(t) ==
  /\ At(t, "rate")
  /\ task' = [task EXCEPT ![t] = [@ EXCEPT !.pc = "write", !.seen = NoRow,
       !.percent = EarnedPercent(task[t].base), !.found = KpiRow(t)]]
  /\ UNCHANGED <<rule, figure, monthly, kpi, connected, muted, lock, edits, changes, written, report>>

Figures(t) == [base |-> task[t].base, percent |-> task[t].percent]

(* Mutant: a new row is written without its percentage.                    *)
UpdatedSparse(row, found, new) ==
  IF found = NoRow THEN [base |-> new.base]
  ELSE [base |-> IF new.base = found.base THEN row.base ELSE new.base,
        percent |-> IF new.percent = found.percent THEN row.percent ELSE new.percent]

(* Only columns that differ from what was read are written, and the time   *)
(* of the calculation, so that the row is locked in any case.              *)
Updated(row, found, new) ==
  IF found = NoRow THEN new
  ELSE [base |-> IF new.base = found.base THEN row.base ELSE new.base,
        percent |-> IF new.percent = found.percent THEN row.percent ELSE new.percent]

(* The rich message is calculated first, the text second.                  *)
Write(t) ==
  /\ At(t, "write") /\ Free(t, "kpi") /\ ~Clash(t)
  /\ lock' = Locked(t, "kpi")
  /\ LET row == Updated(KpiRow(t), task[t].found, Figures(t)) IN
     task' = [task EXCEPT ![t] = [@ EXCEPT !.found = NoRow, !.round = 2,
       !.pc = IF task[t].round = 1 THEN "sum" ELSE "tell",
       !.rich = IF task[t].round = 1 THEN Figures(t) ELSE task[t].rich,
       !.kpi = [e \in Employees |-> IF e = Now(t) THEN row ELSE task[t].kpi[e]]]]
  /\ UNCHANGED <<rule, figure, monthly, kpi, connected, muted, edits, changes, written, report>>

(* PostgreSQL breaks a circle of waiters by failing one of them.           *)
WaitsFor(t, u) ==
  \/ At(t, "store") /\ lock[<<"monthly", Now(t)>>] = u
  \/ At(t, "write") /\ lock[<<"kpi", Now(t)>>] = u

DeadlockAbort(t) ==
  /\ \E u \in Tasks \ {t} : WaitsFor(t, u) /\ WaitsFor(u, t)
  /\ Fails(t)
  /\ UNCHANGED <<rule, figure, monthly, kpi, connected, muted, edits, changes, written>>

-----------------------------------------------------------------------------
(* An employee turns to the month on the KPI screen.                       *)
Views(h, e) ==
  /\ ~InFlight(h)
  /\ e \in connected
  /\ task' = [task EXCEPT ![h] = [Idle EXCEPT !.pc = "sum", !.queue = <<e>>]]
  /\ report' = IF report.state = "running" /\ e \in report.invited
               THEN [report EXCEPT !.crossed = TRUE] ELSE report
  /\ UNCHANGED <<rule, figure, monthly, kpi, connected, muted, lock, edits, changes, written>>

(* The job loads the employees and their switches once, in no order.       *)
JobStarts ==
  /\ report.state = "due" /\ ~InFlight(Job)
  /\ \E queue \in SetToSeqs(connected \ muted) :
       task' = [task EXCEPT ![Job] = [Idle EXCEPT !.queue = queue,
                                      !.pc = IF queue = <<>> THEN "end" ELSE "stats"]]
  /\ report' = [report EXCEPT !.state = "running", !.invited = connected \ muted,
       !.crossed = \E h \in Handlers : InFlight(h) /\ Now(h) \in connected \ muted]
  /\ UNCHANGED <<rule, figure, monthly, kpi, connected, muted, lock, edits, changes, written>>

(* Telegram takes the message, the rich one or the text.                   *)
TellStats ==
  /\ At(Job, "stats")
  /\ task' = [task EXCEPT ![Job].pc = "sum"]
  /\ UNCHANGED <<rule, figure, monthly, kpi, connected, muted, lock, edits, changes, written, report>>

TellKpi(t) ==
  /\ At(t, "tell")
  /\ task' = [task EXCEPT ![t] = [@ EXCEPT !.pc = IF t = Job THEN "grade" ELSE "end",
       !.round = 1, !.base = 0, !.percent = 0, !.rich = Idle.rich, !.from = 0, !.texts = {}]]
  /\ UNCHANGED <<rule, figure, monthly, kpi, connected, muted, lock, edits, changes, written, report>>

TellGrade ==
  LET rest == Tail(task[Job].queue) IN
  /\ At(Job, "grade")
  /\ task' = [task EXCEPT ![Job] = [@ EXCEPT !.queue = rest,
                                      !.pc = IF rest = <<>> THEN "end" ELSE "stats"]]
  /\ report' = [report EXCEPT !.told = @ \cup {Now(Job)}]
  /\ UNCHANGED <<rule, figure, monthly, kpi, connected, muted, lock, edits, changes, written>>

(* Mutant: a refusal ends the loop as if it had come to its end.           *)
RefusedReturns(t) ==
  /\ task[t].pc \in {"stats", "tell", "grade"}
  /\ task' = [task EXCEPT ![t] = [@ EXCEPT !.pc = "end", !.queue = <<>>]]
  /\ UNCHANGED <<rule, figure, monthly, kpi, connected, muted, lock, edits, changes, written, report>>

(* Telegram refuses both forms, for instance because the bot was blocked:  *)
(* the loop ends there.                                                    *)
Refused(t) ==
  /\ task[t].pc \in {"stats", "tell", "grade"}
  /\ task' = [task EXCEPT ![t] = Idle]
  /\ lock' = Released(t)
  /\ report' = IF t = Job THEN [report EXCEPT !.state = "failed", !.refused = TRUE] ELSE report
  /\ UNCHANGED <<rule, figure, monthly, kpi, connected, muted, edits, changes, written>>

Commit(t) ==
  /\ At(t, "end")
  /\ monthly' = [e \in Employees |-> IF task[t].monthly[e] = NoRow THEN monthly[e]
                                     ELSE task[t].monthly[e]]
  /\ kpi' = [e \in Employees |-> IF task[t].kpi[e] = NoRow THEN kpi[e] ELSE task[t].kpi[e]]
  /\ task' = [task EXCEPT ![t] = Idle]
  /\ lock' = Released(t)
  /\ report' = IF t = Job THEN [report EXCEPT !.state = "done"] ELSE report
  /\ UNCHANGED <<rule, figure, connected, muted, edits, changes, written>>

Next ==
  \/ \E text \in Texts : Edit(text)
  \/ Restart
  \/ \E e \in Employees : Refreshed(e) \/ Disconnects(e) \/ Connects(e) \/ Toggle(e)
  \/ \E h \in Handlers, e \in Employees : Views(h, e)
  \/ JobStarts \/ TellStats \/ TellGrade
  \/ \E t \in Tasks :
       \/ Sum(t) \/ Store(t) \/ Rate(t) \/ Write(t) \/ Collide(t)
       \/ TellKpi(t) \/ Refused(t) \/ DeadlockAbort(t) \/ Commit(t)

Spec == Init /\ [][Next]_vars

-----------------------------------------------------------------------------
(* Properties.                                                             *)

(* What the text says: the last line of the highest threshold reached.     *)
HighestReached(text, base) ==
  LET reached == {i \in DOMAIN text : text[i][1] <= base}
      best == {i \in reached : \A j \in reached : text[j][1] <= text[i][1]}
  IN IF reached = {} THEN 0 ELSE text[CHOOSE i \in best : \A j \in best : j <= i][2]

Amounts == Thresholds \cup {th + 1 : th \in Thresholds}

(* After any sequence of edits and restarts, with rows switched off and on *)
(* again, every amount earns what the last text says, at its boundaries.   *)
EarnedAsWritten == \A base \in Amounts : EarnedPercent(base) = HighestReached(written, base)

(* The goal shown is the nearest threshold not reached yet, or the highest *)
(* one when all are; there is none when the text asks for nothing.         *)
GoalIsNext ==
  LET paid == {written[i][1] : i \in DOMAIN written} \ {0} IN
  \A base \in Amounts :
    LET ahead == {th \in paid : th > base} IN
    NextGoal(base) = IF paid = {} THEN NoGoal ELSE IF ahead # {} THEN Min(ahead) ELSE Max(paid)

(* The figures in a message were due at a moment while they were being     *)
(* calculated: the base was the employee's, and the percentage the one of  *)
(* rules then in force.                                                    *)
ToldWasDue ==
  \A t \in Tasks : At(t, "tell") =>
    \A told \in {task[t].rich, Figures(t)} :
      /\ told.base \in task[t].from .. figure[Now(t)]
      /\ \E text \in task[t].texts : told.percent = HighestReached(text, told.base)

(* Only the invited are told; a job that came to its end has told each of  *)
(* them and stored what it told them of.                                   *)
NobodyForgotten ==
  /\ report.told \subseteq report.invited
  /\ report.state = "done" =>
       report.told = report.invited /\ \A e \in report.invited : kpi[e] # NoRow

(* The job fails only when Telegram refused a message or an employee of    *)
(* the report was looking at that month: never by its own two calculations.*)
FailsForCause == report.state = "failed" => report.refused \/ report.crossed

(* A row is locked only by a task that still runs and is at that employee, *)
(* or, the job, has been: whoever waits for it waits for somebody.         *)
LocksHaveOwner ==
  \A table \in Tables, e \in Employees :
    LET t == lock[<<table, e>>] IN
    t # NoTask => /\ InFlight(t)
                  /\ \/ task[t].queue # <<>> /\ e = Now(t)
                     \/ t = Job /\ e \in report.told
=============================================================================
