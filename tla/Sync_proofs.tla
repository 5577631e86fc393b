----------------------------- MODULE Sync_proofs -----------------------------
(***************************************************************************)
(* Theorems about Sync, for any branches, lists and number of sessions.    *)
(***************************************************************************)
EXTENDS Sync, TLAPS

Working == {"upsert", "flush", "sweep"}

(* What holds of every session: a row only goes when its list was answered *)
(* without it; the lists still to do are not answered yet, or, in the      *)
(* catalogue, all are; services come after staff.                          *)
Sound(k) ==
  /\ \A i \in Items : k.put[i] = "off" \/ i \in k.cut \/ i \in k.gone
                      => UnitOf(i) \in k.ok /\ i \notin k.got
  /\ k.pc \in Working => k.at \in k.ok
  /\ k.pc = "take" => k.kind = "catalogue"
  /\ k.kind = "catalogue" => IF k.pc = "ask" THEN k.ok = {} ELSE k.left \subseteq k.ok
  /\ k.kind # "catalogue" =>
       /\ k.left \cap k.ok = {}
       /\ \A b \in Branches :
            /\ <<b, "services">> \in k.left => <<b, "staff">> \in k.left \cup k.ok
            /\ <<b, "services">> \in k.ok => <<b, "staff">> \in k.ok
            /\ k.verdict[b] = "SYNCED" => <<b, "services">> \in k.ok
            /\ k.verdict[b] = "ERROR" => <<b, "services">> \notin k.left \cup k.ok

AllSound == \A t \in Tasks : Sound(task[t])

-----------------------------------------------------------------------------
(* Types.                                                                  *)

LEMMA IdleTyped == Idle \in Task
  BY DEF Idle, Task, Items, NoUnit

LEMMA InitTyped == Init => TypeOK
  BY IdleTyped, TasksAssumption, MaxEventsAssumption DEF Init, TypeOK

LEMMA EventTyped == TypeOK /\ (Event \/ UNCHANGED events) => events' \in 0..MaxEvents
  BY MaxEventsAssumption DEF TypeOK, Event

(* A session that begins with the typed record k.                          *)
LEMMA BeginTyped ==
  ASSUME TypeOK, NEW t \in Tasks, NEW k \in Task, Begin(t, k)
  PROVE  task' \in [Tasks -> Task]
<1> DEFINE k2 == [k EXCEPT !.pc = "ask", !.old = status,
                           !.alone = \A v \in Tasks \ {t} : ~Busy(v)]
<1>1. k2 \in Task
  BY DEF Task, TypeOK
<1>2. ASSUME NEW u \in Tasks
      PROVE  [task[u] EXCEPT !.alone = task[u].alone /\ ~Busy(u)] \in Task
  <2>1. task[u] \in Task
    BY DEF TypeOK
  <2> QED
    BY <2>1 DEF Task
<1>3. task' = [u \in Tasks |-> IF u = t THEN k2
                 ELSE [task[u] EXCEPT !.alone = task[u].alone /\ ~Busy(u)]]
  BY DEF Begin
<1> HIDE DEF k2
<1> QED
  BY <1>1, <1>2, <1>3

LEMMA AroundTyped ==
  ASSUME TypeOK
  PROVE  /\ \A i \in Items : RemoteChange(i) => TypeOK'
         /\ \A i \in Staff : AttachTelegram(i) => TypeOK'
         /\ \A b \in Branches : MarkLapses(b) => TypeOK'
  BY EventTyped DEF TypeOK, RemoteChange, AttachTelegram, MarkLapses, table

-----------------------------------------------------------------------------
(* One step of a session, from a sound state: what it goes on with is      *)
(* typed and sound.                                                        *)

Ready(t) == TypeOK /\ Sound(task[t])
GoesOn(t) == \E k \in Task : Sound(k) /\ Goes(t, k)

LEMMA ReadyTask ==
  ASSUME NEW t \in Tasks, Ready(t)
  PROVE  /\ task[t] \in Task /\ Sound(task[t])
         /\ remote \in SUBSET Items /\ linked \in SUBSET Staff
         /\ row \in [Items -> {"absent", "on", "off"}]
  BY DEF Ready, TypeOK

LEMMA AnsweredSound ==
  ASSUME NEW t \in Tasks, Ready(t), NEW u \in Units, Answered(t, u)
  PROVE  GoesOn(t)
<1>1. PICK items \in {remote \cap ItemsOf(u), {}} :
        Goes(t, [task[t] EXCEPT !.pc = "upsert", !.at = u,
                                !.left = task[t].left \ {u},
                                !.ok = task[t].ok \cup {u},
                                !.got = task[t].got \cup items,
                                !.todo = items])
  BY DEF Answered
<1> DEFINE k == [task[t] EXCEPT !.pc = "upsert", !.at = u,
                                !.left = task[t].left \ {u},
                                !.ok = task[t].ok \cup {u},
                                !.got = task[t].got \cup items,
                                !.todo = items]
<1>2. items \in SUBSET Items /\ \A i \in items : UnitOf(i) = u
  BY ReadyTask DEF ItemsOf
<1>3. k \in Task
  <2>1. task[t] \in Task
    BY ReadyTask
  <2>2. task[t].left \ {u} \in SUBSET Units /\ task[t].ok \cup {u} \in SUBSET Units
        /\ task[t].got \cup items \in SUBSET Items
    BY <1>2, <2>1 DEF Task
  <2> QED
    BY <1>2, <2>1, <2>2 DEF Task
<1>4. u \in task[t].left /\ task[t].kind # "catalogue" /\ IsFirst(u, task[t].left)
  BY DEF Answered, IsFirst
<1>5. /\ k.pc = "upsert" /\ k.at = u /\ k.left = task[t].left \ {u}
      /\ k.ok = task[t].ok \cup {u} /\ k.got = task[t].got \cup items
      /\ k.put = task[t].put /\ k.cut = task[t].cut /\ k.gone = task[t].gone
      /\ k.kind = task[t].kind /\ k.verdict = task[t].verdict
  BY ReadyTask DEF Task
<1> HIDE DEF k
<1>6. u \notin task[t].ok
  BY <1>4, ReadyTask DEF Sound
<1>7. \A i \in Items : k.put[i] = "off" \/ i \in k.cut \/ i \in k.gone
                       => UnitOf(i) \in k.ok /\ i \notin k.got
  BY <1>2, <1>5, <1>6, ReadyTask DEF Sound
<1>8. ASSUME NEW b \in Branches
      PROVE  /\ <<b, "services">> \in k.left => <<b, "staff">> \in k.left \cup k.ok
             /\ <<b, "services">> \in k.ok => <<b, "staff">> \in k.ok
             /\ k.verdict[b] = "SYNCED" => <<b, "services">> \in k.ok
             /\ k.verdict[b] = "ERROR" => <<b, "services">> \notin k.left \cup k.ok
  <2>1. u = <<b, "services">> => <<b, "staff">> \notin task[t].left
    BY <1>4, BranchesAssumption DEF IsFirst
  <2> QED
    BY <1>4, <1>5, <2>1, ReadyTask DEF Sound
<1>9. k.left \cap k.ok = {}
  BY <1>4, <1>5, ReadyTask DEF Sound
<1>10. Sound(k)
  BY <1>4, <1>5, <1>7, <1>8, <1>9 DEF Sound, Working
<1> QED
  BY <1>1, <1>3, <1>10 DEF GoesOn, k

LEMMA RequestFailsSound ==
  ASSUME NEW t \in Tasks, Ready(t), NEW u \in Units, RequestFails(t, u)
  PROVE  GoesOn(t)
<1> DEFINE left == WithoutBranch(task[t].left, u[1])
           k == [task[t] EXCEPT !.verdict[u[1]] = "ERROR", !.left = left, !.pc = After(t, left)]
<1>1. Goes(t, k) /\ u \in task[t].left /\ task[t].kind # "catalogue" /\ IsFirst(u, task[t].left)
  BY DEF RequestFails, IsFirst
<1>2. left \in SUBSET Units /\ left \subseteq task[t].left /\ (\A v \in left : v[1] # u[1])
      /\ \A v \in task[t].left : v[1] # u[1] => v \in left
  BY ReadyTask DEF WithoutBranch, Task
<1>3. After(t, left) \in {"end", "ask"}
  BY <1>1 DEF After
<1> HIDE DEF left
<1>4. k \in Task
  <2>1. task[t] \in Task
    BY ReadyTask
  <2>2. [task[t].verdict EXCEPT ![u[1]] = "ERROR"] \in [Branches -> {"none", "SYNCED", "ERROR"}]
    BY <2>1 DEF Task
  <2> QED
    BY <1>2, <1>3, <2>1, <2>2 DEF Task
<1>5. /\ k.pc \in {"end", "ask"} /\ k.left = left /\ k.ok = task[t].ok /\ k.got = task[t].got
      /\ k.put = task[t].put /\ k.cut = task[t].cut /\ k.gone = task[t].gone
      /\ k.kind = task[t].kind /\ k.verdict = [task[t].verdict EXCEPT ![u[1]] = "ERROR"]
  BY <1>3, ReadyTask DEF Task
<1>6. task[t].verdict \in [Branches -> {"none", "SYNCED", "ERROR"}]
  BY ReadyTask DEF Task
<1> HIDE DEF k
<1>7. ASSUME NEW b \in Branches
      PROVE  /\ <<b, "services">> \in k.left => <<b, "staff">> \in k.left \cup k.ok
             /\ <<b, "services">> \in k.ok => <<b, "staff">> \in k.ok
             /\ k.verdict[b] = "SYNCED" => <<b, "services">> \in k.ok
             /\ k.verdict[b] = "ERROR" => <<b, "services">> \notin k.left \cup k.ok
  <2>1. /\ <<b, "services">> \in task[t].left => <<b, "staff">> \in task[t].left \cup task[t].ok
        /\ <<b, "services">> \in task[t].ok => <<b, "staff">> \in task[t].ok
        /\ task[t].verdict[b] = "SYNCED" => <<b, "services">> \in task[t].ok
        /\ task[t].verdict[b] = "ERROR" => <<b, "services">> \notin task[t].left \cup task[t].ok
        /\ task[t].left \cap task[t].ok = {}
    BY <1>1, ReadyTask DEF Sound
  <2>2. CASE b = u[1]
    <3>1. u = <<b, "staff">> \/ u = <<b, "services">>
      BY <2>2 DEF Units
    <3>2. <<b, "services">> \notin task[t].ok
      BY <1>1, <2>1, <3>1
    <3>3. <<b, "services">> \notin left
      BY <1>2, <2>2
    <3> QED
      BY <1>5, <1>6, <2>1, <2>2, <3>2, <3>3
  <2>3. CASE b # u[1]
    <3>1. \A x \in {"staff", "services"} : <<b, x>> \in task[t].left <=> <<b, x>> \in left
      BY <1>2, <2>3
    <3> QED
      BY <1>5, <1>6, <2>1, <2>3, <3>1
  <2> QED
    BY <2>2, <2>3
<1>8. Sound(k)
  BY <1>1, <1>2, <1>5, <1>7, ReadyTask DEF Sound, Working
<1> QED
  BY <1>1, <1>4, <1>8 DEF GoesOn

LEMMA TakeSound ==
  ASSUME NEW t \in Tasks, Ready(t), NEW u \in Units, Take(t, u)
  PROVE  GoesOn(t)
<1> DEFINE k == [task[t] EXCEPT !.pc = "upsert", !.at = u,
                                !.left = task[t].left \ {u},
                                !.todo = task[t].got \cap ItemsOf(u)]
<1>1. Goes(t, k) /\ u \in task[t].left /\ task[t].pc = "take"
  BY DEF Take, IsFirst
<1>2. k \in Task
  <2>1. task[t] \in Task
    BY ReadyTask
  <2>2. task[t].left \ {u} \in SUBSET Units /\ task[t].got \cap ItemsOf(u) \in SUBSET Items
    BY <2>1 DEF Task
  <2> QED
    BY <2>1, <2>2 DEF Task
<1>3. /\ k.pc = "upsert" /\ k.at = u /\ k.left = task[t].left \ {u}
      /\ k.ok = task[t].ok /\ k.got = task[t].got
      /\ k.put = task[t].put /\ k.cut = task[t].cut /\ k.gone = task[t].gone
      /\ k.kind = task[t].kind /\ k.verdict = task[t].verdict
  BY ReadyTask DEF Task
<1> HIDE DEF k
<1>4. Sound(k)
  BY <1>1, <1>3, ReadyTask DEF Sound, Working
<1> QED
  BY <1>1, <1>2, <1>4 DEF GoesOn

LEMMA CatalogueAnsweredSound ==
  ASSUME NEW t \in Tasks, Ready(t), CatalogueAnswered(t)
  PROVE  GoesOn(t)
<1> DEFINE got(ok) == {i \in remote : UnitOf(i) \in ok}
           verdict(ok) == [b \in Branches |-> IF \E u \in ok : u[1] = b THEN "SYNCED" ELSE "none"]
<1>1. PICK ok \in SUBSET task[t].left :
        Goes(t, [task[t] EXCEPT !.ok = ok, !.left = ok, !.got = got(ok),
                                !.verdict = verdict(ok), !.pc = After(t, ok)])
  BY DEF CatalogueAnswered
<1> DEFINE k == [task[t] EXCEPT !.ok = ok, !.left = ok, !.got = got(ok),
                                !.verdict = verdict(ok), !.pc = After(t, ok)]
<1>2. task[t] \in Task /\ task[t].kind = "catalogue" /\ task[t].pc = "ask"
  BY ReadyTask DEF CatalogueAnswered
<1>3. got(ok) \in SUBSET Items /\ verdict(ok) \in [Branches -> {"none", "SYNCED", "ERROR"}]
  BY ReadyTask
<1>4. ok \in SUBSET Units /\ After(t, ok) \in {"end", "take"}
  BY <1>2 DEF Task, After
<1> HIDE DEF got, verdict
<1>5. k \in Task
  BY <1>2, <1>3, <1>4 DEF Task
<1>6. /\ k.pc \in {"end", "take"} /\ k.left = ok /\ k.ok = ok
      /\ k.put = task[t].put /\ k.cut = task[t].cut /\ k.gone = task[t].gone
      /\ k.kind = "catalogue"
  BY <1>2, <1>4 DEF Task
<1>7. task[t].ok = {}
  BY <1>2, ReadyTask DEF Sound
<1> HIDE DEF k
<1>8. Sound(k)
  BY <1>6, <1>7, ReadyTask DEF Sound, Working
<1> QED
  BY <1>1, <1>5, <1>8 DEF GoesOn, k

(* The fields that a step leaves as they are when it is about rows only.   *)
SameLists(k, j) ==
  /\ k.at = j.at /\ k.left = j.left /\ k.ok = j.ok /\ k.got = j.got
  /\ k.kind = j.kind /\ k.verdict = j.verdict

LEMMA RowsSound ==
  ASSUME NEW j, NEW k, Sound(j), SameLists(k, j), j.pc \in Working, k.pc \in Working,
         \A i \in Items : k.put[i] = "off" \/ i \in k.cut \/ i \in k.gone
                          => UnitOf(i) \in j.ok /\ i \notin j.got
  PROVE  Sound(k)
  BY DEF Sound, SameLists, Working

LEMMA SelectSound ==
  ASSUME NEW t \in Tasks, Ready(t), NEW i \in Items, Select(t, i)
  PROVE  GoesOn(t)
<1> DEFINE s == IF i \in task[t].held THEN task[t].seen[i] ELSE View(t, i)
           k == [task[t] EXCEPT !.pc = "flush", !.cur = i,
                                !.todo = task[t].todo \ {i}, !.seen[i] = s]
<1>1. Goes(t, k) /\ task[t].pc = "upsert" /\ task[t] \in Task /\ Sound(task[t])
  BY ReadyTask DEF Select
<1>2. s \in {"unknown", "absent", "on", "off"}
  BY <1>1, ReadyTask DEF View, Task
<1> HIDE DEF s
<1>3. k \in Task
  BY <1>1, <1>2 DEF Task
<1>4. /\ k.pc = "flush" /\ SameLists(k, task[t])
      /\ k.put = task[t].put /\ k.cut = task[t].cut /\ k.gone = task[t].gone
  BY <1>1 DEF Task, SameLists
<1> HIDE DEF k
<1>5. \A j \in Items : k.put[j] = "off" \/ j \in k.cut \/ j \in k.gone
                       => UnitOf(j) \in task[t].ok /\ j \notin task[t].got
  BY <1>1, <1>4 DEF Sound
<1>6. Sound(k)
  BY <1>1, <1>4, <1>5, RowsSound DEF Working
<1> QED
  BY <1>1, <1>3, <1>6 DEF GoesOn

LEMMA FlushSound ==
  ASSUME NEW t \in Tasks, Ready(t), Flush(t)
  PROVE  GoesOn(t)
<1> DEFINE i == task[t].cur
           p == CASE task[t].seen[i] = "absent" -> "insert"
                  [] task[t].seen[i] = "off" -> "on"
                  [] OTHER -> task[t].put[i]
           k == [task[t] EXCEPT !.pc = "upsert", !.cur = None, !.put[i] = p,
                                !.seen[i] = Kept(t, i, "on")]
<1>1. Goes(t, k) /\ task[t].pc = "flush" /\ task[t] \in Task /\ Sound(task[t])
  BY ReadyTask DEF Flush
<1>2. Kept(t, i, "on") \in {"on", "unknown"} /\ p \in {"insert", "on", task[t].put[i]}
  BY DEF Kept
<1> HIDE DEF p, i
<1>3. k \in Task
  <2>1. i \in Items => p \in {"nothing", "insert", "on", "off"}
    BY <1>1, <1>2 DEF Task
  <2>2. [task[t].put EXCEPT ![i] = p] \in [Items -> {"nothing", "insert", "on", "off"}]
    BY <1>1, <2>1 DEF Task
  <2>3. [task[t].seen EXCEPT ![i] = Kept(t, i, "on")]
          \in [Items -> {"unknown", "absent", "on", "off"}]
    BY <1>1, <1>2 DEF Task
  <2> QED
    BY <1>1, <2>2, <2>3 DEF Task
<1>4. /\ k.pc = "upsert" /\ SameLists(k, task[t])
      /\ k.put = [task[t].put EXCEPT ![i] = p] /\ k.cut = task[t].cut /\ k.gone = task[t].gone
  BY <1>1 DEF Task, SameLists
<1>5. task[t].put \in [Items -> {"nothing", "insert", "on", "off"}]
  BY <1>1 DEF Task
<1> HIDE DEF k
<1>6. \A j \in Items : k.put[j] = "off" \/ j \in k.cut \/ j \in k.gone
                       => UnitOf(j) \in task[t].ok /\ j \notin task[t].got
  BY <1>1, <1>2, <1>4, <1>5 DEF Sound
<1>7. Sound(k)
  BY <1>1, <1>4, <1>6, RowsSound DEF Working
<1> QED
  BY <1>1, <1>3, <1>7 DEF GoesOn

LEMMA SelectMissingSound ==
  ASSUME NEW t \in Tasks, Ready(t), SelectMissing(t)
  PROVE  GoesOn(t)
<1> DEFINE missing == {i \in ItemsOf(task[t].at) \ task[t].got : View(t, i) = "on"}
           loaded == missing \ task[t].held
           seen == [i \in Items |-> IF i \in loaded THEN "on" ELSE task[t].seen[i]]
           tied == task[t].tied \cup (linked \cap loaded)
           k == [task[t] EXCEPT !.pc = "sweep", !.gone = missing, !.seen = seen, !.tied = tied]
<1>1. Goes(t, k) /\ task[t].pc = "upsert" /\ task[t] \in Task /\ Sound(task[t])
  BY ReadyTask DEF SelectMissing
<1>2. /\ missing \in SUBSET Items
      /\ \A i \in missing : UnitOf(i) = task[t].at /\ i \notin task[t].got
  BY DEF ItemsOf
<1>3. seen \in [Items -> {"unknown", "absent", "on", "off"}] /\ tied \in SUBSET Staff
  BY <1>1, ReadyTask DEF Task
<1> HIDE DEF missing, loaded, seen, tied
<1>4. k \in Task
  BY <1>1, <1>2, <1>3 DEF Task
<1>5. /\ k.pc = "sweep" /\ SameLists(k, task[t])
      /\ k.put = task[t].put /\ k.cut = task[t].cut /\ k.gone = missing
  BY <1>1 DEF Task, SameLists
<1> HIDE DEF k
<1>6. \A j \in Items : k.put[j] = "off" \/ j \in k.cut \/ j \in k.gone
                       => UnitOf(j) \in task[t].ok /\ j \notin task[t].got
  BY <1>1, <1>2, <1>5 DEF Sound, Working
<1>7. Sound(k)
  BY <1>1, <1>5, <1>6, RowsSound DEF Working
<1> QED
  BY <1>1, <1>4, <1>7 DEF GoesOn

LEMMA DeactivateSound ==
  ASSUME NEW t \in Tasks, Ready(t), NEW i \in Items, Deactivate(t, i)
  PROVE  GoesOn(t)
<1> DEFINE p == IF task[t].seen[i] = "on" THEN "off" ELSE task[t].put[i]
           cut == task[t].cut \cup (task[t].tied \cap {i})
           k == [task[t] EXCEPT !.gone = task[t].gone \ {i}, !.put[i] = p, !.cut = cut,
                                !.tied = task[t].tied \ {i},
                                !.seen[i] = Kept(t, i, "off")]
<1>1. Goes(t, k) /\ task[t].pc = "sweep" /\ i \in task[t].gone
      /\ task[t] \in Task /\ Sound(task[t])
  BY ReadyTask DEF Deactivate, IsLeast
<1>2. /\ Kept(t, i, "off") \in {"off", "unknown"} /\ p \in {"nothing", "insert", "on", "off"}
      /\ cut \in SUBSET Staff /\ cut \subseteq task[t].cut \cup {i}
  BY <1>1 DEF Kept, Task
<1> HIDE DEF p, cut
<1>3. k \in Task
  BY <1>1, <1>2 DEF Task
<1>4. /\ k.pc = "sweep" /\ SameLists(k, task[t])
      /\ k.put = [task[t].put EXCEPT ![i] = p] /\ k.cut = cut /\ k.gone = task[t].gone \ {i}
  BY <1>1 DEF Task, SameLists
<1>5. task[t].put \in [Items -> {"nothing", "insert", "on", "off"}]
  BY <1>1 DEF Task
<1> HIDE DEF k
<1>6. UnitOf(i) \in task[t].ok /\ i \notin task[t].got
  BY <1>1 DEF Sound
<1>7. \A j \in Items : k.put[j] = "off" \/ j \in k.cut \/ j \in k.gone
                       => UnitOf(j) \in task[t].ok /\ j \notin task[t].got
  BY <1>1, <1>2, <1>4, <1>5, <1>6 DEF Sound
<1>8. Sound(k)
  BY <1>1, <1>4, <1>7, RowsSound DEF Working
<1> QED
  BY <1>1, <1>3, <1>8 DEF GoesOn

LEMMA ListDoneSound ==
  ASSUME NEW t \in Tasks, Ready(t), ListDone(t)
  PROVE  GoesOn(t)
<1> DEFINE u == task[t].at
           v == IF task[t].kind # "catalogue" /\ u[2] = "services"
                THEN "SYNCED" ELSE task[t].verdict[u[1]]
           k == [task[t] EXCEPT !.pc = After(t, task[t].left), !.at = NoUnit,
                                !.verdict[u[1]] = v]
<1>1. Goes(t, k) /\ task[t].pc = "sweep" /\ task[t] \in Task /\ Sound(task[t])
  BY ReadyTask DEF ListDone
<1>2. u \in task[t].ok /\ u \in Units /\ u = <<u[1], u[2]>>
  BY <1>1 DEF Sound, Working, Task, Units
<1>3. /\ v \in {"none", "SYNCED", "ERROR"}
      /\ task[t].kind # "catalogue" =>
           v = IF u[2] = "services" THEN "SYNCED" ELSE task[t].verdict[u[1]]
  BY <1>1, <1>2 DEF Task, Units
<1>4. /\ After(t, task[t].left) \in {"end", "take", "ask"}
      /\ After(t, task[t].left) = "take" => task[t].kind = "catalogue"
      /\ After(t, task[t].left) = "ask" => task[t].kind # "catalogue"
  BY DEF After
<1> HIDE DEF u, v
<1>5. k \in Task
  <2>1. [task[t].verdict EXCEPT ![u[1]] = v] \in [Branches -> {"none", "SYNCED", "ERROR"}]
    BY <1>1, <1>3 DEF Task
  <2> QED
    BY <1>1, <1>4, <2>1 DEF Task
<1>6. /\ k.pc = After(t, task[t].left) /\ k.left = task[t].left
      /\ k.ok = task[t].ok /\ k.got = task[t].got
      /\ k.put = task[t].put /\ k.cut = task[t].cut /\ k.gone = task[t].gone
      /\ k.kind = task[t].kind /\ k.verdict = [task[t].verdict EXCEPT ![u[1]] = v]
      /\ task[t].verdict \in [Branches -> {"none", "SYNCED", "ERROR"}]
  BY <1>1 DEF Task
<1> HIDE DEF k
<1>7. ASSUME task[t].kind # "catalogue", NEW b \in Branches
      PROVE  /\ <<b, "services">> \in k.left => <<b, "staff">> \in k.left \cup k.ok
             /\ <<b, "services">> \in k.ok => <<b, "staff">> \in k.ok
             /\ k.verdict[b] = "SYNCED" => <<b, "services">> \in k.ok
             /\ k.verdict[b] = "ERROR" => <<b, "services">> \notin k.left \cup k.ok
  <2>1. u[1] = b /\ u[2] = "services" => <<b, "services">> \in task[t].ok
    BY <1>2
  <2> QED
    BY <1>1, <1>3, <1>6, <1>7, <2>1 DEF Sound
<1>8. Sound(k)
  BY <1>1, <1>4, <1>6, <1>7 DEF Sound, Working
<1> QED
  BY <1>1, <1>5, <1>8 DEF GoesOn

LEMMA StepSound ==
  ASSUME TypeOK, AllSound, NEW t \in Tasks,
         \/ \E u \in Units : Answered(t, u) \/ RequestFails(t, u) \/ Take(t, u)
         \/ CatalogueAnswered(t)
         \/ \E i \in Items : Select(t, i) \/ Deactivate(t, i)
         \/ Flush(t) \/ SelectMissing(t) \/ ListDone(t)
  PROVE  task' \in [Tasks -> Task] /\ AllSound'
<1>1. Ready(t)
  BY DEF Ready, AllSound
<1>2. GoesOn(t)
  BY <1>1, AnsweredSound, RequestFailsSound, TakeSound, CatalogueAnsweredSound, SelectSound,
     DeactivateSound, FlushSound, SelectMissingSound, ListDoneSound
<1>3. PICK k \in Task : Sound(k) /\ Goes(t, k)
  BY <1>2 DEF GoesOn
<1>4. task' = [task EXCEPT ![t] = k] /\ task \in [Tasks -> Task]
  BY <1>3 DEF Goes, TypeOK
<1>5. ASSUME NEW u \in Tasks PROVE Sound(task'[u])
  BY <1>3, <1>4 DEF AllSound
<1> QED
  BY <1>4, <1>5 DEF AllSound

-----------------------------------------------------------------------------
(* Sessions that begin and end.                                            *)

LEMMA IdleSound == Sound(Idle)
  BY DEF Sound, Idle, Working

(* Only the lists, the kind and the rows matter to soundness.              *)
LEMMA BeginSound ==
  ASSUME AllSound, TypeOK, NEW t \in Tasks, NEW k \in Task, Begin(t, k),
         k.ok = {}, k.cut = {}, k.gone = {}, k.put = Idle.put, k.verdict = Idle.verdict,
         \A b \in Branches : <<b, "services">> \in k.left => <<b, "staff">> \in k.left
  PROVE  task' \in [Tasks -> Task] /\ AllSound'
<1> DEFINE k2 == [k EXCEPT !.pc = "ask", !.old = status,
                           !.alone = \A v \in Tasks \ {t} : ~Busy(v)]
           other(u) == [task[u] EXCEPT !.alone = task[u].alone /\ ~Busy(u)]
<1>1. Sound(k2)
  <2>1. /\ k2.pc = "ask" /\ k2.ok = {} /\ k2.cut = {} /\ k2.gone = {} /\ k2.left = k.left
        /\ k2.put = Idle.put /\ k2.verdict = Idle.verdict /\ k2.kind = k.kind
    BY DEF Task
  <2> HIDE DEF k2
  <2> QED
    BY <2>1 DEF Sound, Idle, Working
<1>2. ASSUME NEW u \in Tasks PROVE Sound(other(u))
  <2>1. Sound(task[u]) /\ task[u] \in Task
    BY DEF AllSound, TypeOK
  <2>2. /\ SameLists(other(u), task[u]) /\ other(u).pc = task[u].pc
        /\ other(u).put = task[u].put /\ other(u).cut = task[u].cut
        /\ other(u).gone = task[u].gone
    BY <2>1 DEF SameLists, Task
  <2> HIDE DEF other
  <2> QED
    BY <2>1, <2>2 DEF Sound, SameLists
<1>3. \A u \in Tasks : task'[u] = IF u = t THEN k2 ELSE other(u)
  BY DEF Begin
<1> HIDE DEF k2, other
<1> QED
  BY <1>1, <1>2, <1>3, BeginTyped DEF AllSound

LEMMA BeginsSound ==
  ASSUME TypeOK, AllSound, NEW t \in Tasks,
         \/ ListByCompany(t)
         \/ \E b \in Branches : SyncBranch(t, b)
         \/ \E i \in Staff : RefreshCatalogue(t, i)
  PROVE  task' \in [Tasks -> Task] /\ AllSound'
<1>1. CASE ListByCompany(t)
  <2> DEFINE loaded == {i \in Staff : row[i] # "absent"}
             k == [Idle EXCEPT !.left = Units, !.held = loaded,
                     !.seen = [i \in Items |-> IF i \in loaded THEN row[i] ELSE "unknown"],
                     !.tied = linked]
  <2>1. \A i \in loaded : row[i] \in {"on", "off"}
    BY DEF TypeOK, Items
  <2>2. k \in Task
    BY <2>1, IdleTyped DEF Task, TypeOK, Items
  <2>3. Begin(t, k)
    BY <1>1 DEF ListByCompany
  <2>4. /\ k.ok = {} /\ k.cut = {} /\ k.gone = {} /\ k.put = Idle.put
        /\ k.verdict = Idle.verdict /\ k.left = Units
    BY DEF Idle
  <2> HIDE DEF k
  <2> QED
    BY <2>2, <2>3, <2>4, BeginSound DEF Units
<1>2. ASSUME NEW b \in Branches, SyncBranch(t, b) PROVE task' \in [Tasks -> Task] /\ AllSound'
  <2> DEFINE k == [Idle EXCEPT !.kind = "branch", !.left = {b} \X {"staff", "services"}]
  <2>1. {b} \X {"staff", "services"} \in SUBSET Units
    BY DEF Units
  <2>2. k \in Task
    BY <2>1, IdleTyped DEF Task
  <2>3. Begin(t, k)
    BY <1>2 DEF SyncBranch
  <2>4. /\ k.ok = {} /\ k.cut = {} /\ k.gone = {} /\ k.put = Idle.put
        /\ k.verdict = Idle.verdict /\ k.left = {b} \X {"staff", "services"}
    BY DEF Idle
  <2> HIDE DEF k
  <2> QED
    BY <2>2, <2>3, <2>4, BeginSound
<1>3. ASSUME NEW i \in Staff, RefreshCatalogue(t, i)
      PROVE  task' \in [Tasks -> Task] /\ AllSound'
  <2> DEFINE k == [Idle EXCEPT !.kind = "catalogue",
                     !.left = {BranchOf[i]} \X {"staff", "services"},
                     !.held = {i}, !.tied = {i},
                     !.seen = [j \in Items |-> IF j = i THEN "on" ELSE "unknown"]]
  <2>1. BranchOf[i] \in Branches /\ i \in Items
    BY BranchOfAssumption DEF Items
  <2>5. /\ {BranchOf[i]} \X {"staff", "services"} \in SUBSET Units
        /\ {i} \in SUBSET Staff /\ {i} \in SUBSET Items
    BY <2>1 DEF Units
  <2>6. [j \in Items |-> IF j = i THEN "on" ELSE "unknown"]
           \in [Items -> {"unknown", "absent", "on", "off"}]
    OBVIOUS
  <2>2. k \in Task
    BY <2>5, <2>6, IdleTyped DEF Task
  <2>3. Begin(t, k)
    BY <1>3 DEF RefreshCatalogue
  <2>4. /\ k.ok = {} /\ k.cut = {} /\ k.gone = {} /\ k.put = Idle.put
        /\ k.verdict = Idle.verdict /\ k.left = {BranchOf[i]} \X {"staff", "services"}
    BY DEF Idle
  <2> HIDE DEF k
  <2> QED
    BY <2>2, <2>3, <2>4, BeginSound
<1> QED
  BY <1>1, <1>2, <1>3

LEMMA EndSound ==
  ASSUME TypeOK, AllSound, NEW t \in Tasks, task' = [task EXCEPT ![t] = Idle]
  PROVE  task' \in [Tasks -> Task] /\ AllSound'
<1>1. task' \in [Tasks -> Task]
  BY IdleTyped DEF TypeOK
<1>2. ASSUME NEW u \in Tasks PROVE Sound(task'[u])
  BY IdleSound DEF AllSound, TypeOK
<1> QED
  BY <1>1, <1>2 DEF AllSound

LEMMA ReleasedTyped ==
  ASSUME TypeOK, NEW t \in Tasks, lock' = Released(t)
  PROVE  lock' \in [Items -> Tasks \cup {NoTask}]
  BY DEF TypeOK, Released

LEMMA CommitTyped ==
  ASSUME TypeOK, NEW t \in Tasks, Commit(t)
  PROVE  /\ row' \in [Items -> {"absent", "on", "off"}]
         /\ linked' \in SUBSET Staff
         /\ status' \in [Branches -> {"SYNCED", "ERROR"}]
<1>1. task[t] \in Task
  BY DEF TypeOK
<1>2. task[t].verdict \in [Branches -> {"none", "SYNCED", "ERROR"}]
  BY <1>1 DEF Task
<1> QED
  BY <1>1, <1>2 DEF TypeOK, Commit, Items

-----------------------------------------------------------------------------
(* The whole invariant.                                                    *)

LEMMA InvInit == Init => TypeOK /\ AllSound
  BY InitTyped, IdleSound DEF Init, AllSound

LEMMA InvNext == TypeOK /\ AllSound /\ [Next]_vars => TypeOK' /\ AllSound'
<1> SUFFICES ASSUME TypeOK, AllSound, [Next]_vars PROVE TypeOK' /\ AllSound'
  OBVIOUS
<1>1. ASSUME NEW i \in Items, RemoteChange(i) PROVE TypeOK' /\ AllSound'
  BY <1>1, AroundTyped DEF RemoteChange, AllSound
<1>2. ASSUME NEW i \in Staff, AttachTelegram(i) PROVE TypeOK' /\ AllSound'
  BY <1>2, AroundTyped DEF AttachTelegram, AllSound
<1>3. ASSUME NEW b \in Branches, MarkLapses(b) PROVE TypeOK' /\ AllSound'
  BY <1>3, AroundTyped DEF MarkLapses, AllSound
<1>4. CASE SyncAllBranches
  BY <1>4, BeginsSound, TasksAssumption
     DEF SyncAllBranches, ListByCompany, Begin, TypeOK, table
<1>5. ASSUME NEW t \in Tasks, SyncCompany(t) PROVE TypeOK' /\ AllSound'
  BY <1>5, BeginsSound, EventTyped DEF SyncCompany, ListByCompany, Begin, TypeOK, table
<1>6. ASSUME NEW t \in Tasks, NEW b \in Branches, SyncBranch(t, b) PROVE TypeOK' /\ AllSound'
  BY <1>6, BeginsSound, EventTyped DEF SyncBranch, Begin, TypeOK, table
<1>7. ASSUME NEW t \in Tasks, NEW i \in Staff, RefreshCatalogue(t, i)
      PROVE  TypeOK' /\ AllSound'
  <2>1. BranchOf[i] \in Branches
    BY BranchOfAssumption DEF Items
  <2> QED
    BY <1>7, <2>1, BeginsSound, EventTyped DEF RefreshCatalogue, Begin, TypeOK, table
<1>8. ASSUME NEW t \in Tasks, NEW u \in Units, RequestFails(t, u) PROVE TypeOK' /\ AllSound'
  BY <1>8, StepSound, EventTyped DEF RequestFails, TypeOK, table
<1>9. ASSUME NEW t \in Tasks, Abort(t) PROVE TypeOK' /\ AllSound'
  BY <1>9, EndSound, ReleasedTyped, EventTyped DEF Abort, RollBack, TypeOK, table
<1>10. ASSUME NEW t \in Tasks, Step(t) PROVE TypeOK' /\ AllSound'
  <2>1. ASSUME NEW u \in Units, Answered(t, u) PROVE TypeOK' /\ AllSound'
    BY <2>1, StepSound, EventTyped DEF Answered, TypeOK, table
  <2>2. ASSUME NEW u \in Units, Take(t, u) PROVE TypeOK' /\ AllSound'
    BY <2>2, StepSound DEF Take, TypeOK, table
  <2>3. CASE CatalogueAnswered(t)
    BY <2>3, StepSound, EventTyped DEF CatalogueAnswered, TypeOK, table
  <2>4. ASSUME NEW i \in Items, Select(t, i) PROVE TypeOK' /\ AllSound'
    BY <2>4, StepSound DEF Select, TypeOK, table
  <2>5. ASSUME NEW i \in Items, Deactivate(t, i) PROVE TypeOK' /\ AllSound'
    BY <2>5, StepSound DEF Deactivate, TypeOK, table
  <2>6. CASE Flush(t)
    BY <2>6, StepSound DEF Flush, TypeOK, table
  <2>7. CASE SelectMissing(t)
    BY <2>7, StepSound DEF SelectMissing, TypeOK, table
  <2>8. CASE ListDone(t)
    BY <2>8, StepSound DEF ListDone, TypeOK, table
  <2>9. CASE Commit(t)
    <3>1. task' = [task EXCEPT ![t] = Idle] /\ lock' = Released(t)
      BY <2>9 DEF Commit
    <3>2. UNCHANGED <<remote, fresh, events>>
      BY <2>9 DEF Commit
    <3> QED
      BY <2>9, <3>1, <3>2, EndSound, ReleasedTyped, CommitTyped DEF TypeOK
  <2>10. CASE Clash(t)
    BY <2>10, EndSound, ReleasedTyped DEF Clash, RollBack, TypeOK, table
  <2>11. CASE Deadlock(t)
    BY <2>11, EndSound, ReleasedTyped DEF Deadlock, RollBack, TypeOK, table
  <2> QED
    BY <1>10, <2>1, <2>2, <2>3, <2>4, <2>5, <2>6, <2>7, <2>8, <2>9, <2>10, <2>11 DEF Step
<1>11. CASE UNCHANGED vars
  BY <1>11 DEF vars, table, TypeOK, AllSound
<1> QED
  BY <1>1, <1>2, <1>3, <1>4, <1>5, <1>6, <1>7, <1>8, <1>9, <1>10, <1>11 DEF Next

(* The whole invariant holds of every reachable state.                     *)
THEOREM AlwaysSound == Spec => [](TypeOK /\ AllSound)
  BY InvInit, InvNext, PTL DEF Spec

(* Every variable keeps its type.                                          *)
THEOREM TypeCorrect == Spec => []TypeOK
  BY AlwaysSound, PTL

-----------------------------------------------------------------------------
(* sync_branch: no session commits a branch as synchronised that lacks a   *)
(* list, nor as failed one whose services it has.                          *)
THEOREM VerdictAlwaysTells == Spec => []VerdictTells
<1>1. TypeOK /\ AllSound => VerdictTells
  <2> SUFFICES ASSUME TypeOK, AllSound, NEW t \in Tasks, task[t].kind # "catalogue",
                      NEW b \in Branches
               PROVE  /\ task[t].verdict[b] = "SYNCED" =>
                           {b} \X {"staff", "services"} \subseteq task[t].ok
                      /\ task[t].verdict[b] = "ERROR" => <<b, "services">> \notin task[t].ok
    BY DEF VerdictTells
  <2>1. Sound(task[t])
    BY DEF AllSound
  <2>2. {b} \X {"staff", "services"} = {<<b, "staff">>, <<b, "services">>}
    OBVIOUS
  <2> QED
    BY <2>1, <2>2 DEF Sound
<1> QED
  BY <1>1, AlwaysSound, PTL

(* Only Commit takes a row or an account away.                             *)
LEMMA OnlyCommitTakes ==
  ASSUME [Next]_vars
  PROVE  (\E t \in Tasks : Commit(t)) \/ (row' = row /\ linked \subseteq linked')
<1> DEFINE Keeps == row' = row /\ linked \subseteq linked'
<1>1. ASSUME NEW i \in Staff, AttachTelegram(i) PROVE Keeps
  BY <1>1 DEF AttachTelegram
<1>2. (\E i \in Items : RemoteChange(i)) \/ (\E b \in Branches : MarkLapses(b)) => Keeps
  BY DEF RemoteChange, MarkLapses, table
<1>3. SyncAllBranches => Keeps
  BY DEF SyncAllBranches, ListByCompany, Begin, table
<1>4. ASSUME NEW t \in Tasks
      PROVE  /\ SyncCompany(t) => Keeps
             /\ \A b \in Branches : SyncBranch(t, b) => Keeps
             /\ \A i \in Staff : RefreshCatalogue(t, i) => Keeps
             /\ \A u \in Units : RequestFails(t, u) => Keeps
             /\ Abort(t) => Keeps
  BY DEF SyncCompany, ListByCompany, SyncBranch, RefreshCatalogue, Begin, RequestFails, Abort,
         RollBack, table
<1>5. ASSUME NEW t \in Tasks
      PROVE  /\ \A u \in Units : Answered(t, u) \/ Take(t, u) => Keeps
             /\ CatalogueAnswered(t) => Keeps
             /\ \A i \in Items : Select(t, i) \/ Deactivate(t, i) => Keeps
             /\ Flush(t) \/ SelectMissing(t) \/ ListDone(t) \/ Clash(t) \/ Deadlock(t) => Keeps
  BY DEF RollBack, Answered, Take, CatalogueAnswered, Select, Deactivate, Flush,
         SelectMissing, ListDone, Clash, Deadlock, table
<1>6. UNCHANGED vars => Keeps
  BY DEF vars, table
<1> HIDE DEF Keeps
<1>7. ASSUME NEW t \in Tasks, Step(t) PROVE Keeps \/ Commit(t)
  BY <1>5, <1>7 DEF Step
<1>8. Keeps \/ \E t \in Tasks : Commit(t)
  BY <1>1, <1>2, <1>3, <1>4, <1>6, <1>7 DEF Next
<1> QED
  BY <1>8 DEF Keeps

(* deactivate_missing_*: a row and an account only go in a session whose   *)
(* answer for the list of the branch lacks them.                           *)
THEOREM OnlyMissingAlwaysLeave == Spec => OnlyMissingLeave
<1>1. TypeOK /\ AllSound /\ [Next]_vars
      => [\A i \in Items :
           (row[i] = "on" /\ row'[i] # "on") \/ (i \in linked /\ i \notin linked')
           => \E t \in Tasks : /\ task[t].pc = "end"
                               /\ UnitOf(i) \in task[t].ok
                               /\ i \notin task[t].got]_vars
  <2> SUFFICES ASSUME TypeOK, AllSound, [Next]_vars, NEW i \in Items,
                      (row[i] = "on" /\ row'[i] # "on") \/ (i \in linked /\ i \notin linked')
               PROVE  \E t \in Tasks : /\ task[t].pc = "end"
                                       /\ UnitOf(i) \in task[t].ok
                                       /\ i \notin task[t].got
    OBVIOUS
  <2>1. PICK t \in Tasks : Commit(t)
    BY OnlyCommitTakes
  <2>2. task[t].pc = "end" /\ Sound(task[t])
    BY <2>1 DEF Commit, AllSound
  <2>3. task[t].put[i] = "off" \/ i \in task[t].cut
    BY <2>1 DEF Commit
  <2> QED
    BY <2>2, <2>3 DEF Sound
<1> QED
  BY <1>1, AlwaysSound, PTL DEF Spec, OnlyMissingLeave

-----------------------------------------------------------------------------
(* A session with nobody beside it: what it holds of a row is what its     *)
(* queries show, and the lists it is done with show what was answered.     *)

RowOf(k, i) ==
  CASE k.put[i] \in {"insert", "on"} -> "on"
    [] k.put[i] = "off" -> "off"
    [] OTHER -> row[i]

Upserted(k) ==
  /\ k.todo \subseteq ItemsOf(k.at) \cap k.got
  /\ \A i \in ItemsOf(k.at) \cap k.got :
       i \in k.todo \/ (k.pc = "flush" /\ i = k.cur) \/ RowOf(k, i) = "on"

Selected(k) == k.cur \in ItemsOf(k.at) \cap k.got /\ k.seen[k.cur] = RowOf(k, k.cur)

Swept(k) ==
  /\ k.gone \subseteq ItemsOf(k.at)
  /\ \A i \in ItemsOf(k.at) :
       IF i \in k.got THEN RowOf(k, i) = "on" /\ i \notin k.gone
       ELSE RowOf(k, i) = "on" <=> i \in k.gone
  /\ \A i \in k.gone : k.seen[i] = "on"

IsDone(k, i) ==
  /\ UnitOf(i) \in k.ok /\ UnitOf(i) \notin k.left
  /\ k.pc \in Working => UnitOf(i) # k.at

Shows(k) ==
  /\ \A i \in k.held : k.seen[i] = RowOf(k, i)
  /\ \A i \in k.got : UnitOf(i) \in k.ok
  /\ \A i \in Items : IsDone(k, i) => (RowOf(k, i) = "on" <=> i \in k.got)
  /\ k.pc \in {"upsert", "flush"} => Upserted(k)
  /\ k.pc = "flush" => Selected(k)
  /\ k.pc = "sweep" => Swept(k)
  /\ k.pc = "end" => k.left = {}

AllShow ==
  \A t \in Tasks : task[t].alone /\ Busy(t) =>
    /\ \A u \in Tasks \ {t} : ~Busy(u)
    /\ Shows(task[t])

(* What a step of the session has to show.                                 *)
ShowsOn(t) == \E k : Goes(t, k) /\ Shows(k) /\ k.alone = task[t].alone /\ row' = row

Shown(t) == Ready(t) /\ Shows(task[t])

(* It goes on as alone as it is.                                           *)
GoesAs(t) ==
  task'[t].alone = task[t].alone /\ \A u \in Tasks \ {t} : task'[u] = task[u]

LEMMA AnsweredShows ==
  ASSUME NEW t \in Tasks, Shown(t), NEW u \in Units, Answered(t, u)
  PROVE  ShowsOn(t)
<1> DEFINE j == task[t]
<1>1. PICK items \in {remote \cap ItemsOf(u), {}} :
        Goes(t, [j EXCEPT !.pc = "upsert", !.at = u, !.left = j.left \ {u},
                          !.ok = j.ok \cup {u}, !.got = j.got \cup items,
                          !.todo = items])
  BY DEF Answered
<1> DEFINE k == [j EXCEPT !.pc = "upsert", !.at = u, !.left = j.left \ {u},
                          !.ok = j.ok \cup {u}, !.got = j.got \cup items,
                          !.todo = items]
<1>2. j \in Task /\ Sound(j) /\ Shows(j) /\ j.pc = "ask" /\ j.kind # "catalogue"
      /\ u \in j.left /\ row' = row
  BY ReadyTask DEF Shown, Answered, IsFirst, table
<1>3. u \notin j.ok /\ items \subseteq ItemsOf(u) /\ \A i \in ItemsOf(u) : UnitOf(i) = u
  BY <1>2 DEF Sound, ItemsOf
<1>4. /\ k.pc = "upsert" /\ k.at = u /\ k.left = j.left \ {u} /\ k.ok = j.ok \cup {u}
      /\ k.got = j.got \cup items /\ k.todo = items /\ k.held = j.held /\ k.seen = j.seen
      /\ k.put = j.put /\ k.alone = j.alone
  BY <1>2 DEF Task
<1> HIDE DEF k
<1>5. \A i \in Items : RowOf(k, i) = RowOf(j, i)
  BY <1>4 DEF RowOf
<1>6. \A i \in k.got : UnitOf(i) \in k.ok
  BY <1>2, <1>3, <1>4 DEF Shows
<1>7. ItemsOf(u) \cap k.got = items
  BY <1>2, <1>3, <1>4 DEF Shows
<1>8. ASSUME NEW i \in Items, IsDone(k, i) PROVE RowOf(k, i) = "on" <=> i \in k.got
  <2>1. IsDone(j, i) /\ (i \in k.got <=> i \in j.got)
    BY <1>2, <1>3, <1>4, <1>8 DEF IsDone, Working
  <2>. QED
    BY <1>2, <1>5, <2>1 DEF Shows
<1>9. \A i \in k.held : k.seen[i] = RowOf(k, i)
  BY <1>2, <1>4, <1>5 DEF Shows, Task
<1>10. Shows(k)
  BY <1>4, <1>6, <1>7, <1>8, <1>9 DEF Shows, Upserted
<1>. QED
  BY <1>1, <1>2, <1>4, <1>10 DEF ShowsOn, k

(* The rest of the branch, of which nothing is answered, is given up.      *)
LEMMA RequestFailsShows ==
  ASSUME NEW t \in Tasks, Shown(t), NEW u \in Units, RequestFails(t, u)
  PROVE  ShowsOn(t)
<1> DEFINE j == task[t]
           left == WithoutBranch(j.left, u[1])
           k == [j EXCEPT !.verdict[u[1]] = "ERROR", !.left = left, !.pc = After(t, left)]
<1>1. Goes(t, k) /\ row' = row
  BY DEF RequestFails, table
<1>2. j \in Task /\ Sound(j) /\ Shows(j) /\ j.pc = "ask" /\ j.kind # "catalogue"
  BY ReadyTask DEF Shown, RequestFails
<1>3. left \subseteq j.left /\ After(t, left) \in {"end", "ask"} /\ (After(t, left) = "end" => left = {})
  BY <1>2 DEF WithoutBranch, After
<1> HIDE DEF left
<1>4. /\ k.pc = After(t, left) /\ k.left = left /\ k.ok = j.ok /\ k.got = j.got
      /\ k.held = j.held /\ k.seen = j.seen /\ k.put = j.put /\ k.alone = j.alone
  BY <1>2 DEF Task
<1> HIDE DEF k
<1>5. \A i \in Items : RowOf(k, i) = RowOf(j, i)
  BY <1>4 DEF RowOf
<1>6. ASSUME NEW i \in Items, IsDone(k, i) PROVE RowOf(k, i) = "on" <=> i \in k.got
  <2>1. IsDone(j, i)
    BY <1>2, <1>4, <1>6 DEF IsDone, Working, Sound
  <2>. QED
    BY <1>2, <1>4, <1>5, <2>1 DEF Shows
<1>7. \A i \in k.held : k.seen[i] = RowOf(k, i)
  BY <1>2, <1>4, <1>5 DEF Shows, Task
<1>8. Shows(k)
  BY <1>2, <1>3, <1>4, <1>6, <1>7 DEF Shows
<1>. QED
  BY <1>1, <1>4, <1>8 DEF ShowsOn

LEMMA TakeShows ==
  ASSUME NEW t \in Tasks, Shown(t), NEW u \in Units, Take(t, u)
  PROVE  ShowsOn(t)
<1> DEFINE j == task[t]
           k == [j EXCEPT !.pc = "upsert", !.at = u, !.left = j.left \ {u},
                          !.todo = j.got \cap ItemsOf(u)]
<1>1. Goes(t, k) /\ row' = row
  BY DEF Take, table
<1>2. j \in Task /\ Shows(j) /\ j.pc = "take"
  BY ReadyTask DEF Shown, Take
<1>3. /\ k.pc = "upsert" /\ k.at = u /\ k.left = j.left \ {u} /\ k.ok = j.ok /\ k.got = j.got
      /\ k.todo = j.got \cap ItemsOf(u)
      /\ k.held = j.held /\ k.seen = j.seen /\ k.put = j.put /\ k.alone = j.alone
  BY <1>2 DEF Task
<1> HIDE DEF k
<1>4. \A i \in Items : RowOf(k, i) = RowOf(j, i)
  BY <1>3 DEF RowOf
<1>5. ASSUME NEW i \in Items, IsDone(k, i) PROVE RowOf(k, i) = "on" <=> i \in k.got
  <2>1. IsDone(j, i)
    BY <1>2, <1>3, <1>5 DEF IsDone, Working
  <2>. QED
    BY <1>2, <1>3, <1>4, <2>1 DEF Shows
<1>6. \A i \in k.held : k.seen[i] = RowOf(k, i)
  BY <1>2, <1>3, <1>4 DEF Shows, Task
<1>7. Shows(k)
  BY <1>2, <1>3, <1>5, <1>6 DEF Shows, Upserted
<1>. QED
  BY <1>1, <1>3, <1>7 DEF ShowsOn

LEMMA CatalogueAnsweredShows ==
  ASSUME NEW t \in Tasks, Shown(t), CatalogueAnswered(t)
  PROVE  ShowsOn(t)
<1> DEFINE j == task[t]
           got(ok) == {i \in remote : UnitOf(i) \in ok}
           verdict(ok) == [b \in Branches |-> IF \E u \in ok : u[1] = b THEN "SYNCED" ELSE "none"]
<1>1. PICK ok \in SUBSET j.left :
        Goes(t, [j EXCEPT !.ok = ok, !.left = ok, !.got = got(ok),
                          !.verdict = verdict(ok), !.pc = After(t, ok)])
  BY DEF CatalogueAnswered
<1> DEFINE k == [j EXCEPT !.ok = ok, !.left = ok, !.got = got(ok),
                          !.verdict = verdict(ok), !.pc = After(t, ok)]
<1>2. j \in Task /\ Shows(j) /\ j.kind = "catalogue" /\ row' = row
  BY ReadyTask DEF Shown, CatalogueAnswered, table
<1>3. After(t, ok) \in {"end", "take"} /\ (After(t, ok) = "end" => ok = {})
      /\ \A i \in got(ok) : UnitOf(i) \in ok
  BY <1>2 DEF After
<1> HIDE DEF got, verdict
<1>4. /\ k.pc = After(t, ok) /\ k.left = ok /\ k.ok = ok /\ k.got = got(ok)
      /\ k.held = j.held /\ k.seen = j.seen /\ k.put = j.put /\ k.alone = j.alone
  BY <1>2 DEF Task
<1> HIDE DEF k
<1>5. \A i \in Items : RowOf(k, i) = RowOf(j, i) /\ ~ IsDone(k, i)
  BY <1>4 DEF RowOf, IsDone
<1>6. \A i \in k.held : k.seen[i] = RowOf(k, i)
  BY <1>2, <1>4, <1>5 DEF Shows, Task
<1>7. Shows(k)
  BY <1>3, <1>4, <1>5, <1>6 DEF Shows
<1>. QED
  BY <1>1, <1>2, <1>4, <1>7 DEF ShowsOn, k

LEMMA SelectShows ==
  ASSUME NEW t \in Tasks, Shown(t), NEW i \in Items, Select(t, i)
  PROVE  ShowsOn(t)
<1> DEFINE j == task[t]
           s == IF i \in j.held THEN j.seen[i] ELSE View(t, i)
           k == [j EXCEPT !.pc = "flush", !.cur = i, !.todo = j.todo \ {i}, !.seen[i] = s]
<1>1. Goes(t, k) /\ row' = row
  BY DEF Select, table
<1>2. j \in Task /\ Shows(j) /\ j.pc = "upsert" /\ i \in j.todo
  BY ReadyTask DEF Shown, Select
<1>3. s = RowOf(j, i)
  BY <1>2 DEF Shows, RowOf, View
<1> HIDE DEF s
<1>4. /\ k.pc = "flush" /\ k.at = j.at /\ k.left = j.left /\ k.ok = j.ok /\ k.got = j.got
      /\ k.cur = i /\ k.todo = j.todo \ {i}
      /\ k.held = j.held /\ k.put = j.put /\ k.alone = j.alone
      /\ k.seen = [j.seen EXCEPT ![i] = s] /\ DOMAIN j.seen = Items
  BY <1>2 DEF Task
<1> HIDE DEF k
<1>5. \A n \in Items : RowOf(k, n) = RowOf(j, n) /\ IsDone(k, n) = IsDone(j, n)
  BY <1>2, <1>4 DEF RowOf, IsDone, Working
<1>6. \A n \in k.held : k.seen[n] = RowOf(k, n)
  <2>1. \A n \in j.held : n \in Items /\ j.seen[n] = RowOf(j, n)
    BY <1>2 DEF Shows, Task
  <2>. QED
    BY <1>3, <1>4, <1>5, <2>1
<1>7. Upserted(j) /\ j.todo \subseteq ItemsOf(j.at) \cap j.got
  BY <1>2 DEF Shows, Upserted
<1>8. Upserted(k)
  <2>1. \A n \in ItemsOf(j.at) \cap j.got : n \in Items /\ (n \in j.todo \/ RowOf(j, n) = "on")
    BY <1>2, <1>7 DEF Upserted, ItemsOf
  <2>. QED
    BY <1>4, <1>5, <1>7, <2>1 DEF Upserted
<1>9. Selected(k)
  BY <1>2, <1>3, <1>4, <1>5, <1>7 DEF Selected
<1>10. Shows(k)
  BY <1>2, <1>4, <1>5, <1>6, <1>8, <1>9 DEF Shows
<1>. QED
  BY <1>1, <1>4, <1>10 DEF ShowsOn

LEMMA FlushShows ==
  ASSUME NEW t \in Tasks, Shown(t), Flush(t)
  PROVE  ShowsOn(t)
<1> DEFINE j == task[t]
<1>0. j \in Task /\ Shows(j) /\ j.pc = "flush" /\ row' = row
      /\ row \in [Items -> {"absent", "on", "off"}]
  BY ReadyTask DEF Shown, Flush, table
<1>1. PICK i \in Items : i = j.cur /\ UnitOf(i) = j.at /\ i \in j.got /\ j.seen[i] = RowOf(j, i)
  BY <1>0 DEF Shows, Selected, ItemsOf
<1> DEFINE p == CASE j.seen[i] = "absent" -> "insert"
                  [] j.seen[i] = "off" -> "on"
                  [] OTHER -> j.put[i]
           k == [j EXCEPT !.pc = "upsert", !.cur = None, !.put[i] = p,
                          !.seen[i] = Kept(t, i, "on")]
<1>2. Goes(t, k)
  BY <1>1 DEF Flush
<1>3. p \in {"insert", "on"} \/ (p = j.put[i] /\ RowOf(j, i) = "on")
  BY <1>0, <1>1 DEF RowOf
<1> HIDE DEF p
<1>4. /\ k.pc = "upsert" /\ k.at = j.at /\ k.left = j.left /\ k.ok = j.ok /\ k.got = j.got
      /\ k.todo = j.todo /\ k.held = j.held /\ k.alone = j.alone
      /\ k.put = [j.put EXCEPT ![i] = p] /\ DOMAIN j.put = Items
      /\ k.seen = [j.seen EXCEPT ![i] = Kept(t, i, "on")] /\ DOMAIN j.seen = Items
  BY <1>0 DEF Task
<1> HIDE DEF k
<1>5. RowOf(k, i) = "on"
  BY <1>3, <1>4 DEF RowOf
<1>6. \A n \in Items \ {i} : RowOf(k, n) = RowOf(j, n) /\ k.seen[n] = j.seen[n]
  BY <1>4 DEF RowOf
<1>7. \A n \in k.held : k.seen[n] = RowOf(k, n)
  <2>1. \A n \in j.held : n \in Items /\ j.seen[n] = RowOf(j, n)
    BY <1>0 DEF Shows, Task
  <2>. QED
    BY <1>4, <1>5, <1>6, <2>1 DEF Kept
<1>8. ASSUME NEW n \in Items, IsDone(k, n) PROVE RowOf(k, n) = "on" <=> n \in k.got
  <2>1. IsDone(j, n) /\ n # i
    BY <1>0, <1>1, <1>4, <1>8 DEF IsDone, Working
  <2>. QED
    BY <1>0, <1>4, <1>6, <2>1 DEF Shows
<1>9. Upserted(k)
  <2>1. \A n \in ItemsOf(j.at) \cap j.got : n \in Items /\ (n \in j.todo \/ n = i \/ RowOf(j, n) = "on")
    BY <1>0, <1>1 DEF Shows, Upserted, ItemsOf
  <2>2. j.todo \subseteq ItemsOf(j.at) \cap j.got
    BY <1>0 DEF Shows, Upserted
  <2>. QED
    BY <1>4, <1>5, <1>6, <2>1, <2>2 DEF Upserted
<1>10. Shows(k)
  BY <1>0, <1>4, <1>7, <1>8, <1>9 DEF Shows
<1>. QED
  BY <1>0, <1>2, <1>4, <1>10 DEF ShowsOn

LEMMA SelectMissingShows ==
  ASSUME NEW t \in Tasks, Shown(t), SelectMissing(t)
  PROVE  ShowsOn(t)
<1> DEFINE j == task[t]
           missing == {i \in ItemsOf(j.at) \ j.got : View(t, i) = "on"}
           loaded == missing \ j.held
           seen == [i \in Items |-> IF i \in loaded THEN "on" ELSE j.seen[i]]
           tied == j.tied \cup (linked \cap loaded)
           k == [j EXCEPT !.pc = "sweep", !.gone = missing, !.seen = seen, !.tied = tied]
<1>1. Goes(t, k) /\ row' = row
  BY DEF SelectMissing, table
<1>2. j \in Task /\ Shows(j) /\ j.pc = "upsert" /\ j.todo = {}
  BY ReadyTask DEF Shown, SelectMissing
<1>3. /\ missing \subseteq ItemsOf(j.at) \ j.got
      /\ \A i \in ItemsOf(j.at) \ j.got : i \in missing <=> RowOf(j, i) = "on"
  BY DEF RowOf, View
<1>4. /\ \A i \in Items : seen[i] = IF i \in missing /\ i \notin j.held THEN "on" ELSE j.seen[i]
      /\ \A i \in ItemsOf(j.at) : i \in Items
  BY DEF ItemsOf
<1> HIDE DEF missing, loaded, seen, tied
<1>5. /\ k.pc = "sweep" /\ k.at = j.at /\ k.left = j.left /\ k.ok = j.ok /\ k.got = j.got
      /\ k.gone = missing /\ k.seen = seen
      /\ k.held = j.held /\ k.put = j.put /\ k.alone = j.alone
  BY <1>2 DEF Task
<1> HIDE DEF k
<1>6. \A i \in Items : RowOf(k, i) = RowOf(j, i) /\ IsDone(k, i) = IsDone(j, i)
  BY <1>2, <1>5 DEF RowOf, IsDone, Working
<1>7. \A i \in j.held : i \in Items /\ j.seen[i] = RowOf(j, i)
  BY <1>2 DEF Shows, Task
<1>8. \A i \in k.held : k.seen[i] = RowOf(k, i)
  BY <1>4, <1>5, <1>6, <1>7
<1>9. \A i \in missing : seen[i] = "on"
  BY <1>3, <1>4, <1>7
<1>10. \A i \in ItemsOf(j.at) \cap j.got : RowOf(j, i) = "on"
  BY <1>2 DEF Shows, Upserted
<1>11. Swept(k)
  BY <1>3, <1>4, <1>5, <1>6, <1>9, <1>10 DEF Swept
<1>12. Shows(k)
  BY <1>2, <1>5, <1>6, <1>8, <1>11 DEF Shows
<1>. QED
  BY <1>1, <1>5, <1>12 DEF ShowsOn

LEMMA DeactivateShows ==
  ASSUME NEW t \in Tasks, Shown(t), NEW i \in Items, Deactivate(t, i)
  PROVE  ShowsOn(t)
<1> DEFINE j == task[t]
           p == IF j.seen[i] = "on" THEN "off" ELSE j.put[i]
           cut == j.cut \cup (j.tied \cap {i})
           k == [j EXCEPT !.gone = j.gone \ {i}, !.put[i] = p, !.cut = cut,
                          !.tied = j.tied \ {i}, !.seen[i] = Kept(t, i, "off")]
<1>1. Goes(t, k) /\ row' = row
  BY DEF Deactivate, table
<1>2. j \in Task /\ Shows(j) /\ j.pc = "sweep" /\ i \in j.gone
  BY ReadyTask DEF Shown, Deactivate, IsLeast
<1>3. Swept(j) /\ UnitOf(i) = j.at /\ i \notin j.got /\ p = "off"
  BY <1>2 DEF Shows, Swept, ItemsOf
<1> HIDE DEF p, cut
<1>4. /\ k.pc = "sweep" /\ k.at = j.at /\ k.left = j.left /\ k.ok = j.ok /\ k.got = j.got
      /\ k.gone = j.gone \ {i} /\ k.held = j.held /\ k.alone = j.alone
      /\ k.put = [j.put EXCEPT ![i] = p] /\ DOMAIN j.put = Items
      /\ k.seen = [j.seen EXCEPT ![i] = Kept(t, i, "off")] /\ DOMAIN j.seen = Items
  BY <1>2 DEF Task
<1> HIDE DEF k
<1>5. RowOf(k, i) = "off"
  BY <1>3, <1>4 DEF RowOf
<1>6. \A n \in Items \ {i} : RowOf(k, n) = RowOf(j, n) /\ k.seen[n] = j.seen[n]
  BY <1>4 DEF RowOf
<1>7. \A n \in k.held : k.seen[n] = RowOf(k, n)
  <2>1. \A n \in j.held : n \in Items /\ j.seen[n] = RowOf(j, n)
    BY <1>2 DEF Shows, Task
  <2>. QED
    BY <1>4, <1>5, <1>6, <2>1 DEF Kept
<1>8. ASSUME NEW n \in Items, IsDone(k, n) PROVE RowOf(k, n) = "on" <=> n \in k.got
  <2>1. IsDone(j, n) /\ n # i
    BY <1>2, <1>3, <1>4, <1>8 DEF IsDone, Working
  <2>. QED
    BY <1>2, <1>4, <1>6, <2>1 DEF Shows
<1>9. Swept(k)
  <2>1. \A n \in ItemsOf(j.at) : n \in Items
    BY DEF ItemsOf
  <2>. QED
    BY <1>3, <1>4, <1>5, <1>6, <2>1 DEF Swept
<1>10. Shows(k)
  BY <1>2, <1>4, <1>7, <1>8, <1>9 DEF Shows
<1>. QED
  BY <1>1, <1>4, <1>10 DEF ShowsOn

LEMMA ListDoneShows ==
  ASSUME NEW t \in Tasks, Shown(t), ListDone(t)
  PROVE  ShowsOn(t)
<1> DEFINE j == task[t]
           u == j.at
           v == IF j.kind # "catalogue" /\ u[2] = "services" THEN "SYNCED" ELSE j.verdict[u[1]]
           k == [j EXCEPT !.pc = After(t, j.left), !.at = NoUnit, !.verdict[u[1]] = v]
<1>1. Goes(t, k) /\ row' = row
  BY DEF ListDone, table
<1>2. j \in Task /\ Shows(j) /\ j.pc = "sweep" /\ j.gone = {}
  BY ReadyTask DEF Shown, ListDone
<1>3. /\ After(t, j.left) \in {"end", "take", "ask"}
      /\ After(t, j.left) = "end" => j.left = {}
  BY DEF After
<1> HIDE DEF u, v
<1>4. /\ k.pc = After(t, j.left) /\ k.left = j.left /\ k.ok = j.ok /\ k.got = j.got
      /\ k.held = j.held /\ k.seen = j.seen /\ k.put = j.put /\ k.alone = j.alone
  BY <1>2 DEF Task
<1> HIDE DEF k
<1>5. \A i \in Items : RowOf(k, i) = RowOf(j, i)
  BY <1>4 DEF RowOf
<1>6. ASSUME NEW i \in Items, IsDone(k, i) PROVE RowOf(k, i) = "on" <=> i \in k.got
  <2>1. CASE UnitOf(i) = j.at
    <3>1. i \in ItemsOf(j.at) /\ Swept(j)
      BY <1>2, <2>1 DEF ItemsOf, Shows
    <3>. QED
      BY <1>2, <1>4, <1>5, <3>1 DEF Swept
  <2>2. CASE UnitOf(i) # j.at
    <3>1. IsDone(j, i)
      BY <1>4, <1>6, <2>2 DEF IsDone
    <3>. QED
      BY <1>2, <1>4, <1>5, <3>1 DEF Shows
  <2>. QED
    BY <2>1, <2>2
<1>7. \A i \in k.held : k.seen[i] = RowOf(k, i)
  BY <1>2, <1>4, <1>5 DEF Shows, Task
<1>8. Shows(k)
  BY <1>2, <1>3, <1>4, <1>6, <1>7 DEF Shows
<1>. QED
  BY <1>1, <1>4, <1>8 DEF ShowsOn

(* Nobody else is there to step beside a session that is alone.            *)
LEMMA StepShows ==
  ASSUME TypeOK, AllSound, AllShow, NEW t \in Tasks, Busy(t), Shown(t) => ShowsOn(t),
         row' = row, GoesAs(t)
  PROVE  AllShow'
<1>1. /\ task'[t].alone = task[t].alone /\ \A u \in Tasks \ {t} : task'[u] = task[u]
  BY DEF GoesAs
<1>2. CASE task[t].alone
  <2>1. Shown(t) /\ \A u \in Tasks \ {t} : ~Busy(u)
    BY <1>2 DEF Shown, Ready, AllSound, AllShow
  <2>2. PICK k : Goes(t, k) /\ Shows(k)
    BY <2>1 DEF ShowsOn
  <2>3. task'[t] = k
    BY <2>2 DEF Goes, TypeOK
  <2>4. Shows(task[t])'
    <3>1. \A i : RowOf(k, i) = RowOf(task[t], i)'
      BY <2>3 DEF RowOf
    <3>. QED
      BY <2>2, <2>3, <3>1 DEF Shows, Upserted, Selected, Swept, IsDone
  <2>5. \A u \in Tasks \ {t} : ~Busy(u)'
    BY <1>1, <2>1 DEF Busy
  <2>. QED
    BY <2>4, <2>5 DEF AllShow
<1>3. CASE ~task[t].alone
  <2>1. ASSUME NEW u \in Tasks, (task[u].alone /\ Busy(u))' PROVE FALSE
    <3>1. u # t /\ task[u].alone /\ Busy(u)
      BY <1>1, <1>3, <2>1 DEF Busy
    <3>. QED
      BY <3>1 DEF AllShow
  <2>. QED
    BY <2>1 DEF AllShow
<1>. QED
  BY <1>2, <1>3 DEF TypeOK, Task

LEMMA EndShows ==
  ASSUME TypeOK, AllShow, NEW t \in Tasks, Busy(t), task' = [task EXCEPT ![t] = Idle]
  PROVE  AllShow'
<1>1. ~Busy(t)' /\ \A u \in Tasks \ {t} : task'[u] = task[u]
  BY DEF Busy, Idle, TypeOK
<1>2. ASSUME NEW u \in Tasks, (task[u].alone /\ Busy(u))' PROVE FALSE
  <2>1. u # t /\ task[u].alone /\ Busy(u)
    BY <1>1, <1>2 DEF Busy
  <2>. QED
    BY <2>1 DEF AllShow
<1>. QED
  BY <1>2 DEF AllShow

(* What a session begins with is as it is stored.                          *)
LEMMA BeginShows ==
  ASSUME TypeOK, NEW t \in Tasks, NEW k \in Task, Begin(t, k),
         k.ok = {}, k.got = {}, k.put = Idle.put, \A i \in k.held : k.seen[i] = row[i]
  PROVE  AllShow'
<1> DEFINE k2 == [k EXCEPT !.pc = "ask", !.old = status,
                           !.alone = \A v \in Tasks \ {t} : ~Busy(v)]
<1>1. /\ task'[t] = k2 /\ row' = row
      /\ \A u \in Tasks \ {t} : task'[u] = [task[u] EXCEPT !.alone = task[u].alone /\ ~Busy(u)]
  BY DEF Begin, table
<1>2. /\ k2.pc = "ask" /\ k2.ok = {} /\ k2.got = {} /\ k2.put = Idle.put /\ k2.held = k.held
      /\ k2.seen = k.seen /\ k2.alone = \A v \in Tasks \ {t} : ~Busy(v)
      /\ k.held \subseteq Items
  BY DEF Task
<1> HIDE DEF k2
<1>3. \A u \in Tasks \ {t} : /\ task'[u].pc = task[u].pc
                             /\ task'[u].alone = (task[u].alone /\ ~Busy(u))
  <2> SUFFICES ASSUME NEW u \in Tasks \ {t}
               PROVE  /\ task'[u].pc = task[u].pc
                      /\ task'[u].alone = (task[u].alone /\ ~Busy(u))
    OBVIOUS
  <2> DEFINE b == task[u].alone /\ ~Busy(u)
  <2>1. task[u] \in Task
    BY DEF TypeOK
  <2>2. task'[u] = [task[u] EXCEPT !.alone = b]
    BY <1>1
  <2> HIDE DEF b
  <2>3. task'[u].pc = task[u].pc /\ task'[u].alone = b
    BY <2>1, <2>2 DEF Task
  <2>. QED
    BY <2>3 DEF b
<1>4. Shows(task[t])'
  <2>1. \A i \in Items : RowOf(k2, i) = row[i]
    BY <1>2 DEF RowOf, Idle
  <2>2. Shows(k2)
    BY <1>2, <2>1 DEF Shows, IsDone
  <2>3. \A i : RowOf(k2, i) = RowOf(task[t], i)'
    BY <1>1 DEF RowOf
  <2>. QED
    BY <1>1, <2>2, <2>3 DEF Shows, Upserted, Selected, Swept, IsDone
<1>5. ASSUME NEW u \in Tasks \ {t} PROVE ~(task[u].alone /\ Busy(u))'
  BY <1>3 DEF Busy
<1>6. task'[t].alone => \A u \in Tasks \ {t} : ~Busy(u)'
  BY <1>1, <1>2, <1>3 DEF Busy
<1>. QED
  BY <1>4, <1>5, <1>6 DEF AllShow

LEMMA BeginsShow ==
  ASSUME TypeOK, NEW t \in Tasks,
         \/ ListByCompany(t)
         \/ \E b \in Branches : SyncBranch(t, b)
         \/ \E i \in Staff : RefreshCatalogue(t, i)
  PROVE  AllShow'
<1>1. CASE ListByCompany(t)
  <2> DEFINE loaded == {i \in Staff : row[i] # "absent"}
             seen == [i \in Items |-> IF i \in loaded THEN row[i] ELSE "unknown"]
             k == [Idle EXCEPT !.left = Units, !.held = loaded, !.seen = seen, !.tied = linked]
  <2>1. /\ loaded \in SUBSET Items /\ linked \in SUBSET Staff
        /\ seen \in [Items -> {"unknown", "absent", "on", "off"}]
        /\ \A i \in loaded : seen[i] = row[i]
    BY DEF TypeOK, Items
  <2>2. Begin(t, k)
    BY <1>1 DEF ListByCompany
  <2> HIDE DEF loaded, seen
  <2>3. k \in Task
    BY <2>1, IdleTyped DEF Task
  <2>4. k.ok = {} /\ k.got = {} /\ k.put = Idle.put /\ k.held = loaded /\ k.seen = seen
    BY DEF Idle
  <2> HIDE DEF k
  <2>. QED
    BY <2>1, <2>2, <2>3, <2>4, BeginShows
<1>2. ASSUME NEW b \in Branches, SyncBranch(t, b) PROVE AllShow'
  <2> DEFINE k == [Idle EXCEPT !.kind = "branch", !.left = {b} \X {"staff", "services"}]
  <2>1. {b} \X {"staff", "services"} \in SUBSET Units
    BY DEF Units
  <2>2. k \in Task
    BY <2>1, IdleTyped DEF Task
  <2>3. Begin(t, k)
    BY <1>2 DEF SyncBranch
  <2>4. k.ok = {} /\ k.got = {} /\ k.put = Idle.put /\ k.held = {}
    BY DEF Idle
  <2> HIDE DEF k
  <2>. QED
    BY <2>2, <2>3, <2>4, BeginShows
<1>3. ASSUME NEW i \in Staff, RefreshCatalogue(t, i) PROVE AllShow'
  <2> DEFINE seen == [j \in Items |-> IF j = i THEN "on" ELSE "unknown"]
             k == [Idle EXCEPT !.kind = "catalogue",
                     !.left = {BranchOf[i]} \X {"staff", "services"},
                     !.held = {i}, !.tied = {i}, !.seen = seen]
  <2>1. BranchOf[i] \in Branches /\ i \in Items
    BY BranchOfAssumption DEF Items
  <2>2. /\ {BranchOf[i]} \X {"staff", "services"} \in SUBSET Units
        /\ seen \in [Items -> {"unknown", "absent", "on", "off"}] /\ seen[i] = "on"
        /\ {i} \in SUBSET Items /\ {i} \in SUBSET Staff
    BY <2>1 DEF Units
  <2>3. Begin(t, k) /\ row[i] = "on"
    BY <1>3 DEF RefreshCatalogue
  <2> DEFINE left == {BranchOf[i]} \X {"staff", "services"}
  <2> HIDE DEF seen, left
  <2>4. k \in Task
    BY <2>2, IdleTyped DEF Task, left
  <2>5. k.ok = {} /\ k.got = {} /\ k.put = Idle.put /\ k.held = {i} /\ k.seen = seen
    BY DEF Idle
  <2> HIDE DEF k
  <2>. QED
    BY <2>2, <2>3, <2>4, <2>5, BeginShows
<1>. QED
  BY <1>1, <1>2, <1>3

(* The steps of a session that end nothing.                                *)
LEMMA GoingShows ==
  ASSUME TypeOK, AllSound, AllShow, NEW t \in Tasks,
         \/ \E u \in Units : RequestFails(t, u) \/ Answered(t, u) \/ Take(t, u)
         \/ CatalogueAnswered(t)
         \/ \E i \in Items : Select(t, i) \/ Deactivate(t, i)
         \/ Flush(t)
         \/ SelectMissing(t)
         \/ ListDone(t)
  PROVE  AllShow'
<1>1. ASSUME Shown(t) PROVE ShowsOn(t)
  BY <1>1, RequestFailsShows, AnsweredShows, TakeShows, CatalogueAnsweredShows, SelectShows,
     FlushShows, SelectMissingShows, DeactivateShows, ListDoneShows
<1>4. Busy(t) /\ row' = row
  BY DEF RequestFails, Answered, Take, CatalogueAnswered, Select, Deactivate, Flush,
         SelectMissing, ListDone, Busy, table
<1>5. GoesAs(t)
  <2>1. task[t] \in Task /\ task \in [Tasks -> Task]
    BY DEF TypeOK
  <2>2. ASSUME NEW u \in Units, RequestFails(t, u) PROVE GoesAs(t)
    BY <2>1, <2>2 DEF RequestFails, Task, Goes, GoesAs
  <2>3. ASSUME NEW u \in Units, Answered(t, u) PROVE GoesAs(t)
    <3>1. PICK items \in {remote \cap ItemsOf(u), {}} :
            Goes(t, [task[t] EXCEPT !.pc = "upsert", !.at = u,
                                    !.left = task[t].left \ {u},
                                    !.ok = task[t].ok \cup {u},
                                    !.got = task[t].got \cup items,
                                    !.todo = items])
      BY <2>3 DEF Answered
    <3>. QED
      BY <2>1, <3>1 DEF Task, Goes, GoesAs
  <2>4. ASSUME NEW u \in Units, Take(t, u) PROVE GoesAs(t)
    BY <2>1, <2>4 DEF Take, Task, Goes, GoesAs
  <2>5. CASE CatalogueAnswered(t)
    <3>1. PICK ok, got, verdict, pc :
            Goes(t, [task[t] EXCEPT !.ok = ok, !.left = ok, !.got = got,
                                    !.verdict = verdict, !.pc = pc])
      BY <2>5 DEF CatalogueAnswered
    <3>. QED
      BY <2>1, <3>1 DEF Task, Goes, GoesAs
  <2>6. ASSUME NEW i \in Items, Select(t, i) PROVE GoesAs(t)
    BY <2>1, <2>6 DEF Select, Task, Goes, GoesAs
  <2>7. ASSUME NEW i \in Items, Deactivate(t, i) PROVE GoesAs(t)
    BY <2>1, <2>7 DEF Deactivate, Task, Goes, GoesAs
  <2>8. CASE Flush(t)
    BY <2>1, <2>8 DEF Flush, Task, Goes, GoesAs
  <2>9. CASE SelectMissing(t)
    BY <2>1, <2>9 DEF SelectMissing, Task, Goes, GoesAs
  <2>10. CASE ListDone(t)
    BY <2>1, <2>10 DEF ListDone, Task, Goes, GoesAs
  <2>. QED
    BY <2>2, <2>3, <2>4, <2>5, <2>6, <2>7, <2>8, <2>9, <2>10
<1>. QED
  BY <1>1, <1>4, <1>5, StepShows

LEMMA ShowsInit == Init => AllShow
  BY DEF Init, AllShow, Busy, Idle

LEMMA ShowsNext == TypeOK /\ AllSound /\ AllShow /\ [Next]_vars => AllShow'
<1> SUFFICES ASSUME TypeOK, AllSound, AllShow, [Next]_vars PROVE AllShow'
  OBVIOUS
<1>1. ASSUME row' = row, task' = task PROVE AllShow'
  BY <1>1 DEF AllShow, Busy, Shows, Upserted, Selected, Swept, IsDone, RowOf
<1>2. ASSUME NEW i \in Items, RemoteChange(i) PROVE AllShow'
  BY <1>1, <1>2 DEF RemoteChange, table
<1>3. ASSUME NEW i \in Staff, AttachTelegram(i) PROVE AllShow'
  BY <1>1, <1>3 DEF AttachTelegram
<1>4. ASSUME NEW b \in Branches, MarkLapses(b) PROVE AllShow'
  BY <1>1, <1>4 DEF MarkLapses, table
<1>5. CASE SyncAllBranches
  BY <1>5, BeginsShow, TasksAssumption DEF SyncAllBranches
<1>6. ASSUME NEW t \in Tasks, SyncCompany(t) PROVE AllShow'
  BY <1>6, BeginsShow DEF SyncCompany
<1>7. ASSUME NEW t \in Tasks, NEW b \in Branches, SyncBranch(t, b) PROVE AllShow'
  BY <1>7, BeginsShow
<1>8. ASSUME NEW t \in Tasks, NEW i \in Staff, RefreshCatalogue(t, i) PROVE AllShow'
  BY <1>8, BeginsShow
<1>9. ASSUME NEW t \in Tasks, NEW u \in Units, RequestFails(t, u) PROVE AllShow'
  BY <1>9, GoingShows
<1>10. ASSUME NEW t \in Tasks, Abort(t) PROVE AllShow'
  BY <1>10, EndShows DEF Abort, RollBack
<1>11. ASSUME NEW t \in Tasks, Step(t) PROVE AllShow'
  <2>1. CASE Commit(t)
    BY <2>1, EndShows DEF Commit, Busy
  <2>2. CASE Clash(t)
    BY <2>2, EndShows DEF Clash, RollBack, Busy
  <2>3. CASE Deadlock(t)
    BY <2>3, EndShows DEF Deadlock, Waits, RollBack, Busy
  <2>. QED
    BY <1>11, <2>1, <2>2, <2>3, GoingShows DEF Step
<1>12. CASE UNCHANGED vars
  BY <1>1, <1>12 DEF vars, table
<1>. QED
  BY <1>2, <1>3, <1>4, <1>5, <1>6, <1>7, <1>8, <1>9, <1>10, <1>11, <1>12 DEF Next

(* upsert and deactivate_missing_*: with nobody beside it a session ends   *)
(* with exactly the answered rows of the lists it has been answered.       *)
THEOREM AloneAlwaysShowsAnswer == Spec => []AloneShowsAnswer
<1>1. AllShow => AloneShowsAnswer
  <2> SUFFICES ASSUME AllShow, NEW t \in Tasks, task[t].pc = "end", task[t].alone,
                      NEW i \in Items, UnitOf(i) \in task[t].ok
               PROVE  View(t, i) = "on" <=> i \in task[t].got
    BY DEF AloneShowsAnswer
  <2>1. Shows(task[t])
    BY DEF AllShow, Busy
  <2>2. IsDone(task[t], i)
    BY <2>1 DEF Shows, IsDone, Working
  <2>3. RowOf(task[t], i) = "on" <=> i \in task[t].got
    BY <2>1, <2>2 DEF Shows
  <2>. QED
    BY <2>3 DEF RowOf, View
<1>. QED
  BY <1>1, ShowsInit, ShowsNext, AlwaysSound, PTL DEF Spec
=============================================================================
