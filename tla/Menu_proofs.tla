----------------------------- MODULE Menu_proofs -----------------------------
(***************************************************************************)
(* What a press makes and how it reaches the chat: the proofs of Menu's    *)
(* invariants, for any handlers, messages, goods, rules and days.          *)
(*                                                                         *)
(* Delivered holds by what each handler has sent and told (DeliveryInv).   *)
(* OneSpan and Navigable follow from the calendar: that the days of a      *)
(* period are those of its kind and its first day, on whatever day it is   *)
(* asked for (PeriodInv).  LadderTells follows from what the rows make of  *)
(* the lines they were last written from (GradeInv).  WholeList follows    *)
(* from the numbers of the goods read so far: those of the pages answered, *)
(* each once (Reading), until the last page (GoodsInv).                    *)
(***************************************************************************)
EXTENDS Menu, Lists_proofs

(* A handler at one of these steps answers for the frame of its message.   *)
Waits == Producing \cup {"send", "delete", "fall"}

Fields == {"at", "kind", "msg", "edits", "work", "rich", "plain", "sent", "told"}

(* What the handlers of the goods and of the grade do does not happen in   *)
(* the section of the periods, whose parts are screens.                    *)
IsScreen(x) == x.is = "screen" /\ x.kind \notin {"goods", "grade"}

PeriodHandlerOK(k) ==
  /\ k.kind \notin {"goods", "grade"}
  /\ k.at \notin {"look", "ask", "place", "progress", "again"}
  /\ k.at \in Producing \cup {"frame", "send"} => k.sent = 0
  /\ k.at \in {"send", "fall"} =>
       Len(k.rich) = 1 /\ IsScreen(k.rich[1]) /\ IsScreen(k.plain[1])

HandlerOK(k) ==
  /\ DOMAIN k = Fields
  /\ k.at \in Waits \cup {"frame", "rest"}
  /\ section = "period" => PeriodHandlerOK(k)
  /\ k.at = "delete" => k.sent = Len(k.rich)

(* A handler that ended lost nothing.                                      *)
EndedOK(k) == k.at = "idle" /\ k.lost = FALSE

Shape == DOMAIN task = Tasks /\ DOMAIN chat = Slots

HandlersOK == \A t \in Tasks : EndedOK(task[t]) \/ HandlerOK(task[t])

ScreensOK ==
  section = "period" => \A m \in Slots : chat[m].is = "screen" => IsScreen(chat[m])

FramesOK ==
  \A m \in Slots : chat[m] = Frame => \E t \in Tasks : task[t].at \in Waits /\ task[t].msg = m

DeliveryInv == Shape /\ HandlersOK /\ ScreensOK /\ FramesOK

(* A step that changes no other handler.                                   *)
Only(t) == DOMAIN task' = Tasks /\ \A u \in Tasks : u = t \/ task'[u] = task[u]

LEMMA GoesOnly ==
  ASSUME Shape, NEW t \in Tasks, NEW k, Goes(t, k)
  PROVE  Only(t) /\ task'[t] = k
BY DEF Shape, Goes, Only

LEMMA OthersOK ==
  ASSUME HandlersOK, NEW t \in Tasks, Only(t), section' = section,
         EndedOK(task[t])' \/ HandlerOK(task[t])'
  PROVE  HandlersOK'
BY DEF HandlersOK, Only, EndedOK, HandlerOK, PeriodHandlerOK, IsScreen

(* A handler stays behind its message, whose frame it may have drawn.      *)
LEMMA Waiting ==
  ASSUME DeliveryInv, NEW t \in Tasks, Only(t), section' = section, HandlerOK(task[t])',
         task'[t].at \in Waits, task[t].at \in Waits => task'[t].msg = task[t].msg,
         DOMAIN chat' = Slots, ScreensOK',
         \A m \in Slots : chat'[m] = Frame => chat[m] = Frame \/ m = task'[t].msg
  PROVE  DeliveryInv'
<1>1. HandlersOK'
  BY OthersOK DEF DeliveryInv
<1>2. ASSUME NEW m \in Slots, chat'[m] = Frame
      PROVE  \E u \in Tasks : task'[u].at \in Waits /\ task'[u].msg = m
  <2>1. CASE m = task'[t].msg
    BY <2>1
  <2>2. CASE chat[m] = Frame
    <3>1. PICK u \in Tasks : task[u].at \in Waits /\ task[u].msg = m
      BY <2>2 DEF DeliveryInv, FramesOK
    <3>2. task'[u].at \in Waits /\ task'[u].msg = m
      BY <3>1 DEF Only
    <3>. QED
      BY <3>2
  <2>. QED
    BY <1>2, <2>1, <2>2
<1>3. FramesOK'
  BY <1>2 DEF FramesOK, Frame, Waits, Producing
<1>. QED
  BY <1>1, <1>3 DEF DeliveryInv, Shape, Only

(* A handler that leaves its message, or has not reached it, leaves no     *)
(* frame in it.                                                            *)
LEMMA Leaving ==
  ASSUME DeliveryInv, NEW t \in Tasks, Only(t), section' = section,
         EndedOK(task[t])' \/ HandlerOK(task[t])',
         DOMAIN chat' = Slots, ScreensOK',
         \A m \in Slots : chat'[m] = Frame =>
             chat[m] = Frame /\ (task[t].at \in Waits => m # task[t].msg)
  PROVE  DeliveryInv'
<1>1. HandlersOK'
  BY OthersOK DEF DeliveryInv
<1>2. ASSUME NEW m \in Slots, chat'[m] = Frame
      PROVE  \E u \in Tasks : task'[u].at \in Waits /\ task'[u].msg = m
  <2>1. PICK u \in Tasks : task[u].at \in Waits /\ task[u].msg = m
    BY <1>2 DEF DeliveryInv, FramesOK
  <2>2. u # t
    BY <1>2, <2>1
  <2>. QED
    BY <2>1, <2>2 DEF Only
<1>3. FramesOK'
  BY <1>2 DEF FramesOK, Frame, Waits, Producing
<1>. QED
  BY <1>1, <1>3 DEF DeliveryInv, Shape, Only

-----------------------------------------------------------------------------
(* Presses: a new handler at its first step.                               *)

LEMMA Presses ==
  ASSUME DeliveryInv, NEW t \in Tasks, NEW kind, NEW m, NEW edits, NEW work,
         Goes(t, Handler(kind, m, edits, work)), section' = section,
         section = "period" => kind \notin {"goods", "grade"},
         task[t].at = "idle", DOMAIN chat' = Slots, ScreensOK',
         \A n \in Slots : chat'[n] = Frame => chat[n] = Frame
  PROVE  DeliveryInv'
<1>1. Only(t) /\ task'[t] = Handler(kind, m, edits, work)
  BY GoesOnly DEF DeliveryInv
<1>2. HandlerOK(task[t])'
  BY <1>1 DEF Handler, HandlerOK, PeriodHandlerOK, Fields, Waits, Producing
<1>. QED
  BY <1>1, <1>2, Leaving DEF Waits, Producing

LEMMA PressInductive ==
  ASSUME DeliveryInv, NEW t \in Tasks,
         \/ PressGoods(t) \/ PressGrade(t) \/ \E m \in Slots : PressButton(t, m)
         \/ \E kind \in Kinds[section] : PressMenu(t, kind)
  PROVE  DeliveryInv'
<1> USE DEF DeliveryInv, Shape
<1>0. Quiet => task[t].at = "idle"
  BY DEF Quiet, Running
<1>1. CASE PressGoods(t)
  <2>1. PICK m \in FreeSlots : Goes(t, Handler("goods", m, FALSE, GoodsWork))
    BY <1>1 DEF PressGoods
  <2>2. section = "goods" /\ section' = section /\ chat' = chat /\ Quiet
    BY <1>1 DEF PressGoods
  <2>3. ScreensOK'
    BY <2>2 DEF ScreensOK, IsScreen
  <2>. QED
    BY <1>0, <2>1, <2>2, <2>3, Presses
<1>2. CASE PressGrade(t)
  <2>1. PICK m \in FreeSlots, category \in Categories :
          Goes(t, Handler("grade", m, FALSE, [category |-> category, rules |-> <<>>]))
    BY <1>2 DEF PressGrade
  <2>2. section = "grade" /\ section' = section /\ chat' = chat /\ Quiet
    BY <1>2 DEF PressGrade
  <2>3. ScreensOK'
    BY <2>2 DEF ScreensOK, IsScreen
  <2>. QED
    BY <1>0, <2>1, <2>2, <2>3, Presses
<1>3. ASSUME NEW kind \in Kinds[section], PressMenu(t, kind) PROVE DeliveryInv'
  <2>1. PICK m \in FreeSlots, scope \in ScopesOf(kind), edits \in {FALSE, kind = "team"} :
          /\ Goes(t, Handler(kind, m, edits, PeriodWork(Word("month"), scope, 0)))
          /\ chat' = [ScrolledAway EXCEPT ![m] = IF edits THEN Plain ELSE @]
    BY <1>3 DEF PressMenu
  <2>2. kind \notin {"goods", "grade"} /\ section' = section /\ Quiet
    BY <1>3 DEF PressMenu
  <2>3. DOMAIN chat' = Slots
    BY <2>1 DEF ScrolledAway
  <2>4. \A n \in Slots : chat'[n] = Frame => chat[n] = Frame
    <3> SUFFICES ASSUME NEW n \in Slots, chat'[n] = Frame PROVE chat[n] = Frame
      OBVIOUS
    <3>1. chat'[n] = Plain \/ chat'[n] = ScrolledAway[n]
      BY <2>1 DEF ScrolledAway
    <3>2. Plain # Frame /\ Nothing # Frame
      BY DEF Plain, Frame, Nothing
    <3>. QED
      BY <3>1, <3>2 DEF ScrolledAway
  <2>5. ScreensOK'
    <3>1. \A n \in Slots : chat'[n] = Plain \/ chat'[n] = Nothing \/ chat'[n] = chat[n]
      BY <2>1 DEF ScrolledAway
    <3>2. Plain.is # "screen" /\ Nothing.is # "screen"
      BY DEF Plain, Nothing
    <3>. QED
      BY <2>2, <3>1, <3>2 DEF ScreensOK, IsScreen
  <2>. QED
    BY <1>0, <2>1, <2>2, <2>3, <2>4, <2>5, Presses
<1>4. ASSUME NEW m \in Slots, PressButton(t, m) PROVE DeliveryInv'
  <2>1. section' = section /\ chat' = chat /\ Quiet
    BY <1>4 DEF PressButton
  <2>2. PICK p, scope, n, edits, shifts :
          Goes(t, Handler(chat[m].kind, n, edits, PeriodWork(p, scope, shifts)))
    BY <1>4 DEF PressButton
  <2>3. PICK kind : kind = chat[m].kind
    OBVIOUS
  <2>4. Goes(t, Handler(kind, n, edits, PeriodWork(p, scope, shifts)))
    BY <2>2, <2>3
  <2>5. section = "period" => kind \notin {"goods", "grade"}
    BY <1>4, <2>3 DEF PressButton, ScreensOK, IsScreen
  <2>6. ScreensOK'
    BY <2>1 DEF ScreensOK, IsScreen
  <2>. QED
    BY <1>0, <2>1, <2>4, <2>5, <2>6, Presses
<1>. QED
  BY <1>1, <1>2, <1>3, <1>4

(* The same button again.                                                  *)
LEMMA PressTwiceInductive ==
  ASSUME DeliveryInv, NEW t \in Tasks, NEW u \in Tasks, PressTwice(t, u)
  PROVE  DeliveryInv'
<1> USE DEF DeliveryInv, Shape
<1>1. task[t].at = "idle" /\ task[u].at = "frame" /\ section' = section /\ chat' = chat
  BY DEF PressTwice, Running
<1>2. HandlerOK(task[u])
  BY <1>1 DEF HandlersOK, EndedOK
<1>3. /\ Only(t) /\ DOMAIN task'[t] = Fields
      /\ task'[t].at = task[u].at /\ task'[t].kind = task[u].kind /\ task'[t].sent = task[u].sent
  BY <1>2 DEF PressTwice, Goes, Only, HandlerOK, Fields
<1>4. HandlerOK(task[t])'
  BY <1>1, <1>2, <1>3 DEF HandlerOK, PeriodHandlerOK, Waits, Producing
<1>5. ScreensOK'
  BY <1>1 DEF ScreensOK, IsScreen
<1>. QED
  BY <1>1, <1>3, <1>4, <1>5, Leaving DEF Waits, Producing

(* What the message of one handler becomes.                                *)
LEMMA ShowsOne ==
  ASSUME Shape, ScreensOK, NEW m, NEW what, Shows(m, what), section' = section,
         section = "period" /\ what.is = "screen" => IsScreen(what)
  PROVE  /\ DOMAIN chat' = Slots
         /\ ScreensOK'
         /\ \A n \in Slots : chat'[n] = chat[n] \/ (n = m /\ chat'[n] = what)
<1>1. /\ DOMAIN chat' = Slots
      /\ \A n \in Slots : chat'[n] = chat[n] \/ (n = m /\ chat'[n] = what)
  BY DEF Shows, Shape
<1>. QED
  BY <1>1 DEF ScreensOK, IsScreen

LEMMA FrameInductive ==
  ASSUME DeliveryInv, NEW t \in Tasks,
         ShowFrame(t) \/ Animate(t) \/ ProducerFails(t)
  PROVE  DeliveryInv'
<1> USE DEF DeliveryInv
<1>. DEFINE m == task[t].msg
<1>0. /\ Frame.is # "screen" /\ Plain.is # "screen" /\ Nothing.is # "screen"
      /\ Plain # Frame /\ Nothing # Frame
  BY DEF Frame, Plain, Nothing
<1>1. CASE ShowFrame(t)
  <2>1. task[t].at = "frame" /\ section' = section /\ HandlerOK(task[t])
    BY <1>1 DEF ShowFrame, HandlersOK, EndedOK
  <2>2. CASE Raises(t) /\ UNCHANGED chat
    <3>1. Only(t) /\ task'[t] = Idle
      BY <2>2 DEF Raises, Goes, Only, Shape
    <3>2. EndedOK(task[t])'
      BY <3>1 DEF EndedOK, Idle
    <3>3. ScreensOK' /\ DOMAIN chat' = Slots
      BY <2>1, <2>2 DEF ScreensOK, IsScreen, Shape
    <3>. QED
      BY <2>1, <2>2, <3>1, <3>2, <3>3, Leaving DEF Waits, Producing
  <2>3. CASE /\ Shows(m, Frame)
             /\ Goes(t, [task[t] EXCEPT !.at = FirstStep(task[t].kind)])
    <3>1. /\ Only(t) /\ DOMAIN task'[t] = Fields /\ task'[t].at = FirstStep(task[t].kind)
          /\ task'[t].msg = m /\ task'[t].kind = task[t].kind /\ task'[t].sent = task[t].sent
      BY <2>1, <2>3 DEF Goes, Only, Shape, HandlerOK, Fields
    <3>2. /\ FirstStep(task[t].kind) \in {"look", "place", "refresh"}
          /\ task[t].kind \notin {"goods", "grade"} => FirstStep(task[t].kind) = "refresh"
      BY DEF FirstStep
    <3>3. task'[t].at \in Producing
      BY <3>1, <3>2 DEF Producing
    <3>4. HandlerOK(task[t])'
      BY <2>1, <3>1, <3>2, <3>3 DEF HandlerOK, PeriodHandlerOK, Waits, Producing
    <3>5. /\ DOMAIN chat' = Slots /\ ScreensOK'
          /\ \A n \in Slots : chat'[n] = chat[n] \/ (n = m /\ chat'[n] = Frame)
      BY <1>0, <2>1, <2>3, ShowsOne
    <3>. QED
      BY <2>1, <3>1, <3>3, <3>4, <3>5, Waiting DEF Waits
  <2>. QED
    BY <1>1, <2>2, <2>3 DEF ShowFrame
<1>2. CASE Animate(t)
  <2>1. /\ task[t].at \in Producing /\ Shows(m, Frame)
        /\ section' = section /\ task' = task
    BY <1>2 DEF Animate
  <2>2. HandlerOK(task[t])
    BY <2>1 DEF HandlersOK, EndedOK, Producing
  <2>3. Only(t) /\ HandlerOK(task[t])'
    BY <2>1, <2>2 DEF Only, Shape, HandlerOK, PeriodHandlerOK, IsScreen
  <2>4. /\ DOMAIN chat' = Slots /\ ScreensOK'
        /\ \A n \in Slots : chat'[n] = chat[n] \/ (n = m /\ chat'[n] = Frame)
    BY <1>0, <2>1, ShowsOne
  <2>. QED
    BY <2>1, <2>3, <2>4, Waiting DEF Waits
<1>3. CASE ProducerFails(t)
  <2>1. /\ task[t].at \in Producing
        /\ (Shows(m, Plain) \/ Shows(m, Nothing))
        /\ section' = section /\ Raises(t)
    BY <1>3 DEF ProducerFails
  <2>2. Only(t) /\ task'[t] = Idle
    BY <2>1 DEF Raises, Goes, Only, Shape
  <2>3. EndedOK(task[t])'
    BY <2>2 DEF EndedOK, Idle
  <2>4. /\ DOMAIN chat' = Slots /\ ScreensOK'
        /\ \A n \in Slots : n = m \/ chat'[n] = chat[n]
        /\ m \in Slots => chat'[m] \in {Plain, Nothing}
    <3>1. ASSUME NEW what \in {Plain, Nothing}, Shows(m, what)
          PROVE  /\ DOMAIN chat' = Slots /\ ScreensOK'
                 /\ \A n \in Slots : n = m \/ chat'[n] = chat[n]
                 /\ m \in Slots => chat'[m] \in {Plain, Nothing}
      <4>1. DOMAIN chat' = Slots /\ ScreensOK'
        BY <1>0, <2>1, <3>1, ShowsOne
      <4>. QED
        BY <3>1, <4>1 DEF Shows, Shape
    <3>. QED
      BY <2>1, <3>1
  <2>. QED
    BY <1>0, <2>1, <2>2, <2>3, <2>4, Leaving
<1>. QED
  BY <1>1, <1>2, <1>3

-----------------------------------------------------------------------------
(* The steps that produce a result: the handler stays behind its frame.    *)

(* A handler goes on behind the same message.                              *)
Moved(t, steps) ==
  /\ Only(t)
  /\ DOMAIN task'[t] = Fields
  /\ task'[t].at \in steps
  /\ task'[t].msg = task[t].msg

LEMMA PeriodSteps ==
  ASSUME DeliveryInv, NEW t \in Tasks,
         RefreshPeriod(t) \/ RefreshTeamPeriod(t) \/ SumEmployee(t) \/ SumTeam(t) \/ SumMonth(t)
           \/ LabelRich(t)
  PROVE  /\ Moved(t, {"refresh", "sum", "label"})
         /\ task'[t].kind = task[t].kind /\ task'[t].sent = task[t].sent
         /\ task[t].at \in {"refresh", "sum", "label"}
         /\ UNCHANGED <<section, chat>>
<1>1. task[t].at \in {"refresh", "sum", "label"} /\ UNCHANGED <<section, chat>>
  BY DEF RefreshPeriod, RefreshTeamPeriod, SumEmployee, SumTeam, SumMonth, LabelRich
<1>2. DOMAIN task[t] = Fields
  BY <1>1 DEF DeliveryInv, HandlersOK, EndedOK, HandlerOK
<1>. DEFINE Goal == /\ Moved(t, {"refresh", "sum", "label"})
                    /\ task'[t].kind = task[t].kind /\ task'[t].sent = task[t].sent
<1> USE DEF Goes, Moved, Only, DeliveryInv, Shape, Fields
<1>3. ASSUME RefreshPeriod(t) PROVE Goal
  <2>. DEFINE w == task[t].work
             ahead == IF task[t].kind = "kpi"
                      THEN [task[t] EXCEPT !.work.month = MonthFromPeriod(w.asked, today)]
                      ELSE task[t]
             done == [ahead EXCEPT !.work.left = @ - 1,
                         !.work.from = @ \cup {PeriodBounds(w.asked, today)[1]}]
             Like(k) == /\ DOMAIN k = Fields /\ k.at = task[t].at /\ k.msg = task[t].msg
                        /\ k.kind = task[t].kind /\ k.sent = task[t].sent
  <2>1. Like(ahead)
    BY <1>2
  <2>2. Like(done)
    <3> HIDE DEF ahead
    <3>. QED
      BY <2>1
  <2>3. Goes(t, done) \/ BeginsRendering(t, done) \/ BeginsRendering(t, ahead)
    BY <1>3 DEF RefreshPeriod
  <2>4. t \in DOMAIN task
    BY DEF DeliveryInv, Shape
  <2>. HIDE DEF ahead, done, w
  <2>5. CASE Goes(t, done)
    BY <1>1, <2>2, <2>4, <2>5
  <2>6. CASE BeginsRendering(t, done)
    BY <2>2, <2>4, <2>6 DEF BeginsRendering
  <2>7. CASE BeginsRendering(t, ahead)
    BY <2>1, <2>4, <2>7 DEF BeginsRendering
  <2>. QED
    BY <2>3, <2>5, <2>6, <2>7
<1>4. ASSUME RefreshTeamPeriod(t) PROVE Goal
  <2>. DEFINE done == [task[t] EXCEPT !.work.from =
                          @ \cup {PeriodBounds(task[t].work.asked, today)[1]}]
              Like(k) == /\ DOMAIN k = Fields /\ k.at = task[t].at /\ k.msg = task[t].msg
                         /\ k.kind = task[t].kind /\ k.sent = task[t].sent
  <2>1. Like(done) /\ Like(task[t])
    BY <1>2
  <2>2. BeginsRendering(t, done) \/ BeginsRendering(t, task[t])
    BY <1>4 DEF RefreshTeamPeriod
  <2>3. t \in DOMAIN task
    BY DEF DeliveryInv, Shape
  <2>. HIDE DEF done
  <2>4. CASE BeginsRendering(t, done)
    BY <2>1, <2>3, <2>4 DEF BeginsRendering
  <2>5. CASE BeginsRendering(t, task[t])
    BY <2>1, <2>3, <2>5 DEF BeginsRendering
  <2>. QED
    BY <2>2, <2>4, <2>5
<1>5. ASSUME NEW first, SumsUp(t, first) PROVE Goal
  BY <1>2, <1>5 DEF SumsUp
<1>6. ASSUME SumEmployee(t) \/ SumTeam(t) \/ SumMonth(t) PROVE Goal
  <2>1. \E first : SumsUp(t, first)
    BY <1>6 DEF SumEmployee, SumTeam, SumMonth
  <2>. QED
    BY <1>5, <2>1
<1>7. ASSUME LabelRich(t) PROVE Goal
  <2>. DEFINE done == [task[t] EXCEPT !.work.rendering = "plain",
                          !.work.from = @ \cup {Label(task[t])[1]},
                          !.work.shown = Label(task[t])]
  <2>1. /\ DOMAIN done = Fields /\ done.at = task[t].at /\ done.msg = task[t].msg
        /\ done.kind = task[t].kind /\ done.sent = task[t].sent
    BY <1>2
  <2>2. BeginsRendering(t, done)
    BY <1>7 DEF LabelRich
  <2>3. t \in DOMAIN task
    BY DEF DeliveryInv, Shape
  <2>. HIDE DEF done
  <2>. QED
    BY <2>1, <2>2, <2>3 DEF BeginsRendering
<1>. QED
  BY <1>1, <1>3, <1>4, <1>6, <1>7

LEMMA ProducesPeriod ==
  ASSUME DeliveryInv, NEW t \in Tasks,
         RefreshPeriod(t) \/ RefreshTeamPeriod(t) \/ SumEmployee(t) \/ SumTeam(t) \/ SumMonth(t)
           \/ LabelRich(t)
  PROVE  DeliveryInv'
<1>1. /\ Moved(t, {"refresh", "sum", "label"})
      /\ task'[t].kind = task[t].kind /\ task'[t].sent = task[t].sent
      /\ task[t].at \in {"refresh", "sum", "label"} /\ section' = section /\ chat' = chat
  BY PeriodSteps
<1>2. HandlerOK(task[t])
  BY <1>1 DEF DeliveryInv, HandlersOK, EndedOK
<1>3. HandlerOK(task[t])'
  BY <1>1, <1>2 DEF Moved, HandlerOK, PeriodHandlerOK, Waits, Producing
<1>4. ScreensOK' /\ DOMAIN chat' = Slots
  BY <1>1 DEF DeliveryInv, Shape, ScreensOK, IsScreen
<1>. QED
  BY <1>1, <1>3, <1>4, Waiting DEF Moved, Waits, Producing

(* The screen is drawn.                                                    *)
LEMMA ProducesScreen ==
  ASSUME DeliveryInv, NEW t \in Tasks, LabelPlain(t)
  PROVE  DeliveryInv'
<1>1. task[t].at = "label" /\ section' = section /\ chat' = chat
  BY DEF LabelPlain
<1>2. HandlerOK(task[t])
  BY <1>1 DEF DeliveryInv, HandlersOK, EndedOK
<1>3. PICK own, prev, next, from :
        LET screen == [is |-> "screen", kind |-> task[t].kind,
                       scope |-> task[t].work.scope, shifts |-> task[t].work.shifts,
                       own |-> own, drawn |-> today, prev |-> prev, next |-> next]
        IN  Goes(t, [task[t] EXCEPT !.at = "send", !.work.from = from,
                                    !.rich = <<screen>>, !.plain = <<screen>>])
  BY DEF LabelPlain
<1>. DEFINE screen == [is |-> "screen", kind |-> task[t].kind,
                       scope |-> task[t].work.scope, shifts |-> task[t].work.shifts,
                       own |-> own, drawn |-> today, prev |-> prev, next |-> next]
<1>4. /\ Only(t) /\ DOMAIN task'[t] = Fields /\ task'[t].at = "send"
      /\ task'[t].msg = task[t].msg /\ task'[t].kind = task[t].kind /\ task'[t].sent = task[t].sent
      /\ task'[t].rich = <<screen>> /\ task'[t].plain = <<screen>>
  BY <1>2, <1>3 DEF Goes, Only, DeliveryInv, Shape, HandlerOK, Fields
<1>5. screen.is = "screen" /\ screen.kind = task[t].kind
  OBVIOUS
<1>. HIDE DEF screen
<1>6. /\ Len(task'[t].rich) = 1 /\ task'[t].rich[1] = screen
      /\ task'[t].plain[1] = screen
  BY <1>4
<1>7. HandlerOK(task[t])'
  BY <1>1, <1>2, <1>4, <1>5, <1>6 DEF HandlerOK, PeriodHandlerOK, IsScreen, Waits, Producing
<1>8. ScreensOK' /\ DOMAIN chat' = Slots
  BY <1>1 DEF DeliveryInv, Shape, ScreensOK, IsScreen
<1>. QED
  BY <1>1, <1>4, <1>7, <1>8, Waiting DEF Waits, Producing

GoodsSteps == {"look", "ask", "send"}

LEMMA EndsCallMoves ==
  ASSUME DeliveryInv, NEW t \in Tasks, DOMAIN task[t] = Fields, NEW listing,
         EndsCall(t, task[t], listing)
  PROVE  Moved(t, GoodsSteps)
BY DEF EndsCall, Goes, Moved, Only, DeliveryInv, Shape, Fields, GoodsSteps

LEMMA NextEndpointMoves ==
  ASSUME DeliveryInv, NEW t \in Tasks, DOMAIN task[t] = Fields, task[t].at = "ask",
         NEW forbidden, NEW heard, NextEndpoint(t, task[t], forbidden, heard)
  PROVE  Moved(t, GoodsSteps)
<1>1. CASE \E listing : EndsCall(t, task[t], listing)
  BY <1>1, EndsCallMoves
<1>2. CASE Goes(t, [task[t] EXCEPT !.work.attempt = @ + 1, !.work.page = 1,
                                   !.work.pages = NoPages, !.work.forbidden = forbidden])
  BY <1>2 DEF Goes, Moved, Only, DeliveryInv, Shape, Fields, GoodsSteps
<1>. QED
  BY <1>1, <1>2 DEF NextEndpoint

LEMMA AskBatchMoves ==
  ASSUME DeliveryInv, NEW t \in Tasks, DOMAIN task[t] = Fields, AskBatch(t)
  PROVE  Moved(t, GoodsSteps)
<1>1. task[t].at = "ask"
  BY DEF AskBatch
<1>2. \/ \E listing : EndsCall(t, task[t], listing)
      \/ \E forbidden, heard : NextEndpoint(t, task[t], forbidden, heard)
      \/ \E page, pages : Goes(t, [task[t] EXCEPT !.work.page = page, !.work.pages = pages])
  BY DEF AskBatch, ProductsCome
<1>3. ASSUME NEW page, NEW pages,
             Goes(t, [task[t] EXCEPT !.work.page = page, !.work.pages = pages])
      PROVE  Moved(t, GoodsSteps)
  BY <1>1, <1>3 DEF Goes, Moved, Only, DeliveryInv, Shape, Fields, GoodsSteps
<1>. QED
  BY <1>1, <1>2, <1>3, EndsCallMoves, NextEndpointMoves

LEMMA OtherSteps ==
  ASSUME DeliveryInv, NEW t \in Tasks,
         LookInCache(t) \/ AskBatch(t) \/ FindPlace(t) \/ TellProgress(t) \/ TellAgain(t)
  PROVE  /\ Moved(t, {"look", "ask", "progress", "again", "send"})
         /\ task[t].at \in {"look", "ask", "place", "progress", "again"}
         /\ UNCHANGED <<section, chat>>
<1>1. /\ task[t].at \in {"look", "ask", "place", "progress", "again"}
      /\ UNCHANGED <<section, chat>>
  BY DEF LookInCache, AskBatch, FindPlace, TellProgress, TellAgain
<1>2. DOMAIN task[t] = Fields
  BY <1>1 DEF DeliveryInv, HandlersOK, EndedOK, HandlerOK
<1>3. ASSUME LookInCache(t) PROVE Moved(t, GoodsSteps)
  <2>1. CASE Goes(t, [task[t] EXCEPT !.at = "ask"])
    BY <1>2, <2>1 DEF Goes, Moved, Only, DeliveryInv, Shape, Fields, GoodsSteps
  <2>2. CASE EndsCall(t, task[t], cache)
    <3>1. PICK listing : listing = cache
      OBVIOUS
    <3>2. EndsCall(t, task[t], listing)
      BY <2>2, <3>1
    <3>. QED
      BY <1>2, <3>2, EndsCallMoves
  <2>. QED
    BY <1>3, <2>1, <2>2 DEF LookInCache
<1>4. ASSUME AskBatch(t) PROVE Moved(t, GoodsSteps)
  BY <1>2, <1>4, AskBatchMoves
<1>5. ASSUME FindPlace(t) \/ TellProgress(t) \/ TellAgain(t)
      PROVE  Moved(t, {"look", "ask", "progress", "again", "send"})
  BY ZenonT(60), <1>2, <1>5 DEF FindPlace, TellProgress, TellAgain, Goes, Moved, Only,
     DeliveryInv, Shape, Fields
<1>6. Moved(t, GoodsSteps) => Moved(t, {"look", "ask", "progress", "again", "send"})
  BY DEF Moved, GoodsSteps
<1>. QED
  BY <1>1, <1>3, <1>4, <1>5, <1>6

LEMMA ProducesOther ==
  ASSUME DeliveryInv, NEW t \in Tasks,
         LookInCache(t) \/ AskBatch(t) \/ FindPlace(t) \/ TellProgress(t) \/ TellAgain(t)
  PROVE  DeliveryInv'
<1>1. /\ Moved(t, {"look", "ask", "progress", "again", "send"})
      /\ task[t].at \in {"look", "ask", "place", "progress", "again"}
      /\ section' = section /\ chat' = chat
  BY OtherSteps
<1>2. section # "period"
  BY <1>1 DEF DeliveryInv, HandlersOK, EndedOK, HandlerOK, PeriodHandlerOK
<1>3. HandlerOK(task[t])'
  BY <1>1, <1>2 DEF Moved, HandlerOK, Waits, Producing
<1>4. ScreensOK' /\ DOMAIN chat' = Slots
  BY <1>1 DEF DeliveryInv, Shape, ScreensOK, IsScreen
<1>. QED
  BY <1>1, <1>3, <1>4, Waiting DEF Moved, Waits, Producing

-----------------------------------------------------------------------------
(* The delivery.                                                           *)

LEMMA SendPartInductive ==
  ASSUME DeliveryInv, NEW t \in Tasks, SendPart(t)
  PROVE  DeliveryInv'
<1>0. task[t].at = "send" /\ section' = section
  BY DEF SendPart
<1>1. HandlerOK(task[t])
  BY <1>0 DEF DeliveryInv, HandlersOK, EndedOK
<1>2. /\ Only(t) /\ DOMAIN task'[t] = Fields /\ task'[t].msg = task[t].msg
      /\ task'[t].kind = task[t].kind /\ task'[t].rich = task[t].rich /\ task'[t].plain = task[t].plain
      /\ \/ task'[t].at = "fall" /\ chat' = chat
         \/ /\ task'[t].sent = task[t].sent + 1
            /\ task'[t].at = IF task[t].sent + 1 = Len(task[t].rich) THEN "delete" ELSE "send"
            /\ IF section = "period"
               THEN \E m \in FreeSlots : Shows(m, task[t].rich[task[t].sent + 1])
               ELSE chat' = chat
  BY ZenonT(60), <1>0, <1>1 DEF SendPart, Goes, Only, DeliveryInv, Shape, HandlerOK, Fields
<1>3. section = "period" => /\ task[t].sent + 1 = Len(task[t].rich)
                            /\ IsScreen(task[t].rich[task[t].sent + 1])
  <2> SUFFICES ASSUME section = "period"
               PROVE  /\ task[t].sent + 1 = Len(task[t].rich)
                      /\ IsScreen(task[t].rich[task[t].sent + 1])
    OBVIOUS
  <2>1. task[t].sent = 0 /\ Len(task[t].rich) = 1 /\ IsScreen(task[t].rich[1])
    BY <1>0, <1>1 DEF HandlerOK, PeriodHandlerOK
  <2>2. task[t].sent + 1 = 1
    BY <2>1
  <2>. QED
    BY <2>1, <2>2
<1>4. HandlerOK(task[t])'
  BY <1>0, <1>1, <1>2, <1>3 DEF HandlerOK, PeriodHandlerOK, Waits, Producing, IsScreen
<1>5. task'[t].at \in Waits /\ task[t].at \in Waits
  BY <1>0, <1>2 DEF Waits
<1>6. CASE chat' = chat
  <2>1. ScreensOK' /\ DOMAIN chat' = Slots
    BY <1>0, <1>6 DEF DeliveryInv, Shape, ScreensOK, IsScreen
  <2>. QED
    BY <1>0, <1>2, <1>4, <1>5, <1>6, <2>1, Waiting
<1>7. CASE section = "period" /\ \E m \in FreeSlots : Shows(m, task[t].rich[task[t].sent + 1])
  <2>1. PICK m \in FreeSlots : Shows(m, task[t].rich[task[t].sent + 1])
    BY <1>7
  <2>2. PICK part : part = task[t].rich[task[t].sent + 1]
    OBVIOUS
  <2>3. Shows(m, part) /\ IsScreen(part)
    BY <1>3, <1>7, <2>1, <2>2
  <2>4. /\ DOMAIN chat' = Slots /\ ScreensOK'
        /\ \A n \in Slots : chat'[n] = chat[n] \/ (n = m /\ chat'[n] = part)
    BY <1>0, <2>3, ShowsOne DEF DeliveryInv
  <2>5. part # Frame
    BY <2>3 DEF IsScreen, Frame
  <2>. QED
    BY <1>0, <1>2, <1>4, <1>5, <2>4, <2>5, Waiting
<1>. QED
  BY <1>2, <1>6, <1>7

LEMMA DeleteFrameInductive ==
  ASSUME DeliveryInv, NEW t \in Tasks, DeleteFrame(t)
  PROVE  DeliveryInv'
<1>1. /\ task[t].at = "delete" /\ section' = section
      /\ Shows(task[t].msg, Nothing) /\ Returns(t, task[t])
  BY DEF DeleteFrame
<1>2. HandlerOK(task[t])
  BY <1>1 DEF DeliveryInv, HandlersOK, EndedOK
<1>3. Only(t) /\ EndedOK(task[t])'
  <2>1. task[t].sent = Len(task[t].rich)
    BY <1>1, <1>2 DEF HandlerOK
  <2>2. Only(t) /\ task'[t] = [Idle EXCEPT !.lost = FALSE]
    BY <1>1, <2>1 DEF Returns, Goes, Only, DeliveryInv, Shape
  <2>. QED
    BY <2>2 DEF EndedOK, Idle
<1>4. Nothing.is # "screen" /\ Nothing # Frame
  BY DEF Nothing, Frame
<1>5. DOMAIN chat' = Slots /\ ScreensOK'
  BY <1>1, <1>4, ShowsOne DEF DeliveryInv
<1>6. \A n \in Slots : chat'[n] = Frame => chat[n] = Frame /\ n # task[t].msg
  BY <1>1, <1>4 DEF Shows, DeliveryInv, Shape
<1>. QED
  BY <1>1, <1>3, <1>5, <1>6, Leaving

LEMMA EditPlainInductive ==
  ASSUME DeliveryInv, NEW t \in Tasks, EditPlain(t)
  PROVE  DeliveryInv'
<1>. DEFINE k == [task[t] EXCEPT !.told = 1, !.at = "rest"]
            shown == IF section = "period" THEN task[t].plain[1] ELSE Plain
<1>1. task[t].at = "fall" /\ section' = section
  BY DEF EditPlain
<1>2. HandlerOK(task[t])
  BY <1>1 DEF DeliveryInv, HandlersOK, EndedOK
<1>3. /\ DOMAIN k = Fields /\ k.at = "rest" /\ k.told = 1 /\ k.msg = task[t].msg
      /\ k.plain = task[t].plain /\ k.kind = task[t].kind
  BY <1>2 DEF HandlerOK, Fields
<1>4. Nothing.is # "screen" /\ Nothing # Frame /\ Plain.is # "screen" /\ Plain # Frame
  BY DEF Nothing, Plain, Frame
<1>5. IsScreen(shown) \/ shown = Plain
  BY <1>1, <1>2 DEF HandlerOK, PeriodHandlerOK
<1>6. shown # Frame /\ (shown.is = "screen" => IsScreen(shown))
  BY <1>4, <1>5 DEF IsScreen, Frame
<1>. HIDE DEF shown
<1>7. \/ /\ Shows(task[t].msg, shown)
         /\ IF Len(task[t].plain) = 1 THEN Returns(t, k) ELSE Goes(t, k)
      \/ Shows(task[t].msg, Nothing) /\ Raises(t)
  BY <1>3 DEF EditPlain, shown
<1>8. Only(t) /\ (EndedOK(task[t])' \/ HandlerOK(task[t])')
  <2>1. CASE Len(task[t].plain) = 1 /\ Returns(t, k)
    <3>1. Only(t) /\ task'[t] = [Idle EXCEPT !.lost = FALSE]
      BY <1>3, <2>1 DEF Returns, Goes, Only, DeliveryInv, Shape
    <3>. QED
      BY <3>1 DEF EndedOK, Idle
  <2>2. CASE Goes(t, k)
    <3>1. Only(t) /\ task'[t] = k
      BY <2>2 DEF Goes, Only, DeliveryInv, Shape
    <3>. HIDE DEF k
    <3>. QED
      BY <1>1, <1>2, <1>3, <3>1 DEF HandlerOK, PeriodHandlerOK, Producing
  <2>3. CASE Raises(t)
    BY <2>3 DEF Raises, Goes, Only, DeliveryInv, Shape, EndedOK, Idle
  <2>. QED
    BY <1>7, <2>1, <2>2, <2>3
<1>9. ASSUME NEW what, Shows(task[t].msg, what), what # Frame, what.is = "screen" => IsScreen(what)
      PROVE  /\ DOMAIN chat' = Slots /\ ScreensOK'
             /\ \A n \in Slots : chat'[n] = Frame => chat[n] = Frame /\ n # task[t].msg
  <2>1. DOMAIN chat' = Slots /\ ScreensOK'
    BY <1>1, <1>9, ShowsOne DEF DeliveryInv
  <2>. QED
    BY <1>9, <2>1 DEF Shows, DeliveryInv, Shape
<1>10. /\ DOMAIN chat' = Slots /\ ScreensOK'
       /\ \A n \in Slots : chat'[n] = Frame => chat[n] = Frame /\ n # task[t].msg
  BY <1>4, <1>6, <1>7, <1>9
<1>. QED
  BY <1>1, <1>8, <1>10, Leaving

LEMMA AnswerPlainInductive ==
  ASSUME DeliveryInv, NEW t \in Tasks, AnswerPlain(t)
  PROVE  DeliveryInv'
<1>. DEFINE k == [task[t] EXCEPT !.told = @ + 1]
<1>1. task[t].at = "rest" /\ section' = section /\ chat' = chat
  BY DEF AnswerPlain
<1>2. HandlerOK(task[t])
  BY <1>1 DEF DeliveryInv, HandlersOK, EndedOK, Waits, Producing
<1>3. DOMAIN k = Fields /\ k.at = "rest" /\ k.plain = task[t].plain
  BY <1>1, <1>2 DEF HandlerOK, Fields
<1>4. (k.told = Len(k.plain) /\ Returns(t, k)) \/ Goes(t, k) \/ Raises(t)
  BY <1>3 DEF AnswerPlain
<1>. HIDE DEF k
<1>5. Only(t) /\ (EndedOK(task[t])' \/ HandlerOK(task[t])')
  <2>1. CASE k.told = Len(k.plain) /\ Returns(t, k)
    <3>1. Only(t) /\ task'[t] = [Idle EXCEPT !.lost = FALSE]
      BY <2>1 DEF Returns, Goes, Only, DeliveryInv, Shape
    <3>. QED
      BY <3>1 DEF EndedOK, Idle
  <2>2. CASE Goes(t, k)
    <3>1. Only(t) /\ task'[t] = k
      BY <2>2 DEF Goes, Only, DeliveryInv, Shape
    <3>2. section = "period" => k.kind = task[t].kind
      BY <1>2 DEF k, HandlerOK, Fields
    <3>. QED
      BY <1>1, <1>2, <1>3, <3>1, <3>2 DEF HandlerOK, PeriodHandlerOK, Producing
  <2>3. CASE Raises(t)
    BY <2>3 DEF Raises, Goes, Only, DeliveryInv, Shape, EndedOK, Idle
  <2>. QED
    BY <1>4, <2>1, <2>2, <2>3
<1>6. ScreensOK' /\ DOMAIN chat' = Slots
  BY <1>1 DEF DeliveryInv, Shape, ScreensOK, IsScreen
<1>. QED
  BY <1>1, <1>5, <1>6, Leaving DEF Waits, Producing

-----------------------------------------------------------------------------
(* What changes no handler, or only what one remembers of the stock.       *)

LEMMA StillInductive ==
  ASSUME DeliveryInv, UNCHANGED <<section, chat, task>>
  PROVE  DeliveryInv'
BY DEF DeliveryInv, Shape, HandlersOK, EndedOK, HandlerOK, PeriodHandlerOK, IsScreen, ScreensOK,
   FramesOK, Frame, Waits, Producing

LEMMA RestockInductive ==
  ASSUME DeliveryInv, Restock
  PROVE  DeliveryInv'
<1>1. /\ section = "goods" /\ section' = section /\ chat' = chat
      /\ task' = [t \in Tasks |-> IF task[t].at = "ask" THEN [task[t] EXCEPT !.work.moved = TRUE]
                                  ELSE task[t]]
  BY DEF Restock
<1>2. ASSUME NEW t \in Tasks
      PROVE  /\ task'[t].at = task[t].at
             /\ task[t].at # "idle" => task'[t].msg = task[t].msg
             /\ EndedOK(task[t])' \/ HandlerOK(task[t])'
  <2>1. CASE task[t].at = "ask"
    <3>1. HandlerOK(task[t])
      BY <2>1 DEF DeliveryInv, HandlersOK, EndedOK
    <3>2. /\ DOMAIN task'[t] = Fields /\ task'[t].at = "ask" /\ task'[t].msg = task[t].msg
      BY <1>1, <2>1, <3>1 DEF HandlerOK, Fields
    <3>. QED
      BY <1>1, <2>1, <3>2 DEF HandlerOK, Waits, Producing
  <2>2. CASE task[t].at # "ask"
    <3>1. task'[t] = task[t]
      BY <1>1, <2>2
    <3>. QED
      BY <1>1, <3>1 DEF DeliveryInv, HandlersOK, EndedOK, HandlerOK
  <2>. QED
    BY <2>1, <2>2
<1>3. HandlersOK' /\ ScreensOK'
  BY <1>1, <1>2 DEF HandlersOK, ScreensOK
<1>4. FramesOK'
  <2> SUFFICES ASSUME NEW m \in Slots, chat[m] = Frame
               PROVE  \E t \in Tasks : task'[t].at \in Waits /\ task'[t].msg = m
    BY <1>1 DEF FramesOK, Frame, Waits, Producing
  <2>1. PICK t \in Tasks : task[t].at \in Waits /\ task[t].msg = m
    BY DEF DeliveryInv, FramesOK
  <2>. QED
    BY <1>2, <2>1 DEF Waits, Producing
<1>. QED
  BY <1>1, <1>3, <1>4 DEF DeliveryInv, Shape

LEMMA DeliveryInductive ==
  ASSUME DeliveryInv, [Next]_vars
  PROVE  DeliveryInv'
<1>1. ASSUME NEW t \in Tasks, Step(t) PROVE DeliveryInv'
  <2>1. CASE \/ PressGoods(t) \/ PressGrade(t) \/ \E m \in Slots : PressButton(t, m)
             \/ \E kind \in Kinds[section] : PressMenu(t, kind)
    BY <2>1, PressInductive
  <2>2. CASE \E u \in Tasks : PressTwice(t, u)
    BY <2>2, PressTwiceInductive
  <2>3. CASE ShowFrame(t) \/ Animate(t) \/ ProducerFails(t)
    BY <2>3, FrameInductive
  <2>4. CASE RefreshPeriod(t) \/ RefreshTeamPeriod(t) \/ SumEmployee(t) \/ SumTeam(t) \/ SumMonth(t)
               \/ LabelRich(t)
    BY <2>4, ProducesPeriod
  <2>5. CASE LabelPlain(t)
    BY <2>5, ProducesScreen
  <2>6. CASE LookInCache(t) \/ AskBatch(t) \/ FindPlace(t) \/ TellProgress(t) \/ TellAgain(t)
    BY <2>6, ProducesOther
  <2>7. CASE SendPart(t) \/ DeleteFrame(t) \/ EditPlain(t) \/ AnswerPlain(t)
    BY <2>7, SendPartInductive, DeleteFrameInductive, EditPlainInductive, AnswerPlainInductive
  <2>. QED
    BY <1>1, <2>1, <2>2, <2>3, <2>4, <2>5, <2>6, <2>7 DEF Step
<1>2. CASE Midnight \/ CacheExpires \/ \E lines \in Lines : SaveRules(lines)
  <2>1. UNCHANGED <<section, chat, task>>
    BY <1>2 DEF Midnight, CacheExpires, SaveRules
  <2>. QED
    BY <2>1, StillInductive
<1>3. CASE Restock
  BY <1>3, RestockInductive
<1>4. CASE UNCHANGED vars
  BY <1>4, StillInductive DEF vars
<1>. QED
  BY <1>1, <1>2, <1>3, <1>4 DEF Next

(* Whatever is refused, fails or is pressed twice, nobody is left before a *)
(* frame and nothing is left out.                                          *)
THEOREM DeliveredAlways == Spec => []Delivered
<1>1. Init => DeliveryInv
  <2> SUFFICES ASSUME Init PROVE DeliveryInv
    OBVIOUS
  <2>1. chat = [m \in Slots |-> Nothing] /\ task = [t \in Tasks |-> Idle]
    BY DEF Init
  <2>2. Nothing # Frame /\ Nothing.is # "screen" /\ EndedOK(Idle)
    BY DEF Nothing, Frame, EndedOK, Idle
  <2>. QED
    BY <2>1, <2>2 DEF DeliveryInv, Shape, HandlersOK, ScreensOK, FramesOK
<1>2. DeliveryInv /\ [Next]_vars => DeliveryInv'
  BY DeliveryInductive
<1>3. DeliveryInv => Delivered
  <2> SUFFICES ASSUME DeliveryInv PROVE Delivered
    OBVIOUS
  <2>1. \A t \in Tasks : task[t].at = "idle" => ~ task[t].lost
    BY DEF DeliveryInv, HandlersOK, EndedOK, HandlerOK, Waits, Producing
  <2>2. \A t \in Tasks : task[t].at \in Waits => Running(t) /\ task[t].at # "frame"
    BY DEF Running, Waits, Producing
  <2>. QED
    BY <2>1, <2>2 DEF DeliveryInv, FramesOK, Delivered
<1>. QED
  BY <1>1, <1>2, <1>3, PTL DEF Spec

-----------------------------------------------------------------------------
(* The calendar.                                                           *)

LEMMA Quarters ==
  ASSUME NEW y \in Int
  PROVE  y \div 4 \in Int /\ 4 * (y \div 4) <= y /\ y <= 4 * (y \div 4) + 3
OBVIOUS

LEMMA Centuries ==
  ASSUME NEW y \in Int
  PROVE  y \div 100 \in Int /\ 100 * (y \div 100) <= y /\ y <= 100 * (y \div 100) + 99
OBVIOUS

LEMMA Cycles ==
  ASSUME NEW y \in Int
  PROVE  y \div 400 \in Int /\ 400 * (y \div 400) <= y /\ y <= 400 * (y \div 400) + 399
OBVIOUS

LEMMA LeapsGrow ==
  ASSUME NEW y \in Int
  PROVE  Leaps(y) \in Int /\ Leaps(y) <= Leaps(y + 1) /\ Leaps(y + 1) <= Leaps(y) + 1
BY DEF Leaps

(* Of 400 years 97 are leap years.                                         *)
LEMMA LeapsEven ==
  ASSUME NEW y \in Int
  PROVE  1164 * y - 8400 <= 4800 * Leaps(y) /\ 4800 * Leaps(y) <= 1164 * y + 4800
<1>. DEFINE a == y \div 4
            b == y \div 100
            c == y \div 400
            l == Leaps(y)
<1>1. a \in Int /\ 4 * a <= y /\ y <= 4 * a + 3
  BY Quarters
<1>2. b \in Int /\ 100 * b <= y /\ y <= 100 * b + 99
  BY Centuries
<1>3. c \in Int /\ 400 * c <= y /\ y <= 400 * c + 399
  BY Cycles
<1>4. l = a - b + c
  BY DEF Leaps
<1>. HIDE DEF a, b, c, l
<1>5. 1164 * y - 8400 <= 4800 * l /\ 4800 * l <= 1164 * y + 4800
  BY <1>1, <1>2, <1>3, <1>4
<1>. QED
  BY <1>5 DEF l

(* The first day of a year's m-th month, m from 0.                         *)
DaysBefore(m) == BeforeMonth[m + 1]
Start(y, m) == 365 * (y - 1) + DaysBefore(m) + (IF m >= 2 THEN Leaps(y) ELSE Leaps(y - 1))

LEMMA FirstOfIs ==
  ASSUME NEW y \in Int, NEW m \in 0 .. 11, NEW i, i = 12 * y + m
  PROVE  FirstOf(i) = Start(y, m)
<1>1. i \div 12 = y /\ i % 12 = m
  OBVIOUS
<1>. QED
  BY <1>1 DEF FirstOf, Start, DaysBefore

LEMMA BeforeIs ==
  ASSUME NEW m \in 0 .. 11
  PROVE  /\ DaysBefore(m) \in Int /\ 0 <= DaysBefore(m) /\ DaysBefore(m) <= 334
         /\ 146097 * m - 9000 <= 4800 * DaysBefore(m) /\ 4800 * DaysBefore(m) <= 146097 * m + 3000
<1>. DEFINE n == m + 1
<1>1. n \in 1 .. 12
  OBVIOUS
<1>2. /\ BeforeMonth[n] \in Int /\ 0 <= BeforeMonth[n] /\ BeforeMonth[n] <= 334
      /\ 146097 * n - 155097 <= 4800 * BeforeMonth[n]
      /\ 4800 * BeforeMonth[n] <= 146097 * n - 143097
  <2> HIDE DEF n
  <2>. QED
    BY <1>1 DEF BeforeMonth
<1>. QED
  BY <1>2 DEF DaysBefore

LEMMA MonthSplits ==
  ASSUME NEW i \in Int
  PROVE  \E y \in Int, m \in 0 .. 11 : i = 12 * y + m
<1>1. i = 12 * (i \div 12) + (i % 12) /\ (i \div 12) \in Int /\ (i % 12) \in 0 .. 11
  OBVIOUS
<1>. QED
  BY <1>1

(* Months have 28 to 31 days.                                              *)
LEMMA MonthLength ==
  ASSUME NEW i \in Int
  PROVE  FirstOf(i) \in Int /\ FirstOf(i + 1) - FirstOf(i) \in 28 .. 31
<1>1. PICK y \in Int, m \in 0 .. 11 : i = 12 * y + m
  BY MonthSplits
<1>2. PICK old \in Int, new \in Int :
        old = Leaps(y - 1) /\ new = Leaps(y) /\ old <= new /\ new <= old + 1
  <2>1. y - 1 \in Int /\ (y - 1) + 1 = y
    OBVIOUS
  <2>. QED
    BY <2>1, LeapsGrow
<1>3. /\ DaysBefore(m) \in Int /\ 0 <= DaysBefore(m) /\ DaysBefore(m) <= 334
      /\ FirstOf(i) = 365 * (y - 1) + DaysBefore(m) + (IF m >= 2 THEN new ELSE old)
  <2>1. FirstOf(i) = Start(y, m)
    BY <1>1, FirstOfIs
  <2>. QED
    BY <1>2, <2>1, BeforeIs DEF Start
<1>4. CASE m = 11
  <2>1. PICK z \in Int, n \in 0 .. 11 : z = y + 1 /\ n = 0
    OBVIOUS
  <2>2. i + 1 = 12 * z + n /\ z - 1 = y
    BY <1>1, <1>4, <2>1
  <2>3. FirstOf(i + 1) = Start(z, n)
    BY <2>2, FirstOfIs
  <2>4. DaysBefore(n) = 0 /\ DaysBefore(m) = 334
    BY <1>4, <2>1 DEF DaysBefore, BeforeMonth
  <2>5. FirstOf(i + 1) = 365 * y + new
    BY <1>2, <2>1, <2>2, <2>3, <2>4 DEF Start
  <2>6. FirstOf(i) = 365 * (y - 1) + 334 + new
    BY <1>2, <1>3, <1>4, <2>4
  <2>. QED
    BY <1>2, <2>5, <2>6
<1>5. CASE m \in 0 .. 10
  <2>1. PICK n \in 0 .. 11 : n = m + 1
    BY <1>5
  <2>2. i + 1 = 12 * y + n
    BY <1>1, <2>1
  <2>3. /\ DaysBefore(n) \in Int
        /\ FirstOf(i + 1) = 365 * (y - 1) + DaysBefore(n) + (IF n >= 2 THEN new ELSE old)
    <3>1. FirstOf(i + 1) = Start(y, n)
      BY <2>2, FirstOfIs
    <3>. QED
      BY <1>2, <3>1, BeforeIs DEF Start
  <2>4. DaysBefore(n) - DaysBefore(m) \in 28 .. 31 /\ (m = 1 => DaysBefore(n) - DaysBefore(m) = 28)
    BY <1>5, <2>1 DEF DaysBefore, BeforeMonth
  <2>5. PICK l \in Int, r \in Int :
          /\ FirstOf(i) = 365 * (y - 1) + DaysBefore(m) + l
          /\ FirstOf(i + 1) = 365 * (y - 1) + DaysBefore(n) + r
          /\ IF m = 1 THEN r - l \in 0 .. 1 ELSE r = l
    <3>1. CASE m = 1
      BY <1>2, <1>3, <2>1, <2>3, <3>1
    <3>2. CASE m >= 2
      BY <1>2, <1>3, <2>1, <2>3, <3>2
    <3>3. CASE m = 0
      BY <1>2, <1>3, <2>1, <2>3, <3>3
    <3>. QED
      BY <3>1, <3>2, <3>3
  <2>6. FirstOf(i) \in Int /\ FirstOf(i + 1) - FirstOf(i) = (DaysBefore(n) - DaysBefore(m)) + (r - l)
    BY <1>3, <2>3, <2>5
  <2>. QED
    BY <2>4, <2>5, <2>6
<1>. QED
  BY <1>4, <1>5

(* Later months begin later, by at least a day for each month.             *)
LEMMA MonthsApart ==
  ASSUME NEW i \in Int, NEW n \in Nat
  PROVE  FirstOf(i) + n <= FirstOf(i + n)
<1> DEFINE T == {k \in Nat : FirstOf(i) + k <= FirstOf(i + k)}
<1>1. 0 \in T
  <2>1. FirstOf(i) \in Int
    BY MonthLength
  <2>2. i + 0 = i
    OBVIOUS
  <2>3. FirstOf(i) + 0 <= FirstOf(i + 0)
    BY <2>1, <2>2
  <2>. QED
    BY <2>3
<1>2. ASSUME NEW k \in Nat, k \in T PROVE k + 1 \in T
  <2>1. FirstOf(i) \in Int /\ FirstOf(i + k) \in Int /\ FirstOf((i + k) + 1) - FirstOf(i + k) \in 28 .. 31
        /\ FirstOf((i + k) + 1) \in Int
    <3>1. i + k \in Int /\ (i + k) + 1 \in Int
      OBVIOUS
    <3>. QED
      BY <3>1, MonthLength
  <2>2. (i + k) + 1 = i + (k + 1)
    OBVIOUS
  <2>3. FirstOf(i) + (k + 1) <= FirstOf(i + (k + 1))
    BY <1>2, <2>1, <2>2
  <2>. QED
    BY <2>3
<1>3. n \in T
  <2> HIDE DEF T
  <2>. QED
    BY <1>1, <1>2, Induct
<1>. QED
  BY <1>3

LEMMA FirstOfGrows ==
  ASSUME NEW i \in Int, NEW j \in Int
  PROVE  /\ i < j <=> FirstOf(i) < FirstOf(j)
         /\ FirstOf(i) = FirstOf(j) => i = j
<1>1. FirstOf(i) \in Int /\ FirstOf(j) \in Int
  BY MonthLength
<1>2. i < j => FirstOf(i) < FirstOf(j)
  <2> SUFFICES ASSUME i < j PROVE FirstOf(i) < FirstOf(j)
    OBVIOUS
  <2>1. j - i \in Nat /\ j - i > 0 /\ i + (j - i) = j
    OBVIOUS
  <2>2. FirstOf(i) + (j - i) <= FirstOf(i + (j - i))
    BY <2>1, MonthsApart
  <2>. QED
    BY <1>1, <2>1, <2>2
<1>3. j < i => FirstOf(j) < FirstOf(i)
  <2> SUFFICES ASSUME j < i PROVE FirstOf(j) < FirstOf(i)
    OBVIOUS
  <2>1. i - j \in Nat /\ i - j > 0 /\ j + (i - j) = i
    OBVIOUS
  <2>2. FirstOf(j) + (i - j) <= FirstOf(j + (i - j))
    BY <2>1, MonthsApart
  <2>. QED
    BY <1>1, <2>1, <2>2
<1>. QED
  BY <1>1, <1>2, <1>3

(* The first of a month is near where equal months would put it.           *)
LEMMA EvenMonths ==
  ASSUME NEW i \in Int
  PROVE  146097 * i - 140000 <= 4800 * FirstOf(i + 12) /\ 4800 * FirstOf(i + 12) <= 146097 * i + 140000
<1>1. PICK y \in Int, m \in 0 .. 11 : i = 12 * y + m
  BY MonthSplits
<1>2. PICK z \in Int : z = y + 1
  OBVIOUS
<1>3. i + 12 = 12 * z + m /\ z - 1 = y
  BY <1>1, <1>2
<1>4. PICK old \in Int, new \in Int :
        old = Leaps(y) /\ new = Leaps(z) /\ old <= new /\ new <= old + 1
  <2>1. z \in Int /\ z = y + 1
    BY <1>2
  <2>2. Leaps(z) \in Int
    BY LeapsGrow
  <2>. QED
    BY <2>1, <2>2, LeapsGrow
<1>5. 1164 * y - 8400 <= 4800 * old /\ 4800 * old <= 1164 * y + 4800
  BY <1>4, LeapsEven
<1>6. /\ DaysBefore(m) \in Int /\ 0 <= DaysBefore(m) /\ DaysBefore(m) <= 334
      /\ FirstOf(i + 12) = 365 * y + DaysBefore(m) + (IF m >= 2 THEN new ELSE old)
  <2>1. FirstOf(i + 12) = Start(z, m)
    BY <1>3, FirstOfIs
  <2>. QED
    BY <1>3, <1>4, <2>1, BeforeIs DEF Start
<1>7. PICK l \in Int : FirstOf(i + 12) = 365 * y + DaysBefore(m) + l /\ old <= l /\ l <= old + 1
  <2>1. CASE m >= 2
    BY <1>4, <1>6, <2>1
  <2>2. CASE ~ (m >= 2)
    BY <1>4, <1>6, <2>2
  <2>. QED
    BY <2>1, <2>2
<1>8. 146097 * m - 9000 <= 4800 * DaysBefore(m) /\ 4800 * DaysBefore(m) <= 146097 * m + 3000
  BY BeforeIs
<1>. QED
  BY <1>1, <1>5, <1>6, <1>7, <1>8

(* The month of a day is the one it is in.                                 *)
LEMMA Even ==
  ASSUME NEW d \in Int
  PROVE  /\ d \div 146097 \in Int /\ d % 146097 \in Int /\ 0 <= d % 146097 /\ d % 146097 < 146097
         /\ d = 146097 * (d \div 146097) + (d % 146097)
OBVIOUS

LEMMA EvenPart ==
  ASSUME NEW r \in Int
  PROVE  /\ r \div 146097 \in Int
         /\ 146097 * (r \div 146097) <= r /\ r < 146097 * (r \div 146097) + 146097
OBVIOUS

LEMMA MonthOfIs ==
  ASSUME NEW d \in Int
  PROVE  MonthOf(d) \in Int /\ FirstOf(MonthOf(d)) <= d /\ d < FirstOf(MonthOf(d) + 1)
<1> DEFINE q == d \div 146097
           r == d % 146097
           e == (4800 * r) \div 146097
           near == 4800 * q + e + 12
<1>1. q \in Int /\ r \in Int /\ 0 <= r /\ r < 146097 /\ d = 146097 * q + r
  BY Even
<1>2. e \in Int /\ 146097 * e <= 4800 * r /\ 4800 * r < 146097 * e + 146097
  <2>1. 4800 * r \in Int
    BY <1>1
  <2> HIDE DEF r
  <2>. QED
    BY <2>1, EvenPart
<1>3. MonthOf(d) = CHOOSE i \in (near - 1) .. (near + 1) : FirstOf(i) <= d /\ d < FirstOf(i + 1)
  BY DEF MonthOf
<1> HIDE DEF q, r, e
<1>4. near \in Int
  BY <1>1, <1>2
<1>5. FirstOf(near - 1) <= d
  <2> DEFINE i == 4800 * q + e - 1
  <2>1. i \in Int /\ i + 12 = near - 1
    BY <1>1, <1>2
  <2>2. 4800 * FirstOf(near - 1) <= 146097 * i + 140000 /\ FirstOf(near - 1) \in Int
    <3> HIDE DEF i
    <3>1. i + 12 \in Int
      BY <2>1
    <3>. QED
      BY <2>1, <3>1, EvenMonths, MonthLength
  <2>3. 146097 * i <= 4800 * d - 146097
    BY <1>1, <1>2
  <2> HIDE DEF i, near
  <2>. QED
    BY <2>1, <2>2, <2>3
<1>6. d < FirstOf(near + 2)
  <2> DEFINE i == 4800 * q + e + 2
  <2>1. i \in Int /\ i + 12 = near + 2
    BY <1>1, <1>2
  <2>2. 146097 * i - 140000 <= 4800 * FirstOf(near + 2) /\ FirstOf(near + 2) \in Int
    <3> HIDE DEF i
    <3>1. i + 12 \in Int
      BY <2>1
    <3>. QED
      BY <2>1, <3>1, EvenMonths, MonthLength
  <2>3. 146097 * i > 4800 * d + 146097
    BY <1>1, <1>2
  <2> HIDE DEF i, near
  <2>. QED
    BY <2>1, <2>2, <2>3
<1> HIDE DEF near
<1>7. \E i \in (near - 1) .. (near + 1) : FirstOf(i) <= d /\ d < FirstOf(i + 1)
  <2>1. FirstOf(near) \in Int /\ FirstOf(near + 1) \in Int
    BY <1>4, MonthLength
  <2>2. (near - 1) + 1 = near /\ (near + 1) + 1 = near + 2
    BY <1>4
  <2>3. near - 1 \in (near - 1) .. (near + 1) /\ near \in (near - 1) .. (near + 1)
        /\ near + 1 \in (near - 1) .. (near + 1)
    BY <1>4
  <2>. QED
    BY <1>5, <1>6, <2>1, <2>2, <2>3
<1>. QED
  BY <1>3, <1>4, <1>7

LEMMA MonthOfUnique ==
  ASSUME NEW d \in Int, NEW i \in Int, FirstOf(i) <= d, d < FirstOf(i + 1)
  PROVE  MonthOf(d) = i
<1> DEFINE j == MonthOf(d)
<1>1. j \in Int /\ FirstOf(j) <= d /\ d < FirstOf(j + 1)
  BY MonthOfIs
<1> HIDE DEF j
<1>2. FirstOf(i) \in Int /\ FirstOf(i + 1) \in Int /\ FirstOf(j) \in Int /\ FirstOf(j + 1) \in Int
  BY <1>1, MonthLength
<1>3. j < i + 1
  BY <1>1, <1>2, FirstOfGrows
<1>4. i < j + 1
  BY <1>1, <1>2, FirstOfGrows
<1>5. i = j
  BY <1>1, <1>3, <1>4
<1>. QED
  BY <1>5 DEF j

-----------------------------------------------------------------------------
(* Periods.                                                                *)

PeriodKinds == {"day", "week", "month"}

(* A first day of a period of a kind, and that so many periods later.      *)
IsStart(kind, s) == kind \in PeriodKinds /\ s \in Int /\ KindStart(kind, s) = s

Later(kind, s, n) ==
  CASE kind = "day"   -> s + n
    [] kind = "week"  -> s + 7 * n
    [] kind = "month" -> AddMonths(s, n)

LEMMA MonthOfFirst ==
  ASSUME NEW i \in Int
  PROVE  MonthOf(FirstOf(i)) = i
<1>1. FirstOf(i) \in Int /\ FirstOf(i) <= FirstOf(i) /\ FirstOf(i) < FirstOf(i + 1)
  <2>1. FirstOf(i) \in Int /\ FirstOf(i + 1) - FirstOf(i) \in 28 .. 31 /\ FirstOf(i + 1) \in Int
    BY MonthLength
  <2>. QED
    BY <2>1
<1>. QED
  BY <1>1, MonthOfUnique

LEMMA Weeks ==
  ASSUME NEW d \in Int
  PROVE  /\ d % 7 \in Int /\ 0 <= d % 7 /\ d % 7 < 7 /\ (d - (d % 7)) % 7 = 0
         /\ \E n \in Int : d - (d % 7) = 7 * n
<1>1. d % 7 \in Int /\ 0 <= d % 7 /\ d % 7 < 7 /\ d = 7 * (d \div 7) + (d % 7) /\ (d \div 7) \in Int
  OBVIOUS
<1>2. d - (d % 7) = 7 * (d \div 7)
  BY <1>1
<1>3. (7 * (d \div 7)) % 7 = 0
  BY <1>1
<1>. QED
  BY <1>1, <1>2, <1>3

(* A day is in the period that begins with its first day.                  *)
LEMMA KindStartIs ==
  ASSUME NEW kind \in PeriodKinds, NEW d \in Int
  PROVE  /\ IsStart(kind, KindStart(kind, d))
         /\ KindStart(kind, d) <= d /\ d < Later(kind, KindStart(kind, d), 1)
<1>1. CASE kind = "day"
  BY <1>1 DEF IsStart, KindStart, Later
<1>2. CASE kind = "week"
  <2>. DEFINE r == d % 7
              s == d - r
  <2>1. r \in Int /\ 0 <= r /\ r < 7 /\ s % 7 = 0
    BY Weeks
  <2>2. KindStart(kind, d) = s /\ KindStart(kind, s) = s - (s % 7) /\ Later(kind, s, 1) = s + 7 * 1
    BY <1>2 DEF KindStart, Later
  <2>3. s \in Int /\ s <= d /\ d < s + 7 * 1
    BY <2>1
  <2>. HIDE DEF s, r
  <2>4. s - (s % 7) = s
    BY <2>1, <2>3
  <2>. QED
    BY <2>2, <2>3, <2>4 DEF IsStart
<1>3. CASE kind = "month"
  <2>. DEFINE i == MonthOf(d)
  <2>1. i \in Int /\ FirstOf(i) <= d /\ d < FirstOf(i + 1)
    BY MonthOfIs
  <2>. HIDE DEF i
  <2>2. MonthOf(FirstOf(i)) = i /\ FirstOf(i) \in Int
    BY <2>1, MonthOfFirst, MonthLength
  <2>3. KindStart(kind, d) = FirstOf(i) /\ KindStart(kind, FirstOf(i)) = FirstOf(i)
        /\ Later(kind, FirstOf(i), 1) = FirstOf(i + 1)
    BY <1>3, <2>2 DEF KindStart, Later, AddMonths, i
  <2>. QED
    BY <2>1, <2>2, <2>3 DEF IsStart
<1>. QED
  BY <1>1, <1>2, <1>3 DEF PeriodKinds

LEMMA WeekStart ==
  ASSUME NEW s \in Int
  PROVE  IsStart("week", s) <=> \E n \in Int : s = 7 * n
<1>1. s % 7 \in Int /\ (IsStart("week", s) <=> s - (s % 7) = s)
  BY DEF IsStart, KindStart, PeriodKinds
<1>2. s - (s % 7) = s <=> s % 7 = 0
  BY <1>1
<1>3. s % 7 = 0 => s = 7 * (s \div 7) /\ s \div 7 \in Int
  OBVIOUS
<1>4. ASSUME NEW n \in Int, s = 7 * n PROVE s % 7 = 0
  BY <1>4
<1>. QED
  BY <1>1, <1>2, <1>3, <1>4

LEMMA MonthStart ==
  ASSUME NEW s \in Int
  PROVE  IsStart("month", s) <=> \E i \in Int : s = FirstOf(i)
<1>1. IsStart("month", s) <=> FirstOf(MonthOf(s)) = s
  BY DEF IsStart, KindStart, PeriodKinds
<1>2. MonthOf(s) \in Int
  BY MonthOfIs
<1>3. ASSUME NEW i \in Int, s = FirstOf(i) PROVE FirstOf(MonthOf(s)) = s
  BY <1>3, MonthOfFirst
<1>. QED
  BY <1>1, <1>2, <1>3

(* The periods of a kind follow each other without a gap.                  *)
LEMMA LaterIs ==
  ASSUME NEW kind, NEW s, IsStart(kind, s)
  PROVE  /\ IsStart(kind, Later(kind, s, 1)) /\ IsStart(kind, Later(kind, s, -1))
         /\ Later(kind, Later(kind, s, -1), 1) = s
         /\ LastOf(kind, s) = Later(kind, s, 1) - 1
         /\ s < Later(kind, s, 1) /\ Later(kind, s, -1) < s
         /\ \A e : IsStart(kind, e) /\ s < e => Later(kind, s, 1) <= e
<1>0. s \in Int /\ kind \in PeriodKinds
  BY DEF IsStart
<1>1. CASE kind = "day"
  BY <1>0, <1>1 DEF IsStart, KindStart, Later, LastOf, PeriodKinds
<1>2. CASE kind = "week"
  <2>1. PICK n \in Int : s = 7 * n
    BY <1>0, <1>2, WeekStart
  <2>2. /\ Later(kind, s, 1) = s + 7 /\ Later(kind, s, -1) = s - 7
        /\ Later(kind, s - 7, 1) = s /\ LastOf(kind, s) = s + 6
    BY <1>0, <1>2 DEF Later, LastOf
  <2>3. IsStart("week", s + 7) /\ IsStart("week", s - 7)
    <3>1. s + 7 \in Int /\ s - 7 \in Int /\ n + 1 \in Int /\ n - 1 \in Int
          /\ s + 7 = 7 * (n + 1) /\ s - 7 = 7 * (n - 1)
      BY <2>1
    <3>. QED
      BY <3>1, WeekStart
  <2>4. ASSUME NEW e, IsStart(kind, e), s < e PROVE s + 7 <= e
    <3>1. e \in Int
      BY <2>4 DEF IsStart
    <3>2. PICK k \in Int : e = 7 * k
      BY <1>2, <2>4, <3>1, WeekStart
    <3>. QED
      BY <2>1, <2>4, <3>2
  <2>. QED
    BY <1>0, <1>2, <2>2, <2>3, <2>4
<1>3. CASE kind = "month"
  <2>1. PICK i \in Int : s = FirstOf(i)
    BY <1>0, <1>3, MonthStart
  <2>2. PICK j \in Int, k \in Int : j = i + 1 /\ k = i - 1 /\ k + 1 = i /\ i + (-1) = k
    OBVIOUS
  <2>3. MonthOf(s) = i /\ MonthOf(FirstOf(k)) = k
    BY <2>1, MonthOfFirst
  <2>4. /\ Later(kind, s, 1) = FirstOf(j) /\ Later(kind, s, -1) = FirstOf(k)
        /\ Later(kind, FirstOf(k), 1) = s /\ LastOf(kind, s) = FirstOf(j) - 1
    BY <1>3, <2>1, <2>2, <2>3 DEF Later, LastOf, AddMonths
  <2>5. FirstOf(j) \in Int /\ FirstOf(k) \in Int /\ FirstOf(i) < FirstOf(j) /\ FirstOf(k) < FirstOf(i)
    <3>1. i < j /\ k < i
      BY <2>2
    <3>. QED
      BY <3>1, FirstOfGrows, MonthLength
  <2>6. IsStart("month", FirstOf(j)) /\ IsStart("month", FirstOf(k))
    BY <2>5, MonthStart
  <2>7. ASSUME NEW e, IsStart(kind, e), s < e PROVE FirstOf(j) <= e
    <3>1. e \in Int
      BY <2>7 DEF IsStart
    <3>2. PICK l \in Int : e = FirstOf(l)
      BY <1>3, <2>7, <3>1, MonthStart
    <3>3. i < l
      BY <2>1, <2>7, <3>2, FirstOfGrows
    <3>4. j = l \/ j < l
      BY <2>2, <3>3
    <3>5. j < l => FirstOf(j) < FirstOf(l)
      BY FirstOfGrows
    <3>. QED
      BY <2>5, <3>1, <3>2, <3>4, <3>5
  <2>. QED
    BY <1>3, <2>1, <2>4, <2>5, <2>6, <2>7
<1>. QED
  BY <1>0, <1>1, <1>2, <1>3 DEF PeriodKinds

LEMMA KindStartGrows ==
  ASSUME NEW kind \in PeriodKinds, NEW d \in Int, NEW e \in Int, d <= e
  PROVE  KindStart(kind, d) <= KindStart(kind, e)
<1>. DEFINE a == KindStart(kind, d)
            b == KindStart(kind, e)
<1>1. IsStart(kind, a) /\ a <= d /\ IsStart(kind, b) /\ e < Later(kind, b, 1)
  BY KindStartIs
<1>. HIDE DEF a, b
<1>2. a \in Int /\ b \in Int /\ Later(kind, b, 1) \in Int
  BY <1>1, LaterIs DEF IsStart
<1>3. b < a => Later(kind, b, 1) <= a
  BY <1>1, LaterIs
<1>4. a <= b
  BY <1>1, <1>2, <1>3
<1>. QED
  BY <1>4 DEF a, b

(* A first day is the one of every day in its period.                      *)
LEMMA StartBelow ==
  ASSUME NEW kind, NEW s, IsStart(kind, s), NEW d \in Int, s <= d
  PROVE  /\ s <= KindStart(kind, d)
         /\ d < Later(kind, s, 1) => KindStart(kind, d) = s
         /\ Later(kind, s, 1) <= d => Later(kind, s, 1) <= KindStart(kind, d)
<1>1. kind \in PeriodKinds /\ s \in Int /\ KindStart(kind, s) = s
  BY DEF IsStart
<1>. DEFINE b == KindStart(kind, d)
            n == Later(kind, s, 1)
<1>2. IsStart(kind, b) /\ b <= d /\ b \in Int
  BY <1>1, KindStartIs DEF IsStart
<1>3. s <= b
  BY <1>1, KindStartGrows
<1>4. IsStart(kind, n) /\ n \in Int /\ KindStart(kind, n) = n
  BY LaterIs DEF IsStart
<1>5. s < b => n <= b
  BY <1>2, LaterIs
<1>6. n <= d => n <= b
  BY <1>1, <1>4, KindStartGrows
<1>. HIDE DEF b, n
<1>7. d < n => b = s
  BY <1>1, <1>2, <1>3, <1>4, <1>5
<1>. QED
  BY <1>3, <1>6, <1>7 DEF b, n

(* What a button may carry on a day: no day after it.                      *)
PeriodOK(p, d) ==
  /\ p \in Period
  /\ p.word \in DOMAIN KindOfCode => p.at <= d

LEMMA KindAndStartIs ==
  ASSUME NEW d \in Int, NEW p, PeriodOK(p, d)
  PROVE  /\ IsStart(PeriodKind(p, d), KindAndStart(p, d)[2])
         /\ KindAndStart(p, d)[2] <= d
         /\ KindAndStart(p, d)[1] = PeriodKind(p, d)
<1>0. p.word \in Words /\ p.at \in Int
  BY DEF PeriodOK, Period
<1>. DEFINE Is(kind, s) == KindAndStart(p, d) = <<kind, s>>
<1>1. ASSUME NEW kind, NEW s, Is(kind, s), IsStart(kind, s), s <= d
      PROVE  /\ IsStart(PeriodKind(p, d), KindAndStart(p, d)[2])
             /\ KindAndStart(p, d)[2] <= d
             /\ KindAndStart(p, d)[1] = PeriodKind(p, d)
  BY <1>1 DEF PeriodKind
<1>2. /\ \A kind \in PeriodKinds : IsStart(kind, KindStart(kind, d)) /\ KindStart(kind, d) <= d
      /\ DOMAIN KindOfCode = {"d", "w", "m"}
  BY KindStartIs DEF KindOfCode
<1>3. CASE p.word = "week"
  <2>1. Is("week", KindStart("week", d))
    BY <1>2, <1>3 DEF KindAndStart
  <2>. QED
    BY <1>1, <1>2, <2>1 DEF PeriodKinds
<1>4. CASE p.word = "month"
  <2>1. Is("month", KindStart("month", d))
    BY <1>2, <1>4 DEF KindAndStart
  <2>. QED
    BY <1>1, <1>2, <2>1 DEF PeriodKinds
<1>5. CASE p.word = "previous_month"
  <2>. DEFINE s == KindStart("month", d)
  <2>1. Is("month", Later("month", s, -1))
    <3>1. KindAndStart(p, d) = <<"month", AddMonths(s, -1)>>
      BY <1>2, <1>5 DEF KindAndStart
    <3>2. Later("month", s, -1) = AddMonths(s, -1)
      BY DEF Later
    <3>. QED
      BY <3>1, <3>2
  <2>2. IsStart("month", s) /\ s <= d
    BY <1>2 DEF PeriodKinds
  <2>. HIDE DEF s
  <2>3. IsStart("month", Later("month", s, -1)) /\ Later("month", s, -1) < s
    BY <2>2, LaterIs
  <2>4. Later("month", s, -1) <= d
    BY <2>2, <2>3 DEF IsStart
  <2>. QED
    BY <1>1, <2>1, <2>3, <2>4
<1>6. CASE p.word \in DOMAIN KindOfCode
  <2>. DEFINE kind == KindOfCode[p.word]
  <2>1. kind \in PeriodKinds /\ Is(kind, KindStart(kind, p.at)) /\ p.at <= d
    BY <1>6 DEF KindAndStart, KindOfCode, PeriodKinds, PeriodOK
  <2>. HIDE DEF kind
  <2>2. IsStart(kind, KindStart(kind, p.at)) /\ KindStart(kind, p.at) <= p.at
    BY <1>0, <2>1, KindStartIs
  <2>3. KindStart(kind, p.at) <= d
    BY <1>0, <2>1, <2>2 DEF IsStart
  <2>. QED
    BY <1>1, <2>1, <2>2, <2>3
<1>7. CASE p.word \notin {"week", "month", "previous_month"} \cup DOMAIN KindOfCode
  <2>1. Is("day", d)
    BY <1>7 DEF KindAndStart
  <2>2. IsStart("day", d)
    BY DEF IsStart, KindStart, PeriodKinds
  <2>. QED
    BY <1>1, <2>1, <2>2
<1>. QED
  BY <1>3, <1>4, <1>5, <1>6, <1>7

(* The days a period sums up begin with its first and none is to come.     *)
LEMMA BoundsAre ==
  ASSUME NEW d \in Int, NEW p, PeriodOK(p, d)
  PROVE  /\ PeriodBounds(p, d)[1] = KindAndStart(p, d)[2]
         /\ PeriodBounds(p, d)[2] \in Int
         /\ PeriodBounds(p, d)[1] <= PeriodBounds(p, d)[2] /\ PeriodBounds(p, d)[2] <= d
         /\ LastOf(PeriodKind(p, d), KindAndStart(p, d)[2]) <= d =>
              PeriodBounds(p, d)[2] = LastOf(PeriodKind(p, d), KindAndStart(p, d)[2])
<1>. DEFINE kind == PeriodKind(p, d)
            start == KindAndStart(p, d)[2]
            last == LastOf(kind, start)
<1>1. IsStart(kind, start) /\ start <= d /\ start \in Int
  BY KindAndStartIs DEF IsStart
<1>2. PeriodBounds(p, d) = IF start > d THEN <<d, d>> ELSE <<start, IF last > d THEN d ELSE last>>
  BY DEF PeriodBounds
<1>. HIDE DEF start, kind
<1>3. last = Later(kind, start, 1) - 1 /\ start < Later(kind, start, 1) /\ Later(kind, start, 1) \in Int
  BY <1>1, LaterIs DEF IsStart
<1>4. last \in Int /\ start <= last
  BY <1>1, <1>3
<1>. HIDE DEF last
<1>5. PeriodBounds(p, d) = <<start, IF last > d THEN d ELSE last>>
  BY <1>1, <1>2
<1>6. /\ PeriodBounds(p, d)[1] = start
      /\ PeriodBounds(p, d)[2] = IF last > d THEN d ELSE last
  BY <1>5
<1>7. /\ PeriodBounds(p, d)[1] = start
      /\ PeriodBounds(p, d)[2] \in Int
      /\ PeriodBounds(p, d)[1] <= PeriodBounds(p, d)[2] /\ PeriodBounds(p, d)[2] <= d
      /\ last <= d => PeriodBounds(p, d)[2] = last
  BY <1>1, <1>4, <1>6
<1>. QED
  BY <1>7 DEF start, kind, last

(* The code of a period means that period, today and later.                *)
LEMMA CodeMeans ==
  ASSUME NEW kind, NEW s, IsStart(kind, s), NEW d \in Int, s <= d
  PROVE  /\ PeriodOK(Code(kind, s), d)
         /\ KindAndStart(Code(kind, s), d) = <<kind, s>>
         /\ PeriodKind(Code(kind, s), d) = kind
         /\ Code(kind, s).at = s
<1>0. s \in Int /\ kind \in PeriodKinds /\ KindStart(kind, s) = s
  BY DEF IsStart
<1>. DEFINE p == Code(kind, s)
<1>1. p = [word |-> CodeOfKind[kind], at |-> s]
  BY DEF Code
<1>2. /\ CodeOfKind[kind] \in {"d", "w", "m"} /\ DOMAIN KindOfCode = {"d", "w", "m"}
      /\ KindOfCode[CodeOfKind[kind]] = kind
  BY <1>0 DEF CodeOfKind, KindOfCode, PeriodKinds
<1>3. p.word = CodeOfKind[kind] /\ p.at = s /\ p \in Period
  BY <1>0, <1>1, <1>2 DEF Period, Words
<1>. HIDE DEF p
<1>4. KindAndStart(p, d) = <<kind, s>>
  BY <1>0, <1>2, <1>3 DEF KindAndStart
<1>5. PeriodKind(p, d) = kind
  BY <1>4 DEF PeriodKind
<1>6. PeriodOK(p, d)
  BY <1>3 DEF PeriodOK
<1>. QED
  BY <1>3, <1>4, <1>5, <1>6 DEF p

(* The arrows of a code.                                                   *)
LEMMA ArrowsAre ==
  ASSUME NEW kind, NEW s, IsStart(kind, s), NEW d \in Int, s <= d
  PROVE  /\ ShiftedPeriod(Code(kind, s), -1, d) = Code(kind, Later(kind, s, -1))
         /\ ShiftedPeriod(Code(kind, s), 1, d) =
              IF LastOf(kind, s) < d THEN Code(kind, Later(kind, s, 1)) ELSE Code(kind, s)
<1>0. s \in Int /\ kind \in PeriodKinds
  BY DEF IsStart
<1>. DEFINE p == Code(kind, s)
            current == KindStart(kind, d)
            back == Later(kind, s, -1)
            on == Later(kind, s, 1)
            Shifted(n) == Later(kind, s, n)
<1>1. KindAndStart(p, d)[2] = s /\ PeriodKind(p, d) = kind
  BY CodeMeans
<1>. HIDE DEF p
<1>2. /\ ShiftedPeriod(p, -1, d) = Code(kind, IF back > current THEN current ELSE back)
      /\ ShiftedPeriod(p, 1, d) = Code(kind, IF on > current THEN current ELSE on)
  <2>1. ASSUME NEW n
        PROVE  ShiftedPeriod(p, n, d) =
                 Code(kind, IF Shifted(n) > current THEN current ELSE Shifted(n))
    BY <1>1 DEF ShiftedPeriod, Later
  <2>. QED
    BY <2>1
<1>3. /\ back < s /\ IsStart(kind, back) /\ back \in Int
      /\ IsStart(kind, on) /\ on \in Int /\ s < on /\ LastOf(kind, s) = on - 1
  BY LaterIs DEF IsStart
<1>4. s <= current /\ (d < on => current = s) /\ (on <= d => on <= current)
  BY StartBelow
<1>5. current \in Int
  BY <1>0, KindStartIs DEF IsStart
<1>6. PICK last \in Int : last = LastOf(kind, s) /\ last = on - 1
  BY <1>3
<1>. HIDE DEF current, back, on
<1>7. ShiftedPeriod(p, -1, d) = Code(kind, back)
  BY <1>0, <1>2, <1>3, <1>4, <1>5
<1>8. ShiftedPeriod(p, 1, d) = IF last < d THEN Code(kind, on) ELSE Code(kind, s)
  <2>1. CASE last < d
    BY <1>2, <1>3, <1>4, <1>5, <1>6, <2>1
  <2>2. CASE ~ (last < d)
    <3>1. current = s /\ on > current
      BY <1>3, <1>4, <1>6, <2>2
    <3>. QED
      BY <1>2, <2>2, <3>1
  <2>. QED
    BY <2>1, <2>2
<1>. QED
  BY <1>6, <1>7, <1>8 DEF p, back, on

-----------------------------------------------------------------------------
(* The period screens: what a handler has used since the press, and what a *)
(* screen says on a day.                                                   *)

(* The first days a period has from one day to another.                    *)
Firsts(p, a, d) == {KindAndStart(p, e)[2] : e \in a .. d}

WorkFields == {"asked", "scope", "left", "from", "month", "rendering", "pressed",
               "shifts", "shown"}

ShownOK(days, d) == days[2] \in Int /\ days[1] <= days[2] /\ days[2] <= d

(* A screen of the period that begins on a day: drawn that day or later,   *)
(* with its neighbours under the arrows.                                   *)
Draws(s, kind, first) ==
  /\ IsStart(kind, first) /\ first <= s.drawn
  /\ s.own = Code(kind, first) /\ s.prev = Code(kind, Later(kind, first, -1))
  /\ s.next = IF LastOf(kind, first) < s.drawn THEN Code(kind, Later(kind, first, 1))
              ELSE Code(kind, first)
  /\ s.kind = "kpi" => kind = "month"

ScreenOK(s, d) ==
  /\ s.is = "screen" /\ s.kind \in Kinds.period
  /\ s.scope \in Scopes /\ s.shifts \in 0 .. MaxShifts
  /\ s.drawn \in Int /\ s.drawn <= d
  /\ \E kind, first : Draws(s, kind, first)

AskedOK(kind, p, d) ==
  /\ PeriodOK(p, d)
  /\ kind = "kpi" => p.word \in {"month", "m"}

WorkOK(kind, w, b, d) ==
  /\ DOMAIN w = WorkFields
  /\ AskedOK(kind, w.asked, d)
  /\ w.scope \in Scopes /\ w.left \in 0 .. w.scope /\ w.shifts \in 0 .. MaxShifts
  /\ w.pressed \in b .. d /\ w.month \in Int
  /\ w.from \subseteq Firsts(w.asked, w.pressed, d)
  /\ w.rendering \in {"rich", "plain"} /\ (w.rendering = "plain" => ShownOK(w.shown, d))

Working(k, d) ==
  /\ k.at \in {"frame", "refresh", "sum", "label"}
  /\ k.rich = <<>> /\ k.plain = <<>> /\ k.sent = 0 /\ k.told = 0
  /\ k.at # "label" => k.work.left # 0
  /\ k.at = "frame" => k.work.from = {} /\ k.work.rendering = "rich"
  /\ k.kind = "kpi" /\ k.at \in {"sum", "label"} =>
       k.work.month \in Firsts(k.work.asked, k.work.pressed, d)

Drawn(k, d) ==
  /\ k.at \in {"send", "delete", "fall"}
  /\ k.work.rendering = "plain"
  /\ \E s : /\ k.rich = <<s>> /\ k.plain = <<s>>
            /\ ScreenOK(s, d) /\ s.own.at \in Firsts(k.work.asked, k.work.pressed, d)
  /\ k.sent = (IF k.at = "delete" THEN 1 ELSE 0) /\ k.told = 0

PeriodTaskOK(k, b, d) ==
  /\ DOMAIN k = Fields /\ k.kind \in Kinds.period /\ k.msg \in Slots
  /\ WorkOK(k.kind, k.work, b, d)
  /\ Working(k, d) \/ Drawn(k, d)

(* The days of a behaviour.                                                *)
DaysOK == begun \in Int /\ today \in Int /\ begun <= today /\ today <= begun + Midnights

PeriodInv ==
  /\ DaysOK
  /\ section = "period" => \A t \in Tasks :
       EndedOK(task[t]) \/ PeriodTaskOK(task[t], begun, today)
  /\ \A m \in Slots : chat[m] \in {Nothing, Frame, Plain}
                      \/ (section = "period" /\ ScreenOK(chat[m], today))

(* What holds on a day holds later.                                        *)
LEMMA AskedLater ==
  ASSUME NEW kind, NEW p, NEW d \in Int, NEW e \in Int, d <= e, AskedOK(kind, p, d)
  PROVE  AskedOK(kind, p, e)
BY DEF AskedOK, PeriodOK, Period

LEMMA FirstsGrow ==
  ASSUME NEW p, NEW a \in Int, NEW d \in Int, NEW e \in Int, d <= e
  PROVE  Firsts(p, a, d) \subseteq Firsts(p, a, e)
<1>1. a .. d \subseteq a .. e
  OBVIOUS
<1>. QED
  BY <1>1 DEF Firsts

LEMMA FirstsAre ==
  ASSUME NEW kind, NEW p, NEW a \in Int, NEW d \in Int, AskedOK(kind, p, d),
         a <= d
  PROVE  /\ KindAndStart(p, d)[2] \in Firsts(p, a, d)
         /\ PeriodBounds(p, d)[1] \in Firsts(p, a, d)
<1>1. d \in a .. d /\ PeriodOK(p, d)
  BY DEF AskedOK
<1>. QED
  BY <1>1, BoundsAre DEF Firsts

LEMMA ScreenLater ==
  ASSUME NEW s, NEW d \in Int, NEW e \in Int, d <= e, ScreenOK(s, d)
  PROVE  ScreenOK(s, e)
<1>1. s.drawn <= e
  BY DEF ScreenOK
<1>. QED
  BY <1>1 DEF ScreenOK

LEMMA WorkLater ==
  ASSUME NEW kind, NEW w, NEW b \in Int, NEW d \in Int, NEW e \in Int, d <= e, WorkOK(kind, w, b, d)
  PROVE  WorkOK(kind, w, b, e)
<1>1. AskedOK(kind, w.asked, e)
  BY AskedLater DEF WorkOK
<1>2. w.pressed \in b .. e
  BY DEF WorkOK
<1>3. w.from \subseteq Firsts(w.asked, w.pressed, e)
  <2>1. w.pressed \in Int
    BY DEF WorkOK
  <2>. QED
    BY <2>1, FirstsGrow DEF WorkOK
<1>4. w.rendering = "plain" => ShownOK(w.shown, e)
  BY DEF WorkOK, ShownOK
<1>. QED
  BY <1>1, <1>2, <1>3, <1>4 DEF WorkOK

LEMMA TaskLater ==
  ASSUME NEW k, NEW b \in Int, NEW d \in Int, NEW e \in Int, d <= e, PeriodTaskOK(k, b, d)
  PROVE  PeriodTaskOK(k, b, e)
<1>1. WorkOK(k.kind, k.work, b, e)
  BY WorkLater DEF PeriodTaskOK
<1>2. k.work.pressed \in Int
  BY DEF PeriodTaskOK, WorkOK
<1>3. Firsts(k.work.asked, k.work.pressed, d) \subseteq Firsts(k.work.asked, k.work.pressed, e)
  BY <1>2, FirstsGrow
<1>4. Working(k, d) => Working(k, e)
  BY <1>3 DEF Working
<1>5. Drawn(k, d) => Drawn(k, e)
  BY <1>3, ScreenLater DEF Drawn
<1>. QED
  BY <1>1, <1>4, <1>5 DEF PeriodTaskOK

-----------------------------------------------------------------------------
(* The month of a KPI screen.                                              *)

LEMMA MonthAsked ==
  ASSUME NEW d \in Int, NEW p, AskedOK("kpi", p, d)
  PROVE  /\ PeriodKind(p, d) = "month"
         /\ MonthFromPeriod(p, d) = KindAndStart(p, d)[2]
         /\ MonthPeriod(p, d) = CanonicalPeriod(p, d)
<1>1. p.word \in {"month", "m"} /\ DOMAIN KindOfCode = {"d", "w", "m"} /\ KindOfCode["m"] = "month"
      /\ CodeOfKind["month"] = "m"
  BY DEF AskedOK, KindOfCode, CodeOfKind
<1>2. KindAndStart(p, d) = <<"month", MonthFromPeriod(p, d)>>
  BY <1>1 DEF KindAndStart, MonthFromPeriod
<1>3. PeriodKind(p, d) = "month" /\ MonthFromPeriod(p, d) = KindAndStart(p, d)[2]
  BY <1>2 DEF PeriodKind
<1>4. CanonicalPeriod(p, d).word = "m"
  BY <1>1, <1>3 DEF CanonicalPeriod, Code
<1>. QED
  BY <1>3, <1>4 DEF MonthPeriod

LEMMA MonthFirsts ==
  ASSUME NEW a \in Int, NEW d \in Int, NEW p, AskedOK("kpi", p, d),
         NEW m \in Firsts(p, a, d)
  PROVE  IsStart("month", m) /\ m <= d
<1>1. p.word \in {"month", "m"} /\ DOMAIN KindOfCode = {"d", "w", "m"} /\ KindOfCode["m"] = "month"
      /\ (p.word = "m" => p.at <= d) /\ p.at \in Int
  BY DEF AskedOK, PeriodOK, Period, KindOfCode
<1>2. PICK e \in a .. d : m = KindAndStart(p, e)[2]
  BY DEF Firsts
<1>3. PICK f \in Int : m = KindStart("month", f) /\ f <= d
  <2>1. KindAndStart(p, e) = <<"month", KindStart("month", IF p.word = "m" THEN p.at ELSE e)>>
    BY <1>1 DEF KindAndStart
  <2>. QED
    BY <1>1, <1>2, <2>1
<1>4. "month" \in PeriodKinds
  BY DEF PeriodKinds
<1>5. IsStart("month", m) /\ m <= f
  BY <1>3, <1>4, KindStartIs
<1>. QED
  BY <1>3, <1>5 DEF IsStart

LEMMA MonthBoundsAre ==
  ASSUME NEW m, IsStart("month", m), NEW d \in Int, m <= d
  PROVE  MonthBounds(m, d)[1] = m /\ ShownOK(MonthBounds(m, d), d)
<1>. DEFINE next == Later("month", m, 1)
<1>0. m \in Int
  BY DEF IsStart
<1>1. next \in Int /\ m < next
  BY LaterIs DEF IsStart
<1>2. next = AddMonths(m, 1)
  BY DEF Later
<1>3. MonthOf(m) # MonthOf(d) => next <= d
  <2>1. KindStart("month", d) = FirstOf(MonthOf(d)) /\ MonthOf(d) \in Int
    BY MonthOfIs DEF KindStart
  <2>2. KindStart("month", d) = m => MonthOf(m) = MonthOf(d)
    BY <2>1, MonthOfFirst
  <2>3. d < next => KindStart("month", d) = m
    BY StartBelow
  <2>. QED
    BY <1>1, <2>2, <2>3
<1>. HIDE DEF next
<1>. DEFINE last == IF MonthOf(m) = MonthOf(d) THEN d ELSE next - 1
<1>4. last \in Int /\ m <= last /\ last <= d
  BY <1>0, <1>1, <1>3
<1>5. MonthBounds(m, d) = <<m, last>>
  BY <1>2 DEF MonthBounds
<1>. HIDE DEF last
<1>. QED
  BY <1>4, <1>5 DEF ShownOK

(* The screen that is drawn.                                               *)
LEMMA ScreenDrawn ==
  ASSUME NEW kind \in Kinds.period, NEW d \in Int, NEW p, AskedOK(kind, p, d),
         NEW scope \in Scopes, NEW shifts \in 0 .. MaxShifts, NEW own,
         own = (IF kind = "kpi" THEN MonthPeriod(p, d) ELSE CanonicalPeriod(p, d)),
         NEW s, s = [is |-> "screen", kind |-> kind, scope |-> scope, shifts |-> shifts,
                     own |-> own, drawn |-> d,
                     prev |-> ShiftedPeriod(own, -1, d), next |-> ShiftedPeriod(own, 1, d)]
  PROVE  ScreenOK(s, d) /\ s.own.at = KindAndStart(p, d)[2]
<1>. DEFINE k == PeriodKind(p, d)
            first == KindAndStart(p, d)[2]
<1>1. IsStart(k, first) /\ first <= d /\ PeriodOK(p, d)
  BY KindAndStartIs DEF AskedOK
<1>2. kind = "kpi" => k = "month"
  BY MonthAsked
<1>3. own = Code(k, first)
  <2>1. own = CanonicalPeriod(p, d)
    BY MonthAsked
  <2>. QED
    BY <2>1 DEF CanonicalPeriod
<1>. HIDE DEF k, first
<1>4. /\ ShiftedPeriod(own, -1, d) = Code(k, Later(k, first, -1))
      /\ ShiftedPeriod(own, 1, d) =
           IF LastOf(k, first) < d THEN Code(k, Later(k, first, 1)) ELSE Code(k, first)
  BY <1>1, <1>3, ArrowsAre
<1>. DEFINE prev == ShiftedPeriod(own, -1, d)
            next == ShiftedPeriod(own, 1, d)
<1>. HIDE DEF prev, next
<1>5. s = [is |-> "screen", kind |-> kind, scope |-> scope, shifts |-> shifts,
           own |-> own, drawn |-> d, prev |-> prev, next |-> next]
  BY DEF prev, next
<1>6. Draws(s, k, first)
  <2>1. s.own = own /\ s.prev = prev /\ s.next = next /\ s.drawn = d /\ s.kind = kind
    BY <1>5
  <2>. QED
    BY <1>1, <1>2, <1>3, <1>4, <2>1 DEF Draws, prev, next
<1>7. ScreenOK(s, d)
  BY <1>5, <1>6 DEF ScreenOK
<1>8. s.own.at = first
  BY <1>1, <1>3, <1>5, CodeMeans
<1>. QED
  BY <1>7, <1>8 DEF first

(* The buttons of a screen ask for no day to come.                         *)
LEMMA ButtonsAsk ==
  ASSUME NEW s, NEW d \in Int, ScreenOK(s, d), NEW button \in Buttons(s)
  PROVE  /\ AskedOK(s.kind, button[1], d) /\ button[1].at \in Int
         /\ button[2] \in Scopes
<1>1. PICK kind, first : Draws(s, kind, first)
  BY DEF ScreenOK
<1>2. s.drawn \in Int /\ s.drawn <= d /\ s.scope \in Scopes /\ s.kind \in Kinds.period
  BY DEF ScreenOK
<1>3. IsStart(kind, first) /\ first <= s.drawn /\ first \in Int /\ kind \in PeriodKinds
      /\ (s.kind = "kpi" => kind = "month")
  BY <1>1 DEF Draws, IsStart
<1>4. ASSUME NEW e, IsStart(kind, e), e <= d PROVE AskedOK(s.kind, Code(kind, e), d)
  <2>1. PeriodOK(Code(kind, e), d)
    BY <1>4, CodeMeans
  <2>2. kind = "month" => Code(kind, e).word = "m"
    BY DEF Code, CodeOfKind
  <2>. QED
    BY <1>3, <2>1, <2>2 DEF AskedOK
<1>5. AskedOK(s.kind, s.own, d)
  <2>1. first <= d
    BY <1>2, <1>3
  <2>. QED
    BY <1>1, <1>3, <1>4, <2>1 DEF Draws
<1>6. AskedOK(s.kind, s.prev, d)
  <2>. DEFINE e == Later(kind, first, -1)
  <2>1. IsStart(kind, e) /\ e < first /\ e \in Int
    BY <1>3, LaterIs DEF IsStart
  <2>2. e <= d
    BY <1>2, <1>3, <2>1
  <2>. QED
    BY <1>1, <1>4, <2>1, <2>2 DEF Draws
<1>7. AskedOK(s.kind, s.next, d)
  <2>. DEFINE e == Later(kind, first, 1)
  <2>1. IsStart(kind, e) /\ LastOf(kind, first) = e - 1 /\ e \in Int
    BY <1>3, LaterIs DEF IsStart
  <2>2. CASE LastOf(kind, first) < s.drawn
    <3>1. e <= d
      BY <1>2, <2>1, <2>2
    <3>. QED
      BY <1>1, <1>4, <2>1, <2>2, <3>1 DEF Draws
  <2>3. CASE ~ (LastOf(kind, first) < s.drawn)
    <3>1. s.next = s.own
      BY <1>1, <2>3 DEF Draws
    <3>. QED
      BY <1>5, <3>1
  <2>. QED
    BY <2>2, <2>3
<1>8. ASSUME NEW word \in {"today", "week", "month"}, s.kind # "kpi"
      PROVE  AskedOK(s.kind, Word(word), d)
  BY <1>8 DEF AskedOK, PeriodOK, Period, Words, Word, KindOfCode
<1>9. AskedOK(s.kind, button[1], d) /\ button[2] \in Scopes
  <2>1. CASE button \in Arrows(s)
    BY <1>2, <1>5, <1>6, <1>7, <2>1 DEF Arrows
  <2>2. CASE button \in ScopeButtons(s)
    <3>1. ScopesOf(s.kind) \subseteq Scopes
      BY DEF ScopesOf, Scopes
    <3>. QED
      BY <1>5, <2>2, <3>1 DEF ScopeButtons
  <2>3. CASE button \in WordButtons(s) /\ s.kind # "kpi"
    BY <1>2, <1>8, <2>3 DEF WordButtons
  <2>. QED
    BY <2>1, <2>2, <2>3 DEF Buttons
<1>. QED
  BY <1>9 DEF AskedOK, PeriodOK, Period

-----------------------------------------------------------------------------
(* A step of one handler, on one day.                                      *)
LEMMA PeriodKeeps ==
  ASSUME PeriodInv, NEW t \in Tasks, Only(t), UNCHANGED <<section, today, begun>>,
         section = "period" => EndedOK(task'[t]) \/ PeriodTaskOK(task'[t], begun, today),
         \A m \in Slots : \/ chat'[m] = chat[m] \/ chat'[m] \in {Nothing, Frame, Plain}
                          \/ (section = "period" /\ ScreenOK(chat'[m], today))
  PROVE  PeriodInv'
<1>1. DaysOK'
  BY DEF PeriodInv, DaysOK
<1>2. section' = "period" => \A u \in Tasks :
        EndedOK(task'[u]) \/ PeriodTaskOK(task'[u], begun', today')
  BY DEF PeriodInv, Only
<1>3. \A m \in Slots : \/ chat'[m] \in {Nothing, Frame, Plain}
                       \/ (section' = "period" /\ ScreenOK(chat'[m], today'))
  BY DEF PeriodInv
<1>. QED
  BY <1>1, <1>2, <1>3 DEF PeriodInv, Nothing, Frame, Plain

(* A handler that presses.                                                 *)
LEMMA PressedOK ==
  ASSUME DaysOK, NEW kind \in Kinds.period, NEW m \in Slots, NEW edits, NEW p,
         AskedOK(kind, p, today), NEW scope \in Scopes, NEW shifts \in 0 .. MaxShifts
  PROVE  PeriodTaskOK(Handler(kind, m, edits, PeriodWork(p, scope, shifts)), begun, today)
<1>. DEFINE w == PeriodWork(p, scope, shifts)
            k == Handler(kind, m, edits, w)
<1>0. scope \in Nat /\ scope # 0
  BY MenuAssumption DEF Scopes
<1>1. /\ DOMAIN w = WorkFields /\ w.asked = p /\ w.scope = scope /\ w.left = scope
      /\ w.shifts = shifts /\ w.pressed = today /\ w.month = 0 /\ w.from = {}
      /\ w.rendering = "rich"
  BY DEF PeriodWork, WorkFields
<1>. HIDE DEF w
<1>2. /\ DOMAIN k = Fields /\ k.at = "frame" /\ k.kind = kind /\ k.msg = m /\ k.work = w
      /\ k.rich = <<>> /\ k.plain = <<>> /\ k.sent = 0 /\ k.told = 0
  BY DEF Handler, Fields
<1>. HIDE DEF k
<1>3. WorkOK(kind, w, begun, today)
  <2>1. today \in begun .. today
    BY DEF DaysOK
  <2>. QED
    BY <1>0, <1>1, <2>1 DEF WorkOK
<1>4. Working(k, today)
  BY <1>0, <1>1, <1>2 DEF Working
<1>5. PeriodTaskOK(k, begun, today)
  BY <1>2, <1>3, <1>4 DEF PeriodTaskOK
<1>. QED
  BY <1>5 DEF k, w

LEMMA KindsOfPeriod ==
  Kinds["period"] = Kinds.period /\ "goods" \notin Kinds.period /\ "grade" \notin Kinds.period
  /\ \A s \in Sections : s = "period" \/ Kinds[s] \ {"goods", "grade"} = {}
BY DEF Kinds, Sections

LEMMA PeriodPress ==
  ASSUME PeriodInv, DeliveryInv, section \in Sections, NEW t \in Tasks,
         \/ PressGoods(t) \/ PressGrade(t) \/ \E m \in Slots : PressButton(t, m)
         \/ \E kind \in Kinds[section] : PressMenu(t, kind)
  PROVE  PeriodInv'
<1>0. DaysOK /\ Shape
  BY DEF PeriodInv, DeliveryInv
<1>1. CASE PressGoods(t) \/ PressGrade(t)
  <2>1. section # "period" /\ UNCHANGED <<section, today, begun, chat>> /\ (\E k : Goes(t, k))
    BY <1>1 DEF PressGoods, PressGrade, clock
  <2>2. Only(t)
    BY <1>0, <2>1, GoesOnly
  <2>. QED
    BY <2>1, <2>2, PeriodKeeps
<1>2. ASSUME NEW kind \in Kinds[section], PressMenu(t, kind) PROVE PeriodInv'
  <2>1. UNCHANGED <<section, today, begun>> /\ kind \notin {"goods", "grade"}
    BY <1>2 DEF PressMenu, clock
  <2>2. section = "period" /\ kind \in Kinds.period
    BY <2>1, KindsOfPeriod
  <2>3. PICK m \in FreeSlots, scope \in ScopesOf(kind), edits \in {FALSE, kind = "team"} :
          /\ Goes(t, Handler(kind, m, edits, PeriodWork(Word("month"), scope, 0)))
          /\ chat' = [ScrolledAway EXCEPT ![m] = IF edits THEN Plain ELSE @]
    BY <1>2 DEF PressMenu
  <2>4. m \in Slots /\ scope \in Scopes /\ 0 \in 0 .. MaxShifts
    BY MenuAssumption DEF FreeSlots, ScopesOf, Scopes
  <2>5. AskedOK(kind, Word("month"), today)
    BY DEF AskedOK, PeriodOK, Period, Words, Word, KindOfCode
  <2>6. PICK k : k = Handler(kind, m, edits, PeriodWork(Word("month"), scope, 0))
    OBVIOUS
  <2>7. PeriodTaskOK(k, begun, today)
    BY <1>0, <2>2, <2>4, <2>5, <2>6, PressedOK
  <2>8. Only(t) /\ task'[t] = k
    BY <1>0, <2>3, <2>6, GoesOnly
  <2>9. \A n \in Slots : chat'[n] = Plain \/ chat'[n] = Nothing \/ chat'[n] = chat[n]
    BY <2>3 DEF ScrolledAway
  <2>. QED
    BY <2>1, <2>7, <2>8, <2>9, PeriodKeeps
<1>3. ASSUME NEW m \in Slots, PressButton(t, m) PROVE PeriodInv'
  <2>1. UNCHANGED <<section, today, begun, chat>> /\ chat[m].is = "screen"
    BY <1>3 DEF PressButton, clock
  <2>2. section = "period" /\ ScreenOK(chat[m], today)
    BY <2>1 DEF PeriodInv, Nothing, Frame, Plain
  <2>3. PICK s : s = chat[m]
    OBVIOUS
  <2>4. PICK button, n, edits, shifts :
          /\ button \in Buttons(s) /\ n \in Slots
          /\ shifts = (IF button[1] = s.prev THEN s.shifts + 1
                       ELSE IF button[1] = s.own THEN s.shifts ELSE 0)
          /\ shifts <= MaxShifts
          /\ Goes(t, Handler(s.kind, n, edits, PeriodWork(button[1], button[2], shifts)))
    BY <1>3, <2>3 DEF PressButton, FreeSlots
  <2>5. shifts \in 0 .. MaxShifts /\ s.kind \in Kinds.period
    <3>1. s.shifts \in 0 .. MaxShifts /\ s.kind \in Kinds.period
      BY <2>2, <2>3 DEF ScreenOK
    <3>. QED
      BY <2>4, <3>1, MenuAssumption
  <2>6. AskedOK(s.kind, button[1], today) /\ button[2] \in Scopes
    BY <1>0, <2>2, <2>3, <2>4, ButtonsAsk DEF DaysOK
  <2>7. PICK k : k = Handler(s.kind, n, edits, PeriodWork(button[1], button[2], shifts))
    OBVIOUS
  <2>8. PeriodTaskOK(k, begun, today)
    <3>1. PICK p, scope, kind : p = button[1] /\ scope = button[2] /\ kind = s.kind
      OBVIOUS
    <3>2. k = Handler(kind, n, edits, PeriodWork(p, scope, shifts)) /\ n \in Slots
      BY <2>4, <2>7, <3>1
    <3>. QED
      BY <1>0, <2>5, <2>6, <3>1, <3>2, PressedOK
  <2>9. Only(t) /\ task'[t] = k
    BY <1>0, <2>4, <2>7, GoesOnly
  <2>. QED
    BY <2>1, <2>8, <2>9, PeriodKeeps
<1>. QED
  BY <1>1, <1>2, <1>3

LEMMA PeriodPressTwice ==
  ASSUME PeriodInv, DeliveryInv, NEW t \in Tasks, NEW u \in Tasks, PressTwice(t, u)
  PROVE  PeriodInv'
<1>0. DaysOK /\ Shape
  BY DEF PeriodInv, DeliveryInv
<1>1. /\ UNCHANGED <<section, today, begun, chat>> /\ task[u].at = "frame"
      /\ Goes(t, [task[u] EXCEPT !.work.pressed = today])
  BY DEF PressTwice, clock
<1>2. Only(t) /\ task'[t] = [task[u] EXCEPT !.work.pressed = today]
  BY <1>0, <1>1, GoesOnly
<1>3. ASSUME section = "period" PROVE PeriodTaskOK(task'[t], begun, today)
  <2>1. PICK k : k = task[u] /\ PeriodTaskOK(k, begun, today) /\ k.at = "frame"
    BY <1>1, <1>3 DEF PeriodInv, EndedOK
  <2>2. DOMAIN k = Fields /\ DOMAIN k.work = WorkFields /\ WorkOK(k.kind, k.work, begun, today)
        /\ Working(k, today)
    BY <2>1 DEF PeriodTaskOK, WorkOK, Drawn
  <2>. DEFINE n == [k EXCEPT !.work.pressed = today]
  <2>3. /\ DOMAIN n = Fields /\ n.at = k.at /\ n.kind = k.kind /\ n.msg = k.msg
        /\ n.rich = k.rich /\ n.plain = k.plain /\ n.sent = k.sent /\ n.told = k.told
        /\ n.work = [k.work EXCEPT !.pressed = today]
    BY <2>2 DEF Fields
  <2>4. task'[t] = n
    BY <1>2, <2>1
  <2>. HIDE DEF n
  <2>5. /\ DOMAIN n.work = WorkFields /\ n.work.asked = k.work.asked /\ n.work.scope = k.work.scope
        /\ n.work.left = k.work.left /\ n.work.from = k.work.from /\ n.work.month = k.work.month
        /\ n.work.rendering = k.work.rendering /\ n.work.pressed = today
        /\ n.work.shifts = k.work.shifts /\ n.work.shown = k.work.shown
    BY <2>2, <2>3 DEF WorkFields
  <2>6. today \in begun .. today
    BY <1>0 DEF DaysOK
  <2>7. WorkOK(n.kind, n.work, begun, today) /\ Working(n, today)
    BY <2>1, <2>2, <2>3, <2>5, <2>6 DEF WorkOK, Working
  <2>. QED
    BY <2>1, <2>3, <2>4, <2>7 DEF PeriodTaskOK
<1>. QED
  BY <1>1, <1>2, <1>3, PeriodKeeps

(* The frame.                                                              *)
LEMMA PeriodFrame ==
  ASSUME PeriodInv, DeliveryInv, NEW t \in Tasks,
         ShowFrame(t) \/ Animate(t) \/ ProducerFails(t)
  PROVE  PeriodInv'
<1>0. DaysOK /\ Shape
  BY DEF PeriodInv, DeliveryInv
<1>1. UNCHANGED <<section, today, begun>>
  BY DEF ShowFrame, Animate, ProducerFails, clock
<1>2. /\ (\E what \in {Nothing, Frame, Plain} : Shows(task[t].msg, what)) \/ UNCHANGED chat
      /\ \/ UNCHANGED task \/ Raises(t)
         \/ task[t].at = "frame" /\ Goes(t, [task[t] EXCEPT !.at = FirstStep(task[t].kind)])
  BY DEF ShowFrame, Animate, ProducerFails
<1>3. \A m \in Slots : chat'[m] = chat[m] \/ chat'[m] \in {Nothing, Frame, Plain}
  BY <1>0, <1>2 DEF Shows, Shape
<1>4. CASE UNCHANGED task
  BY <1>0, <1>1, <1>3, <1>4, PeriodKeeps DEF Only, Shape, PeriodInv
<1>5. CASE Raises(t)
  <2>1. Only(t) /\ task'[t] = Idle
    BY <1>0, <1>5, GoesOnly DEF Raises
  <2>2. EndedOK(Idle)
    BY DEF EndedOK, Idle
  <2>. QED
    BY <1>1, <1>3, <2>1, <2>2, PeriodKeeps
<1>6. CASE task[t].at = "frame" /\ Goes(t, [task[t] EXCEPT !.at = FirstStep(task[t].kind)])
  <2>1. Only(t) /\ task'[t] = [task[t] EXCEPT !.at = FirstStep(task[t].kind)]
    BY <1>0, <1>6, GoesOnly
  <2>2. ASSUME section = "period" PROVE PeriodTaskOK(task'[t], begun, today)
    <3>1. PICK k : k = task[t] /\ PeriodTaskOK(k, begun, today) /\ k.at = "frame"
      BY <1>6, <2>2 DEF PeriodInv, EndedOK
    <3>2. FirstStep(k.kind) = "refresh"
      BY <3>1, KindsOfPeriod DEF PeriodTaskOK, FirstStep
    <3>. DEFINE n == [k EXCEPT !.at = "refresh"]
    <3>3. /\ DOMAIN n = Fields /\ n.at = "refresh" /\ n.kind = k.kind /\ n.msg = k.msg
          /\ n.rich = k.rich /\ n.plain = k.plain /\ n.sent = k.sent /\ n.told = k.told
          /\ n.work = k.work
      BY <3>1 DEF PeriodTaskOK, Fields
    <3>4. task'[t] = n
      BY <2>1, <3>1, <3>2
    <3>. HIDE DEF n
    <3>. QED
      BY <3>1, <3>3, <3>4 DEF PeriodTaskOK, Working, Drawn
  <2>. QED
    BY <1>1, <1>3, <2>1, <2>2, PeriodKeeps
<1>. QED
  BY <1>2, <1>4, <1>5, <1>6

(* A handler that produces keeps what it was asked.                        *)
Same(n, k) ==
  /\ DOMAIN n = Fields /\ n.kind = k.kind /\ n.msg = k.msg
  /\ n.rich = k.rich /\ n.plain = k.plain /\ n.sent = k.sent /\ n.told = k.told
  /\ DOMAIN n.work = WorkFields /\ n.work.asked = k.work.asked /\ n.work.scope = k.work.scope
  /\ n.work.shifts = k.work.shifts /\ n.work.pressed = k.work.pressed

Rendering(k) == [k EXCEPT !.at = "sum", !.work.left = k.work.scope]

LEMMA BeginsAre ==
  ASSUME NEW k, NEW x, Same(x, k)
  PROVE  /\ Same(Rendering(x), k) /\ Rendering(x).at = "sum"
         /\ Rendering(x).work.left = x.work.scope
         /\ Rendering(x).work.from = x.work.from /\ Rendering(x).work.month = x.work.month
         /\ Rendering(x).work.rendering = x.work.rendering
         /\ Rendering(x).work.shown = x.work.shown
<1>. DEFINE n == Rendering(x)
<1>. USE DEF Rendering
<1>1. /\ DOMAIN n = Fields /\ n.at = "sum" /\ n.kind = x.kind /\ n.msg = x.msg
      /\ n.rich = x.rich /\ n.plain = x.plain /\ n.sent = x.sent /\ n.told = x.told
      /\ n.work = [x.work EXCEPT !.left = x.work.scope]
  BY DEF Same, Fields
<1>2. /\ DOMAIN n.work = WorkFields /\ n.work.left = x.work.scope
      /\ n.work.asked = x.work.asked /\ n.work.scope = x.work.scope
      /\ n.work.shifts = x.work.shifts /\ n.work.pressed = x.work.pressed
      /\ n.work.from = x.work.from /\ n.work.month = x.work.month
      /\ n.work.rendering = x.work.rendering /\ n.work.shown = x.work.shown
  <2> HIDE DEF n
  <2>. QED
    BY <1>1 DEF Same, WorkFields
<1>. HIDE DEF n
<1>3. /\ Same(n, k) /\ n.at = "sum" /\ n.work.left = x.work.scope
      /\ n.work.from = x.work.from /\ n.work.month = x.work.month
      /\ n.work.rendering = x.work.rendering /\ n.work.shown = x.work.shown
  BY <1>1, <1>2 DEF Same
<1>. QED
  BY <1>3 DEF n

LEMMA WorkingOK ==
  ASSUME NEW k, NEW b, NEW d, PeriodTaskOK(k, b, d), k.at \in {"refresh", "sum", "label"},
         NEW n, Same(n, k), n.at \in {"refresh", "sum", "label"},
         n.work.left \in 0 .. n.work.scope, n.at # "label" => n.work.left # 0,
         n.work.from \subseteq Firsts(k.work.asked, k.work.pressed, d), n.work.month \in Int,
         n.kind = "kpi" /\ n.at \in {"sum", "label"} =>
           n.work.month \in Firsts(k.work.asked, k.work.pressed, d),
         n.work.rendering \in {"rich", "plain"},
         n.work.rendering = "plain" => ShownOK(n.work.shown, d)
  PROVE  PeriodTaskOK(n, b, d)
<1>1. WorkOK(n.kind, n.work, b, d)
  BY DEF PeriodTaskOK, WorkOK, Same
<1>2. Working(n, d)
  BY DEF PeriodTaskOK, Working, Drawn, Same
<1>. QED
  BY <1>1, <1>2 DEF PeriodTaskOK, Same

(* The first day a handler uses now.                                       *)
LEMMA UsesFirst ==
  ASSUME DaysOK, NEW k, PeriodTaskOK(k, begun, today)
  PROVE  /\ KindAndStart(k.work.asked, today)[2] \in Firsts(k.work.asked, k.work.pressed, today)
         /\ PeriodBounds(k.work.asked, today)[1] \in Firsts(k.work.asked, k.work.pressed, today)
         /\ k.kind = "kpi" =>
              MonthFromPeriod(k.work.asked, today) \in Firsts(k.work.asked, k.work.pressed, today)
         /\ KindAndStart(k.work.asked, today)[2] \in Int
<1>1. AskedOK(k.kind, k.work.asked, today) /\ k.work.pressed \in begun .. today
  BY DEF PeriodTaskOK, WorkOK
<1>2. k.work.pressed \in Int /\ k.work.pressed <= today /\ today \in Int
  BY <1>1 DEF DaysOK
<1>3. k.kind = "kpi" => MonthFromPeriod(k.work.asked, today) = KindAndStart(k.work.asked, today)[2]
  BY <1>1, <1>2, MonthAsked
<1>4. KindAndStart(k.work.asked, today)[2] \in Int
  BY <1>1, <1>2, KindAndStartIs DEF AskedOK, IsStart
<1>. QED
  BY <1>1, <1>2, <1>3, <1>4, FirstsAre

LEMMA PeriodRefresh ==
  ASSUME DaysOK, Shape, NEW t \in Tasks, RefreshPeriod(t), PeriodTaskOK(task[t], begun, today)
  PROVE  PeriodTaskOK(task'[t], begun, today)
<1>1. PICK k : k = task[t]
  OBVIOUS
<1>2. k.at = "refresh" /\ PeriodTaskOK(k, begun, today)
  BY <1>1 DEF RefreshPeriod
<1>3. /\ DOMAIN k = Fields /\ DOMAIN k.work = WorkFields /\ Same(k, k)
      /\ k.work.month \in Int /\ k.work.scope \in Nat /\ k.work.scope # 0
      /\ k.work.left \in 1 .. k.work.scope
      /\ k.work.from \subseteq Firsts(k.work.asked, k.work.pressed, today)
      /\ k.work.rendering \in {"rich", "plain"}
      /\ k.work.rendering = "plain" => ShownOK(k.work.shown, today)
  <2>1. k.work.scope \in Nat /\ k.work.scope # 0
    BY SMTT(30), <1>2, MenuAssumption DEF PeriodTaskOK, WorkOK, Scopes
  <2>2. Working(k, today)
    BY <1>2 DEF PeriodTaskOK, Drawn
  <2>. QED
    BY <1>2, <2>1, <2>2 DEF PeriodTaskOK, WorkOK, Working, Same
<1>. DEFINE first == PeriodBounds(k.work.asked, today)[1]
            month == MonthFromPeriod(k.work.asked, today)
            ahead == IF k.kind = "kpi" THEN [k EXCEPT !.work.month = month] ELSE k
            done == [ahead EXCEPT !.work.left = @ - 1, !.work.from = @ \cup {first}]
            F == Firsts(k.work.asked, k.work.pressed, today)
<1>4. \/ k.work.left > 1 /\ Goes(t, done)
      \/ BeginsRendering(t, done) \/ BeginsRendering(t, ahead)
  BY <1>1 DEF RefreshPeriod
<1>5. /\ first \in F /\ (k.kind = "kpi" => month \in F)
      /\ k.kind = "kpi" => month \in Int
  <2>1. k.kind = "kpi" => month = KindAndStart(k.work.asked, today)[2]
    BY <1>2, MonthAsked DEF PeriodTaskOK, WorkOK, DaysOK
  <2>. QED
    BY <1>2, <2>1, UsesFirst
<1>. HIDE DEF first, month
<1>6. /\ Same(ahead, k) /\ ahead.at = "refresh" /\ ahead.work.left = k.work.left
      /\ ahead.work.from = k.work.from /\ ahead.work.rendering = k.work.rendering
      /\ ahead.work.shown = k.work.shown
      /\ ahead.work.month = IF k.kind = "kpi" THEN month ELSE k.work.month
  <2>1. CASE k.kind = "kpi"
    <3>. DEFINE n == [k EXCEPT !.work.month = month]
    <3>1. /\ DOMAIN n = Fields /\ n.at = k.at /\ n.kind = k.kind /\ n.msg = k.msg
          /\ n.rich = k.rich /\ n.plain = k.plain /\ n.sent = k.sent /\ n.told = k.told
          /\ n.work = [k.work EXCEPT !.month = month]
      BY <1>3 DEF Fields
    <3>2. ahead = n
      BY <2>1
    <3>. HIDE DEF n
    <3>3. /\ DOMAIN n.work = WorkFields /\ n.work.left = k.work.left
          /\ n.work.asked = k.work.asked /\ n.work.scope = k.work.scope
          /\ n.work.shifts = k.work.shifts /\ n.work.pressed = k.work.pressed
          /\ n.work.from = k.work.from /\ n.work.month = month
          /\ n.work.rendering = k.work.rendering /\ n.work.shown = k.work.shown
      BY <1>3, <3>1 DEF WorkFields
    <3>. QED
      BY <1>2, <2>1, <3>1, <3>2, <3>3 DEF Same
  <2>2. CASE k.kind # "kpi"
    BY <1>2, <1>3, <2>2
  <2>. QED
    BY <2>1, <2>2
<1>. HIDE DEF ahead
<1>7. /\ Same(done, k) /\ done.at = "refresh" /\ done.work.left = k.work.left - 1
      /\ done.work.from = k.work.from \cup {first} /\ done.work.rendering = k.work.rendering
      /\ done.work.shown = k.work.shown /\ done.work.month = ahead.work.month
  <2>1. /\ DOMAIN done = Fields /\ done.at = ahead.at /\ done.kind = ahead.kind /\ done.msg = ahead.msg
        /\ done.rich = ahead.rich /\ done.plain = ahead.plain /\ done.sent = ahead.sent
        /\ done.told = ahead.told
        /\ done.work = [ahead.work EXCEPT !.left = @ - 1, !.from = @ \cup {first}]
    BY <1>6 DEF Same, Fields
  <2>. HIDE DEF done
  <2>2. /\ DOMAIN done.work = WorkFields /\ done.work.left = ahead.work.left - 1
        /\ done.work.from = ahead.work.from \cup {first}
        /\ done.work.asked = ahead.work.asked /\ done.work.scope = ahead.work.scope
        /\ done.work.shifts = ahead.work.shifts /\ done.work.pressed = ahead.work.pressed
        /\ done.work.month = ahead.work.month
        /\ done.work.rendering = ahead.work.rendering /\ done.work.shown = ahead.work.shown
    BY <1>6, <2>1 DEF Same, WorkFields
  <2>. QED
    BY <1>6, <2>1, <2>2 DEF Same
<1>. HIDE DEF done
<1>8. k.kind = "kpi" => ahead.work.month \in F
  BY <1>5, <1>6
<1>9. ahead.work.month \in Int
  BY <1>3, <1>5, <1>6
<1>. HIDE DEF F
<1>10. ASSUME NEW x \in {done, ahead}, BeginsRendering(t, x) PROVE PeriodTaskOK(task'[t], begun, today)
  <2>1. Same(x, k) /\ x.work.from \subseteq F /\ x.work.month = ahead.work.month
        /\ x.work.rendering = k.work.rendering /\ x.work.shown = k.work.shown
    BY <1>3, <1>5, <1>6, <1>7 DEF F
  <2>2. PICK n : n = Rendering(x)
    OBVIOUS
  <2>3. task'[t] = n
    BY <1>10, <2>2, GoesOnly DEF BeginsRendering, Rendering
  <2>4. /\ Same(n, k) /\ n.at = "sum" /\ n.work.left = x.work.scope
        /\ n.work.from = x.work.from /\ n.work.month = x.work.month
        /\ n.work.rendering = x.work.rendering /\ n.work.shown = x.work.shown
    BY <2>1, <2>2, BeginsAre
  <2>5. n.work.left \in 0 .. n.work.scope /\ n.work.left # 0
    BY <1>3, <2>1, <2>4 DEF Same
  <2>. QED
    BY <1>2, <1>3, <1>8, <1>9, <2>1, <2>3, <2>4, <2>5, WorkingOK DEF F, Same
<1>11. CASE k.work.left > 1 /\ Goes(t, done)
  <2>1. task'[t] = done
    BY <1>11, GoesOnly
  <2>2. done.work.left \in 0 .. done.work.scope /\ done.work.left # 0
    BY <1>3, <1>7, <1>11 DEF Same
  <2>. QED
    BY <1>2, <1>3, <1>5, <1>7, <1>9, <2>1, <2>2, WorkingOK DEF F
<1>. QED
  BY <1>4, <1>10, <1>11

(* What is known of a handler that produces.                               *)
LEMMA WorkingIs ==
  ASSUME DaysOK, NEW k, PeriodTaskOK(k, begun, today), k.at \in {"refresh", "sum", "label"}
  PROVE  /\ DOMAIN k = Fields /\ DOMAIN k.work = WorkFields /\ Same(k, k)
         /\ k.work.month \in Int /\ k.work.scope \in Nat /\ k.work.scope # 0
         /\ k.work.left \in 0 .. k.work.scope /\ (k.at # "label" => k.work.left # 0)
         /\ k.work.from \subseteq Firsts(k.work.asked, k.work.pressed, today)
         /\ k.work.rendering \in {"rich", "plain"}
         /\ k.work.rendering = "plain" => ShownOK(k.work.shown, today)
         /\ k.kind = "kpi" /\ k.at \in {"sum", "label"} =>
              k.work.month \in Firsts(k.work.asked, k.work.pressed, today)
<1>1. k.work.scope \in Nat /\ k.work.scope # 0
  BY MenuAssumption DEF PeriodTaskOK, WorkOK, Scopes
<1>2. Working(k, today)
  BY DEF PeriodTaskOK, Drawn
<1>. QED
  BY <1>1, <1>2 DEF PeriodTaskOK, WorkOK, Working, Same

LEMMA PeriodRefreshTeam ==
  ASSUME DaysOK, Shape, NEW t \in Tasks, RefreshTeamPeriod(t), PeriodTaskOK(task[t], begun, today)
  PROVE  PeriodTaskOK(task'[t], begun, today)
<1>1. PICK k : k = task[t]
  OBVIOUS
<1>2. k.at = "refresh" /\ k.kind = "team" /\ PeriodTaskOK(k, begun, today)
  BY <1>1 DEF RefreshTeamPeriod
<1>. DEFINE first == PeriodBounds(k.work.asked, today)[1]
            F == Firsts(k.work.asked, k.work.pressed, today)
            done == [k EXCEPT !.work.from = @ \cup {first}]
<1>3. BeginsRendering(t, done) \/ BeginsRendering(t, k)
  BY <1>1 DEF RefreshTeamPeriod
<1>4. first \in F
  BY <1>2, UsesFirst
<1>. HIDE DEF first
<1>5. DOMAIN k = Fields /\ DOMAIN k.work = WorkFields /\ Same(k, k)
  BY <1>2, WorkingIs
<1>6. /\ Same(done, k) /\ done.work.from = k.work.from \cup {first} /\ done.work.month = k.work.month
      /\ done.work.rendering = k.work.rendering /\ done.work.shown = k.work.shown
  <2>1. /\ DOMAIN done = Fields /\ done.at = k.at /\ done.kind = k.kind /\ done.msg = k.msg
        /\ done.rich = k.rich /\ done.plain = k.plain /\ done.sent = k.sent /\ done.told = k.told
        /\ done.work = [k.work EXCEPT !.from = @ \cup {first}]
    BY <1>5 DEF Fields
  <2>. HIDE DEF done
  <2>2. /\ DOMAIN done.work = WorkFields /\ done.work.from = k.work.from \cup {first}
        /\ done.work.asked = k.work.asked /\ done.work.scope = k.work.scope
        /\ done.work.shifts = k.work.shifts /\ done.work.pressed = k.work.pressed
        /\ done.work.month = k.work.month
        /\ done.work.rendering = k.work.rendering /\ done.work.shown = k.work.shown
    BY <1>5, <2>1 DEF WorkFields
  <2>. QED
    BY <2>1, <2>2 DEF Same
<1>. HIDE DEF done, F
<1>7. ASSUME NEW x \in {done, k}, BeginsRendering(t, x) PROVE PeriodTaskOK(task'[t], begun, today)
  <2>0. /\ k.work.from \subseteq F /\ k.work.rendering \in {"rich", "plain"} /\ k.work.month \in Int
        /\ k.work.rendering = "plain" => ShownOK(k.work.shown, today)
    BY <1>2, WorkingIs DEF F
  <2>1. Same(x, k) /\ x.work.from \subseteq F /\ x.work.month = k.work.month
        /\ x.work.rendering = k.work.rendering /\ x.work.shown = k.work.shown
    BY <1>4, <1>5, <1>6, <2>0
  <2>2. PICK n : n = Rendering(x)
    OBVIOUS
  <2>3. task'[t] = n
    BY <1>7, <2>2, GoesOnly DEF BeginsRendering, Rendering
  <2>4. /\ Same(n, k) /\ n.at = "sum" /\ n.work.left = x.work.scope
        /\ n.work.from = x.work.from /\ n.work.month = x.work.month
        /\ n.work.rendering = x.work.rendering /\ n.work.shown = x.work.shown
    BY <2>1, <2>2, BeginsAre
  <2>5. n.work.left \in 0 .. n.work.scope /\ n.work.left # 0
    <3>1. k.work.scope \in Nat /\ k.work.scope # 0
      BY <1>2, WorkingIs
    <3>. QED
      BY <2>1, <2>4, <3>1 DEF Same
  <2>6. n.kind # "kpi"
    BY <1>2, <2>4 DEF Same
  <2>. QED
    BY <1>2, <2>0, <2>1, <2>3, <2>4, <2>5, <2>6, WorkingOK DEF F
<1>. QED
  BY <1>3, <1>7

LEMMA PeriodSum ==
  ASSUME DaysOK, Shape, NEW t \in Tasks, SumEmployee(t) \/ SumTeam(t) \/ SumMonth(t),
         PeriodTaskOK(task[t], begun, today)
  PROVE  PeriodTaskOK(task'[t], begun, today)
<1>1. PICK k : k = task[t]
  OBVIOUS
<1>2. k.at = "sum" /\ PeriodTaskOK(k, begun, today)
  BY <1>1 DEF SumEmployee, SumTeam, SumMonth
<1>. DEFINE F == Firsts(k.work.asked, k.work.pressed, today)
<1>3. PICK first \in F : SumsUp(t, first)
  <2>1. CASE SumEmployee(t) \/ SumTeam(t)
    <3>1. PeriodBounds(k.work.asked, today)[1] \in F
      BY <1>2, UsesFirst
    <3>. QED
      BY <1>1, <2>1, <3>1 DEF SumEmployee, SumTeam
  <2>2. CASE SumMonth(t)
    <3>1. k.kind = "kpi"
      BY <1>1, <2>2 DEF SumMonth
    <3>2. k.work.month \in F
      BY <1>2, <3>1, WorkingIs
    <3>. QED
      BY <1>1, <2>2, <3>2 DEF SumMonth
  <2>. QED
    BY <2>1, <2>2
<1>4. /\ DOMAIN k = Fields /\ DOMAIN k.work = WorkFields
      /\ k.work.month \in Int /\ k.work.left \in 0 .. k.work.scope /\ k.work.left # 0
      /\ k.work.scope \in Nat /\ k.work.from \subseteq F
      /\ k.work.rendering \in {"rich", "plain"}
      /\ k.work.rendering = "plain" => ShownOK(k.work.shown, today)
      /\ k.kind = "kpi" => k.work.month \in F
  BY <1>2, WorkingIs
<1>. DEFINE n == [k EXCEPT !.work.from = @ \cup {first}, !.work.left = @ - 1,
                           !.at = IF k.work.left = 1 THEN "label" ELSE "sum"]
<1>5. task'[t] = n
  BY <1>1, <1>3, GoesOnly DEF SumsUp
<1>6. /\ DOMAIN n = Fields /\ n.at = (IF k.work.left = 1 THEN "label" ELSE "sum")
      /\ n.kind = k.kind /\ n.msg = k.msg
      /\ n.rich = k.rich /\ n.plain = k.plain /\ n.sent = k.sent /\ n.told = k.told
      /\ n.work = [[k.work EXCEPT !.from = @ \cup {first}] EXCEPT !.left = @ - 1]
  BY <1>4 DEF Fields
<1>. HIDE DEF n
<1>7. /\ DOMAIN n.work = WorkFields /\ n.work.from = k.work.from \cup {first}
      /\ n.work.left = k.work.left - 1
      /\ n.work.asked = k.work.asked /\ n.work.scope = k.work.scope
      /\ n.work.shifts = k.work.shifts /\ n.work.pressed = k.work.pressed
      /\ n.work.month = k.work.month
      /\ n.work.rendering = k.work.rendering /\ n.work.shown = k.work.shown
  BY <1>4, <1>6 DEF WorkFields
<1>8. Same(n, k)
  BY <1>6, <1>7 DEF Same
<1>9. /\ n.at \in {"refresh", "sum", "label"}
      /\ n.work.left \in 0 .. n.work.scope /\ (n.at # "label" => n.work.left # 0)
  BY <1>4, <1>6, <1>7
<1>10. n.work.from \subseteq F
  BY <1>3, <1>4, <1>7
<1>. HIDE DEF F
<1>. QED
  BY <1>2, <1>4, <1>5, <1>6, <1>7, <1>8, <1>9, <1>10, WorkingOK DEF F

(* The days of the label.                                                  *)
LEMMA LabelIs ==
  ASSUME DaysOK, NEW k, PeriodTaskOK(k, begun, today), k.at = "label"
  PROVE  /\ Label(k)[1] \in Firsts(k.work.asked, k.work.pressed, today)
         /\ ShownOK(Label(k), today)
<1>1. AskedOK(k.kind, k.work.asked, today) /\ today \in Int /\ begun \in Int
      /\ k.work.pressed \in Int
  BY DEF PeriodTaskOK, WorkOK, DaysOK
<1>2. CASE k.kind = "kpi"
  <2>1. k.work.month \in Firsts(k.work.asked, k.work.pressed, today)
    BY <1>2, WorkingIs
  <2>2. IsStart("month", k.work.month) /\ k.work.month <= today
    BY <1>1, <1>2, <2>1, MonthFirsts
  <2>3. Label(k) = MonthBounds(k.work.month, today)
    BY <1>2 DEF Label
  <2>. QED
    BY <1>1, <2>1, <2>2, <2>3, MonthBoundsAre
<1>3. CASE k.kind # "kpi"
  <2>1. Label(k) = PeriodBounds(k.work.asked, today)
    BY <1>3 DEF Label
  <2>2. PeriodBounds(k.work.asked, today)[1] \in Firsts(k.work.asked, k.work.pressed, today)
    BY UsesFirst
  <2>3. PeriodOK(k.work.asked, today)
    BY <1>1 DEF AskedOK
  <2>4. ShownOK(PeriodBounds(k.work.asked, today), today)
    BY <1>1, <2>3, BoundsAre DEF ShownOK
  <2>. QED
    BY <2>1, <2>2, <2>4
<1>. QED
  BY <1>2, <1>3

LEMMA PeriodLabelRich ==
  ASSUME DaysOK, Shape, NEW t \in Tasks, LabelRich(t), PeriodTaskOK(task[t], begun, today)
  PROVE  PeriodTaskOK(task'[t], begun, today)
<1>1. PICK k : k = task[t]
  OBVIOUS
<1>2. k.at = "label" /\ PeriodTaskOK(k, begun, today)
  BY <1>1 DEF LabelRich
<1>. DEFINE F == Firsts(k.work.asked, k.work.pressed, today)
<1>3. PICK days : days = Label(k) /\ days[1] \in F /\ ShownOK(days, today)
  BY <1>2, LabelIs
<1>4. /\ DOMAIN k = Fields /\ DOMAIN k.work = WorkFields
      /\ k.work.month \in Int /\ k.work.scope \in Nat /\ k.work.scope # 0 /\ k.work.from \subseteq F
      /\ k.kind = "kpi" => k.work.month \in F
  BY <1>2, WorkingIs
<1>. DEFINE x == [k EXCEPT !.work.rendering = "plain", !.work.from = @ \cup {days[1]},
                           !.work.shown = days]
<1>5. BeginsRendering(t, x)
  BY <1>1, <1>3 DEF LabelRich
<1>6. /\ DOMAIN x = Fields /\ x.kind = k.kind /\ x.msg = k.msg
      /\ x.rich = k.rich /\ x.plain = k.plain /\ x.sent = k.sent /\ x.told = k.told
      /\ x.work = [[[k.work EXCEPT !.rendering = "plain"] EXCEPT !.from = @ \cup {days[1]}]
                      EXCEPT !.shown = days]
  BY <1>4 DEF Fields
<1>. HIDE DEF x
<1>7. /\ DOMAIN x.work = WorkFields /\ x.work.from = k.work.from \cup {days[1]}
      /\ x.work.rendering = "plain" /\ x.work.shown = days /\ x.work.month = k.work.month
      /\ x.work.asked = k.work.asked /\ x.work.scope = k.work.scope
      /\ x.work.shifts = k.work.shifts /\ x.work.pressed = k.work.pressed
  BY <1>4, <1>6 DEF WorkFields
<1>8. Same(x, k)
  BY <1>6, <1>7 DEF Same
<1>9. PICK n : n = Rendering(x)
  OBVIOUS
<1>10. task'[t] = n
  BY <1>5, <1>9, GoesOnly DEF BeginsRendering, Rendering
<1>11. /\ Same(n, k) /\ n.at = "sum" /\ n.work.left = x.work.scope
       /\ n.work.from = x.work.from /\ n.work.month = x.work.month
       /\ n.work.rendering = x.work.rendering /\ n.work.shown = x.work.shown
  BY <1>8, <1>9, BeginsAre
<1>12. /\ n.work.left \in 0 .. n.work.scope /\ n.work.left # 0
       /\ n.work.from \subseteq F
  BY <1>3, <1>4, <1>7, <1>11 DEF Same
<1>13. n.kind = k.kind
  BY <1>11 DEF Same
<1>. HIDE DEF F
<1>. QED
  BY <1>2, <1>3, <1>4, <1>7, <1>10, <1>11, <1>12, <1>13, WorkingOK DEF F

LEMMA PeriodLabelPlain ==
  ASSUME DaysOK, Shape, NEW t \in Tasks, LabelPlain(t), PeriodTaskOK(task[t], begun, today)
  PROVE  PeriodTaskOK(task'[t], begun, today)
<1>1. PICK k : k = task[t]
  OBVIOUS
<1>2. k.at = "label" /\ PeriodTaskOK(k, begun, today) /\ k.work.rendering = "plain"
  BY <1>1 DEF LabelPlain
<1>. DEFINE F == Firsts(k.work.asked, k.work.pressed, today)
<1>3. PICK first \in F : first = Label(k)[1]
  BY <1>2, LabelIs
<1>4. /\ DOMAIN k = Fields /\ DOMAIN k.work = WorkFields /\ k.work.from \subseteq F
      /\ WorkOK(k.kind, k.work, begun, today) /\ Working(k, today) /\ k.kind \in Kinds.period
      /\ k.msg \in Slots
  <2>1. Working(k, today)
    BY <1>2 DEF PeriodTaskOK, Drawn
  <2>. QED
    BY <1>2, <2>1 DEF PeriodTaskOK, WorkOK
<1>. DEFINE own == IF k.kind = "kpi" THEN MonthPeriod(k.work.asked, today)
                   ELSE CanonicalPeriod(k.work.asked, today)
            drawn == [is |-> "screen", kind |-> k.kind, scope |-> k.work.scope,
                      shifts |-> k.work.shifts, own |-> own, drawn |-> today,
                      prev |-> ShiftedPeriod(own, -1, today), next |-> ShiftedPeriod(own, 1, today)]
<1>5. PICK s : s = drawn
  OBVIOUS
<1>6. ScreenOK(s, today) /\ s.own.at \in F
  <2>1. PICK kind, p, scope, shifts, o :
          kind = k.kind /\ p = k.work.asked /\ scope = k.work.scope /\ shifts = k.work.shifts /\ o = own
    OBVIOUS
  <2>2. /\ kind \in Kinds.period /\ AskedOK(kind, p, today) /\ scope \in Scopes
        /\ shifts \in 0 .. MaxShifts /\ today \in Int
        /\ o = (IF kind = "kpi" THEN MonthPeriod(p, today) ELSE CanonicalPeriod(p, today))
    BY <1>4, <2>1 DEF WorkOK, DaysOK
  <2>3. s = [is |-> "screen", kind |-> kind, scope |-> scope, shifts |-> shifts,
             own |-> o, drawn |-> today,
             prev |-> ShiftedPeriod(o, -1, today), next |-> ShiftedPeriod(o, 1, today)]
    BY <1>5, <2>1
  <2>4. ScreenOK(s, today) /\ s.own.at = KindAndStart(p, today)[2]
    BY <2>2, <2>3, ScreenDrawn
  <2>5. KindAndStart(p, today)[2] \in F
    BY <1>2, <2>1, UsesFirst
  <2>. QED
    BY <2>4, <2>5
<1>7. Goes(t, [k EXCEPT !.at = "send", !.work.from = @ \cup {first}, !.rich = <<s>>, !.plain = <<s>>])
  BY <1>1, <1>3, <1>5 DEF LabelPlain
<1>. HIDE DEF drawn
<1>. DEFINE n == [k EXCEPT !.at = "send", !.work.from = @ \cup {first}, !.rich = <<s>>, !.plain = <<s>>]
<1>8. task'[t] = n
  BY <1>7, GoesOnly
<1>9. /\ DOMAIN n = Fields /\ n.at = "send" /\ n.kind = k.kind /\ n.msg = k.msg
      /\ n.rich = <<s>> /\ n.plain = <<s>> /\ n.sent = k.sent /\ n.told = k.told
      /\ n.work = [k.work EXCEPT !.from = @ \cup {first}]
  BY <1>4 DEF Fields
<1>. HIDE DEF n
<1>10. /\ DOMAIN n.work = WorkFields /\ n.work.from = k.work.from \cup {first}
       /\ n.work.rendering = k.work.rendering /\ n.work.shown = k.work.shown
       /\ n.work.month = k.work.month /\ n.work.left = k.work.left
       /\ n.work.asked = k.work.asked /\ n.work.scope = k.work.scope
       /\ n.work.shifts = k.work.shifts /\ n.work.pressed = k.work.pressed
  BY <1>4, <1>9 DEF WorkFields
<1>11. n.work.from \subseteq F
  BY <1>3, <1>4, <1>10
<1>12. WorkOK(n.kind, n.work, begun, today)
  BY <1>4, <1>9, <1>10, <1>11 DEF WorkOK
<1>13. Drawn(n, today)
  BY <1>2, <1>4, <1>6, <1>9, <1>10 DEF Drawn, Working
<1>. QED
  BY <1>4, <1>8, <1>9, <1>12, <1>13 DEF PeriodTaskOK

-----------------------------------------------------------------------------
(* The delivery of a screen.                                               *)

LEMMA DrawnIs ==
  ASSUME PeriodInv, section = "period", NEW t \in Tasks, task[t].at \in {"send", "delete", "fall"}
  PROVE  /\ PeriodTaskOK(task[t], begun, today) /\ Drawn(task[t], today)
         /\ DOMAIN task[t] = Fields
         /\ task[t].at \in {"send", "fall"} =>
              ScreenOK(task[t].rich[1], today) /\ ScreenOK(task[t].plain[1], today)
         /\ Len(task[t].rich) = 1 /\ Len(task[t].plain) = 1
<1>1. PeriodTaskOK(task[t], begun, today)
  BY DEF PeriodInv, EndedOK
<1>2. Drawn(task[t], today)
  BY <1>1 DEF PeriodTaskOK, Working
<1>3. PICK s : task[t].rich = <<s>> /\ task[t].plain = <<s>> /\ ScreenOK(s, today)
  BY <1>2 DEF Drawn
<1>. QED
  BY <1>1, <1>2, <1>3 DEF PeriodTaskOK

LEMMA PeriodSend ==
  ASSUME PeriodInv, DeliveryInv, NEW t \in Tasks, SendPart(t)
  PROVE  PeriodInv'
<1>0. DaysOK /\ Shape
  BY DEF PeriodInv, DeliveryInv
<1>1. task[t].at = "send" /\ UNCHANGED <<section, today, begun>>
  BY DEF SendPart, clock
<1>2. PICK k : k = task[t]
  OBVIOUS
<1>. DEFINE gone == [k EXCEPT !.sent = @ + 1,
                              !.at = IF k.sent + 1 = Len(k.rich) THEN "delete" ELSE "send"]
            falls == [k EXCEPT !.at = "fall"]
<1>3. \/ /\ Goes(t, gone)
         /\ IF section = "period" THEN \E m \in FreeSlots : Shows(m, k.rich[k.sent + 1])
            ELSE UNCHANGED chat
      \/ Goes(t, falls) /\ UNCHANGED chat
  BY <1>2 DEF SendPart
<1>4. CASE section # "period"
  <2>1. UNCHANGED chat /\ \E n : Goes(t, n)
    BY <1>3, <1>4
  <2>2. Only(t)
    BY <1>0, <2>1, GoesOnly
  <2>. QED
    BY <1>1, <1>4, <2>1, <2>2, PeriodKeeps
<1>5. CASE section = "period"
  <2>1. /\ PeriodTaskOK(k, begun, today) /\ Drawn(k, today) /\ DOMAIN k = Fields
        /\ ScreenOK(k.rich[1], today) /\ Len(k.rich) = 1
    BY <1>1, <1>2, <1>5, DrawnIs
  <2>2. k.sent = 0 /\ k.at = "send"
    BY <1>1, <1>2, <2>1 DEF Drawn
  <2>3. k.sent + 1 = 1
    BY <2>2
  <2>4. \A m \in Slots : chat'[m] = chat[m] \/ ScreenOK(chat'[m], today)
    <3>1. UNCHANGED chat \/ \E m \in Slots : Shows(m, k.rich[1])
      BY <1>3, <1>5, <2>3 DEF FreeSlots
    <3>. QED
      BY <1>0, <2>1, <3>1 DEF Shows, Shape
  <2>5. PICK n \in {gone, falls} : Goes(t, n)
    BY <1>3
  <2>6. /\ DOMAIN n = Fields /\ n.kind = k.kind /\ n.msg = k.msg /\ n.work = k.work
        /\ n.rich = k.rich /\ n.plain = k.plain /\ n.told = k.told
        /\ \/ n.at = "delete" /\ n.sent = 1
           \/ n.at = "fall" /\ n.sent = 0
    <3>1. CASE n = gone
      BY <2>1, <2>2, <2>3, <3>1 DEF Fields
    <3>2. CASE n = falls
      BY <2>1, <2>2, <3>2 DEF Fields
    <3>. QED
      BY <2>5, <3>1, <3>2
  <2>7. Drawn(n, today)
    BY <2>1, <2>6 DEF Drawn
  <2>8. PeriodTaskOK(n, begun, today)
    BY <2>1, <2>6, <2>7 DEF PeriodTaskOK
  <2>9. Only(t) /\ task'[t] = n
    BY <1>0, <2>5, GoesOnly
  <2>. QED
    BY <1>1, <1>5, <2>4, <2>8, <2>9, PeriodKeeps
<1>. QED
  BY <1>4, <1>5

LEMMA PeriodEnds ==
  ASSUME PeriodInv, DeliveryInv, NEW t \in Tasks, DeleteFrame(t) \/ EditPlain(t) \/ AnswerPlain(t)
  PROVE  PeriodInv'
<1>0. DaysOK /\ Shape
  BY DEF PeriodInv, DeliveryInv
<1>1. UNCHANGED <<section, today, begun>>
  BY DEF DeleteFrame, EditPlain, AnswerPlain, clock
<1>2. Only(t)
  <2>1. \E k : Goes(t, k)
    BY DEF DeleteFrame, EditPlain, AnswerPlain, Returns, Raises
  <2>. QED
    BY <1>0, <2>1, GoesOnly
<1>3. CASE DeleteFrame(t)
  <2>1. task[t].at = "delete" /\ Shows(task[t].msg, Nothing) /\ Returns(t, task[t])
    BY <1>3 DEF DeleteFrame
  <2>2. \A m \in Slots : chat'[m] = chat[m] \/ chat'[m] = Nothing
    BY <1>0, <2>1 DEF Shows, Shape
  <2>3. ASSUME section = "period" PROVE EndedOK(task'[t])
    <3>1. task[t].sent = Len(task[t].rich)
      BY <2>1, <2>3, DrawnIs DEF Drawn
    <3>2. task'[t] = [Idle EXCEPT !.lost = FALSE]
      BY <1>0, <2>1, <3>1 DEF Returns, Goes, Shape
    <3>. QED
      BY <3>2 DEF EndedOK, Idle
  <2>. QED
    BY <1>1, <1>2, <2>2, <2>3, PeriodKeeps
<1>4. CASE EditPlain(t)
  <2>. DEFINE k == [task[t] EXCEPT !.told = 1, !.at = "rest"]
  <2>1. /\ task[t].at = "fall"
        /\ \/ /\ Shows(k.msg, IF section = "period" THEN k.plain[1] ELSE Plain)
              /\ IF Len(k.plain) = 1 THEN Returns(t, k) ELSE Goes(t, k)
           \/ Shows(k.msg, Nothing) /\ Raises(t)
    BY <1>4 DEF EditPlain
  <2>2. CASE section # "period"
    <3>1. \A m \in Slots : chat'[m] = chat[m] \/ chat'[m] \in {Nothing, Plain}
      BY <1>0, <2>1, <2>2 DEF Shows, Shape
    <3>. QED
      BY <1>1, <1>2, <2>2, <3>1, PeriodKeeps
  <2>3. CASE section = "period"
    <3>1. DOMAIN task[t] = Fields /\ ScreenOK(task[t].plain[1], today) /\ Len(task[t].plain) = 1
      BY <2>1, <2>3, DrawnIs
    <3>2. k.plain = task[t].plain /\ k.told = 1 /\ k.rich = task[t].rich /\ k.sent = task[t].sent
      BY <3>1 DEF Fields
    <3>. HIDE DEF k
    <3>3. \A m \in Slots : chat'[m] = chat[m] \/ chat'[m] = Nothing \/ ScreenOK(chat'[m], today)
      BY <1>0, <2>1, <2>3, <3>1, <3>2 DEF Shows, Shape
    <3>4. EndedOK(task'[t])
      <4>1. CASE Returns(t, k)
        <5>1. task'[t] = [Idle EXCEPT !.lost = FALSE]
          BY <1>0, <3>1, <3>2, <4>1 DEF Returns, Goes, Shape
        <5>. QED
          BY <5>1 DEF EndedOK, Idle
      <4>2. CASE Raises(t)
        BY <1>0, <4>2 DEF Raises, Goes, Shape, EndedOK, Idle
      <4>. QED
        BY <2>1, <3>1, <3>2, <4>1, <4>2
    <3>. QED
      BY <1>1, <1>2, <2>3, <3>3, <3>4, PeriodKeeps
  <2>. QED
    BY <2>2, <2>3
<1>5. CASE AnswerPlain(t)
  <2>1. task[t].at = "rest" /\ UNCHANGED chat
    BY <1>5 DEF AnswerPlain
  <2>2. section # "period"
    BY <2>1 DEF PeriodInv, PeriodTaskOK, EndedOK, Working, Drawn
  <2>. QED
    BY <1>1, <1>2, <2>1, <2>2, PeriodKeeps
<1>. QED
  BY <1>3, <1>4, <1>5

LEMMA PeriodInductive ==
  ASSUME PeriodInv, DeliveryInv, section \in Sections, [Next]_vars
  PROVE  PeriodInv'
<1>0. DaysOK /\ Shape
  BY DEF PeriodInv, DeliveryInv
<1>1. ASSUME NEW t \in Tasks, Step(t) PROVE PeriodInv'
  <2>1. CASE \/ PressGoods(t) \/ PressGrade(t) \/ \E m \in Slots : PressButton(t, m)
             \/ \E kind \in Kinds[section] : PressMenu(t, kind)
    BY <2>1, PeriodPress
  <2>2. CASE \E u \in Tasks : PressTwice(t, u)
    BY <2>2, PeriodPressTwice
  <2>3. CASE ShowFrame(t) \/ Animate(t) \/ ProducerFails(t)
    BY <2>3, PeriodFrame
  <2>4. CASE RefreshPeriod(t) \/ RefreshTeamPeriod(t) \/ SumEmployee(t) \/ SumTeam(t) \/ SumMonth(t)
               \/ LabelRich(t) \/ LabelPlain(t)
    <3>1. task[t].at \in {"refresh", "sum", "label"} /\ UNCHANGED <<section, today, begun, chat>>
      BY <2>4 DEF RefreshPeriod, RefreshTeamPeriod, SumEmployee, SumTeam, SumMonth, LabelRich,
         LabelPlain, clock
    <3>2. Only(t)
      <4>1. \E k : Goes(t, k)
        BY <2>4 DEF RefreshPeriod, RefreshTeamPeriod, SumEmployee, SumTeam, SumMonth, SumsUp,
           LabelRich, LabelPlain, BeginsRendering
      <4>. QED
        BY <1>0, <4>1, GoesOnly
    <3>3. ASSUME section = "period" PROVE PeriodTaskOK(task'[t], begun, today)
      <4>1. PeriodTaskOK(task[t], begun, today)
        BY <3>1, <3>3 DEF PeriodInv, EndedOK
      <4>. QED
        BY <1>0, <2>4, <4>1, PeriodRefresh, PeriodRefreshTeam, PeriodSum, PeriodLabelRich,
           PeriodLabelPlain
    <3>. QED
      BY <3>1, <3>2, <3>3, PeriodKeeps
  <2>5. CASE LookInCache(t) \/ AskBatch(t) \/ FindPlace(t) \/ TellProgress(t) \/ TellAgain(t)
    <3>1. /\ task[t].at \in {"look", "ask", "place", "progress", "again"}
          /\ UNCHANGED <<section, today, begun, chat>>
      BY <2>5 DEF LookInCache, AskBatch, FindPlace, TellProgress, TellAgain, clock
    <3>2. section # "period"
      BY <3>1 DEF PeriodInv, PeriodTaskOK, EndedOK, Working, Drawn
    <3>3. Only(t)
      BY <2>5, OtherSteps DEF Moved
    <3>. QED
      BY <3>1, <3>2, <3>3, PeriodKeeps
  <2>6. CASE SendPart(t) \/ DeleteFrame(t) \/ EditPlain(t) \/ AnswerPlain(t)
    BY <2>6, PeriodSend, PeriodEnds
  <2>. QED
    BY <1>1, <2>1, <2>2, <2>3, <2>4, <2>5, <2>6 DEF Step
<1>2. CASE Midnight
  <2>1. /\ UNCHANGED <<section, begun, chat, task>> /\ today' = today + 1
        /\ today < begun + Midnights
    BY <1>2 DEF Midnight
  <2>2. DaysOK'
    BY <1>0, <2>1, MenuAssumption DEF DaysOK
  <2>3. PICK d \in Int : d = today + 1 /\ today <= d /\ today' = d
    BY <1>0, <2>1 DEF DaysOK
  <2>4. \A k : PeriodTaskOK(k, begun, today) => PeriodTaskOK(k, begun, d)
    BY <1>0, <2>3, TaskLater DEF DaysOK
  <2>5. \A s : ScreenOK(s, today) => ScreenOK(s, d)
    BY <1>0, <2>3, ScreenLater DEF DaysOK
  <2>6. section' = "period" => \A t \in Tasks : EndedOK(task'[t]) \/ PeriodTaskOK(task'[t], begun', today')
    BY <2>1, <2>3, <2>4 DEF PeriodInv
  <2>7. \A m \in Slots : \/ chat'[m] \in {Nothing, Frame, Plain}
                         \/ (section' = "period" /\ ScreenOK(chat'[m], today'))
    BY <2>1, <2>3, <2>5 DEF PeriodInv
  <2>. QED
    BY <2>2, <2>6, <2>7 DEF PeriodInv, Nothing, Frame, Plain
<1>3. CASE CacheExpires \/ (\E lines \in Lines : SaveRules(lines)) \/ UNCHANGED vars
  <2>1. UNCHANGED <<section, today, begun, chat, task>>
    BY <1>3 DEF CacheExpires, SaveRules, vars, clock
  <2>. QED
    BY <2>1 DEF PeriodInv, DaysOK, Nothing, Frame, Plain
<1>4. CASE Restock
  <2>1. section # "period" /\ UNCHANGED <<section, today, begun, chat>>
    BY <1>4 DEF Restock, clock
  <2>. QED
    BY <2>1 DEF PeriodInv, DaysOK, Nothing, Frame, Plain
<1>. QED
  BY <1>1, <1>2, <1>3, <1>4 DEF Next

MenuInv == section \in Sections /\ DeliveryInv /\ PeriodInv

LEMMA DeliveryStarts == Init => DeliveryInv
<1>. SUFFICES ASSUME Init PROVE DeliveryInv
  OBVIOUS
<1>1. chat = [m \in Slots |-> Nothing] /\ task = [t \in Tasks |-> Idle]
  BY DEF Init
<1>2. Nothing # Frame /\ Nothing.is # "screen" /\ EndedOK(Idle)
  BY DEF Nothing, Frame, EndedOK, Idle
<1>. QED
  BY <1>1, <1>2 DEF DeliveryInv, Shape, HandlersOK, ScreensOK, FramesOK

LEMMA MenuInvariant == Spec => []MenuInv
<1>1. Init => MenuInv
  <2> SUFFICES ASSUME Init PROVE MenuInv
    OBVIOUS
  <2>1. /\ chat = [m \in Slots |-> Nothing] /\ task = [t \in Tasks |-> Idle]
        /\ section \in Sections /\ begun \in FirstDays /\ today = begun
    BY DEF Init
  <2>2. EndedOK(Idle)
    BY DEF EndedOK, Idle
  <2>3. DaysOK
    BY <2>1, MenuAssumption DEF DaysOK
  <2>4. PeriodInv
    BY <2>1, <2>2, <2>3 DEF PeriodInv
  <2>. QED
    BY <2>1, <2>4, DeliveryStarts DEF MenuInv
<1>2. MenuInv /\ [Next]_vars => MenuInv'
  <2> SUFFICES ASSUME MenuInv, [Next]_vars PROVE MenuInv'
    OBVIOUS
  <2>1. section' = section
    <3>1. ASSUME NEW t \in Tasks, Step(t) PROVE section' = section
      <4>1. CASE PressGoods(t) \/ PressGrade(t) \/ (\E m \in Slots : PressButton(t, m))
                   \/ (\E u \in Tasks : PressTwice(t, u))
                   \/ (\E kind \in Kinds[section] : PressMenu(t, kind))
        BY <4>1 DEF PressGoods, PressGrade, PressButton, PressTwice, PressMenu
      <4>2. CASE ShowFrame(t) \/ Animate(t) \/ ProducerFails(t)
        BY <4>2 DEF ShowFrame, Animate, ProducerFails
      <4>3. CASE RefreshPeriod(t) \/ RefreshTeamPeriod(t) \/ SumEmployee(t) \/ SumTeam(t)
                   \/ SumMonth(t) \/ LabelRich(t) \/ LabelPlain(t)
        BY <4>3 DEF RefreshPeriod, RefreshTeamPeriod, SumEmployee, SumTeam, SumMonth, LabelRich,
           LabelPlain
      <4>4. CASE LookInCache(t) \/ AskBatch(t) \/ FindPlace(t) \/ TellProgress(t) \/ TellAgain(t)
        BY <4>4 DEF LookInCache, AskBatch, FindPlace, TellProgress, TellAgain
      <4>5. CASE SendPart(t) \/ DeleteFrame(t) \/ EditPlain(t) \/ AnswerPlain(t)
        BY <4>5 DEF SendPart, DeleteFrame, EditPlain, AnswerPlain
      <4>. QED
        BY <3>1, <4>1, <4>2, <4>3, <4>4, <4>5 DEF Step
    <3>. QED
      BY <3>1 DEF Next, vars, Midnight, CacheExpires, Restock, SaveRules
  <2>. QED
    BY <2>1, DeliveryInductive, PeriodInductive DEF MenuInv, Sections, Kinds
<1>. QED
  BY <1>1, <1>2, PTL DEF Spec

(* A screen of a period speaks of one span: whatever a handler refreshed,  *)
(* summed up, named and put under the buttons begins on a first day of the *)
(* period asked for, of a day since the press, though midnight passes.     *)
THEOREM OneSpanAlways == Spec => []OneSpan
<1>1. MenuInv => OneSpan
  <2> SUFFICES ASSUME MenuInv, section = "period",
                      NEW t \in Tasks, task[t].at = "send"
               PROVE  LET w == task[t].work
                          first == {KindAndStart(w.asked, d)[2] : d \in w.pressed .. today}
                          screen == task[t].rich[1]
                      IN  /\ w.from \subseteq first
                          /\ screen.own.at \in first
                          /\ w.shown[1] <= w.shown[2] /\ w.shown[2] <= today
    BY DEF OneSpan
  <2>1. PeriodTaskOK(task[t], begun, today) /\ Drawn(task[t], today)
    BY DrawnIs DEF MenuInv
  <2>2. PICK s : task[t].rich = <<s>> /\ s.own.at \in Firsts(task[t].work.asked, task[t].work.pressed, today)
    BY <2>1 DEF Drawn
  <2>3. task[t].rich[1] = s
    BY <2>2
  <2>4. /\ task[t].work.from \subseteq Firsts(task[t].work.asked, task[t].work.pressed, today)
        /\ ShownOK(task[t].work.shown, today)
    BY <2>1 DEF PeriodTaskOK, WorkOK, Drawn
  <2>. QED
    BY <2>2, <2>3, <2>4 DEF Firsts, ShownOK
<1>. QED
  BY <1>1, MenuInvariant, PTL

(* The arrows of a screen lead through the calendar without a gap or an    *)
(* overlap, on whatever day they are pressed.                              *)
THEOREM NavigableAlways == Spec => []Navigable
<1>1. MenuInv => Navigable
  <2> SUFFICES ASSUME MenuInv, NEW m \in Slots, chat[m].is = "screen"
               PROVE  LET own == chat[m].own
                          Spans(p) == PeriodBounds(p, today)
                          last == LastOf(PeriodKind(own, today), own.at)
                      IN  /\ Spans(chat[m].prev)[2] + 1 = Spans(own)[1]
                          /\ ShiftedPeriod(chat[m].prev, 1, today) = own
                          /\ IF last < chat[m].drawn
                             THEN Spans(chat[m].next)[1] = last + 1
                             ELSE chat[m].next = own
    BY DEF Navigable
  <2>1. PICK s : s = chat[m]
    OBVIOUS
  <2>2. ScreenOK(s, today) /\ today \in Int
    BY <2>1 DEF MenuInv, PeriodInv, DaysOK, Nothing, Frame, Plain
  <2>3. PICK kind, first : Draws(s, kind, first)
    BY <2>2 DEF ScreenOK
  <2>4. IsStart(kind, first) /\ first <= s.drawn /\ s.drawn \in Int /\ s.drawn <= today /\ first \in Int
    BY <2>2, <2>3 DEF ScreenOK, Draws, IsStart
  <2>. DEFINE back == Later(kind, first, -1)
              on == Later(kind, first, 1)
  <2>5. /\ IsStart(kind, back) /\ back < first /\ back \in Int
        /\ IsStart(kind, on) /\ on \in Int /\ LastOf(kind, first) = on - 1
        /\ Later(kind, back, 1) = first
    BY <2>4, LaterIs DEF IsStart
  <2>6. LastOf(kind, back) = first - 1
    BY <2>5, LaterIs
  <2>. HIDE DEF back, on
  <2>7. first <= today /\ back <= today
    BY <2>2, <2>4, <2>5
  <2>8. \A e : IsStart(kind, e) /\ e <= today =>
          /\ PeriodOK(Code(kind, e), today) /\ KindAndStart(Code(kind, e), today)[2] = e
          /\ PeriodKind(Code(kind, e), today) = kind /\ Code(kind, e).at = e
          /\ PeriodBounds(Code(kind, e), today)[1] = e
          /\ LastOf(kind, e) <= today => PeriodBounds(Code(kind, e), today)[2] = LastOf(kind, e)
    <3> SUFFICES ASSUME NEW e, IsStart(kind, e), e <= today
                 PROVE  /\ PeriodOK(Code(kind, e), today) /\ KindAndStart(Code(kind, e), today)[2] = e
                        /\ PeriodKind(Code(kind, e), today) = kind /\ Code(kind, e).at = e
                        /\ PeriodBounds(Code(kind, e), today)[1] = e
                        /\ LastOf(kind, e) <= today =>
                             PeriodBounds(Code(kind, e), today)[2] = LastOf(kind, e)
      OBVIOUS
    <3>1. /\ PeriodOK(Code(kind, e), today) /\ KindAndStart(Code(kind, e), today)[2] = e
          /\ PeriodKind(Code(kind, e), today) = kind /\ Code(kind, e).at = e
      BY <2>2, CodeMeans
    <3>. QED
      BY <2>2, <3>1, BoundsAre
  <2>9. /\ s.own = Code(kind, first) /\ s.prev = Code(kind, back)
        /\ s.next = IF LastOf(kind, first) < s.drawn THEN Code(kind, on) ELSE Code(kind, first)
    BY <2>3 DEF Draws, back, on
  <2>10. PeriodBounds(s.prev, today)[2] + 1 = PeriodBounds(s.own, today)[1]
    <3>1. LastOf(kind, back) <= today
      BY <2>2, <2>4, <2>6, <2>7
    <3>2. PeriodBounds(s.prev, today)[2] = first - 1 /\ PeriodBounds(s.own, today)[1] = first
      BY <2>4, <2>5, <2>6, <2>7, <2>8, <2>9, <3>1
    <3>. QED
      BY <2>4, <3>2
  <2>11. ShiftedPeriod(s.prev, 1, today) = s.own
    <3>1. LastOf(kind, back) < today
      BY <2>2, <2>4, <2>6, <2>7
    <3>. QED
      BY <2>2, <2>5, <2>7, <2>9, <3>1, ArrowsAre
  <2>12. PeriodKind(s.own, today) = kind /\ s.own.at = first
    BY <2>4, <2>7, <2>8, <2>9
  <2>13. LastOf(kind, first) < s.drawn => PeriodBounds(s.next, today)[1] = LastOf(kind, first) + 1
    <3> SUFFICES ASSUME LastOf(kind, first) < s.drawn
                 PROVE  PeriodBounds(s.next, today)[1] = LastOf(kind, first) + 1
      OBVIOUS
    <3>1. on <= today /\ LastOf(kind, first) + 1 = on
      BY <2>2, <2>4, <2>5
    <3>2. PeriodBounds(s.next, today)[1] = on
      BY <2>5, <2>8, <2>9, <3>1
    <3>. QED
      BY <3>1, <3>2
  <2>14. ~ (LastOf(kind, first) < s.drawn) => s.next = s.own
    BY <2>9
  <2>. QED
    BY <2>1, <2>10, <2>11, <2>12, <2>13, <2>14
<1>. QED
  BY <1>1, MenuInvariant, PTL

-----------------------------------------------------------------------------
(* The numbers of a set in ascending order.                                *)
Ascends(f, S, N) ==
  /\ f \in [1 .. N -> S]
  /\ \A x \in S : \E n \in 1 .. N : f[n] = x
  /\ \A m, n \in 1 .. N : f[m] < f[n] <=> m < n

(* There is one such list of a set.                                        *)
LEMMA OneOrder ==
  ASSUME NEW S \in SUBSET Int, NEW N \in Nat, NEW f, NEW g,
         Ascends(f, S, N), Ascends(g, S, N)
  PROVE  f = g
<1>. USE DEF Ascends
<1> DEFINE Differ == {n \in 1 .. N : f[n] # g[n]}
<1>1. SUFFICES Differ = {}
  OBVIOUS
<1>2. SUFFICES ASSUME Differ # {} PROVE FALSE
  OBVIOUS
<1>3. Differ \in SUBSET Nat
  OBVIOUS
<1>4. PICK n \in Differ : \A k \in Differ : n <= k
  BY <1>2, <1>3, LeastOf
<1>5. n \in 1 .. N /\ f[n] # g[n] /\ f[n] \in Int /\ g[n] \in Int
  OBVIOUS
<1>6. \A m \in 1 .. N : m < n => f[m] = g[m]
  BY <1>4
<1>7. CASE f[n] < g[n]
  <2>1. PICK m \in 1 .. N : g[m] = f[n]
    BY <1>5
  <2>2. m < n
    BY <1>5, <1>7, <2>1
  <2>3. f[m] = f[n]
    BY <1>6, <2>1, <2>2
  <2>4. f[m] < f[n]
    BY <1>5, <2>1, <2>2
  <2>. QED
    BY <1>5, <2>3, <2>4
<1>8. CASE g[n] < f[n]
  <2>1. PICK m \in 1 .. N : f[m] = g[n]
    BY <1>5
  <2>2. m < n
    BY <1>5, <1>8, <2>1
  <2>3. g[m] = g[n]
    BY <1>6, <2>1, <2>2
  <2>4. g[m] < g[n]
    BY <1>5, <2>1, <2>2
  <2>. QED
    BY <1>5, <2>3, <2>4
<1>. QED
  BY <1>5, <1>7, <1>8

-----------------------------------------------------------------------------
(* The ladder: its rows are the lines last written.                        *)

(* What a title is; the names of the first ladder are listed for the       *)
(* provers, which do not know that a word is in STRING.                    *)
Named == Titled \cup {Text("master", 0), Text("senior_master", 0), Text("expert", 0),
                     Text("senior_expert", 0)}

Written == [title : Named, price : Nat, average : Nat, months : Nat]
Rule == [title : Named, price : Nat, average : Nat, months : Nat, order : Nat,
         active : BOOLEAN]

Valid(lines) == \A i \in DOMAIN lines : ValidLine(lines[i])

(* The last line of each title.                                            *)
Lasting(lines) ==
  {i \in DOMAIN lines : \A j \in DOMAIN lines : j > i => lines[j].title # lines[i].title}

RowsOK(rs, lines) ==
  /\ lines \in Seq(Written) /\ Valid(lines)
  /\ rs \subseteq Rule
  /\ \A row, other \in rs : row.title = other.title => row = other
  /\ {row \in rs : row.active} = {RowOf(lines[i], i) : i \in Lasting(lines)}

LEMMA LastingLine ==
  ASSUME NEW lines \in Seq(Written), NEW title \in {lines[i].title : i \in DOMAIN lines}
  PROVE  \E i \in Lasting(lines) : /\ lines[i].title = title
                                   /\ \A j \in Lasting(lines) : lines[j].title = title => j = i
<1> DEFINE Of == {i \in DOMAIN lines : lines[i].title = title}
<1>1. DOMAIN lines = 1 .. Len(lines) /\ Len(lines) \in Nat
  OBVIOUS
<1>2. Of \in SUBSET Nat /\ Of # {} /\ \A i \in Of : i <= Len(lines)
  BY <1>1
<1>3. Max(Of) \in Of /\ \A j \in Of : j <= Max(Of)
  BY <1>1, <1>2, MaxIsMember
<1>. HIDE DEF Of
<1>4. PICK i : i = Max(Of)
  OBVIOUS
<1>5. i \in Of /\ \A j \in Of : j <= i
  BY <1>3, <1>4
<1>6. i \in Lasting(lines) /\ lines[i].title = title
  BY <1>1, <1>5 DEF Of, Lasting
<1>7. \A j \in Lasting(lines) : lines[j].title = title => j = i
  BY <1>1, <1>5, <1>6 DEF Of, Lasting
<1>. QED
  BY <1>6, <1>7

LEMMA RowOfIs ==
  ASSUME NEW lines \in Seq(Written), NEW i \in DOMAIN lines
  PROVE  /\ RowOf(lines[i], i) \in Rule /\ RowOf(lines[i], i).order = i
         /\ RowOf(lines[i], i).title = lines[i].title /\ RowOf(lines[i], i).active
         /\ RowOf(lines[i], i).average = lines[i].average
         /\ RowOf(lines[i], i).months = lines[i].months
         /\ RowOf(lines[i], i).price = lines[i].price
         /\ lines[i] \in Written /\ i \in Nat
<1>1. lines[i] \in Written /\ i \in Nat
  OBVIOUS
<1>. QED
  BY <1>1 DEF RowOf, Rule, Written

LEMMA Replaced ==
  ASSUME NEW rs, rs \subseteq Rule,
         \A row, other \in rs : row.title = other.title => row = other,
         NEW lines \in Seq(Written), Valid(lines)
  PROVE  RowsOK(ReplaceRules(rs, lines), lines)
<1> DEFINE named == {lines[i].title : i \in DOMAIN lines}
           LastLine(title) == CHOOSE i \in DOMAIN lines :
             /\ lines[i].title = title
             /\ \A j \in DOMAIN lines : j > i => lines[j].title # title
           kept == {RowOf(lines[i], i) : i \in Lasting(lines)}
           put == {RowOf(lines[LastLine(title)], LastLine(title)) : title \in named}
           others == {row \in rs : row.title \notin named}
           off == {[row EXCEPT !.active = FALSE] : row \in others}
<1>1. ASSUME NEW title \in named
      PROVE  LastLine(title) \in Lasting(lines) /\ lines[LastLine(title)].title = title
  <2>1. \E i \in DOMAIN lines : /\ lines[i].title = title
                                /\ \A j \in DOMAIN lines : j > i => lines[j].title # title
    <3>1. PICK i \in Lasting(lines) : lines[i].title = title
      BY LastingLine
    <3>. QED
      BY <3>1 DEF Lasting
  <2>2. /\ LastLine(title) \in DOMAIN lines /\ lines[LastLine(title)].title = title
        /\ \A j \in DOMAIN lines : j > LastLine(title) => lines[j].title # title
    BY <2>1
  <2>. QED
    BY <2>2 DEF Lasting
<1>. HIDE DEF LastLine
<1>2. put = kept
  <2>1. \A title \in named : RowOf(lines[LastLine(title)], LastLine(title)) \in kept
    BY <1>1
  <2>2. ASSUME NEW i \in Lasting(lines) PROVE RowOf(lines[i], i) \in put
    <3>1. lines[i].title \in named
      BY DEF Lasting
    <3>2. LastLine(lines[i].title) \in Lasting(lines) /\ lines[LastLine(lines[i].title)].title = lines[i].title
      BY <1>1, <3>1
    <3>3. LastLine(lines[i].title) = i
      BY <3>1, <3>2, LastingLine
    <3>. QED
      BY <3>1, <3>3
  <2>. QED
    BY <2>1, <2>2
<1>3. ReplaceRules(rs, lines) = kept \cup off
  BY <1>2 DEF ReplaceRules, LastLine
<1>4. \A x \in kept : x \in Rule /\ x.active /\ x.title \in named
  BY RowOfIs DEF Lasting
<1>5. ASSUME NEW row \in others
      PROVE  /\ [row EXCEPT !.active = FALSE] \in Rule
             /\ ~ [row EXCEPT !.active = FALSE].active
             /\ [row EXCEPT !.active = FALSE].title = row.title
  BY DEF Rule
<1>6. \A x \in off : x \in Rule /\ ~ x.active /\ x.title \notin named
  BY ZenonT(60), <1>5
<1>7. \A x, y \in kept : x.title = y.title => x = y
  <2> SUFFICES ASSUME NEW i \in Lasting(lines), NEW j \in Lasting(lines),
                      RowOf(lines[i], i).title = RowOf(lines[j], j).title
               PROVE  i = j
    OBVIOUS
  <2>1. i \in DOMAIN lines /\ j \in DOMAIN lines /\ lines[i].title = lines[j].title
    BY RowOfIs DEF Lasting
  <2>2. i \in Nat /\ j \in Nat
    BY <2>1
  <2>. QED
    BY <2>1, <2>2 DEF Lasting
<1>8. \A x, y \in off : x.title = y.title => x = y
  <2> SUFFICES ASSUME NEW row \in others, NEW other \in others,
                      [row EXCEPT !.active = FALSE].title = [other EXCEPT !.active = FALSE].title
               PROVE  row = other
    OBVIOUS
  <2>1. row.title = other.title
    BY <1>5
  <2>. QED
    BY <2>1
<1>. HIDE DEF kept, off, named
<1>9. ReplaceRules(rs, lines) \subseteq Rule
  BY <1>3, <1>4, <1>6
<1>10. \A row, other \in ReplaceRules(rs, lines) : row.title = other.title => row = other
  BY <1>3, <1>4, <1>6, <1>7, <1>8
<1>11. {row \in ReplaceRules(rs, lines) : row.active} = kept
  BY <1>3, <1>4, <1>6
<1>. QED
  BY <1>9, <1>10, <1>11 DEF RowsOK, kept

(* The ladder lists the lasting lines, in their order.                     *)
LEMMA Listed ==
  ASSUME NEW rs, NEW lines, RowsOK(rs, lines)
  PROVE  /\ Len(Ascending(Lasting(lines))) \in Nat
         /\ Len(ListActive(rs)) = Len(Ascending(Lasting(lines)))
         /\ DOMAIN ListActive(rs) = 1 .. Len(ListActive(rs))
         /\ ListActive(rs) \in Seq({row \in rs : row.active})
         /\ \A n \in DOMAIN ListActive(rs) :
              /\ Ascending(Lasting(lines))[n] \in Lasting(lines)
              /\ ListActive(rs)[n] = RowOf(lines[Ascending(Lasting(lines))[n]], Ascending(Lasting(lines))[n])
         /\ \A m, n \in DOMAIN ListActive(rs) :
              ListActive(rs)[m].title = ListActive(rs)[n].title => m = n
<1> DEFINE L == Lasting(lines)
           A == {row \in rs : row.active}
           N == Cardinality(A)
           order == {p \in A \X A : p[1].order < p[2].order}
           r == ListActive(rs)
           f == [n \in 1 .. N |-> r[n].order]
           g == Ascending(L)
           row == [i \in L |-> RowOf(lines[i], i)]
<1>1. lines \in Seq(Written) /\ A = {RowOf(lines[i], i) : i \in L}
  BY DEF RowsOK
<1>2. DOMAIN lines = 1 .. Len(lines) /\ Len(lines) \in Nat
  BY <1>1
<1>3. L \in SUBSET (1 .. Len(lines)) /\ IsFiniteSet(L)
  <2>1. L \in SUBSET (1 .. Len(lines))
    BY <1>2 DEF Lasting
  <2>2. IsFiniteSet(1 .. Len(lines))
    BY <1>2, FS_Interval
  <2>. QED
    BY <2>1, <2>2, FS_Subset
<1>4. L \in SUBSET Int
  BY <1>2, <1>3
<1>5. \A i \in L : /\ row[i] \in A /\ row[i].order = i /\ row[i] = RowOf(lines[i], i)
                   /\ row[i].title = lines[i].title
  <2> SUFFICES ASSUME NEW i \in L
               PROVE  /\ row[i] \in A /\ row[i].order = i /\ row[i] = RowOf(lines[i], i)
                      /\ row[i].title = lines[i].title
    OBVIOUS
  <2>1. row[i] = RowOf(lines[i], i) /\ i \in DOMAIN lines
    BY <1>2, <1>3
  <2>. QED
    BY <1>1, <2>1, RowOfIs
<1>6. \A x \in A : \E i \in L : row[i] = x
  BY <1>1
<1>. HIDE DEF L, A, row
<1>7. row \in Surjection(L, A) /\ row \in Injection(L, A)
  <2>1. row \in [L -> A]
    BY <1>5 DEF row
  <2>2. \A i, j \in L : row[i] = row[j] => i = j
    BY <1>5
  <2>. QED
    BY <1>6, <2>1, <2>2 DEF Surjection, Injection, IsInjective
<1>8. IsFiniteSet(A) /\ Cardinality(A) = Cardinality(L)
  BY <1>3, <1>7, FS_Surjection
<1>9. \A x \in A : x.order \in L /\ row[x.order] = x
  BY <1>5, <1>6
<1>10. Orders(order, A)
  <2>1. \A x, y \in A : <<x, y>> \in order <=> x.order < y.order
    OBVIOUS
  <2>2. \A x, y \in A : x.order = y.order => x = y
    BY <1>9
  <2>3. \A x \in A : x.order \in Int
    BY <1>4, <1>9
  <2>. QED
    BY <2>1, <2>2, <2>3 DEF Orders
<1>11. r = InOrder(A, order)
  BY DEF ListActive, A
<1>12. /\ N \in Nat /\ r \in [1 .. N -> A]
       /\ \A x \in A : \E n \in 1 .. N : r[n] = x
       /\ \A m, n \in 1 .. N : <<r[m], r[n]>> \in order <=> m < n
  <2>. HIDE DEF order
  <2>. QED
    BY <1>8, <1>10, <1>11, InOrderIs
<1>. HIDE DEF r, N
<1>13. /\ g \in [1 .. N -> L]
       /\ \A x \in L : \E n \in 1 .. N : g[n] = x
       /\ \A m, n \in 1 .. N : g[m] < g[n] <=> m < n
  BY <1>3, <1>4, <1>8, AscendingIs DEF N
<1>. HIDE DEF g
<1>14. \A n \in 1 .. N : f[n] = r[n].order /\ r[n] \in A
  BY <1>12
<1>15. f \in [1 .. N -> L]
  BY <1>9, <1>12
<1>16. \A x \in L : \E n \in 1 .. N : f[n] = x
  <2> SUFFICES ASSUME NEW x \in L PROVE \E n \in 1 .. N : f[n] = x
    OBVIOUS
  <2>1. PICK n \in 1 .. N : r[n] = row[x]
    BY <1>5, <1>12
  <2>. QED
    BY <1>5, <1>14, <2>1
<1>17. \A m, n \in 1 .. N : f[m] < f[n] <=> m < n
  BY <1>12, <1>14
<1>. HIDE DEF f
<1>18. f = g
  <2>1. Ascends(f, L, N) /\ Ascends(g, L, N)
    BY <1>13, <1>15, <1>16, <1>17 DEF Ascends
  <2>. QED
    BY <1>4, <1>12, <2>1, OneOrder
<1>19. /\ DOMAIN r = 1 .. N /\ Len(r) = N /\ r \in Seq(A)
       /\ DOMAIN g = 1 .. N /\ Len(g) = N
  BY <1>12, <1>13
<1>20. \A n \in 1 .. N : g[n] \in L /\ r[n] = row[g[n]]
  BY <1>9, <1>13, <1>14, <1>18
<1>21. \A n \in 1 .. N : r[n] = RowOf(lines[g[n]], g[n])
  BY <1>5, <1>20
<1>22. \A m, n \in 1 .. N : r[m].title = r[n].title => m = n
  <2> SUFFICES ASSUME NEW m \in 1 .. N, NEW n \in 1 .. N, r[m].title = r[n].title
               PROVE  m = n
    OBVIOUS
  <2>1. r[m] = r[n]
    BY <1>14 DEF RowsOK, A
  <2>2. g[m] = g[n]
    BY <1>14, <1>18, <2>1
  <2>3. ~ (m < n) /\ ~ (n < m) /\ m \in Nat /\ n \in Nat
    BY <1>4, <1>13, <2>2
  <2>. QED
    BY <2>3
<1>. QED
  BY <1>12, <1>19, <1>20, <1>21, <1>22 DEF r, g, L, A

LEMMA Division ==
  ASSUME NEW n \in Nat, NEW d \in Nat \ {0}
  PROVE  /\ n \div d \in Nat /\ n % d \in Nat /\ n % d < d
         /\ n = d * (n \div d) + (n % d)
OBVIOUS

(* What is rounded to 100 was 99 and a half at least.                      *)
LEMMA RoundsToFull ==
  ASSUME NEW r \in Nat, NEW g \in Nat \ {0}, r < g, Rounded(100 * r, g) = 100
  PROVE  200 * (g - r) <= g
<1> DEFINE low == (100 * r) \div g
           rest == (100 * r) % g
<1>1. /\ low \in Nat /\ rest \in Nat /\ rest < g /\ 100 * r = g * low + rest
  BY Division
<1>2. 100 = IF 2 * rest > g \/ (2 * rest = g /\ low % 2 = 1) THEN low + 1 ELSE low
  BY DEF Rounded
<1>. HIDE DEF low, rest
<1>3. low # 100
  BY <1>1
<1>4. low = 99 /\ 2 * rest >= g
  BY <1>1, <1>2, <1>3
<1>. QED
  BY <1>1, <1>4

(* So many months back.                                                    *)
LEMMA MonthsBack ==
  ASSUME NEW start \in Int, NEW n \in Nat
  PROVE  LET Back(month, k) == month - 1
         IN  FoldLeft(Back, start, [k \in 1 .. n |-> k]) = start - n
<1> DEFINE s == [k \in 1 .. n |-> k]
           op == [p \in Int \X Int |-> p[1] - 1]
<1>1. /\ s \in Seq(Int) /\ Len(s) = n /\ DOMAIN s = 1 .. n
  OBVIOUS
<1>2. op \in [Int \X Int -> Int]
  OBVIOUS
<1>3. PICK h \in [SUBSET DOMAIN s -> Int] : Folding(h, op, start, s)
  <2>. HIDE DEF op, s
  <2>. QED
    BY <1>1, <1>2, FoldExists
<1>. DEFINE Is(g) == g = [t \in SUBSET DOMAIN s |-> IF t = {} THEN start ELSE g[t \ {Max(t)}] - 1]
<1>4. Is(h)
  <2>1. \A t \in SUBSET DOMAIN s : t # {} => op[<<h[t \ {Max(t)}], s[Max(t)]>>] = h[t \ {Max(t)}] - 1
    BY <1>1, WithoutLast
  <2>. HIDE DEF op, s
  <2>. QED
    BY <1>3, <2>1 DEF Folding
<1>. DEFINE g == CHOOSE g : Is(g)
<1>5. Is(g)
  BY <1>4
<1>6. FoldLeft(LAMBDA month, k : month - 1, start, s) = g[DOMAIN s]
  BY DEF FoldLeft, MapThenFoldSet
<1>. HIDE DEF g
<1>7. g[{}] = start /\ \A k \in 1 .. n : g[1 .. k] = g[1 .. k - 1] - 1
  <2>. HIDE DEF s
  <2>1. g[{}] = start
    BY <1>5
  <2>2. ASSUME NEW k \in 1 .. n PROVE g[1 .. k] = g[1 .. k - 1] - 1
    <3>1. /\ 1 .. k \in SUBSET DOMAIN s /\ 1 .. k # {}
          /\ Max(1 .. k) = k /\ (1 .. k) \ {k} = 1 .. k - 1
      BY <1>1, UpTo
    <3>. QED
      BY <1>5, <3>1
  <2>. QED
    BY <2>1, <2>2
<1>. DEFINE T == {k \in Nat : k <= n => g[1 .. k] = start - k}
<1>8. 0 \in T
  <2>1. 1 .. 0 = {}
    OBVIOUS
  <2>. QED
    BY <1>7, <2>1
<1>9. ASSUME NEW k \in Nat, k \in T PROVE k + 1 \in T
  <2>. SUFFICES ASSUME k + 1 <= n PROVE g[1 .. k + 1] = start - (k + 1)
    OBVIOUS
  <2>1. g[1 .. k] = start - k /\ k + 1 \in 1 .. n /\ (k + 1) - 1 = k
    BY <1>9
  <2>. QED
    BY <1>7, <2>1
<1>10. n \in T
  <2>. HIDE DEF T
  <2>. QED
    BY <1>8, <1>9, Induct
<1>11. g[DOMAIN s] = start - n
  BY <1>1, <1>10
<1>. QED
  BY <1>6, <1>11

(* The days a rule looks at begin with the first of a month.               *)
LEMMA GradeDays ==
  ASSUME NEW months \in Nat \ {0}, NEW d \in Int
  PROVE  /\ GradePeriodBounds(months, d)[2] = d
         /\ GradePeriodBounds(months, d)[1] = FirstOf(MonthOf(d) - months + 1)
<1>1. MonthOf(d) \in Int
  BY MonthOfIs
<1>2. PICK n \in Nat : n = months - 1
  OBVIOUS
<1>. DEFINE Back(month, k) == month - 1
<1>3. FoldLeft(Back, MonthOf(d), [k \in 1 .. n |-> k]) = MonthOf(d) - n
  BY <1>1, MonthsBack
<1>4. GradePeriodBounds(months, d) = <<FirstOf(MonthOf(d) - n), d>>
  BY <1>2, <1>3 DEF GradePeriodBounds
<1>5. MonthOf(d) - n = MonthOf(d) - months + 1
  BY <1>1, <1>2
<1>. QED
  BY <1>4, <1>5

ValidRule == {rule \in Rule : ValidLine(rule)}

Figure == {f \in [revenue : Nat, days : Nat] : f.days = 0 => f.revenue = 0}

(* Half a percent of the goal at most is left where the bar is full.       *)
LEMMA ProgressIs ==
  ASSUME NEW rule \in ValidRule, NEW f \in Figure
  PROVE  LET way == CalculateProgress(rule, f)
         IN  /\ way.percent = 100 => 200 * way.left <= rule.average * f.days
             /\ way.left = 0 => way.percent = 100
<1>. DEFINE days == IF f.days = 0 THEN 1 ELSE f.days
           goal == rule.average * days
           way == CalculateProgress(rule, f)
<1>1. rule.average \in Nat \ {0} /\ f.days \in Nat /\ f.revenue \in Nat /\ days \in Nat \ {0}
  BY DEF ValidRule, Rule, ValidLine, Figure
<1>2. goal \in Nat \ {0} /\ rule.average * f.days \in Nat
  BY <1>1
<1>3. f.days # 0 => goal = rule.average * f.days
  BY <1>1
<1>4. way = [percent |-> IF f.revenue >= goal THEN 100 ELSE Rounded(100 * f.revenue, goal),
             left |-> IF f.revenue >= goal THEN 0 ELSE goal - f.revenue]
  BY DEF CalculateProgress
<1>. HIDE DEF goal, way, days
<1>5. CASE f.revenue >= goal
  <2>1. way.left = 0 /\ way.percent = 100
    BY <1>4, <1>5
  <2>. QED
    BY <1>1, <1>2, <2>1 DEF way
<1>6. CASE ~ (f.revenue >= goal)
  <2>1. way.left = goal - f.revenue /\ way.percent = Rounded(100 * f.revenue, goal)
    BY <1>4, <1>6
  <2>2. way.left # 0
    BY <1>1, <1>2, <1>6, <2>1
  <2>3. ASSUME way.percent = 100 PROVE 200 * way.left <= rule.average * f.days
    <3>1. 200 * (goal - f.revenue) <= goal
      BY <1>1, <1>2, <1>6, <2>1, <2>3, RoundsToFull
    <3>2. f.days # 0
      BY <1>1, <1>2, <3>1 DEF Figure
    <3>. QED
      BY <1>3, <2>1, <3>1, <3>2
  <2>. QED
    BY <2>2, <2>3 DEF way
<1>. QED
  BY <1>5, <1>6

-----------------------------------------------------------------------------
(* The first of the ladder's places that are a set.                        *)
LEMMA FirstPlace ==
  ASSUME NEW S \in SUBSET Nat, NEW n \in S, \A j \in S : n <= j
  PROVE  (CHOOSE i \in S : \A j \in S : i <= j) = n
<1> DEFINE First(i) == i \in S /\ \A j \in S : i <= j
           c == CHOOSE i \in S : \A j \in S : i <= j
<1>1. c \in S /\ \A j \in S : c <= j
  OBVIOUS
<1>. HIDE DEF c
<1>2. c <= n /\ n <= c /\ c \in Nat /\ n \in Nat
  BY <1>1
<1>3. c = n
  BY <1>2
<1>. QED
  BY <1>3 DEF c

(* The place of a category that is the title of one of the rules.          *)
LEMMA PlaceOf ==
  ASSUME NEW rules \in Seq(Rule), NEW n \in DOMAIN rules,
         \A i, j \in DOMAIN rules : rules[i].title = rules[j].title => i = j
  PROVE  /\ EmployeeGradePosition(rules, rules[n].title) = <<n, rules[n].price>>
         /\ (\A i \in 1 .. n - 1 : ~ RuleMatchesCategory(rules[i], rules[n].title)) =>
              /\ CurrentPlace(rules, rules[n].title) = n
              /\ NextPlace(rules, rules[n].title) = IF n = Len(rules) THEN NoPlace ELSE n + 1
<1>1. DOMAIN rules = 1 .. Len(rules) /\ Len(rules) \in Nat /\ n \in Nat /\ n # NoPlace
  BY DEF NoPlace
<1>. DEFINE category == rules[n].title
            same == {i \in DOMAIN rules : rules[i].title = category}
            fits == {i \in DOMAIN rules : RuleMatchesCategory(rules[i], category)}
<1>2. FirstOfPlaces(same) = n
  <2>1. same = {n}
    OBVIOUS
  <2>2. same \in SUBSET Nat /\ n \in same /\ \A j \in same : n <= j
    BY <1>1, <2>1
  <2>. HIDE DEF same
  <2>. QED
    BY <2>2, FirstPlace DEF FirstOfPlaces
<1>3. EmployeeGradePosition(rules, category) = <<n, rules[n].price>>
  <2>. HIDE DEF category
  <2>1. FirstOfPlaces({i \in DOMAIN rules : rules[i].title = category}) = n
    BY <1>2
  <2>. QED
    BY <1>1, <2>1 DEF EmployeeGradePosition
<1>4. ASSUME \A i \in 1 .. n - 1 : ~ RuleMatchesCategory(rules[i], category)
      PROVE  /\ CurrentPlace(rules, category) = n
             /\ NextPlace(rules, category) = IF n = Len(rules) THEN NoPlace ELSE n + 1
  <2>1. n \in fits
    BY DEF RuleMatchesCategory
  <2>2. ASSUME NEW j \in fits PROVE n <= j
    <3>1. j \in 1 .. Len(rules) /\ ~ (j \in 1 .. n - 1)
      BY <1>1, <1>4
    <3>. QED
      BY <1>1, <3>1
  <2>3. fits \in SUBSET Nat
    BY <1>1
  <2>. HIDE DEF fits
  <2>4. (CHOOSE i \in fits : \A j \in fits : i <= j) = n
    BY <2>1, <2>2, <2>3, FirstPlace
  <2>5. CurrentPlace(rules, category) = n
    BY <2>1, <2>4 DEF CurrentPlace, fits
  <2>. HIDE DEF category
  <2>6. NextPlace(rules, category) = IF n < Len(rules) THEN n + 1 ELSE NoPlace
    BY <2>5 DEF NextPlace
  <2>. QED
    BY <1>1, <2>5, <2>6
<1>. QED
  BY <1>3, <1>4

(* The ladder that the rows make tells the lines they were written from.   *)
LEMMA LadderOfLines ==
  ASSUME RowsOK(rows, written)
  PROVE  LadderAsWritten
<1> DEFINE rules == ListActive(rows)
           lasting == Ascending(Lasting(written))
<1>1. /\ Len(rules) = Len(lasting) /\ DOMAIN rules = 1 .. Len(rules)
      /\ rules \in Seq({row \in rows : row.active})
      /\ \A n \in DOMAIN rules : /\ lasting[n] \in Lasting(written)
                                 /\ rules[n] = RowOf(written[lasting[n]], lasting[n])
      /\ \A m, n \in DOMAIN rules : rules[m].title = rules[n].title => m = n
  BY Listed
<1>2. written \in Seq(Written) /\ rows \subseteq Rule
  BY DEF RowsOK
<1>. HIDE DEF rules, lasting
<1>3. rules \in Seq(Rule)
  <2>1. \A n \in DOMAIN rules : rules[n] \in Rule
    BY <1>1, <1>2
  <2>. QED
    BY <1>1, <2>1
<1>4. ASSUME NEW n \in DOMAIN rules
      PROVE  LET line == written[lasting[n]]
             IN  /\ rules[n] = RowOf(line, lasting[n])
                 /\ EmployeeGradePosition(rules, line.title) = <<n, line.price>>
                 /\ (\A i \in 1 .. n - 1 : ~ RuleMatchesCategory(rules[i], line.title)) =>
                      /\ CurrentPlace(rules, line.title) = n
                      /\ NextPlace(rules, line.title) = IF n = Len(rules) THEN NoPlace ELSE n + 1
  <2>1. rules[n] = RowOf(written[lasting[n]], lasting[n]) /\ lasting[n] \in DOMAIN written
    BY <1>1 DEF Lasting
  <2>2. rules[n].title = written[lasting[n]].title /\ rules[n].price = written[lasting[n]].price
    BY <1>2, <2>1, RowOfIs
  <2>3. /\ EmployeeGradePosition(rules, rules[n].title) = <<n, rules[n].price>>
        /\ (\A i \in 1 .. n - 1 : ~ RuleMatchesCategory(rules[i], rules[n].title)) =>
             /\ CurrentPlace(rules, rules[n].title) = n
             /\ NextPlace(rules, rules[n].title) = IF n = Len(rules) THEN NoPlace ELSE n + 1
    BY <1>1, <1>3, PlaceOf
  <2>. QED
    BY <2>1, <2>2, <2>3
<1>. QED
  BY <1>1, <1>4 DEF LadderAsWritten, Lasting, rules, lasting

(* What a screen says of the way to the next rule.                         *)
Tells(told) ==
  told.next # NoPlace =>
    /\ told.way.percent = 100 => 200 * told.way.left <= told.goal
    /\ told.way.left = 0 => told.way.percent = 100
    /\ told.days[1] = FirstOf(MonthOf(told.days[2]) - told.months + 1)

LEMMA NextPlaceIs ==
  ASSUME NEW rules \in Seq(ValidRule), NEW category, NextPlace(rules, category) # NoPlace
  PROVE  NextPlace(rules, category) \in DOMAIN rules
<1> DEFINE fits == {i \in DOMAIN rules : RuleMatchesCategory(rules[i], category)}
           c == CurrentPlace(rules, category)
<1>1. DOMAIN rules = 1 .. Len(rules) /\ Len(rules) \in Nat
  OBVIOUS
<1>2. c \in 0 .. Len(rules)
  <2>1. CASE fits = {}
    BY <1>1, <2>1 DEF CurrentPlace, NoPlace
  <2>2. CASE fits # {}
    <3>1. fits \in SUBSET Nat
      BY <1>1
    <3>2. PICK n \in fits : \A j \in fits : n <= j
      <4>. HIDE DEF fits
      <4>. QED
        BY <2>2, <3>1, LeastOf
    <3>3. CurrentPlace(rules, category) = CHOOSE i \in fits : \A j \in fits : i <= j
      BY <2>2 DEF CurrentPlace
    <3>4. (CHOOSE i \in fits : \A j \in fits : i <= j) \in fits
      <4>. HIDE DEF fits
      <4>. QED
        BY <3>2
    <3>5. c \in fits
      BY <3>3, <3>4
    <3>. QED
      BY <1>1, <3>5
  <2>. QED
    BY <2>1, <2>2
<1>. HIDE DEF c
<1>3. NextPlace(rules, category) = IF c < Len(rules) THEN c + 1 ELSE NoPlace
  BY DEF NextPlace, c
<1>. QED
  BY <1>1, <1>2, <1>3

LEMMA ContentTells ==
  ASSUME NEW rules \in Seq(ValidRule), NEW category, NEW figures \in Figures, today \in Int
  PROVE  Tells(GradeContent(rules, category, figures))
<1> DEFINE next == NextPlace(rules, category)
           told == GradeContent(rules, category, figures)
<1>1. told.next = next
  BY DEF GradeContent
<1>. SUFFICES ASSUME next # NoPlace
              PROVE  /\ told.way.percent = 100 => 200 * told.way.left <= told.goal
                     /\ told.way.left = 0 => told.way.percent = 100
                     /\ told.days[1] = FirstOf(MonthOf(told.days[2]) - told.months + 1)
  BY <1>1 DEF Tells
<1>2. next \in DOMAIN rules
  BY NextPlaceIs
<1>. HIDE DEF next
<1>3. PICK rule : rule = rules[next]
  OBVIOUS
<1>4. rule \in ValidRule
  BY <1>2, <1>3
<1>5. /\ told.way = CalculateProgress(rule, figures)
      /\ told.goal = rule.average * figures.days
      /\ told.months = rule.months
      /\ told.days = GradePeriodBounds(rule.months, today)
  BY <1>3 DEF GradeContent, next
<1>. HIDE DEF told
<1>6. figures \in Figure
  BY MenuAssumption DEF Figure
<1>7. /\ told.way.percent = 100 => 200 * told.way.left <= told.goal
      /\ told.way.left = 0 => told.way.percent = 100
  BY <1>4, <1>5, <1>6, ProgressIs
<1>8. rule.months \in Nat \ {0}
  BY <1>4 DEF ValidRule, Rule, ValidLine
<1>9. /\ told.days[2] = today
      /\ told.days[1] = FirstOf(MonthOf(today) - told.months + 1)
  BY <1>5, <1>8, GradeDays
<1>. QED
  BY <1>7, <1>9

LEMMA RulesRead ==
  ASSUME RowsOK(rows, written), NEW seen \in Seq(ValidRule)
  PROVE  ReadRules(seen) \in Seq(ValidRule)
<1> DEFINE Known(title) == {i \in DOMAIN seen : seen[i].title = title}
           Row(row) == IF Known(row.title) = {} THEN row
                       ELSE seen[CHOOSE i \in Known(row.title) : TRUE]
           active == ListActive(rows)
<1>1. /\ DOMAIN active = 1 .. Len(active) /\ Len(active) \in Nat
      /\ \A n \in DOMAIN active : \E i \in DOMAIN written : active[n] = RowOf(written[i], i)
  <2> DEFINE lasting == Ascending(Lasting(written))
  <2>1. /\ DOMAIN active = 1 .. Len(active)
        /\ active \in Seq({row \in rows : row.active})
        /\ \A n \in DOMAIN active : /\ lasting[n] \in Lasting(written)
                                    /\ active[n] = RowOf(written[lasting[n]], lasting[n])
    BY Listed
  <2>. HIDE DEF active, lasting
  <2>2. \A i \in Lasting(written) : i \in DOMAIN written
    BY DEF Lasting
  <2>. QED
    BY <2>1, <2>2
<1>2. written \in Seq(Written) /\ Valid(written)
  BY DEF RowsOK
<1>3. \A n \in DOMAIN active : active[n] \in ValidRule
  <2> SUFFICES ASSUME NEW n \in DOMAIN active PROVE active[n] \in ValidRule
    OBVIOUS
  <2>1. PICK i \in DOMAIN written : active[n] = RowOf(written[i], i)
    BY <1>1
  <2>2. PICK r, l : r = RowOf(written[i], i) /\ l = written[i]
    OBVIOUS
  <2>3. /\ r \in Rule /\ r.price = l.price /\ r.average = l.average /\ r.months = l.months
        /\ ValidLine(l)
    BY <1>2, <2>2, RowOfIs DEF Valid
  <2>4. ValidLine(r)
    BY <2>3 DEF ValidLine
  <2>. QED
    BY <2>1, <2>2, <2>3, <2>4 DEF ValidRule
<1>. HIDE DEF active
<1>4. \A row \in ValidRule : Row(row) \in ValidRule
  OBVIOUS
<1>5. ReadRules(seen) = [i \in DOMAIN active |-> Row(active[i])]
  BY DEF ReadRules, active
<1>. HIDE DEF Row
<1>6. ReadRules(seen) = [i \in 1 .. Len(active) |-> Row(active[i])]
  BY <1>1, <1>5
<1>. QED
  BY <1>1, <1>3, <1>4, <1>6

-----------------------------------------------------------------------------
(* Goods and grade: a handler of such a section, through the steps of its  *)
(* producer and its delivery.                                              *)

Delivering == {"send", "delete", "fall", "rest"}

SectionTaskOK(k, kind, steps) ==
  /\ DOMAIN k = Fields /\ k.kind = kind /\ k.msg \in Slots /\ k.edits = FALSE
  /\ k.at \in steps \cup {"frame"} \cup Delivering
  /\ Len(k.rich) \in Nat /\ Len(k.plain) \in Nat
  /\ k.sent \in 0 .. Len(k.rich) /\ k.told \in 0 .. Len(k.plain)
  /\ k.at \notin Delivering => k.sent = 0
  /\ k.at # "rest" => k.told = 0
  /\ k.at = "send" => k.sent < Len(k.rich)
  /\ k.at \in Delivering => k.told < Len(k.plain)

(* What a step of the delivery does to it.                                 *)
Delivers(t, kind, steps) ==
  \/ EndedOK(task'[t])
  \/ /\ SectionTaskOK(task'[t], kind, steps)
     /\ task'[t].at \in Delivering /\ (task'[t].at = "send" => task[t].at = "send")
     /\ task'[t].work = task[t].work
     /\ task'[t].rich = task[t].rich /\ task'[t].plain = task[t].plain

LEMMA SectionSends ==
  ASSUME NEW t \in Tasks, DeliveryInv, NEW kind, NEW steps, steps \cap Delivering = {},
         SectionTaskOK(task[t], kind, steps), SendPart(t)
  PROVE  Delivers(t, kind, steps)
<1>1. task[t].at = "send"
  BY DEF SendPart
<1>2. PICK k : k = task[t]
  OBVIOUS
<1>3. /\ DOMAIN k = Fields /\ k.kind = kind /\ k.msg \in Slots /\ k.edits = FALSE
      /\ Len(k.rich) \in Nat /\ Len(k.plain) \in Nat /\ k.sent \in Nat /\ k.told = 0
      /\ k.sent < Len(k.rich) /\ k.told < Len(k.plain)
  BY <1>1, <1>2 DEF SectionTaskOK, Delivering
<1>4. \/ task'[t] = [k EXCEPT !.at = "fall"]
      \/ task'[t] = [k EXCEPT !.sent = @ + 1,
                             !.at = IF k.sent + 1 = Len(k.rich) THEN "delete" ELSE "send"]
  BY <1>2 DEF SendPart, Goes, DeliveryInv, Shape
<1>5. PICK l : l = task'[t]
  OBVIOUS
<1>6. /\ DOMAIN l = Fields /\ l.kind = kind /\ l.msg \in Slots /\ l.edits = FALSE
      /\ l.work = k.work /\ l.rich = k.rich /\ l.plain = k.plain /\ l.told = 0
      /\ \/ l.at = "fall" /\ l.sent = k.sent
         \/ /\ l.sent = k.sent + 1
            /\ l.at = IF k.sent + 1 = Len(k.rich) THEN "delete" ELSE "send"
  BY <1>3, <1>4, <1>5 DEF Fields
<1>7. l.sent \in 0 .. Len(k.rich) /\ (l.at = "send" => l.sent < Len(k.rich))
  BY <1>3, <1>6
<1>8. SectionTaskOK(l, kind, steps)
  BY <1>3, <1>6, <1>7 DEF SectionTaskOK, Delivering
<1>. QED
  BY <1>1, <1>2, <1>5, <1>6, <1>8 DEF Delivers, Delivering

LEMMA SectionEnds ==
  ASSUME NEW t \in Tasks, DeliveryInv, NEW kind, NEW steps, steps \cap Delivering = {},
         SectionTaskOK(task[t], kind, steps), section # "period",
         DeleteFrame(t) \/ EditPlain(t) \/ AnswerPlain(t)
  PROVE  Delivers(t, kind, steps)
<1>1. EndedOK(task'[t]) \/ HandlerOK(task[t])'
  BY DeleteFrameInductive, EditPlainInductive, AnswerPlainInductive DEF DeliveryInv, HandlersOK
<1>2. ASSUME task'[t].at = "idle" PROVE EndedOK(task'[t])
  BY <1>1, <1>2 DEF HandlerOK, Waits, Producing
<1>3. PICK k : k = task[t]
  OBVIOUS
<1>4. ASSUME NEW l, Returns(t, l) \/ Raises(t) PROVE task'[t].at = "idle"
  BY <1>4 DEF Returns, Raises, Goes, Idle, DeliveryInv, Shape
<1>5. CASE DeleteFrame(t)
  BY <1>2, <1>4, <1>5 DEF DeleteFrame, Delivers
<1>. DEFINE Rest(told) == [k EXCEPT !.told = told, !.at = "rest"]
<1>6. ASSUME NEW told, k.at \in {"fall", "rest"}, told \in 1 .. Len(k.plain), told # Len(k.plain),
             task'[t] = Rest(told)
      PROVE  Delivers(t, kind, steps)
  <2>1. /\ DOMAIN k = Fields /\ k.kind = kind /\ k.msg \in Slots /\ k.edits = FALSE
        /\ Len(k.rich) \in Nat /\ Len(k.plain) \in Nat /\ k.sent \in 0 .. Len(k.rich)
    BY <1>3 DEF SectionTaskOK
  <2>2. PICK l : l = task'[t]
    OBVIOUS
  <2>3. /\ DOMAIN l = Fields /\ l.kind = kind /\ l.msg \in Slots /\ l.edits = FALSE
        /\ l.work = k.work /\ l.rich = k.rich /\ l.plain = k.plain
        /\ l.sent = k.sent /\ l.told = told /\ l.at = "rest"
    BY <1>6, <2>1, <2>2 DEF Fields
  <2>4. told \in 0 .. Len(k.plain) /\ told < Len(k.plain)
    BY <1>6, <2>1
  <2>5. SectionTaskOK(l, kind, steps)
    BY <2>1, <2>3, <2>4 DEF SectionTaskOK, Delivering
  <2>. QED
    BY <1>3, <1>6, <2>2, <2>3, <2>5 DEF Delivers, Delivering
<1>7. CASE EditPlain(t)
  <2>1. k.at = "fall" /\ k.told = 0 /\ k.told < Len(k.plain) /\ Len(k.plain) \in Nat
        /\ DOMAIN k = Fields
    BY <1>3, <1>7 DEF EditPlain, SectionTaskOK, Delivering
  <2>. DEFINE l == [k EXCEPT !.told = 1, !.at = "rest"]
  <2>2. l.plain = k.plain
    BY <2>1 DEF Fields
  <2>3. \/ Raises(t) \/ Returns(t, l)
        \/ Len(k.plain) # 1 /\ Goes(t, l)
    BY <1>3, <1>7, <2>2 DEF EditPlain
  <2>4. ASSUME Len(k.plain) # 1, Goes(t, l) PROVE Delivers(t, kind, steps)
    <3>1. task'[t] = Rest(1)
      BY <2>4 DEF Goes, DeliveryInv, Shape
    <3>2. PICK told : told = 1
      OBVIOUS
    <3>3. told \in 1 .. Len(k.plain) /\ told # Len(k.plain)
      BY <2>1, <2>4, <3>2
    <3>. HIDE DEF Rest, l
    <3>4. task'[t] = Rest(told)
      BY <3>1, <3>2
    <3>. QED
      BY <1>6, <2>1, <3>3, <3>4
  <2>. HIDE DEF l
  <2>5. ASSUME Raises(t) \/ Returns(t, l) PROVE Delivers(t, kind, steps)
    BY <1>2, <1>4, <2>5 DEF Delivers
  <2>. QED
    BY <2>3, <2>4, <2>5
<1>8. CASE AnswerPlain(t)
  <2>1. k.at = "rest" /\ k.told \in Nat /\ k.told < Len(k.plain) /\ Len(k.plain) \in Nat
        /\ DOMAIN k = Fields
    BY <1>3, <1>8 DEF AnswerPlain, SectionTaskOK, Delivering
  <2>. DEFINE l == [k EXCEPT !.told = @ + 1]
  <2>2. l.plain = k.plain /\ l.told = k.told + 1 /\ l = Rest(k.told + 1)
    BY <2>1 DEF Fields
  <2>3. \/ Raises(t) \/ Returns(t, l)
        \/ k.told + 1 # Len(k.plain) /\ Goes(t, l)
    BY <1>3, <1>8, <2>2 DEF AnswerPlain
  <2>4. ASSUME k.told + 1 # Len(k.plain), Goes(t, l) PROVE Delivers(t, kind, steps)
    <3>1. task'[t] = Rest(k.told + 1)
      BY <2>2, <2>4 DEF Goes, DeliveryInv, Shape
    <3>2. PICK told : told = k.told + 1
      OBVIOUS
    <3>3. task'[t] = Rest(told)
      BY <3>1, <3>2
    <3>4. told \in 1 .. Len(k.plain) /\ told # Len(k.plain)
      BY <2>1, <2>4, <3>2
    <3>. HIDE DEF Rest
    <3>. QED
      BY <1>6, <2>1, <3>3, <3>4
  <2>. HIDE DEF l
  <2>5. ASSUME Raises(t) \/ Returns(t, l) PROVE Delivers(t, kind, steps)
    BY <1>2, <1>4, <2>5 DEF Delivers
  <2>. QED
    BY <2>3, <2>4, <2>5
<1>. QED
  BY <1>5, <1>7, <1>8

(* The sections of goods and grade have no other steps than these.         *)
LEMMA SectionSteps ==
  ASSUME NEW t \in Tasks, DeliveryInv, PeriodInv, section \in Sections, Step(t),
         NEW kind, NEW steps, kind \in {"goods", "grade"}, section = kind,
         steps \cap {"refresh", "sum", "label"} = {},
         \A u \in Tasks : EndedOK(task[u]) \/ SectionTaskOK(task[u], kind, steps)
  PROVE  \/ kind = "goods" /\ PressGoods(t)
         \/ kind = "grade" /\ PressGrade(t)
         \/ ShowFrame(t) \/ Animate(t) \/ ProducerFails(t)
         \/ LookInCache(t) \/ AskBatch(t)
         \/ FindPlace(t) \/ TellProgress(t) \/ TellAgain(t)
         \/ SendPart(t)
         \/ DeleteFrame(t) \/ EditPlain(t) \/ AnswerPlain(t)
<1>1. \A u \in Tasks : task[u].at \notin {"refresh", "sum", "label"}
                       /\ (task[u].at = "frame" => ~ task[u].edits)
  BY DEF EndedOK, SectionTaskOK, Delivering
<1>2. ~ (RefreshPeriod(t) \/ RefreshTeamPeriod(t) \/ SumEmployee(t) \/ SumTeam(t) \/ SumMonth(t)
         \/ LabelRich(t) \/ LabelPlain(t))
  BY <1>1 DEF RefreshPeriod, RefreshTeamPeriod, SumEmployee, SumTeam, SumMonth, LabelRich, LabelPlain
<1>3. ~ \E u \in Tasks : PressTwice(t, u)
  BY <1>1 DEF PressTwice
<1>4. ~ \E m \in Slots : PressButton(t, m)
  BY DEF PressButton, PeriodInv, Nothing, Frame, Plain
<1>5. ~ \E k \in Kinds[section] : PressMenu(t, k)
  <2>1. Kinds[section] \ {"goods", "grade"} = {}
    BY KindsOfPeriod
  <2>. QED
    BY <2>1 DEF PressMenu
<1>6. (PressGoods(t) => kind = "goods") /\ (PressGrade(t) => kind = "grade")
  BY DEF PressGoods, PressGrade
<1>. QED
  BY <1>2, <1>3, <1>4, <1>5, <1>6 DEF Step

Fresh(k, kind, m, work) == k = Handler(kind, m, FALSE, work)

LEMMA SectionPressed ==
  ASSUME NEW kind, NEW steps, NEW m \in Slots, NEW work, NEW k, Fresh(k, kind, m, work)
  PROVE  SectionTaskOK(k, kind, steps) /\ k.work = work /\ k.at = "frame"
<1>2. /\ DOMAIN k = Fields /\ k.kind = kind /\ k.msg = m /\ k.edits = FALSE /\ k.at = "frame"
      /\ k.work = work
      /\ k.rich = <<>> /\ k.plain = <<>> /\ k.sent = 0 /\ k.told = 0
  BY DEF Fresh, Handler, Fields
<1>3. Len(k.rich) = 0 /\ Len(k.plain) = 0
  BY <1>2
<1>4. SectionTaskOK(k, kind, steps)
  BY <1>2, <1>3 DEF SectionTaskOK, Delivering
<1>. QED
  BY <1>2, <1>4

(* The frame, its pictures, and a producer that fails.                     *)
LEMMA SectionFrames ==
  ASSUME NEW t \in Tasks, DeliveryInv, NEW kind, NEW steps, kind \in {"goods", "grade"},
         steps \cap Delivering = {}, FirstStep(kind) \in steps, "frame" \notin steps,
         EndedOK(task[t]) \/ SectionTaskOK(task[t], kind, steps),
         ShowFrame(t) \/ Animate(t) \/ ProducerFails(t)
  PROVE  \/ task' = task
         \/ EndedOK(task'[t])
         \/ /\ SectionTaskOK(task'[t], kind, steps)
            /\ task[t].at = "frame" /\ task'[t].at = FirstStep(kind)
            /\ task'[t].work = task[t].work
<1>1. CASE Animate(t)
  BY <1>1 DEF Animate
<1>2. ASSUME Raises(t) PROVE EndedOK(task'[t])
  BY <1>2 DEF Raises, Goes, EndedOK, Idle, DeliveryInv, Shape
<1>3. CASE ProducerFails(t)
  BY <1>2, <1>3 DEF ProducerFails
<1>4. CASE ShowFrame(t) /\ ~ Raises(t)
  <2>1. /\ task[t].at = "frame" /\ SectionTaskOK(task[t], kind, steps)
        /\ task'[t] = [task[t] EXCEPT !.at = FirstStep(kind)]
    BY <1>4 DEF ShowFrame, EndedOK, Goes, DeliveryInv, Shape, SectionTaskOK
  <2>2. PICK k, l : k = task[t] /\ l = task'[t]
    OBVIOUS
  <2>3. SectionTaskOK(k, kind, steps) /\ k.at = "frame" /\ l = [k EXCEPT !.at = FirstStep(kind)]
    BY <2>1, <2>2
  <2>4. /\ DOMAIN l = Fields /\ l.at = FirstStep(kind) /\ l.kind = k.kind /\ l.msg = k.msg
        /\ l.edits = k.edits /\ l.work = k.work /\ l.rich = k.rich /\ l.plain = k.plain
        /\ l.sent = k.sent /\ l.told = k.told
    BY <2>3 DEF SectionTaskOK, Fields
  <2>5. FirstStep(kind) \notin Delivering
    OBVIOUS
  <2>6. SectionTaskOK(l, kind, steps)
    BY <2>3, <2>4, <2>5 DEF SectionTaskOK, Delivering
  <2>. QED
    BY <2>2, <2>3, <2>4, <2>6
<1>. QED
  BY <1>1, <1>2, <1>3, <1>4 DEF ShowFrame

-----------------------------------------------------------------------------
(* The grade: what is told of the way to the next rule.                    *)

GradeSteps == {"place", "progress", "again"}

GradeTaskOK(k) ==
  /\ SectionTaskOK(k, "grade", GradeSteps)
  /\ DOMAIN k.work = {"category", "rules"}
  /\ k.at \in {"progress", "again"} => k.work.rules \in Seq(ValidRule)
  /\ k.at \in {"again", "send"} => Tells(k.plain[1])
  /\ k.at = "send" => Tells(k.rich[1])
  /\ k.at = "again" => Len(k.plain) = 1

GradeInv ==
  /\ RowsOK(rows, written)
  /\ section = "grade" => \A t \in Tasks : EndedOK(task[t]) \/ GradeTaskOK(task[t])

LEMMA GradeDelivers ==
  ASSUME NEW t, GradeTaskOK(task[t]), Delivers(t, "grade", GradeSteps)
  PROVE  EndedOK(task'[t]) \/ GradeTaskOK(task'[t])
BY DEF Delivers, GradeTaskOK, Delivering

LEMMA GradeProduces ==
  ASSUME NEW t \in Tasks, DeliveryInv, GradeTaskOK(task[t]), GradeInv, today \in Int,
         FindPlace(t) \/ TellProgress(t) \/ TellAgain(t)
  PROVE  GradeTaskOK(task'[t])
<1>1. PICK k, l : k = task[t] /\ l = task'[t]
  OBVIOUS
<1>2. /\ DOMAIN k = Fields /\ DOMAIN k.work = {"category", "rules"}
      /\ SectionTaskOK(k, "grade", GradeSteps) /\ GradeTaskOK(k)
  BY <1>1 DEF GradeTaskOK, SectionTaskOK
<1>3. RowsOK(rows, written)
  BY DEF GradeInv
<1>4. k.at \in GradeSteps => k.sent = 0 /\ k.told = 0 /\ k.edits = FALSE /\ k.kind = "grade" /\ k.msg \in Slots
  BY <1>2 DEF SectionTaskOK, GradeSteps, Delivering
<1>5. CASE FindPlace(t)
  <2>1. PICK rules : rules = ReadRules(<<>>)
    OBVIOUS
  <2>2. <<>> \in Seq(ValidRule)
    OBVIOUS
  <2>3. rules \in Seq(ValidRule)
    BY <1>3, <2>1, <2>2, RulesRead
  <2>4. k.at = "place" /\ l = [k EXCEPT !.at = "progress", !.work.rules = rules]
    BY <1>1, <1>5, <2>1 DEF FindPlace, Goes, DeliveryInv, Shape
  <2>5. /\ DOMAIN l = Fields /\ l.at = "progress" /\ l.kind = k.kind /\ l.msg = k.msg
        /\ l.edits = k.edits /\ l.rich = k.rich /\ l.plain = k.plain
        /\ l.sent = k.sent /\ l.told = k.told
        /\ l.work = [k.work EXCEPT !.rules = rules]
    BY <1>2, <2>4 DEF Fields
  <2>6. DOMAIN l.work = {"category", "rules"} /\ l.work.rules = rules
    BY <1>2, <2>5
  <2>7. SectionTaskOK(l, "grade", GradeSteps)
    BY <1>2, <2>4, <2>5 DEF SectionTaskOK, GradeSteps, Delivering
  <2>. QED
    BY <1>1, <2>3, <2>5, <2>6, <2>7 DEF GradeTaskOK
<1>6. CASE TellProgress(t)
  <2>1. PICK figures \in Figures :
          Goes(t, [k EXCEPT !.at = "again",
                            !.plain = <<GradeContent(k.work.rules, k.work.category, figures)>>])
    BY <1>1, <1>6 DEF TellProgress
  <2>2. k.at = "progress"
    BY <1>1, <1>6 DEF TellProgress
  <2>3. PICK told : told = GradeContent(k.work.rules, k.work.category, figures)
    OBVIOUS
  <2>4. Tells(told)
    BY <1>2, <2>2, <2>3, ContentTells DEF GradeTaskOK
  <2>5. l = [k EXCEPT !.at = "again", !.plain = <<told>>]
    BY <1>1, <2>1, <2>3 DEF Goes, DeliveryInv, Shape
  <2>6. /\ DOMAIN l = Fields /\ l.at = "again" /\ l.kind = k.kind /\ l.msg = k.msg
        /\ l.edits = k.edits /\ l.rich = k.rich /\ l.plain = <<told>>
        /\ l.sent = k.sent /\ l.told = k.told /\ l.work = k.work
    BY <1>2, <2>5 DEF Fields
  <2>7. Len(l.plain) = 1 /\ l.plain[1] = told
    BY <2>6
  <2>8. SectionTaskOK(l, "grade", GradeSteps)
    BY <1>2, <1>4, <2>2, <2>6, <2>7 DEF SectionTaskOK, GradeSteps, Delivering
  <2>. QED
    BY <1>1, <1>2, <2>2, <2>4, <2>6, <2>7, <2>8 DEF GradeTaskOK
<1>7. CASE TellAgain(t)
  <2>1. PICK figures \in Figures :
          Goes(t, [k EXCEPT !.at = "send", !.work.rules = <<>>,
                            !.rich = <<GradeContent(ReadRules(k.work.rules), k.work.category, figures)>>])
    BY <1>1, <1>7 DEF TellAgain
  <2>2. k.at = "again"
    BY <1>1, <1>7 DEF TellAgain
  <2>3. PICK rules : rules = ReadRules(k.work.rules)
    OBVIOUS
  <2>4. rules \in Seq(ValidRule)
    BY <1>2, <1>3, <2>2, <2>3, RulesRead DEF GradeTaskOK
  <2>5. PICK told : told = GradeContent(rules, k.work.category, figures)
    OBVIOUS
  <2>6. Tells(told)
    BY <2>4, <2>5, ContentTells
  <2>7. l = [k EXCEPT !.at = "send", !.work.rules = <<>>, !.rich = <<told>>]
    BY <1>1, <2>1, <2>3, <2>5 DEF Goes, DeliveryInv, Shape
  <2>8. /\ DOMAIN l = Fields /\ l.at = "send" /\ l.kind = k.kind /\ l.msg = k.msg
        /\ l.edits = k.edits /\ l.rich = <<told>> /\ l.plain = k.plain
        /\ l.sent = k.sent /\ l.told = k.told /\ l.work = [k.work EXCEPT !.rules = <<>>]
    BY <1>2, <2>7 DEF Fields
  <2>9. Len(l.rich) = 1 /\ l.rich[1] = told /\ DOMAIN l.work = {"category", "rules"}
        /\ Len(l.plain) = 1
    BY <1>2, <2>2, <2>8 DEF GradeTaskOK
  <2>10. SectionTaskOK(l, "grade", GradeSteps)
    BY <1>2, <1>4, <2>2, <2>8, <2>9 DEF SectionTaskOK, GradeSteps, Delivering
  <2>. QED
    BY <1>1, <1>2, <2>2, <2>6, <2>8, <2>9, <2>10 DEF GradeTaskOK
<1>. QED
  BY <1>5, <1>6, <1>7

LEMMA GradeInductive ==
  ASSUME GradeInv, DeliveryInv, PeriodInv, section \in Sections, section' = section, [Next]_vars
  PROVE  GradeInv'
<1>1. CASE \E lines \in Lines : SaveRules(lines)
  <2>1. PICK lines \in Lines : SaveRules(lines)
    BY <1>1
  <2>2. lines \in Seq(Written)
    <3>1. \A title \in Titled : title \in Named
      BY DEF Named
    <3>2. [title : Titled, price : Nat, average : Nat, months : Nat] \subseteq Written
      BY <3>1 DEF Written
    <3>3. lines \in Seq([title : Titled, price : Nat, average : Nat, months : Nat])
      BY MenuAssumption
    <3>4. PICK U, V : U = [title : Titled, price : Nat, average : Nat, months : Nat] /\ V = Written
      OBVIOUS
    <3>5. lines \in Seq(U) /\ U \subseteq V
      BY <3>2, <3>3, <3>4
    <3>6. lines \in Seq(V)
      BY <3>5
    <3>. QED
      BY <3>4, <3>6
  <2>3. RowsOK(rows', written')
    <3>1. Valid(lines) /\ rows' = ReplaceRules(rows, lines) /\ written' = lines
      BY <2>1 DEF SaveRules, Valid
    <3>2. RowsOK(ReplaceRules(rows, lines), lines)
      <4>1. rows \subseteq Rule /\ \A row, other \in rows : row.title = other.title => row = other
        BY DEF GradeInv, RowsOK
      <4>. QED
        BY <2>2, <3>1, <4>1, Replaced
    <3>. QED
      BY <3>1, <3>2
  <2>4. task' = task
    BY <2>1 DEF SaveRules
  <2>5. section' = "grade" => \A t \in Tasks : EndedOK(task'[t]) \/ GradeTaskOK(task'[t])
    BY <2>4 DEF GradeInv
  <2>. QED
    BY <2>3, <2>5 DEF GradeInv
<1>2. ASSUME UNCHANGED ladder,
             section = "grade" => \A t \in Tasks : EndedOK(task'[t]) \/ GradeTaskOK(task'[t])
      PROVE  GradeInv'
  BY <1>2 DEF GradeInv, ladder
<1>3. CASE Midnight \/ CacheExpires \/ UNCHANGED vars
  <2>1. UNCHANGED ladder /\ task' = task
    BY <1>3 DEF Midnight, CacheExpires, vars, ladder
  <2>. QED
    BY <1>2, <2>1 DEF GradeInv
<1>4. CASE Restock
  BY <1>2, <1>4 DEF Restock
<1>5. ASSUME NEW t \in Tasks, Step(t) PROVE GradeInv'
  <2>1. UNCHANGED ladder
    <3>1. CASE PressGoods(t) \/ PressGrade(t) \/ (\E m \in Slots : PressButton(t, m))
                 \/ (\E u \in Tasks : PressTwice(t, u))
                 \/ (\E kind \in Kinds[section] : PressMenu(t, kind))
      BY <3>1 DEF PressGoods, PressGrade, PressButton, PressTwice, PressMenu
    <3>2. CASE ShowFrame(t) \/ Animate(t) \/ ProducerFails(t)
      BY <3>2 DEF ShowFrame, Animate, ProducerFails
    <3>3. CASE RefreshPeriod(t) \/ RefreshTeamPeriod(t) \/ SumEmployee(t) \/ SumTeam(t)
                 \/ SumMonth(t) \/ LabelRich(t) \/ LabelPlain(t)
      BY <3>3 DEF RefreshPeriod, RefreshTeamPeriod, SumEmployee, SumTeam, SumMonth, LabelRich,
         LabelPlain
    <3>4. CASE LookInCache(t) \/ AskBatch(t) \/ FindPlace(t) \/ TellProgress(t) \/ TellAgain(t)
      BY <3>4 DEF LookInCache, AskBatch, FindPlace, TellProgress, TellAgain
    <3>5. CASE SendPart(t) \/ DeleteFrame(t) \/ EditPlain(t) \/ AnswerPlain(t)
      BY <3>5 DEF SendPart, DeleteFrame, EditPlain, AnswerPlain
    <3>. QED
      BY <1>5, <3>1, <3>2, <3>3, <3>4, <3>5 DEF Step
  <2>. SUFFICES ASSUME section = "grade"
                PROVE  \A u \in Tasks : EndedOK(task'[u]) \/ GradeTaskOK(task'[u])
    BY <1>2, <2>1
  <2>2. \A u \in Tasks : EndedOK(task[u]) \/ GradeTaskOK(task[u])
    BY DEF GradeInv
  <2>3. \A u \in Tasks : EndedOK(task[u]) \/ SectionTaskOK(task[u], "grade", GradeSteps)
    BY <2>2 DEF GradeTaskOK
  <2>4. PICK kind : kind = "grade"
    OBVIOUS
  <2>5. \/ PressGrade(t)
        \/ ShowFrame(t) \/ Animate(t) \/ ProducerFails(t)
        \/ LookInCache(t) \/ AskBatch(t)
        \/ FindPlace(t) \/ TellProgress(t) \/ TellAgain(t)
        \/ SendPart(t)
        \/ DeleteFrame(t) \/ EditPlain(t) \/ AnswerPlain(t)
    <3>1. GradeSteps \cap {"refresh", "sum", "label"} = {}
      BY DEF GradeSteps
    <3>2. \A u \in Tasks : EndedOK(task[u]) \/ SectionTaskOK(task[u], kind, GradeSteps)
      BY <2>3, <2>4
    <3>. QED
      BY <1>5, <2>4, <3>1, <3>2, SectionSteps
  <2>6. GradeSteps \cap Delivering = {} /\ FirstStep("grade") \in GradeSteps /\ "frame" \notin GradeSteps
    BY DEF GradeSteps, Delivering, FirstStep
  <2>7. ASSUME Only(t), EndedOK(task'[t]) \/ GradeTaskOK(task'[t])
        PROVE  \A u \in Tasks : EndedOK(task'[u]) \/ GradeTaskOK(task'[u])
    BY <2>2, <2>7 DEF Only
  <2>8. ASSUME task' = task PROVE \A u \in Tasks : EndedOK(task'[u]) \/ GradeTaskOK(task'[u])
    BY <2>2, <2>8
  <2>9. Only(t) \/ task' = task
    <3>1. (\E k : Goes(t, k)) \/ task' = task
      BY ZenonT(60), <2>5 DEF PressGrade, ShowFrame, Animate, ProducerFails, Raises, Returns,
         LookInCache, AskBatch, EndsCall, NextEndpoint, ProductsCome, FindPlace, TellProgress,
         TellAgain, SendPart, DeleteFrame, EditPlain, AnswerPlain
    <3>. QED
      BY <3>1, GoesOnly DEF DeliveryInv
  <2>10. EndedOK(task[t]) => task[t].at = "idle"
    BY DEF EndedOK
  <2>11. CASE PressGrade(t)
    <3>1. PICK m \in FreeSlots, category \in Categories :
            Goes(t, Handler("grade", m, FALSE, [category |-> category, rules |-> <<>>]))
      BY <2>11 DEF PressGrade
    <3>2. PICK work : work = [category |-> category, rules |-> <<>>]
      OBVIOUS
    <3>3. task'[t] = Handler(kind, m, FALSE, work) /\ Only(t) /\ m \in Slots
      BY <2>4, <3>1, <3>2, GoesOnly DEF DeliveryInv, FreeSlots
    <3>4. PICK k : k = task'[t] /\ Fresh(k, kind, m, work)
      BY <3>3 DEF Fresh
    <3>5. SectionTaskOK(task'[t], kind, GradeSteps) /\ task'[t].work = work /\ task'[t].at = "frame"
      <4>1. PICK n, steps : n \in Slots /\ n = m /\ steps = GradeSteps
        BY <3>3
      <4>2. Fresh(k, kind, n, work)
        BY <3>4, <4>1
      <4>3. SectionTaskOK(k, kind, steps) /\ k.work = work /\ k.at = "frame"
        BY <4>1, <4>2, SectionPressed
      <4>. QED
        BY <3>4, <4>1, <4>3
    <3>6. GradeTaskOK(task'[t])
      BY <2>4, <3>2, <3>5 DEF GradeTaskOK
    <3>. QED
      BY <2>7, <3>3, <3>6
  <2>12. CASE ShowFrame(t) \/ Animate(t) \/ ProducerFails(t)
    <3>1. \/ task' = task \/ EndedOK(task'[t])
          \/ /\ SectionTaskOK(task'[t], "grade", GradeSteps)
             /\ task[t].at = "frame" /\ task'[t].at = FirstStep("grade")
             /\ task'[t].work = task[t].work
      BY <2>3, <2>6, <2>12, SectionFrames
    <3>2. ASSUME SectionTaskOK(task'[t], "grade", GradeSteps), task[t].at = "frame",
                 task'[t].at = FirstStep("grade"), task'[t].work = task[t].work
          PROVE  GradeTaskOK(task'[t])
      <4>1. task'[t].at = "place" /\ DOMAIN task[t].work = {"category", "rules"}
        BY <2>2, <2>10, <3>2 DEF FirstStep, GradeTaskOK
      <4>. QED
        BY <3>2, <4>1 DEF GradeTaskOK
    <3>. QED
      BY <2>7, <2>8, <2>9, <3>1, <3>2
  <2>13. CASE LookInCache(t) \/ AskBatch(t)
    BY <2>3, <2>13 DEF LookInCache, AskBatch, EndedOK, SectionTaskOK, GradeSteps, Delivering
  <2>14. CASE FindPlace(t) \/ TellProgress(t) \/ TellAgain(t)
    <3>1. GradeTaskOK(task[t]) /\ today \in Int
      BY <2>2, <2>10, <2>14 DEF FindPlace, TellProgress, TellAgain, PeriodInv, DaysOK
    <3>2. GradeTaskOK(task'[t])
      BY <2>14, <3>1, GradeProduces
    <3>. QED
      BY <2>7, <2>8, <2>9, <3>2
  <2>15. CASE SendPart(t) \/ DeleteFrame(t) \/ EditPlain(t) \/ AnswerPlain(t)
    <3>1. GradeTaskOK(task[t])
      BY <2>2, <2>10, <2>15 DEF SendPart, DeleteFrame, EditPlain, AnswerPlain
    <3>2. Delivers(t, "grade", GradeSteps)
      BY <2>6, <2>15, <3>1, SectionSends, SectionEnds DEF GradeTaskOK
    <3>. QED
      BY <2>7, <2>8, <2>9, <3>1, <3>2, GradeDelivers
  <2>. QED
    BY <2>5, <2>11, <2>12, <2>13, <2>14, <2>15
<1>. QED
  BY <1>1, <1>3, <1>4, <1>5 DEF Next

LEMMA Stays ==
  ASSUME [Next]_vars
  PROVE  UNCHANGED <<section, begun>>
<1>1. ASSUME NEW t \in Tasks, Step(t) PROVE UNCHANGED <<section, begun>>
  <2>1. CASE PressGoods(t) \/ PressGrade(t) \/ (\E m \in Slots : PressButton(t, m))
               \/ (\E u \in Tasks : PressTwice(t, u))
               \/ (\E kind \in Kinds[section] : PressMenu(t, kind))
    BY <2>1 DEF PressGoods, PressGrade, PressButton, PressTwice, PressMenu, clock
  <2>2. CASE ShowFrame(t) \/ Animate(t) \/ ProducerFails(t)
    BY <2>2 DEF ShowFrame, Animate, ProducerFails, clock
  <2>3. CASE RefreshPeriod(t) \/ RefreshTeamPeriod(t) \/ SumEmployee(t) \/ SumTeam(t)
               \/ SumMonth(t) \/ LabelRich(t) \/ LabelPlain(t)
    BY <2>3 DEF RefreshPeriod, RefreshTeamPeriod, SumEmployee, SumTeam, SumMonth, LabelRich,
       LabelPlain, clock
  <2>4. CASE LookInCache(t) \/ AskBatch(t) \/ FindPlace(t) \/ TellProgress(t) \/ TellAgain(t)
    BY <2>4 DEF LookInCache, AskBatch, FindPlace, TellProgress, TellAgain, clock
  <2>5. CASE SendPart(t) \/ DeleteFrame(t) \/ EditPlain(t) \/ AnswerPlain(t)
    BY <2>5 DEF SendPart, DeleteFrame, EditPlain, AnswerPlain, clock
  <2>. QED
    BY <1>1, <2>1, <2>2, <2>3, <2>4, <2>5 DEF Step
<1>. QED
  BY <1>1 DEF Next, vars, Midnight, CacheExpires, Restock, SaveRules, clock

LEMMA GradeInvariant == Spec => []GradeInv
<1>1. Init => GradeInv
  <2> SUFFICES ASSUME Init PROVE GradeInv
    OBVIOUS
  <2>1. rows = ReplaceRules({}, DefaultRules) /\ written = DefaultRules /\ task = [t \in Tasks |-> Idle]
    BY DEF Init
  <2>2. DefaultRules \in Seq(Written) /\ Valid(DefaultRules)
    <3>. DEFINE line(name, p, a, m) == [title |-> Text(name, 0), price |-> p, average |-> a, months |-> m]
    <3>2. /\ ValidLine(line("master", 1500, 12500, 2)) /\ ValidLine(line("senior_master", 1700, 14500, 2))
          /\ ValidLine(line("expert", 1900, 18000, 3)) /\ ValidLine(line("senior_expert", 2300, 21000, 3))
      BY DEF ValidLine
    <3>3. DefaultRules = << line("master", 1500, 12500, 2), line("senior_master", 1700, 14500, 2),
                            line("expert", 1900, 18000, 3), line("senior_expert", 2300, 21000, 3) >>
      BY DEF DefaultRules
    <3>. HIDE DEF line
    <3>4. PICK a, b, c, d : /\ a = line("master", 1500, 12500, 2) /\ b = line("senior_master", 1700, 14500, 2)
                            /\ c = line("expert", 1900, 18000, 3) /\ d = line("senior_expert", 2300, 21000, 3)
      OBVIOUS
    <3>5. a \in Written /\ b \in Written /\ c \in Written /\ d \in Written
      <4>1. a \in Written
        BY <3>4 DEF line, Written, Named
      <4>2. b \in Written
        BY <3>4 DEF line, Written, Named
      <4>3. c \in Written
        BY <3>4 DEF line, Written, Named
      <4>4. d \in Written
        BY <3>4 DEF line, Written, Named
      <4>. QED
        BY <4>1, <4>2, <4>3, <4>4
    <3>9. PICK lines : lines = <<a, b, c, d>>
      OBVIOUS
    <3>10. ValidLine(a) /\ ValidLine(b) /\ ValidLine(c) /\ ValidLine(d)
      BY <3>2, <3>4
    <3>11. lines \in Seq(Written) /\ \A i \in DOMAIN lines : ValidLine(lines[i])
      BY <3>5, <3>9, <3>10
    <3>12. lines = DefaultRules
      BY <3>3, <3>4, <3>9
    <3>. QED
      BY <3>11, <3>12 DEF Valid
  <2>3. RowsOK(ReplaceRules({}, DefaultRules), DefaultRules)
    <3>1. {} \subseteq Rule /\ \A row, other \in {} : row.title = other.title => row = other
      OBVIOUS
    <3>2. PICK none, lines : none = {} /\ lines = DefaultRules
      OBVIOUS
    <3>3. RowsOK(ReplaceRules(none, lines), lines)
      BY <2>2, <3>1, <3>2, Replaced
    <3>. QED
      BY <3>2, <3>3
  <2>4. EndedOK(Idle)
    BY DEF EndedOK, Idle
  <2>. QED
    BY <2>1, <2>3, <2>4 DEF GradeInv
<1>2. MenuInv /\ GradeInv /\ [Next]_vars => GradeInv'
  BY GradeInductive, Stays DEF MenuInv
<1>. QED
  BY <1>1, <1>2, MenuInvariant, PTL DEF Spec

(* The ladder is the one last written, and an employee whose category is   *)
(* the title of a line is at that line, with the line after it for a goal; *)
(* and the bar that shows how far he is is full where nothing is left.     *)
THEOREM LadderTellsAlways == Spec => []LadderTells
<1>1. GradeInv => LadderTells
  <2> SUFFICES ASSUME GradeInv PROVE LadderTells
    OBVIOUS
  <2>1. LadderAsWritten
    BY LadderOfLines DEF GradeInv
  <2>2. BarTells
    <3> SUFFICES ASSUME section = "grade", NEW t \in Tasks, task[t].at = "send"
                 PROVE  Tells(task[t].rich[1]) /\ Tells(task[t].plain[1])
      BY DEF BarTells, Tells
    <3>1. GradeTaskOK(task[t])
      BY DEF GradeInv, EndedOK
    <3>. QED
      BY <3>1 DEF GradeTaskOK
  <2>. QED
    BY <2>1, <2>2 DEF LadderTells
<1>. QED
  BY <1>1, GradeInvariant, PTL

-----------------------------------------------------------------------------
(* Goods: what a page answered adds to the list, and how it is cut into     *)
(* parts.                                                                   *)

Numbers(list) == {list[i].id : i \in DOMAIN list} \ {0}

(* Goods, each once, all with a number.                                    *)
Distinct(list) ==
  /\ list \in Seq(Items)
  /\ \A i \in DOMAIN list : list[i].id # 0
  /\ \A i, j \in DOMAIN list : list[i].id = list[j].id => i = j

LEMMA WithItemIs ==
  ASSUME NEW list, Distinct(list), NEW item \in Items
  PROVE  /\ Distinct(WithItem(list, item))
         /\ Numbers(WithItem(list, item)) = Numbers(list) \cup ({item.id} \ {0})
<1>1. /\ list \in Seq(Items) /\ Len(list) \in Nat /\ DOMAIN list = 1 .. Len(list)
      /\ item.id \in Nat
  BY DEF Distinct, Items
<1>2. ToSet(Ids(list)) = {list[i].id : i \in DOMAIN list}
  BY <1>1 DEF ToSet, Ids
<1>3. CASE item.id = 0 \/ item.id \in ToSet(Ids(list))
  <2>1. WithItem(list, item) = list
    BY <1>3 DEF WithItem
  <2>2. {item.id} \ {0} \subseteq Numbers(list)
    BY <1>2, <1>3 DEF Numbers
  <2>. QED
    BY <2>1, <2>2
<1>4. CASE ~ (item.id = 0 \/ item.id \in ToSet(Ids(list)))
  <2>. DEFINE new == Append(list, item)
  <2>1. WithItem(list, item) = new
    BY <1>4 DEF WithItem
  <2>2. /\ new \in Seq(Items) /\ DOMAIN new = 1 .. Len(list) + 1
        /\ \A i \in DOMAIN list : new[i] = list[i]
        /\ new[Len(list) + 1] = item
        /\ DOMAIN new = DOMAIN list \cup {Len(list) + 1}
    BY <1>1
  <2>. HIDE DEF new
  <2>3. item.id # 0 /\ \A i \in DOMAIN list : list[i].id # item.id
    BY <1>2, <1>4
  <2>4. Distinct(new)
    <3>1. \A i \in DOMAIN new : new[i].id # 0
      BY <2>2, <2>3 DEF Distinct
    <3>2. \A i, j \in DOMAIN new : new[i].id = new[j].id => i = j
      BY <2>2, <2>3 DEF Distinct
    <3>. QED
      BY <2>2, <3>1, <3>2 DEF Distinct
  <2>5. Numbers(new) = Numbers(list) \cup {item.id}
    BY SMTT(30), <2>2, <2>3 DEF Numbers
  <2>. QED
    BY <2>1, <2>3, <2>4, <2>5
<1>. QED
  BY <1>3, <1>4

(* Each item of a page is taken, once.                                     *)
LEMMA WithItemsAre ==
  ASSUME NEW list, Distinct(list), NEW items \in Seq(Items)
  PROVE  LET all == FoldLeft(WithItem, list, items)
         IN  Distinct(all) /\ Numbers(all) = Numbers(list) \cup Numbers(items)
<1>. DEFINE S == Seq(Items)
            D == DOMAIN items
            op == [p \in S \X Items |-> WithItem(p[1], p[2])]
<1>1. D = 1 .. Len(items) /\ Len(items) \in Nat /\ list \in S
  BY DEF Distinct
<1>2. op \in [S \X Items -> S]
  BY DEF WithItem
<1>3. PICK h \in [SUBSET D -> S] : Folding(h, op, list, items)
  <2>. HIDE DEF op, S
  <2>. QED
    BY <1>1, <1>2, FoldExists
<1>. DEFINE Is(g) == g = [t \in SUBSET D |->
                            IF t = {} THEN list ELSE WithItem(g[t \ {Max(t)}], items[Max(t)])]
<1>4. Is(h)
  <2>1. \A t \in SUBSET D : t # {} =>
          op[<<h[t \ {Max(t)}], items[Max(t)]>>] = WithItem(h[t \ {Max(t)}], items[Max(t)])
    <3>. SUFFICES ASSUME NEW t \in SUBSET D, t # {}
                  PROVE  op[<<h[t \ {Max(t)}], items[Max(t)]>>] = WithItem(h[t \ {Max(t)}], items[Max(t)])
      OBVIOUS
    <3>1. items[Max(t)] \in Items /\ t \ {Max(t)} \in SUBSET D
      BY WithoutLast
    <3>2. h[t \ {Max(t)}] \in S
      BY <3>1
    <3>. HIDE DEF S
    <3>. QED
      BY <3>1, <3>2
  <2>. HIDE DEF op
  <2>. QED
    BY <1>3, <2>1 DEF Folding
<1>. DEFINE g == CHOOSE g : Is(g)
<1>5. Is(g)
  BY <1>4
<1>6. FoldLeft(WithItem, list, items) = g[D]
  BY DEF FoldLeft, MapThenFoldSet
<1>. HIDE DEF g
<1>7. g[{}] = list /\ \A k \in 1 .. Len(items) : g[1 .. k] = WithItem(g[1 .. k - 1], items[k])
  <2>1. g[{}] = list
    BY <1>5
  <2>2. ASSUME NEW k \in 1 .. Len(items) PROVE g[1 .. k] = WithItem(g[1 .. k - 1], items[k])
    <3>1. /\ 1 .. k \in SUBSET D /\ 1 .. k # {}
          /\ Max(1 .. k) = k /\ (1 .. k) \ {k} = 1 .. k - 1
      BY UpTo
    <3>. QED
      BY <1>5, <3>1
  <2>. QED
    BY <2>1, <2>2
<1>. DEFINE Taken(k) == {items[i].id : i \in 1 .. k} \ {0}
            T == {k \in Nat : k <= Len(items) =>
                    Distinct(g[1 .. k]) /\ Numbers(g[1 .. k]) = Numbers(list) \cup Taken(k)}
<1>8. 0 \in T
  <2>1. 1 .. 0 = {}
    OBVIOUS
  <2>. QED
    BY <1>7, <2>1
<1>9. ASSUME NEW k \in Nat, k \in T PROVE k + 1 \in T
  <2>. SUFFICES ASSUME k + 1 <= Len(items)
                PROVE  Distinct(g[1 .. k + 1]) /\ Numbers(g[1 .. k + 1]) = Numbers(list) \cup Taken(k + 1)
    OBVIOUS
  <2>1. /\ Distinct(g[1 .. k]) /\ Numbers(g[1 .. k]) = Numbers(list) \cup Taken(k)
        /\ k + 1 \in 1 .. Len(items) /\ (k + 1) - 1 = k
    BY <1>1, <1>9
  <2>2. g[1 .. k + 1] = WithItem(g[1 .. k], items[k + 1]) /\ items[k + 1] \in Items
    BY <1>7, <2>1
  <2>3. /\ Distinct(g[1 .. k + 1])
        /\ Numbers(g[1 .. k + 1]) = Numbers(g[1 .. k]) \cup ({items[k + 1].id} \ {0})
    BY <2>1, <2>2, WithItemIs
  <2>4. 1 .. k + 1 = (1 .. k) \cup {k + 1}
    OBVIOUS
  <2>5. Taken(k + 1) = Taken(k) \cup ({items[k + 1].id} \ {0})
    BY <2>4
  <2>. QED
    BY <2>1, <2>3, <2>5
<1>10. Len(items) \in T
  <2>. HIDE DEF T
  <2>. QED
    BY <1>1, <1>8, <1>9, Induct
<1>11. Distinct(g[D]) /\ Numbers(g[D]) = Numbers(list) \cup Numbers(items)
  <2>1. Distinct(g[D]) /\ Numbers(g[D]) = Numbers(list) \cup Taken(Len(items))
    BY <1>1, <1>10
  <2>2. Taken(Len(items)) = Numbers(items)
    BY <1>1 DEF Numbers
  <2>. QED
    BY <2>1, <2>2
<1>. QED
  BY <1>6, <1>11

-----------------------------------------------------------------------------
(* The pages of a list.                                                    *)

(* The numbers on the first items of a list.                               *)
First(list, m) == {list[i].id : i \in {i \in DOMAIN list : i <= m}} \ {0}

LEMMA Firstly ==
  ASSUME NEW list \in Seq(Items)
  PROVE  /\ First(list, 0) = {}
         /\ \A m \in Nat : First(list, m) \subseteq Numbers(list)
         /\ \A m \in Nat : m >= Len(list) => First(list, m) = Numbers(list)
<1>1. DOMAIN list = 1 .. Len(list) /\ Len(list) \in Nat
  OBVIOUS
<1>. QED
  BY <1>1 DEF First, Numbers

(* The places of a page.                                                   *)
LEMMA Cut ==
  ASSUME NEW past \in Nat, NEW size \in Nat, size > 0, NEW len \in Nat,
         NEW end, end = (IF past + size < len THEN past + size ELSE len),
         NEW z, z = (IF past + 1 <= end THEN end - past ELSE 0)
  PROVE  /\ z \in Nat
         /\ \A i \in 1 .. len : i > past /\ i <= past + size => i - past \in 1 .. z
         /\ \A j \in 1 .. z : past + j \in 1 .. len /\ past + j <= past + size
         /\ z < size => past + size >= len
         /\ z = 0 => past >= len
<1>1. CASE past + size < len
  BY <1>1
<1>2. CASE ~ (past + size < len)
  BY <1>2
<1>. QED
  BY <1>1, <1>2

(* The items of a list before a page.                                      *)
Past(page, counts) == IF counts THEN (page - 1) * PageSize ELSE 0

(* A page that begins after the first items: it has the next ones.         *)
LEMMA PageIs ==
  ASSUME NEW list \in Seq(Items), NEW n \in Nat \ {0}, NEW counts \in BOOLEAN
  PROVE  LET past == Past(n, counts)
             page == PageOf(list, n, counts)
         IN  /\ page \in Seq(Items) /\ Len(page) \in Nat
             /\ Numbers(page) \subseteq Numbers(list)
             /\ First(list, past + PageSize) = First(list, past) \cup Numbers(page)
             /\ Len(page) < PageSize => First(list, past + PageSize) = Numbers(list)
             /\ page = <<>> => First(list, past) = Numbers(list)
             /\ past \in Nat
<1>. DEFINE past == Past(n, counts)
            page == PageOf(list, n, counts)
            end == IF past + PageSize < Len(list) THEN past + PageSize ELSE Len(list)
<1>1. PageSize \in Nat /\ PageSize > 0
  BY GoodsAssumption
<1>2. past \in Nat
  BY <1>1 DEF Past
<1>3. page = SubSeq(list, past + 1, end)
  BY DEF PageOf, Past
<1>. HIDE DEF past
<1>4. DOMAIN list = 1 .. Len(list) /\ Len(list) \in Nat /\ end \in Nat /\ end <= Len(list)
  BY <1>1, <1>2
<1>5. /\ page \in Seq(Items)
      /\ Len(page) = IF past + 1 <= end THEN end - past ELSE 0
      /\ \A i \in 1 .. Len(page) : page[i] = list[past + i]
  <2>1. \A i \in past + 1 .. end : i \in DOMAIN list /\ list[i] \in Items
    BY <1>2, <1>4
  <2>. HIDE DEF end, page
  <2>2. CASE past + 1 <= end
    BY <1>2, <1>3, <1>4, <2>1, <2>2
  <2>3. CASE ~ (past + 1 <= end)
    <3>1. page = <<>>
      BY <1>2, <1>3, <1>4, <2>3
    <3>. QED
      BY <2>3, <3>1
  <2>. QED
    BY <2>2, <2>3
<1>. HIDE DEF page
<1>6. DOMAIN page = 1 .. Len(page)
  BY <1>5
<1>7. /\ Len(page) \in Nat
      /\ \A i \in DOMAIN list : i > past /\ i <= past + PageSize => i - past \in DOMAIN page
      /\ \A j \in DOMAIN page : past + j \in DOMAIN list /\ past + j <= past + PageSize
      /\ Len(page) < PageSize => past + PageSize >= Len(list)
      /\ Len(page) = 0 => past >= Len(list)
  <2>1. PICK z : z = Len(page)
    OBVIOUS
  <2>2. z = IF past + 1 <= end THEN end - past ELSE 0
    BY <1>5, <2>1
  <2>3. PICK len \in Nat : len = Len(list)
    BY <1>4
  <2>4. PICK last : last = end
    OBVIOUS
  <2>5. /\ last = IF past + PageSize < len THEN past + PageSize ELSE len
        /\ z = IF past + 1 <= last THEN last - past ELSE 0
    BY <2>2, <2>3, <2>4
  <2>6. /\ z \in Nat
        /\ \A i \in 1 .. len : i > past /\ i <= past + PageSize => i - past \in 1 .. z
        /\ \A j \in 1 .. z : past + j \in 1 .. len /\ past + j <= past + PageSize
        /\ z < PageSize => past + PageSize >= len
        /\ z = 0 => past >= len
    BY <1>1, <1>2, <2>5, Cut
  <2>. QED
    BY <1>4, <1>6, <2>1, <2>3, <2>6
<1>. HIDE DEF end
<1>8. First(list, past + PageSize) = First(list, past) \cup Numbers(page)
  <2>1. ASSUME NEW i \in DOMAIN list, i <= past + PageSize, ~ (i <= past)
        PROVE  i - past \in DOMAIN page /\ page[i - past] = list[i]
    <3>1. i \in Nat /\ i > past
      BY <1>2, <1>4, <2>1
    <3>2. i - past \in DOMAIN page
      BY <1>7, <2>1, <3>1
    <3>. QED
      BY <1>2, <1>5, <1>6, <3>1, <3>2
  <2>2. ASSUME NEW j \in DOMAIN page
        PROVE  past + j \in DOMAIN list /\ past + j <= past + PageSize /\ page[j] = list[past + j]
    BY <1>5, <1>6, <1>7
  <2>3. \A i \in DOMAIN list : i <= past => i <= past + PageSize
    BY <1>1, <1>2, <1>4
  <2>4. ASSUME NEW x \in First(list, past + PageSize)
        PROVE  x \in First(list, past) \cup Numbers(page)
    <3>1. PICK i \in DOMAIN list : i <= past + PageSize /\ x = list[i].id
      BY DEF First
    <3>2. CASE i <= past
      BY <3>1, <3>2 DEF First
    <3>3. CASE ~ (i <= past)
      BY <2>1, <3>1, <3>3 DEF First, Numbers
    <3>. QED
      BY <3>2, <3>3
  <2>5. ASSUME NEW x \in Numbers(page) PROVE x \in First(list, past + PageSize)
    <3>1. PICK j \in DOMAIN page : x = page[j].id /\ x # 0
      BY DEF Numbers
    <3>. QED
      BY <2>2, <3>1 DEF First
  <2>6. First(list, past) \subseteq First(list, past + PageSize)
    BY <2>3 DEF First
  <2>. QED
    BY <2>4, <2>5, <2>6
<1>9. Numbers(page) \subseteq Numbers(list)
  <2>1. First(list, past + PageSize) \subseteq Numbers(list)
    BY DEF First, Numbers
  <2>2. PICK N, F, G : N = Numbers(page) /\ F = First(list, past + PageSize) /\ G = Numbers(list)
    OBVIOUS
  <2>3. N \subseteq F /\ F \subseteq G
    BY <1>8, <2>1, <2>2
  <2>. QED
    BY <2>2, <2>3
<1>10. page = <<>> => Len(page) = 0
  OBVIOUS
<1>11. past + PageSize \in Nat
  BY <1>1, <1>2
<1>12. /\ Len(page) < PageSize => First(list, past + PageSize) = Numbers(list)
       /\ page = <<>> => First(list, past) = Numbers(list)
  BY <1>2, <1>7, <1>10, <1>11, Firstly
<1>. QED
  BY <1>2, <1>5, <1>7, <1>8, <1>9, <1>12 DEF past, page

LEMMA Places ==
  ASSUME NEW n \in Nat
  PROVE  IsFiniteSet(1 .. n) /\ Cardinality(1 .. n) = n
BY FS_Interval

(* As many goods as a list has items, all of them of that list, are all    *)
(* there are in it.                                                        *)
LEMMA Enough ==
  ASSUME NEW got, Distinct(got), NEW list \in Seq(Items),
         Numbers(got) \subseteq Numbers(list), Len(got) >= Len(list)
  PROVE  Numbers(got) = Numbers(list)
<1>. DEFINE ids == {list[i].id : i \in DOMAIN list}
            of == [i \in DOMAIN list |-> list[i].id]
            at == [i \in DOMAIN got |-> got[i].id]
<1>1. /\ DOMAIN list = 1 .. Len(list) /\ Len(list) \in Nat
      /\ DOMAIN got = 1 .. Len(got) /\ Len(got) \in Nat
  BY DEF Distinct
<1>2. /\ IsFiniteSet(DOMAIN list) /\ Cardinality(DOMAIN list) = Len(list)
      /\ IsFiniteSet(DOMAIN got) /\ Cardinality(DOMAIN got) = Len(got)
  BY <1>1, Places
<1>3. IsFiniteSet(ids) /\ Cardinality(ids) <= Len(list)
  <2>1. of \in Surjection(DOMAIN list, ids)
    BY DEF Surjection
  <2>. QED
    BY <1>2, <2>1, FS_Surjection
<1>4. /\ IsFiniteSet(Numbers(list)) /\ Cardinality(Numbers(list)) \in Nat
      /\ Cardinality(Numbers(list)) <= Len(list)
  <2>1. Numbers(list) \in SUBSET ids
    BY DEF Numbers
  <2>2. /\ IsFiniteSet(Numbers(list)) /\ Cardinality(Numbers(list)) <= Cardinality(ids)
    BY <1>3, <2>1, FS_Subset
  <2>3. Cardinality(Numbers(list)) \in Nat /\ Cardinality(ids) \in Nat
    BY <1>3, <2>2, FS_CardinalityType
  <2>. QED
    BY <1>1, <1>3, <2>2, <2>3
<1>5. Cardinality(Numbers(got)) = Len(got)
  <2>1. Numbers(got) = {got[i].id : i \in DOMAIN got}
    BY DEF Numbers, Distinct
  <2>2. at \in Surjection(DOMAIN got, Numbers(got))
    BY <2>1 DEF Surjection
  <2>3. at \in Injection(DOMAIN got, Numbers(got))
    BY <2>1 DEF Injection, IsInjective, Distinct
  <2>. QED
    BY <1>2, <2>2, <2>3, FS_Surjection
<1>6. /\ Cardinality(Numbers(got)) <= Cardinality(Numbers(list))
      /\ Cardinality(Numbers(list)) = Cardinality(Numbers(got)) => Numbers(list) = Numbers(got)
  BY <1>4, FS_Subset
<1>. QED
  BY <1>1, <1>4, <1>5, <1>6

(* What has been read of an endpoint.                                      *)
Pages == [goods : Seq(Items), seen : SUBSET Seq(Nat), stop : BOOLEAN,
          raised : {"none"} \cup Failures, torn : BOOLEAN, again : BOOLEAN]

PagesOK(p) ==
  /\ p \in Pages
  /\ Distinct(p.goods)
  /\ p.torn => p.goods # <<>>

(* So many pages of a list have been taken, and no failure or repetition   *)
(* came between: all numbers of those pages, and of the list at the end.   *)
Reading(p, n, list, counts) ==
  PageSize >= ShortPage /\ p.raised = "none" /\ ~ p.torn /\ ~ p.again =>
    /\ Numbers(p.goods) \subseteq Numbers(list)
    /\ p.stop => Numbers(p.goods) = Numbers(list)
    /\ ~ p.stop => IF counts \/ n = 0 THEN Numbers(p.goods) = First(list, n * PageSize)
                   ELSE Ids(PageOf(list, 1, counts)) \in p.seen

(* What may be answered of a page, and of the number of goods.             *)
Answers(answer, list, page, counts) ==
  \E is \in {"page"} \cup Failures : answer = Answer(is, PageOf(list, page, counts))

TotalOK(total, list) == total = NoTotal \/ total = Len(list)

LEMMA TakeItemsReads ==
  ASSUME NEW p, PagesOK(p), ~ p.stop, p.raised = "none", NEW list \in Seq(Items),
         NEW n \in Nat, NEW counts \in BOOLEAN, Reading(p, n, list, counts),
         NEW total, TotalOK(total, list)
  PROVE  Reading(TakeItems(p, PageOf(list, n + 1, counts), total), n + 1, list, counts)
<1>. DEFINE items == PageOf(list, n + 1, counts)
            past == Past(n + 1, counts)
            got == FoldLeft(WithItem, p.goods, items)
            new == TakeItems(p, items, total)
<1>1. /\ items \in Seq(Items) /\ Len(items) \in Nat
      /\ Numbers(items) \subseteq Numbers(list)
      /\ First(list, past + PageSize) = First(list, past) \cup Numbers(items)
      /\ Len(items) < PageSize => First(list, past + PageSize) = Numbers(list)
      /\ items = <<>> => First(list, past) = Numbers(list)
      /\ past \in Nat
  <2>1. PICK i \in Nat \ {0} : i = n + 1
    OBVIOUS
  <2>2. items = PageOf(list, i, counts) /\ past = Past(i, counts)
    BY <2>1
  <2>. HIDE DEF items, past
  <2>. QED
    BY <2>2, PageIs
<1>2. PageSize \in Nat /\ ShortPage \in Nat
  BY GoodsAssumption
<1>3. /\ n = 0 => n * PageSize = 0
      /\ (n + 1) * PageSize = n * PageSize + PageSize
      /\ n + 1 # 0
  BY <1>2
<1>4. counts \/ n = 0 => past = n * PageSize
  <2>1. (n + 1) - 1 = n
    OBVIOUS
  <2>. QED
    BY <1>3, <2>1 DEF Past
<1>5. ~ counts => items = PageOf(list, 1, counts) /\ past = 0
  BY DEF PageOf, Past
<1>6. First(list, 0) = {}
  BY Firstly
<1>. HIDE DEF items, past
<1>7. Distinct(got) /\ Numbers(got) = Numbers(p.goods) \cup Numbers(items)
  BY <1>1, WithItemsAre DEF PagesOK, Pages
<1>. HIDE DEF got
<1>. SUFFICES ASSUME PageSize >= ShortPage, new.raised = "none", ~ new.torn, ~ new.again
              PROVE  /\ Numbers(new.goods) \subseteq Numbers(list)
                     /\ new.stop => Numbers(new.goods) = Numbers(list)
                     /\ ~ new.stop => IF counts \/ n + 1 = 0
                                      THEN Numbers(new.goods) = First(list, (n + 1) * PageSize)
                                      ELSE Ids(PageOf(list, 1, counts)) \in new.seen
  BY DEF Reading, items
<1>8. CASE items = <<>> \/ Ids(items) \in p.seen
  <2>1. new = [p EXCEPT !.stop = TRUE, !.again = @ \/ items # <<>>]
    BY <1>8 DEF TakeItems
  <2>. HIDE DEF new
  <2>2. /\ new.stop /\ new.goods = p.goods /\ new.raised = p.raised /\ new.torn = p.torn
        /\ new.again = (p.again \/ items # <<>>)
    BY <2>1 DEF PagesOK, Pages
  <2>3. items = <<>> /\ ~ p.again /\ ~ p.torn
    BY <2>2
  <2>4. First(list, past) = Numbers(list) /\ Numbers(p.goods) \subseteq Numbers(list)
    BY <1>1, <2>3 DEF Reading
  <2>5. CASE counts \/ n = 0
    BY <1>4, <2>2, <2>3, <2>4, <2>5 DEF Reading
  <2>6. CASE ~ (counts \/ n = 0)
    BY <1>5, <1>6, <2>2, <2>4, <2>6
  <2>. QED
    BY <2>5, <2>6
<1>9. CASE ~ (items = <<>> \/ Ids(items) \in p.seen)
  <2>1. new = [p EXCEPT !.goods = got, !.seen = @ \cup {Ids(items)},
                        !.stop = Len(items) < ShortPage \/ (total # NoTotal /\ Len(got) >= total)]
    BY <1>9 DEF TakeItems, got
  <2>. HIDE DEF new
  <2>2. /\ new.goods = got /\ new.seen = p.seen \cup {Ids(items)}
        /\ new.stop = (Len(items) < ShortPage \/ (total # NoTotal /\ Len(got) >= total))
        /\ new.again = p.again /\ new.torn = p.torn
    BY <2>1 DEF PagesOK, Pages
  <2>3. /\ Numbers(p.goods) \subseteq Numbers(list)
        /\ IF counts \/ n = 0 THEN Numbers(p.goods) = First(list, n * PageSize)
           ELSE Ids(PageOf(list, 1, counts)) \in p.seen
    BY <2>2 DEF Reading
  <2>4. counts \/ n = 0
    BY <1>5, <1>9, <2>3
  <2>5. Numbers(got) = First(list, past + PageSize) /\ Numbers(got) \subseteq Numbers(list)
    BY <1>1, <1>4, <1>7, <2>3, <2>4
  <2>6. ASSUME new.stop PROVE Numbers(got) = Numbers(list)
    <3>1. CASE Len(items) < ShortPage
      <4>1. Len(items) < PageSize
        BY <1>1, <1>2, <3>1
      <4>. QED
        BY <1>1, <2>5, <4>1
    <3>2. CASE total # NoTotal /\ Len(got) >= total
      <4>1. Len(got) >= Len(list)
        BY <3>2 DEF TotalOK
      <4>. QED
        BY <1>7, <2>5, <4>1, Enough
    <3>. QED
      BY <2>2, <2>6, <3>1, <3>2
  <2>7. counts => Numbers(got) = First(list, (n + 1) * PageSize)
    BY <1>3, <1>4, <2>5
  <2>8. ~ counts => Ids(PageOf(list, 1, counts)) \in new.seen
    BY <1>5, <2>2
  <2>. QED
    BY <1>3, <2>2, <2>5, <2>6, <2>7, <2>8
<1>. QED
  BY <1>8, <1>9

LEMMA TakePageReads ==
  ASSUME NEW p, PagesOK(p), NEW list \in Seq(Items), NEW n \in Nat, NEW page, page = n + 1,
         NEW counts \in BOOLEAN, NEW total, TotalOK(total, list),
         NEW answer, Answers(answer, list, page, counts)
  PROVE  /\ PagesOK(TakePage(p, answer, total))
         /\ Reading(p, n, list, counts) => Reading(TakePage(p, answer, total), page, list, counts)
<1>. DEFINE items == PageOf(list, n + 1, counts)
            new == TakePage(p, answer, total)
<1>0. PICK is \in {"page"} \cup Failures : answer = Answer(is, items)
  BY DEF Answers
<1>1. answer.is = is /\ answer.items = items /\ "page" \notin Failures /\ "none" \notin Failures
  BY <1>0 DEF Answer, Failures, Forbidden, Absent, Refused, Down
<1>2. items \in Seq(Items)
  <2>1. PICK i \in Nat \ {0} : i = n + 1
    OBVIOUS
  <2>. QED
    BY <2>1, PageIs
<1>3. CASE p.stop \/ p.raised # "none"
  <2>1. new = p
    BY <1>3 DEF TakePage
  <2>2. Reading(p, n, list, counts) => Reading(p, n + 1, list, counts)
    BY <1>3 DEF Reading
  <2>. QED
    BY <2>1, <2>2
<1>4. CASE ~ (p.stop \/ p.raised # "none") /\ is = "page"
  <2>1. new = TakeItems(p, items, total)
    BY <1>1, <1>4 DEF TakePage
  <2>2. PagesOK(TakeItems(p, items, total))
    <3>. DEFINE got == FoldLeft(WithItem, p.goods, items)
    <3>1. Distinct(got) /\ got \in Seq(Items) /\ Ids(items) \in Seq(Nat)
      <4>1. Distinct(got)
        BY <1>2, WithItemsAre DEF PagesOK
      <4>2. \A i \in DOMAIN items : items[i].id \in Nat
        <5>. HIDE DEF items
        <5>1. \A i \in DOMAIN items : items[i] \in Items
          BY <1>2
        <5>. QED
          BY <5>1 DEF Items
      <4>3. Ids(items) \in Seq(Nat)
        BY <1>2, <4>2 DEF Ids
      <4>. QED
        BY <4>1, <4>3 DEF Distinct
    <3>2. got = <<>> => p.goods = <<>>
      <4>1. Numbers(got) = Numbers(p.goods) \cup Numbers(items)
        BY <1>2, WithItemsAre DEF PagesOK, Pages
      <4>2. p.goods # <<>> => p.goods[1].id \in Numbers(p.goods)
        BY DEF Numbers, PagesOK, Distinct
      <4>3. got = <<>> => Numbers(got) = {}
        BY DEF Numbers
      <4>. QED
        BY <4>1, <4>2, <4>3
    <3>. HIDE DEF got, items
    <3>3. CASE items = <<>> \/ Ids(items) \in p.seen
      <4>1. TakeItems(p, items, total) = [p EXCEPT !.stop = TRUE, !.again = @ \/ items # <<>>]
        BY <3>3 DEF TakeItems
      <4>. QED
        BY <4>1 DEF PagesOK, Pages
    <3>4. CASE ~ (items = <<>> \/ Ids(items) \in p.seen)
      <4>. DEFINE stop == Len(items) < ShortPage \/ (total # NoTotal /\ Len(got) >= total)
                  taken == TakeItems(p, items, total)
      <4>1. taken = [p EXCEPT !.goods = got, !.seen = @ \cup {Ids(items)}, !.stop = stop]
        BY <3>4 DEF TakeItems, got
      <4>2. stop \in BOOLEAN
        OBVIOUS
      <4>. HIDE DEF stop, taken
      <4>3. taken \in Pages /\ taken.goods = got /\ taken.torn = p.torn
        BY <3>1, <4>1, <4>2 DEF PagesOK, Pages
      <4>. QED
        BY <3>1, <3>2, <4>3 DEF PagesOK, taken
    <3>. QED
      BY <3>3, <3>4
  <2>3. Reading(p, n, list, counts) => Reading(TakeItems(p, items, total), n + 1, list, counts)
    BY <1>4, TakeItemsReads
  <2>. QED
    BY <2>1, <2>2, <2>3
<1>5. CASE ~ (p.stop \/ p.raised # "none") /\ is # "page"
  <2>1. new = TakeFailure(p, is)
    BY <1>1, <1>5 DEF TakePage
  <2>2. CASE p.goods # <<>>
    <3>1. new = [p EXCEPT !.stop = TRUE, !.torn = TRUE]
      BY <2>1, <2>2 DEF TakeFailure
    <3>. HIDE DEF new
    <3>2. new.torn /\ PagesOK(new)
      BY <2>2, <3>1 DEF PagesOK, Pages
    <3>. QED
      BY <3>2 DEF Reading, new
  <2>3. CASE ~ (p.goods # <<>>)
    <3>1. new = [p EXCEPT !.raised = is]
      BY <2>1, <2>3 DEF TakeFailure
    <3>. HIDE DEF new
    <3>2. new.raised = is /\ is # "none" /\ PagesOK(new)
      BY <1>1, <1>5, <2>3, <3>1 DEF PagesOK, Pages
    <3>. QED
      BY <3>2 DEF Reading, new
  <2>. QED
    BY <2>2, <2>3
<1>. QED
  BY <1>3, <1>4, <1>5

(* The answers of a batch are taken one after the other.                   *)
LEMMA BatchReads ==
  ASSUME NEW p, PagesOK(p), NEW list \in Seq(Items), NEW n \in Nat, NEW counts \in BOOLEAN,
         NEW total, TotalOK(total, list), NEW m \in Nat, NEW A, NEW answers \in [1 .. m -> A],
         \A a \in A : \E j \in 1 .. m : a = answers[j],
         \A j \in 1 .. m : Answers(answers[j], list, n + j, counts)
  PROVE  /\ PagesOK(TakeBatch(p, answers, total))
         /\ Reading(p, n, list, counts) => Reading(TakeBatch(p, answers, total), n + m, list, counts)
<1>. DEFINE B == {q \in Pages : PagesOK(q)}
            D == DOMAIN answers
            op == [x \in B \X A |-> TakePage(x[1], x[2], total)]
<1>1. Len(answers) = m /\ D = 1 .. m /\ answers \in Seq(A) /\ p \in B
  BY DEF PagesOK
<1>2. ASSUME NEW q, PagesOK(q), NEW j \in 1 .. m
      PROVE  /\ PagesOK(TakePage(q, answers[j], total))
             /\ Reading(q, n + j - 1, list, counts) =>
                  Reading(TakePage(q, answers[j], total), n + j, list, counts)
  <2>1. Answers(answers[j], list, n + j, counts)
    OBVIOUS
  <2>2. PICK k \in Nat : k = n + j - 1
    OBVIOUS
  <2>3. PICK i : i = n + j
    OBVIOUS
  <2>4. i = k + 1 /\ Answers(answers[j], list, i, counts)
    BY <2>1, <2>2, <2>3
  <2>5. /\ PagesOK(TakePage(q, answers[j], total))
        /\ Reading(q, k, list, counts) => Reading(TakePage(q, answers[j], total), i, list, counts)
    BY <1>2, <2>4, TakePageReads
  <2>. QED
    BY <2>2, <2>3, <2>5
<1>3. op \in [B \X A -> B]
  <2>1. ASSUME NEW q \in B, NEW a \in A PROVE TakePage(q, a, total) \in B
    <3>1. PICK j \in 1 .. m : a = answers[j]
      OBVIOUS
    <3>2. PagesOK(TakePage(q, a, total))
      BY <1>2, <3>1
    <3>. QED
      BY <3>2 DEF PagesOK
  <2>. HIDE DEF B
  <2>. QED
    BY <2>1
<1>4. PICK h \in [SUBSET D -> B] : Folding(h, op, p, answers)
  <2>. HIDE DEF op, B
  <2>. QED
    BY <1>1, <1>3, FoldExists
<1>. DEFINE Is(g) == g = [t \in SUBSET D |->
                            IF t = {} THEN p ELSE TakePage(g[t \ {Max(t)}], answers[Max(t)], total)]
<1>. HIDE DEF B
<1>5. Is(h)
  <2>1. \A t \in SUBSET D : t # {} =>
          op[<<h[t \ {Max(t)}], answers[Max(t)]>>] = TakePage(h[t \ {Max(t)}], answers[Max(t)], total)
    <3>. SUFFICES ASSUME NEW t \in SUBSET D, t # {}
                  PROVE  op[<<h[t \ {Max(t)}], answers[Max(t)]>>] =
                           TakePage(h[t \ {Max(t)}], answers[Max(t)], total)
      OBVIOUS
    <3>1. answers[Max(t)] \in A /\ t \ {Max(t)} \in SUBSET D
      BY <1>1, WithoutLast
    <3>2. h[t \ {Max(t)}] \in B
      BY <3>1
    <3>. QED
      BY <3>1, <3>2
  <2>. HIDE DEF op
  <2>. QED
    BY <1>4, <2>1 DEF Folding
<1>. DEFINE g == CHOOSE g : Is(g)
<1>6. Is(g)
  BY <1>5
<1>7. TakeBatch(p, answers, total) = g[D]
  BY DEF TakeBatch, FoldLeft, MapThenFoldSet
<1>. HIDE DEF g
<1>8. g[{}] = p /\ \A k \in 1 .. m : g[1 .. k] = TakePage(g[1 .. k - 1], answers[k], total)
  <2>1. g[{}] = p
    BY <1>6
  <2>2. ASSUME NEW k \in 1 .. m PROVE g[1 .. k] = TakePage(g[1 .. k - 1], answers[k], total)
    <3>1. /\ 1 .. k \in SUBSET D /\ 1 .. k # {}
          /\ Max(1 .. k) = k /\ (1 .. k) \ {k} = 1 .. k - 1
      BY <1>1, UpTo
    <3>. QED
      BY <1>6, <3>1
  <2>. QED
    BY <2>1, <2>2
<1>. DEFINE T == {k \in Nat : k <= m =>
                    /\ PagesOK(g[1 .. k])
                    /\ Reading(p, n, list, counts) => Reading(g[1 .. k], n + k, list, counts)}
<1>9. 0 \in T
  <2>1. 1 .. 0 = {} /\ n + 0 = n
    OBVIOUS
  <2>. QED
    BY <1>8, <2>1
<1>10. ASSUME NEW k \in Nat, k \in T PROVE k + 1 \in T
  <2>. SUFFICES ASSUME k + 1 <= m
                PROVE  /\ PagesOK(g[1 .. k + 1])
                       /\ Reading(p, n, list, counts) => Reading(g[1 .. k + 1], n + (k + 1), list, counts)
    OBVIOUS
  <2>1. /\ PagesOK(g[1 .. k])
        /\ Reading(p, n, list, counts) => Reading(g[1 .. k], n + k, list, counts)
        /\ k + 1 \in 1 .. m /\ (k + 1) - 1 = k /\ n + (k + 1) - 1 = n + k
    BY <1>10
  <2>2. g[1 .. k + 1] = TakePage(g[1 .. k], answers[k + 1], total)
    BY <1>8, <2>1
  <2>3. /\ PagesOK(TakePage(g[1 .. k], answers[k + 1], total))
        /\ Reading(g[1 .. k], n + k, list, counts) =>
             Reading(TakePage(g[1 .. k], answers[k + 1], total), n + (k + 1), list, counts)
    BY <1>2, <2>1
  <2>. QED
    BY <2>1, <2>2, <2>3
<1>11. m \in T
  <2>. HIDE DEF T
  <2>. QED
    BY <1>9, <1>10, Induct
<1>. QED
  BY <1>1, <1>7, <1>11

-----------------------------------------------------------------------------
(* What an employee is told of a list: the goods in stock, and the parts.  *)

LEMMA LessTwice ==
  ASSUME NEW gx \in Nat, NEW gy \in Nat, NEW gz \in Nat, NEW nx \in Nat, NEW ny \in Nat,
         NEW nz \in Nat, NEW x \in Nat, NEW y \in Nat, NEW z \in Nat,
         gx < gy \/ (gx = gy /\ nx < ny) \/ (gx = gy /\ nx = ny /\ x < y),
         gy < gz \/ (gy = gz /\ ny < nz) \/ (gy = gz /\ ny = nz /\ y < z)
  PROVE  gx < gz \/ (gx = gz /\ nx < nz) \/ (gx = gz /\ nx = nz /\ x < z)
OBVIOUS

LEMMA VisibleAre ==
  ASSUME NEW list \in Seq(Items)
  PROVE  VisibleProducts(list) \in Seq(Items)
<1> DEFINE places == {i \in DOMAIN list : list[i].stock > 0 /\ ~ list[i].certificate}
           some == Picked(list, places)
           sorted == {p \in (DOMAIN some) \X (DOMAIN some) :
                        LET a == some[p[1]]
                            b == some[p[2]]
                        IN  Before(a, b) \/ (~ Before(b, a) /\ p[1] < p[2])}
           at == InOrder(DOMAIN some, sorted)
<1>1. some \in Seq(Items) /\ places \in SUBSET DOMAIN list
  <2>1. places \in SUBSET DOMAIN list
    OBVIOUS
  <2>. HIDE DEF places
  <2>. QED
    BY <2>1, PickedIs
<1>2. VisibleProducts(list) = [n \in DOMAIN at |-> some[at[n]]]
  BY DEF VisibleProducts
<1>. HIDE DEF some
<1>3. DOMAIN some = 1 .. Len(some) /\ Len(some) \in Nat
  BY <1>1
<1>4. IsFiniteSet(DOMAIN some)
  BY <1>3, FS_Interval
<1>5. \A i, j \in DOMAIN some : <<i, j>> \in sorted <=>
        \/ some[i].group < some[j].group
        \/ some[i].group = some[j].group /\ some[i].id < some[j].id
        \/ some[i].group = some[j].group /\ some[i].id = some[j].id /\ i < j
  <2> SUFFICES ASSUME NEW i \in DOMAIN some, NEW j \in DOMAIN some
               PROVE  <<i, j>> \in sorted <=>
                        \/ some[i].group < some[j].group
                        \/ some[i].group = some[j].group /\ some[i].id < some[j].id
                        \/ some[i].group = some[j].group /\ some[i].id = some[j].id /\ i < j
    OBVIOUS
  <2>1. PICK a \in Items, b \in Items : a = some[i] /\ b = some[j]
    BY <1>1
  <2>2. <<i, j>> \in sorted <=> Before(a, b) \/ (~ Before(b, a) /\ i < j)
    BY <2>1
  <2>3. /\ a.group \in Nat /\ b.group \in Nat /\ a.id \in Nat /\ b.id \in Nat
        /\ i \in Nat /\ j \in Nat
    BY <1>3 DEF Items
  <2>. QED
    BY <2>1, <2>2, <2>3 DEF Before
<1>6. \A i \in DOMAIN some : some[i].group \in Nat /\ some[i].id \in Nat /\ i \in Nat
  <2>1. \A i \in DOMAIN some : some[i] \in Items
    BY <1>1
  <2>. QED
    BY <1>3, <2>1 DEF Items
<1>. HIDE DEF sorted
<1>7. Orders(sorted, DOMAIN some)
  <2> DEFINE group == [i \in DOMAIN some |-> some[i].group]
             id == [i \in DOMAIN some |-> some[i].id]
             D == DOMAIN some
  <2>1. \A i \in D : group[i] \in Nat /\ id[i] \in Nat /\ i \in Nat
    BY <1>6
  <2>2. \A i, j \in D : <<i, j>> \in sorted <=>
          \/ group[i] < group[j]
          \/ group[i] = group[j] /\ id[i] < id[j]
          \/ group[i] = group[j] /\ id[i] = id[j] /\ i < j
    BY <1>5
  <2>. HIDE DEF group, id, D
  <2>3. \A x \in D : <<x, x>> \notin sorted
    BY <2>1, <2>2
  <2>4. \A x, y, z \in D : <<x, y>> \in sorted /\ <<y, z>> \in sorted => <<x, z>> \in sorted
    <3> SUFFICES ASSUME NEW x \in D, NEW y \in D, NEW z \in D,
                        <<x, y>> \in sorted, <<y, z>> \in sorted
                 PROVE  <<x, z>> \in sorted
      OBVIOUS
    <3>1. PICK gx \in Nat, gy \in Nat, gz \in Nat, nx \in Nat, ny \in Nat, nz \in Nat :
            /\ gx = group[x] /\ gy = group[y] /\ gz = group[z]
            /\ nx = id[x] /\ ny = id[y] /\ nz = id[z]
      BY <2>1
    <3>2. x \in Nat /\ y \in Nat /\ z \in Nat
      BY <2>1
    <3>3. gx < gy \/ (gx = gy /\ nx < ny) \/ (gx = gy /\ nx = ny /\ x < y)
      BY <2>2, <3>1
    <3>4. gy < gz \/ (gy = gz /\ ny < nz) \/ (gy = gz /\ ny = nz /\ y < z)
      BY <2>2, <3>1
    <3>5. gx < gz \/ (gx = gz /\ nx < nz) \/ (gx = gz /\ nx = nz /\ x < z)
      BY <3>2, <3>3, <3>4, LessTwice
    <3>. QED
      BY <2>2, <3>1, <3>5
  <2>5. \A x, y \in D : x = y \/ <<x, y>> \in sorted \/ <<y, x>> \in sorted
    <3> SUFFICES ASSUME NEW x \in D, NEW y \in D
                 PROVE  x = y \/ <<x, y>> \in sorted \/ <<y, x>> \in sorted
      OBVIOUS
    <3>1. /\ group[x] \in Nat /\ group[y] \in Nat /\ id[x] \in Nat /\ id[y] \in Nat
          /\ x \in Nat /\ y \in Nat
      BY <2>1
    <3>. QED
      BY <2>2, <3>1
  <2>6. Orders(sorted, D)
    BY <2>3, <2>4, <2>5 DEF Orders
  <2>. QED
    BY <2>6 DEF D
<1>8. at \in [1 .. Cardinality(DOMAIN some) -> DOMAIN some] /\ Cardinality(DOMAIN some) \in Nat
  BY <1>4, <1>7, InOrderIs
<1>. HIDE DEF at
<1>9. PICK n \in Nat : at \in [1 .. n -> DOMAIN some]
  BY <1>8
<1>10. \A k \in 1 .. n : some[at[k]] \in Items
  BY <1>1, <1>9
<1>11. VisibleProducts(list) = [k \in 1 .. n |-> some[at[k]]]
  BY <1>2, <1>9
<1>. QED
  BY <1>10, <1>11, IsASeq

(* A list of parts takes one more good: in a new part, or in its last.     *)
LEMMA PartsGrow ==
  ASSUME NEW parts \in Seq(Seq(Items)), NEW good \in Items
  PROVE  /\ Append(parts, <<good>>) \in Seq(Seq(Items))
         /\ FlattenSeq(Append(parts, <<good>>)) = Append(FlattenSeq(parts), good)
         /\ parts # <<>> =>
              /\ Append(Front(parts), Append(Last(parts), good)) \in Seq(Seq(Items))
              /\ FlattenSeq(Append(Front(parts), Append(Last(parts), good))) =
                   Append(FlattenSeq(parts), good)
<1>1. <<good>> \in Seq(Items) /\ \A s \in Seq(Items) : s \o <<good>> = Append(s, good)
  OBVIOUS
<1>2. FlattenSeq(parts) \in Seq(Items)
  BY <1>1, FlattenAppend
<1>3. FlattenSeq(Append(parts, <<good>>)) = Append(FlattenSeq(parts), good)
  <2>1. PICK one \in Seq(Items) : one = <<good>>
    BY <1>1
  <2>2. FlattenSeq(Append(parts, one)) = FlattenSeq(parts) \o one
    BY FlattenAppend
  <2>. QED
    BY <1>1, <1>2, <2>1, <2>2
<1>4. ASSUME parts # <<>>
      PROVE  /\ Append(Front(parts), Append(Last(parts), good)) \in Seq(Seq(Items))
             /\ FlattenSeq(Append(Front(parts), Append(Last(parts), good))) =
                  Append(FlattenSeq(parts), good)
  <2>1. PICK front, last : front = Front(parts) /\ last = Last(parts)
    OBVIOUS
  <2>2. /\ front \in Seq(Seq(Items)) /\ last \in Seq(Items) /\ parts = Append(front, last)
    <3>1. Len(parts) \in Nat /\ Len(parts) > 0
      BY <1>4
    <3>2. last = parts[Len(parts)] /\ last \in Seq(Items)
      BY <2>1, <3>1 DEF Last
    <3>3. front = [i \in 1 .. Len(parts) - 1 |-> parts[i]]
      BY <2>1, <3>1 DEF Front
    <3>. QED
      BY <3>1, <3>2, <3>3
  <2>. DEFINE more == Append(last, good)
  <2>3. more \in Seq(Items)
    BY <2>2
  <2>. HIDE DEF more
  <2>4. /\ FlattenSeq(parts) = FlattenSeq(front) \o last
        /\ FlattenSeq(Append(front, more)) = FlattenSeq(front) \o more
        /\ FlattenSeq(front) \in Seq(Items)
    BY <2>2, <2>3, FlattenAppend
  <2>5. FlattenSeq(front) \o more = Append(FlattenSeq(front) \o last, good)
    BY <2>2, <2>4 DEF more
  <2>6. Append(front, more) \in Seq(Seq(Items))
    BY <2>2, <2>3
  <2>7. FlattenSeq(Append(front, more)) = Append(FlattenSeq(parts), good)
    BY <2>4, <2>5
  <2>. QED
    BY <2>1, <2>6, <2>7 DEF more
<1>. QED
  BY <1>1, <1>3, <1>4

(* One more good, with parts that fit.                                     *)
Joins(parts, good, new, Fits) ==
  \/ new = Append(parts, <<good>>)
  \/ /\ parts # <<>> /\ Append(Last(parts), good) \in Fits
     /\ new = Append(Front(parts), Append(Last(parts), good))

LEMMA JoinsFit ==
  ASSUME NEW Fits, \A good \in Items : <<good>> \in Fits,
         NEW parts \in Seq(Fits), NEW good \in Items, NEW new, Joins(parts, good, new, Fits)
  PROVE  new \in Seq(Fits)
<1>1. CASE new = Append(parts, <<good>>)
  BY <1>1
<1>2. CASE parts # <<>> /\ Append(Last(parts), good) \in Fits
           /\ new = Append(Front(parts), Append(Last(parts), good))
  <2>1. PICK more \in Fits : more = Append(Last(parts), good)
    BY <1>2
  <2>2. Len(parts) \in Nat /\ Len(parts) > 0
    BY <1>2
  <2>3. Front(parts) = [i \in 1 .. Len(parts) - 1 |-> parts[i]]
    BY <2>2 DEF Front
  <2>4. Front(parts) \in Seq(Fits)
    BY <2>2, <2>3
  <2>. QED
    BY <1>2, <2>1, <2>4
<1>. QED
  BY <1>1, <1>2 DEF Joins

LEMMA PartsFit ==
  ASSUME NEW Fits, Fits \subseteq Seq(Items), \A good \in Items : <<good>> \in Fits,
         NEW list \in Seq(Items), NEW n \in Nat, n = Len(list), NEW c, c[0] = <<>>,
         \A k \in 1 .. n : c[k - 1] \in Seq(Fits) => Joins(c[k - 1], list[k], c[k], Fits)
  PROVE  c[n] \in Seq(Fits) /\ FlattenSeq(c[n]) = list
<1> DEFINE Taken(k) == SubSeq(list, 1, k)
           T == {k \in Nat : k <= n => c[k] \in Seq(Fits) /\ FlattenSeq(c[k]) = Taken(k)}
<1>1. 0 \in T
  <2>1. <<>> \in Seq(Fits) /\ Taken(0) = <<>>
    OBVIOUS
  <2>. QED
    BY <2>1, FlattenEmpty
<1>2. ASSUME NEW k \in Nat, k \in T PROVE k + 1 \in T
  <2>. SUFFICES ASSUME k + 1 <= n
                PROVE  c[k + 1] \in Seq(Fits) /\ FlattenSeq(c[k + 1]) = Taken(k + 1)
    OBVIOUS
  <2>1. PICK j : j = k + 1
    OBVIOUS
  <2>2. j \in 1 .. n /\ j - 1 = k /\ list[j] \in Items
    BY <2>1
  <2>3. c[k] \in Seq(Fits) /\ FlattenSeq(c[k]) = Taken(k)
    BY <1>2, <2>2
  <2>4. PICK parts, good, new : parts = c[k] /\ good = list[j] /\ new = c[j]
    OBVIOUS
  <2>5. parts \in Seq(Fits) /\ parts \in Seq(Seq(Items)) /\ good \in Items /\ <<good>> \in Fits
    BY <2>2, <2>3, <2>4
  <2>6. Joins(parts, good, new, Fits)
    BY <2>2, <2>3, <2>4
  <2>7. Taken(j) = Append(Taken(k), good)
    BY <2>1, <2>2, <2>4
  <2>8. FlattenSeq(new) = Append(FlattenSeq(parts), good)
    BY ZenonT(60), <2>5, <2>6, PartsGrow DEF Joins
  <2>9. new \in Seq(Fits)
    BY <2>5, <2>6, JoinsFit
  <2>. HIDE DEF Taken
  <2>. QED
    BY <2>1, <2>3, <2>4, <2>7, <2>8, <2>9
<1>3. n \in T
  <2>. HIDE DEF T
  <2>. QED
    BY <1>1, <1>2, Induct
<1>4. Taken(n) = list
  OBVIOUS
<1>. QED
  BY <1>3, <1>4
LEMMA PartsFold ==
  ASSUME NEW Fits, Fits \subseteq Seq(Items), \A good \in Items : <<good>> \in Fits,
         NEW list \in Seq(Items), NEW g, g[{}] = <<>>,
         \A k \in 1 .. Len(list) : g[1 .. k - 1] \in Seq(Fits) =>
                                   Joins(g[1 .. k - 1], list[k], g[1 .. k], Fits)
  PROVE  g[DOMAIN list] \in Seq(Fits) /\ FlattenSeq(g[DOMAIN list]) = list
<1>. DEFINE c == [k \in 0 .. Len(list) |-> g[1 .. k]]
<1>1. PICK n \in Nat : n = Len(list)
  OBVIOUS
<1>2. c[0] = <<>>
  <2>1. 1 .. 0 = {} /\ 0 \in 0 .. Len(list)
    BY <1>1
  <2>. QED
    BY <2>1
<1>3. ASSUME NEW k \in 1 .. n, c[k - 1] \in Seq(Fits) PROVE Joins(c[k - 1], list[k], c[k], Fits)
  <2>1. k - 1 \in 0 .. Len(list) /\ k \in 0 .. Len(list) /\ k \in 1 .. Len(list)
    BY <1>1
  <2>2. c[k - 1] = g[1 .. k - 1] /\ c[k] = g[1 .. k]
    BY <2>1
  <2>. HIDE DEF c
  <2>. QED
    BY <1>3, <2>1, <2>2
<1>4. c[n] = g[DOMAIN list]
  BY <1>1
<1>. HIDE DEF c
<1>5. c[n] \in Seq(Fits) /\ FlattenSeq(c[n]) = list
  BY <1>1, <1>2, <1>3, PartsFit
<1>. QED
  BY <1>4, <1>5

(* The rich parts have all goods, in their order, and fit.                 *)
LEMMA RichPartsAre ==
  ASSUME NEW list \in Seq(Items), NEW Fits, Fits = {part \in Seq(Items) : Len(part) <= PartSize}
  PROVE  ProductRichChunks(list) \in Seq(Fits) /\ FlattenSeq(ProductRichChunks(list)) = list
<1>. DEFINE P == Seq(Fits)
            D == DOMAIN list
            n == Len(list)
            Take(parts, good) ==
              IF parts = <<>> \/ Len(Last(parts)) >= PartSize
              THEN Append(parts, <<good>>)
              ELSE Append(Front(parts), Append(Last(parts), good))
            op == [p \in P \X Items |-> Take(p[1], p[2])]
<1>1. D = 1 .. n /\ n \in Nat /\ Fits \subseteq Seq(Items) /\ <<>> \in P
  OBVIOUS
<1>2. \A good \in Items : <<good>> \in Fits
  <2>1. \A good \in Items : <<good>> \in Seq(Items) /\ Len(<<good>>) = 1
    OBVIOUS
  <2>. QED
    BY <2>1, GoodsAssumption
<1>3. ASSUME NEW parts \in P, NEW good \in Items
      PROVE  Joins(parts, good, Take(parts, good), Fits)
  <2>1. CASE parts = <<>> \/ Len(Last(parts)) >= PartSize
    BY <2>1 DEF Joins
  <2>2. CASE ~ (parts = <<>> \/ Len(Last(parts)) >= PartSize)
    <3>1. Len(parts) \in Nat /\ Len(parts) > 0
      BY <2>2
    <3>2. PICK last : last = Last(parts)
      OBVIOUS
    <3>3. last \in Seq(Items)
      BY <3>1, <3>2 DEF Last
    <3>4. Append(last, good) \in Seq(Items) /\ Len(Append(last, good)) = Len(last) + 1 /\ Len(last) \in Nat
      BY <3>3
    <3>5. Append(last, good) \in Fits
      BY <2>2, <3>2, <3>4, GoodsAssumption
    <3>. QED
      BY <2>2, <3>2, <3>5 DEF Joins
  <2>. QED
    BY <2>1, <2>2
<1>. HIDE DEF Take
<1>4. op \in [P \X Items -> P]
  <2>1. \A parts \in P, good \in Items : Take(parts, good) \in P
    BY <1>2, <1>3, JoinsFit
  <2>. HIDE DEF P
  <2>. QED
    BY <2>1
<1>5. PICK h \in [SUBSET D -> P] : Folding(h, op, <<>>, list)
  <2>. HIDE DEF op, P
  <2>. QED
    BY <1>1, <1>4, FoldExists
<1>. DEFINE Is(g) == g = [t \in SUBSET D |->
                            IF t = {} THEN <<>> ELSE Take(g[t \ {Max(t)}], list[Max(t)])]
<1>6. Is(h)
  <2>1. \A t \in SUBSET D : t # {} =>
          op[<<h[t \ {Max(t)}], list[Max(t)]>>] = Take(h[t \ {Max(t)}], list[Max(t)])
    <3>. SUFFICES ASSUME NEW t \in SUBSET D, t # {}
                  PROVE  op[<<h[t \ {Max(t)}], list[Max(t)]>>] = Take(h[t \ {Max(t)}], list[Max(t)])
      OBVIOUS
    <3>1. list[Max(t)] \in Items /\ t \ {Max(t)} \in SUBSET D
      BY WithoutLast
    <3>2. h[t \ {Max(t)}] \in P
      BY <3>1
    <3>. HIDE DEF P
    <3>. QED
      BY <3>1, <3>2
  <2>. HIDE DEF op
  <2>. QED
    BY <1>5, <2>1 DEF Folding
<1>. DEFINE g == CHOOSE g : Is(g)
<1>7. Is(g)
  BY <1>6
<1>8. ProductRichChunks(list) = g[D]
  BY DEF ProductRichChunks, FoldLeft, MapThenFoldSet, Take
<1>. HIDE DEF g
<1>9. g[{}] = <<>>
  BY <1>7
<1>10. ASSUME NEW k \in 1 .. n PROVE g[1 .. k] = Take(g[1 .. k - 1], list[k])
  <2>1. /\ 1 .. k \in SUBSET D /\ 1 .. k # {}
        /\ Max(1 .. k) = k /\ (1 .. k) \ {k} = 1 .. k - 1
    BY UpTo
  <2>. QED
    BY <1>7, <2>1
<1>11. ASSUME NEW k \in 1 .. n, g[1 .. k - 1] \in P
       PROVE  Joins(g[1 .. k - 1], list[k], g[1 .. k], Fits)
  <2>1. list[k] \in Items
    BY <1>1
  <2>. HIDE DEF P
  <2>. QED
    BY <1>3, <1>10, <1>11, <2>1
<1>12. g[D] \in Seq(Fits) /\ FlattenSeq(g[D]) = list
  <2>1. PICK F : F = Fits
    OBVIOUS
  <2>2. F \subseteq Seq(Items) /\ \A good \in Items : <<good>> \in F
    BY <1>1, <1>2, <2>1
  <2>3. \A k \in 1 .. Len(list) : g[1 .. k - 1] \in Seq(F) => Joins(g[1 .. k - 1], list[k], g[1 .. k], F)
    BY <1>11, <2>1
  <2>4. g[DOMAIN list] \in Seq(F) /\ FlattenSeq(g[DOMAIN list]) = list
    BY <1>9, <2>2, <2>3, PartsFold
  <2>. QED
    BY <2>1, <2>4
<1>. QED
  BY <1>8, <1>12

(* The lines of a part are a number.                                       *)
LEMMA PartLengthIs ==
  ASSUME NEW part \in Seq(Items)
  PROVE  PartLength(part) \in Nat
<1>. DEFINE P == Nat \X Seq(Items)
            D == DOMAIN part
            Take(told, good) == <<told[1] + LinesOf(good, told[2]), Append(told[2], good)>>
            base == <<0, <<>>>>
            op == [p \in P \X Items |-> Take(p[1], p[2])]
<1>1. base \in P
  <2>. PICK A : A = Items
    OBVIOUS
  <2>1. PICK none \in Seq(A) : none = <<>>
    BY EmptySeq
  <2>2. <<0, none>> \in P
    OBVIOUS
  <2>. QED
    BY <2>1, <2>2
<1>2. ASSUME NEW told \in P, NEW good \in Items PROVE Take(told, good) \in P
  <2>1. told[1] \in Nat /\ told[2] \in Seq(Items) /\ good.lines \in Nat
    BY DEF Items
  <2>2. PICK n : n = told[1] + LinesOf(good, told[2])
    OBVIOUS
  <2>3. PICK more : more = Append(told[2], good)
    OBVIOUS
  <2>4. n \in Nat
    BY <2>1, <2>2 DEF LinesOf
  <2>5. more \in Seq(Items)
    BY <2>1, <2>3
  <2>6. <<n, more>> \in P
    BY <2>4, <2>5
  <2>. QED
    BY <2>2, <2>3, <2>6
<1>. HIDE DEF Take, base
<1>3. op \in [P \X Items -> P]
  <2>. HIDE DEF P
  <2>. QED
    BY <1>2
<1>4. PICK h \in [SUBSET D -> P] : Folding(h, op, base, part)
  <2>. HIDE DEF op, P
  <2>. QED
    BY <1>1, <1>3, FoldExists
<1>. DEFINE Is(g) == g = [t \in SUBSET D |->
                            IF t = {} THEN base ELSE Take(g[t \ {Max(t)}], part[Max(t)])]
<1>5. Is(h)
  <2>1. \A t \in SUBSET D : t # {} =>
          op[<<h[t \ {Max(t)}], part[Max(t)]>>] = Take(h[t \ {Max(t)}], part[Max(t)])
    <3>. SUFFICES ASSUME NEW t \in SUBSET D, t # {}
                  PROVE  op[<<h[t \ {Max(t)}], part[Max(t)]>>] = Take(h[t \ {Max(t)}], part[Max(t)])
      OBVIOUS
    <3>1. part[Max(t)] \in Items /\ t \ {Max(t)} \in SUBSET D
      BY WithoutLast
    <3>2. h[t \ {Max(t)}] \in P
      BY <3>1
    <3>. HIDE DEF P
    <3>. QED
      BY <3>1, <3>2
  <2>. HIDE DEF op
  <2>. QED
    BY <1>4, <2>1 DEF Folding
<1>. DEFINE g == CHOOSE g : Is(g)
<1>6. Is(g)
  BY <1>5
<1>7. PartLength(part) = g[D][1]
  BY DEF PartLength, FoldLeft, MapThenFoldSet, Take, base
<1>. HIDE DEF g
<1>8. g[{}] = base
  BY <1>6
<1>9. ASSUME NEW k \in 1 .. Len(part) PROVE g[1 .. k] = Take(g[1 .. k - 1], part[k])
  <2>1. /\ 1 .. k \in SUBSET D /\ 1 .. k # {}
        /\ Max(1 .. k) = k /\ (1 .. k) \ {k} = 1 .. k - 1
    BY UpTo
  <2>. QED
    BY <1>6, <2>1
<1>. DEFINE T == {k \in Nat : k <= Len(part) => g[1 .. k] \in P}
<1>10. 0 \in T
  <2>1. 1 .. 0 = {}
    OBVIOUS
  <2>. HIDE DEF P
  <2>. QED
    BY <1>1, <1>8, <2>1
<1>11. ASSUME NEW k \in Nat, k \in T PROVE k + 1 \in T
  <2>. HIDE DEF P
  <2>. SUFFICES ASSUME k + 1 <= Len(part) PROVE g[1 .. k + 1] \in P
    OBVIOUS
  <2>1. PICK j : j = k + 1
    OBVIOUS
  <2>2. j \in 1 .. Len(part) /\ j - 1 = k /\ g[1 .. k] \in P /\ part[j] \in Items
    BY <1>11, <2>1
  <2>3. g[1 .. j] = Take(g[1 .. k], part[j])
    BY <1>9, <2>2
  <2>. QED
    BY <1>2, <2>1, <2>2, <2>3
<1>12. Len(part) \in T
  <2>. HIDE DEF T
  <2>. QED
    BY <1>10, <1>11, Induct
<1>13. D = 1 .. Len(part) /\ Len(part) \in Nat
  OBVIOUS
<1>14. g[D] \in P
  <2>. HIDE DEF P, D
  <2>. QED
    BY <1>12, <1>13
<1>. QED
  BY <1>7, <1>14

(* So do the plain ones.                                                   *)
LEMMA CatalogPartsAre ==
  ASSUME NEW list \in Seq(Items), NEW Fits, Fits = {part \in Seq(Items) : Len(part) <= 1 \/ PartLength(part) <= PartLines}
  PROVE  ProductCatalogChunks(list) \in Seq(Fits) /\ FlattenSeq(ProductCatalogChunks(list)) = list
<1>. DEFINE P == Seq(Fits)
            D == DOMAIN list
            n == Len(list)
            Take(parts, good) ==
              IF parts = <<>> THEN <<<<good>>>>
              ELSE IF PartLength(Append(Last(parts), good)) > PartLines
              THEN Append(parts, <<good>>)
              ELSE Append(Front(parts), Append(Last(parts), good))
            op == [p \in P \X Items |-> Take(p[1], p[2])]
<1>1. D = 1 .. n /\ n \in Nat /\ Fits \subseteq Seq(Items) /\ <<>> \in P
  OBVIOUS
<1>2. \A good \in Items : <<good>> \in Fits
  <2>1. \A good \in Items : <<good>> \in Seq(Items) /\ Len(<<good>>) = 1
    OBVIOUS
  <2>. QED
    BY <2>1
<1>3. ASSUME NEW parts \in P, NEW good \in Items
      PROVE  Joins(parts, good, Take(parts, good), Fits)
  <2>1. CASE parts = <<>>
    <3>1. Take(parts, good) = Append(parts, <<good>>)
      BY <2>1
    <3>. QED
      BY <3>1 DEF Joins
  <2>2. CASE parts # <<>>
    <3>1. Len(parts) \in Nat /\ Len(parts) > 0
      BY <2>2
    <3>2. PICK last : last = Last(parts)
      OBVIOUS
    <3>3. last \in Seq(Items)
      BY <3>1, <3>2 DEF Last
    <3>4. PICK more : more = Append(last, good)
      OBVIOUS
    <3>5. more \in Seq(Items)
      BY <3>3, <3>4
    <3>6. PartLength(more) \in Nat
      BY <3>5, PartLengthIs
    <3>7. CASE PartLength(more) > PartLines
      BY <2>2, <3>2, <3>4, <3>7 DEF Joins
    <3>8. CASE ~ (PartLength(more) > PartLines)
      <4>1. more \in Fits
        BY <3>5, <3>6, <3>8, GoodsAssumption
      <4>. QED
        BY <2>2, <3>2, <3>4, <3>8, <4>1 DEF Joins
    <3>. QED
      BY <3>7, <3>8
  <2>. QED
    BY <2>1, <2>2
<1>. HIDE DEF Take
<1>4. op \in [P \X Items -> P]
  <2>1. \A parts \in P, good \in Items : Take(parts, good) \in P
    BY <1>2, <1>3, JoinsFit
  <2>. HIDE DEF P
  <2>. QED
    BY <2>1
<1>5. PICK h \in [SUBSET D -> P] : Folding(h, op, <<>>, list)
  <2>. HIDE DEF op, P
  <2>. QED
    BY <1>1, <1>4, FoldExists
<1>. DEFINE Is(g) == g = [t \in SUBSET D |->
                            IF t = {} THEN <<>> ELSE Take(g[t \ {Max(t)}], list[Max(t)])]
<1>6. Is(h)
  <2>1. \A t \in SUBSET D : t # {} =>
          op[<<h[t \ {Max(t)}], list[Max(t)]>>] = Take(h[t \ {Max(t)}], list[Max(t)])
    <3>. SUFFICES ASSUME NEW t \in SUBSET D, t # {}
                  PROVE  op[<<h[t \ {Max(t)}], list[Max(t)]>>] = Take(h[t \ {Max(t)}], list[Max(t)])
      OBVIOUS
    <3>1. list[Max(t)] \in Items /\ t \ {Max(t)} \in SUBSET D
      BY WithoutLast
    <3>2. h[t \ {Max(t)}] \in P
      BY <3>1
    <3>. HIDE DEF P
    <3>. QED
      BY <3>1, <3>2
  <2>. HIDE DEF op
  <2>. QED
    BY <1>5, <2>1 DEF Folding
<1>. DEFINE g == CHOOSE g : Is(g)
<1>7. Is(g)
  BY <1>6
<1>8. ProductCatalogChunks(list) = g[D]
  BY DEF ProductCatalogChunks, FoldLeft, MapThenFoldSet, Take
<1>. HIDE DEF g
<1>9. g[{}] = <<>>
  BY <1>7
<1>10. ASSUME NEW k \in 1 .. n PROVE g[1 .. k] = Take(g[1 .. k - 1], list[k])
  <2>1. /\ 1 .. k \in SUBSET D /\ 1 .. k # {}
        /\ Max(1 .. k) = k /\ (1 .. k) \ {k} = 1 .. k - 1
    BY UpTo
  <2>. QED
    BY <1>7, <2>1
<1>11. ASSUME NEW k \in 1 .. n, g[1 .. k - 1] \in P
       PROVE  Joins(g[1 .. k - 1], list[k], g[1 .. k], Fits)
  <2>1. list[k] \in Items
    BY <1>1
  <2>. HIDE DEF P
  <2>. QED
    BY <1>3, <1>10, <1>11, <2>1
<1>12. g[D] \in Seq(Fits) /\ FlattenSeq(g[D]) = list
  <2>1. PICK F : F = Fits
    OBVIOUS
  <2>2. F \subseteq Seq(Items) /\ \A good \in Items : <<good>> \in F
    BY <1>1, <1>2, <2>1
  <2>3. \A k \in 1 .. Len(list) : g[1 .. k - 1] \in Seq(F) => Joins(g[1 .. k - 1], list[k], g[1 .. k], F)
    BY <1>11, <2>1
  <2>4. g[DOMAIN list] \in Seq(F) /\ FlattenSeq(g[DOMAIN list]) = list
    BY <1>9, <2>2, <2>3, PartsFold
  <2>. QED
    BY <2>1, <2>4
<1>. QED
  BY <1>8, <1>12

(* There is a message for each part, and at least one.                     *)
LEMMA MessagesAre ==
  ASSUME NEW Fits, Fits \subseteq Seq(Items), <<>> \in Fits,
         NEW chunks \in Seq(Fits), NEW m, m = MessagesOf(chunks)
  PROVE  /\ m \in Seq(Fits) /\ DOMAIN m = 1 .. Len(m) /\ Len(m) \in Nat \ {0}
         /\ FlattenSeq(m) = FlattenSeq(chunks)
         /\ \A i \in DOMAIN m : m[i] \in Fits
<1>1. CASE chunks # <<>>
  BY <1>1 DEF MessagesOf
<1>2. CASE chunks = <<>>
  <2>1. PICK none \in Fits : none = <<>>
    OBVIOUS
  <2>2. m = <<none>> /\ m = Append(chunks, none)
    BY <1>2, <2>1 DEF MessagesOf
  <2>3. chunks \in Seq(Seq(Items)) /\ none \in Seq(Items)
    OBVIOUS
  <2>4. FlattenSeq(Append(chunks, none)) = FlattenSeq(chunks) \o none /\ FlattenSeq(chunks) \in Seq(Items)
    BY <2>3, FlattenAppend
  <2>5. \A s \in Seq(Items) : s \o <<>> = s
    OBVIOUS
  <2>6. FlattenSeq(m) = FlattenSeq(chunks)
    BY <2>1, <2>2, <2>4, <2>5
  <2>7. m \in Seq(Fits) /\ Len(m) = 1 /\ DOMAIN m = 1 .. 1 /\ m[1] = none
    BY <2>1, <2>2
  <2>8. \A i \in DOMAIN m : m[i] \in Fits
    BY <2>7
  <2>. QED
    BY <2>6, <2>7, <2>8
<1>. QED
  BY <1>1, <1>2

-----------------------------------------------------------------------------
(* Goods: what a handler has of the list, and what it tells.               *)

(* A list is whole unless something explains that goods miss.              *)
Whole(listing) == listing.sure => Numbers(listing.list) = Numbers(Catalogues[listing.of])

TrueListings == {listing \in Listings : PageSize >= ShortPage => Whole(listing)}

RichFits == {part \in Seq(Items) : Len(part) <= PartSize}
PlainFits == {part \in Seq(Items) : Len(part) <= 1 \/ PartLength(part) <= PartLines}

(* The parts of a list: each good that is to be seen, in parts that fit.   *)
PartsOK(parts, listing, Fits) ==
  /\ parts \in Seq(Fits)
  /\ FlattenSeq(parts) = VisibleProducts(listing.list)

Asking == {"look", "ask"}

GoodsWorkFields == {"attempt", "page", "pages", "forbidden", "moved", "lists"}

GoodsFieldsOK(w) ==
  /\ DOMAIN w = GoodsWorkFields
  /\ w.attempt \in 1 .. Attempts /\ w.page \in 1 .. MaxPages
  /\ w.forbidden \in BOOLEAN /\ w.moved \in BOOLEAN
  /\ w.lists \in Seq(TrueListings) /\ Len(w.lists) <= 2

(* The pages an endpoint has given so far, of a list that is still that.   *)
PagesRead(w, list, counts) ==
  /\ PagesOK(w.pages) /\ w.pages.raised = "none" /\ w.pages.stop = FALSE
  /\ w.moved = FALSE => Reading(w.pages, w.page - 1, list, counts)

GoodsTaskOK(k, list, counts) ==
  /\ SectionTaskOK(k, "goods", Asking)
  /\ GoodsFieldsOK(k.work)
  /\ k.at \in Asking \cup {"frame"} => Len(k.work.lists) <= 1
  /\ k.at \in {"frame", "look"} => k.work.pages = NoPages /\ k.work.page = 1
  /\ k.at = "ask" => PagesRead(k.work, list, counts)
  /\ k.at = "send" => /\ Len(k.work.lists) = 2
                      /\ PartsOK(k.rich, k.work.lists[1], RichFits)
                      /\ PartsOK(k.plain, k.work.lists[2], PlainFits)

StockOK ==
  /\ remote \in 1 .. Len(Catalogues) /\ server \in [counts : BOOLEAN, tells : BOOLEAN]
  /\ cache \in TrueListings

GoodsInv ==
  /\ StockOK
  /\ section = "goods" => \A t \in Tasks :
       EndedOK(task[t]) \/ GoodsTaskOK(task[t], Catalogues[remote], server.counts)

LEMMA AttemptsIs == Attempts \in Nat /\ Attempts >= 1
BY DEF Attempts

(* Nothing read is right of any list.                                      *)
LEMMA NothingRead ==
  ASSUME NEW list \in Seq(Items), NEW counts \in BOOLEAN
  PROVE  PagesOK(NoPages) /\ NoPages.raised = "none" /\ NoPages.stop = FALSE
         /\ Reading(NoPages, 0, list, counts)
<1>1. /\ NoPages.goods = <<>> /\ NoPages.seen = {} /\ NoPages.stop = FALSE
      /\ NoPages.raised = "none" /\ NoPages.torn = FALSE /\ NoPages.again = FALSE
  BY DEF NoPages
<1>2. <<>> \in Seq(Items) /\ Distinct(<<>>)
  <2>. PICK A : A = Items
    OBVIOUS
  <2>1. <<>> \in Seq(A) /\ DOMAIN <<>> = {}
    BY EmptySeq
  <2>. QED
    BY <2>1 DEF Distinct
<1>3. NoPages \in Pages
  BY <1>2 DEF NoPages, Pages
<1>4. PagesOK(NoPages)
  BY <1>1, <1>2, <1>3 DEF PagesOK
<1>5. Numbers(<<>>) = {}
  BY DEF Numbers
<1>6. First(list, 0) = {} /\ PageSize \in Nat
  BY Firstly, GoodsAssumption
<1>7. 0 * PageSize = 0
  BY <1>6
<1>8. Reading(NoPages, 0, list, counts)
  BY <1>1, <1>5, <1>6, <1>7 DEF Reading
<1>. QED
  BY <1>1, <1>4, <1>8

LEMMA CatalogueIs ==
  ASSUME StockOK
  PROVE  Catalogues[remote] \in Seq(Items) /\ remote \in 0 .. Len(Catalogues)
         /\ Len(Catalogues) \in Nat /\ server.counts \in BOOLEAN /\ server.tells \in BOOLEAN
<1>1. Catalogues \in Seq(Seq(Items)) /\ Len(Catalogues) \in Nat
  BY MenuAssumption
<1>2. remote \in 1 .. Len(Catalogues)
  BY DEF StockOK
<1>3. PICK A : A = Seq(Items)
  OBVIOUS
<1>4. Catalogues[remote] \in A
  BY <1>1, <1>2, <1>3
<1>. QED
  BY <1>1, <1>2, <1>3, <1>4 DEF StockOK

LEMMA OneMore ==
  ASSUME NEW A, NEW s \in Seq(A), Len(s) <= 1, NEW x \in A, NEW r, r = Append(s, x)
  PROVE  /\ r \in Seq(A) /\ Len(r) <= 2 /\ (Len(r) = 1 \/ Len(r) = 2)
         /\ Len(r) = 1 => Len(r) <= 1
         /\ Len(r) = 2 => r[1] \in A /\ r[2] \in A /\ 1 \in DOMAIN r /\ 2 \in DOMAIN r
<1>1. PICK n \in Nat : n = Len(s)
  OBVIOUS
<1>2. n = 0 \/ n = 1
  BY <1>1
<1>3. r \in Seq(A) /\ Len(r) = n + 1 /\ DOMAIN r = 1 .. Len(r)
  BY <1>1
<1>4. CASE n = 0
  BY <1>3, <1>4
<1>5. CASE n = 1
  <2>1. Len(r) = 2 /\ 1 \in DOMAIN r /\ 2 \in DOMAIN r
    BY <1>3, <1>5
  <2>. QED
    BY <1>3, <2>1
<1>. QED
  BY <1>2, <1>4, <1>5

(* A call for the list that ends: the handler asks again, or tells.        *)
LEMMA CallEnds ==
  ASSUME NEW t \in Tasks, DeliveryInv, NEW list, NEW counts, NEW k, k.at \in Asking,
         GoodsTaskOK(k, list, counts), NEW listing \in TrueListings, EndsCall(t, k, listing)
  PROVE  Only(t) /\ GoodsTaskOK(task'[t], list, counts)
<1>1. PICK lists : lists = Append(k.work.lists, listing)
  OBVIOUS
<1>2. /\ k.work.lists \in Seq(TrueListings) /\ Len(k.work.lists) <= 1
      /\ DOMAIN k = Fields /\ DOMAIN k.work = GoodsWorkFields
      /\ k.sent = 0 /\ k.told = 0 /\ k.kind = "goods" /\ k.msg \in Slots /\ k.edits = FALSE
      /\ Len(k.rich) \in Nat /\ Len(k.plain) \in Nat
      /\ SectionTaskOK(k, "goods", Asking) /\ GoodsFieldsOK(k.work)
  <2>1. /\ k.work.lists \in Seq(TrueListings) /\ Len(k.work.lists) <= 1
        /\ SectionTaskOK(k, "goods", Asking) /\ GoodsFieldsOK(k.work)
    BY DEF GoodsTaskOK, GoodsFieldsOK
  <2>. QED
    BY <2>1 DEF SectionTaskOK, GoodsFieldsOK, Asking, Delivering
<1>3. /\ lists \in Seq(TrueListings) /\ Len(lists) <= 2
      /\ Len(lists) = 1 => Len(lists) <= 1
      /\ Len(lists) = 2 => /\ lists[1] \in TrueListings /\ lists[2] \in TrueListings
                           /\ 1 \in DOMAIN lists /\ 2 \in DOMAIN lists
  BY <1>1, <1>2, OneMore
<1>4. Len(lists) = 1 \/ Len(lists) = 2
  BY <1>1, <1>2, OneMore
<1>. DEFINE shown == [i \in DOMAIN lists |-> VisibleProducts(lists[i].list)]
            again == [k EXCEPT !.at = "look", !.work = [GoodsWork EXCEPT !.lists = lists]]
            told == [k EXCEPT !.at = "send", !.work.lists = lists,
                              !.rich = MessagesOf(ProductRichChunks(shown[1])),
                              !.plain = MessagesOf(ProductCatalogChunks(shown[2]))]
<1>5. Goes(t, IF Len(lists) = 1 THEN again ELSE told)
  BY <1>1 DEF EndsCall
<1>6. PICK l : l = task'[t]
  OBVIOUS
<1>. HIDE DEF again, told
<1>7. Only(t) /\ l = IF Len(lists) = 1 THEN again ELSE told
  BY <1>5, <1>6, GoesOnly DEF DeliveryInv
<1>8. CASE Len(lists) = 1
  <2>1. /\ DOMAIN l = Fields /\ l.at = "look" /\ l.kind = k.kind /\ l.msg = k.msg
        /\ l.edits = k.edits /\ l.rich = k.rich /\ l.plain = k.plain
        /\ l.sent = k.sent /\ l.told = k.told
        /\ l.work = [GoodsWork EXCEPT !.lists = lists]
    BY <1>2, <1>7, <1>8 DEF Fields, again
  <2>2. /\ DOMAIN l.work = GoodsWorkFields /\ l.work.attempt = 1 /\ l.work.page = 1
        /\ l.work.pages = NoPages /\ l.work.forbidden = FALSE /\ l.work.moved = FALSE
        /\ l.work.lists = lists
    BY <2>1 DEF GoodsWork, GoodsWorkFields
  <2>3. 1 \in 1 .. Attempts /\ 1 \in 1 .. MaxPages
    BY AttemptsIs, GoodsAssumption
  <2>4. GoodsFieldsOK(l.work)
    BY <1>3, <1>8, <2>2, <2>3 DEF GoodsFieldsOK
  <2>5. SectionTaskOK(l, "goods", Asking)
    BY <1>2, <2>1 DEF SectionTaskOK, Asking, Delivering
  <2>6. GoodsTaskOK(l, list, counts)
    BY <1>3, <1>8, <2>1, <2>2, <2>4, <2>5 DEF GoodsTaskOK, Asking
  <2>. QED
    BY <1>6, <1>7, <2>6
<1>9. CASE Len(lists) = 2
  <2>1. PICK one, two : one = lists[1] /\ two = lists[2]
    OBVIOUS
  <2>2. one \in TrueListings /\ two \in TrueListings /\ 1 \in DOMAIN lists /\ 2 \in DOMAIN lists
    BY <1>3, <1>9, <2>1
  <2>3. PICK f, s : f = VisibleProducts(one.list) /\ s = VisibleProducts(two.list)
    OBVIOUS
  <2>4. f \in Seq(Items) /\ s \in Seq(Items)
    BY <2>2, <2>3, VisibleAre DEF TrueListings, Listings
  <2>5. shown[1] = f /\ shown[2] = s
    BY <2>1, <2>2, <2>3
  <2>6. PICK R, P : R = RichFits /\ P = PlainFits
    OBVIOUS
  <2>7. R = {part \in Seq(Items) : Len(part) <= PartSize}
        /\ P = {part \in Seq(Items) : Len(part) <= 1 \/ PartLength(part) <= PartLines}
    BY <2>6 DEF RichFits, PlainFits
  <2>8. ProductRichChunks(f) \in Seq(R) /\ FlattenSeq(ProductRichChunks(f)) = f
    BY <2>4, <2>7, RichPartsAre
  <2>9. ProductCatalogChunks(s) \in Seq(P) /\ FlattenSeq(ProductCatalogChunks(s)) = s
    BY <2>4, <2>7, CatalogPartsAre
  <2>10. R \subseteq Seq(Items) /\ P \subseteq Seq(Items) /\ <<>> \in R /\ <<>> \in P
    <3>1. PICK A : A = Items
      OBVIOUS
    <3>2. <<>> \in Seq(A) /\ Len(<<>>) = 0
      BY EmptySeq
    <3>. QED
      BY <2>7, <3>1, <3>2, GoodsAssumption
  <2>11. PICK rich, plain, c, e : /\ c = ProductRichChunks(f) /\ rich = MessagesOf(c)
                                  /\ e = ProductCatalogChunks(s) /\ plain = MessagesOf(e)
    OBVIOUS
  <2>12. rich \in Seq(R) /\ Len(rich) \in Nat \ {0} /\ FlattenSeq(rich) = f
    BY <2>8, <2>10, <2>11, MessagesAre
  <2>13. plain \in Seq(P) /\ Len(plain) \in Nat \ {0} /\ FlattenSeq(plain) = s
    BY <2>9, <2>10, <2>11, MessagesAre
  <2>. HIDE DEF shown
  <2>14. l = [k EXCEPT !.at = "send", !.work.lists = lists, !.rich = rich, !.plain = plain]
    BY <1>7, <1>9, <2>5, <2>11 DEF told
  <2>15. /\ DOMAIN l = Fields /\ l.at = "send" /\ l.kind = k.kind /\ l.msg = k.msg
         /\ l.edits = k.edits /\ l.rich = rich /\ l.plain = plain
         /\ l.sent = k.sent /\ l.told = k.told
         /\ l.work = [k.work EXCEPT !.lists = lists]
    BY <1>2, <2>14 DEF Fields
  <2>16. /\ DOMAIN l.work = GoodsWorkFields /\ l.work.attempt = k.work.attempt
         /\ l.work.page = k.work.page
         /\ l.work.forbidden = k.work.forbidden /\ l.work.moved = k.work.moved
         /\ l.work.lists = lists
    BY <1>2, <2>15 DEF GoodsWorkFields
  <2>17. GoodsFieldsOK(l.work)
    BY <1>2, <1>3, <1>9, <2>16 DEF GoodsFieldsOK
  <2>18. 0 < Len(rich) /\ 0 < Len(plain) /\ 0 \in 0 .. Len(rich) /\ 0 \in 0 .. Len(plain)
    BY <2>12, <2>13
  <2>19. SectionTaskOK(l, "goods", Asking)
    BY <1>2, <2>12, <2>13, <2>15, <2>18 DEF SectionTaskOK, Asking, Delivering
  <2>20. PartsOK(rich, one, RichFits) /\ PartsOK(plain, two, PlainFits)
    BY <2>3, <2>6, <2>12, <2>13 DEF PartsOK
  <2>21. GoodsTaskOK(l, list, counts)
    BY <1>9, <2>1, <2>15, <2>16, <2>17, <2>19, <2>20 DEF GoodsTaskOK, Asking
  <2>. QED
    BY <1>6, <1>7, <2>21
<1>. QED
  BY <1>4, <1>8, <1>9

LEMMA BatchIs ==
  ASSUME NEW first \in 1 .. MaxPages
  PROVE  LET m == Cardinality(Batch(first))
         IN  /\ m \in Nat
             /\ \A j \in 1 .. m : first + j - 1 \in Batch(first) /\ first + j - 1 = (first - 1) + j
             /\ first + BatchSize <= MaxPages =>
                  /\ m = BatchSize /\ first + BatchSize \in 1 .. MaxPages
                  /\ (first + BatchSize) - 1 = (first - 1) + m
<1>1. MaxPages \in Nat /\ BatchSize \in Nat \ {0} /\ first \in Nat /\ first >= 1 /\ first <= MaxPages
  BY GoodsAssumption
<1>2. PICK end : end = IF first + BatchSize <= MaxPages + 1 THEN first + BatchSize - 1 ELSE MaxPages
  OBVIOUS
<1>3. end \in Nat /\ end >= first /\ Batch(first) = first .. end
  BY <1>1, <1>2 DEF Batch
<1>4. Cardinality(first .. end) = end - first + 1
  BY <1>1, <1>3, FS_Interval
<1>5. PICK m : m = Cardinality(Batch(first))
  OBVIOUS
<1>6. m = end - first + 1 /\ m \in Nat
  BY <1>1, <1>3, <1>4, <1>5
<1>7. \A j \in 1 .. m : first + j - 1 \in Batch(first) /\ first + j - 1 = (first - 1) + j
  BY <1>1, <1>3, <1>6
<1>8. ASSUME first + BatchSize <= MaxPages
      PROVE  /\ m = BatchSize /\ first + BatchSize \in 1 .. MaxPages
             /\ (first + BatchSize) - 1 = (first - 1) + m
  <2>1. end = first + BatchSize - 1
    BY <1>1, <1>2, <1>8
  <2>. QED
    BY <1>1, <1>6, <1>8, <2>1
<1>. QED
  BY <1>5, <1>6, <1>7, <1>8

(* A list that is kept or told, of the goods YCLIENTS has now.             *)
LEMMA ListingIs ==
  ASSUME StockOK, NEW list \in Seq(Items), NEW sure \in BOOLEAN,
         PageSize >= ShortPage /\ sure => Numbers(list) = Numbers(Catalogues[remote])
  PROVE  Listing(list, sure) \in TrueListings
<1>1. PICK l : l = Listing(list, sure)
  OBVIOUS
<1>2. l \in Listings /\ l.list = list /\ l.sure = sure /\ l.of = remote
  BY <1>1, CatalogueIs DEF Listing, Listings
<1>3. PageSize >= ShortPage => Whole(l)
  BY <1>2 DEF Whole
<1>. QED
  BY <1>1, <1>2, <1>3 DEF TrueListings

(* The next endpoint is asked from its first page, or none is left.        *)
LEMMA NextEndpointOK ==
  ASSUME NEW t \in Tasks, DeliveryInv, StockOK, NEW k, k.at = "ask", NEW list \in Seq(Items),
         NEW counts \in BOOLEAN, GoodsTaskOK(k, list, counts),
         NEW forbidden \in BOOLEAN, NEW heard \in BOOLEAN,
         PageSize >= ShortPage /\ heard /\ k.work.moved = FALSE => Numbers(Catalogues[remote]) = {},
         NextEndpoint(t, k, forbidden, heard)
  PROVE  Only(t) /\ GoodsTaskOK(task'[t], list, counts) /\ cache' \in TrueListings
<1>1. PICK sure : sure = (heard /\ ~ k.work.moved)
  OBVIOUS
<1>2. /\ k.work.moved \in BOOLEAN /\ k.work.attempt \in 1 .. Attempts /\ DOMAIN k.work = GoodsWorkFields
      /\ DOMAIN k = Fields /\ SectionTaskOK(k, "goods", Asking) /\ GoodsFieldsOK(k.work)
  BY DEF GoodsTaskOK, GoodsFieldsOK, SectionTaskOK
<1>3. sure \in BOOLEAN
  BY <1>1, <1>2
<1>4. PICK none : none = <<>>
  OBVIOUS
<1>5. none \in Seq(Items) /\ Numbers(none) = {}
  <2>1. PICK A : A = Items
    OBVIOUS
  <2>2. <<>> \in Seq(A)
    BY EmptySeq
  <2>. QED
    BY <1>4, <2>1, <2>2 DEF Numbers
<1>6. Listing(none, sure) \in TrueListings
  BY <1>1, <1>2, <1>3, <1>5, ListingIs
<1>7. cache \in TrueListings
  BY DEF StockOK
<1>8. CASE k.work.attempt < Attempts
  <2>1. UNCHANGED cache /\ Goes(t, [k EXCEPT !.work.attempt = @ + 1, !.work.page = 1,
                                             !.work.pages = NoPages, !.work.forbidden = forbidden])
    BY <1>8 DEF NextEndpoint
  <2>2. PICK l, more : l = task'[t] /\ more = k.work.attempt + 1
    OBVIOUS
  <2>3. l = [k EXCEPT !.work.attempt = more, !.work.page = 1,
                      !.work.pages = NoPages, !.work.forbidden = forbidden] /\ Only(t)
    BY <1>2, <2>1, <2>2, GoesOnly DEF DeliveryInv, Fields, GoodsWorkFields
  <2>4. /\ DOMAIN l = Fields /\ l.at = "ask" /\ l.kind = k.kind /\ l.msg = k.msg
        /\ l.edits = k.edits /\ l.rich = k.rich /\ l.plain = k.plain
        /\ l.sent = k.sent /\ l.told = k.told
        /\ l.work = [k.work EXCEPT !.attempt = more, !.page = 1, !.pages = NoPages,
                                   !.forbidden = forbidden]
    BY <1>2, <2>3 DEF Fields, GoodsWorkFields
  <2>5. /\ DOMAIN l.work = GoodsWorkFields /\ l.work.attempt = more /\ l.work.page = 1
        /\ l.work.pages = NoPages /\ l.work.forbidden = forbidden
        /\ l.work.moved = k.work.moved /\ l.work.lists = k.work.lists
    BY <1>2, <2>4 DEF GoodsWorkFields
  <2>6. more \in 1 .. Attempts /\ 1 \in 1 .. MaxPages /\ 1 - 1 = 0
    BY <1>2, <1>8, <2>2, AttemptsIs, GoodsAssumption
  <2>7. GoodsFieldsOK(l.work)
    BY <1>2, <2>5, <2>6 DEF GoodsFieldsOK
  <2>8. SectionTaskOK(l, "goods", Asking)
    BY <1>2, <2>4 DEF SectionTaskOK
  <2>9. PagesRead(l.work, list, counts)
    BY <2>5, <2>6, NothingRead DEF PagesRead
  <2>10. Len(l.work.lists) <= 1
    BY <2>5 DEF GoodsTaskOK, Asking
  <2>11. GoodsTaskOK(l, list, counts)
    BY <2>4, <2>7, <2>8, <2>9, <2>10 DEF GoodsTaskOK, Asking
  <2>. QED
    BY <1>7, <2>1, <2>2, <2>3, <2>11
<1>9. CASE ~ (k.work.attempt < Attempts)
  <2>1. /\ EndsCall(t, k, Listing(none, sure))
        /\ cache' = IF forbidden THEN cache ELSE Listing(none, sure)
    BY <1>1, <1>4, <1>9 DEF NextEndpoint
  <2>2. PICK listing \in TrueListings : listing = Listing(none, sure)
    BY <1>6
  <2>3. Only(t) /\ GoodsTaskOK(task'[t], list, counts)
    BY <2>1, <2>2, CallEnds DEF Asking
  <2>4. cache' \in TrueListings
    BY <1>7, <2>1, <2>2
  <2>. QED
    BY <2>3, <2>4
<1>. QED
  BY <1>8, <1>9

(* A batch of answers, and what it makes of the handler.                   *)
LEMMA AskBatchOK ==
  ASSUME NEW t \in Tasks, DeliveryInv, StockOK, AskBatch(t),
         GoodsTaskOK(task[t], Catalogues[remote], server.counts)
  PROVE  /\ Only(t) /\ GoodsTaskOK(task'[t], Catalogues[remote], server.counts)
         /\ cache' \in TrueListings
<1>1. PICK k, list, counts : k = task[t] /\ list = Catalogues[remote] /\ counts = server.counts
  OBVIOUS
<1>2. list \in Seq(Items) /\ counts \in BOOLEAN /\ server.tells \in BOOLEAN /\ GoodsTaskOK(k, list, counts)
      /\ k.at = "ask" /\ cache \in TrueListings
  BY <1>1, CatalogueIs DEF AskBatch, StockOK
<1>3. PICK first, m : first = k.work.page /\ m = Cardinality(Batch(first))
  OBVIOUS
<1>4. /\ first \in 1 .. MaxPages /\ k.work.moved \in BOOLEAN /\ k.work.forbidden \in BOOLEAN
      /\ DOMAIN k = Fields /\ DOMAIN k.work = GoodsWorkFields /\ PagesOK(k.work.pages)
      /\ k.work.moved = FALSE => Reading(k.work.pages, first - 1, list, counts)
      /\ SectionTaskOK(k, "goods", Asking) /\ GoodsFieldsOK(k.work) /\ Len(k.work.lists) <= 1
  BY <1>2, <1>3 DEF GoodsTaskOK, SectionTaskOK, GoodsFieldsOK, PagesRead, Asking
<1>. DEFINE Asked(answer, i) == Answer(answer[i], PageOf(list, i, counts))
            answers(answer) == [i \in 1 .. m |-> Asked(answer, first + i - 1)]
            told == IF server.tells THEN Len(list) ELSE NoTotal
            Comes(of, page, pages, over) ==
              CASE pages.raised \in {Refused, Down} ->
                     /\ EndsCall(t, of, Listing(<<>>, FALSE))
                     /\ UNCHANGED cache
                [] pages.raised \in {Forbidden, Absent} ->
                     NextEndpoint(t, of, of.work.forbidden \/ pages.raised = Forbidden, FALSE)
                [] pages.raised = "none" /\ ~ over ->
                     /\ Goes(t, [of EXCEPT !.work.page = page + BatchSize, !.work.pages = pages])
                     /\ UNCHANGED cache
                [] pages.raised = "none" /\ over /\ pages.goods # <<>> ->
                     ProductsCome(t, of, pages)
                [] OTHER -> NextEndpoint(t, of, of.work.forbidden, pages.stop /\ ~ pages.again)
<1>5. PICK answer \in [Batch(first) -> {"page"} \cup Failures] :
         LET pages == TakeBatch(k.work.pages, answers(answer), told)
         IN  Comes(k, first, pages, pages.stop \/ first + BatchSize > MaxPages)
  <2>1. \E answer \in [Batch(task[t].work.page) -> {"page"} \cup Failures] :
           LET page == task[t].work.page
               pages == TakeBatch(task[t].work.pages,
                                  [i \in 1 .. Cardinality(Batch(page)) |->
                                     Answer(answer[page + i - 1],
                                            PageOf(Catalogues[remote], page + i - 1, server.counts))],
                                  IF server.tells THEN Len(Catalogues[remote]) ELSE NoTotal)
           IN  Comes(task[t], page, pages, pages.stop \/ page + BatchSize > MaxPages)
    BY DEF AskBatch
  <2>. HIDE DEF Comes
  <2>. QED
    BY <1>1, <1>3, <2>1
<1>6. PICK pages, total, seq, over :
         /\ seq = answers(answer) /\ total = told
         /\ pages = TakeBatch(k.work.pages, seq, total)
         /\ over = (pages.stop \/ first + BatchSize > MaxPages)
  OBVIOUS
<1>7. Comes(k, first, pages, over)
  <2>. HIDE DEF Comes, answers, told
  <2>. QED
    BY <1>5, <1>6
<1>8. /\ m \in Nat /\ \A j \in 1 .. m : first + j - 1 \in Batch(first) /\ first + j - 1 = (first - 1) + j
      /\ first + BatchSize <= MaxPages => /\ first + BatchSize \in 1 .. MaxPages
                                          /\ (first + BatchSize) - 1 = (first - 1) + m
  BY <1>3, <1>4, BatchIs
<1>9. TotalOK(total, list)
  BY <1>6 DEF TotalOK
<1>. HIDE DEF told
<1>10. PICK n \in Nat : n = first - 1
  BY <1>4, GoodsAssumption
<1>11. \A j \in 1 .. m : seq[j] = Asked(answer, first + j - 1) /\ Answers(seq[j], list, n + j, counts)
  <2> SUFFICES ASSUME NEW j \in 1 .. m
               PROVE  seq[j] = Asked(answer, first + j - 1) /\ Answers(seq[j], list, n + j, counts)
    OBVIOUS
  <2>1. seq[j] = Asked(answer, first + j - 1)
    BY <1>6
  <2>2. PICK i : i = first + j - 1
    OBVIOUS
  <2>3. i \in Batch(first) /\ i = n + j
    BY <1>8, <1>10, <2>2
  <2>4. answer[i] \in {"page"} \cup Failures
    BY <2>3
  <2>5. seq[j] = Answer(answer[i], PageOf(list, i, counts))
    BY <2>1, <2>2
  <2>6. Answers(seq[j], list, i, counts)
    BY <2>4, <2>5 DEF Answers
  <2>. QED
    BY <2>1, <2>3, <2>6
<1>12. PICK A : A = {seq[j] : j \in 1 .. m}
  OBVIOUS
<1>13. seq \in [1 .. m -> A] /\ \A a \in A : \E j \in 1 .. m : a = seq[j]
  BY <1>6, <1>12
<1>. HIDE DEF answers, Asked
<1>14. /\ PagesOK(pages)
       /\ Reading(k.work.pages, n, list, counts) => Reading(pages, n + m, list, counts)
  <2>1. PICK old : old = k.work.pages
    OBVIOUS
  <2>2. PagesOK(old) /\ pages = TakeBatch(old, seq, total)
    BY <1>4, <1>6, <2>1
  <2>3. \A j \in 1 .. m : Answers(seq[j], list, n + j, counts)
    BY <1>11
  <2>4. n \in Nat /\ m \in Nat /\ list \in Seq(Items) /\ counts \in BOOLEAN
    BY <1>2, <1>8, <1>10
  <2>5. /\ PagesOK(TakeBatch(old, seq, total))
        /\ Reading(old, n, list, counts) => Reading(TakeBatch(old, seq, total), n + m, list, counts)
    BY <1>9, <1>13, <2>2, <2>3, <2>4, BatchReads
  <2>. QED
    BY <2>1, <2>2, <2>5
<1>15. k.work.moved = FALSE => Reading(pages, n + m, list, counts)
  BY <1>4, <1>10, <1>14
<1>16. /\ pages.raised \in {"none"} \cup Failures /\ pages.stop \in BOOLEAN /\ pages.again \in BOOLEAN
       /\ pages.torn \in BOOLEAN /\ pages.goods \in Seq(Items) /\ (pages.torn => pages.goods # <<>>)
  BY <1>14 DEF PagesOK, Pages
<1>17. PICK none : none = <<>>
  OBVIOUS
<1>18. none \in Seq(Items) /\ Numbers(none) = {}
  <2>1. PICK B : B = Items
    OBVIOUS
  <2>2. <<>> \in Seq(B)
    BY EmptySeq
  <2>. QED
    BY <1>17, <2>1, <2>2 DEF Numbers
<1>19. CASE pages.raised \in {Refused, Down}
  <2>1. EndsCall(t, k, Listing(none, FALSE)) /\ cache' = cache
    BY <1>7, <1>17, <1>19 DEF Refused, Down, Forbidden, Absent
  <2>2. PICK no : no = FALSE
    OBVIOUS
  <2>3. no \in BOOLEAN /\ ~ no
    BY <2>2
  <2>4. Listing(none, no) \in TrueListings
    BY <1>18, <2>3, ListingIs
  <2>5. PICK listing \in TrueListings : EndsCall(t, k, listing)
    BY <2>1, <2>2, <2>4
  <2>6. Only(t) /\ GoodsTaskOK(task'[t], list, counts)
    BY <1>2, <2>5, CallEnds DEF Asking
  <2>. QED
    BY <1>1, <1>2, <2>1, <2>6
<1>20. ASSUME NEW forbidden \in BOOLEAN, NEW heard \in BOOLEAN, NextEndpoint(t, k, forbidden, heard),
              PageSize >= ShortPage /\ heard /\ k.work.moved = FALSE => Numbers(list) = {}
       PROVE  Only(t) /\ GoodsTaskOK(task'[t], list, counts) /\ cache' \in TrueListings
  <2>1. /\ list \in Seq(Items) /\ counts \in BOOLEAN /\ k.at = "ask" /\ GoodsTaskOK(k, list, counts)
        /\ PageSize >= ShortPage /\ heard /\ k.work.moved = FALSE => Numbers(Catalogues[remote]) = {}
    BY <1>1, <1>2, <1>20
  <2>. QED
    BY <1>20, <2>1, NextEndpointOK
<1>21. CASE pages.raised \in {Forbidden, Absent}
  <2>1. NextEndpoint(t, k, k.work.forbidden \/ pages.raised = Forbidden, FALSE)
    BY <1>7, <1>21 DEF Refused, Down, Forbidden, Absent
  <2>2. PICK forbidden, heard : forbidden = (k.work.forbidden \/ pages.raised = Forbidden) /\ heard = FALSE
    OBVIOUS
  <2>3. forbidden \in BOOLEAN /\ heard \in BOOLEAN /\ ~ heard
    BY <1>4, <2>2
  <2>4. NextEndpoint(t, k, forbidden, heard)
    BY <2>1, <2>2
  <2>. QED
    BY <1>1, <1>20, <2>3, <2>4
<1>22. CASE pages.raised = "none" /\ ~ over
  <2>1. /\ Goes(t, [k EXCEPT !.work.page = first + BatchSize, !.work.pages = pages])
        /\ cache' = cache
    BY <1>7, <1>22 DEF Refused, Down, Forbidden, Absent
  <2>2. PICK l, next : l = task'[t] /\ next = first + BatchSize
    OBVIOUS
  <2>3. l = [k EXCEPT !.work.page = next, !.work.pages = pages] /\ Only(t)
    BY <2>1, <2>2, GoesOnly DEF DeliveryInv
  <2>4. /\ DOMAIN l = Fields /\ l.at = "ask" /\ l.kind = k.kind /\ l.msg = k.msg
        /\ l.edits = k.edits /\ l.rich = k.rich /\ l.plain = k.plain
        /\ l.sent = k.sent /\ l.told = k.told
        /\ l.work = [k.work EXCEPT !.page = next, !.pages = pages]
    BY <1>2, <1>4, <2>3 DEF Fields, GoodsWorkFields
  <2>5. /\ DOMAIN l.work = GoodsWorkFields /\ l.work.attempt = k.work.attempt /\ l.work.page = next
        /\ l.work.pages = pages /\ l.work.forbidden = k.work.forbidden
        /\ l.work.moved = k.work.moved /\ l.work.lists = k.work.lists
    BY <1>4, <2>4 DEF GoodsWorkFields
  <2>6. pages.stop = FALSE /\ next \in 1 .. MaxPages /\ next - 1 = n + m
    <3>1. pages.stop = FALSE /\ ~ (first + BatchSize > MaxPages)
      BY <1>6, <1>16, <1>22
    <3>2. first + BatchSize <= MaxPages
      BY <1>4, <3>1, GoodsAssumption
    <3>. QED
      BY <1>8, <1>10, <2>2, <3>1, <3>2
  <2>7. GoodsFieldsOK(l.work)
    BY <1>4, <2>5, <2>6 DEF GoodsFieldsOK
  <2>8. SectionTaskOK(l, "goods", Asking)
    BY <1>2, <1>4, <2>4 DEF SectionTaskOK
  <2>9. PagesRead(l.work, list, counts)
    BY <1>14, <1>15, <1>22, <2>5, <2>6 DEF PagesRead
  <2>10. GoodsTaskOK(l, list, counts)
    BY <1>4, <2>4, <2>5, <2>7, <2>8, <2>9 DEF GoodsTaskOK, Asking
  <2>. QED
    BY <1>1, <1>2, <2>1, <2>2, <2>3, <2>10
<1>23. CASE pages.raised = "none" /\ over /\ pages.goods # <<>>
  <2>1. ProductsCome(t, k, pages)
    BY <1>7, <1>23 DEF Refused, Down, Forbidden, Absent
  <2>2. PICK sure : sure = (/\ ~ k.work.moved /\ ~ pages.torn /\ ~ pages.again /\ pages.stop)
    OBVIOUS
  <2>3. sure \in BOOLEAN
    BY <1>4, <1>16, <2>2
  <2>4. PageSize >= ShortPage /\ sure => Numbers(pages.goods) = Numbers(list)
    BY <1>4, <1>15, <1>16, <1>23, <2>2 DEF Reading
  <2>5. PICK listing : listing = Listing(pages.goods, sure)
    OBVIOUS
  <2>6. listing \in TrueListings
    BY <1>1, <1>16, <2>3, <2>4, <2>5, ListingIs
  <2>7. cache' = listing /\ EndsCall(t, k, listing)
    BY <2>1, <2>2, <2>5 DEF ProductsCome
  <2>8. Only(t) /\ GoodsTaskOK(task'[t], list, counts)
    BY <1>2, <2>6, <2>7, CallEnds DEF Asking
  <2>. QED
    BY <1>1, <2>6, <2>7, <2>8
<1>24. CASE pages.raised = "none" /\ over /\ pages.goods = <<>>
  <2>1. NextEndpoint(t, k, k.work.forbidden, pages.stop /\ ~ pages.again)
    BY <1>7, <1>24 DEF Refused, Down, Forbidden, Absent
  <2>2. PICK heard : heard = (pages.stop /\ ~ pages.again)
    OBVIOUS
  <2>3. heard \in BOOLEAN
    BY <1>16, <2>2
  <2>4. PageSize >= ShortPage /\ heard /\ k.work.moved = FALSE => Numbers(list) = {}
    <3>1. PageSize >= ShortPage /\ heard /\ k.work.moved = FALSE => Numbers(pages.goods) = Numbers(list)
      BY <1>15, <1>16, <1>24, <2>2 DEF Reading
    <3>2. Numbers(pages.goods) = {}
      BY <1>17, <1>18, <1>24
    <3>. QED
      BY <3>1, <3>2
  <2>. QED
    BY <1>1, <1>4, <1>20, <2>1, <2>2, <2>3, <2>4
<1>25. over \in BOOLEAN /\ pages.raised \in {"none", Forbidden, Absent, Refused, Down}
  BY <1>6, <1>16 DEF Failures
<1>. QED
  BY <1>19, <1>21, <1>22, <1>23, <1>24, <1>25

LEMMA LookInCacheOK ==
  ASSUME NEW t \in Tasks, DeliveryInv, StockOK, LookInCache(t),
         GoodsTaskOK(task[t], Catalogues[remote], server.counts)
  PROVE  Only(t) /\ GoodsTaskOK(task'[t], Catalogues[remote], server.counts)
<1>1. PICK k, list, counts : k = task[t] /\ list = Catalogues[remote] /\ counts = server.counts
  OBVIOUS
<1>2. /\ list \in Seq(Items) /\ counts \in BOOLEAN /\ k.at = "look" /\ GoodsTaskOK(k, list, counts)
      /\ cache \in TrueListings
  BY <1>1, CatalogueIs DEF LookInCache, StockOK
<1>3. CASE EndsCall(t, k, cache)
  <2>1. PICK listing \in TrueListings : listing = cache
    BY <1>2
  <2>2. EndsCall(t, k, listing)
    BY <1>3, <2>1
  <2>. QED
    BY <1>1, <1>2, <2>2, CallEnds DEF Asking
<1>4. CASE Goes(t, [k EXCEPT !.at = "ask"])
  <2>1. PICK l : l = task'[t]
    OBVIOUS
  <2>2. l = [k EXCEPT !.at = "ask"] /\ Only(t) /\ DOMAIN k = Fields
    BY <1>2, <1>4, <2>1, GoesOnly DEF DeliveryInv, GoodsTaskOK, SectionTaskOK
  <2>3. /\ DOMAIN l = Fields /\ l.at = "ask" /\ l.kind = k.kind /\ l.msg = k.msg
        /\ l.edits = k.edits /\ l.rich = k.rich /\ l.plain = k.plain
        /\ l.sent = k.sent /\ l.told = k.told /\ l.work = k.work
    BY <2>2 DEF Fields
  <2>4. /\ k.work.pages = NoPages /\ k.work.page = 1 /\ GoodsFieldsOK(k.work)
        /\ SectionTaskOK(k, "goods", Asking) /\ Len(k.work.lists) <= 1
    BY <1>2 DEF GoodsTaskOK, Asking
  <2>5. PagesRead(l.work, list, counts)
    <3>1. 1 - 1 = 0
      OBVIOUS
    <3>. QED
      BY <1>2, <2>3, <2>4, <3>1, NothingRead DEF PagesRead
  <2>6. SectionTaskOK(l, "goods", Asking)
    BY <1>2, <2>3, <2>4 DEF SectionTaskOK, Asking, Delivering
  <2>7. GoodsTaskOK(l, list, counts)
    BY <2>3, <2>4, <2>5, <2>6 DEF GoodsTaskOK, Asking
  <2>. QED
    BY <1>1, <2>1, <2>2, <2>7
<1>. QED
  BY <1>1, <1>3, <1>4 DEF LookInCache

LEMMA GoodsDelivers ==
  ASSUME NEW t, NEW list, NEW counts, GoodsTaskOK(task[t], list, counts),
         Delivers(t, "goods", Asking)
  PROVE  EndedOK(task'[t]) \/ GoodsTaskOK(task'[t], list, counts)
BY DEF Delivers, GoodsTaskOK, Asking, Delivering

(* The stock changes: what was read of it tells no more of the list.       *)
LEMMA RestockOK ==
  ASSUME GoodsInv, DeliveryInv, Restock
  PROVE  GoodsInv'
<1>1. section = "goods" /\ remote' = remote + 1 /\ UNCHANGED <<section, server, cache>>
      /\ remote < Len(Catalogues)
      /\ task' = [t \in Tasks |-> IF task[t].at = "ask" THEN [task[t] EXCEPT !.work.moved = TRUE]
                                  ELSE task[t]]
  BY DEF Restock
<1>2. StockOK'
  <2>1. remote + 1 \in 1 .. Len(Catalogues)
    BY <1>1, CatalogueIs DEF GoodsInv, StockOK
  <2>2. cache' \in TrueListings
    BY <1>1 DEF GoodsInv, StockOK
  <2>. QED
    BY <1>1, <2>1, <2>2 DEF GoodsInv, StockOK, TrueListings, Listings, Whole
<1>3. PICK old, new, counts : old = Catalogues[remote] /\ new = Catalogues[remote'] /\ counts = server.counts
  OBVIOUS
<1>4. ASSUME NEW t \in Tasks PROVE EndedOK(task'[t]) \/ GoodsTaskOK(task'[t], new, counts)
  <2>1. PICK k, l : k = task[t] /\ l = task'[t]
    OBVIOUS
  <2>2. EndedOK(k) \/ GoodsTaskOK(k, old, counts)
    BY <1>1, <1>3, <2>1 DEF GoodsInv
  <2>3. CASE k.at # "ask"
    <3>1. l = k
      BY <1>1, <2>1, <2>3
    <3>2. GoodsTaskOK(k, old, counts) => GoodsTaskOK(k, new, counts)
      BY <2>3 DEF GoodsTaskOK
    <3>. QED
      BY <2>1, <2>2, <3>1, <3>2
  <2>4. CASE k.at = "ask"
    <3>1. GoodsTaskOK(k, old, counts) /\ l = [k EXCEPT !.work.moved = TRUE]
      BY <1>1, <2>1, <2>2, <2>4 DEF EndedOK
    <3>2. /\ DOMAIN k = Fields /\ DOMAIN k.work = GoodsWorkFields /\ SectionTaskOK(k, "goods", Asking)
          /\ GoodsFieldsOK(k.work) /\ Len(k.work.lists) <= 1 /\ PagesRead(k.work, old, counts)
      BY <2>4, <3>1 DEF GoodsTaskOK, SectionTaskOK, GoodsFieldsOK, Asking
    <3>3. /\ DOMAIN l = Fields /\ l.at = "ask" /\ l.kind = k.kind /\ l.msg = k.msg
          /\ l.edits = k.edits /\ l.rich = k.rich /\ l.plain = k.plain
          /\ l.sent = k.sent /\ l.told = k.told
          /\ l.work = [k.work EXCEPT !.moved = TRUE]
      BY <2>4, <3>1, <3>2 DEF Fields
    <3>4. /\ DOMAIN l.work = GoodsWorkFields /\ l.work.attempt = k.work.attempt
          /\ l.work.page = k.work.page /\ l.work.pages = k.work.pages
          /\ l.work.forbidden = k.work.forbidden
          /\ l.work.moved = TRUE /\ l.work.lists = k.work.lists
      BY <3>2, <3>3 DEF GoodsWorkFields
    <3>5. GoodsFieldsOK(l.work) /\ PagesRead(l.work, new, counts)
      BY <3>2, <3>4 DEF GoodsFieldsOK, PagesRead
    <3>6. SectionTaskOK(l, "goods", Asking)
      BY <2>4, <3>2, <3>3 DEF SectionTaskOK
    <3>7. GoodsTaskOK(l, new, counts)
      BY <3>2, <3>3, <3>4, <3>5, <3>6 DEF GoodsTaskOK, Asking
    <3>. QED
      BY <2>1, <3>7
  <2>. QED
    BY <2>3, <2>4
<1>5. \A t \in Tasks : EndedOK(task'[t]) \/ GoodsTaskOK(task'[t], Catalogues[remote'], server'.counts)
  BY <1>1, <1>3, <1>4
<1>. QED
  BY <1>2, <1>5 DEF GoodsInv

(* The steps of the handlers of the goods.                                 *)
LEMMA GoodsStep ==
  ASSUME GoodsInv, DeliveryInv, PeriodInv, section \in Sections, section = "goods",
         NEW t \in Tasks, Step(t)
  PROVE  /\ \A u \in Tasks : EndedOK(task'[u])
                             \/ GoodsTaskOK(task'[u], Catalogues[remote], server.counts)
         /\ UNCHANGED <<remote, server>> /\ cache' \in TrueListings
<1>1. PICK list, counts, kind : list = Catalogues[remote] /\ counts = server.counts /\ kind = "goods"
  OBVIOUS
<1>2. \A u \in Tasks : EndedOK(task[u]) \/ GoodsTaskOK(task[u], list, counts)
  BY <1>1 DEF GoodsInv
<1>3. \A u \in Tasks : EndedOK(task[u]) \/ SectionTaskOK(task[u], kind, Asking)
  BY <1>1, <1>2 DEF GoodsTaskOK
<1>4. StockOK /\ list \in Seq(Items) /\ counts \in BOOLEAN /\ cache \in TrueListings
  BY <1>1, CatalogueIs DEF GoodsInv, StockOK
<1>5. \/ PressGoods(t)
      \/ ShowFrame(t) \/ Animate(t) \/ ProducerFails(t)
      \/ LookInCache(t) \/ AskBatch(t)
      \/ FindPlace(t) \/ TellProgress(t) \/ TellAgain(t)
      \/ SendPart(t)
      \/ DeleteFrame(t) \/ EditPlain(t) \/ AnswerPlain(t)
  <2>1. Asking \cap {"refresh", "sum", "label"} = {}
    BY DEF Asking
  <2>. QED
    BY <1>1, <1>3, <2>1, SectionSteps
<1>6. ~ (FindPlace(t) \/ TellProgress(t) \/ TellAgain(t))
  BY <1>3 DEF FindPlace, TellProgress, TellAgain, EndedOK, SectionTaskOK, Asking, Delivering
<1>7. EndedOK(task[t]) => task[t].at = "idle"
  BY DEF EndedOK
<1>8. ASSUME Only(t), EndedOK(task'[t]) \/ GoodsTaskOK(task'[t], list, counts)
      PROVE  \A u \in Tasks : EndedOK(task'[u]) \/ GoodsTaskOK(task'[u], list, counts)
  BY <1>2, <1>8 DEF Only
<1>9. Asking \cap Delivering = {} /\ FirstStep(kind) \in Asking /\ "frame" \notin Asking
      /\ FirstStep(kind) = "look"
  BY <1>1 DEF Asking, Delivering, FirstStep
<1>10. CASE PressGoods(t)
  <2>1. PICK m \in FreeSlots : Goes(t, Handler("goods", m, FALSE, GoodsWork))
    BY <1>10 DEF PressGoods
  <2>2. PICK work : work = GoodsWork
    OBVIOUS
  <2>3. task'[t] = Handler(kind, m, FALSE, work) /\ Only(t) /\ m \in Slots
    BY <1>1, <2>1, <2>2, GoesOnly DEF DeliveryInv, FreeSlots
  <2>4. PICK k : k = task'[t] /\ Fresh(k, kind, m, work)
    BY <2>3 DEF Fresh
  <2>5. SectionTaskOK(k, kind, Asking) /\ k.work = work /\ k.at = "frame"
    <3>1. PICK n, steps : n \in Slots /\ n = m /\ steps = Asking
      BY <2>3
    <3>2. Fresh(k, kind, n, work)
      BY <2>4, <3>1
    <3>3. SectionTaskOK(k, kind, steps) /\ k.work = work /\ k.at = "frame"
      BY <3>1, <3>2, SectionPressed
    <3>. QED
      BY <3>1, <3>3
  <2>6. /\ DOMAIN work = GoodsWorkFields /\ work.attempt = 1 /\ work.page = 1
        /\ work.pages = NoPages /\ work.forbidden = FALSE /\ work.moved = FALSE
        /\ work.lists = <<>>
    BY <2>2 DEF GoodsWork, GoodsWorkFields
  <2>7. work.lists \in Seq(TrueListings) /\ Len(work.lists) <= 1 /\ Len(work.lists) <= 2
    <3>1. PICK A : A = TrueListings
      OBVIOUS
    <3>2. work.lists \in Seq(A) /\ Len(work.lists) = 0
      BY <2>6, EmptySeq
    <3>. QED
      BY <3>1, <3>2
  <2>8. 1 \in 1 .. Attempts /\ 1 \in 1 .. MaxPages
    BY AttemptsIs, GoodsAssumption
  <2>9. GoodsFieldsOK(work)
    BY <2>6, <2>7, <2>8 DEF GoodsFieldsOK
  <2>10. GoodsTaskOK(k, list, counts)
    BY <1>1, <2>5, <2>6, <2>7, <2>9 DEF GoodsTaskOK
  <2>11. UNCHANGED goods
    BY <1>10 DEF PressGoods
  <2>. QED
    BY <1>1, <1>4, <1>8, <2>3, <2>4, <2>10, <2>11 DEF goods
<1>11. CASE ShowFrame(t) \/ Animate(t) \/ ProducerFails(t)
  <2>1. \/ task' = task \/ EndedOK(task'[t])
        \/ /\ SectionTaskOK(task'[t], kind, Asking)
           /\ task[t].at = "frame" /\ task'[t].at = FirstStep(kind)
           /\ task'[t].work = task[t].work
    BY <1>1, <1>3, <1>9, <1>11, SectionFrames
  <2>2. ASSUME SectionTaskOK(task'[t], kind, Asking), task[t].at = "frame",
               task'[t].at = FirstStep(kind), task'[t].work = task[t].work
        PROVE  GoodsTaskOK(task'[t], list, counts)
    <3>1. PICK k, l : k = task[t] /\ l = task'[t]
      OBVIOUS
    <3>2. /\ GoodsTaskOK(k, list, counts) /\ k.at = "frame" /\ l.at = "look" /\ l.work = k.work
          /\ SectionTaskOK(l, "goods", Asking)
      BY <1>1, <1>2, <1>7, <1>9, <2>2, <3>1
    <3>3. GoodsTaskOK(l, list, counts)
      BY <3>2 DEF GoodsTaskOK, Asking
    <3>. QED
      BY <3>1, <3>3
  <2>3. UNCHANGED goods /\ (Only(t) \/ task' = task)
    <3>1. UNCHANGED goods /\ ((\E k : Goes(t, k)) \/ task' = task)
      BY <1>11 DEF ShowFrame, Animate, ProducerFails, Raises
    <3>. QED
      BY <3>1, GoesOnly DEF DeliveryInv
  <2>. QED
    BY <1>1, <1>2, <1>4, <1>8, <2>1, <2>2, <2>3 DEF goods
<1>12. CASE LookInCache(t)
  <2>1. GoodsTaskOK(task[t], Catalogues[remote], server.counts)
    BY <1>1, <1>2, <1>7, <1>12 DEF LookInCache
  <2>2. Only(t) /\ GoodsTaskOK(task'[t], Catalogues[remote], server.counts)
    BY <1>4, <1>12, <2>1, LookInCacheOK
  <2>3. UNCHANGED goods
    BY <1>12 DEF LookInCache
  <2>. QED
    BY <1>1, <1>4, <1>8, <2>2, <2>3 DEF goods
<1>13. CASE AskBatch(t)
  <2>1. GoodsTaskOK(task[t], Catalogues[remote], server.counts)
    BY <1>1, <1>2, <1>7, <1>13 DEF AskBatch
  <2>2. /\ Only(t) /\ GoodsTaskOK(task'[t], Catalogues[remote], server.counts)
        /\ cache' \in TrueListings
    BY <1>4, <1>13, <2>1, AskBatchOK
  <2>3. UNCHANGED <<remote, server>>
    BY <1>13 DEF AskBatch
  <2>. QED
    BY <1>1, <1>8, <2>2, <2>3
<1>14. CASE SendPart(t) \/ DeleteFrame(t) \/ EditPlain(t) \/ AnswerPlain(t)
  <2>1. GoodsTaskOK(task[t], list, counts)
    BY <1>2, <1>7, <1>14 DEF SendPart, DeleteFrame, EditPlain, AnswerPlain
  <2>2. Delivers(t, kind, Asking)
    BY <1>1, <1>9, <1>14, <2>1, SectionSends, SectionEnds DEF GoodsTaskOK
  <2>3. EndedOK(task'[t]) \/ GoodsTaskOK(task'[t], list, counts)
    BY <1>1, <2>1, <2>2, GoodsDelivers
  <2>4. UNCHANGED goods /\ (\E k : Goes(t, k))
    BY <1>14 DEF SendPart, DeleteFrame, EditPlain, AnswerPlain, Returns, Raises
  <2>5. Only(t)
    BY <2>4, GoesOnly DEF DeliveryInv
  <2>. QED
    BY <1>1, <1>4, <1>8, <2>3, <2>4, <2>5 DEF goods
<1>. QED
  BY <1>5, <1>6, <1>10, <1>11, <1>12, <1>13, <1>14

(* No handler of another section changes what is kept of the goods.        *)
LEMMA GoodsRest ==
  ASSUME DeliveryInv, GradeInv, section \in Sections, section # "goods", NEW t \in Tasks, Step(t)
  PROVE  UNCHANGED goods
<1>1. task[t].at # "ask"
  <2>1. CASE section = "period"
    BY <2>1 DEF DeliveryInv, HandlersOK, EndedOK, HandlerOK, PeriodHandlerOK
  <2>2. CASE section = "grade"
    BY <2>2 DEF GradeInv, EndedOK, GradeTaskOK, SectionTaskOK, GradeSteps, Delivering
  <2>. QED
    BY <2>1, <2>2 DEF Sections, Kinds
<1>2. CASE PressGoods(t) \/ PressGrade(t) \/ (\E m \in Slots : PressButton(t, m))
             \/ (\E u \in Tasks : PressTwice(t, u))
             \/ (\E kind \in Kinds[section] : PressMenu(t, kind))
  BY <1>2 DEF PressGoods, PressGrade, PressButton, PressTwice, PressMenu
<1>3. CASE ShowFrame(t) \/ Animate(t) \/ ProducerFails(t)
  BY <1>3 DEF ShowFrame, Animate, ProducerFails
<1>4. CASE RefreshPeriod(t) \/ RefreshTeamPeriod(t) \/ SumEmployee(t) \/ SumTeam(t)
             \/ SumMonth(t) \/ LabelRich(t) \/ LabelPlain(t)
  BY <1>4 DEF RefreshPeriod, RefreshTeamPeriod, SumEmployee, SumTeam, SumMonth, LabelRich,
     LabelPlain
<1>5. CASE LookInCache(t) \/ AskBatch(t) \/ FindPlace(t) \/ TellProgress(t) \/ TellAgain(t)
  BY <1>1, <1>5 DEF LookInCache, AskBatch, FindPlace, TellProgress, TellAgain
<1>6. CASE SendPart(t) \/ DeleteFrame(t) \/ EditPlain(t) \/ AnswerPlain(t)
  BY <1>6 DEF SendPart, DeleteFrame, EditPlain, AnswerPlain
<1>. QED
  BY <1>2, <1>3, <1>4, <1>5, <1>6 DEF Step

LEMMA NoCacheListed == NoCache \in TrueListings
<1>1. PICK A, none : A = Items /\ none = <<>>
  OBVIOUS
<1>2. none \in Seq(A)
  BY <1>1, EmptySeq
<1>3. 0 \in 0 .. Len(Catalogues)
  BY MenuAssumption
<1>4. NoCache.list = none /\ NoCache.sure = FALSE /\ NoCache.of = 0
  BY <1>1 DEF NoCache
<1>5. NoCache \in Listings
  BY <1>1, <1>2, <1>3 DEF NoCache, Listings
<1>. QED
  BY <1>4, <1>5 DEF TrueListings, Whole

LEMMA GoodsInductive ==
  ASSUME GoodsInv, DeliveryInv, PeriodInv, GradeInv, section \in Sections, section' = section,
         [Next]_vars
  PROVE  GoodsInv'
<1>1. ASSUME UNCHANGED goods, task' = task PROVE GoodsInv'
  BY <1>1 DEF GoodsInv, goods, StockOK, TrueListings, Listings, Whole
<1>2. CASE Midnight \/ (\E lines \in Lines : SaveRules(lines)) \/ UNCHANGED vars
  BY <1>1, <1>2 DEF Midnight, SaveRules, vars, goods
<1>3. CASE CacheExpires
  <2>1. cache' \in TrueListings /\ UNCHANGED <<remote, server, task>>
    BY <1>3, NoCacheListed DEF CacheExpires, GoodsInv
  <2>. QED
    BY <2>1 DEF GoodsInv, StockOK, TrueListings, Listings, Whole
<1>4. CASE Restock
  BY <1>4, RestockOK
<1>5. ASSUME NEW t \in Tasks, Step(t) PROVE GoodsInv'
  <2>1. CASE section = "goods"
    <3>1. /\ \A u \in Tasks : EndedOK(task'[u])
                              \/ GoodsTaskOK(task'[u], Catalogues[remote], server.counts)
          /\ UNCHANGED <<remote, server>> /\ cache' \in TrueListings
      BY <1>5, <2>1, GoodsStep
    <3>2. StockOK'
      BY <3>1 DEF GoodsInv, StockOK, TrueListings, Listings, Whole
    <3>3. \A u \in Tasks : EndedOK(task'[u]) \/ GoodsTaskOK(task'[u], Catalogues[remote'], server'.counts)
      BY <3>1
    <3>. QED
      BY <3>2, <3>3 DEF GoodsInv
  <2>2. CASE section # "goods"
    <3>1. UNCHANGED goods
      BY <1>5, <2>2, GoodsRest
    <3>. QED
      BY <2>2, <3>1 DEF GoodsInv, goods, StockOK, TrueListings, Listings, Whole
  <2>. QED
    BY <2>1, <2>2
<1>. QED
  BY <1>2, <1>3, <1>4, <1>5 DEF Next

LEMMA GoodsInvariant == Spec => []GoodsInv
<1>1. Init => GoodsInv
  <2> SUFFICES ASSUME Init PROVE GoodsInv
    OBVIOUS
  <2>1. /\ task = [t \in Tasks |-> Idle] /\ remote = 1 /\ cache = NoCache
        /\ server \in [counts : BOOLEAN, tells : BOOLEAN]
    BY DEF Init
  <2>2. 1 \in 1 .. Len(Catalogues) /\ Len(Catalogues) \in Nat
    BY MenuAssumption
  <2>3. NoCache \in TrueListings
    BY NoCacheListed
  <2>4. StockOK
    BY <2>1, <2>2, <2>3 DEF StockOK
  <2>5. EndedOK(Idle)
    BY DEF EndedOK, Idle
  <2>. QED
    BY <2>1, <2>4, <2>5 DEF GoodsInv
<1>2. MenuInv /\ GradeInv /\ GoodsInv /\ [Next]_vars => GoodsInv'
  BY GoodsInductive, Stays DEF MenuInv
<1>. QED
  BY <1>1, <1>2, MenuInvariant, GradeInvariant, PTL DEF Spec

(* A list of goods is whole unless something explains that goods miss, and *)
(* its parts have each good that is to be seen once, and fit.              *)
THEOREM WholeListAlways == Spec => []WholeList
<1>1. GoodsInv => WholeList
  <2> SUFFICES ASSUME GoodsInv, section = "goods", PageSize >= ShortPage
               PROVE  /\ Whole(cache)
                      /\ \A t \in {t \in Tasks : task[t].at = "send"} :
                           LET k == task[t]
                           IN  /\ \A i \in 1 .. 2 : Whole(k.work.lists[i])
                               /\ FlattenSeq(k.rich) = VisibleProducts(k.work.lists[1].list)
                               /\ FlattenSeq(k.plain) = VisibleProducts(k.work.lists[2].list)
                               /\ \A i \in DOMAIN k.rich : Len(k.rich[i]) <= PartSize
                               /\ \A i \in DOMAIN k.plain : Len(k.plain[i]) <= 1
                                      \/ PartLength(k.plain[i]) <= PartLines
    BY DEF WholeList, Whole, Numbers
  <2>1. Whole(cache)
    BY DEF GoodsInv, StockOK, TrueListings
  <2>2. ASSUME NEW t \in Tasks, task[t].at = "send"
        PROVE  LET k == task[t]
               IN  /\ \A i \in 1 .. 2 : Whole(k.work.lists[i])
                   /\ FlattenSeq(k.rich) = VisibleProducts(k.work.lists[1].list)
                   /\ FlattenSeq(k.plain) = VisibleProducts(k.work.lists[2].list)
                   /\ \A i \in DOMAIN k.rich : Len(k.rich[i]) <= PartSize
                   /\ \A i \in DOMAIN k.plain : Len(k.plain[i]) <= 1
                          \/ PartLength(k.plain[i]) <= PartLines
    <3>1. PICK k, list, counts : k = task[t] /\ list = Catalogues[remote] /\ counts = server.counts
      OBVIOUS
    <3>2. GoodsTaskOK(k, list, counts) /\ k.at = "send"
      BY <2>2, <3>1 DEF GoodsInv, EndedOK
    <3>3. /\ PartsOK(k.rich, k.work.lists[1], RichFits)
          /\ PartsOK(k.plain, k.work.lists[2], PlainFits)
          /\ k.work.lists \in Seq(TrueListings) /\ Len(k.work.lists) = 2
      BY <3>2 DEF GoodsTaskOK, GoodsFieldsOK
    <3>4. \A i \in 1 .. 2 : k.work.lists[i] \in TrueListings
      BY <3>3
    <3>5. \A i \in 1 .. 2 : Whole(k.work.lists[i])
      BY <3>4 DEF TrueListings
    <3>6. PICK R, P : R = RichFits /\ P = PlainFits
      OBVIOUS
    <3>7. k.rich \in Seq(R) /\ k.plain \in Seq(P)
      BY <3>3, <3>6 DEF PartsOK
    <3>8. (\A i \in DOMAIN k.rich : k.rich[i] \in R) /\ (\A i \in DOMAIN k.plain : k.plain[i] \in P)
      BY <3>7
    <3>9. /\ \A i \in DOMAIN k.rich : Len(k.rich[i]) <= PartSize
          /\ \A i \in DOMAIN k.plain : Len(k.plain[i]) <= 1 \/ PartLength(k.plain[i]) <= PartLines
      BY <3>6, <3>8 DEF RichFits, PlainFits
    <3>. QED
      BY <3>1, <3>3, <3>5, <3>9 DEF PartsOK
  <2>. QED
    BY <2>1, <2>2
<1>. QED
  BY <1>1, GoodsInvariant, PTL

-----------------------------------------------------------------------------
(* Whatever a period may have begun with is a day.                         *)
LEMMA FirstsAreDays ==
  ASSUME NEW a \in Int, NEW d \in Int, NEW p, PeriodOK(p, d)
  PROVE  Firsts(p, a, d) \subseteq Int
<1> SUFFICES ASSUME NEW e \in a .. d PROVE KindAndStart(p, e)[2] \in Int
  BY DEF Firsts
<1>1. e \in Int
  OBVIOUS
<1>2. CASE p.word \in DOMAIN KindOfCode
  <2>1. KindAndStart(p, e) = KindAndStart(p, d)
    BY <1>2 DEF KindAndStart, KindOfCode
  <2>2. KindAndStart(p, d)[2] \in Int
    BY KindAndStartIs DEF IsStart
  <2>. QED
    BY <2>1, <2>2
<1>3. CASE p.word \notin DOMAIN KindOfCode
  <2>1. PeriodOK(p, e)
    BY <1>3 DEF PeriodOK
  <2>. QED
    BY <1>1, <2>1, KindAndStartIs DEF IsStart
<1>. QED
  BY <1>2, <1>3

LEMMA PeriodTyped ==
  ASSUME DaysOK, NEW k, section = "period", PeriodTaskOK(k, begun, today)
  PROVE  TaskOK(k)
<1>1. /\ k.kind \in Kinds[section] /\ k.msg \in Slots
      /\ k.at \in Producing \cup {"frame", "send", "delete", "fall", "rest"}
  BY KindsOfPeriod DEF PeriodTaskOK, Working, Drawn, Producing
<1>2. k.sent \in 0 .. Len(k.rich) /\ k.told \in 0 .. Len(k.plain)
  <2>1. CASE Working(k, today)
    BY <2>1 DEF Working
  <2>2. CASE Drawn(k, today)
    <3>1. PICK s : k.rich = <<s>> /\ k.plain = <<s>>
      BY <2>2 DEF Drawn
    <3>2. k.sent \in {0, 1} /\ k.told = 0
      BY <2>2 DEF Drawn
    <3>. QED
      BY <3>1, <3>2
  <2>. QED
    BY <2>1, <2>2 DEF PeriodTaskOK
<1>3. PICK w : w = k.work
  OBVIOUS
<1>4. WorkOK(k.kind, w, begun, today)
  BY <1>3 DEF PeriodTaskOK
<1>5. w.pressed \in Int /\ today \in Int /\ PeriodOK(w.asked, today)
  BY <1>4 DEF WorkOK, AskedOK, DaysOK
<1>6. w.from \subseteq Int
  <2>1. Firsts(w.asked, w.pressed, today) \subseteq Int
    BY <1>5, FirstsAreDays
  <2>. QED
    BY <1>4, <2>1 DEF WorkOK
<1>7. PeriodWorkOK(w)
  BY <1>4, <1>5, <1>6 DEF WorkOK, PeriodWorkOK, PeriodOK
<1>. QED
  BY <1>1, <1>2, <1>3, <1>7 DEF TaskOK

LEMMA SectionTyped ==
  ASSUME NEW k, NEW kind \in {"goods", "grade"}, section = kind, NEW steps \in SUBSET Producing,
         SectionTaskOK(k, kind, steps), kind = "goods" => GoodsWorkOK(k.work)
  PROVE  TaskOK(k)
<1>1. kind \in Kinds[section]
  BY DEF Kinds
<1>. QED
  BY <1>1 DEF SectionTaskOK, TaskOK, Delivering

(* Types: the days, the chat, the handlers and what they keep, the stock   *)
(* and its cache, and one row for a title.                                 *)
THEOREM MTypeOKAlways == Spec => []MTypeOK
<1>1. Init => begun \in FirstDays
  BY DEF Init
<1>2. begun \in FirstDays /\ [Next]_vars => (begun \in FirstDays)'
  BY Stays
<1>3. MenuInv /\ GradeInv /\ GoodsInv /\ begun \in FirstDays => MTypeOK
  <2> SUFFICES ASSUME MenuInv, GradeInv, GoodsInv, begun \in FirstDays
               PROVE  MTypeOK
    OBVIOUS
  <2>1. DaysOK /\ section \in Sections /\ today \in begun .. (begun + Midnights)
    BY MenuAssumption DEF MenuInv, PeriodInv, DaysOK
  <2>2. \A m \in Slots : chat[m] \in {Nothing, Frame, Plain} \/ chat[m].is = "screen"
    BY DEF MenuInv, PeriodInv, ScreenOK
  <2>3. ASSUME NEW t \in Tasks PROVE TaskOK(task[t])
    <3>1. PICK k : k = task[t]
      OBVIOUS
    <3>2. CASE EndedOK(k)
      BY <3>1, <3>2 DEF EndedOK, TaskOK
    <3>3. CASE section = "period" /\ PeriodTaskOK(k, begun, today)
      BY <2>1, <3>1, <3>3, PeriodTyped
    <3>4. CASE section = "goods" /\ GoodsTaskOK(k, Catalogues[remote], server.counts)
      <4>1. SectionTaskOK(k, "goods", Asking) /\ GoodsFieldsOK(k.work)
        BY <3>4 DEF GoodsTaskOK
      <4>2. GoodsWorkOK(k.work)
        BY <4>1 DEF GoodsFieldsOK, GoodsWorkOK
      <4>3. PICK kind, steps : kind = "goods" /\ steps = Asking
        OBVIOUS
      <4>4. kind \in {"goods", "grade"} /\ section = kind /\ steps \in SUBSET Producing
        BY <3>4, <4>3 DEF Asking, Producing
      <4>5. SectionTaskOK(k, kind, steps)
        BY <4>1, <4>3
      <4>. QED
        BY <3>1, <4>2, <4>4, <4>5, SectionTyped
    <3>5. CASE section = "grade" /\ GradeTaskOK(k)
      <4>1. PICK kind, steps : kind = "grade" /\ steps = GradeSteps
        OBVIOUS
      <4>2. kind \in {"goods", "grade"} /\ section = kind /\ steps \in SUBSET Producing
            /\ kind # "goods"
        BY <3>5, <4>1 DEF GradeSteps, Producing
      <4>3. SectionTaskOK(k, kind, steps)
        BY <3>5, <4>1 DEF GradeTaskOK
      <4>. QED
        BY <3>1, <4>2, <4>3, SectionTyped
    <3>6. section \in {"period", "goods", "grade"}
      BY <2>1 DEF Sections, Kinds
    <3>. QED
      BY <3>1, <3>2, <3>3, <3>4, <3>5, <3>6 DEF MenuInv, PeriodInv, GradeInv, GoodsInv
  <2>4. remote \in 1 .. Len(Catalogues) /\ cache \in Listings
    BY DEF GoodsInv, StockOK, TrueListings
  <2>5. \A row, other \in rows : row.title = other.title => row = other
    BY DEF GradeInv, RowsOK
  <2>. QED
    BY <2>1, <2>2, <2>3, <2>4, <2>5 DEF MTypeOK
<1>. QED
  BY <1>1, <1>2, <1>3, MenuInvariant, GradeInvariant, GoodsInvariant, PTL DEF Spec
==============================================================================
