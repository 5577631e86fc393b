-------------------------------- MODULE Menu --------------------------------
(***************************************************************************)
(* The screens of the bot: what a press makes, and how it reaches the chat *)
(* (handlers/employee.py, handlers/loading.py, the statistics screens of   *)
(* handlers/admin.py, and the services they call).                         *)
(*                                                                         *)
(* A handler puts a frame into the chat, produces a result with many       *)
(* queries and calls, reading the clock again at each of them, and         *)
(* delivers it: rich parts as new messages and the frame deleted, or, when *)
(* Telegram refuses one, the plain parts with the frame edited into the    *)
(* first.  Handlers run beside each other, also for one message.           *)
(*                                                                         *)
(* A behaviour stays in one section of the menu; the sections share the    *)
(* chat and the clock and no other state.                                  *)
(***************************************************************************)
EXTENDS Goods, Ladder

CONSTANTS
    Tasks,        \* handlers that may be in flight
    Employees,    \* how many employees are linked to the account, or the team
    Slots,        \* messages of the chat the model keeps in sight
    FirstDays,    \* days a behaviour may begin on
    Midnights,    \* bound on midnights
    MaxShifts,    \* bound on presses of the arrow back in a row
    Catalogues,   \* what YCLIENTS has in stock: a sequence of lists
    UserToken,    \* whether there is a user token to try
    Lines,        \* texts the admin may send: sequences of lines
    Categories,   \* categories YCLIENTS may give the employee
    Figures       \* what YCLIENTS may answer of his revenue

ASSUME MenuAssumption ==
    /\ Employees \in Nat \ {0} /\ FirstDays \subseteq Int
    /\ Midnights \in Nat /\ MaxShifts \in Nat
    /\ Catalogues \in Seq(Seq(Items)) /\ Len(Catalogues) > 0
    /\ Figures \subseteq [revenue : Nat, days : Nat]
    /\ \A figures \in Figures : figures.days = 0 => figures.revenue = 0
    /\ \A lines \in Lines : lines \in Seq([title : Titled, price : Nat,
                                          average : Nat, months : Nat])

VARIABLES
    section, \* the section of the menu this behaviour is in
    today,   \* the date of the server
    begun,   \* the date this behaviour began on
    chat,    \* the messages in sight
    task,    \* the handlers in flight
    remote,  \* which of Catalogues YCLIENTS has now
    server,  \* whether it heeds the number of a page, whether it tells a total
    cache,   \* _PRODUCTS_CACHE
    rows,    \* grade_rules
    written  \* the lines they were last saved from (history)

clock == <<today, begun>>
goods == <<remote, server, cache>>
ladder == <<rows, written>>
vars == <<section, today, begun, chat, task, remote, server, cache, rows, written>>

Kinds ==
    [period |-> {"stats", "kpi", "team", "employee"},
     goods  |-> {"goods"},
     grade  |-> {"grade"}]
Sections == DOMAIN Kinds

-----------------------------------------------------------------------------
(* The chat.  A message is a frame some handler waits behind, a screen with *)
(* buttons, or a text without.  Nothing is a message that is not there, or  *)
(* a frame that Telegram would not let the bot change: it is out of sight.  *)

Nothing == [is |-> "nothing"]
Frame == [is |-> "frame"]
Plain == [is |-> "text"]

Idle == [at |-> "idle", lost |-> FALSE]
Running(t) == task[t].at # "idle"

\* Bound: a handler is started when none runs, but for a second press of the
\* same button.
Quiet == \A t \in Tasks : ~ Running(t)

\* Where a new message may go: what stood there is out of sight.
FreeSlots == {m \in Slots : /\ chat[m] # Frame
                            /\ \A t \in Tasks : Running(t) => task[t].msg # m}

\* The menu is at the end of the chat: the screens above are out of sight.
ScrolledAway ==
    [m \in Slots |-> IF m \in FreeSlots THEN Nothing ELSE chat[m]]

Editable(m) == chat[m] # Nothing

Goes(t, k) == task' = [task EXCEPT ![t] = k]
Shows(m, what) == chat' = [chat EXCEPT ![m] = what]

\* A handler ends.  `lost` remembers one that returned while neither all its
\* rich parts nor all its plain ones had been sent.
Returns(t, k) ==
    Goes(t, [Idle EXCEPT !.lost = /\ k.sent # Len(k.rich)
                                  /\ k.told # Len(k.plain)])
Raises(t) == Goes(t, Idle)

Handler(kind, m, edits, work) ==
    [at |-> "frame", kind |-> kind, msg |-> m, edits |-> edits, work |-> work,
     rich |-> <<>>, plain |-> <<>>, sent |-> 0, told |-> 0]

-----------------------------------------------------------------------------
(* A press. *)

\* What a handler of a period screen keeps: the period asked for, how many
\* employees it is about and how many are left to do in the step it is at, the
\* first days of the spans it has used so far, the month of a KPI screen, the
\* rendering it is at, the day of the press, the presses of the arrow back
\* that led there, and the days its rich part names.
PeriodWork(asked, scope, shifts) ==
    [asked |-> asked, scope |-> scope, left |-> scope, from |-> {},
     month |-> 0, rendering |-> "rich", pressed |-> today, shifts |-> shifts,
     shown |-> <<0, 0>>]

Scopes == {1, Employees}

\* The scopes a screen of a kind may have: all the employees of the account or
\* one, the whole team or a branch, and one for the KPI and an employee's card.
ScopesOf(kind) ==
    CASE kind = "stats" -> Scopes
      [] kind = "team"  -> {Employees}
      [] OTHER          -> {1}

\* A button of the main menu, or of the card of a branch, which is edited: the
\* current month.
PressMenu(t, kind) ==
    /\ kind \in Kinds[section] \ {"goods", "grade"}
    /\ Quiet
    /\ \E m \in FreeSlots, scope \in ScopesOf(kind), edits \in {FALSE, kind = "team"} :
           /\ Goes(t, Handler(kind, m, edits, PeriodWork(Word("month"), scope, 0)))
           /\ chat' = [ScrolledAway EXCEPT ![m] = IF edits THEN Plain ELSE @]
    /\ UNCHANGED <<section, clock, goods, ladder>>

\* The buttons of a screen, as pairs of a period and a scope: the arrows and
\* the same period again; the words, but for a KPI; and the other branches of
\* the account for the same period.
Arrows(screen) ==
    {<<p, screen.scope>> : p \in {screen.own, screen.prev, screen.next}}

WordButtons(screen) ==
    {<<Word(w), screen.scope>> : w \in {"today", "week", "month"}}

ScopeButtons(screen) == {<<screen.own, n>> : n \in ScopesOf(screen.kind)}

Buttons(screen) ==
    Arrows(screen) \cup ScopeButtons(screen)
      \cup (IF screen.kind = "kpi" THEN {} ELSE WordButtons(screen))

\* A button of a screen.  The screen gives way to a frame, but for that of an
\* employee's card, which is answered by a new message.
PressButton(t, m) ==
    /\ Quiet
    /\ chat[m].is = "screen"
    /\ LET screen == chat[m]
           edits == screen.kind # "employee"
       IN  \E button \in Buttons(screen), n \in IF edits THEN {m} ELSE FreeSlots :
               LET shifts == IF button[1] = screen.prev THEN screen.shifts + 1
                             ELSE IF button[1] = screen.own THEN screen.shifts
                             ELSE 0
               IN  /\ shifts <= MaxShifts
                   /\ Goes(t, Handler(screen.kind, n, edits,
                                      PeriodWork(button[1], button[2], shifts)))
    /\ UNCHANGED <<section, clock, chat, goods, ladder>>

\* The same button again, before the screen gives way to a frame.
PressTwice(t, u) ==
    /\ ~ Running(t)
    /\ task[u].at = "frame" /\ task[u].edits
    /\ Goes(t, [task[u] EXCEPT !.work.pressed = today])
    /\ UNCHANGED <<section, clock, chat, goods, ladder>>

\* What a handler of the goods keeps: which of its two calls for the list it
\* is in, what it has tried, the goods of the endpoint it is at, whether 401 or
\* 403 was answered, whether the stock changed meanwhile, and its lists.
GoodsWork ==
    [attempt |-> 1, page |-> 1, pages |-> NoPages, forbidden |-> FALSE,
     moved |-> FALSE, lists |-> <<>>]

PressGoods(t) ==
    /\ section = "goods"
    /\ Quiet
    /\ \E m \in FreeSlots : Goes(t, Handler("goods", m, FALSE, GoodsWork))
    /\ UNCHANGED <<section, clock, chat, goods, ladder>>

PressGrade(t) ==
    /\ section = "grade"
    /\ Quiet
    /\ \E m \in FreeSlots, category \in Categories :
           Goes(t, Handler("grade", m, FALSE,
                           [category |-> category, rules |-> <<>>]))
    /\ UNCHANGED <<section, clock, chat, goods, ladder>>

FirstStep(kind) ==
    CASE kind = "goods" -> "look"
      [] kind = "grade" -> "place"
      [] OTHER          -> "refresh"

Producing == {"refresh", "sum", "label", "look", "ask", "place", "progress",
              "again"}

\* The frame is sent, or edited into the message of the button, which another
\* handler may have deleted.
ShowFrame(t) ==
    /\ task[t].at = "frame"
    /\ \/ /\ task[t].edits => Editable(task[t].msg)
          /\ Shows(task[t].msg, Frame)
          /\ Goes(t, [task[t] EXCEPT !.at = FirstStep(task[t].kind)])
       \/ Raises(t) /\ UNCHANGED chat
    /\ UNCHANGED <<section, clock, goods, ladder>>

\* Every second the frame is drawn again, over whatever the message shows.
Animate(t) ==
    /\ task[t].at \in Producing
    /\ Editable(task[t].msg) /\ chat[task[t].msg] # Frame
    /\ Shows(task[t].msg, Frame)
    /\ UNCHANGED <<section, clock, task, goods, ladder>>

\* The mistake of leaving the frame.
ProducerFailsSilently(t) ==
    /\ task[t].at \in Producing
    /\ Raises(t)
    /\ UNCHANGED <<section, clock, chat, goods, ladder>>

\* The producer raises: the frame becomes an error if Telegram allows it.
ProducerFails(t) ==
    /\ task[t].at \in Producing
    /\ \/ Editable(task[t].msg) /\ Shows(task[t].msg, Plain)
       \/ Shows(task[t].msg, Nothing)
    /\ Raises(t)
    /\ UNCHANGED <<section, clock, goods, ladder>>

-----------------------------------------------------------------------------
(* Period screens.  The bounds of the period are calculated anew for every  *)
(* employee, for the label and for the buttons.                             *)

\* The days the label names.
Label(k) ==
    IF k.kind = "kpi" THEN MonthBounds(k.work.month, today)
    ELSE PeriodBounds(k.work.asked, today)

BeginsRendering(t, k) ==
    Goes(t, [k EXCEPT !.at = "sum", !.work.left = k.work.scope])

\* The refresh of an employee; whatever fails is swallowed with the rest of it.
RefreshPeriod(t) ==
    /\ task[t].at = "refresh" /\ task[t].kind # "team"
    /\ LET k == task[t]
           w == k.work
           ahead == IF k.kind = "kpi"
                     THEN [k EXCEPT !.work.month = MonthFromPeriod(w.asked, today)]
                     ELSE k
           done == [ahead EXCEPT !.work.left = @ - 1,
                        !.work.from = @ \cup {PeriodBounds(w.asked, today)[1]}]
       IN  \/ w.left > 1 /\ Goes(t, done)
           \/ w.left = 1 /\ BeginsRendering(t, done)
           \/ BeginsRendering(t, ahead)
    /\ UNCHANGED <<section, clock, chat, goods, ladder>>

\* That of a team reads the clock once.
RefreshTeamPeriod(t) ==
    /\ task[t].at = "refresh" /\ task[t].kind = "team"
    /\ LET k == task[t]
       IN  \/ BeginsRendering(t, [k EXCEPT !.work.from =
                                      @ \cup {PeriodBounds(k.work.asked, today)[1]}])
           \/ BeginsRendering(t, k)
    /\ UNCHANGED <<section, clock, chat, goods, ladder>>

\* One employee is summed up, from a first day.
SumsUp(t, first) ==
    LET k == task[t]
    IN  Goes(t, [k EXCEPT !.work.from = @ \cup {first},
                          !.work.left = @ - 1,
                          !.at = IF k.work.left = 1 THEN "label" ELSE "sum"])

SumEmployee(t) ==
    /\ task[t].at = "sum" /\ task[t].kind \in {"stats", "employee"}
    /\ SumsUp(t, PeriodBounds(task[t].work.asked, today)[1])
    /\ UNCHANGED <<section, clock, chat, goods, ladder>>

SumTeam(t) ==
    /\ task[t].at = "sum" /\ task[t].kind = "team"
    /\ SumsUp(t, PeriodBounds(task[t].work.asked, today)[1])
    /\ UNCHANGED <<section, clock, chat, goods, ladder>>

SumMonth(t) ==
    /\ task[t].at = "sum" /\ task[t].kind = "kpi"
    /\ SumsUp(t, task[t].work.month)
    /\ UNCHANGED <<section, clock, chat, goods, ladder>>

\* The label of the rich rendering, after which the plain one begins.
LabelRich(t) ==
    /\ task[t].at = "label" /\ task[t].work.rendering = "rich"
    /\ BeginsRendering(t, [task[t] EXCEPT !.work.rendering = "plain",
                                          !.work.from = @ \cup {Label(task[t])[1]},
                                          !.work.shown = Label(task[t])])
    /\ UNCHANGED <<section, clock, chat, goods, ladder>>

\* The label of the plain rendering, and the buttons.
LabelPlain(t) ==
    /\ task[t].at = "label" /\ task[t].work.rendering = "plain"
    /\ LET k == task[t]
           own == IF k.kind = "kpi" THEN MonthPeriod(k.work.asked, today)
                  ELSE CanonicalPeriod(k.work.asked, today)
           screen == [is |-> "screen", kind |-> k.kind,
                      scope |-> k.work.scope, shifts |-> k.work.shifts,
                      own |-> own, drawn |-> today,
                      prev |-> ShiftedPeriod(own, -1, today),
                      next |-> ShiftedPeriod(own, 1, today)]
       IN  Goes(t, [k EXCEPT !.at = "send", !.work.from = @ \cup {Label(k)[1]},
                             !.rich = <<screen>>, !.plain = <<screen>>])
    /\ UNCHANGED <<section, clock, chat, goods, ladder>>

-----------------------------------------------------------------------------
(* Goods.  The handler asks for the list twice, for the rich and for the    *)
(* plain rendering; the cache of the process may answer.                    *)

NoCache == [list |-> <<>>, sure |-> FALSE, of |-> 0]

\* A list, whether nothing explains that goods miss, and the stock it is of.
Listing(list, sure) == [list |-> list, sure |-> sure, of |-> remote]

EndsCall(t, k, listing) ==
    LET lists == Append(k.work.lists, listing)
        shown == [i \in DOMAIN lists |-> VisibleProducts(lists[i].list)]
    IN  Goes(t, IF Len(lists) = 1
                THEN [k EXCEPT !.at = "look",
                               !.work = [GoodsWork EXCEPT !.lists = lists]]
                ELSE [k EXCEPT
                        !.at = "send", !.work.lists = lists,
                        !.rich = MessagesOf(ProductRichChunks(shown[1])),
                        !.plain = MessagesOf(ProductCatalogChunks(shown[2]))])

LookInCache(t) ==
    /\ task[t].at = "look"
    /\ IF cache = NoCache THEN Goes(t, [task[t] EXCEPT !.at = "ask"])
       ELSE EndsCall(t, task[t], cache)
    /\ UNCHANGED <<section, clock, chat, goods, ladder>>

\* Three endpoints, first with the user token if there is one.
Attempts == IF UserToken THEN 6 ELSE 3

\* The list of an endpoint with goods is kept and returned.
ProductsCome(t, k, pages) ==
    LET listing == Listing(pages.goods, /\ ~ k.work.moved /\ ~ pages.torn
                                        /\ ~ pages.again /\ pages.stop)
    IN  cache' = listing /\ EndsCall(t, k, listing)

\* An endpoint without goods: the next one, or none is left.  A list of none
\* is kept as well; after a 401 or 403 the call fails, which is taken for none.
NextEndpoint(t, k, forbidden, heard) ==
    IF k.work.attempt < Attempts
    THEN /\ Goes(t, [k EXCEPT !.work.attempt = @ + 1, !.work.page = 1,
                              !.work.pages = NoPages,
                              !.work.forbidden = forbidden])
         /\ UNCHANGED cache
    ELSE /\ EndsCall(t, k, Listing(<<>>, heard /\ ~ k.work.moved))
         /\ cache' = IF forbidden THEN cache
                     ELSE Listing(<<>>, heard /\ ~ k.work.moved)

AskBatch(t) ==
    /\ task[t].at = "ask"
    /\ \E answer \in [Batch(task[t].work.page) -> {"page"} \cup Failures] :
           LET k == task[t]
               list == Catalogues[remote]
               first == k.work.page
               Asked(i) == Answer(answer[i], PageOf(list, i, server.counts))
               total == IF server.tells THEN Len(list) ELSE NoTotal
               pages == TakeBatch(k.work.pages,
                                  [i \in 1 .. Cardinality(Batch(first)) |->
                                       Asked(first + i - 1)], total)
               over == pages.stop \/ first + BatchSize > MaxPages
           IN  CASE pages.raised \in {Refused, Down} ->
                        /\ EndsCall(t, k, Listing(<<>>, FALSE))
                        /\ UNCHANGED cache
                 [] pages.raised \in {Forbidden, Absent} ->
                        NextEndpoint(t, k, k.work.forbidden \/ pages.raised = Forbidden, FALSE)
                 [] pages.raised = "none" /\ ~ over ->
                        /\ Goes(t, [k EXCEPT !.work.page = first + BatchSize,
                                             !.work.pages = pages])
                        /\ UNCHANGED cache
                 [] pages.raised = "none" /\ over /\ pages.goods # <<>> ->
                        ProductsCome(t, k, pages)
                 [] OTHER -> NextEndpoint(t, k, k.work.forbidden, pages.stop /\ ~ pages.again)
    /\ UNCHANGED <<section, clock, chat, remote, server, ladder>>

CacheExpires ==
    /\ cache # NoCache
    /\ cache' = NoCache
    /\ UNCHANGED <<section, clock, chat, task, remote, server, ladder>>

\* The stock changes in YCLIENTS, as often as there are catalogues.
Restock ==
    /\ section = "goods" /\ remote < Len(Catalogues)
    /\ remote' = remote + 1
    /\ task' = [t \in Tasks |->
                   IF task[t].at = "ask" THEN [task[t] EXCEPT !.work.moved = TRUE]
                   ELSE task[t]]
    /\ UNCHANGED <<section, clock, chat, server, cache, ladder>>

-----------------------------------------------------------------------------
(* The grade.  The rules are read for each rendering; a session that has a  *)
(* row keeps its columns, though the order it is listed in is new.          *)

ReadRules(seen) ==
    LET Known(title) == {i \in DOMAIN seen : seen[i].title = title}
        Row(row) == IF Known(row.title) = {} THEN row
                    ELSE seen[CHOOSE i \in Known(row.title) : TRUE]
        active == ListActive(rows)
    IN  [i \in DOMAIN active |-> Row(active[i])]

\* What a rendering tells: the places, and for the next one the days it looks
\* at, the percentage and what is left.
GradeContent(rules, category, figures) ==
    LET next == NextPlace(rules, category)
    IN  [current |-> CurrentPlace(rules, category), next |-> next,
         goal |-> IF next = NoPlace THEN 0 ELSE rules[next].average * figures.days,
         months |-> IF next = NoPlace THEN 0 ELSE rules[next].months,
         days |-> IF next = NoPlace THEN <<0, 0>>
                  ELSE GradePeriodBounds(rules[next].months, today),
         way |-> IF next = NoPlace THEN [percent |-> 0, left |-> 0]
                 ELSE CalculateProgress(rules[next], figures)]

FindPlace(t) ==
    /\ task[t].at = "place"
    /\ Goes(t, [task[t] EXCEPT !.at = "progress", !.work.rules = ReadRules(<<>>)])
    /\ UNCHANGED <<section, clock, chat, goods, ladder>>

\* The figures are refreshed, or not if that fails, and summed up.
TellProgress(t) ==
    /\ task[t].at = "progress"
    /\ \E figures \in Figures :
           Goes(t, [task[t] EXCEPT !.at = "again",
                       !.plain = <<GradeContent(task[t].work.rules,
                                                task[t].work.category, figures)>>])
    /\ UNCHANGED <<section, clock, chat, goods, ladder>>

TellAgain(t) ==
    /\ task[t].at = "again"
    /\ \E figures \in Figures :
           Goes(t, [task[t] EXCEPT !.at = "send", !.work.rules = <<>>,
                       !.rich = <<GradeContent(ReadRules(task[t].work.rules),
                                               task[t].work.category, figures)>>])
    /\ UNCHANGED <<section, clock, chat, goods, ladder>>

\* The admin sends new rules: refused as a whole, or saved.
SaveRules(lines) ==
    /\ section = "grade"
    /\ \A i \in DOMAIN lines : ValidLine(lines[i])
    /\ ~ Collides(rows, lines)
    /\ rows' = ReplaceRules(rows, lines)
    /\ written' = lines
    /\ UNCHANGED <<section, clock, chat, task, goods>>

-----------------------------------------------------------------------------
(* Delivery. *)

\* A rich part is a message of its own; after the last the frame is deleted.
SendPart(t) ==
    /\ task[t].at = "send"
    /\ LET k == task[t]
           part == k.rich[k.sent + 1]
           sent == [k EXCEPT !.sent = @ + 1,
                             !.at = IF k.sent + 1 = Len(k.rich) THEN "delete"
                                    ELSE "send"]
       IN  \/ /\ Goes(t, sent)
              /\ IF section = "period"
                 THEN \E m \in FreeSlots : Shows(m, part)
                 ELSE UNCHANGED chat
           \/ Goes(t, [k EXCEPT !.at = "fall"]) /\ UNCHANGED chat
    /\ UNCHANGED <<section, clock, goods, ladder>>

\* Whether Telegram deletes the frame or not, the handler returns.
DeleteFrame(t) ==
    /\ task[t].at = "delete"
    /\ Shows(task[t].msg, Nothing)
    /\ Returns(t, task[t])
    /\ UNCHANGED <<section, clock, goods, ladder>>

\* A refused rich part: all plain parts, the first in place of the frame.
EditPlain(t) ==
    /\ task[t].at = "fall"
    /\ LET k == [task[t] EXCEPT !.told = 1, !.at = "rest"]
           shown == IF section = "period" THEN k.plain[1] ELSE Plain
       IN  \/ /\ Editable(k.msg)
              /\ Shows(k.msg, shown)
              /\ IF Len(k.plain) = 1 THEN Returns(t, k) ELSE Goes(t, k)
           \/ Shows(k.msg, Nothing) /\ Raises(t)
    /\ UNCHANGED <<section, clock, goods, ladder>>

AnswerPlain(t) ==
    /\ task[t].at = "rest"
    /\ LET k == [task[t] EXCEPT !.told = @ + 1]
       IN  \/ IF k.told = Len(k.plain) THEN Returns(t, k) ELSE Goes(t, k)
           \/ Raises(t)
    /\ UNCHANGED <<section, clock, chat, goods, ladder>>

-----------------------------------------------------------------------------
Midnight ==
    /\ section = "period"
    /\ today < begun + Midnights
    /\ today' = today + 1
    /\ UNCHANGED <<section, begun, chat, task, goods, ladder>>

DefaultRules ==
    << [title |-> Text("master", 0), price |-> 1500, average |-> 12500, months |-> 2],
       [title |-> Text("senior_master", 0), price |-> 1700, average |-> 14500, months |-> 2],
       [title |-> Text("expert", 0), price |-> 1900, average |-> 18000, months |-> 3],
       [title |-> Text("senior_expert", 0), price |-> 2300, average |-> 21000, months |-> 3] >>

Init ==
    /\ section \in Sections
    /\ begun \in FirstDays /\ today = begun
    /\ chat = [m \in Slots |-> Nothing]
    /\ task = [t \in Tasks |-> Idle]
    /\ remote = 1 /\ cache = NoCache
    /\ server \in [counts : BOOLEAN, tells : BOOLEAN]
    /\ section # "goods" => server = [counts |-> TRUE, tells |-> TRUE]
    /\ section = "goods" => begun = CHOOSE d \in FirstDays : TRUE
    /\ written = DefaultRules
    /\ rows = ReplaceRules({}, DefaultRules)

Step(t) ==
    \/ PressGoods(t) \/ PressGrade(t) \/ \E m \in Slots : PressButton(t, m)
    \/ \E u \in Tasks : PressTwice(t, u)
    \/ \E kind \in Kinds[section] : PressMenu(t, kind)
    \/ ShowFrame(t) \/ Animate(t) \/ ProducerFails(t)
    \/ RefreshPeriod(t) \/ RefreshTeamPeriod(t)
    \/ SumEmployee(t) \/ SumTeam(t) \/ SumMonth(t)
    \/ LabelRich(t) \/ LabelPlain(t)
    \/ LookInCache(t) \/ AskBatch(t)
    \/ FindPlace(t) \/ TellProgress(t) \/ TellAgain(t)
    \/ SendPart(t) \/ DeleteFrame(t) \/ EditPlain(t) \/ AnswerPlain(t)

Next ==
    \/ \E t \in Tasks : Step(t)
    \/ Midnight \/ CacheExpires \/ Restock
    \/ \E lines \in Lines : SaveRules(lines)

Spec == Init /\ [][Next]_vars

-----------------------------------------------------------------------------
Listings == [list : Seq(Items), sure : BOOLEAN, of : 0 .. Len(Catalogues)]

\* What is kept while a handler runs.
PeriodWorkOK(w) ==
    /\ w.asked \in Period /\ w.scope \in Scopes /\ w.left \in 0 .. w.scope
    /\ w.from \subseteq Int /\ w.month \in Int
    /\ w.pressed \in begun .. today /\ w.shifts \in 0 .. MaxShifts

GoodsWorkOK(w) ==
    /\ w.attempt \in 1 .. Attempts /\ w.page \in 1 .. MaxPages
    /\ Len(w.lists) <= 2

TaskOK(k) ==
    \/ k.at = "idle" /\ k.lost \in BOOLEAN
    \/ /\ k.at \in Producing \cup {"frame", "send", "delete", "fall", "rest"}
       /\ k.kind \in Kinds[section] /\ k.msg \in Slots
       /\ k.sent \in 0 .. Len(k.rich) /\ k.told \in 0 .. Len(k.plain)
       /\ section = "period" => PeriodWorkOK(k.work)
       /\ section = "goods" => GoodsWorkOK(k.work)

\* The type invariant of the chat, the handlers and what they keep.
MTypeOK ==
    /\ section \in Sections
    /\ begun \in FirstDays /\ today \in begun .. (begun + Midnights)
    /\ \A m \in Slots : chat[m] \in {Nothing, Frame, Plain} \/ chat[m].is = "screen"
    /\ \A t \in Tasks : TaskOK(task[t])
    /\ remote \in 1 .. Len(Catalogues) /\ cache \in Listings
    /\ \A row, other \in rows : row.title = other.title => row = other

\* A screen speaks of one span.  Whatever a handler refreshed, summed up, named
\* and put under its buttons begins on a first day that the period asked for
\* had at some moment since the press: one day for a period with a date, and
\* two at most for "today", "week" and "month" when midnight passes between
\* the queries.
OneSpan ==
    section = "period" =>
        \A t \in {t \in Tasks : task[t].at = "send"} :
            LET w == task[t].work
                first == {KindAndStart(w.asked, d)[2] : d \in w.pressed .. today}
                screen == task[t].rich[1]
            IN  /\ w.from \subseteq first
                /\ screen.own.at \in first
                /\ w.shown[1] <= w.shown[2] /\ w.shown[2] <= today

\* The arrows of a screen lead through the calendar without a gap or an
\* overlap, on whatever later day they are pressed: back to the period that
\* ends the day before, from there forward again, and forward to the next
\* period unless this one was still running when the screen was drawn.
Navigable ==
    \A m \in {m \in Slots : chat[m].is = "screen"} :
        LET own == chat[m].own
            Spans(p) == PeriodBounds(p, today)
            last == LastOf(PeriodKind(own, today), own.at)
        IN  /\ Spans(chat[m].prev)[2] + 1 = Spans(own)[1]
            /\ ShiftedPeriod(chat[m].prev, 1, today) = own
            /\ IF last < chat[m].drawn
               THEN Spans(chat[m].next)[1] = last + 1
               ELSE chat[m].next = own

\* Nobody is left before a frame, and nothing is left out.  A message is only a
\* frame while a handler works behind it; and a handler that returned has sent
\* all its rich parts or all its plain ones.
Delivered ==
    /\ \A m \in Slots : chat[m] = Frame =>
           \E t \in Tasks : Running(t) /\ task[t].msg = m /\ task[t].at # "frame"
    /\ \A t \in Tasks : task[t].at = "idle" => ~ task[t].lost

\* A list of goods is whole unless it is explained: a page failed or came
\* twice, there are more pages than are asked for, or the stock changed
\* meanwhile.  Its parts have each good in stock once, and fit into a message.
WholeList ==
    LET Numbers(list) == {list[i].id : i \in DOMAIN list} \ {0}
        Whole(listing) ==
            listing.sure => Numbers(listing.list) = Numbers(Catalogues[listing.of])
        Told(parts, listing) == FlattenSeq(parts) = VisibleProducts(listing.list)
    IN  section = "goods" /\ PageSize >= ShortPage =>
            /\ Whole(cache)
            /\ \A t \in {t \in Tasks : task[t].at = "send"} :
                   LET k == task[t]
                   IN  /\ \A i \in 1 .. 2 : Whole(k.work.lists[i])
                       /\ Told(k.rich, k.work.lists[1])
                       /\ Told(k.plain, k.work.lists[2])
                       /\ \A i \in DOMAIN k.rich : Len(k.rich[i]) <= PartSize
                       /\ \A i \in DOMAIN k.plain : Len(k.plain[i]) <= 1
                              \/ PartLength(k.plain[i]) <= PartLines

\* The ladder is the one last written: the last line of each title, in their
\* order.  An employee whose category is the title of a line is at that line,
\* on his screen as in his price list, and his next goal is the line after it;
\* on the screen only if no line before answers to his category by its price
\* or by an alias of it.
LadderAsWritten ==
    LET rules == ListActive(rows)
        lasting == Ascending({i \in DOMAIN written : \A j \in DOMAIN written :
                                  j > i => written[j].title # written[i].title})
    IN  /\ Len(rules) = Len(lasting)
        /\ \A n \in DOMAIN rules :
               LET line == written[lasting[n]]
               IN  /\ rules[n] = RowOf(line, lasting[n])
                   /\ EmployeeGradePosition(rules, line.title) = <<n, line.price>>
                   /\ (\A i \in 1 .. n - 1 :
                           ~ RuleMatchesCategory(rules[i], line.title))
                      => /\ CurrentPlace(rules, line.title) = n
                         /\ NextPlace(rules, line.title) =
                                IF n = Len(rules) THEN NoPlace ELSE n + 1

\* The bar of a grade tells how far it is: it is full if and only if nothing is
\* left of the goal, but for the rounding of half a percent; and it looks at
\* as many months as the rule says, the current one included.
BarTells ==
    section = "grade" =>
        \A t \in {t \in Tasks : task[t].at = "send"} :
            LET Tells(told) ==
                    told.next # NoPlace =>
                        /\ told.way.percent = 100 => 200 * told.way.left <= told.goal
                        /\ told.way.left = 0 => told.way.percent = 100
                        /\ told.days[1] = FirstOf(MonthOf(told.days[2]) - told.months + 1)
            IN  Tells(task[t].rich[1]) /\ Tells(task[t].plain[1])

LadderTells == LadderAsWritten /\ BarTells
=============================================================================
