------------------------------- MODULE Ladder -------------------------------
(***************************************************************************)
(* Grade Up: the rules of the ladder (repositories/company.py and the      *)
(* editor in services/admin.py), the place of an employee on it and his    *)
(* progress (services/grade.py).                                           *)
(*                                                                         *)
(* A rule, or a line of the editor, is [title, price, average, months,     *)
(* order, active].  A title, and the category YCLIENTS gives an employee,  *)
(* is a text [name, price]: a name without digits and the price it         *)
(* carries, 0 for none.                                                    *)
(***************************************************************************)
EXTENDS Calendar, Lists, SequencesExt

CONSTANTS
    Aliases,      \* the pairs of a name and a price that _aliases_for_price has
    Contained,    \* the pairs of names of which the first is in the second
    Length        \* the letters of a name

Text(name, price) == [name |-> name, price |-> price]

Titled == [name : STRING, price : Nat]

Within(a, b) == /\ <<a.name, b.name>> \in Contained
                /\ a.price = 0 \/ a.price = b.price

\* The mistake of listing them from the last on.
ListDown(rows) ==
    LET active == {row \in rows : row.active}
    IN  InOrder(active, {p \in active \X active : p[1].order > p[2].order})

\* The rows of the table, in the order they are listed.
ListActive(rows) ==
    LET active == {row \in rows : row.active}
    IN  InOrder(active, {p \in active \X active : p[1].order < p[2].order})

-----------------------------------------------------------------------------
(* The editor: lines become rows. *)

ValidLine(line) == line.price > 0 /\ line.average > 0 /\ line.months > 0

Titles(rows) == {row.title : row \in rows}

\* Two lines of one title that has no row yet are two rows of one title, which
\* the constraint of the table refuses: nothing is saved then.
Collides(rows, lines) ==
    \E i, j \in DOMAIN lines : /\ i < j /\ lines[i].title = lines[j].title
                               /\ lines[i].title \notin Titles(rows)

\* A later line of a title overwrites an earlier one.
RowOf(line, i) ==
    [title |-> line.title, price |-> line.price, average |-> line.average,
     months |-> line.months, order |-> i, active |-> TRUE]

\* The mistake of inserting a row for each line.
ReplaceRulesInserts(rows, lines) ==
    rows \cup {RowOf(lines[i], i) : i \in DOMAIN lines}

ReplaceRules(rows, lines) ==
    LET LastLine(title) == CHOOSE i \in DOMAIN lines :
            /\ lines[i].title = title
            /\ \A j \in DOMAIN lines : j > i => lines[j].title # title
        named == {lines[i].title : i \in DOMAIN lines}
    IN  {RowOf(lines[LastLine(title)], LastLine(title)) : title \in named}
          \cup {[row EXCEPT !.active = FALSE] :
                    row \in {row \in rows : row.title \notin named}}

-----------------------------------------------------------------------------
(* The place of an employee. *)

RuleMatchesCategory(rule, category) ==
    \/ rule.title = category
    \/ category.price # 0 /\ category.price = rule.price
    \/ category.price = 0 /\ <<category.name, rule.price>> \in Aliases

NoPlace == 0

\* The first rule that fits, in the order of the ladder.
CurrentPlace(rules, category) ==
    LET fits == {i \in DOMAIN rules : RuleMatchesCategory(rules[i], category)}
    IN  IF fits = {} THEN NoPlace
        ELSE CHOOSE i \in fits : \A j \in fits : i <= j

\* The rule to reach; NoPlace at the top.
NextPlace(rules, category) ==
    IF CurrentPlace(rules, category) < Len(rules)
    THEN CurrentPlace(rules, category) + 1 ELSE NoPlace

\* The place the price list is cut to: the rule of that very title, else of
\* that price, else of the default ladder by its price or a name contained in
\* the category, else of the longest title that contains the category or is
\* contained in it.
DefaultLadder == <<1500, 1700, 1900, 2300>>
DefaultNames == << <<"senior_expert", 4>>, <<"senior_master", 2>>,
                   <<"expert", 3>>, <<"master", 1>> >>

FirstOfPlaces(places) ==
    IF places = {} THEN NoPlace
    ELSE CHOOSE i \in places : \A j \in places : i <= j

LongestKin(rules, category) ==
    LET kin == {i \in DOMAIN rules : \/ Within(rules[i].title, category)
                                     \/ Within(category, rules[i].title)}
        Long(i) == Length[rules[i].title.name]
    IN  IF kin = {} THEN NoPlace
        ELSE CHOOSE i \in kin : \A j \in kin :
                 Long(i) > Long(j) \/ (Long(i) = Long(j) /\ i <= j)

EmployeeGradePosition(rules, category) ==
    LET titled == FirstOfPlaces({i \in DOMAIN rules : rules[i].title = category})
        priced == FirstOfPlaces({i \in DOMAIN rules : rules[i].price = category.price})
        usual == FirstOfPlaces({i \in DOMAIN DefaultLadder : DefaultLadder[i] = category.price})
        named == FirstOfPlaces({i \in DOMAIN DefaultNames :
                                <<DefaultNames[i][1], category.name>> \in Contained})
        kin == LongestKin(rules, category)
        Default(i) == <<i, DefaultLadder[i]>>
        Own(i) == <<i, rules[i].price>>
    IN  CASE titled # NoPlace -> Own(titled)
          [] titled = NoPlace /\ priced # NoPlace -> Own(priced)
          [] titled = NoPlace /\ priced = NoPlace /\ usual # NoPlace ->
                 Default(usual)
          [] titled = NoPlace /\ priced = NoPlace /\ usual = NoPlace
               /\ named # NoPlace -> Default(DefaultNames[named][2])
          [] OTHER -> IF kin = NoPlace THEN <<NoPlace, 0>> ELSE Own(kin)

-----------------------------------------------------------------------------
(* Progress. *)

\* From the first of the month so many months back to today.
GradePeriodBounds(months, today) ==
    LET Back(month, n) == month - 1
    IN  <<FirstOf(FoldLeft(Back, MonthOf(today), [n \in 1 .. months - 1 |-> n])),
          today>>

Rounded(n, d) ==
    LET low == n \div d
        rest == 2 * (n % d)
    IN  IF rest > d \/ (rest = d /\ low % 2 = 1) THEN low + 1 ELSE low

\* What a screen shows of the way to a rule: the percentage, rounded half to
\* even, and what the revenue of all days lacks.  Figures are the revenue of
\* the services and the days with any.
CalculateProgress(rule, figures) ==
    LET goal == rule.average * (IF figures.days = 0 THEN 1 ELSE figures.days)
        reached == figures.revenue >= goal
    IN  [percent |-> IF reached THEN 100
                     ELSE Rounded(100 * figures.revenue, goal),
         left |-> IF reached THEN 0 ELSE goal - figures.revenue]
=============================================================================
