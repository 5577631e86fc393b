------------------------------- MODULE MCMenu -------------------------------
(* Two handlers at most, the turn of a year and the end of a leap February, *)
(* three stocks of goods, and texts of the grade editor.                    *)
EXTENDS Menu, TLC

Alike == Permutations(Tasks) \cup Permutations(Slots)

\* Two Sundays: 31 December 2028 and 29 February 2032.
MCFirstDays == {740711, 741866}

Good(id, group, stock, certificate) ==
    [id |-> id, group |-> group, stock |-> stock,
     certificate |-> certificate, lines |-> 2]

\* Five goods on three pages, one twice, one without a number; the first one is
\* sold and all move up; more than the pages asked for can hold; none.
MCCatalogues ==
    LET a == Good(1, 2, 5, FALSE)
        b == Good(2, 1, 1, FALSE)
        c == Good(3, 1, 0, FALSE)
        d == Good(4, 2, 2, TRUE)
        e == Good(5, 1, 3, FALSE)
        n == Good(0, 1, 1, FALSE)
    IN  << <<a, b, c, n, b>>, <<b, c, d, e>>, <<a, b, c, d, e, b, Good(6, 3, 1, FALSE)>>, <<>> >>

Line(title, price, average, months) ==
    [title |-> title, price |-> price, average |-> average, months |-> months]

Master == Text("master", 0)
Barber == Text("barber", 0)
Expert == Text("expert", 0)
Top1900 == Text("top", 1900)

\* A line twice, a title by an alias of the line before, a title with a price,
\* a new title twice, a line without a price.
MCLines ==
    { <<Line(Master, 1500, 100, 2), Line(Expert, 1900, 200, 14), Line(Master, 1600, 150, 1)>>,
      <<Line(Master, 1500, 100, 2), Line(Barber, 1700, 200, 3)>>,
      <<Line(Top1900, 2000, 300, 1), Line(Expert, 1900, 200, 3)>>,
      <<Line(Barber, 1500, 100, 2), Line(Barber, 1700, 200, 3)>>,
      <<Line(Master, 0, 100, 2)>> }

MCCategories == {Master, Top1900, Text("", 0)}

MCAliases ==
    {<<"master", 1500>>, <<"barber", 1500>>, <<"senior_master", 1700>>,
     <<"senior barber", 1700>>, <<"expert", 1900>>, <<"top master", 1900>>,
     <<"top barber", 1900>>, <<"senior_expert", 2300>>, <<"lead expert", 2300>>}

Names == {"", "master", "senior_master", "expert", "senior_expert", "barber", "top"}
MCContained ==
    {<<n, n>> : n \in Names} \cup {<<"", n>> : n \in Names}
        \cup {<<"master", "senior_master">>, <<"expert", "senior_expert">>}
MCLength ==
    [n \in Names |-> CASE n = "" -> 0 [] n = "top" -> 3 [] n = "senior_master" -> 14
                       [] n = "senior_expert" -> 15 [] OTHER -> 6]

MCFigures ==
    {[revenue |-> 0, days |-> 0], [revenue |-> 398, days |-> 2],
     [revenue |-> 400, days |-> 2]}
=============================================================================
