-------------------------------- MODULE Goods --------------------------------
(***************************************************************************)
(* The goods of a branch: how the pages of YCLIENTS become a list          *)
(* (yclients/client.py), and a list the parts of a message                 *)
(* (services/catalog.py).                                                  *)
(*                                                                         *)
(* A good is [id, group, stock, certificate, lines]; the id stands for     *)
(* what tells two goods apart, number, title and price, and is 0 for an    *)
(* item without a number.  An answer to the question for a page is         *)
(* [is, items]: the items of the page, or the way it failed.               *)
(***************************************************************************)
EXTENDS Lists, SequencesExt

Items == [id : Nat, group : Nat, stock : Nat, certificate : BOOLEAN, lines : Nat]

CONSTANTS
    MaxPages,     \* pages asked for at most (yclients_product_max_pages)
    BatchSize,    \* pages asked for at a time (PRODUCT_PAGE_BATCH_SIZE, 8)
    ShortPage,    \* a page of fewer items is the last (25)
    PageSize,     \* items YCLIENTS puts on a page
    PartSize,     \* goods in a rich part (PRODUCTS_RICH_PAGE_SIZE, 32)
    PartLines     \* lines in a plain part (PRODUCTS_BODY_LIMIT)

ASSUME GoodsAssumption ==
    /\ MaxPages \in Nat \ {0} /\ BatchSize \in Nat \ {0}
    /\ ShortPage \in Nat /\ PageSize \in Nat \ {0}
    /\ PartSize \in Nat \ {0} /\ PartLines \in Nat \ {0}

\* How a page may fail: 401 or 403, 404 or 405, another answer below 500, or
\* twice an answer from 500, no connection or no JSON.
Forbidden == "forbidden"
Absent == "absent"
Refused == "refused"
Down == "down"
Failures == {Forbidden, Absent, Refused, Down}

Answer(is, items) == [is |-> is, items |-> items]

\* An answer may leave out how many goods there are.
NoTotal == -1

\* The page with a number of a list; a server may overlook the number.
PageOf(list, page, counts) ==
    LET first == IF counts THEN (page - 1) * PageSize ELSE 0
    IN  SubSeq(list, first + 1,
               IF first + PageSize < Len(list) THEN first + PageSize
               ELSE Len(list))

-----------------------------------------------------------------------------
(* One endpoint, page by page, in batches. *)

Batch(page) ==
    page .. (IF page + BatchSize <= MaxPages + 1 THEN page + BatchSize - 1
             ELSE MaxPages)

\* What the loop over pages has so far: the goods, the pages seen, whether it
\* stops, and the failure it raises.  `torn` tells that a page failed and
\* `again` that a page came twice.
NoPages == [goods |-> <<>>, seen |-> {}, stop |-> FALSE, raised |-> "none",
            torn |-> FALSE, again |-> FALSE]

Ids(items) == [i \in DOMAIN items |-> items[i].id]

WithItem(list, item) ==
    IF item.id = 0 \/ item.id \in ToSet(Ids(list)) THEN list
    ELSE Append(list, item)

TakeFailure(pages, is) ==
    IF pages.goods # <<>> THEN [pages EXCEPT !.stop = TRUE, !.torn = TRUE]
    ELSE [pages EXCEPT !.raised = is]

\* The mistake of taking a page of ShortPage items for the last.
TakeItemsUpTo(pages, items, total) ==
    [pages EXCEPT !.goods = FoldLeft(WithItem, @, items),
                  !.stop = Len(items) <= ShortPage]

TakeItems(pages, items, total) ==
    LET goods == FoldLeft(WithItem, pages.goods, items)
    IN  IF items = <<>> \/ Ids(items) \in pages.seen
        THEN [pages EXCEPT !.stop = TRUE,
                           !.again = @ \/ items # <<>>]
        ELSE [pages EXCEPT !.goods = goods,
                           !.seen = @ \cup {Ids(items)},
                           !.stop = \/ Len(items) < ShortPage
                                    \/ total # NoTotal /\ Len(goods) >= total]

TakePage(pages, answer, total) ==
    IF pages.stop \/ pages.raised # "none" THEN pages
    ELSE IF answer.is = "page" THEN TakeItems(pages, answer.items, total)
    ELSE TakeFailure(pages, answer.is)

\* The answers of a batch, in the order of their pages.
TakeBatch(pages, answers, total) ==
    FoldLeft(LAMBDA got, answer : TakePage(got, answer, total), pages, answers)

-----------------------------------------------------------------------------
(* What an employee is told of a list. *)

Before(a, b) == a.group < b.group \/ (a.group = b.group /\ a.id < b.id)

\* Goods in stock that are no certificates, sorted, equal ones as they come.
VisibleProducts(list) ==
    LET InStock(i) == list[i].stock > 0 /\ ~ list[i].certificate
        some == Picked(list, {i \in DOMAIN list : InStock(i)})
        sorted == {p \in (DOMAIN some) \X (DOMAIN some) :
                      LET a == some[p[1]]
                          b == some[p[2]]
                      IN  Before(a, b) \/ (~ Before(b, a) /\ p[1] < p[2])}
        at == InOrder(DOMAIN some, sorted)
    IN  [n \in DOMAIN at |-> some[at[n]]]

\* Parts of at most PartSize goods.
ProductRichChunks(list) ==
    LET Take(parts, good) ==
            IF parts = <<>> \/ Len(Last(parts)) >= PartSize
            THEN Append(parts, <<good>>)
            ELSE Append(Front(parts), Append(Last(parts), good))
    IN  FoldLeft(Take, <<>>, list)

\* The lines a good takes at the end of a part: its own, a heading when its
\* group is another than that of the good before, and a blank before that.
LinesOf(good, part) ==
    IF part = <<>> THEN good.lines + 1
    ELSE IF good.group # Last(part).group THEN good.lines + 2
    ELSE good.lines

PartLength(part) ==
    FoldLeft(LAMBDA told, good : <<told[1] + LinesOf(good, told[2]),
                                   Append(told[2], good)>>,
             <<0, <<>>>>, part)[1]

ProductCatalogChunks(list) ==
    LET Take(parts, good) ==
            IF parts = <<>> THEN <<<<good>>>>
            ELSE IF PartLength(Append(Last(parts), good)) > PartLines
            THEN Append(parts, <<good>>)
            ELSE Append(Front(parts), Append(Last(parts), good))
    IN  FoldLeft(Take, <<>>, list)

\* A message for each part, and one that there is nothing.
MessagesOf(chunks) == IF chunks = <<>> THEN <<<<>>>> ELSE chunks
=============================================================================
