---------------------------- MODULE DocumentEdits ----------------------------
(***************************************************************************)
(* What each edit of the page makes of the document it is applied to. An   *)
(* edit that has nothing to do gives the document itself.                  *)
(***************************************************************************)
EXTENDS DocumentPatch

-----------------------------------------------------------------------------
(* Quantities: an offer without one follows its line *)

\* The quantity an offer starts with: rounded up to what is sold at once.
InitialQty(qty, multiple, autoRound) ==
    IF ~autoRound \/ qty % multiple = 0 THEN Null
    ELSE multiple * (qty \div multiple + 1)

MultipleOf(offer) == IF offer.exact THEN 1 ELSE Multiple[offer.product]

\* What the offer's quantity was or will be for a line of `qty`, left to itself.
AutoQty(offer, qty, autoRound) == InitialQty(qty, MultipleOf(offer), autoRound)

\* A quantity nobody typed in is the line's, rounded up to what is sold at once.
QtysFollow(d, autoRound) ==
    \A o \in DOMAIN d.offers :
        d.offers[o].hand \/
            d.offers[o].qty = AutoQty(d.offers[o], d.lines[d.offers[o].line].qty, autoRound)

-----------------------------------------------------------------------------
(* Lines. A key is a place between the places doubled. *)

Spaced(list) == [x \in DOMAIN list |-> [list[x] EXCEPT !.pos = 2 * @]]

Last(list) == 2 * Cardinality(DOMAIN list) + 1
After(list, x) == 2 * list[x].pos + 1
Before(list, x) == 2 * list[x].pos - 1

\* addLines: one new line, at a key or instead of all the others.
NewLine(key, qty) == [pos |-> key, qty |-> qty, sel |-> Null, rest |-> 0]
AddLine(d, l, key, qty) ==
    [d EXCEPT !.lines = Renumbered(Upserted(Spaced(@), One(l, NewLine(key, qty))))]
ReplaceLines(d, l, qty) ==
    [d EXCEPT !.lines = One(l, NewLine(1, qty)), !.offers = Restrict(@, {})]

OffersOfLines(d, lines) == {o \in DOMAIN d.offers : d.offers[o].line \in lines}
OffersOfBlock(d, b) == {o \in DOMAIN d.offers : d.offers[o].block = b}

RemoveLines(d, gone) ==
    [d EXCEPT !.lines = Renumbered(Without(@, gone)),
              !.offers = Without(@, OffersOfLines(d, gone))]

\* moveItem: taken out and put in again, as number `to` counted from 0.
Moved(list, x, to) ==
    LET key == IF to < list[x].pos - 1 THEN 2 * to + 1 ELSE 2 * to + 3
    IN  Renumbered([Spaced(list) EXCEPT ![x].pos = key])
MoveLine(d, l, to) == IF to = d.lines[l].pos - 1 THEN d ELSE [d EXCEPT !.lines = Moved(@, l, to)]
MoveBlock(d, b, to) == IF to = d.blocks[b].pos - 1 THEN d ELSE [d EXCEPT !.blocks = Moved(@, b, to)]

\* updateLines: quantities that followed the line follow it on, others stay.
\* Mutant: only quantities that were not rounded follow.
SetLineQtyNew(d, l, qty, autoRound) ==
    [d EXCEPT !.lines[l].qty = qty,
              !.offers = [o \in DOMAIN d.offers |->
                  IF d.offers[o].line = l /\ d.offers[o].qty = Null
                  THEN [d.offers[o] EXCEPT !.qty = AutoQty(d.offers[o], qty, autoRound)]
                  ELSE d.offers[o]]]
SetLineQty(d, l, qty, autoRound) ==
    IF qty = d.lines[l].qty THEN d
    ELSE [d EXCEPT !.lines[l].qty = qty,
                   !.offers = [o \in DOMAIN d.offers |->
                       IF /\ d.offers[o].line = l
                          /\ d.offers[o].qty \in
                                {Null, AutoQty(d.offers[o], d.lines[l].qty, autoRound)}
                       THEN [d.offers[o] EXCEPT !.qty = AutoQty(d.offers[o], qty, autoRound)]
                       ELSE d.offers[o]]]

\* Names, notes, markup, approval.
TouchLine(d, l) == [d EXCEPT !.lines[l].rest = 1 - @]

-----------------------------------------------------------------------------
(* Blocks *)

BlocksOf(d, s) == {b \in DOMAIN d.blocks : d.blocks[b].supplier = s}

\* ensureBlockDraft: the supplier's block, a new one at the end if it has none.
EnsureBlock(d, b, s) ==
    IF BlocksOf(d, s) # {} THEN d
    ELSE [d EXCEPT !.blocks = Upserted(@, One(b,
             [pos |-> Cardinality(DOMAIN @) + 1, supplier |-> s, rest |-> 0]))]

\* A line gives up a choice whose offer goes.
Unchosen(d, gone) ==
    [l \in DOMAIN d.lines |->
        IF \E o \in gone : d.offers[o].line = l /\ d.offers[o].block = d.lines[l].sel
        THEN [d.lines[l] EXCEPT !.sel = Null] ELSE d.lines[l]]

\* removeOffersDraft
RemoveOffers(d, gone) == [d EXCEPT !.offers = Without(@, gone), !.lines = Unchosen(d, gone)]

RemoveBlock(d, b) ==
    LET left == RemoveOffers(d, OffersOfBlock(d, b))
    IN  [left EXCEPT
            !.blocks = Renumbered(Without(@, {b})),
            !.lines = [l \in DOMAIN d.lines |->
                IF left.lines[l].sel = b THEN [left.lines[l] EXCEPT !.sel = Null]
                ELSE left.lines[l]]]

\* Rates, the supplier's markup; also from the supplier's card.
TouchBlock(d, b) == [d EXCEPT !.blocks[b].rest = 1 - @]

-----------------------------------------------------------------------------
(* Offers *)

OffersAt(d, l, b) == {o \in DOMAIN d.offers : d.offers[o].line = l /\ d.offers[o].block = b}

NewOffer(d, l, b, product, autoRound) ==
    [line |-> l, block |-> b, product |-> product,
     qty |-> InitialQty(d.lines[l].qty, Multiple[product], autoRound),
     exact |-> FALSE, out |-> FALSE, rest |-> 0, hand |-> FALSE]

\* What the search in the supplier's price list can find for a block.
ProductsOf(d, b) == {p \in Products : SupplierOf[p] = d.blocks[b].supplier}

\* The id of the offer that was there, or the new one of this edit for the line.
OfferId(d, l, b, edit) ==
    IF OffersAt(d, l, b) = {} THEN <<edit, l>> ELSE CHOOSE o \in OffersAt(d, l, b) : TRUE

\* Mutant: whether the block is still there is not looked at.
UpsertOffersBlindly(d, b, pick, edit, autoRound) ==
    LET lines == DOMAIN pick \cap DOMAIN d.lines
    IN  [d EXCEPT !.offers = Upserted(@,
            [o \in {OfferId(d, l, b, edit) : l \in lines} |->
                LET l == CHOOSE x \in lines : OfferId(d, x, b, edit) = o
                IN  NewOffer(d, l, b, pick[l], autoRound)])]

\* upsertOfferDraft, for the lines in DOMAIN pick: each gets the product pick[l]
\* from block b, in place of the offer there is. Without line or block, nothing.
UpsertOffers(d, b, pick, edit, autoRound) ==
    LET lines == DOMAIN pick \cap DOMAIN d.lines
    IN  IF b \notin DOMAIN d.blocks THEN d
        ELSE [d EXCEPT !.offers = Upserted(@,
                [o \in {OfferId(d, l, b, edit) : l \in lines} |->
                    LET l == CHOOSE x \in lines : OfferId(d, x, b, edit) = o
                    IN  NewOffer(d, l, b, pick[l], autoRound)])]

\* addProductsToLine, createProductAndOffer: into the block of its supplier.
AddProduct(d, l, product, edit, autoRound) ==
    LET s == SupplierOf[product]
        with == EnsureBlock(d, edit, s)
    IN  UpsertOffers(with, CHOOSE b \in BlocksOf(with, s) : TRUE, One(l, product), edit, autoRound)

SetOfferQty(d, o, qty) ==
    IF qty = d.offers[o].qty THEN d
    ELSE [d EXCEPT !.offers[o].qty = qty, !.offers[o].hand = TRUE]

\* setOfferNoRounding
SetExact(d, o, exact, autoRound) ==
    LET next == [d.offers[o] EXCEPT !.exact = exact, !.hand = FALSE]
    IN  [d EXCEPT !.offers[o] =
            [next EXCEPT !.qty = AutoQty(next, d.lines[next.line].qty, autoRound)]]

\* Retail price, purchase price, price from the catalogue.
TouchOffer(d, o) == [d EXCEPT !.offers[o].rest = 1 - @]

ToggleExclude(d, o) ==
    [d EXCEPT !.offers[o].out = ~@,
              !.lines = IF d.offers[o].out THEN @ ELSE Unchosen(d, {o})]

\* selectOffer
Select(d, l, b) ==
    IF b # Null /\ ~\E o \in OffersAt(d, l, b) : ~d.offers[o].out THEN d
    ELSE [d EXCEPT !.lines[l].sel = b]

\* acceptAllRecommendations, selectAllInBlock: lines take a block that has an
\* offer for them which is not excluded (prices and stock decide which).
Candidates(d, l) == {d.offers[o].block : o \in {x \in DOMAIN d.offers :
                        d.offers[x].line = l /\ ~d.offers[x].out}}
SelectAll(d, pick) ==
    [d EXCEPT !.lines = [l \in DOMAIN d.lines |->
        IF l \in DOMAIN pick THEN [d.lines[l] EXCEPT !.sel = pick[l]] ELSE d.lines[l]]]

SetHeader(d, header) == [d EXCEPT !.header = header]

=============================================================================
