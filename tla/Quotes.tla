------------------------------- MODULE Quotes -------------------------------
(***************************************************************************)
(* The money of a request: prices, choices and markups edited in the tab,  *)
(* the KPs formed of them, what the client approves of a KP, and the final *)
(* KP. The quote is the request as stored: forming a KP first saves what   *)
(* the tab has, and the server computes all of it again from its rows.     *)
(***************************************************************************)
EXTENDS SalePrices

CONSTANTS
    FirstQuotes,      \* what the behaviours start from: [quote, kps]
    CellPrices,       \* what is typed into cells of prices, kopecks
    CellQtys,         \* what is typed into cells of quantities, thousandths
    CellRates,        \* rates a block can be given, or Nil
    Percents,         \* markups and discounts
    SupplierPercents, \* markups of suppliers; negative, a rebate
    MaxChanges,       \* bound on the edits
    MaxFormed         \* bound on the KPs formed

Opt(S) == {Nil} \cup S

LineRule ==
    [method : Opt(Methods \cup {"manual"}), value : Opt(Nat), net : Opt(Int), gross : Opt(Int)]
QuoteLine ==
    [named : BOOLEAN, qty : Nat, sel : Opt(Blocks), rule : LineRule,
     approved : BOOLEAN, approvedQty : Opt(Nat)]
QuoteOffer ==
    [foreign : BOOLEAN, price : Opt(Price), rrp : Opt(Price), qty : Opt(Nat), multiple : Nat,
     exact : BOOLEAN, out : BOOLEAN, gone : BOOLEAN]
\* (The server takes -100 as well, which makes every price nothing.)
SupplierMarkup == {v \in Int : v > -100}
QuoteWith(Offered) ==
    [fopGross : BOOLEAN, percentOff : BOOLEAN, rate : Opt(Rate), base : Opt(Nat), mode : Modes,
     markup : [method : Methods, value : Nat, whole : BOOLEAN, skipGone : BOOLEAN],
     lines : [Lines -> QuoteLine],
     blocks : [Blocks -> [rate : Opt(Rate), markup : SupplierMarkup]],
     offers : Offered]
Quote == QuoteWith(UNION {[D -> QuoteOffer] : D \in SUBSET (Lines \X Blocks)})

KpRow == [price : Int, qty : Nat, sum : Int]
KpWith(Tables) == [final : BOOLEAN, mode : Modes, rows : Tables]
KpTables == UNION {[D -> KpRow] : D \in SUBSET Lines}
Kp == KpWith(KpTables)

\* The KPs have versions; the one that is chosen as the base is not a final one.
Versions(q, versions) ==
    /\ DOMAIN versions \subseteq Nat \ {0} /\ IsFiniteSet(DOMAIN versions)
    /\ q.base # Nil => q.base \in DOMAIN versions /\ ~versions[q.base].final
IsKps(q, versions) == versions \in [DOMAIN versions -> Kp] /\ Versions(q, versions)

\* A quote of these types and its KPs (in a form that TLC evaluates).
IsFirst(q, versions) ==
    /\ DOMAIN q.offers \subseteq Lines \X Blocks
    /\ q \in QuoteWith([DOMAIN q.offers -> QuoteOffer])
    /\ versions = [v \in DOMAIN versions |-> versions[v]] /\ Versions(q, versions)
    /\ \A kp \in {versions[v] : v \in DOMAIN versions} :
          DOMAIN kp.rows \subseteq Lines /\ kp \in KpWith([DOMAIN kp.rows -> KpRow])

ASSUME QuotesAssumption ==
    /\ \A first \in FirstQuotes : IsFirst(first.quote, first.kps)
    /\ CellPrices \cup CellQtys \cup Percents \subseteq Nat
    /\ CellRates \subseteq Opt(Rate) /\ SupplierPercents \subseteq SupplierMarkup

VARIABLES
    quote,      \* what the request says of prices, see OfferPrices
    kps,        \* the KPs by version: [final, mode, rows]
    changes, formed   \* how many edits and KPs so far, for the bounds

quoteVars == <<quote, kps, changes, formed>>

QuotesInit ==
    /\ \E first \in FirstQuotes : quote = first.quote /\ kps = first.kps
    /\ changes = 0 /\ formed = 0

\* An edit that makes q of the quote.
Change(q) ==
    /\ changes < MaxChanges /\ changes' = changes + 1
    /\ q # quote /\ quote' = q
    /\ UNCHANGED <<kps, formed>>

-----------------------------------------------------------------------------
(* Cells of offers *)

Cell(q, o, withVat) ==
    LET f == Figure(q, o[1], o[2]) IN IF withVat THEN f.gross ELSE f.net

\* setOfferPriceFromInput. What differs from the price shown by less than half
\* a kopeck is no change; just half a kopeck can be either, in doubles.
TypePrice(o, typed, withVat) ==
    LET f == Figure(quote, o[1], o[2])
        rate == RateOf(quote, o[1], o[2])
        unit == NormalizedPrice(Kop(typed), withVat, Vat)
    IN  /\ typed > 0 /\ rate # Nil
        /\ f.priced => 2 * unit[1] >= (2 * f.net + 1) * unit[2] \/ 2 * unit[1] <= (2 * f.net - 1) * unit[2]
        /\ Change([quote EXCEPT !.offers[o].price =
                      PriceFromCell(typed, withVat, Vat, rate, quote.blocks[o[2]].markup)])

\* setOfferRrpFromInput: with VAT, and without the supplier's markup.
TypeRrp(o, typed) ==
    LET rate == RateOf(quote, o[1], o[2])
    IN  /\ typed > 0 /\ rate # Nil /\ Figure(quote, o[1], o[2]).rrp # typed
        /\ Change([quote EXCEPT !.offers[o].rrp = Round6(Over(Kop(typed), rate))])

\* offerMultiplicity: what is not to be rounded is still sold whole.
Whole == 1000
RoundedTo(o) == IF quote.offers[o].exact THEN Whole ELSE quote.offers[o].multiple
NilIf(qty, lineQty) == IF qty = lineQty THEN Nil ELSE qty

\* setOfferQtyFromInput: an offer without a quantity has the line's.
TypeOfferQty(o, typed) ==
    Change([quote EXCEPT !.offers[o].qty =
               IF typed = Nil THEN Nil
               ELSE NilIf(Suggested(typed, RoundedTo(o)), quote.lines[o[1]].qty)])

\* updateLines, initialOfferQty: the offers that follow the line follow it on.
Following(o, qty) == NilIf(Suggested(qty, RoundedTo(o)), qty)
TypeLineQty(l, qty) ==
  /\ qty # quote.lines[l].qty
  /\ Change([quote EXCEPT
        !.lines[l].qty = qty,
        !.offers = [o \in Offers(quote) |->
            IF o[1] = l /\ quote.offers[o].qty \in {Nil, Following(o, quote.lines[l].qty)}
            THEN [quote.offers[o] EXCEPT !.qty = Following(o, qty)] ELSE quote.offers[o]]])

\* toggleExclude: an offer that is excluded is no longer chosen.
ToggleExcluded(o) ==
    Change([quote EXCEPT
        !.offers[o].out = ~@,
        !.lines[o[1]].sel = IF ~quote.offers[o].out /\ @ = o[2] THEN Nil ELSE @])

\* setBlockRates, setBlockMarkup
TypeRate(b, rate) == Change([quote EXCEPT !.blocks[b].rate = rate])
TypeBlockMarkup(b, v) == Change([quote EXCEPT !.blocks[b].markup = v])

-----------------------------------------------------------------------------
(* Choices *)

\* togglePick: chosen again, an offer is chosen no more.
TogglePick(l, b) ==
    /\ b \in Compared(quote, Figures(quote), l)
    /\ Change([quote EXCEPT !.lines[l].sel = IF @ = b THEN Nil ELSE b])

Choosing(pick) ==
    Change([quote EXCEPT !.lines = [l \in Lines |->
        IF l \in DOMAIN pick THEN [@[l] EXCEPT !.sel = pick[l]] ELSE @[l]]])

AcceptAllRecommendations ==
    LET f == Figures(quote)
    IN  Choosing([l \in {x \in DOMAIN Mix(quote, f) : FollowsPrices(quote, f, x)} |->
                     Mix(quote, f)[l]])

SelectAllInBlock(b) ==
    LET f == Figures(quote)
    IN  Choosing([l \in {x \in Lines : b \in Compared(quote, f, x)} |-> b])

-----------------------------------------------------------------------------
(* Markup and the kind of prices *)

Rule(method, v, net, gross) == [method |-> method, value |-> v, net |-> net, gross |-> gross]
NoRule == Rule(Nil, Nil, Nil, Nil)

\* setLineMarkup
SetRule(l, rule) == Change([quote EXCEPT !.lines[l].rule = rule])

\* A sale price typed without or with VAT; none: as the request has it.
TypeSale(l, net, gross) ==
    SetRule(l, IF net = Nil /\ gross = Nil THEN NoRule ELSE Rule("manual", Nil, net, gross))

\* A method chosen for the line; by hand, the price is the one it has now.
ChooseMethod(l, method) ==
    SetRule(l, CASE method = "rrp" -> Rule(method, Nil, Nil, Nil)
                 [] method = "manual" ->
                      LET f == Figures(quote)
                      IN  Rule(method, Nil,
                               Else(Row(quote, f, l).net, f[<<l, Effective(quote, f, l)>>].net), Nil)
                 [] OTHER ->
                      Rule(method, Else(quote.lines[l].rule.value, quote.markup.value), Nil, Nil))

\* isPctMethod, markupValueMax
Percentage(method, v) ==
    /\ method \in {"markup", "discount"}
    /\ method = "discount" => v <= 99

\* A percentage typed for the line, with the method in force; none: the request's.
MethodOf(l) == Else(quote.lines[l].rule.method, quote.markup.method)
TypePercent(l, v) == Percentage(MethodOf(l), v) /\ SetRule(l, Rule(MethodOf(l), v, Nil, Nil))
ClearPercent(l) ==
    /\ MethodOf(l) \in {"markup", "discount"}
    /\ SetRule(l, [quote.lines[l].rule EXCEPT !.value = Nil])

\* markupFillPatch: the rule of a line for another; not a price typed by hand.
FillFrom(l, other) ==
    LET rule == quote.lines[other].rule
    IN  /\ rule.method # "manual"
        /\ SetRule(l, IF rule.method = Nil THEN NoRule ELSE rule)

\* setMarkupDefaults, and the formula of the discount.
SetMethod(method) == Change([quote EXCEPT !.markup.method = method])
SetPercent(v) ==
    Percentage(quote.markup.method, v) /\ Change([quote EXCEPT !.markup.value = v])
SetFormula(ofPercent) ==
    /\ quote.markup.method = "discount"
    /\ Change([quote EXCEPT !.percentOff = ofPercent])

\* resetLineMarkups
ResetLineMarkups ==
    Change([quote EXCEPT !.lines = [l \in Lines |-> [@[l] EXCEPT !.rule = NoRule]]])

SetMode(mode) == Change([quote EXCEPT !.mode = mode])

-----------------------------------------------------------------------------
(* What the client approves *)

Regular == {v \in DOMAIN kps : ~kps[v].final}

\* approvalBaseKp: the one that was chosen, or else the latest that is not final.
Base ==
    IF quote.base \in Regular THEN quote.base
    ELSE IF Regular = {} THEN Nil ELSE Max(Regular)

BaseRows == IF Base = Nil THEN <<>> ELSE kps[Base].rows

\* setApproval from the box of a row: with the quantity of the KP.
Tick(l) ==
    /\ l \in DOMAIN BaseRows
    /\ Change([quote EXCEPT
           !.lines[l].approved = ~@,
           !.lines[l].approvedQty = IF quote.lines[l].approved THEN Nil ELSE BaseRows[l].qty])

\* commitQty: rounded to what the offer bought now is sold at.
TypeApprovedQty(l, typed) ==
    /\ l \in DOMAIN BaseRows /\ quote.lines[l].approved
    /\ LET b == Effective(quote, Figures(quote), l)
           wanted == IF typed > 0 THEN typed ELSE BaseRows[l].qty
       IN  Change([quote EXCEPT !.lines[l].approvedQty =
                       Suggested(wanted, IF b = Nil THEN Whole ELSE RoundedTo(<<l, b>>))])

\* setApprovals: all the rows; what was approved keeps its quantity.
ApproveAll(yes) ==
    Change([quote EXCEPT !.lines = [l \in Lines |->
        IF l \notin DOMAIN BaseRows THEN @[l]
        ELSE [@[l] EXCEPT
                !.approved = yes,
                !.approvedQty = IF yes THEN Else(quote.lines[l].approvedQty, BaseRows[l].qty) ELSE Nil]]])

\* The latest is remembered as no choice.
ChooseBase(v) ==
    /\ v \in Regular
    /\ Change([quote EXCEPT !.base = IF v = Max(Regular) THEN Nil ELSE v])

-----------------------------------------------------------------------------
(* KPs *)

NextVersion == IF DOMAIN kps = {} THEN 1 ELSE 1 + Max(DOMAIN kps)

AddKp(kp) ==
    /\ formed < MaxFormed /\ formed' = formed + 1
    /\ kps' = [v \in DOMAIN kps \cup {NextVersion} |-> IF v = NextVersion THEN kp ELSE kps[v]]
    /\ UNCHANGED <<quote, changes>>

\* createKp, buildKpVersion
FormKp ==
    LET f == Figures(quote)
    IN  /\ KpAllowed(quote, f)
        /\ AddKp([final |-> FALSE, mode |-> quote.mode, rows |-> KpRows(quote, f, quote.mode)])

\* Of the base, in the kind of prices of the base.
FormFinal ==
    LET rows == ApprovedRows(quote, BaseRows)
    IN  rows # <<>> /\ AddKp([final |-> TRUE, mode |-> kps[Base].mode, rows |-> rows])

\* deleteKp: not the base of what is approved; a choice of it is forgotten.
\* Mutant: only a base that was chosen is kept.
DeleteUnlessChosen(v) ==
    /\ v \in DOMAIN kps
    /\ v = quote.base => \A l \in Lines : ~quote.lines[l].approved
    /\ kps' = [w \in DOMAIN kps \ {v} |-> kps[w]]
    /\ quote' = [quote EXCEPT !.base = IF @ = v THEN Nil ELSE @]
    /\ UNCHANGED <<changes, formed>>
DeleteKp(v) ==
    /\ v \in DOMAIN kps
    /\ v = Base => \A l \in Lines : ~quote.lines[l].approved
    /\ kps' = [w \in DOMAIN kps \ {v} |-> kps[w]]
    /\ quote' = [quote EXCEPT !.base = IF @ = v THEN Nil ELSE @]
    /\ UNCHANGED <<changes, formed>>

-----------------------------------------------------------------------------

EditOffer ==
    \/ \E o \in Offers(quote), p \in CellPrices :
          TypeRrp(o, p) \/ \E withVat \in BOOLEAN : TypePrice(o, p, withVat)
    \/ \E o \in Offers(quote), n \in CellQtys \cup {Nil} : TypeOfferQty(o, n)
    \/ \E o \in Offers(quote) : ToggleExcluded(o)

EditPurchase ==
    \/ \E l \in Lines, n \in CellQtys : TypeLineQty(l, n)
    \/ \E b \in Blocks, r \in CellRates : TypeRate(b, r)
    \/ \E b \in Blocks, v \in SupplierPercents : TypeBlockMarkup(b, v)
    \/ \E l \in Lines, b \in Blocks : TogglePick(l, b)
    \/ AcceptAllRecommendations \/ \E b \in Blocks : SelectAllInBlock(b)

\* A line that nothing is bought for has no rule to set.
EditSale ==
    \/ \E l \in DOMAIN Current(quote, Figures(quote)) :
          \/ \E p \in CellPrices \cup {Nil} : TypeSale(l, p, Nil) \/ TypeSale(l, Nil, p)
          \/ \E m \in Methods \cup {"manual"} : ChooseMethod(l, m)
          \/ ClearPercent(l) \/ \E v \in Percents : TypePercent(l, v)
          \/ \E other \in Lines : FillFrom(l, other)
    \/ \E m \in Methods : SetMethod(m)
    \/ \E v \in Percents : SetPercent(v)
    \/ \E ofPercent \in BOOLEAN : SetFormula(ofPercent)
    \/ ResetLineMarkups \/ \E m \in Modes : SetMode(m)

EditApproval ==
    \/ \E l \in Lines : Tick(l) \/ \E n \in CellQtys : TypeApprovedQty(l, n)
    \/ \E yes \in BOOLEAN : ApproveAll(yes)
    \/ \E v \in DOMAIN kps : ChooseBase(v)

\* Everything has been edited that the bound allows.
QuotesDone == changes = MaxChanges /\ UNCHANGED quoteVars

QuotesNext ==
    \/ EditOffer \/ EditPurchase \/ EditSale \/ EditApproval
    \/ FormKp \/ FormFinal \/ \E v \in DOMAIN kps : DeleteKp(v)
    \/ QuotesDone

QuotesSpec == QuotesInit /\ [][QuotesNext]_quoteVars

-----------------------------------------------------------------------------
\* The figures of the tabs are computed from one another in different ways, and
\* agree: what the suppliers come to makes up what is bought; what is earned
\* with each makes up what is earned, and that is what a KP of the same kind of
\* prices asks above the cost; and the block that is marked as the cheapest asks
\* on no line for more than another that is compared with it.
FiguresAgree ==
    LET f == Figures(quote)
        sale == SaleTotals(quote, f)
        best == CheapestBlock(quote, f)
    IN  /\ SumOver(Blocks, LAMBDA b : BoughtNet(quote, f, b)) = NetOf(f, Current(quote, f))
        /\ SumOver(Blocks, LAMBDA b : BoughtGross(quote, f, b)) = GrossOf(f, Current(quote, f))
        /\ SumOver(Blocks, LAMBDA b : ProfitFrom(quote, f, b)) = ProfitNet(quote, f)
        /\ quote.mode = "without_vat" => ProfitNet(quote, f) = sale.net - CostNet(quote, f)
        /\ sale.net + sale.vat = sale.gross
        /\ \A b \in Blocks :
              Covered(quote, f, b) = Bought(quote, f, b) =>
                  ProfitIfAllFrom(quote, f, b) = ProfitFrom(quote, f, b)
        /\ best # Nil => \A l \in InDelta(quote, f, best) : \A b \in Compared(quote, f, l) :
                            f[<<l, best>>].sumNet <= f[<<l, b>>].sumNet

\* A price typed into a cell, with or without VAT, is what the cell then shows:
\* through the currency of the price list, the rate and the supplier's markup,
\* and the rounding of each.
PricesShown ==
    [][\A o \in Offers(quote), p \in CellPrices, withVat \in BOOLEAN :
          quote'.offers[o].price # quote.offers[o].price /\ TypePrice(o, p, withVat) =>
              Cell(quote', o, withVat) = p]_quoteVars

Payable(kp) == KpTotals(RowsSum(kp.rows), kp.mode).gross

\* A KP for the client has every line that was picked, each at a price above
\* zero, and no line without a quantity but one whose offer was given none by
\* hand; whatever was typed, rounded, excluded or chosen before.
KpsComplete ==
    [][\A v \in DOMAIN kps' \ DOMAIN kps :
          ~kps'[v].final =>
              LET f == Figures(quote)
                  picked == DOMAIN Current(quote, f)
              IN  /\ DOMAIN kps'[v].rows = picked
                  /\ \A l \in picked :
                        /\ kps'[v].rows[l].price > 0
                        /\ kps'[v].rows[l].qty > 0 \/ quote.offers[<<l, Effective(quote, f, l)>>].qty = 0
      ]_quoteVars

ApprovedSum ==
    LET rows == ApprovedRows(quote, BaseRows)
    IN  IF rows = <<>> THEN Nil ELSE Payable([mode |-> kps[Base].mode, rows |-> rows])

Approvals(q) == <<[l \in Lines |-> <<q.lines[l].approved, q.lines[l].approvedQty>>], q.base>>

\* What the client approved is at the prices of the KP it was approved in: only
\* approvals and the choice of that KP change the sum, or a new KP when none was
\* chosen. Edits and the deletion of KPs never do, and a final KP comes to
\* exactly that sum.
ApprovedSumStands ==
    [][/\ \/ ApprovedSum' = ApprovedSum
          \/ kps' = kps /\ Approvals(quote') # Approvals(quote)
          \/ quote.base = Nil /\ NextVersion \in DOMAIN kps'
       /\ \A v \in DOMAIN kps' \ DOMAIN kps : kps'[v].final => Payable(kps'[v]) = ApprovedSum
      ]_quoteVars

=============================================================================
