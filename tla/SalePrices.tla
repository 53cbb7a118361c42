----------------------------- MODULE SalePrices -----------------------------
(***************************************************************************)
(* The sale: what a line is sold at, what a KP of it says, and what is     *)
(* earned with it.                                                         *)
(***************************************************************************)
EXTENDS OfferPrices

Modes == {"without_vat", "with_vat", "no_vat"}
Methods == {"markup", "rrp", "discount"}

-----------------------------------------------------------------------------
(* The sale price of one piece (computeSalePrice) *)

Unpriced == [net |-> Nil, gross |-> Nil]

\* roundSale: to kopecks, or to whole hryvnias.
RoundSale(q, p) == IF q.markup.whole THEN 100 * RoundDiv(p[1], 100 * p[2]) ELSE Round2(p)

FromGross(q, p) ==
    LET gross == RoundSale(q, p) IN [gross |-> gross, net |-> Round2(Over(Kop(gross), Plus(Vat)))]
FromNet(q, p) ==
    LET net == RoundSale(q, p) IN [net |-> net, gross |-> Round2(Times(Kop(net), Plus(Vat)))]

\* What a method makes of the price bought at, or of the recommended one.
ByMethod(q, method, v, net, rrp) ==
    CASE method = "manual" -> Unpriced
      [] method = "markup" -> FromNet(q, Times(Kop(net), Plus(v)))
      [] method \in {"rrp", "discount"} ->
            IF rrp = Nil THEN Unpriced
            ELSE FromGross(q, IF method = "rrp" THEN Kop(rrp)
                              ELSE IF q.percentOff THEN Times(Kop(rrp), Plus(-v))
                              ELSE Over(Kop(rrp), Plus(v)))

\* resolveMarkupRule: the line's own rule before that of the request; a price
\* typed without VAT before one typed with it, and both before a method.
SalePrice(q, l, net, rrp) ==
    LET own == q.lines[l].rule
    IN  IF own.net # Nil THEN FromNet(q, Kop(own.net))
        ELSE IF own.gross # Nil THEN FromGross(q, Kop(own.gross))
        ELSE ByMethod(q, Else(own.method, q.markup.method),
                      Else(own.value, q.markup.value), net, rrp)

-----------------------------------------------------------------------------
(* A line at its sale price (computeMarkupRow) *)

\* What l is sold for when it is bought from b.
RowFrom(q, f, l, b) ==
    LET o == f[<<l, b>>]
        sale == SalePrice(q, l, o.net, o.rrp)
    IN  [block |-> b, qty |-> o.qty, net |-> sale.net, gross |-> sale.gross,
         costNet |-> o.sumNet, costGross |-> o.sumGross]

\* Without an offer a line is not sold, whatever price was typed for it.
Row(q, f, l) ==
    IF Effective(q, f, l) # Nil THEN RowFrom(q, f, l, Effective(q, f, l))
    ELSE [block |-> Nil, qty |-> q.lines[l].qty, net |-> Nil, gross |-> Nil,
          costNet |-> Nil, costGross |-> Nil]

Sold(q, f) == {l \in Active(q) : Row(q, f, l).net # Nil}

-----------------------------------------------------------------------------
(* A KP *)

\* kpRowAmounts: which of the two prices a KP shows.
ShowsGross(q, mode) == mode = "with_vat" \/ (mode = "no_vat" /\ q.fopGross)

\* computeKpTotals: the VAT is that of the total.
KpTotals(total, mode) ==
    CASE mode = "without_vat" ->
           LET vat == RoundDiv(total * Vat, 100)
           IN  [net |-> total, vat |-> vat, gross |-> total + vat]
      [] mode = "with_vat" ->
           LET vat == RoundDiv(total * Vat, 100 + Vat)
           IN  [net |-> total - vat, vat |-> vat, gross |-> total]
      [] mode = "no_vat" -> [net |-> total, vat |-> 0, gross |-> total]

\* buildKpRows
KpRows(q, f, mode) ==
    [l \in Sold(q, f) |->
        LET r == Row(q, f, l)
            price == IF ShowsGross(q, mode) THEN r.gross ELSE r.net
        IN  [price |-> price, qty |-> r.qty, sum |-> PerQty(price, r.qty)]]

RowsSum(rows) == SumOver(DOMAIN rows, LAMBDA l : rows[l].sum)

\* kpChecks, kpBlockReason: a line that was picked needs a quantity and a price.
\* Mutant: any price will do.
KpAllowedAnyPrice(q, f) ==
    /\ Sold(q, f) # {}
    /\ \A l \in Active(q) : Effective(q, f, l) # Nil => q.lines[l].qty > 0 /\ l \in Sold(q, f)
KpAllowed(q, f) ==
    /\ \E l \in Sold(q, f) : Row(q, f, l).net > 0
    /\ \A l \in Active(q) : Effective(q, f, l) # Nil =>
         q.lines[l].qty > 0 /\ l \in Sold(q, f) /\ Row(q, f, l).net > 0

\* approvedKpRows: the approved rows with the quantities approved, at the prices
\* of the KP they were approved in.
ApprovedRows(q, rows) ==
    [l \in {x \in DOMAIN rows : q.lines[x].approved} |->
        LET qty == Else(q.lines[l].approvedQty, rows[l].qty)
        IN  [rows[l] EXCEPT !.qty = qty, !.sum = PerQty(rows[l].price, qty)]]

-----------------------------------------------------------------------------
(* What is earned *)

\* profitAmounts: an entrepreneur without VAT pays the price with VAT.
Profit(q, r) ==
    IF q.mode = "no_vat"
    THEN PerQty(IF q.fopGross THEN r.gross ELSE r.net, r.qty) - r.costGross
    ELSE PerQty(r.net, r.qty) - r.costNet

\* computeMarkupTotals: in the mode of the request, as a KP.
SaleTotals(q, f) == KpTotals(RowsSum(KpRows(q, f, q.mode)), q.mode)
ProfitNet(q, f)  == SumOver(Sold(q, f), LAMBDA l : Profit(q, Row(q, f, l)))
CostNet(q, f)    == SumOver(Sold(q, f), LAMBDA l : Row(q, f, l).costNet)

\* computeSupplierProfit: with the choice as it is, and if all were bought from b.
ProfitFrom(q, f, b) ==
    SumOver({l \in Sold(q, f) : Row(q, f, l).block = b}, LAMBDA l : Profit(q, Row(q, f, l)))
ProfitIfAllFrom(q, f, b) ==
    SumOver({l \in Covered(q, f, b) : RowFrom(q, f, l, b).net # Nil},
            LAMBDA l : Profit(q, RowFrom(q, f, l, b)))

=============================================================================
