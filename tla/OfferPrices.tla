----------------------------- MODULE OfferPrices -----------------------------
(***************************************************************************)
(* What the tab and the server compute of a request's offers              *)
(* (computeRequest): the price of each in hryvnias, the choice of a line,  *)
(* what a supplier comes to, and the ways to buy. Quantities that nobody   *)
(* typed follow their line, see RequestContent.                            *)
(*                                                                         *)
(* A quote q is what a request document says about prices. f stands for    *)
(* the figures of its offers.                                              *)
(***************************************************************************)
EXTENDS Integers, FiniteSets, FiniteSetsExt, Functions

-----------------------------------------------------------------------------
(* Money. An amount is a whole number of kopecks, a quantity a whole number *)
(* of thousandths. What is computed on the way to an amount is a fraction   *)
(* <<n, d>> of kopecks in its lowest terms. The code computes in doubles,   *)
(* but takes the noise off (15 significant digits) and shifts the decimal   *)
(* exponent before it rounds, so that what is rounded is the exact value.   *)
(* A discount of more than 100 percent makes a price negative.              *)

Size(n) == IF n < 0 THEN -n ELSE n

\* The whole number next to n / d; half way, the one further from zero.
RoundDiv(n, d) ==
    LET size == (2 * Size(n) + d) \div (2 * d) IN IF n < 0 THEN -size ELSE size

Gcd[p \in Nat \X Nat] == IF p[2] = 0 THEN p[1] ELSE Gcd[<<p[2], p[1] % p[2]>>]

Price == Nat \X (Nat \ {0})
Rate  == (Nat \ {0}) \X (Nat \ {0})
Fraction(n, d) == LET g == Gcd[<<Size(n), d>>] IN <<n \div g, d \div g>>

Times(p, q) == Fraction(p[1] * q[1], p[2] * q[2])
Over(p, q)  == Fraction(p[1] * q[2], p[2] * q[1])
Kop(n)      == <<n, 1>>

\* The factor that adds v percent: the VAT, a markup; of a discount v is negative.
Plus(v) == Fraction(100 + v, 100)

\* round2, and round4 and round6 as parts of a kopeck.
Round2(p) == RoundDiv(p[1], p[2])
Round4(p) == Fraction(RoundDiv(100 * p[1], p[2]), 100)
Round6(p) == Fraction(RoundDiv(10000 * p[1], p[2]), 10000)

\* A sum: the price of one for a quantity.
PerQty(unit, qty) == RoundDiv(unit * qty, 1000)

\* A price is kept without VAT.
NormalizedPrice(price, withVat, vat) == Round4(IF withVat THEN Over(price, Plus(vat)) ELSE price)

\* What the cell of a price shows without and with VAT: of the price in the
\* currency of the list, the rate and the supplier's markup. The price with
\* VAT is made from the exact one.
CellNet(price, rate, markup) == Round2(Times(Times(price, rate), Plus(markup)))
\* Mutant: the price with VAT is made from the rounded one.
CellGrossOfNet(price, rate, markup, vat) == Round2(Times(Kop(CellNet(price, rate, markup)), Plus(vat)))
CellGross(price, rate, markup, vat) == Round2(Times(Times(Times(price, rate), Plus(markup)), Plus(vat)))

\* The other way round: the price in the currency of the list for what was typed.
PriceFromCell(typed, withVat, vat, rate, markup) ==
    Round6(Over(Over(NormalizedPrice(Kop(typed), withVat, vat), rate), Plus(markup)))

\* checkMultiplicity: a quantity that is not sold like this is rounded up.
Suggested(qty, multiple) ==
    IF multiple = 0 \/ qty % multiple = 0 THEN qty ELSE multiple * (qty \div multiple + 1)

-----------------------------------------------------------------------------
(* The document *)

CONSTANTS
    Lines, Blocks,   \* numbers, in the order they are shown in
    Nil,             \* what is not there
    Vat              \* the VAT rate of the request, in percent

ASSUME PricesAssumption ==
    /\ Lines \cup Blocks \subseteq Nat /\ IsFiniteSet(Lines) /\ IsFiniteSet(Blocks)
    /\ Nil \notin Nat \cup Price /\ Vat \in Nat

Else(x, default) == IF x = Nil THEN default ELSE x
SumOver(S, value(_)) == SumFunction([x \in S |-> value(x)])

\* isActiveLine
Active(q) == {l \in Lines : q.lines[l].named \/ q.lines[l].qty > 0}

Offers(q) == DOMAIN q.offers

-----------------------------------------------------------------------------
(* One offer *)

\* resolveRate: the block's rate, or else the request's.
RateOf(q, l, b) ==
    IF q.offers[<<l, b>>].foreign THEN Else(q.blocks[b].rate, q.rate) ELSE Kop(1)

\* computeOfferBase. Without a price or a rate the offer is not filled, and its
\* sums are not used.
Figure(q, l, b) ==
    LET o == q.offers[<<l, b>>]
        rate == RateOf(q, l, b)
        qty == Else(o.qty, q.lines[l].qty)
        priced == rate # Nil /\ o.price # Nil
        net == IF priced THEN CellNet(o.price, rate, q.blocks[b].markup) ELSE 0
        gross == IF priced THEN CellGross(o.price, rate, q.blocks[b].markup, Vat) ELSE 0
    IN  [qty |-> qty, priced |-> priced, filled |-> net > 0,
         net |-> net, gross |-> gross,
         sumNet |-> PerQty(net, qty), sumGross |-> PerQty(gross, qty),
         rrp |-> IF rate # Nil /\ o.rrp # Nil THEN Round2(Times(o.rrp, rate)) ELSE Nil]

\* (A comparison makes TLC compute all of them here, once.)
Figures(q) ==
    LET all == [o \in Offers(q) |-> Figure(q, o[1], o[2])]
    IN  IF all = <<>> THEN <<>> ELSE all

-----------------------------------------------------------------------------
(* The offers of a line (compareLine) *)

\* An offer that can be bought, whether or not it takes part in the comparison.
Usable(q, f, l, b) == <<l, b>> \in Offers(q) /\ f[<<l, b>>].filled /\ ~q.offers[<<l, b>>].out

Compared(q, f, l) == {b \in Blocks : Usable(q, f, l, b) /\ ~(q.markup.skipGone /\ q.offers[<<l, b>>].gone)}

\* The lowest price of one piece; of equal ones, that of the first block.
Recommended(q, f, l) ==
    LET least == {b \in Compared(q, f, l) :
                    \A a \in Compared(q, f, l) : f[<<l, b>>].net <= f[<<l, a>>].net}
    IN  IF least = {} THEN Nil ELSE Min(least)

\* The chosen offer as long as it can be bought, or else the recommended one.
Effective(q, f, l) ==
    LET b == q.lines[l].sel
    IN  IF b # Nil /\ Usable(q, f, l, b) THEN b ELSE Recommended(q, f, l)

\* selectionState recommended or manual_invalid
FollowsPrices(q, f, l) ==
    LET b == q.lines[l].sel IN b = Nil \/ ~Usable(q, f, l, b)

-----------------------------------------------------------------------------
(* The blocks (computeBlockTotals, markCheapestBlock) *)

Covered(q, f, b)  == {l \in Active(q) : Usable(q, f, l, b)}
\* Mutant: what the block would be recommended for counts as chosen.
BoughtIfRecommended(q, f, b) == {l \in Covered(q, f, b) : Recommended(q, f, l) = b}
Bought(q, f, b)   == {l \in Covered(q, f, b) : Effective(q, f, l) = b}
InDelta(q, f, b)  == {l \in Covered(q, f, b) : b \in Compared(q, f, l)}

LeastSum(q, f, l) == Min({f[<<l, b>>].sumNet : b \in Compared(q, f, l)})

DeltaNet(q, f, b) == SumOver(InDelta(q, f, b), LAMBDA l : f[<<l, b>>].sumNet - LeastSum(q, f, l))

\* The block that asks nowhere for more than another; of several, the one that
\* covers most, the first of those.
CheapestBlock(q, f) ==
    LET fair == {b \in Blocks : InDelta(q, f, b) # {} /\ DeltaNet(q, f, b) <= 0}
        most == {b \in fair : \A a \in fair :
                    Cardinality(InDelta(q, f, a)) <= Cardinality(InDelta(q, f, b))}
    IN  IF most = {} THEN Nil ELSE Min(most)

BoughtNet(q, f, b)   == SumOver(Bought(q, f, b), LAMBDA l : f[<<l, b>>].sumNet)
BoughtGross(q, f, b) == SumOver(Bought(q, f, b), LAMBDA l : f[<<l, b>>].sumGross)

-----------------------------------------------------------------------------
(* The ways to buy (computeScenarios): which block each line is bought from *)

Picks(q, block(_)) == [l \in {x \in Active(q) : block(x) # Nil} |-> block(l)]

Mix(q, f)     == Picks(q, LAMBDA l : Recommended(q, f, l))
Current(q, f) == Picks(q, LAMBDA l : Effective(q, f, l))

NetOf(f, picks)   == SumOver(DOMAIN picks, LAMBDA l : f[<<l, picks[l]>>].sumNet)
GrossOf(f, picks) == SumOver(DOMAIN picks, LAMBDA l : f[<<l, picks[l]>>].sumGross)

=============================================================================
