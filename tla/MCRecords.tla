------------------------------ MODULE MCRecords ------------------------------
(* Small instances of the directories, the photos, the content of a request *)
(* document and its money for TLC: a behaviour is about one of them.        *)
EXTENDS Records, RequestContent, Quotes, TLC

CONSTANTS c1, c2, k1, k2, m, pc, box, p1, p2, url1, url2, s1, s2, tap, bath, h

\* The addresses the price list has for the product.
MCUrlLists == {<<url1, url2>>}

\* Two suppliers with a product each; taps are sold in pairs.
MCSupplierOf == tap :> s1 @@ bath :> s2
MCMultiple == tap :> 2 @@ bath :> 1

\* Three calls of a client or on photos, of which two cross, show what four do.
MCMaxCalls == [x \in AllAreas |-> IF x \in {"clients", "images"} THEN 3 ELSE 4]

FirstOffer(l, from, product, qty) ==
    [line |-> l, block |-> from, product |-> product, qty |-> qty,
     exact |-> FALSE, out |-> FALSE, rest |-> 0, hand |-> FALSE]

\* Two lines, one of which has chosen the only block; one line that has chosen
\* the first of two blocks, with a rounded offer in the other.
MCFirstDocs ==
    {[header |-> h,
      lines |-> 1 :> [pos |-> 1, qty |-> 2, sel |-> 3, rest |-> 0]
             @@ 2 :> [pos |-> 2, qty |-> 2, sel |-> Null, rest |-> 0],
      blocks |-> 3 :> [pos |-> 1, supplier |-> s1, rest |-> 0],
      offers |-> <<0, 1>> :> FirstOffer(1, 3, tap, Null)],
     [header |-> h,
      lines |-> 1 :> [pos |-> 1, qty |-> 5, sel |-> 4, rest |-> 0],
      blocks |-> 3 :> [pos |-> 2, supplier |-> s1, rest |-> 0]
              @@ 4 :> [pos |-> 1, supplier |-> s2, rest |-> 0],
      offers |-> <<0, 1>> :> FirstOffer(1, 3, tap, 6)
              @@ <<1, 1>> :> FirstOffer(1, 4, bath, Null)]}

-----------------------------------------------------------------------------
(* Prices are of some ten kopecks: the rounding matters as with large ones. *)

MCRates == {Nil, <<5, 2>>}
MCSupplierPercents == {10, -30}

FirstLine(qty, sel) ==
    [named |-> qty > 0, qty |-> qty, sel |-> sel, rule |-> NoRule,
     approved |-> FALSE, approvedQty |-> Nil]
PricedOffer(foreign, price, rrp, multiple, gone) ==
    [foreign |-> foreign, price |-> price, rrp |-> rrp, qty |-> Nil, multiple |-> multiple,
     exact |-> FALSE, out |-> FALSE, gone |-> gone]
PlainBlocks == [x \in Blocks |-> [rate |-> Nil, markup |-> 0]]
SentKp(mode, price, qty) ==
    [final |-> FALSE, mode |-> mode,
     rows |-> 1 :> [price |-> price, qty |-> qty, sum |-> PerQty(price, qty)]]

\* Two lines to be bought: one from either of two blocks, one in a price list
\* that is sold in threes, one by hand at first without a price. And one line
\* of an entrepreneur, at whole hryvnias, in an offer that is out of stock and
\* one that lacks its rate, of which two KPs were sent; the older is the base.
MCFirstQuotes ==
    {[quote |->
        [fopGross |-> TRUE, percentOff |-> TRUE, rate |-> <<2, 1>>, base |-> Nil,
         mode |-> "without_vat",
         markup |-> [method |-> "markup", value |-> 10, whole |-> FALSE, skipGone |-> TRUE],
         lines |-> 1 :> FirstLine(2000, Nil) @@ 2 :> FirstLine(3000, 2),
         blocks |-> PlainBlocks,
         offers |-> <<1, 1>> :> PricedOffer(FALSE, <<49, 1>>, <<100, 1>>, 1000, FALSE)
                 @@ <<1, 2>> :> PricedOffer(TRUE, <<25, 1>>, Nil, 3000, FALSE)
                 @@ <<2, 1>> :> PricedOffer(FALSE, Nil, <<80, 1>>, 1000, FALSE)
                 @@ <<2, 2>> :> PricedOffer(TRUE, <<30, 1>>, <<60, 1>>, 1000, FALSE)],
      kps |-> <<>>],
     [quote |->
        [fopGross |-> FALSE, percentOff |-> FALSE, rate |-> Nil, base |-> 1,
         mode |-> "no_vat",
         markup |-> [method |-> "rrp", value |-> 10, whole |-> TRUE, skipGone |-> FALSE],
         lines |-> 1 :> FirstLine(2000, Nil) @@ 2 :> FirstLine(0, Nil),
         blocks |-> PlainBlocks,
         offers |-> <<1, 1>> :> PricedOffer(FALSE, <<49, 1>>, <<100, 1>>, 1000, TRUE)
                 @@ <<1, 2>> :> PricedOffer(TRUE, <<25, 1>>, <<50, 1>>, 1000, FALSE)],
      kps |-> 1 :> SentKp("without_vat", 83, 2000) @@ 2 :> SentKp("with_vat", 100, 2000)]}

EmptyQuote ==
    [(CHOOSE first \in MCFirstQuotes : first.kps = <<>>).quote EXCEPT
        !.lines = [l \in Lines |-> FirstLine(0, Nil)], !.offers = <<>>]

Symmetry == Permutations(Parties)

\* What is not the subject stands still.
MCInit ==
    /\ Init
    /\ ContentInit
    /\ \/ area = "quotes" /\ QuotesInit
       \/ /\ area # "quotes" /\ quote = EmptyQuote
          /\ kps = <<>> /\ changes = 0 /\ formed = 0
    /\ area # "documents" => stored = CHOOSE d \in FirstDocs : TRUE

MCNext ==
    \/ area \notin {"documents", "quotes"} /\ Next /\ UNCHANGED <<contentVars, quoteVars>>
    \/ area = "documents" /\ ContentNext /\ UNCHANGED <<vars, quoteVars>>
    \/ area = "quotes" /\ QuotesNext /\ UNCHANGED <<vars, contentVars>>

MCSpec == MCInit /\ [][MCNext]_<<vars, contentVars, quoteVars>>

=============================================================================
