--------------------------- MODULE ContentProofs ----------------------------
(***************************************************************************)
(* Proofs about request documents. Their content: every edit of the page   *)
(* makes a sound document of a sound one and keeps automatic quantities    *)
(* with their lines; the difference the tab sends, applied to the rows it  *)
(* was taken from, gives the document; and so, by one inductive invariant, *)
(* what is shown, stored and copied is sound whatever happens in which     *)
(* order. Their money: a KP has only what can be sold, the sum the client  *)
(* approved stands, the figures of the tabs agree with one another, and a  *)
(* cell shows the price typed into it, by an invariant that is about the   *)
(* shape of what is typed and computed, the arithmetic of VAT and of       *)
(* roundings, and the theory of sums over finite sets.                     *)
(***************************************************************************)
EXTENDS RequestContent, Quotes, TLAPS, FiniteSetTheorems, SequenceTheorems, WellFoundedInduction

-----------------------------------------------------------------------------
(* Lists of records with a place                                           *)

\* The records have a place, and any number can be it.
Placed(Item) ==
    \A i \in Item : /\ i.pos \in Nat
                    /\ \A p \in Nat : /\ [i EXCEPT !.pos = p] \in Item
                                      /\ [i EXCEPT !.pos = p].pos = p
                                      /\ \A q \in Nat : [[i EXCEPT !.pos = p] EXCEPT !.pos = q]
                                                           = [i EXCEPT !.pos = q]

LEMMA PlacedItems == Placed(Line) /\ Placed(Block)
BY DEF Placed, Line, Block

LEMMA PlacedAt ==
    ASSUME NEW Item, Placed(Item), NEW i \in Item, NEW p \in Nat
    PROVE  [i EXCEPT !.pos = p] \in Item /\ [i EXCEPT !.pos = p].pos = p
BY DEF Placed

LEMMA PlacedAgain ==
    ASSUME NEW Item, Placed(Item), NEW i \in Item, NEW p \in Nat, NEW q \in Nat
    PROVE  [[i EXCEPT !.pos = p] EXCEPT !.pos = q] = [i EXCEPT !.pos = q]
BY DEF Placed

Distinct(list) == \A x, y \in DOMAIN list : list[x].pos = list[y].pos => x = y

\* Nothing but places has changed.
SameButPlace(new, list) ==
    /\ DOMAIN new = DOMAIN list
    /\ \A x \in DOMAIN list : \E p \in Nat : new[x] = [list[x] EXCEPT !.pos = p]

LEMMA ListParts ==
    ASSUME NEW list, NEW ids, NEW Item, IsList(list, ids, Item)
    PROVE  /\ DOMAIN list \subseteq ids
           /\ \A x \in DOMAIN list : list[x] \in Item
           /\ list = [x \in DOMAIN list |-> list[x]]
BY DEF IsList

LEMMA ListFrom ==
    ASSUME NEW ids, NEW Item, NEW D, D \subseteq ids, NEW list,
           list = [x \in D |-> list[x]], \A x \in D : list[x] \in Item
    PROVE  IsList(list, ids, Item) /\ DOMAIN list = D
BY DEF IsList

LEMMA ListGrows ==
    ASSUME NEW list, NEW ids, NEW more, NEW Item, ids \subseteq more, IsList(list, ids, Item)
    PROVE  IsList(list, more, Item)
BY DEF IsList

LEMMA WithoutList ==
    ASSUME NEW list, NEW ids, NEW Item, NEW gone, IsList(list, ids, Item)
    PROVE  /\ IsList(Without(list, gone), ids, Item)
           /\ DOMAIN Without(list, gone) = DOMAIN list \ gone
           /\ \A x \in DOMAIN list \ gone : Without(list, gone)[x] = list[x]
BY DEF IsList, Without, Restrict

LEMMA UpsertedList ==
    ASSUME NEW list, NEW items, NEW ids, NEW Item, IsList(list, ids, Item), IsList(items, ids, Item)
    PROVE  /\ IsList(Upserted(list, items), ids, Item)
           /\ DOMAIN Upserted(list, items) = DOMAIN list \cup DOMAIN items
           /\ \A x \in DOMAIN items : Upserted(list, items)[x] = items[x]
           /\ \A x \in DOMAIN list \ DOMAIN items : Upserted(list, items)[x] = list[x]
BY DEF IsList, Upserted

LEMMA OneList ==
    ASSUME NEW ids, NEW Item, NEW x \in ids, NEW i \in Item
    PROVE  IsList(One(x, i), ids, Item) /\ DOMAIN One(x, i) = {x} /\ One(x, i)[x] = i
BY DEF IsList, One

\* Renumbering keeps the order: the place of a record is how many are not after it.
LEMMA RenumberedList ==
    ASSUME NEW list, NEW n \in Nat, NEW Item, Placed(Item), IsList(list, 1 .. n, Item), Distinct(list)
    PROVE  LET new == Renumbered(list)
           IN  IsList(new, 1 .. n, Item) /\ SameButPlace(new, list) /\ Numbered(new)
<1> DEFINE upTo(x) == {y \in DOMAIN list : list[y].pos <= list[x].pos}
           new == Renumbered(list)
<1>1. /\ DOMAIN list \subseteq 1 .. n
      /\ \A x \in DOMAIN list : list[x] \in Item /\ list[x].pos \in Nat
  BY DEF IsList, Placed
<1>2. IsFiniteSet(DOMAIN list)
  <2>1. IsFiniteSet(1 .. n)
    BY FS_Interval
  <2> QED BY <1>1, <2>1, FS_Subset
<1>3. ASSUME NEW x \in DOMAIN list
      PROVE  /\ IsFiniteSet(upTo(x)) /\ Cardinality(upTo(x)) \in 1 .. Cardinality(DOMAIN list)
             /\ Cardinality(DOMAIN list) \in Nat
  <2>1. upTo(x) \in SUBSET DOMAIN list /\ x \in upTo(x)
    BY <1>1
  <2>2. IsFiniteSet(upTo(x)) /\ Cardinality(upTo(x)) <= Cardinality(DOMAIN list)
    BY <1>2, <2>1, FS_Subset
  <2>3. Cardinality(upTo(x)) \in Nat /\ Cardinality(DOMAIN list) \in Nat
    BY <1>2, <2>2, FS_CardinalityType
  <2>4. Cardinality(upTo(x)) # 0
    BY <2>1, <2>2, FS_EmptySet
  <2> QED BY <2>2, <2>3, <2>4
<1>4. ASSUME NEW x \in DOMAIN list, NEW y \in DOMAIN list,
             Cardinality(upTo(x)) = Cardinality(upTo(y))
      PROVE  list[x].pos <= list[y].pos
  <2> SUFFICES ASSUME list[x].pos > list[y].pos PROVE FALSE
    BY <1>1
  <2>1. upTo(y) \in SUBSET upTo(x) /\ x \in upTo(x) /\ x \notin upTo(y)
    BY <1>1
  <2>2. upTo(x) = upTo(y)
    BY <1>3, <1>4, <2>1, FS_Subset
  <2> QED BY <2>1, <2>2
<1> HIDE DEF upTo
<1>5. /\ new = [x \in DOMAIN list |-> new[x]]
      /\ \A x \in DOMAIN list : new[x] = [list[x] EXCEPT !.pos = Cardinality(upTo(x))]
  BY DEF Renumbered, upTo
<1> HIDE DEF new
<1>6. ASSUME NEW x \in DOMAIN list
      PROVE  /\ new[x] \in Item /\ new[x].pos = Cardinality(upTo(x))
             /\ Cardinality(upTo(x)) \in Nat
  <2>1. Cardinality(upTo(x)) \in Nat
    BY <1>3
  <2>2. list[x] \in Item
    BY <1>1
  <2>3. new[x] = [list[x] EXCEPT !.pos = Cardinality(upTo(x))]
    BY <1>5
  <2> HIDE DEF upTo, new
  <2>4. /\ [list[x] EXCEPT !.pos = Cardinality(upTo(x))] \in Item
        /\ [list[x] EXCEPT !.pos = Cardinality(upTo(x))].pos = Cardinality(upTo(x))
    BY <2>1, <2>2, PlacedAt
  <2> QED BY <2>1, <2>3, <2>4
<1>7. IsList(new, 1 .. n, Item) /\ DOMAIN new = DOMAIN list
  BY <1>1, <1>5, <1>6, ListFrom
<1>8. ASSUME NEW x \in DOMAIN list, NEW y \in DOMAIN list, new[x].pos = new[y].pos
      PROVE  x = y
  <2>1. list[x].pos <= list[y].pos /\ list[y].pos <= list[x].pos
    BY <1>4, <1>6, <1>8
  <2> QED BY <1>1, <2>1 DEF Distinct
<1>9. Numbered(new)
  BY <1>3, <1>6, <1>7, <1>8 DEF Numbered
<1>10. SameButPlace(new, list)
  BY <1>5, <1>6, <1>7 DEF SameButPlace
<1> QED BY <1>7, <1>9, <1>10 DEF new

LEMMA OddIsNotEven == \A k, p \in Nat : 2 * k + 1 \in Nat /\ 2 * p # 2 * k + 1
OBVIOUS

\* Doubled, places leave room between any two.
LEMMA SpacedList ==
    ASSUME NEW list, NEW n \in Nat, NEW Item, Placed(Item), IsList(list, 1 .. n, Item),
           Distinct(list)
    PROVE  LET new == Spaced(list)
           IN  /\ IsList(new, 1 .. n, Item) /\ DOMAIN new = DOMAIN list
               /\ \A x \in DOMAIN list : /\ new[x] = [list[x] EXCEPT !.pos = 2 * list[x].pos]
                                         /\ new[x].pos = 2 * list[x].pos
               /\ Distinct(new)
<1> DEFINE new == Spaced(list)
<1>1. /\ DOMAIN list \subseteq 1 .. n
      /\ \A x \in DOMAIN list : list[x] \in Item /\ list[x].pos \in Nat
  BY DEF IsList, Placed
<1>2. /\ new = [x \in DOMAIN list |-> new[x]]
      /\ \A x \in DOMAIN list : new[x] = [list[x] EXCEPT !.pos = 2 * list[x].pos]
  BY DEF Spaced
<1> HIDE DEF new
<1>3. ASSUME NEW x \in DOMAIN list
      PROVE  new[x] \in Item /\ new[x].pos = 2 * list[x].pos
  <2>1. 2 * list[x].pos \in Nat /\ list[x] \in Item
    BY <1>1
  <2>2. new[x] = [list[x] EXCEPT !.pos = 2 * list[x].pos]
    BY <1>2
  <2>3. /\ [list[x] EXCEPT !.pos = 2 * list[x].pos] \in Item
        /\ [list[x] EXCEPT !.pos = 2 * list[x].pos].pos = 2 * list[x].pos
    BY <2>1, PlacedAt
  <2> QED BY <2>2, <2>3
<1>4. IsList(new, 1 .. n, Item) /\ DOMAIN new = DOMAIN list
  BY <1>1, <1>2, <1>3, ListFrom
<1>5. Distinct(new)
  BY <1>1, <1>3, <1>4 DEF Distinct
<1> QED BY <1>2, <1>3, <1>4, <1>5 DEF new

\* What is taken out and put in again between two others.
LEMMA MovedList ==
    ASSUME NEW list, NEW n \in Nat, NEW Item, Placed(Item), IsList(list, 1 .. n, Item),
           Distinct(list), NEW x \in DOMAIN list, NEW to \in Nat
    PROVE  LET new == Moved(list, x, to)
           IN  IsList(new, 1 .. n, Item) /\ SameButPlace(new, list) /\ Numbered(new)
<1> DEFINE spaced == Spaced(list)
           key == IF to < list[x].pos - 1 THEN 2 * to + 1 ELSE 2 * to + 3
           put == [spaced EXCEPT ![x].pos = key]
           new == Renumbered(put)
<1>1. /\ DOMAIN list \subseteq 1 .. n
      /\ \A y \in DOMAIN list : list[y] \in Item /\ list[y].pos \in Nat
  BY DEF IsList, Placed
<1>2. /\ IsList(spaced, 1 .. n, Item) /\ DOMAIN spaced = DOMAIN list
      /\ \A y \in DOMAIN list : /\ spaced[y] = [list[y] EXCEPT !.pos = 2 * list[y].pos]
                                /\ spaced[y].pos = 2 * list[y].pos
      /\ Distinct(spaced)
  BY SpacedList
<1> HIDE DEF spaced
<1>3. key \in Nat /\ \A p \in Nat : 2 * p # key
  <2>1. \E k \in Nat : key = 2 * k + 1
    <3>1. key = 2 * to + 1 \/ key = 2 * (to + 1) + 1
      OBVIOUS
    <3> HIDE DEF key
    <3>2. to \in Nat /\ to + 1 \in Nat
      OBVIOUS
    <3> QED BY <3>1, <3>2
  <2> HIDE DEF key
  <2>2. PICK k \in Nat : key = 2 * k + 1
    BY <2>1
  <2> QED BY <2>2, OddIsNotEven
<1> HIDE DEF key
<1>4. /\ put = [y \in DOMAIN list |-> put[y]]
      /\ put[x] = [spaced[x] EXCEPT !.pos = key]
      /\ \A y \in DOMAIN list : y # x => put[y] = spaced[y]
  BY <1>2 DEF IsList
<1>5. \A y \in DOMAIN list : spaced[y] \in Item
  BY <1>2, ListParts
<1>6. put[x] \in Item /\ put[x].pos = key
  <2>1. [spaced[x] EXCEPT !.pos = key] \in Item /\ [spaced[x] EXCEPT !.pos = key].pos = key
    BY <1>3, <1>5, PlacedAt
  <2> QED BY <1>4, <2>1
<1> HIDE DEF put
<1>7. IsList(put, 1 .. n, Item) /\ DOMAIN put = DOMAIN list
  <2>1. \A y \in DOMAIN list : put[y] \in Item
    BY <1>4, <1>5, <1>6
  <2> QED BY <1>1, <1>4, <2>1, ListFrom
<1>8. Distinct(put)
  <2>1. \A y \in DOMAIN list : y # x => put[y].pos = 2 * list[y].pos /\ put[y].pos # key
    BY <1>1, <1>2, <1>3, <1>4
  <2> QED BY <1>1, <1>6, <1>7, <2>1 DEF Distinct
<1>9. IsList(new, 1 .. n, Item) /\ SameButPlace(new, put) /\ Numbered(new)
  BY <1>7, <1>8, RenumberedList
<1> HIDE DEF new
<1>10. ASSUME NEW y \in DOMAIN list
       PROVE  \E p \in Nat : new[y] = [list[y] EXCEPT !.pos = p]
  <2>1. PICK p \in Nat : new[y] = [put[y] EXCEPT !.pos = p]
    BY <1>7, <1>9 DEF SameButPlace
  <2>2. \E q \in Nat : put[y] = [list[y] EXCEPT !.pos = q]
    <3>1. 2 * list[y].pos \in Nat /\ list[y] \in Item
      BY <1>1
    <3>2. [[list[y] EXCEPT !.pos = 2 * list[y].pos] EXCEPT !.pos = key]
            = [list[y] EXCEPT !.pos = key]
      BY <1>3, <3>1, PlacedAgain
    <3>3. put[y] = [list[y] EXCEPT !.pos = 2 * list[y].pos] \/ put[y] = [list[y] EXCEPT !.pos = key]
      BY <1>2, <1>4, <3>2
    <3> QED BY <1>3, <3>1, <3>3
  <2>3. PICK q \in Nat : put[y] = [list[y] EXCEPT !.pos = q]
    BY <2>2
  <2>4. [[list[y] EXCEPT !.pos = q] EXCEPT !.pos = p] = [list[y] EXCEPT !.pos = p]
    BY <1>1, PlacedAgain
  <2> QED BY <2>1, <2>3, <2>4
<1>11. new = Moved(list, x, to)
  BY DEF new, put, key, spaced, Moved
<1>12. SameButPlace(new, list)
  BY <1>7, <1>9, <1>10 DEF SameButPlace
<1> QED BY <1>9, <1>11, <1>12

LEMMA LinesButPlace ==
    ASSUME NEW list, NEW new, NEW ids, IsList(list, ids, Line), SameButPlace(new, list)
    PROVE  /\ DOMAIN new = DOMAIN list
           /\ \A l \in DOMAIN list : new[l].qty = list[l].qty /\ new[l].sel = list[l].sel
<1> SUFFICES ASSUME NEW l \in DOMAIN list
             PROVE  new[l].qty = list[l].qty /\ new[l].sel = list[l].sel
  BY DEF SameButPlace
<1>1. PICK p \in Nat : new[l] = [list[l] EXCEPT !.pos = p]
  BY DEF SameButPlace
<1>2. list[l] \in Line
  BY ListParts
<1> QED BY <1>1, <1>2 DEF Line

LEMMA BlocksButPlace ==
    ASSUME NEW list, NEW new, NEW ids, IsList(list, ids, Block), SameButPlace(new, list)
    PROVE  /\ DOMAIN new = DOMAIN list
           /\ \A b \in DOMAIN list : new[b].supplier = list[b].supplier
<1> SUFFICES ASSUME NEW b \in DOMAIN list PROVE new[b].supplier = list[b].supplier
  BY DEF SameButPlace
<1>1. PICK p \in Nat : new[b] = [list[b] EXCEPT !.pos = p]
  BY DEF SameButPlace
<1>2. list[b] \in Block
  BY ListParts
<1> QED BY <1>1, <1>2 DEF Block

-----------------------------------------------------------------------------
(* Documents                                                               *)

Fits(d, n) == IsDocument(d, n) /\ Sound(d)

Follows(d, e, autoRd) == QtysFollow(d, autoRd) => QtysFollow(e, autoRd)

IsRecord(d) == d = [header |-> d.header, lines |-> d.lines, blocks |-> d.blocks, offers |-> d.offers]

OfferIds(n) == (0 .. n) \X (1 .. n)

LEMMA DocParts ==
    ASSUME NEW n \in Nat, NEW d, Fits(d, n)
    PROVE  /\ IsRecord(d) /\ d.header \in Headers
           /\ IsList(d.lines, 1 .. n, Line) /\ IsList(d.blocks, 1 .. n, Block)
           /\ IsList(d.offers, OfferIds(n), Offer)
           /\ \A l \in DOMAIN d.lines : l \in 1 .. n /\ d.lines[l] \in Line
           /\ \A b \in DOMAIN d.blocks : b \in 1 .. n /\ d.blocks[b] \in Block
           /\ \A o \in DOMAIN d.offers : o \in OfferIds(n) /\ d.offers[o] \in Offer
           /\ Distinct(d.lines) /\ Distinct(d.blocks)
           /\ Linked(d) /\ Chosen(d) /\ Numbered(d.lines) /\ Numbered(d.blocks)
<1>1. /\ IsRecord(d) /\ d.header \in Headers
      /\ IsList(d.lines, 1 .. n, Line) /\ IsList(d.blocks, 1 .. n, Block)
      /\ IsList(d.offers, OfferIds(n), Offer)
  BY DEF Fits, IsDocument, IsRecord, OfferIds
<1>2. Linked(d) /\ Chosen(d) /\ Numbered(d.lines) /\ Numbered(d.blocks)
  BY DEF Fits, Sound
<1>3. \A l \in DOMAIN d.lines : l \in 1 .. n /\ d.lines[l] \in Line
  BY <1>1, ListParts
<1>4. \A b \in DOMAIN d.blocks : b \in 1 .. n /\ d.blocks[b] \in Block
  BY <1>1, ListParts
<1>5. \A o \in DOMAIN d.offers : o \in OfferIds(n) /\ d.offers[o] \in Offer
  BY <1>1, ListParts
<1>6. Distinct(d.lines) /\ Distinct(d.blocks)
  BY <1>2 DEF Numbered, Distinct
<1> QED BY <1>1, <1>2, <1>3, <1>4, <1>5, <1>6

LEMMA DocFrom ==
    ASSUME NEW n, NEW d, IsRecord(d), d.header \in Headers,
           IsList(d.lines, 1 .. n, Line), IsList(d.blocks, 1 .. n, Block),
           IsList(d.offers, OfferIds(n), Offer)
    PROVE  IsDocument(d, n)
BY DEF IsDocument, IsRecord, OfferIds

WithLinesAndOffers(d, ls, os) == [d EXCEPT !.lines = ls, !.offers = os]

LEMMA LinesAndOffersSet ==
    ASSUME NEW d, IsRecord(d), NEW ls, NEW os
    PROVE  LET e == WithLinesAndOffers(d, ls, os)
           IN  /\ IsRecord(e) /\ e.header = d.header /\ e.lines = ls
               /\ e.blocks = d.blocks /\ e.offers = os
<1> DEFINE c == [d EXCEPT !.lines = ls]
           e == WithLinesAndOffers(d, ls, os)
<1>1. /\ IsRecord(c) /\ c.header = d.header /\ c.lines = ls
      /\ c.blocks = d.blocks /\ c.offers = d.offers
  BY DEF IsRecord
<1>2. e = [c EXCEPT !.offers = os]
  BY DEF IsRecord, WithLinesAndOffers
<1> HIDE DEF c, e
<1>3. /\ IsRecord(e) /\ e.header = c.header /\ e.lines = c.lines
      /\ e.blocks = c.blocks /\ e.offers = os
  BY <1>1, <1>2 DEF IsRecord
<1> QED BY <1>1, <1>3 DEF e

LEMMA NumberedAgain ==
    ASSUME NEW list, NEW new, Numbered(list), DOMAIN new = DOMAIN list,
           \A x \in DOMAIN list : new[x].pos = list[x].pos
    PROVE  Numbered(new)
BY DEF Numbered

\* Only what does not concern soundness has changed of the lines.
LEMMA LinesAgain ==
    ASSUME NEW n \in Nat, NEW d, Fits(d, n), NEW ls, IsList(ls, 1 .. n, Line),
           DOMAIN ls = DOMAIN d.lines, Numbered(ls),
           \A l \in DOMAIN d.lines : ls[l].qty = d.lines[l].qty /\ ls[l].sel = d.lines[l].sel,
           NEW e, e = [d EXCEPT !.lines = ls], NEW autoRd
    PROVE  Fits(e, n) /\ Follows(d, e, autoRd)
<1>1. /\ IsRecord(e) /\ e.header = d.header /\ e.lines = ls
      /\ e.blocks = d.blocks /\ e.offers = d.offers
  BY DocParts DEF IsRecord
<1>2. IsDocument(e, n)
  BY <1>1, DocParts, DocFrom
<1>3. Linked(e)
  BY <1>1, DocParts DEF Linked
<1>4. Chosen(e)
  BY <1>1, DocParts DEF Chosen
<1>5. Follows(d, e, autoRd)
  BY <1>1, DocParts DEF Follows, QtysFollow, Linked
<1> QED BY <1>1, <1>2, <1>3, <1>4, <1>5, DocParts DEF Fits, Sound

LEMMA BlocksAgain ==
    ASSUME NEW n \in Nat, NEW d, Fits(d, n), NEW bs, IsList(bs, 1 .. n, Block),
           DOMAIN bs = DOMAIN d.blocks, Numbered(bs),
           \A b \in DOMAIN d.blocks : bs[b].supplier = d.blocks[b].supplier,
           NEW e, e = [d EXCEPT !.blocks = bs], NEW autoRd
    PROVE  Fits(e, n) /\ Follows(d, e, autoRd)
<1>1. /\ IsRecord(e) /\ e.header = d.header /\ e.lines = d.lines
      /\ e.blocks = bs /\ e.offers = d.offers
  BY DocParts DEF IsRecord
<1>2. IsDocument(e, n)
  BY <1>1, DocParts, DocFrom
<1>3. Linked(e)
  BY <1>1, DocParts DEF Linked
<1>4. Chosen(e)
  BY <1>1, DocParts DEF Chosen
<1>5. Follows(d, e, autoRd)
  BY <1>1, DocParts DEF Follows, QtysFollow
<1> QED BY <1>1, <1>2, <1>3, <1>4, <1>5, DocParts DEF Fits, Sound

LEMMA OffersAgain ==
    ASSUME NEW n \in Nat, NEW d, Fits(d, n), NEW os, IsList(os, OfferIds(n), Offer),
           DOMAIN os = DOMAIN d.offers,
           \A o \in DOMAIN d.offers : /\ os[o].line = d.offers[o].line
                                      /\ os[o].block = d.offers[o].block
                                      /\ os[o].out => d.offers[o].out,
           NEW e, e = [d EXCEPT !.offers = os]
    PROVE  /\ Fits(e, n) /\ IsRecord(e)
           /\ e.lines = d.lines /\ e.blocks = d.blocks /\ e.offers = os
<1>1. /\ IsRecord(e) /\ e.header = d.header /\ e.lines = d.lines
      /\ e.blocks = d.blocks /\ e.offers = os
  BY DocParts DEF IsRecord
<1>2. IsDocument(e, n)
  BY <1>1, DocParts, DocFrom
<1>3. Linked(e)
  BY <1>1, DocParts DEF Linked, SamePair
<1>4. Chosen(e)
  BY <1>1, DocParts DEF Chosen
<1> QED BY <1>1, <1>2, <1>3, <1>4, DocParts DEF Fits, Sound

LEMMA MoveLineFits ==
    ASSUME NEW n \in Nat, NEW d, Fits(d, n), NEW l \in DOMAIN d.lines, NEW to \in Nat, NEW autoRd
    PROVE  Fits(MoveLine(d, l, to), n) /\ Follows(d, MoveLine(d, l, to), autoRd)
<1> DEFINE ls == Moved(d.lines, l, to)
<1>0. IsList(d.lines, 1 .. n, Line) /\ Distinct(d.lines) /\ Placed(Line)
  BY DocParts, PlacedItems
<1>1. IsList(ls, 1 .. n, Line) /\ SameButPlace(ls, d.lines) /\ Numbered(ls)
  BY <1>0, MovedList
<1> HIDE DEF ls
<1>2. /\ DOMAIN ls = DOMAIN d.lines
      /\ \A x \in DOMAIN d.lines : ls[x].qty = d.lines[x].qty /\ ls[x].sel = d.lines[x].sel
  BY <1>0, <1>1, LinesButPlace
<1>3. CASE MoveLine(d, l, to) = d
  BY <1>3 DEF Follows
<1>4. CASE MoveLine(d, l, to) = [d EXCEPT !.lines = ls]
  BY <1>1, <1>2, <1>4, LinesAgain
<1> QED BY <1>3, <1>4 DEF MoveLine, ls

LEMMA MoveBlockFits ==
    ASSUME NEW n \in Nat, NEW d, Fits(d, n), NEW b \in DOMAIN d.blocks, NEW to \in Nat, NEW autoRd
    PROVE  Fits(MoveBlock(d, b, to), n) /\ Follows(d, MoveBlock(d, b, to), autoRd)
<1> DEFINE bs == Moved(d.blocks, b, to)
<1>0. IsList(d.blocks, 1 .. n, Block) /\ Distinct(d.blocks) /\ Placed(Block)
  BY DocParts, PlacedItems
<1>1. IsList(bs, 1 .. n, Block) /\ SameButPlace(bs, d.blocks) /\ Numbered(bs)
  BY <1>0, MovedList
<1> HIDE DEF bs
<1>2. /\ DOMAIN bs = DOMAIN d.blocks
      /\ \A x \in DOMAIN d.blocks : bs[x].supplier = d.blocks[x].supplier
  BY <1>0, <1>1, BlocksButPlace
<1>3. CASE MoveBlock(d, b, to) = d
  BY <1>3 DEF Follows
<1>4. CASE MoveBlock(d, b, to) = [d EXCEPT !.blocks = bs]
  BY <1>1, <1>2, <1>4, BlocksAgain
<1> QED BY <1>3, <1>4 DEF MoveBlock, bs

LEMMA FitsMore ==
    ASSUME NEW n \in Nat, NEW d, Fits(d, n)
    PROVE  Fits(d, n + 1)
<1>1. 1 .. n \subseteq 1 .. n + 1 /\ OfferIds(n) \subseteq OfferIds(n + 1)
  BY DEF OfferIds
<1>2. /\ IsList(d.lines, 1 .. n + 1, Line) /\ IsList(d.blocks, 1 .. n + 1, Block)
      /\ IsList(d.offers, OfferIds(n + 1), Offer)
  BY <1>1, DocParts, ListGrows
<1> QED BY <1>2, DocParts, DocFrom DEF Fits, Sound

LEMMA TouchLineFits ==
    ASSUME NEW n \in Nat, NEW d, Fits(d, n), NEW l \in DOMAIN d.lines, NEW autoRd
    PROVE  Fits(TouchLine(d, l), n) /\ Follows(d, TouchLine(d, l), autoRd)
<1> DEFINE ls == [d.lines EXCEPT ![l].rest = 1 - d.lines[l].rest]
<1>0. /\ IsRecord(d) /\ IsList(d.lines, 1 .. n, Line) /\ Numbered(d.lines)
      /\ \A x \in DOMAIN d.lines : d.lines[x] \in Line
  BY DocParts
<1>1. TouchLine(d, l) = [d EXCEPT !.lines = ls]
  BY <1>0 DEF TouchLine, IsRecord
<1>2. /\ DOMAIN ls = DOMAIN d.lines /\ ls = [x \in DOMAIN d.lines |-> ls[x]]
      /\ \A x \in DOMAIN d.lines : x # l => ls[x] = d.lines[x]
      /\ ls[l] = [d.lines[l] EXCEPT !.rest = 1 - d.lines[l].rest]
  BY <1>0 DEF IsList
<1> HIDE DEF ls
<1>3. /\ ls[l] \in Line /\ ls[l].pos = d.lines[l].pos
      /\ ls[l].qty = d.lines[l].qty /\ ls[l].sel = d.lines[l].sel
  BY <1>0, <1>2 DEF Line
<1>4. \A x \in DOMAIN d.lines : /\ ls[x] \in Line /\ ls[x].pos = d.lines[x].pos
                                /\ ls[x].qty = d.lines[x].qty /\ ls[x].sel = d.lines[x].sel
  BY <1>0, <1>2, <1>3
<1>5. IsList(ls, 1 .. n, Line)
  BY <1>0, <1>2, <1>4 DEF IsList
<1>6. Numbered(ls)
  BY <1>0, <1>2, <1>4, NumberedAgain
<1>7. DOMAIN ls = DOMAIN d.lines
  BY <1>2
<1>8. \A x \in DOMAIN d.lines : ls[x].qty = d.lines[x].qty /\ ls[x].sel = d.lines[x].sel
  BY <1>4
<1> QED BY <1>1, <1>5, <1>6, <1>7, <1>8, LinesAgain

LEMMA TouchBlockFits ==
    ASSUME NEW n \in Nat, NEW d, Fits(d, n), NEW b \in DOMAIN d.blocks, NEW autoRd
    PROVE  Fits(TouchBlock(d, b), n) /\ Follows(d, TouchBlock(d, b), autoRd)
<1> DEFINE bs == [d.blocks EXCEPT ![b].rest = 1 - d.blocks[b].rest]
<1>0. /\ IsRecord(d) /\ IsList(d.blocks, 1 .. n, Block) /\ Numbered(d.blocks)
      /\ \A x \in DOMAIN d.blocks : d.blocks[x] \in Block
  BY DocParts
<1>1. TouchBlock(d, b) = [d EXCEPT !.blocks = bs]
  BY <1>0 DEF TouchBlock, IsRecord
<1>2. /\ DOMAIN bs = DOMAIN d.blocks /\ bs = [x \in DOMAIN d.blocks |-> bs[x]]
      /\ \A x \in DOMAIN d.blocks : x # b => bs[x] = d.blocks[x]
      /\ bs[b] = [d.blocks[b] EXCEPT !.rest = 1 - d.blocks[b].rest]
  BY <1>0 DEF IsList
<1> HIDE DEF bs
<1>3. bs[b] \in Block /\ bs[b].pos = d.blocks[b].pos /\ bs[b].supplier = d.blocks[b].supplier
  BY <1>0, <1>2 DEF Block
<1>4. \A x \in DOMAIN d.blocks : /\ bs[x] \in Block /\ bs[x].pos = d.blocks[x].pos
                                 /\ bs[x].supplier = d.blocks[x].supplier
  BY <1>0, <1>2, <1>3
<1>5. IsList(bs, 1 .. n, Block)
  BY <1>0, <1>2, <1>4 DEF IsList
<1>6. Numbered(bs)
  BY <1>0, <1>2, <1>4, NumberedAgain
<1> QED BY <1>1, <1>2, <1>4, <1>5, <1>6, BlocksAgain

LEMMA SetHeaderFits ==
    ASSUME NEW n \in Nat, NEW d, Fits(d, n), NEW header \in Headers, NEW autoRd
    PROVE  Fits(SetHeader(d, header), n) /\ Follows(d, SetHeader(d, header), autoRd)
<1> DEFINE e == SetHeader(d, header)
<1>1. /\ IsRecord(e) /\ e.header = header /\ e.lines = d.lines
      /\ e.blocks = d.blocks /\ e.offers = d.offers
  BY DocParts DEF IsRecord, SetHeader
<1> HIDE DEF e
<1>2. IsDocument(e, n)
  BY <1>1, DocParts, DocFrom
<1>3. Sound(e)
  BY <1>1, DocParts DEF Sound, Linked, Chosen
<1>4. Follows(d, e, autoRd)
  BY <1>1 DEF Follows, QtysFollow
<1> QED BY <1>2, <1>3, <1>4 DEF Fits, e

\* A line more, or the same lines with other places.
LEMMA AddLineFits ==
    ASSUME NEW n \in Nat, NEW d, Fits(d, n), NEW k \in Nat, NEW qty \in Nat, NEW autoRd
    PROVE  LET e == AddLine(d, n + 1, 2 * k + 1, qty)
           IN  Fits(e, n + 1) /\ Follows(d, e, autoRd)
<1> DEFINE l == n + 1
           item == NewLine(2 * k + 1, qty)
           spaced == Spaced(d.lines)
           put == Upserted(spaced, One(l, item))
           ls == Renumbered(put)
           e == AddLine(d, n + 1, 2 * k + 1, qty)
<1>1. /\ l \in 1 .. n + 1 /\ l \notin DOMAIN d.lines
      /\ IsList(d.lines, 1 .. l, Line) /\ Distinct(d.lines) /\ l \in Nat
      /\ \A x \in DOMAIN d.lines : d.lines[x] \in Line /\ d.lines[x].pos \in Nat
  <2>1. Fits(d, n + 1)
    BY FitsMore
  <2>2. IsList(d.lines, 1 .. n + 1, Line) /\ Distinct(d.lines)
    BY <2>1, DocParts
  <2>3. \A x \in DOMAIN d.lines : x \in 1 .. n /\ d.lines[x] \in Line /\ d.lines[x].pos \in Nat
    BY DocParts DEF Line
  <2> QED BY <2>2, <2>3
<1>2. item \in Line /\ item.pos = 2 * k + 1 /\ item.sel = Null
  BY DEF NewLine, Line, Maybe
<1> HIDE DEF item
<1>3. IsList(One(l, item), 1 .. l, Line) /\ DOMAIN One(l, item) = {l} /\ One(l, item)[l] = item
  <2>1. l \in 1 .. l
    BY <1>1
  <2> HIDE DEF l
  <2> QED BY <1>2, <2>1, OneList
<1> HIDE DEF l
<1>4. /\ IsList(spaced, 1 .. l, Line) /\ DOMAIN spaced = DOMAIN d.lines /\ Distinct(spaced)
      /\ \A x \in DOMAIN d.lines : /\ spaced[x] = [d.lines[x] EXCEPT !.pos = 2 * d.lines[x].pos]
                                   /\ spaced[x].pos = 2 * d.lines[x].pos
  BY <1>1, PlacedItems, SpacedList
<1>5. \A x \in DOMAIN d.lines : spaced[x].qty = d.lines[x].qty /\ spaced[x].sel = d.lines[x].sel
  BY <1>1, <1>4 DEF Line
<1> HIDE DEF spaced
<1>6. /\ IsList(put, 1 .. l, Line) /\ DOMAIN put = DOMAIN d.lines \cup {l} /\ put[l] = item
      /\ \A x \in DOMAIN d.lines : put[x] = spaced[x]
  <2> DEFINE one == One(l, item)
  <2>1. IsList(spaced, 1 .. l, Line) /\ IsList(one, 1 .. l, Line) /\ DOMAIN one = {l} /\ one[l] = item
    BY <1>3, <1>4
  <2> HIDE DEF one
  <2>2. /\ IsList(Upserted(spaced, one), 1 .. l, Line)
        /\ DOMAIN Upserted(spaced, one) = DOMAIN spaced \cup DOMAIN one
        /\ \A x \in DOMAIN one : Upserted(spaced, one)[x] = one[x]
        /\ \A x \in DOMAIN spaced \ DOMAIN one : Upserted(spaced, one)[x] = spaced[x]
    BY <2>1, UpsertedList
  <2>3. put = Upserted(spaced, one)
    BY DEF one
  <2> HIDE DEF put
  <2> QED BY <1>1, <1>4, <2>1, <2>2, <2>3
<1> HIDE DEF put
<1>7. Distinct(put)
  <2>1. \A x \in DOMAIN d.lines : put[x].pos # put[l].pos
    BY <1>1, <1>2, <1>4, <1>6, OddIsNotEven
  <2> QED BY <1>4, <1>6, <2>1 DEF Distinct
<1>8. IsList(ls, 1 .. l, Line) /\ SameButPlace(ls, put) /\ Numbered(ls)
  BY <1>1, <1>6, <1>7, PlacedItems, RenumberedList
<1> HIDE DEF ls
<1>9. /\ DOMAIN ls = DOMAIN d.lines \cup {l} /\ ls[l].sel = Null
      /\ \A x \in DOMAIN d.lines : ls[x].qty = d.lines[x].qty /\ ls[x].sel = d.lines[x].sel
  <2>1. /\ DOMAIN ls = DOMAIN put
        /\ \A x \in DOMAIN put : ls[x].qty = put[x].qty /\ ls[x].sel = put[x].sel
    BY <1>6, <1>8, LinesButPlace
  <2> QED BY <1>2, <1>5, <1>6, <2>1
<1>10. /\ IsRecord(e) /\ e.header = d.header /\ e.lines = ls
       /\ e.blocks = d.blocks /\ e.offers = d.offers
  BY DocParts DEF IsRecord, AddLine, ls, put, spaced, item, l
<1> HIDE DEF e
<1>11. IsDocument(e, n + 1)
  <2>1. Fits(d, n + 1)
    BY FitsMore
  <2>2. /\ d.header \in Headers /\ IsList(d.blocks, 1 .. n + 1, Block)
        /\ IsList(d.offers, OfferIds(n + 1), Offer)
    BY <2>1, DocParts
  <2>3. IsList(ls, 1 .. n + 1, Line)
    BY <1>8 DEF l
  <2> QED BY <1>10, <2>2, <2>3, DocFrom
<1>12. Linked(e)
  BY <1>9, <1>10, DocParts DEF Linked
<1>13. Chosen(e)
  BY <1>9, <1>10, DocParts DEF Chosen
<1>14. Follows(d, e, autoRd)
  BY <1>9, <1>10, DocParts DEF Follows, QtysFollow, Linked
<1> QED BY <1>8, <1>10, <1>11, <1>12, <1>13, <1>14, DocParts DEF Fits, Sound, e

\* One new line, no offers.
LEMMA ReplaceLinesFits ==
    ASSUME NEW n \in Nat, NEW d, Fits(d, n), NEW qty \in Nat, NEW autoRd
    PROVE  LET e == ReplaceLines(d, n + 1, qty)
           IN  Fits(e, n + 1) /\ Follows(d, e, autoRd)
<1> DEFINE l == n + 1
           item == NewLine(1, qty)
           ls == One(l, item)
           os == Restrict(d.offers, {})
           e == ReplaceLines(d, n + 1, qty)
<1>1. item \in Line /\ item.pos = 1 /\ item.sel = Null
  BY DEF NewLine, Line, Maybe
<1> HIDE DEF item
<1>2. IsList(ls, 1 .. l, Line) /\ DOMAIN ls = {l} /\ ls[l] = item
  <2>1. l \in 1 .. l
    OBVIOUS
  <2> HIDE DEF l
  <2> QED BY <1>1, <2>1, OneList
<1> HIDE DEF ls
<1>3. Numbered(ls)
  <2>1. Cardinality({l}) = 1
    BY FS_Singleton
  <2> HIDE DEF l
  <2> QED BY <1>1, <1>2, <2>1 DEF Numbered
<1>4. DOMAIN os = {} /\ IsList(os, OfferIds(n + 1), Offer)
  <2> DEFINE ids == OfferIds(n + 1)
  <2> HIDE DEF ids
  <2>1. DOMAIN os = {} /\ IsList(os, ids, Offer)
    BY DEF Restrict, IsList
  <2> QED BY <2>1 DEF ids
<1>5. /\ IsRecord(e) /\ e.header = d.header /\ e.lines = ls
      /\ e.blocks = d.blocks /\ e.offers = os
  <2>1. IsRecord(d)
    BY DocParts
  <2>2. e = WithLinesAndOffers(d, ls, os)
    BY <2>1 DEF ReplaceLines, WithLinesAndOffers, ls, item, l, IsRecord
  <2> HIDE DEF e, os
  <2> QED BY <2>1, <2>2, LinesAndOffersSet
<1> HIDE DEF e, os
<1>6. /\ d.header \in Headers /\ IsList(d.blocks, 1 .. n + 1, Block)
      /\ Linked(d) /\ Numbered(d.blocks)
  <2>1. Fits(d, n + 1)
    BY FitsMore
  <2> QED BY <2>1, DocParts
<1>7. IsDocument(e, n + 1)
  <2>1. IsList(ls, 1 .. n + 1, Line)
    BY <1>2 DEF l
  <2> QED BY <1>4, <1>5, <1>6, <2>1, DocFrom
<1>8. Linked(e)
  BY <1>4, <1>5, <1>6 DEF Linked
<1>9. Chosen(e)
  BY <1>1, <1>2, <1>5 DEF Chosen
<1>10. Follows(d, e, autoRd)
  BY <1>4, <1>5 DEF Follows, QtysFollow
<1> QED BY <1>3, <1>5, <1>6, <1>7, <1>8, <1>9, <1>10 DEF Fits, Sound, e

\* These lines and blocks of d, without places for what is gone of its offers,
\* have not chosen any of that.
Spared(d, n, ls, bs, gone) ==
    /\ IsList(ls, 1 .. n, Line) /\ Numbered(ls) /\ DOMAIN ls \subseteq DOMAIN d.lines
    /\ \A l \in DOMAIN ls : /\ ls[l].qty = d.lines[l].qty
                            /\ ls[l].sel \in {Null, d.lines[l].sel}
    /\ IsList(bs, 1 .. n, Block) /\ Numbered(bs) /\ DOMAIN bs \subseteq DOMAIN d.blocks
    /\ \A b \in DOMAIN bs : bs[b].supplier = d.blocks[b].supplier
    /\ \A o \in DOMAIN d.offers \ gone : /\ d.offers[o].line \in DOMAIN ls
                                         /\ d.offers[o].block \in DOMAIN bs
    /\ \A o \in DOMAIN d.offers \cap gone : d.offers[o].line \in DOMAIN ls =>
           ls[d.offers[o].line].sel = Null \/ ls[d.offers[o].line].sel # d.offers[o].block

LEMMA FewerOffers ==
    ASSUME NEW n \in Nat, NEW d, Fits(d, n), NEW ls, NEW bs, NEW gone,
           Spared(d, n, ls, bs, gone),
           NEW e, IsRecord(e), e.header = d.header, e.lines = ls, e.blocks = bs,
           e.offers = Without(d.offers, gone), NEW autoRd
    PROVE  Fits(e, n) /\ Follows(d, e, autoRd)
<1> DEFINE os == Without(d.offers, gone)
<1>0. IsList(d.offers, OfferIds(n), Offer) /\ d.header \in Headers /\ Linked(d) /\ Chosen(d)
  BY DocParts
<1>1. /\ IsList(os, OfferIds(n), Offer) /\ DOMAIN os = DOMAIN d.offers \ gone
      /\ \A o \in DOMAIN os : os[o] = d.offers[o]
  <2> DEFINE list == d.offers
             ids == OfferIds(n)
             new == Without(list, gone)
  <2>1. IsList(list, ids, Offer)
    BY <1>0
  <2> HIDE DEF list, ids, os
  <2>2. /\ IsList(new, ids, Offer)
        /\ DOMAIN new = DOMAIN list \ gone
        /\ \A o \in DOMAIN list \ gone : new[o] = list[o]
    BY <2>1 DEF IsList, Without, Restrict
  <2> HIDE DEF new
  <2>3. os = new
    BY DEF os, list, new
  <2> QED BY <2>2, <2>3 DEF list, ids
<1>2. e.offers = os
  OBVIOUS
<1> HIDE DEF os
<1>3. IsDocument(e, n)
  <2>1. IsList(ls, 1 .. n, Line) /\ IsList(bs, 1 .. n, Block)
    BY DEF Spared
  <2> QED BY <1>0, <1>1, <1>2, <2>1, DocFrom
<1>4. Linked(e)
  <2>1. \A o \in DOMAIN os : os[o].line \in DOMAIN ls /\ os[o].block \in DOMAIN bs
    BY <1>1 DEF Spared
  <2>2. \A o, p \in DOMAIN os : SamePair(os, o, p) => o = p
    BY <1>0, <1>1 DEF Linked, SamePair
  <2>3. \A b, c \in DOMAIN bs : bs[b].supplier = bs[c].supplier => b = c
    BY <1>0 DEF Linked, Spared
  <2> QED BY <1>2, <2>1, <2>2, <2>3 DEF Linked
<1>5. Chosen(e)
  <2> SUFFICES ASSUME NEW l \in DOMAIN ls, ls[l].sel # Null
               PROVE  \E o \in DOMAIN os : /\ os[o].line = l /\ os[o].block = ls[l].sel
                                           /\ ~os[o].out
    BY <1>2 DEF Chosen
  <2>1. l \in DOMAIN d.lines /\ ls[l].sel = d.lines[l].sel
    BY DEF Spared
  <2>2. PICK o \in DOMAIN d.offers : /\ d.offers[o].line = l
                                     /\ d.offers[o].block = d.lines[l].sel
                                     /\ ~d.offers[o].out
    BY <1>0, <2>1 DEF Chosen
  <2>3. o \notin gone
    BY <2>1, <2>2 DEF Spared
  <2> QED BY <1>1, <2>1, <2>2, <2>3
<1>6. Follows(d, e, autoRd)
  BY <1>1, <1>2 DEF Follows, QtysFollow, Spared
<1> QED BY <1>3, <1>4, <1>5, <1>6 DEF Fits, Sound, Spared


LEMMA RemoveLinesFits ==
    ASSUME NEW n \in Nat, NEW d, Fits(d, n), NEW gone, NEW autoRd
    PROVE  Fits(RemoveLines(d, gone), n) /\ Follows(d, RemoveLines(d, gone), autoRd)
<1> DEFINE list == d.lines
           left == Without(list, gone)
           ls == Renumbered(left)
           e == RemoveLines(d, gone)
<1>1. /\ IsRecord(d) /\ IsList(list, 1 .. n, Line) /\ Distinct(list)
      /\ IsList(d.blocks, 1 .. n, Block) /\ Numbered(d.blocks)
      /\ \A o \in DOMAIN d.offers : /\ d.offers[o].line \in DOMAIN list
                                    /\ d.offers[o].block \in DOMAIN d.blocks
  BY DocParts DEF Linked
<1>2. /\ IsRecord(e) /\ e.header = d.header /\ e.lines = ls /\ e.blocks = d.blocks
      /\ e.offers = Without(d.offers, OffersOfLines(d, gone))
  <2> DEFINE os == Without(d.offers, OffersOfLines(d, gone))
  <2>1. e = WithLinesAndOffers(d, ls, os)
    BY DEF RemoveLines, WithLinesAndOffers
  <2> HIDE DEF e, ls, os
  <2>2. /\ IsRecord(e) /\ e.header = d.header /\ e.lines = ls
        /\ e.blocks = d.blocks /\ e.offers = os
    BY <1>1, <2>1, LinesAndOffersSet
  <2> QED BY <2>2 DEF os
<1> HIDE DEF e, list
<1>3. /\ IsList(left, 1 .. n, Line) /\ DOMAIN left = DOMAIN list \ gone
      /\ \A l \in DOMAIN left : left[l] = list[l]
  BY <1>1 DEF IsList, Without, Restrict
<1> HIDE DEF left
<1>4. Distinct(left)
  BY <1>1, <1>3 DEF Distinct
<1>5. IsList(ls, 1 .. n, Line) /\ SameButPlace(ls, left) /\ Numbered(ls)
  BY <1>3, <1>4, PlacedItems, RenumberedList
<1> HIDE DEF ls
<1>6. /\ DOMAIN ls = DOMAIN list \ gone
      /\ \A l \in DOMAIN ls : ls[l].qty = list[l].qty /\ ls[l].sel = list[l].sel
  <2>1. /\ DOMAIN ls = DOMAIN left
        /\ \A x \in DOMAIN left : ls[x].qty = left[x].qty /\ ls[x].sel = left[x].sel
    BY <1>3, <1>5, LinesButPlace
  <2> QED BY <1>3, <2>1
<1>7. /\ DOMAIN ls \subseteq DOMAIN d.lines
      /\ \A l \in DOMAIN ls : /\ ls[l].qty = d.lines[l].qty
                              /\ ls[l].sel \in {Null, d.lines[l].sel}
  BY <1>6 DEF list
<1>8. /\ \A o \in DOMAIN d.offers \ OffersOfLines(d, gone) :
             d.offers[o].line \in DOMAIN ls /\ d.offers[o].block \in DOMAIN d.blocks
      /\ \A o \in DOMAIN d.offers \cap OffersOfLines(d, gone) : d.offers[o].line \notin DOMAIN ls
  BY <1>1, <1>6 DEF OffersOfLines
<1>9. Spared(d, n, ls, d.blocks, OffersOfLines(d, gone))
  BY <1>1, <1>5, <1>7, <1>8 DEF Spared
<1>10. Fits(e, n) /\ Follows(d, e, autoRd)
  BY <1>2, <1>9, FewerOffers
<1> QED BY <1>10 DEF e

LEMMA UnchosenLines ==
    ASSUME NEW n \in Nat, NEW d, Fits(d, n), NEW gone
    PROVE  LET ls == Unchosen(d, gone)
           IN  /\ IsList(ls, 1 .. n, Line) /\ DOMAIN ls = DOMAIN d.lines /\ Numbered(ls)
               /\ \A l \in DOMAIN ls : /\ ls[l].qty = d.lines[l].qty
                                       /\ ls[l].sel \in {Null, d.lines[l].sel}
               /\ \A o \in gone : d.offers[o].line \in DOMAIN ls =>
                      \/ ls[d.offers[o].line].sel = Null
                      \/ ls[d.offers[o].line].sel # d.offers[o].block
<1> DEFINE ls == Unchosen(d, gone)
           hit(l) == \E o \in gone : d.offers[o].line = l /\ d.offers[o].block = d.lines[l].sel
<1>1. /\ IsList(d.lines, 1 .. n, Line) /\ Numbered(d.lines) /\ DOMAIN d.lines \subseteq 1 .. n
      /\ \A l \in DOMAIN d.lines : d.lines[l] \in Line
  BY DocParts
<1>2. /\ ls = [l \in DOMAIN d.lines |-> ls[l]]
      /\ \A l \in DOMAIN d.lines :
             ls[l] = IF hit(l) THEN [d.lines[l] EXCEPT !.sel = Null] ELSE d.lines[l]
  BY DEF Unchosen
<1> HIDE DEF ls, hit
<1>3. ASSUME NEW l \in DOMAIN d.lines
      PROVE  /\ ls[l] \in Line /\ ls[l].pos = d.lines[l].pos /\ ls[l].qty = d.lines[l].qty
             /\ ls[l].sel = IF hit(l) THEN Null ELSE d.lines[l].sel
  <2>1. /\ [d.lines[l] EXCEPT !.sel = Null] \in Line
        /\ [d.lines[l] EXCEPT !.sel = Null].pos = d.lines[l].pos
        /\ [d.lines[l] EXCEPT !.sel = Null].qty = d.lines[l].qty
        /\ [d.lines[l] EXCEPT !.sel = Null].sel = Null
    BY <1>1 DEF Line, Maybe
  <2> QED BY <1>1, <1>2, <2>1
<1>4. IsList(ls, 1 .. n, Line) /\ DOMAIN ls = DOMAIN d.lines
  BY <1>1, <1>2, <1>3, ListFrom
<1>5. Numbered(ls)
  BY <1>1, <1>3, <1>4, NumberedAgain
<1>6. \A l \in DOMAIN ls : ls[l].qty = d.lines[l].qty /\ ls[l].sel \in {Null, d.lines[l].sel}
  BY <1>3, <1>4
<1>7. ASSUME NEW o \in gone, d.offers[o].line \in DOMAIN ls
      PROVE  \/ ls[d.offers[o].line].sel = Null
             \/ ls[d.offers[o].line].sel # d.offers[o].block
  <2> DEFINE l == d.offers[o].line
  <2>1. l \in DOMAIN d.lines
    BY <1>4, <1>7
  <2>2. hit(l) \/ d.lines[l].sel # d.offers[o].block
    BY DEF hit
  <2> HIDE DEF l
  <2>3. ls[l].sel = IF hit(l) THEN Null ELSE d.lines[l].sel
    BY <1>3, <2>1
  <2> QED BY <2>2, <2>3 DEF l
<1> QED BY <1>4, <1>5, <1>6, <1>7 DEF ls

LEMMA RemoveOffersFits ==
    ASSUME NEW n \in Nat, NEW d, Fits(d, n), NEW gone, NEW autoRd
    PROVE  Fits(RemoveOffers(d, gone), n) /\ Follows(d, RemoveOffers(d, gone), autoRd)
<1> DEFINE ls == Unchosen(d, gone)
           e == RemoveOffers(d, gone)
<1>1. /\ IsRecord(d) /\ IsList(d.blocks, 1 .. n, Block) /\ Numbered(d.blocks)
      /\ \A o \in DOMAIN d.offers : /\ d.offers[o].line \in DOMAIN d.lines
                                    /\ d.offers[o].block \in DOMAIN d.blocks
  BY DocParts DEF Linked
<1>2. /\ IsList(ls, 1 .. n, Line) /\ DOMAIN ls = DOMAIN d.lines /\ Numbered(ls)
      /\ \A l \in DOMAIN ls : /\ ls[l].qty = d.lines[l].qty
                              /\ ls[l].sel \in {Null, d.lines[l].sel}
      /\ \A o \in gone : d.offers[o].line \in DOMAIN ls =>
             \/ ls[d.offers[o].line].sel = Null
             \/ ls[d.offers[o].line].sel # d.offers[o].block
  BY UnchosenLines
<1>3. /\ IsRecord(e) /\ e.header = d.header /\ e.lines = ls /\ e.blocks = d.blocks
      /\ e.offers = Without(d.offers, gone)
  <2> DEFINE os == Without(d.offers, gone)
  <2>1. e = WithLinesAndOffers(d, ls, os)
    BY DEF RemoveOffers, WithLinesAndOffers
  <2> HIDE DEF e, ls, os
  <2>2. /\ IsRecord(e) /\ e.header = d.header /\ e.lines = ls
        /\ e.blocks = d.blocks /\ e.offers = os
    BY <1>1, <2>1, LinesAndOffersSet
  <2> QED BY <2>2 DEF os
<1> HIDE DEF e, ls
<1>4. Spared(d, n, ls, d.blocks, gone)
  BY <1>1, <1>2 DEF Spared
<1>5. Fits(e, n) /\ Follows(d, e, autoRd)
  BY <1>3, <1>4, FewerOffers
<1> QED BY <1>5 DEF e


Picking(line, b) == [line EXCEPT !.sel = b]

LEMMA ChoosingIsLine ==
    ASSUME NEW line \in Line, NEW b \in Maybe(Nat)
    PROVE  /\ Picking(line, b) \in Line /\ Picking(line, b).pos = line.pos
           /\ Picking(line, b).qty = line.qty /\ Picking(line, b).sel = b
BY DEF Picking, Line

\* Lines, each with the choice it had or another.
LEMMA ChosenList ==
    ASSUME NEW list, NEW ids, IsList(list, ids, Line), Numbered(list), NEW choose,
           \A l \in DOMAIN list : choose[l] \in Maybe(Nat),
           NEW new, new = [l \in DOMAIN list |-> new[l]],
           \A l \in DOMAIN list : new[l] = list[l] \/ new[l] = Picking(list[l], choose[l])
    PROVE  /\ IsList(new, ids, Line) /\ Numbered(new) /\ DOMAIN new = DOMAIN list
           /\ \A l \in DOMAIN list : new[l].qty = list[l].qty
           /\ \A l \in DOMAIN list : new[l].sel \in {list[l].sel, choose[l]}
<1>1. DOMAIN list \subseteq ids /\ \A l \in DOMAIN list : list[l] \in Line
  BY ListParts
<1>2. \A l \in DOMAIN list : /\ new[l] \in Line /\ new[l].pos = list[l].pos
                             /\ new[l].qty = list[l].qty /\ new[l].sel \in {list[l].sel, choose[l]}
  BY <1>1, ChoosingIsLine
<1>3. IsList(new, ids, Line) /\ DOMAIN new = DOMAIN list
  BY <1>1, <1>2, ListFrom
<1>4. Numbered(new)
  BY <1>2, <1>3, NumberedAgain
<1> QED BY <1>2, <1>3, <1>4

LEMMA RemoveBlockFits ==
    ASSUME NEW n \in Nat, NEW d, Fits(d, n), NEW b \in DOMAIN d.blocks, NEW autoRd
    PROVE  Fits(RemoveBlock(d, b), n) /\ Follows(d, RemoveBlock(d, b), autoRd)
<1> DEFINE gone == OffersOfBlock(d, b)
           left == RemoveOffers(d, gone)
           us == Unchosen(d, gone)
           ls == [l \in DOMAIN d.lines |->
                    IF us[l].sel = b THEN Picking(us[l], Null) ELSE us[l]]
           list == d.blocks
           rest == Without(list, {b})
           bs == Renumbered(rest)
           e == RemoveBlock(d, b)
<1>1. /\ IsRecord(d) /\ IsList(list, 1 .. n, Block) /\ Distinct(list)
      /\ \A o \in DOMAIN d.offers : /\ d.offers[o].line \in DOMAIN d.lines
                                    /\ d.offers[o].block \in DOMAIN list
  BY DocParts DEF Linked
<1>2. /\ IsList(us, 1 .. n, Line) /\ DOMAIN us = DOMAIN d.lines /\ Numbered(us)
      /\ \A l \in DOMAIN us : /\ us[l].qty = d.lines[l].qty
                              /\ us[l].sel \in {Null, d.lines[l].sel}
  BY UnchosenLines
<1>3. /\ IsRecord(left) /\ left.header = d.header /\ left.lines = us /\ left.blocks = d.blocks
      /\ left.offers = Without(d.offers, gone)
  <2> DEFINE os == Without(d.offers, gone)
  <2>1. left = WithLinesAndOffers(d, us, os)
    BY DEF RemoveOffers, WithLinesAndOffers
  <2> HIDE DEF left, us, os
  <2>2. /\ IsRecord(left) /\ left.header = d.header /\ left.lines = us
        /\ left.blocks = d.blocks /\ left.offers = os
    BY <1>1, <2>1, LinesAndOffersSet
  <2> QED BY <2>2 DEF os
<1>4. /\ IsRecord(e) /\ e.header = d.header /\ e.lines = ls /\ e.blocks = bs
      /\ e.offers = Without(d.offers, gone)
  <2>1. ls = [l \in DOMAIN d.lines |->
                 IF left.lines[l].sel = b THEN [left.lines[l] EXCEPT !.sel = Null]
                 ELSE left.lines[l]]
    <3> HIDE DEF left, us
    <3> QED BY <1>3 DEF Picking
  <2>2. e = [left EXCEPT !.blocks = bs, !.lines = ls]
    <3> HIDE DEF ls
    <3>1. e = [left EXCEPT !.blocks = Renumbered(Without(left.blocks, {b})),
                           !.lines = [l \in DOMAIN d.lines |->
                 IF left.lines[l].sel = b THEN [left.lines[l] EXCEPT !.sel = Null]
                 ELSE left.lines[l]]]
      BY DEF RemoveBlock
    <3> HIDE DEF left, e
    <3> QED BY <1>3, <2>1, <3>1
  <2> HIDE DEF left, ls, bs, e
  <2> DEFINE c == [left EXCEPT !.blocks = bs]
  <2>3. /\ IsRecord(c) /\ c.header = left.header /\ c.lines = left.lines
        /\ c.blocks = bs /\ c.offers = left.offers
    BY <1>3 DEF IsRecord
  <2>4. e = [c EXCEPT !.lines = ls]
    BY <1>3, <2>2 DEF IsRecord
  <2> HIDE DEF c
  <2>5. /\ IsRecord(e) /\ e.header = c.header /\ e.lines = ls
        /\ e.blocks = c.blocks /\ e.offers = c.offers
    BY <2>3, <2>4 DEF IsRecord
  <2> QED BY <1>3, <2>3, <2>5
<1> HIDE DEF e, left, us, list
<1>5. /\ IsList(rest, 1 .. n, Block) /\ DOMAIN rest = DOMAIN list \ {b}
      /\ \A x \in DOMAIN rest : rest[x] = list[x]
  BY <1>1 DEF IsList, Without, Restrict
<1> HIDE DEF rest
<1>6. Distinct(rest)
  BY <1>1, <1>5 DEF Distinct
<1>7. IsList(bs, 1 .. n, Block) /\ SameButPlace(bs, rest) /\ Numbered(bs)
  BY <1>5, <1>6, PlacedItems, RenumberedList
<1> HIDE DEF bs
<1>8. DOMAIN bs = DOMAIN list \ {b} /\ \A x \in DOMAIN bs : bs[x].supplier = list[x].supplier
  <2>1. DOMAIN bs = DOMAIN rest /\ \A x \in DOMAIN rest : bs[x].supplier = rest[x].supplier
    BY <1>5, <1>7, BlocksButPlace
  <2> QED BY <1>5, <2>1
<1>9. /\ ls = [l \in DOMAIN us |-> ls[l]]
      /\ \A l \in DOMAIN us :
             ls[l] = IF us[l].sel = b THEN Picking(us[l], Null) ELSE us[l]
  BY <1>2
<1> HIDE DEF ls
<1>10. /\ IsList(ls, 1 .. n, Line) /\ Numbered(ls) /\ DOMAIN ls = DOMAIN d.lines
       /\ \A l \in DOMAIN ls : /\ ls[l].qty = d.lines[l].qty /\ ls[l].sel # b
                               /\ ls[l].sel \in {Null, d.lines[l].sel}
  <2> DEFINE none == [l \in DOMAIN us |-> Null]
  <2>1. \A l \in DOMAIN us : none[l] = Null /\ none[l] \in Maybe(Nat)
    BY DEF Maybe
  <2> HIDE DEF none
  <2>2. \A l \in DOMAIN us : ls[l] = us[l] \/ ls[l] = Picking(us[l], none[l])
    BY <1>9, <2>1
  <2>3. /\ IsList(ls, 1 .. n, Line) /\ Numbered(ls) /\ DOMAIN ls = DOMAIN us
        /\ \A l \in DOMAIN us : ls[l].qty = us[l].qty
        /\ \A l \in DOMAIN us : ls[l].sel \in {us[l].sel, none[l]}
    BY <1>2, <1>9, <2>1, <2>2, ChosenList
  <2>4. \A l \in DOMAIN us : us[l] \in Line
    BY <1>2, ListParts
  <2>5. Null \in Maybe(Nat) /\ b # Null
    <3>1. b \in Nat
      BY DocParts
    <3> QED BY <3>1, NullAssumption DEF Maybe
  <2>6. \A l \in DOMAIN us : ls[l].sel # b
    <3> SUFFICES ASSUME NEW l \in DOMAIN us PROVE ls[l].sel # b
      OBVIOUS
    <3>1. CASE us[l].sel = b
      <4>1. ls[l] = Picking(us[l], Null) /\ Picking(us[l], Null).sel = Null
        BY <1>9, <2>4, <2>5, <3>1, ChoosingIsLine
      <4> QED BY <2>5, <4>1
    <3>2. CASE us[l].sel # b
      BY <1>9, <3>2
    <3> QED BY <3>1, <3>2
  <2> QED BY <1>2, <2>1, <2>3, <2>6
<1>11. Spared(d, n, ls, bs, gone)
  <2>1. /\ \A o \in DOMAIN d.offers \ gone : d.offers[o].block # b
        /\ \A o \in gone : d.offers[o].block = b
    BY DEF OffersOfBlock
  <2> HIDE DEF gone
  <2>2. /\ \A o \in DOMAIN d.offers \ gone : /\ d.offers[o].line \in DOMAIN ls
                                             /\ d.offers[o].block \in DOMAIN bs
        /\ \A o \in DOMAIN d.offers \cap gone : d.offers[o].line \in DOMAIN ls =>
               ls[d.offers[o].line].sel # d.offers[o].block
    BY <1>1, <1>8, <1>10, <2>1
  <2>3. \A x \in DOMAIN bs : bs[x].supplier = d.blocks[x].supplier
    BY <1>8 DEF list
  <2>4. DOMAIN bs \subseteq DOMAIN d.blocks
    BY <1>8 DEF list
  <2> QED BY <1>7, <1>10, <2>2, <2>3, <2>4 DEF Spared
<1>12. Fits(e, n) /\ Follows(d, e, autoRd)
  <2> HIDE DEF gone
  <2> QED BY <1>4, <1>11, FewerOffers
<1> QED BY <1>12 DEF e


LEMMA InitialQtyIsQty ==
    ASSUME NEW qty \in Nat, NEW multiple \in Nat \ {0}, NEW autoRd
    PROVE  InitialQty(qty, multiple, autoRd) \in Maybe(Nat)
<1> DEFINE k == qty \div multiple
<1>1. k \in Nat
  OBVIOUS
<1> HIDE DEF k
<1>2. multiple * (k + 1) \in Nat
  BY <1>1
<1>3. InitialQty(qty, multiple, autoRd) \in {Null, multiple * (k + 1)}
  BY DEF InitialQty, k
<1> QED BY <1>2, <1>3 DEF Maybe

LEMMA AutoQtyIsQty ==
    ASSUME NEW offer \in Offer, NEW qty \in Nat, NEW autoRd
    PROVE  AutoQty(offer, qty, autoRd) \in Maybe(Nat)
<1>1. MultipleOf(offer) \in Nat \ {0}
  <2>1. offer.product \in Products
    BY DEF Offer
  <2> QED BY <2>1, ProductsAssumption DEF MultipleOf
<1> QED BY <1>1, InitialQtyIsQty DEF AutoQty

\* The supplier has a block then; lines and offers are as they were.
LEMMA EnsureBlockFits ==
    ASSUME NEW n \in Nat, NEW d, Fits(d, n), NEW s \in Suppliers, NEW autoRd
    PROVE  LET e == EnsureBlock(d, n + 1, s)
           IN  /\ Fits(e, n + 1) /\ Follows(d, e, autoRd)
               /\ e.lines = d.lines /\ e.offers = d.offers
               /\ BlocksOf(e, s) # {}
<1> DEFINE l == n + 1
           list == d.blocks
           item == [pos |-> Cardinality(DOMAIN list) + 1, supplier |-> s, rest |-> 0]
           bs == Upserted(list, One(l, item))
           e == EnsureBlock(d, n + 1, s)
<1>0. Fits(d, n + 1)
  BY FitsMore
<1>1. CASE BlocksOf(d, s) # {}
  <2>1. e = d
    BY <1>1 DEF EnsureBlock
  <2> HIDE DEF e
  <2> QED BY <1>0, <1>1, <2>1 DEF Follows, e
<1>2. CASE BlocksOf(d, s) = {}
  <2>1. /\ IsRecord(d) /\ IsList(list, 1 .. l, Block) /\ Numbered(list)
        /\ d.header \in Headers /\ IsList(d.lines, 1 .. n + 1, Line)
        /\ IsList(d.offers, OfferIds(n + 1), Offer)
        /\ Linked(d) /\ Chosen(d) /\ Numbered(d.lines)
    BY <1>0, DocParts
  <2>2. DOMAIN list \subseteq 1 .. n /\ l \notin DOMAIN list /\ l \in 1 .. l
    <3>1. \A b \in DOMAIN d.blocks : b \in 1 .. n
      BY DocParts
    <3> QED BY <3>1
  <2>3. e = [d EXCEPT !.blocks = bs]
    BY <1>2 DEF EnsureBlock
  <2> HIDE DEF e, bs
  <2>4. /\ IsRecord(e) /\ e.header = d.header /\ e.lines = d.lines
        /\ e.blocks = bs /\ e.offers = d.offers
    BY <2>1, <2>3 DEF IsRecord
  <2>5. /\ Cardinality(DOMAIN list) \in Nat
        /\ Cardinality(DOMAIN list \cup {l}) = Cardinality(DOMAIN list) + 1
    <3>1. IsFiniteSet(1 .. n)
      BY FS_Interval
    <3>2. IsFiniteSet(DOMAIN list)
      BY <2>2, <3>1, FS_Subset
    <3> QED BY <2>2, <3>2, FS_AddElement, FS_CardinalityType
  <2>6. item \in Block /\ item.pos = Cardinality(DOMAIN list) + 1 /\ item.supplier = s
    BY <2>5 DEF Block
  <2> HIDE DEF item, l
  <2>7. /\ IsList(bs, 1 .. l, Block) /\ DOMAIN bs = DOMAIN list \cup {l} /\ bs[l] = item
        /\ \A x \in DOMAIN list : bs[x] = list[x]
    <3> DEFINE one == One(l, item)
    <3>1. IsList(one, 1 .. l, Block) /\ DOMAIN one = {l} /\ one[l] = item
      BY <2>2, <2>6, OneList
    <3> HIDE DEF one, list
    <3>2. bs = Upserted(list, one)
      BY DEF bs, one
    <3>3. IsList(list, 1 .. l, Block) /\ l \notin DOMAIN list
      BY <2>1, <2>2
    <3>4. /\ IsList(Upserted(list, one), 1 .. l, Block)
          /\ DOMAIN Upserted(list, one) = DOMAIN list \cup DOMAIN one
          /\ \A x \in DOMAIN one : Upserted(list, one)[x] = one[x]
          /\ \A x \in DOMAIN list \ DOMAIN one : Upserted(list, one)[x] = list[x]
      BY <3>1, <3>3, UpsertedList
    <3> HIDE DEF bs
    <3> QED BY <3>1, <3>2, <3>3, <3>4
  <2>8. Numbered(bs)
    <3> HIDE DEF list
    <3>1. \A x \in DOMAIN list : list[x].pos \in 1 .. Cardinality(DOMAIN list)
      BY <2>1 DEF Numbered
    <3>2. \A x \in DOMAIN bs : bs[x].pos \in 1 .. Cardinality(DOMAIN bs)
      BY <2>5, <2>6, <2>7, <3>1
    <3>3. \A x \in DOMAIN list : bs[x].pos # bs[l].pos
      BY <2>5, <2>6, <2>7, <3>1
    <3> QED BY <2>1, <2>7, <3>2, <3>3 DEF Numbered
  <2>9. IsDocument(e, n + 1)
    <3>1. IsList(bs, 1 .. n + 1, Block)
      BY <2>7 DEF l
    <3> QED BY <2>1, <2>4, <3>1, DocFrom
  <2>10. Linked(e)
    <3>1. \A x \in DOMAIN list : list[x].supplier # s
      BY <1>2 DEF BlocksOf
    <3>2. \A x, y \in DOMAIN list : list[x].supplier = list[y].supplier => x = y
      BY <2>1 DEF Linked
    <3>3. \A x, y \in DOMAIN bs : bs[x].supplier = bs[y].supplier => x = y
      <4> HIDE DEF list
      <4> QED BY <2>6, <2>7, <3>1, <3>2
    <3> QED BY <2>1, <2>4, <2>7, <3>3 DEF Linked
  <2>11. Chosen(e)
    BY <2>1, <2>4 DEF Chosen
  <2>12. Follows(d, e, autoRd)
    BY <2>4 DEF Follows, QtysFollow
  <2>13. l \in BlocksOf(e, s)
    BY <2>4, <2>6, <2>7 DEF BlocksOf
  <2>14. Fits(e, n + 1)
    BY <2>1, <2>4, <2>8, <2>9, <2>10, <2>11 DEF Fits, Sound
  <2> QED BY <2>4, <2>12, <2>13, <2>14 DEF e
<1> QED BY <1>1, <1>2


LEMMA NewOfferIsOffer ==
    ASSUME NEW d, NEW l \in Nat, NEW b \in Nat, NEW product \in Products, NEW autoRd,
           d.lines[l].qty \in Nat
    PROVE  LET offer == NewOffer(d, l, b, product, autoRd)
           IN  /\ offer \in Offer /\ offer.line = l /\ offer.block = b /\ ~offer.out
               /\ offer.qty = AutoQty(offer, d.lines[l].qty, autoRd)
<1> DEFINE qty == InitialQty(d.lines[l].qty, Multiple[product], autoRd)
           offer == NewOffer(d, l, b, product, autoRd)
<1>1. qty \in Maybe(Nat)
  <2>1. Multiple[product] \in Nat \ {0}
    BY ProductsAssumption
  <2> QED BY <2>1, InitialQtyIsQty
<1>2. offer = [line |-> l, block |-> b, product |-> product, qty |-> qty, exact |-> FALSE,
               out |-> FALSE, rest |-> 0, hand |-> FALSE]
  BY DEF NewOffer
<1>3. AutoQty(offer, d.lines[l].qty, autoRd) = qty
  <2>1. MultipleOf(offer) = Multiple[product]
    <3> HIDE DEF offer
    <3> QED BY <1>2 DEF MultipleOf
  <2> HIDE DEF offer
  <2> QED BY <2>1 DEF AutoQty
<1> HIDE DEF qty, offer
<1>4. /\ offer \in Offer /\ offer.line = l /\ offer.block = b /\ ~offer.out
      /\ offer.qty = qty
  BY <1>1, <1>2 DEF Offer
<1> QED BY <1>3, <1>4 DEF offer

\* The offers that come in for these lines from block b, by their ids: each in
\* the place of the offer there was, or with an id that was not there.
Incoming(d, n, b, lines, id, items) ==
    /\ lines \subseteq DOMAIN d.lines
    /\ DOMAIN items = {id[l] : l \in lines}
    /\ \A l \in lines : /\ items[id[l]] \in Offer /\ ~items[id[l]].out
                        /\ items[id[l]].line = l /\ items[id[l]].block = b
                        /\ id[l] \in OfferIds(n)
                        /\ id[l] \notin DOMAIN d.offers => OffersAt(d, l, b) = {}
                        /\ id[l] \in DOMAIN d.offers => id[l] \in OffersAt(d, l, b)

LEMMA IncomingOffers ==
    ASSUME NEW n \in Nat, NEW d, Fits(d, n), NEW b \in DOMAIN d.blocks, NEW lines, NEW id, NEW items,
           Incoming(d, n, b, lines, id, items), items = [o \in DOMAIN items |-> items[o]],
           NEW e, e = [d EXCEPT !.offers = Upserted(d.offers, items)]
    PROVE  /\ Fits(e, n)
           /\ e.lines = d.lines /\ e.offers = Upserted(d.offers, items)
<1> DEFINE os == Upserted(d.offers, items)
<1>1. /\ IsRecord(d) /\ IsRecord(e) /\ e.header = d.header /\ e.lines = d.lines
      /\ e.blocks = d.blocks /\ e.offers = os
  BY DocParts DEF IsRecord
<1>2. /\ d.header \in Headers /\ IsList(d.lines, 1 .. n, Line) /\ IsList(d.blocks, 1 .. n, Block)
      /\ IsList(d.offers, OfferIds(n), Offer)
      /\ Linked(d) /\ Chosen(d) /\ Numbered(d.lines) /\ Numbered(d.blocks)
  BY DocParts
<1>3. /\ DOMAIN items \subseteq OfferIds(n)
      /\ \A o \in DOMAIN items : \E l \in lines : o = id[l]
      /\ \A o \in DOMAIN items : /\ items[o] \in Offer /\ ~items[o].out
                                 /\ items[o].line \in lines /\ items[o].block = b
                                 /\ items[o].line \in DOMAIN d.lines
                                 /\ o = id[items[o].line]
  BY DEF Incoming
<1>4. IsList(items, OfferIds(n), Offer)
  BY <1>3 DEF IsList
<1>5. /\ IsList(os, OfferIds(n), Offer) /\ DOMAIN os = DOMAIN d.offers \cup DOMAIN items
      /\ \A o \in DOMAIN items : os[o] = items[o]
      /\ \A o \in DOMAIN d.offers \ DOMAIN items : os[o] = d.offers[o]
  BY <1>2, <1>4 DEF IsList, Upserted
<1> HIDE DEF os
<1>6. IsDocument(e, n)
  BY <1>1, <1>2, <1>5, DocFrom
<1>7. \A o \in DOMAIN os : os[o].line \in DOMAIN d.lines /\ os[o].block \in DOMAIN d.blocks
  BY <1>2, <1>3, <1>5 DEF Linked
<1>8. ASSUME NEW o \in DOMAIN items, NEW p \in DOMAIN d.offers \ DOMAIN items,
             items[o].line = d.offers[p].line, d.offers[p].block = b
      PROVE  FALSE
  <2> DEFINE l == items[o].line
  <2>1. l \in lines /\ o = id[l]
    BY <1>3
  <2> HIDE DEF l
  <2>2. p \in OffersAt(d, l, b)
    BY <1>8 DEF OffersAt, l
  <2>3. o \in OffersAt(d, l, b)
    BY <2>1, <2>2 DEF Incoming
  <2>4. o \in DOMAIN d.offers /\ SamePair(d.offers, o, p)
    BY <2>2, <2>3 DEF OffersAt, SamePair
  <2> QED BY <1>2, <2>4 DEF Linked
<1>9. ASSUME NEW o \in DOMAIN os, NEW p \in DOMAIN os, SamePair(os, o, p)
      PROVE  o = p
  <2>1. CASE o \in DOMAIN items /\ p \in DOMAIN items
    BY <1>3, <1>5, <1>9, <2>1 DEF SamePair
  <2>2. CASE o \in DOMAIN items /\ p \notin DOMAIN items
    <3>1. p \in DOMAIN d.offers \ DOMAIN items
      BY <1>5, <2>2
    <3>2. items[o].line = d.offers[p].line /\ d.offers[p].block = b
      BY <1>3, <1>5, <1>9, <2>2, <3>1 DEF SamePair
    <3> QED BY <1>8, <2>2, <3>1, <3>2
  <2>3. CASE o \notin DOMAIN items /\ p \in DOMAIN items
    <3>1. o \in DOMAIN d.offers \ DOMAIN items
      BY <1>5, <2>3
    <3>2. items[p].line = d.offers[o].line /\ d.offers[o].block = b
      BY <1>3, <1>5, <1>9, <2>3, <3>1 DEF SamePair
    <3> QED BY <1>8, <2>3, <3>1, <3>2
  <2>4. CASE o \notin DOMAIN items /\ p \notin DOMAIN items
    <3>1. o \in DOMAIN d.offers /\ p \in DOMAIN d.offers /\ SamePair(d.offers, o, p)
      BY <1>5, <1>9, <2>4 DEF SamePair
    <3> QED BY <1>2, <3>1 DEF Linked
  <2> QED BY <2>1, <2>2, <2>3, <2>4
<1>10. Linked(e)
  BY <1>1, <1>2, <1>7, <1>9 DEF Linked
<1>11. Chosen(e)
  <2> SUFFICES ASSUME NEW l \in DOMAIN d.lines, d.lines[l].sel # Null
               PROVE  \E o \in DOMAIN os : /\ os[o].line = l /\ os[o].block = d.lines[l].sel
                                           /\ ~os[o].out
    BY <1>1 DEF Chosen
  <2>1. PICK o \in DOMAIN d.offers : /\ d.offers[o].line = l /\ ~d.offers[o].out
                                     /\ d.offers[o].block = d.lines[l].sel
    BY <1>2 DEF Chosen
  <2>2. CASE o \notin DOMAIN items
    BY <1>5, <2>1, <2>2
  <2>3. CASE o \in DOMAIN items
    <3>1. PICK m \in lines : o = id[m]
      BY <1>3, <2>3
    <3>2. o \in OffersAt(d, m, b) /\ items[o].line = m /\ items[o].block = b /\ ~items[o].out
      BY <3>1 DEF Incoming
    <3>3. m = l /\ b = d.lines[l].sel
      BY <2>1, <3>2 DEF OffersAt
    <3> QED BY <1>5, <2>3, <3>2, <3>3
  <2> QED BY <2>2, <2>3
<1> QED BY <1>1, <1>2, <1>6, <1>10, <1>11 DEF Fits, Sound, os


\* Nothing has an id of edit m yet.
NoOfferOf(d, m) == \A l : <<m, l>> \notin DOMAIN d.offers

LEMMA NextIsNew ==
    ASSUME NEW n \in Nat, NEW d, Fits(d, n)
    PROVE  NoOfferOf(d, n + 1)
<1>1. \A o \in DOMAIN d.offers : o \in OfferIds(n)
  BY DocParts
<1>2. \A l : <<n + 1, l>> \notin OfferIds(n)
  BY DEF OfferIds
<1> QED BY <1>1, <1>2 DEF NoOfferOf

LEMMA UpsertOffersFits ==
    ASSUME NEW n \in Nat, NEW d, Fits(d, n), NoOfferOf(d, n), NEW b, NEW pick,
           \A l \in DOMAIN pick : pick[l] \in Products, NEW autoRd
    PROVE  LET e == UpsertOffers(d, b, pick, n, autoRd)
           IN  Fits(e, n) /\ Follows(d, e, autoRd)
<1> DEFINE lines == DOMAIN pick \cap DOMAIN d.lines
           id == [l \in lines |-> OfferId(d, l, b, n)]
           whose(o) == CHOOSE l \in lines : OfferId(d, l, b, n) = o
           new(o) == NewOffer(d, whose(o), b, pick[whose(o)], autoRd)
           ids == {OfferId(d, l, b, n) : l \in lines}
           items == [o \in ids |-> new(o)]
           e == UpsertOffers(d, b, pick, n, autoRd)
<1>1. CASE b \notin DOMAIN d.blocks
  <2>1. e = d
    BY <1>1 DEF UpsertOffers
  <2> HIDE DEF e
  <2> QED BY <2>1 DEF Follows, e
<1>2. CASE b \in DOMAIN d.blocks
  <2>1. e = [d EXCEPT !.offers = Upserted(d.offers, items)]
    BY <1>2 DEF UpsertOffers
  <2> HIDE DEF e
  <2>2. /\ \A l \in DOMAIN d.lines : l \in 1 .. n /\ d.lines[l].qty \in Nat
        /\ \A o \in DOMAIN d.offers : o \in OfferIds(n)
        /\ Linked(d) /\ b \in Nat
    BY <1>2, DocParts DEF Line
  <2>3. ASSUME NEW l \in lines
        PROVE  /\ id[l] \in OfferIds(n)
               /\ id[l] \notin DOMAIN d.offers => id[l] = <<n, l>> /\ OffersAt(d, l, b) = {}
               /\ id[l] \in DOMAIN d.offers => id[l] \in OffersAt(d, l, b)
    <3>1. id[l] = OfferId(d, l, b, n)
      OBVIOUS
    <3> HIDE DEF id
    <3>2. CASE OffersAt(d, l, b) = {}
      <4>1. id[l] = <<n, l>>
        BY <3>1, <3>2 DEF OfferId
      <4>2. l \in 1 .. n /\ <<n, l>> \in OfferIds(n)
        BY <2>2 DEF OfferIds
      <4> QED BY <3>2, <4>1, <4>2 DEF NoOfferOf
    <3>3. CASE OffersAt(d, l, b) # {}
      <4>1. id[l] \in OffersAt(d, l, b)
        BY <3>1, <3>3 DEF OfferId
      <4>2. OffersAt(d, l, b) \subseteq DOMAIN d.offers
        BY DEF OffersAt
      <4> QED BY <2>2, <4>1, <4>2
    <3> QED BY <3>2, <3>3
  <2>4. ASSUME NEW l \in lines, NEW m \in lines, id[l] = id[m]
        PROVE  l = m
    <3> HIDE DEF id, lines
    <3>1. CASE id[l] \in DOMAIN d.offers
      <4>1. id[l] \in OffersAt(d, l, b) /\ id[l] \in OffersAt(d, m, b)
        BY <2>3, <2>4, <3>1
      <4> QED BY <4>1 DEF OffersAt
    <3>2. CASE id[l] \notin DOMAIN d.offers
      <4>1. id[l] = <<n, l>> /\ id[m] = <<n, m>>
        BY <2>3, <2>4, <3>2
      <4>2. <<n, l>> = <<n, m>>
        BY <2>4, <4>1
      <4> QED BY ONLY <4>2
    <3> QED BY <3>1, <3>2
  <2>5. ASSUME NEW l \in lines
        PROVE  whose(id[l]) = l
    <3>1. \A m \in lines : id[m] = OfferId(d, m, b, n)
      OBVIOUS
    <3> DEFINE o == id[l]
    <3>2. whose(o) \in lines /\ OfferId(d, whose(o), b, n) = o
      <4>1. \E m \in lines : OfferId(d, m, b, n) = o
        BY <3>1
      <4> HIDE DEF o, id, lines
      <4> QED BY <4>1
    <3> HIDE DEF whose, id, lines
    <3>3. id[whose(o)] = id[l]
      BY <3>1, <3>2
    <3> QED BY <2>4, <3>2, <3>3
  <2>6. /\ DOMAIN items = {id[l] : l \in lines}
        /\ items = [o \in DOMAIN items |-> items[o]]
        /\ \A l \in lines : items[id[l]] = NewOffer(d, l, b, pick[l], autoRd)
    <3>1. {OfferId(d, l, b, n) : l \in lines} = {id[l] : l \in lines}
      OBVIOUS
    <3>2. DOMAIN items = {id[l] : l \in lines} /\ items = [o \in DOMAIN items |-> items[o]]
      <4>1. DOMAIN items = ids /\ items = [o \in ids |-> items[o]]
        <5> HIDE DEF new, ids
        <5> QED OBVIOUS
      <4> HIDE DEF items
      <4> QED BY <3>1, <4>1
    <3>3. ASSUME NEW l \in lines
          PROVE  items[id[l]] = NewOffer(d, l, b, pick[l], autoRd)
      <4>1. id[l] \in {OfferId(d, m, b, n) : m \in lines}
        OBVIOUS
      <4> DEFINE o == id[l]
      <4> HIDE DEF whose, id, lines, o
      <4>2. o \in {OfferId(d, m, b, n) : m \in lines} /\ whose(o) = l
        BY <2>5, <4>1 DEF o
      <4>3. items[o] = new(o)
        <5> HIDE DEF new
        <5> QED BY <4>2
      <4> HIDE DEF items
      <4> QED BY <4>2, <4>3 DEF o
    <3> HIDE DEF items, id, lines
    <3> QED BY <3>2, <3>3
  <2> HIDE DEF items, id, whose
  <2>7. ASSUME NEW l \in lines
        PROVE  /\ items[id[l]] \in Offer /\ items[id[l]].line = l /\ items[id[l]].block = b
               /\ ~items[id[l]].out
               /\ items[id[l]].qty = AutoQty(items[id[l]], d.lines[l].qty, autoRd)
    <3>1. items[id[l]] = NewOffer(d, l, b, pick[l], autoRd)
      BY <2>6
    <3>2. pick[l] \in Products /\ l \in Nat /\ d.lines[l].qty \in Nat
      BY <2>2
    <3> HIDE DEF lines
    <3>3. LET offer == NewOffer(d, l, b, pick[l], autoRd)
          IN  /\ offer \in Offer /\ offer.line = l /\ offer.block = b /\ ~offer.out
              /\ offer.qty = AutoQty(offer, d.lines[l].qty, autoRd)
      BY <2>2, <3>2, NewOfferIsOffer
    <3> QED BY <3>1, <3>3
  <2>8. lines \subseteq DOMAIN d.lines
    OBVIOUS
  <2> HIDE DEF lines
  <2>9. Incoming(d, n, b, lines, id, items)
    BY <2>3, <2>6, <2>7, <2>8 DEF Incoming
  <2>10. Fits(e, n) /\ e.lines = d.lines /\ e.offers = Upserted(d.offers, items)
    BY <1>2, <2>1, <2>6, <2>9, IncomingOffers
  <2>11. Follows(d, e, autoRd)
    <3> SUFFICES ASSUME QtysFollow(d, autoRd), NEW o \in DOMAIN d.offers \cup DOMAIN items
                 PROVE  LET x == Upserted(d.offers, items)[o]
                        IN  x.hand \/ x.qty = AutoQty(x, d.lines[x.line].qty, autoRd)
      BY <2>10 DEF Follows, QtysFollow, Upserted
    <3>1. CASE o \in DOMAIN items
      <4>1. PICK l \in lines : o = id[l]
        BY <2>6, <3>1
      <4>2. Upserted(d.offers, items)[o] = items[id[l]]
        BY <3>1, <4>1 DEF Upserted
      <4> QED BY <2>7, <4>2
    <3>2. CASE o \notin DOMAIN items
      <4>1. Upserted(d.offers, items)[o] = d.offers[o]
        BY <3>2 DEF Upserted
      <4> QED BY <3>2, <4>1 DEF QtysFollow
    <3> QED BY <3>1, <3>2
  <2> QED BY <2>10, <2>11 DEF e
<1> QED BY <1>1, <1>2

LEMMA AddProductFits ==
    ASSUME NEW n \in Nat, NEW d, Fits(d, n), NEW l, NEW product \in Products, NEW autoRd
    PROVE  LET e == AddProduct(d, l, product, n + 1, autoRd)
           IN  Fits(e, n + 1) /\ Follows(d, e, autoRd)
<1> DEFINE s == SupplierOf[product]
           c == EnsureBlock(d, n + 1, s)
           b == CHOOSE x \in BlocksOf(c, s) : TRUE
           pick == One(l, product)
           m == n + 1
           e == UpsertOffers(c, b, pick, m, autoRd)
<1>1. s \in Suppliers
  BY ProductsAssumption
<1> HIDE DEF s
<1>2. Fits(c, n + 1) /\ Follows(d, c, autoRd) /\ c.offers = d.offers
  BY <1>1, EnsureBlockFits
<1>3. NoOfferOf(c, n + 1)
  BY <1>2, NextIsNew DEF NoOfferOf
<1>4. \A x \in DOMAIN pick : pick[x] \in Products
  BY DEF One
<1>5. m \in Nat /\ Fits(c, m) /\ NoOfferOf(c, m)
  BY <1>2, <1>3
<1>6. e = AddProduct(d, l, product, n + 1, autoRd)
  BY DEF AddProduct, s
<1> HIDE DEF c, b, pick, m
<1>7. Fits(e, m) /\ Follows(c, e, autoRd)
  BY <1>4, <1>5, UpsertOffersFits
<1> HIDE DEF e
<1>8. Follows(d, e, autoRd)
  BY <1>2, <1>7 DEF Follows
<1> QED BY <1>6, <1>7, <1>8 DEF m


WithOffer(d, o, offer) == [d EXCEPT !.offers = [d.offers EXCEPT ![o] = offer]]

LEMMA WithOfferParts ==
    ASSUME NEW n \in Nat, NEW d, Fits(d, n), NEW o \in DOMAIN d.offers, NEW offer \in Offer
    PROVE  LET e == WithOffer(d, o, offer)
           IN  /\ IsRecord(e) /\ e.header = d.header /\ e.lines = d.lines /\ e.blocks = d.blocks
               /\ IsList(e.offers, OfferIds(n), Offer)
               /\ DOMAIN e.offers = DOMAIN d.offers /\ e.offers[o] = offer
               /\ \A p \in DOMAIN d.offers : p # o => e.offers[p] = d.offers[p]
               /\ e = [d EXCEPT !.offers = e.offers]
<1> DEFINE os == [d.offers EXCEPT ![o] = offer]
           e == WithOffer(d, o, offer)
<1>1. /\ IsRecord(d) /\ DOMAIN d.offers \subseteq OfferIds(n)
      /\ d.offers = [p \in DOMAIN d.offers |-> d.offers[p]]
      /\ \A p \in DOMAIN d.offers : d.offers[p] \in Offer
  <2>1. IsList(d.offers, OfferIds(n), Offer) /\ IsRecord(d)
    BY DocParts
  <2> QED BY <2>1, ListParts
<1>2. /\ os = [p \in DOMAIN d.offers |-> os[p]] /\ os[o] = offer
      /\ \A p \in DOMAIN d.offers : p # o => os[p] = d.offers[p]
  BY <1>1
<1>3. e = [d EXCEPT !.offers = os]
  BY DEF WithOffer
<1> HIDE DEF os, e
<1>4. IsList(os, OfferIds(n), Offer) /\ DOMAIN os = DOMAIN d.offers
  <2>1. \A p \in DOMAIN d.offers : os[p] \in Offer
    BY <1>1, <1>2
  <2> DEFINE ids == OfferIds(n)
  <2> HIDE DEF ids
  <2>2. DOMAIN d.offers \subseteq ids
    BY <1>1 DEF ids
  <2>3. IsList(os, ids, Offer) /\ DOMAIN os = DOMAIN d.offers
    BY <1>2, <2>1, <2>2 DEF IsList
  <2> QED BY <2>3 DEF ids
<1>5. /\ IsRecord(e) /\ e.header = d.header /\ e.lines = d.lines
      /\ e.blocks = d.blocks /\ e.offers = os
  BY <1>1, <1>3 DEF IsRecord
<1> QED BY <1>2, <1>3, <1>4, <1>5 DEF e

\* Another offer in its place, which does not exclude it.
LEMMA OneOfferFits ==
    ASSUME NEW n \in Nat, NEW d, Fits(d, n), NEW o \in DOMAIN d.offers, NEW offer \in Offer,
           offer.line = d.offers[o].line, offer.block = d.offers[o].block,
           offer.out => d.offers[o].out, NEW autoRd,
           \/ offer.hand
           \/ offer.qty = AutoQty(offer, d.lines[offer.line].qty, autoRd)
           \/ /\ offer.hand = d.offers[o].hand /\ offer.qty = d.offers[o].qty
              /\ offer.product = d.offers[o].product /\ offer.exact = d.offers[o].exact
    PROVE  Fits(WithOffer(d, o, offer), n) /\ Follows(d, WithOffer(d, o, offer), autoRd)
<1> DEFINE e == WithOffer(d, o, offer)
           os == e.offers
<1>1. /\ IsRecord(e) /\ e.header = d.header /\ e.lines = d.lines /\ e.blocks = d.blocks
      /\ IsList(os, OfferIds(n), Offer) /\ DOMAIN os = DOMAIN d.offers
      /\ os[o] = offer /\ \A p \in DOMAIN d.offers : p # o => os[p] = d.offers[p]
      /\ e = [d EXCEPT !.offers = os]
  BY WithOfferParts
<1> HIDE DEF e, os
<1>2. \A p \in DOMAIN d.offers : /\ os[p].line = d.offers[p].line
                                 /\ os[p].block = d.offers[p].block
                                 /\ os[p].out => d.offers[p].out
  BY <1>1
<1>3. Fits(e, n) /\ e.lines = d.lines /\ e.offers = os
  BY <1>1, <1>2, OffersAgain
<1>4. ASSUME QtysFollow(d, autoRd), NEW p \in DOMAIN os
      PROVE  os[p].hand \/ os[p].qty = AutoQty(os[p], d.lines[os[p].line].qty, autoRd)
  <2>1. CASE p # o
    <3>1. os[p] = d.offers[p] /\ p \in DOMAIN d.offers
      BY <1>1, <2>1
    <3> QED BY <1>4, <3>1 DEF QtysFollow
  <2>2. CASE p = o
    <3>1. os[p] = offer
      BY <1>1, <2>2
    <3>2. \/ d.offers[o].hand
          \/ d.offers[o].qty = AutoQty(d.offers[o], d.lines[d.offers[o].line].qty, autoRd)
      BY <1>4 DEF QtysFollow
    <3> QED BY <3>1, <3>2 DEF AutoQty, MultipleOf
  <2> QED BY <2>1, <2>2
<1>5. Follows(d, e, autoRd)
  BY <1>3, <1>4 DEF Follows, QtysFollow
<1> QED BY <1>3, <1>5 DEF e

LEMMA TouchOfferFits ==
    ASSUME NEW n \in Nat, NEW d, Fits(d, n), NEW o \in DOMAIN d.offers, NEW autoRd
    PROVE  Fits(TouchOffer(d, o), n) /\ Follows(d, TouchOffer(d, o), autoRd)
<1> DEFINE offer == [d.offers[o] EXCEPT !.rest = 1 - d.offers[o].rest]
<1>1. d.offers[o] \in Offer /\ IsRecord(d)
  BY DocParts
<1>2. /\ offer \in Offer /\ offer.line = d.offers[o].line /\ offer.block = d.offers[o].block
      /\ offer.out = d.offers[o].out /\ offer.hand = d.offers[o].hand
      /\ offer.qty = d.offers[o].qty
      /\ offer.product = d.offers[o].product /\ offer.exact = d.offers[o].exact
  BY <1>1 DEF Offer
<1>3. TouchOffer(d, o) = WithOffer(d, o, offer)
  BY <1>1 DEF TouchOffer, WithOffer, IsRecord
<1> HIDE DEF offer
<1> QED BY <1>2, <1>3, OneOfferFits

LEMMA SetOfferQtyFits ==
    ASSUME NEW n \in Nat, NEW d, Fits(d, n), NEW o \in DOMAIN d.offers, NEW qty \in Maybe(Nat),
           NEW autoRd
    PROVE  Fits(SetOfferQty(d, o, qty), n) /\ Follows(d, SetOfferQty(d, o, qty), autoRd)
<1> DEFINE offer == [d.offers[o] EXCEPT !.qty = qty, !.hand = TRUE]
<1>1. d.offers[o] \in Offer /\ IsRecord(d)
  BY DocParts
<1>2. /\ offer \in Offer /\ offer.line = d.offers[o].line /\ offer.block = d.offers[o].block
      /\ offer.out = d.offers[o].out /\ offer.hand
  BY <1>1 DEF Offer
<1>3. SetOfferQty(d, o, qty) \in {d, WithOffer(d, o, offer)}
  BY <1>1 DEF SetOfferQty, WithOffer, IsRecord
<1> HIDE DEF offer
<1>4. Fits(WithOffer(d, o, offer), n) /\ Follows(d, WithOffer(d, o, offer), autoRd)
  BY <1>2, OneOfferFits
<1> QED BY <1>3, <1>4 DEF Follows

LEMMA SetExactFits ==
    ASSUME NEW n \in Nat, NEW d, Fits(d, n), NEW o \in DOMAIN d.offers, NEW exact \in BOOLEAN,
           NEW autoRd
    PROVE  Fits(SetExact(d, o, exact, autoRd), n) /\ Follows(d, SetExact(d, o, exact, autoRd), autoRd)
<1> DEFINE next == [d.offers[o] EXCEPT !.exact = exact, !.hand = FALSE]
           qty == AutoQty(next, d.lines[next.line].qty, autoRd)
           offer == [next EXCEPT !.qty = qty]
<1>1. d.offers[o] \in Offer /\ IsRecord(d)
  BY DocParts
<1>2. /\ next \in Offer /\ next.line = d.offers[o].line /\ next.block = d.offers[o].block
      /\ next.out = d.offers[o].out /\ next.exact = exact /\ next.hand = FALSE
  BY <1>1 DEF Offer
<1>3. SetExact(d, o, exact, autoRd) = WithOffer(d, o, offer)
  <2> HIDE DEF offer
  <2>1. SetExact(d, o, exact, autoRd) = [d EXCEPT !.offers[o] = offer]
    BY DEF SetExact, offer
  <2> QED BY <1>1, <2>1 DEF WithOffer, IsRecord
<1> HIDE DEF next
<1>4. qty \in Maybe(Nat)
  <2>1. d.lines[next.line].qty \in Nat
    <3>1. d.offers[o].line \in DOMAIN d.lines
      BY DocParts DEF Linked
    <3>2. d.lines[d.offers[o].line] \in Line
      BY <3>1, DocParts
    <3> QED BY <1>2, <3>2 DEF Line
  <2> QED BY <1>2, <2>1, AutoQtyIsQty
<1>5. offer.qty = AutoQty(offer, d.lines[next.line].qty, autoRd)
  <2>1. offer.exact = next.exact /\ offer.product = next.product /\ offer.qty = qty
    <3> HIDE DEF qty
    <3> QED BY <1>2, <1>4 DEF Offer
  <2> HIDE DEF offer
  <2> QED BY <2>1 DEF AutoQty, MultipleOf
<1> HIDE DEF qty
<1>6. /\ offer \in Offer /\ offer.line = next.line /\ offer.block = next.block
      /\ offer.out = next.out
  BY <1>2, <1>4 DEF Offer
<1> HIDE DEF offer
<1>7. Fits(WithOffer(d, o, offer), n) /\ Follows(d, WithOffer(d, o, offer), autoRd)
  BY <1>2, <1>5, <1>6, OneOfferFits
<1> QED BY <1>3, <1>7


\* One line has another quantity, offers perhaps others too.
LEMMA SetLineQtyFits ==
    ASSUME NEW n \in Nat, NEW d, Fits(d, n), NEW l \in DOMAIN d.lines, NEW qty \in Nat, NEW autoRd
    PROVE  /\ Fits(SetLineQty(d, l, qty, autoRd), n)
           /\ Follows(d, SetLineQty(d, l, qty, autoRd), autoRd)
<1> DEFINE was == d.lines[l].qty
           line == [d.lines[l] EXCEPT !.qty = qty]
           ls == [d.lines EXCEPT ![l] = line]
           auto(o) == AutoQty(d.offers[o], qty, autoRd)
           moves(o) == d.offers[o].line = l /\ d.offers[o].qty \in {Null, AutoQty(d.offers[o], was, autoRd)}
           os == [o \in DOMAIN d.offers |->
                    IF moves(o) THEN [d.offers[o] EXCEPT !.qty = auto(o)] ELSE d.offers[o]]
           e == WithLinesAndOffers(d, ls, os)
<1>1. /\ IsRecord(d) /\ d.header \in Headers
      /\ IsList(d.lines, 1 .. n, Line) /\ IsList(d.blocks, 1 .. n, Block)
      /\ IsList(d.offers, OfferIds(n), Offer)
      /\ \A x \in DOMAIN d.lines : x \in 1 .. n /\ d.lines[x] \in Line
      /\ \A o \in DOMAIN d.offers : o \in OfferIds(n) /\ d.offers[o] \in Offer
      /\ Linked(d) /\ Chosen(d) /\ Numbered(d.lines) /\ Numbered(d.blocks)
  BY DocParts
<1>2. SetLineQty(d, l, qty, autoRd) \in {d, e}
  <2>1. [d EXCEPT !.lines[l].qty = qty, !.offers = os] = e
    <3> HIDE DEF os
    <3> QED BY <1>1 DEF WithLinesAndOffers, IsRecord
  <2>2. SetLineQty(d, l, qty, autoRd) \in {d, [d EXCEPT !.lines[l].qty = qty, !.offers = os]}
    <3> USE DEF SetLineQty
    <3>1. CASE qty = d.lines[l].qty
      BY <3>1
    <3>2. CASE qty # d.lines[l].qty
      BY <3>2
    <3> QED BY <3>1, <3>2
  <2> HIDE DEF e, os
  <2> QED BY <2>1, <2>2
<1>3. /\ line \in Line /\ line.pos = d.lines[l].pos /\ line.qty = qty
      /\ line.sel = d.lines[l].sel
  BY <1>1 DEF Line
<1> HIDE DEF line
<1>4. /\ ls = [x \in DOMAIN d.lines |-> ls[x]] /\ ls[l] = line
      /\ \A x \in DOMAIN d.lines : x # l => ls[x] = d.lines[x]
  BY <1>1 DEF IsList
<1>5. ASSUME NEW o \in DOMAIN d.offers
      PROVE  auto(o) \in Maybe(Nat)
  BY <1>1, AutoQtyIsQty
<1>6. /\ os = [o \in DOMAIN d.offers |-> os[o]]
      /\ \A o \in DOMAIN d.offers :
             os[o] = IF moves(o) THEN [d.offers[o] EXCEPT !.qty = auto(o)] ELSE d.offers[o]
  <2> HIDE DEF moves, auto
  <2> QED OBVIOUS
<1>7. /\ IsRecord(e) /\ e.header = d.header /\ e.lines = ls
      /\ e.blocks = d.blocks /\ e.offers = os
  <2> HIDE DEF ls, os, e
  <2> QED BY <1>1, LinesAndOffersSet DEF e
<1> HIDE DEF ls, os, e
<1>8. ASSUME NEW o \in DOMAIN d.offers
      PROVE  /\ os[o] \in Offer /\ os[o].line = d.offers[o].line
             /\ os[o].block = d.offers[o].block /\ os[o].out = d.offers[o].out
             /\ os[o].hand = d.offers[o].hand /\ os[o].exact = d.offers[o].exact
             /\ os[o].product = d.offers[o].product
             /\ os[o].qty = IF moves(o) THEN auto(o) ELSE d.offers[o].qty
  <2>1. d.offers[o] \in Offer /\ auto(o) \in Maybe(Nat)
    BY <1>1, <1>5
  <2> HIDE DEF auto, moves
  <2>2. CASE moves(o)
    <3>1. os[o] = [d.offers[o] EXCEPT !.qty = auto(o)]
      BY <1>6, <2>2
    <3> QED BY <2>1, <2>2, <3>1 DEF Offer
  <2>3. CASE ~moves(o)
    BY <1>6, <2>1, <2>3
  <2> QED BY <2>2, <2>3
<1>9. /\ IsList(os, OfferIds(n), Offer) /\ DOMAIN os = DOMAIN d.offers
      /\ IsList(ls, 1 .. n, Line) /\ DOMAIN ls = DOMAIN d.lines
  <2> DEFINE ids == OfferIds(n)
  <2>1. DOMAIN d.offers \subseteq ids /\ \A o \in DOMAIN d.offers : os[o] \in Offer
    BY <1>1, <1>8
  <2>2. DOMAIN d.lines \subseteq 1 .. n /\ \A x \in DOMAIN d.lines : ls[x] \in Line
    BY <1>1, <1>3, <1>4
  <2> HIDE DEF ids
  <2>3. IsList(os, ids, Offer) /\ DOMAIN os = DOMAIN d.offers
    BY <1>6, <2>1 DEF IsList
  <2>4. IsList(ls, 1 .. n, Line) /\ DOMAIN ls = DOMAIN d.lines
    BY <1>4, <2>2 DEF IsList
  <2> QED BY <2>3, <2>4 DEF ids
<1>10. IsDocument(e, n)
  BY <1>1, <1>7, <1>9, DocFrom
<1>11. \A x \in DOMAIN d.lines : ls[x].pos = d.lines[x].pos /\ ls[x].sel = d.lines[x].sel
  BY <1>3, <1>4
<1>12. Numbered(ls)
  BY <1>1, <1>9, <1>11, NumberedAgain
<1>13. Linked(e)
  <2>1. \A o \in DOMAIN os : os[o].line \in DOMAIN ls /\ os[o].block \in DOMAIN d.blocks
    BY <1>1, <1>8, <1>9 DEF Linked
  <2>2. \A o, p \in DOMAIN os : SamePair(os, o, p) => o = p
    BY <1>1, <1>8, <1>9 DEF Linked, SamePair
  <2> QED BY <1>1, <1>7, <2>1, <2>2 DEF Linked
<1>14. Chosen(e)
  BY <1>1, <1>7, <1>8, <1>9, <1>11 DEF Chosen
<1>15. ASSUME QtysFollow(d, autoRd), NEW o \in DOMAIN d.offers
       PROVE  os[o].hand \/ os[o].qty = AutoQty(os[o], ls[os[o].line].qty, autoRd)
  <2>1. AutoQty(os[o], ls[os[o].line].qty, autoRd) = AutoQty(d.offers[o], ls[d.offers[o].line].qty, autoRd)
    <3>1. /\ os[o].exact = d.offers[o].exact /\ os[o].product = d.offers[o].product
          /\ os[o].line = d.offers[o].line
      BY <1>8
    <3> QED BY <3>1 DEF AutoQty, MultipleOf
  <2>2. \/ d.offers[o].hand
        \/ d.offers[o].qty = AutoQty(d.offers[o], d.lines[d.offers[o].line].qty, autoRd)
    BY <1>15 DEF QtysFollow
  <2>3. d.offers[o].line \in DOMAIN d.lines
    BY <1>1 DEF Linked
  <2>4. CASE d.offers[o].line = l
    <3>1. ls[d.offers[o].line].qty = qty
      BY <1>3, <1>4, <2>4
    <3>2. d.offers[o].hand \/ moves(o)
      BY <2>2, <2>4
    <3>3. moves(o) => os[o].qty = AutoQty(d.offers[o], qty, autoRd)
      <4>1. os[o].qty = IF moves(o) THEN auto(o) ELSE d.offers[o].qty
        BY <1>8
      <4> QED BY <4>1
    <3> QED BY <1>8, <2>1, <3>1, <3>2, <3>3
  <2>5. CASE d.offers[o].line # l
    <3>1. ls[d.offers[o].line] = d.lines[d.offers[o].line]
      BY <1>4, <2>3, <2>5
    <3>2. ~moves(o)
      BY <2>5
    <3>3. os[o].qty = d.offers[o].qty
      BY <1>8, <3>2
    <3> QED BY <1>8, <2>1, <2>2, <3>1, <3>3
  <2> QED BY <2>4, <2>5
<1>16. Follows(d, e, autoRd)
  BY <1>7, <1>9, <1>15 DEF Follows, QtysFollow
<1>17. Fits(e, n)
  BY <1>1, <1>7, <1>10, <1>12, <1>13, <1>14 DEF Fits, Sound
<1> QED BY <1>2, <1>16, <1>17 DEF Follows

\* Other choices, of blocks with an offer for the line that is not excluded.
LEMMA OtherChoices ==
    ASSUME NEW n \in Nat, NEW d, Fits(d, n), NEW ls, IsList(ls, 1 .. n, Line), Numbered(ls),
           DOMAIN ls = DOMAIN d.lines, \A l \in DOMAIN d.lines : ls[l].qty = d.lines[l].qty,
           \A l \in DOMAIN d.lines : ls[l].sel \in {Null, d.lines[l].sel} \cup Candidates(d, l),
           NEW e, IsRecord(e), e.header = d.header, e.lines = ls,
           e.blocks = d.blocks, e.offers = d.offers, NEW autoRd
    PROVE  Fits(e, n) /\ Follows(d, e, autoRd)
<1>1. /\ d.header \in Headers /\ IsList(d.blocks, 1 .. n, Block)
      /\ IsList(d.offers, OfferIds(n), Offer)
      /\ Linked(d) /\ Chosen(d) /\ Numbered(d.blocks)
  BY DocParts
<1>2. IsDocument(e, n)
  BY <1>1, DocFrom
<1>3. Linked(e)
  BY <1>1 DEF Linked
<1>4. Chosen(e)
  <2> SUFFICES ASSUME NEW l \in DOMAIN d.lines, ls[l].sel # Null
               PROVE  \E o \in DOMAIN d.offers : /\ d.offers[o].line = l
                                                 /\ d.offers[o].block = ls[l].sel
                                                 /\ ~d.offers[o].out
    BY DEF Chosen
  <2>1. CASE ls[l].sel = d.lines[l].sel
    BY <1>1, <2>1 DEF Chosen
  <2>2. CASE ls[l].sel \in Candidates(d, l)
    BY <2>2 DEF Candidates
  <2> QED BY <2>1, <2>2
<1>5. Follows(d, e, autoRd)
  BY <1>1 DEF Follows, QtysFollow, Linked
<1> QED BY <1>1, <1>2, <1>3, <1>4, <1>5 DEF Fits, Sound


LEMMA CandidatesAreBlocks ==
    ASSUME NEW n \in Nat, NEW d, Fits(d, n), NEW l
    PROVE  Candidates(d, l) \subseteq DOMAIN d.blocks /\ DOMAIN d.blocks \subseteq Nat
<1>1. Linked(d) /\ \A b \in DOMAIN d.blocks : b \in 1 .. n
  BY DocParts
<1> QED BY <1>1 DEF Linked, Candidates

LEMMA SelectFits ==
    ASSUME NEW n \in Nat, NEW d, Fits(d, n), NEW l \in DOMAIN d.lines,
           NEW b \in Maybe(DOMAIN d.blocks), NEW autoRd
    PROVE  Fits(Select(d, l, b), n) /\ Follows(d, Select(d, l, b), autoRd)
<1> DEFINE ls == [d.lines EXCEPT ![l] = Picking(d.lines[l], b)]
           e == [d EXCEPT !.lines = ls]
<1>1. /\ IsRecord(d) /\ IsList(d.lines, 1 .. n, Line) /\ Numbered(d.lines)
  BY DocParts
<1>2. CASE b # Null /\ ~\E o \in OffersAt(d, l, b) : ~d.offers[o].out
  BY <1>2 DEF Select, Follows
<1>3. CASE b = Null \/ \E o \in OffersAt(d, l, b) : ~d.offers[o].out
  <2>1. Select(d, l, b) = e
    BY <1>1, <1>3 DEF Select, Picking, IsRecord
  <2>2. b = Null \/ b \in Candidates(d, l)
    BY <1>3 DEF Candidates, OffersAt
  <2>3. b \in Maybe(Nat)
    BY CandidatesAreBlocks DEF Maybe
  <2> DEFINE choose == [x \in DOMAIN d.lines |-> IF x = l THEN b ELSE d.lines[x].sel]
  <2>4. \A x \in DOMAIN d.lines : choose[x] \in Maybe(Nat)
    <3>1. \A x \in DOMAIN d.lines : d.lines[x].sel \in Maybe(Nat)
      BY DocParts DEF Line
    <3> QED BY <2>3, <3>1
  <2>5. /\ ls = [x \in DOMAIN d.lines |-> ls[x]]
        /\ \A x \in DOMAIN d.lines : ls[x] = d.lines[x] \/ ls[x] = Picking(d.lines[x], choose[x])
        /\ \A x \in DOMAIN d.lines : choose[x] \in {Null, d.lines[x].sel} \cup Candidates(d, x)
    BY <1>1, <2>2 DEF IsList
  <2>6. /\ IsRecord(e) /\ e.header = d.header /\ e.lines = ls
        /\ e.blocks = d.blocks /\ e.offers = d.offers
    <3> HIDE DEF ls
    <3> QED BY <1>1 DEF IsRecord
  <2> HIDE DEF choose, ls, e
  <2>7. /\ IsList(ls, 1 .. n, Line) /\ Numbered(ls) /\ DOMAIN ls = DOMAIN d.lines
        /\ \A x \in DOMAIN d.lines : ls[x].qty = d.lines[x].qty
        /\ \A x \in DOMAIN d.lines : ls[x].sel \in {d.lines[x].sel, choose[x]}
    BY <1>1, <2>4, <2>5, ChosenList
  <2>8. \A x \in DOMAIN d.lines : ls[x].sel \in {Null, d.lines[x].sel} \cup Candidates(d, x)
    BY <2>5, <2>7
  <2>9. Fits(e, n) /\ Follows(d, e, autoRd)
    BY <2>6, <2>7, <2>8, OtherChoices
  <2> QED BY <2>1, <2>9
<1> QED BY <1>2, <1>3

LEMMA SelectAllFits ==
    ASSUME NEW n \in Nat, NEW d, Fits(d, n), NEW pick,
           \A l \in DOMAIN pick : pick[l] \in Candidates(d, l), NEW autoRd
    PROVE  Fits(SelectAll(d, pick), n) /\ Follows(d, SelectAll(d, pick), autoRd)
<1> DEFINE ls == [l \in DOMAIN d.lines |->
                    IF l \in DOMAIN pick THEN Picking(d.lines[l], pick[l]) ELSE d.lines[l]]
           e == [d EXCEPT !.lines = ls]
           choose == [l \in DOMAIN d.lines |-> IF l \in DOMAIN pick THEN pick[l] ELSE Null]
<1>1. /\ IsRecord(d) /\ IsList(d.lines, 1 .. n, Line) /\ Numbered(d.lines)
  BY DocParts
<1>2. SelectAll(d, pick) = e
  BY DEF SelectAll, Picking
<1>3. \A l \in DOMAIN d.lines : /\ choose[l] \in Maybe(Nat)
                                /\ choose[l] \in {Null} \cup Candidates(d, l)
  <2>1. \A l \in DOMAIN pick : pick[l] \in Nat /\ pick[l] \in Candidates(d, l)
    BY CandidatesAreBlocks
  <2> QED BY <2>1 DEF Maybe
<1>4. /\ ls = [l \in DOMAIN d.lines |-> ls[l]]
      /\ \A l \in DOMAIN d.lines : ls[l] = d.lines[l] \/ ls[l] = Picking(d.lines[l], choose[l])
  OBVIOUS
<1>5. /\ IsRecord(e) /\ e.header = d.header /\ e.lines = ls
      /\ e.blocks = d.blocks /\ e.offers = d.offers
  <2> HIDE DEF ls
  <2> QED BY <1>1 DEF IsRecord
<1> HIDE DEF choose, ls, e
<1>6. /\ IsList(ls, 1 .. n, Line) /\ Numbered(ls) /\ DOMAIN ls = DOMAIN d.lines
      /\ \A l \in DOMAIN d.lines : ls[l].qty = d.lines[l].qty
      /\ \A l \in DOMAIN d.lines : ls[l].sel \in {d.lines[l].sel, choose[l]}
  BY <1>1, <1>3, <1>4, ChosenList
<1>7. \A l \in DOMAIN d.lines : ls[l].sel \in {Null, d.lines[l].sel} \cup Candidates(d, l)
  BY <1>3, <1>6
<1>8. Fits(e, n) /\ Follows(d, e, autoRd)
  BY <1>5, <1>6, <1>7, OtherChoices
<1> QED BY <1>2, <1>8

LEMMA ToggleExcludeFits ==
    ASSUME NEW n \in Nat, NEW d, Fits(d, n), NEW o \in DOMAIN d.offers, NEW autoRd
    PROVE  Fits(ToggleExclude(d, o), n) /\ Follows(d, ToggleExclude(d, o), autoRd)
<1> DEFINE offer == [d.offers[o] EXCEPT !.out = ~d.offers[o].out]
           e == ToggleExclude(d, o)
           us == Unchosen(d, {o})
           us2 == IF d.offers[o].out THEN d.lines ELSE us
           c == [d EXCEPT !.lines = us]
<1>1. d.offers[o] \in Offer /\ IsRecord(d) /\ Linked(d)
  BY DocParts
<1>2. /\ offer \in Offer /\ offer.line = d.offers[o].line /\ offer.block = d.offers[o].block
      /\ offer.out = ~d.offers[o].out /\ offer.hand = d.offers[o].hand
      /\ offer.qty = d.offers[o].qty
      /\ offer.product = d.offers[o].product /\ offer.exact = d.offers[o].exact
  BY <1>1 DEF Offer
<1>3. e = [d EXCEPT !.offers = [d.offers EXCEPT ![o] = offer], !.lines = us2]
  BY <1>1 DEF ToggleExclude, IsRecord
<1> HIDE DEF offer, us, e
<1>4. CASE d.offers[o].out
  <2>1. e = WithOffer(d, o, offer)
    BY <1>1, <1>3, <1>4 DEF WithOffer, IsRecord
  <2>2. offer.out => d.offers[o].out
    BY <1>4
  <2>3. Fits(WithOffer(d, o, offer), n) /\ Follows(d, WithOffer(d, o, offer), autoRd)
    BY <1>2, <2>2, OneOfferFits
  <2> QED BY <2>1, <2>3 DEF e
<1>5. CASE ~d.offers[o].out
  <2>1. /\ IsList(us, 1 .. n, Line) /\ DOMAIN us = DOMAIN d.lines /\ Numbered(us)
        /\ \A l \in DOMAIN us : /\ us[l].qty = d.lines[l].qty
                                /\ us[l].sel \in {Null, d.lines[l].sel}
        /\ d.offers[o].line \in DOMAIN us =>
               \/ us[d.offers[o].line].sel = Null
               \/ us[d.offers[o].line].sel # d.offers[o].block
    BY UnchosenLines DEF us
  <2> DEFINE w == WithOffer(d, o, offer)
             os == w.offers
  <2>2. /\ IsRecord(w) /\ w.header = d.header /\ w.lines = d.lines /\ w.blocks = d.blocks
        /\ IsList(os, OfferIds(n), Offer) /\ DOMAIN os = DOMAIN d.offers
        /\ os[o] = offer /\ \A p \in DOMAIN d.offers : p # o => os[p] = d.offers[p]
    BY <1>2, WithOfferParts
  <2>3. e = [w EXCEPT !.lines = us]
    BY <1>1, <1>3, <1>5 DEF WithOffer, IsRecord
  <2> HIDE DEF w
  <2>4. /\ IsRecord(e) /\ e.header = d.header /\ e.lines = us
        /\ e.blocks = d.blocks /\ e.offers = os
    BY <2>2, <2>3 DEF IsRecord
  <2>5. /\ d.header \in Headers /\ IsList(d.blocks, 1 .. n, Block)
        /\ Linked(d) /\ Chosen(d) /\ Numbered(d.blocks)
    BY DocParts
  <2> HIDE DEF os
  <2>6. IsDocument(e, n)
    BY <2>1, <2>2, <2>4, <2>5, DocFrom
  <2>7. \A p \in DOMAIN d.offers : /\ os[p].line = d.offers[p].line
                                   /\ os[p].block = d.offers[p].block
                                   /\ os[p].hand = d.offers[p].hand
                                   /\ os[p].qty = d.offers[p].qty
                                   /\ os[p].product = d.offers[p].product
                                   /\ os[p].exact = d.offers[p].exact
                                   /\ p # o => os[p].out = d.offers[p].out
    BY <1>2, <2>2
  <2>8. Linked(e)
    BY <2>1, <2>2, <2>4, <2>5, <2>7 DEF Linked, SamePair
  <2>9. Chosen(e)
    <3> SUFFICES ASSUME NEW l \in DOMAIN d.lines, us[l].sel # Null
                 PROVE  \E p \in DOMAIN os : /\ os[p].line = l /\ os[p].block = us[l].sel
                                             /\ ~os[p].out
      BY <2>1, <2>4 DEF Chosen
    <3>1. us[l].sel = d.lines[l].sel
      BY <2>1
    <3>2. PICK p \in DOMAIN d.offers : /\ d.offers[p].line = l /\ ~d.offers[p].out
                                       /\ d.offers[p].block = d.lines[l].sel
      BY <2>5, <3>1 DEF Chosen
    <3>3. p # o
      BY <2>1, <3>1, <3>2
    <3> QED BY <2>2, <2>7, <3>1, <3>2, <3>3
  <2>10. Follows(d, e, autoRd)
    <3> SUFFICES ASSUME QtysFollow(d, autoRd), NEW p \in DOMAIN d.offers
                 PROVE  os[p].hand \/ os[p].qty = AutoQty(os[p], us[os[p].line].qty, autoRd)
      BY <2>2, <2>4 DEF Follows, QtysFollow
    <3>1. \/ d.offers[p].hand
          \/ d.offers[p].qty = AutoQty(d.offers[p], d.lines[d.offers[p].line].qty, autoRd)
      BY DEF QtysFollow
    <3>2. us[os[p].line].qty = d.lines[d.offers[p].line].qty
      BY <2>1, <2>5, <2>7 DEF Linked
    <3>3. AutoQty(os[p], us[os[p].line].qty, autoRd) = AutoQty(d.offers[p], d.lines[d.offers[p].line].qty, autoRd)
      BY <2>7, <3>2 DEF AutoQty, MultipleOf
    <3> QED BY <2>7, <3>1, <3>3
  <2> QED BY <2>1, <2>4, <2>5, <2>6, <2>8, <2>9, <2>10 DEF Fits, Sound, e
<1> QED BY <1>4, <1>5


-----------------------------------------------------------------------------
(* A difference applied to what it was taken from                          *)

IsFunction(f) == f = [x \in DOMAIN f |-> f[x]]

LEMMA ListsAreFunctions ==
    ASSUME NEW list, NEW ids, NEW Item, IsList(list, ids, Item)
    PROVE  IsFunction(list)
BY ListParts DEF IsFunction

LEMMA DifferenceGivesList ==
    ASSUME NEW before, NEW after, IsFunction(before), IsFunction(after)
    PROVE  WrittenList(before, after) = after
<1> DEFINE changed == Changed(before, after)
           left == Without(before, DOMAIN before \ DOMAIN after)
           items == Restrict(after, changed)
           new == Upserted(left, items)
<1>1. /\ DOMAIN left = DOMAIN before \cap DOMAIN after
      /\ \A x \in DOMAIN before \cap DOMAIN after : left[x] = before[x]
  BY DEF Without, Restrict
<1>2. /\ changed \subseteq DOMAIN after
      /\ \A x \in DOMAIN after \ changed : x \in DOMAIN before /\ before[x] = after[x]
  BY DEF Changed
<1> HIDE DEF changed, left
<1>3. DOMAIN items = changed /\ \A x \in changed : items[x] = after[x]
  BY DEF Restrict
<1> HIDE DEF items
<1>4. /\ new = [x \in DOMAIN left \cup DOMAIN items |-> new[x]]
      /\ \A x \in DOMAIN left \cup DOMAIN items :
             new[x] = IF x \in DOMAIN items THEN items[x] ELSE left[x]
  BY DEF Upserted
<1> HIDE DEF new
<1>5. DOMAIN left \cup DOMAIN items = DOMAIN after
  BY <1>1, <1>2, <1>3
<1>6. \A x \in DOMAIN after : new[x] = after[x]
  BY <1>1, <1>2, <1>3, <1>4, <1>5
<1>7. new = after
  BY <1>4, <1>5, <1>6 DEF IsFunction
<1>8. WrittenList(before, after) = new
  BY DEF WrittenList, DiffList, new, items, left, changed
<1> QED BY <1>7, <1>8

\* Where there is one offer to a pair, every offer is the last of its pair.
LEMMA OnePerPair ==
    ASSUME NEW offers, NEW new, \A o, p \in DOMAIN offers : SamePair(offers, o, p) => o = p
    PROVE  LastOfPair(offers, DOMAIN offers, new) = DOMAIN offers
<1> DEFINE placed == DOMAIN offers
           pair(o) == {p \in placed : SamePair(offers, o, p)}
           Best(o, w) == w \in new \/ \A p \in placed : SamePair(offers, o, p) => p \notin new
<1>1. ASSUME NEW o \in placed
      PROVE  o = CHOOSE w \in pair(o) : Best(o, w)
  <2>1. pair(o) = {o}
    BY DEF SamePair
  <2>2. Best(o, o)
    OBVIOUS
  <2> HIDE DEF placed, pair, Best
  <2> QED BY <2>1, <2>2
<1> QED BY <1>1 DEF LastOfPair

\* What the server makes of its rows with the difference to another document is
\* that document, whatever both are: nothing of the patch is lost on the way, and
\* the rules for offers without a place and for pairs drop nothing.
THEOREM DifferenceGivesDocument ==
    ASSUME NEW n \in Nat, NEW s, Fits(s, n), NEW d, Fits(d, n)
    PROVE  Written(s, Applied(s, Diff(s, d))) = d
<1> DEFINE patch == Diff(s, d)
           lines == Upserted(Without(s.lines, patch.lines.delete), patch.lines.upsert)
           blocks == Upserted(Without(s.blocks, patch.blocks.delete), patch.blocks.upsert)
           left == {o \in DOMAIN s.offers \ patch.offers.delete :
                       /\ s.offers[o].line \notin patch.lines.delete
                       /\ s.offers[o].block \notin patch.blocks.delete}
           offers == Upserted(Restrict(s.offers, left), patch.offers.upsert)
           placed == {o \in DOMAIN offers : /\ offers[o].line \in DOMAIN lines
                                            /\ offers[o].block \in DOMAIN blocks}
           new == DOMAIN patch.offers.upsert \ left
<1>1. /\ IsFunction(s.lines) /\ IsFunction(s.blocks) /\ IsFunction(s.offers)
      /\ IsFunction(d.lines) /\ IsFunction(d.blocks) /\ IsFunction(d.offers)
  BY DocParts, ListsAreFunctions
<1>2. IsRecord(d) /\ d.header \in Headers /\ Linked(d) /\ Chosen(d)
  BY DocParts
<1>3. /\ patch.header = IF d.header = s.header THEN Null ELSE d.header
      /\ patch.lines = DiffList(s.lines, d.lines)
      /\ patch.blocks = DiffList(s.blocks, d.blocks)
      /\ patch.offers = DiffList(s.offers, d.offers)
  BY DEF Diff
<1> HIDE DEF patch
<1>4. lines = d.lines
  <2>1. lines = WrittenList(s.lines, d.lines)
    BY <1>3 DEF WrittenList
  <2> QED BY <1>1, <2>1, DifferenceGivesList
<1>5. blocks = d.blocks
  <2>1. blocks = WrittenList(s.blocks, d.blocks)
    BY <1>3 DEF WrittenList
  <2> QED BY <1>1, <2>1, DifferenceGivesList
<1>6. /\ patch.lines.delete = DOMAIN s.lines \ DOMAIN d.lines
      /\ patch.blocks.delete = DOMAIN s.blocks \ DOMAIN d.blocks
      /\ patch.offers.delete = DOMAIN s.offers \ DOMAIN d.offers
      /\ patch.offers.upsert = Restrict(d.offers, Changed(s.offers, d.offers))
  BY <1>3 DEF DiffList
<1>7. offers = d.offers
  <2> DEFINE changed == Changed(s.offers, d.offers)
             items == patch.offers.upsert
             kept == Restrict(s.offers, left)
  <2>1. /\ changed \subseteq DOMAIN d.offers
        /\ \A o \in DOMAIN d.offers \ changed : o \in DOMAIN s.offers /\ s.offers[o] = d.offers[o]
    BY DEF Changed
  <2>2. left \subseteq DOMAIN d.offers
    BY <1>6
  <2>3. DOMAIN d.offers \ changed \subseteq left
    <3> SUFFICES ASSUME NEW o \in DOMAIN d.offers \ changed PROVE o \in left
      OBVIOUS
    <3>1. d.offers[o].line \in DOMAIN d.lines /\ d.offers[o].block \in DOMAIN d.blocks
      BY <1>2 DEF Linked
    <3>2. o \in DOMAIN s.offers /\ s.offers[o] = d.offers[o]
      BY <2>1
    <3> QED BY <1>6, <3>1, <3>2
  <2>4. DOMAIN items = changed /\ \A o \in changed : items[o] = d.offers[o]
    BY <1>6 DEF Restrict
  <2>5. DOMAIN kept = left /\ \A o \in left : kept[o] = s.offers[o]
    BY DEF Restrict
  <2> HIDE DEF changed, items, kept, left
  <2>6. /\ offers = [o \in DOMAIN kept \cup DOMAIN items |-> offers[o]]
        /\ \A o \in DOMAIN kept \cup DOMAIN items :
               offers[o] = IF o \in DOMAIN items THEN items[o] ELSE kept[o]
    BY DEF Upserted, items, kept
  <2> HIDE DEF offers
  <2>7. DOMAIN kept \cup DOMAIN items = DOMAIN d.offers
    BY <2>1, <2>2, <2>3, <2>4, <2>5
  <2>8. \A o \in DOMAIN d.offers : offers[o] = d.offers[o]
    BY <2>1, <2>3, <2>4, <2>5, <2>6, <2>7
  <2> QED BY <1>1, <2>6, <2>7, <2>8 DEF IsFunction
<1> HIDE DEF lines, blocks, offers, left
<1>8. placed = DOMAIN d.offers
  BY <1>2, <1>4, <1>5, <1>7 DEF Linked
<1>9. LastOfPair(offers, placed, new) = DOMAIN d.offers
  <2>1. \A o, p \in DOMAIN offers : SamePair(offers, o, p) => o = p
    BY <1>2, <1>7 DEF Linked
  <2>2. placed = DOMAIN offers
    BY <1>7, <1>8
  <2> HIDE DEF placed, new
  <2> QED BY <1>7, <2>1, <2>2, OnePerPair
<1>10. Restrict(offers, LastOfPair(offers, placed, new)) = d.offers
  <2> HIDE DEF placed, new
  <2> QED BY <1>1, <1>7, <1>9 DEF Restrict, IsFunction
<1>11. [l \in DOMAIN lines |-> IF lines[l].sel \in Maybe(DOMAIN blocks) THEN lines[l]
                               ELSE [lines[l] EXCEPT !.sel = Null]] = d.lines
  <2>1. \A l \in DOMAIN d.lines : d.lines[l].sel \in Maybe(DOMAIN d.blocks)
    BY <1>2 DEF Linked, Chosen, Maybe
  <2> QED BY <1>1, <1>4, <1>5, <2>1 DEF IsFunction
<1>12. (IF patch.header = Null THEN s.header ELSE patch.header) = d.header
  <2>1. d.header # Null
    BY <1>2, NullAssumption
  <2> QED BY <1>3, <2>1
<1>13. Applied(s, patch) =
           [header |-> IF patch.header = Null THEN s.header ELSE patch.header,
            lines |-> [l \in DOMAIN lines |->
                          IF lines[l].sel \in Maybe(DOMAIN blocks) THEN lines[l]
                          ELSE [lines[l] EXCEPT !.sel = Null]],
            blocks |-> blocks,
            offers |-> Restrict(offers, LastOfPair(offers, placed, new))]
  BY DEF Applied, lines, blocks, left, offers
<1>14. Applied(s, patch) = d
  <2> HIDE DEF placed, new
  <2> QED BY <1>2, <1>5, <1>10, <1>11, <1>12, <1>13 DEF IsRecord
<1>15. Written(s, d) = d
  BY <1>1, <1>2, DifferenceGivesList DEF Written, IsRecord
<1> QED BY <1>14, <1>15 DEF patch


-----------------------------------------------------------------------------
(* The inductive invariant                                                 *)

AllLists(Ids, Item) == UNION {[D -> Item] : D \in SUBSET Ids}

Documents == [header : Headers, lines : AllLists(Nat, Line), blocks : AllLists(Nat, Block),
              offers : AllLists(Nat \X Nat, Offer)]

LEMMA FitsIsDocument ==
    ASSUME NEW n \in Nat, NEW d, Fits(d, n)
    PROVE  d \in Documents
<1>1. /\ IsRecord(d) /\ d.header \in Headers
      /\ IsList(d.lines, 1 .. n, Line) /\ IsList(d.blocks, 1 .. n, Block)
      /\ IsList(d.offers, OfferIds(n), Offer)
  BY DocParts
<1>2. 1 .. n \subseteq Nat /\ OfferIds(n) \subseteq Nat \X Nat
  BY DEF OfferIds
<1>3. ASSUME NEW list, NEW ids, NEW all, NEW Item, IsList(list, ids, Item), ids \subseteq all
      PROVE  list \in AllLists(all, Item)
  BY <1>3 DEF IsList, AllLists
<1>4. /\ d.lines \in AllLists(Nat, Line) /\ d.blocks \in AllLists(Nat, Block)
      /\ d.offers \in AllLists(Nat \X Nat, Offer)
  BY <1>1, <1>2, <1>3
<1> QED BY <1>1, <1>4 DEF Documents, IsRecord

\* A sound document with ids up to n whose quantities follow the lines, the
\* rule of rounding being what it was.
Good(d, n, ruled) == Fits(d, n) /\ (ruled \/ QtysFollow(d, TRUE))

LEMMA GoodStays ==
    ASSUME NEW n \in Nat, NEW d, NEW m \in {n, n + 1}, NEW was \in BOOLEAN, NEW is \in BOOLEAN,
           Good(d, n, was), was => is
    PROVE  Good(d, m, is)
BY FitsMore DEF Good

LEMMA EditedIsGood ==
    ASSUME NEW n \in Nat, NEW d, NEW ruled \in BOOLEAN, Good(d, n, ruled), NEW autoRd,
           ~ruled => autoRd = TRUE, NEW e, NEW m, Fits(e, m), Follows(d, e, autoRd)
    PROVE  Good(e, m, ruled)
BY DEF Good, Follows

ContentTypes ==
    /\ newId \in Nat /\ autoRound \in BOOLEAN /\ switched \in BOOLEAN /\ current \in BOOLEAN
    /\ past \in Seq(Documents) /\ future \in Seq(Documents)

DocsInv ==
    /\ Good(doc, newId, switched) /\ Good(lastSaved, newId, switched)
    /\ Good(stored, newId, switched)
    /\ \A i \in 1 .. Len(past) : Good(past[i], newId, switched)
    /\ \A i \in 1 .. Len(future) : Good(future[i], newId, switched)

\* What is on its way is the difference to what the tab believes is stored.
NetInv ==
    \/ net = NoSave
    \/ /\ net = [at |-> net.at, sent |-> net.sent, patch |-> net.patch]
       /\ net.at \in {"sent", "stored", "refused"}
       /\ Good(net.sent, newId, switched)
       /\ net.at = "sent" => net.patch = Diff(lastSaved, net.sent)

LookupInv == lookup # Null => lookup.products \subseteq Products

OnePerSupplier(blocks) ==
    \A b, c \in DOMAIN blocks : blocks[b].supplier = blocks[c].supplier => b = c
OneOfPair(offers) == \A o, p \in DOMAIN offers : SamePair(offers, o, p) => o = p

\* Each part that a copy has read was sound by itself.
CopyInv ==
    /\ copy.at \in {"none", "lines", "blocks", "read"}
    /\ copy.at # "none" => \A l \in DOMAIN copy.lines : copy.lines[l] \in Line
    /\ copy.at \in {"blocks", "read"} => OnePerSupplier(copy.blocks)
    /\ copy.at = "read" => OneOfPair(copy.offers)

ContentInv ==
    /\ ContentTypes /\ (~switched => autoRound = TRUE)
    /\ DocsInv /\ NetInv /\ LookupInv /\ CopyInv /\ StoredAsSent

LEMMA GoodIsDocument ==
    ASSUME ContentTypes
    PROVE  \A d : Good(d, newId, switched) => d \in Documents
BY FitsIsDocument DEF ContentTypes, Good

\* What there was stays good when ids are given out or the rule changes.
LEMMA RestStays ==
    ASSUME ContentInv, newId' \in {newId, newId + 1}, switched' \in BOOLEAN, switched => switched'
    PROVE  \A d : Good(d, newId, switched) => Good(d, newId', switched')
BY GoodStays DEF ContentInv, ContentTypes

\* What the page shows becomes a good document; the rest is as it was.
LEMMA CommitKeeps ==
    ASSUME ContentInv, NEW next, CommitEdit(next), newId' \in {newId, newId + 1},
           Good(next, newId', switched),
           UNCHANGED <<autoRound, stored, current, net, copy, switched>>, LookupInv'
    PROVE  ContentInv'
<1> USE DEF ContentInv
<1>1. /\ doc' = next /\ past' = Append(past, doc) /\ future' = <<>> /\ lastSaved' = lastSaved
      /\ newId' \in Nat /\ switched' = switched
  BY DEF CommitEdit, ContentTypes
<1>2. \A d : Good(d, newId, switched) => Good(d, newId', switched')
  <2>1. switched' \in BOOLEAN /\ (switched => switched')
    BY <1>1 DEF ContentTypes
  <2> HIDE DEF ContentInv
  <2> QED BY <2>1, RestStays
<1>3. past \in Seq(Documents) /\ doc \in Documents
  BY GoodIsDocument DEF ContentTypes, DocsInv
<1>4. ContentTypes'
  <2>1. past' \in Seq(Documents) /\ future' \in Seq(Documents)
    BY <1>1, <1>3
  <2> QED BY <1>1, <2>1 DEF ContentTypes
<1>5. DocsInv'
  <2>1. Good(doc', newId', switched') /\ Good(lastSaved', newId', switched') /\ Good(stored', newId', switched')
    BY <1>1, <1>2 DEF DocsInv
  <2>2. \A i \in 1 .. Len(past') : past'[i] = IF i <= Len(past) THEN past[i] ELSE doc
    BY <1>1, <1>3
  <2>3. \A i \in 1 .. Len(past') : Good(past'[i], newId', switched')
    <3>1. Len(past') = Len(past) + 1 /\ Len(past) \in Nat
      BY <1>1, <1>3
    <3> QED BY <1>2, <2>2, <3>1 DEF DocsInv
  <2>4. Len(future') = 0
    BY <1>1
  <2> QED BY <2>1, <2>3, <2>4 DEF DocsInv
<1>6. NetInv'
  BY <1>1, <1>2 DEF NetInv
<1>7. CopyInv' /\ StoredAsSent' /\ (~switched' => autoRound' = TRUE)
  BY <1>1 DEF CopyInv, StoredAsSent
<1> QED BY <1>4, <1>5, <1>6, <1>7


-----------------------------------------------------------------------------
(* Edits                                                                   *)

LEMMA ShownFits ==
    ASSUME ContentInv
    PROVE  /\ newId \in Nat /\ Fits(doc, newId) /\ Fresh = newId + 1
           /\ \A l \in DOMAIN doc.lines : doc.lines[l].pos \in Nat \ {0}
           /\ Cardinality(DOMAIN doc.lines) \in Nat /\ Cardinality(DOMAIN doc.blocks) \in Nat
<1>1. newId \in Nat /\ Fits(doc, newId)
  BY DEF ContentInv, ContentTypes, DocsInv, Good
<1>2. /\ DOMAIN doc.lines \subseteq 1 .. newId /\ DOMAIN doc.blocks \subseteq 1 .. newId
      /\ Numbered(doc.lines)
  BY <1>1, DocParts
<1>3. IsFiniteSet(1 .. newId)
  BY <1>1, FS_Interval
<1>4. Cardinality(DOMAIN doc.lines) \in Nat /\ Cardinality(DOMAIN doc.blocks) \in Nat
  BY <1>2, <1>3, FS_Subset, FS_CardinalityType
<1> QED BY <1>1, <1>2, <1>4 DEF Fresh, Numbered

LEMMA EditKeeps ==
    ASSUME ContentInv, NEW next, Edit(next), newId' \in {newId, newId + 1},
           Fits(next, newId'), Follows(doc, next, autoRound)
    PROVE  ContentInv'
<1>1. /\ newId \in Nat /\ switched \in BOOLEAN /\ (~switched => autoRound = TRUE)
      /\ Good(doc, newId, switched) /\ LookupInv
  BY DEF ContentInv, ContentTypes, DocsInv
<1>2. Good(next, newId', switched)
  BY <1>1, EditedIsGood
<1>3. LookupInv'
  BY <1>1 DEF Edit, LookupInv
<1> QED BY <1>2, <1>3, CommitKeeps DEF Edit

LEMMA EditLinesKeeps ==
    ASSUME ContentInv, EditLines
    PROVE  ContentInv'
<1>1. /\ newId \in Nat /\ Fits(doc, newId) /\ Fresh = newId + 1
      /\ \A l \in DOMAIN doc.lines : doc.lines[l].pos \in Nat \ {0}
      /\ Cardinality(DOMAIN doc.lines) \in Nat
  BY ShownFits
<1>2. CASE newId' = Fresh /\ \E qty \in Qtys :
             \/ \E key \in {1, Last(doc.lines)} \cup {After(doc.lines, l) : l \in DOMAIN doc.lines}
                           \cup {Before(doc.lines, l) : l \in DOMAIN doc.lines} :
                  Edit(AddLine(doc, Fresh, key, qty))
             \/ Edit(ReplaceLines(doc, Fresh, qty))
  <2>1. PICK qty \in Qtys :
             \/ \E key \in {1, Last(doc.lines)} \cup {After(doc.lines, l) : l \in DOMAIN doc.lines}
                           \cup {Before(doc.lines, l) : l \in DOMAIN doc.lines} :
                  Edit(AddLine(doc, Fresh, key, qty))
             \/ Edit(ReplaceLines(doc, Fresh, qty))
    BY <1>2
  <2>2. qty \in Nat /\ newId' = newId + 1
    BY <1>1, <1>2, ContentBounds
  <2>3. ASSUME NEW key \in {1, Last(doc.lines)} \cup {After(doc.lines, l) : l \in DOMAIN doc.lines}
                           \cup {Before(doc.lines, l) : l \in DOMAIN doc.lines},
               Edit(AddLine(doc, Fresh, key, qty))
        PROVE  ContentInv'
    <3>1. \E k \in Nat : key = 2 * k + 1
      <4>1. CASE key = 1
        <5>1. 0 \in Nat /\ key = 2 * 0 + 1
          BY <4>1
        <5> QED BY <5>1
      <4>2. CASE key = Last(doc.lines)
        BY <1>1, <4>2 DEF Last
      <4>3. CASE \E l \in DOMAIN doc.lines : key = After(doc.lines, l)
        BY <1>1, <4>3 DEF After
      <4>4. CASE \E l \in DOMAIN doc.lines : key = Before(doc.lines, l)
        <5>1. PICK l \in DOMAIN doc.lines : key = Before(doc.lines, l)
          BY <4>4
        <5> DEFINE p == doc.lines[l].pos
        <5>2. p \in Nat \ {0} /\ key = 2 * p - 1
          BY <1>1, <5>1 DEF Before
        <5> HIDE DEF p
        <5>3. p - 1 \in Nat /\ key = 2 * (p - 1) + 1
          BY <5>2
        <5> QED BY <5>3
      <4> QED BY <2>3, <4>1, <4>2, <4>3, <4>4
    <3>2. PICK k \in Nat : key = 2 * k + 1
      BY <3>1
    <3> DEFINE next == AddLine(doc, newId + 1, 2 * k + 1, qty)
    <3>3. Fits(next, newId + 1) /\ Follows(doc, next, autoRound)
      BY <1>1, <2>2, AddLineFits
    <3>4. Edit(next)
      BY <1>1, <2>3, <3>2
    <3> HIDE DEF next
    <3> QED BY <1>1, <2>2, <3>3, <3>4, EditKeeps
  <2>4. ASSUME Edit(ReplaceLines(doc, Fresh, qty))
        PROVE  ContentInv'
    <3> DEFINE next == ReplaceLines(doc, newId + 1, qty)
    <3>1. Fits(next, newId + 1) /\ Follows(doc, next, autoRound)
      BY <1>1, <2>2, ReplaceLinesFits
    <3>2. Edit(next)
      BY <1>1, <2>4
    <3> HIDE DEF next
    <3> QED BY <1>1, <2>2, <3>1, <3>2, EditKeeps
  <2> QED BY <2>1, <2>3, <2>4
<1>3. ASSUME UNCHANGED newId, NEW gone, Edit(RemoveLines(doc, gone))
      PROVE  ContentInv'
  <2> DEFINE next == RemoveLines(doc, gone)
  <2>1. Fits(next, newId) /\ Follows(doc, next, autoRound)
    BY <1>1, RemoveLinesFits
  <2> HIDE DEF next
  <2> QED BY <1>3, <2>1, EditKeeps DEF next
<1>4. ASSUME UNCHANGED newId, NEW l \in DOMAIN doc.lines,
             NEW to \in 0 .. Cardinality(DOMAIN doc.lines) - 1, Edit(MoveLine(doc, l, to))
      PROVE  ContentInv'
  <2> DEFINE next == MoveLine(doc, l, to)
  <2>1. to \in Nat
    BY <1>1
  <2>2. Fits(next, newId) /\ Follows(doc, next, autoRound)
    BY <1>1, <2>1, MoveLineFits
  <2> HIDE DEF next
  <2> QED BY <1>4, <2>2, EditKeeps DEF next
<1>5. ASSUME UNCHANGED newId, NEW l \in DOMAIN doc.lines,
             NEW qty \in Qtys, Edit(SetLineQty(doc, l, qty, autoRound))
      PROVE  ContentInv'
  <2> DEFINE next == SetLineQty(doc, l, qty, autoRound)
  <2>1. qty \in Nat
    BY ContentBounds
  <2>2. Fits(next, newId) /\ Follows(doc, next, autoRound)
    BY <1>1, <2>1, SetLineQtyFits
  <2> HIDE DEF next
  <2> QED BY <1>5, <2>2, EditKeeps DEF next
<1>6. ASSUME UNCHANGED newId, NEW l \in DOMAIN doc.lines, Edit(TouchLine(doc, l))
      PROVE  ContentInv'
  <2> DEFINE next == TouchLine(doc, l)
  <2>1. Fits(next, newId) /\ Follows(doc, next, autoRound)
    BY <1>1, TouchLineFits
  <2> HIDE DEF next
  <2> QED BY <1>6, <2>1, EditKeeps DEF next
<1>7. ASSUME UNCHANGED newId, NEW header \in Headers, Edit(SetHeader(doc, header))
      PROVE  ContentInv'
  <2> DEFINE next == SetHeader(doc, header)
  <2>1. Fits(next, newId) /\ Follows(doc, next, autoRound)
    BY <1>1, SetHeaderFits
  <2> HIDE DEF next
  <2> QED BY <1>7, <2>1, EditKeeps DEF next
<1> QED BY <1>2, <1>3, <1>4, <1>5, <1>6, <1>7 DEF EditLines

LEMMA EditBlocksKeeps ==
    ASSUME ContentInv, EditBlocks
    PROVE  ContentInv'
<1>1. /\ newId \in Nat /\ Fits(doc, newId) /\ Fresh = newId + 1
      /\ Cardinality(DOMAIN doc.blocks) \in Nat
  BY ShownFits
<1>2. ASSUME newId' = Fresh, NEW s \in Suppliers, Edit(EnsureBlock(doc, Fresh, s))
      PROVE  ContentInv'
  <2> DEFINE next == EnsureBlock(doc, newId + 1, s)
  <2>1. Fits(next, newId + 1) /\ Follows(doc, next, autoRound)
    BY <1>1, EnsureBlockFits
  <2>2. Edit(next) /\ newId' = newId + 1
    BY <1>1, <1>2
  <2> HIDE DEF next
  <2> QED BY <2>1, <2>2, EditKeeps
<1>3. ASSUME UNCHANGED newId, NEW b \in DOMAIN doc.blocks, Edit(RemoveBlock(doc, b))
      PROVE  ContentInv'
  <2> DEFINE next == RemoveBlock(doc, b)
  <2>1. Fits(next, newId) /\ Follows(doc, next, autoRound)
    BY <1>1, RemoveBlockFits
  <2> HIDE DEF next
  <2> QED BY <1>3, <2>1, EditKeeps DEF next
<1>4. ASSUME UNCHANGED newId, NEW b \in DOMAIN doc.blocks,
             NEW to \in 0 .. Cardinality(DOMAIN doc.blocks) - 1, Edit(MoveBlock(doc, b, to))
      PROVE  ContentInv'
  <2> DEFINE next == MoveBlock(doc, b, to)
  <2>1. to \in Nat
    BY <1>1
  <2>2. Fits(next, newId) /\ Follows(doc, next, autoRound)
    BY <1>1, <2>1, MoveBlockFits
  <2> HIDE DEF next
  <2> QED BY <1>4, <2>2, EditKeeps DEF next
<1>5. ASSUME UNCHANGED newId, NEW b \in DOMAIN doc.blocks, Edit(TouchBlock(doc, b))
      PROVE  ContentInv'
  <2> DEFINE next == TouchBlock(doc, b)
  <2>1. Fits(next, newId) /\ Follows(doc, next, autoRound)
    BY <1>1, TouchBlockFits
  <2> HIDE DEF next
  <2> QED BY <1>5, <2>1, EditKeeps DEF next
<1> QED BY <1>2, <1>3, <1>4, <1>5 DEF EditBlocks


\* An edit of the page or an answer of the catalogue, under the next number.
LEMMA FreshOffers ==
    ASSUME ContentInv, NEW b, NEW pick, \A l \in DOMAIN pick : pick[l] \in Products
    PROVE  LET next == UpsertOffers(doc, b, pick, newId + 1, autoRound)
           IN  Fits(next, newId + 1) /\ Follows(doc, next, autoRound)
<1>1. newId \in Nat /\ Fits(doc, newId)
  BY ShownFits
<1> DEFINE m == newId + 1
<1>2. m \in Nat /\ Fits(doc, m) /\ NoOfferOf(doc, m)
  BY <1>1, FitsMore, NextIsNew
<1> HIDE DEF m
<1>3. LET next == UpsertOffers(doc, b, pick, m, autoRound)
      IN  Fits(next, m) /\ Follows(doc, next, autoRound)
  BY <1>2, UpsertOffersFits
<1> QED BY <1>3 DEF m

LEMMA EditOffersKeeps ==
    ASSUME ContentInv, EditOffers
    PROVE  ContentInv'
<1>1. newId \in Nat /\ Fits(doc, newId) /\ Fresh = newId + 1
  BY ShownFits
<1>2. ASSUME newId' = Fresh, NEW l, NEW b, NEW p \in ProductsOf(doc, b),
             Edit(UpsertOffers(doc, b, One(l, p), Fresh, autoRound))
      PROVE  ContentInv'
  <2> DEFINE pick == One(l, p)
             next == UpsertOffers(doc, b, pick, newId + 1, autoRound)
  <2>1. \A x \in DOMAIN pick : pick[x] \in Products
    BY DEF One, ProductsOf
  <2>2. Edit(next) /\ newId' = newId + 1
    BY <1>1, <1>2
  <2> HIDE DEF pick
  <2>3. Fits(next, newId + 1) /\ Follows(doc, next, autoRound)
    BY <2>1, FreshOffers
  <2> HIDE DEF next
  <2> QED BY <2>2, <2>3, EditKeeps
<1>3. ASSUME newId' = Fresh, NEW l, NEW p \in Products,
             Edit(AddProduct(doc, l, p, Fresh, autoRound))
      PROVE  ContentInv'
  <2> DEFINE next == AddProduct(doc, l, p, newId + 1, autoRound)
  <2>1. Fits(next, newId + 1) /\ Follows(doc, next, autoRound)
    BY <1>1, AddProductFits
  <2>2. Edit(next) /\ newId' = newId + 1
    BY <1>1, <1>3
  <2> HIDE DEF next
  <2> QED BY <2>1, <2>2, EditKeeps
<1>4. ASSUME UNCHANGED newId, NEW gone, Edit(RemoveOffers(doc, gone))
      PROVE  ContentInv'
  <2> DEFINE next == RemoveOffers(doc, gone)
  <2>1. Fits(next, newId) /\ Follows(doc, next, autoRound)
    BY <1>1, RemoveOffersFits
  <2> HIDE DEF next
  <2> QED BY <1>4, <2>1, EditKeeps DEF next
<1>5. ASSUME UNCHANGED newId, NEW o \in DOMAIN doc.offers, NEW qty \in Maybe(HandQtys),
             Edit(SetOfferQty(doc, o, qty))
      PROVE  ContentInv'
  <2> DEFINE next == SetOfferQty(doc, o, qty)
  <2>1. qty \in Maybe(Nat)
    BY ContentBounds DEF Maybe
  <2>2. Fits(next, newId) /\ Follows(doc, next, autoRound)
    BY <1>1, <2>1, SetOfferQtyFits
  <2> HIDE DEF next
  <2> QED BY <1>5, <2>2, EditKeeps DEF next
<1>6. ASSUME UNCHANGED newId, NEW o \in DOMAIN doc.offers, NEW exact \in BOOLEAN,
             Edit(SetExact(doc, o, exact, autoRound))
      PROVE  ContentInv'
  <2> DEFINE next == SetExact(doc, o, exact, autoRound)
  <2>1. Fits(next, newId) /\ Follows(doc, next, autoRound)
    BY <1>1, SetExactFits
  <2> HIDE DEF next
  <2> QED BY <1>6, <2>1, EditKeeps DEF next
<1>7. ASSUME UNCHANGED newId, NEW o \in DOMAIN doc.offers, Edit(TouchOffer(doc, o))
      PROVE  ContentInv'
  <2> DEFINE next == TouchOffer(doc, o)
  <2>1. Fits(next, newId) /\ Follows(doc, next, autoRound)
    BY <1>1, TouchOfferFits
  <2> HIDE DEF next
  <2> QED BY <1>7, <2>1, EditKeeps DEF next
<1>8. ASSUME UNCHANGED newId, NEW o \in DOMAIN doc.offers, Edit(ToggleExclude(doc, o))
      PROVE  ContentInv'
  <2> DEFINE next == ToggleExclude(doc, o)
  <2>1. Fits(next, newId) /\ Follows(doc, next, autoRound)
    BY <1>1, ToggleExcludeFits
  <2> HIDE DEF next
  <2> QED BY <1>8, <2>1, EditKeeps DEF next
<1>9. ASSUME UNCHANGED newId, NEW l \in DOMAIN doc.lines, NEW b \in Maybe(DOMAIN doc.blocks),
             Edit(Select(doc, l, b))
      PROVE  ContentInv'
  <2> DEFINE next == Select(doc, l, b)
  <2>1. Fits(next, newId) /\ Follows(doc, next, autoRound)
    BY <1>1, SelectFits
  <2> HIDE DEF next
  <2> QED BY <1>9, <2>1, EditKeeps DEF next
<1> QED BY <1>2, <1>3, <1>4, <1>5, <1>6, <1>7, <1>8, <1>9 DEF EditOffers

LEMMA ChooseAllKeeps ==
    ASSUME ContentInv, ChooseAll
    PROVE  ContentInv'
<1>1. newId \in Nat /\ Fits(doc, newId)
  BY ShownFits
<1>2. PICK some \in SUBSET DOMAIN doc.lines : \E pick \in [some -> DOMAIN doc.blocks] :
          /\ \A l \in some : pick[l] \in Candidates(doc, l)
          /\ Edit(SelectAll(doc, pick))
  BY DEF ChooseAll
<1>3. PICK pick \in [some -> DOMAIN doc.blocks] :
          /\ \A l \in some : pick[l] \in Candidates(doc, l)
          /\ Edit(SelectAll(doc, pick))
  BY <1>2
<1> DEFINE next == SelectAll(doc, pick)
<1>4. \A l \in DOMAIN pick : pick[l] \in Candidates(doc, l)
  BY <1>3
<1>5. Fits(next, newId) /\ Follows(doc, next, autoRound)
  BY <1>1, <1>4, SelectAllFits
<1>6. Edit(next) /\ newId' = newId
  BY <1>3 DEF ChooseAll
<1> HIDE DEF next
<1> QED BY <1>5, <1>6, EditKeeps

LEMMA WithoutLast ==
    ASSUME NEW S, NEW s \in Seq(S), s # <<>>
    PROVE  LET front == SubSeq(s, 1, Len(s) - 1)
           IN  /\ front \in Seq(S) /\ Len(front) = Len(s) - 1
               /\ \A i \in 1 .. Len(s) - 1 : front[i] = s[i]
<1> DEFINE n == Len(s) - 1
           front == SubSeq(s, 1, n)
<1>1. Len(s) \in Nat /\ Len(s) >= 1 /\ \A i \in 1 .. Len(s) : s[i] \in S
  OBVIOUS
<1>2. n \in Nat /\ n \in Int /\ 1 \in Int /\ n - 1 + 1 = n /\ \A i \in 1 .. n : s[i] \in S
  BY <1>1
<1> HIDE DEF n
<1>3. /\ SubSeq(s, 1, n) \in Seq(S)
      /\ Len(SubSeq(s, 1, n)) = IF 1 <= n THEN n - 1 + 1 ELSE 0
      /\ \A i \in 1 .. n - 1 + 1 : SubSeq(s, 1, n)[i] = s[1 + i - 1]
  BY ONLY <1>2, SubSeqProperties
<1> HIDE DEF front
<1>4. front \in Seq(S) /\ Len(front) = n /\ \A i \in 1 .. n : front[i] = s[i]
  BY <1>2, <1>3 DEF front
<1> QED BY <1>4 DEF front, n

\* Documents change places between what is shown, past and future.
LEMMA UndoKeeps ==
    ASSUME ContentInv, Undo
    PROVE  ContentInv'
<1> USE DEF ContentInv
<1>1. /\ past \in Seq(Documents) /\ past # <<>> /\ future \in Seq(Documents) /\ doc \in Documents
  BY GoodIsDocument DEF Undo, ContentTypes, DocsInv
<1>2. /\ Len(past) \in Nat /\ Len(past) >= 1 /\ Len(future) \in Nat
  BY <1>1
<1>3. /\ doc' = past[Len(past)] /\ past' = SubSeq(past, 1, Len(past) - 1)
      /\ future' = Append(future, doc)
      /\ UNCHANGED <<lastSaved, autoRound, stored, current, net, lookup, copy, newId, switched>>
  BY DEF Undo
<1>4. /\ past' \in Seq(Documents) /\ Len(past') = Len(past) - 1
      /\ \A i \in 1 .. Len(past) - 1 : past'[i] = past[i]
  BY <1>1, <1>3, WithoutLast
<1>5. /\ future' \in Seq(Documents) /\ Len(future') = Len(future) + 1
      /\ \A i \in 1 .. Len(future) + 1 : future'[i] = IF i <= Len(future) THEN future[i] ELSE doc
  BY <1>1, <1>2, <1>3
<1>6. DocsInv'
  BY <1>2, <1>3, <1>4, <1>5 DEF DocsInv
<1>7. ContentTypes' /\ NetInv' /\ LookupInv' /\ CopyInv' /\ StoredAsSent'
  BY <1>3, <1>4, <1>5 DEF ContentTypes, NetInv, LookupInv, CopyInv, StoredAsSent
<1> QED BY <1>3, <1>6, <1>7

LEMMA RedoKeeps ==
    ASSUME ContentInv, Redo
    PROVE  ContentInv'
<1> USE DEF ContentInv
<1>1. /\ future \in Seq(Documents) /\ future # <<>> /\ past \in Seq(Documents) /\ doc \in Documents
  BY GoodIsDocument DEF Redo, ContentTypes, DocsInv
<1>2. /\ Len(future) \in Nat /\ Len(future) >= 1 /\ Len(past) \in Nat
  BY <1>1
<1>3. /\ doc' = future[Len(future)] /\ future' = SubSeq(future, 1, Len(future) - 1)
      /\ past' = Append(past, doc)
      /\ UNCHANGED <<lastSaved, autoRound, stored, current, net, lookup, copy, newId, switched>>
  BY DEF Redo
<1>4. /\ future' \in Seq(Documents) /\ Len(future') = Len(future) - 1
      /\ \A i \in 1 .. Len(future) - 1 : future'[i] = future[i]
  BY <1>1, <1>3, WithoutLast
<1>5. /\ past' \in Seq(Documents) /\ Len(past') = Len(past) + 1
      /\ \A i \in 1 .. Len(past) + 1 : past'[i] = IF i <= Len(past) THEN past[i] ELSE doc
  BY <1>1, <1>2, <1>3
<1>6. DocsInv'
  BY <1>2, <1>3, <1>4, <1>5 DEF DocsInv
<1>7. ContentTypes' /\ NetInv' /\ LookupInv' /\ CopyInv' /\ StoredAsSent'
  BY <1>3, <1>4, <1>5 DEF ContentTypes, NetInv, LookupInv, CopyInv, StoredAsSent
<1> QED BY <1>3, <1>6, <1>7

LEMMA AskKeeps ==
    ASSUME ContentInv, Ask
    PROVE  ContentInv'
<1> USE DEF ContentInv
<1>1. UNCHANGED <<tab, autoRound, stored, current, net, copy, newId, switched>>
  BY DEF Ask
<1>2. LookupInv'
  BY DEF Ask, AskSkus, AskProduct, ProductsOf, LookupInv
<1> QED BY <1>1, <1>2 DEF tab, ContentTypes, DocsInv, NetInv, CopyInv, StoredAsSent

LEMMA CatalogueAnswersKeeps ==
    ASSUME ContentInv, CatalogueAnswers
    PROVE  ContentInv'
<1>1. newId \in Nat /\ Fits(doc, newId) /\ Fresh = newId + 1
  BY ShownFits
<1>2. /\ lookup # Null /\ lookup' = Null /\ newId' = newId + 1
      /\ UNCHANGED <<autoRound, stored, current, net, copy, switched>>
  BY <1>1 DEF CatalogueAnswers
<1>3. lookup.products \subseteq Products
  BY <1>2 DEF ContentInv, LookupInv
<1>4. LookupInv'
  BY <1>2 DEF LookupInv
<1>5. PICK next \in Answered : IF next = doc THEN UNCHANGED tab ELSE CommitEdit(next)
  BY DEF CatalogueAnswers
<1>6. Fits(next, newId + 1) /\ Follows(doc, next, autoRound)
  <2>1. CASE lookup.block = Null
    <3>1. PICK l \in lookup.lines, p \in lookup.products :
              next = AddProduct(doc, l, p, newId + 1, autoRound)
      BY <1>1, <1>5, <2>1 DEF Answered
    <3> QED BY <1>1, <1>3, <3>1, AddProductFits
  <2>2. CASE lookup.block # Null
    <3>1. PICK pick \in UNION {[found -> lookup.products] : found \in SUBSET lookup.lines} :
              next = UpsertOffers(doc, lookup.block, pick, newId + 1, autoRound)
      BY <1>1, <1>5, <2>2 DEF Answered
    <3>2. \A l \in DOMAIN pick : pick[l] \in Products
      BY <1>3, <3>1
    <3> DEFINE b == lookup.block
    <3> HIDE DEF b
    <3>3. LET e == UpsertOffers(doc, b, pick, newId + 1, autoRound)
          IN  Fits(e, newId + 1) /\ Follows(doc, e, autoRound)
      BY <3>2, FreshOffers
    <3> QED BY <3>1, <3>3 DEF b
  <2> QED BY <2>1, <2>2
<1>7. CASE next = doc
  <2>1. UNCHANGED tab
    BY <1>5, <1>7
  <2>2. \A d : Good(d, newId, switched) => Good(d, newId', switched')
    <3>1. /\ newId' \in {newId, newId + 1} /\ switched' \in BOOLEAN
          /\ (switched => switched')
      BY <1>2 DEF ContentInv, ContentTypes
    <3> QED BY <3>1, RestStays
  <2> QED BY <1>1, <1>2, <1>4, <2>1, <2>2
          DEF ContentInv, tab, ContentTypes, DocsInv, NetInv, CopyInv, StoredAsSent
<1>8. CASE next # doc
  <2>1. CommitEdit(next)
    BY <1>5, <1>8
  <2>2. Good(next, newId', switched)
    <3>1. /\ switched \in BOOLEAN /\ (~switched => autoRound = TRUE)
          /\ Good(doc, newId, switched)
      BY DEF ContentInv, ContentTypes, DocsInv
    <3> QED BY <1>1, <1>2, <1>6, <3>1, EditedIsGood
  <2> QED BY <1>2, <1>4, <2>1, <2>2, CommitKeeps
<1> QED BY <1>7, <1>8


-----------------------------------------------------------------------------
(* Saves and what else happens                                             *)

LEMMA SendKeeps ==
    ASSUME ContentInv, Send
    PROVE  ContentInv'
<1> USE DEF ContentInv
<1>1. /\ net' = [at |-> "sent", sent |-> doc, patch |-> Diff(lastSaved, doc)]
      /\ UNCHANGED <<tab, autoRound, stored, current, lookup, copy, newId, switched>>
      /\ net.at = "idle"
  BY DEF Send
<1>2. NetInv'
  BY <1>1 DEF tab, NetInv, DocsInv
<1>3. StoredAsSent'
  BY <1>1 DEF tab, StoredAsSent
<1> QED BY <1>1, <1>2, <1>3 DEF tab, ContentTypes, DocsInv, LookupInv, CopyInv

\* The rows become what was sent: as long as the version is current, the tab
\* knows what the difference is applied to.
LEMMA ServeKeeps ==
    ASSUME ContentInv, Serve
    PROVE  ContentInv'
<1> USE DEF ContentInv
<1>1. /\ net.at = "sent" /\ UNCHANGED <<tab, autoRound, current, lookup, copy, newId, switched>>
  BY DEF Serve
<1>2. /\ net = [at |-> net.at, sent |-> net.sent, patch |-> net.patch]
      /\ Good(net.sent, newId, switched) /\ net.patch = Diff(lastSaved, net.sent)
      /\ Good(lastSaved, newId, switched) /\ newId \in Nat
  BY <1>1 DEF NetInv, NoSave, DocsInv, ContentTypes
<1>3. CASE current
  <2>1. stored' = Written(stored, Applied(stored, net.patch)) /\ net' = [net EXCEPT !.at = "stored"]
    BY <1>3 DEF Serve
  <2>2. stored = lastSaved
    BY <1>1, <1>3 DEF StoredAsSent
  <2>3. stored' = net.sent
    <3>1. Fits(lastSaved, newId) /\ Fits(net.sent, newId)
      BY <1>2 DEF Good
    <3>2. Written(lastSaved, Applied(lastSaved, Diff(lastSaved, net.sent))) = net.sent
      <4> DEFINE d == net.sent
      <4> HIDE DEF d
      <4>1. Fits(d, newId)
        BY <3>1 DEF d
      <4>2. Written(lastSaved, Applied(lastSaved, Diff(lastSaved, d))) = d
        BY <1>2, <3>1, <4>1, DifferenceGivesDocument
      <4> QED BY <4>2 DEF d
    <3> QED BY <1>2, <2>1, <2>2, <3>2
  <2>4. net'.at = "stored" /\ net'.sent = net.sent /\ net' = [at |-> net'.at, sent |-> net'.sent, patch |-> net'.patch]
    BY <1>2, <2>1
  <2>5. NetInv'
    BY <1>1, <1>2, <2>4 DEF NetInv
  <2>6. StoredAsSent'
    BY <2>3, <2>4 DEF StoredAsSent
  <2>7. DocsInv'
    BY <1>1, <1>2, <2>3 DEF DocsInv, tab
  <2> QED BY <1>1, <2>5, <2>6, <2>7 DEF tab, ContentTypes, LookupInv, CopyInv
<1>4. CASE ~current
  <2>1. stored' = stored /\ net' = [net EXCEPT !.at = "refused"]
    BY <1>4 DEF Serve
  <2>2. net'.at = "refused" /\ net'.sent = net.sent /\ net' = [at |-> net'.at, sent |-> net'.sent, patch |-> net'.patch]
    BY <1>2, <2>1
  <2>3. NetInv'
    BY <1>1, <1>2, <2>2 DEF NetInv
  <2>4. StoredAsSent' /\ DocsInv'
    BY <1>1, <1>4, <2>1 DEF StoredAsSent, DocsInv, tab
  <2> QED BY <1>1, <2>3, <2>4 DEF tab, ContentTypes, LookupInv, CopyInv
<1> QED BY <1>3, <1>4

LEMMA SavedKeeps ==
    ASSUME ContentInv, Saved
    PROVE  ContentInv'
<1> USE DEF ContentInv
<1>1. /\ net.at = "stored" /\ lastSaved' = net.sent /\ net' = NoSave
      /\ UNCHANGED <<doc, past, future, autoRound, stored, current, lookup, copy, newId, switched>>
  BY DEF Saved
<1>2. Good(net.sent, newId, switched)
  BY <1>1 DEF NetInv, NoSave
<1>3. DocsInv'
  BY <1>1, <1>2 DEF DocsInv
<1>4. StoredAsSent' /\ NetInv'
  BY <1>1 DEF StoredAsSent, NetInv, NoSave
<1> QED BY <1>1, <1>3, <1>4 DEF ContentTypes, LookupInv, CopyInv

LEMMA RereadKeeps ==
    ASSUME ContentInv, Reread, net' = NoSave, autoRound' \in BOOLEAN, switched' \in BOOLEAN,
           switched => switched', ~switched' => autoRound' = TRUE,
           UNCHANGED <<stored, newId, lookup, copy>>
    PROVE  ContentInv'
<1>1. \A d : Good(d, newId, switched) => Good(d, newId', switched')
  BY RestStays
<1> USE DEF ContentInv
<1>2. /\ doc' = stored /\ lastSaved' = stored /\ past' = <<>> /\ future' = <<>> /\ current' = TRUE
  BY DEF Reread
<1>3. past' \in Seq(Documents) /\ future' \in Seq(Documents) /\ Len(past') = 0 /\ Len(future') = 0
  BY <1>2
<1>4. DocsInv'
  BY <1>1, <1>2, <1>3 DEF DocsInv
<1>5. ContentTypes'
  BY <1>2, <1>3 DEF ContentTypes
<1>6. NetInv' /\ StoredAsSent'
  BY <1>2 DEF NetInv, StoredAsSent, NoSave
<1> QED BY <1>4, <1>5, <1>6 DEF LookupInv, CopyInv

LEMMA SaveRefusedKeeps ==
    ASSUME ContentInv, SaveRefused
    PROVE  ContentInv'
<1>1. /\ autoRound' \in BOOLEAN /\ switched' \in BOOLEAN /\ (switched => switched')
      /\ (~switched' => autoRound' = TRUE)
  BY DEF SaveRefused, ContentInv, ContentTypes
<1> QED BY <1>1, RereadKeeps DEF SaveRefused

LEMMA ReopenKeeps ==
    ASSUME ContentInv, Reopen
    PROVE  ContentInv'
<1>1. /\ autoRound \in BOOLEAN /\ switched \in BOOLEAN /\ (~switched => autoRound = TRUE)
      /\ net = NoSave
  BY DEF Reopen, ContentInv, ContentTypes, NetInv
<1>2. /\ autoRound' \in BOOLEAN /\ switched' \in BOOLEAN /\ (switched => switched')
      /\ (~switched' => autoRound' = TRUE)
  BY <1>1 DEF Reopen
<1> QED BY <1>1, <1>2, RereadKeeps DEF Reopen

LEMMA LoseKeeps ==
    ASSUME ContentInv, Lose
    PROVE  ContentInv'
<1> USE DEF ContentInv
<1>1. /\ net.at \in {"sent", "stored"} /\ net' = NoSave /\ current' = (current /\ net.at = "sent")
      /\ UNCHANGED <<tab, autoRound, stored, lookup, copy, newId, switched>>
  BY DEF Lose
<1>2. StoredAsSent'
  BY <1>1 DEF StoredAsSent, NoSave, tab
<1>3. NetInv' /\ current' \in BOOLEAN
  BY <1>1 DEF NetInv, ContentTypes
<1> QED BY <1>1, <1>2, <1>3 DEF tab, ContentTypes, DocsInv, LookupInv, CopyInv

LEMMA OthersSaveKeeps ==
    ASSUME ContentInv, OthersSave
    PROVE  ContentInv'
<1> USE DEF ContentInv
<1>1. /\ current' = FALSE
      /\ UNCHANGED <<tab, autoRound, net, lookup, copy, newId, switched>>
  BY DEF OthersSave
<1>2. /\ newId \in Nat /\ switched \in BOOLEAN /\ Good(stored, newId, switched)
      /\ Fits(stored, newId)
  BY DEF ContentTypes, DocsInv, Good
<1>3. Good(stored', newId, switched)
  <2>1. ASSUME NEW l, stored' = RemoveLines(stored, {l})
        PROVE  Good(stored', newId, switched)
    <3> DEFINE gone == {l}
               next == RemoveLines(stored, gone)
    <3> HIDE DEF gone
    <3>1. Fits(next, newId) /\ Follows(stored, next, TRUE)
      BY <1>2, RemoveLinesFits
    <3>2. stored' = next
      BY <2>1 DEF gone
    <3> HIDE DEF next
    <3> QED BY <1>2, <3>1, <3>2, EditedIsGood
  <2>2. ASSUME NEW b \in DOMAIN stored.blocks, stored' = RemoveBlock(stored, b)
        PROVE  Good(stored', newId, switched)
    <3> DEFINE next == RemoveBlock(stored, b)
    <3>1. Fits(next, newId) /\ Follows(stored, next, TRUE)
      BY <1>2, RemoveBlockFits
    <3>2. stored' = next
      BY <2>2
    <3> HIDE DEF next
    <3> QED BY <1>2, <3>1, <3>2, EditedIsGood
  <2> QED BY <2>1, <2>2 DEF OthersSave
<1>4. DocsInv'
  BY <1>1, <1>3 DEF DocsInv, tab
<1> QED BY <1>1, <1>4 DEF tab, ContentTypes, NetInv, LookupInv, CopyInv, StoredAsSent

LEMMA CopyReadsKeeps ==
    ASSUME ContentInv, CopyReads
    PROVE  ContentInv'
<1> USE DEF ContentInv
<1>1. /\ UNCHANGED <<tab, autoRound, stored, current, net, lookup, newId, switched>>
      /\ copy.at # "read"
  BY DEF CopyReads
<1>2. /\ \A l \in DOMAIN stored.lines : stored.lines[l] \in Line
      /\ OnePerSupplier(stored.blocks) /\ OneOfPair(stored.offers)
  <2>1. newId \in Nat /\ Fits(stored, newId)
    BY DEF ContentTypes, DocsInv, Good
  <2>2. Linked(stored) /\ \A l \in DOMAIN stored.lines : stored.lines[l] \in Line
    BY <2>1, DocParts
  <2> QED BY <2>2 DEF Linked, OnePerSupplier, OneOfPair
<1>3. CopyInv'
  <2>1. CASE copy.at = "none"
    <3>1. copy' = [at |-> "lines", header |-> stored.header, lines |-> stored.lines]
      BY <2>1 DEF CopyReads
    <3> QED BY <1>2, <3>1 DEF CopyInv
  <2>2. CASE copy.at = "lines"
    <3>1. copy' = [at |-> "blocks", header |-> copy.header,
                   lines |-> copy.lines, blocks |-> stored.blocks]
      BY <2>2 DEF CopyReads
    <3> QED BY <1>2, <2>2, <3>1 DEF CopyInv
  <2>3. CASE copy.at = "blocks"
    <3>1. copy' = [at |-> "read", header |-> copy.header,
                   lines |-> copy.lines, blocks |-> copy.blocks, offers |-> stored.offers]
      BY <2>3 DEF CopyReads
    <3> QED BY <1>2, <2>3, <3>1 DEF CopyInv
  <2> QED BY <1>1, <2>1, <2>2, <2>3 DEF CopyInv
<1> QED BY <1>1, <1>3 DEF tab, ContentTypes, DocsInv, NetInv, LookupInv, StoredAsSent


-----------------------------------------------------------------------------
(* The theorems                                                            *)

LEMMA InitEstablishes == ContentInit => ContentInv
<1> SUFFICES ASSUME ContentInit PROVE ContentInv
  OBVIOUS
<1>1. /\ stored \in FirstDocs /\ doc = stored /\ lastSaved = stored /\ past = <<>> /\ future = <<>>
      /\ autoRound = TRUE /\ switched = FALSE /\ current = TRUE /\ net = NoSave
      /\ lookup = Null /\ copy = NoCopy /\ newId = FirstId /\ newId \in Nat
  BY ContentBounds DEF ContentInit
<1>2. Good(stored, newId, switched)
  BY <1>1, FirstAssumption DEF Good, Fits
<1>3. past \in Seq(Documents) /\ future \in Seq(Documents) /\ Len(past) = 0 /\ Len(future) = 0
  BY <1>1
<1>4. DocsInv
  <2>1. \A i : i \notin 1 .. Len(past) /\ i \notin 1 .. Len(future)
    BY <1>3
  <2>2. doc = stored /\ lastSaved = stored
    BY <1>1
  <2> QED BY <1>2, <2>1, <2>2 DEF DocsInv
<1>5. ContentTypes
  BY <1>1, <1>3 DEF ContentTypes
<1>6. NetInv /\ LookupInv /\ CopyInv /\ StoredAsSent
  BY <1>1 DEF NetInv, LookupInv, CopyInv, StoredAsSent, NoCopy, NoSave
<1> QED BY <1>1, <1>4, <1>5, <1>6 DEF ContentInv

LEMMA StepKeeps == ContentInv /\ [ContentNext]_contentVars => ContentInv'
<1> SUFFICES ASSUME ContentInv, [ContentNext]_contentVars PROVE ContentInv'
  OBVIOUS
<1>1. CASE UNCHANGED contentVars
  BY <1>1 DEF ContentInv, contentVars, tab, ContentTypes, DocsInv, NetInv, LookupInv, CopyInv,
              StoredAsSent
<1>2. CASE ContentDone
  BY <1>1, <1>2 DEF ContentDone
<1>3. CASE EditLines \/ EditBlocks \/ EditOffers \/ ChooseAll
  BY <1>3, EditLinesKeeps, EditBlocksKeeps, EditOffersKeeps, ChooseAllKeeps
<1>4. CASE Undo \/ Redo \/ Ask \/ CatalogueAnswers
  BY <1>4, UndoKeeps, RedoKeeps, AskKeeps, CatalogueAnswersKeeps
<1>5. CASE Send \/ Serve \/ Saved \/ SaveRefused
  BY <1>5, SendKeeps, ServeKeeps, SavedKeeps, SaveRefusedKeeps
<1>6. CASE Lose \/ OthersSave \/ Reopen \/ CopyReads
  BY <1>6, LoseKeeps, OthersSaveKeeps, ReopenKeeps, CopyReadsKeeps
<1> QED BY <1>1, <1>2, <1>3, <1>4, <1>5, <1>6 DEF ContentNext

LEMMA ContentInvariant == ContentSpec => []ContentInv
BY InitEstablishes, StepKeeps, PTL DEF ContentSpec

\* After an accepted save the rows are the document that was sent, whatever was
\* edited before and meanwhile and whoever else has written: diffDocuments and
\* applyDocumentPatch are inverse to each other on what the tab can send.
THEOREM RowsAreTheDocumentSent == ContentSpec => []StoredAsSent
<1>1. ContentInv => StoredAsSent
  BY DEF ContentInv
<1> QED BY <1>1, ContentInvariant, PTL

\* What a copy takes over belongs together, whichever parts are included.
LEMMA CopiedIsLinked ==
    ASSUME CopyInv, copy.at = "read", NEW include \in Includes
    PROVE  LET new == Copied(copy, include)
           IN  /\ Linked(new)
               /\ \A l \in DOMAIN new.lines : new.lines[l].sel \in Maybe(DOMAIN new.blocks)
<1> DEFINE new == Copied(copy, include)
           sourcing == include # "lines"
           blocks == IF sourcing THEN copy.blocks ELSE Restrict(copy.blocks, {})
           sel(l) == IF copy.lines[l].sel \in DOMAIN blocks THEN copy.lines[l].sel ELSE Null
           rest(l) == IF include = "full" THEN copy.lines[l].rest ELSE 0
           placed == {o \in DOMAIN copy.offers : /\ copy.offers[o].line \in DOMAIN copy.lines
                                                 /\ copy.offers[o].block \in DOMAIN blocks}
           offers == IF sourcing THEN Restrict(copy.offers, placed) ELSE Restrict(copy.offers, {})
<1>1. /\ \A l \in DOMAIN copy.lines : copy.lines[l] \in Line
      /\ OnePerSupplier(copy.blocks) /\ OneOfPair(copy.offers)
  BY DEF CopyInv
<1>2. OnePerSupplier(blocks)
  BY <1>1 DEF Restrict, OnePerSupplier
<1>3. /\ DOMAIN offers \subseteq placed /\ \A o \in DOMAIN offers : offers[o] = copy.offers[o]
  BY DEF Restrict
<1>4. /\ new.lines = [l \in DOMAIN copy.lines |-> [copy.lines[l] EXCEPT !.sel = sel(l), !.rest = rest(l)]]
      /\ new.blocks = blocks /\ new.offers = offers
  BY DEF Copied
<1> HIDE DEF new, blocks, offers
<1>5. \A o \in DOMAIN offers : offers[o].line \in DOMAIN copy.lines /\ offers[o].block \in DOMAIN blocks
  BY <1>3
<1>6. \A o, p \in DOMAIN offers : SamePair(offers, o, p) => o = p
  BY <1>1, <1>3 DEF OneOfPair, SamePair
<1>7. Linked(new)
  BY <1>2, <1>4, <1>5, <1>6 DEF Linked, OnePerSupplier
<1>8. ASSUME NEW l \in DOMAIN copy.lines
      PROVE  [copy.lines[l] EXCEPT !.sel = sel(l), !.rest = rest(l)].sel = sel(l)
  <2>1. copy.lines[l] \in Line
    BY <1>1
  <2> HIDE DEF sel, rest
  <2> QED BY <2>1 DEF Line
<1>9. \A l \in DOMAIN copy.lines : sel(l) \in Maybe(DOMAIN blocks)
  BY DEF Maybe
<1> HIDE DEF sel, rest
<1>10. DOMAIN new.lines = DOMAIN copy.lines /\ \A l \in DOMAIN copy.lines : new.lines[l].sel = sel(l)
  BY <1>4, <1>8
<1> QED BY <1>4, <1>7, <1>9, <1>10 DEF new

\* Documents stay sound through every edit, through undo, late answers and
\* saves, and copies come out linked though they are read in parts.
THEOREM DocumentsStaySound == ContentSpec => []DocumentsSound
<1>1. ContentInv => DocumentsSound
  <2>1. ContentInv => Sound(doc) /\ Sound(stored) /\ CopyInv
    BY DEF ContentInv, DocsInv, Good, Fits
  <2> QED BY <2>1, CopiedIsLinked DEF DocumentsSound
<1> QED BY <1>1, ContentInvariant, PTL

\* As long as the rule of rounding is the same, a quantity nobody typed in is
\* the one its line asks for.
THEOREM QuantitiesFollow == ContentSpec => []QtyFollowsLine
<1>1. ContentInv => QtyFollowsLine
  BY DEF ContentInv, DocsInv, Good, QtyFollowsLine
<1> QED BY <1>1, ContentInvariant, PTL

-----------------------------------------------------------------------------
(* The greatest common divisor *)

Divides(k, n) == \E q \in Nat : n = k * q

CommonDivisors(i, j) == {k \in Nat \ {0} : Divides(k, i) /\ Divides(k, j)}
Greatest(D) == CHOOSE k \in D : \A e \in D : e <= k

LEMMA DivMod ==
    ASSUME NEW i \in Nat, NEW j \in Nat \ {0}
    PROVE  /\ i \div j \in Nat /\ i % j \in Nat /\ i % j < j
           /\ i = j * (i \div j) + (i % j)
OBVIOUS

LEMMA DividesRest ==
    ASSUME NEW i \in Nat, NEW j \in Nat \ {0}, NEW k \in Nat \ {0}, Divides(k, j)
    PROVE  Divides(k, i) <=> Divides(k, i % j)
<1>1. PICK b \in Nat : j = k * b
  BY DEF Divides
<1> DEFINE d == i \div j  r == i % j
<1>2. d \in Nat /\ r \in Nat /\ i = j * d + r
  BY DivMod
<1> HIDE DEF d, r
<1>3. ASSUME NEW a \in Nat, i = k * a PROVE Divides(k, r)
  <2>1. r = k * (a - b * d)
    BY <1>1, <1>2, <1>3
  <2> DEFINE q == a - b * d
  <2>2. q \in Int
    BY <1>2
  <2>3. r = k * q
    BY <2>1
  <2> HIDE DEF q
  <2>4. q \in Nat
    <3>1. CASE q < 0
      <4>1. k * q < 0
        BY <2>2, <3>1
      <4> QED
        BY <4>1, <2>3, <1>2
    <3> QED
      BY <3>1, <2>2
  <2> QED
    BY <2>3, <2>4 DEF Divides
<1>4. ASSUME NEW a \in Nat, r = k * a PROVE Divides(k, i)
  <2>1. i = k * (b * d + a) /\ b * d + a \in Nat
    BY <1>1, <1>2, <1>4
  <2> QED
    BY <2>1 DEF Divides
<1> QED
  BY <1>3, <1>4 DEF Divides, r

LEMMA EuclidStep ==
    ASSUME NEW i \in Nat, NEW j \in Nat \ {0}
    PROVE  CommonDivisors(i, j) = CommonDivisors(j, i % j)
BY DividesRest DEF CommonDivisors

LEMMA GreatestOfMultiple ==
    ASSUME NEW i \in Nat, NEW j \in Nat \ {0}, i % j = 0
    PROVE  Greatest(CommonDivisors(i, j)) = j
<1>1. j = j * 1 /\ i = j * (i \div j) /\ i \div j \in Nat
  BY DivMod
<1>2. j \in CommonDivisors(i, j)
  BY <1>1 DEF CommonDivisors, Divides
<1>3. ASSUME NEW e \in CommonDivisors(i, j) PROVE e <= j
  <2>1. PICK q \in Nat : j = e * q
    BY <1>3 DEF CommonDivisors, Divides
  <2>2. e \in Nat \ {0} /\ q # 0
    BY <2>1 DEF CommonDivisors
  <2> QED
    BY <2>1, <2>2
<1>4. CommonDivisors(i, j) \subseteq Nat
  BY DEF CommonDivisors
<1> QED
  BY <1>2, <1>3, <1>4 DEF Greatest

IsGcd(g) == g = [p \in Nat \X Nat |-> IF p[2] = 0 THEN p[1] ELSE g[<<p[2], p[1] % p[2]>>]]

\* Gcd is defined: there is a function that satisfies its equation.
LEMMA GcdExists == IsGcd(Gcd)
<1> DEFINE g == [p \in Nat \X Nat |->
                    IF p[2] = 0 THEN p[1] ELSE Greatest(CommonDivisors(p[1], p[2]))]
<1>1. ASSUME NEW i \in Nat, NEW j \in Nat \ {0}
      PROVE  g[<<i, j>>] = g[<<j, i % j>>]
  <2>1. i % j \in Nat /\ <<i, j>> \in Nat \X Nat /\ <<j, i % j>> \in Nat \X Nat
    BY DivMod
  <2>2. g[<<i, j>>] = Greatest(CommonDivisors(i, j))
    BY <2>1
  <2>3. CASE i % j = 0
    BY <2>1, <2>2, <2>3, GreatestOfMultiple
  <2>4. CASE i % j # 0
    BY <2>1, <2>2, <2>4, EuclidStep
  <2> QED
    BY <2>3, <2>4
<1>2. \A p \in Nat \X Nat : g[p] = IF p[2] = 0 THEN p[1] ELSE g[<<p[2], p[1] % p[2]>>]
  <2> TAKE p \in Nat \X Nat
  <2>1. p = <<p[1], p[2]>> /\ p[1] \in Nat /\ p[2] \in Nat
    OBVIOUS
  <2> QED
    BY <2>1, <1>1
<1>3. IsGcd(g)
  <2> DEFINE h == [p \in Nat \X Nat |-> IF p[2] = 0 THEN p[1] ELSE g[<<p[2], p[1] % p[2]>>]]
  <2>1. g = [p \in Nat \X Nat |-> g[p]]
    OBVIOUS
  <2> HIDE DEF g
  <2>2. g = h
    BY <1>2, <2>1
  <2> QED
    BY <2>2 DEF IsGcd
<1> HIDE DEF g
<1>4. Gcd = CHOOSE f : IsGcd(f)
  BY Zenon DEF Gcd, IsGcd
<1> QED
  BY <1>3, <1>4, Zenon

LEMMA GcdDivides ==
    ASSUME NEW n \in Nat, NEW d \in Nat \ {0}
    PROVE  LET g == Gcd[<<n, d>>] IN g \in Nat \ {0} /\ Divides(g, n) /\ Divides(g, d)
<1> DEFINE HasGcd(i, j) == /\ Gcd[<<i, j>>] \in Nat \ {0}
                         /\ Divides(Gcd[<<i, j>>], i) /\ Divides(Gcd[<<i, j>>], j)
           Bad == {j \in Nat : \E i \in Nat : (i # 0 \/ j # 0) /\ ~HasGcd(i, j)}
<1>1. \A i \in Nat, j \in Nat : Gcd[<<i, j>>] = IF j = 0 THEN i ELSE Gcd[<<j, i % j>>]
  <2> TAKE i \in Nat, j \in Nat
  <2>1. <<i, j>> \in Nat \X Nat
    OBVIOUS
  <2> QED
    BY <2>1, GcdExists DEF IsGcd
<1>2. SUFFICES Bad = {}
  BY <1>2
<1>3. SUFFICES ASSUME Bad # {} PROVE FALSE
  OBVIOUS
<1>4. Bad \subseteq Nat
  OBVIOUS
<1>5. PICK j \in Bad : \A k \in Bad : ~(<<k, j>> \in OpToRel(<, Nat))
  BY <1>3, <1>4, WFMin, NatLessThanWellFounded
<1>6. \A k \in Bad : ~(k < j)
  BY <1>4, <1>5 DEF OpToRel
<1>7. PICK i \in Nat : (i # 0 \/ j # 0) /\ ~HasGcd(i, j)
  OBVIOUS
<1>8. j \in Nat
  BY <1>4
<1>9. CASE j = 0
  <2>1. Gcd[<<i, j>>] = i /\ i # 0
    BY <1>1, <1>7, <1>9
  <2>2. i = i * 1 /\ 0 = i * 0
    OBVIOUS
  <2> QED
    BY <2>1, <2>2, <1>7, <1>9 DEF Divides
<1>10. CASE j # 0
  <2>1. i % j \in Nat /\ i % j < j
    BY <1>8, <1>10, DivMod
  <2>2. HasGcd(j, i % j)
    <3>1. i % j \notin Bad
      BY <1>6, <2>1
    <3> QED
      BY <3>1, <2>1, <1>8, <1>10
  <2>3. Gcd[<<i, j>>] = Gcd[<<j, i % j>>]
    BY <1>1, <1>8, <1>10
  <2> DEFINE g == Gcd[<<j, i % j>>]
  <2>4. g \in Nat \ {0} /\ Divides(g, j) /\ Divides(g, i % j)
    BY <2>2
  <2> HIDE DEF g
  <2>5. Divides(g, i)
    BY <2>4, <1>8, <1>10, DividesRest
  <2> QED
    BY <2>3, <2>4, <2>5, <1>7 DEF g
<1> QED
  BY <1>9, <1>10

-----------------------------------------------------------------------------
(* Fractions and roundings *)

Exact == Int \X (Nat \ {0})

LEMMA ExactDiv ==
    ASSUME NEW g \in Nat \ {0}, NEW a \in Int
    PROVE  (g * a) \div g = a
OBVIOUS

LEMMA FractionIs ==
    ASSUME NEW n \in Int, NEW d \in Nat \ {0}
    PROVE  /\ Fraction(n, d) \in Exact
           /\ n >= 0 => Fraction(n, d) \in Price
           /\ n > 0 => Fraction(n, d) \in Rate
           /\ Fraction(n, d)[1] * d = n * Fraction(n, d)[2]
<1> DEFINE g == Gcd[<<Size(n), d>>]
<1>1. Size(n) \in Nat /\ (n = Size(n) \/ n = -Size(n))
  BY DEF Size
<1>2. g \in Nat \ {0} /\ Divides(g, Size(n)) /\ Divides(g, d)
  BY <1>1, GcdDivides
<1>3. Fraction(n, d) = <<n \div g, d \div g>>
  BY DEF Fraction
<1> HIDE DEF g
<1>4. PICK s \in Nat : Size(n) = g * s
  BY <1>2 DEF Divides
<1>5. PICK b \in Nat : d = g * b
  BY <1>2 DEF Divides
<1>6. PICK a \in Int : n = g * a /\ (a = s \/ a = -s)
  <2>1. CASE n = Size(n)
    BY <1>4, <2>1
  <2>2. CASE n = -Size(n)
    <3>1. n = g * (-s)
      BY <1>2, <1>4, <2>2
    <3> QED
      BY <3>1
  <2> QED
    BY <1>1, <2>1, <2>2
<1>7. n \div g = a /\ d \div g = b
  BY <1>2, <1>5, <1>6, ExactDiv
<1>8. b # 0
  BY <1>2, <1>5
<1>9. (n >= 0 => a >= 0) /\ (n > 0 => a > 0)
  BY <1>2, <1>6
<1>10. a * d = n * b
  BY <1>2, <1>5, <1>6
<1> QED
  BY <1>3, <1>7, <1>8, <1>9, <1>10 DEF Exact, Price, Rate

LEMMA Kinds == Rate \subseteq Price /\ Price \subseteq Exact
BY DEF Exact, Price, Rate

LEMMA RoundDivIs ==
    ASSUME NEW n \in Int, NEW d \in Nat \ {0}
    PROVE  /\ RoundDiv(n, d) \in Int
           /\ n >= 0 => RoundDiv(n, d) \in Nat
           /\ n >= d => RoundDiv(n, d) >= 1
           /\ n <= 0 => RoundDiv(n, d) <= 0
<1> DEFINE num == 2 * Size(n) + d  den == 2 * d  size == num \div den
<1>1. num \in Nat /\ den \in Nat \ {0} /\ num = 2 * Size(n) + d /\ den = 2 * d
      /\ Size(n) \in Nat
  BY DEF Size
<1>2. RoundDiv(n, d) = IF n < 0 THEN -size ELSE size
  BY DEF RoundDiv
<1>3. /\ num \div den \in Nat /\ num % den \in Nat /\ num % den < den
      /\ num = den * (num \div den) + (num % den)
  BY <1>1, DivMod
<1> HIDE DEF num, den
<1>4. PICK rest \in Nat : rest < den /\ num = den * size + rest
  BY <1>3
<1>5. size \in Nat
  BY <1>3
<1> HIDE DEF size
<1>6. ASSUME n >= d PROVE size >= 1
  <2>1. num >= den
    BY <1>1, <1>6 DEF Size
  <2>2. ASSUME size = 0 PROVE FALSE
    <3>1. den * size = 0
      BY <1>1, <2>2
    <3> QED
      BY <1>1, <1>4, <1>5, <2>1, <3>1
  <2> QED
    BY <1>5, <2>2
<1>7. ASSUME n = 0 PROVE size = 0
  <2>1. 2 * num = den
    BY <1>1, <1>7 DEF Size
  <2>2. ASSUME size >= 1 PROVE FALSE
    <3>1. den * size >= den
      BY <1>1, <1>5, <2>2
    <3> QED
      BY <1>1, <1>4, <1>5, <2>1, <3>1
  <2> QED
    BY <1>5, <2>2
<1> QED
  BY <1>2, <1>5, <1>6, <1>7

LEMMA TimesIs ==
    ASSUME NEW p \in Exact, NEW q \in Exact
    PROVE  /\ Times(p, q) \in Exact
           /\ p \in Price /\ q \in Price => Times(p, q) \in Price
           /\ Times(p, q)[1] * (p[2] * q[2]) = (p[1] * q[1]) * Times(p, q)[2]
<1>1. p[1] \in Int /\ q[1] \in Int /\ p[2] \in Nat \ {0} /\ q[2] \in Nat \ {0}
  BY DEF Exact
<1>2. p[1] * q[1] \in Int /\ p[2] * q[2] \in Nat \ {0}
  BY <1>1
<1>3. p \in Price /\ q \in Price => p[1] * q[1] >= 0
  BY DEF Price
<1> QED
  BY <1>2, <1>3, FractionIs DEF Times

LEMMA OverIs ==
    ASSUME NEW p \in Exact, NEW q \in Rate
    PROVE  /\ Over(p, q) \in Exact
           /\ p \in Price => Over(p, q) \in Price
           /\ Over(p, q)[1] * (p[2] * q[1]) = (p[1] * q[2]) * Over(p, q)[2]
<1>1. p[1] \in Int /\ q[1] \in Nat \ {0} /\ p[2] \in Nat \ {0} /\ q[2] \in Nat \ {0}
  BY DEF Exact, Rate
<1>2. p[1] * q[2] \in Int /\ p[2] * q[1] \in Nat \ {0}
  BY <1>1
<1>3. p \in Price => p[1] * q[2] >= 0
  BY <1>1 DEF Price
<1> QED
  BY <1>2, <1>3, FractionIs DEF Over

LEMMA PlusIs ==
    ASSUME NEW v \in Int
    PROVE  /\ Plus(v) \in Exact
           /\ v > -100 => Plus(v) \in Rate
           /\ v \in Nat => Plus(v)[1] >= Plus(v)[2]
<1>1. Plus(v) = Fraction(100 + v, 100)
  BY DEF Plus
<1>2. 100 + v \in Int /\ 100 \in Nat \ {0} /\ (v > -100 => 100 + v > 0)
  OBVIOUS
<1>3. Plus(v) \in Exact /\ (v > -100 => Plus(v) \in Rate)
      /\ Plus(v)[1] * 100 = (100 + v) * Plus(v)[2]
  BY <1>1, <1>2, FractionIs
<1>4. ASSUME v \in Nat PROVE Plus(v)[1] >= Plus(v)[2]
  <2>1. Plus(v)[2] \in Nat /\ Plus(v)[1] \in Nat
    BY <1>3, <1>4 DEF Rate
  <2> DEFINE x == Plus(v)[1]  y == Plus(v)[2]
  <2>2. x \in Nat /\ y \in Nat /\ x * 100 = (100 + v) * y
    BY <1>3, <2>1
  <2> HIDE DEF x, y
  <2>3. v * y >= 0 /\ (100 + v) * y = 100 * y + v * y
    BY <2>2, <1>4
  <2> QED
    BY <2>2, <2>3 DEF x, y
<1> QED
  BY <1>3, <1>4

LEMMA KopIs ==
    ASSUME NEW n \in Int
    PROVE  Kop(n) \in Exact /\ (n >= 0 => Kop(n) \in Price) /\ Kop(n)[1] = n /\ Kop(n)[2] = 1
BY DEF Kop, Exact, Price

LEMMA RoundsAre ==
    ASSUME NEW p \in Exact
    PROVE  /\ Round2(p) \in Int
           /\ p \in Price => Round2(p) \in Nat /\ Round4(p) \in Price /\ Round6(p) \in Price
<1>1. p[1] \in Int /\ p[2] \in Nat \ {0} /\ 100 * p[1] \in Int /\ 10000 * p[1] \in Int
      /\ 100 \in Nat \ {0} /\ 10000 \in Nat \ {0}
  BY DEF Exact
<1>2. Round2(p) \in Int
  <2> DEFINE x == p[1]  d == p[2]
  <2>1. x \in Int /\ d \in Nat \ {0}
    BY <1>1
  <2> HIDE DEF x, d
  <2>2. RoundDiv(x, d) \in Int
    BY <2>1, RoundDivIs
  <2> QED
    BY <2>2 DEF Round2, x, d
<1>3. ASSUME p \in Price PROVE Round2(p) \in Nat /\ Round4(p) \in Price /\ Round6(p) \in Price
  <2>1. p[1] >= 0 /\ 100 * p[1] >= 0 /\ 10000 * p[1] >= 0
    BY <1>1, <1>3 DEF Price
  <2>2. /\ RoundDiv(p[1], p[2]) \in Nat
        /\ RoundDiv(100 * p[1], p[2]) \in Nat
        /\ RoundDiv(10000 * p[1], p[2]) \in Nat
    <3> DEFINE x == 100 * p[1]  y == 10000 * p[1]  d == p[2]
    <3>1. p[1] \in Int /\ x \in Int /\ y \in Int /\ p[1] >= 0 /\ x >= 0 /\ y >= 0 /\ d \in Nat \ {0}
      BY <1>1, <2>1
    <3> HIDE DEF x, y, d
    <3>2. RoundDiv(p[1], d) \in Nat /\ RoundDiv(x, d) \in Nat /\ RoundDiv(y, d) \in Nat
      BY <3>1, RoundDivIs
    <3> QED
      BY <3>2 DEF x, y, d
  <2>3. \A n \in Nat : Fraction(n, 100) \in Price /\ Fraction(n, 10000) \in Price
    BY <1>1, FractionIs
  <2> QED
    BY <2>2, <2>3 DEF Round2, Round4, Round6
<1> QED
  BY <1>2, <1>3

-----------------------------------------------------------------------------
(* The VAT takes no price to zero, and makes none of zero. *)

LEMMA VatKeepsPrice ==
    ASSUME NEW netto \in Nat \ {0}
    PROVE  Round2(Times(Kop(netto), Plus(Vat))) >= 1
<1> DEFINE k == Plus(Vat)  t == Times(Kop(netto), k)
<1>1. k \in Rate /\ k[1] >= k[2]
  BY PlusIs, PricesAssumption
<1>2. k \in Exact /\ Kop(netto) \in Exact /\ Kop(netto)[1] = netto /\ Kop(netto)[2] = 1
  BY <1>1, Kinds, KopIs
<1> HIDE DEF k
<1>3. t \in Exact /\ t[1] * (1 * k[2]) = (netto * k[1]) * t[2]
  BY <1>2, TimesIs
<1> HIDE DEF t
<1>4. t[1] >= t[2]
  <2> DEFINE a == t[1]  b == t[2]  x == k[1]  y == k[2]
  <2>1. a \in Int /\ b \in Nat \ {0} /\ x \in Nat \ {0} /\ y \in Nat \ {0} /\ x >= y
        /\ a * y = (netto * x) * b
    BY <1>1, <1>3 DEF Exact, Rate
  <2> HIDE DEF a, b, x, y
  <2>2. netto * x >= y
    BY <2>1
  <2>3. (netto * x) * b >= y * b
    BY <2>1, <2>2
  <2>4. a * y >= b * y
    BY <2>1, <2>3
  <2>5. a >= b
    BY <2>1, <2>4
  <2> QED
    BY <2>5 DEF a, b
<1>5. Round2(t) >= 1
  BY <1>3, <1>4, RoundDivIs DEF Round2, Exact
<1> QED
  BY <1>5 DEF t, k

LEMMA VatMakesNoPrice ==
    ASSUME NEW gross \in Int, Round2(Over(Kop(gross), Plus(Vat))) > 0
    PROVE  gross > 0
<1> DEFINE k == Plus(Vat)  t == Over(Kop(gross), k)
<1>1. k \in Rate
  BY PlusIs, PricesAssumption
<1>2. Kop(gross) \in Exact /\ Kop(gross)[1] = gross /\ Kop(gross)[2] = 1
  BY KopIs
<1>3. Round2(t) > 0
  OBVIOUS
<1> HIDE DEF k
<1>4. t \in Exact /\ t[1] * (1 * k[1]) = (gross * k[2]) * t[2]
  BY <1>1, <1>2, OverIs
<1> HIDE DEF t
<1> DEFINE a == t[1]  b == t[2]  x == k[1]  y == k[2]
<1>5. a > 0
  <2>1. a \in Int /\ b \in Nat \ {0} /\ RoundDiv(a, b) > 0
    BY <1>3, <1>4 DEF Round2, Exact
  <2> HIDE DEF a, b
  <2>2. RoundDiv(a, b) \in Int /\ (a <= 0 => RoundDiv(a, b) <= 0)
    BY <2>1, RoundDivIs
  <2> QED
    BY <2>1, <2>2
<1>6. a \in Int /\ b \in Nat \ {0} /\ x \in Nat \ {0} /\ y \in Nat \ {0} /\ a > 0
      /\ a * x = (gross * y) * b
  BY <1>1, <1>4, <1>5 DEF Exact, Rate
<1> HIDE DEF a, b, x, y
<1>7. a * x > 0
  BY <1>6
<1>8. CASE gross <= 0
  <2>1. gross * y <= 0
    BY <1>6, <1>8
  <2>2. (gross * y) * b <= 0
    BY <1>6, <2>1
  <2> QED
    BY <1>6, <1>7, <2>2
<1> QED
  BY <1>8

-----------------------------------------------------------------------------
(* Extremes *)

LEMMA MinIs ==
    ASSUME NEW S, S \subseteq Nat, S # {}
    PROVE  Min(S) \in S /\ \A s \in S : Min(S) <= s
<1>1. PICK m \in S : \A s \in S : ~(<<s, m>> \in OpToRel(<, Nat))
  BY WFMin, NatLessThanWellFounded
<1>2. ASSUME NEW s \in S PROVE m <= s
  <2>1. ~(s < m)
    BY <1>1 DEF OpToRel
  <2> QED
    BY <2>1
<1>3. \E x \in S : \A y \in S : x =< y
  BY <1>2
<1> QED
  BY <1>3, Zenon DEF Min

LEMMA FiniteIsBounded ==
    ASSUME NEW S, S \subseteq Nat, IsFiniteSet(S)
    PROVE  \E n \in Nat : \A s \in S : s <= n
<1> DEFINE Bounded(T) == \E n \in Nat : \A s \in T : s <= n
           Bad == {c \in Nat : \E T \in SUBSET Nat :
                      IsFiniteSet(T) /\ Cardinality(T) = c /\ ~Bounded(T)}
<1>1. SUFFICES Bad = {}
  BY FS_CardinalityType
<1>2. SUFFICES ASSUME Bad # {} PROVE FALSE
  OBVIOUS
<1>3. PICK c \in Bad : \A k \in Bad : ~(<<k, c>> \in OpToRel(<, Nat))
  BY <1>2, WFMin, NatLessThanWellFounded
<1>4. c \in Nat /\ \A k \in Bad : ~(k < c)
  BY <1>3 DEF OpToRel
<1>5. PICK T \in SUBSET Nat : IsFiniteSet(T) /\ Cardinality(T) = c /\ ~Bounded(T)
  OBVIOUS
<1>6. T # {}
  <2>1. Bounded({})
    OBVIOUS
  <2> QED
    BY <2>1, <1>5
<1>7. PICK x \in T : TRUE
  BY <1>6
<1>8. /\ IsFiniteSet(T \ {x}) /\ Cardinality(T \ {x}) = c - 1
      /\ Cardinality(T \ {x}) \in Nat
  BY <1>5, FS_RemoveElement, FS_CardinalityType
<1>9. Bounded(T \ {x})
  <2>1. c - 1 \notin Bad
    BY <1>4, <1>8
  <2> QED
    BY <2>1, <1>8
<1>10. PICK n \in Nat : \A s \in T \ {x} : s <= n
  BY <1>9
<1>11. Bounded(T)
  <2> DEFINE m == IF x <= n THEN n ELSE x
  <2>1. m \in Nat /\ \A s \in T : s <= m
    BY <1>10
  <2> QED
    BY <2>1
<1> QED
  BY <1>5, <1>11

LEMMA MaxIs ==
    ASSUME NEW S, S \subseteq Nat, S # {}, IsFiniteSet(S)
    PROVE  Max(S) \in S /\ \A s \in S : s <= Max(S)
<1> DEFINE T == {n \in Nat : \A s \in S : s <= n}
<1>1. T # {} /\ T \subseteq Nat
  BY FiniteIsBounded
<1>2. PICK n \in T : \A m \in T : n <= m
  BY <1>1, MinIs
<1>3. n \in S
  <2> SUFFICES ASSUME n \notin S PROVE FALSE
    OBVIOUS
  <2>1. n # 0
    <3>1. PICK s \in S : s \in Nat
      OBVIOUS
    <3> QED
      BY <3>1, <1>2
  <2>2. n - 1 \in T
    BY <2>1, <1>2
  <2> QED
    BY <2>2, <1>2
<1> QED
  BY <1>2, <1>3 DEF Max

-----------------------------------------------------------------------------
(* What the figures are *)

LEMMA OfferOf ==
    ASSUME NEW q \in Quote, NEW o \in Offers(q)
    PROVE  /\ q.offers[o] \in QuoteOffer
           /\ o = <<o[1], o[2]>> /\ o[1] \in Lines /\ o[2] \in Blocks
<1>1. PICK D \in SUBSET (Lines \X Blocks) : q.offers \in [D -> QuoteOffer]
  BY DEF Quote, QuoteWith
<1> QED
  BY <1>1 DEF Offers

LEMMA CellNetIs ==
    ASSUME NEW p \in Price, NEW rate \in Rate, NEW markup \in SupplierMarkup
    PROVE  CellNet(p, rate, markup) \in Nat
<1>1. Plus(markup) \in Price /\ rate \in Price /\ Price \subseteq Exact
  BY PlusIs, Kinds DEF SupplierMarkup
<1>2. Times(p, rate) \in Price
  BY <1>1, TimesIs
<1>3. Times(Times(p, rate), Plus(markup)) \in Price
  BY <1>1, <1>2, TimesIs
<1> QED
  BY <1>1, <1>3, RoundsAre DEF CellNet

LEMMA RateIs ==
    ASSUME NEW q \in Quote, NEW o \in Offers(q)
    PROVE  RateOf(q, o[1], o[2]) \in Opt(Rate)
<1>1. Kop(1) \in Rate
  BY DEF Kop, Rate
<1>2. q.rate \in Opt(Rate) /\ q.blocks[o[2]].rate \in Opt(Rate)
  BY OfferOf DEF Quote, QuoteWith
<1> QED
  BY <1>1, <1>2 DEF RateOf, Else, Opt

LEMMA FigureIs ==
    ASSUME NEW q \in Quote, NEW o \in Offers(q)
    PROVE  /\ Figures(q)[o] = Figure(q, o[1], o[2])
           /\ Figures(q)[o].net \in Nat
           /\ Figures(q)[o].rrp \in Opt(Nat)
           /\ Figures(q)[o].qty \in Nat
           /\ Figures(q)[o].qty = Else(q.offers[o].qty, q.lines[o[1]].qty)
<1> DEFINE l == o[1]  b == o[2]  rate == RateOf(q, l, b)  x == q.offers[o]
           fig == Figure(q, l, b)
<1>1. o = <<l, b>> /\ l \in Lines /\ b \in Blocks /\ x \in QuoteOffer
  BY OfferOf
<1>2. rate \in Opt(Rate)
  BY RateIs
<1>3. q.lines[l].qty \in Nat /\ q.blocks[b].markup \in SupplierMarkup
  BY <1>1 DEF Quote, QuoteWith, QuoteLine
<1>4. x.qty \in Opt(Nat) /\ x.price \in Opt(Price) /\ x.rrp \in Opt(Price)
  BY <1>1 DEF QuoteOffer
<1>5. Figures(q)[o] = fig
  BY DEF Figures
<1>6. fig.qty = Else(x.qty, q.lines[l].qty)
  BY <1>1 DEF Figure
<1>7. fig.qty \in Nat
  BY <1>3, <1>4, <1>6 DEF Else, Opt
<1>8. fig.net \in Nat
  <2>1. fig.net = IF rate # Nil /\ x.price # Nil
                  THEN CellNet(x.price, rate, q.blocks[b].markup) ELSE 0
    BY <1>1 DEF Figure
  <2> HIDE DEF rate, x, fig
  <2>2. rate # Nil /\ x.price # Nil => CellNet(x.price, rate, q.blocks[b].markup) \in Nat
    BY <1>2, <1>3, <1>4, CellNetIs DEF Opt
  <2> QED
    BY <2>1, <2>2
<1>9. fig.rrp \in Opt(Nat)
  <2>1. fig.rrp = IF rate # Nil /\ x.rrp # Nil THEN Round2(Times(x.rrp, rate)) ELSE Nil
    BY <1>1 DEF Figure
  <2> HIDE DEF rate, x, fig
  <2>2. ASSUME rate # Nil, x.rrp # Nil PROVE Round2(Times(x.rrp, rate)) \in Nat
    <3>1. rate \in Price /\ x.rrp \in Price /\ rate \in Exact /\ x.rrp \in Exact
      BY <2>2, <1>2, <1>4, Kinds DEF Opt
    <3>2. Times(x.rrp, rate) \in Price /\ Times(x.rrp, rate) \in Exact
      BY <3>1, TimesIs
    <3> QED
      BY <3>2, RoundsAre
  <2> QED
    BY <2>1, <2>2 DEF Opt
<1> QED
  BY <1>5, <1>6, <1>7, <1>8, <1>9

LEMMA EffectiveIs ==
    ASSUME NEW q \in Quote, NEW f, NEW l \in Lines, Effective(q, f, l) # Nil
    PROVE  /\ Effective(q, f, l) \in Blocks
           /\ <<l, Effective(q, f, l)>> \in Offers(q)
<1> DEFINE least == {b \in Compared(q, f, l) :
                        \A a \in Compared(q, f, l) : f[<<l, b>>].net <= f[<<l, a>>].net}
<1>1. CASE q.lines[l].sel # Nil /\ Usable(q, f, l, q.lines[l].sel)
  <2>1. q.lines[l].sel \in Blocks
    BY <1>1 DEF Quote, QuoteWith, QuoteLine, Opt
  <2> QED
    BY <1>1, <2>1 DEF Effective, Usable
<1>2. CASE ~(q.lines[l].sel # Nil /\ Usable(q, f, l, q.lines[l].sel))
  <2>1. Effective(q, f, l) = Recommended(q, f, l)
    BY <1>2 DEF Effective
  <2>2. least # {} /\ Recommended(q, f, l) = Min(least)
    BY <2>1 DEF Recommended
  <2>3. least \subseteq Nat /\ \A b \in least : b \in Blocks /\ Usable(q, f, l, b)
    BY PricesAssumption DEF Compared
  <2> HIDE DEF least
  <2>4. Min(least) \in least
    BY <2>2, <2>3, MinIs
  <2> QED
    BY <2>1, <2>2, <2>3, <2>4 DEF Usable
<1> QED
  BY <1>1, <1>2

-----------------------------------------------------------------------------
(* What a line is sold at *)

\* A price above zero without VAT is one with VAT.
IsSale(s) ==
    s = Unpriced \/ /\ s = [net |-> s.net, gross |-> s.gross]
                    /\ s.net \in Int /\ s.gross \in Int
                    /\ s.net > 0 => s.gross > 0

LEMMA RoundSaleIs ==
    ASSUME NEW q, NEW p \in Exact
    PROVE  RoundSale(q, p) \in Int
<1> DEFINE n == p[1]  d == p[2]  e == 100 * d
<1>1. n \in Int /\ d \in Nat \ {0} /\ e \in Nat \ {0}
  BY DEF Exact
<1> HIDE DEF n, d, e
<1>2. RoundDiv(n, e) \in Int
  BY <1>1, RoundDivIs
<1>3. 100 * RoundDiv(n, e) \in Int
  BY <1>2
<1> QED
  BY <1>3, RoundsAre DEF RoundSale, n, d, e

LEMMA FromNetIs ==
    ASSUME NEW q, NEW p \in Exact
    PROVE  IsSale(FromNet(q, p))
<1> DEFINE netto == RoundSale(q, p)  gross == Round2(Times(Kop(netto), Plus(Vat)))
<1>1. netto \in Int
  BY RoundSaleIs
<1>2. FromNet(q, p) = [net |-> netto, gross |-> gross]
  BY DEF FromNet
<1> HIDE DEF netto
<1>3. Kop(netto) \in Exact /\ Plus(Vat) \in Exact
  BY <1>1, KopIs, PlusIs, PricesAssumption
<1>4. gross \in Int
  BY <1>3, TimesIs, RoundsAre
<1>5. netto > 0 => gross >= 1
  BY <1>1, VatKeepsPrice
<1> HIDE DEF gross
<1> QED
  BY <1>1, <1>2, <1>4, <1>5 DEF IsSale

LEMMA FromGrossIs ==
    ASSUME NEW q, NEW p \in Exact
    PROVE  IsSale(FromGross(q, p))
<1> DEFINE gross == RoundSale(q, p)  netto == Round2(Over(Kop(gross), Plus(Vat)))
<1>1. gross \in Int
  BY RoundSaleIs
<1>2. FromGross(q, p) = [gross |-> gross, net |-> netto]
  BY DEF FromGross
<1> HIDE DEF gross
<1>3. Kop(gross) \in Exact /\ Plus(Vat) \in Rate
  BY <1>1, KopIs, PlusIs, PricesAssumption
<1>4. netto \in Int
  BY <1>3, OverIs, RoundsAre
<1>5. netto > 0 => gross > 0
  BY <1>1, VatMakesNoPrice
<1> HIDE DEF netto
<1> QED
  BY <1>1, <1>2, <1>4, <1>5 DEF IsSale

LEMMA SalePriceIs ==
    ASSUME NEW q \in Quote, NEW l \in Lines, NEW netto \in Int, NEW rrp \in Opt(Int)
    PROVE  IsSale(SalePrice(q, l, netto, rrp))
<1> DEFINE own == q.lines[l].rule
           method == Else(own.method, q.markup.method)
           v == Else(own.value, q.markup.value)
<1>1. /\ own.net \in Opt(Int) /\ own.gross \in Opt(Int)
      /\ own.value \in Opt(Nat) /\ q.markup.value \in Nat
  BY DEF Quote, QuoteWith, QuoteLine, LineRule
<1>2. v \in Nat
  BY <1>1 DEF Else, Opt
<1>3. method \in Methods \cup {"manual"}
  BY DEF Quote, QuoteWith, QuoteLine, LineRule, Else, Opt
<1> DEFINE made == ByMethod(q, method, v, netto, rrp)
<1>4. \/ own.net # Nil /\ SalePrice(q, l, netto, rrp) = FromNet(q, Kop(own.net))
      \/ own.gross # Nil /\ SalePrice(q, l, netto, rrp) = FromGross(q, Kop(own.gross))
      \/ SalePrice(q, l, netto, rrp) = made
  BY DEF SalePrice
<1> HIDE DEF own, v, method
<1>5. \/ made = Unpriced
      \/ made = FromNet(q, Times(Kop(netto), Plus(v)))
      \/ /\ rrp # Nil
         /\ \/ made = FromGross(q, Kop(rrp))
            \/ made = FromGross(q, Times(Kop(rrp), Plus(-v)))
            \/ made = FromGross(q, Over(Kop(rrp), Plus(v)))
  BY <1>3 DEF ByMethod, Methods
<1> HIDE DEF made
<1>6. Plus(v) \in Rate /\ Plus(v) \in Exact /\ Plus(-v) \in Exact
  BY <1>2, PlusIs
<1>7. Times(Kop(netto), Plus(v)) \in Exact
  BY <1>6, KopIs, TimesIs
<1>8. own.net # Nil => Kop(own.net) \in Exact
  BY <1>1, KopIs DEF Opt
<1>9. own.gross # Nil => Kop(own.gross) \in Exact
  BY <1>1, KopIs DEF Opt
<1>10. rrp # Nil => Kop(rrp) \in Exact
  BY KopIs DEF Opt
<1>11. rrp # Nil => Times(Kop(rrp), Plus(-v)) \in Exact /\ Over(Kop(rrp), Plus(v)) \in Exact
  BY <1>6, <1>10, TimesIs, OverIs
<1>12. IsSale(Unpriced)
  BY DEF IsSale
<1>13. IsSale(made)
  BY <1>5, <1>7, <1>10, <1>11, <1>12, FromNetIs, FromGrossIs
<1> QED
  BY <1>4, <1>8, <1>9, <1>13, FromNetIs, FromGrossIs

-----------------------------------------------------------------------------
(* The rows of a KP *)

LEMMA PerQtyIs ==
    ASSUME NEW unit \in Int, NEW qty \in Nat
    PROVE  PerQty(unit, qty) \in Int
<1>1. unit * qty \in Int /\ 1000 \in Nat \ {0}
  OBVIOUS
<1> QED
  BY <1>1, RoundDivIs DEF PerQty

LEMMA RowIs ==
    ASSUME NEW q \in Quote, NEW l \in Lines
    PROVE  LET r == Row(q, Figures(q), l)
               b == Effective(q, Figures(q), l)
           IN  /\ r.net # Nil => /\ b # Nil
                                 /\ r.net \in Int /\ r.gross \in Int
                                 /\ r.net > 0 => r.gross > 0
                                 /\ r.qty \in Nat
                                 /\ r.qty = Else(q.offers[<<l, b>>].qty, q.lines[l].qty)
<1> DEFINE f == Figures(q)  r == Row(q, f, l)  b == Effective(q, f, l)  o == <<l, b>>
           sale == SalePrice(q, l, f[o].net, f[o].rrp)
<1>1. CASE b = Nil
  BY <1>1 DEF Row
<1>2. CASE b # Nil
  <2>1. o \in Offers(q) /\ b \in Blocks
    BY <1>2, EffectiveIs
  <2>2. /\ f[o].net \in Nat /\ f[o].rrp \in Opt(Nat) /\ f[o].qty \in Nat
        /\ f[o].qty = Else(q.offers[o].qty, q.lines[l].qty)
    <3>1. o[1] = l
      OBVIOUS
    <3> HIDE DEF o
    <3> QED
      BY <2>1, <3>1, FigureIs
  <2>3. r.net = sale.net /\ r.gross = sale.gross /\ r.qty = f[o].qty
    <3>1. r = RowFrom(q, f, l, b)
      BY <1>2 DEF Row
    <3> HIDE DEF f
    <3> QED
      BY <3>1 DEF RowFrom
  <2>4. IsSale(sale)
    <3>1. f[o].net \in Int /\ f[o].rrp \in Opt(Int)
      BY <2>2 DEF Opt
    <3> HIDE DEF f, o
    <3> QED
      BY <3>1, SalePriceIs
  <2>5. sale = Unpriced => sale.net = Nil
    BY DEF Unpriced
  <2> HIDE DEF sale
  <2>6. sale.net # Nil =>
           sale.net \in Int /\ sale.gross \in Int /\ (sale.net > 0 => sale.gross > 0)
    BY <2>4, <2>5 DEF IsSale
  <2> HIDE DEF r, f, b
  <2> QED
    BY <1>2, <2>2, <2>3, <2>6 DEF r, f, b
<1> QED
  BY <1>1, <1>2

LEMMA KpRowsAre ==
    ASSUME NEW q \in Quote, NEW mode
    PROVE  KpRows(q, Figures(q), mode) \in KpTables
<1> DEFINE f == Figures(q)  D == Sold(q, f)
           price(l) == IF ShowsGross(q, mode) THEN Row(q, f, l).gross ELSE Row(q, f, l).net
           row(l) == [price |-> price(l), qty |-> Row(q, f, l).qty,
                      sum |-> PerQty(price(l), Row(q, f, l).qty)]
<1>1. D \in SUBSET Lines
  BY DEF Sold, Active
<1>2. ASSUME NEW l \in D PROVE row(l) \in [price : Int, qty : Nat, sum : Int]
  <2>1. Row(q, f, l).net # Nil /\ l \in Lines
    BY <1>2 DEF Sold, Active
  <2>2. price(l) \in Int /\ Row(q, f, l).qty \in Nat
    BY <2>1, RowIs
  <2> HIDE DEF price, f
  <2>3. PerQty(price(l), Row(q, f, l).qty) \in Int
    BY <2>2, PerQtyIs
  <2> QED
    BY <2>2, <2>3
<1>3. KpRows(q, f, mode) = [l \in D |-> row(l)]
  BY DEF KpRows
<1> HIDE DEF D, row
<1>4. [l \in D |-> row(l)] \in [D -> [price : Int, qty : Nat, sum : Int]]
  BY <1>2
<1> QED
  BY <1>1, <1>3, <1>4 DEF KpTables, KpRow

-----------------------------------------------------------------------------
(* What the edits make of a request *)

LEMMA OffersPut ==
    ASSUME NEW q \in Quote, NEW offers \in [Offers(q) -> QuoteOffer]
    PROVE  /\ [q EXCEPT !.offers = offers] \in Quote
           /\ [q EXCEPT !.offers = offers].base = q.base
<1>1. Offers(q) \in SUBSET (Lines \X Blocks)
  <2>1. PICK D \in SUBSET (Lines \X Blocks) : q.offers \in [D -> QuoteOffer]
    BY DEF Quote, QuoteWith
  <2> QED
    BY <2>1 DEF Offers
<1>2. offers \in UNION {[D -> QuoteOffer] : D \in SUBSET (Lines \X Blocks)}
  BY <1>1
<1> QED
  BY <1>2 DEF Quote, QuoteWith

LEMMA OfferPut ==
    ASSUME NEW q \in Quote, NEW o \in Offers(q), NEW x \in QuoteOffer
    PROVE  /\ [q EXCEPT !.offers[o] = x] \in Quote
           /\ [q EXCEPT !.offers[o] = x].base = q.base
<1> DEFINE offers == [q.offers EXCEPT ![o] = x]
<1>1. q.offers \in [Offers(q) -> QuoteOffer]
  <2>1. PICK D \in SUBSET (Lines \X Blocks) : q.offers \in [D -> QuoteOffer]
    BY DEF Quote, QuoteWith
  <2> QED
    BY <2>1 DEF Offers
<1>2. offers \in [Offers(q) -> QuoteOffer]
  BY <1>1
<1>3. [q EXCEPT !.offers[o] = x] = [q EXCEPT !.offers = offers]
  BY DEF Quote, QuoteWith
<1> HIDE DEF offers
<1> QED
  BY <1>2, <1>3, OffersPut

LEMMA LinesPut ==
    ASSUME NEW q \in Quote, NEW lines \in [Lines -> QuoteLine]
    PROVE  /\ [q EXCEPT !.lines = lines] \in Quote
           /\ [q EXCEPT !.lines = lines].base = q.base
BY DEF Quote, QuoteWith

LEMMA LinePut ==
    ASSUME NEW q \in Quote, NEW l \in Lines, NEW x \in QuoteLine
    PROVE  /\ [q EXCEPT !.lines[l] = x] \in Quote
           /\ [q EXCEPT !.lines[l] = x].base = q.base
BY DEF Quote, QuoteWith

LEMMA LineOf ==
    ASSUME NEW q \in Quote, NEW l \in Lines
    PROVE  /\ q.lines[l] \in QuoteLine
           /\ \A n \in Nat : [q.lines[l] EXCEPT !.qty = n] \in QuoteLine
           /\ \A b \in Opt(Blocks) : [q.lines[l] EXCEPT !.sel = b] \in QuoteLine
           /\ \A rule \in LineRule : [q.lines[l] EXCEPT !.rule = rule] \in QuoteLine
           /\ \A yes \in BOOLEAN, n \in Opt(Nat) :
                 [q.lines[l] EXCEPT !.approved = yes, !.approvedQty = n] \in QuoteLine
           /\ \A n \in Opt(Nat) : [q.lines[l] EXCEPT !.approvedQty = n] \in QuoteLine
<1>1. q.lines[l] \in QuoteLine
  BY DEF Quote, QuoteWith
<1> QED
  BY <1>1 DEF QuoteLine

Kept == quote' \in Quote /\ quote'.base = quote.base

LEMMA TypedPriceIs ==
    ASSUME NEW p \in Nat, NEW withVat \in BOOLEAN, NEW rate \in Rate, NEW markup \in SupplierMarkup
    PROVE  PriceFromCell(p, withVat, Vat, rate, markup) \in Price
<1>1. Plus(Vat) \in Rate /\ Plus(markup) \in Rate
  BY PlusIs, PricesAssumption DEF SupplierMarkup
<1>2. Kop(p) \in Price
  BY KopIs
<1>3. \A x \in Price : \A y \in Rate : Over(x, y) \in Price
  BY Kinds, OverIs
<1>4. \A x \in Price : Round4(x) \in Price /\ Round6(x) \in Price
  BY Kinds, RoundsAre
<1>5. NormalizedPrice(Kop(p), withVat, Vat) \in Price
  BY <1>1, <1>2, <1>3, <1>4 DEF NormalizedPrice
<1> QED
  BY <1>1, <1>3, <1>4, <1>5 DEF PriceFromCell

LEMMA TypePriceKeeps ==
    ASSUME quote \in Quote, NEW o \in Offers(quote), NEW p \in CellPrices, NEW withVat \in BOOLEAN,
           TypePrice(o, p, withVat)
    PROVE  Kept
<1> DEFINE rate == RateOf(quote, o[1], o[2])  markup == quote.blocks[o[2]].markup
           price == PriceFromCell(p, withVat, Vat, rate, markup)
<1>1. quote' = [quote EXCEPT !.offers[o].price = price] /\ rate # Nil
  BY DEF TypePrice, Change
<1>2. rate \in Rate /\ markup \in SupplierMarkup /\ p \in Nat
  BY <1>1, RateIs, OfferOf, QuotesAssumption DEF Opt, Quote, QuoteWith
<1> HIDE DEF rate, markup
<1>3. price \in Price
  BY <1>2, TypedPriceIs
<1> HIDE DEF price
<1>4. [quote.offers[o] EXCEPT !.price = price] \in QuoteOffer
  BY <1>3, OfferOf DEF QuoteOffer, Opt
<1>5. quote' = [quote EXCEPT !.offers[o] = [quote.offers[o] EXCEPT !.price = price]]
  BY <1>1
<1> QED
  BY <1>4, <1>5, OfferPut DEF Kept

LEMMA TypeRrpKeeps ==
    ASSUME quote \in Quote, NEW o \in Offers(quote), NEW p \in CellPrices, TypeRrp(o, p)
    PROVE  Kept
<1> DEFINE rate == RateOf(quote, o[1], o[2])  rrp == Round6(Over(Kop(p), rate))
<1>1. quote' = [quote EXCEPT !.offers[o].rrp = rrp] /\ rate # Nil
  BY DEF TypeRrp, Change
<1>2. rate \in Rate /\ p \in Nat
  BY <1>1, RateIs, QuotesAssumption DEF Opt
<1> HIDE DEF rate
<1>3. rrp \in Price
  BY <1>2, KopIs, Kinds, OverIs, RoundsAre
<1> HIDE DEF rrp
<1>4. [quote.offers[o] EXCEPT !.rrp = rrp] \in QuoteOffer
  BY <1>3, OfferOf DEF QuoteOffer, Opt
<1>5. quote' = [quote EXCEPT !.offers[o] = [quote.offers[o] EXCEPT !.rrp = rrp]]
  BY <1>1
<1> QED
  BY <1>4, <1>5, OfferPut DEF Kept

LEMMA SuggestedIs ==
    ASSUME NEW qty \in Nat, NEW multiple \in Nat
    PROVE  Suggested(qty, multiple) \in Nat
<1>1. multiple # 0 => qty \div multiple \in Nat
  BY DivMod
<1>2. multiple # 0 => multiple * (qty \div multiple + 1) \in Nat
  BY <1>1
<1> QED
  BY <1>2 DEF Suggested

LEMMA RoundedIs ==
    ASSUME quote \in Quote, NEW o \in Offers(quote), NEW qty \in Nat
    PROVE  RoundedTo(o) \in Nat /\ Suggested(qty, RoundedTo(o)) \in Nat
<1>1. RoundedTo(o) \in Nat
  BY OfferOf DEF RoundedTo, Whole, QuoteOffer
<1> QED
  BY <1>1, SuggestedIs

LEMMA TypeOfferQtyKeeps ==
    ASSUME quote \in Quote, NEW o \in Offers(quote), NEW n \in CellQtys \cup {Nil},
           TypeOfferQty(o, n)
    PROVE  Kept
<1> DEFINE qty == IF n = Nil THEN Nil
                  ELSE NilIf(Suggested(n, RoundedTo(o)), quote.lines[o[1]].qty)
<1>1. quote' = [quote EXCEPT !.offers[o].qty = qty]
  BY DEF TypeOfferQty, Change
<1>2. qty \in Opt(Nat)
  <2>1. n # Nil => Suggested(n, RoundedTo(o)) \in Nat
    BY RoundedIs, QuotesAssumption
  <2> QED
    BY <2>1 DEF NilIf, Opt
<1> HIDE DEF qty
<1>3. [quote.offers[o] EXCEPT !.qty = qty] \in QuoteOffer
  BY <1>2, OfferOf DEF QuoteOffer
<1>4. quote' = [quote EXCEPT !.offers[o] = [quote.offers[o] EXCEPT !.qty = qty]]
  BY <1>1
<1> QED
  BY <1>3, <1>4, OfferPut DEF Kept

LEMMA TypeLineQtyKeeps ==
    ASSUME quote \in Quote, NEW l \in Lines, NEW n \in CellQtys, TypeLineQty(l, n)
    PROVE  Kept
<1> DEFINE follows(o) == o[1] = l /\ quote.offers[o].qty \in {Nil, Following(o, quote.lines[l].qty)}
           offers == [o \in Offers(quote) |->
                         IF follows(o) THEN [quote.offers[o] EXCEPT !.qty = Following(o, n)]
                         ELSE quote.offers[o]]
           q == [quote EXCEPT !.lines[l].qty = n]
<1>1. quote' = [quote EXCEPT !.lines[l].qty = n, !.offers = offers]
  BY DEF TypeLineQty, Change
<1>2. n \in Nat
  BY QuotesAssumption
<1>3. ASSUME NEW o \in Offers(quote)
      PROVE  [quote.offers[o] EXCEPT !.qty = Following(o, n)] \in QuoteOffer
  <2>1. Following(o, n) \in Opt(Nat)
    BY <1>2, RoundedIs DEF Following, NilIf, Opt
  <2> QED
    BY <2>1, OfferOf DEF QuoteOffer
<1> HIDE DEF follows
<1>4. offers \in [Offers(quote) -> QuoteOffer]
  BY <1>3, OfferOf
<1> HIDE DEF offers
<1>5. q \in Quote /\ q.base = quote.base
  <2>1. [quote.lines[l] EXCEPT !.qty = n] \in QuoteLine
    BY <1>2, LineOf
  <2>2. q = [quote EXCEPT !.lines[l] = [quote.lines[l] EXCEPT !.qty = n]]
    OBVIOUS
  <2> HIDE DEF q
  <2> QED
    BY <2>1, <2>2, LinePut
<1>6. Offers(q) = Offers(quote)
  BY DEF Offers, Quote, QuoteWith
<1>7. quote' = [q EXCEPT !.offers = offers]
  BY <1>1
<1> HIDE DEF q
<1> QED
  BY <1>4, <1>5, <1>6, <1>7, OffersPut DEF Kept

LEMMA ToggleExcludedKeeps ==
    ASSUME quote \in Quote, NEW o \in Offers(quote), ToggleExcluded(o)
    PROVE  Kept
<1> DEFINE x == [quote.offers[o] EXCEPT !.out = ~quote.offers[o].out]
           q == [quote EXCEPT !.offers[o] = x]
           l == o[1]
           sel == IF ~quote.offers[o].out /\ quote.lines[l].sel = o[2] THEN Nil ELSE quote.lines[l].sel
           y == [quote.lines[l] EXCEPT !.sel = sel]
<1>1. quote' = [quote EXCEPT !.offers[o] = x, !.lines[l] = y]
  BY DEF ToggleExcluded, Change, Quote, QuoteWith
<1>2. x \in QuoteOffer
  BY OfferOf DEF QuoteOffer
<1>3. l \in Lines
  BY OfferOf
<1>4. sel \in Opt(Blocks)
  BY <1>3 DEF Quote, QuoteWith, QuoteLine, Opt
<1> HIDE DEF sel
<1>5. y \in QuoteLine
  BY <1>3, <1>4, LineOf
<1> HIDE DEF x, y
<1>6. q \in Quote /\ q.base = quote.base
  BY <1>2, OfferPut
<1>7. quote' = [q EXCEPT !.lines[l] = y]
  BY <1>1
<1> HIDE DEF q, l
<1> QED
  BY <1>3, <1>5, <1>6, <1>7, LinePut DEF Kept

LEMMA BlockEditsKeep ==
    ASSUME quote \in Quote, NEW b \in Blocks,
           \/ \E r \in CellRates : TypeRate(b, r)
           \/ \E v \in SupplierPercents : TypeBlockMarkup(b, v)
    PROVE  Kept
<1>1. ASSUME NEW r \in CellRates, TypeRate(b, r) PROVE Kept
  <2>1. quote' = [quote EXCEPT !.blocks[b].rate = r] /\ r \in Opt(Rate)
    BY <1>1, QuotesAssumption DEF TypeRate, Change
  <2> QED
    BY <2>1 DEF Kept, Quote, QuoteWith
<1>2. ASSUME NEW v \in SupplierPercents, TypeBlockMarkup(b, v) PROVE Kept
  <2>1. quote' = [quote EXCEPT !.blocks[b].markup = v] /\ v \in SupplierMarkup
    BY <1>2, QuotesAssumption DEF TypeBlockMarkup, Change
  <2> QED
    BY <2>1 DEF Kept, Quote, QuoteWith
<1> QED
  BY <1>1, <1>2

LEMMA TogglePickKeeps ==
    ASSUME quote \in Quote, NEW l \in Lines, NEW b \in Blocks, TogglePick(l, b)
    PROVE  Kept
<1> DEFINE sel == IF quote.lines[l].sel = b THEN Nil ELSE b
           y == [quote.lines[l] EXCEPT !.sel = sel]
<1>1. quote' = [quote EXCEPT !.lines[l] = y]
  BY DEF TogglePick, Change, Quote, QuoteWith
<1>2. y \in QuoteLine
  BY LineOf DEF Opt
<1> HIDE DEF y
<1> QED
  BY <1>1, <1>2, LinePut DEF Kept

LEMMA ChoosingKeeps ==
    ASSUME quote \in Quote, NEW pick, \A l \in Lines \cap DOMAIN pick : pick[l] \in Blocks,
           Choosing(pick)
    PROVE  Kept
<1> DEFINE lines == [l \in Lines |-> IF l \in DOMAIN pick THEN [quote.lines[l] EXCEPT !.sel = pick[l]]
                                     ELSE quote.lines[l]]
<1>1. quote' = [quote EXCEPT !.lines = lines]
  BY DEF Choosing, Change, Quote, QuoteWith
<1>2. lines \in [Lines -> QuoteLine]
  <2>1. \A l \in Lines : quote.lines[l] \in QuoteLine
    BY DEF Quote, QuoteWith
  <2>2. \A l \in Lines \cap DOMAIN pick : [quote.lines[l] EXCEPT !.sel = pick[l]] \in QuoteLine
    BY LineOf DEF Opt
  <2> QED
    BY <2>1, <2>2
<1> HIDE DEF lines
<1> QED
  BY <1>1, <1>2, LinesPut DEF Kept

LEMMA RecommendedIs ==
    ASSUME NEW q \in Quote, NEW f, NEW l \in Lines, Recommended(q, f, l) # Nil
    PROVE  /\ Recommended(q, f, l) \in Blocks
           /\ <<l, Recommended(q, f, l)>> \in Offers(q)
<1> DEFINE least == {b \in Compared(q, f, l) :
                        \A a \in Compared(q, f, l) : f[<<l, b>>].net <= f[<<l, a>>].net}
<1>1. least # {} /\ Recommended(q, f, l) = Min(least)
  BY DEF Recommended
<1>2. least \subseteq Nat /\ \A b \in least : b \in Blocks /\ Usable(q, f, l, b)
  BY PricesAssumption DEF Compared
<1> HIDE DEF least
<1>3. Min(least) \in least
  BY <1>1, <1>2, MinIs
<1> QED
  BY <1>1, <1>2, <1>3 DEF Usable

LEMMA ManyChoicesKeep ==
    ASSUME quote \in Quote, AcceptAllRecommendations \/ \E b \in Blocks : SelectAllInBlock(b)
    PROVE  Kept
<1> DEFINE f == Figures(quote)  mix == Mix(quote, f)
<1>1. CASE AcceptAllRecommendations
  <2> DEFINE pick == [l \in {x \in DOMAIN mix : FollowsPrices(quote, f, x)} |-> mix[l]]
  <2>1. Choosing(pick)
    BY <1>1 DEF AcceptAllRecommendations
  <2>2. ASSUME NEW l \in Lines \cap DOMAIN pick PROVE pick[l] \in Blocks
    <3>1. mix = [x \in {x \in Active(quote) : Recommended(quote, f, x) # Nil} |-> Recommended(quote, f, x)]
      BY DEF Mix, Picks
    <3>2. pick[l] = Recommended(quote, f, l) /\ Recommended(quote, f, l) # Nil
      BY <3>1
    <3> HIDE DEF pick, mix, f
    <3> QED
      BY <3>2, RecommendedIs
  <2> HIDE DEF pick
  <2> QED
    BY <2>1, <2>2, ChoosingKeeps
<1>2. ASSUME NEW b \in Blocks, SelectAllInBlock(b) PROVE Kept
  <2> DEFINE pick == [l \in {x \in Lines : b \in Compared(quote, f, x)} |-> b]
  <2>1. Choosing(pick)
    BY <1>2 DEF SelectAllInBlock
  <2>2. \A l \in Lines \cap DOMAIN pick : pick[l] \in Blocks
    OBVIOUS
  <2> HIDE DEF pick
  <2> QED
    BY <2>1, <2>2, ChoosingKeeps
<1> QED
  BY <1>1, <1>2

LEMMA CurrentIs ==
    ASSUME NEW q, NEW f
    PROVE  DOMAIN Current(q, f) = {l \in Active(q) : Effective(q, f, l) # Nil}
BY DEF Current, Picks

LEMMA SetRuleKeeps ==
    ASSUME quote \in Quote, NEW l \in Lines, NEW rule \in LineRule, SetRule(l, rule)
    PROVE  Kept
<1> DEFINE y == [quote.lines[l] EXCEPT !.rule = rule]
<1>1. quote' = [quote EXCEPT !.lines[l] = y]
  BY DEF SetRule, Change, Quote, QuoteWith
<1>2. y \in QuoteLine
  BY LineOf
<1> HIDE DEF y
<1> QED
  BY <1>1, <1>2, LinePut DEF Kept

LEMMA RuleIs ==
    ASSUME NEW method \in Opt(Methods \cup {"manual"}), NEW v \in Opt(Nat),
           NEW netto \in Opt(Int), NEW gross \in Opt(Int)
    PROVE  Rule(method, v, netto, gross) \in LineRule
BY DEF Rule, LineRule

LEMMA RuleOf ==
    ASSUME NEW q \in Quote, NEW l \in Lines
    PROVE  q.lines[l].rule \in LineRule
BY LineOf DEF QuoteLine

LEMMA NoRuleIs == NoRule \in LineRule
BY RuleIs DEF NoRule, Opt

LEMMA MethodIs ==
    ASSUME quote \in Quote, NEW l \in Lines
    PROVE  MethodOf(l) \in Methods \cup {"manual"}
<1>1. quote.lines[l].rule.method \in Opt(Methods \cup {"manual"})
  BY RuleOf DEF LineRule
<1>2. quote.markup.method \in Methods
  BY DEF Quote, QuoteWith
<1> QED
  BY <1>1, <1>2 DEF MethodOf, Else, Opt

LEMMA TypeSaleKeeps ==
    ASSUME quote \in Quote, NEW l \in Lines, NEW p \in CellPrices \cup {Nil},
           TypeSale(l, p, Nil) \/ TypeSale(l, Nil, p)
    PROVE  Kept
<1>1. p \in Opt(Int) /\ Nil \in Opt(Int) /\ Nil \in Opt(Nat)
      /\ "manual" \in Opt(Methods \cup {"manual"})
  BY QuotesAssumption DEF Opt
<1>2. Rule("manual", Nil, p, Nil) \in LineRule /\ Rule("manual", Nil, Nil, p) \in LineRule
  BY <1>1, RuleIs
<1>3. \E rule \in LineRule : SetRule(l, rule)
  BY <1>2, NoRuleIs DEF TypeSale
<1> QED
  BY <1>3, SetRuleKeeps

LEMMA ChooseMethodKeeps ==
    ASSUME quote \in Quote, NEW l \in DOMAIN Current(quote, Figures(quote)),
           NEW m \in Methods \cup {"manual"}, ChooseMethod(l, m)
    PROVE  Kept
<1> DEFINE f == Figures(quote)  b == Effective(quote, f, l)
           netto == Else(Row(quote, f, l).net, f[<<l, b>>].net)
           value == Else(quote.lines[l].rule.value, quote.markup.value)
<1>1. l \in Lines /\ b # Nil
  BY CurrentIs DEF Active
<1>2. netto \in Int
  <2>1. Row(quote, f, l).net # Nil => Row(quote, f, l).net \in Int
    BY <1>1, RowIs
  <2>2. f[<<l, b>>].net \in Int
    <3>1. <<l, b>> \in Offers(quote)
      BY <1>1, EffectiveIs
    <3> QED
      BY <3>1, FigureIs
  <2> QED
    BY <2>1, <2>2 DEF Else
<1>3. value \in Nat
  <2>1. quote.lines[l].rule.value \in Opt(Nat)
    BY <1>1, RuleOf DEF LineRule
  <2>2. quote.markup.value \in Nat
    BY DEF Quote, QuoteWith
  <2> QED
    BY <2>1, <2>2 DEF Else, Opt
<1>4. \E rule \in {Rule("rrp", Nil, Nil, Nil), Rule("manual", Nil, netto, Nil), Rule(m, value, Nil, Nil)} :
         SetRule(l, rule) /\ (rule = Rule("rrp", Nil, Nil, Nil) \/ rule = Rule("manual", Nil, netto, Nil)
                                \/ rule = Rule(m, value, Nil, Nil))
  BY DEF ChooseMethod
<1> HIDE DEF netto, value
<1>5. /\ Rule("rrp", Nil, Nil, Nil) \in LineRule /\ Rule("manual", Nil, netto, Nil) \in LineRule
      /\ Rule(m, value, Nil, Nil) \in LineRule
  BY <1>2, <1>3, RuleIs DEF Opt, Methods
<1>6. \E rule \in LineRule : SetRule(l, rule)
  BY <1>4, <1>5
<1> QED
  BY <1>1, <1>6, SetRuleKeeps

LEMMA PercentsKeep ==
    ASSUME quote \in Quote, NEW l \in Lines,
           ClearPercent(l) \/ \E v \in Percents : TypePercent(l, v)
    PROVE  Kept
<1>1. CASE ClearPercent(l)
  <2>1. [quote.lines[l].rule EXCEPT !.value = Nil] \in LineRule
    BY RuleOf DEF LineRule, Opt
  <2> QED
    BY <1>1, <2>1, SetRuleKeeps DEF ClearPercent
<1>2. ASSUME NEW v \in Percents, TypePercent(l, v) PROVE Kept
  <2>1. Rule(MethodOf(l), v, Nil, Nil) \in LineRule
    BY MethodIs, RuleIs, QuotesAssumption DEF Opt
  <2> QED
    BY <1>2, <2>1, SetRuleKeeps DEF TypePercent
<1> QED
  BY <1>1, <1>2

LEMMA FillFromKeeps ==
    ASSUME quote \in Quote, NEW l \in Lines, NEW other \in Lines, FillFrom(l, other)
    PROVE  Kept
<1>1. \E rule \in LineRule : SetRule(l, rule)
  BY RuleOf, NoRuleIs DEF FillFrom
<1> QED
  BY <1>1, SetRuleKeeps

\* What is set for the whole request.
LEMMA RequestEditsKeep ==
    ASSUME quote \in Quote,
           \/ \E m \in Methods : SetMethod(m)
           \/ \E v \in Percents : SetPercent(v)
           \/ \E ofPercent \in BOOLEAN : SetFormula(ofPercent)
           \/ ResetLineMarkups \/ \E m \in Modes : SetMode(m)
    PROVE  Kept
<1>1. ASSUME NEW m \in Methods, SetMethod(m) PROVE Kept
  BY <1>1 DEF SetMethod, Change, Kept, Quote, QuoteWith
<1>2. ASSUME NEW v \in Percents, SetPercent(v) PROVE Kept
  <2>1. v \in Nat
    BY QuotesAssumption
  <2> QED
    BY <1>2, <2>1 DEF SetPercent, Change, Kept, Quote, QuoteWith
<1>3. ASSUME NEW ofPercent \in BOOLEAN, SetFormula(ofPercent) PROVE Kept
  BY <1>3 DEF SetFormula, Change, Kept, Quote, QuoteWith
<1>4. CASE ResetLineMarkups
  <2> DEFINE lines == [l \in Lines |-> [quote.lines[l] EXCEPT !.rule = NoRule]]
  <2>1. quote' = [quote EXCEPT !.lines = lines]
    BY <1>4 DEF ResetLineMarkups, Change, Quote, QuoteWith
  <2>2. lines \in [Lines -> QuoteLine]
    BY NoRuleIs, LineOf
  <2> HIDE DEF lines
  <2> QED
    BY <2>1, <2>2, LinesPut DEF Kept
<1>5. ASSUME NEW m \in Modes, SetMode(m) PROVE Kept
  BY <1>5 DEF SetMode, Change, Kept, Quote, QuoteWith
<1> QED
  BY <1>1, <1>2, <1>3, <1>4, <1>5

-----------------------------------------------------------------------------
(* Approvals *)

QuotesInv == quote \in Quote /\ IsKps(quote, kps)

LEMMA BaseIs ==
    ASSUME QuotesInv
    PROVE  /\ Regular \subseteq Nat \ {0} /\ IsFiniteSet(Regular)
           /\ Base # Nil => Base \in Regular
           /\ quote.base # Nil => Base = quote.base
           /\ quote.base = Nil /\ Regular # {} => Base = Max(Regular) /\ Base # Nil
           /\ Base = Nil => Regular = {}
<1>1. Regular \subseteq DOMAIN kps
  BY DEF Regular
<1>2. Regular \subseteq Nat \ {0} /\ IsFiniteSet(Regular)
  BY <1>1, FS_Subset DEF QuotesInv, IsKps, Versions
<1>3. Regular # {} => Max(Regular) \in Regular
  BY <1>2, MaxIs
<1>4. quote.base # Nil => quote.base \in Regular
  BY DEF QuotesInv, IsKps, Versions, Regular
<1>5. Nil \notin Regular
  BY <1>2, PricesAssumption
<1> QED
  BY <1>2, <1>3, <1>4, <1>5 DEF Base

LEMMA RowsOf ==
    ASSUME QuotesInv, NEW v \in DOMAIN kps
    PROVE  /\ kps[v].rows \in KpTables /\ kps[v].mode \in Modes
           /\ DOMAIN kps[v].rows \subseteq Lines
           /\ \A l \in DOMAIN kps[v].rows : kps[v].rows[l] \in [price : Int, qty : Nat, sum : Int]
<1>1. kps[v] \in Kp
  BY DEF QuotesInv, IsKps, Versions
<1>2. kps[v].rows \in KpTables /\ kps[v].mode \in Modes
  BY <1>1 DEF Kp, KpWith
<1>3. PICK D \in SUBSET Lines : kps[v].rows \in [D -> [price : Int, qty : Nat, sum : Int]]
  BY <1>2 DEF KpTables, KpRow
<1> QED
  BY <1>2, <1>3

LEMMA BaseRowsAre ==
    ASSUME QuotesInv
    PROVE  /\ DOMAIN BaseRows \subseteq Lines
           /\ \A l \in DOMAIN BaseRows : /\ Base # Nil
                                         /\ BaseRows[l] \in [price : Int, qty : Nat, sum : Int]
<1>1. CASE Base = Nil
  <2>1. BaseRows = <<>>
    BY <1>1 DEF BaseRows
  <2> QED
    BY <2>1
<1>2. CASE Base # Nil
  <2>1. Base \in DOMAIN kps /\ BaseRows = kps[Base].rows
    BY <1>2, BaseIs DEF BaseRows, Regular
  <2> QED
    BY <1>2, <2>1, RowsOf
<1> QED
  BY <1>1, <1>2

LEMMA TickKeeps ==
    ASSUME QuotesInv, NEW l \in Lines, Tick(l)
    PROVE  Kept
<1> DEFINE x == quote.lines[l]
           qty == IF x.approved THEN Nil ELSE BaseRows[l].qty
           y == [x EXCEPT !.approved = ~x.approved, !.approvedQty = qty]
<1>1. quote \in Quote /\ l \in DOMAIN BaseRows
  BY DEF QuotesInv, Tick
<1>2. quote' = [quote EXCEPT !.lines[l] = y]
  BY <1>1 DEF Tick, Change, Quote, QuoteWith
<1>3. qty \in Opt(Nat)
  BY <1>1, BaseRowsAre DEF Opt
<1>4. x.approved \in BOOLEAN
  BY <1>1, LineOf DEF QuoteLine
<1> HIDE DEF qty
<1>5. y \in QuoteLine
  BY <1>1, <1>3, <1>4, LineOf
<1> HIDE DEF y, x
<1> QED
  BY <1>1, <1>2, <1>5, LinePut DEF Kept

LEMMA TypeApprovedQtyKeeps ==
    ASSUME QuotesInv, NEW l \in Lines, NEW n \in CellQtys, TypeApprovedQty(l, n)
    PROVE  Kept
<1> DEFINE b == Effective(quote, Figures(quote), l)
           wanted == IF n > 0 THEN n ELSE BaseRows[l].qty
           qty == Suggested(wanted, IF b = Nil THEN Whole ELSE RoundedTo(<<l, b>>))
           y == [quote.lines[l] EXCEPT !.approvedQty = qty]
<1>1. quote \in Quote /\ l \in DOMAIN BaseRows
  BY DEF QuotesInv, TypeApprovedQty
<1>2. quote' = [quote EXCEPT !.lines[l] = y]
  BY <1>1 DEF TypeApprovedQty, Change, Quote, QuoteWith
<1>3. wanted \in Nat
  BY <1>1, BaseRowsAre, QuotesAssumption
<1> HIDE DEF wanted
<1>4. qty \in Nat
  <2>1. b # Nil => <<l, b>> \in Offers(quote)
    BY <1>1, EffectiveIs
  <2>2. Whole \in Nat
    BY DEF Whole
  <2>3. (IF b = Nil THEN Whole ELSE RoundedTo(<<l, b>>)) \in Nat
    BY <1>1, <2>1, <2>2, RoundedIs
  <2> QED
    BY <1>3, <2>3, SuggestedIs
<1> HIDE DEF qty
<1>5. y \in QuoteLine
  BY <1>1, <1>4, LineOf DEF Opt
<1> HIDE DEF y
<1> QED
  BY <1>1, <1>2, <1>5, LinePut DEF Kept

LEMMA ApproveAllKeeps ==
    ASSUME QuotesInv, NEW yes \in BOOLEAN, ApproveAll(yes)
    PROVE  Kept
<1> DEFINE qty(l) == IF yes THEN Else(quote.lines[l].approvedQty, BaseRows[l].qty) ELSE Nil
           lines == [l \in Lines |->
                        IF l \notin DOMAIN BaseRows THEN quote.lines[l]
                        ELSE [quote.lines[l] EXCEPT !.approved = yes, !.approvedQty = qty(l)]]
<1>1. quote \in Quote
  BY DEF QuotesInv
<1>2. quote' = [quote EXCEPT !.lines = lines]
  BY <1>1 DEF ApproveAll, Change, Quote, QuoteWith
<1>3. ASSUME NEW l \in DOMAIN BaseRows PROVE qty(l) \in Opt(Nat)
  <2>1. l \in Lines /\ BaseRows[l].qty \in Nat
    BY BaseRowsAre
  <2>2. quote.lines[l].approvedQty \in Opt(Nat)
    BY <1>1, <2>1, LineOf DEF QuoteLine
  <2> QED
    BY <2>1, <2>2 DEF Else, Opt
<1> HIDE DEF qty
<1>4. lines \in [Lines -> QuoteLine]
  BY <1>1, <1>3, LineOf
<1> HIDE DEF lines
<1> QED
  BY <1>1, <1>2, <1>4, LinesPut DEF Kept

\* Every edit keeps the types and leaves the KPs alone; only ChooseBase changes
\* the base.
LEMMA EditsKeep ==
    ASSUME QuotesInv, EditOffer \/ EditPurchase \/ EditSale
    PROVE  Kept /\ kps' = kps
<1>1. quote \in Quote
  BY DEF QuotesInv
<1>2. CASE EditOffer
  <2>1. ASSUME NEW o \in Offers(quote), NEW p \in CellPrices,
               TypeRrp(o, p) \/ \E withVat \in BOOLEAN : TypePrice(o, p, withVat)
        PROVE  Kept /\ kps' = kps
    BY <1>1, <2>1, TypeRrpKeeps, TypePriceKeeps DEF TypeRrp, TypePrice, Change
  <2>2. ASSUME NEW o \in Offers(quote), NEW n \in CellQtys \cup {Nil}, TypeOfferQty(o, n)
        PROVE  Kept /\ kps' = kps
    BY <1>1, <2>2, TypeOfferQtyKeeps DEF TypeOfferQty, Change
  <2>3. ASSUME NEW o \in Offers(quote), ToggleExcluded(o) PROVE Kept /\ kps' = kps
    BY <1>1, <2>3, ToggleExcludedKeeps DEF ToggleExcluded, Change
  <2> QED
    BY <1>2, <2>1, <2>2, <2>3 DEF EditOffer
<1>3. CASE EditPurchase
  <2>1. ASSUME NEW l \in Lines, NEW n \in CellQtys, TypeLineQty(l, n) PROVE Kept /\ kps' = kps
    BY <1>1, <2>1, TypeLineQtyKeeps DEF TypeLineQty, Change
  <2>2. ASSUME NEW b \in Blocks,
               \/ \E r \in CellRates : TypeRate(b, r)
               \/ \E v \in SupplierPercents : TypeBlockMarkup(b, v)
        PROVE  Kept /\ kps' = kps
    BY <1>1, <2>2, BlockEditsKeep DEF TypeRate, TypeBlockMarkup, Change
  <2>3. ASSUME NEW l \in Lines, NEW b \in Blocks, TogglePick(l, b) PROVE Kept /\ kps' = kps
    BY <1>1, <2>3, TogglePickKeeps DEF TogglePick, Change
  <2>4. ASSUME AcceptAllRecommendations \/ \E b \in Blocks : SelectAllInBlock(b)
        PROVE  Kept /\ kps' = kps
    BY <1>1, <2>4, ManyChoicesKeep DEF AcceptAllRecommendations, SelectAllInBlock, Choosing, Change
  <2> QED
    BY <1>3, <2>1, <2>2, <2>3, <2>4 DEF EditPurchase
<1>4. CASE EditSale
  <2>1. ASSUME NEW l \in DOMAIN Current(quote, Figures(quote)),
               \/ \E p \in CellPrices \cup {Nil} : TypeSale(l, p, Nil) \/ TypeSale(l, Nil, p)
               \/ \E m \in Methods \cup {"manual"} : ChooseMethod(l, m)
               \/ ClearPercent(l) \/ \E v \in Percents : TypePercent(l, v)
               \/ \E other \in Lines : FillFrom(l, other)
        PROVE  Kept /\ kps' = kps
    <3>1. l \in Lines
      BY CurrentIs DEF Active
    <3>2. Kept
      BY <1>1, <2>1, <3>1, TypeSaleKeeps, ChooseMethodKeeps, PercentsKeep, FillFromKeeps
    <3>3. kps' = kps
      BY <2>1 DEF TypeSale, ChooseMethod, ClearPercent, TypePercent, FillFrom, SetRule, Change
    <3> QED
      BY <3>2, <3>3
  <2>2. ASSUME \/ \E m \in Methods : SetMethod(m)
               \/ \E v \in Percents : SetPercent(v)
               \/ \E ofPercent \in BOOLEAN : SetFormula(ofPercent)
               \/ ResetLineMarkups \/ \E m \in Modes : SetMode(m)
        PROVE  Kept /\ kps' = kps
    BY <1>1, <2>2, RequestEditsKeep
       DEF SetMethod, SetPercent, SetFormula, ResetLineMarkups, SetMode, Change
  <2> QED
    BY <1>4, <2>1, <2>2 DEF EditSale
<1> QED
  BY <1>2, <1>3, <1>4

LEMMA ChooseBaseIs ==
    ASSUME QuotesInv, NEW v, ChooseBase(v)
    PROVE  /\ quote' \in Quote /\ kps' = kps
           /\ quote'.base = Nil \/ quote'.base \in Regular
<1> DEFINE base == IF v = Max(Regular) THEN Nil ELSE v
<1>1. quote' = [quote EXCEPT !.base = base] /\ v \in Regular /\ kps' = kps
  BY DEF ChooseBase, Change
<1>2. base \in Opt(Nat) /\ (base = Nil \/ base \in Regular)
  BY <1>1, BaseIs DEF Opt
<1> HIDE DEF base
<1> QED
  BY <1>1, <1>2 DEF QuotesInv, Quote, QuoteWith

LEMMA ApprovalsKeep ==
    ASSUME QuotesInv, EditApproval
    PROVE  /\ quote' \in Quote /\ kps' = kps
           /\ quote'.base = quote.base \/ quote'.base = Nil \/ quote'.base \in Regular
<1>1. ASSUME NEW l \in Lines, Tick(l) \/ \E n \in CellQtys : TypeApprovedQty(l, n)
      PROVE  Kept /\ kps' = kps
  BY <1>1, TickKeeps, TypeApprovedQtyKeeps DEF Tick, TypeApprovedQty, Change
<1>2. ASSUME NEW yes \in BOOLEAN, ApproveAll(yes) PROVE Kept /\ kps' = kps
  BY <1>2, ApproveAllKeeps DEF ApproveAll, Change
<1> QED
  BY <1>1, <1>2, ChooseBaseIs DEF EditApproval, Kept

-----------------------------------------------------------------------------
(* KPs *)

LEMMA NewVersionIs ==
    ASSUME QuotesInv
    PROVE  NextVersion \in Nat \ {0} /\ NextVersion \notin DOMAIN kps
<1>1. DOMAIN kps \subseteq Nat \ {0} /\ IsFiniteSet(DOMAIN kps)
  BY DEF QuotesInv, IsKps, Versions
<1>2. CASE DOMAIN kps = {}
  BY <1>2 DEF NextVersion
<1>3. CASE DOMAIN kps # {}
  <2>1. Max(DOMAIN kps) \in Nat /\ \A v \in DOMAIN kps : v <= Max(DOMAIN kps)
    BY <1>1, <1>3, MaxIs
  <2>2. NextVersion = 1 + Max(DOMAIN kps)
    BY <1>3 DEF NextVersion
  <2> QED
    BY <1>1, <2>1, <2>2
<1> QED
  BY <1>2, <1>3

LEMMA AddKpKeeps ==
    ASSUME QuotesInv, NEW kp \in Kp, AddKp(kp)
    PROVE  /\ QuotesInv' /\ quote' = quote
           /\ DOMAIN kps' = DOMAIN kps \cup {NextVersion}
           /\ kps'[NextVersion] = kp
           /\ \A v \in DOMAIN kps : kps'[v] = kps[v]
<1> DEFINE n == NextVersion
<1>1. n \in Nat \ {0} /\ n \notin DOMAIN kps
  BY NewVersionIs
<1>2. kps' = [v \in DOMAIN kps \cup {n} |-> IF v = n THEN kp ELSE kps[v]] /\ quote' = quote
  BY DEF AddKp
<1> HIDE DEF n
<1>3. /\ DOMAIN kps' = DOMAIN kps \cup {n} /\ kps'[n] = kp
      /\ \A v \in DOMAIN kps : kps'[v] = kps[v]
  BY <1>1, <1>2
<1>4. IsFiniteSet(DOMAIN kps')
  BY <1>3, FS_AddElement DEF QuotesInv, IsKps, Versions
<1>5. kps' \in [DOMAIN kps' -> Kp]
  <2>1. \A v \in DOMAIN kps : kps[v] \in Kp
    BY DEF QuotesInv, IsKps, Versions
  <2> QED
    BY <1>2, <1>3, <2>1
<1>6. IsKps(quote, kps')
  BY <1>1, <1>3, <1>4, <1>5 DEF QuotesInv, IsKps, Versions
<1> QED
  BY <1>2, <1>3, <1>6 DEF QuotesInv, n

LEMMA ApprovedRowsAre ==
    ASSUME QuotesInv
    PROVE  ApprovedRows(quote, BaseRows) \in KpTables
<1> DEFINE D == {x \in DOMAIN BaseRows : quote.lines[x].approved}
           qty(l) == Else(quote.lines[l].approvedQty, BaseRows[l].qty)
           row(l) == [BaseRows[l] EXCEPT !.qty = qty(l), !.sum = PerQty(BaseRows[l].price, qty(l))]
<1>1. ApprovedRows(quote, BaseRows) = [l \in D |-> row(l)]
  BY DEF ApprovedRows
<1>2. D \in SUBSET Lines
  BY BaseRowsAre
<1>3. ASSUME NEW l \in D PROVE row(l) \in [price : Int, qty : Nat, sum : Int]
  <2>1. BaseRows[l] \in [price : Int, qty : Nat, sum : Int] /\ l \in Lines
    BY BaseRowsAre
  <2>2. quote.lines[l].approvedQty \in Opt(Nat)
    BY <2>1, LineOf DEF QuoteLine, QuotesInv
  <2>3. qty(l) \in Nat
    BY <2>1, <2>2 DEF Else, Opt
  <2> HIDE DEF qty
  <2>4. PerQty(BaseRows[l].price, qty(l)) \in Int
    BY <2>1, <2>3, PerQtyIs
  <2> QED
    BY <2>1, <2>3, <2>4
<1> HIDE DEF D, row
<1> QED
  BY <1>1, <1>2, <1>3 DEF KpTables, KpRow

LEMMA FormKpIs ==
    ASSUME QuotesInv, FormKp
    PROVE  LET rows == KpRows(quote, Figures(quote), quote.mode)
               kp == [final |-> FALSE, mode |-> quote.mode, rows |-> rows]
           IN  kp \in Kp /\ AddKp(kp) /\ KpAllowed(quote, Figures(quote))
<1>1. KpRows(quote, Figures(quote), quote.mode) \in KpTables /\ quote.mode \in Modes
  BY KpRowsAre DEF QuotesInv, Quote, QuoteWith
<1> QED
  BY <1>1 DEF FormKp, Kp, KpWith

LEMMA FormFinalIs ==
    ASSUME QuotesInv, FormFinal
    PROVE  LET rows == ApprovedRows(quote, BaseRows)
               kp == [final |-> TRUE, mode |-> kps[Base].mode, rows |-> rows]
           IN  kp \in Kp /\ AddKp(kp) /\ rows # <<>> /\ Base # Nil
<1> DEFINE rows == ApprovedRows(quote, BaseRows)
<1>1. rows # <<>> /\ AddKp([final |-> TRUE, mode |-> kps[Base].mode, rows |-> rows])
  BY DEF FormFinal
<1>2. Base # Nil
  <2> SUFFICES ASSUME Base = Nil PROVE rows = <<>>
    BY <1>1
  <2>1. BaseRows = <<>>
    BY DEF BaseRows
  <2>2. DOMAIN BaseRows = {}
    BY <2>1
  <2> QED
    BY <2>2 DEF ApprovedRows
<1>3. kps[Base].mode \in Modes
  BY <1>2, BaseIs, RowsOf DEF Regular
<1>4. rows \in KpTables
  BY ApprovedRowsAre
<1> HIDE DEF rows
<1> QED
  BY <1>1, <1>2, <1>3, <1>4 DEF Kp, KpWith, rows

LEMMA DeleteKpKeeps ==
    ASSUME QuotesInv, NEW v, DeleteKp(v)
    PROVE  QuotesInv' /\ DOMAIN kps' = DOMAIN kps \ {v}
           /\ (\A w \in DOMAIN kps \ {v} : kps'[w] = kps[w])
           /\ quote'.lines = quote.lines
           /\ quote'.base = IF quote.base = v THEN Nil ELSE quote.base
<1> DEFINE base == IF quote.base = v THEN Nil ELSE quote.base
<1>1. /\ v \in DOMAIN kps
      /\ kps' = [w \in DOMAIN kps \ {v} |-> kps[w]]
      /\ quote' = [quote EXCEPT !.base = base]
  BY DEF DeleteKp
<1>2. base \in Opt(Nat)
  BY DEF QuotesInv, Quote, QuoteWith, Opt
<1>3. /\ DOMAIN kps' = DOMAIN kps \ {v}
      /\ \A w \in DOMAIN kps \ {v} : kps'[w] = kps[w]
  BY <1>1
<1>4. IsFiniteSet(DOMAIN kps')
  BY <1>3, FS_Subset DEF QuotesInv, IsKps, Versions
<1>5. quote' \in Quote /\ quote'.base = base /\ quote'.lines = quote.lines
  <2> HIDE DEF base
  <2> QED
    BY <1>1, <1>2 DEF QuotesInv, Quote, QuoteWith
<1>6. IsKps(quote', kps')
  BY <1>1, <1>3, <1>4, <1>5 DEF QuotesInv, IsKps, Versions
<1> QED
  BY <1>3, <1>5, <1>6 DEF QuotesInv

-----------------------------------------------------------------------------
(* The invariant *)

LEMMA EveryStep ==
    ASSUME QuotesInv, [QuotesNext]_quoteVars
    PROVE  QuotesInv'
<1>1. ASSUME quote' \in Quote, kps' = kps,
             quote'.base = quote.base \/ quote'.base = Nil \/ quote'.base \in Regular
      PROVE  QuotesInv'
  BY <1>1 DEF QuotesInv, IsKps, Versions, Regular
<1>2. CASE EditOffer \/ EditPurchase \/ EditSale
  BY <1>1, <1>2, EditsKeep DEF Kept
<1>3. CASE EditApproval
  BY <1>1, <1>3, ApprovalsKeep
<1>4. CASE FormKp
  BY <1>4, FormKpIs, AddKpKeeps
<1>5. CASE FormFinal
  BY <1>5, FormFinalIs, AddKpKeeps
<1>6. ASSUME NEW v \in DOMAIN kps, DeleteKp(v) PROVE QuotesInv'
  BY <1>6, DeleteKpKeeps
<1>7. CASE QuotesDone \/ UNCHANGED quoteVars
  BY <1>1, <1>7 DEF QuotesDone, quoteVars, QuotesInv
<1> QED
  BY <1>2, <1>3, <1>4, <1>5, <1>6, <1>7 DEF QuotesNext

LEMMA FirstsAreTyped ==
    ASSUME NEW first \in FirstQuotes
    PROVE  first.quote \in Quote /\ IsKps(first.quote, first.kps)
<1> DEFINE q == first.quote  versions == first.kps
<1>1. IsFirst(q, versions)
  BY QuotesAssumption
<1>2. q \in Quote
  <2> DEFINE Offered == UNION {[D -> QuoteOffer] : D \in SUBSET (Lines \X Blocks)}
  <2>1. DOMAIN q.offers \in SUBSET (Lines \X Blocks) /\ q \in QuoteWith([DOMAIN q.offers -> QuoteOffer])
    BY <1>1 DEF IsFirst
  <2>2. q.offers \in Offered
    BY <2>1 DEF QuoteWith
  <2> HIDE DEF Offered
  <2>3. q \in QuoteWith(Offered)
    BY <2>1, <2>2 DEF QuoteWith
  <2> QED
    BY <2>3 DEF Quote, Offered
<1>3. \A v \in DOMAIN versions : versions[v] \in Kp
  <2> TAKE v \in DOMAIN versions
  <2> DEFINE kp == versions[v]
  <2>1. DOMAIN kp.rows \in SUBSET Lines /\ kp \in KpWith([DOMAIN kp.rows -> KpRow])
    BY <1>1 DEF IsFirst
  <2>2. kp.rows \in KpTables
    BY <2>1 DEF KpWith, KpTables
  <2> QED
    BY <2>1, <2>2 DEF KpWith, Kp
<1>4. versions \in [DOMAIN versions -> Kp] /\ Versions(q, versions)
  BY <1>1, <1>3 DEF IsFirst
<1> QED
  BY <1>2, <1>4 DEF IsKps

LEMMA QuotesStayTyped == QuotesSpec => []QuotesInv
<1>1. QuotesInit => QuotesInv
  BY FirstsAreTyped DEF QuotesInit, QuotesInv
<1>2. QuotesInv /\ [QuotesNext]_quoteVars => QuotesInv'
  BY EveryStep
<1> QED
  BY <1>1, <1>2, PTL DEF QuotesSpec

-----------------------------------------------------------------------------
(* What goes into a KP *)

LEMMA NewKps ==
    ASSUME QuotesInv, QuotesNext, NEW v \in DOMAIN kps' \ DOMAIN kps
    PROVE  \/ /\ FormKp
              /\ kps'[v] = [final |-> FALSE, mode |-> quote.mode,
                            rows |-> KpRows(quote, Figures(quote), quote.mode)]
           \/ /\ FormFinal /\ v = NextVersion
              /\ kps'[v] = [final |-> TRUE, mode |-> kps[Base].mode,
                            rows |-> ApprovedRows(quote, BaseRows)]
<1>1. CASE EditOffer \/ EditPurchase \/ EditSale
  BY <1>1, EditsKeep
<1>2. CASE EditApproval
  BY <1>2, ApprovalsKeep
<1>3. CASE FormKp
  BY <1>3, FormKpIs, AddKpKeeps
<1>4. CASE FormFinal
  BY <1>4, FormFinalIs, AddKpKeeps
<1>5. ASSUME NEW w \in DOMAIN kps, DeleteKp(w) PROVE FALSE
  BY <1>5, DeleteKpKeeps
<1>6. CASE QuotesDone
  BY <1>6 DEF QuotesDone, quoteVars
<1> QED
  BY <1>1, <1>2, <1>3, <1>4, <1>5, <1>6 DEF QuotesNext

LEMMA RowsComplete ==
    ASSUME NEW q \in Quote, NEW mode, KpAllowed(q, Figures(q))
    PROVE  LET f == Figures(q)
               rows == KpRows(q, f, mode)
           IN  /\ DOMAIN rows = DOMAIN Current(q, f)
               /\ \A l \in DOMAIN Current(q, f) :
                     /\ rows[l].price > 0
                     /\ rows[l].qty > 0 \/ q.offers[<<l, Effective(q, f, l)>>].qty = 0
<1> DEFINE f == Figures(q)  rows == KpRows(q, f, mode)  picked == DOMAIN Current(q, f)
<1>1. picked = {l \in Active(q) : Effective(q, f, l) # Nil}
  BY CurrentIs
<1>2. DOMAIN rows = Sold(q, f)
  BY DEF KpRows
<1>3. Active(q) \subseteq Lines
  BY DEF Active
<1>4. Sold(q, f) = picked
  <2>1. ASSUME NEW l \in Sold(q, f) PROVE l \in picked
    <3>1. l \in Active(q) /\ Row(q, f, l).net # Nil
      BY <2>1 DEF Sold
    <3>2. Effective(q, f, l) # Nil
      BY <1>3, <3>1, RowIs
    <3> QED
      BY <1>1, <3>1, <3>2
  <2>2. ASSUME NEW l \in picked PROVE l \in Sold(q, f)
    BY <1>1 DEF KpAllowed
  <2> QED
    BY <2>1, <2>2
<1>5. ASSUME NEW l \in picked
      PROVE  rows[l].price > 0 /\ (rows[l].qty > 0 \/ q.offers[<<l, Effective(q, f, l)>>].qty = 0)
  <2> DEFINE r == Row(q, f, l)  b == Effective(q, f, l)  o == <<l, b>>
  <2>1. l \in Lines /\ l \in Sold(q, f) /\ b # Nil /\ q.lines[l].qty > 0 /\ r.net > 0
    BY <1>1, <1>3, <1>4 DEF KpAllowed
  <2>2. /\ r.net \in Int /\ r.gross \in Int /\ r.gross > 0 /\ r.qty \in Nat
        /\ r.qty = Else(q.offers[o].qty, q.lines[l].qty)
    <3>1. r.net # Nil
      BY <2>1 DEF Sold
    <3> QED
      BY <2>1, <3>1, RowIs
  <2>3. rows[l].price = (IF ShowsGross(q, mode) THEN r.gross ELSE r.net) /\ rows[l].qty = r.qty
    BY <2>1 DEF KpRows
  <2>4. rows[l].price > 0
    BY <2>1, <2>2, <2>3
  <2>5. CASE q.offers[o].qty = Nil
    <3>1. r.qty = q.lines[l].qty
      BY <2>2, <2>5 DEF Else
    <3> QED
      BY <2>1, <2>3, <2>4, <3>1
  <2>6. CASE q.offers[o].qty # Nil
    <3>1. r.qty = q.offers[o].qty
      BY <2>2, <2>6 DEF Else
    <3> HIDE DEF r, o
    <3>2. r.qty > 0 \/ r.qty = 0
      BY <2>2
    <3> QED
      BY <2>3, <2>4, <3>1, <3>2 DEF o
  <2> QED
    BY <2>5, <2>6
<1> QED
  BY <1>2, <1>4, <1>5

\* KpsComplete: what was picked, each line at a price above zero, whatever was
\* typed, by every method, formula, rounding and rate; the KP is formed of the
\* stored request alone, so no edit on the way to it can spoil it.
THEOREM KpsAreComplete == QuotesSpec => KpsComplete
<1>1. ASSUME QuotesInv, QuotesNext, NEW v \in DOMAIN kps' \ DOMAIN kps, ~kps'[v].final
      PROVE  LET f == Figures(quote)
                 picked == DOMAIN Current(quote, f)
             IN  /\ DOMAIN kps'[v].rows = picked
                 /\ \A l \in picked :
                       /\ kps'[v].rows[l].price > 0
                       /\ kps'[v].rows[l].qty > 0 \/ quote.offers[<<l, Effective(quote, f, l)>>].qty = 0
  <2>1. /\ FormKp
        /\ kps'[v].rows = KpRows(quote, Figures(quote), quote.mode)
    BY <1>1, NewKps
  <2>2. KpAllowed(quote, Figures(quote)) /\ quote \in Quote
    BY <1>1, <2>1, FormKpIs DEF QuotesInv
  <2> QED
    BY <2>1, <2>2, RowsComplete
<1>2. QuotesInv /\ [QuotesNext]_quoteVars =>
         [\A v \in DOMAIN kps' \ DOMAIN kps :
          ~kps'[v].final =>
              LET f == Figures(quote)
                  picked == DOMAIN Current(quote, f)
              IN  /\ DOMAIN kps'[v].rows = picked
                  /\ \A l \in picked :
                        /\ kps'[v].rows[l].price > 0
                        /\ kps'[v].rows[l].qty > 0 \/ quote.offers[<<l, Effective(quote, f, l)>>].qty = 0
         ]_quoteVars
  BY <1>1
<1> QED
  BY <1>2, QuotesStayTyped, PTL DEF QuotesSpec, KpsComplete

-----------------------------------------------------------------------------
(* What the client approved *)

SameApprovals ==
    \A l \in Lines : /\ quote'.lines[l].approved = quote.lines[l].approved
                     /\ quote'.lines[l].approvedQty = quote.lines[l].approvedQty

LEMMA SameSum ==
    ASSUME QuotesInv, SameApprovals, Base' = Base, Base # Nil => kps'[Base] = kps[Base]
    PROVE  ApprovedSum' = ApprovedSum
<1>1. BaseRows' = BaseRows
  BY DEF BaseRows
<1>2. ApprovedRows(quote', BaseRows) = ApprovedRows(quote, BaseRows)
  <2>1. \A x \in DOMAIN BaseRows : x \in Lines
    BY BaseRowsAre
  <2> DEFINE D == {x \in DOMAIN BaseRows : quote.lines[x].approved}
             row(q, l) == [BaseRows[l] EXCEPT
                              !.qty = Else(q.lines[l].approvedQty, BaseRows[l].qty),
                              !.sum = PerQty(BaseRows[l].price, Else(q.lines[l].approvedQty, BaseRows[l].qty))]
  <2>2. D = {x \in DOMAIN BaseRows : quote'.lines[x].approved}
    BY <2>1 DEF SameApprovals
  <2>3. \A l \in D : row(quote', l) = row(quote, l)
    BY <2>1 DEF SameApprovals
  <2>4. ApprovedRows(quote, BaseRows) = [l \in D |-> row(quote, l)]
    BY DEF ApprovedRows
  <2>5. ApprovedRows(quote', BaseRows) = [l \in D |-> row(quote', l)]
    BY <2>2 DEF ApprovedRows
  <2> HIDE DEF D, row
  <2> QED
    BY <2>3, <2>4, <2>5
<1> DEFINE rows == ApprovedRows(quote, BaseRows)
<1>3. ApprovedSum = IF rows = <<>> THEN Nil ELSE Payable([mode |-> kps[Base].mode, rows |-> rows])
  BY DEF ApprovedSum
<1>4. ApprovedSum' = IF rows = <<>> THEN Nil ELSE Payable([mode |-> kps'[Base].mode, rows |-> rows])
  BY <1>1, <1>2 DEF ApprovedSum
<1>5. rows # <<>> => Base # Nil
  <2> SUFFICES ASSUME Base = Nil PROVE rows = <<>>
    OBVIOUS
  <2>1. BaseRows = <<>>
    BY DEF BaseRows
  <2>2. DOMAIN BaseRows = {}
    BY <2>1
  <2> QED
    BY <2>2 DEF ApprovedRows
<1> HIDE DEF rows
<1> QED
  BY <1>3, <1>4, <1>5

LEMMA EditsKeepSum ==
    ASSUME QuotesInv, kps' = kps, Approvals(quote') = Approvals(quote)
    PROVE  ApprovedSum' = ApprovedSum
<1>1. SameApprovals /\ quote'.base = quote.base
  <2> DEFINE of(q) == [l \in Lines |-> <<q.lines[l].approved, q.lines[l].approvedQty>>]
  <2>1. of(quote') = of(quote) /\ quote'.base = quote.base
    BY DEF Approvals
  <2>2. \A l \in Lines : of(quote')[l] = of(quote)[l]
    BY <2>1
  <2> QED
    BY <2>1, <2>2 DEF SameApprovals
<1>2. Base' = Base
  BY <1>1 DEF Base, Regular
<1> QED
  BY <1>1, <1>2, SameSum

LEMMA NewKpKeepsSum ==
    ASSUME QuotesInv, NEW kp \in Kp, AddKp(kp), quote.base # Nil
    PROVE  ApprovedSum' = ApprovedSum
<1>1. /\ quote' = quote /\ DOMAIN kps' = DOMAIN kps \cup {NextVersion}
      /\ \A v \in DOMAIN kps : kps'[v] = kps[v]
      /\ QuotesInv'
  BY AddKpKeeps
<1>2. Base = quote.base /\ Base \in DOMAIN kps
  BY BaseIs DEF Regular
<1>3. Base' = quote.base
  <2>1. quote.base \in Regular'
    BY <1>1, <1>2, BaseIs DEF Regular
  <2> QED
    BY <1>1, <2>1 DEF Base
<1>4. SameApprovals
  BY <1>1 DEF SameApprovals
<1> QED
  BY <1>1, <1>2, <1>3, <1>4, SameSum

LEMMA NothingApproved ==
    ASSUME NEW q, NEW table, \A l \in DOMAIN table : ~q.lines[l].approved
    PROVE  ApprovedRows(q, table) = <<>>
<1> DEFINE D == {l \in DOMAIN table : q.lines[l].approved}
           row(l) == [table[l] EXCEPT
                         !.qty = Else(q.lines[l].approvedQty, table[l].qty),
                         !.sum = PerQty(table[l].price, Else(q.lines[l].approvedQty, table[l].qty))]
<1>1. ApprovedRows(q, table) = [l \in D |-> row(l)]
  BY DEF ApprovedRows
<1>2. D = {}
  OBVIOUS
<1> HIDE DEF D, row
<1>3. [l \in D |-> row(l)] = [l \in {} |-> row(l)]
  BY <1>2
<1>4. [l \in {} |-> row(l)] = <<>>
  OBVIOUS
<1> QED
  BY <1>1, <1>3, <1>4

LEMMA DeletionKeepsSum ==
    ASSUME QuotesInv, NEW v \in DOMAIN kps, DeleteKp(v)
    PROVE  ApprovedSum' = ApprovedSum
<1>1. /\ DOMAIN kps' = DOMAIN kps \ {v}
      /\ \A w \in DOMAIN kps \ {v} : kps'[w] = kps[w]
      /\ quote'.lines = quote.lines
      /\ quote'.base = IF quote.base = v THEN Nil ELSE quote.base
      /\ QuotesInv'
  BY DeleteKpKeeps
<1>2. SameApprovals
  BY <1>1 DEF SameApprovals
<1>3. Regular' = Regular \ {v}
  BY <1>1 DEF Regular
<1>4. CASE v = Base
  \* Then nothing is approved, before and after.
  <2>1. \A l \in Lines : ~quote.lines[l].approved /\ ~quote'.lines[l].approved
    BY <1>1, <1>4 DEF DeleteKp
  <2>2. ApprovedRows(quote, BaseRows) = <<>>
    <3>1. \A l \in DOMAIN BaseRows : ~quote.lines[l].approved
      BY <2>1, BaseRowsAre
    <3> QED
      BY <3>1, NothingApproved
  <2>3. ApprovedRows(quote', BaseRows') = <<>>
    <3>1. DOMAIN BaseRows' \subseteq Lines
      <4>1. CASE Base' = Nil
        <5>1. BaseRows' = <<>>
          BY <4>1 DEF BaseRows
        <5> QED
          BY <5>1
      <4>2. CASE Base' # Nil
        <5>1. Base' \in Regular'
          <6>1. quote'.base = Nil \/ quote'.base \in Regular'
            BY <1>1 DEF QuotesInv, IsKps, Versions, Regular
          <6>2. Regular' \subseteq Nat /\ IsFiniteSet(Regular')
            BY <1>3, BaseIs, FS_Subset
          <6>3. Regular' # {} => Max(Regular') \in Regular'
            BY <6>2, MaxIs
          <6> QED
            BY <4>2, <6>1, <6>3 DEF Base
        <5>2. Base' \in DOMAIN kps /\ BaseRows' = kps[Base'].rows
          BY <1>1, <4>2, <5>1, <1>3 DEF BaseRows, Regular
        <5> QED
          BY <5>2, RowsOf
      <4> QED
        BY <4>1, <4>2
    <3>2. \A l \in DOMAIN BaseRows' : ~quote'.lines[l].approved
      BY <2>1, <3>1
    <3> QED
      BY <3>2, NothingApproved
  <2> QED
    BY <2>2, <2>3 DEF ApprovedSum
<1>5. CASE v # Base
  <2>1. Base' = Base
    <3>1. CASE quote.base # Nil
      <4>1. Base = quote.base /\ Base \in Regular /\ quote'.base = quote.base
        BY <1>1, <1>5, <3>1, BaseIs
      <4> QED
        BY <1>3, <1>5, <4>1 DEF Base
    <3>2. CASE quote.base = Nil /\ Regular = {}
      <4>1. quote'.base = Nil /\ Regular' = {}
        BY <1>1, <1>3, <3>2
      <4>2. Nil \notin Regular
        BY <3>2
      <4> QED
        BY <1>3, <3>2, <4>1, <4>2 DEF Base
    <3>3. CASE quote.base = Nil /\ Regular # {}
      <4>1. Base = Max(Regular) /\ Base \in Regular /\ quote'.base = Nil
        BY <1>1, <3>3, BaseIs
      <4>2. Regular \subseteq Nat /\ IsFiniteSet(Regular) /\ Nil \notin Regular
        BY BaseIs, PricesAssumption
      <4>3. Base \in Regular' /\ Regular' \subseteq Nat /\ IsFiniteSet(Regular')
        BY <1>3, <1>5, <4>1, <4>2, FS_Subset
      <4>4. /\ \A s \in Regular : s <= Base
            /\ Max(Regular') \in Regular' /\ \A s \in Regular' : s <= Max(Regular')
        BY <4>1, <4>2, <4>3, MaxIs
      <4>5. Max(Regular') = Base
        BY <1>3, <4>2, <4>3, <4>4
      <4>6. Base' = Max(Regular')
        BY <1>3, <4>1, <4>2, <4>3 DEF Base
      <4> QED
        BY <4>5, <4>6
    <3> QED
      BY <3>1, <3>2, <3>3
  <2>2. Base # Nil => kps'[Base] = kps[Base]
    BY <1>1, <1>5, BaseIs DEF Regular
  <2> QED
    BY <1>2, <2>1, <2>2, SameSum
<1> QED
  BY <1>4, <1>5

\* ApprovedSumStands: what the client approved keeps its price. The rows of a KP
\* never change, approvals are only the approvals' to change, and of the KPs the
\* base is either remembered or the latest, which only a new one replaces.
THEOREM ApprovedPricesStand == QuotesSpec => ApprovedSumStands
<1>1. ASSUME QuotesInv, QuotesNext
      PROVE  \/ ApprovedSum' = ApprovedSum
             \/ kps' = kps /\ Approvals(quote') # Approvals(quote)
             \/ quote.base = Nil /\ NextVersion \in DOMAIN kps'
  <2>1. CASE EditOffer \/ EditPurchase \/ EditSale \/ EditApproval
    BY <1>1, <2>1, EditsKeep, ApprovalsKeep, EditsKeepSum
  <2>2. ASSUME NEW kp \in Kp, AddKp(kp)
        PROVE  ApprovedSum' = ApprovedSum \/ (quote.base = Nil /\ NextVersion \in DOMAIN kps')
    BY <1>1, <2>2, AddKpKeeps, NewKpKeepsSum
  <2>3. CASE FormKp
    BY <1>1, <2>2, <2>3, FormKpIs
  <2>4. CASE FormFinal
    BY <1>1, <2>2, <2>4, FormFinalIs
  <2>5. ASSUME NEW v \in DOMAIN kps, DeleteKp(v) PROVE ApprovedSum' = ApprovedSum
    BY <1>1, <2>5, DeletionKeepsSum
  <2>6. CASE QuotesDone
    BY <1>1, <2>6, EditsKeepSum DEF QuotesDone, quoteVars
  <2> QED
    BY <1>1, <2>1, <2>3, <2>4, <2>5, <2>6 DEF QuotesNext
<1>2. ASSUME QuotesInv, QuotesNext, NEW v \in DOMAIN kps' \ DOMAIN kps, kps'[v].final
      PROVE  Payable(kps'[v]) = ApprovedSum
  <2>1. /\ FormFinal
        /\ kps'[v] = [final |-> TRUE, mode |-> kps[Base].mode,
                      rows |-> ApprovedRows(quote, BaseRows)]
    BY <1>2, NewKps
  <2>2. ApprovedRows(quote, BaseRows) # <<>>
    BY <2>1 DEF FormFinal
  <2> QED
    BY <2>1, <2>2 DEF ApprovedSum, Payable
<1>3. QuotesInv /\ [QuotesNext]_quoteVars =>
         [/\ \/ ApprovedSum' = ApprovedSum
             \/ kps' = kps /\ Approvals(quote') # Approvals(quote)
             \/ quote.base = Nil /\ NextVersion \in DOMAIN kps'
          /\ \A v \in DOMAIN kps' \ DOMAIN kps : kps'[v].final => Payable(kps'[v]) = ApprovedSum
         ]_quoteVars
  BY <1>1, <1>2
<1> QED
  BY <1>3, QuotesStayTyped, PTL DEF QuotesSpec, ApprovedSumStands

-----------------------------------------------------------------------------
(* Sums. The sum of a function is what it comes to on its domain; adds is a *)
(* function that has the sum of f over every part of D.                      *)

Adds(adds, f, D) ==
    /\ adds \in [SUBSET D -> Int] /\ adds[{}] = 0
    /\ \A s \in SUBSET D : \A x \in D \ s : adds[s \cup {x}] = f[x] + adds[s]

\* If some part of a finite set is bad, one is so that none of its parts is.
LEMMA SmallestPart ==
    ASSUME NEW D, IsFiniteSet(D), NEW Bad \in SUBSET SUBSET D, Bad # {}
    PROVE  \E s \in Bad : \A t \in Bad : t \subseteq s => t = s
<1>1. IsWellFoundedOn(StrictSubsetOrdering(D), SUBSET D)
  BY FS_StrictSubsetOrderingWellFounded, FS_FiniteSubsetsOfFinite
<1>2. PICK s \in Bad : \A t \in Bad : ~(<<t, s>> \in StrictSubsetOrdering(D))
  BY <1>1, WFMin
<1> QED
  BY <1>2 DEF StrictSubsetOrdering

LEMMA AddsExists ==
    ASSUME NEW D, IsFiniteSet(D), NEW f, \A x \in D : f[x] \in Int
    PROVE  \E adds : Adds(adds, f, D)
<1> DEFINE Has(s) == \E adds : Adds(adds, f, s)
           Bad == {s \in SUBSET D : ~Has(s)}
<1>1. SUFFICES ASSUME Bad # {} PROVE FALSE
  <2> QED
    BY <1>1
<1>0. Bad \in SUBSET SUBSET D
  OBVIOUS
<1>2. PICK s \in Bad : \A t \in Bad : t \subseteq s => t = s
  <2> HIDE DEF Bad
  <2> QED
    BY <1>0, <1>1, SmallestPart
<1>a. s \in SUBSET D /\ ~Has(s) /\ \A t \in SUBSET s : t # s => Has(t)
  BY <1>2
<1> HIDE DEF Has
<1>3. s # {}
  <2> SUFFICES ASSUME s = {} PROVE FALSE
    OBVIOUS
  <2> DEFINE adds == [t \in SUBSET {} |-> 0]
  <2>1. Adds(adds, f, {})
    BY DEF Adds
  <2> QED
    BY <2>1, <1>a DEF Has
<1>4. PICK a \in s : TRUE
  BY <1>3
<1> DEFINE r == s \ {a}
<1>5. r \in SUBSET D /\ r \subseteq s /\ r # s /\ s = r \cup {a} /\ a \notin r /\ f[a] \in Int
  BY <1>4
<1>6. PICK g : Adds(g, f, r)
  BY <1>a, <1>5 DEF Has
<1> HIDE DEF r
<1> DEFINE adds == [t \in SUBSET s |-> IF a \in t THEN f[a] + g[t \ {a}] ELSE g[t]]
<1>7. \A t \in SUBSET s : /\ t \ {a} \in SUBSET r /\ g[t \ {a}] \in Int
                          /\ a \notin t => t \in SUBSET r /\ g[t] \in Int
  BY <1>5, <1>6 DEF Adds
<1>8. adds \in [SUBSET s -> Int] /\ adds[{}] = 0
  BY <1>5, <1>6, <1>7 DEF Adds
<1>9. ASSUME NEW t \in SUBSET s, NEW x \in s \ t PROVE adds[t \cup {x}] = f[x] + adds[t]
  <2>1. t \cup {x} \in SUBSET s /\ f[x] \in Int
    BY <1>2
  <2>2. CASE x = a
    <3>1. (t \cup {x}) \ {a} = t
      BY <2>2, <1>9
    <3> QED
      BY <2>1, <2>2, <3>1
  <2>3. CASE x # a /\ a \in t
    <3>1. (t \cup {x}) \ {a} = (t \ {a}) \cup {x} /\ x \in r \ (t \ {a})
      BY <2>3, <1>5
    <3>2. g[(t \ {a}) \cup {x}] = f[x] + g[t \ {a}] /\ g[t \ {a}] \in Int
      BY <3>1, <1>6, <1>7 DEF Adds
    <3>3. adds[t \cup {x}] = f[a] + g[(t \ {a}) \cup {x}] /\ adds[t] = f[a] + g[t \ {a}]
      BY <2>1, <2>3, <3>1
    <3> HIDE DEF adds
    <3> QED
      BY <3>2, <3>3, <2>1, <1>5
  <2>4. CASE x # a /\ a \notin t
    <3>1. x \in r \ t /\ t \in SUBSET r /\ a \notin t \cup {x}
      BY <2>4, <1>5
    <3> QED
      BY <2>1, <2>4, <3>1, <1>6 DEF Adds
  <2> QED
    BY <2>2, <2>3, <2>4
<1>10. Adds(adds, f, s)
  BY <1>8, <1>9 DEF Adds
<1> QED
  BY <1>a, <1>10 DEF Has

\* The equation of the fold that SumFunction is.
IsFold(it, f, D) ==
    it = [s \in SUBSET D |-> IF s = {} THEN 0
                             ELSE LET x == CHOOSE x \in s : TRUE IN f[x] + it[s \ {x}]]

LEMMA SumIsFold ==
    ASSUME NEW f
    PROVE  SumFunction(f) = (CHOOSE it : IsFold(it, f, DOMAIN f))[DOMAIN f]
BY Zenon DEF SumFunction, SumFunctionOnSet, FoldFunctionOnSet, MapThenFoldSet, IsFold

LEMMA FoldAt ==
    ASSUME NEW D, NEW f, NEW it, IsFold(it, f, D), NEW s \in SUBSET D
    PROVE  it[s] = IF s = {} THEN 0 ELSE LET x == CHOOSE x \in s : TRUE IN f[x] + it[s \ {x}]
BY DEF IsFold

LEMMA SumIsAdds ==
    ASSUME NEW f, IsFiniteSet(DOMAIN f), NEW adds, Adds(adds, f, DOMAIN f)
    PROVE  SumFunction(f) = adds[DOMAIN f]
<1> DEFINE D == DOMAIN f
<1>1. \A s \in SUBSET D : adds[s] = IF s = {} THEN 0
                                    ELSE LET x == CHOOSE x \in s : TRUE IN f[x] + adds[s \ {x}]
  <2> TAKE s \in SUBSET D
  <2>1. CASE s = {}
    BY <2>1 DEF Adds
  <2>2. CASE s # {}
    <3> DEFINE x == CHOOSE x \in s : TRUE
    <3>1. x \in s
      BY <2>2
    <3> HIDE DEF x
    <3>2. s \ {x} \in SUBSET D /\ x \in D \ (s \ {x}) /\ (s \ {x}) \cup {x} = s
      BY <3>1
    <3>3. adds[s] = f[x] + adds[s \ {x}]
      BY <3>2 DEF Adds
    <3> QED
      BY <2>2, <3>3 DEF x
  <2> QED
    BY <2>1, <2>2
<1>2. IsFold(adds, f, D)
  <2>1. adds = [s \in SUBSET D |-> adds[s]]
    BY DEF Adds
  <2> QED
    BY <1>1, <2>1 DEF IsFold
<1> DEFINE it == CHOOSE it : IsFold(it, f, D)
<1>3. IsFold(it, f, D)
  BY <1>2
<1> HIDE DEF it
<1>4. it[D] = adds[D]
  <2> DEFINE Bad == {s \in SUBSET D : it[s] # adds[s]}
  <2>1. SUFFICES ASSUME Bad # {} PROVE FALSE
    OBVIOUS
  <2>0. Bad \in SUBSET SUBSET D
    OBVIOUS
  <2>2. PICK s \in Bad : \A t \in Bad : t \subseteq s => t = s
    <3> HIDE DEF Bad, D
    <3>1. IsFiniteSet(D)
      BY DEF D
    <3> QED
      BY <2>0, <2>1, <3>1, SmallestPart
  <2> DEFINE x == CHOOSE x \in s : TRUE
  <2>3. /\ it[s] = IF s = {} THEN 0 ELSE f[x] + it[s \ {x}]
        /\ adds[s] = IF s = {} THEN 0 ELSE f[x] + adds[s \ {x}]
    BY <1>1, <1>3, FoldAt
  <2>4. s # {} => x \in s
    OBVIOUS
  <2> HIDE DEF x
  <2>5. s # {} /\ x \in s
    BY <2>2, <2>3, <2>4
  <2>6. s \ {x} \in SUBSET D /\ s \ {x} \subseteq s /\ s \ {x} # s
    BY <2>5
  <2>7. it[s \ {x}] = adds[s \ {x}]
    BY <2>2, <2>6
  <2> QED
    BY <2>2, <2>3, <2>7
<1> QED
  BY <1>4, SumIsFold DEF it

\* A function of integers on a finite set has its sums, and those of its parts.
LEMMA SumsAre ==
    ASSUME NEW D, IsFiniteSet(D), NEW f \in [D -> Int]
    PROVE  \E adds : /\ Adds(adds, f, D)
                     /\ \A s \in SUBSET D : SumFunction([x \in s |-> f[x]]) = adds[s]
<1>1. PICK adds : Adds(adds, f, D)
  BY AddsExists
<1>2. ASSUME NEW s \in SUBSET D PROVE SumFunction([x \in s |-> f[x]]) = adds[s]
  <2> DEFINE g == [x \in s |-> f[x]]
             a == [t \in SUBSET s |-> adds[t]]
  <2>1. DOMAIN g = s /\ \A x \in s : g[x] = f[x]
    OBVIOUS
  <2>2. Adds(a, g, s)
    BY <1>1 DEF Adds
  <2>3. a[s] = adds[s]
    OBVIOUS
  <2>4. IsFiniteSet(s)
    BY FS_Subset
  <2> HIDE DEF g, a
  <2> QED
    BY <2>1, <2>2, <2>3, <2>4, SumIsAdds DEF g
<1> QED
  BY <1>1, <1>2

LEMMA SumIs ==
    ASSUME NEW D, IsFiniteSet(D), NEW f \in [D -> Int], NEW adds, Adds(adds, f, D)
    PROVE  SumFunction(f) = adds[D] /\ SumFunction(f) \in Int
<1>1. DOMAIN f = D
  OBVIOUS
<1>2. adds[D] \in Int
  BY DEF Adds
<1> QED
  BY <1>1, <1>2, SumIsAdds

LEMMA SumIsInt ==
    ASSUME NEW D, IsFiniteSet(D), NEW f \in [D -> Int]
    PROVE  SumFunction(f) \in Int
BY AddsExists, SumIs

\* Two parts that have nothing in common.
LEMMA AddsUnion ==
    ASSUME NEW D, IsFiniteSet(D), NEW f \in [D -> Int], NEW adds, Adds(adds, f, D),
           NEW s \in SUBSET D, NEW t \in SUBSET D, s \cap t = {}
    PROVE  adds[s \cup t] = adds[s] + adds[t]
<1> DEFINE Bad == {u \in SUBSET t : adds[s \cup u] # adds[s] + adds[u]}
<1>1. SUFFICES ASSUME Bad # {} PROVE FALSE
  <2> QED
    BY <1>1
<1>2. Bad \in SUBSET SUBSET t /\ IsFiniteSet(t)
  BY FS_Subset
<1>3. PICK u \in Bad : \A v \in Bad : v \subseteq u => v = u
  <2> HIDE DEF Bad
  <2> QED
    BY <1>1, <1>2, SmallestPart
<1>4. \A v \in SUBSET D : adds[v] \in Int
  BY DEF Adds
<1>5. u # {}
  <2> SUFFICES ASSUME u = {} PROVE FALSE
    OBVIOUS
  <2>1. s \cup u = s /\ adds[u] = 0
    BY DEF Adds
  <2> QED
    BY <2>1, <1>4
<1>6. PICK a \in u : TRUE
  BY <1>5
<1> DEFINE r == u \ {a}
<1>7. /\ r \in SUBSET t /\ r \subseteq u /\ r # u /\ a \in D \ r /\ a \in D \ (s \cup r)
      /\ r \cup {a} = u /\ (s \cup r) \cup {a} = s \cup u /\ r \in SUBSET D /\ s \cup r \in SUBSET D
  BY <1>6
<1>8. adds[s \cup r] = adds[s] + adds[r]
  BY <1>3, <1>7
<1> HIDE DEF r
<1>9. adds[u] = f[a] + adds[r] /\ adds[s \cup u] = f[a] + adds[s \cup r]
  BY <1>7 DEF Adds
<1>10. f[a] \in Int /\ adds[s] \in Int /\ adds[r] \in Int
  BY <1>4, <1>7
<1>11. adds[s \cup u] = adds[s] + adds[u]
  BY <1>8, <1>9, <1>10
<1> QED
  BY <1>3, <1>11

\* What is summed group by group makes up the whole sum.
LEMMA SumByGroup ==
    ASSUME NEW L, IsFiniteSet(L), NEW B, IsFiniteSet(B), NEW v \in [L -> Int],
           NEW group \in [L -> B], NEW h \in [B -> Int],
           \A b \in B : h[b] = SumFunction([l \in {x \in L : group[x] = b} |-> v[l]])
    PROVE  SumFunction(h) = SumFunction(v)
<1> DEFINE In(s) == {x \in L : group[x] \in s}
<1>1. PICK adds : /\ Adds(adds, v, L)
                  /\ \A s \in SUBSET L : SumFunction([x \in s |-> v[x]]) = adds[s]
  BY SumsAre
<1>2. PICK g : Adds(g, h, B)
  BY AddsExists
<1> DEFINE Bad == {s \in SUBSET B : g[s] # adds[In(s)]}
<1>3. Bad = {}
  <2>1. SUFFICES ASSUME Bad # {} PROVE FALSE
    <3> QED
      BY <2>1
  <2>2. Bad \in SUBSET SUBSET B
    OBVIOUS
  <2>3. PICK s \in Bad : \A t \in Bad : t \subseteq s => t = s
    <3> HIDE DEF Bad
    <3> QED
      BY <2>1, <2>2, SmallestPart
  <2>4. s # {}
    <3> SUFFICES ASSUME s = {} PROVE FALSE
      OBVIOUS
    <3>1. In(s) = {}
      OBVIOUS
    <3> QED
      BY <3>1, <1>1, <1>2, <2>3 DEF Adds
  <2>5. PICK a \in s : TRUE
    BY <2>4
  <2> DEFINE r == s \ {a}
             of == {x \in L : group[x] = a}
  <2>6. r \in SUBSET B /\ r \subseteq s /\ r # s /\ a \in B \ r /\ r \cup {a} = s
    BY <2>5
  <2>7. g[r] = adds[In(r)]
    BY <2>3, <2>6
  <2>8. g[s] = h[a] + g[r]
    BY <2>6, <1>2 DEF Adds
  <2>9. h[a] = adds[of]
    BY <2>6, <1>1
  <2>10. of \in SUBSET L /\ In(r) \in SUBSET L /\ of \cap In(r) = {} /\ of \cup In(r) = In(s)
    BY <2>6
  <2> HIDE DEF r, of, In, Bad
  <2>11. Adds(adds, v, L)
    BY <1>1
  <2>12. ASSUME NEW p \in SUBSET L, NEW q \in SUBSET L, p \cap q = {}
         PROVE  adds[p \cup q] = adds[p] + adds[q]
    BY <2>11, <2>12, AddsUnion
  <2>13. adds[of \cup In(r)] = adds[of] + adds[In(r)]
    BY <2>10, <2>12
  <2> QED
    BY <2>3, <2>7, <2>8, <2>9, <2>10, <2>13 DEF Bad
<1>4. In(B) = L
  OBVIOUS
<1>5. g[B] = adds[L]
  BY <1>3, <1>4
<1>6. SumFunction(h) = g[B] /\ SumFunction(v) = adds[L]
  BY <1>1, <1>2, SumIs
<1> QED
  BY <1>5, <1>6

LEMMA SumOfDifference ==
    ASSUME NEW D, IsFiniteSet(D), NEW f \in [D -> Int], NEW h \in [D -> Int], NEW d \in [D -> Int],
           \A x \in D : d[x] = f[x] - h[x]
    PROVE  SumFunction(d) = SumFunction(f) - SumFunction(h)
<1>1. PICK af : Adds(af, f, D)
  BY AddsExists
<1>2. PICK ah : Adds(ah, h, D)
  BY AddsExists
<1> DEFINE ad == [s \in SUBSET D |-> af[s] - ah[s]]
<1>3. \A s \in SUBSET D : af[s] \in Int /\ ah[s] \in Int
  BY <1>1, <1>2 DEF Adds
<1>4. ad \in [SUBSET D -> Int] /\ ad[{}] = 0
  BY <1>1, <1>2, <1>3 DEF Adds
<1>5. ASSUME NEW s \in SUBSET D, NEW x \in D \ s PROVE ad[s \cup {x}] = d[x] + ad[s]
  <2>1. af[s \cup {x}] = f[x] + af[s] /\ ah[s \cup {x}] = h[x] + ah[s]
    BY <1>1, <1>2 DEF Adds
  <2>2. /\ af[s] \in Int /\ ah[s] \in Int /\ f[x] \in Int /\ h[x] \in Int /\ s \cup {x} \in SUBSET D
        /\ d[x] = f[x] - h[x]
    BY <1>3
  <2>3. ad[s \cup {x}] = af[s \cup {x}] - ah[s \cup {x}] /\ ad[s] = af[s] - ah[s]
    BY <2>2
  <2> HIDE DEF ad
  <2> QED
    BY <2>1, <2>2, <2>3
<1>6. Adds(ad, d, D)
  BY <1>4, <1>5 DEF Adds
<1>7. ad[D] = af[D] - ah[D]
  OBVIOUS
<1> HIDE DEF ad
<1> QED
  BY <1>1, <1>2, <1>6, <1>7, SumIs

\* Of terms that are not negative none is above the sum.
LEMMA TermAtMostSum ==
    ASSUME NEW D, IsFiniteSet(D), NEW f \in [D -> Int], \A x \in D : f[x] >= 0, NEW a \in D
    PROVE  f[a] <= SumFunction(f)
<1>1. PICK adds : Adds(adds, f, D)
  BY AddsExists
<1> DEFINE Bad == {s \in SUBSET D : ~(adds[s] >= 0)}
<1>2. Bad = {}
  <2>1. SUFFICES ASSUME Bad # {} PROVE FALSE
    <3> QED
      BY <2>1
  <2>2. Bad \in SUBSET SUBSET D
    OBVIOUS
  <2>3. PICK s \in Bad : \A t \in Bad : t \subseteq s => t = s
    <3> HIDE DEF Bad
    <3> QED
      BY <2>1, <2>2, SmallestPart
  <2>4. s # {}
    <3> SUFFICES ASSUME s = {} PROVE FALSE
      OBVIOUS
    <3>1. adds[s] = 0
      BY <1>1 DEF Adds
    <3> QED
      BY <2>3, <3>1
  <2>5. PICK x \in s : TRUE
    BY <2>4
  <2> DEFINE r == s \ {x}
  <2>6. r \in SUBSET D /\ r \subseteq s /\ r # s /\ x \in D \ r /\ r \cup {x} = s
    BY <2>5
  <2>7. adds[r] >= 0
    BY <2>3, <2>6
  <2> HIDE DEF r
  <2>8. adds[s] = f[x] + adds[r] /\ adds[r] \in Int /\ f[x] \in Int /\ f[x] >= 0
    BY <2>6, <1>1 DEF Adds
  <2> QED
    BY <2>3, <2>7, <2>8
<1> DEFINE r == D \ {a}
<1>3. r \in SUBSET D /\ a \in D \ r /\ r \cup {a} = D
  OBVIOUS
<1>4. adds[r] >= 0
  BY <1>2
<1> HIDE DEF r
<1>5. adds[D] = f[a] + adds[r] /\ adds[r] \in Int /\ f[a] \in Int
  BY <1>3, <1>1 DEF Adds
<1> QED
  BY <1>1, <1>4, <1>5, SumIs

-----------------------------------------------------------------------------
(* The figures of the tabs                                                 *)

LEMMA FigureSums ==
    ASSUME NEW q \in Quote, NEW o \in Offers(q)
    PROVE  /\ Figures(q)[o].net \in Nat /\ Figures(q)[o].rrp \in Opt(Nat) /\ Figures(q)[o].qty \in Nat
           /\ Figures(q)[o].sumNet \in Nat
           /\ Figures(q)[o].sumGross \in Int
<1> DEFINE l == o[1]  b == o[2]  rate == RateOf(q, l, b)  x == q.offers[o]  markup == q.blocks[b].markup
           fig == Figures(q)[o]
<1>1. o = <<l, b>> /\ l \in Lines /\ b \in Blocks /\ x \in QuoteOffer
  BY OfferOf
<1>2. rate \in Opt(Rate) /\ x.price \in Opt(Price) /\ markup \in SupplierMarkup
  BY <1>1, RateIs DEF QuoteOffer, Quote, QuoteWith
<1>3. fig.net \in Nat /\ fig.qty \in Nat /\ fig.rrp \in Opt(Nat) /\ fig = Figure(q, l, b)
  BY FigureIs
<1>4. fig.gross \in Int
  <2>1. fig.gross = IF rate # Nil /\ x.price # Nil THEN CellGross(x.price, rate, markup, Vat) ELSE 0
    BY <1>1, <1>3 DEF Figure
  <2> HIDE DEF rate, x, fig, markup
  <2>2. ASSUME rate # Nil, x.price # Nil PROVE CellGross(x.price, rate, markup, Vat) \in Int
    <3>1. rate \in Exact /\ x.price \in Exact /\ Plus(markup) \in Exact /\ Plus(Vat) \in Exact
      BY <1>2, <2>2, Kinds, PlusIs, PricesAssumption DEF Opt, SupplierMarkup
    <3>2. Times(Times(Times(x.price, rate), Plus(markup)), Plus(Vat)) \in Exact
      BY <3>1, TimesIs
    <3> QED
      BY <3>2, RoundsAre DEF CellGross
  <2> QED
    BY <2>1, <2>2
<1>5. fig.sumNet = PerQty(fig.net, fig.qty) /\ fig.sumGross = PerQty(fig.gross, fig.qty)
  BY <1>3 DEF Figure
<1> HIDE DEF fig
<1>6. fig.sumGross \in Int
  BY <1>3, <1>4, <1>5, PerQtyIs
<1>7. fig.sumNet \in Nat
  <2>1. fig.net * fig.qty \in Nat /\ 1000 \in Nat \ {0}
    BY <1>3
  <2>2. RoundDiv(fig.net * fig.qty, 1000) \in Nat
    BY <2>1, RoundDivIs
  <2> QED
    BY <1>5, <2>2 DEF PerQty
<1> QED
  BY <1>3, <1>6, <1>7 DEF fig

LEMMA EffectiveUsable ==
    ASSUME NEW q \in Quote, NEW f, NEW l \in Lines, Effective(q, f, l) # Nil
    PROVE  /\ Effective(q, f, l) \in Blocks
           /\ Usable(q, f, l, Effective(q, f, l))
<1> DEFINE least == {b \in Compared(q, f, l) :
                        \A a \in Compared(q, f, l) : f[<<l, b>>].net <= f[<<l, a>>].net}
<1>1. Effective(q, f, l) \in Blocks
  BY EffectiveIs
<1>2. CASE q.lines[l].sel # Nil /\ Usable(q, f, l, q.lines[l].sel)
  BY <1>1, <1>2 DEF Effective
<1>3. CASE ~(q.lines[l].sel # Nil /\ Usable(q, f, l, q.lines[l].sel))
  <2>1. Effective(q, f, l) = Recommended(q, f, l)
    BY <1>3 DEF Effective
  <2>2. least # {} /\ Recommended(q, f, l) = Min(least)
    BY <2>1 DEF Recommended
  <2>3. least \subseteq Nat /\ \A b \in least : Usable(q, f, l, b)
    BY PricesAssumption DEF Compared
  <2> HIDE DEF least
  <2>4. Min(least) \in least
    BY <2>2, <2>3, MinIs
  <2> QED
    BY <1>1, <2>1, <2>2, <2>3, <2>4
<1> QED
  BY <1>2, <1>3

\* What is bought, of each supplier and of all: a value of each offer that is taken.
LEMMA BoughtMakesUp ==
    ASSUME NEW q \in Quote, NEW f, NEW v \in [Offers(q) -> Int]
    PROVE  SumFunction([b \in Blocks |-> SumFunction([l \in Bought(q, f, b) |-> v[<<l, b>>]])])
             = SumFunction([l \in DOMAIN Current(q, f) |-> v[<<l, Current(q, f)[l]>>]])
<1> DEFINE L == {l \in Active(q) : Effective(q, f, l) # Nil}
           group == [l \in L |-> Effective(q, f, l)]
           w == [l \in L |-> v[<<l, Effective(q, f, l)>>]]
           part(b) == {x \in L : group[x] = b}
           h == [b \in Blocks |-> SumFunction([l \in part(b) |-> w[l]])]
<1>1. L \subseteq Lines /\ IsFiniteSet(L) /\ IsFiniteSet(Blocks)
  <2>1. L \subseteq Lines
    BY DEF Active
  <2> QED
    BY <2>1, FS_Subset, PricesAssumption
<1>2. \A l \in L : /\ Effective(q, f, l) \in Blocks /\ Usable(q, f, l, Effective(q, f, l))
                   /\ <<l, Effective(q, f, l)>> \in Offers(q)
  BY <1>1, EffectiveUsable DEF Usable
<1>3. group \in [L -> Blocks] /\ w \in [L -> Int]
  BY <1>2
<1>4. DOMAIN Current(q, f) = L /\ Current(q, f) = group
  BY DEF Current, Picks
<1>5. [l \in DOMAIN Current(q, f) |-> v[<<l, Current(q, f)[l]>>]] = w
  BY <1>4
<1>6. ASSUME NEW b \in Blocks
      PROVE  /\ Bought(q, f, b) = part(b)
             /\ [l \in Bought(q, f, b) |-> v[<<l, b>>]] = [l \in part(b) |-> w[l]]
             /\ SumFunction([l \in part(b) |-> w[l]]) \in Int
  <2>1. b # Nil
    BY PricesAssumption
  <2>2. Bought(q, f, b) = part(b)
    BY <1>2, <2>1 DEF Bought, Covered
  <2>3. [l \in Bought(q, f, b) |-> v[<<l, b>>]] = [l \in part(b) |-> w[l]]
    BY <2>2
  <2>4. [l \in part(b) |-> w[l]] \in [part(b) -> Int] /\ IsFiniteSet(part(b))
    BY <1>1, <1>3, FS_Subset
  <2> HIDE DEF part, w
  <2> QED
    BY <2>2, <2>3, <2>4, SumIsInt
<1>7. h \in [Blocks -> Int]
  BY <1>6
<1>8. [b \in Blocks |-> SumFunction([l \in Bought(q, f, b) |-> v[<<l, b>>]])] = h
  BY <1>6
<1>9. \A b \in Blocks : h[b] = SumFunction([l \in {x \in L : group[x] = b} |-> w[l]])
  OBVIOUS
<1> HIDE DEF L, group, w, h, part
<1>10. SumFunction(h) = SumFunction(w)
  BY <1>1, <1>3, <1>7, <1>9, SumByGroup
<1> QED
  BY <1>5, <1>8, <1>10

LEMMA SuppliersMakeUpBought ==
    ASSUME NEW q \in Quote
    PROVE  LET f == Figures(q) IN
           /\ SumOver(Blocks, LAMBDA b : BoughtNet(q, f, b)) = NetOf(f, Current(q, f))
           /\ SumOver(Blocks, LAMBDA b : BoughtGross(q, f, b)) = GrossOf(f, Current(q, f))
<1> DEFINE f == Figures(q)
           nets == [o \in Offers(q) |-> f[o].sumNet]
           grosses == [o \in Offers(q) |-> f[o].sumGross]
<1>1. nets \in [Offers(q) -> Int] /\ grosses \in [Offers(q) -> Int]
  BY FigureSums
<1>2. ASSUME NEW b \in Blocks
      PROVE  /\ BoughtNet(q, f, b) = SumFunction([l \in Bought(q, f, b) |-> nets[<<l, b>>]])
             /\ BoughtGross(q, f, b) = SumFunction([l \in Bought(q, f, b) |-> grosses[<<l, b>>]])
  <2>1. \A l \in Bought(q, f, b) : <<l, b>> \in Offers(q)
    BY DEF Bought, Covered, Usable
  <2>2. /\ [l \in Bought(q, f, b) |-> f[<<l, b>>].sumNet] = [l \in Bought(q, f, b) |-> nets[<<l, b>>]]
        /\ [l \in Bought(q, f, b) |-> f[<<l, b>>].sumGross] = [l \in Bought(q, f, b) |-> grosses[<<l, b>>]]
    BY <2>1
  <2> HIDE DEF f, nets, grosses
  <2> QED
    BY <2>2 DEF BoughtNet, BoughtGross, SumOver
<1>3. LET picks == Current(q, f) IN
      /\ NetOf(f, picks) = SumFunction([l \in DOMAIN picks |-> nets[<<l, picks[l]>>]])
      /\ GrossOf(f, picks) = SumFunction([l \in DOMAIN picks |-> grosses[<<l, picks[l]>>]])
  <2> DEFINE picks == Current(q, f)
  <2>1. \A l \in DOMAIN picks : <<l, picks[l]>> \in Offers(q)
    <3>1. \A l \in DOMAIN picks : l \in Lines /\ Effective(q, f, l) # Nil /\ picks[l] = Effective(q, f, l)
      BY DEF Current, Picks, Active
    <3> HIDE DEF picks, f
    <3> QED
      BY <3>1, EffectiveIs
  <2> HIDE DEF picks
  <2>2. /\ [l \in DOMAIN picks |-> f[<<l, picks[l]>>].sumNet] = [l \in DOMAIN picks |-> nets[<<l, picks[l]>>]]
        /\ [l \in DOMAIN picks |-> f[<<l, picks[l]>>].sumGross] = [l \in DOMAIN picks |-> grosses[<<l, picks[l]>>]]
    BY <2>1
  <2> HIDE DEF f, nets, grosses
  <2>3. /\ NetOf(f, picks) = SumFunction([l \in DOMAIN picks |-> nets[<<l, picks[l]>>]])
        /\ GrossOf(f, picks) = SumFunction([l \in DOMAIN picks |-> grosses[<<l, picks[l]>>]])
    BY <2>2 DEF NetOf, GrossOf, SumOver
  <2> QED
    BY <2>3 DEF picks
<1>4. /\ [b \in Blocks |-> BoughtNet(q, f, b)]
            = [b \in Blocks |-> SumFunction([l \in Bought(q, f, b) |-> nets[<<l, b>>]])]
      /\ [b \in Blocks |-> BoughtGross(q, f, b)]
            = [b \in Blocks |-> SumFunction([l \in Bought(q, f, b) |-> grosses[<<l, b>>]])]
  BY <1>2
<1> HIDE DEF f, nets, grosses
<1>5. /\ SumOver(Blocks, LAMBDA b : BoughtNet(q, f, b)) = SumFunction([b \in Blocks |-> BoughtNet(q, f, b)])
      /\ SumOver(Blocks, LAMBDA b : BoughtGross(q, f, b)) = SumFunction([b \in Blocks |-> BoughtGross(q, f, b)])
  BY DEF SumOver
<1>6. ASSUME NEW v \in [Offers(q) -> Int]
      PROVE  SumFunction([b \in Blocks |-> SumFunction([l \in Bought(q, f, b) |-> v[<<l, b>>]])])
               = SumFunction([l \in DOMAIN Current(q, f) |-> v[<<l, Current(q, f)[l]>>]])
  BY BoughtMakesUp
<1>7. SumOver(Blocks, LAMBDA b : BoughtNet(q, f, b)) = NetOf(f, Current(q, f))
  <2>1. SumFunction([b \in Blocks |-> SumFunction([l \in Bought(q, f, b) |-> nets[<<l, b>>]])])
          = SumFunction([l \in DOMAIN Current(q, f) |-> nets[<<l, Current(q, f)[l]>>]])
    BY <1>1, <1>6
  <2> QED
    BY <1>3, <1>4, <1>5, <2>1
<1>8. SumOver(Blocks, LAMBDA b : BoughtGross(q, f, b)) = GrossOf(f, Current(q, f))
  <2>1. SumFunction([b \in Blocks |-> SumFunction([l \in Bought(q, f, b) |-> grosses[<<l, b>>]])])
          = SumFunction([l \in DOMAIN Current(q, f) |-> grosses[<<l, Current(q, f)[l]>>]])
    BY <1>1, <1>6
  <2> QED
    BY <1>3, <1>4, <1>5, <2>1
<1> QED
  BY <1>7, <1>8 DEF f

-----------------------------------------------------------------------------
(* What is earned                                                          *)

LEMMA SoldRows ==
    ASSUME NEW q \in Quote, NEW l \in Sold(q, Figures(q))
    PROVE  LET f == Figures(q)  b == Effective(q, f, l)  r == Row(q, f, l) IN
           /\ l \in Active(q) /\ l \in Lines /\ b # Nil /\ b \in Blocks /\ Usable(q, f, l, b)
           /\ r = RowFrom(q, f, l, b) /\ r.block = b
           /\ r.net \in Int /\ r.gross \in Int /\ r.qty \in Nat
           /\ r.costNet \in Int /\ r.costGross \in Int
           /\ Profit(q, r) \in Int
<1> DEFINE f == Figures(q)  b == Effective(q, f, l)  r == Row(q, f, l)  o == f[<<l, b>>]
<1>1. l \in Active(q) /\ l \in Lines /\ r.net # Nil
  BY DEF Sold, Active
<1>2. b # Nil /\ r.net \in Int /\ r.gross \in Int /\ r.qty \in Nat
  BY <1>1, RowIs
<1>3. b \in Blocks /\ Usable(q, f, l, b)
  <2> HIDE DEF f
  <2> QED
    BY <1>1, <1>2, EffectiveUsable
<1>4. o.sumNet \in Int /\ o.sumGross \in Int
  BY <1>3, FigureSums DEF Usable
<1>5. r = RowFrom(q, f, l, b)
  BY <1>2 DEF Row
<1>6. r.block = b /\ r.costNet = o.sumNet /\ r.costGross = o.sumGross
  <2> HIDE DEF f, r, b
  <2> QED
    BY <1>5 DEF RowFrom, o
<1> HIDE DEF o
<1>7. Profit(q, r) \in Int
  <2> HIDE DEF f, r, b
  <2>1. PerQty(r.net, r.qty) \in Int /\ PerQty(r.gross, r.qty) \in Int
    BY <1>2, PerQtyIs
  <2> QED
    BY <1>4, <1>6, <2>1 DEF Profit
<1> QED
  BY <1>1, <1>2, <1>3, <1>4, <1>5, <1>6, <1>7

LEMMA SoldAreFinite ==
    ASSUME NEW q, NEW f
    PROVE  Sold(q, f) \subseteq Lines /\ IsFiniteSet(Sold(q, f))
<1>1. Sold(q, f) \subseteq Lines
  BY DEF Sold, Active
<1> QED
  BY <1>1, FS_Subset, PricesAssumption

LEMMA SuppliersMakeUpProfit ==
    ASSUME NEW q \in Quote
    PROVE  LET f == Figures(q) IN
           SumOver(Blocks, LAMBDA b : ProfitFrom(q, f, b)) = ProfitNet(q, f)
<1> DEFINE f == Figures(q)  L == Sold(q, f)
           group == [l \in L |-> Row(q, f, l).block]
           v == [l \in L |-> Profit(q, Row(q, f, l))]
           part(b) == {x \in L : group[x] = b}
           h == [b \in Blocks |-> ProfitFrom(q, f, b)]
<1>1. IsFiniteSet(L) /\ IsFiniteSet(Blocks)
  BY SoldAreFinite, PricesAssumption
<1>2. group \in [L -> Blocks] /\ v \in [L -> Int]
  BY SoldRows
<1> HIDE DEF f
<1>3. ASSUME NEW b \in Blocks
      PROVE  /\ ProfitFrom(q, f, b) = SumFunction([l \in part(b) |-> v[l]])
             /\ SumFunction([l \in part(b) |-> v[l]]) \in Int
  <2>1. part(b) = {l \in Sold(q, f) : Row(q, f, l).block = b}
    OBVIOUS
  <2>2. [l \in part(b) |-> v[l]]
          = [l \in {l \in Sold(q, f) : Row(q, f, l).block = b} |-> Profit(q, Row(q, f, l))]
    BY <2>1
  <2>3. [l \in part(b) |-> v[l]] \in [part(b) -> Int] /\ IsFiniteSet(part(b))
    BY <1>1, <1>2, FS_Subset
  <2> HIDE DEF part, v
  <2> QED
    BY <2>2, <2>3, SumIsInt DEF ProfitFrom, SumOver
<1>4. h \in [Blocks -> Int] /\ \A b \in Blocks : h[b] = SumFunction([l \in {x \in L : group[x] = b} |-> v[l]])
  BY <1>3
<1>5. ProfitNet(q, f) = SumFunction(v)
  BY DEF ProfitNet, SumOver
<1>6. SumOver(Blocks, LAMBDA b : ProfitFrom(q, f, b)) = SumFunction(h)
  BY DEF SumOver
<1> HIDE DEF L, group, v, h, part
<1>7. SumFunction(h) = SumFunction(v)
  BY <1>1, <1>2, <1>4, SumByGroup
<1> QED
  BY <1>5, <1>6, <1>7 DEF f

\* Without VAT what is earned is what is asked less the cost.
LEMMA ProfitIsAboveCost ==
    ASSUME NEW q \in Quote, q.mode = "without_vat"
    PROVE  LET f == Figures(q) IN ProfitNet(q, f) = SaleTotals(q, f).net - CostNet(q, f)
<1> DEFINE f == Figures(q)  L == Sold(q, f)
           asked == [l \in L |-> PerQty(Row(q, f, l).net, Row(q, f, l).qty)]
           cost == [l \in L |-> Row(q, f, l).costNet]
           profit == [l \in L |-> Profit(q, Row(q, f, l))]
<1>1. IsFiniteSet(L)
  BY SoldAreFinite
<1>2. ASSUME NEW l \in L
      PROVE  LET r == Row(q, f, l) IN
             /\ PerQty(r.net, r.qty) \in Int /\ r.costNet \in Int /\ Profit(q, r) \in Int
             /\ Profit(q, r) = PerQty(r.net, r.qty) - r.costNet
  <2> DEFINE r == Row(q, f, l)
  <2>1. r.net \in Int /\ r.qty \in Nat /\ r.costNet \in Int /\ Profit(q, r) \in Int
    BY SoldRows
  <2> HIDE DEF r, f
  <2>2. PerQty(r.net, r.qty) \in Int
    BY <2>1, PerQtyIs
  <2>3. Profit(q, r) = PerQty(r.net, r.qty) - r.costNet
    BY DEF Profit
  <2> QED
    BY <2>1, <2>2, <2>3 DEF r
<1> HIDE DEF f
<1>3. asked \in [L -> Int] /\ cost \in [L -> Int] /\ profit \in [L -> Int]
  BY <1>2
<1>4. \A l \in L : profit[l] = asked[l] - cost[l]
  BY <1>2
<1>5. ProfitNet(q, f) = SumFunction(profit) /\ CostNet(q, f) = SumFunction(cost)
  BY DEF ProfitNet, CostNet, SumOver
<1>6. SaleTotals(q, f).net = SumFunction(asked)
  <2> DEFINE rows == KpRows(q, f, q.mode)
  <2>1. ~ShowsGross(q, q.mode)
    BY DEF ShowsGross
  <2>2. DOMAIN rows = L /\ \A l \in L : rows[l].sum = asked[l]
    BY <2>1 DEF KpRows
  <2> HIDE DEF rows
  <2>3. [l \in DOMAIN rows |-> rows[l].sum] = asked
    BY <2>2
  <2>4. RowsSum(rows) = SumFunction(asked)
    BY <2>3 DEF RowsSum, SumOver
  <2>5. SaleTotals(q, f).net = RowsSum(rows)
    BY DEF SaleTotals, KpTotals, rows
  <2> QED
    BY <2>4, <2>5
<1> HIDE DEF L, asked, cost, profit
<1>7. SumFunction(profit) = SumFunction(asked) - SumFunction(cost)
  BY <1>1, <1>3, <1>4, SumOfDifference
<1> QED
  BY <1>5, <1>6, <1>7 DEF f

LEMMA TotalsAddUp ==
    ASSUME NEW total \in Int, NEW mode \in Modes
    PROVE  LET t == KpTotals(total, mode) IN t.net + t.vat = t.gross
<1> DEFINE off == RoundDiv(total * Vat, 100)  in == RoundDiv(total * Vat, 100 + Vat)
<1>1. off \in Int /\ in \in Int
  <2>1. total * Vat \in Int /\ 100 \in Nat \ {0} /\ 100 + Vat \in Nat \ {0}
    BY PricesAssumption
  <2> QED
    BY <2>1, RoundDivIs
<1> HIDE DEF off, in
<1>2. /\ total + off = total + off /\ (total - in) + in = total /\ total + 0 = total
  BY <1>1
<1>3. CASE mode = "without_vat"
  BY <1>1, <1>3 DEF KpTotals, off
<1>4. CASE mode = "with_vat"
  BY <1>2, <1>4 DEF KpTotals, in
<1>5. CASE mode = "no_vat"
  BY <1>5 DEF KpTotals
<1> QED
  BY <1>3, <1>4, <1>5 DEF Modes

LEMMA SaleTotalsAddUp ==
    ASSUME NEW q \in Quote
    PROVE  LET sale == SaleTotals(q, Figures(q)) IN sale.net + sale.vat = sale.gross
<1> DEFINE rows == KpRows(q, Figures(q), q.mode)
<1>1. PICK D \in SUBSET Lines : rows \in [D -> KpRow]
  BY KpRowsAre DEF KpTables
<1> HIDE DEF rows
<1>2. DOMAIN rows = D /\ IsFiniteSet(D)
  BY <1>1, FS_Subset, PricesAssumption
<1>3. [l \in D |-> rows[l].sum] \in [D -> Int]
  BY <1>1 DEF KpRow
<1>4. RowsSum(rows) \in Int
  BY <1>2, <1>3, SumIsInt DEF RowsSum, SumOver
<1>5. q.mode \in Modes
  BY DEF Quote, QuoteWith
<1> QED
  BY <1>4, <1>5, TotalsAddUp DEF SaleTotals, rows

\* What would be earned if all were bought from a supplier that all is bought from.
LEMMA AllFromIsFrom ==
    ASSUME NEW q \in Quote, NEW b \in Blocks,
           Covered(q, Figures(q), b) = Bought(q, Figures(q), b)
    PROVE  ProfitIfAllFrom(q, Figures(q), b) = ProfitFrom(q, Figures(q), b)
<1> DEFINE f == Figures(q)
           all == {l \in Covered(q, f, b) : RowFrom(q, f, l, b).net # Nil}
           from == {l \in Sold(q, f) : Row(q, f, l).block = b}
<1>1. b # Nil
  BY PricesAssumption
<1>2. ASSUME NEW l \in all PROVE l \in from /\ RowFrom(q, f, l, b) = Row(q, f, l)
  <2>1. l \in Active(q) /\ Effective(q, f, l) = b
    BY DEF Covered, Bought
  <2> HIDE DEF f
  <2>2. Row(q, f, l) = RowFrom(q, f, l, b)
    BY <1>1, <2>1 DEF Row
  <2>3. RowFrom(q, f, l, b).block = b
    BY DEF RowFrom
  <2> QED
    BY <2>1, <2>2, <2>3 DEF Sold
<1>3. ASSUME NEW l \in from PROVE l \in all
  <2>1. l \in Active(q) /\ Usable(q, f, l, b) /\ Row(q, f, l) = RowFrom(q, f, l, b) /\ Row(q, f, l).net # Nil
    BY SoldRows DEF Sold
  <2> HIDE DEF f
  <2> QED
    BY <2>1 DEF Covered
<1> HIDE DEF f
<1>4. all = from
  BY <1>2, <1>3
<1>5. [l \in all |-> Profit(q, RowFrom(q, f, l, b))] = [l \in from |-> Profit(q, Row(q, f, l))]
  BY <1>2, <1>4
<1> QED
  BY <1>5 DEF ProfitIfAllFrom, ProfitFrom, SumOver, f

\* The block that is marked asks on no line for more than another.
LEMMA CheapestIsCheapest ==
    ASSUME NEW q \in Quote, CheapestBlock(q, Figures(q)) # Nil
    PROVE  LET f == Figures(q)  best == CheapestBlock(q, f) IN
           \A l \in InDelta(q, f, best) : \A b \in Compared(q, f, l) :
               f[<<l, best>>].sumNet <= f[<<l, b>>].sumNet
<1> DEFINE f == Figures(q)  best == CheapestBlock(q, f)
           fair == {b \in Blocks : InDelta(q, f, b) # {} /\ DeltaNet(q, f, b) <= 0}
           most == {b \in fair : \A a \in fair :
                       Cardinality(InDelta(q, f, a)) <= Cardinality(InDelta(q, f, b))}
<1>1. best \in Blocks /\ DeltaNet(q, f, best) <= 0
  <2>1. most # {} /\ best = Min(most)
    BY DEF CheapestBlock
  <2>2. most \subseteq Nat /\ \A b \in most : b \in Blocks /\ DeltaNet(q, f, b) <= 0
    BY PricesAssumption
  <2> HIDE DEF most, f, best
  <2>3. Min(most) \in most
    BY <2>1, <2>2, MinIs
  <2> QED
    BY <2>1, <2>2, <2>3
<1> DEFINE L == InDelta(q, f, best)
           over == [l \in L |-> f[<<l, best>>].sumNet - LeastSum(q, f, l)]
<1>2. L \subseteq Lines /\ IsFiniteSet(L)
  <2>1. L \subseteq Lines
    BY DEF InDelta, Covered, Active
  <2> QED
    BY <2>1, FS_Subset, PricesAssumption
<1>3. ASSUME NEW l \in L
      PROVE  /\ f[<<l, best>>].sumNet \in Nat /\ LeastSum(q, f, l) \in Nat
             /\ LeastSum(q, f, l) <= f[<<l, best>>].sumNet
             /\ \A b \in Compared(q, f, l) : LeastSum(q, f, l) <= f[<<l, b>>].sumNet
  <2> DEFINE sums == {f[<<l, b>>].sumNet : b \in Compared(q, f, l)}
  <2>1. best \in Compared(q, f, l)
    BY DEF InDelta
  <2>2. \A b \in Compared(q, f, l) : f[<<l, b>>].sumNet \in Nat
    BY FigureSums DEF Compared, Usable
  <2>3. sums \subseteq Nat /\ sums # {} /\ \A b \in Compared(q, f, l) : f[<<l, b>>].sumNet \in sums
    BY <2>1, <2>2
  <2>4. LeastSum(q, f, l) = Min(sums)
    BY DEF LeastSum
  <2> HIDE DEF sums, f, best
  <2>5. Min(sums) \in sums /\ \A s \in sums : Min(sums) <= s
    BY <2>3, MinIs
  <2> QED
    BY <2>1, <2>2, <2>3, <2>4, <2>5
<1>4. DeltaNet(q, f, best) = SumFunction(over)
  BY DEF DeltaNet, SumOver
<1> HIDE DEF f, best, L
<1>5. over \in [L -> Int] /\ \A l \in L : over[l] >= 0
  BY <1>3
<1>6. ASSUME NEW l \in L PROVE f[<<l, best>>].sumNet <= LeastSum(q, f, l)
  <2>1. over[l] = f[<<l, best>>].sumNet - LeastSum(q, f, l) /\ over[l] \in Int
    BY <1>3
  <2> HIDE DEF over
  <2>2. over[l] <= SumFunction(over) /\ SumFunction(over) \in Int
    BY <1>2, <1>5, TermAtMostSum, SumIsInt
  <2>3. over[l] <= 0
    BY <1>1, <1>4, <2>1, <2>2
  <2> QED
    BY <1>3, <2>1, <2>3
<1>7. ASSUME NEW l \in L, NEW b \in Compared(q, f, l)
      PROVE  f[<<l, best>>].sumNet <= f[<<l, b>>].sumNet
  <2>1. f[<<l, b>>].sumNet \in Nat
    BY FigureSums DEF Compared, Usable, f
  <2> QED
    BY <1>3, <1>6, <2>1
<1> QED
  BY <1>7 DEF f, best, L

LEMMA TypedAgree == quote \in Quote => FiguresAgree
<1> SUFFICES ASSUME quote \in Quote PROVE FiguresAgree
  OBVIOUS
<1> DEFINE f == Figures(quote)
<1>1. /\ SumOver(Blocks, LAMBDA b : BoughtNet(quote, f, b)) = NetOf(f, Current(quote, f))
      /\ SumOver(Blocks, LAMBDA b : BoughtGross(quote, f, b)) = GrossOf(f, Current(quote, f))
  BY SuppliersMakeUpBought
<1>2. SumOver(Blocks, LAMBDA b : ProfitFrom(quote, f, b)) = ProfitNet(quote, f)
  BY SuppliersMakeUpProfit
<1>3. quote.mode = "without_vat" => ProfitNet(quote, f) = SaleTotals(quote, f).net - CostNet(quote, f)
  BY ProfitIsAboveCost
<1>4. SaleTotals(quote, f).net + SaleTotals(quote, f).vat = SaleTotals(quote, f).gross
  BY SaleTotalsAddUp
<1>5. \A b \in Blocks : Covered(quote, f, b) = Bought(quote, f, b) =>
          ProfitIfAllFrom(quote, f, b) = ProfitFrom(quote, f, b)
  BY AllFromIsFrom
<1>6. CheapestBlock(quote, f) # Nil =>
          \A l \in InDelta(quote, f, CheapestBlock(quote, f)) : \A b \in Compared(quote, f, l) :
              f[<<l, CheapestBlock(quote, f)>>].sumNet <= f[<<l, b>>].sumNet
  BY CheapestIsCheapest
<1> HIDE DEF f
<1> QED
  BY <1>1, <1>2, <1>3, <1>4, <1>5, <1>6 DEF FiguresAgree, f

\* The figures of the tabs agree with one another, whatever was typed, chosen,
\* excluded and sent: what the suppliers come to makes up what is bought, what
\* is earned with each makes up what is earned, and the block that is marked as
\* the cheapest is it on every line.
THEOREM FiguresAlwaysAgree == QuotesSpec => []FiguresAgree
<1>1. QuotesInv => FiguresAgree
  BY TypedAgree DEF QuotesInv
<1> QED
  BY <1>1, QuotesStayTyped, PTL

-----------------------------------------------------------------------------
(* A typed price. What is computed of it differs from it by the rounding of *)
(* the price without VAT, to a hundredth of a kopeck, and of the one in the *)
(* currency of the list, to a ten-thousandth; the rate and the markup make   *)
(* the second larger.                                                        *)

\* The fraction x is n / d.
Ratio(x, n, d) == x \in Exact /\ n \in Int /\ d \in Nat \ {0} /\ x[1] * d = n * x[2]

LEMMA RatioOfFraction ==
    ASSUME NEW n \in Int, NEW d \in Nat \ {0}
    PROVE  Ratio(Fraction(n, d), n, d)
BY FractionIs DEF Ratio

LEMMA RatioOfPlus ==
    ASSUME NEW v \in Int
    PROVE  Ratio(Plus(v), 100 + v, 100)
<1>1. 100 + v \in Int /\ 100 \in Nat \ {0}
  OBVIOUS
<1> QED
  BY <1>1, RatioOfFraction DEF Plus

LEMMA RatioOfTimes ==
    ASSUME NEW x, NEW y, NEW a, NEW b, NEW c, NEW e, Ratio(x, a, b), Ratio(y, c, e)
    PROVE  Ratio(Times(x, y), a * c, b * e)
<1> DEFINE t == Times(x, y)  x1 == x[1]  x2 == x[2]  y1 == y[1]  y2 == y[2]  t1 == t[1]  t2 == t[2]
<1>1. /\ x1 \in Int /\ x2 \in Nat \ {0} /\ y1 \in Int /\ y2 \in Nat \ {0}
      /\ a \in Int /\ b \in Nat \ {0} /\ c \in Int /\ e \in Nat \ {0}
      /\ x1 * b = a * x2 /\ y1 * e = c * y2
  BY DEF Ratio, Exact
<1>2. t \in Exact /\ t1 \in Int /\ t2 \in Nat \ {0} /\ t1 * (x2 * y2) = (x1 * y1) * t2
  BY TimesIs DEF Ratio, Exact
<1> HIDE DEF t, x1, x2, y1, y2, t1, t2
<1>3. (x1 * y1) * (b * e) = (a * c) * (x2 * y2)
  <2>1. (x1 * y1) * (b * e) = (x1 * b) * (y1 * e) /\ (a * c) * (x2 * y2) = (a * x2) * (c * y2)
    BY <1>1
  <2> QED
    BY <1>1, <2>1
<1> DEFINE xy == x2 * y2  be == b * e  ac == a * c  xx == x1 * y1
<1>4. xy \in Nat \ {0} /\ be \in Nat \ {0} /\ ac \in Int /\ xx \in Int
  BY <1>1
<1>5. t1 * xy = xx * t2 /\ xx * be = ac * xy
  BY <1>2, <1>3
<1> HIDE DEF xy, be, ac, xx
<1>6. (t1 * be) * xy = (ac * t2) * xy
  <2>1. (t1 * be) * xy = (t1 * xy) * be /\ (xx * t2) * be = (xx * be) * t2 /\ (ac * xy) * t2 = (ac * t2) * xy
    BY <1>2, <1>4
  <2> QED
    BY <1>5, <2>1
<1>7. t1 * be = ac * t2
  <2>1. t1 * be \in Int /\ ac * t2 \in Int
    BY <1>2, <1>4
  <2> QED
    BY <1>4, <1>6, <2>1
<1> QED
  BY <1>2, <1>4, <1>7 DEF Ratio, ac, be, t1, t2, t

\* The other way round; what is divided by is above zero.
LEMMA RatioOfOver ==
    ASSUME NEW x, NEW y, NEW a, NEW b, NEW c, NEW e, Ratio(x, a, b), Ratio(y, c, e), y \in Rate
    PROVE  c > 0 /\ Ratio(Over(x, y), a * e, b * c)
<1> DEFINE z == <<y[2], y[1]>>
<1>1. y[1] \in Nat \ {0} /\ y[2] \in Nat \ {0} /\ c \in Int /\ e \in Nat \ {0} /\ y[1] * e = c * y[2]
  BY DEF Ratio, Rate
<1>2. c > 0
  <2>1. c * y[2] > 0
    BY <1>1
  <2>2. ASSUME c <= 0 PROVE FALSE
    <3>1. c * y[2] <= 0
      BY <1>1, <2>2
    <3> QED
      BY <1>1, <2>1, <3>1
  <2> QED
    BY <1>1, <2>2
<1>3. Ratio(z, e, c)
  <2>1. y[2] * c = e * y[1] /\ c \in Nat \ {0}
    BY <1>1, <1>2
  <2> QED
    BY <1>1, <2>1 DEF Ratio, Exact
<1>4. Over(x, y) = Times(x, z)
  BY DEF Over, Times
<1> HIDE DEF z
<1> QED
  BY <1>2, <1>3, <1>4, RatioOfTimes

\* The rounding of k times n / d is off by at most a half.
LEMMA RoundNear ==
    ASSUME NEW x, NEW n, NEW d, Ratio(x, n, d), NEW k \in Nat \ {0}
    PROVE  LET r == RoundDiv(k * x[1], x[2]) IN
           /\ r \in Int
           /\ 2 * (r * d - k * n) <= d /\ 2 * (k * n - r * d) <= d
<1> DEFINE x1 == x[1]  x2 == x[2]  m == k * x1  num == 2 * Size(m) + x2  den == 2 * x2
           size == num \div den  r == RoundDiv(m, x2)
<1>1. x1 \in Int /\ x2 \in Nat \ {0} /\ n \in Int /\ d \in Nat \ {0} /\ x1 * d = n * x2
  BY DEF Ratio, Exact
<1>2. /\ m \in Int /\ m = k * x1 /\ Size(m) \in Nat /\ Size(m) = (IF m < 0 THEN -m ELSE m)
      /\ num \in Nat /\ num = 2 * Size(m) + x2 /\ den \in Nat \ {0} /\ den = 2 * x2
  BY <1>1 DEF Size
<1>3. r = IF m < 0 THEN -size ELSE size
  BY DEF RoundDiv
<1> HIDE DEF x1, x2, m, num, den
<1>4. /\ num \div den \in Nat /\ num % den \in Nat /\ num % den < den
      /\ num = den * (num \div den) + (num % den)
  BY <1>2, DivMod
<1>5. PICK rest \in Nat : rest < den /\ num = den * size + rest /\ size \in Nat
  BY <1>4
<1> HIDE DEF size, r
<1>6. /\ size * x2 \in Nat /\ (-size) * x2 = -(size * x2) /\ den * size = 2 * (size * x2)
  BY <1>1, <1>2, <1>5
<1>7. r \in Int /\ 2 * (r * x2 - m) <= x2 /\ 2 * (m - r * x2) <= x2
  <2> DEFINE sx == size * x2
  <2>1. sx \in Nat /\ r * x2 = (IF m < 0 THEN -sx ELSE sx) /\ den * size = 2 * sx
    BY <1>3, <1>6
  <2> HIDE DEF sx
  <2>2. 2 * Size(m) + x2 = 2 * sx + rest /\ rest < 2 * x2
    BY <1>2, <1>5, <2>1
  <2> QED
    BY <1>1, <1>2, <1>3, <1>5, <2>1, <2>2
<1> DEFINE off == r * d - k * n
<1>8. off \in Int /\ off * x2 = (r * x2 - m) * d
  <2>1. off * x2 = (r * x2) * d - k * (n * x2)
    BY <1>1, <1>7
  <2>2. k * (n * x2) = m * d
    BY <1>1, <1>2
  <2>3. (r * x2 - m) * d = (r * x2) * d - m * d
    BY <1>1, <1>2, <1>7
  <2> QED
    BY <1>1, <1>7, <2>1, <2>2, <2>3
<1> DEFINE near == r * x2 - m
<1>9. near \in Int /\ 2 * near <= x2 /\ -(2 * near) <= x2 /\ off * x2 = near * d
  BY <1>1, <1>2, <1>7, <1>8
<1> HIDE DEF off, near
<1>10. (2 * off) * x2 <= d * x2 /\ (-(2 * off)) * x2 <= d * x2
  <2>1. (2 * near) * d <= x2 * d /\ (-(2 * near)) * d <= x2 * d
    BY <1>1, <1>9
  <2>2. (2 * off) * x2 = (2 * near) * d /\ (-(2 * off)) * x2 = (-(2 * near)) * d
    BY <1>1, <1>8, <1>9
  <2> QED
    BY <1>1, <2>1, <2>2
<1>11. 2 * off <= d /\ -(2 * off) <= d
  <2>1. \A u \in Int : u * x2 <= d * x2 => u <= d
    BY <1>1
  <2>2. 2 * off \in Int /\ -(2 * off) \in Int
    BY <1>8
  <2> QED
    BY <1>10, <2>1, <2>2
<1> QED
  BY <1>1, <1>7, <1>8, <1>11 DEF off, r, m, x1, x2

\* Rounding finds the whole number that is less than a half away.
LEMMA RoundTo ==
    ASSUME NEW x, NEW n, NEW d, Ratio(x, n, d), NEW p \in Int,
           2 * (n - p * d) < d, 2 * (p * d - n) < d
    PROVE  Round2(x) = p
<1> DEFINE r == Round2(x)
<1>1. x[1] \in Int /\ n \in Int /\ d \in Nat \ {0}
  BY DEF Ratio, Exact
<1>2. r = RoundDiv(1 * x[1], x[2])
  BY <1>1 DEF Round2
<1>3. r \in Int /\ 2 * (r * d - 1 * n) <= d /\ 2 * (1 * n - r * d) <= d
  <2>1. 1 \in Nat \ {0}
    OBVIOUS
  <2> HIDE DEF r
  <2> QED
    BY <1>2, <2>1, RoundNear
<1> HIDE DEF r
<1>4. (r - p) * d = r * d - p * d
  BY <1>1, <1>3
<1>5. (r - p) * d < d /\ -d < (r - p) * d
  <2> DEFINE rd == r * d  pd == p * d
  <2>1. rd \in Int /\ pd \in Int
    BY <1>1, <1>3
  <2>2. 2 * (rd - n) <= d /\ 2 * (n - rd) <= d /\ 2 * (n - pd) < d /\ 2 * (pd - n) < d
    BY <1>1, <1>3
  <2> HIDE DEF rd, pd
  <2>3. rd - pd < d /\ -d < rd - pd
    BY <1>1, <2>1, <2>2
  <2> QED
    BY <1>4, <2>3 DEF rd, pd
<1>6. \A u \in Int : u * d < d /\ -d < u * d => u = 0
  <2> SUFFICES ASSUME NEW u \in Int, u * d < d, -d < u * d PROVE u = 0
    OBVIOUS
  <2>1. ASSUME u >= 1 PROVE FALSE
    <3>1. u * d >= d
      BY <1>1, <2>1
    <3> QED
      BY <1>1, <3>1
  <2>2. ASSUME u <= -1 PROVE FALSE
    <3>1. u * d <= -d
      BY <1>1, <2>2
    <3> QED
      BY <1>1, <3>1
  <2> QED
    BY <2>1, <2>2
<1>7. r - p = 0
  BY <1>3, <1>5, <1>6
<1> QED
  BY <1>3, <1>7 DEF r

\* What of a typed price is kept without VAT, in hundredths of a kopeck.
LEMMA NormalizedNear ==
    ASSUME NEW p \in Nat, NEW withVat \in BOOLEAN
    PROVE  \E n \in Int : /\ Ratio(NormalizedPrice(Kop(p), withVat, Vat), n, 100)
                          /\ withVat => /\ 2 * (n * (100 + Vat) - 10000 * p) <= 100 + Vat
                                        /\ 2 * (10000 * p - n * (100 + Vat)) <= 100 + Vat
                          /\ ~withVat => n = 100 * p
<1> DEFINE u == IF withVat THEN Over(Kop(p), Plus(Vat)) ELSE Kop(p)
           n == RoundDiv(100 * u[1], u[2])
           V == 100 + Vat
           Off(k) == /\ 2 * (k * (100 + Vat) - 10000 * p) <= 100 + Vat
                     /\ 2 * (10000 * p - k * (100 + Vat)) <= 100 + Vat
           Near(k) == /\ Ratio(NormalizedPrice(Kop(p), withVat, Vat), k, 100)
                      /\ withVat => Off(k)
                      /\ ~withVat => k = 100 * p
<1>0. SUFFICES \E k \in Int : Near(k)
  OBVIOUS
<1>1. Vat \in Nat /\ V \in Nat \ {0} /\ 100 \in Nat \ {0}
  BY PricesAssumption
<1>2. Ratio(Kop(p), p, 1)
  BY KopIs DEF Ratio
<1>3. withVat => Ratio(u, p * 100, 1 * V)
  <2>1. Ratio(Plus(Vat), V, 100) /\ Plus(Vat) \in Rate
    BY <1>1, RatioOfPlus, PlusIs
  <2>2. Ratio(Over(Kop(p), Plus(Vat)), p * 100, 1 * V)
    <3> HIDE DEF V
    <3> QED
      BY <1>2, <2>1, RatioOfOver
  <2> QED
    BY <2>2
<1>4. ~withVat => Ratio(u, p, 1)
  BY <1>2
<1>5. NormalizedPrice(Kop(p), withVat, Vat) = Fraction(n, 100)
  BY DEF NormalizedPrice, Round4
<1> HIDE DEF u, V
<1>6. CASE withVat
  <2>1. n \in Int /\ 2 * (n * (1 * V) - 100 * (p * 100)) <= 1 * V
                  /\ 2 * (100 * (p * 100) - n * (1 * V)) <= 1 * V
    BY <1>1, <1>3, <1>6, RoundNear
  <2> HIDE DEF n
  <2>2. 1 * V = V /\ 100 * (p * 100) = 10000 * p
    BY <1>1
  <2>3. 2 * (n * V - 10000 * p) <= V /\ 2 * (10000 * p - n * V) <= V
    BY <2>1, <2>2
  <2>4. Ratio(NormalizedPrice(Kop(p), withVat, Vat), n, 100)
    BY <1>1, <1>5, <2>1, RatioOfFraction
  <2>5. Off(n)
    BY <2>3 DEF V
  <2> HIDE DEF Off
  <2>6. Near(n)
    BY <1>6, <2>4, <2>5
  <2> HIDE DEF Near
  <2> QED
    BY <2>1, <2>6
<1>7. CASE ~withVat
  <2>1. n \in Int /\ 2 * (n * 1 - 100 * p) <= 1 /\ 2 * (100 * p - n * 1) <= 1
    BY <1>1, <1>4, <1>7, RoundNear
  <2> HIDE DEF n
  <2>2. n = 100 * p
    BY <2>1
  <2>3. Ratio(NormalizedPrice(Kop(p), withVat, Vat), n, 100)
    BY <1>1, <1>5, <2>1, RatioOfFraction
  <2>4. Near(n)
    BY <1>7, <2>2, <2>3
  <2> HIDE DEF Near
  <2> QED
    BY <2>1, <2>4
<1> QED
  BY <1>6, <1>7

\* Of a rate and a markup: one in the last digit of a price in the list is worth
\* so little in hryvnias that it rounds away, with the VAT on it.
InReach(rate, markup) ==
    (100 + Vat) * (10000 * rate[2] + rate[1] * (100 + markup)) < 100000000 * rate[2]

LEMMA Spread ==
    ASSUME NEW v \in Nat, v >= 100, NEW a \in Nat, NEW d \in Nat \ {0},
           v * (10000 * d + a) < 100000000 * d,
           NEW p \in Nat, NEW n \in Int, NEW s \in Int,
           2 * (s * a - 10000 * (n * d)) <= a, 2 * (10000 * (n * d) - s * a) <= a
    PROVE  /\ n = 100 * p => /\ 2 * (s * a - p * (1000000 * d)) < 1000000 * d
                             /\ 2 * (p * (1000000 * d) - s * a) < 1000000 * d
           /\ /\ 2 * (n * v - 10000 * p) <= v
              /\ 2 * (10000 * p - n * v) <= v
              => /\ 2 * ((s * a) * v - p * (100000000 * d)) < 100000000 * d
                 /\ 2 * (p * (100000000 * d) - (s * a) * v) < 100000000 * d
<1> DEFINE e == s * a - 10000 * (n * d)  g == n * v - 10000 * p
<1>1. /\ e \in Int /\ 2 * e <= a /\ -(2 * e) <= a /\ s * a = e + 10000 * (n * d)
      /\ g \in Int /\ n * v = g + 10000 * p
  OBVIOUS
<1>2. ASSUME n = 100 * p
      PROVE  /\ 2 * (s * a - p * (1000000 * d)) < 1000000 * d
             /\ 2 * (p * (1000000 * d) - s * a) < 1000000 * d
  <2>1. 10000 * (n * d) = p * (1000000 * d)
    BY <1>2
  <2>2. a < 1000000 * d
    <3> DEFINE w == 10000 * d + a
    <3>1. w \in Nat /\ v * w >= 100 * w
      OBVIOUS
    <3>2. 100 * w < 100000000 * d
      BY <3>1
    <3> QED
      BY <3>2
  <2>3. s * a - p * (1000000 * d) = e
    BY <2>1
  <2> HIDE DEF e
  <2>4. p * (1000000 * d) \in Int /\ s * a \in Int
    OBVIOUS
  <2>5. p * (1000000 * d) - s * a = -e
    BY <1>1, <2>3, <2>4
  <2> QED
    BY <1>1, <2>2, <2>3, <2>5
<1>3. ASSUME 2 * g <= v, -(2 * g) <= v
      PROVE  /\ 2 * ((s * a) * v - p * (100000000 * d)) < 100000000 * d
             /\ 2 * (p * (100000000 * d) - (s * a) * v) < 100000000 * d
  <2> DEFINE ev == e * v  dg == d * g  dp == d * p  dv == d * v  av == a * v
  <2>1. (s * a) * v = ev + 10000 * ((n * d) * v)
    BY <1>1
  <2>2. (n * d) * v = d * (n * v) /\ d * (n * v) = dg + 10000 * dp
    BY <1>1
  <2>3. p * (100000000 * d) = 100000000 * dp
    OBVIOUS
  <2>4. ev \in Int /\ dg \in Int /\ dp \in Int /\ dv \in Int /\ av \in Int
    BY <1>1
  <2>5. 2 * ev <= av /\ -(2 * ev) <= av
    <3>1. (2 * e) * v <= a * v /\ (-(2 * e)) * v <= a * v
      BY <1>1
    <3>2. (2 * e) * v = 2 * ev /\ (-(2 * e)) * v = -(2 * ev)
      BY <1>1
    <3> QED
      BY <3>1, <3>2
  <2>6. 2 * dg <= dv /\ -(2 * dg) <= dv
    <3>1. d * (2 * g) <= d * v /\ d * (-(2 * g)) <= d * v
      BY <1>1, <1>3
    <3>2. d * (2 * g) = 2 * dg /\ d * (-(2 * g)) = -(2 * dg)
      BY <1>1
    <3> QED
      BY <3>1, <3>2
  <2>7. 10000 * dv + av < 100000000 * d
    <3>1. v * (10000 * d + a) = 10000 * dv + av
      OBVIOUS
    <3> QED
      BY <3>1
  <2> HIDE DEF ev, dg, dp, dv, av, e, g
  <2>8. (s * a) * v - p * (100000000 * d) = ev + 10000 * dg
    BY <2>1, <2>2, <2>3, <2>4
  <2>9. p * (100000000 * d) - (s * a) * v = -(ev + 10000 * dg)
    BY <2>1, <2>2, <2>3, <2>4
  <2> QED
    BY <2>4, <2>5, <2>6, <2>7, <2>8, <2>9
<1>4. 10000 * p - n * v = -g
  OBVIOUS
<1> QED
  BY <1>1, <1>2, <1>3, <1>4

\* The cell of an offer shows what was typed into it.
LEMMA CellShowsTyped ==
    ASSUME NEW p \in Nat, NEW withVat \in BOOLEAN, NEW rate \in Rate, NEW markup \in SupplierMarkup,
           InReach(rate, markup)
    PROVE  LET price == PriceFromCell(p, withVat, Vat, rate, markup) IN
           IF withVat THEN CellGross(price, rate, markup, Vat) = p
           ELSE CellNet(price, rate, markup) = p
<1> DEFINE normal == NormalizedPrice(Kop(p), withVat, Vat)
           inList == Over(Over(normal, rate), Plus(markup))
           s == RoundDiv(10000 * inList[1], inList[2])
           price == PriceFromCell(p, withVat, Vat, rate, markup)
           V == 100 + Vat  M == 100 + markup  c == rate[1]  d == rate[2]  a == c * M
           cell == Times(Times(price, rate), Plus(markup))
<1>1. /\ Vat \in Nat /\ V \in Nat /\ V >= 100 /\ M \in Nat \ {0} /\ markup \in Int /\ markup > -100
      /\ c \in Nat \ {0} /\ d \in Nat \ {0} /\ a \in Nat \ {0}
      /\ V * (10000 * d + a) < 100000000 * d
  BY PricesAssumption DEF SupplierMarkup, Rate, InReach
<1>2. PICK n \in Int : /\ Ratio(normal, n, 100)
                       /\ withVat => /\ 2 * (n * (100 + Vat) - 10000 * p) <= 100 + Vat
                                     /\ 2 * (10000 * p - n * (100 + Vat)) <= 100 + Vat
                       /\ ~withVat => n = 100 * p
  BY NormalizedNear
<1>3. /\ Ratio(rate, c, d) /\ rate \in Rate
      /\ Ratio(Plus(markup), M, 100) /\ Plus(markup) \in Rate
      /\ Ratio(Plus(Vat), V, 100)
  <2>1. Ratio(rate, c, d)
    BY <1>1, Kinds DEF Ratio
  <2>2. Plus(markup) \in Rate /\ Ratio(Plus(markup), 100 + markup, 100) /\ Ratio(Plus(Vat), 100 + Vat, 100)
    BY <1>1, PlusIs, RatioOfPlus
  <2> QED
    BY <2>1, <2>2
<1> HIDE DEF V, M, c, d, normal
<1>4. Ratio(inList, (n * d) * 100, (100 * c) * M)
  <2>1. Ratio(Over(normal, rate), n * d, 100 * c)
    BY <1>2, <1>3, RatioOfOver
  <2> QED
    BY <1>3, <2>1, RatioOfOver
<1>5. price = Fraction(s, 10000)
  BY DEF PriceFromCell, Round6, normal
<1> HIDE DEF inList, price
<1>6. /\ s \in Int
      /\ 2 * (s * ((100 * c) * M) - 10000 * ((n * d) * 100)) <= (100 * c) * M
      /\ 2 * (10000 * ((n * d) * 100) - s * ((100 * c) * M)) <= (100 * c) * M
  <2>1. 10000 \in Nat \ {0}
    OBVIOUS
  <2> QED
    BY <1>4, <2>1, RoundNear
<1> HIDE DEF s
<1>7. 2 * (s * a - 10000 * (n * d)) <= a /\ 2 * (10000 * (n * d) - s * a) <= a
  <2> DEFINE sa == s * a  nd == n * d
  <2>1. sa \in Int /\ nd \in Int
    BY <1>1, <1>6
  <2>2. (100 * c) * M = 100 * a /\ s * ((100 * c) * M) = 100 * sa
    BY <1>1, <1>6
  <2> HIDE DEF sa, nd, a
  <2>3. 2 * (100 * sa - 10000 * (nd * 100)) <= 100 * a /\ 2 * (10000 * (nd * 100) - 100 * sa) <= 100 * a
    BY <1>6, <2>2 DEF nd
  <2>4. 2 * (sa - 10000 * nd) <= a /\ 2 * (10000 * nd - sa) <= a
    BY <1>1, <2>1, <2>3
  <2> QED
    BY <2>4 DEF sa, nd
<1>8. Ratio(cell, s * a, 1000000 * d) /\ Ratio(Times(cell, Plus(Vat)), (s * a) * V, 100000000 * d)
  <2>1. Ratio(price, s, 10000)
    <3>1. 10000 \in Nat \ {0}
      OBVIOUS
    <3> QED
      BY <1>5, <1>6, <3>1, RatioOfFraction
  <2>2. Ratio(Times(price, rate), s * c, 10000 * d)
    BY <1>3, <2>1, RatioOfTimes
  <2>3. Ratio(cell, (s * c) * M, (10000 * d) * 100)
    BY <1>3, <2>2, RatioOfTimes
  <2>4. (s * c) * M = s * a /\ (10000 * d) * 100 = 1000000 * d /\ (1000000 * d) * 100 = 100000000 * d
    BY <1>1, <1>6
  <2> HIDE DEF a, cell
  <2>5. Ratio(cell, s * a, 1000000 * d)
    BY <2>3, <2>4
  <2>6. Ratio(Times(cell, Plus(Vat)), (s * a) * V, (1000000 * d) * 100)
    BY <1>3, <2>5, RatioOfTimes
  <2> QED
    BY <2>4, <2>5, <2>6
<1>9. /\ n = 100 * p => /\ 2 * (s * a - p * (1000000 * d)) < 1000000 * d
                        /\ 2 * (p * (1000000 * d) - s * a) < 1000000 * d
      /\ /\ 2 * (n * V - 10000 * p) <= V
         /\ 2 * (10000 * p - n * V) <= V
         => /\ 2 * ((s * a) * V - p * (100000000 * d)) < 100000000 * d
            /\ 2 * (p * (100000000 * d) - (s * a) * V) < 100000000 * d
  <2> HIDE DEF a
  <2> QED
    BY <1>1, <1>6, <1>7, Spread
<1>10. CASE withVat
  <2>1. 2 * (n * V - 10000 * p) <= V /\ 2 * (10000 * p - n * V) <= V
    BY <1>2, <1>10 DEF V
  <2>2. /\ 2 * ((s * a) * V - p * (100000000 * d)) < 100000000 * d
        /\ 2 * (p * (100000000 * d) - (s * a) * V) < 100000000 * d
    BY <1>9, <2>1
  <2> HIDE DEF a, cell
  <2>3. Round2(Times(cell, Plus(Vat))) = p
    BY <1>8, <2>2, RoundTo
  <2> QED
    BY <1>10, <2>3 DEF CellGross, cell, price
<1>11. CASE ~withVat
  <2>1. /\ 2 * (s * a - p * (1000000 * d)) < 1000000 * d
        /\ 2 * (p * (1000000 * d) - s * a) < 1000000 * d
    BY <1>2, <1>9, <1>11
  <2> HIDE DEF a, cell
  <2>2. Round2(cell) = p
    BY <1>8, <2>1, RoundTo
  <2> QED
    BY <1>11, <2>2 DEF CellNet, cell, price
<1> QED
  BY <1>10, <1>11

LEMMA TypedIsShown ==
    ASSUME quote \in Quote, NEW o \in Offers(quote), NEW p \in CellPrices, NEW withVat \in BOOLEAN,
           RateOf(quote, o[1], o[2]) # Nil =>
               InReach(RateOf(quote, o[1], o[2]), quote.blocks[o[2]].markup),
           TypePrice(o, p, withVat)
    PROVE  Cell(quote', o, withVat) = p
<1> DEFINE rate == RateOf(quote, o[1], o[2])  markup == quote.blocks[o[2]].markup
           price == PriceFromCell(p, withVat, Vat, rate, markup)
           fig == Figure(quote', o[1], o[2])
<1>1. quote' = [quote EXCEPT !.offers[o].price = price] /\ rate # Nil
  BY DEF TypePrice, Change
<1>2. rate \in Rate /\ markup \in SupplierMarkup /\ p \in Nat
  BY <1>1, RateIs, OfferOf, QuotesAssumption DEF Opt, Quote, QuoteWith
<1>3. InReach(rate, markup)
  BY <1>1
<1>4. price # Nil
  <2> HIDE DEF rate, markup
  <2> QED
    BY <1>2, TypedPriceIs, PricesAssumption
<1>5. o = <<o[1], o[2]>> /\ quote.offers[o] \in QuoteOffer /\ o \in DOMAIN quote.offers
  BY OfferOf DEF Offers
<1>6. /\ quote'.offers[o].price = price /\ quote'.offers[o].foreign = quote.offers[o].foreign
      /\ quote'.blocks = quote.blocks /\ quote'.rate = quote.rate
  <2> HIDE DEF price
  <2> QED
    BY <1>1, <1>5 DEF Quote, QuoteWith, QuoteOffer
<1>7. RateOf(quote', o[1], o[2]) = rate
  BY <1>5, <1>6 DEF RateOf
<1>8. fig.net = CellNet(price, rate, markup) /\ fig.gross = CellGross(price, rate, markup, Vat)
  <2>1. quote'.offers[<<o[1], o[2]>>].price = price /\ quote'.blocks[o[2]].markup = markup
    BY <1>5, <1>6
  <2> HIDE DEF price, rate, markup
  <2> QED
    BY <1>1, <1>4, <1>7, <2>1 DEF Figure
<1> HIDE DEF fig
<1>9. IF withVat THEN CellGross(price, rate, markup, Vat) = p ELSE CellNet(price, rate, markup) = p
  <2> HIDE DEF rate, markup
  <2> QED
    BY <1>2, <1>3, CellShowsTyped
<1> QED
  BY <1>8, <1>9 DEF Cell, fig

\* Of every offer that has a rate.
RatesInReach ==
    \A o \in Offers(quote) :
        RateOf(quote, o[1], o[2]) # Nil =>
            InReach(RateOf(quote, o[1], o[2]), quote.blocks[o[2]].markup)

\* A cell shows the price that was typed into it, with or without VAT, as long as
\* the rate and the supplier's markup on it stay in reach: at 20 percent of VAT,
\* as long as one unit of the currency of the list comes to less than 8233
\* hryvnias. (Beyond it a ten-thousandth of a kopeck in the list, the last digit
\* that is kept, is seen in the cell.)
THEOREM TypedPricesAreShown == QuotesSpec /\ []RatesInReach => PricesShown
<1>1. ASSUME QuotesInv, RatesInReach,
             NEW o \in Offers(quote), NEW p \in CellPrices, NEW withVat \in BOOLEAN,
             TypePrice(o, p, withVat)
      PROVE  Cell(quote', o, withVat) = p
  BY <1>1, TypedIsShown DEF QuotesInv, RatesInReach
<1>2. QuotesInv /\ RatesInReach /\ [QuotesNext]_quoteVars =>
         [\A o \in Offers(quote), p \in CellPrices, withVat \in BOOLEAN :
             quote'.offers[o].price # quote.offers[o].price /\ TypePrice(o, p, withVat) =>
                 Cell(quote', o, withVat) = p]_quoteVars
  BY <1>1
<1> QED
  BY <1>2, QuotesStayTyped, PTL DEF QuotesSpec, PricesShown

=============================================================================
