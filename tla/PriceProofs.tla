----------------------------- MODULE PriceProofs -----------------------------
(***************************************************************************)
(* Proofs about the price updates, for every set of suppliers, cards, runs *)
(* and calls of managers.                                                  *)
(*                                                                         *)
(* What the proofs rest on is how a plan relates to the cards as they are  *)
(* by now (SnapInv), and the days that a run, a list and the marking of a  *)
(* missing card have to do with each other (DaysInv).                      *)
(***************************************************************************)
EXTENDS PriceUpdates, TLAPS

Rows == UNION {[K -> Prices \cup {0}] : K \in SUBSET Cards}
Fields == SUBSET {"newProducts", "markMissing"}

Fetching == [at : {"fetch"}, supplier : Suppliers, source : {"link", "file"},
             fields : Fields, day : 1 .. MaxDay]
Queued   == [at : {"queued"}, supplier : Suppliers, source : {"link", "file"},
             fields : Fields, day : 1 .. MaxDay, rows : Rows, others : Nat]
PlannedRun == [at : {"planned"}, supplier : Suppliers, source : {"link", "file"},
             fields : Fields, day : 1 .. MaxDay, rows : Rows, others : Nat,
             snap : [Cards -> Card]]

PriceCall == [fn : {"price"}, card : Cards, price : Prices, saw : Prices \cup {0}]
CardCall  == [fn : {"card"}, card : Cards, patch : {"keep", "archive", "return"}, saw : Card,
              version : Nat]

TypeInv ==
    /\ card \in [Cards -> Card]
    /\ recorded \in [Cards -> Prices \cup {0}]
    /\ day \in 1 .. MaxDay
    /\ night \in {"due", "archive", "done"}
    /\ run \in [Runs -> {NoRun} \cup Fetching \cup Queued \cup PlannedRun]
    /\ running \subseteq Suppliers
    /\ queue \in Seq(Runs)
    /\ edit \in [Editors -> {NoEdit} \cup PriceCall \cup CardCall]
    /\ count \in [runs : Nat, edits : Nat]
    /\ entered \subseteq Cards
    /\ listed \in [Cards -> 0 .. MaxDay]
    /\ returned \in [Cards -> 0 .. MaxDay]

\* A card that is not there yet has no price and is not missing.
Blank(row) == row.version = 0 => row.price = 0 /\ row.missing = 0

\* What a plan knows of a card: the version has not gone back since, it has
\* gone up when a price was entered, and as long as it has not, the price stands.
SnapInv ==
    /\ \A k \in Cards : Blank(card[k])
    /\ \A c \in Runs : run[c].at = "planned" =>
          \A k \in Cards :
              /\ Blank(run[c].snap[k])
              /\ run[c].snap[k].version <= card[k].version
              /\ k \in entered => run[c].snap[k].version < card[k].version
              /\ run[c].snap[k].version = card[k].version => run[c].snap[k].price = card[k].price

\* The rows of a run are of cards of its supplier.
RowsInv ==
    \A c \in Runs : run[c].at \in {"queued", "planned"} =>
        \A k \in DOMAIN run[c].rows : SupplierOf[k] = run[c].supplier

\* A card is missing since a day after which no list had it; a manager may have
\* brought it back the day after.
MissingInv ==
    \A k \in Cards :
        /\ listed[k] <= day /\ returned[k] <= day
        /\ card[k].missing # 0 => listed[k] <= card[k].missing /\ returned[k] <= card[k].missing + 1

\* A run may last over one midnight.
RunDays ==
    \A c \in Runs : Run(c) =>
        /\ run[c].day <= day /\ day <= run[c].day + 1
        /\ \A k \in Cards : SupplierOf[k] = run[c].supplier => listed[k] <= run[c].day

\* A card that has become missing since it was read
SinceInv ==
    /\ \A c \in Runs : run[c].at = "planned" =>
          \A k \in Cards : run[c].snap[k].missing = 0 /\ card[k].missing # 0
                           => run[c].day <= card[k].missing
    /\ \A e \in Editors : edit[e].fn = "card" =>
          LET k == edit[e].card IN
          edit[e].saw.missing = 0 /\ card[k].missing # 0 => day <= card[k].missing + 1

-----------------------------------------------------------------------------
(* What the steps do to the cards and the runs *)

LEMMA LastDay == MaxDay \in Nat /\ MaxDay >= 1
BY CatalogAssumption

LEMMA BlankCard == NoCard \in Card
BY LastDay DEF NoCard, Card

\* Rows of a list, by card
LEMMA RowsTyped ==
    ASSUME NEW rows \in Rows
    PROVE  /\ DOMAIN rows \in SUBSET Cards
           /\ \A k \in DOMAIN rows : rows[k] \in Prices \cup {0}
BY DEF Rows

\* A plan changes a card's price and archiving, neither its version nor since
\* when it is missing.
LEMMA PlannedCards ==
    ASSUME NEW r \in PlannedRun, NEW k \in Found(r)
    PROVE  /\ NextCard(r, k) \in Card
           /\ NextCard(r, k).version = r.snap[k].version
           /\ NextCard(r, k).missing = r.snap[k].missing
<1>1. k \in Cards /\ r.snap[k] \in Card
  BY DEF Found, Known, PlannedRun
<1>2. r.rows[k] \in Prices \cup {0}
  BY RowsTyped DEF Found, Listed, PlannedRun
<1> DEFINE price == IF Does(r, "prices") /\ r.rows[k] # 0 THEN r.rows[k] ELSE r.snap[k].price
           archived == r.snap[k].archived /\ ~(Does(r, "assortment") /\ r.snap[k].auto)
<1>3. price \in Prices \cup {0} /\ archived \in BOOLEAN
  BY <1>1, <1>2 DEF Card
<1>4. NextCard(r, k) = [r.snap[k] EXCEPT !.price = price, !.archived = archived]
  BY DEF NextCard
<1> HIDE DEF price, archived
<1> QED
  BY <1>1, <1>3, <1>4 DEF Card

\* The list that a planned run is about to apply
LEMMA PlannedTyped ==
    ASSUME TypeInv, NEW c \in Runs, run[c].at = "planned"
    PROVE  run[c] \in PlannedRun
<1>1. run[c] \in {NoRun} \cup Fetching \cup Queued \cup PlannedRun
  BY DEF TypeInv
<1>2. run[c] # NoRun
  BY DEF NoRun
<1>3. run[c] \notin Fetching
  BY DEF Fetching
<1>4. run[c] \notin Queued
  BY DEF Queued
<1> QED
  BY <1>1, <1>2, <1>3, <1>4

\* Since when the card is missing after the update
MarkOf(r, k, since) ==
    CASE k \in MissingClears(r) -> 0
    []   k \in MissingMarks(r) /\ since = 0 -> r.day
    []   OTHER -> since

LEMMA MarkedCards ==
    ASSUME NEW r \in PlannedRun, NEW k \in Cards, NEW row \in Card
    PROVE  /\ Marked(r, k, row) \in Card
           /\ Marked(r, k, row).version = row.version
           /\ Marked(r, k, row).price = row.price
           /\ Marked(r, k, row).archived = row.archived
           /\ Marked(r, k, row).missing = MarkOf(r, k, row.missing)
<1> DEFINE origin == IF k \in Adopted(r) THEN "import" ELSE row.origin
           since == MarkOf(r, k, row.missing)
<1>1. row.missing \in 0 .. MaxDay /\ r.day \in 1 .. MaxDay /\ row.origin \in {"import", "manual"}
  BY DEF Card, PlannedRun
<1>2. origin \in {"import", "manual"} /\ since \in 0 .. MaxDay
  <2>1. origin \in {"import", "manual"}
    BY <1>1
  <2>2. r.day \in 0 .. MaxDay /\ 0 \in 0 .. MaxDay
    BY <1>1, LastDay
  <2>3. since \in 0 .. MaxDay
    BY <1>1, <2>2 DEF MarkOf
  <2> QED
    BY <2>1, <2>3
<1>3. Marked(r, k, row) = [row EXCEPT !.origin = origin, !.missing = since]
  BY DEF Marked, MarkOf
<1> HIDE DEF origin, since
<1>4. [row EXCEPT !.origin = origin, !.missing = since] \in Card
  BY <1>2 DEF Card
<1>5. /\ [row EXCEPT !.origin = origin, !.missing = since].version = row.version
      /\ [row EXCEPT !.origin = origin, !.missing = since].price = row.price
      /\ [row EXCEPT !.origin = origin, !.missing = since].archived = row.archived
      /\ [row EXCEPT !.origin = origin, !.missing = since].missing = since
  BY DEF Card
<1> QED
  BY <1>3, <1>4, <1>5 DEF since

LEMMA UpdatedCards ==
    ASSUME NEW r \in PlannedRun, NEW k \in Found(r), NEW row \in Card
    PROVE  /\ Updated(r, k, row) \in Card
           /\ Updated(r, k, row).version = row.version + 1
           /\ Updated(r, k, row).price = NextCard(r, k).price
           /\ Updated(r, k, row).missing = row.missing
<1> DEFINE next == NextCard(r, k)
<1>1. next.price \in Prices \cup {0} /\ next.archived \in BOOLEAN
  BY PlannedCards DEF Card
<1>2. Updated(r, k, row) = [row EXCEPT !.price = next.price, !.archived = next.archived,
                                       !.auto = row.auto /\ next.archived, !.version = row.version + 1]
  BY DEF Updated
<1>3. (row.auto /\ next.archived) \in BOOLEAN
  OBVIOUS
<1> HIDE DEF next
<1>4. row.version + 1 \in Nat
  BY DEF Card
<1> DEFINE auto == row.auto /\ next.archived
           version == row.version + 1
           new == [row EXCEPT !.price = next.price, !.archived = next.archived,
                              !.auto = auto, !.version = version]
<1>5. auto \in BOOLEAN /\ version \in Nat
  BY <1>3, <1>4
<1> HIDE DEF auto, version
<1>6. /\ new \in Card
      /\ new.version = version /\ new.price = next.price /\ new.missing = row.missing
  BY <1>1, <1>5 DEF Card
<1> QED
  BY <1>2, <1>6 DEF next, version, auto

LEMMA NewCards ==
    ASSUME NEW r \in PlannedRun, NEW k \in Creates(r)
    PROVE  /\ Planned(r, k) \in Card
           /\ Planned(r, k).version = 1
           /\ Planned(r, k).price = r.rows[k]
           /\ Planned(r, k).missing = 0
<1>1. r.rows[k] \in Prices \cup {0}
  BY RowsTyped DEF Creates, Listed, PlannedRun
<1>2. Planned(r, k) = [NoCard EXCEPT !.version = 1, !.price = r.rows[k], !.origin = "import"]
  BY DEF Planned, NewCard
<1>3. NoCard \in Card /\ NoCard.missing = 0
  BY BlankCard DEF NoCard
<1> DEFINE new == [NoCard EXCEPT !.version = 1, !.price = r.rows[k], !.origin = "import"]
<1>4. new \in Card
  BY <1>1, <1>3 DEF Card
<1>5. new.version = 1 /\ new.price = r.rows[k] /\ new.missing = NoCard.missing
  BY <1>3 DEF Card
<1> QED
  BY <1>2, <1>3, <1>4, <1>5

\* What the transaction of an update does to a card: it is created, or updated
\* as planned, or only the day since which it is missing is set.
LEMMA WriteEffects ==
    ASSUME TypeInv, NEW c \in Runs, Write(c), NEW k \in Cards
    PROVE  LET r == run[c] IN
           /\ card' \in [Cards -> Card]
           /\ \/ /\ k \in Creates(r) /\ card[k].version = 0
                 /\ card'[k].version = 1 /\ card'[k].price = r.rows[k]
                 /\ card'[k].missing = 0
              \/ /\ k \in Updates(r) \ EditedSincePlan(r) /\ k \notin Creates(r)
                 /\ card'[k].version = card[k].version + 1
                 /\ card'[k].price = NextCard(r, k).price
                 /\ card'[k].missing = MarkOf(r, k, card[k].missing)
              \/ /\ k \notin Updates(r) \ EditedSincePlan(r) /\ k \notin Creates(r)
                 /\ card'[k].version = card[k].version
                 /\ card'[k].price = card[k].price
                 /\ card'[k].missing = MarkOf(r, k, card[k].missing)
<1> DEFINE r == run[c]
<1>1. r \in PlannedRun /\ card \in [Cards -> Card]
  BY PlannedTyped DEF Write, TypeInv
<1>2. card' = [j \in Cards |->
           CASE j \in Creates(r) -> Planned(r, j)
           []   j \in Updates(r) \ EditedSincePlan(r) -> Marked(r, j, Updated(r, j, card[j]))
           []   OTHER -> Marked(r, j, card[j])]
  BY DEF Write
<1>3. \A j \in Creates(r) : card[j].version = 0
  <2>1. \A j \in Creates(r) : ~Exists(j) /\ j \in Cards
    BY <1>1, RowsTyped DEF Write, Creates, Listed, PlannedRun
  <2> QED
    BY <1>1, <2>1 DEF Exists, Card
<1> HIDE DEF r
<1>4. \A j \in Updates(r) : j \in Found(r) /\ j \in Cards
  BY DEF Updates, Found, Known
<1>0. Creates(r) \cap Updates(r) = {}
  BY DEF Creates, Updates, Found
<1>5. ASSUME NEW j \in Cards PROVE card'[j] \in Card
  <2>1. CASE j \in Creates(r)
    <3>1. card'[j] = Planned(r, j)
      BY <1>2, <1>0, <2>1
    <3> QED
      BY <1>1, <2>1, <3>1, NewCards
  <2>2. CASE j \notin Creates(r) /\ j \in Updates(r) \ EditedSincePlan(r)
    BY <1>1, <1>2, <1>4, <2>2, UpdatedCards, MarkedCards
  <2>3. CASE j \notin Creates(r) /\ j \notin Updates(r) \ EditedSincePlan(r)
    BY <1>1, <1>2, <2>3, MarkedCards
  <2> QED
    BY <2>1, <2>2, <2>3
<1>6. card' \in [Cards -> Card]
  BY <1>2, <1>5
<1>7. CASE k \in Creates(r)
  <2>1. card'[k] = Planned(r, k)
    BY <1>2, <1>0, <1>7
  <2> QED
    BY <1>1, <1>3, <1>6, <1>7, <2>1, NewCards DEF r
<1>8. CASE k \notin Creates(r) /\ k \in Updates(r) \ EditedSincePlan(r)
  <2>1. card'[k] = Marked(r, k, Updated(r, k, card[k]))
    BY <1>2, <1>8
  <2>2. /\ Updated(r, k, card[k]) \in Card
        /\ Updated(r, k, card[k]).version = card[k].version + 1
        /\ Updated(r, k, card[k]).price = NextCard(r, k).price
        /\ Updated(r, k, card[k]).missing = card[k].missing
    BY <1>1, <1>4, <1>8, UpdatedCards
  <2>3. /\ card'[k].version = card[k].version + 1
        /\ card'[k].price = NextCard(r, k).price
        /\ card'[k].missing = MarkOf(r, k, card[k].missing)
    BY <1>1, <2>1, <2>2, MarkedCards
  <2> QED
    BY <1>6, <1>8, <2>3 DEF r
<1>9. CASE k \notin Creates(r) /\ k \notin Updates(r) \ EditedSincePlan(r)
  <2>1. card'[k] = Marked(r, k, card[k])
    BY <1>2, <1>9
  <2>2. /\ card'[k].version = card[k].version
        /\ card'[k].price = card[k].price
        /\ card'[k].missing = MarkOf(r, k, card[k].missing)
    BY <1>1, <2>1, MarkedCards
  <2> QED
    BY <1>6, <1>9, <2>2 DEF r
<1> QED
  BY <1>7, <1>8, <1>9

\* The calls of managers: every one of them that writes raises the version, only
\* an entered price changes the price, and a card that is brought back while
\* it is missing is missing from today.
LEMMA CreateEffects ==
    ASSUME TypeInv, NEW k \in Cards, NEW p \in Prices, CreateProduct(k, p)
    PROVE  /\ card[k].version = 0
           /\ card' \in [Cards -> Card]
           /\ card'[k].version = 1 /\ card'[k].missing = 0
           /\ \A j \in Cards \ {k} : card'[j] = card[j]
<1> DEFINE new == [NoCard EXCEPT !.version = 1, !.price = p]
<1>1. new \in Card /\ new.version = 1 /\ new.missing = NoCard.missing
  BY BlankCard DEF Card
<1>2. NoCard.missing = 0
  BY DEF NoCard
<1>3. card \in [Cards -> Card] /\ card' = [card EXCEPT ![k] = new]
  BY DEF TypeInv, CreateProduct
<1>4. card[k].version = 0
  BY <1>3 DEF CreateProduct, Exists, Card
<1> HIDE DEF new
<1> QED
  BY <1>1, <1>2, <1>3, <1>4

LEMMA TouchEffects ==
    ASSUME TypeInv, NEW k \in Cards, TouchProduct(k)
    PROVE  /\ card' \in [Cards -> Card]
           /\ card'[k].version = card[k].version + 1
           /\ card'[k].price = card[k].price /\ card'[k].missing = card[k].missing
           /\ \A j \in Cards \ {k} : card'[j] = card[j]
<1> DEFINE version == card[k].version + 1
           new == [card[k] EXCEPT !.version = version]
<1>1. card \in [Cards -> Card] /\ card' = [card EXCEPT ![k] = new]
  BY DEF TypeInv, TouchProduct
<1>2. card[k] \in Card /\ version \in Nat
  BY <1>1 DEF Card
<1> HIDE DEF version
<1>3. /\ new \in Card
      /\ new.version = version /\ new.price = card[k].price /\ new.missing = card[k].missing
  BY <1>2 DEF Card
<1> HIDE DEF new
<1> QED
  BY <1>1, <1>3 DEF version

LEMMA PriceEffects ==
    ASSUME TypeInv, NEW e \in Editors, PriceWrite(e)
    PROVE  LET k == edit[e].card IN
           /\ edit[e] \in PriceCall
           /\ card' \in [Cards -> Card]
           /\ card'[k].version = card[k].version + 1
           /\ card'[k].missing = card[k].missing
           /\ \A j \in Cards \ {k} : card'[j] = card[j]
<1> DEFINE w == edit[e]
<1>1. w \in PriceCall
  <2>1. w \in {NoEdit} \cup PriceCall \cup CardCall
    BY DEF TypeInv
  <2>2. w # NoEdit
    BY DEF PriceWrite, NoEdit
  <2>3. w \notin CardCall
    BY DEF PriceWrite, CardCall
  <2> QED
    BY <2>1, <2>2, <2>3
<1>2. card \in [Cards -> Card] /\ card' = [card EXCEPT ![w.card] = Priced(w.card, w.price)]
  BY DEF TypeInv, PriceWrite
<1>3. w.card \in Cards /\ w.price \in Prices
  BY <1>1 DEF PriceCall
<1> HIDE DEF w
<1> DEFINE k == w.card
           version == card[k].version + 1
<1>4. card[k] \in Card /\ version \in Nat
  BY <1>2, <1>3 DEF Card
<1>5. Priced(k, w.price) = [card[k] EXCEPT !.price = w.price, !.version = version]
  BY DEF Priced
<1> HIDE DEF version, k
<1>6. /\ Priced(k, w.price) \in Card
      /\ Priced(k, w.price).version = version
      /\ Priced(k, w.price).missing = card[k].missing
  BY <1>3, <1>4, <1>5 DEF Card
<1> HIDE DEF Priced
<1>7. k = w.card
  BY DEF k
<1>8. card' \in [Cards -> Card] /\ card'[k] = Priced(k, w.price)
      /\ \A j \in Cards \ {k} : card'[j] = card[j]
  BY <1>2, <1>3, <1>6, <1>7
<1> QED
  BY <1>1, <1>6, <1>8 DEF version, k, w

LEMMA CardEffects ==
    ASSUME TypeInv, NEW e \in Editors, CardWrite(e)
    PROVE  LET k == edit[e].card  w == edit[e] IN
           /\ w \in CardCall
           /\ card' \in [Cards -> Card]
           /\ card'[k].version = card[k].version + 1
           /\ card'[k].price = card[k].price
           /\ card'[k].missing = IF w.patch = "return" /\ w.saw.archived /\ w.saw.missing # 0
                                 THEN day ELSE card[k].missing
           /\ \A j \in Cards \ {k} : card'[j] = card[j]
<1> DEFINE w == edit[e]
<1>1. w \in CardCall
  <2>1. w \in {NoEdit} \cup PriceCall \cup CardCall
    BY DEF TypeInv
  <2>2. w # NoEdit
    BY DEF CardWrite, NoEdit
  <2>3. w \notin PriceCall
    BY DEF CardWrite, PriceCall
  <2> QED
    BY <2>1, <2>2, <2>3
<1>2. card \in [Cards -> Card] /\ card' = [card EXCEPT ![w.card] = Patched(w, card[w.card])]
  BY DEF TypeInv, CardWrite
<1>3. w.card \in Cards
  BY <1>1 DEF CardCall
<1>4. day \in 0 .. MaxDay
  BY LastDay DEF TypeInv
<1> HIDE DEF w
<1> DEFINE k == w.card
           version == card[k].version + 1
           archived == IF w.patch = "keep" THEN card[k].archived ELSE w.patch = "archive"
           since == IF w.patch = "return" /\ w.saw.archived /\ w.saw.missing # 0
                    THEN day ELSE card[k].missing
<1>5. card[k] \in Card
  BY <1>2, <1>3
<1>6. card[k] \in Card /\ version \in Nat /\ archived \in BOOLEAN /\ since \in 0 .. MaxDay
  <2>1. version \in Nat
    BY <1>5 DEF Card
  <2>2. card[k].archived \in BOOLEAN /\ card[k].missing \in 0 .. MaxDay
    BY <1>5 DEF Card
  <2>3. archived \in BOOLEAN
    BY <2>2
  <2>4. since \in 0 .. MaxDay
    BY <1>4, <2>2
  <2> QED
    BY <1>5, <2>1, <2>3, <2>4
<1>7. Patched(w, card[k]) = [card[k] EXCEPT !.version = version, !.archived = archived,
                                            !.missing = since]
  BY DEF Patched
<1>8. k = w.card
  OBVIOUS
<1> HIDE DEF version, archived, since, k
<1>9. /\ Patched(w, card[k]) \in Card
      /\ Patched(w, card[k]).version = version /\ Patched(w, card[k]).missing = since
      /\ Patched(w, card[k]).price = card[k].price
  BY <1>6, <1>7 DEF Card
<1>10. card' \in [Cards -> Card] /\ card'[k] = Patched(w, card[k])
      /\ \A j \in Cards \ {k} : card'[j] = card[j]
  BY <1>2, <1>3, <1>8, <1>9
<1> QED
  BY <1>1, <1>9, <1>10 DEF version, since, k, w

\* The night's work archives, and leaves everything else.
LEMMA NightEffects ==
    ASSUME TypeInv, NightClear \/ NightArchive, NEW k \in Cards
    PROVE  /\ card' \in [Cards -> Card]
           /\ card'[k].version = card[k].version
           /\ card'[k].price = card[k].price
           /\ card'[k].missing = card[k].missing
<1>1. card \in [Cards -> Card]
  BY DEF TypeInv
<1>2. CASE NightClear
  <2>1. card' = [j \in Cards |-> [card[j] EXCEPT !.auto = card[j].auto /\ card[j].archived]]
    BY <1>2 DEF NightClear
  <2>2. ASSUME NEW j \in Cards
        PROVE  LET new == [card[j] EXCEPT !.auto = card[j].auto /\ card[j].archived] IN
               /\ new \in Card
               /\ new.version = card[j].version /\ new.price = card[j].price
               /\ new.missing = card[j].missing
    <3> DEFINE auto == card[j].auto /\ card[j].archived
    <3>1. card[j] \in Card /\ auto \in BOOLEAN
      BY <1>1
    <3> HIDE DEF auto
    <3>2. /\ [card[j] EXCEPT !.auto = auto] \in Card
          /\ [card[j] EXCEPT !.auto = auto].version = card[j].version
          /\ [card[j] EXCEPT !.auto = auto].price = card[j].price
          /\ [card[j] EXCEPT !.auto = auto].missing = card[j].missing
      BY <3>1 DEF Card
    <3> QED
      BY <3>2 DEF auto
  <2> QED
    BY <2>1, <2>2
<1>3. CASE NightArchive
  <2> DEFINE gone == {j \in Cards : /\ Exists(j) /\ ~card[j].archived
                                    /\ card[j].origin = "import" /\ LongMissing(j)}
  <2>1. card' = [j \in Cards |-> IF j \in gone
                     THEN [card[j] EXCEPT !.archived = TRUE, !.auto = TRUE] ELSE card[j]]
    BY <1>3 DEF NightArchive
  <2> HIDE DEF gone
  <2>2. ASSUME NEW j \in Cards
        PROVE  LET new == [card[j] EXCEPT !.archived = TRUE, !.auto = TRUE] IN
               /\ new \in Card
               /\ new.version = card[j].version /\ new.price = card[j].price
               /\ new.missing = card[j].missing
    BY <1>1 DEF Card
  <2> QED
    BY <1>1, <2>1, <2>2
<1> QED
  BY <1>2, <1>3

-----------------------------------------------------------------------------
(* Types *)

LEMMA Turns ==
    ASSUME NEW q \in Seq(Runs), NEW c \in Runs
    PROVE  /\ Append(q, c) \in Seq(Runs)
           /\ Len(q) \in Nat /\ DOMAIN q = 1 .. Len(q)
           /\ DOMAIN Append(q, c) = 1 .. (Len(q) + 1)
           /\ Append(q, c)[Len(q) + 1] = c
           /\ \A i \in 1 .. Len(q) : q[i] \in Runs /\ Append(q, c)[i] = q[i]
OBVIOUS

LEMMA TurnsEnd ==
    ASSUME NEW q \in Seq(Runs), q # <<>>
    PROVE  /\ Tail(q) \in Seq(Runs) /\ Head(q) = q[1]
           /\ Len(q) \in Nat /\ Len(q) >= 1 /\ DOMAIN q = 1 .. Len(q)
           /\ DOMAIN Tail(q) = 1 .. (Len(q) - 1)
           /\ \A i \in 1 .. (Len(q) - 1) : Tail(q)[i] = q[i + 1]
OBVIOUS

\* The runs that are under way, at each of their stages
LEMMA RunTyped ==
    ASSUME TypeInv, NEW c \in Runs
    PROVE  /\ run[c].at \in {"idle", "fetch", "queued", "planned"}
           /\ run[c].at = "fetch" => run[c] \in Fetching
           /\ run[c].at = "queued" => run[c] \in Queued
           /\ run[c].at = "planned" => run[c] \in PlannedRun
           /\ Run(c) => /\ run[c].supplier \in Suppliers
                        /\ run[c].source \in {"link", "file"}
                        /\ run[c].fields \in Fields
                        /\ run[c].day \in 1 .. MaxDay
<1>1. run[c] \in {NoRun} \cup Fetching \cup Queued \cup PlannedRun
  BY DEF TypeInv
<1>2. CASE run[c] = NoRun
  BY <1>2 DEF NoRun, Run
<1>3. CASE run[c] \in Fetching
  BY <1>3 DEF Fetching, Run
<1>4. CASE run[c] \in Queued
  BY <1>4 DEF Queued, Run
<1>5. CASE run[c] \in PlannedRun
  BY <1>5 DEF PlannedRun, Run
<1> QED
  BY <1>1, <1>2, <1>3, <1>4, <1>5

RunTypes == /\ run \in [Runs -> {NoRun} \cup Fetching \cup Queued \cup PlannedRun]
            /\ running \subseteq Suppliers
            /\ queue \in Seq(Runs)

\* The runs that wait for their turn are in the queue.
Waiting == \A c \in Runs : run[c].at \in {"queued", "planned"} => queue # <<>>

LEMMA ReleaseTypes ==
    ASSUME TypeInv, Waiting, NEW c \in Runs, Run(c), Release(c)
    PROVE  RunTypes'
<1>1. run' = [run EXCEPT ![c] = NoRun] /\ running' \subseteq running
  BY DEF Release
<1>2. queue' \in Seq(Runs)
  <2>1. CASE run[c].at = "fetch"
    BY <2>1 DEF Release, TypeInv
  <2>2. CASE run[c].at # "fetch"
    <3>1. queue # <<>>
      BY <2>2, RunTyped DEF Waiting, Run
    <3> QED
      BY <2>2, <3>1, TurnsEnd DEF Release, TypeInv
  <2> QED
    BY <2>1, <2>2
<1> QED
  BY <1>1, <1>2 DEF RunTypes, TypeInv

RestTypes == /\ card \in [Cards -> Card]
             /\ recorded \in [Cards -> Prices \cup {0}]
             /\ day \in 1 .. MaxDay
             /\ night \in {"due", "archive", "done"}
             /\ edit \in [Editors -> {NoEdit} \cup PriceCall \cup CardCall]
             /\ count \in [runs : Nat, edits : Nat]
             /\ entered \subseteq Cards
             /\ listed \in [Cards -> 0 .. MaxDay]
             /\ returned \in [Cards -> 0 .. MaxDay]

LEMMA CountTyped ==
    ASSUME TypeInv
    PROVE  /\ [count EXCEPT !.runs = @ + 1] \in [runs : Nat, edits : Nat]
           /\ [count EXCEPT !.edits = @ + 1] \in [runs : Nat, edits : Nat]
BY DEF TypeInv

LEMMA StartTypes ==
    ASSUME TypeInv, NEW c \in Runs, NEW s \in Suppliers, NEW source \in {"link", "file"},
           NEW fields \in FieldChoices, Start(c, s, source, fields)
    PROVE  TypeInv'
<1>1. fields \in Fields
  BY CatalogAssumption DEF Fields
<1> DEFINE row == [at |-> "fetch", supplier |-> s, source |-> source,
                   fields |-> fields, day |-> day]
<1>2. row \in Fetching
  BY <1>1 DEF Fetching, TypeInv
<1>3. run' = [run EXCEPT ![c] = row]
  BY DEF Start
<1> HIDE DEF row
<1>4. run' \in [Runs -> {NoRun} \cup Fetching \cup Queued \cup PlannedRun]
  BY <1>2, <1>3 DEF TypeInv
<1>5. running' \subseteq Suppliers /\ queue' = queue
  BY DEF Start, TypeInv
<1>6. RestTypes'
  BY CountTyped DEF Start, TypeInv, RestTypes, cardVars, ghosts
<1> QED
  BY <1>4, <1>5, <1>6 DEF TypeInv, RestTypes

LEMMA FetchedTypes ==
    ASSUME TypeInv, NEW c \in Runs, NEW others \in Nat, NEW rows \in Lists(run[c].supplier),
           Fetched(c, rows, others)
    PROVE  TypeInv'
<1>1. rows \in Rows
  BY DEF Lists, Rows
<1> DEFINE old == run[c]
           row == [at |-> "queued", supplier |-> old.supplier, source |-> old.source,
                   fields |-> old.fields, day |-> old.day, rows |-> rows, others |-> others]
<1>2. old \in Fetching
  BY RunTyped DEF Fetched
<1>3. run' = [run EXCEPT ![c] = row]
  BY DEF Fetched
<1> HIDE DEF old
<1>4. row \in Queued
  BY <1>1, <1>2 DEF Fetching, Queued
<1> HIDE DEF row
<1>5. run' \in [Runs -> {NoRun} \cup Fetching \cup Queued \cup PlannedRun]
  BY <1>3, <1>4 DEF TypeInv
<1>6. queue' \in Seq(Runs) /\ running' = running
  BY Turns DEF Fetched, TypeInv
<1>7. RestTypes'
  BY DEF Fetched, TypeInv, RestTypes, cardVars, ghosts
<1> QED
  BY <1>5, <1>6, <1>7 DEF TypeInv, RestTypes

LEMMA ComputeTypes ==
    ASSUME TypeInv, NEW c \in Runs, Compute(c)
    PROVE  TypeInv' /\ run'[c].snap = card
<1> DEFINE old == run[c]
           row == [at |-> "planned", supplier |-> old.supplier, source |-> old.source,
                   fields |-> old.fields, day |-> old.day, rows |-> old.rows,
                   others |-> old.others, snap |-> card]
<1>2. old \in Queued
  BY RunTyped DEF Compute
<1>3. run' = [run EXCEPT ![c] = row] /\ card \in [Cards -> Card]
  BY DEF Compute, TypeInv
<1> HIDE DEF old
<1>4. row \in PlannedRun /\ row.snap = card
  BY <1>2, <1>3 DEF Queued, PlannedRun
<1> HIDE DEF row
<1>5. /\ run' \in [Runs -> {NoRun} \cup Fetching \cup Queued \cup PlannedRun]
      /\ run'[c].snap = card
  BY <1>3, <1>4 DEF TypeInv
<1>6. queue' \in Seq(Runs) /\ running' \subseteq Suppliers
  BY DEF Compute, TypeInv
<1>7. RestTypes'
  BY DEF Compute, TypeInv, RestTypes, cardVars, ghosts
<1> QED
  BY <1>5, <1>6, <1>7 DEF TypeInv, RestTypes

LEMMA WriteTypes ==
    ASSUME TypeInv, Waiting, NEW c \in Runs, Write(c)
    PROVE  TypeInv'
<1> DEFINE r == run[c]
<1>1. r \in PlannedRun /\ Run(c) /\ Release(c)
  BY PlannedTyped DEF Write, Run
<1>2. RunTypes'
  BY <1>1, ReleaseTypes
<1>3. card' \in [Cards -> Card]
  <2>1. CASE Cards = {}
    <3>1. card' = [k \in Cards |-> card[k]]
      BY <2>1 DEF Write
    <3> QED
      BY <3>1, <2>1 DEF TypeInv
  <2>2. CASE Cards # {}
    BY <2>2, WriteEffects
  <2> QED
    BY <2>1, <2>2
<1>4. recorded' \in [Cards -> Prices \cup {0}]
  <2>1. recorded' = [k \in Cards |-> IF k \in Records(r) THEN Planned(r, k).price ELSE recorded[k]]
    BY DEF Write
  <2> HIDE DEF r
  <2>2. ASSUME NEW k \in Cards, k \in Records(r) PROVE Planned(r, k) \in Card
    <3>1. CASE k \in Creates(r)
      BY <1>1, <3>1, NewCards
    <3>2. CASE k \notin Creates(r)
      <4>1. k \in Found(r)
        BY <2>2, <3>2 DEF Records, Repriced
      <4> QED
        BY <1>1, <3>2, <4>1, PlannedCards DEF Planned
    <3> QED
      BY <3>1, <3>2
  <2>3. ASSUME NEW k \in Cards, k \in Records(r) PROVE Planned(r, k).price \in Prices \cup {0}
    BY <2>2, <2>3 DEF Card
  <2> QED
    BY <2>1, <2>3 DEF TypeInv
<1>5. listed' \in [Cards -> 0 .. MaxDay]
  <2>1. r.day \in 0 .. MaxDay
    BY <1>1, LastDay DEF PlannedRun
  <2>2. listed' = [k \in Cards |-> IF Does(r, "assortment") /\ k \in Listed(r)
                                   THEN r.day ELSE listed[k]]
    BY DEF Write
  <2> HIDE DEF r
  <2> QED
    BY <2>1, <2>2 DEF TypeInv
<1>6. RestTypes'
  BY <1>3, <1>4, <1>5 DEF Write, TypeInv, RestTypes
<1> QED
  BY <1>2, <1>6 DEF TypeInv, RunTypes, RestTypes

\* The calls of managers and the night leave the runs alone, and a call that
\* begins or ends leaves the cards alone.
LEMMA CallTypes ==
    ASSUME TypeInv, NEW e \in Editors, NEW k \in Cards,
           \/ \E p \in Prices : PriceRead(e, k, p)
           \/ \E patch \in {"keep", "archive", "return"}, versioned \in BOOLEAN :
                  CardRead(e, k, patch, versioned)
    PROVE  TypeInv' /\ UNCHANGED <<card, runVars, day, ghosts, recorded, night>>
<1>1. card[k] \in Card
  BY DEF TypeInv
<1>2. ASSUME NEW p \in Prices, PriceRead(e, k, p)
      PROVE  \E call \in PriceCall \cup CardCall : Begin(e, call)
  BY <1>1, <1>2 DEF Card, PriceCall, PriceRead
<1>3. ASSUME NEW patch \in {"keep", "archive", "return"}, NEW versioned \in BOOLEAN,
            CardRead(e, k, patch, versioned)
      PROVE  \E call \in PriceCall \cup CardCall : Begin(e, call)
  <2> DEFINE sent == IF versioned THEN card[k].version ELSE 0
             call == [fn |-> "card", card |-> k, patch |-> patch, saw |-> card[k], version |-> sent]
  <2>1. sent \in Nat
    BY <1>1 DEF Card
  <2>2. Begin(e, call)
    BY <1>3 DEF CardRead
  <2> HIDE DEF sent
  <2>3. call \in CardCall
    BY <1>1, <1>3, <2>1 DEF CardCall
  <2> QED
    BY <2>2, <2>3
<1>4. PICK call \in PriceCall \cup CardCall : Begin(e, call)
  BY <1>2, <1>3
<1>5. edit' \in [Editors -> {NoEdit} \cup PriceCall \cup CardCall]
  BY <1>4 DEF Begin, TypeInv
<1>6. UNCHANGED <<card, runVars, day, ghosts, recorded, night>>
  BY <1>4 DEF Begin, cardVars
<1>7. count' \in [runs : Nat, edits : Nat]
  BY <1>4, CountTyped DEF Begin
<1> QED
  BY <1>5, <1>6, <1>7 DEF TypeInv, runVars, ghosts

LEMMA DirectTypes ==
    ASSUME TypeInv, NEW k \in Cards,
           TouchProduct(k) \/ \E p \in Prices : CreateProduct(k, p)
    PROVE  TypeInv'
<1>1. CASE TouchProduct(k)
  <2>1. card' \in [Cards -> Card] /\ count' \in [runs : Nat, edits : Nat]
    BY <1>1, TouchEffects, CountTyped DEF TouchProduct
  <2> QED
    BY <1>1, <2>1 DEF TouchProduct, TypeInv, runVars, ghosts
<1>2. ASSUME NEW p \in Prices, CreateProduct(k, p) PROVE TypeInv'
  <2>1. card' \in [Cards -> Card] /\ count' \in [runs : Nat, edits : Nat]
    BY <1>2, CreateEffects, CountTyped DEF CreateProduct
  <2> QED
    BY <1>2, <2>1 DEF CreateProduct, TypeInv, runVars
<1> QED
  BY <1>1, <1>2

LEMMA CallEndTypes ==
    ASSUME TypeInv, NEW e \in Editors, PriceWrite(e) \/ CardWrite(e) \/ CardStale(e)
    PROVE  TypeInv'
<1>1. End(e) => edit' \in [Editors -> {NoEdit} \cup PriceCall \cup CardCall]
  BY DEF End, TypeInv
<1>2. CASE PriceWrite(e)
  <2>1. card' \in [Cards -> Card] /\ edit[e] \in PriceCall
    BY <1>2, PriceEffects
  <2>2. edit[e].card \in Cards /\ edit[e].price \in Prices
    BY <2>1 DEF PriceCall
  <2>3. recorded' \in [Cards -> Prices \cup {0}]
    BY <1>2, <2>2 DEF PriceWrite, TypeInv
  <2>4. entered' \subseteq Cards
    BY <1>2, <2>2 DEF PriceWrite, TypeInv
  <2> QED
    BY <1>1, <1>2, <2>1, <2>3, <2>4 DEF PriceWrite, TypeInv, runVars
<1>3. CASE CardWrite(e)
  <2>1. card' \in [Cards -> Card]
    BY <1>3, CardEffects
  <2>2. returned' \in [Cards -> 0 .. MaxDay]
    <3>1. day \in 0 .. MaxDay
      BY LastDay DEF TypeInv
    <3>2. returned' = returned \/ returned' = [returned EXCEPT ![edit[e].card] = day]
      BY <1>3 DEF CardWrite
    <3> QED
      BY <3>1, <3>2 DEF TypeInv
  <2> QED
    BY <1>1, <1>3, <2>1, <2>2 DEF CardWrite, TypeInv, runVars
<1>4. CASE CardStale(e)
  BY <1>1, <1>4 DEF CardStale, TypeInv, cardVars, runVars, ghosts
<1> QED
  BY <1>2, <1>3, <1>4

LEMMA NightTypes ==
    ASSUME TypeInv, NightClear \/ NightArchive
    PROVE  TypeInv'
<1>1. card' \in [Cards -> Card]
  <2>1. CASE Cards = {}
    <3>1. card' = [k \in Cards |-> card[k]]
      BY <2>1 DEF NightClear, NightArchive
    <3> QED
      BY <3>1, <2>1 DEF TypeInv
  <2>2. CASE Cards # {}
    BY <2>2, NightEffects
  <2> QED
    BY <2>1, <2>2
<1> QED
  BY <1>1 DEF NightClear, NightArchive, TypeInv, runVars, ghosts

LEMMA TypeNext ==
    ASSUME TypeInv, Waiting, [Next]_vars
    PROVE  TypeInv'
<1>1. ASSUME NEW c \in Runs, NEW s \in Suppliers, NEW source \in {"link", "file"},
             NEW fields \in FieldChoices, Start(c, s, source, fields)
      PROVE  TypeInv'
  BY <1>1, StartTypes
<1>2. ASSUME NEW c \in Runs, RunStep(c) PROVE TypeInv'
  <2>1. ASSUME NEW others \in 0 .. Others, NEW rows \in Lists(run[c].supplier),
               Fetched(c, rows, others)
        PROVE  TypeInv'
    <3>1. others \in Nat
      BY CatalogAssumption
    <3> QED
      BY <2>1, <3>1, FetchedTypes
  <2>2. CASE FetchFails(c) \/ PlanDropped(c)
    <3>1. Run(c) /\ Release(c)
      BY <2>2 DEF FetchFails, PlanDropped, Run
    <3>2. RunTypes'
      BY <3>1, ReleaseTypes
    <3> QED
      BY <2>2, <3>2 DEF FetchFails, PlanDropped, TypeInv, RunTypes, cardVars, ghosts
  <2>3. CASE Compute(c)
    BY <2>3, ComputeTypes
  <2>4. CASE Write(c)
    BY <2>4, WriteTypes
  <2> QED
    BY <1>2, <2>1, <2>2, <2>3, <2>4 DEF RunStep
<1>3. ASSUME NEW k \in Cards, TouchProduct(k) \/ \E p \in Prices : CreateProduct(k, p)
      PROVE  TypeInv'
  BY <1>3, DirectTypes
<1>4. ASSUME NEW e \in Editors, NEW k \in Cards,
             \/ \E p \in Prices : PriceRead(e, k, p)
             \/ \E patch \in {"keep", "archive", "return"}, versioned \in BOOLEAN :
                  CardRead(e, k, patch, versioned)
      PROVE  TypeInv'
  BY <1>4, CallTypes
<1>5. ASSUME NEW e \in Editors, PriceWrite(e) \/ CardWrite(e) \/ CardStale(e) PROVE TypeInv'
  BY <1>5, CallEndTypes
<1>6. CASE NightClear \/ NightArchive
  BY <1>6, NightTypes
<1>7. CASE NextDay
  BY <1>7, LastDay DEF NextDay, TypeInv, cardVars, runVars, ghosts
<1>8. CASE Restart
  BY <1>8 DEF Restart, TypeInv, cardVars, ghosts
<1>9. CASE UNCHANGED vars
  BY <1>9 DEF vars, TypeInv
<1> QED
  BY <1>1, <1>2, <1>3, <1>4, <1>5, <1>6, <1>7, <1>8, <1>9 DEF Next

LEMMA TypeInit == ASSUME Init PROVE TypeInv
<1>1. PICK K \in SUBSET Cards, p \in Prices :
          /\ card = [k \in Cards |-> IF k \in K
                 THEN [NoCard EXCEPT !.version = 1, !.price = p, !.origin = "import"] ELSE NoCard]
          /\ recorded = [k \in Cards |-> card[k].price]
          /\ listed = [k \in Cards |-> card[k].version]
  BY DEF Init
<1> DEFINE old == [NoCard EXCEPT !.version = 1, !.price = p, !.origin = "import"]
<1>2. NoCard \in Card /\ old \in Card /\ NoCard.version = 0 /\ old.version = 1
  BY BlankCard DEF Card, NoCard
<1> HIDE DEF old
<1>3. card \in [Cards -> Card] /\ \A k \in Cards : card[k].version \in {0, 1}
  BY <1>1, <1>2 DEF old
<1>4. recorded \in [Cards -> Prices \cup {0}] /\ listed \in [Cards -> 0 .. MaxDay]
  BY <1>1, <1>3, LastDay DEF Card
<1> QED
  BY <1>3, <1>4, LastDay DEF Init, TypeInv

-----------------------------------------------------------------------------
(* Whose turn it is *)

LEMMA WaitingRuns == NoneLockedOut => Waiting
<1> SUFFICES ASSUME NoneLockedOut, NEW c \in Runs, run[c].at \in {"queued", "planned"}, queue = <<>>
             PROVE  FALSE
  BY DEF Waiting
<1>1. c \in {queue[i] : i \in DOMAIN queue}
  BY DEF NoneLockedOut
<1> QED
  BY <1>1

\* Only the run whose turn it is can have a plan.
LEMMA OnePlan ==
    ASSUME NoneLockedOut, NEW c \in Runs, NEW d \in Runs,
           run[c].at = "planned", run[d].at = "planned"
    PROVE  c = d
BY DEF NoneLockedOut

LEMMA SameTurns ==
    ASSUME NoneLockedOut, queue' = queue,
           running' = {run'[d].supplier : d \in {x \in Runs : run'[x].at # "idle"}},
           \A d, x \in Runs : run'[d].at # "idle" /\ run'[x].at # "idle"
                              /\ run'[d].supplier = run'[x].supplier => d = x,
           {d \in Runs : run'[d].at \in {"queued", "planned"}}
             = {d \in Runs : run[d].at \in {"queued", "planned"}},
           \A d \in Runs : run'[d].at = "planned" => Head(queue') = d
    PROVE  NoneLockedOut'
<1>1. {queue'[i] : i \in DOMAIN queue'} = {d \in Runs : run'[d].at \in {"queued", "planned"}}
  BY DEF NoneLockedOut
<1>2. \A i, j \in DOMAIN queue' : queue'[i] = queue'[j] => i = j
  BY DEF NoneLockedOut
<1> QED
  BY <1>1, <1>2 DEF NoneLockedOut, Run

LEMMA LocksStart ==
    ASSUME TypeInv, NoneLockedOut, NEW c \in Runs, NEW s \in Suppliers,
           NEW source \in {"link", "file"}, NEW fields \in FieldChoices, Start(c, s, source, fields)
    PROVE  NoneLockedOut'
<1> DEFINE row == [at |-> "fetch", supplier |-> s, source |-> source,
                   fields |-> fields, day |-> day]
<1>1. /\ run' = [run EXCEPT ![c] = row] /\ queue' = queue
      /\ running' = running \cup {s} /\ s \notin running /\ run[c].at = "idle"
  BY DEF Start, Run
<1>2. row.at = "fetch" /\ row.supplier = s
  OBVIOUS
<1> HIDE DEF row
<1>3. run'[c] = row /\ \A d \in Runs \ {c} : run'[d] = run[d]
  BY <1>1 DEF TypeInv
<1>4. running' = {run'[d].supplier : d \in {x \in Runs : run'[x].at # "idle"}}
  BY <1>1, <1>2, <1>3 DEF NoneLockedOut, Run
<1>5. ASSUME NEW d \in Runs, NEW x \in Runs, run'[d].at # "idle", run'[x].at # "idle",
             run'[d].supplier = run'[x].supplier
      PROVE  d = x
  BY <1>1, <1>2, <1>3, <1>5 DEF NoneLockedOut, Run
<1>6. {d \in Runs : run'[d].at \in {"queued", "planned"}}
        = {d \in Runs : run[d].at \in {"queued", "planned"}}
  BY <1>1, <1>2, <1>3
<1>7. \A d \in Runs : run'[d].at = "planned" => Head(queue') = d
  BY <1>1, <1>2, <1>3 DEF NoneLockedOut
<1> QED
  BY <1>1, <1>4, <1>5, <1>6, <1>7, SameTurns

\* Nothing but the stage of a run changes: it keeps its supplier.
LEMMA LocksStage ==
    ASSUME TypeInv, NoneLockedOut, NEW c \in Runs, NEW row, run' = [run EXCEPT ![c] = row],
           row.supplier = run[c].supplier, Run(c), row.at # "idle", running' = running
    PROVE  /\ run'[c] = row /\ \A d \in Runs \ {c} : run'[d] = run[d]
           /\ running' = {run'[d].supplier : d \in {x \in Runs : run'[x].at # "idle"}}
           /\ \A d, x \in Runs : run'[d].at # "idle" /\ run'[x].at # "idle"
                                 /\ run'[d].supplier = run'[x].supplier => d = x
<1>1. run'[c] = row /\ \A d \in Runs \ {c} : run'[d] = run[d]
  BY DEF TypeInv
<1>2. \A d \in Runs : /\ run'[d].supplier = run[d].supplier
                      /\ run'[d].at # "idle" <=> run[d].at # "idle"
  BY <1>1 DEF Run
<1> QED
  BY <1>1, <1>2 DEF NoneLockedOut, Run

LEMMA LocksFetched ==
    ASSUME TypeInv, NoneLockedOut, NEW c \in Runs, NEW others, NEW rows, Fetched(c, rows, others)
    PROVE  NoneLockedOut'
<1> DEFINE old == run[c]
           row == [at |-> "queued", supplier |-> old.supplier, source |-> old.source,
                   fields |-> old.fields, day |-> old.day, rows |-> rows, others |-> others]
<1>1. /\ run' = [run EXCEPT ![c] = row] /\ queue' = Append(queue, c)
      /\ running' = running /\ run[c].at = "fetch"
  BY DEF Fetched
<1>2. row.at = "queued" /\ row.supplier = run[c].supplier
  OBVIOUS
<1> HIDE DEF row
<1>3. /\ run'[c] = row /\ \A d \in Runs \ {c} : run'[d] = run[d]
      /\ running' = {run'[d].supplier : d \in {x \in Runs : run'[x].at # "idle"}}
      /\ \A d, x \in Runs : run'[d].at # "idle" /\ run'[x].at # "idle"
                            /\ run'[d].supplier = run'[x].supplier => d = x
  BY <1>1, <1>2, LocksStage DEF Run
<1>4. queue \in Seq(Runs)
  BY DEF TypeInv
<1>5. \A i \in 1 .. Len(queue) : queue[i] # c
  <2> SUFFICES ASSUME NEW i \in 1 .. Len(queue), queue[i] = c PROVE FALSE
    OBVIOUS
  <2>1. c \in {queue[j] : j \in DOMAIN queue}
    BY <1>4, Turns
  <2> QED
    BY <1>1, <2>1 DEF NoneLockedOut
<1>6. \A i, j \in DOMAIN queue' : queue'[i] = queue'[j] => i = j
  BY <1>1, <1>4, <1>5, Turns DEF NoneLockedOut
<1>7. {queue'[i] : i \in DOMAIN queue'} = {queue[i] : i \in DOMAIN queue} \cup {c}
  <2>1. ASSUME NEW i \in DOMAIN queue' PROVE queue'[i] \in {queue[j] : j \in DOMAIN queue} \cup {c}
    BY <1>1, <1>4, Turns
  <2>2. ASSUME NEW i \in DOMAIN queue PROVE queue[i] \in {queue'[j] : j \in DOMAIN queue'}
    BY <1>1, <1>4, Turns
  <2>3. c \in {queue'[j] : j \in DOMAIN queue'}
    <3>1. Len(queue) + 1 \in DOMAIN queue' /\ queue'[Len(queue) + 1] = c
      BY <1>1, <1>4, Turns
    <3> QED
      BY <3>1
  <2> QED
    BY <2>1, <2>2, <2>3
<1>8. {d \in Runs : run'[d].at \in {"queued", "planned"}}
        = {d \in Runs : run[d].at \in {"queued", "planned"}} \cup {c}
  BY <1>2, <1>3
<1>9. ASSUME NEW d \in Runs, run'[d].at = "planned" PROVE Head(queue') = d
  <2>1. run[d].at = "planned"
    BY <1>2, <1>3, <1>9
  <2>2. queue # <<>> /\ Head(queue) = d
    BY <2>1, WaitingRuns DEF NoneLockedOut, Waiting
  <2> QED
    BY <1>1, <1>4, <2>2
<1> QED
  BY <1>3, <1>6, <1>7, <1>8, <1>9 DEF NoneLockedOut, Run

LEMMA LocksCompute ==
    ASSUME TypeInv, NoneLockedOut, NEW c \in Runs, Compute(c)
    PROVE  NoneLockedOut'
<1> DEFINE old == run[c]
           row == [at |-> "planned", supplier |-> old.supplier, source |-> old.source,
                   fields |-> old.fields, day |-> old.day, rows |-> old.rows,
                   others |-> old.others, snap |-> card]
<1>1. /\ run' = [run EXCEPT ![c] = row] /\ queue' = queue /\ running' = running
      /\ run[c].at = "queued" /\ Head(queue) = c
  BY DEF Compute
<1>2. row.at = "planned" /\ row.supplier = run[c].supplier
  OBVIOUS
<1> HIDE DEF row
<1>3. /\ run'[c] = row /\ \A d \in Runs \ {c} : run'[d] = run[d]
      /\ running' = {run'[d].supplier : d \in {x \in Runs : run'[x].at # "idle"}}
      /\ \A d, x \in Runs : run'[d].at # "idle" /\ run'[x].at # "idle"
                            /\ run'[d].supplier = run'[x].supplier => d = x
  <2>1. Run(c) /\ row.at # "idle"
    BY <1>1, <1>2 DEF Run
  <2> QED
    BY <1>1, <1>2, <2>1, LocksStage
<1>4. {d \in Runs : run'[d].at \in {"queued", "planned"}}
        = {d \in Runs : run[d].at \in {"queued", "planned"}}
  BY <1>1, <1>2, <1>3
<1>5. \A d \in Runs : run'[d].at = "planned" => Head(queue') = d
  BY <1>1, <1>2, <1>3 DEF NoneLockedOut
<1> QED
  BY <1>1, <1>3, <1>4, <1>5, SameTurns

LEMMA LocksRelease ==
    ASSUME TypeInv, NoneLockedOut, NEW c \in Runs, Run(c), Release(c),
           run[c].at \in {"fetch", "planned"}
    PROVE  /\ NoneLockedOut'
           /\ run'[c].at = "idle" /\ \A d \in Runs \ {c} : run'[d] = run[d]
<1>1. run' = [run EXCEPT ![c] = NoRun] /\ running' = running \ {run[c].supplier}
  BY DEF Release
<1>2. run'[c].at = "idle" /\ \A d \in Runs \ {c} : run'[d] = run[d]
  BY <1>1 DEF TypeInv, NoRun
<1>3. running' = {run'[d].supplier : d \in {x \in Runs : run'[x].at # "idle"}}
  BY <1>1, <1>2 DEF NoneLockedOut, Run
<1>4. \A d, x \in Runs : run'[d].at # "idle" /\ run'[x].at # "idle"
                         /\ run'[d].supplier = run'[x].supplier => d = x
  BY <1>2 DEF NoneLockedOut, Run
<1>5. CASE run[c].at = "fetch"
  <2>1. queue' = queue
    BY <1>5 DEF Release
  <2>2. {d \in Runs : run'[d].at \in {"queued", "planned"}}
        = {d \in Runs : run[d].at \in {"queued", "planned"}}
    BY <1>2, <1>5
  <2>3. \A d \in Runs : run'[d].at = "planned" => Head(queue') = d
    BY <1>2, <2>1 DEF NoneLockedOut
  <2> QED
    BY <1>2, <1>3, <1>4, <2>1, <2>2, <2>3 DEF NoneLockedOut, Run
<1>6. CASE run[c].at = "planned"
  <2>1. /\ queue \in Seq(Runs) /\ queue # <<>> /\ Head(queue) = c /\ queue' = Tail(queue)
    BY <1>6, WaitingRuns DEF NoneLockedOut, Waiting, TypeInv, Release
  <2>2. \A i, j \in DOMAIN queue' : queue'[i] = queue'[j] => i = j
    BY <2>1, TurnsEnd DEF NoneLockedOut
  <2>3. {queue'[i] : i \in DOMAIN queue'} = {queue[i] : i \in DOMAIN queue} \ {c}
    <3>1. ASSUME NEW i \in DOMAIN queue'
          PROVE  queue'[i] \in {queue[j] : j \in DOMAIN queue} /\ queue'[i] # c
      BY <2>1, TurnsEnd DEF NoneLockedOut
    <3>2. ASSUME NEW i \in DOMAIN queue, queue[i] # c
          PROVE  queue[i] \in {queue'[j] : j \in DOMAIN queue'}
      <4>1. i - 1 \in DOMAIN queue' /\ queue'[i - 1] = queue[i]
        BY <2>1, <3>2, TurnsEnd
      <4> QED
        BY <4>1
    <3> QED
      BY <3>1, <3>2
  <2>4. {d \in Runs : run'[d].at \in {"queued", "planned"}}
        = {d \in Runs : run[d].at \in {"queued", "planned"}} \ {c}
    BY <1>2
  <2>5. \A d \in Runs : run'[d].at # "planned"
    BY <1>2, <1>6, OnePlan
  <2> QED
    BY <1>2, <1>3, <1>4, <2>2, <2>3, <2>4, <2>5 DEF NoneLockedOut, Run
<1> QED
  BY <1>2, <1>5, <1>6

LEMMA LocksRestart == ASSUME Restart PROVE NoneLockedOut'
<1>1. /\ \A d \in Runs : run'[d].at = "idle"
      /\ running' = {} /\ queue' = <<>>
  BY DEF Restart, NoRun
<1> QED
  BY <1>1 DEF NoneLockedOut, Run

LEMMA LocksKept == ASSUME NoneLockedOut, UNCHANGED runVars PROVE NoneLockedOut'
BY DEF NoneLockedOut, runVars, Run

LocksInv == TypeInv /\ NoneLockedOut

LEMMA LocksNext == ASSUME LocksInv, [Next]_vars PROVE LocksInv'
<1>1. TypeInv /\ NoneLockedOut /\ Waiting
  BY WaitingRuns DEF LocksInv
<1>2. TypeInv'
  BY <1>1, TypeNext
<1>3. ASSUME NEW c \in Runs, RunStep(c) PROVE NoneLockedOut'
  <2>1. CASE \E others \in 0 .. Others : Run(c) /\ \E rows \in Lists(run[c].supplier) : Fetched(c, rows, others)
    BY <1>1, <2>1, LocksFetched
  <2>2. CASE FetchFails(c) \/ PlanDropped(c) \/ Write(c)
    <3>1. Run(c) /\ Release(c) /\ run[c].at \in {"fetch", "planned"}
      BY <2>2 DEF FetchFails, PlanDropped, Write, Run
    <3> QED
      BY <1>1, <3>1, LocksRelease
  <2>3. CASE Compute(c)
    BY <1>1, <2>3, LocksCompute
  <2> QED
    BY <1>3, <2>1, <2>2, <2>3 DEF RunStep
<1>4. ASSUME NEW k \in Cards, TouchProduct(k) \/ \E p \in Prices : CreateProduct(k, p)
      PROVE  UNCHANGED runVars
  BY <1>4 DEF TouchProduct, CreateProduct
<1>5. ASSUME NEW e \in Editors, NEW k \in Cards,
             \/ \E p \in Prices : PriceRead(e, k, p)
             \/ \E patch \in {"keep", "archive", "return"}, versioned \in BOOLEAN :
                  CardRead(e, k, patch, versioned)
      PROVE  UNCHANGED runVars
  BY <1>5 DEF PriceRead, CardRead, Begin
<1>6. ASSUME NEW e \in Editors, PriceWrite(e) \/ CardWrite(e) \/ CardStale(e)
      PROVE  UNCHANGED runVars
  BY <1>6 DEF PriceWrite, CardWrite, CardStale
<1>7. NightClear \/ NightArchive \/ NextDay \/ UNCHANGED vars => UNCHANGED runVars
  BY DEF NightClear, NightArchive, NextDay, vars, runVars
<1>8. ASSUME NEW c \in Runs, NEW s \in Suppliers, NEW source \in {"link", "file"},
             NEW fields \in FieldChoices, Start(c, s, source, fields)
      PROVE  NoneLockedOut'
  BY <1>1, <1>8, LocksStart
<1> QED
  BY <1>1, <1>2, <1>3, <1>4, <1>5, <1>6, <1>7, <1>8, LocksRestart, LocksKept DEF Next, LocksInv

LEMMA LocksInit == ASSUME Init PROVE LocksInv
<1>1. \A c \in Runs : run[c].at = "idle"
  BY DEF Init, NoRun
<1>2. queue = <<>> /\ running = {}
  BY DEF Init
<1>3. NoneLockedOut
  BY <1>1, <1>2 DEF NoneLockedOut, Run
<1> QED
  BY <1>3, TypeInit DEF LocksInv

\* The state of the catalogue has its types: no price, day, plan or queue is
\* ever anything else than the code means it to be.
THEOREM CatalogTyped == Spec => []TypeInv
<1>1. LocksInv => TypeInv
  BY DEF LocksInv
<1> QED
  BY <1>1, LocksInit, LocksNext, PTL DEF Spec

\* Every supplier that is taken for being updated is being updated, by one run,
\* and the queue is of the runs that wait, of which only the first has a plan:
\* whatever fails or restarts, nobody is locked out.
THEOREM SuppliersAreNotLockedOut == Spec => []NoneLockedOut
<1>1. LocksInv => NoneLockedOut
  BY DEF LocksInv
<1> QED
  BY <1>1, LocksInit, LocksNext, PTL DEF Spec

-----------------------------------------------------------------------------
(* How a plan relates to the cards *)

\* What a step does to a run: it is kept, starts today, has got its list, has got
\* its plan, or is over.
RunKept(c)    == run'[c] = run[c]
RunStarts(c)  == /\ run[c].at = "idle" /\ run'[c].at = "fetch" /\ run'[c].day = day
                 /\ UNCHANGED <<card, day, listed>>
RunQueued(c)  == /\ run[c].at = "fetch" /\ run'[c].at = "queued"
                 /\ run'[c].day = run[c].day /\ run'[c].supplier = run[c].supplier
                 /\ \A k \in DOMAIN run'[c].rows : SupplierOf[k] = run[c].supplier
                 /\ UNCHANGED <<card, day, listed>>
RunPlanned(c) == /\ run[c].at = "queued" /\ run'[c].at = "planned" /\ entered' = {}
                 /\ run'[c].day = run[c].day /\ run'[c].supplier = run[c].supplier
                 /\ run'[c].rows = run[c].rows /\ run'[c].snap = card
                 /\ UNCHANGED <<card, day, listed>>
RunOver(c)    == run'[c].at = "idle"

LEMMA RunSteps ==
    ASSUME LocksInv, [Next]_vars, NEW c \in Runs
    PROVE  RunKept(c) \/ RunStarts(c) \/ RunQueued(c) \/ RunPlanned(c) \/ RunOver(c)
<1>1. TypeInv /\ NoneLockedOut
  BY DEF LocksInv
<1>2. UNCHANGED runVars => RunKept(c)
  BY DEF runVars, RunKept
<1>3. ASSUME NEW d \in Runs, NEW s \in Suppliers, NEW source \in {"link", "file"},
             NEW fields \in FieldChoices, Start(d, s, source, fields)
      PROVE  RunKept(c) \/ RunStarts(c)
  <2> DEFINE row == [at |-> "fetch", supplier |-> s, source |-> source,
                     fields |-> fields, day |-> day]
  <2>1. run' = [run EXCEPT ![d] = row] /\ run[d].at = "idle" /\ UNCHANGED <<card, day, listed>>
    BY <1>3 DEF Start, Run, cardVars, ghosts
  <2>2. row.at = "fetch" /\ row.day = day /\ row.supplier = s
    OBVIOUS
  <2> HIDE DEF row
  <2>3. CASE c = d
    BY <1>1, <2>1, <2>2, <2>3 DEF TypeInv, RunStarts
  <2>4. CASE c # d
    BY <1>1, <2>1, <2>4 DEF TypeInv, RunKept
  <2> QED
    BY <2>3, <2>4
<1>4. ASSUME NEW d \in Runs, NEW rows, NEW others, Fetched(d, rows, others)
      PROVE  RunKept(c) \/ RunQueued(c)
  <2> DEFINE old == run[d]
             row == [at |-> "queued", supplier |-> old.supplier, source |-> old.source,
                     fields |-> old.fields, day |-> old.day, rows |-> rows, others |-> others]
  <2>1. /\ run' = [run EXCEPT ![d] = row] /\ run[d].at = "fetch"
        /\ \A k \in DOMAIN rows : SupplierOf[k] = run[d].supplier
        /\ UNCHANGED <<card, day, listed>>
    BY <1>4 DEF Fetched, cardVars, ghosts
  <2>2. /\ row.at = "queued" /\ row.day = run[d].day /\ row.supplier = run[d].supplier
        /\ row.rows = rows
    OBVIOUS
  <2> HIDE DEF row, old
  <2>3. CASE c = d
    BY <1>1, <2>1, <2>2, <2>3 DEF TypeInv, RunQueued
  <2>4. CASE c # d
    BY <1>1, <2>1, <2>4 DEF TypeInv, RunKept
  <2> QED
    BY <2>3, <2>4
<1>5. ASSUME NEW d \in Runs, Compute(d) PROVE RunKept(c) \/ RunPlanned(c)
  <2> DEFINE old == run[d]
             row == [at |-> "planned", supplier |-> old.supplier, source |-> old.source,
                     fields |-> old.fields, day |-> old.day, rows |-> old.rows,
                     others |-> old.others, snap |-> card]
  <2>1. run' = [run EXCEPT ![d] = row] /\ run[d].at = "queued" /\ entered' = {}
        /\ UNCHANGED <<card, day, listed>>
    BY <1>5 DEF Compute, cardVars
  <2>2. /\ row.at = "planned" /\ row.day = run[d].day /\ row.supplier = run[d].supplier
        /\ row.rows = run[d].rows /\ row.snap = card
    OBVIOUS
  <2> HIDE DEF row, old
  <2>3. CASE c = d
    BY <1>1, <2>1, <2>2, <2>3 DEF TypeInv, RunPlanned
  <2>4. CASE c # d
    BY <1>1, <2>1, <2>4 DEF TypeInv, RunKept
  <2> QED
    BY <2>3, <2>4
<1>6. ASSUME NEW d \in Runs, FetchFails(d) \/ PlanDropped(d) \/ Write(d)
      PROVE  RunKept(c) \/ RunOver(c)
  <2>1. Run(d) /\ Release(d) /\ run[d].at \in {"fetch", "planned"}
    BY <1>6 DEF FetchFails, PlanDropped, Write, Run
  <2> QED
    BY <1>1, <2>1, LocksRelease DEF RunKept, RunOver
<1>7. ASSUME NEW d \in Runs, RunStep(d)
      PROVE  RunKept(c) \/ RunStarts(c) \/ RunQueued(c) \/ RunPlanned(c) \/ RunOver(c)
  BY <1>4, <1>5, <1>6, <1>7 DEF RunStep
<1>8. ASSUME NEW k \in Cards, TouchProduct(k) \/ \E p \in Prices : CreateProduct(k, p)
      PROVE  UNCHANGED runVars
  BY <1>8 DEF TouchProduct, CreateProduct
<1>9. ASSUME NEW e \in Editors, NEW k \in Cards,
             \/ \E p \in Prices : PriceRead(e, k, p)
             \/ \E patch \in {"keep", "archive", "return"}, versioned \in BOOLEAN :
                  CardRead(e, k, patch, versioned)
      PROVE  UNCHANGED runVars
  BY <1>9 DEF PriceRead, CardRead, Begin
<1>10. ASSUME NEW e \in Editors, PriceWrite(e) \/ CardWrite(e) \/ CardStale(e)
       PROVE  UNCHANGED runVars
  BY <1>10 DEF PriceWrite, CardWrite, CardStale
<1>11. NightClear \/ NightArchive \/ NextDay \/ UNCHANGED vars => UNCHANGED runVars
  BY DEF NightClear, NightArchive, NextDay, vars, runVars
<1>12. Restart => RunOver(c)
  BY DEF Restart, RunOver, NoRun
<1> QED
  BY <1>2, <1>3, <1>7, <1>8, <1>9, <1>10, <1>11, <1>12 DEF Next

\* What a step does to a card: it goes back to no earlier version, and changes the
\* price, or counts as having an entered price, with a new version only.
CardAdvances(k) ==
    /\ card[k].version <= card'[k].version
    /\ card'[k].version = card[k].version =>
          card'[k].price = card[k].price /\ (k \in entered' => k \in entered)
    /\ Blank(card'[k])

LEMMA CardSteps ==
    ASSUME TypeInv, SnapInv, [Next]_vars, NEW k \in Cards
    PROVE  CardAdvances(k)
<1>1. /\ card[k] \in Card /\ card[k].version \in Nat /\ Blank(card[k])
      /\ card[k].missing \in Nat
  <2>1. card[k] \in Card
    BY DEF TypeInv
  <2> QED
    BY <2>1, LastDay DEF Card, SnapInv
<1>2. card' = card /\ entered' \subseteq entered => CardAdvances(k)
  BY <1>1 DEF CardAdvances
<1>3. ASSUME NEW c \in Runs, Write(c) PROVE CardAdvances(k)
  <2> DEFINE r == run[c]
  <2>1. entered' = entered /\ r.at = "planned" /\ r \in PlannedRun
    BY <1>3, PlannedTyped DEF Write
  <2>2. \/ card[k].version = 0 /\ card'[k].version = 1
        \/ card'[k].version = card[k].version + 1
        \/ /\ card'[k].version = card[k].version
           /\ card'[k].price = card[k].price
           /\ card'[k].missing = MarkOf(r, k, card[k].missing)
    BY <1>3, WriteEffects
  <2>3. card[k].version = 0 => k \notin MissingMarks(r)
    <3>1. r.snap[k].version <= card[k].version /\ r.snap[k] \in Card
      BY <2>1 DEF SnapInv, PlannedRun
    <3>2. r.snap[k].version \in Nat
      BY <3>1 DEF Card
    <3> HIDE DEF r
    <3>3. card[k].version = 0 => k \notin Known(r)
      BY <3>1, <3>2 DEF Known
    <3> QED
      BY <3>3 DEF MissingMarks
  <2>4. card[k].version = 0 /\ card[k].missing = 0 => MarkOf(r, k, card[k].missing) = 0
    BY <2>3 DEF MarkOf
  <2> HIDE DEF r
  <2> QED
    BY <1>1, <2>1, <2>2, <2>4 DEF CardAdvances, Blank
<1>4. ASSUME NEW j \in Cards, TouchProduct(j) PROVE CardAdvances(k)
  <2>1. entered' = entered
    BY <1>4 DEF TouchProduct, ghosts
  <2>2. k = j => card'[k].version = card[k].version + 1
    BY <1>4, TouchEffects
  <2>3. k # j => card'[k] = card[k]
    BY <1>4, TouchEffects
  <2> QED
    BY <1>1, <2>1, <2>2, <2>3 DEF CardAdvances, Blank
<1>5. ASSUME NEW j \in Cards, NEW p \in Prices, CreateProduct(j, p) PROVE CardAdvances(k)
  <2>1. entered' = entered \cup {j}
    BY <1>5 DEF CreateProduct
  <2>2. k = j => card[k].version = 0 /\ card'[k].version = 1
    BY <1>5, CreateEffects
  <2>3. k # j => card'[k] = card[k]
    BY <1>5, CreateEffects
  <2> QED
    BY <1>1, <2>1, <2>2, <2>3 DEF CardAdvances, Blank
<1>6. ASSUME NEW e \in Editors, PriceWrite(e) PROVE CardAdvances(k)
  <2> DEFINE j == edit[e].card
  <2>1. entered' = entered \cup {j}
    BY <1>6 DEF PriceWrite
  <2>2. k = j => card'[k].version = card[k].version + 1
    BY <1>6, PriceEffects
  <2>3. k # j => card'[k] = card[k]
    BY <1>6, PriceEffects
  <2> HIDE DEF j
  <2> QED
    BY <1>1, <2>1, <2>2, <2>3 DEF CardAdvances, Blank
<1>7. ASSUME NEW e \in Editors, CardWrite(e) PROVE CardAdvances(k)
  <2> DEFINE j == edit[e].card
  <2>1. entered' = entered
    BY <1>7 DEF CardWrite
  <2>2. k = j => card'[k].version = card[k].version + 1
    BY <1>7, CardEffects
  <2>3. k # j => card'[k] = card[k]
    BY <1>7, CardEffects
  <2> HIDE DEF j
  <2> QED
    BY <1>1, <2>1, <2>2, <2>3 DEF CardAdvances, Blank
<1>8. ASSUME NightClear \/ NightArchive PROVE CardAdvances(k)
  <2>1. entered' = entered
    BY <1>8 DEF NightClear, NightArchive, ghosts
  <2> QED
    BY <1>1, <1>8, <2>1, NightEffects DEF CardAdvances, Blank
<1>9. ASSUME NEW c \in Runs, RunStep(c) PROVE CardAdvances(k)
  <2>1. ASSUME NEW rows, NEW others, Fetched(c, rows, others) PROVE card' = card /\ entered' = entered
    BY <2>1 DEF Fetched, cardVars, ghosts
  <2>2. FetchFails(c) \/ PlanDropped(c) \/ Compute(c) => card' = card /\ entered' \subseteq entered
    BY DEF FetchFails, PlanDropped, Compute, cardVars, ghosts
  <2> QED
    BY <1>2, <1>3, <1>9, <2>1, <2>2 DEF RunStep
<1>10. ASSUME NEW e \in Editors, NEW j \in Cards,
              \/ \E p \in Prices : PriceRead(e, j, p)
              \/ \E patch \in {"keep", "archive", "return"}, versioned \in BOOLEAN :
                  CardRead(e, j, patch, versioned)
       PROVE  card' = card /\ entered' = entered
  BY <1>10 DEF PriceRead, CardRead, Begin, cardVars, ghosts
<1>11. ASSUME NEW c \in Runs, NEW s \in Suppliers, NEW source \in {"link", "file"},
              NEW fields \in FieldChoices, Start(c, s, source, fields)
       PROVE  card' = card /\ entered' = entered
  BY <1>11 DEF Start, cardVars, ghosts
<1>12. \A e \in Editors : CardStale(e) => card' = card /\ entered' = entered
  BY DEF CardStale, cardVars, ghosts
<1>13. NextDay \/ Restart \/ UNCHANGED vars => card' = card /\ entered' = entered
  BY DEF NextDay, Restart, vars, cardVars, ghosts
<1> QED
  BY <1>2, <1>4, <1>5, <1>6, <1>7, <1>8, <1>9, <1>10, <1>11, <1>12, <1>13 DEF Next

PlansInv == LocksInv /\ SnapInv

LEMMA PlansNext == ASSUME PlansInv, [Next]_vars PROVE PlansInv'
<1>1. TypeInv /\ LocksInv /\ SnapInv /\ LocksInv' /\ TypeInv'
  BY LocksNext DEF PlansInv, LocksInv
<1>2. \A k \in Cards : CardAdvances(k)
  BY <1>1, CardSteps
<1>3. \A k \in Cards : card[k].version \in Nat /\ card'[k].version \in Nat
  BY <1>1 DEF TypeInv, Card
<1>4. \A k \in Cards : Blank(card'[k])
  BY <1>2 DEF CardAdvances
<1>5. ASSUME NEW c \in Runs, run'[c].at = "planned", NEW k \in Cards
      PROVE  /\ Blank(run'[c].snap[k])
             /\ run'[c].snap[k].version <= card'[k].version
             /\ k \in entered' => run'[c].snap[k].version < card'[k].version
             /\ run'[c].snap[k].version = card'[k].version => run'[c].snap[k].price = card'[k].price
  <2>1. RunKept(c) \/ RunPlanned(c)
    BY <1>1, <1>5, RunSteps DEF RunStarts, RunQueued, RunOver
  <2>2. CASE RunKept(c)
    <3> DEFINE old == run[c].snap[k]
    <3>1. run'[c] = run[c] /\ run[c].at = "planned" /\ run'[c].snap[k] = old
      BY <1>5, <2>2 DEF RunKept
    <3>2. old \in Card
      BY <1>1, <3>1, PlannedTyped DEF PlannedRun
    <3>3. old.version \in Nat
      BY <3>2 DEF Card
    <3>4. /\ Blank(old)
          /\ old.version <= card[k].version
          /\ k \in entered => old.version < card[k].version
          /\ old.version = card[k].version => old.price = card[k].price
      BY <1>1, <3>1 DEF SnapInv
    <3>5. /\ card[k].version <= card'[k].version
          /\ card'[k].version = card[k].version =>
                card'[k].price = card[k].price /\ (k \in entered' => k \in entered)
      BY <1>2 DEF CardAdvances
    <3> HIDE DEF old
    <3> QED
      BY <1>3, <3>1, <3>3, <3>4, <3>5
  <2>3. CASE RunPlanned(c)
    <3>1. run'[c].snap[k] = card[k] /\ card'[k] = card[k] /\ entered' = {}
      BY <2>3 DEF RunPlanned
    <3> QED
      BY <1>1, <1>3, <3>1 DEF SnapInv
  <2> QED
    BY <2>1, <2>2, <2>3
<1>6. SnapInv'
  BY <1>4, <1>5 DEF SnapInv
<1> QED
  BY <1>1, <1>6 DEF PlansInv

LEMMA PlansInit == ASSUME Init PROVE PlansInv
<1>1. PICK K \in SUBSET Cards, p \in Prices :
          card = [k \in Cards |-> IF k \in K
              THEN [NoCard EXCEPT !.version = 1, !.price = p, !.origin = "import"] ELSE NoCard]
  BY DEF Init
<1> DEFINE old == [NoCard EXCEPT !.version = 1, !.price = p, !.origin = "import"]
<1>2. Blank(NoCard) /\ old.version = 1
  BY DEF NoCard, Blank
<1>3. \A k \in Cards : card[k] = old \/ card[k] = NoCard
  BY <1>1
<1> HIDE DEF old
<1>4. \A k \in Cards : Blank(card[k])
  BY <1>2, <1>3 DEF Blank
<1>5. \A c \in Runs : run[c].at = "idle"
  BY DEF Init, NoRun
<1> QED
  BY <1>4, <1>5, LocksInit DEF PlansInv, SnapInv

\* The only steps that end a planned run and touch the cards are its writes.
LEMMA PlanEnds ==
    ASSUME LocksInv, [Next]_vars, NEW c \in Runs, run[c].at = "planned", run'[c].at = "idle"
    PROVE  Write(c) \/ UNCHANGED <<card, recorded>>
<1>1. TypeInv /\ NoneLockedOut
  BY DEF LocksInv
<1>2. UNCHANGED run => FALSE
  OBVIOUS
<1>3. ASSUME NEW d \in Runs, NEW s \in Suppliers, NEW source \in {"link", "file"},
             NEW fields \in FieldChoices, Start(d, s, source, fields)
      PROVE  UNCHANGED <<card, recorded>>
  BY <1>3 DEF Start, cardVars
<1>4. ASSUME NEW d \in Runs, RunStep(d) PROVE Write(c) \/ UNCHANGED <<card, recorded>>
  <2>1. ASSUME NEW rows, NEW others, Fetched(d, rows, others) PROVE UNCHANGED <<card, recorded>>
    BY <2>1 DEF Fetched, cardVars
  <2>2. FetchFails(d) \/ PlanDropped(d) \/ Compute(d) => UNCHANGED <<card, recorded>>
    BY DEF FetchFails, PlanDropped, Compute, cardVars
  <2>3. Write(d) => d = c
    BY <1>1, OnePlan DEF Write
  <2> QED
    BY <1>4, <2>1, <2>2, <2>3 DEF RunStep
<1>5. ASSUME NEW k \in Cards, TouchProduct(k) \/ \E p \in Prices : CreateProduct(k, p)
      PROVE  UNCHANGED run
  BY <1>5 DEF TouchProduct, CreateProduct, runVars
<1>6. ASSUME NEW e \in Editors, NEW k \in Cards,
             \/ \E p \in Prices : PriceRead(e, k, p)
             \/ \E patch \in {"keep", "archive", "return"}, versioned \in BOOLEAN :
                  CardRead(e, k, patch, versioned)
      PROVE  UNCHANGED run
  BY <1>6 DEF PriceRead, CardRead, Begin, runVars
<1>7. ASSUME NEW e \in Editors, PriceWrite(e) \/ CardWrite(e) \/ CardStale(e)
      PROVE  UNCHANGED run
  BY <1>7 DEF PriceWrite, CardWrite, CardStale, runVars
<1>8. NightClear \/ NightArchive \/ NextDay \/ UNCHANGED vars => UNCHANGED run
  BY DEF NightClear, NightArchive, NextDay, vars, runVars
<1>9. Restart => UNCHANGED <<card, recorded>>
  BY DEF Restart, cardVars
<1> QED
  BY <1>2, <1>3, <1>4, <1>5, <1>6, <1>7, <1>8, <1>9 DEF Next

ManualPriceStep ==
    \A c \in Runs : (run[c].at = "planned" /\ run'[c].at = "idle") =>
        \A k \in entered : card'[k].price = card[k].price

LEMMA ManualPriceSteps == ASSUME PlansInv, [Next]_vars PROVE ManualPriceStep
<1> SUFFICES ASSUME NEW c \in Runs, run[c].at = "planned", run'[c].at = "idle",
                    NEW k \in entered
             PROVE  card'[k].price = card[k].price
  BY DEF ManualPriceStep
<1> DEFINE r == run[c]
<1>1. TypeInv /\ LocksInv /\ SnapInv /\ k \in Cards
  BY DEF PlansInv, LocksInv, TypeInv
<1>2. CASE Write(c)
  <2>1. r \in PlannedRun /\ r.snap[k].version < card[k].version
    BY <1>1, PlannedTyped DEF SnapInv
  <2>2. r.snap[k] \in Card /\ card[k] \in Card
    BY <1>1, <2>1 DEF PlannedRun, TypeInv
  <2>3. r.snap[k].version \in Nat /\ card[k].version \in Nat
    BY <2>2 DEF Card
  <2>4. k \notin Updates(r) \ EditedSincePlan(r) /\ card[k].version # 0
    BY <2>1, <2>3 DEF EditedSincePlan
  <2> HIDE DEF r
  <2>5. card'[k].price = card[k].price
    BY <1>1, <1>2, <2>4, WriteEffects DEF r
  <2> QED
    BY <2>5
<1>3. CASE UNCHANGED <<card, recorded>>
  BY <1>3
<1> QED
  BY <1>1, <1>2, <1>3, PlanEnds

\* A price that a manager entered while a plan was being computed outlives the
\* plan: its card has a newer version than the plan knows, and the update of a
\* plan is for the version it knows (editedSincePlan).
THEOREM ManualPricesAreKept == Spec => ManualPriceKept
<1>1. PlansInv /\ [Next]_vars => [ManualPriceStep]_vars
  BY ManualPriceSteps
<1>2. PlansInv /\ [Next]_vars => PlansInv'
  BY PlansNext
<1>3. Spec => [][ManualPriceStep]_vars
  BY <1>1, <1>2, PlansInit, PTL DEF Spec
<1> QED
  BY <1>3 DEF ManualPriceKept, ManualPriceStep

HistoryStep ==
    \A c \in Runs : (run[c].at = "planned" /\ run'[c].at = "idle") =>
        \A k \in Cards : (card'[k].price # card[k].price \/ recorded'[k] # recorded[k]) =>
            recorded'[k] = card'[k].price

LEMMA HistorySteps == ASSUME PlansInv, [Next]_vars PROVE HistoryStep
<1> SUFFICES ASSUME NEW c \in Runs, run[c].at = "planned", run'[c].at = "idle",
                    NEW k \in Cards,
                    card'[k].price # card[k].price \/ recorded'[k] # recorded[k]
             PROVE  recorded'[k] = card'[k].price
  BY DEF HistoryStep
<1> DEFINE r == run[c]
<1>1. TypeInv /\ LocksInv /\ SnapInv
  BY DEF PlansInv, LocksInv
<1>2. Write(c)
  BY <1>1, PlanEnds
<1>3. r \in PlannedRun /\ Blank(card[k])
      /\ (r.snap[k].version = card[k].version => r.snap[k].price = card[k].price)
  BY <1>1, PlannedTyped DEF SnapInv
<1>4. recorded'[k] = IF k \in Records(r) THEN Planned(r, k).price ELSE recorded[k]
  BY <1>2 DEF Write
<1>5. \/ /\ k \in Creates(r) /\ card[k].version = 0 /\ card'[k].price = r.rows[k]
      \/ /\ k \in Updates(r) \ EditedSincePlan(r) /\ k \notin Creates(r)
         /\ card'[k].price = NextCard(r, k).price
      \/ /\ k \notin Updates(r) \ EditedSincePlan(r) /\ k \notin Creates(r)
         /\ card'[k].price = card[k].price
  BY <1>1, <1>2, WriteEffects
<1> HIDE DEF r
<1>6. CASE k \in Creates(r)
  <2>1. Planned(r, k).price = r.rows[k] /\ k \notin Updates(r)
    BY <1>3, <1>6, NewCards DEF Creates, Updates, Found
  <2>2. card[k].price = 0 /\ card'[k].price = r.rows[k]
    BY <1>3, <1>5, <1>6, <2>1 DEF Blank
  <2>3. k \in Records(r) => recorded'[k] = r.rows[k]
    BY <1>4, <2>1
  <2>4. k \notin Records(r) => r.rows[k] = 0
    BY <1>6 DEF Records
  <2> QED
    BY <1>4, <2>2, <2>3, <2>4
<1>7. CASE k \notin Creates(r) /\ k \in Updates(r) \ EditedSincePlan(r)
  <2>1. card'[k].price = NextCard(r, k).price /\ Planned(r, k) = NextCard(r, k)
    BY <1>5, <1>7 DEF Planned
  <2>2. r.snap[k].price = card[k].price
    BY <1>3, <1>7 DEF EditedSincePlan
  <2>3. k \in Records(r) <=> NextCard(r, k).price # r.snap[k].price
    BY <1>7 DEF Records, Repriced, Updates
  <2> QED
    BY <1>4, <2>1, <2>2, <2>3
<1>8. CASE k \notin Creates(r) /\ k \notin Updates(r) \ EditedSincePlan(r)
  <2>1. k \notin Records(r)
    BY <1>8 DEF Records, Repriced, Updates
  <2> QED
    BY <1>4, <1>5, <1>8, <2>1
<1> QED
  BY <1>6, <1>7, <1>8

\* The price history that an update writes is that of the prices it sets: a row
\* is left out where, and only where, the price of the card is left alone.
THEOREM HistoryIsOfImports == Spec => HistoryOfImports
<1>1. PlansInv /\ [Next]_vars => [HistoryStep]_vars
  BY HistorySteps
<1>2. PlansInv /\ [Next]_vars => PlansInv'
  BY PlansNext
<1>3. Spec => [][HistoryStep]_vars
  BY <1>1, <1>2, PlansInit, PTL DEF Spec
<1> QED
  BY <1>3 DEF HistoryOfImports, HistoryStep

-----------------------------------------------------------------------------
(* How long cards have been missing *)

\* What the steps other than an update's write, a manager's write and midnight do
MissingStays ==
    /\ UNCHANGED <<day, listed, returned>>
    /\ \A k \in Cards : card'[k].missing \in {card[k].missing, 0}

LEMMA MissingSteps ==
    ASSUME TypeInv, [Next]_vars
    PROVE  \/ \E c \in Runs : Write(c)
           \/ \E e \in Editors : CardWrite(e)
           \/ NextDay
           \/ MissingStays
<1>1. UNCHANGED <<card, day, listed, returned>> => MissingStays
  BY DEF MissingStays
<1>2. ASSUME NEW c \in Runs, RunStep(c) PROVE Write(c) \/ MissingStays
  <2>1. ASSUME NEW rows, NEW others, Fetched(c, rows, others) PROVE MissingStays
    BY <1>1, <2>1 DEF Fetched, cardVars, ghosts
  <2>2. FetchFails(c) \/ PlanDropped(c) \/ Compute(c) => MissingStays
    BY <1>1 DEF FetchFails, PlanDropped, Compute, cardVars, ghosts
  <2> QED
    BY <1>2, <2>1, <2>2 DEF RunStep
<1>3. ASSUME NEW j \in Cards, TouchProduct(j) PROVE MissingStays
  <2>1. UNCHANGED <<day, listed, returned>>
    BY <1>3 DEF TouchProduct, ghosts
  <2>2. \A k \in Cards : card'[k].missing = card[k].missing
    BY <1>3, TouchEffects
  <2> QED
    BY <2>1, <2>2 DEF MissingStays
<1>4. ASSUME NEW j \in Cards, NEW p \in Prices, CreateProduct(j, p) PROVE MissingStays
  <2>1. UNCHANGED <<day, listed, returned>>
    BY <1>4 DEF CreateProduct
  <2>2. card'[j].missing = 0 /\ \A k \in Cards \ {j} : card'[k].missing = card[k].missing
    BY <1>4, CreateEffects
  <2> QED
    BY <2>1, <2>2 DEF MissingStays
<1>5. ASSUME NEW e \in Editors, PriceWrite(e) PROVE MissingStays
  <2>1. UNCHANGED <<day, listed, returned>>
    BY <1>5 DEF PriceWrite
  <2>2. \A k \in Cards : card'[k].missing = card[k].missing
    BY <1>5, PriceEffects
  <2> QED
    BY <2>1, <2>2 DEF MissingStays
<1>6. ASSUME NightClear \/ NightArchive PROVE MissingStays
  <2>1. UNCHANGED <<day, listed, returned>>
    BY <1>6 DEF NightClear, NightArchive, ghosts
  <2>2. \A k \in Cards : card'[k].missing = card[k].missing
    BY <1>6, NightEffects
  <2> QED
    BY <2>1, <2>2 DEF MissingStays
<1>7. ASSUME NEW e \in Editors, NEW j \in Cards,
             \/ \E p \in Prices : PriceRead(e, j, p)
             \/ \E patch \in {"keep", "archive", "return"}, versioned \in BOOLEAN :
                  CardRead(e, j, patch, versioned)
      PROVE  MissingStays
  BY <1>1, <1>7 DEF PriceRead, CardRead, Begin, cardVars, ghosts
<1>8. ASSUME NEW c \in Runs, NEW s \in Suppliers, NEW source \in {"link", "file"},
             NEW fields \in FieldChoices, Start(c, s, source, fields)
      PROVE  MissingStays
  BY <1>1, <1>8 DEF Start, cardVars, ghosts
<1>9. \A e \in Editors : CardStale(e) => MissingStays
  BY <1>1 DEF CardStale, cardVars, ghosts
<1>10. Restart \/ UNCHANGED vars => MissingStays
  BY <1>1 DEF Restart, vars, cardVars, ghosts
<1> QED
  BY <1>2, <1>3, <1>4, <1>5, <1>6, <1>7, <1>8, <1>9, <1>10 DEF Next

\* A call on a card that is under way after a step was so before it, or has just
\* read the card.
LEMMA EditSteps ==
    ASSUME TypeInv, [Next]_vars, NEW e \in Editors, edit'[e].fn = "card"
    PROVE  \/ edit'[e] = edit[e]
           \/ edit'[e].saw = card'[edit'[e].card] /\ UNCHANGED <<card, day>>
<1> DEFINE Goal == \/ edit'[e] = edit[e]
                   \/ edit'[e].saw = card'[edit'[e].card] /\ UNCHANGED <<card, day>>
<1>1. UNCHANGED edit => Goal
  OBVIOUS
<1>2. ASSUME NEW d \in Editors, NEW k \in Cards, NEW p \in Prices, PriceRead(d, k, p)
      PROVE  Goal
  <2> DEFINE call == [fn |-> "price", card |-> k, price |-> p, saw |-> card[k].price]
  <2>1. edit' = [edit EXCEPT ![d] = call]
    BY <1>2 DEF PriceRead, Begin
  <2>2. call.fn = "price"
    OBVIOUS
  <2> HIDE DEF call
  <2> QED
    BY <2>1, <2>2 DEF TypeInv
<1>3. ASSUME NEW d \in Editors, NEW k \in Cards, NEW patch, NEW versioned,
             CardRead(d, k, patch, versioned)
      PROVE  Goal
  <2> DEFINE call == [fn |-> "card", card |-> k, patch |-> patch, saw |-> card[k],
                    version |-> IF versioned THEN card[k].version ELSE 0]
  <2>1. edit' = [edit EXCEPT ![d] = call] /\ UNCHANGED <<card, day>>
    BY <1>3 DEF CardRead, Begin, cardVars
  <2>2. call.saw = card[k] /\ call.card = k
    OBVIOUS
  <2> HIDE DEF call
  <2> QED
    BY <2>1, <2>2 DEF TypeInv
<1>4. ASSUME NEW d \in Editors, PriceWrite(d) \/ CardWrite(d) \/ CardStale(d) PROVE Goal
  <2>1. edit' = [edit EXCEPT ![d] = NoEdit]
    BY <1>4 DEF PriceWrite, CardWrite, CardStale, End
  <2>2. NoEdit.fn # "card"
    BY DEF NoEdit
  <2> QED
    BY <2>1, <2>2 DEF TypeInv
<1>5. ASSUME NEW c \in Runs, RunStep(c) PROVE UNCHANGED edit
  BY <1>5 DEF RunStep, Fetched, FetchFails, Compute, PlanDropped, Write
<1>6. ASSUME NEW c \in Runs, NEW s \in Suppliers, NEW source \in {"link", "file"},
             NEW fields \in FieldChoices, Start(c, s, source, fields)
      PROVE  UNCHANGED edit
  BY <1>6 DEF Start
<1>7. ASSUME NEW k \in Cards, TouchProduct(k) \/ \E p \in Prices : CreateProduct(k, p)
      PROVE  UNCHANGED edit
  BY <1>7 DEF TouchProduct, CreateProduct
<1>8. NightClear \/ NightArchive \/ NextDay \/ UNCHANGED vars => UNCHANGED edit
  BY DEF NightClear, NightArchive, NextDay, vars
<1>9. ~Restart
  BY DEF Restart, NoEdit
<1> HIDE DEF Goal
<1>10. Goal
  BY <1>1, <1>2, <1>3, <1>4, <1>5, <1>6, <1>7, <1>8, <1>9 DEF Next
<1> QED
  BY <1>10 DEF Goal

DaysInv == PlansInv /\ RowsInv /\ MissingInv /\ RunDays /\ SinceInv

LEMMA RowsNext == ASSUME DaysInv, [Next]_vars PROVE RowsInv'
<1> SUFFICES ASSUME NEW c \in Runs, run'[c].at \in {"queued", "planned"},
                    NEW k \in DOMAIN run'[c].rows
             PROVE  SupplierOf[k] = run'[c].supplier
  BY DEF RowsInv
<1>1. RunKept(c) \/ RunQueued(c) \/ RunPlanned(c)
  BY RunSteps DEF DaysInv, PlansInv, RunStarts, RunOver
<1> QED
  BY <1>1 DEF DaysInv, RowsInv, RunKept, RunQueued, RunPlanned

\* The days as numbers
LEMMA Days ==
    ASSUME TypeInv
    PROVE  /\ day \in Nat /\ day >= 1
           /\ \A k \in Cards : card[k].missing \in Nat /\ listed[k] \in Nat /\ returned[k] \in Nat
           /\ \A c \in Runs : Run(c) => run[c].day \in Nat
<1>1. day \in Nat /\ day >= 1
  BY LastDay DEF TypeInv
<1>2. ASSUME NEW k \in Cards
      PROVE  card[k].missing \in Nat /\ listed[k] \in Nat /\ returned[k] \in Nat
  <2>1. card[k] \in Card /\ listed[k] \in 0 .. MaxDay /\ returned[k] \in 0 .. MaxDay
    BY DEF TypeInv
  <2> QED
    BY <2>1, LastDay DEF Card
<1>3. \A c \in Runs : Run(c) => run[c].day \in Nat
  BY RunTyped, LastDay
<1> QED
  BY <1>1, <1>2, <1>3

\* The last day of a list, after an update: it is of the run's supplier only.
LEMMA WriteLists ==
    ASSUME DaysInv, NEW c \in Runs, Write(c), NEW k \in Cards
    PROVE  /\ UNCHANGED <<day, returned, edit>>
           /\ \/ listed'[k] = listed[k]
              \/ /\ listed'[k] = run[c].day /\ SupplierOf[k] = run[c].supplier
                 /\ k \in Listed(run[c]) /\ Does(run[c], "assortment")
<1> DEFINE r == run[c]
<1>1. r.at = "planned" /\ \A j \in Listed(r) : SupplierOf[j] = r.supplier
  BY DEF Write, DaysInv, RowsInv, Listed
<1>2. listed' = [j \in Cards |-> IF Does(r, "assortment") /\ j \in Listed(r)
                                 THEN r.day ELSE listed[j]]
  BY DEF Write
<1> HIDE DEF r
<1>3. \/ listed'[k] = listed[k]
      \/ listed'[k] = r.day /\ SupplierOf[k] = r.supplier /\ k \in Listed(r) /\ Does(r, "assortment")
  BY <1>1, <1>2
<1> QED
  BY <1>3 DEF Write, r

LEMMA RunDaysNext == ASSUME DaysInv, [Next]_vars PROVE RunDays'
<1>1. LocksInv /\ TypeInv /\ NoneLockedOut /\ RunDays
  BY DEF DaysInv, PlansInv, LocksInv
<1> SUFFICES ASSUME NEW c \in Runs, run'[c].at # "idle"
             PROVE  /\ run'[c].day <= day' /\ day' <= run'[c].day + 1
                    /\ \A k \in Cards : SupplierOf[k] = run'[c].supplier => listed'[k] <= run'[c].day
  BY DEF RunDays, Run
<1>2. CASE RunStarts(c)
  BY <1>1, <1>2, Days DEF RunStarts, DaysInv, MissingInv
<1>3. CASE RunQueued(c)
  BY <1>1, <1>3 DEF RunQueued, RunDays, Run
<1>4. CASE RunPlanned(c)
  BY <1>1, <1>4 DEF RunPlanned, RunDays, Run
<1>5. CASE RunKept(c)
  <2>1. /\ Run(c) /\ run'[c] = run[c]
        /\ run[c].day <= day /\ day <= run[c].day + 1
        /\ \A k \in Cards : SupplierOf[k] = run[c].supplier => listed[k] <= run[c].day
    BY <1>1, <1>5 DEF RunKept, RunDays, Run
  <2>2. ASSUME NEW d \in Runs, Write(d)
        PROVE  day' = day /\ \A k \in Cards : SupplierOf[k] = run[c].supplier => listed'[k] = listed[k]
    <3>1. Run(d) /\ Release(d) /\ run[d].at \in {"fetch", "planned"}
      BY <2>2 DEF Write, Run
    <3>2. c # d
      BY <1>1, <3>1, LocksRelease
    <3>3. run[c].supplier # run[d].supplier
      BY <1>1, <2>1, <3>1, <3>2 DEF NoneLockedOut
    <3>4. day' = day
      BY <2>2 DEF Write
    <3> QED
      BY <2>2, <3>3, <3>4, WriteLists
  <2>3. ASSUME NEW e \in Editors, CardWrite(e) PROVE UNCHANGED <<day, listed>>
    BY <2>3 DEF CardWrite
  <2>4. NextDay => run[c].day = day /\ day' = day + 1 /\ listed' = listed
    BY <2>1 DEF NextDay, ghosts
  <2>5. MissingStays => UNCHANGED <<day, listed>>
    BY DEF MissingStays
  <2> QED
    BY <1>1, <2>1, <2>2, <2>3, <2>4, <2>5, MissingSteps, Days
<1>6. ~RunOver(c)
  BY DEF RunOver
<1> QED
  BY <1>1, <1>2, <1>3, <1>4, <1>5, <1>6, RunSteps

\* A card of an update's list that is missing and stays so became missing after
\* the plan was computed, not before the day the update began.
LEMMA ListedLater ==
    ASSUME DaysInv, NEW c \in Runs, run[c].at = "planned", NEW k \in Cards,
           k \in Listed(run[c]), Does(run[c], "assortment"), card[k].missing # 0,
           k \notin MissingClears(run[c])
    PROVE  run[c].day <= card[k].missing
<1> DEFINE r == run[c]
<1>1. r \in PlannedRun /\ Blank(r.snap[k]) /\ SupplierOf[k] = r.supplier
  BY PlannedTyped DEF DaysInv, PlansInv, LocksInv, SnapInv, RowsInv, Listed
<1>2. r.snap[k].version \in Nat
  BY <1>1 DEF PlannedRun, Card
<1>3. r.snap[k].missing = 0
  <2>1. CASE k \in Known(r)
    BY <2>1 DEF MissingClears, Found
  <2>2. CASE k \notin Known(r)
    BY <1>1, <1>2, <2>2 DEF Known, Blank
  <2> QED
    BY <2>1, <2>2
<1> QED
  BY <1>3 DEF DaysInv, SinceInv

LEMMA MissingNext == ASSUME DaysInv, [Next]_vars PROVE MissingInv'
<1>1. TypeInv /\ MissingInv /\ RunDays
  BY DEF DaysInv, PlansInv, LocksInv
<1> SUFFICES ASSUME NEW k \in Cards
             PROVE  /\ listed'[k] <= day' /\ returned'[k] <= day'
                    /\ card'[k].missing # 0 => /\ listed'[k] <= card'[k].missing
                                               /\ returned'[k] <= card'[k].missing + 1
  BY DEF MissingInv
<1>2. /\ day \in Nat /\ card[k].missing \in Nat /\ listed[k] \in Nat /\ returned[k] \in Nat
      /\ listed[k] <= day /\ returned[k] <= day
      /\ card[k].missing # 0 => listed[k] <= card[k].missing /\ returned[k] <= card[k].missing + 1
  BY <1>1, Days DEF MissingInv
<1>3. ASSUME NEW c \in Runs, Write(c)
      PROVE  /\ listed'[k] <= day' /\ returned'[k] <= day'
             /\ card'[k].missing # 0 => /\ listed'[k] <= card'[k].missing
                                        /\ returned'[k] <= card'[k].missing + 1
  <2> DEFINE r == run[c]
  <2>1. r.at = "planned" /\ Run(c)
    BY <1>3 DEF Write, Run
  <2>2. r.day \in Nat /\ r.day <= day /\ day <= r.day + 1
        /\ (SupplierOf[k] = r.supplier => listed[k] <= r.day)
    BY <1>1, <2>1, Days DEF RunDays
  <2>3. /\ day' = day /\ returned' = returned
        /\ \/ listed'[k] = listed[k]
           \/ listed'[k] = r.day /\ k \in Listed(r) /\ Does(r, "assortment")
    BY <1>3, WriteLists
  <2>4. card'[k].missing = 0 \/ card'[k].missing = MarkOf(r, k, card[k].missing)
    BY <1>1, <1>3, WriteEffects
  <2>5. k \in MissingMarks(r) => k \notin Listed(r) /\ SupplierOf[k] = r.supplier
    BY DEF MissingMarks, Known, Found
  <2>6. /\ k \in MissingClears(r) => MarkOf(r, k, card[k].missing) = 0
        /\ k \notin MissingClears(r) /\ k \in MissingMarks(r) /\ card[k].missing = 0
              => MarkOf(r, k, card[k].missing) = r.day
        /\ k \notin MissingClears(r) /\ (k \notin MissingMarks(r) \/ card[k].missing # 0)
              => MarkOf(r, k, card[k].missing) = card[k].missing
    <3>1. k \in MissingClears(r) => k \notin MissingMarks(r)
      BY DEF MissingClears, MissingMarks
    <3> HIDE DEF r
    <3> QED
      BY <3>1 DEF MarkOf
  <2>7. k \in Listed(r) /\ Does(r, "assortment") /\ card[k].missing # 0 /\ k \notin MissingClears(r)
        => r.day <= card[k].missing
    BY <2>1, ListedLater
  <2> HIDE DEF r
  <2>8. listed'[k] <= day' /\ returned'[k] <= day'
    BY <1>2, <2>2, <2>3
  <2>9. ASSUME card'[k].missing # 0
        PROVE  listed'[k] <= card'[k].missing /\ returned'[k] <= card'[k].missing + 1
    <3>1. card'[k].missing = MarkOf(r, k, card[k].missing) /\ k \notin MissingClears(r)
      BY <2>4, <2>6, <2>9
    <3>2. CASE k \in MissingMarks(r) /\ card[k].missing = 0
      BY <1>2, <2>2, <2>3, <2>5, <2>6, <3>1, <3>2
    <3>3. CASE k \notin MissingMarks(r) \/ card[k].missing # 0
      BY <1>2, <2>2, <2>3, <2>6, <2>7, <2>9, <3>1, <3>3
    <3> QED
      BY <3>2, <3>3
  <2> QED
    BY <2>8, <2>9
<1>4. ASSUME NEW e \in Editors, CardWrite(e)
      PROVE  /\ listed'[k] <= day' /\ returned'[k] <= day'
             /\ card'[k].missing # 0 => /\ listed'[k] <= card'[k].missing
                                        /\ returned'[k] <= card'[k].missing + 1
  <2> DEFINE w == edit[e]
  <2>1. /\ UNCHANGED <<day, listed>>
        /\ returned' = IF w.patch = "return" /\ w.saw.archived
                       THEN [returned EXCEPT ![w.card] = day] ELSE returned
    BY <1>4 DEF CardWrite
  <2>2. /\ w \in CardCall
        /\ k = w.card => card'[k].missing = IF w.patch = "return" /\ w.saw.archived /\ w.saw.missing # 0
                                            THEN day ELSE card[k].missing
        /\ k # w.card => card'[k] = card[k]
    BY <1>1, <1>4, CardEffects
  <2>3. k = w.card /\ w.saw.missing = 0 /\ card[k].missing # 0 => day <= card[k].missing + 1
    BY <2>2 DEF DaysInv, SinceInv, CardCall
  <2>4. returned \in [Cards -> 0 .. MaxDay]
    BY <1>1 DEF TypeInv
  <2> HIDE DEF w
  <2>5. CASE k # w.card
    <3>1. returned'[k] = returned[k] /\ card'[k] = card[k]
      BY <2>1, <2>2, <2>4, <2>5
    <3> QED
      BY <1>2, <2>1, <3>1
  <2>6. CASE k = w.card
    <3>1. returned'[k] = IF w.patch = "return" /\ w.saw.archived THEN day ELSE returned[k]
      BY <2>1, <2>4, <2>6
    <3> QED
      BY <1>2, <2>1, <2>2, <2>3, <2>6, <3>1
  <2> QED
    BY <2>5, <2>6
<1>5. NextDay => day' = day + 1 /\ UNCHANGED <<card, listed, returned>>
  BY DEF NextDay, cardVars, ghosts
<1>6. MissingStays => UNCHANGED <<day, listed, returned>> /\ card'[k].missing \in {card[k].missing, 0}
  BY DEF MissingStays
<1> QED
  BY <1>1, <1>2, <1>3, <1>4, <1>5, <1>6, MissingSteps

\* A step makes a card missing, if at all, not before the day a run under way
\* began, and not before yesterday.
LEMMA MissingDays ==
    ASSUME DaysInv, [Next]_vars, ~NextDay, NEW k \in Cards
    PROVE  /\ day' = day
           /\ \/ card'[k].missing \in {card[k].missing, 0, day}
              \/ \E c \in Runs : /\ Write(c) /\ Run(c)
                                 /\ card'[k].missing = run[c].day /\ day <= run[c].day + 1
<1>1. TypeInv /\ RunDays
  BY DEF DaysInv, PlansInv, LocksInv
<1>2. ASSUME NEW c \in Runs, Write(c)
      PROVE  /\ day' = day
             /\ \/ card'[k].missing \in {card[k].missing, 0}
                \/ /\ Write(c) /\ Run(c)
                   /\ card'[k].missing = run[c].day /\ day <= run[c].day + 1
  <2>1. card'[k].missing = 0 \/ card'[k].missing = MarkOf(run[c], k, card[k].missing)
    BY <1>1, <1>2, WriteEffects
  <2>2. MarkOf(run[c], k, card[k].missing) \in {0, run[c].day, card[k].missing}
    BY DEF MarkOf
  <2>3. Run(c) /\ day <= run[c].day + 1 /\ day' = day
    BY <1>1, <1>2 DEF Write, Run, RunDays
  <2> QED
    BY <1>2, <2>1, <2>2, <2>3
<1>3. ASSUME NEW e \in Editors, CardWrite(e)
      PROVE  day' = day /\ card'[k].missing \in {card[k].missing, day}
  <2>1. day' = day
    BY <1>3 DEF CardWrite
  <2>2. k = edit[e].card \/ card'[k] = card[k]
    BY <1>1, <1>3, CardEffects
  <2>3. card'[edit[e].card].missing \in {card[edit[e].card].missing, day}
    BY <1>1, <1>3, CardEffects
  <2> QED
    BY <2>1, <2>2, <2>3
<1>4. MissingStays => day' = day /\ card'[k].missing \in {card[k].missing, 0}
  BY DEF MissingStays
<1> QED
  BY <1>1, <1>2, <1>3, <1>4, MissingSteps

LEMMA SinceNext == ASSUME DaysInv, [Next]_vars PROVE SinceInv'
<1>1. /\ TypeInv /\ NoneLockedOut /\ LocksInv /\ RunDays /\ SinceInv /\ TypeInv'
      /\ SnapInv
  BY LocksNext DEF DaysInv, PlansInv, LocksInv
<1>2. day \in Nat
  BY <1>1, Days
<1>3. ASSUME NEW c \in Runs, run'[c].at = "planned", NEW k \in Cards,
             run'[c].snap[k].missing = 0, card'[k].missing # 0
      PROVE  run'[c].day <= card'[k].missing
  <2>1. RunKept(c)
    <3>1. RunKept(c) \/ RunPlanned(c)
      BY <1>1, <1>3, RunSteps DEF RunStarts, RunQueued, RunOver
    <3>2. ~RunPlanned(c)
      BY <1>3 DEF RunPlanned
    <3> QED
      BY <3>1, <3>2
  <2>2. run'[c] = run[c] /\ run[c].at = "planned" /\ Run(c)
    BY <1>3, <2>1 DEF RunKept, Run
  <2>3. run[c].day <= day /\ run[c].day \in Nat
        /\ (card[k].missing # 0 => run[c].day <= card[k].missing)
    BY <1>1, <1>3, <2>2, Days DEF RunDays, SinceInv
  <2>4. CASE NextDay
    BY <1>3, <2>2, <2>3, <2>4 DEF NextDay, cardVars
  <2>5. ASSUME NEW d \in Runs, Write(d) PROVE FALSE
    <3>1. Run(d) /\ Release(d) /\ run[d].at = "planned"
      BY <2>5 DEF Write, Run
    <3>2. c = d
      BY <1>1, <2>2, <3>1, OnePlan
    <3>3. run'[d].at = "idle"
      BY <1>1, <3>1, LocksRelease
    <3> QED
      BY <1>3, <3>2, <3>3
  <2>6. CASE ~NextDay
    <3>1. card'[k].missing \in {card[k].missing, 0, day}
      BY <2>5, <2>6, MissingDays
    <3> QED
      BY <1>3, <2>2, <2>3, <3>1
  <2> QED
    BY <2>4, <2>6
<1>4. ASSUME NEW e \in Editors, edit'[e].fn = "card",
             edit'[e].saw.missing = 0, card'[edit'[e].card].missing # 0
      PROVE  day' <= card'[edit'[e].card].missing + 1
  <2> DEFINE k == edit'[e].card
  <2>1. edit'[e] = edit[e]
    BY <1>1, <1>4, EditSteps
  <2>2. k \in Cards
    <3>1. edit'[e] \in {NoEdit} \cup PriceCall \cup CardCall
      BY <1>1 DEF TypeInv
    <3>2. NoEdit.fn # "card"
      BY DEF NoEdit
    <3> QED
      BY <1>4, <3>1, <3>2 DEF PriceCall, CardCall
  <2>3. card[k].missing # 0 => day <= card[k].missing + 1
    BY <1>1, <1>4, <2>1 DEF SinceInv
  <2>4. ~NextDay
    BY <1>4, <2>1 DEF NextDay, Idle
  <2>5. card'[k].missing # 0
    BY <1>4
  <2> HIDE DEF k
  <2>6. /\ day' = day
        /\ \/ card'[k].missing \in {card[k].missing, 0, day}
           \/ \E c \in Runs : card'[k].missing = run[c].day /\ day <= run[c].day + 1
    BY <2>2, <2>4, MissingDays
  <2>7. day' <= card'[k].missing + 1
    BY <1>2, <2>3, <2>5, <2>6
  <2> QED
    BY <2>7 DEF k
<1> QED
  BY <1>3, <1>4 DEF SinceInv

LEMMA DaysNext == ASSUME DaysInv, [Next]_vars PROVE DaysInv'
<1>1. PlansInv
  BY DEF DaysInv
<1> QED
  BY <1>1, PlansNext, RowsNext, MissingNext, RunDaysNext, SinceNext DEF DaysInv

LEMMA DaysInit == ASSUME Init PROVE DaysInv
<1>1. PICK K \in SUBSET Cards, p \in Prices :
          /\ card = [k \in Cards |-> IF k \in K
                 THEN [NoCard EXCEPT !.version = 1, !.price = p, !.origin = "import"] ELSE NoCard]
          /\ listed = [k \in Cards |-> card[k].version]
  BY DEF Init
<1> DEFINE old == [NoCard EXCEPT !.version = 1, !.price = p, !.origin = "import"]
<1>2. NoCard.missing = 0 /\ old.missing = 0 /\ NoCard.version = 0 /\ old.version = 1
  BY DEF NoCard
<1>3. \A k \in Cards : card[k] = old \/ card[k] = NoCard
  BY <1>1
<1> HIDE DEF old
<1>4. \A k \in Cards : card[k].missing = 0 /\ listed[k] \in {0, 1}
  BY <1>1, <1>2, <1>3
<1>5. /\ \A c \in Runs : run[c].at = "idle"
      /\ \A e \in Editors : edit[e].fn = "none"
      /\ day = 1 /\ \A k \in Cards : returned[k] = 0
  BY DEF Init, NoRun, NoEdit
<1>6. RowsInv /\ RunDays /\ SinceInv
  BY <1>5 DEF RowsInv, RunDays, SinceInv, Run
<1>7. MissingInv
  BY <1>4, <1>5 DEF MissingInv
<1> QED
  BY <1>6, <1>7, PlansInit DEF DaysInv

LongMissingStep ==
    \A k \in Cards : (night' # night /\ card'[k].archived /\ ~card[k].archived) =>
        listed[k] < day - ArchiveAfter /\ returned[k] <= day - ArchiveAfter

LEMMA LongMissingSteps == ASSUME DaysInv, [Next]_vars PROVE LongMissingStep
<1> SUFFICES ASSUME NEW k \in Cards, night' # night, card'[k].archived, ~card[k].archived
             PROVE  listed[k] < day - ArchiveAfter /\ returned[k] <= day - ArchiveAfter
  BY DEF LongMissingStep
<1>1. TypeInv /\ MissingInv
  BY DEF DaysInv, PlansInv, LocksInv
<1>2. ASSUME NEW c \in Runs, RunStep(c) PROVE UNCHANGED night
  BY <1>2 DEF RunStep, Fetched, FetchFails, Compute, PlanDropped, Write
<1>3. ASSUME NEW c \in Runs, NEW s \in Suppliers, NEW source \in {"link", "file"},
             NEW fields \in FieldChoices, Start(c, s, source, fields)
      PROVE  UNCHANGED night
  BY <1>3 DEF Start
<1>4. ASSUME NEW j \in Cards, TouchProduct(j) \/ \E p \in Prices : CreateProduct(j, p)
      PROVE  UNCHANGED night
  BY <1>4 DEF TouchProduct, CreateProduct
<1>5. ASSUME NEW e \in Editors, NEW j \in Cards,
             \/ \E p \in Prices : PriceRead(e, j, p)
             \/ \E patch \in {"keep", "archive", "return"}, versioned \in BOOLEAN :
                  CardRead(e, j, patch, versioned)
      PROVE  UNCHANGED night
  BY <1>5 DEF PriceRead, CardRead, Begin
<1>6. ASSUME NEW e \in Editors, PriceWrite(e) \/ CardWrite(e) \/ CardStale(e)
      PROVE  UNCHANGED night
  BY <1>6 DEF PriceWrite, CardWrite, CardStale
<1>7. NextDay \/ Restart \/ UNCHANGED vars => UNCHANGED card \/ UNCHANGED night
  BY DEF NextDay, Restart, vars, cardVars
<1>8. ~NightClear
  <2> SUFFICES ASSUME NightClear PROVE FALSE
    OBVIOUS
  <2>1. card'[k] = [card[k] EXCEPT !.auto = card[k].auto /\ card[k].archived]
    BY DEF NightClear
  <2>2. card[k] \in Card
    BY <1>1 DEF TypeInv
  <2>3. card'[k].archived = card[k].archived
    BY <2>1, <2>2 DEF Card
  <2> QED
    BY <2>3
<1>9. NightArchive
  BY <1>2, <1>3, <1>4, <1>5, <1>6, <1>7, <1>8 DEF Next
<1>10. LongMissing(k)
  <2> DEFINE gone == {j \in Cards : /\ Exists(j) /\ ~card[j].archived
                                    /\ card[j].origin = "import" /\ LongMissing(j)}
  <2>1. card' = [j \in Cards |-> IF j \in gone
                     THEN [card[j] EXCEPT !.archived = TRUE, !.auto = TRUE] ELSE card[j]]
    BY <1>9 DEF NightArchive
  <2>2. k \in gone
    <3> HIDE DEF gone
    <3> QED
      BY <2>1
  <2> QED
    BY <2>2
<1>11. ArchiveAfter \in Nat
  BY CatalogAssumption
<1> QED
  BY <1>1, <1>10, <1>11, Days DEF LongMissing, MissingInv

\* The night archives no card that a list has had within ArchiveAfter days, nor
\* one that a manager has brought back since, whichever updates, calls, nights
\* and restarts came before.
THEOREM NothingIsArchivedEarly == Spec => LongMissingOnly
<1>1. DaysInv /\ [Next]_vars => [LongMissingStep]_vars
  BY LongMissingSteps
<1>2. DaysInv /\ [Next]_vars => DaysInv'
  BY DaysNext
<1>3. Spec => [][LongMissingStep]_vars
  BY <1>1, <1>2, DaysInit, PTL DEF Spec
<1> QED
  BY <1>3 DEF LongMissingOnly, LongMissingStep

=============================================================================
