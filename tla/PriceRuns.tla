----------------------------- MODULE PriceRuns -----------------------------
(***************************************************************************)
(* priceUpdates.service.ts: a price update from its start to its end. One  *)
(* supplier has one update at a time (running); updates of all suppliers   *)
(* are applied one after the other (queue).                                *)
(***************************************************************************)
EXTENDS CatalogState

-----------------------------------------------------------------------------
(* plan.ts: what a list does to the cards of its supplier, computed from    *)
(* the cards as they were read (r.snap). A run r has the rows of its list   *)
(* in r.rows, by the card each belongs to; a row without a price has price  *)
(* 0. r.others says how many of Others are in the list.                     *)

\* What a source may do: a hybrid supplier's file brings the purchase prices,
\* its feed everything else.
RolesFor(kind, source) ==
    IF kind # "hybrid" THEN {"prices", "assortment"}
    ELSE IF source = "link" THEN {"assortment"} ELSE {"prices"}

Does(r, role) == role \in RolesFor(FeedKind[r.supplier], r.source)
Listed(r) == DOMAIN r.rows
Known(r)  == {k \in Cards : SupplierOf[k] = r.supplier /\ r.snap[k].version > 0}

\* Imported cards that are on sale
Active(r, k) == r.snap[k].origin = "import" /\ ~r.snap[k].archived

\* Cards that go missing from the list are marked
Marking(r) == Does(r, "assortment") /\ "markMissing" \in r.fields

\* An empty list, or one so short that it would mark half the catalogue missing
Rejected(r) ==
    LET size   == Cardinality(Listed(r)) + r.others
        active == Cardinality({k \in Known(r) : Active(r, k)}) + Others
    IN  size = 0 \/ (Marking(r) /\ 2 * size < active)

Found(r)   == Listed(r) \cap Known(r)
Creates(r) == IF Does(r, "assortment") /\ "newProducts" \in r.fields
              THEN Listed(r) \ Known(r) ELSE {}

\* The card after the update: the price of the row, and back from the archive
\* if it was archived for being missing.
NextCard(r, k) ==
    [r.snap[k] EXCEPT
        !.price    = IF Does(r, "prices") /\ r.rows[k] # 0 THEN r.rows[k] ELSE @,
        !.archived = @ /\ ~(Does(r, "assortment") /\ r.snap[k].auto)]

Updates(r) == {k \in Found(r) : NextCard(r, k) # r.snap[k]}
Repriced(r) == {k \in Found(r) : NextCard(r, k).price # r.snap[k].price}
Adopted(r) == {k \in Found(r) : Does(r, "assortment") /\ r.snap[k].origin = "manual"}
MissingClears(r) == {k \in Found(r) : Does(r, "assortment") /\ r.snap[k].missing # 0}
MissingMarks(r) ==
    IF ~Marking(r) THEN {}
    ELSE {k \in Known(r) \ Found(r) : Active(r, k) /\ r.snap[k].missing = 0}

\* A card that the list brings
NewCard(r, k) ==
    [NoCard EXCEPT !.version = 1, !.price = r.rows[k], !.origin = "import"]

Planned(r, k) == IF k \in Creates(r) THEN NewCard(r, k) ELSE NextCard(r, k)

-----------------------------------------------------------------------------
(* The run *)

\* Mutant: a run that fails stays at the head of the queue.
ReleaseKeepsTurn(c) ==
    /\ run' = [run EXCEPT ![c] = NoRun]
    /\ running' = running \ {run[c].supplier}
    /\ queue' = queue

\* The end of withSupplierLock and, of a run whose turn it is (oneAtATime), of
\* its turn.
Release(c) ==
    /\ run' = [run EXCEPT ![c] = NoRun]
    /\ running' = running \ {run[c].supplier}
    /\ queue' = IF run[c].at = "fetch" THEN queue ELSE Tail(queue)

\* runFeedUpdate, importPriceRows: refused while the supplier's price is being
\* updated. Feeds of their own accord update all fields.
Start(c, s, source, fields) ==
    /\ ~Run(c) /\ count.runs < MaxRuns
    /\ s \notin running
    /\ source = "link" => FeedKind[s] # "manual"
    /\ count' = [count EXCEPT !.runs = @ + 1]
    /\ running' = running \cup {s}
    /\ run' = [run EXCEPT ![c] = [at |-> "fetch", supplier |-> s, source |-> source,
                                  fields |-> fields, day |-> day]]
    /\ UNCHANGED <<cardVars, day, night, queue, edit, ghosts>>

\* The list has been downloaded and parsed; the run waits for its turn.
Fetched(c, rows, others) ==
    /\ run[c].at = "fetch"
    /\ \A k \in DOMAIN rows : SupplierOf[k] = run[c].supplier
    /\ run' = [run EXCEPT ![c] = [at |-> "queued", supplier |-> @.supplier, source |-> @.source,
                                  fields |-> @.fields, day |-> @.day,
                                  rows |-> rows, others |-> others]]
    /\ queue' = Append(queue, c)
    /\ UNCHANGED <<cardVars, day, night, running, edit, count, ghosts>>

\* The feed cannot be had or read (step), or is refused by the file store.
FetchFails(c) ==
    /\ run[c].at = "fetch"
    /\ Release(c)
    /\ UNCHANGED <<cardVars, day, night, edit, count, ghosts>>

\* Its turn: the cards are read and the plan is computed from them.
Compute(c) ==
    /\ run[c].at = "queued" /\ Head(queue) = c
    /\ run' = [run EXCEPT ![c] = [at |-> "planned", supplier |-> @.supplier, source |-> @.source,
                                  fields |-> @.fields, day |-> @.day,
                                  rows |-> @.rows, others |-> @.others, snap |-> card]]
    /\ entered' = {}
    /\ UNCHANGED <<cardVars, day, night, running, queue, edit, count, listed, returned>>

\* The plan is rejected, or was only asked for (dryRun), or its transaction
\* fails and is rolled back: nothing is written to the cards.
PlanDropped(c) ==
    /\ run[c].at = "planned"
    /\ Release(c)
    /\ UNCHANGED <<cardVars, day, night, edit, count, ghosts>>

-----------------------------------------------------------------------------
\* Planned cards whose version is no longer the one the plan was computed from
EditedSincePlan(r) == {k \in Updates(r) : card[k].version # r.snap[k].version}

\* updateProducts: the planned state, on top of the row
Updated(r, k, row) ==
    LET next == NextCard(r, k) IN
    [row EXCEPT !.price = next.price, !.archived = next.archived,
                !.auto = @ /\ next.archived, !.version = @ + 1]

\* The updates by id that ask no version: adoptedIds, missingClears, missingMarks
Marked(r, k, row) ==
    [row EXCEPT !.origin  = IF k \in Adopted(r) THEN "import" ELSE @,
                !.missing = CASE k \in MissingClears(r) -> 0
                            []   k \in MissingMarks(r) /\ @ = 0 -> r.day
                            []   OTHER -> @]

\* Mutant: the price history is not filtered with the updates.
RecordsAll(r) == Repriced(r) \cup {k \in Creates(r) : r.rows[k] # 0}

\* The cards that get a row of price history
Records(r) ==
    (Repriced(r) \ EditedSincePlan(r)) \cup {k \in Creates(r) : r.rows[k] # 0}

\* writePlan, one transaction: the rows of the plan's updates are locked before
\* their versions are compared. A product that was created meanwhile under
\* the code of a new one makes it fail.
Write(c) ==
    LET r == run[c] IN
    /\ r.at = "planned" /\ ~Rejected(r)
    /\ \A k \in Creates(r) : ~Exists(k)
    /\ card' = [k \in Cards |->
           CASE k \in Creates(r) -> Planned(r, k)
           []   k \in Updates(r) \ EditedSincePlan(r) -> Marked(r, k, Updated(r, k, card[k]))
           []   OTHER -> Marked(r, k, card[k])]
    /\ recorded' = [k \in Cards |-> IF k \in Records(r) THEN Planned(r, k).price ELSE recorded[k]]
    /\ listed' = [k \in Cards |-> IF Does(r, "assortment") /\ k \in Listed(r)
                                  THEN r.day ELSE listed[k]]
    /\ Release(c)
    /\ UNCHANGED <<day, night, edit, count, entered, returned>>

=============================================================================
