---------------------------- MODULE PriceUpdates ----------------------------
(***************************************************************************)
(* The calls of managers on single cards and the night's archiving of what *)
(* has long been missing (products.service.ts); these and the price        *)
(* updates together, on a server that may stop at any moment.              *)
(*                                                                         *)
(* A call reads the card, and writes it in a later statement or            *)
(* transaction.                                                            *)
(***************************************************************************)
EXTENDS PriceRuns

Idle(e) == edit[e].fn = "none"
Begin(e, call) ==
    /\ Idle(e) /\ count.edits < MaxEdits
    /\ count' = [count EXCEPT !.edits = @ + 1]
    /\ edit' = [edit EXCEPT ![e] = call]
    /\ UNCHANGED <<cardVars, day, night, runVars, ghosts>>
End(e) == edit' = [edit EXCEPT ![e] = NoEdit]

\* createProduct: the code must be free, and the unique index sees to it.
CreateProduct(k, p) ==
    /\ ~Exists(k) /\ count.edits < MaxEdits
    /\ count' = [count EXCEPT !.edits = @ + 1]
    /\ card' = [card EXCEPT ![k] = [NoCard EXCEPT !.version = 1, !.price = p]]
    /\ recorded' = [recorded EXCEPT ![k] = p]
    /\ entered' = entered \cup {k}
    /\ UNCHANGED <<day, night, runVars, edit, listed, returned>>

\* setProductsUnit and the bulk changes of the 1C name: fields of their own,
\* and the version
TouchProduct(k) ==
    /\ Exists(k) /\ count.edits < MaxEdits
    /\ count' = [count EXCEPT !.edits = @ + 1]
    /\ card' = [card EXCEPT ![k].version = @ + 1]
    /\ UNCHANGED <<recorded, day, night, runVars, edit, ghosts>>

-----------------------------------------------------------------------------
\* updateProductPrice: the old price is read first.
PriceRead(e, k, p) ==
    /\ Exists(k)
    /\ Begin(e, [fn |-> "price", card |-> k, price |-> p, saw |-> card[k].price])

\* Mutant: the price is entered without a new version of the card.
PricedSameVersion(k, p) == [card[k] EXCEPT !.price = p]

\* The card with a price entered by hand. The version goes up for the sake of
\* an import under way.
Priced(k, p) == [card[k] EXCEPT !.price = p, !.version = @ + 1]

\* The new price is written whatever the card is by now; history gets a row if
\* it differs from what was read.
PriceWrite(e) ==
    LET w == edit[e] IN
    /\ w.fn = "price"
    /\ card' = [card EXCEPT ![w.card] = Priced(w.card, w.price)]
    /\ recorded' = [recorded EXCEPT ![w.card] = IF w.price # w.saw THEN w.price ELSE @]
    /\ entered' = entered \cup {w.card}
    /\ End(e)
    /\ UNCHANGED <<day, night, runVars, count, listed, returned>>

-----------------------------------------------------------------------------
\* updateProduct: a change of the card, with or without a new isArchived (patch),
\* from a client that sends the version it has shown, or from one that sends none.
CardRead(e, k, patch, versioned) ==
    /\ Exists(k)
    /\ Begin(e, [fn |-> "card", card |-> k, patch |-> patch, saw |-> card[k],
                 version |-> IF versioned THEN card[k].version ELSE 0])

\* Mutant: the day since which the card is missing is left alone.
PatchedKeepsMissing(w, row) ==
    [row EXCEPT !.version = @ + 1, !.archived = IF w.patch = "keep" THEN @ ELSE w.patch = "archive"]

\* The patched card: one that comes back from the archive still missing is
\* missing from today.
Patched(w, row) ==
    [row EXCEPT
        !.version  = @ + 1,
        !.archived = IF w.patch = "keep" THEN @ ELSE w.patch = "archive",
        !.missing  = IF w.patch = "return" /\ w.saw.archived /\ w.saw.missing # 0
                     THEN day ELSE @]

\* expectedVersion: a call that brings no version is not checked.
VersionAgrees(w) == w.version \in {0, card[w.card].version}

\* Written on the version the manager has seen.
CardWrite(e) ==
    LET w == edit[e] IN
    /\ w.fn = "card"
    /\ VersionAgrees(w)
    /\ card' = [card EXCEPT ![w.card] = Patched(w, card[w.card])]
    /\ returned' = IF w.patch = "return" /\ w.saw.archived
                   THEN [returned EXCEPT ![w.card] = day] ELSE returned
    /\ End(e)
    /\ UNCHANGED <<recorded, day, night, runVars, count, entered, listed>>

\* Somebody else has changed the card (staleCardError).
CardStale(e) ==
    LET w == edit[e] IN
    /\ w.fn = "card"
    /\ ~VersionAgrees(w)
    /\ End(e)
    /\ UNCHANGED <<cardVars, day, night, runVars, count, ghosts>>

-----------------------------------------------------------------------------
\* archiveLongMissing, first statement: cards that a manager brought back lose
\* the mark of the automatic archiving.
NightClear ==
    /\ night = "due"
    /\ night' = "archive"
    /\ card' = [k \in Cards |-> [card[k] EXCEPT !.auto = @ /\ card[k].archived]]
    /\ UNCHANGED <<recorded, day, runVars, edit, count, ghosts>>

\* missingSince is before the cutoff.
LongMissing(k) == card[k].missing # 0 /\ card[k].missing < day - ArchiveAfter

\* Second statement: what has been missing for too long goes to the archive.
NightArchive ==
    LET gone == {k \in Cards : /\ Exists(k) /\ ~card[k].archived
                               /\ card[k].origin = "import" /\ LongMissing(k)}
    IN  /\ night = "archive"
        /\ night' = "done"
        /\ card' = [k \in Cards |-> IF k \in gone
                        THEN [card[k] EXCEPT !.archived = TRUE, !.auto = TRUE] ELSE card[k]]
        /\ UNCHANGED <<recorded, day, runVars, edit, count, ghosts>>

-----------------------------------------------------------------------------

\* Midnight: the archiving is due at 03:30. A call on a card takes seconds, a
\* price update minutes: no call, and no update twice, lasts over midnight.
NextDay ==
    /\ day < MaxDay
    /\ \A e \in Editors : Idle(e)
    /\ \A c \in Runs : Run(c) => run[c].day = day
    /\ night = "done"
    /\ day' = day + 1
    /\ night' = "due"
    /\ UNCHANGED <<cardVars, runVars, edit, count, ghosts>>

\* The process ends and starts again: what was under way, and the set of
\* suppliers being updated, was in memory. A night's work that it was in the
\* middle of, or slept through, is not made up for.
Restart ==
    /\ running # {} \/ night # "done" \/ \E e \in Editors : ~Idle(e)
    /\ run' = [c \in Runs |-> NoRun]
    /\ running' = {}
    /\ queue' = <<>>
    /\ edit' = [e \in Editors |-> NoEdit]
    /\ night' \in {"done"} \cup ({night} \ {"archive"})
    /\ UNCHANGED <<cardVars, day, count, ghosts>>

\* Rows for some of the supplier's cards
Lists(s) == UNION {[K -> Prices \cup {0}] : K \in SUBSET {k \in Cards : SupplierOf[k] = s}}

RunStep(c) ==
    \/ \E others \in 0 .. Others : Run(c) /\ \E rows \in Lists(run[c].supplier) : Fetched(c, rows, others)
    \/ FetchFails(c) \/ Compute(c) \/ PlanDropped(c) \/ Write(c)

Next ==
    \/ \E c \in Runs, s \in Suppliers, source \in {"link", "file"}, fields \in FieldChoices :
          Start(c, s, source, fields)
    \/ \E c \in Runs : RunStep(c)
    \/ \E k \in Cards : TouchProduct(k) \/ \E p \in Prices : CreateProduct(k, p)
    \/ \E e \in Editors, k \in Cards :
          \/ \E p \in Prices : PriceRead(e, k, p)
          \/ \E patch \in {"keep", "archive", "return"}, versioned \in BOOLEAN :
                CardRead(e, k, patch, versioned)
    \/ \E e \in Editors : PriceWrite(e) \/ CardWrite(e) \/ CardStale(e)
    \/ NightClear \/ NightArchive \/ NextDay \/ Restart

Spec == Init /\ [][Next]_vars

-----------------------------------------------------------------------------
\* No supplier is locked out of updates and none updated twice at a time
\* (withSupplierLock); the queue is of runs that wait or are being applied, and
\* only its first one is (oneAtATime): it moves on when that one ends.
NoneLockedOut ==
    /\ running = {run[c].supplier : c \in {d \in Runs : Run(d)}}
    /\ \A c, d \in Runs : Run(c) /\ Run(d) /\ run[c].supplier = run[d].supplier => c = d
    /\ \A i, j \in DOMAIN queue : queue[i] = queue[j] => i = j
    /\ {queue[i] : i \in DOMAIN queue} = {c \in Runs : run[c].at \in {"queued", "planned"}}
    /\ \A c \in Runs : run[c].at = "planned" => Head(queue) = c

\* A price that a manager entered while a plan was being computed outlives the
\* plan (editedSincePlan, and the version that updateProductPrice raises).
ManualPriceKept ==
    [][ \A c \in Runs : (run[c].at = "planned" /\ run'[c].at = "idle") =>
          \A k \in entered : card'[k].price = card[k].price ]_vars

\* The price history that an update writes is that of the prices it sets.
HistoryOfImports ==
    [][ \A c \in Runs : (run[c].at = "planned" /\ run'[c].at = "idle") =>
          \A k \in Cards : (card'[k].price # card[k].price \/ recorded'[k] # recorded[k]) =>
              recorded'[k] = card'[k].price ]_vars

\* The night archives only what no list has had for more than ArchiveAfter days
\* (README: 30 days), and what no manager has brought back since: of an update
\* that lasts over midnight, which marks with the day it began, for a day less.
LongMissingOnly ==
    [][ \A k \in Cards : (night' # night /\ card'[k].archived /\ ~card[k].archived) =>
          listed[k] < day - ArchiveAfter /\ returned[k] <= day - ArchiveAfter ]_vars

=============================================================================
