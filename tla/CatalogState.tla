---------------------------- MODULE CatalogState ----------------------------
(***************************************************************************)
(* The product cards of the suppliers, and the two kinds of actor that     *)
(* write them: price updates (a feed or a file, read in full and then      *)
(* applied as one plan) and the calls of managers on single cards.         *)
(*                                                                         *)
(* Of a card the fields are kept that both kinds write or that decide what *)
(* becomes of it: price stands for the prices and the currency. A card is  *)
(* named after the code of the product.                                    *)
(***************************************************************************)
EXTENDS Integers, FiniteSets, Sequences

CONSTANTS
    Suppliers,
    Cards,          \* cards that exist or may come to exist
    SupplierOf,     \* the supplier of each card
    FeedKind,       \* kind of each supplier's feed: auto, hybrid, manual
    FieldChoices,   \* what the updates of this instance are asked to update
    Others,         \* further imported cards of each supplier that nothing happens to
    Prices,         \* prices; 0 is no price
    Runs,           \* price updates that can be under way at the same time
    Editors,        \* calls on single cards that can be served at the same time
    ArchiveAfter,   \* ARCHIVE_AFTER_DAYS
    MaxDay,         \* bound on the days
    MaxRuns,        \* bound on the price updates ever started
    MaxEdits        \* bound on the calls ever made

ASSUME CatalogAssumption ==
    /\ SupplierOf \in [Cards -> Suppliers]
    /\ FeedKind \in [Suppliers -> {"auto", "hybrid", "manual"}]
    /\ FieldChoices \subseteq SUBSET {"newProducts", "markMissing"}
    /\ Prices \subseteq Nat \ {0}
    /\ {Others, ArchiveAfter, MaxDay, MaxRuns, MaxEdits} \subseteq Nat
    /\ MaxDay >= 1

VARIABLES
    card,       \* the Product rows
    recorded,   \* the price in the newest PriceHistory row of each card, 0: none
    day,        \* today, as a number
    night,      \* where the night's archiveLongMissing is
    run,        \* price updates
    running,    \* suppliers whose price is being updated (in memory)
    queue,      \* importQueue: the runs that wait to be applied, in order
    edit,       \* calls on single cards
    count,      \* how many runs and calls there have been
    entered,    \* ghost: cards whose price was entered since the plan under way was computed
    listed,     \* ghost: the last day each card was in a list
    returned    \* ghost: the last day a manager brought each card back from the archive

cardVars == <<card, recorded>>
runVars  == <<run, running, queue>>
ghosts   == <<entered, listed, returned>>
vars     == <<card, recorded, day, night, run, running, queue, edit, count,
              entered, listed, returned>>

-----------------------------------------------------------------------------
NoCard == [version |-> 0, price |-> 0, origin |-> "manual", archived |-> FALSE,
           auto |-> FALSE, missing |-> 0]
Exists(k) == card[k].version > 0

\* auto: autoArchivedAt is set; missing: the day of missingSince, 0 when null
Card == [version : Nat, price : Prices \cup {0}, origin : {"import", "manual"},
         archived : BOOLEAN, auto : BOOLEAN, missing : 0 .. MaxDay]

\* A price update: where it is, its list (rows by card, others for Others) and
\* the cards as they were when the plan was computed (snap).
NoRun == [at |-> "idle"]
Run(c) == run[c].at # "idle"

NoEdit == [fn |-> "none"]

\* Some cards have been there since the first day's list.
Init ==
    /\ \E K \in SUBSET Cards, p \in Prices :
          /\ card = [k \in Cards |-> IF k \in K
                 THEN [NoCard EXCEPT !.version = 1, !.price = p, !.origin = "import"] ELSE NoCard]
          /\ recorded = [k \in Cards |-> card[k].price]
          /\ listed = [k \in Cards |-> card[k].version]
    /\ returned = [k \in Cards |-> 0]
    /\ day = 1
    /\ night = "done"
    /\ run = [c \in Runs |-> NoRun]
    /\ running = {}
    /\ queue = <<>>
    /\ edit = [e \in Editors |-> NoEdit]
    /\ count = [runs |-> 0, edits |-> 0]
    /\ entered = {}

=============================================================================
