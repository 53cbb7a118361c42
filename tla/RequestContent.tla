--------------------------- MODULE RequestContent ---------------------------
(***************************************************************************)
(* One request document in the tab that edits it and in the rows of the    *)
(* server: edits, undo, answers of the catalogue that arrive later, saves  *)
(* of differences, and copies that are read while all this goes on. When   *)
(* and whether a save is accepted is the subject of RequestTab.            *)
(***************************************************************************)
EXTENDS DocumentEdits, Sequences

CONSTANTS
    FirstDocs,    \* documents a tab may find
    FirstId,      \* the largest number in their ids
    Qtys,         \* quantities a line may be given
    HandQtys,     \* quantities an offer may be given
    MaxEdits,     \* bound on edits
    MaxExtras     \* bound on undos, questions, lost messages, reloads, others' writes, copies

\* A quantity found that is not the line's counts as typed in.
ASSUME FirstAssumption ==
    \A d \in FirstDocs : IsDocument(d, FirstId) /\ Sound(d) /\ QtysFollow(d, TRUE)
ASSUME ContentBounds ==
    {FirstId, MaxEdits, MaxExtras} \subseteq Nat /\ Qtys \subseteq Nat /\ HandQtys \subseteq Nat

VARIABLES
    doc,         \* what the tab shows
    lastSaved,   \* what it believes the server has
    past, future,    \* for undo and redo
    autoRound,   \* settings.autoRoundMultiplicity as the tab loaded it
    stored,      \* the rows
    current,     \* the tab knows the version of the rows
    net,         \* the save under way
    lookup,      \* a question to the catalogue under way
    copy,        \* the reading of a copy: statement by statement
    newId,       \* ids up to here have been given out
    edits, extras,
    switched     \* ghost: autoRound has changed

tab == <<doc, lastSaved, past, future>>
contentVars == <<tab, autoRound, stored, current, net, lookup, copy, newId,
                 edits, extras, switched>>

NoSave == [at |-> "idle"]
NoCopy == [at |-> "none"]

ContentInit ==
    /\ stored \in FirstDocs /\ doc = stored /\ lastSaved = stored
    /\ past = <<>> /\ future = <<>>
    /\ autoRound = TRUE /\ switched = FALSE
    /\ current = TRUE
    /\ net = NoSave /\ lookup = Null /\ copy = NoCopy
    /\ newId = FirstId /\ edits = 0 /\ extras = 0

-----------------------------------------------------------------------------
(* Editing *)

\* Another edit; none after a copy was made, which a behaviour ends with.
MayEdit == edits < MaxEdits /\ copy.at # "read"

\* commit: what was shown can be had back, what was undone cannot any more.
CommitEdit(next) ==
    /\ next # doc
    /\ doc' = next /\ past' = Append(past, doc) /\ future' = <<>>
    /\ UNCHANGED lastSaved

Edit(next) ==
    /\ MayEdit /\ CommitEdit(next)
    /\ edits' = edits + 1
    /\ UNCHANGED <<autoRound, stored, current, net, lookup, copy, extras, switched>>

Extra == extras < MaxExtras /\ extras' = extras + 1

Fresh == newId + 1

EditLines ==
    \/ /\ \E qty \in Qtys :
             \/ \E key \in {1, Last(doc.lines)} \cup {After(doc.lines, l) : l \in DOMAIN doc.lines}
                           \cup {Before(doc.lines, l) : l \in DOMAIN doc.lines} :
                  Edit(AddLine(doc, Fresh, key, qty))
             \/ Edit(ReplaceLines(doc, Fresh, qty))
       /\ newId' = Fresh
    \/ /\ \/ \E gone \in SUBSET DOMAIN doc.lines \ {{}} : Edit(RemoveLines(doc, gone))
          \/ \E l \in DOMAIN doc.lines :
               \/ \E to \in 0 .. Cardinality(DOMAIN doc.lines) - 1 : Edit(MoveLine(doc, l, to))
               \/ \E qty \in Qtys : Edit(SetLineQty(doc, l, qty, autoRound))
               \/ Edit(TouchLine(doc, l))
          \/ \E header \in Headers : Edit(SetHeader(doc, header))
       /\ UNCHANGED newId

EditBlocks ==
    \/ /\ \E s \in Suppliers : Edit(EnsureBlock(doc, Fresh, s))
       /\ newId' = Fresh
    \/ /\ \E b \in DOMAIN doc.blocks :
            \/ Edit(RemoveBlock(doc, b))
            \/ \E to \in 0 .. Cardinality(DOMAIN doc.blocks) - 1 : Edit(MoveBlock(doc, b, to))
            \/ Edit(TouchBlock(doc, b))
       /\ UNCHANGED newId

EditOffers ==
    \/ /\ \E l \in DOMAIN doc.lines :
            \/ \E b \in DOMAIN doc.blocks : \E p \in ProductsOf(doc, b) :
                 Edit(UpsertOffers(doc, b, One(l, p), Fresh, autoRound))
            \/ \E p \in Products : Edit(AddProduct(doc, l, p, Fresh, autoRound))
       /\ newId' = Fresh
    \/ /\ \E o \in DOMAIN doc.offers :
            \/ Edit(RemoveOffers(doc, {o}))
            \/ \E qty \in Maybe(HandQtys) : Edit(SetOfferQty(doc, o, qty))
            \/ \E exact \in BOOLEAN : Edit(SetExact(doc, o, exact, autoRound))
            \/ Edit(TouchOffer(doc, o))
            \/ Edit(ToggleExclude(doc, o))
       /\ UNCHANGED newId
    \/ /\ \E l \in DOMAIN doc.lines, b \in Maybe(DOMAIN doc.blocks) : Edit(Select(doc, l, b))
       /\ UNCHANGED newId

\* selectAllInBlock: every line it can, one block. acceptAllRecommendations: lines
\* that have not chosen or whose choice has lost its price, each its own block.
ChooseAll ==
    /\ \E some \in SUBSET DOMAIN doc.lines : \E pick \in [some -> DOMAIN doc.blocks] :
         /\ \A l \in some : pick[l] \in Candidates(doc, l)
         /\ Edit(SelectAll(doc, pick))
    /\ UNCHANGED newId

Undo ==
    /\ Extra /\ past # <<>>
    /\ doc' = past[Len(past)] /\ past' = SubSeq(past, 1, Len(past) - 1)
    /\ future' = Append(future, doc)
    /\ UNCHANGED <<lastSaved, autoRound, stored, current, net, lookup, copy, newId,
                   edits, switched>>

Redo ==
    /\ copy.at # "read" /\ future # <<>>
    /\ doc' = future[Len(future)] /\ future' = SubSeq(future, 1, Len(future) - 1)
    /\ past' = Append(past, doc)
    /\ UNCHANGED <<lastSaved, autoRound, stored, current, net, lookup, copy, newId,
                   edits, extras, switched>>

-----------------------------------------------------------------------------
(* Questions to the catalogue: the document moves on until the answer *)

\* setOfferBySku, pasteSkus: for these lines, in this block, of its supplier.
AskSkus(b, lines) ==
    /\ b \in DOMAIN doc.blocks
    /\ lookup' = [block |-> b, lines |-> lines, products |-> ProductsOf(doc, b)]

\* createProductAndOffer: a product is created first, for a block or the
\* block of its supplier.
AskProduct(b, l) ==
    /\ lookup' = [block |-> b, lines |-> {l},
                  products |-> IF b = Null THEN Products ELSE ProductsOf(doc, b)]

Ask ==
    /\ Extra /\ lookup = Null
    /\ \/ \E b \in DOMAIN doc.blocks, lines \in SUBSET DOMAIN doc.lines \ {{}} : AskSkus(b, lines)
       \/ \E l \in DOMAIN doc.lines, b \in Maybe(DOMAIN doc.blocks) : AskProduct(b, l)
    /\ UNCHANGED <<tab, autoRound, stored, current, net, copy, newId, edits, switched>>

\* The document with the answer. A line whose article was not found, or more
\* than once, gets nothing.
Answered ==
    IF lookup.block = Null
    THEN {AddProduct(doc, l, p, Fresh, autoRound) : l \in lookup.lines, p \in lookup.products}
    ELSE {UpsertOffers(doc, lookup.block, pick, Fresh, autoRound) :
             pick \in UNION {[found -> lookup.products] : found \in SUBSET lookup.lines}}

\* The answer is one edit, or none when the document has no place for it.
CatalogueAnswers ==
    /\ lookup # Null /\ copy.at # "read"
    /\ \E next \in Answered :
         IF next = doc THEN UNCHANGED tab ELSE CommitEdit(next)
    /\ lookup' = Null /\ newId' = Fresh
    /\ UNCHANGED <<autoRound, stored, current, net, copy, edits, extras, switched>>

-----------------------------------------------------------------------------
(* Saving *)

\* runSave: one at a time, if anything is different.
Send ==
    /\ net.at = "idle" /\ doc # lastSaved /\ copy.at # "read"
    /\ net' = [at |-> "sent", sent |-> doc, patch |-> Diff(lastSaved, doc)]
    /\ UNCHANGED <<tab, autoRound, stored, current, lookup, copy, newId, edits,
                   extras, switched>>

\* saveRequestDocument: refused unless the version is that of the rows.
Serve ==
    /\ net.at = "sent"
    /\ IF current
       THEN /\ stored' = Written(stored, Applied(stored, net.patch))
            /\ net' = [net EXCEPT !.at = "stored"]
       ELSE /\ net' = [net EXCEPT !.at = "refused"]
            /\ UNCHANGED stored
    /\ UNCHANGED <<tab, autoRound, current, lookup, copy, newId, edits, extras, switched>>

\* Mutant: the document as it is now counts as saved.
SavedNow ==
    /\ net.at = "stored" /\ lastSaved' = doc
    /\ net' = NoSave
    /\ UNCHANGED <<doc, past, future, autoRound, stored, current, lookup, copy, newId,
                   edits, extras, switched>>
Saved ==
    /\ net.at = "stored" /\ lastSaved' = net.sent
    /\ net' = NoSave
    /\ UNCHANGED <<doc, past, future, autoRound, stored, current, lookup, copy, newId,
                   edits, extras, switched>>

\* The document as the server has it; nothing can be undone.
Reread ==
    /\ doc' = stored /\ lastSaved' = stored /\ past' = <<>> /\ future' = <<>>
    /\ current' = TRUE

SaveRefused ==
    /\ net.at = "refused" /\ Reread
    /\ net' = NoSave
    /\ UNCHANGED <<autoRound, stored, lookup, copy, newId, edits, extras, switched>>

-----------------------------------------------------------------------------
(* What else happens *)

\* The save is lost before the server has it, or its answer after.
Lose ==
    /\ Extra /\ net.at \in {"sent", "stored"}
    /\ net' = NoSave
    /\ current' = (current /\ net.at = "sent")
    /\ UNCHANGED <<tab, autoRound, stored, lookup, copy, newId, edits, switched>>

\* Somebody takes the request over, and saves it with lines or a block less.
OthersSave ==
    /\ Extra /\ current' = FALSE
    /\ \/ \E l \in DOMAIN stored.lines : stored' = RemoveLines(stored, {l})
       \/ \E b \in DOMAIN stored.blocks : stored' = RemoveBlock(stored, b)
    /\ UNCHANGED <<tab, autoRound, net, lookup, copy, newId, edits, switched>>

\* The page is left or reloaded and opened again; settings are loaded with it.
Reopen ==
    /\ Extra /\ net.at = "idle" /\ Reread
    /\ autoRound' \in BOOLEAN /\ switched' = (switched \/ autoRound' # autoRound)
    /\ UNCHANGED <<stored, net, lookup, copy, newId, edits>>

\* copyRequest reads the parts of the request in statements of their own.
CopyReads ==
    /\ copy.at # "read" /\ IF copy.at = "none" THEN Extra ELSE UNCHANGED extras
    /\ copy' = CASE copy.at = "none" -> [at |-> "lines", header |-> stored.header,
                                         lines |-> stored.lines]
                 [] copy.at = "lines" -> [at |-> "blocks", header |-> copy.header,
                                          lines |-> copy.lines, blocks |-> stored.blocks]
                 [] copy.at = "blocks" -> [at |-> "read", header |-> copy.header,
                                           lines |-> copy.lines, blocks |-> copy.blocks,
                                           offers |-> stored.offers]
    /\ UNCHANGED <<tab, autoRound, stored, current, net, lookup, newId, edits, switched>>

\* Everything has been done that the bounds allow.
ContentDone ==
    /\ \/ copy.at = "read"
       \/ /\ edits = MaxEdits /\ extras = MaxExtras
          /\ lookup = Null /\ future = <<>> /\ doc = lastSaved
    /\ net.at = "idle"
    /\ UNCHANGED contentVars

ContentNext ==
    \/ EditLines \/ EditBlocks \/ EditOffers \/ ChooseAll \/ Undo \/ Redo
    \/ Ask \/ CatalogueAnswers
    \/ Send \/ Serve \/ Saved \/ SaveRefused
    \/ Lose \/ OthersSave \/ Reopen \/ CopyReads \/ ContentDone

ContentSpec == ContentInit /\ [][ContentNext]_contentVars

-----------------------------------------------------------------------------
\* After an accepted save the rows are exactly the document that was sent,
\* though a difference travels and the server applies it with rules of its own
\* (diffDocuments, applyDocumentPatch, writeParts); and as long as nobody else
\* has written, the tab knows what the rows are.
StoredAsSent ==
    current => stored = IF net.at = "stored" THEN net.sent ELSE lastSaved

\* Every document that is shown or stored is sound, and so is what can be had
\* back by undo and redo, for it was shown before; whatever was removed, excluded or moved before an answer of the
\* catalogue came; and of a copy, whenever its parts were read, the offers
\* belong to its lines and blocks and its lines choose from its own blocks.
DocumentsSound ==
    /\ Sound(doc) /\ Sound(stored)
    /\ copy.at = "read" => \A include \in Includes :
         LET new == Copied(copy, include)
         IN  /\ Linked(new)
             /\ \A l \in DOMAIN new.lines : new.lines[l].sel \in Maybe(DOMAIN new.blocks)

\* An offer whose quantity nobody typed in has the line's quantity, rounded up
\* to what is sold at once: through changes of the line, exceptions from
\* rounding, other products, undo and answers that come late; unless the rule
\* of rounding itself was changed in the settings since.
QtyFollowsLine ==
    switched \/ \A d \in {doc, stored} : QtysFollow(d, autoRound)

=============================================================================
