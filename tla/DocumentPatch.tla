---------------------------- MODULE DocumentPatch ----------------------------
(***************************************************************************)
(* What a request document holds, and how its changes travel: the tab      *)
(* sends the difference to the copy it saved last, the server applies it   *)
(* to its rows. Lines, blocks (one per supplier) and offers (a product for *)
(* a line from a block) are functions from ids to records. The order of    *)
(* lines and of blocks is in `pos`; `rest` stands for the fields that only *)
(* their own edits change. `hand` is a ghost: the quantity was typed in.   *)
(***************************************************************************)
EXTENDS Integers, FiniteSets, Functions

CONSTANTS
    Headers,     \* what header and markup can hold together
    Suppliers,
    Products,
    SupplierOf,  \* SupplierOf[p]: in whose price list p is
    Multiple,    \* Multiple[p]: p is sold by so many at once
    Null

ASSUME ProductsAssumption ==
    SupplierOf \in [Products -> Suppliers] /\ Multiple \in [Products -> Nat \ {0}]
ASSUME NullAssumption == Null \notin Headers \cup Suppliers \cup Products \cup Nat

Maybe(S) == S \cup {Null}

\* Ids are never given out twice: the n-th edit makes line n or block n, and an
\* offer <<n, l>> for line l.
Line == [pos : Nat, qty : Nat, sel : Maybe(Nat), rest : {0, 1}]
Block == [pos : Nat, supplier : Suppliers, rest : {0, 1}]
Offer == [line : Nat, block : Nat, product : Products, qty : Maybe(Nat),
          exact : BOOLEAN, out : BOOLEAN, rest : {0, 1}, hand : BOOLEAN]

IsList(list, ids, Item) == DOMAIN list \subseteq ids /\ list \in [DOMAIN list -> Item]

\* A document with ids up to n.
IsDocument(d, n) ==
    /\ d = [header |-> d.header, lines |-> d.lines, blocks |-> d.blocks, offers |-> d.offers]
    /\ d.header \in Headers
    /\ IsList(d.lines, 1 .. n, Line)
    /\ IsList(d.blocks, 1 .. n, Block)
    /\ IsList(d.offers, (0 .. n) \X (1 .. n), Offer)

-----------------------------------------------------------------------------
(* Lists *)

Without(list, ids) == Restrict(list, DOMAIN list \ ids)

Upserted(list, items) ==
    [x \in DOMAIN list \cup DOMAIN items |-> IF x \in DOMAIN items THEN items[x] ELSE list[x]]

One(x, item) == [y \in {x} |-> item]

\* The records at 1, 2, ... in the order their pos has now.
Renumbered(list) ==
    [x \in DOMAIN list |->
        [list[x] EXCEPT !.pos = Cardinality({y \in DOMAIN list : list[y].pos <= list[x].pos})]]

-----------------------------------------------------------------------------
(* The difference the tab sends *)

Changed(prev, next) == {x \in DOMAIN next : x \in DOMAIN prev => prev[x] # next[x]}

DiffList(prev, next) ==
    [upsert |-> Restrict(next, Changed(prev, next)),
     delete |-> DOMAIN prev \ DOMAIN next]

Diff(prev, next) ==
    [header |-> IF next.header = prev.header THEN Null ELSE next.header,
     lines |-> DiffList(prev.lines, next.lines),
     blocks |-> DiffList(prev.blocks, next.blocks),
     offers |-> DiffList(prev.offers, next.offers)]

-----------------------------------------------------------------------------
(* What the server makes of it *)

SamePair(offers, o, other) ==
    /\ offers[o].line = offers[other].line
    /\ offers[o].block = offers[other].block

\* Of the offers for one line from one block the last in the list stays: one
\* that has just come in, if any has.
LastOfPair(offers, placed, new) ==
    {o \in placed : o = CHOOSE w \in {p \in placed : SamePair(offers, o, p)} :
        w \in new \/ \A p \in placed : SamePair(offers, o, p) => p \notin new}

\* Deletions take the offers of lines and blocks with them, and they come
\* before what is new; offers and selections without a place are dropped.
Applied(state, patch) ==
    LET lines == Upserted(Without(state.lines, patch.lines.delete), patch.lines.upsert)
        blocks == Upserted(Without(state.blocks, patch.blocks.delete), patch.blocks.upsert)
        left == {o \in DOMAIN state.offers \ patch.offers.delete :
                    /\ state.offers[o].line \notin patch.lines.delete
                    /\ state.offers[o].block \notin patch.blocks.delete}
        offers == Upserted(Restrict(state.offers, left), patch.offers.upsert)
        placed == {o \in DOMAIN offers : /\ offers[o].line \in DOMAIN lines
                                         /\ offers[o].block \in DOMAIN blocks}
        new == DOMAIN patch.offers.upsert \ left
    IN  [header |-> IF patch.header = Null THEN state.header ELSE patch.header,
         lines |-> [l \in DOMAIN lines |->
                       IF lines[l].sel \in Maybe(DOMAIN blocks) THEN lines[l]
                       ELSE [lines[l] EXCEPT !.sel = Null]],
         blocks |-> blocks,
         offers |-> Restrict(offers, LastOfPair(offers, placed, new))]

\* The rows of a list after the statements that make them the new list.
WrittenList(before, after) ==
    LET diff == DiffList(before, after)
    IN  Upserted(Without(before, diff.delete), diff.upsert)

Written(before, after) ==
    [header |-> after.header,
     lines |-> WrittenList(before.lines, after.lines),
     blocks |-> WrittenList(before.blocks, after.blocks),
     offers |-> WrittenList(before.offers, after.offers)]

-----------------------------------------------------------------------------
(* What a copy of the request takes over; ids of its own correspond to ids. *)

Includes == {"lines", "sourcing", "full"}

Copied(read, include) ==
    LET sourcing == include # "lines"
        blocks == IF sourcing THEN read.blocks ELSE Restrict(read.blocks, {})
    IN  [header |-> read.header,
         lines |-> [l \in DOMAIN read.lines |->
             [read.lines[l] EXCEPT
                 !.sel = IF @ \in DOMAIN blocks THEN @ ELSE Null,
                 !.rest = IF include = "full" THEN @ ELSE 0]],
         blocks |-> blocks,
         offers |-> IF sourcing
                    THEN Restrict(read.offers, {o \in DOMAIN read.offers :
                             /\ read.offers[o].line \in DOMAIN read.lines
                             /\ read.offers[o].block \in DOMAIN blocks})
                    ELSE Restrict(read.offers, {})]

-----------------------------------------------------------------------------
(* A document that makes sense *)

\* Offers belong to a line and a block that are there, one to a pair; no
\* supplier has two blocks.
Linked(d) ==
    /\ \A o \in DOMAIN d.offers : /\ d.offers[o].line \in DOMAIN d.lines
                                  /\ d.offers[o].block \in DOMAIN d.blocks
    /\ \A o, p \in DOMAIN d.offers : SamePair(d.offers, o, p) => o = p
    /\ \A b, c \in DOMAIN d.blocks : d.blocks[b].supplier = d.blocks[c].supplier => b = c

\* What a line has chosen is a block with an offer for it that is not excluded.
Chosen(d) ==
    \A l \in DOMAIN d.lines : d.lines[l].sel # Null =>
        \E o \in DOMAIN d.offers : /\ d.offers[o].line = l
                                   /\ d.offers[o].block = d.lines[l].sel
                                   /\ ~d.offers[o].out

\* Places 1, 2, ... without gaps or repetitions.
Numbered(list) ==
    /\ \A x \in DOMAIN list : list[x].pos \in 1 .. Cardinality(DOMAIN list)
    /\ \A x, y \in DOMAIN list : list[x].pos = list[y].pos => x = y

Sound(d) == Linked(d) /\ Chosen(d) /\ Numbered(d.lines) /\ Numbered(d.blocks)

=============================================================================
