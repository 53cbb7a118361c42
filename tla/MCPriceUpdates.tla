--------------------------- MODULE MCPriceUpdates ---------------------------
(* Small instances of the price updates for TLC. *)
EXTENDS PriceUpdates, TLC

CONSTANTS s1, s2, k1, c1, c2, e1

\* One supplier owns the cards, the other only takes its turns.
MCSupplierOf == [k \in Cards |-> s1]
MCFeedKind == [s \in Suppliers |-> IF s = s1 THEN "hybrid" ELSE "manual"]
\* New products and the marking of missing ones, as feeds of their own accord
MCFieldChoices == {{"newProducts", "markMissing"}}

\* Runs are interchangeable.
Symmetry == Permutations(Runs)

=============================================================================
