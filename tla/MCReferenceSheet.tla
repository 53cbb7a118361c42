--------------------------- MODULE MCReferenceSheet ---------------------------
(* Two pages with one sheet; the first one leaves it and comes back. *)
EXTENDS ReferenceSheet, TLC

CONSTANTS p1, p2, e1, e2, f1, x1, x2, y

MCPageOf == [e \in Editors |-> IF e = f1 THEN p2 ELSE p1]
MCChangesOf == (p1 :> {x1, x2}) @@ (p2 :> {y})

=============================================================================
