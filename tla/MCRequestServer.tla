--------------------------- MODULE MCRequestServer ---------------------------
(* Small instances of the request server for TLC. *)
EXTENDS RequestServer, TLC

CONSTANTS t1, t2, u1, u2, c1, c2

\* Two tabs of two users; the .cfg makes u2 an administrator.
MCUserOf == t1 :> u1 @@ t2 :> u2

\* The calls are interchangeable.
Symmetry == Permutations(Calls)

\* So are the two tabs, each with its user, where nobody is an administrator.
Swapped == t1 :> t2 @@ t2 :> t1 @@ u1 :> u2 @@ u2 :> u1
Kept    == t1 :> t1 @@ t2 :> t2 @@ u1 :> u1 @@ u2 :> u2
SymmetryOfTabs == {p @@ q : p \in Permutations(Calls), q \in {Swapped, Kept}}

=============================================================================
