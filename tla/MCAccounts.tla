------------------------------ MODULE MCAccounts ------------------------------
(* Small instances of the accounts for TLC. *)
EXTENDS Accounts, TLC

CONSTANTS u1, u2, u3, c1, c2, l1, l2, s1

Symmetry == Permutations(Calls) \cup Permutations(Links) \cup Permutations(Users \ FirstAdmins)

=============================================================================
