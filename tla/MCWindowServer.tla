--------------------------- MODULE MCWindowServer ---------------------------
EXTENDS WindowServer, TLC

(* No operation compares ids other than for equality. *)
Symmetry == Permutations(Id)
=============================================================================
