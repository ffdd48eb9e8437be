----------------------------- MODULE MCUserPanel -----------------------------
(* Model values of the user panel's runs. *)
EXTENDS UserPanel, TLC

CONSTANTS d1, d2, t1, t2, u1, b1, i1, i2

Symmetry == Permutations({d1, d2}) \cup Permutations({t1, t2})
              \cup Permutations({i1, i2})
=============================================================================
