------------------------------ MODULE MCMatch ------------------------------
(* Instances of Match for TLC. *)
EXTENDS Match, TLC
CONSTANTS a, b, n1, n1low, n2

\* n1 and n1low differ in case only.
MCUpper == (n1 :> n1) @@ (n1low :> n1) @@ (n2 :> n2)
Symmetry == Permutations({a, b})
=============================================================================
