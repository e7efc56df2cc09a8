----------------------------- MODULE MCFencing -----------------------------
(* Fencing for TLC: machines are interchangeable.                          *)
EXTENDS Fencing, TLC

Symmetry == Permutations(Machines)
=============================================================================
