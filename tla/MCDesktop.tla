----------------------------- MODULE MCDesktop -----------------------------
(* Instance of Desktop for TLC: two windows at a time, one icon.           *)
EXTENDS Desktop, TLC

Symmetry == Permutations(Windows)

=============================================================================
