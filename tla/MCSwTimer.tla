------------------------------ MODULE MCSwTimer ------------------------------
(* SwTimer for TLC. *)
EXTENDS SwTimer, TLC

CONSTANTS a, b, c
Timers3 == {a, b, c}
Symmetry3 == Permutations(Timers3)
=============================================================================
