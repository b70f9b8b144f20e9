----------------------------- MODULE MCLoomState -----------------------------
(* LoomState with one labelled molecule and one without a spec label.      *)
EXTENDS LoomState, TLC

CONSTANTS m1, m2, p, q

MCSpecOf == (m1 :> 1) @@ (m2 :> None)

Symmetry == Permutations(Procs)
===============================================================================
