------------------------------ MODULE MCLoomMsg -------------------------------
(* Two beads of one spec and, between them, one without a spec label.      *)
EXTENDS LoomMsg, TLC

CONSTANTS a, p, q

MCSpecOf == <<a, None, a>>

Symmetry == Permutations(Msgs)
===============================================================================
