----------------------------- MODULE MCLoomBatch -----------------------------
(* Two specs: one with a batch of two beads, one with a single bead.       *)
EXTENDS LoomBatch

CONSTANTS s1, s2, b1, b2, b3

MCSpecs == {s1, s2}
MCBeads == {b1, b2, b3}
MCSpecOf == [b \in MCBeads |-> IF b = b3 THEN s2 ELSE s1]
===============================================================================
