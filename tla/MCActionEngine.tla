--------------------------- MODULE MCActionEngine ---------------------------
(* Small instances of ActionEngine for TLC.                                *)
EXTENDS ActionEngine, TLC

CONSTANTS a1, a2, a3, s1, s2, s3, w1, t1, c1, k1

MCTypeOf == [a \in Actions |-> t1]
MCAccountOf == [a \in Actions |-> c1]

Symmetry == Permutations(Slots) \cup Permutations(Actions)
=============================================================================
