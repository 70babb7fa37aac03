---------------------------- MODULE MCActionQueue ----------------------------
(* Small instances of ActionQueue for TLC.                                 *)
EXTENDS ActionQueue, TLC

CONSTANTS a1, a2, s1, s2, s3, w1, w2, t1, c1

\* One table and one account: the hardest case for exclusivity.
MCTypeOf == [a \in Actions |-> t1]
MCAccountOf == [a \in Actions |-> c1]

\* Slots, processes and actions are interchangeable.  Only for safety.
Symmetry == Permutations(Slots) \cup Permutations(Workers) \cup Permutations(Actions)
=============================================================================
