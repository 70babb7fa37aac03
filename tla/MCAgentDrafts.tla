---------------------------- MODULE MCAgentDrafts ----------------------------
(* Small instances of AgentDrafts for TLC.                                 *)
EXTENDS AgentDrafts

Symmetry == Permutations(Requests) \cup Permutations(Texts)
=============================================================================
