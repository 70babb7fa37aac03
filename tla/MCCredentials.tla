---------------------------- MODULE MCCredentials ----------------------------
(* Small instances of Credentials for TLC.                                 *)
EXTENDS Credentials, TLC

Symmetry == Permutations(Processes) \cup Permutations(Clients)
                \cup Permutations(Codes) \cup Permutations(Requests)
=============================================================================
