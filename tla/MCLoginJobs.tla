----------------------------- MODULE MCLoginJobs -----------------------------
(* Small instances of LoginJobs for TLC.                                   *)
EXTENDS LoginJobs, TLC
=============================================================================
