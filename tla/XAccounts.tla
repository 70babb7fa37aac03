----------------------------- MODULE XAccounts -----------------------------
(* The X accounts: an action acts for one of them, and each has a breaker.  *)
CONSTANT Accounts
=============================================================================
