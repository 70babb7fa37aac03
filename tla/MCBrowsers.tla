----------------------------- MODULE MCBrowsers -----------------------------
(* Small instances of Browsers for TLC.                                    *)
EXTENDS Browsers, TLC
=============================================================================
