--------------------------- MODULE MCSettingsCache ---------------------------
(* Small instances of SettingsCache for TLC.                               *)
EXTENDS SettingsCache, TLC

CONSTANTS Host, Port, Delay

TheSecrets == <<Host, Port>>
TheSettings == <<Delay>>

Symmetry == Permutations(Processes)
=============================================================================
