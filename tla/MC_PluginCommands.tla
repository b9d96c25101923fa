------------------------- MODULE MC_PluginCommands -------------------------
(* An instance of PluginCommands for TLC: remote commands ending with      *)
(* status 1 or with 130 (interrupted by SIGINT).                           *)
EXTENDS PluginCommands

MCStatuses == {1, 130}
=============================================================================
