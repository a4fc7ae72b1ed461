----------------------------- MODULE MCGuardian -----------------------------
(* Small instances of Guardian for TLC.                                     *)
EXTENDS Guardian, TLC

CONSTANTS beat, console, a1

MCSeverity == 1 :> "low" @@ 2 :> "critical"
MCAgentOf == 1 :> NoAgent @@ 2 :> a1
=============================================================================
