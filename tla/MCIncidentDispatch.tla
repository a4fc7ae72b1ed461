------------------------- MODULE MCIncidentDispatch -------------------------
(* Small instances of IncidentDispatch for TLC.                             *)
EXTENDS IncidentDispatch, TLC

CONSTANTS d1, d2, snow, hook, f1

Handlers == Permutations({d1, d2})

MCBoth == snow :> "update" @@ hook :> "skip"
=============================================================================
