---------------------------- MODULE MCAuditTrail -----------------------------
(* Small instances of AuditTrail for TLC.                                   *)
EXTENDS AuditTrail, TLC

CONSTANTS r1, e1, e2, task, call, x1, x2

MCRetries == (task :> 2) @@ (call :> 0)
=============================================================================
