--------------------------- MODULE AuditedGateway ---------------------------
(***************************************************************************)
(* What the gateway promises about one request: whatever it answers was    *)
(* first recorded in the audit log, once, and the answer is the one that   *)
(* was recorded.  A request that breaks may be recorded and then not       *)
(* answered, never the other way round.                                    *)
(* GatewayChat.tla implements this specification for requests that are not *)
(* streamed (see GatewayChat!Audited).                                     *)
(***************************************************************************)
CONSTANTS
    Outcomes,       \* how a request can end
    Answer          \* Answer[o]: the answer outcome o is given

VARIABLES
    log,            \* the outcome in the audit log, "none" before
    reply           \* the answer given, "none" before

vars == <<log, reply>>

Init == log = "none" /\ reply = "none"

Record(o) == log = "none" /\ reply = "none" /\ log' = o /\ UNCHANGED reply

Reply == log # "none" /\ reply = "none" /\ reply' = Answer[log] /\ UNCHANGED log

Break == reply = "none" /\ reply' = "error" /\ UNCHANGED log

Next == (\E o \in Outcomes : Record(o)) \/ Reply \/ Break

Spec == Init /\ [][Next]_vars

=============================================================================
