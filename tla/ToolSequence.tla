---------------------------- MODULE ToolSequence ----------------------------
(***************************************************************************)
(* The tool sequence detector of                                           *)
(* backend/app/services/mcp_sequence_detector.py: what evaluate_tool_      *)
(* sequence decides about a call, given the calls before it.               *)
(*                                                                         *)
(* A call is a tool name with its arguments; calls of one tool share their *)
(* capabilities, calls with the same arguments are the same element.       *)
(***************************************************************************)
EXTENDS Naturals, Sequences

CONSTANTS
    Calls,          \* the tool calls a model may ask for
    Capabilities    \* Capabilities[c]: what _classify_tool finds in c's name

CapabilityNames ==
    {"read_sensitive", "network_egress", "code_exec", "infra_mutation",
     "infra_discovery", "iam_privilege"}

ASSUME CapabilitiesAssumption == Capabilities \in [Calls -> SUBSET CapabilityNames]

\* The capabilities of the calls of a history.
Seen(history) == UNION {Capabilities[history[i]] : i \in DOMAIN history}

\* The same call three times in a row.
RunawayLoop(history, c) ==
    /\ Len(history) >= 2
    /\ history[Len(history)] = c
    /\ history[Len(history) - 1] = c

\* Sensitive data was read; now it could leave the host or be executed.
\* (For mutation: only what was read just before counts.)
ExfiltrationOfLast(history, c) ==
    /\ history # <<>>
    /\ "read_sensitive" \in Capabilities[history[Len(history)]]
    /\ Capabilities[c] \intersect {"network_egress", "code_exec"} # {}

Exfiltration(history, c) ==
    /\ "read_sensitive" \in Seen(history)
    /\ Capabilities[c] \intersect {"network_egress", "code_exec"} # {}

\* A destructive call, or a change of privileges after reconnaissance.
HighImpact(history, c) ==
    \/ "infra_mutation" \in Capabilities[c]
    \/ /\ "infra_discovery" \in Seen(history)
       /\ "iam_privilege" \in Capabilities[c]

\* The verdict's action; the first rule that matches decides.
Verdict(history, c) ==
    IF RunawayLoop(history, c) \/ Exfiltration(history, c) THEN "block"
    ELSE IF HighImpact(history, c) THEN "request_approval"
    ELSE "allow"

=============================================================================
