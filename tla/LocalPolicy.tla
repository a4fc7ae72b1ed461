----------------------------- MODULE LocalPolicy -----------------------------
(***************************************************************************)
(* The policy the endpoint agent evaluates on the machine:                 *)
(* endpoint-agent/pysetu_agent/policy.py, over the labels of detection.py. *)
(*                                                                         *)
(* Text is abstracted to the set of labels the detector finds in it, a     *)
(* rule's pattern to the resources it matches.                             *)
(***************************************************************************)
EXTENDS Naturals

CONSTANT Resources

Secrets ==
    {"PRIVATE_KEY", "AWS_ACCESS_KEY", "SLACK_TOKEN", "GITHUB_TOKEN", "OPENAI_KEY", "JWT",
     "GENERIC_SECRET"}
Personal == {"SSN", "EMAIL", "US_PHONE", "EU_PERSONAL_ID", "PCI_CARD"}
Labels == Secrets \union Personal

Actions == {"allow", "log", "redact", "approval", "block"}

\* A LocalPolicy is a set of rules.
PolicyRule == [covers : SUBSET Resources, label : Labels \union {"*"}, action : Actions]

\* ACTION_RANK
Rank == [allow |-> 1, log |-> 2, redact |-> 3, approval |-> 4, block |-> 5]

\* CLASSIFICATION_DEFAULT_ACTION: of the secrets, only these are blocked.
BlockedByDefault == {"PRIVATE_KEY", "AWS_ACCESS_KEY", "GENERIC_SECRET"}

DefaultAction(labels) ==
    IF labels \intersect BlockedByDefault # {} THEN "block"
    ELSE IF labels \intersect Personal # {} THEN "redact"
    ELSE "allow"

Matching(policy, resource, labels) ==
    {r \in policy : resource \in r.covers /\ (r.label = "*" \/ r.label \in labels)}

\* The strictest matching rule decides; without one, the default for the labels.
Evaluate(policy, resource, labels) ==
    LET rules == Matching(policy, resource, labels)
    IN  IF rules = {} THEN DefaultAction(labels)
        ELSE (CHOOSE r \in rules : \A other \in rules : Rank[other.action] <= Rank[r.action]).action

=============================================================================
