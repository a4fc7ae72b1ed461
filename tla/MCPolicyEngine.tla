--------------------------- MODULE MCPolicyEngine ---------------------------
(* Small instances of PolicyEngine for TLC.                                 *)
EXTENDS PolicyEngine, TLC

CONSTANTS ssn, secret, word, folder, outer, policy, plain, ring, other, intent

Rule(on, pattern, action, severity, enabled) ==
    [on |-> on, pattern |-> pattern, action |-> action, severity |-> severity, enabled |-> enabled]
Text(mark) == [kind |-> "text", mark |-> mark]

\* outer contains folder, which contains policy; plain is in no folder.  The
\* folders ring and other of intents contain each other, and other an intent.
MCParent ==
    folder :> outer @@ outer :> NoNode @@ policy :> folder @@ plain :> NoNode
    @@ ring :> other @@ other :> ring @@ intent :> other
MCRulesOf ==
    [n \in {folder, outer, ring, other, intent} |-> {}]
    @@ policy :> {Rule(Text(word), TRUE, "Redact", 1, TRUE), Rule(Text(word), FALSE, "Redact", 3, TRUE),
                  Rule([kind |-> "abroad"], FALSE, "Allow", 2, TRUE)}
    @@ plain :> {Rule([kind |-> "has_pii"], FALSE, "Block", 2, TRUE),
                 Rule(Text(word), FALSE, "Block", 3, FALSE)}
MCKeywordOf == [n \in Nodes |-> word]
MCPackRules == {Rule([kind |-> "abroad"], FALSE, "Block", 2, TRUE)}
MCBuiltin ==
    {Rule(Text(ssn), TRUE, "Redact", 2, TRUE), Rule(Text(secret), TRUE, "Block", 3, TRUE)}

MCBundles ==
    {[status |-> "active", policies |-> {outer, plain}, packs |-> FALSE, intents |-> {}],
     [status |-> "active", policies |-> {outer}, packs |-> TRUE, intents |-> {ring}],
     [status |-> "disabled", policies |-> {plain}, packs |-> TRUE, intents |-> {intent}],
     [status |-> "active", policies |-> {}, packs |-> TRUE, intents |-> {}]}
=============================================================================
