---------------------------- MODULE PolicyEngine ----------------------------
(***************************************************************************)
(* The inspection of one prompt: DLP, the rules of the policy bundle, its  *)
(* custom intents, the threat catalogue, and OPA                           *)
(* (backend/app/services/policy_engine.py, policy_bundle_service.py,       *)
(* custom_intent_service.py, injection_detection_service.py,               *)
(* dlp_service.py, opa_service.py and the part of prepare_chat_request in  *)
(* gateway_service.py that merges their verdicts).                         *)
(*                                                                         *)
(* A text is the set of the marks it holds: what some pattern, keyword or  *)
(* classifier would find.  Policies and custom intents are trees of nodes  *)
(* below folders; intents can be moved, so that their folders may form a   *)
(* cycle.  Rules are taken in any order.                                   *)
(***************************************************************************)
EXTENDS Naturals, FiniteSets

CONSTANTS
    Marks, Pii, Threats,    \* what a text may hold; what DLP and the catalogue find
    Ssn,            \* the mark a Redact rule without a pattern of its own removes
    Nodes,          \* policies, custom intents and their folders
    Folders, Intents, Parent,   \* Parent[n]: the folder of n, or NoNode
    NoNode,
    RulesOf,        \* RulesOf[n]: the rules of policy n
    KeywordOf,      \* KeywordOf[n]: the mark that intent n matches
    PackRules, Builtin,     \* the rules of a framework pack; BUILTIN_RULES
    Bundles,        \* configurations of a bundle: [status, policies, packs, intents]
    NoBundle

Conditions == [kind : {"text"}, mark : Marks] \cup [kind : {"has_pii", "abroad"}]
Rules == [on : Conditions, pattern : BOOLEAN, action : {"Block", "Redact", "Allow"},
          severity : 0..3, enabled : BOOLEAN]

ASSUME ConfigurationAssumption ==
    /\ IsFiniteSet(Marks) /\ Pii \subseteq Marks /\ Threats \subseteq Marks /\ Ssn \in Pii
    /\ IsFiniteSet(Nodes) /\ Folders \subseteq Nodes /\ Intents \subseteq Nodes \ Folders
    /\ NoNode \notin Nodes /\ Parent \in [Nodes -> Folders \cup {NoNode}]
    /\ RulesOf \in [Nodes -> SUBSET Rules] /\ KeywordOf \in [Nodes -> Marks]
    /\ PackRules \subseteq Rules /\ Builtin \subseteq Rules
    /\ Bundles \subseteq [status : {"active", "disabled"}, policies : SUBSET Nodes,
                          packs : BOOLEAN, intents : SUBSET Nodes]
    /\ NoBundle \notin Bundles

VARIABLES
    pc,             \* the stage of the inspection, or how it ended
    text, region,   \* the prompt, and the region the bundle's name implies
    key, default,   \* the bundle of the caller's key, and the tenant's default
    active,         \* the nodes that are active
    seen,           \* the prompt as DLP left it: what is inspected
    work, visited,  \* the nodes _resolve_policies or _resolve_intents has to do; has met
    todo,           \* rules still to be evaluated
    blocked, redacting, risk, left,     \* what _evaluate_rules accumulates
    verdict,        \* the InspectionResult
    opa             \* what OPA answered

engineVars == <<pc, text, region, key, default, active, seen, work, visited, todo,
                blocked, redacting, risk, left, verdict, opa>>
input == <<text, region, key, default, active>>
tree == <<work, visited>>
found == <<blocked, redacting, risk, left>>

Nothing == [redacted |-> FALSE, text |-> {}]
Redacted(t) == [redacted |-> TRUE, text |-> t]
Result(allowed, content, level) == [allowed |-> allowed, content |-> content, risk |-> level]
Higher(s, t) == IF s > t THEN s ELSE t

EngineInit ==
    /\ pc = "dlp"
    /\ text \in SUBSET Marks /\ region \in {"US", "EU"}
    /\ key \in Bundles \cup {NoBundle}
    /\ default \in {b \in Bundles : b.status = "active"} \cup {NoBundle}
    /\ active \in SUBSET Nodes
    /\ seen = {} /\ work = {} /\ visited = {} /\ todo = {}
    /\ blocked = FALSE /\ redacting = FALSE /\ risk = 0 /\ left = {}
    /\ verdict = Result(TRUE, Nothing, 0)
    /\ opa = "none"

\* inspect_for_gateway: the key's bundle, else the default, else none.
Bundle == IF key # NoBundle THEN key ELSE default

----------------------------------------------------------------------------
(* DLP, and the rules of the bundle.                                        *)

HasPii == text \cap Pii # {}

Scan ==
    /\ pc = "dlp"
    /\ seen' = text \ Pii
    /\ left' = seen'
    /\ work' = IF Bundle # NoBundle /\ Bundle.status = "active" THEN Bundle.policies ELSE {}
    /\ pc' = "policies"
    /\ UNCHANGED <<input, visited, todo, blocked, redacting, risk, verdict, opa>>

\* One call of _resolve_policies or _resolve_intents.  (For mutation: without
\* the look at the nodes that were visited.)
Children(n) == {c \in active : Parent[c] = n}
VisitWhen(n, first) ==
    /\ pc \in {"policies", "intents"} /\ n \in work
    /\ work' = (work \ {n}) \cup IF first /\ n \in active \cap Folders THEN Children(n) ELSE {}
    /\ visited' = visited \cup {n}
    /\ UNCHANGED <<pc, input, seen, todo, found, verdict, opa>>
VisitAgain(n) == VisitWhen(n, TRUE)
Visit(n) == VisitWhen(n, n \notin visited)

\* load_bundle_rules: packs count only beside policies; without any rule the
\* built-in ones apply.
Resolved == (visited \cap active) \ Folders
Packs == IF Bundle # NoBundle /\ Bundle.packs /\ visited # {} THEN PackRules ELSE {}
Stored == {r \in UNION {RulesOf[n] : n \in Resolved} : r.enabled} \cup Packs

LoadRules ==
    /\ pc = "policies" /\ work = {}
    /\ todo' = IF Stored # {} THEN Stored ELSE Builtin
    /\ pc' = "rules"
    /\ UNCHANGED <<input, seen, tree, found, verdict, opa>>

Matches(r) ==
    CASE r.on.kind = "text" -> r.on.mark \in seen
      [] r.on.kind = "has_pii" -> HasPii
      [] OTHER -> region # "EU"

\* What a Redact rule removes: what its pattern matches, or social security
\* numbers if its condition is no pattern.
Removes(r) == IF r.pattern THEN {r.on.mark} ELSE {Ssn}

\* One round of _evaluate_rules.  (For mutation: the last rule decides.)
EvaluateWith(r, stop) ==
    /\ pc = "rules" /\ r \in todo
    /\ todo' = todo \ {r}
    /\ IF r.enabled /\ Matches(r)
       THEN /\ blocked' = stop
            /\ redacting' = (redacting \/ r.action = "Redact")
            /\ risk' = Higher(risk, r.severity)
            /\ left' = IF r.action = "Redact" THEN left \ Removes(r) ELSE left
       ELSE UNCHANGED found
    /\ UNCHANGED <<pc, input, seen, tree, verdict, opa>>
EvaluateLast(r) == EvaluateWith(r, r.action = "Block")
Evaluate(r) == EvaluateWith(r, blocked \/ r.action = "Block")

Conclude ==
    /\ pc = "rules" /\ todo = {}
    /\ verdict' = IF blocked THEN Result(FALSE, Nothing, risk)
                  ELSE IF redacting THEN Result(TRUE, Redacted(left), risk)
                  ELSE Result(TRUE, Nothing, 0)
    /\ work' = IF Bundle # NoBundle THEN Bundle.intents ELSE {}
    /\ visited' = {}
    /\ pc' = "intents"
    /\ UNCHANGED <<input, seen, todo, found, opa>>

----------------------------------------------------------------------------
(* Custom intents, threats, and the merge of the verdicts.                  *)

\* A bundle's intents are matched whatever its status; reading is_matched of
\* the first match, of any action, raises.
Matched == {n \in visited \cap active \cap Intents : KeywordOf[n] \in seen}
ScanIntents ==
    /\ pc = "intents" /\ work = {}
    /\ pc' = IF Matched # {} THEN "error" ELSE "threats"
    /\ UNCHANGED <<input, seen, tree, todo, found, verdict, opa>>

\* _merge_threat_scan, for which every threat is at least "high".
MergeThreats ==
    /\ pc = "threats"
    /\ verdict' = IF seen \cap Threats = {} THEN verdict
                  ELSE \* (a blocked result carries no text)
                       Result(FALSE, Nothing, Higher(verdict.risk, 2))
    /\ pc' = "merge"
    /\ UNCHANGED <<input, seen, tree, todo, found, opa>>

\* prepare_chat_request: what DLP redacted, unless the rules redacted more.
\* (For mutation: in any case.)
MergeDlpWhen(redact) ==
    /\ pc = "merge"
    /\ verdict' = IF redact
                  THEN Result(TRUE, Redacted(seen), IF verdict.risk = 0 THEN 1 ELSE verdict.risk)
                  ELSE verdict
    /\ pc' = IF verdict.allowed THEN "opa" ELSE "blocked"
    /\ UNCHANGED <<input, seen, tree, todo, found, opa>>
MergeDlpFirst == MergeDlpWhen(HasPii /\ verdict.allowed)
MergeDlp == MergeDlpWhen(HasPii /\ verdict.allowed /\ ~verdict.content.redacted)

\* evaluate_gateway_abac: OPA is off, unreachable and failing open, or closed,
\* or answers.
AskOpa ==
    /\ pc = "opa"
    /\ opa' \in {"skipped", "closed", "allow", "deny"}
    /\ verdict' = IF opa' \in {"closed", "deny"} THEN [verdict EXCEPT !.allowed = FALSE] ELSE verdict
    /\ pc' = IF verdict'.allowed THEN "sent" ELSE "blocked"
    /\ UNCHANGED <<input, seen, tree, todo, found>>

----------------------------------------------------------------------------
Ended == pc \in {"sent", "blocked", "error"}

EngineNext ==
    \/ Scan \/ LoadRules \/ Conclude \/ ScanIntents \/ MergeThreats \/ MergeDlp \/ AskOpa
    \/ \E n \in Nodes : Visit(n)
    \/ \E r \in todo : Evaluate(r)
    \/ Ended /\ UNCHANGED engineVars

\* The handler runs on.
EngineSpec == EngineInit /\ [][EngineNext]_engineVars /\ WF_engineVars(EngineNext)

\* The user's messages as the provider gets them.
Sent == IF verdict.content.redacted THEN verdict.content.text ELSE text

----------------------------------------------------------------------------
(* Properties.                                                              *)

\* The active policies or intents below the nodes of S, all folders on the way
\* being active too.
Closed(S, T) ==
    /\ S \cap active \subseteq T
    /\ \A n \in T \cap Folders : Children(n) \subseteq T
Below(S) == {n \in active \ Folders : \A T \in SUBSET active : Closed(S, T) => n \in T}

Attached == IF Bundle # NoBundle /\ Bundle.status = "active" THEN Bundle.policies ELSE {}
OwnRules ==
    {r \in UNION {RulesOf[n] : n \in Below(Attached)} : r.enabled}
    \cup (IF Attached # {} /\ Bundle.packs THEN PackRules ELSE {})
InForce == IF OwnRules # {} THEN OwnRules ELSE Builtin
Applies(action) == {r \in InForce : r.enabled /\ r.action = action /\ Matches(r)}

EngineTypeOK ==
    /\ pc \in {"dlp", "policies", "rules", "intents", "threats", "merge", "opa",
               "sent", "blocked", "error"}
    /\ text \subseteq Marks /\ seen \subseteq text /\ left \subseteq seen
    /\ work \subseteq Nodes /\ visited \subseteq Nodes /\ active \subseteq Nodes
    /\ todo \subseteq Rules
    /\ {blocked, redacting} \subseteq BOOLEAN /\ risk \in 0..3
    /\ verdict \in [allowed : BOOLEAN, risk : 0..3, content : [redacted : BOOLEAN, text : SUBSET Marks]]
    /\ opa \in {"none", "skipped", "closed", "allow", "deny"}

\* A prompt is blocked if and only if a Block rule in force matches it as DLP left
\* it, it holds a threat, or OPA does not let it pass: whatever the order of
\* the rules and the folders they are in.
VerdictRight ==
    pc \in {"sent", "blocked"} =>
        (pc = "blocked") = \/ Applies("Block") # {}
                           \/ seen \cap Threats # {}
                           \/ opa \in {"closed", "deny"}

\* Type correctness and the verdict together.
PolicyInv == EngineTypeOK /\ VerdictRight

\* What reaches a provider holds neither what DLP finds, nor a threat, nor
\* anything a Redact rule with a pattern matches: each stage keeps what
\* the stages before it removed.
SentClean ==
    pc = "sent" =>
        Sent \cap (Pii \cup Threats \cup UNION {Removes(r) : r \in Applies("Redact")}) = {}

\* Every inspection ends, also where folders of intents contain each other.
InspectionEnds == <>Ended
=============================================================================
