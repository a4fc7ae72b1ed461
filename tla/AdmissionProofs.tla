--------------------------- MODULE AdmissionProofs ---------------------------
(***************************************************************************)
(* Theorems about what admits a request: first PolicyEngine, for any       *)
(* marks, rules, bundles and trees of folders; then RateLimit, for every   *)
(* set of workers, every chain of counters, every limit and every number   *)
(* of faults.                                                              *)
(***************************************************************************)
EXTENDS PolicyEngine, RateLimit, FiniteSetTheorems, TLAPS

----------------------------------------------------------------------------
(* The inductive invariant: one part per stage of the inspection.           *)

\* The bundles are the ones the tenant has.
InputInv == key \in Bundles \cup {NoBundle} /\ default \in Bundles \cup {NoBundle}

\* Everything after DLP looks at the prompt without what DLP finds, and nothing
\* is accumulated before the first rule is evaluated.
ScanInv ==
    /\ pc # "dlp" => seen = text \ Pii
    /\ pc = "dlp" => visited = {}
    /\ pc \in {"dlp", "policies"} => ~blocked /\ ~redacting
    /\ pc \notin {"sent", "blocked", "error"} => opa = "none"

\* The nodes that _resolve_policies has met or still has to visit are between
\* what is attached to the bundle and what any set closed under folders holds.
Met == work \cup visited
WalkInv ==
    pc = "policies" =>
        /\ Attached \subseteq Met /\ (Attached = {} => Met = {})
        /\ \A n \in visited \cap active \cap Folders : Children(n) \subseteq Met
        /\ \A T \in SUBSET active : Closed(Attached, T) => Met \cap active \subseteq T

\* What _evaluate_rules has accumulated is what the rules of the bundle that
\* were evaluated, in whatever order, call for.
Clean(t) == t \subseteq seen /\ \A r \in Applies("Redact") : t \cap Removes(r) = {}
RulesInv ==
    pc = "rules" =>
        /\ todo \subseteq InForce
        /\ blocked = (Applies("Block") \ todo # {})
        /\ redacting = (Applies("Redact") \ todo # {})
        /\ \A r \in Applies("Redact") \ todo : left \cap Removes(r) = {}

\* Each later stage keeps what the stages before it decided and removed.
Harmless == Applies("Block") = {} /\ seen \cap Threats = {}
JudgedInv ==
    /\ pc \in {"intents", "threats"} => verdict.allowed = (Applies("Block") = {})
    /\ pc = "merge" => verdict.allowed = Harmless
    /\ pc = "opa" => verdict.allowed /\ Harmless
    /\ pc = "sent" => Harmless /\ opa \notin {"closed", "deny"}
    /\ pc = "blocked" => ~Harmless \/ opa \in {"closed", "deny"}
    /\ pc \in {"intents", "threats", "merge", "opa", "sent"} =>
          /\ verdict.content.redacted => Clean(verdict.content.text)
          /\ verdict.allowed /\ Applies("Redact") # {} => verdict.content.redacted
    /\ pc \in {"opa", "sent"} => verdict.allowed /\ (HasPii => verdict.content.redacted)

EngineInv == EngineTypeOK /\ InputInv /\ ScanInv /\ WalkInv /\ RulesInv /\ JudgedInv

----------------------------------------------------------------------------
(* The operators of the model.                                              *)

\* What the inspection reads of its configuration does not change.
LEMMA InputFixed ==
  ASSUME UNCHANGED input
  PROVE  /\ Bundle' = Bundle /\ Attached' = Attached /\ InForce' = InForce /\ HasPii' = HasPii
         /\ \A n : Children(n)' = Children(n)
<1>1. Bundle' = Bundle
  BY DEF input, Bundle
<1>2. Attached' = Attached
  BY <1>1 DEF Attached
<1>3. \A n : Children(n)' = Children(n)
  BY DEF input, Children
<1>4. Below(Attached)' = Below(Attached)
  BY <1>2, <1>3 DEF input, Below, Closed
<1>5. OwnRules' = OwnRules
  BY <1>1, <1>2, <1>4 DEF OwnRules
<1>6. QED
  BY <1>1, <1>2, <1>3, <1>5 DEF InForce, HasPii, input

\* Nor, once DLP is done, does what the rules say of the prompt.
LEMMA PromptFixed ==
  ASSUME UNCHANGED <<input, seen>>
  PROVE  /\ \A a : Applies(a)' = Applies(a)
         /\ Harmless' = Harmless
         /\ \A t : Clean(t)' = Clean(t)
<1>1. InForce' = InForce /\ HasPii' = HasPii
  BY InputFixed
<1>2. \A r : Matches(r)' = Matches(r)
  BY <1>1 DEF Matches, input
<1>3. \A a : Applies(a)' = Applies(a)
  BY <1>1, <1>2 DEF Applies
<1>4. QED
  BY <1>3 DEF Harmless, Clean

LEMMA RuleTypes ==
  ASSUME EngineTypeOK
  PROVE  Stored \subseteq Rules /\ Builtin \subseteq Rules
<1>1. \A n \in Resolved : RulesOf[n] \subseteq Rules
  BY ConfigurationAssumption DEF Resolved, EngineTypeOK
<1>2. QED
  BY <1>1, ConfigurationAssumption DEF Stored, Packs

LEMMA BundleTypes ==
  ASSUME InputInv
  PROVE  /\ Bundle # NoBundle => Bundle.policies \subseteq Nodes /\ Bundle.intents \subseteq Nodes
         /\ Attached \subseteq Nodes
BY ConfigurationAssumption DEF InputInv, Bundle, Attached

\* A walk that has nothing left to visit has met what is below the bundle's
\* nodes, and no more.
LEMMA WalkEnds ==
  ASSUME EngineTypeOK, WalkInv, pc = "policies", work = {}
  PROVE  Resolved = Below(Attached) /\ (visited = {} <=> Attached = {})
<1>1. Attached \subseteq visited /\ (Attached = {} => visited = {})
  BY DEF WalkInv, Met
<1>2. Resolved \subseteq Below(Attached)
  BY DEF WalkInv, Met, Resolved, Below
<1>3. Closed(Attached, visited \cap active)
  BY <1>1 DEF Closed, Children, WalkInv, Met
<1>4. Below(Attached) \subseteq Resolved
  BY <1>3 DEF Below, Resolved
<1>5. QED
  BY <1>1, <1>2, <1>4

\* So load_bundle_rules loads the rules that are in force.
LEMMA LoadsInForce ==
  ASSUME EngineTypeOK, WalkInv, pc = "policies", work = {}
  PROVE  (IF Stored # {} THEN Stored ELSE Builtin) = InForce
<1>1. Resolved = Below(Attached) /\ (visited = {} <=> Attached = {})
  BY WalkEnds
<1>2. Attached # {} => Bundle # NoBundle
  BY DEF Attached
<1>3. Packs = IF Attached # {} /\ Bundle.packs THEN PackRules ELSE {}
  BY <1>1, <1>2 DEF Packs
<1>4. Stored = OwnRules
  BY <1>1, <1>3 DEF Stored, OwnRules
<1>5. QED
  BY <1>4 DEF InForce

----------------------------------------------------------------------------
(* Each step keeps the invariant.                                           *)

LEMMA EngineStarts == EngineInit => EngineInv
<1> SUFFICES ASSUME EngineInit PROVE EngineInv
  OBVIOUS
<1>1. EngineTypeOK
  <2>1. verdict \in [allowed : BOOLEAN, risk : 0..3, content : [redacted : BOOLEAN, text : SUBSET Marks]]
    BY DEF EngineInit, Result, Nothing
  <2>2. /\ pc = "dlp" /\ opa = "none" /\ blocked = FALSE /\ redacting = FALSE /\ risk = 0
        /\ seen = {} /\ left = {} /\ work = {} /\ visited = {} /\ todo = {}
        /\ text \subseteq Marks /\ active \subseteq Nodes
    BY DEF EngineInit
  <2>3. blocked \in BOOLEAN /\ redacting \in BOOLEAN
    BY <2>2, Zenon
  <2>4. risk \in 0..3
    BY <2>2
  <2>5. QED
    BY <2>1, <2>2, <2>3, <2>4, Zenon DEF EngineTypeOK
<1>2. QED
  BY <1>1 DEF EngineInit, EngineInv, InputInv, ScanInv, WalkInv, RulesInv, JudgedInv

LEMMA ScanKeeps == EngineInv /\ Scan => EngineInv'
<1> SUFFICES ASSUME EngineInv, Scan PROVE EngineInv'
  OBVIOUS
<1> USE DEF EngineInv
<1>1. UNCHANGED input
  BY DEF Scan
<1>2. Attached' = Attached /\ work' = Attached /\ Attached \subseteq Nodes
  BY <1>1, InputFixed, BundleTypes DEF Scan, Attached
<1>3. EngineTypeOK'
  BY <1>2 DEF Scan, EngineTypeOK, input
<1>4. InputInv' /\ ScanInv'
  BY DEF Scan, InputInv, ScanInv, input
<1>5. WalkInv'
  <2>1. SUFFICES /\ (visited = {})'
                 /\ \A T \in SUBSET active' : Closed(Attached, T)' => Met' \cap active' \subseteq T
    BY <1>2 DEF WalkInv, Met
  <2>2. visited' = {}
    BY DEF Scan, ScanInv
  <2>3. QED
    BY <1>2, <2>2 DEF Closed, Met
<1>6. RulesInv' /\ JudgedInv'
  BY DEF Scan, RulesInv, JudgedInv
<1>7. QED
  BY <1>3, <1>4, <1>5, <1>6

LEMMA VisitKeeps ==
  ASSUME EngineInv, NEW n \in Nodes, Visit(n)
  PROVE  EngineInv'
<1> USE DEF EngineInv
<1>1. UNCHANGED <<pc, input, seen, todo, found, verdict, opa>>
  BY DEF Visit, VisitWhen
<1>2. EngineTypeOK'
  BY <1>1 DEF Visit, VisitWhen, EngineTypeOK, input, found, Children
<1>3. InputInv' /\ ScanInv'
  BY <1>1 DEF Visit, VisitWhen, InputInv, ScanInv, input, found
<1>4. WalkInv'
  <2> SUFFICES ASSUME pc = "policies" PROVE WalkInv'
    BY <1>1 DEF WalkInv
  <2>1. Attached' = Attached /\ active' = active /\ \A m : Children(m)' = Children(m)
    BY <1>1, InputFixed DEF input
  <2>2. n \in work /\ visited' = visited \cup {n}
    BY DEF Visit, VisitWhen
  <2>3. Met' = Met \/ (n \in active \cap Folders /\ Met' = Met \cup Children(n))
    BY <2>2 DEF Visit, VisitWhen, Met
  <2>4. \A m \in visited' \cap active \cap Folders : Children(m) \subseteq Met'
    <3> SUFFICES ASSUME n \in active \cap Folders, n \notin visited PROVE Children(n) \subseteq Met'
      BY <2>2, <2>3 DEF WalkInv
    <3> QED
      BY DEF Visit, VisitWhen, Met
  <2>5. ASSUME NEW T \in SUBSET active, Closed(Attached, T)
        PROVE  Met' \cap active \subseteq T
    <3>1. Met \cap active \subseteq T
      BY <2>5 DEF WalkInv
    <3>2. n \in active \cap Folders => Children(n) \subseteq T
      BY <2>2, <2>5, <3>1 DEF Closed, Met
    <3> QED
      BY <2>3, <3>1, <3>2
  <2>6. Attached \subseteq Met' /\ (Attached = {} => Met' = {})
    BY <2>2, <2>3 DEF WalkInv, Met
  <2>7. \A T : Closed(Attached, T)' <=> Closed(Attached, T)
    BY <2>1 DEF Closed
  <2>8. QED
    BY <2>1, <2>4, <2>5, <2>6, <2>7 DEF WalkInv
<1>5. RulesInv' /\ JudgedInv'
  <2>1. /\ \A a : Applies(a)' = Applies(a)
        /\ Harmless' = Harmless /\ InForce' = InForce /\ HasPii' = HasPii
        /\ \A t : Clean(t)' = Clean(t)
    BY <1>1, PromptFixed, InputFixed
  <2>2. RulesInv'
    BY <1>1, <2>1 DEF RulesInv, found
  <2>3. JudgedInv'
    BY <1>1, <2>1 DEF JudgedInv
  <2>4. QED
    BY <2>2, <2>3
<1>6. QED
  BY <1>2, <1>3, <1>4, <1>5

LEMMA LoadRulesKeeps == EngineInv /\ LoadRules => EngineInv'
<1> SUFFICES ASSUME EngineInv, LoadRules PROVE EngineInv'
  OBVIOUS
<1> USE DEF EngineInv
<1>1. /\ UNCHANGED <<input, seen, tree, found, verdict, opa>>
      /\ pc = "policies" /\ pc' = "rules" /\ work = {}
  BY DEF LoadRules
<1>2. todo' = InForce /\ todo' \subseteq Rules
  BY <1>1, LoadsInForce, RuleTypes DEF LoadRules
<1>3. /\ \A a : Applies(a)' = Applies(a)
      /\ InForce' = InForce
  BY <1>1, PromptFixed, InputFixed
<1>4. EngineTypeOK'
  BY <1>1, <1>2 DEF EngineTypeOK, input, tree, found
<1>5. InputInv' /\ ScanInv' /\ WalkInv' /\ JudgedInv'
  BY <1>1 DEF InputInv, ScanInv, WalkInv, JudgedInv, input, found
<1>6. \A a : Applies(a) \subseteq InForce
  BY DEF Applies
<1>7. RulesInv'
  <2>1. blocked' = FALSE /\ redacting' = FALSE
    BY <1>1 DEF ScanInv, EngineTypeOK, found
  <2>2. \A a : Applies(a)' \ todo' = {}
    BY <1>2, <1>3, <1>6
  <2>3. QED
    BY <1>2, <1>3, <2>1, <2>2 DEF RulesInv
<1>8. QED
  BY <1>4, <1>5, <1>7

LEMMA EvaluateKeeps ==
  ASSUME EngineInv, NEW r \in todo, Evaluate(r)
  PROVE  EngineInv'
<1> USE DEF EngineInv
<1>1. /\ UNCHANGED <<pc, input, seen, tree, verdict, opa>>
      /\ pc = "rules" /\ todo' = todo \ {r} /\ r \in Rules /\ r \in InForce
  BY DEF Evaluate, EvaluateWith, EngineTypeOK, RulesInv
<1>2. /\ \A a : Applies(a)' = Applies(a)
      /\ InForce' = InForce
  BY <1>1, PromptFixed, InputFixed
<1>3. r.action \in {"Block", "Redact", "Allow"} /\ r.severity \in 0..3
  BY <1>1 DEF Rules
<1>4. EngineTypeOK'
  <2>1. /\ {blocked', redacting'} \subseteq BOOLEAN /\ risk' \in 0..3 /\ left' \subseteq seen
    BY <1>3 DEF Evaluate, EvaluateWith, EngineTypeOK, found, Higher
  <2>2. QED
    BY <1>1, <2>1 DEF EngineTypeOK, input, tree
<1>5. InputInv' /\ ScanInv' /\ WalkInv' /\ JudgedInv'
  BY <1>1 DEF InputInv, ScanInv, WalkInv, JudgedInv, input
<1>6. \A a : r \in Applies(a) <=> r.enabled /\ Matches(r) /\ r.action = a
  BY <1>1 DEF Applies
<1>7. RulesInv'
  <2>1. CASE r.enabled /\ Matches(r)
    <3>1. /\ blocked' = (blocked \/ r.action = "Block")
          /\ redacting' = (redacting \/ r.action = "Redact")
          /\ left' = IF r.action = "Redact" THEN left \ Removes(r) ELSE left
      BY <2>1 DEF Evaluate, EvaluateWith
    <3>2. \A a : Applies(a) \ todo' =
                   IF r.action = a THEN (Applies(a) \ todo) \cup {r} ELSE Applies(a) \ todo
      BY <1>1, <1>6, <2>1
    <3>3. blocked' = (Applies("Block") \ todo' # {})
      BY <1>1, <3>1, <3>2 DEF RulesInv
    <3>4. redacting' = (Applies("Redact") \ todo' # {})
      BY <1>1, <3>1, <3>2 DEF RulesInv
    <3>5. \A s \in Applies("Redact") \ todo' : left' \cap Removes(s) = {}
      BY <1>1, <3>1, <3>2 DEF RulesInv
    <3>6. QED
      BY <1>1, <1>2, <3>3, <3>4, <3>5 DEF RulesInv, Removes
  <2>2. CASE ~(r.enabled /\ Matches(r))
    <3>1. UNCHANGED found
      BY <2>2 DEF Evaluate, EvaluateWith
    <3>2. \A a : Applies(a) \ todo' = Applies(a) \ todo
      BY <1>1, <1>6, <2>2
    <3>3. QED
      BY <1>1, <1>2, <3>1, <3>2 DEF RulesInv, found
  <2>3. QED
    BY <2>1, <2>2
<1>8. QED
  BY <1>4, <1>5, <1>7

LEMMA ConcludeKeeps == EngineInv /\ Conclude => EngineInv'
<1> SUFFICES ASSUME EngineInv, Conclude PROVE EngineInv'
  OBVIOUS
<1> USE DEF EngineInv
<1>1. /\ UNCHANGED <<input, seen, todo, found, opa>>
      /\ pc = "rules" /\ pc' = "intents" /\ todo = {}
  BY DEF Conclude
<1>2. /\ \A a : Applies(a)' = Applies(a)
      /\ \A t : Clean(t)' = Clean(t)
  BY <1>1, PromptFixed
<1>3. verdict' = IF blocked THEN Result(FALSE, Nothing, risk)
                 ELSE IF redacting THEN Result(TRUE, Redacted(left), risk)
                 ELSE Result(TRUE, Nothing, 0)
  BY DEF Conclude
<1>4. EngineTypeOK'
  <2>1. work' \subseteq Nodes /\ visited' = {}
    BY BundleTypes DEF Conclude
  <2>2. left \subseteq Marks
    BY DEF EngineTypeOK
  <2>3. verdict' \in [allowed : BOOLEAN, risk : 0..3, content : [redacted : BOOLEAN, text : SUBSET Marks]]
    BY <1>3, <2>2 DEF EngineTypeOK, Result, Redacted, Nothing
  <2>4. QED
    BY <1>1, <2>1, <2>3 DEF EngineTypeOK, input, found
<1>5. InputInv' /\ ScanInv' /\ WalkInv' /\ RulesInv'
  BY <1>1 DEF InputInv, ScanInv, WalkInv, RulesInv, input, found
<1>6. JudgedInv'
  <2>1. /\ blocked = (Applies("Block") # {}) /\ redacting = (Applies("Redact") # {})
        /\ \A r \in Applies("Redact") : left \cap Removes(r) = {}
    BY <1>1 DEF RulesInv
  <2>2. Clean(left)
    BY <2>1 DEF Clean, EngineTypeOK
  <2>3. verdict'.allowed = (Applies("Block") = {})
    BY <1>3, <2>1 DEF Result
  <2>4. verdict'.content.redacted => Clean(verdict'.content.text)
    BY <1>3, <2>2 DEF Result, Redacted, Nothing
  <2>5. verdict'.allowed /\ Applies("Redact") # {} => verdict'.content.redacted
    BY <1>3, <2>1 DEF Result, Redacted, Nothing
  <2>6. QED
    BY <1>1, <1>2, <2>3, <2>4, <2>5 DEF JudgedInv
<1>7. QED
  BY <1>4, <1>5, <1>6

LEMMA ScanIntentsKeeps == EngineInv /\ ScanIntents => EngineInv'
<1> SUFFICES ASSUME EngineInv, ScanIntents PROVE EngineInv'
  OBVIOUS
<1> USE DEF EngineInv
<1>1. /\ UNCHANGED <<input, seen, tree, todo, found, verdict, opa>>
      /\ pc = "intents" /\ pc' \in {"error", "threats"}
  BY DEF ScanIntents
<1>2. /\ \A a : Applies(a)' = Applies(a)
      /\ \A t : Clean(t)' = Clean(t)
  BY <1>1, PromptFixed
<1>3. EngineTypeOK' /\ InputInv'
  BY <1>1 DEF EngineTypeOK, InputInv, input, tree, found
<1>4. ScanInv' /\ WalkInv' /\ RulesInv'
  BY <1>1 DEF ScanInv, WalkInv, RulesInv, input, found
<1>5. JudgedInv'
  BY <1>1, <1>2 DEF JudgedInv
<1>6. QED
  BY <1>3, <1>4, <1>5

LEMMA MergeThreatsKeeps == EngineInv /\ MergeThreats => EngineInv'
<1> SUFFICES ASSUME EngineInv, MergeThreats PROVE EngineInv'
  OBVIOUS
<1> USE DEF EngineInv
<1>1. /\ UNCHANGED <<input, seen, tree, todo, found, opa>>
      /\ pc = "threats" /\ pc' = "merge"
      /\ verdict' = IF seen \cap Threats = {} THEN verdict
                    ELSE Result(FALSE, Nothing, Higher(verdict.risk, 2))
  BY DEF MergeThreats
<1>2. /\ \A a : Applies(a)' = Applies(a)
      /\ \A t : Clean(t)' = Clean(t) /\ Harmless' = Harmless
  BY <1>1, PromptFixed
<1>3. EngineTypeOK' /\ InputInv'
  <2>1. Higher(verdict.risk, 2) \in 0..3
    BY DEF Higher, EngineTypeOK
  <2>2. verdict' \in [allowed : BOOLEAN, risk : 0..3, content : [redacted : BOOLEAN, text : SUBSET Marks]]
    BY <1>1, <2>1 DEF EngineTypeOK, Result, Nothing
  <2>3. QED
    BY <1>1, <2>2 DEF EngineTypeOK, InputInv, input, tree, found
<1>4. ScanInv' /\ WalkInv' /\ RulesInv'
  BY <1>1 DEF ScanInv, WalkInv, RulesInv, input, found
<1>5. JudgedInv'
  <2>1. CASE seen \cap Threats = {}
    BY <1>1, <1>2, <2>1 DEF JudgedInv, Harmless
  <2>2. CASE seen \cap Threats # {}
    BY <1>1, <1>2, <2>2 DEF JudgedInv, Harmless, Result, Nothing
  <2>3. QED
    BY <2>1, <2>2
<1>6. QED
  BY <1>3, <1>4, <1>5

LEMMA MergeDlpKeeps == EngineInv /\ MergeDlp => EngineInv'
<1> SUFFICES ASSUME EngineInv, MergeDlp PROVE EngineInv'
  OBVIOUS
<1> USE DEF EngineInv
<1>1. /\ UNCHANGED <<input, seen, tree, todo, found, opa>>
      /\ pc = "merge" /\ pc' = IF verdict.allowed THEN "opa" ELSE "blocked"
      /\ verdict' = IF HasPii /\ verdict.allowed /\ ~verdict.content.redacted
                    THEN Result(TRUE, Redacted(seen), IF verdict.risk = 0 THEN 1 ELSE verdict.risk)
                    ELSE verdict
  BY DEF MergeDlp, MergeDlpWhen
<1>2. /\ \A a : Applies(a)' = Applies(a)
      /\ \A t : Clean(t)' = Clean(t)
      /\ Harmless' = Harmless /\ HasPii' = HasPii
  BY <1>1, PromptFixed, InputFixed
<1>3. EngineTypeOK' /\ InputInv'
  <2>1. seen \subseteq Marks
    BY DEF EngineTypeOK
  <2>2. verdict' \in [allowed : BOOLEAN, risk : 0..3, content : [redacted : BOOLEAN, text : SUBSET Marks]]
    BY <1>1, <2>1 DEF EngineTypeOK, Result, Redacted
  <2>3. QED
    BY <1>1, <2>2 DEF EngineTypeOK, InputInv, input, tree, found
<1>4. ScanInv' /\ WalkInv' /\ RulesInv'
  BY <1>1 DEF ScanInv, WalkInv, RulesInv, input, found
<1>5. JudgedInv'
  <2>1. CASE HasPii /\ verdict.allowed /\ ~verdict.content.redacted
    <3>1. Clean(seen)
      BY <1>1, <2>1 DEF JudgedInv, Clean
    <3>2. verdict'.allowed /\ verdict'.content.redacted /\ verdict'.content.text = seen
      BY <1>1, <2>1 DEF Result, Redacted
    <3>3. QED
      BY <1>1, <1>2, <2>1, <3>1, <3>2 DEF JudgedInv
  <2>2. CASE ~(HasPii /\ verdict.allowed /\ ~verdict.content.redacted)
    BY <1>1, <1>2, <2>2 DEF JudgedInv
  <2>3. QED
    BY <2>1, <2>2
<1>6. QED
  BY <1>3, <1>4, <1>5

LEMMA AskOpaKeeps == EngineInv /\ AskOpa => EngineInv'
<1> SUFFICES ASSUME EngineInv, AskOpa PROVE EngineInv'
  OBVIOUS
<1> USE DEF EngineInv
<1>1. /\ UNCHANGED <<input, seen, tree, todo, found>>
      /\ pc = "opa" /\ pc' = IF verdict'.allowed THEN "sent" ELSE "blocked"
      /\ opa' \in {"skipped", "closed", "allow", "deny"}
      /\ verdict' = IF opa' \in {"closed", "deny"} THEN [verdict EXCEPT !.allowed = FALSE] ELSE verdict
  BY DEF AskOpa
<1>2. /\ \A a : Applies(a)' = Applies(a)
      /\ \A t : Clean(t)' = Clean(t)
      /\ Harmless' = Harmless /\ HasPii' = HasPii
  BY <1>1, PromptFixed, InputFixed
<1>3. EngineTypeOK' /\ InputInv'
  <2>1. verdict' \in [allowed : BOOLEAN, risk : 0..3, content : [redacted : BOOLEAN, text : SUBSET Marks]]
    BY <1>1 DEF EngineTypeOK
  <2>2. QED
    BY <1>1, <2>1 DEF EngineTypeOK, InputInv, input, tree, found
<1>4. ScanInv' /\ WalkInv' /\ RulesInv'
  BY <1>1 DEF ScanInv, WalkInv, RulesInv, input, found
<1>5. JudgedInv'
  <2>1. CASE opa' \in {"closed", "deny"}
    <3>1. verdict'.allowed = FALSE
      BY <1>1, <2>1 DEF EngineTypeOK
    <3>2. QED
      BY <1>1, <2>1, <3>1 DEF JudgedInv
  <2>2. CASE opa' \notin {"closed", "deny"}
    BY <1>1, <1>2, <2>2 DEF JudgedInv
  <2>3. QED
    BY <2>1, <2>2
<1>6. QED
  BY <1>3, <1>4, <1>5

LEMMA StutterKeeps == EngineInv /\ UNCHANGED engineVars => EngineInv'
<1> SUFFICES ASSUME EngineInv, UNCHANGED engineVars PROVE EngineInv'
  OBVIOUS
<1> USE DEF EngineInv
<1>1. UNCHANGED <<pc, input, seen, work, visited, todo, blocked, redacting, risk, left, verdict, opa>>
  BY DEF engineVars, input
<1>2. /\ \A a : Applies(a)' = Applies(a)
      /\ \A t : Clean(t)' = Clean(t)
      /\ Harmless' = Harmless /\ HasPii' = HasPii /\ InForce' = InForce
      /\ Attached' = Attached /\ \A n : Children(n)' = Children(n)
  BY <1>1, PromptFixed, InputFixed
<1>3. EngineTypeOK' /\ InputInv' /\ ScanInv'
  BY <1>1 DEF EngineTypeOK, InputInv, ScanInv, input
<1>4. \A T : Closed(Attached, T)' <=> Closed(Attached, T)
  BY <1>1, <1>2 DEF Closed, input
<1>5. WalkInv'
  BY <1>1, <1>2, <1>4 DEF WalkInv, Met, input
<1>6. RulesInv' /\ JudgedInv'
  BY <1>1, <1>2 DEF RulesInv, JudgedInv
<1>7. QED
  BY <1>3, <1>5, <1>6

----------------------------------------------------------------------------
(* The theorems.                                                            *)

\* Every reachable state of an inspection is as its stage says.
THEOREM EngineInvHolds == EngineSpec => []EngineInv
<1>1. EngineInv /\ [EngineNext]_engineVars => EngineInv'
  <2> SUFFICES ASSUME EngineInv, [EngineNext]_engineVars PROVE EngineInv'
    OBVIOUS
  <2>1. CASE Scan
    BY <2>1, ScanKeeps
  <2>2. CASE LoadRules
    BY <2>2, LoadRulesKeeps
  <2>3. CASE Conclude
    BY <2>3, ConcludeKeeps
  <2>4. CASE ScanIntents
    BY <2>4, ScanIntentsKeeps
  <2>5. CASE MergeThreats
    BY <2>5, MergeThreatsKeeps
  <2>6. CASE MergeDlp
    BY <2>6, MergeDlpKeeps
  <2>7. CASE AskOpa
    BY <2>7, AskOpaKeeps
  <2>8. CASE \E n \in Nodes : Visit(n)
    BY <2>8, VisitKeeps
  <2>9. CASE \E r \in todo : Evaluate(r)
    BY <2>9, EvaluateKeeps
  <2>10. CASE UNCHANGED engineVars
    BY <2>10, StutterKeeps
  <2>11. QED
    BY <2>1, <2>2, <2>3, <2>4, <2>5, <2>6, <2>7, <2>8, <2>9, <2>10 DEF EngineNext
<1>2. QED
  BY EngineStarts, <1>1, PTL DEF EngineSpec

\* A prompt is blocked exactly when a Block rule in force matches it, it holds a
\* threat or OPA does not let it pass, in whatever order _evaluate_rules and
\* _resolve_policies go and however the folders are nested.
THEOREM PolicyInvHolds == EngineSpec => []PolicyInv
<1>1. EngineInv => PolicyInv
  BY DEF EngineInv, JudgedInv, Harmless, PolicyInv, VerdictRight
<1>2. QED
  BY EngineInvHolds, <1>1, PTL

\* What reaches a provider holds nothing that DLP, the threat catalogue or a
\* Redact rule with a pattern finds, whatever else removed text before.
THEOREM SentCleanHolds == EngineSpec => []SentClean
<1>1. EngineInv => SentClean
  <2> SUFFICES ASSUME EngineInv, pc = "sent"
               PROVE  Sent \cap (Pii \cup Threats \cup UNION {Removes(r) : r \in Applies("Redact")}) = {}
    BY DEF SentClean
  <2>1. seen = text \ Pii /\ seen \cap Threats = {} /\ verdict.allowed
    BY DEF EngineInv, ScanInv, JudgedInv, Harmless
  <2>2. Clean(Sent)
    <3>1. CASE verdict.content.redacted
      BY <3>1 DEF EngineInv, JudgedInv, Sent
    <3>2. CASE ~verdict.content.redacted
      <4>1. Applies("Redact") = {} /\ ~HasPii
        BY <3>2, <2>1 DEF EngineInv, JudgedInv
      <4>2. QED
        BY <2>1, <3>2, <4>1 DEF HasPii, Sent, Clean
    <3>3. QED
      BY <3>1, <3>2
  <2>3. QED
    BY <2>1, <2>2 DEF Clean
<1>2. QED
  BY EngineInvHolds, <1>1, PTL

-----------------------------------------------------------------------------
(* The rate and token limiter.                                              *)

USE DEF Buckets, PCs, Over, OverBudget

\* The helpers that compute a request's next program point return a point
\* of the right type that names an existing counter, and never one at which
\* a key still lacks its expiry.
LEMMA IdleOK == Idle \in Locals /\ WellPlaced(Idle) /\ Idle.pc = "idle"
<1>1. AnyKind \in Kinds
  BY KindsNonempty DEF AnyKind
<1>2. 0 \in 0..MaxUsed
  BY BoundsAssumption
<1>3. QED
  BY <1>1, <1>2 DEF Idle, Locals, WellPlaced

LEMMA ScopePointOK ==
  ASSUME NEW r \in Locals, NEW s \in Nat \ {0}
  PROVE  /\ ScopePoint(r, s) \in Locals
         /\ WellPlaced(ScopePoint(r, s))
         /\ ScopePoint(r, s).pc \in {"get", "upstream"}
<1>1. Scopes[r.kind] \in Seq(Seq(TokenBuckets))
  BY ScopesAssumption DEF Locals
<1>2. CASE s <= Len(Scopes[r.kind])
  <2>1. s \in DOMAIN Scopes[r.kind]
    BY <1>1, <1>2
  <2>2. Scopes[r.kind][s] # <<>> /\ Scopes[r.kind][s] \in Seq(TokenBuckets)
    BY <1>1, <2>1, ScopesAssumption DEF Locals
  <2>3. 1 \in DOMAIN Scopes[r.kind][s]
    BY <2>2
  <2>4. QED
    BY <1>2, <2>1, <2>3 DEF ScopePoint, Point, Locals, WellPlaced
<1>3. CASE ~(s <= Len(Scopes[r.kind]))
  BY <1>3 DEF ScopePoint, Point, Locals, WellPlaced
<1>4. QED
  BY <1>2, <1>3

LEMMA TokenPointOK ==
  ASSUME NEW r \in Locals, NEW s \in DOMAIN Scopes[r.kind], NEW i \in Nat \ {0}
  PROVE  /\ TokenPoint(r, s, i) \in Locals
         /\ WellPlaced(TokenPoint(r, s, i))
         /\ TokenPoint(r, s, i).pc \in {"get", "upstream"}
<1>1. Scopes[r.kind] \in Seq(Seq(TokenBuckets)) /\ s \in Nat \ {0}
  BY ScopesAssumption DEF Locals
<1>2. CASE i <= Len(Scopes[r.kind][s])
  <2>1. Scopes[r.kind][s] \in Seq(TokenBuckets)
    BY <1>1
  <2>2. i \in DOMAIN Scopes[r.kind][s]
    BY <1>2, <2>1
  <2>3. QED
    BY <1>1, <1>2, <2>2 DEF TokenPoint, Point, Locals, WellPlaced
<1>3. CASE ~(i <= Len(Scopes[r.kind][s]))
  BY <1>1, <1>3, ScopePointOK, s + 1 \in Nat \ {0} DEF TokenPoint
<1>4. QED
  BY <1>2, <1>3

LEMMA RatePointOK ==
  ASSUME NEW r \in Locals, NEW i \in Nat \ {0}
  PROVE  /\ RatePoint(r, i) \in Locals
         /\ WellPlaced(RatePoint(r, i))
         /\ RatePoint(r, i).pc \in {"incr", "get", "upstream"}
<1>1. Chain[r.kind] \in Seq(RateBuckets)
  BY ChainAssumption DEF Locals
<1>2. CASE i <= Len(Chain[r.kind])
  <2>1. i \in DOMAIN Chain[r.kind]
    BY <1>1, <1>2
  <2>2. QED
    BY <1>2, <2>1 DEF RatePoint, Point, Locals, WellPlaced
<1>3. CASE ~(i <= Len(Chain[r.kind]))
  BY <1>3, ScopePointOK DEF RatePoint
<1>4. QED
  BY <1>2, <1>3

LEMMA ChargePointOK ==
  ASSUME NEW r \in Locals, NEW s \in Nat \ {0}
  PROVE  /\ ChargePoint(r, s) \in Locals
         /\ WellPlaced(ChargePoint(r, s))
         /\ ChargePoint(r, s).pc \in {"charge", "idle"}
<1>1. Scopes[r.kind] \in Seq(Seq(TokenBuckets))
  BY ScopesAssumption DEF Locals
<1>2. CASE s <= Len(Scopes[r.kind])
  <2>1. s \in DOMAIN Scopes[r.kind]
    BY <1>1, <1>2
  <2>2. QED
    BY <1>2, <2>1 DEF ChargePoint, Point, Locals, WellPlaced
<1>3. CASE ~(s <= Len(Scopes[r.kind]))
  BY <1>3, IdleOK DEF ChargePoint
<1>4. QED
  BY <1>2, <1>3

\* Where a well-placed worker reads and writes.
LEMMA BucketsOK ==
  ASSUME NEW r \in Locals, WellPlaced(r)
  PROVE  /\ r.pc \in {"incr", "expire", "ttl"} => RateBucketOf(r) \in RateBuckets
         /\ r.pc \in {"get", "tokenttl"} => TokenBucketOf(r) \in TokenBuckets
         /\ r.pc \in {"charge", "chargeexpire"} => ScopeOf(r) \subseteq TokenBuckets
<1>1. Chain[r.kind] \in Seq(RateBuckets)
  BY ChainAssumption DEF Locals
<1>2. Scopes[r.kind] \in Seq(Seq(TokenBuckets))
  BY ScopesAssumption DEF Locals
<1>3. r.pc \in {"incr", "expire", "ttl"} => RateBucketOf(r) \in RateBuckets
  BY <1>1 DEF WellPlaced, RateBucketOf
<1>4. r.pc \in {"get", "tokenttl"} => TokenBucketOf(r) \in TokenBuckets
  BY <1>2 DEF WellPlaced, TokenBucketOf
<1>5. r.pc \in {"charge", "chargeexpire"} => ScopeOf(r) \subseteq TokenBuckets
  BY <1>2 DEF WellPlaced, ScopeOf, RangeOf
<1>6. QED
  BY <1>3, <1>4, <1>5

-----------------------------------------------------------------------------
\* A step in which worker w moves to r, the request counters and their
\* history stay as they are and w neither was nor is about to set an expiry,
\* keeps the counting invariant.
LEMMA QuietStep ==
  ASSUME AdmissionInv, NEW w \in Workers, NEW r \in Locals,
         GoTo(w, r), at[w].pc # "expire", r.pc # "expire",
         \A b \in RateBuckets : /\ count'[b] = count[b]
                                /\ ttl'[b] = ttl[b]
                                /\ passed'[b] = passed[b]
                                /\ open'[b] = open[b]
  PROVE  \A b \in RateBuckets : CountedFirst(b)'
<1>1. \A v \in Workers, b \in RateBuckets : SettingExpiry(v, b)' => SettingExpiry(v, b)
  BY DEF GoTo, SettingExpiry, AdmissionInv, TypeOK
<1>2. QED
  BY <1>1 DEF AdmissionInv, CountedFirst

LEMMA AdmissionInit == Init => AdmissionInv
<1> SUFFICES ASSUME Init PROVE AdmissionInv
  OBVIOUS
<1>1. TypeOK
  BY IdleOK, BoundsAssumption DEF Init, TypeOK
<1>2. \A w \in Workers : WellPlaced(at[w])
  BY IdleOK DEF Init
<1>3. \A b \in RateBuckets : CountedFirst(b)
  BY IdleOK, LimitAssumption DEF Init, CountedFirst, SettingExpiry
<1>4. QED
  BY <1>1, <1>2, <1>3 DEF AdmissionInv

LEMMA StartKeeps ==
  ASSUME AdmissionInv, NEW w \in Workers, NEW k \in Kinds, NEW e \in Estimates, Start(w, k, e)
  PROVE  AdmissionInv'
<1> DEFINE r == [Idle EXCEPT !.kind = k, !.est = e]
<1>1. r \in Locals
  BY IdleOK, BoundsAssumption DEF Locals, Idle
<1>2. PICK p \in Locals : GoTo(w, p) /\ WellPlaced(p) /\ p.pc # "expire"
  <2>1. RatePoint(r, 1) \in Locals /\ WellPlaced(RatePoint(r, 1)) /\ RatePoint(r, 1).pc # "expire"
    BY <1>1, RatePointOK
  <2>2. /\ Point(r, "upstream", 0, 0) \in Locals
        /\ WellPlaced(Point(r, "upstream", 0, 0))
        /\ Point(r, "upstream", 0, 0).pc # "expire"
    BY <1>1 DEF Point, Locals, WellPlaced
  <2>3. GoTo(w, RatePoint(r, 1)) \/ GoTo(w, Point(r, "upstream", 0, 0))
    BY DEF Start
  <2>4. QED
    BY <2>1, <2>2, <2>3
<1>3. TypeOK'
  BY <1>2, BoundsAssumption DEF AdmissionInv, TypeOK, Start, GoTo, Fault, redis, history
<1>4. \A v \in Workers : WellPlaced(at'[v])
  BY <1>2 DEF AdmissionInv, TypeOK, GoTo
<1>5. \A b \in RateBuckets : CountedFirst(b)'
  BY <1>2, QuietStep DEF Start, redis, history
<1>6. QED
  BY <1>3, <1>4, <1>5 DEF AdmissionInv

LEMMA IncrKeeps ==
  ASSUME AdmissionInv, NEW w \in Workers, Incr(w)
  PROVE  AdmissionInv'
<1> DEFINE c == RateBucketOf(at[w])
           n == count[c] + 1
<1>1. at[w] \in Locals /\ WellPlaced(at[w]) /\ at[w].pc = "incr"
  BY DEF AdmissionInv, TypeOK, Incr
<1>2. c \in RateBuckets /\ at[w].i \in Nat \ {0}
  BY <1>1, BucketsOK, ChainAssumption DEF WellPlaced, Locals
<1>3. CASE n = 1
  <2>1. GoTo(w, [at[w] EXCEPT !.pc = "expire"]) /\ UNCHANGED passed
    BY <1>2, <1>3 DEF Incr, AdmissionInv, TypeOK
  <2>2. TypeOK'
    BY <1>1, <1>2, <2>1 DEF AdmissionInv, TypeOK, Locals, GoTo, Incr
  <2>3. \A v \in Workers : WellPlaced(at'[v])
    BY <1>1, <2>1 DEF AdmissionInv, TypeOK, Locals, GoTo, WellPlaced
  <2>4. \A b \in RateBuckets : CountedFirst(b)'
    <3> SUFFICES ASSUME NEW b \in RateBuckets PROVE CountedFirst(b)'
      OBVIOUS
    <3>1. \A v \in Workers : v # w => (SettingExpiry(v, b)' <=> SettingExpiry(v, b))
      BY <2>1 DEF GoTo, SettingExpiry, AdmissionInv, TypeOK
    <3>2. SettingExpiry(w, b)' <=> b = c
      BY <1>1, <2>1 DEF GoTo, SettingExpiry, AdmissionInv, TypeOK, Locals, RateBucketOf
    <3>3. CASE b = c
      <4>1. count[b] = 0 /\ count'[b] = 1
        BY <1>2, <1>3, <3>3 DEF Incr, AdmissionInv, TypeOK
      <4>2. \A v \in Workers : ~SettingExpiry(v, b)
        BY <1>2, <3>3, <4>1, LimitAssumption DEF AdmissionInv, CountedFirst, TypeOK
      <4>3. QED
        BY <1>2, <2>1, <3>1, <3>2, <3>3, <4>1, <4>2, LimitAssumption
           DEF Incr, AdmissionInv, TypeOK, CountedFirst
    <3>4. CASE b # c
      BY <1>2, <2>1, <3>1, <3>2, <3>4 DEF Incr, AdmissionInv, TypeOK, CountedFirst
    <3>5. QED
      BY <3>3, <3>4
  <2>5. QED
    BY <2>2, <2>3, <2>4 DEF AdmissionInv
<1>4. CASE n # 1 /\ n > Limit[c]
  <2>1. GoTo(w, [at[w] EXCEPT !.pc = "ttl"]) /\ UNCHANGED passed
    BY <1>2, <1>4, LimitAssumption DEF Incr, AdmissionInv, TypeOK
  <2>2. TypeOK'
    BY <1>1, <1>2, <2>1 DEF AdmissionInv, TypeOK, Locals, GoTo, Incr
  <2>3. \A v \in Workers : WellPlaced(at'[v])
    BY <1>1, <2>1 DEF AdmissionInv, TypeOK, Locals, GoTo, WellPlaced
  <2>4. \A v \in Workers, b \in RateBuckets : SettingExpiry(v, b)' => SettingExpiry(v, b)
    BY <1>1, <2>1 DEF GoTo, SettingExpiry, AdmissionInv, TypeOK, Locals
  <2>5. \A b \in RateBuckets : count'[b] = (IF b = c THEN n ELSE count[b])
    BY <1>2 DEF Incr, AdmissionInv, TypeOK
  <2>6. \A b \in RateBuckets : CountedFirst(b)'
    BY <1>2, <2>1, <2>4, <2>5 DEF Incr, AdmissionInv, TypeOK, CountedFirst
  <2>7. QED
    BY <2>2, <2>3, <2>6 DEF AdmissionInv
<1>5. CASE n # 1 /\ n <= Limit[c]
  <2>1. GoTo(w, RatePoint(at[w], at[w].i + 1)) /\ passed' = [passed EXCEPT ![c] = @ + 1]
    BY <1>2, <1>5, LimitAssumption DEF Incr, AdmissionInv, TypeOK, LetThrough
  <2>2. /\ RatePoint(at[w], at[w].i + 1) \in Locals
        /\ WellPlaced(RatePoint(at[w], at[w].i + 1))
        /\ RatePoint(at[w], at[w].i + 1).pc # "expire"
    BY <1>1, <1>2, RatePointOK, at[w].i + 1 \in Nat \ {0}
  <2>3. TypeOK'
    BY <1>2, <2>1, <2>2 DEF AdmissionInv, TypeOK, GoTo, Incr
  <2>4. \A v \in Workers : WellPlaced(at'[v])
    BY <2>1, <2>2 DEF AdmissionInv, TypeOK, GoTo
  <2>5. \A v \in Workers, b \in RateBuckets : SettingExpiry(v, b)' => SettingExpiry(v, b)
    BY <1>1, <2>1, <2>2 DEF GoTo, SettingExpiry, AdmissionInv, TypeOK
  <2>6. \A b \in RateBuckets : /\ count'[b] = (IF b = c THEN n ELSE count[b])
                               /\ passed'[b] = (IF b = c THEN passed[b] + 1 ELSE passed[b])
    BY <1>2, <2>1 DEF Incr, AdmissionInv, TypeOK
  <2>7. \A b \in RateBuckets : CountedFirst(b)'
    BY <1>2, <1>5, <2>5, <2>6, LimitAssumption DEF Incr, AdmissionInv, TypeOK, CountedFirst
  <2>8. QED
    BY <2>3, <2>4, <2>7 DEF AdmissionInv
<1>6. n \in Nat /\ Limit[c] \in Nat
  BY <1>2, LimitAssumption DEF AdmissionInv, TypeOK
<1>7. QED
  BY <1>3, <1>4, <1>5, <1>6

LEMMA ExpireKeeps ==
  ASSUME AdmissionInv, NEW w \in Workers, Expire(w)
  PROVE  AdmissionInv'
<1> DEFINE c == RateBucketOf(at[w])
<1>1. at[w] \in Locals /\ WellPlaced(at[w]) /\ at[w].pc = "expire"
  BY DEF AdmissionInv, TypeOK, Expire
<1>2. c \in RateBuckets /\ at[w].i \in Nat \ {0} /\ Limit[c] \in Nat
  BY <1>1, BucketsOK, ChainAssumption, LimitAssumption DEF WellPlaced, Locals
<1>3. SettingExpiry(w, c)
  BY <1>1 DEF SettingExpiry
<1>4. PICK p \in Locals :
        /\ GoTo(w, p) /\ WellPlaced(p) /\ p.pc # "expire"
        /\ \A b \in RateBuckets :
              passed'[b] = IF b = c /\ Limit[c] > 0 THEN passed[b] + 1 ELSE passed[b]
        /\ passed' \in [Buckets -> Nat]
  <2>1. CASE Limit[c] > 0
    <3>1. /\ RatePoint(at[w], at[w].i + 1) \in Locals
          /\ WellPlaced(RatePoint(at[w], at[w].i + 1))
          /\ RatePoint(at[w], at[w].i + 1).pc # "expire"
      BY <1>1, <1>2, RatePointOK, at[w].i + 1 \in Nat \ {0}
    <3>2. GoTo(w, RatePoint(at[w], at[w].i + 1)) /\ passed' = [passed EXCEPT ![c] = @ + 1]
      BY <1>2, <2>1 DEF Expire, LetThrough
    <3>3. QED
      BY <1>2, <2>1, <3>1, <3>2 DEF AdmissionInv, TypeOK
  <2>2. CASE ~(Limit[c] > 0)
    <3>1. GoTo(w, [at[w] EXCEPT !.pc = "ttl"]) /\ UNCHANGED passed
      BY <1>2, <2>2 DEF Expire
    <3>2. /\ [at[w] EXCEPT !.pc = "ttl"] \in Locals
          /\ WellPlaced([at[w] EXCEPT !.pc = "ttl"])
          /\ [at[w] EXCEPT !.pc = "ttl"].pc # "expire"
      BY <1>1 DEF Locals, WellPlaced
    <3>3. QED
      BY <2>2, <3>1, <3>2 DEF AdmissionInv, TypeOK
  <2>3. QED
    BY <2>1, <2>2
<1>5. TypeOK'
  BY <1>2, <1>4, WindowAssumption DEF AdmissionInv, TypeOK, GoTo, Expire
<1>6. \A v \in Workers : WellPlaced(at'[v])
  BY <1>4 DEF AdmissionInv, TypeOK, GoTo
<1>7. \A v \in Workers, b \in RateBuckets :
        SettingExpiry(v, b)' => SettingExpiry(v, b) /\ b # c
  BY <1>1, <1>2, <1>3, <1>4 DEF GoTo, SettingExpiry, AdmissionInv, TypeOK, CountedFirst
<1>8. \A b \in RateBuckets : /\ count'[b] = count[b]
                             /\ ttl'[b] = (IF b = c THEN Window[c] ELSE ttl[b])
                             /\ open'[b] = open[b]
  BY <1>2 DEF Expire, AdmissionInv, TypeOK
<1>9. \A b \in RateBuckets : CountedFirst(b)'
  <2> SUFFICES ASSUME NEW b \in RateBuckets PROVE CountedFirst(b)'
    OBVIOUS
  <2>1. CASE b = c
    <3>1. /\ passed[b] - open[b] < count[b]
          /\ Limit[b] > 0 => passed[b] - open[b] < Limit[b]
          /\ passed[b] - open[b] <= Limit[b] /\ open[b] <= passed[b]
          /\ count[b] \in Nat /\ passed[b] \in Nat /\ open[b] \in Nat
      BY <1>2, <1>3, <2>1 DEF AdmissionInv, TypeOK, CountedFirst
    <3>2. count'[b] = count[b] /\ open'[b] = open[b]
      BY <1>8
    <3>3. passed'[b] = IF Limit[b] > 0 THEN passed[b] + 1 ELSE passed[b]
      BY <1>4, <2>1
    <3>4. \A v \in Workers : ~SettingExpiry(v, b)'
      BY <1>7, <2>1
    <3>5. Limit[b] \in Nat
      BY <1>2, <2>1
    <3>6. QED
      BY <3>1, <3>2, <3>3, <3>4, <3>5 DEF CountedFirst
  <2>2. CASE b # c
    BY <1>4, <1>7, <1>8, <2>2 DEF AdmissionInv, CountedFirst
  <2>3. QED
    BY <2>1, <2>2
<1>10. QED
  BY <1>5, <1>6, <1>9 DEF AdmissionInv

LEMMA RateErrorKeeps ==
  ASSUME AdmissionInv, NEW w \in Workers, RateError(w)
  PROVE  AdmissionInv'
<1> DEFINE c == RateBucketOf(at[w])
           p == RatePoint(at[w], at[w].i + 1)
<1>1. at[w] \in Locals /\ WellPlaced(at[w]) /\ at[w].pc \in {"incr", "expire", "ttl"}
  BY DEF AdmissionInv, TypeOK, RateError
<1>2. c \in RateBuckets /\ at[w].i \in Nat \ {0}
  BY <1>1, BucketsOK, ChainAssumption DEF WellPlaced, Locals
<1>3. p \in Locals /\ WellPlaced(p) /\ p.pc # "expire"
  BY <1>1, <1>2, RatePointOK, at[w].i + 1 \in Nat \ {0}
<1>4. GoTo(w, p)
  BY DEF RateError
<1>5. /\ passed' = [passed EXCEPT ![c] = @ + 1]
      /\ open' = [open EXCEPT ![c] = @ + 1]
      /\ count' = count \/ count' = [count EXCEPT ![c] = @ + 1]
      /\ ttl' = ttl
  BY DEF RateError, LetThrough
<1>6. TypeOK'
  BY <1>2, <1>3, <1>4, <1>5, BoundsAssumption DEF AdmissionInv, TypeOK, GoTo, RateError, Fault
<1>7. \A v \in Workers : WellPlaced(at'[v])
  BY <1>3, <1>4 DEF AdmissionInv, TypeOK, GoTo
<1>8. \A v \in Workers, b \in RateBuckets : SettingExpiry(v, b)' => SettingExpiry(v, b)
  BY <1>3, <1>4 DEF GoTo, SettingExpiry, AdmissionInv, TypeOK
<1>9. \A b \in RateBuckets :
        /\ passed'[b] - open'[b] = passed[b] - open[b]
        /\ open[b] <= passed[b] => open'[b] <= passed'[b]
        /\ count'[b] = count[b] \/ count'[b] = count[b] + 1
        /\ count[b] \in Nat /\ passed[b] - open[b] \in Int /\ ttl'[b] = ttl[b]
  <2>1. \A b \in RateBuckets : count'[b] = count[b] \/ count'[b] = count[b] + 1
    BY <1>2, <1>5 DEF AdmissionInv, TypeOK
  <2>2. \A b \in RateBuckets :
          /\ passed'[b] = IF b = c THEN passed[b] + 1 ELSE passed[b]
          /\ open'[b] = IF b = c THEN open[b] + 1 ELSE open[b]
          /\ passed[b] \in Nat /\ open[b] \in Nat /\ count[b] \in Nat
    BY <1>2, <1>5 DEF AdmissionInv, TypeOK
  <2>3. QED
    BY <1>5, <2>1, <2>2
<1>10. \A b \in RateBuckets : count'[b] = 0 => count[b] = 0
  BY <1>9
<1>11. \A b \in RateBuckets : CountedFirst(b)'
  <2> SUFFICES ASSUME NEW b \in RateBuckets PROVE CountedFirst(b)'
    OBVIOUS
  <2>1. CountedFirst(b)
    BY DEF AdmissionInv
  <2>2. QED
    BY <2>1, <1>8, <1>9, <1>10 DEF CountedFirst
<1>12. QED
  BY <1>6, <1>7, <1>11 DEF AdmissionInv

\* The steps that neither touch a request counter nor set an expiry.
LEMMA OtherKeeps ==
  ASSUME AdmissionInv, NEW w \in Workers,
         \/ RejectRate(w) \/ CheckTokens(w) \/ RejectTokens(w) \/ TokenError(w)
         \/ Undelivered(w) \/ (\E u \in 0..MaxUsed : Deliver(w, u))
         \/ Charge(w) \/ ChargeExpire(w) \/ ChargeError(w)
  PROVE  AdmissionInv'
<1>1. at[w] \in Locals /\ WellPlaced(at[w])
  BY DEF AdmissionInv, TypeOK
<1>2. at[w].pc # "expire"
  BY DEF RejectRate, CheckTokens, RejectTokens, TokenError, Undelivered, Deliver,
         Charge, ChargeExpire, ChargeError
<1>3. /\ at[w].pc \in {"get", "tokenttl"} =>
            /\ at[w].i \in Nat \ {0} /\ at[w].j \in Nat
            /\ at[w].i \in DOMAIN Scopes[at[w].kind]
      /\ at[w].pc \in {"charge", "chargeexpire"} => at[w].i \in Nat \ {0}
  BY <1>1, ScopesAssumption DEF WellPlaced, Locals
<1>4. PICK p \in Locals : GoTo(w, p) /\ WellPlaced(p) /\ p.pc # "expire"
  <2>1. CASE RejectRate(w) \/ RejectTokens(w) \/ Undelivered(w)
    BY <2>1, IdleOK DEF RejectRate, RejectTokens, Undelivered
  <2>2. CASE CheckTokens(w)
    <3>1. /\ TokenPoint(at[w], at[w].i, at[w].j + 1) \in Locals
          /\ WellPlaced(TokenPoint(at[w], at[w].i, at[w].j + 1))
          /\ TokenPoint(at[w], at[w].i, at[w].j + 1).pc # "expire"
      BY <1>1, <1>3, <2>2, TokenPointOK, at[w].j + 1 \in Nat \ {0} DEF CheckTokens
    <3>2. /\ [at[w] EXCEPT !.pc = "tokenttl"] \in Locals
          /\ WellPlaced([at[w] EXCEPT !.pc = "tokenttl"])
          /\ [at[w] EXCEPT !.pc = "tokenttl"].pc # "expire"
      BY <1>1, <2>2 DEF Locals, WellPlaced, CheckTokens
    <3>3. \/ GoTo(w, [at[w] EXCEPT !.pc = "tokenttl"])
          \/ GoTo(w, TokenPoint(at[w], at[w].i, at[w].j + 1))
      BY <2>2 DEF CheckTokens
    <3>4. QED
      BY <3>1, <3>2, <3>3
  <2>3. CASE TokenError(w)
    <3>1. /\ ScopePoint(at[w], at[w].i + 1) \in Locals
          /\ WellPlaced(ScopePoint(at[w], at[w].i + 1))
          /\ ScopePoint(at[w], at[w].i + 1).pc # "expire"
      BY <1>1, <1>3, <2>3, ScopePointOK, at[w].i + 1 \in Nat \ {0} DEF TokenError
    <3>2. QED
      BY <2>3, <3>1 DEF TokenError
  <2>4. CASE \E u \in 0..MaxUsed : Deliver(w, u)
    <3>1. PICK u \in 0..MaxUsed : Deliver(w, u)
      BY <2>4
    <3>2. [at[w] EXCEPT !.used = u] \in Locals
      BY <1>1 DEF Locals
    <3>3. /\ ChargePoint([at[w] EXCEPT !.used = u], 1) \in Locals
          /\ WellPlaced(ChargePoint([at[w] EXCEPT !.used = u], 1))
          /\ ChargePoint([at[w] EXCEPT !.used = u], 1).pc # "expire"
      BY <3>2, ChargePointOK
    <3>4. GoTo(w, Idle) \/ GoTo(w, ChargePoint([at[w] EXCEPT !.used = u], 1))
      BY <3>1 DEF Deliver
    <3>5. QED
      BY <3>3, <3>4, IdleOK
  <2>5. CASE Charge(w)
    <3>1. /\ [at[w] EXCEPT !.pc = "chargeexpire"] \in Locals
          /\ WellPlaced([at[w] EXCEPT !.pc = "chargeexpire"])
          /\ [at[w] EXCEPT !.pc = "chargeexpire"].pc # "expire"
      BY <1>1, <2>5 DEF Locals, WellPlaced, Charge
    <3>2. QED
      BY <2>5, <3>1 DEF Charge
  <2>6. CASE ChargeExpire(w) \/ ChargeError(w)
    <3>1. at[w].pc \in {"charge", "chargeexpire"} /\ GoTo(w, ChargePoint(at[w], at[w].i + 1))
      BY <2>6 DEF ChargeExpire, ChargeError
    <3>2. /\ ChargePoint(at[w], at[w].i + 1) \in Locals
          /\ WellPlaced(ChargePoint(at[w], at[w].i + 1))
          /\ ChargePoint(at[w], at[w].i + 1).pc # "expire"
      BY <1>1, <1>3, <3>1, ChargePointOK, at[w].i + 1 \in Nat \ {0}
    <3>3. QED
      BY <3>1, <3>2
  <2>7. QED
    BY <2>1, <2>2, <2>3, <2>4, <2>5, <2>6
<1>5. /\ count' \in [Buckets -> Nat] /\ ttl' \in [Buckets -> Nat]
      /\ fresh' \in [Workers -> SUBSET TokenBuckets]
      /\ \A b \in RateBuckets : count'[b] = count[b] /\ ttl'[b] = ttl[b]
  <2>1. CASE \/ RejectRate(w) \/ CheckTokens(w) \/ RejectTokens(w) \/ TokenError(w)
             \/ Undelivered(w)
    BY <2>1 DEF RejectRate, CheckTokens, RejectTokens, TokenError, Undelivered, redis,
               AdmissionInv, TypeOK
  <2>2. CASE \E u \in 0..MaxUsed : Deliver(w, u)
    BY <2>2 DEF Deliver, redis, AdmissionInv, TypeOK
  <2>3. CASE Charge(w) \/ ChargeError(w)
    <3>1. ScopeOf(at[w]) \subseteq TokenBuckets
      BY <1>1, <2>3, BucketsOK DEF Charge, ChargeError
    <3>2. at[w].used \in Nat
      BY <1>1, BoundsAssumption DEF Locals
    <3>3. (ApplyCharge(w) \/ count' = count) /\ ttl' = ttl
      BY <2>3 DEF Charge, ChargeError
    <3>4. count' \in [Buckets -> Nat] /\ \A b \in RateBuckets : count'[b] = count[b]
      BY <3>1, <3>2, <3>3, BucketsDisjoint DEF ApplyCharge, AdmissionInv, TypeOK
    <3>5. fresh' \in [Workers -> SUBSET TokenBuckets]
      BY <2>3, <3>1 DEF Charge, ChargeError, Created, AdmissionInv, TypeOK
    <3>6. QED
      BY <3>3, <3>4, <3>5 DEF AdmissionInv, TypeOK
  <2>4. CASE ChargeExpire(w)
    <3>1. fresh[w] \subseteq TokenBuckets
      BY DEF AdmissionInv, TypeOK
    <3>2. ttl' \in [Buckets -> Nat] /\ \A b \in RateBuckets : ttl'[b] = ttl[b]
      BY <2>4, <3>1, BucketsDisjoint, WindowAssumption DEF ChargeExpire, AdmissionInv, TypeOK
    <3>3. QED
      BY <2>4, <3>2 DEF ChargeExpire, AdmissionInv, TypeOK
  <2>5. QED
    BY <2>1, <2>2, <2>3, <2>4
<1>6. client' = client /\ passed' = passed /\ open' = open /\ faults' \in 0..MaxFaults
  <2>1. faults \in 0..MaxFaults /\ MaxFaults \in Nat
    BY BoundsAssumption DEF AdmissionInv, TypeOK
  <2>2. Fault => faults' \in 0..MaxFaults
    BY <2>1 DEF Fault
  <2>3. CASE \/ RejectRate(w) \/ CheckTokens(w) \/ RejectTokens(w) \/ Undelivered(w)
             \/ Charge(w) \/ ChargeExpire(w)
    BY <2>1, <2>3 DEF RejectRate, CheckTokens, RejectTokens, Undelivered, Charge,
                     ChargeExpire, history
  <2>4. CASE \E u \in 0..MaxUsed : Deliver(w, u)
    BY <2>1, <2>4 DEF Deliver, history
  <2>5. CASE TokenError(w) \/ ChargeError(w)
    BY <2>2, <2>5 DEF TokenError, ChargeError, history
  <2>6. QED
    BY <2>3, <2>4, <2>5
<1>7. TypeOK'
  BY <1>4, <1>5, <1>6 DEF AdmissionInv, TypeOK, GoTo
<1>8. \A v \in Workers : WellPlaced(at'[v])
  BY <1>4 DEF AdmissionInv, TypeOK, GoTo
<1>9. \A b \in RateBuckets : CountedFirst(b)'
  BY <1>2, <1>4, <1>5, <1>6, QuietStep
<1>10. QED
  BY <1>7, <1>8, <1>9 DEF AdmissionInv

LEMMA CrashKeeps ==
  ASSUME AdmissionInv, NEW w \in Workers, Crash(w)
  PROVE  AdmissionInv'
<1>1. Idle \in Locals /\ WellPlaced(Idle) /\ Idle.pc # "expire" /\ GoTo(w, Idle)
  BY IdleOK DEF Crash
<1>2. TypeOK'
  BY <1>1, BoundsAssumption DEF AdmissionInv, TypeOK, GoTo, Crash, Fault, redis, history
<1>3. \A v \in Workers : WellPlaced(at'[v])
  BY <1>1 DEF AdmissionInv, TypeOK, GoTo
<1>4. \A v \in Workers, b \in RateBuckets : SettingExpiry(v, b)' => SettingExpiry(v, b)
  BY <1>1 DEF GoTo, SettingExpiry, AdmissionInv, TypeOK
<1>5. \A b \in RateBuckets : CountedFirst(b)'
  BY <1>4 DEF Crash, redis, history, AdmissionInv, CountedFirst
<1>6. QED
  BY <1>2, <1>3, <1>5 DEF AdmissionInv

LEMMA TickKeeps ==
  ASSUME AdmissionInv, Tick
  PROVE  AdmissionInv'
<1>1. UNCHANGED <<at, fresh, client, faults>>
  BY DEF Tick
<1>2. \A b \in Buckets :
        /\ ttl'[b] = (IF ttl[b] > 0 THEN ttl[b] - 1 ELSE 0)
        /\ count'[b] = (IF ttl[b] = 1 THEN 0 ELSE count[b])
        /\ passed'[b] = (IF ttl[b] = 1 THEN 0 ELSE passed[b])
        /\ open'[b] = (IF ttl[b] = 1 THEN 0 ELSE open[b])
  BY DEF Tick
<1>3. TypeOK'
  <2>1. /\ count' \in [Buckets -> Nat] /\ ttl' \in [Buckets -> Nat]
        /\ passed' \in [Buckets -> Nat] /\ open' \in [Buckets -> Nat]
    BY DEF Tick, AdmissionInv, TypeOK
  <2>2. QED
    BY <1>1, <2>1 DEF AdmissionInv, TypeOK
<1>4. \A w \in Workers : WellPlaced(at'[w])
  BY <1>1 DEF AdmissionInv
<1>5. \A b \in RateBuckets : CountedFirst(b)'
  <2> SUFFICES ASSUME NEW b \in RateBuckets PROVE CountedFirst(b)'
    OBVIOUS
  <2>1. /\ CountedFirst(b) /\ b \in Buckets /\ Limit[b] \in Nat
        /\ ttl[b] \in Nat /\ count[b] \in Nat /\ passed[b] \in Nat /\ open[b] \in Nat
    BY LimitAssumption DEF AdmissionInv, TypeOK
  <2>2. \A w \in Workers : SettingExpiry(w, b)' <=> SettingExpiry(w, b)
    BY <1>1 DEF SettingExpiry
  <2>3. CASE ttl[b] = 1
    BY <1>2, <2>1, <2>2, <2>3 DEF CountedFirst
  <2>4. CASE ttl[b] # 1
    BY <1>2, <2>1, <2>2, <2>4 DEF CountedFirst
  <2>5. QED
    BY <2>3, <2>4
<1>6. QED
  BY <1>3, <1>4, <1>5 DEF AdmissionInv

-----------------------------------------------------------------------------
\* A request counter is well typed, is incremented before it lets a request
\* through and is given an expiry by exactly one worker: inductive over every
\* action of the limiter, its failures and the clock.
THEOREM AdmissionInvHolds == Spec => []AdmissionInv
<1>1. AdmissionInv /\ [Next]_vars => AdmissionInv'
  <2> SUFFICES ASSUME AdmissionInv, [Next]_vars PROVE AdmissionInv'
    OBVIOUS
  <2>1. ASSUME NEW w \in Workers, NEW k \in Kinds, NEW e \in Estimates, Start(w, k, e)
        PROVE  AdmissionInv'
    BY <2>1, StartKeeps
  <2>2. ASSUME NEW w \in Workers, Serve(w)
        PROVE  AdmissionInv'
    BY <2>2, IncrKeeps, ExpireKeeps, OtherKeeps DEF Serve
  <2>3. ASSUME NEW w \in Workers, Fail(w)
        PROVE  AdmissionInv'
    BY <2>3, RateErrorKeeps, CrashKeeps, OtherKeeps DEF Fail
  <2>4. CASE Tick
    BY <2>4, TickKeeps
  <2>5. CASE UNCHANGED vars
    BY <2>5 DEF vars, AdmissionInv, TypeOK, CountedFirst, SettingExpiry
  <2>6. QED
    BY <2>1, <2>2, <2>3, <2>4, <2>5 DEF Next
<1>2. QED
  BY AdmissionInit, <1>1, PTL DEF Spec

\* Between two resets of a counter at most Limit[b] requests pass it, plus
\* one per Redis error on that counter (check_rate_limit).
THEOREM AdmissionBoundHolds == Spec => []AdmissionBound
<1>1. AdmissionInv => AdmissionBound
  BY LimitAssumption DEF AdmissionInv, CountedFirst, AdmissionBound, TypeOK
<1>2. QED
  BY AdmissionInvHolds, <1>1, PTL

-----------------------------------------------------------------------------
(* The refinement.                                                         *)

\* A request the counter had room for is a Pass of the abstract limiter.
LEMMA PassMaps ==
  ASSUME AdmissionInv, NEW c \in RateBuckets,
         passed' = [passed EXCEPT ![c] = @ + 1], open' = open,
         passed[c] - open[c] < Limit[c]
  PROVE  Limiter!Next
<1>1. Limiter!Pass(c)
  BY DEF Limiter!Pass, AdmissionInv, TypeOK
<1>2. QED
  BY <1>1 DEF Limiter!Next

LEMMA ServeMaps ==
  ASSUME AdmissionInv, NEW w \in Workers, Serve(w)
  PROVE  Limiter!Next \/ (passed' = passed /\ open' = open)
<1> DEFINE c == RateBucketOf(at[w])
<1>1. at[w] \in Locals /\ WellPlaced(at[w])
  BY DEF AdmissionInv, TypeOK
<1>2. CASE Incr(w)
  <2>1. c \in RateBuckets /\ Limit[c] \in Nat
    BY <1>1, <1>2, BucketsOK, LimitAssumption DEF Incr
  <2>2. open' = open /\ (passed' = passed \/ (count[c] + 1 <= Limit[c] /\ LetThrough(w)))
    BY <1>2, <2>1 DEF Incr, AdmissionInv, TypeOK
  <2>3. passed[c] - open[c] <= count[c] /\ passed[c] - open[c] \in Int /\ count[c] \in Nat
    BY <2>1 DEF AdmissionInv, TypeOK, CountedFirst
  <2>4. QED
    BY <2>1, <2>2, <2>3, PassMaps DEF LetThrough
<1>3. CASE Expire(w)
  <2>1. c \in RateBuckets /\ Limit[c] \in Nat /\ SettingExpiry(w, c)
    BY <1>1, <1>3, BucketsOK, LimitAssumption DEF Expire, SettingExpiry
  <2>2. open' = open /\ (passed' = passed \/ (1 <= Limit[c] /\ LetThrough(w)))
    BY <1>3, <2>1 DEF Expire
  <2>3. Limit[c] > 0 => passed[c] - open[c] < Limit[c]
    BY <2>1 DEF AdmissionInv, CountedFirst
  <2>4. QED
    BY <2>1, <2>2, <2>3, PassMaps DEF LetThrough
<1>4. CASE \/ RejectRate(w) \/ CheckTokens(w) \/ RejectTokens(w) \/ Undelivered(w)
           \/ Charge(w) \/ ChargeExpire(w)
  BY <1>4 DEF RejectRate, CheckTokens, RejectTokens, Undelivered, Charge, ChargeExpire, history
<1>5. CASE \E u \in 0..MaxUsed : Deliver(w, u)
  BY <1>5 DEF Deliver, history
<1>6. QED
  BY <1>2, <1>3, <1>4, <1>5 DEF Serve

LEMMA FailMaps ==
  ASSUME AdmissionInv, NEW w \in Workers, Fail(w)
  PROVE  Limiter!Next \/ (passed' = passed /\ open' = open)
<1>1. CASE RateError(w)
  <2>1. RateBucketOf(at[w]) \in RateBuckets
    BY <1>1, BucketsOK DEF AdmissionInv, TypeOK, RateError
  <2>2. PICK c \in RateBuckets : c = RateBucketOf(at[w])
    BY <2>1
  <2>3. /\ passed' = [passed EXCEPT ![c] = @ + 1]
        /\ open' = [open EXCEPT ![c] = @ + 1]
    BY <1>1, <2>2 DEF RateError, LetThrough
  <2>4. Limiter!FailOpen(c)
    BY <2>3 DEF Limiter!FailOpen, AdmissionInv, TypeOK
  <2>5. QED
    BY <2>4 DEF Limiter!Next
<1>2. CASE TokenError(w) \/ ChargeError(w) \/ Crash(w)
  BY <1>2 DEF TokenError, ChargeError, Crash, history
<1>3. QED
  BY <1>1, <1>2 DEF Fail

\* Keys that expire together are one Reset.
LEMMA TickMaps ==
  ASSUME AdmissionInv, Tick
  PROVE  Limiter!Next
<1>1. PICK S \in SUBSET RateBuckets : S = {b \in RateBuckets : ttl[b] = 1}
  OBVIOUS
<1>2. \A b \in RateBuckets : /\ passed'[b] = IF b \in S THEN 0 ELSE passed[b]
                             /\ open'[b] = IF b \in S THEN 0 ELSE open[b]
  BY <1>1 DEF Tick
<1>3. Limiter!Reset(S)
  BY <1>2 DEF Limiter!Reset
<1>4. QED
  BY <1>3 DEF Limiter!Next

\* The Redis limiter implements the abstract fixed-window limiter: a step of
\* the code lets at most one request through one bucket, only with room left
\* or by failing open, and only the expiry of a key resets a bucket.
THEOREM ImplementsLimiter == Spec => LimiterSpec
<1>1. Init => Limiter!Init
  BY DEF Init, Limiter!Init
<1>2. AdmissionInv /\ [Next]_vars => [Limiter!Next]_(Limiter!vars)
  <2> SUFFICES ASSUME AdmissionInv, [Next]_vars
               PROVE  Limiter!Next \/ UNCHANGED Limiter!vars
    OBVIOUS
  <2>1. (passed' = passed /\ open' = open) => UNCHANGED Limiter!vars
    BY DEF Limiter!vars
  <2>2. ASSUME NEW w \in Workers, NEW k \in Kinds, NEW e \in Estimates, Start(w, k, e)
        PROVE  passed' = passed /\ open' = open
    BY <2>2 DEF Start, history
  <2>3. UNCHANGED vars => passed' = passed /\ open' = open
    BY DEF vars
  <2>4. QED
    BY <2>1, <2>2, <2>3, ServeMaps, FailMaps, TickMaps DEF Next
<1>3. QED
  BY <1>1, <1>2, AdmissionInvHolds, PTL DEF Spec, LimiterSpec, Limiter!Spec

-----------------------------------------------------------------------------
(* Every counter expires.                                                  *)

\* Worker w is about to set the expiry of b.
Owes(w, b) ==
    \/ at[w].pc = "expire" /\ RateBucketOf(at[w]) = b
    \/ at[w].pc = "chargeexpire" /\ b \in fresh[w]

\* While nothing has failed: no key, then no expiry and nobody to set one; a
\* key has an expiry or somebody who sets it; and that somebody is alone.
Accounted(b) ==
    /\ count[b] = 0 => ttl[b] = 0 /\ \A w \in Workers : ~Owes(w, b)
    /\ count[b] > 0 /\ ttl[b] = 0 => \E w \in Workers : Owes(w, b)
    /\ \A v, w \in Workers : Owes(v, b) /\ Owes(w, b) => v = w
    /\ \A w \in Workers : Owes(w, b) => ttl[b] = 0

\* What is billed is at least one token: increment_ai_token_usage returns
\* early on 0, so that the answer of INCRBY tells a new key from an old one.
Billable(w) == at[w].pc \in {"charge", "chargeexpire"} => at[w].used > 0

ExpiryInv ==
    /\ AdmissionInv
    /\ \A w \in Workers : Billable(w)
    /\ faults = 0 => \A b \in Buckets : Accounted(b)

LEMMA SameAccount ==
  ASSUME NEW b \in Buckets, Accounted(b), count'[b] = count[b], ttl'[b] = ttl[b],
         \A v \in Workers : Owes(v, b)' <=> Owes(v, b)
  PROVE  Accounted(b)'
BY DEF Accounted

\* Billing goes on with the tokens it began with.
LEMMA ChargePointUsed ==
  ASSUME NEW r \in Locals, NEW s \in Nat \ {0}, ChargePoint(r, s).pc # "idle"
  PROVE  ChargePoint(r, s).used = r.used
BY DEF ChargePoint, Point, Locals, Idle

LEMMA ExpiryInit == Init => ExpiryInv
<1> SUFFICES ASSUME Init PROVE ExpiryInv
  OBVIOUS
<1>1. \A w \in Workers : at[w].pc = "idle"
  BY IdleOK DEF Init
<1>2. \A b \in Buckets : Accounted(b)
  BY <1>1 DEF Init, Accounted, Owes
<1>3. \A w \in Workers : Billable(w)
  BY <1>1 DEF Billable
<1>4. QED
  BY <1>2, <1>3, AdmissionInit DEF ExpiryInv

\* A worker bills at least one token at every point of its way.
LEMMA BillableKept ==
  ASSUME ExpiryInv, AdmissionInv', [Next]_vars
  PROVE  \A w \in Workers : Billable(w)'
<1> SUFFICES ASSUME NEW w \in Workers, at'[w] # at[w] PROVE Billable(w)'
  BY DEF ExpiryInv, Billable
<1>1. at[w] \in Locals /\ WellPlaced(at[w]) /\ Billable(w)
  BY DEF ExpiryInv, AdmissionInv, TypeOK
<1>2. ~Tick /\ at' # at
  BY DEF Tick
<1>3. PICK v \in Workers : (\E k \in Kinds, e \in Estimates : Start(v, k, e)) \/ Serve(v) \/ Fail(v)
  BY <1>2 DEF Next, vars
<1>4. v = w
  <2>1. \A p : GoTo(v, p) => at'[w] = at[w] \/ v = w
    BY DEF GoTo, ExpiryInv, AdmissionInv, TypeOK
  <2>2. \E p : GoTo(v, p)
    BY <1>3 DEF Start, Serve, Fail, Incr, Expire, RejectRate, CheckTokens, RejectTokens,
         Undelivered, Deliver, Charge, ChargeExpire, RateError, TokenError, ChargeError, Crash
  <2>3. QED
    BY <2>1, <2>2
<1>5. CASE \E u \in 0..MaxUsed : Deliver(w, u)
  <2>1. PICK u \in 0..MaxUsed : Deliver(w, u)
    BY <1>5
  <2>2. [at[w] EXCEPT !.used = u] \in Locals
    BY <1>1 DEF Locals
  <2>3. ChargePoint([at[w] EXCEPT !.used = u], 1).pc # "idle" =>
           ChargePoint([at[w] EXCEPT !.used = u], 1).used = u
    BY <2>2, ChargePointUsed, <1>1 DEF Locals
  <2>4. at'[w] = Idle \/ (u # 0 /\ at'[w] = ChargePoint([at[w] EXCEPT !.used = u], 1))
    BY <2>1 DEF Deliver, GoTo, ExpiryInv, AdmissionInv, TypeOK
  <2>5. QED
    BY <2>3, <2>4, IdleOK, BoundsAssumption DEF Billable
<1>6. CASE Charge(w) \/ ChargeExpire(w) \/ ChargeError(w)
  <2>1. at[w].used > 0 /\ at[w].used \in Nat /\ at[w].i + 1 \in Nat \ {0}
    BY <1>1, <1>6, BoundsAssumption
       DEF Billable, Locals, Charge, ChargeExpire, ChargeError
  <2>2. at'[w] = [at[w] EXCEPT !.pc = "chargeexpire"] \/ at'[w] = ChargePoint(at[w], at[w].i + 1)
    BY <1>6 DEF Charge, ChargeExpire, ChargeError, GoTo, ExpiryInv, AdmissionInv, TypeOK
  <2>3. ChargePoint(at[w], at[w].i + 1).pc # "idle" =>
           ChargePoint(at[w], at[w].i + 1).used = at[w].used
    BY <1>1, <2>1, ChargePointUsed
  <2>4. QED
    BY <1>1, <2>1, <2>2, <2>3 DEF Billable, Locals
<1>7. CASE \/ \E k \in Kinds, e \in Estimates : Start(w, k, e)
           \/ Incr(w) \/ Expire(w) \/ RateError(w)
  <2>1. \A k \in Kinds, e \in Estimates :
          RatePoint([Idle EXCEPT !.kind = k, !.est = e], 1).pc \in {"incr", "get", "upstream"}
    <3> SUFFICES ASSUME NEW k \in Kinds, NEW e \in Estimates
                 PROVE  RatePoint([Idle EXCEPT !.kind = k, !.est = e], 1).pc \in {"incr", "get", "upstream"}
      OBVIOUS
    <3>1. [Idle EXCEPT !.kind = k, !.est = e] \in Locals
      BY IdleOK, BoundsAssumption DEF Locals, Idle
    <3>2. QED
      BY <3>1, RatePointOK
  <2>2. RatePoint(at[w], at[w].i + 1).pc \in {"incr", "get", "upstream"}
    BY <1>1, RatePointOK, at[w].i + 1 \in Nat \ {0} DEF Locals
  <2>3. at'[w].pc \in {"incr", "get", "upstream", "expire", "ttl"}
    <3>1. CASE \E k \in Kinds, e \in Estimates : Start(w, k, e)
      <4>1. PICK k \in Kinds, e \in Estimates : Start(w, k, e)
        BY <3>1
      <4>2. Point([Idle EXCEPT !.kind = k, !.est = e], "upstream", 0, 0).pc = "upstream"
        BY DEF Point, Idle
      <4>3. \/ at'[w] = RatePoint([Idle EXCEPT !.kind = k, !.est = e], 1)
            \/ at'[w] = Point([Idle EXCEPT !.kind = k, !.est = e], "upstream", 0, 0)
        BY <4>1 DEF Start, GoTo, ExpiryInv, AdmissionInv, TypeOK
      <4>4. QED
        BY <2>1, <4>2, <4>3
    <3>2. CASE Incr(w) \/ Expire(w) \/ RateError(w)
      BY <1>1, <2>2, <3>2
         DEF Incr, Expire, RateError, GoTo, Locals, ExpiryInv, AdmissionInv, TypeOK
    <3>3. QED
      BY <1>7, <3>1, <3>2
  <2>4. QED
    BY <2>3 DEF Billable
<1>8. CASE \/ RejectRate(w) \/ RejectTokens(w) \/ Undelivered(w) \/ Crash(w)
           \/ CheckTokens(w) \/ TokenError(w)
  <2>1. at[w].pc \in {"get", "tokenttl"} => at[w].i \in DOMAIN Scopes[at[w].kind]
    BY <1>1 DEF WellPlaced
  <2>2. at[w].pc \in {"get", "tokenttl"} =>
          /\ TokenPoint(at[w], at[w].i, at[w].j + 1).pc \in {"get", "upstream"}
          /\ ScopePoint(at[w], at[w].i + 1).pc \in {"get", "upstream"}
    BY <1>1, <2>1, TokenPointOK, ScopePointOK,
       at[w].j + 1 \in Nat \ {0}, at[w].i + 1 \in Nat \ {0} DEF Locals
  <2>3. at'[w].pc \in {"idle", "get", "upstream", "tokenttl"}
    BY <1>1, <1>8, <2>2, IdleOK
       DEF RejectRate, RejectTokens, Undelivered, Crash, CheckTokens, TokenError, GoTo, Locals,
           ExpiryInv, AdmissionInv, TypeOK
  <2>4. QED
    BY <2>3 DEF Billable
<1>9. QED
  BY <1>3, <1>4, <1>5, <1>6, <1>7, <1>8 DEF Serve, Fail

\* A step of w that changes no counter and after which, as before it, w is
\* not about to set an expiry.
LEMMA QuietAccount ==
  ASSUME AdmissionInv, NEW w \in Workers, NEW p, GoTo(w, p),
         at[w].pc \notin {"expire", "chargeexpire"}, p.pc \notin {"expire", "chargeexpire"},
         UNCHANGED <<count, ttl, fresh>>, NEW b \in Buckets, Accounted(b)
  PROVE  Accounted(b)'
<1>1. \A v \in Workers : Owes(v, b)' <=> Owes(v, b)
  BY DEF GoTo, Owes, AdmissionInv, TypeOK
<1>2. QED
  BY <1>1, SameAccount

LEMMA StartAccounts ==
  ASSUME ExpiryInv, NEW w \in Workers, NEW k \in Kinds, NEW e \in Estimates, Start(w, k, e),
         NEW b \in Buckets, Accounted(b)
  PROVE  Accounted(b)'
<1> DEFINE r == [Idle EXCEPT !.kind = k, !.est = e]
<1>1. r \in Locals
  BY IdleOK, BoundsAssumption DEF Locals, Idle
<1>2. RatePoint(r, 1).pc \in {"incr", "get", "upstream"}
  BY <1>1, RatePointOK
<1>3. Point(r, "upstream", 0, 0).pc = "upstream"
  BY DEF Point, Idle
<1>4. PICK p : GoTo(w, p) /\ p.pc \notin {"expire", "chargeexpire"}
  BY <1>2, <1>3 DEF Start
<1>5. QED
  BY <1>4, QuietAccount DEF Start, ExpiryInv, redis

\* INCR: the request that creates the key is the only one to set its expiry.
LEMMA IncrAccounts ==
  ASSUME ExpiryInv, NEW w \in Workers, Incr(w), NEW b \in Buckets, Accounted(b)
  PROVE  Accounted(b)'
<1> DEFINE c == RateBucketOf(at[w])
<1>1. at[w] \in Locals /\ WellPlaced(at[w]) /\ at[w].pc = "incr" /\ AdmissionInv
  BY DEF ExpiryInv, AdmissionInv, TypeOK, Incr
<1>2. c \in RateBuckets /\ at[w].i + 1 \in Nat \ {0}
  BY <1>1, BucketsOK, ChainAssumption DEF WellPlaced, Locals
<1>3. RatePoint(at[w], at[w].i + 1).pc \in {"incr", "get", "upstream"}
  BY <1>1, <1>2, RatePointOK
<1>4. \A v \in Workers : v # w => (Owes(v, b)' <=> Owes(v, b))
  BY DEF Incr, GoTo, Owes, AdmissionInv, ExpiryInv, TypeOK
<1>5. ~Owes(w, b)
  BY <1>1 DEF Owes
<1>6. count[b] \in Nat /\ ttl' = ttl /\ count'[b] = IF b = c THEN count[b] + 1 ELSE count[b]
  BY <1>1, <1>2 DEF Incr, AdmissionInv, TypeOK
<1>7. CASE count[c] + 1 = 1
  <2>1. at'[w] = [at[w] EXCEPT !.pc = "expire"]
    BY <1>1, <1>2, <1>7 DEF Incr, GoTo, AdmissionInv, TypeOK
  <2>2. Owes(w, b)' <=> b = c
    BY <1>1, <2>1 DEF Owes, RateBucketOf, Locals
  <2>3. CASE b = c
    BY <1>4, <1>6, <1>7, <2>2, <2>3 DEF Accounted
  <2>4. CASE b # c
    BY <1>4, <1>5, <1>6, <2>2, <2>4, SameAccount
  <2>5. QED
    BY <2>3, <2>4
<1>8. CASE count[c] + 1 # 1
  <2>1. at'[w].pc \in {"ttl", "incr", "get", "upstream"}
    BY <1>1, <1>2, <1>3, <1>8 DEF Incr, GoTo, AdmissionInv, TypeOK, Locals
  <2>2. ~Owes(w, b)'
    BY <2>1 DEF Owes
  <2>3. count[c] \in Nat
    BY <1>1, <1>2 DEF AdmissionInv, TypeOK
  <2>4. QED
    BY <1>4, <1>5, <1>6, <1>8, <2>2, <2>3 DEF Accounted
<1>9. QED
  BY <1>7, <1>8

LEMMA ExpireAccounts ==
  ASSUME ExpiryInv, NEW w \in Workers, Expire(w), NEW b \in Buckets, Accounted(b)
  PROVE  Accounted(b)'
<1> DEFINE c == RateBucketOf(at[w])
<1>1. at[w] \in Locals /\ WellPlaced(at[w]) /\ at[w].pc = "expire" /\ AdmissionInv
  BY DEF ExpiryInv, AdmissionInv, TypeOK, Expire
<1>2. c \in RateBuckets /\ at[w].i + 1 \in Nat \ {0} /\ Window[c] > 0 /\ Window[c] \in Nat
  BY <1>1, BucketsOK, ChainAssumption, WindowAssumption DEF WellPlaced, Locals
<1>3. RatePoint(at[w], at[w].i + 1).pc \in {"incr", "get", "upstream"}
  BY <1>1, <1>2, RatePointOK
<1>4. \A v \in Workers : v # w => (Owes(v, b)' <=> Owes(v, b))
  BY DEF Expire, GoTo, Owes, AdmissionInv, ExpiryInv, TypeOK
<1>5. Owes(w, b) <=> b = c
  BY <1>1 DEF Owes
<1>6. at'[w].pc \in {"ttl", "incr", "get", "upstream"}
  BY <1>1, <1>3 DEF Expire, GoTo, AdmissionInv, TypeOK, Locals
<1>7. ~Owes(w, b)'
  BY <1>6 DEF Owes
<1>8. count' = count /\ ttl'[b] = IF b = c THEN Window[c] ELSE ttl[b]
  BY <1>1, <1>2 DEF Expire, AdmissionInv, TypeOK
<1>9. CASE b = c
  BY <1>2, <1>4, <1>5, <1>7, <1>8, <1>9 DEF Accounted
<1>10. CASE b # c
  BY <1>4, <1>5, <1>7, <1>8, <1>10, SameAccount
<1>11. QED
  BY <1>9, <1>10

\* INCRBY: the keys it creates are those that did not exist, since what it
\* adds is not 0.
LEMMA ChargeAccounts ==
  ASSUME ExpiryInv, NEW w \in Workers, Charge(w), NEW b \in Buckets, Accounted(b)
  PROVE  Accounted(b)'
<1> DEFINE u == at[w].used
<1>1. at[w] \in Locals /\ WellPlaced(at[w]) /\ at[w].pc = "charge" /\ AdmissionInv
  BY DEF ExpiryInv, AdmissionInv, TypeOK, Charge
<1>2. u \in Nat /\ u > 0
  BY <1>1, BoundsAssumption DEF ExpiryInv, Billable, Locals
<1>3. \A v \in Workers : v # w => (Owes(v, b)' <=> Owes(v, b))
  BY DEF Charge, GoTo, Owes, AdmissionInv, ExpiryInv, TypeOK
<1>4. ~Owes(w, b)
  BY <1>1 DEF Owes
<1>5. Owes(w, b)' <=> b \in ScopeOf(at[w]) /\ count'[b] = u
  <2>1. at'[w] = [at[w] EXCEPT !.pc = "chargeexpire"] /\ fresh'[w] = Created(w)
    BY <1>1 DEF Charge, GoTo, AdmissionInv, TypeOK
  <2>2. QED
    BY <1>1, <2>1 DEF Owes, Created, Locals
<1>6. /\ count[b] \in Nat /\ ttl' = ttl
      /\ count'[b] = IF b \in ScopeOf(at[w]) THEN count[b] + u ELSE count[b]
  BY <1>1 DEF Charge, ApplyCharge, AdmissionInv, TypeOK
<1>7. CASE b \in ScopeOf(at[w]) /\ count[b] = 0
  BY <1>2, <1>3, <1>5, <1>6, <1>7 DEF Accounted
<1>8. CASE ~(b \in ScopeOf(at[w]) /\ count[b] = 0)
  <2>1. ~Owes(w, b)'
    BY <1>2, <1>5, <1>6, <1>8
  <2>2. count'[b] > 0 <=> count[b] > 0
    BY <1>2, <1>6, <1>8
  <2>3. count'[b] = 0 <=> count[b] = 0
    BY <1>2, <1>6, <1>8
  <2>4. QED
    BY <1>3, <1>4, <1>6, <2>1, <2>2, <2>3 DEF Accounted
<1>9. QED
  BY <1>7, <1>8

LEMMA ChargeExpireAccounts ==
  ASSUME ExpiryInv, NEW w \in Workers, ChargeExpire(w), NEW b \in Buckets, Accounted(b)
  PROVE  Accounted(b)'
<1>1. at[w] \in Locals /\ WellPlaced(at[w]) /\ at[w].pc = "chargeexpire" /\ AdmissionInv
  BY DEF ExpiryInv, AdmissionInv, TypeOK, ChargeExpire
<1>2. at[w].i + 1 \in Nat \ {0} /\ Window[b] \in Nat /\ Window[b] > 0
  BY <1>1, WindowAssumption DEF Locals
<1>3. \A v \in Workers : v # w => (Owes(v, b)' <=> Owes(v, b))
  BY DEF ChargeExpire, GoTo, Owes, AdmissionInv, ExpiryInv, TypeOK
<1>4. Owes(w, b) <=> b \in fresh[w]
  BY <1>1 DEF Owes
<1>5. ~Owes(w, b)'
  <2>1. at'[w].pc \in {"charge", "idle"}
    BY <1>1, <1>2, ChargePointOK DEF ChargeExpire, GoTo, AdmissionInv, TypeOK
  <2>2. QED
    BY <2>1 DEF Owes
<1>6. count' = count /\ ttl'[b] = IF b \in fresh[w] THEN Window[b] ELSE ttl[b]
  BY <1>1 DEF ChargeExpire, AdmissionInv, TypeOK
<1>7. CASE b \in fresh[w]
  BY <1>2, <1>3, <1>4, <1>5, <1>6, <1>7 DEF Accounted
<1>8. CASE b \notin fresh[w]
  BY <1>3, <1>4, <1>5, <1>6, <1>8, SameAccount
<1>9. QED
  BY <1>7, <1>8

\* The steps in which a request is rejected, passes a token check or is
\* answered.
LEMMA OtherAccounts ==
  ASSUME ExpiryInv, NEW w \in Workers, NEW b \in Buckets, Accounted(b),
         \/ RejectRate(w) \/ CheckTokens(w) \/ RejectTokens(w) \/ Undelivered(w)
         \/ \E u \in 0..MaxUsed : Deliver(w, u)
  PROVE  Accounted(b)'
<1>1. at[w] \in Locals /\ WellPlaced(at[w]) /\ AdmissionInv
  BY DEF ExpiryInv, AdmissionInv, TypeOK
<1>2. at[w].pc \notin {"expire", "chargeexpire"}
  BY DEF RejectRate, CheckTokens, RejectTokens, Undelivered, Deliver
<1>3. UNCHANGED <<count, ttl, fresh>>
  BY DEF RejectRate, CheckTokens, RejectTokens, Undelivered, Deliver, redis
<1>4. PICK p : GoTo(w, p) /\ p.pc \notin {"expire", "chargeexpire"}
  <2>1. CASE RejectRate(w) \/ RejectTokens(w) \/ Undelivered(w)
    BY <2>1, IdleOK DEF RejectRate, RejectTokens, Undelivered
  <2>2. CASE CheckTokens(w)
    <3>1. TokenPoint(at[w], at[w].i, at[w].j + 1).pc \in {"get", "upstream"}
      BY <1>1, <2>2, TokenPointOK, at[w].j + 1 \in Nat \ {0} DEF Locals, WellPlaced, CheckTokens
    <3>2. [at[w] EXCEPT !.pc = "tokenttl"].pc = "tokenttl"
      BY <1>1 DEF Locals
    <3>3. \/ GoTo(w, [at[w] EXCEPT !.pc = "tokenttl"])
          \/ GoTo(w, TokenPoint(at[w], at[w].i, at[w].j + 1))
      BY <2>2 DEF CheckTokens
    <3>4. QED
      BY <3>1, <3>2, <3>3
  <2>3. CASE \E u \in 0..MaxUsed : Deliver(w, u)
    <3>1. PICK u \in 0..MaxUsed : Deliver(w, u)
      BY <2>3
    <3>2. [at[w] EXCEPT !.used = u] \in Locals
      BY <1>1 DEF Locals
    <3>3. ChargePoint([at[w] EXCEPT !.used = u], 1).pc \in {"charge", "idle"}
      BY <3>2, ChargePointOK
    <3>4. QED
      BY <3>1, <3>3, IdleOK DEF Deliver
  <2>4. QED
    BY <2>1, <2>2, <2>3
<1>5. QED
  BY <1>1, <1>2, <1>3, <1>4, QuietAccount

\* A key goes together with its expiry, and only when nobody is about to set
\* the expiry again.
LEMMA TickAccounts ==
  ASSUME ExpiryInv, Tick, NEW b \in Buckets, Accounted(b)
  PROVE  Accounted(b)'
<1>1. \A w \in Workers : Owes(w, b)' <=> Owes(w, b)
  BY DEF Tick, Owes
<1>2. /\ ttl'[b] = (IF ttl[b] > 0 THEN ttl[b] - 1 ELSE 0)
      /\ count'[b] = (IF ttl[b] = 1 THEN 0 ELSE count[b])
      /\ ttl[b] \in Nat /\ count[b] \in Nat
  BY DEF Tick, ExpiryInv, AdmissionInv, TypeOK
<1>3. QED
  BY <1>1, <1>2 DEF Accounted

\* ExpiryInv is inductive.
THEOREM ExpiryInvHolds == Spec => []ExpiryInv
<1>1. ExpiryInv /\ AdmissionInv' /\ [Next]_vars => ExpiryInv'
  <2> SUFFICES ASSUME ExpiryInv, AdmissionInv', [Next]_vars PROVE ExpiryInv'
    OBVIOUS
  <2>1. \A w \in Workers : Billable(w)'
    BY BillableKept
  <2>2. ASSUME faults' = 0, NEW b \in Buckets PROVE Accounted(b)'
    <3>1. faults \in Nat /\ (Fault => faults' # 0)
      BY BoundsAssumption DEF ExpiryInv, AdmissionInv, TypeOK, Fault
    <3>2. ~Fault
      BY <2>2, <3>1
    <3>3. CASE faults = 0
      <4>1. Accounted(b)
        BY <3>3 DEF ExpiryInv
      <4>2. \A w \in Workers : ~Fail(w)
        BY <3>2 DEF Fail, RateError, TokenError, ChargeError, Crash
      <4>3. ASSUME NEW w \in Workers, Serve(w) PROVE Accounted(b)'
        BY <4>1, <4>3, IncrAccounts, ExpireAccounts, ChargeAccounts, ChargeExpireAccounts,
           OtherAccounts DEF Serve
      <4>4. CASE UNCHANGED vars
        <5>1. \A w \in Workers : Owes(w, b)' <=> Owes(w, b)
          BY <4>4 DEF vars, Owes
        <5>2. QED
          BY <4>1, <4>4, <5>1, SameAccount DEF vars
      <4>5. QED
        BY <4>1, <4>2, <4>3, <4>4, StartAccounts, TickAccounts DEF Next
    <3>4. CASE faults # 0
      <4>1. faults' # faults
        BY <2>2, <3>4
      <4>2. PICK w \in Workers : \/ \E k \in Kinds, e \in Estimates : Start(w, k, e)
                                 \/ Serve(w) \/ Fail(w)
        BY <4>1 DEF Next, vars, Tick
      <4>3. faults' = faults \/ Fault
        BY <4>2 DEF Start, Serve, Fail, Incr, Expire, RejectRate, CheckTokens, RejectTokens,
             Undelivered, Deliver, Charge, ChargeExpire, RateError, TokenError, ChargeError, Crash
      <4>4. QED
        BY <3>2, <4>1, <4>3
    <3>5. QED
      BY <3>3, <3>4
  <2>3. QED
    BY <2>1, <2>2 DEF ExpiryInv
<1>2. QED
  BY ExpiryInit, AdmissionInvHolds, <1>1, PTL DEF Spec

\* As long as Redis and the processes do not fail, no counter of any key,
\* tenant or address stays for ever: it has an expiry, or exactly one worker
\* that is about to set it (check_rate_limit, increment_ai_token_usage).
THEOREM EveryCounterExpiresHolds == Spec => []EveryCounterExpires
<1>1. ExpiryInv => EveryCounterExpires
  <2> SUFFICES ASSUME ExpiryInv, faults = 0, NEW b \in Buckets
               PROVE  /\ count[b] > 0 => ttl[b] > 0 \/ Expiring(b) # {}
                      /\ \A v, w \in Expiring(b) : v = w
                      /\ Expiring(b) # {} => ttl[b] = 0
    BY DEF EveryCounterExpires
  <2>1. \A w : w \in Expiring(b) <=> w \in Workers /\ Owes(w, b)
    BY DEF Expiring, Owes
  <2>2. Accounted(b) /\ ttl[b] \in Nat
    BY DEF ExpiryInv, AdmissionInv, TypeOK
  <2>3. QED
    BY <2>1, <2>2 DEF Accounted
<1>2. QED
  BY ExpiryInvHolds, <1>1, PTL

-----------------------------------------------------------------------------
(* Token budgets.                                                          *)

\* A request at r has passed the check of b, or skipped it, and has not
\* billed b yet.
Ahead(r, b) ==
    \E s \in DOMAIN Scopes[r.kind] :
        /\ b \in RangeOf(Scopes[r.kind][s])
        /\ \/ /\ r.pc \in {"get", "tokenttl"}
              /\ s < r.i \/ (s = r.i /\ \E j \in DOMAIN Scopes[r.kind][s] :
                                           j < r.j /\ Scopes[r.kind][s][j] = b)
           \/ r.pc = "upstream"
           \/ r.pc = "charge" /\ r.i <= s
           \/ r.pc = "chargeexpire" /\ r.i < s

\* A process that has given Redis up bills nothing.
Unbilled(b) ==
    {w \in Workers : Ahead(at[w], b) /\ (at[w].pc = "upstream" => client[w] # "disabled")}

\* Each of them may still bill b one answer; a check passes only when there
\* is budget left, and then all workers together may be about to bill.
Covered(b) ==
    count[b] + Cardinality(Unbilled(b)) * MaxUsed
        <= Limit[b] + (Cardinality(Workers) + faults) * MaxUsed

BudgetInv ==
    /\ AdmissionInv
    /\ \A b \in TokenBuckets : Covered(b)

\* Arithmetic: more requests in flight may bill more.
LEMMA ProductMonotone ==
  ASSUME NEW m \in Nat, NEW n \in Nat, m <= n
  PROVE  m * MaxUsed <= n * MaxUsed /\ m * MaxUsed \in Nat
<1>1. PICK d \in Nat : n = m + d
  <2>1. n - m \in Nat /\ n = m + (n - m)
    OBVIOUS
  <2>2. QED
    BY <2>1
<1>2. n * MaxUsed = m * MaxUsed + d * MaxUsed
  BY <1>1, BoundsAssumption
<1>3. d * MaxUsed \in Nat /\ m * MaxUsed \in Nat
  BY BoundsAssumption
<1>4. QED
  BY <1>2, <1>3

LEMMA UnbilledFinite ==
  ASSUME NEW b
  PROVE  /\ Unbilled(b) \subseteq Workers
         /\ IsFiniteSet(Unbilled(b))
         /\ Cardinality(Unbilled(b)) \in Nat
         /\ Cardinality(Workers) \in Nat
         /\ Cardinality(Unbilled(b)) <= Cardinality(Workers)
<1>1. Unbilled(b) \subseteq Workers
  BY DEF Unbilled
<1>2. QED
  BY <1>1, WorkersFinite, FS_Subset, FS_CardinalityType

\* A step after which no more requests are in flight and no more is billed.
LEMMA FewerCovered ==
  ASSUME NEW b \in TokenBuckets, Covered(b), AdmissionInv, AdmissionInv',
         Unbilled(b)' \subseteq Unbilled(b), count'[b] <= count[b], faults <= faults'
  PROVE  Covered(b)'
<1> DEFINE N == Cardinality(Workers)
           P == Cardinality(Unbilled(b))
           Q == Cardinality(Unbilled(b)')
<1>1. P \in Nat /\ N \in Nat /\ Q \in Nat /\ Q <= P
  BY UnbilledFinite, FS_Subset, FS_CardinalityType
<1>2. Q * MaxUsed <= P * MaxUsed /\ Q * MaxUsed \in Nat /\ P * MaxUsed \in Nat
  BY <1>1, ProductMonotone
<1>3. faults \in Nat /\ faults' \in Nat /\ count[b] \in Nat /\ count'[b] \in Nat /\ Limit[b] \in Nat
  BY BoundsAssumption, LimitAssumption DEF AdmissionInv, TypeOK
<1>4. (N + faults) * MaxUsed <= (N + faults') * MaxUsed
      /\ (N + faults) * MaxUsed \in Nat /\ (N + faults') * MaxUsed \in Nat
  BY <1>1, <1>3, ProductMonotone, N + faults \in Nat, N + faults' \in Nat
<1>5. QED
  BY <1>1, <1>2, <1>3, <1>4 DEF Covered

\* A step that adds w to the requests in flight and counts as a fault.
LEMMA FaultCovered ==
  ASSUME NEW b \in TokenBuckets, Covered(b), AdmissionInv, NEW w \in Workers,
         Unbilled(b)' \subseteq Unbilled(b) \union {w}, count' = count, faults' = faults + 1
  PROVE  Covered(b)'
<1> DEFINE N == Cardinality(Workers)
           P == Cardinality(Unbilled(b))
           Q == Cardinality(Unbilled(b)')
<1>1. P \in Nat /\ N \in Nat /\ Q \in Nat /\ Q <= P + 1
  <2>1. IsFiniteSet(Unbilled(b)) /\ P \in Nat /\ N \in Nat
    BY UnbilledFinite
  <2>2. IsFiniteSet(Unbilled(b) \union {w}) /\ Cardinality(Unbilled(b) \union {w}) <= P + 1
    <3> DEFINE W == Unbilled(b) \union {w}
    <3>1. w \in Unbilled(b) => W = Unbilled(b)
      OBVIOUS
    <3>2. IsFiniteSet(W) /\ (Cardinality(W) = P \/ Cardinality(W) = P + 1)
      BY <2>1, <3>1, FS_AddElement, Zenon
    <3> HIDE DEF W
    <3>3. IsFiniteSet(W) /\ Cardinality(W) <= P + 1
      BY <2>1, <3>2
    <3>4. QED
      BY <3>3 DEF W
  <2>3. Q <= Cardinality(Unbilled(b) \union {w}) /\ Q \in Nat
    BY <2>2, FS_Subset, FS_CardinalityType
  <2>4. Cardinality(Unbilled(b) \union {w}) \in Nat
    BY <2>2, FS_CardinalityType
  <2>5. QED
    BY <2>1, <2>2, <2>3, <2>4
<1>2. Q * MaxUsed <= (P + 1) * MaxUsed /\ Q * MaxUsed \in Nat
  BY <1>1, ProductMonotone, P + 1 \in Nat
<1>3. faults \in Nat /\ count[b] \in Nat /\ Limit[b] \in Nat /\ MaxUsed \in Nat
  BY BoundsAssumption, LimitAssumption DEF AdmissionInv, TypeOK
<1>4. (P + 1) * MaxUsed = P * MaxUsed + MaxUsed /\ P * MaxUsed \in Nat
  BY <1>1, <1>3
<1>5. (N + (faults + 1)) * MaxUsed = (N + faults) * MaxUsed + MaxUsed /\ (N + faults) * MaxUsed \in Nat
  BY <1>1, <1>3
<1>6. QED
  BY <1>1, <1>2, <1>3, <1>4, <1>5 DEF Covered

\* A check that passes: what is used is within the limit.
LEMMA CheckedCovered ==
  ASSUME NEW b \in TokenBuckets, AdmissionInv, count' = count, faults' = faults, count[b] <= Limit[b]
  PROVE  Covered(b)'
<1> DEFINE N == Cardinality(Workers)
           Q == Cardinality(Unbilled(b)')
<1>1. N \in Nat /\ Q \in Nat /\ Q <= N
  <2>1. Unbilled(b)' \subseteq Workers
    BY DEF Unbilled
  <2>2. QED
    BY <2>1, WorkersFinite, FS_Subset, FS_CardinalityType
<1>2. faults \in Nat /\ count[b] \in Nat /\ Limit[b] \in Nat
  BY BoundsAssumption, LimitAssumption DEF AdmissionInv, TypeOK
<1>3. Q * MaxUsed <= (N + faults) * MaxUsed /\ Q * MaxUsed \in Nat
  BY <1>1, <1>2, ProductMonotone, N + faults \in Nat
<1>4. (N + faults) * MaxUsed \in Nat
  BY <1>1, <1>2, ProductMonotone, N + faults \in Nat
<1>5. QED
  BY <1>2, <1>3, <1>4 DEF Covered

\* Billing: the request is no longer in flight, and one answer is counted.
LEMMA BilledCovered ==
  ASSUME NEW b \in TokenBuckets, Covered(b), AdmissionInv, AdmissionInv',
         NEW w \in Unbilled(b), Unbilled(b)' \subseteq Unbilled(b) \ {w},
         count'[b] <= count[b] + MaxUsed, faults <= faults'
  PROVE  Covered(b)'
<1> DEFINE N == Cardinality(Workers)
           P == Cardinality(Unbilled(b))
           Q == Cardinality(Unbilled(b)')
<1>1. P \in Nat /\ N \in Nat /\ Q \in Nat /\ Q + 1 <= P
  <2>1. IsFiniteSet(Unbilled(b)) /\ P \in Nat /\ N \in Nat
    BY UnbilledFinite
  <2>2. IsFiniteSet(Unbilled(b) \ {w}) /\ Cardinality(Unbilled(b) \ {w}) = P - 1
    BY <2>1, FS_RemoveElement
  <2>3. Q <= Cardinality(Unbilled(b) \ {w}) /\ Q \in Nat
    BY <2>2, FS_Subset, FS_CardinalityType
  <2>4. QED
    BY <2>1, <2>2, <2>3
<1>2. faults \in Nat /\ faults' \in Nat /\ count[b] \in Nat /\ count'[b] \in Nat
      /\ Limit[b] \in Nat /\ MaxUsed \in Nat
  BY BoundsAssumption, LimitAssumption DEF AdmissionInv, TypeOK
<1>3. (Q + 1) * MaxUsed <= P * MaxUsed /\ P * MaxUsed \in Nat
  BY <1>1, ProductMonotone, Q + 1 \in Nat
<1>4. (Q + 1) * MaxUsed = Q * MaxUsed + MaxUsed /\ Q * MaxUsed \in Nat
  BY <1>1, <1>2
<1>5. (N + faults) * MaxUsed <= (N + faults') * MaxUsed
      /\ (N + faults) * MaxUsed \in Nat /\ (N + faults') * MaxUsed \in Nat
  BY <1>1, <1>2, ProductMonotone, N + faults \in Nat, N + faults' \in Nat
<1>6. QED
  BY <1>1, <1>2, <1>3, <1>4, <1>5 DEF Covered

\* A request on its way to the token checks has passed none of them.
LEMMA RatePointBehind ==
  ASSUME NEW r \in Locals, NEW i \in Nat \ {0}, NEW b
  PROVE  ~Ahead(RatePoint(r, i), b)
<1>1. Scopes[r.kind] \in Seq(Seq(TokenBuckets))
  BY ScopesAssumption DEF Locals
<1>2. CASE i <= Len(Chain[r.kind])
  BY <1>2 DEF RatePoint, Point, Locals, Ahead
<1>3. CASE ~(i <= Len(Chain[r.kind])) /\ 1 <= Len(Scopes[r.kind])
  <2>1. RatePoint(r, i) = [r EXCEPT !.pc = "get", !.i = 1, !.j = 1]
    BY <1>3 DEF RatePoint, ScopePoint, Point
  <2>2. RatePoint(r, i).pc = "get" /\ RatePoint(r, i).i = 1 /\ RatePoint(r, i).j = 1
        /\ RatePoint(r, i).kind = r.kind
    BY <2>1 DEF Locals
  <2>3. \A s \in DOMAIN Scopes[r.kind] : /\ ~(s < 1)
                                        /\ \A j \in DOMAIN Scopes[r.kind][s] : ~(j < 1)
    BY <1>1
  <2>4. QED
    BY <2>2, <2>3 DEF Ahead
<1>4. CASE ~(i <= Len(Chain[r.kind])) /\ ~(1 <= Len(Scopes[r.kind]))
  <2>1. RatePoint(r, i).kind = r.kind
    BY <1>4 DEF RatePoint, ScopePoint, Point, Locals
  <2>2. DOMAIN Scopes[r.kind] = {}
    BY <1>1, <1>4
  <2>3. QED
    BY <2>1, <2>2 DEF Ahead
<1>5. QED
  BY <1>2, <1>3, <1>4

\* A check that passes adds at most the counter it has looked at.
LEMMA TokenPointAhead ==
  ASSUME NEW r \in Locals, WellPlaced(r), r.pc = "get", NEW b,
         Ahead(TokenPoint(r, r.i, r.j + 1), b)
  PROVE  Ahead(r, b) \/ TokenBucketOf(r) = b
<1> DEFINE S == Scopes[r.kind]
           p == TokenPoint(r, r.i, r.j + 1)
<1>1. S \in Seq(Seq(TokenBuckets)) /\ r.i \in DOMAIN S /\ r.j \in DOMAIN S[r.i]
  BY ScopesAssumption DEF Locals, WellPlaced
<1>2. S[r.i] \in Seq(TokenBuckets) /\ r.i \in Nat /\ r.j \in Nat
  BY <1>1
<1>3. p.kind = r.kind
  BY DEF TokenPoint, ScopePoint, Point, Locals
<1>4. PICK s \in DOMAIN S : b \in RangeOf(S[s]) /\
         \/ p.pc \in {"get", "tokenttl"} /\
               (s < p.i \/ (s = p.i /\ \E j \in DOMAIN S[s] : j < p.j /\ S[s][j] = b))
         \/ p.pc = "upstream"
         \/ p.pc = "charge" /\ p.i <= s
         \/ p.pc = "chargeexpire" /\ p.i < s
  BY <1>3 DEF Ahead
<1>5. s \in Nat /\ s <= Len(S) /\ S[s] \in Seq(TokenBuckets)
  BY <1>1
<1>6. PICK k \in DOMAIN S[s] : S[s][k] = b
  BY <1>4 DEF RangeOf
<1>7. CASE r.j + 1 <= Len(S[r.i])
  <2>1. p = [r EXCEPT !.pc = "get", !.i = r.i, !.j = r.j + 1]
    BY <1>7 DEF TokenPoint, Point
  <2>2. p.pc = "get" /\ p.i = r.i /\ p.j = r.j + 1
    BY <2>1 DEF Locals
  <2>3. s < r.i \/ (s = r.i /\ \E j \in DOMAIN S[s] : j < r.j + 1 /\ S[s][j] = b)
    BY <1>4, <2>2
  <2>4. CASE s < r.i
    BY <1>4, <2>4 DEF Ahead
  <2>5. CASE s = r.i /\ \E j \in DOMAIN S[s] : j < r.j + 1 /\ S[s][j] = b
    <3>1. PICK j \in DOMAIN S[s] : j < r.j + 1 /\ S[s][j] = b
      BY <2>5
    <3>2. j < r.j \/ j = r.j
      BY <1>2, <1>5, <3>1
    <3>3. QED
      BY <1>4, <2>5, <3>1, <3>2 DEF Ahead, TokenBucketOf
  <2>6. QED
    BY <2>3, <2>4, <2>5
<1>8. CASE ~(r.j + 1 <= Len(S[r.i]))
  <2>1. p = ScopePoint(r, r.i + 1)
    BY <1>8 DEF TokenPoint
  <2>2. s <= r.i
    <3>1. CASE r.i + 1 <= Len(S)
      <4>1. p = [r EXCEPT !.pc = "get", !.i = r.i + 1, !.j = 1]
        BY <2>1, <3>1 DEF ScopePoint, Point
      <4>2. p.pc = "get" /\ p.i = r.i + 1 /\ p.j = 1
        BY <4>1 DEF Locals
      <4>3. \A j \in DOMAIN S[s] : ~(j < 1)
        BY <1>5
      <4>4. QED
        BY <1>2, <1>4, <1>5, <4>2, <4>3
    <3>2. CASE ~(r.i + 1 <= Len(S))
      BY <1>1, <1>2, <1>5, <3>2
    <3>3. QED
      BY <3>1, <3>2
  <2>3. CASE s < r.i
    BY <1>4, <2>3 DEF Ahead
  <2>4. CASE s = r.i
    <3>1. k < r.j \/ k = r.j
      BY <1>2, <1>6, <1>8, <2>4
    <3>2. QED
      BY <1>4, <1>6, <2>4, <3>1 DEF Ahead, TokenBucketOf
  <2>5. QED
    BY <1>2, <1>5, <2>2, <2>3, <2>4
<1>9. QED
  BY <1>7, <1>8

\* Between two billings nothing joins the requests in flight.
LEMMA ChargePointAhead ==
  ASSUME NEW r \in Locals, NEW s \in Nat \ {0}, NEW b, Ahead(ChargePoint(r, s), b)
  PROVE  \E t \in DOMAIN Scopes[r.kind] : s <= t /\ b \in RangeOf(Scopes[r.kind][t])
<1>1. CASE s <= Len(Scopes[r.kind])
  <2>1. ChargePoint(r, s) = [r EXCEPT !.pc = "charge", !.i = s, !.j = 0]
    BY <1>1 DEF ChargePoint, Point
  <2>2. QED
    BY <2>1 DEF Ahead, Locals
<1>2. CASE ~(s <= Len(Scopes[r.kind]))
  BY <1>2 DEF ChargePoint, Idle, Ahead
<1>3. QED
  BY <1>1, <1>2

\* Who is in flight after a step of w to p.
LEMMA MoverAhead ==
  ASSUME AdmissionInv, NEW w \in Workers, NEW p, GoTo(w, p), NEW b,
         \A v \in Workers : v # w => client'[v] = client[v],
         Ahead(p, b) /\ (p.pc = "upstream" => client'[w] # "disabled") => w \in Unbilled(b)
  PROVE  Unbilled(b)' \subseteq Unbilled(b)
<1> SUFFICES ASSUME NEW v \in Unbilled(b)' PROVE v \in Unbilled(b)
  OBVIOUS
<1>1. v \in Workers /\ Ahead(at'[v], b) /\ (at'[v].pc = "upstream" => client'[v] # "disabled")
  BY DEF Unbilled, Ahead
<1>2. at'[v] = IF v = w THEN p ELSE at[v]
  BY <1>1 DEF GoTo, AdmissionInv, TypeOK
<1>3. QED
  BY <1>1, <1>2 DEF Unbilled

\* The steps of the request counters, and the start of a request, touch no
\* token counter and leave w outside the requests in flight.
LEMMA RateCovered ==
  ASSUME BudgetInv, AdmissionInv', NEW b \in TokenBuckets, NEW w \in Workers,
         \/ \E k \in Kinds, e \in Estimates : Start(w, k, e)
         \/ Incr(w) \/ Expire(w) \/ RateError(w)
  PROVE  Covered(b)'
<1>1. at[w] \in Locals /\ WellPlaced(at[w]) /\ AdmissionInv /\ faults \in Nat /\ count[b] \in Nat
  BY BoundsAssumption DEF BudgetInv, AdmissionInv, TypeOK
<1>2. count'[b] = count[b]
  <2>1. CASE \E k \in Kinds, e \in Estimates : Start(w, k, e)
    BY <2>1 DEF Start, redis
  <2>2. CASE Incr(w) \/ Expire(w) \/ RateError(w)
    <3>1. RateBucketOf(at[w]) \in RateBuckets /\ RateBucketOf(at[w]) # b
      BY <1>1, <2>2, BucketsOK, BucketsDisjoint DEF Incr, Expire, RateError
    <3>2. QED
      BY <1>1, <2>2, <3>1 DEF Incr, Expire, RateError, AdmissionInv, TypeOK
  <2>3. QED
    BY <2>1, <2>2
<1>3. faults <= faults'
  <2>1. CASE \E k \in Kinds, e \in Estimates : Start(w, k, e)
    <3>1. PICK k \in Kinds, e \in Estimates : Start(w, k, e)
      BY <2>1
    <3>2. faults' = faults \/ faults' = faults + 1
      BY <3>1 DEF Start, Fault
    <3>3. QED
      BY <1>1, <3>2
  <2>2. CASE Incr(w) \/ Expire(w) \/ RateError(w)
    BY <1>1, <2>2 DEF Incr, Expire, RateError, Fault
  <2>3. QED
    BY <2>1, <2>2
<1>4. PICK p : GoTo(w, p) /\ ~(Ahead(p, b) /\ (p.pc = "upstream" => client'[w] # "disabled"))
  <2>1. CASE \E k \in Kinds, e \in Estimates : Start(w, k, e)
    <3>1. PICK k \in Kinds, e \in Estimates : Start(w, k, e)
      BY <2>1
    <3> DEFINE r == [Idle EXCEPT !.kind = k, !.est = e]
    <3>2. r \in Locals
      BY IdleOK, BoundsAssumption DEF Locals, Idle
    <3>3. ~Ahead(RatePoint(r, 1), b)
      BY <3>2, RatePointBehind
    <3>4. Point(r, "upstream", 0, 0).pc = "upstream"
      BY DEF Point, Idle
    <3>5. GoTo(w, RatePoint(r, 1)) \/ (GoTo(w, Point(r, "upstream", 0, 0)) /\ client'[w] = "disabled")
      BY <1>1, <3>1 DEF Start, AdmissionInv, TypeOK
    <3>6. QED
      BY <3>3, <3>4, <3>5
  <2>2. CASE Incr(w) \/ Expire(w) \/ RateError(w)
    <3>1. ~Ahead(RatePoint(at[w], at[w].i + 1), b)
      BY <1>1, RatePointBehind, at[w].i + 1 \in Nat \ {0} DEF Locals
    <3>2. /\ ~Ahead([at[w] EXCEPT !.pc = "expire"], b)
          /\ ~Ahead([at[w] EXCEPT !.pc = "ttl"], b)
      BY <1>1 DEF Ahead, Locals
    <3>3. \/ GoTo(w, RatePoint(at[w], at[w].i + 1))
          \/ GoTo(w, [at[w] EXCEPT !.pc = "expire"])
          \/ GoTo(w, [at[w] EXCEPT !.pc = "ttl"])
      BY <2>2 DEF Incr, Expire, RateError
    <3>4. QED
      BY <3>1, <3>2, <3>3
  <2>3. QED
    BY <2>1, <2>2
<1>5. \A v \in Workers : v # w => client'[v] = client[v]
  BY <1>1 DEF Start, Incr, Expire, RateError, AdmissionInv, TypeOK
<1>6. Unbilled(b)' \subseteq Unbilled(b)
  BY <1>1, <1>4, <1>5, MoverAhead
<1>7. Covered(b)
  BY DEF BudgetInv
<1>8. QED
  BY <1>1, <1>2, <1>3, <1>6, <1>7, FewerCovered

LEMMA CheckCovered ==
  ASSUME BudgetInv, AdmissionInv', NEW b \in TokenBuckets, NEW w \in Workers, CheckTokens(w)
  PROVE  Covered(b)'
<1> DEFINE c == TokenBucketOf(at[w])
           p == TokenPoint(at[w], at[w].i, at[w].j + 1)
<1>1. at[w] \in Locals /\ WellPlaced(at[w]) /\ AdmissionInv /\ at[w].pc = "get"
  BY DEF BudgetInv, AdmissionInv, TypeOK, CheckTokens
<1>2. count' = count /\ faults' = faults /\ client' = client /\ Covered(b)
  BY DEF CheckTokens, redis, BudgetInv
<1>3. faults \in Nat /\ count[b] \in Nat /\ Limit[b] \in Nat
  BY BoundsAssumption, LimitAssumption DEF BudgetInv, AdmissionInv, TypeOK
<1>4. CASE Unbilled(b)' \subseteq Unbilled(b)
  BY <1>1, <1>2, <1>3, <1>4, FewerCovered
<1>5. CASE ~(Unbilled(b)' \subseteq Unbilled(b))
  <2>1. ~OverBudget(c, at[w].est) /\ GoTo(w, p)
    <3>1. CASE GoTo(w, [at[w] EXCEPT !.pc = "tokenttl"])
      <4>1. Ahead([at[w] EXCEPT !.pc = "tokenttl"], b) => Ahead(at[w], b)
        BY <1>1 DEF Ahead, Locals
      <4>2. [at[w] EXCEPT !.pc = "tokenttl"].pc = "tokenttl"
        BY <1>1 DEF Locals
      <4>3. Unbilled(b)' \subseteq Unbilled(b)
        BY <1>1, <1>2, <3>1, <4>1, <4>2, MoverAhead DEF Unbilled
      <4>4. QED
        BY <1>5, <4>3
    <3>2. QED
      BY <3>1 DEF CheckTokens
  <2>2. Ahead(p, b) /\ w \notin Unbilled(b)
    BY <1>1, <1>2, <1>5, <2>1, MoverAhead
  <2>3. c = b
    <3>1. ~Ahead(at[w], b)
      BY <1>1, <2>2 DEF Unbilled
    <3>2. QED
      BY <1>1, <2>2, <3>1, TokenPointAhead
  <2>4. count[b] <= Limit[b]
    BY <1>1, <1>3, <2>1, <2>3, BoundsAssumption DEF Locals
  <2>5. QED
    BY <1>1, <1>2, <2>4, CheckedCovered
<1>6. QED
  BY <1>4, <1>5

LEMMA TokenErrorCovered ==
  ASSUME BudgetInv, NEW b \in TokenBuckets, NEW w \in Workers, TokenError(w)
  PROVE  Covered(b)'
<1>1. AdmissionInv /\ Covered(b)
  BY DEF BudgetInv
<1>2. count' = count /\ faults' = faults + 1 /\ client' = client
  BY DEF TokenError, Fault, redis
<1>3. \A v \in Workers : v # w => at'[v] = at[v]
  BY <1>1 DEF TokenError, GoTo, AdmissionInv, TypeOK
<1>4. Unbilled(b)' \subseteq Unbilled(b) \union {w}
  <2> SUFFICES ASSUME NEW v \in Unbilled(b)', v # w PROVE v \in Unbilled(b)
    OBVIOUS
  <2>1. v \in Workers /\ Ahead(at'[v], b) /\ (at'[v].pc = "upstream" => client'[v] # "disabled")
    BY DEF Unbilled, Ahead
  <2>2. QED
    BY <1>2, <1>3, <2>1 DEF Unbilled
<1>5. QED
  BY <1>1, <1>2, <1>4, FaultCovered

\* A request that ends, or is answered, leaves the counters as they are.
LEMMA EndCovered ==
  ASSUME BudgetInv, AdmissionInv', NEW b \in TokenBuckets, NEW w \in Workers,
         \/ RejectRate(w) \/ RejectTokens(w) \/ Undelivered(w) \/ Crash(w)
         \/ \E u \in 0..MaxUsed : Deliver(w, u)
  PROVE  Covered(b)'
<1>1. at[w] \in Locals /\ WellPlaced(at[w]) /\ AdmissionInv /\ Covered(b)
      /\ faults \in Nat /\ count[b] \in Nat
  BY BoundsAssumption DEF BudgetInv, AdmissionInv, TypeOK
<1>2. count' = count /\ faults <= faults' /\ \A v \in Workers : v # w => client'[v] = client[v]
  <2>1. CASE RejectRate(w) \/ RejectTokens(w) \/ Undelivered(w) \/ Crash(w)
    BY <1>1, <2>1 DEF RejectRate, RejectTokens, Undelivered, Crash, Fault, redis, AdmissionInv, TypeOK
  <2>2. CASE \E u \in 0..MaxUsed : Deliver(w, u)
    BY <1>1, <2>2 DEF Deliver, redis
  <2>3. QED
    BY <2>1, <2>2
<1>3. ~Ahead(Idle, b)
  BY DEF Ahead, Idle
<1>4. PICK p : GoTo(w, p) /\ (Ahead(p, b) => w \in Unbilled(b))
  <2>1. CASE RejectRate(w) \/ RejectTokens(w) \/ Undelivered(w) \/ Crash(w)
    BY <1>3, <2>1 DEF RejectRate, RejectTokens, Undelivered, Crash
  <2>2. CASE \E u \in 0..MaxUsed : Deliver(w, u)
    <3>1. PICK u \in 0..MaxUsed : Deliver(w, u)
      BY <2>2
    <3> DEFINE r == [at[w] EXCEPT !.used = u]
    <3>2. r \in Locals /\ r.kind = at[w].kind
      BY <1>1 DEF Locals
    <3>3. CASE GoTo(w, Idle)
      BY <1>3, <3>3
    <3>4. CASE client[w] # "disabled" /\ GoTo(w, ChargePoint(r, 1))
      <4>1. Ahead(ChargePoint(r, 1), b) => Ahead(at[w], b)
        <5>1. Ahead(ChargePoint(r, 1), b) =>
                 \E t \in DOMAIN Scopes[r.kind] : b \in RangeOf(Scopes[r.kind][t])
          <6> HIDE DEF r
          <6>1. 1 \in Nat \ {0}
            OBVIOUS
          <6>2. QED
            BY <3>2, <6>1, ChargePointAhead
        <5>2. at[w].pc = "upstream"
          BY <3>1 DEF Deliver
        <5>3. QED
          BY <3>2, <5>1, <5>2 DEF Ahead
      <4>2. QED
        BY <3>4, <4>1 DEF Unbilled
    <3>5. QED
      BY <3>1, <3>3, <3>4 DEF Deliver
  <2>3. QED
    BY <2>1, <2>2
<1>5. Unbilled(b)' \subseteq Unbilled(b)
  BY <1>1, <1>2, <1>4, MoverAhead
<1>6. QED
  BY <1>1, <1>2, <1>5, FewerCovered

\* Billing: a request bills a counter once, since the counters of a key and
\* of its tenant differ.
LEMMA ChargeCovered ==
  ASSUME BudgetInv, AdmissionInv', NEW b \in TokenBuckets, NEW w \in Workers,
         Charge(w) \/ ChargeExpire(w) \/ ChargeError(w)
  PROVE  Covered(b)'
<1> DEFINE r == at[w]
           S == Scopes[r.kind]
           q == ChargePoint(r, r.i + 1)
<1>1. r \in Locals /\ WellPlaced(r) /\ AdmissionInv /\ Covered(b)
      /\ faults \in Nat /\ count[b] \in Nat /\ r.used \in 0..MaxUsed /\ r.kind \in Kinds
  BY BoundsAssumption DEF BudgetInv, AdmissionInv, TypeOK, Locals
<1>2. r.pc \in {"charge", "chargeexpire"} /\ client' = client /\ faults <= faults'
  BY <1>1 DEF Charge, ChargeExpire, ChargeError, Fault
<1>3. S \in Seq(Seq(TokenBuckets)) /\ r.i \in DOMAIN S /\ r.i \in Nat /\ r.i + 1 \in Nat \ {0}
  BY <1>1, <1>2, ScopesAssumption DEF WellPlaced, Locals
<1>4. PICK p : /\ GoTo(w, p)
               /\ Ahead(p, b) => \E t \in DOMAIN S : r.i < t /\ b \in RangeOf(S[t])
  <2>1. Ahead(q, b) => \E t \in DOMAIN S : r.i < t /\ b \in RangeOf(S[t])
    <3> SUFFICES ASSUME Ahead(q, b) PROVE \E t \in DOMAIN S : r.i < t /\ b \in RangeOf(S[t])
      OBVIOUS
    <3>1. PICK t \in DOMAIN S : r.i + 1 <= t /\ b \in RangeOf(S[t])
      BY <1>1, <1>3, ChargePointAhead
    <3>2. t \in Nat
      BY <1>3
    <3>3. r.i < t
      BY <1>3, <3>1, <3>2
    <3>4. QED
      BY <3>1, <3>3
  <2>2. Ahead([r EXCEPT !.pc = "chargeexpire"], b)
           => \E t \in DOMAIN S : r.i < t /\ b \in RangeOf(S[t])
    BY <1>1 DEF Ahead, Locals
  <2>3. GoTo(w, q) \/ GoTo(w, [r EXCEPT !.pc = "chargeexpire"])
    BY DEF Charge, ChargeExpire, ChargeError
  <2>4. QED
    BY <2>1, <2>2, <2>3
<1>5. Ahead(p, b) => w \in Unbilled(b)
  <2> SUFFICES ASSUME Ahead(p, b) PROVE w \in Unbilled(b)
    OBVIOUS
  <2>1. PICK t \in DOMAIN S : r.i < t /\ b \in RangeOf(S[t])
    BY <1>4
  <2>2. r.i <= t
    BY <1>3, <2>1
  <2>3. QED
    BY <1>2, <2>1, <2>2 DEF Ahead, Unbilled
<1>6. Unbilled(b)' \subseteq Unbilled(b)
  BY <1>1, <1>2, <1>4, <1>5, MoverAhead
<1>7. CASE count'[b] = count[b]
  BY <1>1, <1>2, <1>6, <1>7, FewerCovered
<1>8. CASE count'[b] # count[b]
  <2>1. r.pc = "charge" /\ b \in ScopeOf(r) /\ count'[b] = count[b] + r.used
    BY <1>1, <1>8 DEF Charge, ChargeExpire, ChargeError, ApplyCharge
  <2>2. w \in Unbilled(b)
    BY <1>3, <2>1 DEF Unbilled, Ahead, ScopeOf
  <2>3. ~Ahead(p, b)
    <3> SUFFICES ASSUME NEW t \in DOMAIN S, r.i < t, b \in RangeOf(S[t]) PROVE FALSE
      BY <1>4
    <3>1. b \in RangeOf(S[r.i]) /\ r.i # t
      BY <1>3, <2>1 DEF ScopeOf
    <3>2. RangeOf(S[r.i]) \intersect RangeOf(S[t]) = {}
      BY <1>1, <1>3, <3>1, ScopesDisjoint
    <3>3. QED
      BY <3>1, <3>2
  <2>4. w \notin Unbilled(b)'
    <3>1. at'[w] = p
      BY <1>1, <1>4 DEF GoTo, AdmissionInv, TypeOK
    <3>2. QED
      BY <2>3, <3>1 DEF Unbilled, Ahead
  <2>5. count'[b] <= count[b] + MaxUsed
    BY <1>1, <2>1, BoundsAssumption
  <2>6. QED
    BY <1>1, <1>2, <1>6, <2>2, <2>4, <2>5, BilledCovered
<1>9. QED
  BY <1>7, <1>8

LEMMA TickCovered ==
  ASSUME BudgetInv, AdmissionInv', NEW b \in TokenBuckets, Tick \/ UNCHANGED vars
  PROVE  Covered(b)'
<1>1. AdmissionInv /\ Covered(b) /\ count[b] \in Nat /\ faults \in Nat
  BY BoundsAssumption DEF BudgetInv, AdmissionInv, TypeOK
<1>2. at' = at /\ client' = client /\ faults' = faults /\ (count'[b] = 0 \/ count'[b] = count[b])
  BY DEF Tick, vars
<1>3. Unbilled(b)' \subseteq Unbilled(b)
  BY <1>2 DEF Unbilled, Ahead
<1>4. QED
  BY <1>1, <1>2, <1>3, FewerCovered

\* What is billed and what may still be billed stays within the budget and
\* the overshoot: inductive over every action.
THEOREM BudgetInvHolds == Spec => []BudgetInv
<1>1. Init => BudgetInv
  <2> SUFFICES ASSUME Init, NEW b \in TokenBuckets PROVE Covered(b)
    BY AdmissionInit DEF BudgetInv
  <2>1. Unbilled(b) = {}
    BY IdleOK DEF Init, Unbilled, Ahead
  <2>2. Cardinality(Unbilled(b)) = 0
    BY <2>1, FS_EmptySet, Zenon
  <2>3. Cardinality(Workers) \in Nat
    BY WorkersFinite, FS_CardinalityType
  <2>4. count[b] = 0 /\ faults = 0 /\ Limit[b] \in Nat
    BY LimitAssumption DEF Init
  <2>5. (Cardinality(Workers) + 0) * MaxUsed \in Nat /\ 0 * MaxUsed = 0
    BY <2>3, BoundsAssumption, ProductMonotone
  <2>6. QED
    BY <2>2, <2>4, <2>5 DEF Covered
<1>2. BudgetInv /\ AdmissionInv' /\ [Next]_vars => BudgetInv'
  <2> SUFFICES ASSUME BudgetInv, AdmissionInv', [Next]_vars, NEW b \in TokenBuckets
               PROVE  Covered(b)'
    BY DEF BudgetInv
  <2>1. ASSUME NEW w \in Workers, Serve(w) PROVE Covered(b)'
    BY <2>1, RateCovered, CheckCovered, EndCovered, ChargeCovered DEF Serve
  <2>2. ASSUME NEW w \in Workers, Fail(w) PROVE Covered(b)'
    BY <2>2, RateCovered, TokenErrorCovered, EndCovered, ChargeCovered DEF Fail
  <2>3. ASSUME NEW w \in Workers, NEW k \in Kinds, NEW e \in Estimates, Start(w, k, e)
        PROVE  Covered(b)'
    BY <2>3, RateCovered
  <2>4. QED
    BY <2>1, <2>2, <2>3, TickCovered DEF Next
<1>3. QED
  BY <1>1, <1>2, AdmissionInvHolds, PTL DEF Spec

\* Whatever the number of workers, a token budget is overshot by no more than
\* one answer for each of them and one for each check that a Redis error
\* skipped (check_ai_token_limits, increment_ai_token_usage).
THEOREM BudgetOvershootHolds == Spec => []BudgetOvershoot
<1>1. BudgetInv => BudgetOvershoot
  <2> SUFFICES ASSUME BudgetInv, NEW b \in TokenBuckets
               PROVE  count[b] <= Limit[b] + (Cardinality(Workers) + faults) * MaxUsed
    BY DEF BudgetOvershoot
  <2>1. Covered(b) /\ count[b] \in Nat /\ faults \in Nat /\ Limit[b] \in Nat
    BY BoundsAssumption, LimitAssumption DEF BudgetInv, AdmissionInv, TypeOK
  <2>2. Cardinality(Unbilled(b)) * MaxUsed \in Nat
    BY UnbilledFinite, ProductMonotone
  <2>3. Cardinality(Workers) \in Nat
    BY WorkersFinite, FS_CardinalityType
  <2>4. (Cardinality(Workers) + faults) * MaxUsed \in Nat
    BY <2>1, <2>3, ProductMonotone, Cardinality(Workers) + faults \in Nat
  <2>5. QED
    BY <2>1, <2>2, <2>4 DEF Covered
<1>2. QED
  BY BudgetInvHolds, <1>1, PTL
=============================================================================
