---------------------------- MODULE AccessProofs ----------------------------
(***************************************************************************)
(* Theorems about Access, for any administrators, requests and bundles.    *)
(***************************************************************************)
EXTENDS Access, FiniteSetTheorems, TLAPS

DecisionPCs == {"loaded", "decided", "granting"}

DecisionSession ==
    [pc : DecisionPCs, q : Requests, decision : {"approved", "rejected"},
     bundle : Bundles \cup {NoBundle}]

SaveSession ==
    [pc : {"saving"}, b : Bundles, default : BOOLEAN, new : BOOLEAN,
     clear : SUBSET Bundles, changed : BOOLEAN]

KeyRecord == [kind : {"key"}, bundle : Bundles \cup {NoBundle}]

\* TypeOK, with the domains of the functions it speaks of.
Typed ==
    /\ TypeOK
    /\ wanted \in [Requests -> Bundles \cup {NoBundle}]
    /\ key \in [Requests -> [Admins -> KeyRecord \cup {NoKey}]]

\* What a session may be, by its program counter.
LEMMA SessionCases ==
  ASSUME Typed, NEW a \in Admins
  PROVE  /\ session[a].pc = "idle" => session[a] = Idle
         /\ session[a].pc \in DecisionPCs => session[a] \in DecisionSession
         /\ session[a].pc = "saving" => session[a] \in SaveSession
         /\ session[a].pc \in {"idle", "saving"} \cup DecisionPCs
<1>1. session[a] \in {Idle} \cup DecisionSession \cup SaveSession
  BY DEF Typed, TypeOK, Sessions, DecisionSession, SaveSession, DecisionPCs
<1>2. CASE session[a] = Idle
  BY <1>2 DEF Idle, DecisionPCs
<1>3. CASE session[a] \in DecisionSession
  BY <1>3 DEF DecisionSession, DecisionPCs
<1>4. CASE session[a] \in SaveSession
  BY <1>4 DEF SaveSession, DecisionPCs
<1>5. QED
  BY <1>1, <1>2, <1>3, <1>4

LEMMA SessionTypes ==
  /\ Idle \in Sessions /\ DecisionSession \subseteq Sessions /\ SaveSession \subseteq Sessions
  /\ Idle.pc = "idle"
BY DEF Sessions, DecisionSession, SaveSession, DecisionPCs, Idle

LEMMA NotAKey == NoKey \notin KeyRecord
BY DEF NoKey, KeyRecord

\* A step of a session that touches nothing the database keeps.
LEMMA SessionStepTyped ==
  ASSUME Typed, NEW a \in Admins, NEW s \in Sessions, session' = [session EXCEPT ![a] = s],
         overlapped' \subseteq Requests \cup Admins, UNCHANGED <<decisions, bundles>>
  PROVE  Typed'
BY DEF Typed, TypeOK, decisions, bundles, Existing, Exists

LEMMA TypedInit == Init => Typed
<1> SUFFICES ASSUME Init PROVE Typed
  OBVIOUS
<1>1. \A b \in Initial : b \in Existing
  BY SetsAssumption DEF Init, Existing, Exists
<1>2. isDefault \subseteq Existing
  BY <1>1 DEF Init
<1>3. bundle \in [Bundles -> {"unborn", "active", "disabled", "deleted"}]
  BY DEF Init
<1>4. session \in [Admins -> Sessions]
  BY SessionTypes DEF Init
<1>5. QED
  BY <1>2, <1>3, <1>4 DEF Init, Typed, TypeOK

LEMMA TypedStep == Typed /\ [Next]_vars => Typed'
<1> SUFFICES ASSUME Typed, [Next]_vars PROVE Typed'
  OBVIOUS
<1>1. ASSUME NEW q \in Requests, Ask(q) PROVE Typed'
  <2>1. Named[q] \in Existing \cup {NoBundle}
    BY <1>1, SetsAssumption DEF Ask, Existing
  <2>2. Existing' = Existing /\ Existing \subseteq Bundles
    BY <1>1 DEF Ask, Existing, Exists, bundles
  <2>3. QED
    BY <1>1, <2>1, <2>2 DEF Ask, Typed, TypeOK, bundles
<1>2. ASSUME NEW a \in Admins, NEW q \in Requests, NEW d \in {"approved", "rejected"}, Load(a, q, d)
      PROVE  Typed'
  <2>1. [pc |-> "loaded", q |-> q, decision |-> d, bundle |-> wanted[q]] \in Sessions
    <3>1. [pc |-> "loaded", q |-> q, decision |-> d, bundle |-> wanted[q]] \in DecisionSession
      BY <1>2 DEF DecisionSession, DecisionPCs, Typed
    <3>2. QED
      BY <3>1, SessionTypes
  <2>2. overlapped' \subseteq Requests \cup Admins
    BY <1>2 DEF Load, LoadWhen, Typed, TypeOK
  <2>3. QED
    BY <1>2, <2>1, <2>2, SessionStepTyped DEF Load, LoadWhen
<1>3. ASSUME NEW a \in Admins, Decide(a) PROVE Typed'
  <2>1. [session[a] EXCEPT !.pc = "decided"] \in DecisionSession
    BY <1>3, SessionCases DEF Decide, DecisionSession, DecisionPCs
  <2>2. QED
    BY <1>3, <2>1, SessionTypes, SessionStepTyped DEF Decide, Typed, TypeOK
<1>4. ASSUME NEW a \in Admins, ChooseBundle(a) PROVE Typed'
  <2>1. session[a] \in DecisionSession
    BY <1>4, SessionCases DEF ChooseBundle, DecisionPCs
  <2>2. BundleFor(a) \in Bundles \cup {NoBundle}
    <3>1. ActiveDefaults \subseteq Bundles
      BY DEF ActiveDefaults, Typed, TypeOK, Existing
    <3>2. DefaultBundle(a) \in Bundles \cup {NoBundle}
      BY <3>1 DEF DefaultBundle
    <3>3. QED
      BY <2>1, <3>2 DEF BundleFor, DecisionSession
  <2>3. [session[a] EXCEPT !.pc = "granting", !.bundle = BundleFor(a)] \in DecisionSession
    BY <2>1, <2>2 DEF DecisionSession, DecisionPCs
  <2>4. session' = [session EXCEPT ![a] = [session[a] EXCEPT !.pc = "granting", !.bundle = BundleFor(a)]]
    BY <1>4 DEF ChooseBundle, Typed, TypeOK
  <2>5. [session[a] EXCEPT !.pc = "granting", !.bundle = BundleFor(a)] \in Sessions
    BY <2>3, SessionTypes
  <2>6. QED
    BY <1>4, <2>4, <2>5, SessionStepTyped DEF ChooseBundle, Typed, TypeOK
<1>5. ASSUME NEW a \in Admins, Approve(a) PROVE Typed'
  <2>1. session[a] \in DecisionSession
    BY <1>5, SessionCases DEF Approve, DecisionPCs
  <2>2. [kind |-> "key", bundle |-> session[a].bundle] \in [kind : {"key"}, bundle : Existing \cup {NoBundle}]
    BY <1>5, <2>1 DEF Approve, DecisionSession, Existing
  <2>3. Existing' = Existing /\ Existing \subseteq Bundles
    BY <1>5 DEF Approve, Existing, Exists, bundles
  <2>4. session[a].q \in Requests
    BY <2>1 DEF DecisionSession
  <2>5. session' \in [Admins -> Sessions]
    BY <1>5, SessionTypes DEF Approve, Typed, TypeOK
  <2>6. key' \in [Requests -> [Admins -> KeyRecord \cup {NoKey}]]
    BY <1>5, <2>2, <2>3, <2>4 DEF Approve, Typed, KeyRecord
  <2>7. \A q \in Requests, c \in Admins :
          key'[q][c] = NoKey \/ key'[q][c] \in [kind : {"key"}, bundle : Existing' \cup {NoBundle}]
    BY <1>5, <2>2, <2>3, <2>4 DEF Approve, Typed, TypeOK
  <2>8. QED
    BY <1>5, <2>3, <2>4, <2>5, <2>6, <2>7 DEF Approve, Typed, TypeOK, bundles
<1>6. ASSUME NEW a \in Admins, CommitDecision(a) PROVE Typed'
  <2>1. session[a].q \in Requests /\ session[a].decision \in {"approved", "rejected"}
    BY <1>6, SessionCases DEF CommitDecision, CommitWhen, DecisionPCs, DecisionSession
  <2>2. Existing' = Existing
    BY <1>6 DEF CommitDecision, CommitWhen, Existing, Exists, bundles
  <2>3. QED
    BY <1>6, <2>1, <2>2, SessionTypes DEF CommitDecision, CommitWhen, Typed, TypeOK, bundles
<1>7. ASSUME NEW a \in Admins, NEW b \in Bundles, NEW d \in BOOLEAN, BeginSave(a, b, d) PROVE Typed'
  <2> DEFINE s == [pc |-> "saving", b |-> b, default |-> d, new |-> bundle[b] = "unborn",
                   clear |-> IF d THEN OtherDefaults(b) ELSE {},
                   changed |-> (b \in isDefault) # d]
  <2>1. OtherDefaults(b) \subseteq Bundles
    BY DEF OtherDefaults, Typed, TypeOK, Existing
  <2>2. s \in SaveSession
    BY <2>1 DEF SaveSession
  <2>3. session' = [session EXCEPT ![a] = s]
    BY <1>7 DEF BeginSave
  <2>4. overlapped' \subseteq Requests \cup Admins
    BY <1>7 DEF BeginSave, Typed, TypeOK
  <2>5. s \in Sessions /\ UNCHANGED <<decisions, bundles>>
    BY <1>7, <2>2, SessionTypes DEF BeginSave
  <2> HIDE DEF s
  <2>6. QED
    BY <2>3, <2>4, <2>5, SessionStepTyped
<1>8. ASSUME NEW a \in Admins, CommitSave(a) PROVE Typed'
  <2> DEFINE s == session[a]
             b == s.b
             own == IF ~s.changed THEN isDefault \cap {b} ELSE IF s.default THEN {b} ELSE {}
  <2>1. s \in SaveSession
    BY <1>8, SessionCases DEF CommitSave
  <2>2. b \in Bundles /\ s.changed \in BOOLEAN /\ s.new \in BOOLEAN /\ s.clear \subseteq Bundles
    BY <2>1 DEF SaveSession
  <2>3. bundle' = IF s.new THEN [bundle EXCEPT ![b] = "active"] ELSE bundle
    BY <1>8 DEF CommitSave
  <2>4. isDefault' = ((isDefault \ s.clear) \ {b}) \cup own
    BY <1>8 DEF CommitSave
  <2>5. bundle' \in [Bundles -> {"unborn", "active", "disabled", "deleted"}]
    BY <2>2, <2>3 DEF Typed, TypeOK
  <2>6. Existing \subseteq Existing'
    BY <2>2, <2>3 DEF Existing, Exists, Typed, TypeOK
  <2>7. isDefault' \subseteq Existing'
    <3>1. CASE ~s.changed
      BY <2>4, <2>6, <3>1 DEF Typed, TypeOK
    <3>2. CASE s.changed
      <4>1. b \in Existing'
        BY <1>8, <2>2, <2>3, <3>2 DEF CommitSave, Written, Existing, Exists, Typed, TypeOK
      <4>2. QED
        BY <2>4, <2>6, <4>1 DEF Typed, TypeOK
    <3>3. QED
      BY <2>2, <3>1, <3>2
  <2>8. session' \in [Admins -> Sessions]
    BY <1>8, SessionTypes DEF CommitSave, Typed, TypeOK
  <2>9. QED
    BY <1>8, <2>5, <2>6, <2>7, <2>8 DEF CommitSave, Typed, TypeOK, decisions
<1>9. ASSUME NEW b \in Bundles, SetStatus(b) PROVE Typed'
  <2>1. bundle' \in [Bundles -> {"unborn", "active", "disabled", "deleted"}] /\ Existing' = Existing
    BY <1>9 DEF SetStatus, Existing, Exists, Typed, TypeOK
  <2>2. QED
    BY <1>9, <2>1 DEF SetStatus, Typed, TypeOK, decisions
<1>10. ASSUME NEW b \in Bundles, DeleteBundle(b) PROVE Typed'
  <2>1. bundle' \in [Bundles -> {"unborn", "active", "disabled", "deleted"}] /\ Existing' = Existing \ {b}
    BY <1>10 DEF DeleteBundle, Existing, Exists, Typed, TypeOK
  <2>2. isDefault' \subseteq Existing'
    BY <1>10, <2>1 DEF DeleteBundle, Typed, TypeOK
  <2>3. /\ wanted' \in [Requests -> Bundles \cup {NoBundle}]
        /\ \A q \in Requests : wanted'[q] \in Existing' \cup {NoBundle}
    BY <1>10, <2>1 DEF DeleteBundle, Typed, TypeOK
  <2>4. \A q \in Requests, a \in Admins :
          key'[q][a] = NoKey \/ key'[q][a] \in [kind : {"key"}, bundle : Existing' \cup {NoBundle}]
    <3> SUFFICES ASSUME NEW q \in Requests, NEW a \in Admins, key[q][a] # NoKey
                 PROVE  key[q][a] \in [kind : {"key"}, bundle : Existing' \cup {NoBundle}]
      BY <1>10 DEF DeleteBundle
    <3>1. <<q, a>> \in Keys
      BY DEF Keys
    <3>2. key[q][a].bundle # b
      BY <1>10, <3>1 DEF DeleteBundle
    <3>3. QED
      BY <2>1, <3>2 DEF Typed, TypeOK
  <2>5. QED
    BY <1>10, <2>1, <2>2, <2>3, <2>4 DEF DeleteBundle, Typed, TypeOK
<1>11. ASSUME NEW q \in Requests, NEW a \in Admins, DeleteKey(q, a) PROVE Typed'
  <2>1. Existing' = Existing
    BY <1>11 DEF DeleteKey, Existing, Exists, bundles
  <2>2. QED
    BY <1>11, <2>1 DEF DeleteKey, Typed, TypeOK, bundles
<1>12. ASSUME NEW a \in Admins, Abort(a) PROVE Typed'
  BY <1>12, SessionTypes, SessionStepTyped DEF Abort, Typed, TypeOK
<1>13. CASE UNCHANGED vars
  BY <1>13 DEF vars, Typed, TypeOK, Existing, Exists
<1>14. QED
  BY <1>1, <1>2, <1>3, <1>4, <1>5, <1>6, <1>7, <1>8, <1>9, <1>10, <1>11, <1>12, <1>13 DEF Next

-----------------------------------------------------------------------------
(* Decisions and keys.                                                     *)

Deciders(q) == {a \in Admins : Deciding(a, q)}
Saving(a) == session[a].pc = "saving"

\* A decision in progress is about a request that was made, and it is approved
\* with a key only if the request is one for access.
DecisionOK(a) ==
    /\ session[a].pc \in DecisionPCs => req[session[a].q] # "none"
    /\ session[a].pc = "granting" => Grants(a)

\* What request q holds of keys: nothing before it is decided; then no more
\* than those who decide it together; and if nobody decided at the same time as
\* another, the one who decides finds it pending.
KeysCounted(q) ==
    /\ req[q] \in {"none", "pending"} => granted[q] = 0
    /\ granted[q] + Cardinality(Deciders(q)) <= Cardinality(Admins)
    /\ q \in AccessRequests /\ req[q] = "approved" => granted[q] >= 1
    /\ q \notin overlapped =>
          /\ \A a, c \in Deciders(q) : a = c
          /\ Deciders(q) # {} => req[q] = "pending"
          /\ q \in AccessRequests => granted[q] = IF req[q] = "approved" THEN 1 ELSE 0

DecisionInv ==
    /\ Typed
    /\ \A a \in Admins : DecisionOK(a)
    /\ \A q \in Requests : KeysCounted(q)

\* Where a bundle other than the named one is on its way to a key, the named
\* one has been deleted.
StandsFor(b, q) == Named[q] # NoBundle /\ b # Named[q] => bundle[Named[q]] = "deleted"

ConfinedInv ==
    /\ DecisionInv
    /\ \A q \in Requests : req[q] # "none" => StandsFor(wanted[q], q)
    /\ \A a \in Admins :
          session[a].pc \in DecisionPCs =>
              StandsFor(session[a].bundle, session[a].q)
    /\ \A q \in Requests, a \in Admins : key[q][a] # NoKey => StandsFor(key[q][a].bundle, q)

\* A save that met no other is alone; the defaults it did not plan to clear are
\* its own bundle, and that is a default, to be made one, or gone.
SaveOK(a) ==
    Saving(a) /\ a \notin overlapped =>
        /\ \A c \in Admins : Saving(c) => c = a
        /\ session[a].default =>
              /\ isDefault \subseteq session[a].clear \cup {session[a].b}
              /\ ~session[a].changed =>
                    session[a].b \in isDefault \/ bundle[session[a].b] = "deleted"

SaveInv == Typed /\ \A a \in Admins : SaveOK(a)

\* The parts of a decision that its session keeps from step to step.
LEMMA DecidingCases ==
  ASSUME Typed, NEW a \in Admins, NEW q
  PROVE  /\ Deciding(a, q) <=> session[a].pc \in DecisionPCs /\ session[a].q = q
         /\ a \in Deciders(q) <=> Deciding(a, q)
         /\ Others(a, q) = Deciders(q) \ {a}
BY DEF Deciding, Deciders, Others, DecisionPCs

LEMMA DecidersFinite ==
  ASSUME NEW q
  PROVE  /\ IsFiniteSet(Deciders(q))
         /\ Cardinality(Deciders(q)) \in Nat
         /\ Cardinality(Deciders(q)) <= Cardinality(Admins)
         /\ Cardinality(Admins) \in Nat
<1>1. Deciders(q) \subseteq Admins
  BY DEF Deciders
<1>2. QED
  BY <1>1, SetsAssumption, FS_Subset, FS_CardinalityType

\* A step after which no more administrators decide q, and nothing else about
\* q has changed.
LEMMA FewerDeciders ==
  ASSUME Typed, NEW q \in Requests, KeysCounted(q), Deciders(q)' \subseteq Deciders(q),
         granted'[q] = granted[q], req'[q] = req[q], q \notin overlapped' => q \notin overlapped
  PROVE  KeysCounted(q)'
<1>1. /\ Cardinality(Deciders(q)') <= Cardinality(Deciders(q))
      /\ Cardinality(Deciders(q)') \in Nat /\ Cardinality(Deciders(q)) \in Nat
      /\ Cardinality(Admins) \in Nat
  BY DecidersFinite, FS_Subset, FS_CardinalityType
<1>2. granted[q] \in Nat
  BY DEF Typed, TypeOK
<1>3. granted'[q] + Cardinality(Deciders(q)') <= Cardinality(Admins)
  BY <1>1, <1>2 DEF KeysCounted
<1>4. QED
  BY <1>3 DEF KeysCounted

\* The administrator who commits is one of those who decide, and leaves them.
LEMMA OneDeciderLess ==
  ASSUME Typed, NEW a \in Admins, NEW q \in Requests, Deciding(a, q),
         session' = [session EXCEPT ![a] = Idle]
  PROVE  /\ Deciders(q)' = Deciders(q) \ {a}
         /\ Cardinality(Deciders(q)') = Cardinality(Deciders(q)) - 1
         /\ \A r \in Requests : r # q => Deciders(r)' = Deciders(r)
<1>1. \A c \in Admins : session'[c] = IF c = a THEN Idle ELSE session[c]
  BY DEF Typed, TypeOK
<1>2. Deciders(q)' = Deciders(q) \ {a} /\ a \in Deciders(q)
  BY <1>1, SessionTypes DEF Deciders, Deciding, DecisionPCs, Idle
<1>3. \A r \in Requests : r # q => Deciders(r)' = Deciders(r)
  BY <1>1, SessionTypes DEF Deciders, Deciding, DecisionPCs, Idle
<1>4. Cardinality(Deciders(q) \ {a}) = Cardinality(Deciders(q)) - 1
  BY <1>2, DecidersFinite, FS_RemoveElement
<1>5. QED
  BY <1>2, <1>3, <1>4, Zenon

LEMMA DecisionInit == Init => DecisionInv
<1> SUFFICES ASSUME Init PROVE DecisionInv
  OBVIOUS
<1>1. \A a \in Admins : session[a] = Idle /\ session[a].pc = "idle"
  BY SessionTypes DEF Init
<1>2. ASSUME NEW q \in Requests PROVE KeysCounted(q)
  <2>1. Deciders(q) = {}
    BY <1>1 DEF Deciders, Deciding
  <2>2. Cardinality(Deciders(q)) = 0
    BY <2>1, FS_EmptySet, Zenon
  <2>3. req[q] = "none" /\ granted[q] = 0
    BY DEF Init
  <2>4. QED
    BY <2>1, <2>2, <2>3, DecidersFinite DEF KeysCounted
<1>3. \A a \in Admins : DecisionOK(a)
  BY <1>1 DEF DecisionOK, DecisionPCs
<1>4. QED
  BY <1>2, <1>3, TypedInit DEF DecisionInv

\* The steps of a session that change no request.
LEMMA QuietDecision ==
  ASSUME DecisionInv, NEW a \in Admins, NEW s, session' = [session EXCEPT ![a] = s],
         s.pc \in DecisionPCs => s.pc = "decided" \/ s.pc = "granting",
         s.pc \in DecisionPCs =>
             /\ session[a].pc \in DecisionPCs
             /\ s.q = session[a].q /\ s.decision = session[a].decision,
         s.pc = "granting" => Grants(a),
         UNCHANGED <<req, granted>>, overlapped \cap Requests \subseteq overlapped'
  PROVE  /\ \A c \in Admins : DecisionOK(c)'
         /\ \A q \in Requests : KeysCounted(q)'
<1>1. \A c \in Admins : session'[c] = IF c = a THEN s ELSE session[c]
  BY DEF DecisionInv, Typed, TypeOK
<1>2. \A q \in Requests : Deciders(q)' \subseteq Deciders(q)
  BY <1>1 DEF Deciders, Deciding, DecisionPCs
<1>3. ASSUME NEW c \in Admins PROVE DecisionOK(c)'
  <2>1. CASE c = a
    BY <1>1, <2>1 DEF DecisionInv, DecisionOK, DecisionPCs, Grants
  <2>2. CASE c # a
    BY <1>1, <2>2 DEF DecisionInv, DecisionOK, DecisionPCs, Grants
  <2>3. QED
    BY <2>1, <2>2
<1>4. ASSUME NEW q \in Requests PROVE KeysCounted(q)'
  <2>1. q \notin overlapped' => q \notin overlapped
    OBVIOUS
  <2>2. Deciders(q)' \subseteq Deciders(q) /\ granted'[q] = granted[q] /\ req'[q] = req[q]
    BY <1>2
  <2>3. Typed /\ KeysCounted(q)
    BY DEF DecisionInv
  <2>4. QED
    BY <2>1, <2>2, <2>3, FewerDeciders
<1>5. QED
  BY <1>3, <1>4

\* A request is taken up while it is pending, and who finds another at it is
\* counted as overlapping.
LEMMA LoadDecision ==
  ASSUME DecisionInv, NEW a \in Admins, NEW q \in Requests, NEW d, Load(a, q, d)
  PROVE  /\ \A c \in Admins : DecisionOK(c)'
         /\ \A r \in Requests : KeysCounted(r)'
<1>1. /\ session[a].pc = "idle" /\ req[q] = "pending" /\ UNCHANGED <<req, granted>>
      /\ overlapped' = IF Others(a, q) # {} THEN overlapped \cup {q} ELSE overlapped
  BY DEF Load, LoadWhen, decisions
<1>2. \A c \in Admins : session'[c] = IF c = a
        THEN [pc |-> "loaded", q |-> q, decision |-> d, bundle |-> wanted[q]] ELSE session[c]
  BY DEF Load, LoadWhen, DecisionInv, Typed, TypeOK
<1>3. ASSUME NEW c \in Admins PROVE DecisionOK(c)'
  <2>1. CASE c = a
    BY <1>1, <1>2, <2>1 DEF DecisionOK, DecisionPCs
  <2>2. CASE c # a
    BY <1>1, <1>2, <2>2 DEF DecisionInv, DecisionOK, DecisionPCs, Grants
  <2>3. QED
    BY <2>1, <2>2
<1>4. ASSUME NEW r \in Requests, r # q PROVE KeysCounted(r)'
  <2>1. Deciders(r)' = Deciders(r)
    BY <1>1, <1>2, <1>4 DEF Deciders, Deciding
  <2>2. Typed /\ KeysCounted(r) /\ (r \notin overlapped' => r \notin overlapped)
    BY <1>1 DEF DecisionInv
  <2>3. Deciders(r)' \subseteq Deciders(r)
    BY <2>1
  <2>4. granted'[r] = granted[r] /\ req'[r] = req[r]
    BY <1>1
  <2>5. QED
    BY <2>2, <2>3, <2>4, FewerDeciders
<1>5. KeysCounted(q)'
  <2>1. Deciders(q)' = Deciders(q) \cup {a} /\ a \notin Deciders(q)
    BY <1>1, <1>2 DEF Deciders, Deciding, DecisionPCs
  <2>2. granted[q] = 0 /\ KeysCounted(q)
    BY <1>1 DEF DecisionInv, KeysCounted
  <2>3. Cardinality(Deciders(q)') <= Cardinality(Admins) /\ Cardinality(Deciders(q)') \in Nat
    <3>1. Deciders(q)' \subseteq Admins
      BY DEF Deciders
    <3>2. QED
      BY <3>1, SetsAssumption, FS_Subset, FS_CardinalityType
  <2>4. q \notin overlapped' => Deciders(q) = {} /\ q \notin overlapped
    <3>1. Others(a, q) = Deciders(q) \ {a}
      BY DecidingCases DEF DecisionInv
    <3>2. QED
      BY <1>1, <2>1, <3>1
  <2>5. q \notin overlapped' => \A c, e \in Deciders(q)' : c = e
    BY <2>1, <2>4
  <2>6. granted'[q] = 0 /\ req'[q] = "pending"
    BY <1>1, <2>2
  <2>7. QED
    BY <2>3, <2>5, <2>6 DEF KeysCounted
<1>6. QED
  BY <1>3, <1>4, <1>5

LEMMA AskDecision ==
  ASSUME DecisionInv, NEW q \in Requests, Ask(q)
  PROVE  /\ \A c \in Admins : DecisionOK(c)'
         /\ \A r \in Requests : KeysCounted(r)'
<1>1. UNCHANGED <<session, granted, overlapped>> /\ req[q] = "none"
      /\ \A r \in Requests : req'[r] = IF r = q THEN "pending" ELSE req[r]
  BY DEF Ask, DecisionInv, Typed, TypeOK
<1>2. \A r \in Requests : Deciders(r)' = Deciders(r)
  BY <1>1 DEF Deciders, Deciding
<1>3. ASSUME NEW c \in Admins PROVE DecisionOK(c)'
  <2>1. session[c].pc \in DecisionPCs => session[c].q \in Requests
    BY SessionCases DEF DecisionInv, DecisionSession
  <2>2. QED
    BY <1>1, <2>1 DEF DecisionInv, DecisionOK, Grants, DecisionPCs
<1>4. ASSUME NEW r \in Requests PROVE KeysCounted(r)'
  <2>1. CASE r # q
    <3>1. Typed /\ KeysCounted(r) /\ Deciders(r)' \subseteq Deciders(r)
      BY <1>2 DEF DecisionInv
    <3>2. QED
      BY <1>1, <2>1, <3>1, FewerDeciders
  <2>2. CASE r = q
    <3>1. KeysCounted(q)
      BY DEF DecisionInv
    <3>2. req'[q] = "pending" /\ granted'[q] = granted[q] /\ granted[q] = 0
      BY <1>1, <3>1 DEF KeysCounted
    <3>3. Cardinality(Deciders(q)') = Cardinality(Deciders(q))
      BY <1>2, Zenon
    <3>4. granted'[q] + Cardinality(Deciders(q)') <= Cardinality(Admins)
      BY <3>1, <3>2, <3>3 DEF KeysCounted
    <3>5. Deciders(q)' = Deciders(q)
      BY <1>2
    <3>6. QED
      BY <1>1, <2>2, <3>1, <3>2, <3>4, <3>5 DEF KeysCounted
  <2>3. QED
    BY <2>1, <2>2
<1>5. QED
  BY <1>3, <1>4

\* The commit of a decision: one decider less, and a key more if it is an
\* approval of an access request.
LEMMA CommitsDecision ==
  ASSUME DecisionInv, NEW a \in Admins, Approve(a) \/ CommitDecision(a)
  PROVE  /\ \A c \in Admins : DecisionOK(c)'
         /\ \A r \in Requests : KeysCounted(r)'
<1>0. /\ session[a].pc \in DecisionPCs /\ session[a].q \in Requests
      /\ session[a].decision \in {"approved", "rejected"}
  BY SessionCases DEF Approve, CommitDecision, CommitWhen, DecisionPCs, DecisionInv,
                      DecisionSession
<1>q. PICK q \in Requests : q = session[a].q
  BY <1>0
<1>1. /\ session[a].pc \in DecisionPCs /\ q = session[a].q /\ Deciding(a, q)
      /\ session[a].decision \in {"approved", "rejected"}
  BY <1>0, <1>q DEF DecisionPCs, Deciding
<1>2. session' = [session EXCEPT ![a] = Idle] /\ overlapped' = overlapped
  BY DEF Approve, CommitDecision, CommitWhen
<1>3. Typed /\ KeysCounted(q) /\ DecisionOK(a)
  BY <1>1 DEF DecisionInv
<1>4. /\ Deciders(q)' = Deciders(q) \ {a} /\ a \in Deciders(q)
      /\ Cardinality(Deciders(q)') = Cardinality(Deciders(q)) - 1
      /\ \A r \in Requests : r # q => Deciders(r)' = Deciders(r)
  <2>1. a \in Deciders(q)
    BY <1>1, <1>3, DecidingCases
  <2>2. QED
    BY <1>1, <1>2, <1>3, <2>1, OneDeciderLess
<1>5. \A r \in Requests : r # q => req'[r] = req[r] /\ granted'[r] = granted[r]
  BY <1>1, <1>3 DEF Approve, CommitDecision, CommitWhen, Typed, TypeOK
<1>6. req'[q] \in {"approved", "rejected"} /\ granted[q] \in Nat
      /\ (granted'[q] = granted[q] \/ granted'[q] = granted[q] + 1)
  BY <1>1, <1>3 DEF Approve, CommitDecision, CommitWhen, Typed, TypeOK
<1>7. q \in AccessRequests => \/ req'[q] = "approved" /\ granted'[q] = granted[q] + 1
                              \/ req'[q] = "rejected" /\ granted'[q] = granted[q]
  BY <1>1, <1>3 DEF Approve, CommitDecision, CommitWhen, Grants, DecisionOK, Typed, TypeOK
<1>8. ASSUME NEW c \in Admins PROVE DecisionOK(c)'
  <2>1. session'[c] = IF c = a THEN Idle ELSE session[c]
    BY <1>2, <1>3 DEF Typed, TypeOK
  <2>2. \A r \in Requests : req[r] # "none" => req'[r] # "none"
    BY <1>5, <1>6
  <2>3. session[c].pc \in DecisionPCs => session[c].q \in Requests
    BY <1>3, SessionCases DEF DecisionSession
  <2>4. QED
    BY <2>1, <2>2, <2>3, SessionTypes DEF DecisionInv, DecisionOK, Grants, DecisionPCs
<1>9. ASSUME NEW r \in Requests, r # q PROVE KeysCounted(r)'
  <2>1. Deciders(r)' \subseteq Deciders(r) /\ KeysCounted(r)
    BY <1>4, <1>9 DEF DecisionInv
  <2>2. QED
    BY <1>2, <1>3, <1>5, <1>9, <2>1, FewerDeciders
<1>10. KeysCounted(q)'
  <2>1. granted'[q] + Cardinality(Deciders(q)') <= Cardinality(Admins)
    BY <1>3, <1>4, <1>6, DecidersFinite DEF KeysCounted
  <2>2. q \in AccessRequests /\ req'[q] = "approved" => granted'[q] >= 1
    BY <1>6, <1>7
  <2>3. q \notin overlapped => Deciders(q)' = {} /\ req[q] = "pending" /\ granted[q] = 0
    BY <1>3, <1>4 DEF KeysCounted
  <2>4. q \notin overlapped /\ q \in AccessRequests =>
            granted'[q] = IF req'[q] = "approved" THEN 1 ELSE 0
    BY <1>7, <2>3
  <2>5. QED
    BY <1>2, <1>6, <2>1, <2>2, <2>3, <2>4 DEF KeysCounted
<1>11. QED
  BY <1>8, <1>9, <1>10

\* A step that touches no session, no decision and no key that was granted.
LEMMA ElsewhereDecision ==
  ASSUME DecisionInv, UNCHANGED <<req, granted, session, overlapped>>
  PROVE  /\ \A c \in Admins : DecisionOK(c)'
         /\ \A r \in Requests : KeysCounted(r)'
<1>1. \A r \in Requests : Deciders(r)' = Deciders(r)
  BY DEF Deciders, Deciding
<1>2. ASSUME NEW r \in Requests PROVE KeysCounted(r)'
  <2>1. Deciders(r)' \subseteq Deciders(r) /\ KeysCounted(r) /\ Typed
    BY <1>1 DEF DecisionInv
  <2>2. QED
    BY <2>1, FewerDeciders
<1>3. QED
  BY <1>2 DEF DecisionInv, DecisionOK, Grants

LEMMA DecisionStep == DecisionInv /\ [Next]_vars => DecisionInv'
<1> DEFINE Kept == (\A c \in Admins : DecisionOK(c)') /\ (\A r \in Requests : KeysCounted(r)')
<1> SUFFICES ASSUME DecisionInv, [Next]_vars PROVE Kept
  BY TypedStep DEF DecisionInv
<1>1. ASSUME NEW a \in Admins, Decide(a) PROVE Kept
  <2>1. session[a] \in DecisionSession /\ session[a].pc = "loaded"
    BY <1>1, SessionCases DEF Decide, DecisionInv, DecisionPCs
  <2> DEFINE s == [session[a] EXCEPT !.pc = "decided"]
  <2>2. s.pc = "decided" /\ s.q = session[a].q /\ s.decision = session[a].decision
        /\ session[a].pc \in DecisionPCs
    BY <2>1 DEF DecisionSession, DecisionPCs
  <2>3. session' = [session EXCEPT ![a] = s]
    BY <1>1 DEF Decide, DecisionInv, Typed, TypeOK
  <2>4. UNCHANGED <<req, granted, overlapped>>
    BY <1>1 DEF Decide, decisions
  <2> HIDE DEF s
  <2>5. QED
    BY <2>2, <2>3, <2>4, QuietDecision
<1>2. ASSUME NEW a \in Admins, ChooseBundle(a) PROVE Kept
  <2>1. session[a] \in DecisionSession /\ session[a].pc = "decided" /\ Grants(a)
    BY <1>2, SessionCases DEF ChooseBundle, DecisionInv, DecisionPCs
  <2> DEFINE s == [session[a] EXCEPT !.pc = "granting", !.bundle = BundleFor(a)]
  <2>2. s.pc = "granting" /\ s.q = session[a].q /\ s.decision = session[a].decision
        /\ session[a].pc \in DecisionPCs
    BY <2>1 DEF DecisionSession, DecisionPCs
  <2>3. session' = [session EXCEPT ![a] = s]
    BY <1>2 DEF ChooseBundle, DecisionInv, Typed, TypeOK
  <2>4. UNCHANGED <<req, granted, overlapped>>
    BY <1>2 DEF ChooseBundle, decisions
  <2> HIDE DEF s
  <2>5. QED
    BY <2>1, <2>2, <2>3, <2>4, QuietDecision
<1>3. ASSUME NEW a \in Admins, CommitSave(a) \/ Abort(a) PROVE Kept
  <2>1. session' = [session EXCEPT ![a] = Idle] /\ UNCHANGED <<req, granted, overlapped>>
    BY <1>3 DEF CommitSave, Abort, decisions
  <2>2. Idle.pc \notin DecisionPCs
    BY DEF Idle, DecisionPCs
  <2>3. QED
    BY <2>1, <2>2, QuietDecision DEF DecisionPCs
<1>4. ASSUME NEW a \in Admins, NEW b \in Bundles, NEW d \in BOOLEAN, BeginSave(a, b, d) PROVE Kept
  <2> DEFINE s == [pc |-> "saving", b |-> b, default |-> d, new |-> bundle[b] = "unborn",
                   clear |-> IF d THEN OtherDefaults(b) ELSE {},
                   changed |-> (b \in isDefault) # d]
  <2>1. session' = [session EXCEPT ![a] = s] /\ s.pc = "saving"
    BY <1>4 DEF BeginSave
  <2>2. UNCHANGED <<req, granted>> /\ overlapped \cap Requests \subseteq overlapped'
    BY <1>4, SetsAssumption DEF BeginSave, decisions
  <2> HIDE DEF s
  <2>3. QED
    BY <2>1, <2>2, QuietDecision DEF DecisionPCs
<1>5. ASSUME NEW b \in Bundles, SetStatus(b) \/ DeleteBundle(b) PROVE Kept
  <2>1. UNCHANGED <<req, granted, session, overlapped>>
    BY <1>5 DEF SetStatus, DeleteBundle, decisions
  <2>2. QED
    BY <2>1, ElsewhereDecision
<1>6. ASSUME NEW q \in Requests, NEW a \in Admins, DeleteKey(q, a) PROVE Kept
  <2>1. UNCHANGED <<req, granted, session, overlapped>>
    BY <1>6 DEF DeleteKey
  <2>2. QED
    BY <2>1, ElsewhereDecision
<1>7. CASE UNCHANGED vars
  <2>1. UNCHANGED <<req, granted, session, overlapped>>
    BY <1>7 DEF vars
  <2>2. QED
    BY <2>1, ElsewhereDecision
<1>8. QED
  BY <1>1, <1>2, <1>3, <1>4, <1>5, <1>6, <1>7, AskDecision, LoadDecision, CommitsDecision DEF Next

\* The invariant of decisions: inductive over every action.
THEOREM DecisionInvHolds == Spec => []DecisionInv
BY DecisionInit, DecisionStep, PTL DEF Spec

\* A request not decided by two at once has one key if it is approved and none
\* otherwise; whoever is told "approved" got a key, and there are never more
\* keys than administrators (_load_approval, decide_approval, approve_route).
THEOREM AccessInvHolds == Spec => []AccessInv
<1>1. DecisionInv => AccessInv
  <2> SUFFICES ASSUME DecisionInv PROVE OneDecisionOneKey /\ ApprovedHasKey
    BY DEF DecisionInv, Typed, AccessInv
  <2>1. ASSUME NEW q \in AccessRequests
        PROVE  KeysCounted(q) /\ granted[q] \in Nat /\ q \in Requests
    BY SetsAssumption DEF DecisionInv, Typed, TypeOK
  <2>2. OneDecisionOneKey
    BY <2>1 DEF KeysCounted, OneDecisionOneKey
  <2>3. ApprovedHasKey
    BY <2>1, DecidersFinite DEF KeysCounted, ApprovedHasKey
  <2>4. QED
    BY <2>2, <2>3
<1>2. QED
  BY DecisionInvHolds, <1>1, PTL

-----------------------------------------------------------------------------
(* The bundle of a key.                                                      *)

\* A bundle that is deleted stays so.
LEMMA DeletedStays ==
  ASSUME Typed, [Next]_vars, NEW b \in Bundles, bundle[b] = "deleted"
  PROVE  bundle'[b] = "deleted"
<1>1. ASSUME NEW a \in Admins, CommitSave(a) PROVE bundle'[b] = "deleted"
  <2>1. session[a].b \in Bundles
    BY <1>1, SessionCases DEF CommitSave, SaveSession
  <2>2. QED
    BY <1>1, <2>1 DEF CommitSave, Typed, TypeOK
<1>2. ASSUME NEW c \in Bundles, SetStatus(c) \/ DeleteBundle(c) PROVE bundle'[b] = "deleted"
  BY <1>2 DEF SetStatus, DeleteBundle, Exists, Typed, TypeOK
<1>3. CASE bundle' = bundle
  BY <1>3
<1>4. QED
  BY <1>1, <1>2, <1>3 DEF Next, vars, bundles, Ask, Load, LoadWhen, Decide, ChooseBundle, Approve,
     CommitDecision, CommitWhen, BeginSave, DeleteKey, Abort

LEMMA StandsForKept ==
  ASSUME Typed, [Next]_vars, NEW q \in Requests, NEW b, StandsFor(b, q)
  PROVE  StandsFor(b, q)'
<1>1. Named[q] # NoBundle => Named[q] \in Bundles
  BY SetsAssumption
<1>2. Named[q] # NoBundle /\ bundle[Named[q]] = "deleted" => bundle'[Named[q]] = "deleted"
  BY <1>1, DeletedStays
<1>3. QED
  BY <1>2 DEF StandsFor

\* The three places at which a bundle stands on its way to a key.
WantedOK(q) == req[q] # "none" => StandsFor(wanted[q], q)
SessionOK(a) ==
    session[a].pc \in DecisionPCs => StandsFor(session[a].bundle, session[a].q)
KeyOK(q, a) == key[q][a] # NoKey => StandsFor(key[q][a].bundle, q)

LEMMA ConfinedInit == Init => ConfinedInv
<1> SUFFICES ASSUME Init PROVE ConfinedInv
  OBVIOUS
<1>1. \A a \in Admins : session[a].pc = "idle"
  BY SessionTypes DEF Init
<1>2. QED
  BY <1>1, DecisionInit DEF Init, ConfinedInv, DecisionPCs

LEMMA WantedStep ==
  ASSUME ConfinedInv, [Next]_vars, NEW q \in Requests
  PROVE  WantedOK(q)'
<1>1. Typed /\ WantedOK(q)
  BY DEF ConfinedInv, DecisionInv, WantedOK
<1>2. CASE wanted'[q] = wanted[q] /\ (req'[q] # "none" => req[q] # "none")
  BY <1>1, <1>2, StandsForKept DEF WantedOK
<1>3. ASSUME NEW r \in Requests, Ask(r) PROVE WantedOK(q)'
  <2>1. CASE r = q
    BY <1>1, <1>3, <2>1 DEF Ask, WantedOK, StandsFor, Typed
  <2>2. CASE r # q
    <3>1. wanted'[q] = wanted[q] /\ req'[q] = req[q]
      BY <1>1, <1>3, <2>2 DEF Ask, Typed, TypeOK
    <3>2. QED
      BY <1>2, <3>1
  <2>3. QED
    BY <2>1, <2>2
<1>4. ASSUME NEW b \in Bundles, DeleteBundle(b) PROVE WantedOK(q)'
  <2>1. req' = req /\ wanted'[q] = IF wanted[q] = b THEN NoBundle ELSE wanted[q]
    BY <1>4 DEF DeleteBundle
  <2>2. CASE wanted[q] # b
    BY <1>2, <2>1, <2>2
  <2>3. CASE wanted[q] = b
    <3>1. bundle'[b] = "deleted"
      BY <1>1, <1>4 DEF DeleteBundle, Typed, TypeOK
    <3>2. req[q] # "none" => StandsFor(b, q)'
      BY <1>1, <2>3, StandsForKept DEF WantedOK
    <3>3. QED
      BY <2>1, <2>3, <3>1, <3>2 DEF WantedOK, StandsFor
  <2>4. QED
    BY <2>2, <2>3
<1>5. ASSUME NEW a \in Admins, Approve(a) \/ CommitDecision(a) PROVE WantedOK(q)'
  <2>1. session[a].pc \in DecisionPCs
    BY <1>5 DEF Approve, CommitDecision, CommitWhen, DecisionPCs
  <2>2. req[session[a].q] # "none"
    BY <2>1 DEF ConfinedInv, DecisionInv, DecisionOK
  <2>3. wanted' = wanted /\ (req'[q] = req[q] \/ q = session[a].q)
    BY <1>1, <1>5 DEF Approve, CommitDecision, CommitWhen, Typed, TypeOK
  <2>4. QED
    BY <1>2, <2>2, <2>3
<1>6. CASE UNCHANGED <<req, wanted>>
  BY <1>2, <1>6
<1>7. QED
  BY <1>3, <1>4, <1>5, <1>6 DEF Next, vars, decisions, Load, LoadWhen, Decide, ChooseBundle,
     CommitSave, BeginSave, SetStatus, DeleteKey, Abort

LEMMA SessionStep ==
  ASSUME ConfinedInv, [Next]_vars, NEW a \in Admins
  PROVE  SessionOK(a)'
<1>1. Typed /\ SessionOK(a)
  BY DEF ConfinedInv, DecisionInv, SessionOK
<1>2. session[a].pc \in DecisionPCs => session[a].q \in Requests
  BY <1>1, SessionCases DEF DecisionSession
<1>3. CASE session'[a] = session[a]
  BY <1>1, <1>2, <1>3, StandsForKept DEF SessionOK
<1>4. CASE session'[a].pc \notin DecisionPCs
  BY <1>4 DEF SessionOK
<1>5. ASSUME NEW q \in Requests, NEW d, Load(a, q, d) PROVE SessionOK(a)'
  <2>1. session'[a] = [pc |-> "loaded", q |-> q, decision |-> d, bundle |-> wanted[q]]
    BY <1>1, <1>5 DEF Load, LoadWhen, Typed, TypeOK
  <2>2. StandsFor(wanted[q], q)
    BY <1>5 DEF Load, LoadWhen, ConfinedInv
  <2>3. wanted' = wanted /\ bundle' = bundle
    BY <1>5 DEF Load, LoadWhen, decisions, bundles
  <2>4. QED
    BY <2>1, <2>2, <2>3 DEF SessionOK, StandsFor
<1>6. CASE Decide(a)
  <2>1. session[a].pc \in DecisionPCs /\ session[a] \in DecisionSession
    BY <1>1, <1>6, SessionCases DEF Decide, DecisionPCs
  <2>2. session'[a] = [session[a] EXCEPT !.pc = "decided"]
    BY <1>1, <1>6 DEF Decide, Typed, TypeOK
  <2>3. session'[a].q = session[a].q /\ session'[a].bundle = session[a].bundle
    BY <2>1, <2>2 DEF DecisionSession
  <2>4. StandsFor(session[a].bundle, session[a].q)'
    BY <1>6, <2>1, <2>3, <1>1 DEF Decide, SessionOK, StandsFor, bundles
  <2>5. QED
    BY <2>3, <2>4 DEF SessionOK, StandsFor
<1>7. CASE ChooseBundle(a)
  <2>1. session[a].pc \in DecisionPCs /\ session[a] \in DecisionSession
    BY <1>1, <1>7, SessionCases DEF ChooseBundle, DecisionPCs
  <2>2. session'[a] = [session[a] EXCEPT !.pc = "granting", !.bundle = BundleFor(a)]
    BY <1>1, <1>7 DEF ChooseBundle, Typed, TypeOK
  <2>3. session'[a].q = session[a].q /\ session'[a].bundle = BundleFor(a)
    BY <2>1, <2>2 DEF DecisionSession
  <2>4. StandsFor(BundleFor(a), session[a].q)
    BY <1>1, <2>1 DEF SessionOK, StandsFor, BundleFor
  <2>5. QED
    BY <1>7, <2>3, <2>4 DEF ChooseBundle, SessionOK, StandsFor, bundles
<1>8. ASSUME NEW c \in Admins,
             \/ \E q \in Requests, d \in {"approved", "rejected"} : Load(c, q, d)
             \/ Decide(c) \/ ChooseBundle(c) \/ Approve(c) \/ CommitDecision(c)
             \/ CommitSave(c) \/ Abort(c)
             \/ \E b \in Bundles, d \in BOOLEAN : BeginSave(c, b, d)
      PROVE  SessionOK(a)'
  <2>1. CASE c # a
    <3>1. session'[a] = session[a]
      BY <1>1, <1>8, <2>1 DEF Load, LoadWhen, Decide, ChooseBundle, Approve, CommitDecision, CommitWhen,
         CommitSave, Abort, BeginSave, Typed, TypeOK
    <3>2. QED
      BY <1>3, <3>1
  <2>2. CASE Approve(a) \/ CommitDecision(a) \/ CommitSave(a) \/ Abort(a)
    <3>1. session'[a] = Idle
      BY <1>1, <2>2 DEF Approve, CommitDecision, CommitWhen, CommitSave, Abort, Typed, TypeOK
    <3>2. QED
      BY <1>4, <3>1, SessionTypes DEF DecisionPCs
  <2>3. CASE \E b \in Bundles, d \in BOOLEAN : BeginSave(a, b, d)
    <3>1. session'[a].pc = "saving"
      BY <1>1, <2>3 DEF BeginSave, Typed, TypeOK
    <3>2. QED
      BY <1>4, <3>1 DEF DecisionPCs
  <2>4. QED
    BY <1>5, <1>6, <1>7, <1>8, <2>1, <2>2, <2>3
<1>9. CASE session' = session
  BY <1>3, <1>9
<1>10. QED
  BY <1>8, <1>9 DEF Next, vars, Ask, SetStatus, DeleteBundle, DeleteKey

LEMMA KeyStep ==
  ASSUME ConfinedInv, [Next]_vars, NEW q \in Requests, NEW a \in Admins
  PROVE  KeyOK(q, a)'
<1>1. Typed /\ KeyOK(q, a)
  BY DEF ConfinedInv, DecisionInv, KeyOK
<1>2. CASE key'[q][a] = key[q][a]
  BY <1>1, <1>2, StandsForKept DEF KeyOK
<1>3. ASSUME NEW c \in Admins, Approve(c) PROVE KeyOK(q, a)'
  <2>1. session[c].pc \in DecisionPCs /\ session[c] \in DecisionSession
    BY <1>1, <1>3, SessionCases DEF Approve, DecisionPCs
  <2>2. session[c].q \in Requests
    BY <2>1 DEF DecisionSession
  <2>3. CASE c = a /\ session[c].q = q
    <3>1. key'[q][a] = [kind |-> "key", bundle |-> session[a].bundle]
      BY <1>1, <1>3, <2>2, <2>3 DEF Approve, Typed
    <3>2. StandsFor(session[a].bundle, q)
      BY <2>1, <2>3 DEF ConfinedInv
    <3>3. QED
      BY <1>3, <3>1, <3>2 DEF Approve, KeyOK, StandsFor, bundles
  <2>4. CASE ~(c = a /\ session[c].q = q)
    BY <1>1, <1>2, <1>3, <2>2, <2>4 DEF Approve, Typed
  <2>5. QED
    BY <2>3, <2>4
<1>4. ASSUME NEW r \in Requests, NEW c \in Admins, DeleteKey(r, c) PROVE KeyOK(q, a)'
  <2>1. key'[q][a] = key[q][a] \/ key'[q][a] = NoKey
    BY <1>1, <1>4 DEF DeleteKey, Typed
  <2>2. QED
    BY <1>2, <2>1 DEF KeyOK
<1>5. CASE key' = key
  BY <1>2, <1>5
<1>6. QED
  BY <1>3, <1>4, <1>5 DEF Next, vars, decisions, Ask, Load, LoadWhen, Decide, ChooseBundle,
     CommitDecision, CommitWhen, CommitSave, BeginSave, SetStatus, DeleteBundle, Abort

\* The invariant of the bundles on their way to a key.
THEOREM ConfinedInvHolds == Spec => []ConfinedInv
<1>1. ConfinedInv /\ [Next]_vars => ConfinedInv'
  <2> SUFFICES ASSUME ConfinedInv, [Next]_vars PROVE ConfinedInv'
    OBVIOUS
  <2>1. DecisionInv'
    BY DecisionStep DEF ConfinedInv
  <2>2. QED
    BY <2>1, WantedStep, SessionStep, KeyStep DEF ConfinedInv, WantedOK, SessionOK, KeyOK
<1>2. QED
  BY ConfinedInit, <1>1, PTL DEF Spec

\* Deleting bundles, switching them off and changing the default while an
\* approval is under way never binds its key to a bundle other than the one
\* its request named, unless that one was deleted (approve_route,
\* delete_policy_bundle).
THEOREM KeyConfinedHolds == Spec => []KeyConfined
<1>1. ConfinedInv => KeyConfined
  BY DEF ConfinedInv, StandsFor, KeyConfined
<1>2. QED
  BY ConfinedInvHolds, <1>1, PTL

-----------------------------------------------------------------------------
(* The default bundle.                                                       *)

LEMMA SaveInit == Init => SaveInv
<1> SUFFICES ASSUME Init PROVE SaveInv
  OBVIOUS
<1>1. \A a \in Admins : session[a].pc = "idle"
  BY SessionTypes DEF Init
<1>2. QED
  BY <1>1, TypedInit DEF SaveInv, SaveOK, Saving

LEMMA SaveStep == SaveInv /\ [Next]_vars => SaveInv'
<1> SUFFICES ASSUME SaveInv, [Next]_vars, NEW a \in Admins, Saving(a)', a \notin overlapped'
             PROVE  SaveOK(a)'
  BY TypedStep DEF SaveInv, SaveOK
<1>1. Typed
  BY DEF SaveInv
<1>2. ASSUME NEW b \in Bundles, NEW d \in BOOLEAN, BeginSave(a, b, d) PROVE SaveOK(a)'
  <2> DEFINE s == [pc |-> "saving", b |-> b, default |-> d, new |-> bundle[b] = "unborn",
                   clear |-> IF d THEN OtherDefaults(b) ELSE {},
                   changed |-> (b \in isDefault) # d]
  <2>1. \A c \in Admins : session'[c] = IF c = a THEN s ELSE session[c]
    BY <1>1, <1>2 DEF BeginSave, Typed, TypeOK
  <2>2. \A c \in Admins \ {a} : session[c].pc # "saving"
    BY <1>2 DEF BeginSave
  <2>3. isDefault' = isDefault
    BY <1>2 DEF BeginSave, bundles
  <2>4. s.b = b /\ s.default = d /\ (d => s.clear = isDefault \ {b})
        /\ (d /\ ~s.changed => b \in isDefault)
    BY DEF OtherDefaults
  <2> HIDE DEF s
  <2>5. \A c \in Admins : Saving(c)' => c = a
    BY <2>1, <2>2 DEF Saving
  <2>6. QED
    BY <2>1, <2>3, <2>4, <2>5 DEF SaveOK
<1>3. ASSUME NEW c \in Admins, NEW b \in Bundles, NEW d \in BOOLEAN, BeginSave(c, b, d), c # a
      PROVE  SaveOK(a)'
  <2>1. session'[a] = session[a]
    BY <1>1, <1>3 DEF BeginSave, Typed, TypeOK
  <2>2. a \in {e \in Admins \ {c} : session[e].pc = "saving"}
    BY <1>3, <2>1 DEF Saving
  <2>3. a \in overlapped'
    BY <1>3, <2>2 DEF BeginSave
  <2>4. QED
    BY <2>3
<1>4. CASE /\ \A c \in Admins : Saving(c)' => Saving(c)
           /\ session'[a] = session[a] /\ (a \in overlapped => a \in overlapped')
           /\ isDefault' \subseteq isDefault
           /\ \A b \in isDefault : b \in isDefault' \/ bundle'[b] = "deleted"
  <2>1. Saving(a) /\ a \notin overlapped
    BY <1>4
  <2>2. SaveOK(a) /\ session[a].b \in Bundles
    BY <2>1, SessionCases DEF SaveInv, Saving, SaveSession
  <2>3. bundle[session[a].b] = "deleted" => bundle'[session[a].b] = "deleted"
    BY <1>1, <2>2, DeletedStays
  <2>4. QED
    BY <1>4, <2>1, <2>2, <2>3 DEF SaveOK
<1>5. ASSUME NEW c \in Admins, CommitSave(c) PROVE SaveOK(a)'
  <2>1. \A e \in Admins : session'[e] = IF e = c THEN Idle ELSE session[e]
    BY <1>1, <1>5 DEF CommitSave, Typed, TypeOK
  <2>2. c # a /\ Saving(a) /\ Saving(c) /\ a \notin overlapped
    BY <1>5, <2>1, SessionTypes DEF Saving, CommitSave
  <2>3. QED
    BY <2>2 DEF SaveInv, SaveOK
<1>6. ASSUME NEW c \in Admins,
             \/ \E q \in Requests, d \in {"approved", "rejected"} : Load(c, q, d)
             \/ Decide(c) \/ ChooseBundle(c) \/ Approve(c) \/ CommitDecision(c) \/ Abort(c)
      PROVE  SaveOK(a)'
  <2>1. \A e \in Admins : e # c => session'[e] = session[e]
    BY <1>1, <1>6 DEF Load, LoadWhen, Decide, ChooseBundle, Approve, CommitDecision, CommitWhen,
       Abort, Typed, TypeOK
  <2>2. session'[c].pc # "saving"
    <3>1. CASE Decide(c)
      <4>1. session[c] \in DecisionSession
        BY <1>1, <3>1, SessionCases DEF Decide, DecisionPCs
      <4>2. QED
        BY <1>1, <3>1, <4>1 DEF Decide, Typed, TypeOK, DecisionSession
    <3>2. CASE ChooseBundle(c)
      <4>1. session[c] \in DecisionSession
        BY <1>1, <3>2, SessionCases DEF ChooseBundle, DecisionPCs
      <4>2. QED
        BY <1>1, <3>2, <4>1 DEF ChooseBundle, Typed, TypeOK, DecisionSession
    <3>3. CASE \/ Approve(c) \/ CommitDecision(c) \/ Abort(c)
               \/ \E q \in Requests, d \in {"approved", "rejected"} : Load(c, q, d)
      BY <1>1, <3>3, SessionTypes
         DEF Approve, CommitDecision, CommitWhen, Abort, Load, LoadWhen, Typed, TypeOK
    <3>4. QED
      BY <1>6, <3>1, <3>2, <3>3
  <2>3. c # a /\ \A e \in Admins : Saving(e)' => Saving(e)
    BY <2>1, <2>2 DEF Saving
  <2>4. isDefault' = isDefault /\ overlapped \subseteq overlapped'
    BY <1>6 DEF Load, LoadWhen, Decide, ChooseBundle, Approve, CommitDecision, CommitWhen, Abort, bundles
  <2>5. QED
    BY <1>4, <2>1, <2>3, <2>4
<1>7. ASSUME NEW b \in Bundles, SetStatus(b) \/ DeleteBundle(b) PROVE SaveOK(a)'
  <2>1. session' = session /\ overlapped' = overlapped
    BY <1>7 DEF SetStatus, DeleteBundle
  <2>2. isDefault' \subseteq isDefault /\ \A c \in isDefault : c \in isDefault' \/ bundle'[c] = "deleted"
    BY <1>1, <1>7 DEF SetStatus, DeleteBundle, Typed, TypeOK
  <2>3. QED
    BY <1>4, <2>1, <2>2 DEF Saving
<1>8. CASE UNCHANGED <<session, isDefault, overlapped>>
  BY <1>4, <1>8 DEF Saving
<1>9. QED
  BY <1>2, <1>3, <1>5, <1>6, <1>7, <1>8 DEF Next, vars, bundles, Ask, DeleteKey

\* The invariant of saves.
THEOREM SaveInvHolds == Spec => []SaveInv
BY SaveInit, SaveStep, PTL DEF Spec

\* A save that met no other leaves its bundle the only default, whatever saves
\* that overlapped have left before it (create_policy_bundle,
\* update_policy_bundle).
THEOREM LoneSaveIsOnlyDefaultHolds == Spec => LoneSaveIsOnlyDefault
<1>1. SaveInv /\ [Next]_vars =>
        [\A a \in Admins :
           (CommitSave(a) /\ session[a].default /\ a \notin overlapped /\ session[a].b \in Existing')
               => isDefault' = {session[a].b}]_vars
  <2> SUFFICES ASSUME SaveInv, [Next]_vars, NEW a \in Admins, CommitSave(a), session[a].default,
                      a \notin overlapped, session[a].b \in Existing'
               PROVE  isDefault' = {session[a].b}
    OBVIOUS
  <2> DEFINE s == session[a]
  <2>1. s \in SaveSession /\ Saving(a) /\ SaveOK(a)
    BY SessionCases DEF SaveInv, CommitSave, Saving
  <2>2. isDefault \subseteq s.clear \cup {s.b}
    BY <2>1 DEF SaveOK
  <2>3. isDefault' = ((isDefault \ s.clear) \ {s.b})
                        \cup (IF ~s.changed THEN isDefault \cap {s.b} ELSE {s.b})
    BY DEF CommitSave
  <2>4. CASE s.changed
    BY <2>2, <2>3, <2>4
  <2>5. CASE ~s.changed
    <3>1. s.b \in Bundles /\ bundle'[s.b] # "deleted"
      BY DEF Existing, Exists
    <3>2. bundle[s.b] # "deleted"
      BY <3>1, DeletedStays DEF SaveInv
    <3>3. s.b \in isDefault
      BY <2>1, <2>5, <3>2 DEF SaveOK
    <3>4. QED
      BY <2>2, <2>3, <2>5, <3>3
  <2>6. QED
    BY <2>4, <2>5
<1>2. QED
  BY <1>1, SaveInvHolds, PTL DEF Spec, LoneSaveIsOnlyDefault

=============================================================================
