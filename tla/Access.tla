------------------------------- MODULE Access -------------------------------
(***************************************************************************)
(* Who may use the gateway, and under which rules: requests for access and *)
(* their approval (backend/app/api/v1/agentic.py, agentic_service.py), the *)
(* client API keys an approval provisions, the policy bundles the keys are *)
(* bound to and the tenant's default bundle (api/v1/access.py,             *)
(* policy_bundle_service.py).                                              *)
(*                                                                         *)
(* An administrator's request is one database session at READ COMMITTED:   *)
(* it reads a row, and later writes the columns it changed of that row, by *)
(* primary key.  Nothing is locked between the two.  One tenant.           *)
(***************************************************************************)
EXTENDS Naturals, FiniteSets

CONSTANTS
    Admins,         \* sessions of administrators
    Requests,       \* access requests
    AccessRequests, \* those with action "mcp_access_request"; others provision nothing
    Bundles,        \* policy bundles, existing or to be created
    Named,          \* Named[q]: the bundle request q asks for, or NoBundle
    NoBundle,
    Initial         \* the bundles that exist at the start, with one default

ASSUME SetsAssumption ==
    /\ IsFiniteSet(Admins) /\ IsFiniteSet(Requests) /\ IsFiniteSet(Bundles)
    /\ Admins \cap Requests = {}
    /\ AccessRequests \subseteq Requests
    /\ NoBundle \notin Bundles
    /\ Named \in [Requests -> Bundles \cup {NoBundle}]
    /\ Initial \subseteq Bundles /\ Initial # {}

VARIABLES
    req,            \* req[q]: "none" or the committed status of request q
    wanted,         \* wanted[q]: its requested_bundle_id
    key,            \* key[q][a]: the key a provisioned for q, or NoKey
    bundle,         \* bundle[b]: "unborn", "active", "disabled" or "deleted"
    isDefault,      \* the bundles with is_default
    session,        \* session[a]: what a has read and means to do
    granted,        \* history: the keys ever provisioned for q
    overlapped      \* history: the requests and the sessions that met another's

vars == <<req, wanted, key, bundle, isDefault, session, granted, overlapped>>
bundles == <<bundle, isDefault>>
decisions == <<req, wanted, key, granted>>

NoKey == [kind |-> "no key"]
Idle == [pc |-> "idle"]
Exists(b) == bundle[b] \in {"active", "disabled"}
Existing == {b \in Bundles : Exists(b)}

Init ==
    /\ req = [q \in Requests |-> "none"]
    /\ wanted = [q \in Requests |-> NoBundle]
    /\ key = [q \in Requests |-> [a \in Admins |-> NoKey]]
    /\ bundle = [b \in Bundles |-> IF b \in Initial THEN "active" ELSE "unborn"]
    /\ isDefault \in {{b} : b \in Initial}
    /\ session = [a \in Admins |-> Idle]
    /\ granted = [q \in Requests |-> 0]
    /\ overlapped = {}

----------------------------------------------------------------------------
(* Requests and their decision.                                             *)

\* The portal or an event asks; the named bundle has to exist.
Ask(q) ==
    /\ req[q] = "none"
    /\ Named[q] # NoBundle => Exists(Named[q])
    /\ req' = [req EXCEPT ![q] = "pending"]
    /\ wanted' = [wanted EXCEPT ![q] = Named[q]]
    /\ UNCHANGED <<key, granted, bundles, session, overlapped>>

Deciding(a, q) == session[a].pc \in {"loaded", "decided", "granting"} /\ session[a].q = q
Others(a, q) == {c \in Admins \ {a} : Deciding(c, q)}

\* _load_approval: 404, 409, or the row.  (For mutation: without the 409.)
LoadWhen(a, q, decision, Status) ==
    /\ session[a].pc = "idle"
    /\ req[q] \in Status
    /\ session' = [session EXCEPT ![a] =
                     [pc |-> "loaded", q |-> q, decision |-> decision, bundle |-> wanted[q]]]
    /\ overlapped' = IF Others(a, q) # {} THEN overlapped \cup {q} ELSE overlapped
    /\ UNCHANGED <<decisions, bundles>>
LoadAny(a, q, decision) == LoadWhen(a, q, decision, {"pending", "approved", "rejected"})
Load(a, q, decision) == LoadWhen(a, q, decision, {"pending"})

\* decide_approval: the status is written and its row locked until the commit.
Decide(a) ==
    /\ session[a].pc = "loaded"
    /\ \A c \in Others(a, session[a].q) : session[c].pc = "loaded"
    /\ session' = [session EXCEPT ![a].pc = "decided"]
    /\ UNCHANGED <<decisions, bundles, overlapped>>

\* get_tenant_default_bundle.
ActiveDefaults == {b \in isDefault : bundle[b] = "active"}

Grants(a) == session[a].decision = "approved" /\ session[a].q \in AccessRequests

\* The bundle of the new key: as requested when the request was read, else the
\* default.  (For mutation: always the default.)
DefaultBundle(a) ==
    IF ActiveDefaults = {} THEN NoBundle ELSE CHOOSE b \in ActiveDefaults : TRUE
BundleFor(a) ==
    IF session[a].bundle # NoBundle THEN session[a].bundle ELSE DefaultBundle(a)

ChooseBundle(a) ==
    /\ session[a].pc = "decided" /\ Grants(a)
    /\ session[a].bundle = NoBundle => Cardinality(ActiveDefaults) <= 1
    /\ session' = [session EXCEPT ![a].pc = "granting", ![a].bundle = BundleFor(a)]
    /\ UNCHANGED <<decisions, bundles, overlapped>>

\* The commit of an approval with its key; the key's bundle must exist.
Approve(a) ==
    /\ session[a].pc = "granting"
    /\ session[a].bundle # NoBundle => Exists(session[a].bundle)
    /\ LET q == session[a].q
       IN  /\ req' = [req EXCEPT ![q] = "approved"]
           /\ key' = [key EXCEPT ![q][a] = [kind |-> "key", bundle |-> session[a].bundle]]
           /\ granted' = [granted EXCEPT ![q] = @ + 1]
    /\ session' = [session EXCEPT ![a] = Idle]
    /\ UNCHANGED <<wanted, bundles, overlapped>>

\* ... of a decision without one.  (For mutation: and before the key.)
CommitWhen(a, ready) ==
    /\ session[a].pc = "decided" /\ ready
    /\ req' = [req EXCEPT ![session[a].q] = session[a].decision]
    /\ session' = [session EXCEPT ![a] = Idle]
    /\ UNCHANGED <<wanted, key, granted, bundles, overlapped>>
CommitEarly(a) == CommitWhen(a, TRUE)
CommitDecision(a) == CommitWhen(a, ~Grants(a))

----------------------------------------------------------------------------
(* Bundles and keys.                                                        *)

\* create_policy_bundle and update_policy_bundle with is_default.  The other
\* defaults are read; only what differs from what was read is written.  (For
\* mutation: the others are not cleared.)
OthersKept(b) == {}
OtherDefaults(b) == isDefault \ {b}

BeginSave(a, b, default) ==
    /\ session[a].pc = "idle"
    /\ Exists(b) \/ (bundle[b] = "unborn" /\ default)
    /\ session' = [session EXCEPT ![a] =
                     [pc |-> "saving", b |-> b, default |-> default,
                      new |-> bundle[b] = "unborn",
                      clear |-> IF default THEN OtherDefaults(b) ELSE {},
                      changed |-> (b \in isDefault) # default]]
    /\ overlapped' = LET also == {c \in Admins \ {a} : session[c].pc = "saving"}
                     IN  IF also = {} THEN overlapped \ {a} ELSE overlapped \cup also \cup {a}
    /\ UNCHANGED <<decisions, bundles>>

\* An UPDATE that meets no row raises; a new bundle is another's no longer.
Written(a) == session[a].clear \cup (IF session[a].changed /\ ~session[a].new THEN {session[a].b} ELSE {})

CommitSave(a) ==
    /\ session[a].pc = "saving"
    /\ \A b \in Written(a) : Exists(b)
    /\ session[a].new => bundle[session[a].b] = "unborn"
    /\ LET b == session[a].b
           own == IF ~session[a].changed THEN isDefault \cap {b}
                  ELSE IF session[a].default THEN {b} ELSE {}
       IN  /\ isDefault' = ((isDefault \ session[a].clear) \ {b}) \cup own
           /\ bundle' = IF session[a].new THEN [bundle EXCEPT ![b] = "active"] ELSE bundle
    /\ session' = [session EXCEPT ![a] = Idle]
    /\ UNCHANGED <<decisions, overlapped>>

\* update_policy_bundle with a status.
SetStatus(b) ==
    /\ Exists(b)
    /\ bundle' = [bundle EXCEPT ![b] = IF @ = "active" THEN "disabled" ELSE "active"]
    /\ UNCHANGED <<decisions, isDefault, session, overlapped>>

Keys == {k \in Requests \X Admins : key[k[1]][k[2]] # NoKey}

\* delete_policy_bundle: refused while a key refers to the bundle; requests that
\* do, unless a decision holds them locked, lose it (ON DELETE SET NULL).
DeleteBundle(b) ==
    /\ Exists(b)
    /\ \A k \in Keys : key[k[1]][k[2]].bundle # b
    /\ \A a \in Admins : session[a].pc \in {"decided", "granting"} => wanted[session[a].q] # b
    /\ bundle' = [bundle EXCEPT ![b] = "deleted"]
    /\ isDefault' = isDefault \ {b}
    /\ wanted' = [q \in Requests |-> IF wanted[q] = b THEN NoBundle ELSE wanted[q]]
    /\ UNCHANGED <<req, key, granted, session, overlapped>>

\* delete_client_api_key.
DeleteKey(q, a) ==
    /\ key[q][a] # NoKey
    /\ key' = [key EXCEPT ![q][a] = NoKey]
    /\ UNCHANGED <<req, wanted, granted, bundles, session, overlapped>>

\* Any session may end in an error (two defaults, a bundle or row that is gone,
\* the connection, the process) and is rolled back.
Abort(a) ==
    /\ session[a].pc # "idle"
    /\ session' = [session EXCEPT ![a] = Idle]
    /\ UNCHANGED <<decisions, bundles, overlapped>>

----------------------------------------------------------------------------
Next ==
    \/ \E q \in Requests : Ask(q)
    \/ \E a \in Admins, q \in Requests, d \in {"approved", "rejected"} : Load(a, q, d)
    \/ \E a \in Admins : \/ Decide(a) \/ ChooseBundle(a) \/ Approve(a) \/ CommitDecision(a)
                         \/ CommitSave(a) \/ Abort(a)
    \/ \E a \in Admins, b \in Bundles, d \in BOOLEAN : BeginSave(a, b, d)
    \/ \E b \in Bundles : SetStatus(b) \/ DeleteBundle(b)
    \/ \E q \in Requests, a \in Admins : DeleteKey(q, a)

Spec == Init /\ [][Next]_vars

----------------------------------------------------------------------------
(* Properties.                                                              *)

Sessions ==
    {Idle}
    \cup [pc : {"loaded", "decided", "granting"}, q : Requests,
          decision : {"approved", "rejected"}, bundle : Bundles \cup {NoBundle}]
    \cup [pc : {"saving"}, b : Bundles, default : BOOLEAN, new : BOOLEAN,
          clear : SUBSET Bundles, changed : BOOLEAN]

\* Type correctness, with the references the database keeps: what a key or a
\* pending request names exists.
TypeOK ==
    /\ req \in [Requests -> {"none", "pending", "approved", "rejected"}]
    /\ \A q \in Requests : wanted[q] \in Existing \cup {NoBundle}
    /\ \A q \in Requests, a \in Admins :
          key[q][a] = NoKey \/ key[q][a] \in [kind : {"key"}, bundle : Existing \cup {NoBundle}]
    /\ bundle \in [Bundles -> {"unborn", "active", "disabled", "deleted"}]
    /\ isDefault \subseteq Existing
    /\ session \in [Admins -> Sessions]
    /\ granted \in [Requests -> Nat]
    /\ overlapped \subseteq Requests \cup Admins

\* A request that was not decided by two at once has one key if it is approved
\* and none if it is not: later decisions and the deletion of bundles and keys
\* do not change that.
OneDecisionOneKey ==
    \A q \in AccessRequests \ overlapped :
        granted[q] = IF req[q] = "approved" THEN 1 ELSE 0

\* Even when administrators decide at once, who is told "approved" got a key, and
\* there are no more keys than administrators.
ApprovedHasKey ==
    \A q \in AccessRequests :
        /\ req[q] = "approved" => granted[q] >= 1
        /\ granted[q] <= Cardinality(Admins)

\* A key is bound to the bundle its request named; to the default only if none
\* was named or the named one is gone.
KeyConfined ==
    \A q \in Requests, a \in Admins :
        key[q][a] # NoKey /\ Named[q] # NoBundle /\ key[q][a].bundle # Named[q]
            => bundle[Named[q]] = "deleted"

\* Saving a bundle as the default, with no other save at the same time, leaves
\* it, unless it was deleted, the only default: it also repairs what overlapping saves left.
LoneSaveIsOnlyDefault ==
    [][\A a \in Admins :
         (CommitSave(a) /\ session[a].default /\ a \notin overlapped /\ session[a].b \in Existing')
             => isDefault' = {session[a].b}]_vars

\* Type correctness and the two promises of a decision together.
AccessInv == TypeOK /\ OneDecisionOneKey /\ ApprovedHasKey
=============================================================================
