------------------------------ MODULE Guardian ------------------------------
(***************************************************************************)
(* The Guardian loop of backend/app/services/guardian_service.py with the  *)
(* routes of api/v1/agentic_security.py and the task of worker/tasks.py    *)
(* that start it, and the registration of agents (agentic_service.py).     *)
(*                                                                         *)
(* A run is one database session: it selects the open findings, adds a     *)
(* pending action for each that has none, selects what is pending and      *)
(* executes it.  What it flushed is seen by itself only, until it commits: *)
(* at its end, or earlier when an alert goes out through a connector.      *)
(* Runs overlap: the beat schedule, its retries, and the console start     *)
(* them in different processes.  One tenant is modelled, and one table of  *)
(* findings for the three that are read one after the other.               *)
(***************************************************************************)
EXTENDS Integers, FiniteSets

CONSTANTS
    Runners,        \* the sessions that may run at the same time
    Consoles,       \* those of the console's requests; the others are the schedule's
    Findings,       \* numbers, in the order the tables are read
    Agents,
    Severity,       \* Severity[f]: as the evaluation sees it
    AgentOf,        \* AgentOf[f]: the agent, or NoAgent
    NoAgent,
    MaxRows,        \* bound on the unfinished actions of a finding
    MaxAborts       \* bound on the deaths

ASSUME SetsAssumption ==
    /\ IsFiniteSet(Runners) /\ Consoles \subseteq Runners
    /\ IsFiniteSet(Findings) /\ Findings \subseteq Nat
    /\ IsFiniteSet(Agents) /\ NoAgent \notin Agents
ASSUME FindingsAssumption ==
    /\ Severity \in [Findings -> {"critical", "high", "medium", "low"}]
    /\ AgentOf \in [Findings -> Agents \cup {NoAgent}]
ASSUME RowsAssumption == MaxRows \in Nat \ {0} /\ MaxAborts \in Nat \ {0}

VARIABLES
    found,          \* found[f]: the committed status of finding f
    pending,        \* the committed guardian_actions that are pending
    handled,        \* the findings with a committed action that was executed
    status,         \* status[a]: the committed status of agent a
    run,            \* run[r]: where runner r is, and what it has read
    draft,          \* draft[r]: the action rows it flushed and has not committed
    force,          \* force[r]: the same for the agents' statuses
    aborts          \* runs that ended between a commit and their last, and deadlocks;
                    \* exact up to MaxAborts

db == <<found, pending, handled, status>>
guardianVars == <<db, run, draft, force, aborts>>

Slots == Findings \X (1..MaxRows)
Finding(s) == s[1]
NoRow == <<>>
NotRunning == [pc |-> "idle", todo |-> {}, left |-> {}, current |-> NoRow]
Empty == [s \in {} |-> s]

\* The rows with row k set to v.
Written(rows, k, v) == [t \in DOMAIN rows \cup {k} |-> IF t = k THEN v ELSE rows[t]]

----------------------------------------------------------------------------
(* SEVERITY_ACTION_MAP and the status each action sets; "low" is an alert.  *)

EnforcedStatus == [critical |-> "blocked", high |-> "restricted", medium |-> "quarantined"]
Enforces(f) == Severity[f] \in DOMAIN EnforcedStatus
StatusFor(f) == EnforcedStatus[Severity[f]]

----------------------------------------------------------------------------
(* What a session sees: the committed rows under its own.                   *)

SeesPending(r, s) == IF s \in DOMAIN draft[r] THEN draft[r][s] = "pending" ELSE s \in pending
SeenStatus(r, a) == IF a \in DOMAIN force[r] THEN force[r][a] ELSE status[a]

PendingFor(r, f) == {s \in Slots : Finding(s) = f /\ SeesPending(r, s)}
Taken(r) == run[r].left \cup ({run[r].current} \ {NoRow}) \cup DOMAIN draft[r]

\* The model forgets an action that is finished and held by nobody.
Unused(f) ==
    {s \in Slots \ pending : Finding(s) = f /\ \A r \in Runners : s \notin Taken(r)}
NextSlot(f) == CHOOSE s \in Unused(f) : \A t \in Unused(f) : s[2] <= t[2]

\* What a session has written, and holds locked until it commits.
Unlocked(r, s) == \A q \in Runners \ {r} : s \notin DOMAIN draft[q]
AgentUnlocked(r, a) == \A q \in Runners \ {r} : a \notin DOMAIN force[q]

----------------------------------------------------------------------------
GuardianInit ==
    /\ found = [f \in Findings |-> "open"]
    /\ pending = {}
    /\ handled = {}
    /\ status = [a \in Agents |-> "active"]
    /\ run = [r \in Runners |-> NotRunning]
    /\ draft = [r \in Runners |-> Empty]
    /\ force = [r \in Runners |-> Empty]
    /\ aborts = 0

\* The acknowledge routes do not look at the status.
Acknowledge(f) ==
    /\ found' = [found EXCEPT ![f] = "acknowledged"]
    /\ UNCHANGED <<pending, handled, status, run, draft, force, aborts>>

\* upsert_agent takes the status the agent reports; a row a session has
\* written is locked.
Register(a) ==
    /\ \A r \in Runners : a \notin DOMAIN force[r]
    /\ status' = [status EXCEPT ![a] = "active"]
    /\ UNCHANGED <<found, pending, handled, run, draft, force, aborts>>

----------------------------------------------------------------------------
(* evaluate_agent_behavior.                                                 *)

\* The schedule, a retry or the console's run route starts a run: the open
\* findings are read.
Start(r) ==
    /\ run[r].pc = "idle"
    /\ run' = [run EXCEPT ![r].pc = "evaluate", ![r].todo = {f \in Findings : found[f] = "open"}]
    /\ UNCHANGED <<db, draft, force, aborts>>

\* One finding: skip it, or add its action.  scalar_one_or_none raises when it
\* meets two rows.
Consider(r, f) ==
    /\ run[r].pc = "evaluate" /\ f \in run[r].todo
    /\ \A g \in run[r].todo : f <= g
    /\ Cardinality(PendingFor(r, f)) <= 1
    /\ run' = [run EXCEPT ![r].todo = @ \ {f}]
    /\ \/ PendingFor(r, f) # {} /\ UNCHANGED draft
       \/ /\ PendingFor(r, f) = {} /\ Unused(f) # {}
          /\ draft' = [draft EXCEPT ![r] = Written(@, NextSlot(f), "pending")]
    /\ UNCHANGED <<db, force, aborts>>

----------------------------------------------------------------------------
(* run_guardian_loop: execute what is pending.                              *)

\* (For mutation: only what this run ordered.)
OwnActions(r) == {s \in DOMAIN draft[r] : SeesPending(r, s)}
PendingActions(r) == {s \in Slots : SeesPending(r, s)}

SelectPending(r) ==
    /\ run[r].pc = "evaluate" /\ run[r].todo = {}
    /\ run' = [run EXCEPT ![r].pc = "execute", ![r].left = PendingActions(r)]
    /\ UNCHANGED <<db, draft, force, aborts>>

\* The console's execute route takes one action, whatever its status.
OpenAction(r, s) ==
    /\ run[r].pc = "idle" /\ s \in pending
    /\ run' = [run EXCEPT ![r].pc = "execute", ![r].left = {s}]
    /\ UNCHANGED <<db, draft, force, aborts>>

\* ... one that was executed: its agent's status is set again.
ExecuteAgain(f) ==
    /\ f \in handled /\ Enforces(f)
    /\ \A q \in Runners : AgentOf[f] \notin DOMAIN force[q]
    /\ status' = [status EXCEPT ![AgentOf[f]] = StatusFor(f)]
    /\ UNCHANGED <<found, pending, handled, run, draft, force, aborts>>

\* What execute_remediation leaves in the action's row.
Result(r, s, result) == draft' = [draft EXCEPT ![r] = Written(@, s, result)]

\* An action that sets the status of its agent.  The agent's row is written,
\* and locked, only when that changes it.
Enforce(r, s) ==
    LET f == Finding(s)
        a == AgentOf[f]
    IN  /\ run[r].pc = "execute" /\ s \in run[r].left
        /\ Enforces(f) /\ Unlocked(r, s)
        /\ \/ /\ a \in Agents /\ SeenStatus(r, a) = StatusFor(f)
              /\ UNCHANGED force
              /\ Result(r, s, "executed")
           \/ /\ a \in Agents /\ SeenStatus(r, a) # StatusFor(f)
              /\ AgentUnlocked(r, a)
              /\ force' = [force EXCEPT ![r] = Written(@, a, StatusFor(f))]
              /\ Result(r, s, "executed")
           \/ /\ a = NoAgent
              /\ UNCHANGED force
              /\ Result(r, s, "failed")
        /\ run' = [run EXCEPT ![r].left = @ \ {s}]
        /\ UNCHANGED <<db, aborts>>

\* Everything flushed so far becomes visible and the locks are released.
CommitRows(r) ==
    /\ pending' = (pending \ DOMAIN draft[r]) \cup {s \in DOMAIN draft[r] : draft[r][s] = "pending"}
    /\ handled' = handled \cup {Finding(s) : s \in {t \in DOMAIN draft[r] : draft[r][t] = "executed"}}
    /\ draft' = [draft EXCEPT ![r] = Empty]
    /\ force' = [force EXCEPT ![r] = Empty]

\* (For mutation: the agents' rows are forgotten.)
CommitActionsOnly(r) == CommitRows(r) /\ UNCHANGED status
CommitDrafts(r) == CommitRows(r) /\ status' = [a \in Agents |-> SeenStatus(r, a)]

\* dispatch_tenant_alerts without a connector that wants the event: nothing is
\* committed, and the result is written in the same transaction.
Alert(r, s) ==
    /\ run[r].pc = "execute" /\ s \in run[r].left
    /\ ~Enforces(Finding(s)) /\ Unlocked(r, s)
    /\ Result(r, s, "executed")
    /\ run' = [run EXCEPT ![r].left = @ \ {s}]
    /\ UNCHANGED <<db, force, aborts>>

\* With one the session is committed, whether the delivery fails or not ...
Deliver(r, s) ==
    /\ run[r].pc = "execute" /\ s \in run[r].left
    /\ ~Enforces(Finding(s))
    /\ CommitDrafts(r)
    /\ run' = [run EXCEPT ![r].pc = "record", ![r].left = @ \ {s}, ![r].current = s]
    /\ UNCHANGED <<found, aborts>>

\* ... and then the result is written.  (For mutation: it is not.)
RecordNothing(r) ==
    /\ run[r].pc = "record"
    /\ run' = [run EXCEPT ![r].pc = "execute", ![r].current = NoRow]
    /\ UNCHANGED <<db, draft, force, aborts>>
Record(r) ==
    /\ run[r].pc = "record" /\ Unlocked(r, run[r].current)
    /\ Result(r, run[r].current, "executed")
    /\ run' = [run EXCEPT ![r].pc = "execute", ![r].current = NoRow]
    /\ UNCHANGED <<db, force, aborts>>

\* The caller commits.
Commit(r) ==
    /\ run[r].pc = "execute" /\ run[r].left = {}
    /\ CommitDrafts(r)
    /\ run' = [run EXCEPT ![r] = NotRunning]
    /\ UNCHANGED <<found, aborts>>

----------------------------------------------------------------------------
(* Runs that end early: the session is rolled back, what was done outside   *)
(* the database stays.                                                      *)

Rollback(r) ==
    /\ run' = [run EXCEPT ![r] = NotRunning]
    /\ draft' = [draft EXCEPT ![r] = Empty]
    /\ force' = [force EXCEPT ![r] = Empty]
    /\ UNCHANGED db

\* MultipleResultsFound.
TooMany(r) ==
    /\ run[r].pc = "evaluate"
    /\ \E f \in run[r].todo : (\A g \in run[r].todo : f <= g) /\ Cardinality(PendingFor(r, f)) > 1
    /\ Rollback(r)
    /\ UNCHANGED aborts

\* The database ends one of two sessions that wait for each other's rows; the
\* error is caught with the action, the next flush raises again.
Wants(r) ==
    IF run[r].pc = "record" THEN {run[r].current}
    ELSE run[r].left \cup {AgentOf[Finding(s)] : s \in {t \in run[r].left : Enforces(Finding(t))}}
Holds(r) == DOMAIN draft[r] \cup DOMAIN force[r]

Deadlocked(r) ==
    /\ \E q \in Runners \ {r} : Wants(r) \cap Holds(q) # {} /\ Wants(q) \cap Holds(r) # {}
    /\ Rollback(r)
    /\ aborts' = IF aborts <= MaxAborts THEN aborts + 1 ELSE aborts

\* The process dies or loses the database.  What it has not committed is seen
\* by nobody: a death elsewhere leaves the same rows as one that came right after
\* the last commit, or, before the first, as if the run had not been started.
Die(r) ==
    /\ run[r].pc = "record"
    /\ aborts < MaxAborts
    /\ Rollback(r)
    /\ aborts' = aborts + 1

----------------------------------------------------------------------------
Step(r) ==
    /\ run[r].pc # "idle"
    /\ \/ \E f \in run[r].todo : Consider(r, f)
       \/ SelectPending(r)
       \/ \E s \in run[r].left : Enforce(r, s) \/ Alert(r, s) \/ Deliver(r, s)
       \/ Record(r) \/ Commit(r)
       \/ TooMany(r) \/ Deadlocked(r)

GuardianNext ==
    \/ \E f \in Findings : Acknowledge(f) \/ ExecuteAgain(f)
    \/ \E a \in Agents : Register(a)
    \/ \E r \in Runners : Start(r) \/ Step(r) \/ Die(r)
    \/ \E r \in Consoles, s \in Slots : OpenAction(r, s)

\* The schedule starts runs, and a run goes on.
Fairness ==
    /\ \A r \in Runners : WF_guardianVars(Step(r))
    /\ \A r \in Runners \ Consoles : WF_guardianVars(Start(r))

GuardianSpec == GuardianInit /\ [][GuardianNext]_guardianVars
FairSpec == GuardianSpec /\ Fairness

----------------------------------------------------------------------------
(* Properties.                                                              *)

RunTypes ==
    [pc : {"idle", "evaluate", "execute", "record"}, todo : SUBSET Findings,
     left : SUBSET Slots, current : {NoRow} \cup Slots]

\* Type correctness: what sessions hold refers to rows and agents that exist.
GuardianTypeOK ==
    /\ found \in [Findings -> {"open", "acknowledged"}]
    /\ pending \subseteq Slots /\ handled \subseteq Findings
    /\ status \in [Agents -> {"active", "blocked", "restricted", "quarantined"}]
    /\ \A r \in Runners :
          /\ run[r] \in RunTypes
          /\ run[r].current \in Slots <=> run[r].pc = "record"
          /\ DOMAIN draft[r] \subseteq Slots
          /\ \A s \in DOMAIN draft[r] : draft[r][s] \in {"pending", "executed", "failed"}
          /\ DOMAIN force[r] \subseteq Agents
          /\ \A a \in DOMAIN force[r] : force[r][a] \in {"blocked", "restricted", "quarantined"}
          /\ run[r].pc = "idle" => run[r] = NotRunning /\ draft[r] = Empty /\ force[r] = Empty
    /\ aborts \in 0..(MaxAborts + 1)

\* From two pending actions of one finding that no session holds, every later
\* evaluation raises, and the tenant's actions are no longer executed.  Runs
\* that overlap and finish never leave it so, and one that is cut short does not
\* either: it takes two, each ended between the commit of an alert and its own.
Wedged == \E f \in Findings :
    Cardinality({s \in pending : Finding(s) = f /\ \A r \in Runners : s \notin Taken(r)}) > 1
OneAbortNeverWedges == aborts < 2 => ~Wedged

\* An enforcing action becomes "executed" in the transaction that changes its
\* agent: what a session wrote of an agent arrives with the actions it was
\* written for, and is what one of them asks.  (That somebody else's commit
\* makes the finding of such an action handled says nothing of this session.)
DoneTo(r, a) ==
    {s \in DOMAIN draft[r] : draft[r][s] = "executed" /\ Enforces(Finding(s)) /\ AgentOf[Finding(s)] = a}
Arrives(r, s) ==
    \/ s \in pending \ pending'
    \/ Finding(s) \in handled' \ handled /\ force'[r] # force[r]
ExecutedIsEnforced ==
    [][\A r \in Runners : \A a \in DOMAIN force[r] :
         (\E s \in DoneTo(r, a) : Arrives(r, s)) =>
             status'[a] \in {StatusFor(Finding(s)) : s \in DoneTo(r, a)}]_guardianVars

\* An open finding on which something can be done is acted on, or acknowledged,
\* or the evaluation is stuck: unless sessions deadlock for ever.
Actionable(f) == Enforces(f) => AgentOf[f] \in Agents
DeadlocksEnd == <>[][\A r \in Runners : ~Deadlocked(r)]_guardianVars
FindingsHandled ==
    DeadlocksEnd =>
        \A f \in Findings :
            Actionable(f) ~> f \in handled \/ found[f] = "acknowledged" \/ Wedged
\* Type correctness and the freedom from wedging together.
GuardianInv == GuardianTypeOK /\ OneAbortNeverWedges
=============================================================================
