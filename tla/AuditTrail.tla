----------------------------- MODULE AuditTrail ------------------------------
(***************************************************************************)
(* The audit log as its writers fill it and the SIEM exporter drains it:   *)
(* backend/app/services/audit_ingestion_service.py and                     *)
(* siem_connector_service.py, run by the tasks of worker/tasks.py and the  *)
(* handlers of api/v1/audit.py.                                            *)
(*                                                                         *)
(* A row's time is not the time it is committed: the database stamps a row *)
(* of the gateway when its transaction begins, and an ingested event       *)
(* brings its own.  The exporter follows these times with a watermark, and *)
(* its runs overlap: the schedule, a job per tenant and a push button.     *)
(***************************************************************************)
EXTENDS Integers, FiniteSets

CONSTANTS
    Rows,           \* rows the gateway writes
    Events,         \* external events, one per external_id
    Jobs,           \* ingest_audit_batch tasks and POST /audit/ingest calls
    Retries,        \* Retries[j]: 2 for the task, 0 for the call
    Exporters,      \* runs of run_connector_export for one connector
    Limit,          \* MAX_EXPORT_BATCH
    MaxTime,        \* bound on the clock
    MaxFaults,      \* bound on lost answers of the SIEM and deaths of workers
    MaxOverlaps     \* bound on runs that begin while another is in flight

Entries == Rows \union Events
Times == 1..MaxTime

ASSUME EntriesAssumption == Rows \intersect Events = {} /\ IsFiniteSet(Entries)
ASSUME ProcessesAssumption == IsFiniteSet(Jobs) /\ IsFiniteSet(Exporters)
ASSUME RetriesAssumption == Retries \in [Jobs -> Nat]
ASSUME LimitAssumption == Limit \in Nat \ {0}
ASSUME TrailBounds == MaxTime \in Nat \ {0} /\ MaxFaults \in Nat /\ MaxOverlaps \in Nat

VARIABLES
    now,
    ts,             \* ts[e]: AuditLog.timestamp, 0 before there is one
    log,            \* the entries committed to audit_logs
    job,            \* job[j]: its batch, what it found stored, its attempts and state
    mark,           \* last_export_at of the connector, 0 for NULL
    exported,       \* events_exported of the connector
    run,            \* run[x]: state of a run and what it has read
    faults,
    overlaps,       \* history: runs that began while another was in flight
    delivered,      \* history: how often the SIEM has received e
    received,       \* history: how many entries it has received, repeats counted
    late            \* history: entries committed when an export had already passed their time

vars == <<now, ts, log, job, mark, exported, run, faults, overlaps, delivered, received, late>>
connector == <<mark, exported>>
siem == <<delivered, received>>
history == <<overlaps, siem, late>>

NoJob == [st |-> "none", batch |-> {}, found |-> {}, tries |-> 0]
Idle == [st |-> "idle", since |-> 0, count |-> 0, logs |-> {}]

Init ==
    /\ now = 1
    /\ ts = [e \in Entries |-> 0]
    /\ log = {}
    /\ job = [j \in Jobs |-> NoJob]
    /\ mark = 0 /\ exported = 0
    /\ run = [x \in Exporters |-> Idle]
    /\ faults = 0 /\ overlaps = 0
    /\ delivered = [e \in Entries |-> 0] /\ received = 0
    /\ late = {}

Fault == faults < MaxFaults /\ faults' = faults + 1
MaxTs(S) == CHOOSE t \in {ts[e] : e \in S} : \A e \in S : ts[e] <= t

Tick ==
    /\ now < MaxTime
    /\ now' = now + 1
    /\ UNCHANGED <<ts, log, job, connector, run, faults, history>>

\* Which of the entries come too late for the exports done and in flight.
Passed(t) ==
    \/ t <= mark
    \/ \E x \in Exporters : t <= IF run[x].logs = {} THEN run[x].since ELSE MaxTs(run[x].logs)
Enter(S, times) ==
    /\ log' = log \union S
    /\ late' = late \union {e \in S : Passed(times[e])}

-----------------------------------------------------------------------------
(* A request of the gateway writes its row                                 *)

Begin(r) ==
    /\ ts[r] = 0
    /\ ts' = [ts EXCEPT ![r] = now]
    /\ UNCHANGED <<now, log, job, connector, run, faults, history>>

Commit(r) ==
    /\ ts[r] # 0 /\ r \notin log
    /\ Enter({r}, ts)
    /\ UNCHANGED <<now, ts, job, connector, run, faults, overlaps, siem>>

-----------------------------------------------------------------------------
(* ingest_audit_events                                                     *)

\* What the client sends, it may send again.
Submit(j, batch) ==
    /\ job[j].st = "none"
    /\ job' = [job EXCEPT ![j] = [NoJob EXCEPT !.st = "queued", !.batch = batch]]
    /\ UNCHANGED <<now, ts, log, connector, run, faults, history>>

\* _existing_external_ids
Look(j) ==
    /\ job[j].st = "queued"
    /\ job' = [job EXCEPT ![j].st = "insert", ![j].found = job[j].batch \intersect log]
    /\ UNCHANGED <<now, ts, log, connector, run, faults, history>>

New(j) == job[j].batch \ job[j].found
End(j, st) == job' = [job EXCEPT ![j] = [NoJob EXCEPT !.st = st, !.batch = job[j].batch]]

\* The rows go in with the times the client gave, or the time of the insertion.
Insert(j) ==
    /\ job[j].st = "insert" /\ New(j) \intersect log = {}
    /\ \E times \in [New(j) -> Times] :
        /\ ts' = [e \in Entries |-> IF e \in New(j) THEN times[e] ELSE ts[e]]
        /\ Enter(New(j), times)
    /\ End(j, "done")
    /\ UNCHANGED <<now, connector, run, faults, overlaps, siem>>

\* The unique index over tenant, source and external_id refuses the whole
\* insertion; the task is retried.  (For mutation: it is given up at once; the
\* conflict counts as a duplicate.)
CollideOnce(j) ==
    /\ job[j].st = "insert" /\ New(j) \intersect log # {}
    /\ End(j, "failed")
    /\ UNCHANGED <<now, ts, log, connector, run, faults, history>>
CollideDone(j) ==
    /\ job[j].st = "insert" /\ New(j) \intersect log # {}
    /\ End(j, "done")
    /\ UNCHANGED <<now, ts, log, connector, run, faults, history>>

Collide(j) ==
    /\ job[j].st = "insert" /\ New(j) \intersect log # {}
    /\ IF job[j].tries < Retries[j]
       THEN job' = [job EXCEPT ![j].st = "queued", ![j].found = {}, ![j].tries = @ + 1]
       ELSE End(j, "failed")
    /\ UNCHANGED <<now, ts, log, connector, run, faults, history>>

\* A task is acknowledged before it runs: it dies with its worker, which
\* before the insertion has the same effect whenever it comes.
LoseJob(j) ==
    /\ job[j].st = "queued"
    /\ Fault
    /\ End(j, "lost")
    /\ UNCHANGED <<now, ts, log, connector, run, history>>

-----------------------------------------------------------------------------
(* run_connector_export                                                    *)

Busy == {x \in Exporters : run[x].st # "idle"}

\* The connector is loaded once; the session does not refresh it.
Load(x) ==
    /\ run[x].st = "idle"
    /\ Busy = {} \/ overlaps < MaxOverlaps
    /\ overlaps' = overlaps + (IF Busy = {} THEN 0 ELSE 1)
    /\ run' = [run EXCEPT ![x] = [Idle EXCEPT !.st = "fetch", !.since = mark, !.count = exported]]
    /\ UNCHANGED <<now, ts, log, job, connector, faults, siem, late>>

\* Later than the watermark.  (For mutation: or at it.)
Since(t) == {e \in log : ts[e] >= t}
After(t) == {e \in log : ts[e] > t}

Oldest(S, t) ==
    /\ Cardinality(S) = Limit \/ (Cardinality(S) < Limit /\ S = After(t))
    /\ \A e \in S, f \in After(t) \ S : ts[e] <= ts[f]

\* ORDER BY timestamp LIMIT: equal times come in any order.
Fetch(x) ==
    /\ run[x].st = "fetch"
    /\ \E S \in SUBSET After(run[x].since) :
        /\ Oldest(S, run[x].since)
        /\ run' = [run EXCEPT ![x] = IF S = {} THEN Idle ELSE [@ EXCEPT !.st = "push", !.logs = S]]
    /\ UNCHANGED <<now, ts, log, job, connector, faults, history>>

Receive(S) ==
    /\ delivered' = [e \in Entries |-> delivered[e] + IF e \in S THEN 1 ELSE 0]
    /\ received' = received + Cardinality(S)

\* push_logs_to_connector
Push(x) ==
    /\ run[x].st = "push"
    /\ Receive(run[x].logs)
    /\ run' = [run EXCEPT ![x].st = "save"]
    /\ UNCHANGED <<now, ts, log, job, connector, faults, overlaps, late>>

\* An error, or no answer from a SIEM that has the batch: only last_error is
\* written.
PushFails(x) ==
    /\ run[x].st = "push"
    /\ Fault
    /\ UNCHANGED siem \/ Receive(run[x].logs)
    /\ run' = [run EXCEPT ![x] = Idle]
    /\ UNCHANGED <<now, ts, log, job, connector, overlaps, late>>

\* Both values are computed from what the run has read.  (For mutation: the
\* watermark is the time of the export; the count starts anew.)
SaveNow(x) ==
    /\ run[x].st = "save"
    /\ mark' = now
    /\ exported' = run[x].count + Cardinality(run[x].logs)
    /\ run' = [run EXCEPT ![x] = Idle]
    /\ UNCHANGED <<now, ts, log, job, faults, history>>
SaveAnew(x) ==
    /\ run[x].st = "save"
    /\ mark' = MaxTs(run[x].logs)
    /\ exported' = Cardinality(run[x].logs)
    /\ run' = [run EXCEPT ![x] = Idle]
    /\ UNCHANGED <<now, ts, log, job, faults, history>>

Save(x) ==
    /\ run[x].st = "save"
    /\ mark' = MaxTs(run[x].logs)
    /\ exported' = run[x].count + Cardinality(run[x].logs)
    /\ run' = [run EXCEPT ![x] = Idle]
    /\ UNCHANGED <<now, ts, log, job, faults, history>>

Crash(x) ==
    /\ run[x].st # "idle"
    /\ Fault
    /\ run' = [run EXCEPT ![x] = Idle]
    /\ UNCHANGED <<now, ts, log, job, connector, history>>

Export(x) == Load(x) \/ Fetch(x) \/ Push(x) \/ Save(x)

Next ==
    \/ Tick
    \/ \E r \in Rows : Begin(r) \/ Commit(r)
    \/ \E j \in Jobs :
        \/ \E batch \in SUBSET Events \ {{}} : Submit(j, batch)
        \/ Look(j) \/ Insert(j) \/ Collide(j) \/ LoseJob(j)
    \/ \E x \in Exporters : Export(x) \/ PushFails(x) \/ Crash(x)

\* The beat schedule starts a run every five minutes.
Spec == Init /\ [][Next]_vars /\ \A x \in Exporters : WF_vars(Export(x))

-----------------------------------------------------------------------------
(* Properties                                                              *)

TypeOK ==
    /\ now \in Times /\ ts \in [Entries -> 0..MaxTime]
    /\ log \subseteq {e \in Entries : ts[e] # 0}
    /\ job \in [Jobs -> [st : {"none", "queued", "insert", "done", "failed", "lost"},
                         batch : SUBSET Events, found : SUBSET Events, tries : Nat]]
    /\ mark \in 0..MaxTime /\ exported \in Nat
    /\ run \in [Exporters -> [st : {"idle", "fetch", "push", "save"}, since : 0..MaxTime,
                              count : Nat, logs : SUBSET log]]
    /\ \A x \in Exporters : run[x].st \in {"push", "save"} <=> run[x].logs # {}
    /\ faults \in 0..MaxFaults /\ overlaps \in 0..MaxOverlaps
    /\ delivered \in [Entries -> Nat] /\ received \in Nat /\ late \subseteq log

Tied(e) == \E f \in log \ {e} : ts[f] = ts[e]

\* However runs overlap, fail and die: an entry the SIEM has not received is
\* still ahead of the watermark, unless it was committed when an export had
\* passed its time already, or shares its time with another entry.
\* (fetch_logs_for_export, last_export_at in run_connector_export)
NothingSkipped ==
    \A e \in log : delivered[e] > 0 \/ ts[e] > mark \/ e \in late \/ Tied(e)

\* The SIEM receives an entry again only for a failure or for runs that
\* overlap, once for each.
RepeatsExplained == \A e \in Entries : delivered[e] <= 1 + faults + overlaps

\* events_exported never counts what the SIEM has not received, and between
\* runs counts all of it unless runs overlapped or failed.
ExportsCounted ==
    /\ exported <= received
    /\ overlaps = 0 /\ faults = 0 /\ Busy = {} => exported = received

\* An ingestion that reports success has each of its events in the log, the
\* duplicates too; and one is given up only when as many others have
\* interfered as it has attempts.  (_existing_external_ids, the unique index
\* and the retries of ingest_audit_batch)
IngestLands ==
    \A j \in Jobs :
        /\ job[j].st = "done" => job[j].batch \subseteq log
        /\ job[j].st = "failed" =>
            Cardinality({k \in Jobs \ {j} : job[k].st = "done" /\ job[k].batch \intersect job[j].batch # {}})
                > Retries[j]

\* What is in the log reaches the SIEM, with the same exceptions.
\* (beat_schedule, run_connector_export)
Exports ==
    \A e \in Entries : e \in log ~> delivered[e] > 0 \/ e \in late \/ Tied(e)

\* Type correctness and the counter together.
TrailInv == TypeOK /\ ExportsCounted
=============================================================================
