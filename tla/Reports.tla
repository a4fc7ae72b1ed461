------------------------------ MODULE Reports ------------------------------
(***************************************************************************)
(* One scheduled report: the beat task and the console's "run due" button  *)
(* that look for it and mark it (backend/app/services/                     *)
(* report_scheduler_service.py), the queued tasks that generate and mail   *)
(* it with their retries (worker/tasks.py), the runs users start and their *)
(* background tasks, and edits of its schedule (api/v1/reports.py).        *)
(*                                                                         *)
(* Every actor has a database session of its own: it works on the row it   *)
(* read and writes the columns it gave another value, whatever they hold   *)
(* by then.  Contents, formats and recipients are left out.                *)
(***************************************************************************)
EXTENDS Naturals, FiniteSets

CONSTANTS
    Schedulers,     \* process_due_scheduled_reports, from the beat and from the button
    Jobs,           \* tasks that can be queued or running at once
    Clicks,         \* runs of users that can be in progress at once
    Periods,        \* schedules: a run at every multiple of the period; 0 is "off"
    MaxRetries,     \* max_retries of run_scheduled_report
    MaxTime,        \* bound of the clock
    MaxDisturbed    \* bound of the edits, failures and deaths together

ASSUME ConstantsAssumption ==
    /\ IsFiniteSet(Schedulers) /\ IsFiniteSet(Jobs) /\ IsFiniteSet(Clicks)
    /\ Jobs \cap Clicks = {}
    /\ Periods \subseteq Nat /\ 0 \in Periods
    /\ {MaxRetries, MaxTime, MaxDisturbed} \subseteq Nat

VARIABLES
    now,            \* the time; it starts at 0
    row,            \* the committed row of the report
    sched,          \* sched[x]: "idle", "selected" or "marked"
    task,           \* task[w]: what a job or a click is doing
    edits, failures, deaths,    \* how often users edited, steps raised, processes died
    mails,          \* history: the mails sent
    served          \* history: the time of the latest data that was mailed, or of
                    \* the last run, edit or deletion by a user

vars == <<now, row, sched, task, edits, failures, deaths, mails, served>>
faults == <<failures, deaths>>
history == <<mails, served>>

None == [pc |-> "none"]
Never == 0
Disturbed == edits + failures + deaths
Later(s, t) == IF s > t THEN s ELSE t

Init ==
    /\ now = 0
    /\ \E s \in Periods \ {0} :
          row = [exists |-> TRUE, schedule |-> s, next |-> s, status |-> "idle"]
    /\ sched = [x \in Schedulers |-> "idle"]
    /\ task = [w \in Jobs \cup Clicks |-> None]
    /\ edits = 0 /\ failures = 0 /\ deaths = 0
    /\ mails = 0 /\ served = 0

\* compute_next_run: the first time of the schedule that is strictly later.
NextRun(schedule) == IF schedule = 0 THEN Never ELSE (now \div schedule + 1) * schedule

----------------------------------------------------------------------------
(* enqueue_due_reports.                                                     *)

Reached == row.exists /\ row.schedule # 0 /\ row.next # Never /\ row.next <= now

\* (For mutation: the status is not looked at.)
DueAgain == Reached
Due == Reached /\ row.status # "generating"

Select(x) ==
    /\ sched[x] = "idle" /\ Due
    /\ sched' = [sched EXCEPT ![x] = "selected"]
    /\ UNCHANGED <<now, row, task, edits, faults, history>>

\* The commit of the mark; it raises if the row is gone.
Mark(x) ==
    /\ sched[x] = "selected"
    /\ IF row.exists
       THEN /\ row' = [row EXCEPT !.status = "generating"]
            /\ sched' = [sched EXCEPT ![x] = "marked"]
       ELSE /\ sched' = [sched EXCEPT ![x] = "idle"]
            /\ UNCHANGED row
    /\ UNCHANGED <<now, task, edits, faults, history>>

Queued(tries) == [pc |-> "queued", tries |-> tries]

Send(x, j) ==
    /\ sched[x] = "marked" /\ task[j] = None
    /\ task' = [task EXCEPT ![j] = Queued(0)]
    /\ sched' = [sched EXCEPT ![x] = "idle"]
    /\ UNCHANGED <<now, row, edits, faults, history>>

----------------------------------------------------------------------------
(* run_report_endpoint: the row is read, then marked and the run put in the *)
(* background.                                                              *)

Click(c) ==
    /\ task[c] = None /\ row.exists /\ row.status # "generating"
    /\ task' = [task EXCEPT ![c] = [pc |-> "clicked"]]
    /\ UNCHANGED <<now, row, sched, edits, faults, history>>

MarkRun(c) ==
    /\ task[c].pc = "clicked"
    /\ IF row.exists
       THEN /\ row' = [row EXCEPT !.status = "generating"]
            /\ task' = [task EXCEPT ![c] = Queued(0)]
       ELSE /\ task' = [task EXCEPT ![c] = None]
            /\ UNCHANGED row
    /\ UNCHANGED <<now, sched, edits, faults, history>>

----------------------------------------------------------------------------
(* generate_and_deliver_report and execute_report_generation.               *)

Load(w) ==
    /\ task[w].pc = "queued"
    /\ task' = [task EXCEPT ![w] =
                  IF row.exists THEN [pc |-> "run", tries |-> task[w].tries, read |-> row]
                  ELSE None]
    /\ UNCHANGED <<now, row, sched, edits, faults, history>>

\* A column is written if its value differs from the one that was read.
Written(read, new, current) == IF new # read THEN new ELSE current

\* run_report: the next run follows from the schedule that was read.  Only a
\* job goes on to mail what it generated.
Generate(w) ==
    /\ task[w].pc = "run" /\ row.exists
    /\ LET read == task[w].read
       IN  row' = [row EXCEPT
             !.next = Written(read.next, NextRun(read.schedule), @),
             !.status = Written(read.status, "idle", @)]
    /\ task' = [task EXCEPT ![w] =
                  IF w \in Jobs THEN [pc |-> "mail", tries |-> task[w].tries, at |-> now]
                  ELSE None]
    /\ served' = IF w \in Clicks THEN now ELSE served
    /\ UNCHANGED <<now, sched, edits, faults, mails>>

\* send_report_email reports its own errors in what Store keeps.
Mail(j) ==
    /\ task[j].pc = "mail"
    /\ task' = [task EXCEPT ![j].pc = "store"]
    /\ mails' = mails + 1
    /\ served' = Later(served, task[j].at)
    /\ UNCHANGED <<now, row, sched, edits, faults>>

\* The second commit, of the result with its delivery.
Store(j) ==
    /\ task[j].pc = "store"
    /\ task' = [task EXCEPT ![j] = None]
    /\ UNCHANGED <<now, row, sched, edits, faults, history>>

\* Any of these steps may raise, and the first commit does if the row is gone.
Raise(w) ==
    /\ \/ task[w].pc \in {"queued", "run", "mail", "store"} /\ Disturbed < MaxDisturbed
          /\ failures' = failures + 1
       \/ task[w].pc = "run" /\ ~row.exists /\ UNCHANGED failures
    /\ task' = [task EXCEPT ![w] = [pc |-> "failing", tries |-> task[w].tries]]
    /\ UNCHANGED <<now, row, sched, edits, deaths, history>>

\* Another session notes the error; then the task is retried, a click is not.
NoteError == row' = IF row.exists THEN [row EXCEPT !.status = "error"] ELSE row
Retry(w) == w \in Jobs /\ task[w].tries < MaxRetries
HandleWhen(w, note, retry) ==
    /\ task[w].pc = "failing" /\ note
    /\ task' = [task EXCEPT ![w] = IF retry THEN Queued(task[w].tries + 1) ELSE None]
    /\ UNCHANGED <<now, sched, edits, faults, history>>

\* (For mutation: the error is not noted, or the task not retried.)
HandleSilent(w) == HandleWhen(w, UNCHANGED row, Retry(w))
HandleOnce(w) == HandleWhen(w, NoteError, FALSE)
Handle(w) == HandleWhen(w, NoteError, Retry(w))

----------------------------------------------------------------------------
(* Users, time and deaths.                                                  *)

\* update_report with a schedule.
Reschedule(s) ==
    /\ row.exists /\ Disturbed < MaxDisturbed
    /\ row' = [row EXCEPT !.schedule = s, !.next = NextRun(s)]
    /\ edits' = edits + 1
    /\ served' = now
    /\ UNCHANGED <<now, sched, task, faults, mails>>

Delete ==
    /\ row.exists /\ Disturbed < MaxDisturbed
    /\ row' = [row EXCEPT !.exists = FALSE]
    /\ edits' = edits + 1
    /\ served' = now
    /\ UNCHANGED <<now, sched, task, faults, mails>>

Tick ==
    /\ now < MaxTime
    /\ now' = now + 1
    /\ UNCHANGED <<row, sched, task, edits, faults, history>>

\* A process dies with what it was doing; a task is acknowledged when it
\* starts, and the broker may lose one that waits.
Die ==
    /\ Disturbed < MaxDisturbed
    /\ \/ \E w \in Jobs \cup Clicks : task[w] # None /\ task' = [task EXCEPT ![w] = None] /\ UNCHANGED sched
       \/ \E x \in Schedulers : sched[x] # "idle" /\ sched' = [sched EXCEPT ![x] = "idle"] /\ UNCHANGED task
    /\ deaths' = deaths + 1
    /\ UNCHANGED <<now, row, edits, failures, history>>

----------------------------------------------------------------------------
Schedule(x) == Select(x) \/ Mark(x) \/ \E j \in Jobs : Send(x, j)
Work(w) == Load(w) \/ Generate(w) \/ Handle(w) \/ (w \in Jobs /\ (Mail(w) \/ Store(w)))

Next ==
    \/ \E x \in Schedulers : Schedule(x)
    \/ \E c \in Clicks : Click(c) \/ MarkRun(c)
    \/ \E w \in Jobs \cup Clicks : Work(w) \/ Raise(w)
    \/ \E s \in Periods : Reschedule(s)
    \/ Delete \/ Tick \/ Die

\* The beat comes again every minute, workers take what is queued, and nothing
\* in a run waits without a timeout.  Users need not do anything.
Fairness ==
    /\ \A x \in Schedulers : WF_vars(Schedule(x))
    /\ \A w \in Jobs \cup Clicks : WF_vars(Work(w))
    /\ \A c \in Clicks : WF_vars(MarkRun(c))

Spec == Init /\ [][Next]_vars /\ Fairness

----------------------------------------------------------------------------
(* Properties.                                                              *)

Rows == [exists : BOOLEAN, schedule : Periods, next : Nat,
         status : {"idle", "generating", "error"}]
Tries == 0..MaxRetries

TypeOK ==
    /\ now \in 0..MaxTime /\ row \in Rows
    /\ row.next > 0 => \E s \in Periods \ {0} : row.next % s = 0
    /\ sched \in [Schedulers -> {"idle", "selected", "marked"}]
    /\ \A j \in Jobs :
          task[j] \in {None} \cup [pc : {"queued", "failing"}, tries : Tries]
                 \cup [pc : {"run"}, tries : Tries, read : Rows]
                 \cup [pc : {"mail", "store"}, tries : Tries, at : 0..now]
    /\ \A c \in Clicks :
          task[c] \in {None, [pc |-> "clicked"]} \cup [pc : {"queued", "failing"}, tries : {0}]
                 \cup [pc : {"run"}, tries : {0}, read : Rows]
    /\ {edits, failures, deaths} \subseteq Nat /\ Disturbed <= MaxDisturbed
    /\ mails \in Nat /\ served \in 0..now

\* A report that is shown as generating, and therefore never due, has someone
\* who will change that, unless a process died.
Settles(w) ==
    \/ task[w].pc \in {"queued", "failing"}
    \/ task[w].pc = "run" /\ task[w].read.status = "generating"
GeneratingIsOwned ==
    row.exists /\ row.status = "generating" =>
        \/ deaths > 0
        \/ \E x \in Schedulers : sched[x] = "marked"
        \/ \E w \in Jobs \cup Clicks : Settles(w)

\* Type correctness and the owner of a report that is generating.
ReportsInv == TypeOK /\ GeneratingIsOwned

\* An edit breaks the link between the next time and what a run has read: then
\* every run that began before the report came due may end it without moving that
\* time, and the report is due again.
Releases == IF edits = 0 THEN 0 ELSE Cardinality(Jobs \cup Clicks)

\* However schedulers overlap, users interfere and steps fail, recipients get
\* for each time the report came due at most one mail for each scheduler; as many
\* again for each failure, which makes it due once more, and for each run that an
\* edit lets release it; and one for the retry of a failure.
\* (enqueue_due_reports, generate_and_deliver_report, run_report)
MailsBounded ==
    mails <= Cardinality(Schedulers) * (now * (1 + Releases) + failures) + failures

\* A report that comes due is mailed with data of that time or later, although
\* steps fail, up to as often as a task is retried: unless a user's own run, edit
\* or deletion took the place of the schedule, or a process died.
DueDelivered ==
    \A t \in 1..MaxTime :
        Reached /\ row.next = t ~> served >= t \/ deaths > 0 \/ failures > MaxRetries
=============================================================================
