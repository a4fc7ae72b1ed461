-------------------------- MODULE AuditTrailProofs --------------------------
(***************************************************************************)
(* Theorems about AuditTrail, for any rows, events, jobs and exporters.    *)
(***************************************************************************)
EXTENDS AuditTrail, FiniteSetTheorems, WellFoundedInduction, TLAPS

----------------------------------------------------------------------------
(* Sets and times.                                                          *)

LEMMA LeastElement ==
  ASSUME NEW S \in SUBSET Nat, S # {}
  PROVE  \E m \in S : \A k \in S : m <= k
<1>1. PICK m \in S : \A k \in S : ~(<<k, m>> \in OpToRel(<, Nat))
  BY NatLessThanWellFounded, WFMin, Zenon
<1>2. \A k \in S : ~(k < m)
  BY <1>1, Zenon DEF OpToRel
<1>3. QED
  BY <1>2

LEMMA GreatestElement ==
  ASSUME NEW S \in SUBSET Nat, S # {}, NEW n \in Nat, \A k \in S : k <= n
  PROVE  \E m \in S : \A k \in S : k <= m
<1> DEFINE Bounds == {b \in Nat : \A k \in S : k <= b}
<1>1. PICK m \in Bounds : \A b \in Bounds : m <= b
  <2>1. Bounds \in SUBSET Nat /\ n \in Bounds
    OBVIOUS
  <2>2. QED
    BY <2>1, LeastElement, Zenon
<1>2. CASE m \in S
  BY <1>1, <1>2
<1>3. CASE m \notin S
  <2>1. \A k \in S : k <= m - 1 /\ 0 <= k
    BY <1>1, <1>3
  <2>2. m - 1 \in Bounds
    <3>1. m - 1 \in Nat
      <4>1. PICK k \in S : k \in Nat /\ k <= m - 1
        BY <2>1
      <4>2. m \in Nat
        BY <1>1
      <4>3. QED
        BY <4>1, <4>2
    <3>2. QED
      BY <2>1, <3>1
  <2>3. QED
    BY <1>1, <2>2
<1>4. QED
  BY <1>2, <1>3

\* What run_connector_export takes as the new watermark: the latest time of the batch.
LEMMA MaxTsIsMax ==
  ASSUME TypeOK, NEW S \in SUBSET Entries, S # {}
  PROVE  /\ MaxTs(S) \in 0..MaxTime
         /\ \A e \in S : ts[e] <= MaxTs(S)
         /\ \E e \in S : ts[e] = MaxTs(S)
<1> DEFINE T == {ts[e] : e \in S}
<1>1. T \subseteq 0..MaxTime /\ T # {}
  BY DEF TypeOK
<1>2. \E m \in T : \A t \in T : t <= m
  <2>1. T \in SUBSET Nat /\ T # {} /\ MaxTime \in Nat /\ \A t \in T : t <= MaxTime
    BY <1>1, TrailBounds
  <2> HIDE DEF T
  <2>2. QED
    BY <2>1, GreatestElement
<1>3. \E m \in T : \A e \in S : ts[e] <= m
  BY <1>2
<1>4. MaxTs(S) \in T /\ \A e \in S : ts[e] <= MaxTs(S)
  BY <1>3 DEF MaxTs
<1>5. QED
  BY <1>1, <1>4

\* The time of an entry that is in the log does not change, nor do the
\* latest times of batches.
LEMMA MaxTsFixed ==
  ASSUME NEW S, \A e \in S : ts'[e] = ts[e]
  PROVE  MaxTs(S)' = MaxTs(S)
<1>1. {ts'[e] : e \in S} = {ts[e] : e \in S}
  OBVIOUS
<1>2. QED
  BY <1>1 DEF MaxTs

----------------------------------------------------------------------------
(* Type correctness.                                                        *)

JobRecord == [st : {"none", "queued", "insert", "done", "failed", "lost"},
              batch : SUBSET Events, found : SUBSET Events, tries : Nat]
RunRecord(L) == [st : {"idle", "fetch", "push", "save"}, since : 0..MaxTime, count : Nat,
                 logs : SUBSET L]

LEMMA LogFinite ==
  ASSUME TypeOK
  PROVE  /\ log \subseteq Entries
         /\ \A S \in SUBSET Entries : IsFiniteSet(S) /\ Cardinality(S) \in Nat
<1>1. \A S \in SUBSET Entries : IsFiniteSet(S) /\ Cardinality(S) \in Nat
  BY EntriesAssumption, FS_Subset, FS_CardinalityType
<1>2. QED
  BY <1>1 DEF TypeOK

LEMMA TypedInit == Init => TypeOK
<1> SUFFICES ASSUME Init PROVE TypeOK
  OBVIOUS
<1>1. now \in Times /\ ts \in [Entries -> 0..MaxTime] /\ mark \in 0..MaxTime
  BY TrailBounds DEF Init, Times
<1>2. NoJob \in JobRecord /\ Idle \in RunRecord(log)
  BY TrailBounds DEF NoJob, Idle, JobRecord, RunRecord
<1>3. \A x \in Exporters : run[x].st \in {"push", "save"} <=> run[x].logs # {}
  BY DEF Init, Idle
<1>4. faults \in 0..MaxFaults /\ overlaps \in 0..MaxOverlaps
  BY TrailBounds DEF Init
<1>5. QED
  BY <1>1, <1>2, <1>3, <1>4 DEF Init, TypeOK, JobRecord, RunRecord

\* A step of one run of the exporter, which leaves the log alone.
LEMMA RunStepTyped ==
  ASSUME TypeOK, NEW x \in Exporters, NEW r \in RunRecord(log),
         r.st \in {"push", "save"} <=> r.logs # {},
         run' = [run EXCEPT ![x] = r],
         UNCHANGED <<now, ts, log, job>>,
         mark' \in 0..MaxTime, exported' \in Nat, faults' \in 0..MaxFaults,
         overlaps' \in 0..MaxOverlaps, delivered' \in [Entries -> Nat], received' \in Nat,
         UNCHANGED late
  PROVE  TypeOK'
BY DEF TypeOK, RunRecord

\* A step of one job, which leaves the log alone.
LEMMA JobStepTyped ==
  ASSUME TypeOK, NEW j \in Jobs, NEW r \in JobRecord, job' = [job EXCEPT ![j] = r],
         UNCHANGED <<now, ts, log, connector, run, history>>, faults' \in 0..MaxFaults
  PROVE  TypeOK'
BY DEF TypeOK, JobRecord, connector, history, siem

LEMMA EnterTyped ==
  ASSUME TypeOK, NEW S \in SUBSET Entries, NEW times, Enter(S, times),
         ts' \in [Entries -> 0..MaxTime], \A e \in log \cup S : ts'[e] # 0
  PROVE  /\ log' \subseteq {e \in Entries : ts'[e] # 0} /\ late' \subseteq log'
         /\ log \subseteq log'
BY DEF TypeOK, Enter

LEMMA RecordsTyped ==
  ASSUME TypeOK
  PROVE  /\ \A x \in Exporters : run[x] \in RunRecord(log)
         /\ \A j \in Jobs : job[j] \in JobRecord
         /\ Idle \in RunRecord(log) /\ NoJob \in JobRecord
         /\ Idle.st = "idle" /\ Idle.logs = {}
BY TrailBounds DEF TypeOK, RunRecord, JobRecord, Idle, NoJob

LEMMA FaultTyped ==
  ASSUME TypeOK, Fault
  PROVE  faults' \in 0..MaxFaults /\ faults' = faults + 1
BY TrailBounds DEF TypeOK, Fault

LEMMA ReceiveTyped ==
  ASSUME TypeOK, NEW S \in SUBSET Entries, Receive(S)
  PROVE  delivered' \in [Entries -> Nat] /\ received' \in Nat
BY LogFinite DEF TypeOK, Receive

LEMMA TypedStep == TypeOK /\ [Next]_vars => TypeOK'
<1> SUFFICES ASSUME TypeOK, [Next]_vars PROVE TypeOK'
  OBVIOUS
<1> USE RecordsTyped
<1>1. CASE Tick
  BY <1>1, TrailBounds DEF Tick, TypeOK, Times, connector, history, siem
<1>2. ASSUME NEW r \in Rows, Begin(r) PROVE TypeOK'
  <2>1. ts' \in [Entries -> 0..MaxTime] /\ \A e \in log : ts'[e] # 0
    BY <1>2, TrailBounds DEF Begin, TypeOK, Times, Entries
  <2>2. QED
    BY <1>2, <2>1 DEF Begin, TypeOK, connector, history, siem
<1>3. ASSUME NEW r \in Rows, Commit(r) PROVE TypeOK'
  <2>1. log' \subseteq {e \in Entries : ts'[e] # 0} /\ late' \subseteq log' /\ log \subseteq log'
    BY <1>3, EnterTyped DEF Commit, TypeOK, Entries
  <2>2. QED
    BY <1>3, <2>1 DEF Commit, TypeOK, connector, siem
<1>4. ASSUME NEW j \in Jobs, NEW batch \in SUBSET Events, Submit(j, batch) PROVE TypeOK'
  <2>1. [NoJob EXCEPT !.st = "queued", !.batch = batch] \in JobRecord
    BY DEF JobRecord
  <2>2. QED
    BY <1>4, <2>1, JobStepTyped DEF Submit, TypeOK
<1>5. ASSUME NEW j \in Jobs, Look(j) PROVE TypeOK'
  <2>1. [job[j] EXCEPT !.st = "insert", !.found = job[j].batch \intersect log] \in JobRecord
    BY DEF JobRecord
  <2>2. job' = [job EXCEPT ![j] = [job[j] EXCEPT !.st = "insert", !.found = job[j].batch \intersect log]]
    BY <1>5 DEF Look, TypeOK
  <2>3. QED
    BY <1>5, <2>1, <2>2, JobStepTyped DEF Look, TypeOK
<1>6. ASSUME NEW j \in Jobs, NEW st \in {"done", "failed", "lost"}, End(j, st)
      PROVE  /\ [NoJob EXCEPT !.st = st, !.batch = job[j].batch] \in JobRecord
             /\ job' = [job EXCEPT ![j] = [NoJob EXCEPT !.st = st, !.batch = job[j].batch]]
  BY <1>6 DEF End, JobRecord
<1>7. ASSUME NEW j \in Jobs, Insert(j) PROVE TypeOK'
  <2>1. New(j) \subseteq Entries /\ New(j) \cap log = {}
    BY <1>7 DEF Insert, New, JobRecord, Entries
  <2>2. PICK times \in [New(j) -> Times] :
           /\ ts' = [e \in Entries |-> IF e \in New(j) THEN times[e] ELSE ts[e]]
           /\ Enter(New(j), times)
    BY <1>7 DEF Insert
  <2>3. ts' \in [Entries -> 0..MaxTime] /\ \A e \in log \cup New(j) : ts'[e] # 0
    BY <2>1, <2>2, TrailBounds DEF TypeOK, Times
  <2>4. log' \subseteq {e \in Entries : ts'[e] # 0} /\ late' \subseteq log' /\ log \subseteq log'
    BY <2>1, <2>2, <2>3, EnterTyped
  <2>5. job' \in [Jobs -> JobRecord]
    <3>1. End(j, "done")
      BY <1>7 DEF Insert
    <3>2. job \in [Jobs -> JobRecord]
      BY DEF TypeOK, JobRecord
    <3>3. QED
      BY <1>6, <3>1, <3>2
  <2>6. QED
    BY <1>7, <2>3, <2>4, <2>5 DEF Insert, TypeOK, JobRecord, connector, siem
<1>8. ASSUME NEW j \in Jobs, Collide(j) PROVE TypeOK'
  <2>1. CASE job[j].tries < Retries[j]
    <3>1. [job[j] EXCEPT !.st = "queued", !.found = {}, !.tries = @ + 1] \in JobRecord
      <4>1. job[j] \in JobRecord
        OBVIOUS
      <4>2. PICK n \in Nat : n = job[j].tries + 1
        BY <4>1 DEF JobRecord
      <4>3. [job[j] EXCEPT !.st = "queued", !.found = {}, !.tries = n] \in JobRecord
        BY <4>1 DEF JobRecord
      <4>4. QED
        BY <4>2, <4>3
    <3>2. job' = [job EXCEPT ![j] = [job[j] EXCEPT !.st = "queued", !.found = {}, !.tries = @ + 1]]
      BY <1>8, <2>1 DEF Collide, TypeOK
    <3>3. QED
      BY <1>8, <3>1, <3>2, JobStepTyped DEF Collide, TypeOK
  <2>2. CASE ~(job[j].tries < Retries[j])
    BY <1>6, <1>8, <2>2, JobStepTyped DEF Collide, TypeOK
  <2>3. QED
    BY <2>1, <2>2
<1>9. ASSUME NEW j \in Jobs, LoseJob(j) PROVE TypeOK'
  BY <1>6, <1>9, JobStepTyped, FaultTyped DEF LoseJob
<1>10. ASSUME NEW x \in Exporters, Load(x) PROVE TypeOK'
  <2>1. [Idle EXCEPT !.st = "fetch", !.since = mark, !.count = exported] \in RunRecord(log)
    BY DEF RunRecord, TypeOK
  <2>2. overlaps' \in 0..MaxOverlaps
    BY <1>10, TrailBounds DEF Load, TypeOK
  <2>3. [Idle EXCEPT !.st = "fetch", !.since = mark, !.count = exported].logs = {}
    BY DEF Idle
  <2>4. QED
    BY <1>10, <2>1, <2>2, <2>3, RunStepTyped DEF Load, TypeOK, connector, siem, RunRecord
<1>11. ASSUME NEW x \in Exporters, Fetch(x) PROVE TypeOK'
  <2>1. PICK S \in SUBSET After(run[x].since) :
           run' = [run EXCEPT ![x] = IF S = {} THEN Idle ELSE [@ EXCEPT !.st = "push", !.logs = S]]
    BY <1>11 DEF Fetch
  <2>2. S \subseteq log
    BY DEF After
  <2>3. [run[x] EXCEPT !.st = "push", !.logs = S] \in RunRecord(log)
    BY <2>2 DEF RunRecord
  <2>4. CASE S = {}
    BY <1>11, <2>1, <2>4, RunStepTyped DEF Fetch, TypeOK, connector, history, siem
  <2>5. CASE S # {}
    <3>1. run' = [run EXCEPT ![x] = [run[x] EXCEPT !.st = "push", !.logs = S]]
      BY <2>1, <2>5 DEF TypeOK
    <3>2. /\ [run[x] EXCEPT !.st = "push", !.logs = S].st = "push"
          /\ [run[x] EXCEPT !.st = "push", !.logs = S].logs = S
      <4>1. run[x] \in RunRecord(log)
        OBVIOUS
      <4>2. QED
        BY <4>1 DEF RunRecord
    <3>3. QED
      BY <1>11, <2>3, <2>5, <3>1, <3>2, RunStepTyped DEF Fetch, TypeOK, connector, history, siem
  <2>6. QED
    BY <2>4, <2>5
<1>12. ASSUME NEW x \in Exporters, Push(x) PROVE TypeOK'
  <2>1. [run[x] EXCEPT !.st = "save"] \in RunRecord(log) /\ run[x].logs \subseteq Entries
    BY LogFinite DEF RunRecord
  <2>2. delivered' \in [Entries -> Nat] /\ received' \in Nat
    BY <1>12, <2>1, ReceiveTyped DEF Push
  <2>3. QED
    BY <1>12, <2>1, <2>2, RunStepTyped DEF Push, TypeOK, connector
<1>13. ASSUME NEW x \in Exporters, PushFails(x) PROVE TypeOK'
  <2>1. run[x].logs \subseteq Entries
    BY LogFinite DEF RunRecord
  <2>2. delivered' \in [Entries -> Nat] /\ received' \in Nat
    BY <1>13, <2>1, ReceiveTyped DEF PushFails, TypeOK, siem
  <2>3. QED
    BY <1>13, <2>2, RunStepTyped, FaultTyped DEF PushFails, TypeOK, connector
<1>14. ASSUME NEW x \in Exporters, Save(x) PROVE TypeOK'
  <2>1. run[x].logs \subseteq Entries /\ run[x].logs # {} /\ run[x].count \in Nat
    BY <1>14, LogFinite DEF Save, TypeOK
  <2>2. mark' \in 0..MaxTime /\ exported' \in Nat
    BY <1>14, <2>1, MaxTsIsMax, LogFinite DEF Save
  <2>3. QED
    BY <1>14, <2>2, RunStepTyped DEF Save, TypeOK, history, siem
<1>15. ASSUME NEW x \in Exporters, Crash(x) PROVE TypeOK'
  BY <1>15, RunStepTyped, FaultTyped DEF Crash, TypeOK, connector, history, siem
<1>16. CASE UNCHANGED vars
  BY <1>16 DEF vars, TypeOK
<1>17. QED
  BY <1>1, <1>2, <1>3, <1>4, <1>5, <1>7, <1>8, <1>9, <1>10, <1>11, <1>12, <1>13, <1>14, <1>15,
     <1>16 DEF Next, Export

\* The log only grows, with times that stay; so does what the SIEM has received.
LEMMA LogGrows ==
  ASSUME TypeOK, [Next]_vars
  PROVE  /\ log \subseteq log' /\ late \subseteq late'
         /\ \A e \in log : ts'[e] = ts[e]
         /\ \A e \in Entries : delivered'[e] >= delivered[e]
<1>1. ASSUME NEW S, Receive(S) PROVE \A e \in Entries : delivered'[e] >= delivered[e]
  BY <1>1 DEF Receive, TypeOK
<1>2. \A e \in Entries : delivered[e] >= delivered[e]
  BY DEF TypeOK
<1>3. CASE \E r \in Rows : Begin(r) \/ Commit(r)
  BY <1>2, <1>3 DEF Begin, Commit, Enter, TypeOK, history, siem
<1>4. ASSUME NEW j \in Jobs, Insert(j)
      PROVE  log \subseteq log' /\ late \subseteq late' /\ \A e \in log : ts'[e] = ts[e]
  BY <1>4 DEF Insert, Enter, TypeOK
<1>5. CASE \E j \in Jobs : Insert(j)
  BY <1>2, <1>4, <1>5 DEF Insert, siem
<1>6. CASE \E j \in Jobs : \/ \E batch \in SUBSET Events \ {{}} : Submit(j, batch)
                           \/ Look(j) \/ Collide(j) \/ LoseJob(j)
  BY <1>2, <1>6 DEF Submit, Look, Collide, LoseJob, history, siem
<1>7. CASE \E x \in Exporters : Export(x) \/ PushFails(x) \/ Crash(x)
  BY <1>1, <1>2, <1>7 DEF Export, Load, Fetch, Push, PushFails, Save, Crash, history, siem
<1>8. CASE Tick \/ UNCHANGED vars
  BY <1>2, <1>8 DEF Tick, vars, history, siem
<1>9. QED
  BY <1>3, <1>5, <1>6, <1>7, <1>8 DEF Next

----------------------------------------------------------------------------
(* Ingestion: each collision of a job is with another job, and each time    *)
(* with one that had not stored its events before the job last looked.      *)

Others(j) == {k \in Jobs \ {j} : job[k].st = "done" /\ job[k].batch \intersect job[j].batch # {}}
Known(j) == {k \in Others(j) : job[k].batch \intersect job[j].batch \subseteq job[j].found}

JobInv(j) ==
    /\ job[j].st = "done" => job[j].batch \subseteq log
    /\ job[j].st = "queued" => job[j].tries <= Cardinality(Others(j))
    /\ job[j].st = "insert" => job[j].found \subseteq log /\ job[j].tries <= Cardinality(Known(j))
    /\ job[j].st = "failed" => Cardinality(Others(j)) > Retries[j]

JobsInv ==
    /\ \A j \in Jobs : JobInv(j)
    /\ \A e \in log \cap Events : \E k \in Jobs : job[k].st = "done" /\ e \in job[k].batch

LEMMA OthersFinite ==
  \A j \in Jobs : /\ IsFiniteSet(Others(j)) /\ Cardinality(Others(j)) \in Nat
                  /\ IsFiniteSet(Known(j)) /\ Cardinality(Known(j)) \in Nat
                  /\ IsFiniteSet(Others(j)') /\ Cardinality(Others(j)') \in Nat
                  /\ IsFiniteSet(Known(j)') /\ Cardinality(Known(j)') \in Nat
<1> SUFFICES ASSUME NEW j \in Jobs
             PROVE  \A S \in {Others(j), Known(j), Others(j)', Known(j)'} :
                        IsFiniteSet(S) /\ Cardinality(S) \in Nat
  OBVIOUS
<1>1. \A S \in SUBSET Jobs : IsFiniteSet(S) /\ Cardinality(S) \in Nat
  BY ProcessesAssumption, FS_Subset, FS_CardinalityType
<1>2. QED
  BY <1>1 DEF Others, Known

\* What a step of job i means for the others.
LEMMA OthersGrow ==
  ASSUME TypeOK, NEW i \in Jobs, NEW r \in JobRecord, job' = [job EXCEPT ![i] = r],
         job[i].st # "done"
  PROVE  /\ job'[i] = r
         /\ r.batch = job[i].batch => Others(i)' = Others(i)
         /\ \A j \in Jobs \ {i} :
               /\ job'[j] = job[j]
               /\ Cardinality(Others(j)) <= Cardinality(Others(j)')
               /\ Cardinality(Known(j)) <= Cardinality(Known(j)')
<1>1. job'[i] = r /\ \A j \in Jobs \ {i} : job'[j] = job[j]
  BY DEF TypeOK
<1>2. r.batch = job[i].batch => Others(i)' = Others(i)
  BY <1>1 DEF Others
<1>3. \A j \in Jobs \ {i} : Others(j) \subseteq Others(j)' /\ Known(j) \subseteq Known(j)'
  BY <1>1 DEF Others, Known
<1>4. \A j \in Jobs \ {i} : /\ Cardinality(Others(j)) <= Cardinality(Others(j)')
                            /\ Cardinality(Known(j)) <= Cardinality(Known(j)')
  BY <1>3, OthersFinite, FS_Subset
<1>5. QED
  BY <1>1, <1>2, <1>4

LEMMA JobStepKeeps ==
  ASSUME TypeOK, JobsInv, NEW i \in Jobs, NEW r \in JobRecord, job' = [job EXCEPT ![i] = r],
         job[i].st # "done", log \subseteq log', JobInv(i)',
         \A e \in (log' \ log) \cap Events : r.st = "done" /\ e \in r.batch
  PROVE  JobsInv'
<1>1. job'[i] = r /\ \A j \in Jobs \ {i} : job'[j] = job[j]
  BY OthersGrow
<1>2. ASSUME NEW j \in Jobs \ {i} PROVE JobInv(j)'
  <2>1. /\ job'[j] = job[j]
        /\ Cardinality(Others(j)) <= Cardinality(Others(j)')
        /\ Cardinality(Known(j)) <= Cardinality(Known(j)')
    BY OthersGrow
  <2>2. JobInv(j)
    BY DEF JobsInv
  <2>3. /\ Cardinality(Others(j)) \in Nat /\ Cardinality(Others(j)') \in Nat
        /\ Cardinality(Known(j)) \in Nat /\ Cardinality(Known(j)') \in Nat
        /\ job[j].tries \in Nat /\ Retries[j] \in Nat
    BY OthersFinite, RetriesAssumption DEF TypeOK
  <2>4. QED
    BY <2>1, <2>2, <2>3 DEF JobInv
<1>3. \A e \in log' \cap Events : \E k \in Jobs : job'[k].st = "done" /\ e \in job'[k].batch
  BY <1>1 DEF JobsInv
<1>4. QED
  BY <1>2, <1>3 DEF JobsInv

LEMMA JobsRest ==
  ASSUME TypeOK, JobsInv, UNCHANGED job, log \subseteq log', log' \cap Events = log \cap Events
  PROVE  JobsInv'
<1>1. \A j \in Jobs : Others(j)' = Others(j) /\ Known(j)' = Known(j)
  BY DEF Others, Known
<1>2. \A j \in Jobs : JobInv(j)'
  BY <1>1 DEF JobsInv, JobInv
<1>3. QED
  BY <1>2 DEF JobsInv

LEMMA JobsInit == Init => JobsInv
BY DEF Init, JobsInv, JobInv, NoJob

\* A collision is with a job that the colliding one did not know.
LEMMA CollisionCounts ==
  ASSUME TypeOK, JobsInv, NEW j \in Jobs, job[j].st = "insert", New(j) \intersect log # {}
  PROVE  Cardinality(Known(j)) + 1 <= Cardinality(Others(j))
<1>1. PICK e \in New(j) \cap log : TRUE
  OBVIOUS
<1>2. e \in job[j].batch /\ e \notin job[j].found /\ e \in Events
  BY <1>1 DEF New, TypeOK
<1>3. PICK k \in Jobs : job[k].st = "done" /\ e \in job[k].batch
  BY <1>1, <1>2 DEF JobsInv
<1>4. k \in Others(j) /\ k \notin Known(j)
  BY <1>2, <1>3 DEF Others, Known
<1>5. Known(j) \cup {k} \subseteq Others(j)
  BY <1>4 DEF Known
<1>6. Cardinality(Known(j) \cup {k}) = Cardinality(Known(j)) + 1
  BY <1>4, OthersFinite, FS_AddElement
<1>7. Cardinality(Known(j) \cup {k}) <= Cardinality(Others(j))
  BY <1>5, OthersFinite, FS_Subset
<1>8. QED
  BY <1>6, <1>7

LEMMA JobsStep == TypeOK /\ JobsInv /\ [Next]_vars => JobsInv'
<1> SUFFICES ASSUME TypeOK, JobsInv, [Next]_vars PROVE JobsInv'
  OBVIOUS
<1>1. log \subseteq log'
  BY LogGrows
<1>2. CASE \/ Tick \/ UNCHANGED vars \/ \E r \in Rows : Begin(r)
           \/ \E x \in Exporters : Export(x) \/ PushFails(x) \/ Crash(x)
  <2>1. UNCHANGED <<job, log>>
    BY <1>2 DEF Tick, vars, Begin, Export, Load, Fetch, Push, Save, PushFails, Crash
  <2>2. QED
    BY <2>1, JobsRest
<1>3. CASE \E r \in Rows : Commit(r)
  <2>1. UNCHANGED job /\ log' \cap Events = log \cap Events
    BY <1>3, EntriesAssumption DEF Commit, Enter
  <2>2. QED
    BY <1>1, <2>1, JobsRest
<1>4. ASSUME NEW j \in Jobs, NEW batch \in SUBSET Events, Submit(j, batch) PROVE JobsInv'
  <2> DEFINE r == [NoJob EXCEPT !.st = "queued", !.batch = batch]
  <2>1. r \in JobRecord /\ r.st = "queued" /\ r.tries = 0
    BY RecordsTyped DEF JobRecord, NoJob
  <2>2. job' = [job EXCEPT ![j] = r] /\ job[j].st = "none" /\ log' = log
    BY <1>4 DEF Submit
  <2> HIDE DEF r
  <2>3. JobInv(j)'
    BY <2>1, <2>2, OthersGrow, OthersFinite DEF JobInv
  <2>4. QED
    BY <2>1, <2>2, <2>3, JobStepKeeps
<1>5. ASSUME NEW j \in Jobs, Look(j) PROVE JobsInv'
  <2>1. PICK r \in JobRecord : /\ r.st = "insert" /\ r.found = job[j].batch \cap log
                               /\ r.batch = job[j].batch /\ r.tries = job[j].tries
                               /\ job' = [job EXCEPT ![j] = r]
    <3> DEFINE r == [job[j] EXCEPT !.st = "insert", !.found = job[j].batch \intersect log]
    <3>1. job[j] \in JobRecord
      BY RecordsTyped
    <3>2. r \in JobRecord /\ job' = [job EXCEPT ![j] = r]
      BY <1>5, <3>1 DEF Look, TypeOK, JobRecord
    <3>3. QED
      BY <3>1, <3>2 DEF JobRecord
  <2>2. job[j].st = "queued" /\ log' = log
    BY <1>5 DEF Look
  <2>3. Others(j)' = Others(j) /\ job'[j] = r /\ \A k \in Jobs \ {j} : job'[k] = job[k]
    BY <2>1, <2>2, OthersGrow
  <2>4. Known(j)' = Others(j)'
    <3>1. \A k \in Others(j) : job[k].batch \subseteq log
      BY DEF Others, JobsInv, JobInv
    <3>2. \A k \in Others(j)' : job'[k].batch \cap job'[j].batch \subseteq job'[j].found
      BY <2>1, <2>3, <3>1 DEF Others
    <3>3. QED
      BY <3>2 DEF Known
  <2>5. job[j].tries <= Cardinality(Others(j))
    BY <2>2 DEF JobsInv, JobInv
  <2>6. JobInv(j)'
    BY <2>1, <2>2, <2>3, <2>4, <2>5 DEF JobInv
  <2>7. QED
    BY <2>1, <2>2, <2>6, JobStepKeeps
<1>6. ASSUME NEW j \in Jobs, NEW st \in {"done", "failed", "lost"}, End(j, st)
      PROVE  \E r \in JobRecord : /\ r.st = st /\ r.batch = job[j].batch
                                  /\ job' = [job EXCEPT ![j] = r]
  BY <1>6, RecordsTyped DEF End, JobRecord, NoJob
<1>7. ASSUME NEW j \in Jobs, Insert(j) PROVE JobsInv'
  <2>1. PICK r \in JobRecord : r.st = "done" /\ r.batch = job[j].batch /\ job' = [job EXCEPT ![j] = r]
    BY <1>6, <1>7 DEF Insert
  <2>2. job[j].st = "insert" /\ log' = log \cup New(j)
    BY <1>7 DEF Insert, Enter
  <2>3. job[j].found \subseteq log
    BY <2>2 DEF JobsInv, JobInv
  <2>4. JobInv(j)'
    BY <2>1, <2>2, <2>3, OthersGrow DEF JobInv, New
  <2>5. QED
    BY <1>1, <2>1, <2>2, <2>4, JobStepKeeps DEF New
<1>8. ASSUME NEW j \in Jobs, Collide(j) PROVE JobsInv'
  <2>1. job[j].st = "insert" /\ log' = log /\ New(j) \intersect log # {}
    BY <1>8 DEF Collide
  <2>2. job[j].tries + 1 <= Cardinality(Others(j)) /\ job[j].tries \in Nat
    <3>1. job[j].tries <= Cardinality(Known(j)) /\ job[j].tries \in Nat
      BY <2>1 DEF JobsInv, JobInv, TypeOK
    <3>2. Cardinality(Known(j)) + 1 <= Cardinality(Others(j))
      BY <2>1, CollisionCounts
    <3>3. QED
      BY <3>1, <3>2, OthersFinite
  <2>3. CASE job[j].tries < Retries[j]
    <3>1. PICK r \in JobRecord : /\ r.st = "queued" /\ r.batch = job[j].batch /\ r.tries = job[j].tries + 1
                                 /\ job' = [job EXCEPT ![j] = r]
      <4>1. job[j] \in JobRecord
        BY RecordsTyped
      <4>2. PICK n \in Nat : n = job[j].tries + 1
        BY <2>2
      <4>3. [job[j] EXCEPT !.st = "queued", !.found = {}, !.tries = n] \in JobRecord
        BY <4>1 DEF JobRecord
      <4>4. job' = [job EXCEPT ![j] = [job[j] EXCEPT !.st = "queued", !.found = {}, !.tries = n]]
        BY <1>8, <2>3, <4>2 DEF Collide, TypeOK
      <4>5. QED
        BY <4>1, <4>2, <4>3, <4>4 DEF JobRecord
    <3>2. JobInv(j)'
      BY <2>1, <2>2, <3>1, OthersGrow DEF JobInv
    <3>3. QED
      BY <2>1, <3>1, <3>2, JobStepKeeps
  <2>4. CASE ~(job[j].tries < Retries[j])
    <3>1. PICK r \in JobRecord : r.st = "failed" /\ r.batch = job[j].batch /\ job' = [job EXCEPT ![j] = r]
      BY <1>6, <1>8, <2>4 DEF Collide
    <3>2. Cardinality(Others(j)) > Retries[j]
      BY <2>2, <2>4, OthersFinite, RetriesAssumption
    <3>3. JobInv(j)'
      BY <2>1, <3>1, <3>2, OthersGrow DEF JobInv
    <3>4. QED
      BY <2>1, <3>1, <3>3, JobStepKeeps
  <2>5. QED
    BY <2>3, <2>4
<1>9. ASSUME NEW j \in Jobs, LoseJob(j) PROVE JobsInv'
  <2>1. PICK r \in JobRecord : r.st = "lost" /\ r.batch = job[j].batch /\ job' = [job EXCEPT ![j] = r]
    BY <1>6, <1>9 DEF LoseJob
  <2>2. job[j].st = "queued" /\ log' = log
    BY <1>9 DEF LoseJob
  <2>3. JobInv(j)'
    BY <2>1, <2>2, OthersGrow DEF JobInv
  <2>4. QED
    BY <2>1, <2>2, <2>3, JobStepKeeps
<1>10. QED
  BY <1>2, <1>3, <1>4, <1>5, <1>7, <1>8, <1>9 DEF Next

----------------------------------------------------------------------------
(* The watermark: an entry the exports may still skip is later than the     *)
(* watermark, than the one each run has read and than each batch without it.*)

Behind(x, e) == run[x].logs # {} /\ \A f \in run[x].logs : ts[f] < ts[e]
Fine(e) == delivered[e] > 0 \/ e \in late \/ Tied(e)

Ahead(e) ==
    /\ ts[e] > mark
    /\ \A x \in Exporters :
          /\ run[x].st = "fetch" => ts[e] > run[x].since
          /\ run[x].logs # {} => e \in run[x].logs \/ Behind(x, e)

SkipInv ==
    /\ \A e \in log : Fine(e) \/ Ahead(e)
    /\ \A x \in Exporters : run[x].st = "save" => \A e \in run[x].logs : delivered[e] > 0

LEMMA FineStays ==
  ASSUME TypeOK, [Next]_vars, NEW e \in log, Fine(e)
  PROVE  Fine(e)'
<1>1. /\ log \subseteq log' /\ late \subseteq late' /\ \A f \in log : ts'[f] = ts[f]
      /\ delivered'[e] >= delivered[e] /\ delivered[e] \in Nat
  BY LogGrows DEF TypeOK
<1>2. CASE delivered[e] > 0
  <2>1. delivered'[e] > 0
    BY <1>1, <1>2, TypedStep DEF TypeOK
  <2>2. QED
    BY <2>1 DEF Fine
<1>3. CASE e \in late
  BY <1>1, <1>3 DEF Fine
<1>4. CASE Tied(e)
  BY <1>1, <1>4 DEF Fine, Tied
<1>5. QED
  BY <1>2, <1>3, <1>4 DEF Fine

LEMMA SkipInit == Init => SkipInv
BY DEF Init, SkipInv, Idle

\* A step that leaves the exporter alone and adds no entry that was not passed.
LEMMA SkipRest ==
  ASSUME TypeOK, SkipInv, [Next]_vars, UNCHANGED <<run, mark, delivered>>,
         \A e \in log' \ log : e \in late' \/ Ahead(e)'
  PROVE  SkipInv'
<1>1. log \subseteq log' /\ \A f \in log : ts'[f] = ts[f]
  BY LogGrows
<1>2. \A x \in Exporters : run[x].logs \subseteq log
  BY DEF TypeOK
<1>3. ASSUME NEW e \in log PROVE (Fine(e) \/ Ahead(e))'
  <2>1. CASE Fine(e)
    BY <2>1, FineStays
  <2>2. CASE Ahead(e)
    <3>1. \A x \in Exporters : Behind(x, e) => Behind(x, e)'
      BY <1>1, <1>2 DEF Behind
    <3>2. Ahead(e)'
      BY <1>1, <2>2, <3>1 DEF Ahead
    <3>3. QED
      BY <3>2
  <2>3. QED
    BY <2>1, <2>2 DEF SkipInv
<1>4. \A e \in log' : (Fine(e) \/ Ahead(e))'
  BY <1>3 DEF Fine
<1>5. QED
  BY <1>4 DEF SkipInv

\* A step of one run.
LEMMA SkipRun ==
  ASSUME TypeOK, SkipInv, [Next]_vars, UNCHANGED <<ts, log>>,
         NEW x \in Exporters, NEW r \in RunRecord(log), run' = [run EXCEPT ![x] = r],
         \A e \in log : ~Fine(e)' /\ Ahead(e) =>
             /\ ts[e] > mark'
             /\ r.st = "fetch" => ts[e] > r.since
             /\ r.logs # {} => e \in r.logs \/ \A f \in r.logs : ts[f] < ts[e],
         r.st = "save" => \A e \in r.logs : delivered'[e] > 0
  PROVE  SkipInv'
<1>1. run'[x] = r /\ \A y \in Exporters \ {x} : run'[y] = run[y]
  BY DEF TypeOK
<1>2. ASSUME NEW e \in log PROVE (Fine(e) \/ Ahead(e))'
  <2>1. CASE Fine(e)
    BY <2>1, FineStays
  <2>2. CASE Ahead(e) /\ ~Fine(e)'
    <3>1. \A y \in Exporters \ {x} : Behind(y, e)' = Behind(y, e)
      BY <1>1 DEF Behind
    <3>2. Behind(x, e)' = (r.logs # {} /\ \A f \in r.logs : ts[f] < ts[e])
      BY <1>1 DEF Behind
    <3>3. Ahead(e)'
      BY <1>1, <2>2, <3>1, <3>2 DEF Ahead
    <3>4. QED
      BY <3>3
  <2>3. QED
    BY <2>1, <2>2 DEF SkipInv
<1>3. ASSUME NEW y \in Exporters, run'[y].st = "save", NEW e \in run'[y].logs
      PROVE  delivered'[e] > 0
  <2>1. CASE y = x
    BY <1>1, <1>3, <2>1
  <2>2. CASE y # x
    <3>1. delivered[e] > 0 /\ e \in Entries
      BY <1>1, <1>3, <2>2, LogFinite DEF SkipInv, TypeOK
    <3>2. delivered[e] \in Nat /\ delivered'[e] \in Nat /\ delivered'[e] >= delivered[e]
      BY <3>1, LogGrows, TypedStep DEF TypeOK
    <3>3. QED
      BY <3>1, <3>2
  <2>3. QED
    BY <2>1, <2>2
<1>4. QED
  BY <1>2, <1>3 DEF SkipInv

\* An entry that comes in time is ahead of every export.
LEMMA EntersAhead ==
  ASSUME TypeOK, [Next]_vars, NEW S \in SUBSET Entries, NEW times \in [S -> Nat], Enter(S, times),
         UNCHANGED <<run, mark>>, NEW e \in S, ts'[e] = times[e]
  PROVE  e \in late' \/ Ahead(e)'
<1> SUFFICES ASSUME ~Passed(times[e]) PROVE Ahead(e)'
  BY DEF Enter
<1>1. times[e] > mark /\ times[e] \in Nat
  BY DEF Passed, TypeOK
<1>2. ASSUME NEW x \in Exporters
      PROVE  /\ run[x].st = "fetch" => times[e] > run[x].since
             /\ run[x].logs # {} => Behind(x, e)'
  <2>1. ~(times[e] <= IF run[x].logs = {} THEN run[x].since ELSE MaxTs(run[x].logs))
    BY DEF Passed
  <2>2. CASE run[x].logs = {}
    BY <1>1, <2>1, <2>2 DEF TypeOK
  <2>3. CASE run[x].logs # {}
    <3>1. run[x].logs \subseteq log /\ run[x].logs \subseteq Entries /\ run[x].st # "fetch"
      BY <2>3, LogFinite DEF TypeOK
    <3>2. MaxTs(run[x].logs) \in Nat /\ \A f \in run[x].logs : ts[f] <= MaxTs(run[x].logs) /\ ts[f] \in Nat
      BY <2>3, <3>1, MaxTsIsMax DEF TypeOK
    <3>3. \A f \in run[x].logs : ts'[f] < times[e]
      BY <1>1, <2>1, <2>3, <3>1, <3>2, LogGrows
    <3>4. QED
      BY <2>3, <3>1, <3>3 DEF Behind
  <2>4. QED
    BY <2>2, <2>3
<1>3. QED
  BY <1>1, <1>2 DEF Ahead

LEMMA SkipStep == TypeOK /\ SkipInv /\ [Next]_vars => SkipInv'
<1> SUFFICES ASSUME TypeOK, SkipInv, [Next]_vars PROVE SkipInv'
  OBVIOUS
<1> USE RecordsTyped
<1>1. CASE \/ Tick \/ UNCHANGED vars \/ \E r \in Rows : Begin(r)
           \/ \E j \in Jobs : \/ \E batch \in SUBSET Events \ {{}} : Submit(j, batch)
                              \/ Look(j) \/ Collide(j) \/ LoseJob(j)
  <2>1. UNCHANGED <<log, run, mark, delivered>>
    BY <1>1 DEF Tick, vars, Begin, Submit, Look, Collide, LoseJob, connector, history, siem
  <2>2. QED
    BY <2>1, SkipRest
<1>2. ASSUME NEW r \in Rows, Commit(r) PROVE SkipInv'
  <2>1. UNCHANGED <<run, mark, delivered, ts>> /\ Enter({r}, ts) /\ log' \ log = {r} /\ r \in Entries
    BY <1>2 DEF Commit, Enter, connector, siem, Entries
  <2>2. r \in late' \/ Ahead(r)'
    <3>1. PICK times \in [{r} -> Nat] : times[r] = ts[r]
      <4>1. [e \in {r} |-> ts[r]] \in [{r} -> Nat]
        BY <2>1 DEF TypeOK
      <4>2. QED
        BY <4>1
    <3>2. Enter({r}, times)
      BY <2>1, <3>1 DEF Enter
    <3>3. QED
      BY <2>1, <3>1, <3>2, EntersAhead
  <2>3. QED
    BY <2>1, <2>2, SkipRest
<1>3. ASSUME NEW j \in Jobs, Insert(j) PROVE SkipInv'
  <2>1. PICK S \in SUBSET Entries : S = New(j)
    BY DEF New, JobRecord, Entries
  <2>2. PICK times \in [S -> Times] :
           /\ ts' = [e \in Entries |-> IF e \in S THEN times[e] ELSE ts[e]]
           /\ Enter(S, times)
    BY <1>3, <2>1 DEF Insert
  <2>3. UNCHANGED <<run, mark, delivered>>
    BY <1>3 DEF Insert, connector, siem
  <2>4. ASSUME NEW e \in S PROVE e \in late' \/ Ahead(e)'
    <3>1. times \in [S -> Nat] /\ ts'[e] = times[e]
      BY <2>2 DEF Times
    <3>2. QED
      BY <2>2, <2>3, <3>1, EntersAhead
  <2>5. QED
    BY <2>2, <2>3, <2>4, SkipRest DEF Enter
<1>4. ASSUME NEW x \in Exporters, Load(x) PROVE SkipInv'
  <2>1. PICK r \in RunRecord(log) : /\ r.st = "fetch" /\ r.since = mark /\ r.logs = {}
                                    /\ run' = [run EXCEPT ![x] = r]
    <3>1. [Idle EXCEPT !.st = "fetch", !.since = mark, !.count = exported] \in RunRecord(log)
      BY DEF RunRecord, TypeOK
    <3>2. QED
      BY <1>4, <3>1 DEF Load, RunRecord, Idle
  <2>2. UNCHANGED <<ts, log, mark>>
    BY <1>4 DEF Load, connector
  <2>3. QED
    BY <2>1, <2>2, SkipRun DEF Ahead
<1>5. ASSUME NEW x \in Exporters, Fetch(x) PROVE SkipInv'
  <2>1. PICK S \in SUBSET After(run[x].since) :
           /\ Oldest(S, run[x].since)
           /\ run' = [run EXCEPT ![x] = IF S = {} THEN Idle ELSE [@ EXCEPT !.st = "push", !.logs = S]]
    BY <1>5 DEF Fetch
  <2>2. UNCHANGED <<ts, log, mark, delivered, late>> /\ run[x].st = "fetch" /\ S \subseteq log
    BY <1>5 DEF Fetch, connector, history, siem, After
  <2>3. CASE S = {}
    BY <2>1, <2>2, <2>3, SkipRun DEF Ahead
  <2>4. CASE S # {}
    <3>1. PICK r \in RunRecord(log) : r.st = "push" /\ r.logs = S /\ run' = [run EXCEPT ![x] = r]
      <4>1. run[x] \in RunRecord(log)
        OBVIOUS
      <4>2. [run[x] EXCEPT !.st = "push", !.logs = S] \in RunRecord(log)
        BY <2>2, <4>1 DEF RunRecord
      <4>3. QED
        BY <2>1, <2>4, <4>1, <4>2 DEF RunRecord, TypeOK
    <3>2. ASSUME NEW e \in log, ~Fine(e)', Ahead(e), e \notin S PROVE \A f \in S : ts[f] < ts[e]
      <4>1. e \in After(run[x].since)
        BY <2>2, <3>2 DEF Ahead, After
      <4>2. \A f \in S : ts[f] <= ts[e]
        BY <2>1, <3>2, <4>1 DEF Oldest
      <4>3. \A f \in S : ts[f] # ts[e]
        BY <2>2, <3>2 DEF Fine, Tied
      <4>4. \A f \in S : ts[f] \in Nat /\ ts[e] \in Nat
        BY <2>2, LogFinite DEF TypeOK
      <4>5. QED
        BY <4>2, <4>3, <4>4
    <3>3. QED
      BY <2>2, <3>1, <3>2, SkipRun DEF Ahead
  <2>5. QED
    BY <2>3, <2>4
<1>6. ASSUME NEW x \in Exporters, Push(x) PROVE SkipInv'
  <2>1. PICK r \in RunRecord(log) : r.st = "save" /\ r.logs = run[x].logs /\ run' = [run EXCEPT ![x] = r]
    <3>1. run[x] \in RunRecord(log)
      OBVIOUS
    <3>2. QED
      BY <1>6, <3>1 DEF Push, RunRecord, TypeOK
  <2>2. UNCHANGED <<ts, log, mark>> /\ Receive(run[x].logs)
    BY <1>6 DEF Push, connector
  <2>3. \A e \in run[x].logs : delivered'[e] > 0
    BY <2>2, LogFinite DEF Receive, TypeOK
  <2>4. ASSUME NEW e \in log, Ahead(e)
        PROVE  r.logs # {} => e \in r.logs \/ \A f \in r.logs : ts[f] < ts[e]
    BY <2>1, <2>4 DEF Ahead, Behind
  <2>5. \A e \in log : Ahead(e) => ts[e] > mark'
    BY <2>2 DEF Ahead
  <2>6. QED
    BY <2>1, <2>2, <2>3, <2>4, <2>5, SkipRun
<1>7. ASSUME NEW x \in Exporters, PushFails(x) \/ Crash(x) PROVE SkipInv'
  <2>1. UNCHANGED <<ts, log, mark>> /\ run' = [run EXCEPT ![x] = Idle]
    BY <1>7 DEF PushFails, Crash, connector
  <2>2. QED
    BY <2>1, SkipRun DEF Ahead
<1>8. ASSUME NEW x \in Exporters, Save(x) PROVE SkipInv'
  <2>1. /\ UNCHANGED <<ts, log, delivered>> /\ run' = [run EXCEPT ![x] = Idle]
        /\ mark' = MaxTs(run[x].logs) /\ run[x].st = "save"
        /\ run[x].logs # {} /\ run[x].logs \subseteq log /\ run[x].logs \subseteq Entries
    BY <1>8, LogFinite DEF Save, TypeOK, history, siem
  <2>2. ASSUME NEW e \in log, ~Fine(e)', Ahead(e) PROVE ts[e] > mark'
    <3>1. e \notin run[x].logs
      BY <2>1, <2>2 DEF SkipInv, Fine
    <3>2. Behind(x, e)
      BY <2>1, <2>2, <3>1 DEF Ahead
    <3>3. \E f \in run[x].logs : ts[f] = mark'
      BY <2>1, MaxTsIsMax
    <3>4. QED
      BY <3>2, <3>3 DEF Behind
  <2>3. QED
    BY <2>1, <2>2, SkipRun
<1>9. QED
  BY <1>1, <1>2, <1>3, <1>4, <1>5, <1>6, <1>7, <1>8 DEF Next, Export

----------------------------------------------------------------------------
(* The counter: what a run will save is never more than what was received,  *)
(* and is all of it while runs neither overlap nor fail.                    *)

WillSave(x) == run[x].count + (IF run[x].st = "save" THEN Cardinality(run[x].logs) ELSE 0)

CountInv ==
    /\ exported <= received
    /\ \A x \in Busy : WillSave(x) <= received
    /\ overlaps = 0 /\ faults = 0 =>
          /\ \A x, y \in Busy : x = y
          /\ Busy = {} => exported = received
          /\ \A x \in Busy : WillSave(x) = received
          /\ \A x \in Busy : run[x].st = "fetch" => exported = received

LEMMA CountInit == Init => CountInv
BY DEF Init, CountInv, Busy, Idle

LEMMA WillSaveIsNat ==
  ASSUME TypeOK
  PROVE  \A x \in Exporters : WillSave(x) \in Nat
BY LogFinite DEF TypeOK, WillSave

\* A step that leaves the exporter alone, but may be a fault.
LEMMA CountRest ==
  ASSUME TypeOK, CountInv, UNCHANGED <<run, exported, received, overlaps>>,
         faults' = faults \/ faults' > 0
  PROVE  CountInv'
<1>1. Busy' = Busy /\ \A x \in Exporters : WillSave(x)' = WillSave(x)
  BY DEF Busy, WillSave
<1>2. Busy \subseteq Exporters
  BY DEF Busy
<1>3. QED
  BY <1>1, <1>2 DEF CountInv

\* A step of one run.
LEMMA CountRun ==
  ASSUME TypeOK, CountInv, NEW x \in Exporters, NEW r \in RunRecord(log),
         run' = [run EXCEPT ![x] = r], NEW w \in Nat,
         r.st = "save" => w = r.count + Cardinality(r.logs), r.st # "save" => w = r.count,
         received' \in Nat, received' >= received, exported' <= received',
         r.st # "idle" => w <= received',
         overlaps' = 0 /\ faults' = 0 =>
             /\ Busy \subseteq {x}
             /\ r.st \in {"idle", "fetch"} => exported' = received'
             /\ r.st # "idle" => w = received'
  PROVE  CountInv'
<1>1. run'[x] = r /\ \A y \in Exporters \ {x} : run'[y] = run[y]
  BY DEF TypeOK
<1>2. WillSave(x)' = w /\ \A y \in Exporters \ {x} : WillSave(y)' = WillSave(y)
  BY <1>1 DEF WillSave
<1>3. Busy' \ {x} = Busy \ {x} /\ (x \in Busy' <=> r.st # "idle") /\ Busy' \subseteq Exporters
  BY <1>1 DEF Busy
<1>4. \A y \in Busy' : WillSave(y)' <= received'
  <2>1. \A y \in Busy \ {x} : WillSave(y) <= received /\ WillSave(y) \in Nat
    BY WillSaveIsNat DEF CountInv, Busy
  <2>2. received \in Nat
    BY DEF TypeOK
  <2>3. \A y \in Busy' \ {x} : WillSave(y)' <= received'
    BY <1>2, <1>3, <2>1, <2>2
  <2>4. QED
    BY <1>2, <1>3, <2>3
<1>5. ASSUME overlaps' = 0 /\ faults' = 0
      PROVE  /\ \A y, z \in Busy' : y = z
             /\ Busy' = {} => exported' = received'
             /\ \A y \in Busy' : WillSave(y)' = received'
             /\ \A y \in Busy' : run'[y].st = "fetch" => exported' = received'
  <2>1. Busy' \subseteq {x}
    BY <1>3, <1>5
  <2>2. QED
    BY <1>1, <1>2, <1>3, <1>5, <2>1
<1>6. QED
  BY <1>4, <1>5 DEF CountInv

LEMMA CountStep == TypeOK /\ CountInv /\ [Next]_vars => CountInv'
<1> SUFFICES ASSUME TypeOK, CountInv, [Next]_vars PROVE CountInv'
  OBVIOUS
<1> USE RecordsTyped
<1>1. CASE \/ Tick \/ UNCHANGED vars \/ \E r \in Rows : Begin(r) \/ Commit(r)
           \/ \E j \in Jobs : \/ \E batch \in SUBSET Events \ {{}} : Submit(j, batch)
                              \/ Look(j) \/ Insert(j) \/ Collide(j) \/ LoseJob(j)
  <2>1. UNCHANGED <<run, exported, received, overlaps>>
    BY <1>1 DEF Tick, vars, Begin, Commit, Submit, Look, Insert, Collide, LoseJob, connector, history, siem
  <2>2. faults' = faults \/ Fault
    BY <1>1 DEF Tick, vars, Begin, Commit, Submit, Look, Insert, Collide, LoseJob
  <2>3. faults' = faults \/ faults' > 0
    BY <2>2, FaultTyped DEF TypeOK
  <2>4. QED
    BY <2>1, <2>3, CountRest
<1>2. received \in Nat /\ exported \in Nat
  BY DEF TypeOK
<1>3. ASSUME NEW x \in Exporters, Load(x) PROVE CountInv'
  <2>1. PICK r \in RunRecord(log) : /\ r.st = "fetch" /\ r.count = exported
                                    /\ run' = [run EXCEPT ![x] = r]
    <3>1. [Idle EXCEPT !.st = "fetch", !.since = mark, !.count = exported] \in RunRecord(log)
      BY DEF RunRecord, TypeOK
    <3>2. QED
      BY <1>3, <3>1 DEF Load, RunRecord, Idle
  <2>2. UNCHANGED <<exported, received, faults>>
    BY <1>3 DEF Load, connector, siem
  <2>3. overlaps' = 0 => Busy = {} /\ overlaps = 0
    BY <1>3 DEF Load, TypeOK
  <2>4. exported <= received
    BY DEF CountInv
  <2>5. overlaps' = 0 /\ faults' = 0 => exported = received
    BY <2>2, <2>3 DEF CountInv
  <2>6. QED
    <3>1. PICK w \in Nat : w = exported
      BY <1>2
    <3>2. r.st # "save" /\ w = r.count /\ w <= received'
      BY <2>1, <2>2, <2>4, <3>1
    <3>3. overlaps' = 0 /\ faults' = 0 => Busy \subseteq {x} /\ exported' = received' /\ w = received'
      BY <2>2, <2>3, <2>5, <3>1
    <3>4. received' \in Nat /\ received' >= received /\ exported' <= received'
      BY <1>2, <2>2, <2>4
    <3>5. QED
      BY <2>1, <3>2, <3>3, <3>4, CountRun
<1>4. ASSUME NEW x \in Exporters, Fetch(x) PROVE CountInv'
  <2>1. UNCHANGED <<exported, received, faults, overlaps>> /\ run[x].st = "fetch" /\ x \in Busy
    BY <1>4 DEF Fetch, connector, history, siem, Busy
  <2>2. PICK r \in RunRecord(log) : /\ r = Idle \/ (r.st = "push" /\ r.count = run[x].count)
                                    /\ run' = [run EXCEPT ![x] = r]
    <3>1. PICK S \in SUBSET After(run[x].since) :
             run' = [run EXCEPT ![x] = IF S = {} THEN Idle ELSE [@ EXCEPT !.st = "push", !.logs = S]]
      BY <1>4 DEF Fetch
    <3>2. S \subseteq log
      BY DEF After
    <3>3. run[x] \in RunRecord(log)
      OBVIOUS
    <3>4. [run[x] EXCEPT !.st = "push", !.logs = S] \in RunRecord(log)
      BY <3>2, <3>3 DEF RunRecord
    <3>5. QED
      BY <3>1, <3>3, <3>4 DEF RunRecord, TypeOK
  <2>3. WillSave(x) = run[x].count /\ run[x].count \in Nat
    BY <2>1 DEF WillSave, TypeOK
  <2>4. exported <= received /\ run[x].count <= received
    BY <2>1, <2>3 DEF CountInv
  <2>5. overlaps' = 0 /\ faults' = 0 => /\ Busy \subseteq {x}
                                        /\ exported = received /\ run[x].count = received
    BY <2>1, <2>3 DEF CountInv
  <2>6. CASE r = Idle
    <3>1. r.st = "idle" /\ r.count = 0
      BY <2>6 DEF Idle
    <3>2. 0 \in Nat /\ received' >= received /\ received' \in Nat /\ exported' <= received'
      BY <1>2, <2>1, <2>4
    <3>3. r.st # "save" /\ r.st = "idle" /\ 0 = r.count
      BY <3>1
    <3>4. overlaps' = 0 /\ faults' = 0 => Busy \subseteq {x} /\ exported' = received'
      BY <2>1, <2>5
    <3>5. QED
      BY <2>2, <3>2, <3>3, <3>4, CountRun
  <2>7. CASE r.st = "push" /\ r.count = run[x].count
    <3>1. PICK w \in Nat : w = run[x].count
      BY <2>3
    <3>2. r.st # "save" /\ r.st # "idle" /\ r.st # "fetch" /\ w = r.count
      BY <2>7, <3>1
    <3>3. w <= received' /\ received' >= received /\ received' \in Nat /\ exported' <= received'
      BY <1>2, <2>1, <2>4, <3>1
    <3>4. overlaps' = 0 /\ faults' = 0 => Busy \subseteq {x} /\ w = received'
      BY <2>1, <2>5, <3>1
    <3>5. QED
      BY <2>2, <3>2, <3>3, <3>4, CountRun
  <2>8. QED
    BY <2>2, <2>6, <2>7
<1>5. ASSUME NEW x \in Exporters, Push(x) PROVE CountInv'
  <2>1. PICK r \in RunRecord(log) : /\ r.st = "save" /\ r.logs = run[x].logs /\ r.count = run[x].count
                                    /\ run' = [run EXCEPT ![x] = r]
    <3>1. run[x] \in RunRecord(log)
      OBVIOUS
    <3>2. QED
      BY <1>5, <3>1 DEF Push, RunRecord, TypeOK
  <2>2. PICK n \in Nat : n = Cardinality(run[x].logs)
    BY LogFinite DEF RunRecord
  <2>3. /\ UNCHANGED <<exported, faults, overlaps>> /\ run[x].st = "push" /\ x \in Busy
        /\ received' = received + n
    BY <1>5, <2>2 DEF Push, connector, Busy, Receive
  <2>4. WillSave(x) = run[x].count /\ run[x].count \in Nat
    BY <2>3 DEF WillSave, TypeOK
  <2>5. exported <= received /\ run[x].count <= received
    BY <2>3, <2>4 DEF CountInv
  <2>6. overlaps' = 0 /\ faults' = 0 => Busy \subseteq {x} /\ run[x].count = received
    BY <2>3, <2>4 DEF CountInv
  <2>7. run[x].count + n \in Nat /\ run[x].count + n <= received' /\ exported' <= received'
    BY <1>2, <2>3, <2>4, <2>5
  <2>8. QED
    <3>1. PICK w \in Nat : w = run[x].count + n
      BY <2>7
    <3>2. r.st = "save" /\ w = r.count + Cardinality(r.logs)
      BY <2>1, <2>2, <3>1
    <3>3. w <= received' /\ received' >= received /\ received' \in Nat /\ exported' <= received'
      BY <1>2, <2>2, <2>3, <2>7, <3>1
    <3>4. overlaps' = 0 /\ faults' = 0 => Busy \subseteq {x} /\ w = received'
      BY <2>3, <2>6, <3>1
    <3>5. QED
      BY <2>1, <3>2, <3>3, <3>4, CountRun
<1>6. ASSUME NEW x \in Exporters, PushFails(x) \/ Crash(x) PROVE CountInv'
  <2>1. /\ UNCHANGED <<exported, overlaps>> /\ run' = [run EXCEPT ![x] = Idle] /\ Fault
        /\ UNCHANGED received \/ Receive(run[x].logs)
    BY <1>6 DEF PushFails, Crash, connector, history, siem
  <2>2. Cardinality(run[x].logs) \in Nat
    BY LogFinite DEF RunRecord
  <2>3. received' \in Nat /\ received' >= received /\ faults' # 0
    BY <1>2, <2>1, <2>2, FaultTyped DEF Receive, TypeOK
  <2>4. exported' <= received'
    BY <1>2, <2>1, <2>3 DEF CountInv
  <2>5. Idle.st = "idle" /\ Idle.count = 0
    BY DEF Idle
  <2>6. QED
    <3>1. 0 \in Nat /\ Idle \in RunRecord(log) /\ Idle.st # "save" /\ 0 = Idle.count
      BY <2>5
    <3>2. QED
      BY <2>1, <2>3, <2>4, <2>5, <3>1, CountRun
<1>7. ASSUME NEW x \in Exporters, Save(x) PROVE CountInv'
  <2>1. /\ UNCHANGED <<received, overlaps, faults>> /\ run' = [run EXCEPT ![x] = Idle]
        /\ exported' = WillSave(x) /\ x \in Busy
    BY <1>7 DEF Save, history, siem, WillSave, Busy
  <2>2. WillSave(x) <= received /\ (overlaps = 0 /\ faults = 0 => Busy \subseteq {x} /\ WillSave(x) = received)
    BY <2>1 DEF CountInv
  <2>3. Idle.st = "idle" /\ Idle.count = 0
    BY DEF Idle
  <2>4. QED
    <3>1. 0 \in Nat /\ Idle \in RunRecord(log) /\ Idle.st # "save" /\ 0 = Idle.count
      BY <2>3
    <3>2. exported' <= received' /\ received' \in Nat /\ received' >= received
      BY <1>2, <2>1, <2>2
    <3>3. overlaps' = 0 /\ faults' = 0 => Busy \subseteq {x} /\ exported' = received'
      BY <2>1, <2>2
    <3>4. QED
      BY <2>1, <2>3, <3>1, <3>2, <3>3, CountRun
<1>8. QED
  BY <1>1, <1>3, <1>4, <1>5, <1>6, <1>7 DEF Next, Export

----------------------------------------------------------------------------
(* Repeats: what was received and what may still be, of one entry, is one   *)
(* more than the faults and the overlaps; and no more than they are while   *)
(* the watermark may end up before the entry.                               *)

May(x, e) ==
    \/ run[x].st = "fetch" /\ run[x].since < ts[e]
    \/ run[x].st = "push" /\ e \in run[x].logs
Pending(e) == {x \in Exporters : May(x, e)}
Passes(x, e) == May(x, e) \/ (run[x].st = "save" /\ e \in run[x].logs)

Open(e) ==
    \/ mark < ts[e] /\ \A x \in Exporters : ~Passes(x, e)
    \/ \E x \in Exporters : Behind(x, e)

RepeatsInv ==
    /\ \A e \in log :
          /\ delivered[e] + Cardinality(Pending(e)) <= 1 + faults + overlaps
          /\ Open(e) => delivered[e] + Cardinality(Pending(e)) <= faults + overlaps
    /\ \A e \in Entries \ log : delivered[e] = 0
    /\ Cardinality(Busy) <= 1 + overlaps


LEMMA RunsFinite ==
  /\ \A e : IsFiniteSet(Pending(e)) /\ Cardinality(Pending(e)) \in Nat
  /\ \A e : IsFiniteSet(Pending(e)') /\ Cardinality(Pending(e)') \in Nat
  /\ IsFiniteSet(Busy) /\ Cardinality(Busy) \in Nat
  /\ IsFiniteSet(Busy') /\ Cardinality(Busy') \in Nat
<1>1. \A S \in SUBSET Exporters : IsFiniteSet(S) /\ Cardinality(S) \in Nat
  BY ProcessesAssumption, FS_Subset, FS_CardinalityType
<1>2. \A e : Pending(e) \in SUBSET Exporters /\ Pending(e)' \in SUBSET Exporters
  BY DEF Pending
<1>3. Busy \in SUBSET Exporters /\ Busy' \in SUBSET Exporters
  BY DEF Busy
<1>4. QED
  BY <1>1, <1>2, <1>3

LEMMA RepeatsInit == Init => RepeatsInv
<1> SUFFICES ASSUME Init PROVE RepeatsInv
  OBVIOUS
<1>1. Busy = {} /\ log = {} /\ \A e \in Entries : delivered[e] = 0
  BY DEF Init, Busy, Idle
<1>2. Cardinality({}) = 0 /\ overlaps = 0
  BY FS_EmptySet DEF Init
<1>3. QED
  BY <1>1, <1>2 DEF RepeatsInv

\* What has been and may still be received of e, and what explains it.
Share(e) == delivered[e] + Cardinality(Pending(e))
Excuses == faults + overlaps

LEMMA ShareIsNat ==
  ASSUME TypeOK, TypeOK'
  PROVE  /\ \A e \in Entries : Share(e) \in Nat /\ Share(e)' \in Nat
         /\ Excuses \in Nat /\ Excuses' \in Nat
<1>1. \A e \in Entries : delivered[e] \in Nat /\ delivered'[e] \in Nat
  BY DEF TypeOK
<1>2. faults \in Nat /\ overlaps \in Nat /\ faults' \in Nat /\ overlaps' \in Nat
  BY DEF TypeOK
<1>3. \A e \in Entries : Share(e) \in Nat /\ Share(e)' \in Nat
  BY <1>1, RunsFinite DEF Share
<1>4. Excuses \in Nat
  BY <1>2 DEF Excuses
<1>5. Excuses' \in Nat
  <2>1. Excuses' = faults' + overlaps'
    BY DEF Excuses
  <2>2. \A m, n \in Nat : m + n \in Nat
    OBVIOUS
  <2>3. faults' + overlaps' \in Nat
    BY <1>2, <2>2, Zenon
  <2>4. QED
    BY <2>1, <2>3, Zenon
<1>6. QED
  BY <1>3, <1>4, <1>5

LEMMA RepeatsShare ==
  ASSUME TypeOK
  PROVE  RepeatsInv <=>
           /\ \A e \in log : Share(e) <= 1 + Excuses /\ (Open(e) => Share(e) <= Excuses)
           /\ \A e \in Entries \ log : delivered[e] = 0
           /\ Cardinality(Busy) <= 1 + overlaps
<1>1. \A e \in log : e \in Entries
  BY DEF TypeOK
<1>2. \A e \in Entries : delivered[e] \in Nat /\ Cardinality(Pending(e)) \in Nat
  BY RunsFinite DEF TypeOK
<1>3. faults \in Nat /\ overlaps \in Nat
  BY DEF TypeOK
<1>4. \A e \in log : /\ Share(e) <= 1 + Excuses <=> delivered[e] + Cardinality(Pending(e)) <= 1 + faults + overlaps
                     /\ Share(e) <= Excuses <=> delivered[e] + Cardinality(Pending(e)) <= faults + overlaps
  BY <1>1, <1>2, <1>3 DEF Share, Excuses
<1>5. QED
  BY <1>4 DEF RepeatsInv

\* A step adds to the share of an entry only what it adds to the excuses,
\* unless it makes up for an entry that was open.
LEMMA RepeatsBalance ==
  ASSUME TypeOK, TypeOK', RepeatsInv, log' = log, Cardinality(Busy') <= 1 + overlaps',
         \A e \in Entries \ log : delivered'[e] = 0,
         \A e \in log :
            \/ Share(e)' + Excuses <= Share(e) + Excuses' /\ (Open(e)' => Open(e))
            \/ Share(e)' + Excuses + 1 <= Share(e) + Excuses'
            \/ Share(e)' + Excuses <= Share(e) + Excuses' + 1 /\ Open(e) /\ ~Open(e)'
  PROVE  RepeatsInv'
<1>1. ASSUME NEW e \in log
      PROVE  Share(e)' <= 1 + Excuses' /\ (Open(e)' => Share(e)' <= Excuses')
  <2>1. PICK s \in Nat, t \in Nat, m \in Nat, n \in Nat :
           s = Share(e) /\ t = Share(e)' /\ m = Excuses /\ n = Excuses'
    BY ShareIsNat, LogFinite
  <2>2. s <= 1 + m /\ (Open(e) => s <= m)
    BY <2>1, RepeatsShare
  <2>3. \/ t + m <= s + n /\ (Open(e)' => Open(e))
        \/ t + m + 1 <= s + n
        \/ t + m <= s + n + 1 /\ Open(e) /\ ~Open(e)'
    BY <2>1
  <2>4. t <= 1 + n /\ (Open(e)' => t <= n)
    BY <2>2, <2>3
  <2>5. QED
    BY <2>1, <2>4
<1>2. (RepeatsInv <=>
           /\ \A e \in log : Share(e) <= 1 + Excuses /\ (Open(e) => Share(e) <= Excuses)
           /\ \A e \in Entries \ log : delivered[e] = 0
           /\ Cardinality(Busy) <= 1 + overlaps)'
  BY RepeatsShare, PTL
<1>3. QED
  BY <1>1, <1>2

\* A step that leaves the exporter alone, but may enter entries and be a fault.
LEMMA RepeatsRest ==
  ASSUME TypeOK, RepeatsInv, [Next]_vars, UNCHANGED <<run, mark, delivered, overlaps>>,
         faults' >= faults
  PROVE  RepeatsInv'
<1>1. TypeOK' /\ log \subseteq log' /\ log' \subseteq Entries /\ \A e \in log : ts'[e] = ts[e]
  BY TypedStep, LogGrows, LogFinite DEF TypeOK
<1>2. \A x \in Exporters : run[x].logs \subseteq log
  BY DEF TypeOK
<1>3. faults \in Nat /\ faults' \in Nat /\ overlaps \in Nat
  BY <1>1 DEF TypeOK
<1>4. Busy' = Busy
  BY DEF Busy
<1>5. ASSUME NEW e \in log
      PROVE  /\ delivered'[e] + Cardinality(Pending(e)') <= 1 + faults' + overlaps'
             /\ Open(e)' => delivered'[e] + Cardinality(Pending(e)') <= faults' + overlaps'
  <2>1. \A x \in Exporters : May(x, e)' = May(x, e) /\ Passes(x, e)' = Passes(x, e)
                             /\ Behind(x, e)' = Behind(x, e)
    BY <1>1, <1>2 DEF May, Passes, Behind
  <2>2. Pending(e)' = Pending(e) /\ (Open(e)' <=> Open(e))
    BY <1>1, <2>1 DEF Pending, Open
  <2>3. PICK p \in Nat, d \in Nat : p = Cardinality(Pending(e)) /\ d = delivered[e]
    BY <1>1, RunsFinite DEF TypeOK
  <2>4. d + p <= 1 + faults + overlaps /\ (Open(e) => d + p <= faults + overlaps)
    BY <2>3 DEF RepeatsInv
  <2>5. Cardinality(Pending(e)') = p /\ delivered'[e] = d /\ overlaps' = overlaps
    BY <2>2, <2>3
  <2>6. d + p <= 1 + faults' + overlaps /\ (Open(e) => d + p <= faults' + overlaps)
    BY <1>3, <2>3, <2>4
  <2>7. QED
    BY <2>2, <2>5, <2>6
<1>6. ASSUME NEW e \in log' \ log
      PROVE  /\ delivered'[e] + Cardinality(Pending(e)') <= 1 + faults' + overlaps'
             /\ Open(e)' => delivered'[e] + Cardinality(Pending(e)') <= faults' + overlaps'
  <2>1. delivered'[e] = 0
    BY <1>1 DEF RepeatsInv
  <2>2. PICK b \in Nat, p \in Nat : b = Cardinality(Busy) /\ p = Cardinality(Pending(e)')
    BY RunsFinite
  <2>3. \A x \in Pending(e)' : run[x].st = "fetch" /\ x \in Exporters /\ run[x].logs = {}
    BY <1>2 DEF Pending, May, TypeOK
  <2>4. b <= 1 + overlaps
    BY <2>2 DEF RepeatsInv
  <2>5. Pending(e)' \subseteq Busy
    BY <2>3 DEF Busy
  <2>6. p <= b
    BY <2>2, <2>5, RunsFinite, FS_Subset
  <2>7. Open(e)' => p <= overlaps
    <3>1. CASE \A x \in Exporters : ~Passes(x, e)'
      <4>1. Pending(e)' = {}
        BY <3>1 DEF Pending, Passes
      <4>2. QED
        BY <1>3, <2>2, <4>1, FS_EmptySet
    <3>2. CASE \E x \in Exporters : Behind(x, e)'
      <4>1. PICK x \in Exporters : run[x].logs # {}
        BY <3>2 DEF Behind
      <4>2. x \in Busy /\ x \notin Pending(e)'
        BY <2>3, <4>1 DEF Busy, TypeOK
      <4>3. Cardinality(Busy \ {x}) = b - 1
        BY <2>2, <4>2, RunsFinite, FS_RemoveElement
      <4>4. Pending(e)' \subseteq Busy \ {x} /\ IsFiniteSet(Busy \ {x})
        BY <2>5, <4>2, RunsFinite, FS_Subset
      <4>5. p <= b - 1
        BY <2>2, <4>3, <4>4, FS_Subset
      <4>6. QED
        BY <1>3, <2>4, <4>5
    <3>3. QED
      BY <3>1, <3>2 DEF Open
  <2>8. QED
    BY <1>3, <2>1, <2>2, <2>4, <2>6, <2>7
<1>7. \A e \in Entries \ log' : delivered'[e] = 0
  BY <1>1 DEF RepeatsInv
<1>8. Cardinality(Busy') <= 1 + overlaps'
  BY <1>4 DEF RepeatsInv
<1>9. QED
  BY <1>5, <1>6, <1>7, <1>8 DEF RepeatsInv

\* What a step of run x does to the runs that may deliver e.
LEMMA PendingStep ==
  ASSUME TypeOK, NEW x \in Exporters, NEW r \in RunRecord(log), run' = [run EXCEPT ![x] = r],
         UNCHANGED <<ts, log>>, NEW e \in log
  PROVE  /\ run'[x] = r
         /\ \A y \in Exporters \ {x} : /\ May(y, e)' = May(y, e) /\ Passes(y, e)' = Passes(y, e)
                                       /\ Behind(y, e)' = Behind(y, e)
         /\ May(x, e)' /\ ~May(x, e) => Cardinality(Pending(e)') = Cardinality(Pending(e)) + 1
         /\ May(x, e)' /\ May(x, e) => Cardinality(Pending(e)') = Cardinality(Pending(e))
         /\ ~May(x, e)' /\ ~May(x, e) => Cardinality(Pending(e)') = Cardinality(Pending(e))
         /\ ~May(x, e)' /\ May(x, e) => Cardinality(Pending(e)') = Cardinality(Pending(e)) - 1
<1>1. run'[x] = r /\ \A y \in Exporters \ {x} : run'[y] = run[y]
  BY DEF TypeOK
<1>2. \A y \in Exporters \ {x} : /\ May(y, e)' = May(y, e) /\ Passes(y, e)' = Passes(y, e)
                                 /\ Behind(y, e)' = Behind(y, e)
  BY <1>1 DEF May, Passes, Behind
<1>3. May(x, e)' /\ ~May(x, e) => Pending(e)' = Pending(e) \cup {x} /\ x \notin Pending(e)
  BY <1>2 DEF Pending
<1>4. May(x, e)' /\ May(x, e) => Pending(e)' = Pending(e)
  BY <1>2 DEF Pending
<1>5. ~May(x, e)' /\ ~May(x, e) => Pending(e)' = Pending(e)
  BY <1>2 DEF Pending
<1>6. ~May(x, e)' /\ May(x, e) => Pending(e)' = Pending(e) \ {x} /\ x \in Pending(e)
  BY <1>2 DEF Pending
<1>7. May(x, e)' /\ ~May(x, e) => Cardinality(Pending(e)') = Cardinality(Pending(e)) + 1
  BY <1>3, RunsFinite, FS_AddElement
<1>8. ~May(x, e)' /\ May(x, e) => Cardinality(Pending(e)') = Cardinality(Pending(e)) - 1
  BY <1>6, RunsFinite, FS_RemoveElement
<1>9. QED
  BY <1>1, <1>2, <1>4, <1>5, <1>7, <1>8

\* What a step of run x does to the share of e.
LEMMA ShareStep ==
  ASSUME TypeOK, TypeOK', NEW x \in Exporters, NEW r \in RunRecord(log), run' = [run EXCEPT ![x] = r],
         UNCHANGED <<ts, log>>, NEW e \in log
  PROVE  /\ UNCHANGED delivered /\ May(x, e)' /\ ~May(x, e) => Share(e)' = Share(e) + 1
         /\ UNCHANGED delivered /\ (May(x, e)' <=> May(x, e)) => Share(e)' = Share(e)
         /\ UNCHANGED delivered /\ ~May(x, e)' /\ May(x, e) => Share(e)' = Share(e) - 1
         /\ delivered'[e] = delivered[e] + 1 /\ ~May(x, e)' /\ May(x, e) => Share(e)' = Share(e)
<1>1. PICK p \in Nat, q \in Nat, d \in Nat :
         p = Cardinality(Pending(e)) /\ q = Cardinality(Pending(e)') /\ d = delivered[e]
  BY RunsFinite, LogFinite DEF TypeOK
<1>2. /\ May(x, e)' /\ ~May(x, e) => q = p + 1
      /\ (May(x, e)' <=> May(x, e)) => q = p
      /\ ~May(x, e)' /\ May(x, e) => q = p - 1
  BY <1>1, PendingStep
<1>3. Share(e) = d + p
  BY <1>1 DEF Share
<1>4. delivered'[e] = d => Share(e)' = d + q
  BY <1>1 DEF Share
<1>5. delivered'[e] = d + 1 => Share(e)' = d + 1 + q
  BY <1>1 DEF Share
<1>6. UNCHANGED delivered => delivered'[e] = d
  BY <1>1
<1>7. QED
  BY <1>1, <1>2, <1>3, <1>4, <1>5, <1>6

LEMMA BusyStep ==
  ASSUME TypeOK, RepeatsInv, NEW x \in Exporters, NEW r, run' = [run EXCEPT ![x] = r]
  PROVE  /\ x \in Busy => Busy' \subseteq Busy /\ Cardinality(Busy') <= 1 + overlaps
         /\ x \notin Busy => Busy' \subseteq Busy \cup {x} /\ Cardinality(Busy') <= Cardinality(Busy) + 1
<1>1. Busy' \subseteq Busy \cup {x}
  BY DEF Busy, TypeOK
<1>2. Cardinality(Busy) <= 1 + overlaps /\ overlaps \in Nat
  BY DEF RepeatsInv, TypeOK
<1>3. ASSUME x \in Busy
      PROVE  Busy' \subseteq Busy /\ Cardinality(Busy') <= 1 + overlaps
  <2>1. Busy' \subseteq Busy
    BY <1>1, <1>3
  <2>2. Cardinality(Busy') <= Cardinality(Busy)
    BY <2>1, RunsFinite, FS_Subset
  <2>3. QED
    BY <1>2, <2>1, <2>2, RunsFinite
<1>4. ASSUME x \notin Busy
      PROVE  Cardinality(Busy') <= Cardinality(Busy) + 1
  <2>1. IsFiniteSet(Busy \cup {x}) /\ Cardinality(Busy \cup {x}) = Cardinality(Busy) + 1
    BY <1>4, RunsFinite, FS_AddElement
  <2>2. QED
    BY <1>1, <2>1, FS_Subset
<1>5. QED
  BY <1>1, <1>3, <1>4

LEMMA RepeatsLoad ==
  ASSUME TypeOK, TypeOK', RepeatsInv, NEW x \in Exporters, Load(x)
  PROVE  RepeatsInv'
<1>1. PICK r \in RunRecord(log) : /\ r.st = "fetch" /\ r.since = mark /\ r.logs = {}
                                  /\ run' = [run EXCEPT ![x] = r]
  <2>1. [Idle EXCEPT !.st = "fetch", !.since = mark, !.count = exported] \in RunRecord(log)
    BY RecordsTyped DEF RunRecord, TypeOK
  <2>2. QED
    BY <2>1 DEF Load, RunRecord, Idle
<1>2. /\ UNCHANGED <<ts, log, mark, delivered, faults>> /\ run[x].st = "idle" /\ run[x].logs = {}
      /\ overlaps' = overlaps + (IF Busy = {} THEN 0 ELSE 1) /\ x \notin Busy
      /\ overlaps \in Nat /\ faults \in Nat
  BY DEF Load, connector, siem, Busy, TypeOK
<1>3. Cardinality(Busy') <= 1 + overlaps'
  <2>1. Cardinality(Busy') <= Cardinality(Busy) + 1 /\ Cardinality(Busy) <= 1 + overlaps
    BY <1>1, <1>2, BusyStep DEF RepeatsInv
  <2>2. Busy = {} => Cardinality(Busy) = 0
    BY FS_EmptySet
  <2>3. QED
    BY <1>2, <2>1, <2>2, RunsFinite
<1>4. ASSUME NEW e \in log
      PROVE  \/ Share(e)' + Excuses <= Share(e) + Excuses' /\ (Open(e)' => Open(e))
             \/ Share(e)' + Excuses <= Share(e) + Excuses' + 1 /\ Open(e) /\ ~Open(e)'
  <2>1. /\ run'[x] = r
        /\ \A y \in Exporters \ {x} : Passes(y, e)' = Passes(y, e) /\ Behind(y, e)' = Behind(y, e)
    BY <1>1, <1>2, PendingStep
  <2>2. ~May(x, e) /\ (May(x, e)' <=> mark < ts[e]) /\ ~Behind(x, e)' /\ ~Behind(x, e) /\ ~Passes(x, e)
    BY <1>1, <1>2, <2>1 DEF May, Behind, Passes
  <2>3. Open(e)' => \E y \in Exporters : Behind(y, e)
    <3>1. mark < ts[e] => Passes(x, e)'
      BY <2>2 DEF Passes
    <3>2. QED
      BY <1>2, <2>1, <2>2, <3>1 DEF Open
  <2>4. Excuses' = Excuses + (IF Busy = {} THEN 0 ELSE 1)
    BY <1>2 DEF Excuses
  <2>5. Share(e) \in Nat /\ Excuses \in Nat
    BY ShareIsNat, LogFinite
  <2>6. CASE Busy # {}
    <3>1. Share(e)' <= Share(e) + 1
      <4>1. Share(e)' = Share(e) + 1 \/ Share(e)' = Share(e)
        BY <1>1, <1>2, <2>2, ShareStep
      <4>2. QED
        BY <2>5, <4>1
    <3>2. Share(e)' \in Nat
      BY ShareIsNat, LogFinite
    <3>3. QED
      BY <2>3, <2>4, <2>5, <2>6, <3>1, <3>2 DEF Open
  <2>7. CASE Busy = {}
    <3>1. \A y \in Exporters : run[y].logs = {} /\ ~Behind(y, e) /\ ~Passes(y, e)
      BY <2>7 DEF Busy, Behind, Passes, May, TypeOK
    <3>2. ~Open(e)'
      BY <2>3, <3>1
    <3>3. CASE mark < ts[e]
      <4>1. Open(e)
        BY <3>1, <3>3 DEF Open
      <4>2. Share(e)' = Share(e) + 1
        BY <1>1, <1>2, <2>2, <3>3, ShareStep
      <4>3. QED
        BY <2>4, <2>5, <2>7, <3>2, <4>1, <4>2
    <3>4. CASE ~(mark < ts[e])
      <4>1. Share(e)' = Share(e)
        BY <1>1, <1>2, <2>2, <3>4, ShareStep
      <4>2. QED
        BY <2>4, <2>5, <2>7, <3>2, <4>1
    <3>5. QED
      BY <3>3, <3>4
  <2>8. QED
    BY <2>6, <2>7
<1>5. \A e \in Entries \ log : delivered'[e] = 0
  BY <1>2 DEF RepeatsInv
<1>6. QED
  BY <1>2, <1>3, <1>4, <1>5, RepeatsBalance

LEMMA RepeatsFetch ==
  ASSUME TypeOK, TypeOK', RepeatsInv, NEW x \in Exporters, Fetch(x)
  PROVE  RepeatsInv'
<1>1. PICK S \in SUBSET log, r \in RunRecord(log) :
         /\ \A f \in S : ts[f] > run[x].since
         /\ S = {} => r = Idle
         /\ S # {} => r.st = "push" /\ r.logs = S
         /\ run' = [run EXCEPT ![x] = r]
  <2>1. PICK S \in SUBSET After(run[x].since) :
           run' = [run EXCEPT ![x] = IF S = {} THEN Idle ELSE [@ EXCEPT !.st = "push", !.logs = S]]
    BY DEF Fetch
  <2>2. S \subseteq log /\ \A f \in S : ts[f] > run[x].since
    BY DEF After
  <2>3. run[x] \in RunRecord(log)
    BY RecordsTyped
  <2>4. [run[x] EXCEPT !.st = "push", !.logs = S] \in RunRecord(log)
    BY <2>2, <2>3 DEF RunRecord
  <2>5. CASE S = {}
    BY <2>1, <2>2, <2>5, RecordsTyped
  <2>6. CASE S # {}
    <3>1. run' = [run EXCEPT ![x] = [run[x] EXCEPT !.st = "push", !.logs = S]]
      BY <2>1, <2>6 DEF TypeOK
    <3>2. /\ [run[x] EXCEPT !.st = "push", !.logs = S].st = "push"
          /\ [run[x] EXCEPT !.st = "push", !.logs = S].logs = S
      BY <2>3 DEF RunRecord
    <3>3. QED
      BY <2>2, <2>4, <2>6, <3>1, <3>2
  <2>7. QED
    BY <2>5, <2>6
<1>2. /\ UNCHANGED <<ts, log, mark, delivered, faults, overlaps>> /\ run[x].st = "fetch"
      /\ run[x].logs = {} /\ x \in Busy /\ run[x].since \in Nat
  BY DEF Fetch, connector, history, siem, Busy, TypeOK
<1>3. Cardinality(Busy') <= 1 + overlaps'
  BY <1>1, <1>2, BusyStep
<1>4. ASSUME NEW e \in log
      PROVE  \/ Share(e)' + Excuses <= Share(e) + Excuses' /\ (Open(e)' => Open(e))
             \/ Share(e)' + Excuses + 1 <= Share(e) + Excuses'
  <2>1. /\ run'[x] = r
        /\ \A y \in Exporters \ {x} : Passes(y, e)' = Passes(y, e) /\ Behind(y, e)' = Behind(y, e)
    BY <1>1, <1>2, PendingStep
  <2>2. Excuses' = Excuses /\ Excuses \in Nat /\ Share(e) \in Nat
    BY <1>2, ShareIsNat, LogFinite DEF Excuses
  <2>3. May(x, e) <=> run[x].since < ts[e]
    BY <1>2 DEF May
  <2>4. May(x, e)' <=> e \in S
    BY <1>1, <2>1 DEF May, Idle
  <2>5. CASE e \in S
    <3>1. May(x, e) /\ May(x, e)'
      BY <1>1, <2>3, <2>4, <2>5, LogFinite DEF TypeOK
    <3>2. Share(e)' = Share(e)
      BY <1>1, <1>2, <3>1, ShareStep
    <3>3. ~Behind(x, e)'
      BY <1>1, <1>2, <2>1, <2>5, LogFinite DEF Behind, TypeOK
    <3>4. Open(e)' => Open(e)
      BY <1>2, <2>1, <3>1, <3>3 DEF Open, Passes
    <3>5. QED
      BY <2>2, <3>2, <3>4
  <2>6. CASE e \notin S /\ May(x, e)
    <3>1. Share(e)' = Share(e) - 1
      BY <1>1, <1>2, <2>4, <2>6, ShareStep
    <3>2. QED
      BY <2>2, <3>1
  <2>7. CASE e \notin S /\ ~May(x, e)
    <3>1. Share(e)' = Share(e)
      BY <1>1, <1>2, <2>4, <2>7, ShareStep
    <3>2. ts[e] <= run[x].since /\ ts[e] \in Nat /\ \A f \in S : ts[f] \in Nat
      BY <1>2, <2>3, <2>7, LogFinite DEF TypeOK
    <3>3. ~Behind(x, e)'
      <4>1. ASSUME NEW f \in S PROVE ~(ts[f] < ts[e])
        BY <1>1, <1>2, <3>2
      <4>2. r.logs = {} \/ (r.logs = S /\ S # {})
        BY <1>1, RecordsTyped
      <4>3. QED
        BY <1>2, <2>1, <4>1, <4>2 DEF Behind
    <3>4. ~Passes(x, e)
      BY <1>2, <2>7 DEF Passes
    <3>5. Open(e)' => Open(e)
      BY <1>2, <2>1, <3>3, <3>4 DEF Open
    <3>6. QED
      BY <2>2, <3>1, <3>5
  <2>8. QED
    BY <2>5, <2>6, <2>7
<1>5. \A e \in Entries \ log : delivered'[e] = 0
  BY <1>2 DEF RepeatsInv
<1>6. QED
  BY <1>2, <1>3, <1>4, <1>5, RepeatsBalance

LEMMA RepeatsPush ==
  ASSUME TypeOK, TypeOK', RepeatsInv, NEW x \in Exporters, Push(x)
  PROVE  RepeatsInv'
<1>1. PICK r \in RunRecord(log) : /\ r.st = "save" /\ r.logs = run[x].logs
                                  /\ run' = [run EXCEPT ![x] = r]
  <2>1. run[x] \in RunRecord(log)
    BY RecordsTyped
  <2>2. QED
    BY <2>1 DEF Push, RunRecord, TypeOK
<1>2. /\ UNCHANGED <<ts, log, mark, faults, overlaps>> /\ run[x].st = "push" /\ x \in Busy
      /\ run[x].logs \subseteq log /\ Receive(run[x].logs)
  BY DEF Push, connector, Busy, TypeOK
<1>3. Cardinality(Busy') <= 1 + overlaps'
  BY <1>1, <1>2, BusyStep
<1>4. ASSUME NEW e \in log
      PROVE  Share(e)' + Excuses <= Share(e) + Excuses' /\ (Open(e)' => Open(e))
  <2>1. /\ run'[x] = r
        /\ \A y \in Exporters \ {x} : /\ May(y, e)' = May(y, e)
                                      /\ Passes(y, e)' = Passes(y, e) /\ Behind(y, e)' = Behind(y, e)
    BY <1>1, <1>2, PendingStep
  <2>2. Excuses' = Excuses /\ Excuses \in Nat /\ Share(e) \in Nat
    BY <1>2, ShareIsNat, LogFinite DEF Excuses
  <2>3. ~May(x, e)' /\ (May(x, e) <=> e \in run[x].logs)
    BY <1>1, <1>2, <2>1 DEF May
  <2>4. Passes(x, e)' = Passes(x, e) /\ Behind(x, e)' = Behind(x, e)
    BY <1>1, <1>2, <2>1, <2>3 DEF Passes, Behind
  <2>5. Open(e)' => Open(e)
    BY <1>2, <2>1, <2>4 DEF Open
  <2>6. e \in Entries /\ delivered[e] \in Nat
    BY LogFinite DEF TypeOK
  <2>7. CASE e \in run[x].logs
    <3>1. delivered'[e] = delivered[e] + 1
      BY <1>2, <2>6, <2>7 DEF Receive
    <3>2. Share(e)' = Share(e)
      BY <1>1, <1>2, <2>3, <2>7, <3>1, ShareStep
    <3>3. QED
      BY <2>2, <2>5, <3>2
  <2>8. CASE e \notin run[x].logs
    <3>1. delivered'[e] = delivered[e]
      BY <1>2, <2>6, <2>8 DEF Receive
    <3>2. Pending(e)' = Pending(e)
      BY <2>1, <2>3, <2>8 DEF Pending
    <3>3. Share(e)' = Share(e)
      BY <3>1, <3>2 DEF Share
    <3>4. QED
      BY <2>2, <2>5, <3>3
  <2>9. QED
    BY <2>7, <2>8
<1>5. \A e \in Entries \ log : delivered'[e] = 0
  BY <1>2 DEF RepeatsInv, Receive, TypeOK
<1>6. QED
  BY <1>2, <1>3, <1>4, <1>5, RepeatsBalance

LEMMA RepeatsFault ==
  ASSUME TypeOK, TypeOK', RepeatsInv, NEW x \in Exporters, PushFails(x) \/ Crash(x)
  PROVE  RepeatsInv'
<1>1. /\ UNCHANGED <<ts, log, mark, overlaps>> /\ run' = [run EXCEPT ![x] = Idle] /\ x \in Busy
      /\ faults' = faults + 1 /\ faults \in Nat /\ overlaps \in Nat
      /\ UNCHANGED delivered \/ (run[x].st = "push" /\ Receive(run[x].logs))
  BY FaultTyped DEF PushFails, Crash, connector, history, siem, Busy, TypeOK
<1>2. Idle \in RunRecord(log) /\ Idle.st = "idle" /\ Idle.logs = {} /\ run[x].logs \subseteq log
  BY RecordsTyped DEF TypeOK
<1>3. Cardinality(Busy') <= 1 + overlaps'
  BY <1>1, BusyStep
<1>4. ASSUME NEW e \in log
      PROVE  Share(e)' + Excuses + 1 <= Share(e) + Excuses'
  <2>1. /\ run'[x] = Idle
        /\ \A y \in Exporters \ {x} : May(y, e)' = May(y, e)
    BY <1>1, <1>2, PendingStep
  <2>2. ~May(x, e)'
    BY <1>2, <2>1 DEF May
  <2>3. Excuses' = Excuses + 1 /\ Excuses \in Nat /\ Share(e) \in Nat
    <3>1. Excuses' = faults' + overlaps'
      BY DEF Excuses
    <3>2. Excuses = faults + overlaps
      BY DEF Excuses
    <3>3. QED
      BY <1>1, <3>1, <3>2, ShareIsNat, LogFinite
  <2>4. e \in Entries /\ delivered[e] \in Nat
    BY LogFinite DEF TypeOK
  <2>5. CASE UNCHANGED delivered
    <3>1. Share(e)' = Share(e) - 1 \/ Share(e)' = Share(e)
      BY <1>1, <1>2, <2>2, <2>5, ShareStep
    <3>2. QED
      BY <2>3, <3>1
  <2>6. CASE run[x].st = "push" /\ Receive(run[x].logs) /\ e \in run[x].logs
    <3>1. delivered'[e] = delivered[e] + 1 /\ May(x, e)
      BY <2>4, <2>6 DEF Receive, May
    <3>2. Share(e)' = Share(e)
      BY <1>1, <1>2, <2>2, <3>1, ShareStep
    <3>3. QED
      BY <2>3, <3>2
  <2>7. CASE run[x].st = "push" /\ Receive(run[x].logs) /\ e \notin run[x].logs
    <3>1. delivered'[e] = delivered[e] /\ ~May(x, e)
      BY <2>4, <2>7 DEF Receive, May
    <3>2. Pending(e)' = Pending(e)
      BY <2>1, <2>2, <3>1 DEF Pending
    <3>3. Share(e)' = Share(e)
      BY <3>1, <3>2 DEF Share
    <3>4. QED
      BY <2>3, <3>3
  <2>8. QED
    BY <1>1, <2>5, <2>6, <2>7
<1>5. \A e \in Entries \ log : delivered'[e] = 0
  BY <1>1, <1>2 DEF RepeatsInv, Receive, TypeOK
<1>6. QED
  BY <1>1, <1>3, <1>4, <1>5, RepeatsBalance

LEMMA RepeatsSave ==
  ASSUME TypeOK, TypeOK', RepeatsInv, NEW x \in Exporters, Save(x)
  PROVE  RepeatsInv'
<1>1. /\ UNCHANGED <<ts, log, delivered, overlaps, faults>> /\ run' = [run EXCEPT ![x] = Idle]
      /\ x \in Busy /\ run[x].st = "save" /\ run[x].logs # {}
      /\ run[x].logs \subseteq log /\ run[x].logs \subseteq Entries /\ mark' = MaxTs(run[x].logs)
  BY LogFinite DEF Save, history, siem, Busy, TypeOK
<1>2. Idle \in RunRecord(log) /\ Idle.st = "idle" /\ Idle.logs = {}
  BY RecordsTyped
<1>3. Cardinality(Busy') <= 1 + overlaps'
  BY <1>1, BusyStep
<1>4. ASSUME NEW e \in log
      PROVE  Share(e)' + Excuses <= Share(e) + Excuses' /\ (Open(e)' => Open(e))
  <2>1. /\ run'[x] = Idle
        /\ \A y \in Exporters \ {x} : Passes(y, e)' = Passes(y, e) /\ Behind(y, e)' = Behind(y, e)
    BY <1>1, <1>2, PendingStep
  <2>2. Excuses' = Excuses /\ Excuses \in Nat /\ Share(e) \in Nat
    BY <1>1, ShareIsNat, LogFinite DEF Excuses
  <2>3. ~May(x, e)' /\ ~May(x, e) /\ ~Behind(x, e)'
    BY <1>1, <1>2, <2>1 DEF May, Behind
  <2>4. Share(e)' = Share(e)
    BY <1>1, <1>2, <2>3, ShareStep
  <2>5. mark' < ts[e] => Behind(x, e)
    <3>1. /\ MaxTs(run[x].logs) \in Nat
          /\ \A f \in run[x].logs : ts[f] <= MaxTs(run[x].logs) /\ ts[f] \in Nat
      BY <1>1, MaxTsIsMax DEF TypeOK
    <3>2. ts[e] \in Nat
      BY LogFinite DEF TypeOK
    <3>3. QED
      BY <1>1, <3>1, <3>2 DEF Behind
  <2>6. Open(e)' => Open(e)
    BY <1>1, <2>1, <2>3, <2>5 DEF Open
  <2>7. QED
    BY <2>2, <2>4, <2>6
<1>5. \A e \in Entries \ log : delivered'[e] = 0
  BY <1>1 DEF RepeatsInv
<1>6. QED
  BY <1>1, <1>3, <1>4, <1>5, RepeatsBalance

LEMMA RepeatsStep == TypeOK /\ RepeatsInv /\ [Next]_vars => RepeatsInv'
<1> SUFFICES ASSUME TypeOK, RepeatsInv, [Next]_vars PROVE RepeatsInv'
  OBVIOUS
<1>1. TypeOK'
  BY TypedStep
<1>2. CASE \/ Tick \/ UNCHANGED vars \/ \E r \in Rows : Begin(r) \/ Commit(r)
           \/ \E j \in Jobs : \/ \E batch \in SUBSET Events \ {{}} : Submit(j, batch)
                              \/ Look(j) \/ Insert(j) \/ Collide(j) \/ LoseJob(j)
  <2>1. UNCHANGED <<run, mark, delivered, overlaps>> /\ (faults' = faults \/ Fault)
    BY <1>2 DEF Tick, vars, Begin, Commit, Submit, Look, Insert, Collide, LoseJob, connector, history, siem
  <2>2. faults' >= faults
    BY <2>1, FaultTyped DEF TypeOK
  <2>3. QED
    BY <2>1, <2>2, RepeatsRest
<1>3. QED
  BY <1>1, <1>2, RepeatsLoad, RepeatsFetch, RepeatsPush, RepeatsFault, RepeatsSave DEF Next, Export

----------------------------------------------------------------------------
(* The theorems.                                                            *)

\* The inductive invariant of the audit trail, part by part.
THEOREM TrailPartsHold == Spec => [](TypeOK /\ JobsInv /\ SkipInv /\ CountInv /\ RepeatsInv)
<1>1. Init => TypeOK /\ JobsInv /\ SkipInv /\ CountInv /\ RepeatsInv
  BY TypedInit, JobsInit, SkipInit, CountInit, RepeatsInit
<1>2. TypeOK /\ JobsInv /\ SkipInv /\ CountInv /\ RepeatsInv /\ [Next]_vars
        => (TypeOK /\ JobsInv /\ SkipInv /\ CountInv /\ RepeatsInv)'
  BY TypedStep, JobsStep, SkipStep, CountStep, RepeatsStep
<1>3. QED
  BY <1>1, <1>2, PTL DEF Spec

\* events_exported never counts what the SIEM has not received, and is exact
\* between runs that neither overlapped nor failed (run_connector_export).
THEOREM TrailInvHolds == Spec => []TrailInv
<1>1. TypeOK /\ CountInv => TrailInv
  BY DEF TrailInv, ExportsCounted, CountInv
<1>2. QED
  BY TrailPartsHold, <1>1, PTL

\* However runs overlap, fail and die, the watermark passes an entry only when
\* it was received, came late or is tied (fetch_logs_for_export).
THEOREM NothingSkippedHolds == Spec => []NothingSkipped
<1>1. SkipInv => NothingSkipped
  BY DEF SkipInv, Fine, Ahead, NothingSkipped
<1>2. QED
  BY TrailPartsHold, <1>1, PTL

\* The SIEM receives an entry at most once more than there were faults and
\* overlapping runs (run_connector_export).
THEOREM RepeatsExplainedHolds == Spec => []RepeatsExplained
<1>1. TypeOK /\ RepeatsInv => RepeatsExplained
  <2> SUFFICES ASSUME TypeOK, RepeatsInv, NEW e \in Entries
               PROVE  delivered[e] <= 1 + faults + overlaps
    BY DEF RepeatsExplained
  <2>1. delivered[e] \in Nat /\ faults \in Nat /\ overlaps \in Nat /\ Cardinality(Pending(e)) \in Nat
    BY RunsFinite DEF TypeOK
  <2>2. QED
    BY <2>1 DEF RepeatsInv
<1>2. QED
  BY TrailPartsHold, <1>1, PTL

\* An ingestion that reports success has its events in the log, and one that is
\* given up was interfered with by more jobs than it has retries.
THEOREM IngestLandsHolds == Spec => []IngestLands
<1>1. JobsInv => IngestLands
  BY DEF JobsInv, JobInv, Others, IngestLands
<1>2. QED
  BY TrailPartsHold, <1>1, PTL
=============================================================================
