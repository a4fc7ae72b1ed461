--------------------------- MODULE ReportsProofs ---------------------------
(***************************************************************************)
(* Theorems about Reports, for any schedulers, jobs, clicks and periods.   *)
(***************************************************************************)
EXTENDS Reports, Integers, FiniteSetTheorems, TLAPS

----------------------------------------------------------------------------
(* The invariants.                                                          *)

Workers == Jobs \cup Clicks

\* What worker w may be doing; only a task is retried and mails.
TriesOf(w) == IF w \in Jobs THEN Tries ELSE {0}
Doing(w) ==
    \/ task[w] = None
    \/ w \in Clicks /\ task[w] = [pc |-> "clicked"]
    \/ task[w] \in [pc : {"queued", "failing"}, tries : TriesOf(w)]
    \/ task[w] \in [pc : {"run"}, tries : TriesOf(w), read : Rows]
    \/ w \in Jobs /\ task[w] \in [pc : {"mail", "store"}, tries : Tries, at : 0..now]

Typed ==
    /\ now \in 0..MaxTime /\ row \in Rows
    /\ row.next > 0 => \E s \in Periods \ {0} : row.next % s = 0
    /\ sched \in [Schedulers -> {"idle", "selected", "marked"}]
    /\ task = [w \in Workers |-> task[w]]
    /\ \A w \in Workers : Doing(w)
    /\ edits \in Nat /\ failures \in Nat /\ deaths \in Nat
    /\ Disturbed <= MaxDisturbed
    /\ mails \in Nat /\ served \in 0..now

\* A run that would not move the time of the next run, because it takes what it
\* read for right.  Without edits there is none once the report came due.
Stale == {w \in Workers : task[w].pc = "run" /\ task[w].read.next = NextRun(task[w].read.schedule)}

Unedited ==
    edits = 0 =>
        /\ row.schedule # 0 /\ row.next <= NextRun(row.schedule)
        /\ \A w \in Workers : task[w].pc = "run" =>
              task[w].read.schedule = row.schedule /\ task[w].read.next <= row.next

\* Who will still send a mail, or make someone do so.
Mailing == {j \in Jobs : task[j].pc \in {"queued", "run", "mail", "failing"}}
Busy == {x \in Schedulers : sched[x] # "idle"}
Selected == {x \in Schedulers : sched[x] = "selected"}
Burden == mails + Cardinality(Mailing) + Cardinality(Busy)

\* How often the report can have become due and not generating, and what of it
\* is not used yet: a stale run or a failing one will make it so once more.
Failing == {w \in Workers : task[w].pc = "failing"}
Intervals == now * (1 + Releases) + failures
Spent ==
    (IF Due THEN 1 ELSE 0) + (IF Reached THEN Cardinality(Stale) ELSE 0) + Cardinality(Failing)
Free == Intervals - Spent

\* Each scheduler selects the report once in such an interval.
MailInv ==
    IF row.exists
    THEN Burden <= Cardinality(Schedulers) * Free + failures
                     + IF Due THEN Cardinality(Selected) ELSE 0
    ELSE mails + Cardinality({j \in Jobs : task[j].pc = "mail"})
            <= Cardinality(Schedulers) * Intervals + failures

----------------------------------------------------------------------------
(* Times and types.                                                         *)

\* The next run is a multiple of the period, later than now, and no earlier
\* when it is computed later.
LEMMA NextRunLater ==
    ASSUME NEW s \in Nat \ {0}, NEW t \in Nat
    PROVE  /\ (t \div s + 1) * s \in Nat
           /\ (t \div s + 1) * s > t
           /\ ((t \div s + 1) * s) % s = 0
           /\ (t \div s + 1) * s <= ((t + 1) \div s + 1) * s
<1>1. t \div s \in Nat /\ (t + 1) \div s \in Nat
  OBVIOUS
<1>2. (t \div s + 1) * s > t
  OBVIOUS
<1>3. \A k \in Nat : (k * s) % s = 0
  OBVIOUS
<1>4. t \div s <= (t + 1) \div s
  OBVIOUS
<1>5. \A k, l \in Nat : k <= l => k * s <= l * s
  OBVIOUS
<1> QED
  BY <1>1, <1>2, <1>3, <1>4, <1>5

LEMMA NextRunTyped ==
    ASSUME now \in Nat, NEW s \in Periods
    PROVE  /\ NextRun(s) \in Nat
           /\ s # 0 => NextRun(s) > now
           /\ NextRun(s) > 0 => \E p \in Periods \ {0} : NextRun(s) % p = 0
<1>1. s \in Nat
  BY ConstantsAssumption
<1>2. CASE s = 0
  BY <1>2 DEF NextRun, Never
<1>3. CASE s # 0
  BY <1>1, <1>3, NextRunLater DEF NextRun
<1> QED
  BY <1>2, <1>3

LEMMA TypedIsType == Typed => TypeOK
<1> SUFFICES ASSUME Typed
             PROVE  TypeOK
  OBVIOUS
<1>1. \A j \in Jobs :
        task[j] \in {None} \cup [pc : {"queued", "failing"}, tries : Tries]
               \cup [pc : {"run"}, tries : Tries, read : Rows]
               \cup [pc : {"mail", "store"}, tries : Tries, at : 0..now]
  BY ConstantsAssumption DEF Typed, Workers, Doing, TriesOf
<1>2. \A c \in Clicks :
        task[c] \in {None, [pc |-> "clicked"]} \cup [pc : {"queued", "failing"}, tries : {0}]
               \cup [pc : {"run"}, tries : {0}, read : Rows]
  BY ConstantsAssumption DEF Typed, Workers, Doing, TriesOf
<1> QED
  BY <1>1, <1>2 DEF Typed, TypeOK

\* A step of one worker changes what that worker does.
LEMMA OneTask ==
    ASSUME Typed, NEW w \in Workers, NEW e, task' = [task EXCEPT ![w] = e]
    PROVE  /\ task'[w] = e
           /\ \A v \in Workers \ {w} : task'[v] = task[v]
           /\ task' = [v \in Workers |-> task'[v]]
  BY DEF Typed

LEMMA TypedInit == Init => Typed
<1> SUFFICES ASSUME Init
             PROVE  Typed
  OBVIOUS
<1>1. MaxTime \in Nat /\ MaxDisturbed \in Nat
  BY ConstantsAssumption
<1>2. row \in Rows /\ \E s \in Periods \ {0} : row.next % s = 0
  <2>1. PICK s \in Periods \ {0} :
          row = [exists |-> TRUE, schedule |-> s, next |-> s, status |-> "idle"]
    BY DEF Init
  <2>2. s \in Nat /\ s # 0
    BY ConstantsAssumption
  <2>3. s % s = 0
    BY <2>2
  <2> QED
    BY <2>1, <2>2, <2>3 DEF Rows
<1>3. task = [w \in Workers |-> task[w]] /\ \A w \in Workers : Doing(w)
  BY DEF Init, Workers, Doing
<1> QED
  BY <1>1, <1>2, <1>3 DEF Init, Typed, Disturbed

LEMMA StillDoing ==
    ASSUME Typed, now' = now \/ now' = now + 1, NEW v \in Workers, task'[v] = task[v]
    PROVE  Doing(v)'
  BY DEF Typed, Doing

\* What a worker does next is typed, and so is everything else it leaves alone.
LEMMA WorkerTyped ==
    ASSUME Typed, NEW w \in Workers, NEW e, task' = [task EXCEPT ![w] = e],
           \/ e = None
           \/ w \in Clicks /\ e = [pc |-> "clicked"]
           \/ e \in [pc : {"queued", "failing"}, tries : TriesOf(w)]
           \/ e \in [pc : {"run"}, tries : TriesOf(w), read : Rows]
           \/ w \in Jobs /\ e \in [pc : {"mail", "store"}, tries : Tries, at : 0..now],
           now' = now
    PROVE  task' = [v \in Workers |-> task'[v]] /\ \A v \in Workers : Doing(v)'
<1>1. Doing(w)'
  BY OneTask DEF Doing
<1>2. \A v \in Workers \ {w} : Doing(v)'
  BY OneTask, StillDoing
<1> QED
  BY <1>1, <1>2, OneTask

\* The columns of a typed row keep their types when a step writes them.
LEMMA RowTyped ==
    ASSUME Typed, NEW n \in Nat, NEW s \in Periods, NEW b \in BOOLEAN,
           NEW st \in {"idle", "generating", "error"},
           n = row.next \/ \E p \in Periods : n = NextRun(p),
           row' = [exists |-> b, schedule |-> s, next |-> n, status |-> st]
    PROVE  row' \in Rows /\ (row'.next > 0 => \E p \in Periods \ {0} : row'.next % p = 0)
<1>1. now \in Nat
  BY ConstantsAssumption DEF Typed
<1> QED
  BY <1>1, NextRunTyped DEF Typed, Rows

LEMMA RowFields ==
    Typed => /\ row = [exists |-> row.exists, schedule |-> row.schedule, next |-> row.next,
                       status |-> row.status]
             /\ row.exists \in BOOLEAN /\ row.schedule \in Periods /\ row.next \in Nat
             /\ row.status \in {"idle", "generating", "error"}
  BY DEF Typed, Rows

LEMMA TypedStep == Typed /\ [Next]_vars => Typed'
<1> SUFFICES ASSUME Typed, [Next]_vars
             PROVE  Typed'
  OBVIOUS
<1> DEFINE RowOK == row' \in Rows /\ (row'.next > 0 => \E p \in Periods \ {0} : row'.next % p = 0)
           TaskOK == task' = [v \in Workers |-> task'[v]] /\ \A v \in Workers : Doing(v)'
<1>a. RowOK \/ row' # row
  BY DEF Typed
<1>b. TaskOK \/ task' # task \/ now' # now
  BY StillDoing DEF Typed
<1>c. MaxTime \in Nat /\ MaxDisturbed \in Nat /\ MaxRetries \in Nat /\ now \in Nat
      /\ Periods \subseteq Nat
  BY ConstantsAssumption DEF Typed
<1>d. \A x \in Schedulers, st \in {"idle", "selected", "marked"} :
        [sched EXCEPT ![x] = st] \in [Schedulers -> {"idle", "selected", "marked"}]
  BY DEF Typed
<1>e. ASSUME row' = [row EXCEPT !.status = "generating"]
      PROVE  RowOK
  BY <1>e, RowFields, RowTyped
<1> HIDE DEF RowOK, TaskOK
<1>1. ASSUME NEW x \in Schedulers, Select(x)
      PROVE  Typed'
  BY <1>1, <1>a, <1>b, <1>d DEF Select, faults, history, Typed, Disturbed, RowOK, TaskOK
<1>2. ASSUME NEW x \in Schedulers, Mark(x)
      PROVE  Typed'
  <2>1. RowOK
    BY <1>2, <1>a, <1>e DEF Mark
  <2> QED
    BY <1>2, <2>1, <1>b, <1>d DEF Mark, faults, history, Typed, Disturbed, RowOK, TaskOK
<1>3. ASSUME NEW x \in Schedulers, NEW j \in Jobs, Send(x, j)
      PROVE  Typed'
  <2>1. TaskOK
    <3>1. Queued(0) \in [pc : {"queued", "failing"}, tries : TriesOf(j)]
      BY <1>c DEF Queued, TriesOf, Tries
    <3> QED
      BY <1>3, <3>1, WorkerTyped DEF Send, TaskOK, Workers
  <2> QED
    BY <1>3, <2>1, <1>a, <1>d DEF Send, faults, history, Typed, Disturbed, RowOK, TaskOK
<1>4. ASSUME NEW c \in Clicks, Click(c)
      PROVE  Typed'
  <2>1. TaskOK
    BY <1>4, WorkerTyped DEF Click, TaskOK, Workers
  <2> QED
    BY <1>4, <2>1, <1>a DEF Click, faults, history, Typed, Disturbed, RowOK, TaskOK
<1>5. ASSUME NEW c \in Clicks, MarkRun(c)
      PROVE  Typed'
  <2>1. RowOK
    BY <1>5, <1>a, <1>e DEF MarkRun
  <2>2. TaskOK
    <3>1. Queued(0) \in [pc : {"queued", "failing"}, tries : TriesOf(c)]
      BY <1>c DEF Queued, TriesOf, Tries
    <3>2. \E e \in {Queued(0), None} : task' = [task EXCEPT ![c] = e]
      BY <1>5 DEF MarkRun
    <3> QED
      BY <3>1, <3>2, <1>5, WorkerTyped DEF MarkRun, TaskOK, Workers
  <2> QED
    BY <1>5, <2>1, <2>2 DEF MarkRun, faults, history, Typed, Disturbed, RowOK, TaskOK
<1>6. ASSUME NEW w \in Workers, Load(w)
      PROVE  Typed'
  <2>1. TaskOK
    <3>1. task[w].tries \in TriesOf(w)
      BY <1>6 DEF Load, Typed, Doing, None
    <3>2. [pc |-> "run", tries |-> task[w].tries, read |-> row]
            \in [pc : {"run"}, tries : TriesOf(w), read : Rows]
      BY <3>1 DEF Typed
    <3>3. \E e \in {[pc |-> "run", tries |-> task[w].tries, read |-> row], None} :
            task' = [task EXCEPT ![w] = e]
      BY <1>6 DEF Load
    <3> QED
      BY <3>2, <3>3, <1>6, WorkerTyped DEF Load, TaskOK
  <2> QED
    BY <1>6, <2>1, <1>a DEF Load, faults, history, Typed, Disturbed, RowOK, TaskOK
<1>7. ASSUME NEW w \in Workers, Generate(w)
      PROVE  Typed'
  <2> DEFINE read == task[w].read
  <2>1. read \in Rows /\ (w \in Jobs => task[w].tries \in Tries)
    BY <1>7 DEF Generate, Typed, Doing, None, TriesOf
  <2>2. RowOK
    <3>1. NextRun(read.schedule) \in Nat
      BY <2>1, <1>c, NextRunTyped DEF Rows
    <3>2. PICK n \in Nat, st \in {"idle", "generating", "error"} :
            /\ n = row.next \/ n = NextRun(read.schedule)
            /\ row' = [row EXCEPT !.next = n, !.status = st]
      BY <1>7, <2>1, <3>1, RowFields DEF Generate, Written, Rows
    <3>3. read.schedule \in Periods
      BY <2>1 DEF Rows
    <3>4. row' = [exists |-> row.exists, schedule |-> row.schedule, next |-> n, status |-> st]
      BY <3>2, RowFields
    <3>5. row.exists \in BOOLEAN /\ row.schedule \in Periods
      BY RowFields
    <3>6. n = row.next \/ \E p \in Periods : n = NextRun(p)
      BY <3>2, <3>3
    <3> QED
      BY <3>4, <3>5, <3>6, RowTyped DEF RowOK
  <2>3. TaskOK
    <3>1. CASE w \in Jobs
      <4> DEFINE e == [pc |-> "mail", tries |-> task[w].tries, at |-> now]
      <4>1. e \in [pc : {"mail", "store"}, tries : Tries, at : 0..now]
        BY <2>1, <3>1, <1>c
      <4>2. task' = [task EXCEPT ![w] = e] /\ now' = now
        BY <1>7, <3>1 DEF Generate
      <4> HIDE DEF e
      <4> QED
        BY <3>1, <4>1, <4>2, WorkerTyped DEF TaskOK
    <3>2. CASE w \notin Jobs
      BY <1>7, <3>2, WorkerTyped DEF Generate, TaskOK
    <3> QED
      BY <3>1, <3>2
  <2>4. served' \in 0..now
    BY <1>7, <1>c DEF Generate, Typed
  <2> QED
    BY <1>7, <2>2, <2>3, <2>4 DEF Generate, faults, Typed, Disturbed, RowOK, TaskOK
<1>8. ASSUME NEW w \in Workers, Handle(w)
      PROVE  Typed'
  <2>1. task[w].tries \in TriesOf(w)
    BY <1>8 DEF Handle, HandleWhen, Typed, Doing, None
  <2>2. RowOK
    <3>1. row' = [row EXCEPT !.status = "error"] \/ row' = row
      BY <1>8 DEF Handle, HandleWhen, NoteError
    <3> QED
      BY <3>1, <1>a, RowFields, RowTyped DEF RowOK
  <2>3. TaskOK
    <3>1. Retry(w) => Queued(task[w].tries + 1) \in [pc : {"queued", "failing"}, tries : TriesOf(w)]
      BY <2>1, <1>c DEF Retry, Queued, TriesOf, Tries
    <3>2. CASE Retry(w)
      BY <1>8, <3>1, <3>2, WorkerTyped DEF Handle, HandleWhen, TaskOK
    <3>3. CASE ~Retry(w)
      BY <1>8, <3>3, WorkerTyped DEF Handle, HandleWhen, TaskOK
    <3> QED
      BY <3>2, <3>3
  <2> QED
    BY <1>8, <2>2, <2>3 DEF Handle, HandleWhen, faults, history, Typed, Disturbed, RowOK, TaskOK
<1>9. ASSUME NEW j \in Jobs, Mail(j)
      PROVE  Typed'
  <2>1. j \in Workers /\ task[j] \in [pc : {"mail", "store"}, tries : Tries, at : 0..now]
    <3>1. j \in Workers /\ task[j].pc = "mail" /\ Doing(j)
      BY <1>9 DEF Mail, Typed, Workers
    <3> QED
      BY <3>1 DEF Doing, None
  <2>2. TaskOK
    <3> DEFINE e == [task[j] EXCEPT !.pc = "store"]
    <3>1. e \in [pc : {"mail", "store"}, tries : Tries, at : 0..now]
      BY <2>1
    <3>2. task' = [task EXCEPT ![j] = e] /\ now' = now
      BY <1>9 DEF Mail
    <3> HIDE DEF e
    <3> QED
      BY <2>1, <3>1, <3>2, WorkerTyped DEF TaskOK
  <2>3. served' \in 0..now
    BY <1>9, <2>1, <1>c DEF Mail, Later, Typed
  <2> QED
    BY <1>9, <2>2, <2>3, <1>a DEF Mail, faults, Typed, Disturbed, RowOK, TaskOK
<1>10. ASSUME NEW j \in Jobs, Store(j)
      PROVE  Typed'
  <2>1. TaskOK
    BY <1>10, WorkerTyped DEF Store, TaskOK, Workers
  <2> QED
    BY <1>10, <2>1, <1>a DEF Store, faults, history, Typed, Disturbed, RowOK, TaskOK
<1>11. ASSUME NEW w \in Workers, Raise(w)
      PROVE  Typed'
  <2>1. task[w].tries \in TriesOf(w)
    BY <1>11 DEF Raise, Typed, Doing, None, TriesOf
  <2>2. [pc |-> "failing", tries |-> task[w].tries]
          \in [pc : {"queued", "failing"}, tries : TriesOf(w)]
    BY <2>1
  <2>3. TaskOK
    BY <1>11, <2>2, WorkerTyped DEF Raise, TaskOK
  <2> QED
    BY <1>11, <2>3, <1>a, <1>c DEF Raise, faults, history, Typed, Disturbed, RowOK, TaskOK
<1>12. ASSUME NEW s \in Periods, Reschedule(s)
      PROVE  Typed'
  <2>1. RowOK
    BY <1>12, <1>c, NextRunTyped, RowFields, RowTyped DEF Reschedule, RowOK
  <2> QED
    BY <1>12, <2>1, <1>b, <1>c DEF Reschedule, faults, Typed, Disturbed, RowOK, TaskOK
<1>13. CASE Delete
  <2>1. RowOK
    BY <1>13, RowFields, RowTyped DEF Delete, RowOK
  <2> QED
    BY <1>13, <2>1, <1>b, <1>c DEF Delete, faults, Typed, Disturbed, RowOK, TaskOK
<1>14. CASE Tick
  <2>1. TaskOK
    BY <1>14, StillDoing DEF Tick, Typed, TaskOK
  <2> QED
    BY <1>14, <2>1, <1>a, <1>c DEF Tick, faults, history, Typed, Disturbed, RowOK, TaskOK
<1>15. CASE Die
  <2>1. TaskOK
    <3>1. CASE \E w \in Workers : task' = [task EXCEPT ![w] = None]
      BY <1>15, <3>1, WorkerTyped DEF Die, TaskOK
    <3>2. CASE UNCHANGED task
      BY <1>15, <3>2, <1>b DEF Die
    <3> QED
      BY <1>15, <3>1, <3>2 DEF Die, Workers
  <2>2. sched' \in [Schedulers -> {"idle", "selected", "marked"}]
    BY <1>15, <1>d DEF Die, Typed
  <2> QED
    BY <1>15, <2>1, <2>2, <1>a, <1>c DEF Die, history, Typed, Disturbed, RowOK, TaskOK
<1>16. CASE UNCHANGED vars
  BY <1>16, <1>a, <1>b DEF vars, faults, history, Typed, Disturbed, RowOK, TaskOK
<1> QED
  BY <1>1, <1>2, <1>3, <1>4, <1>5, <1>6, <1>7, <1>8, <1>9, <1>10, <1>11, <1>12, <1>13, <1>14,
     <1>15, <1>16 DEF Next, Schedule, Work, Workers

----------------------------------------------------------------------------
(* Theorems about types and owners.                                         *)

LEMMA OwnedInit == Init => GeneratingIsOwned
  BY DEF Init, GeneratingIsOwned

LEMMA OwnedStep == Typed /\ GeneratingIsOwned /\ [Next]_vars => GeneratingIsOwned'
<1> SUFFICES ASSUME Typed, GeneratingIsOwned, [Next]_vars,
                    row'.exists, row'.status = "generating", ~(deaths' > 0)
             PROVE  \/ \E x \in Schedulers : sched'[x] = "marked"
                    \/ \E w \in Workers : Settles(w)'
  BY DEF GeneratingIsOwned, Typed, Workers
<1> DEFINE Owned == \/ \E x \in Schedulers : sched[x] = "marked"
                    \/ \E w \in Workers : Settles(w)
<1>a. row.exists /\ row.status = "generating" /\ ~(deaths > 0) => Owned
  BY DEF GeneratingIsOwned, Typed, Workers
<1>b. \A w \in Workers : task'[w] = task[w] => (Settles(w) => Settles(w)')
  BY DEF Settles
<1>1. ASSUME NEW x \in Schedulers, Select(x)
      PROVE  Owned'
  BY <1>1, <1>a, <1>b DEF Select, faults, Typed
<1>2. ASSUME NEW x \in Schedulers, Mark(x)
      PROVE  Owned'
  <2>1. row.exists
    BY <1>2 DEF Mark
  <2> QED
    BY <1>2, <2>1 DEF Mark, Typed
<1>3. ASSUME NEW x \in Schedulers, NEW j \in Jobs, Send(x, j)
      PROVE  Owned'
  <2>1. j \in Workers /\ task'[j] = Queued(0)
    BY <1>3, OneTask DEF Send, Workers
  <2> QED
    BY <2>1 DEF Settles, Queued
<1>4. ASSUME NEW c \in Clicks, Click(c)
      PROVE  Owned'
  BY <1>4 DEF Click
<1>5. ASSUME NEW c \in Clicks, MarkRun(c)
      PROVE  Owned'
  <2>1. c \in Workers /\ task'[c] = Queued(0)
    BY <1>5, OneTask DEF MarkRun, Workers
  <2> QED
    BY <2>1 DEF Settles, Queued
<1>6. ASSUME NEW w \in Workers, Load(w)
      PROVE  Owned'
  <2>1. task'[w] = [pc |-> "run", tries |-> task[w].tries, read |-> row]
    BY <1>6, OneTask DEF Load
  <2> QED
    BY <1>6, <2>1 DEF Load, Settles
<1>7. ASSUME NEW w \in Workers, Generate(w)
      PROVE  Owned'
  <2>1. task[w].read.status # "generating" /\ row.status = "generating" /\ row.exists
    BY <1>7, RowFields DEF Generate, Written
  <2>2. Owned /\ ~Settles(w)
    BY <1>7, <2>1, <1>a DEF Generate, Settles, faults
  <2> QED
    BY <1>7, <2>2, <1>b, OneTask DEF Generate
<1>8. ASSUME NEW w \in Workers, Handle(w)
      PROVE  Owned'
  BY <1>8, RowFields DEF Handle, HandleWhen, NoteError
<1>9. ASSUME NEW j \in Jobs, Mail(j) \/ Store(j)
      PROVE  Owned'
  <2>1. Owned /\ ~Settles(j)
    BY <1>9, <1>a DEF Mail, Store, Settles, faults
  <2> QED
    BY <1>9, <2>1, <1>b, OneTask DEF Mail, Store, Workers
<1>10. ASSUME NEW w \in Workers, Raise(w)
       PROVE  Owned'
  <2>1. task'[w] = [pc |-> "failing", tries |-> task[w].tries]
    BY <1>10, OneTask DEF Raise
  <2> QED
    BY <2>1 DEF Settles
<1>11. ASSUME NEW s \in Periods, Reschedule(s)
       PROVE  Owned'
  BY <1>11, <1>a, <1>b, RowFields DEF Reschedule, faults
<1>12. ~Delete /\ ~Die
  BY RowFields DEF Delete, Die, Typed
<1>13. CASE Tick
  BY <1>13, <1>a, <1>b DEF Tick, faults
<1>14. CASE UNCHANGED vars
  BY <1>14, <1>a, <1>b DEF vars, faults
<1> QED
  BY <1>1, <1>2, <1>3, <1>4, <1>5, <1>6, <1>7, <1>8, <1>9, <1>10, <1>11, <1>12, <1>13, <1>14
     DEF Next, Schedule, Work, Workers

\* Type correctness, and whoever marked the report as generating, or runs it,
\* has still to end that, unless a process died.  (enqueue_due_reports,
\* generate_and_deliver_report, run_report)
THEOREM ReportsInvHolds == Spec => []ReportsInv
<1>1. Init => Typed /\ GeneratingIsOwned
  BY TypedInit, OwnedInit
<1>2. Typed /\ GeneratingIsOwned /\ [Next]_vars => (Typed /\ GeneratingIsOwned)'
  BY TypedStep, OwnedStep
<1>3. Typed /\ GeneratingIsOwned => ReportsInv
  BY TypedIsType DEF ReportsInv
<1> QED
  BY <1>1, <1>2, <1>3, PTL DEF Spec

----------------------------------------------------------------------------
(* Runs that were not disturbed by edits.                                   *)

LEMMA UneditedInit == Init => Unedited
<1> SUFFICES ASSUME Init
             PROVE  row.schedule # 0 /\ row.next <= NextRun(row.schedule)
  <2>1. Init => \A w \in Workers : task[w].pc # "run"
    BY DEF Init, Workers, None
  <2> QED
    BY <2>1 DEF Unedited
<1>1. PICK s \in Periods \ {0} :
        row = [exists |-> TRUE, schedule |-> s, next |-> s, status |-> "idle"]
  BY DEF Init
<1>2. s \in Nat \ {0} /\ now = 0
  BY <1>1, ConstantsAssumption DEF Init
<1>3. 0 \div s = 0
  BY <1>2
<1>4. (0 + 1) * s = s
  BY <1>2
<1> QED
  BY <1>1, <1>2, <1>3, <1>4 DEF NextRun

LEMMA UneditedStep == Typed /\ Unedited /\ [Next]_vars => Unedited'
<1> SUFFICES ASSUME Typed, Unedited, [Next]_vars, edits' = 0
             PROVE  Unedited'
  BY DEF Unedited
<1>a. edits = 0 /\ edits' = edits
  <2>1. edits' = edits \/ edits' = edits + 1
    <3>1. ASSUME NEW x \in Schedulers, Schedule(x)
          PROVE  edits' = edits
      BY <3>1 DEF Schedule, Select, Mark, Send
    <3>2. ASSUME NEW c \in Clicks, Click(c) \/ MarkRun(c)
          PROVE  edits' = edits
      BY <3>2 DEF Click, MarkRun
    <3>3. ASSUME NEW w \in Workers, Work(w) \/ Raise(w)
          PROVE  edits' = edits
      BY <3>3 DEF Work, Load, Generate, Handle, HandleWhen, Mail, Store, Raise
    <3> QED
      BY <3>1, <3>2, <3>3 DEF Next, Workers, Reschedule, Delete, Tick, Die, vars
  <2> QED
    BY <2>1 DEF Typed
<1>b. /\ row.schedule # 0 /\ row.next <= NextRun(row.schedule)
      /\ \A w \in Workers : task[w].pc = "run" =>
            task[w].read.schedule = row.schedule /\ task[w].read.next <= row.next
  BY <1>a DEF Unedited
<1>c. now \in Nat /\ row.schedule \in Nat \ {0} /\ row.next \in Nat
  BY <1>b, ConstantsAssumption, RowFields DEF Typed
<1>1. ASSUME row'.schedule = row.schedule, row'.next = row.next, now' = now,
             \A w \in Workers : task'[w] = task[w] \/ task'[w].pc # "run"
      PROVE  Unedited'
  BY <1>1, <1>b DEF Unedited, NextRun
<1>2. ASSUME NEW w \in Workers, NEW e, task' = [task EXCEPT ![w] = e], e.pc # "run"
      PROVE  \A v \in Workers : task'[v] = task[v] \/ task'[v].pc # "run"
  BY <1>2, OneTask
<1>3. ASSUME NEW x \in Schedulers, Select(x) \/ Mark(x)
      PROVE  Unedited'
  BY <1>3, <1>1, RowFields DEF Select, Mark
<1>4. ASSUME NEW x \in Schedulers, NEW j \in Jobs, Send(x, j)
      PROVE  Unedited'
  BY <1>4, <1>1, <1>2 DEF Send, Queued, Workers
<1>5. ASSUME NEW c \in Clicks, Click(c)
      PROVE  Unedited'
  BY <1>5, <1>1, <1>2 DEF Click, Workers
<1>6. ASSUME NEW c \in Clicks, MarkRun(c)
      PROVE  Unedited'
  <2>1. \E e \in {Queued(0), None} : task' = [task EXCEPT ![c] = e]
    BY <1>6 DEF MarkRun
  <2> QED
    BY <2>1, <1>6, <1>1, <1>2, RowFields DEF MarkRun, Queued, None, Workers
<1>7. ASSUME NEW w \in Workers, Load(w)
      PROVE  Unedited'
  <2>1. /\ task'[w].pc = "run" => task'[w].read = row
        /\ \A v \in Workers \ {w} : task'[v] = task[v]
    BY <1>7, OneTask DEF Load, None
  <2> QED
    BY <1>7, <2>1, <1>b, <1>c DEF Load, Unedited, NextRun
<1>8. ASSUME NEW w \in Workers, Generate(w)
      PROVE  Unedited'
  <2>1. /\ task'[w].pc # "run"
        /\ \A v \in Workers \ {w} : task'[v] = task[v]
    BY <1>8, OneTask DEF Generate, None
  <2>2. /\ row'.schedule = row.schedule
        /\ row'.next = row.next \/ row'.next = NextRun(row.schedule)
    BY <1>8, <1>b, RowFields DEF Generate, Written
  <2>3. row.next <= row'.next /\ row'.next <= NextRun(row.schedule) /\ row'.next \in Nat
    BY <2>2, <1>b, <1>c, NextRunTyped, RowFields
  <2>4. \A v \in Workers : task[v].pc = "run" => task[v].read.next \in Nat
    BY DEF Typed, Doing, Rows, None
  <2>5. NextRun(row.schedule)' = NextRun(row.schedule)
    BY <1>8, <2>2 DEF Generate, NextRun
  <2>6. row'.schedule # 0 /\ row'.next <= NextRun(row.schedule)'
    BY <2>2, <2>3, <2>5, <1>b
  <2>7. ASSUME NEW v \in Workers, task'[v].pc = "run"
        PROVE  task'[v].read.schedule = row'.schedule /\ task'[v].read.next <= row'.next
    <3>1. task[v].pc = "run" /\ task'[v].read = task[v].read
      BY <2>1, <2>7
    <3>2. task[v].read.schedule = row.schedule /\ task[v].read.next <= row.next
      BY <3>1, <1>b
    <3>3. task[v].read.next <= row'.next
      BY <3>1, <3>2, <2>3, <2>4, <1>c
    <3> QED
      BY <3>1, <3>2, <3>3, <2>2
  <2> QED
    BY <2>6, <2>7 DEF Unedited
<1>9. ASSUME NEW w \in Workers, Handle(w)
      PROVE  Unedited'
  <2>1. PICK e \in {Queued(task[w].tries + 1), None} : task' = [task EXCEPT ![w] = e]
    BY <1>9 DEF Handle, HandleWhen
  <2> QED
    BY <2>1, <1>9, <1>1, <1>2, RowFields DEF Handle, HandleWhen, NoteError, Queued, None
<1>10. ASSUME NEW j \in Jobs, Mail(j)
       PROVE  Unedited'
  BY <1>10, <1>1, OneTask DEF Mail, Workers, Typed, Doing, None
<1>11. ASSUME NEW j \in Jobs, Store(j)
       PROVE  Unedited'
  BY <1>11, <1>1, <1>2 DEF Store, None, Workers
<1>12. ASSUME NEW w \in Workers, Raise(w)
       PROVE  Unedited'
  BY <1>12, <1>1, <1>2 DEF Raise
<1>13. CASE Tick
  <2>1. NextRun(row.schedule) <= NextRun(row.schedule)' /\ NextRun(row.schedule) \in Nat
        /\ NextRun(row.schedule)' \in Nat
    <3>1. now' = now + 1 /\ now + 1 \in Nat
      BY <1>13, <1>c DEF Tick
    <3> QED
      BY <1>13, <1>c, <3>1, NextRunLater DEF Tick, NextRun
  <2> QED
    BY <2>1, <1>13, <1>b, <1>c DEF Tick, Unedited
<1>14. CASE Die
  BY <1>14, <1>1, <1>2 DEF Die, None, Workers
<1>15. CASE UNCHANGED vars
  BY <1>15, <1>1 DEF vars
<1>16. ~Delete /\ \A s \in Periods : ~Reschedule(s)
  BY <1>a DEF Delete, Reschedule
<1> QED
  BY <1>3, <1>4, <1>5, <1>6, <1>7, <1>8, <1>9, <1>10, <1>11, <1>12, <1>13, <1>14, <1>15, <1>16
     DEF Next, Schedule, Work, Workers

\* Then a run that has still to generate a report that came due moves the next
\* time.
LEMMA NoneStale == Typed /\ Unedited /\ edits = 0 /\ Reached => Stale = {}
<1> SUFFICES ASSUME Typed, Unedited, edits = 0, Reached, NEW w \in Workers, task[w].pc = "run"
             PROVE  task[w].read.next # NextRun(task[w].read.schedule)
  BY DEF Stale
<1>1. now \in Nat /\ row.schedule \in Periods /\ row.schedule # 0
  BY RowFields, ConstantsAssumption DEF Typed, Unedited
<1>2. NextRun(row.schedule) > now /\ NextRun(row.schedule) \in Nat
  BY <1>1, NextRunTyped
<1>3. task[w].read.schedule = row.schedule /\ task[w].read.next <= row.next
  BY DEF Unedited
<1>4. task[w].read.next \in Nat /\ row.next \in Nat /\ row.next <= now
  BY DEF Typed, Doing, Rows, None, Reached
<1> QED
  BY <1>1, <1>2, <1>3, <1>4

----------------------------------------------------------------------------
(* Counting.                                                                *)

In(e, S) == IF e \in S THEN 1 ELSE 0

\* Sets that differ in one element differ by one, at most.
LEMMA OneChange ==
    ASSUME NEW S, NEW T, NEW e, IsFiniteSet(S), S \ {e} = T \ {e}
    PROVE  /\ IsFiniteSet(T) /\ Cardinality(S) \in Nat /\ Cardinality(T) \in Nat
           /\ Cardinality(T) = Cardinality(S) - In(e, S) + In(e, T)
<1>1. IsFiniteSet(S \ {e})
  BY FS_RemoveElement
<1>2. Cardinality(S) = Cardinality(S \ {e}) + In(e, S)
  <2>1. CASE e \in S
    BY <2>1, <1>1, FS_RemoveElement, FS_CardinalityType DEF In
  <2>2. CASE e \notin S
    <3>1. S \ {e} = S
      BY <2>2
    <3>2. In(e, S) = 0 /\ Cardinality(S) \in Nat
      BY <2>2, FS_CardinalityType DEF In
    <3> QED
      BY <3>1, <3>2
  <2> QED
    BY <2>1, <2>2
<1>3. IsFiniteSet(T) /\ Cardinality(T) = Cardinality(S \ {e}) + In(e, T)
  <2>1. CASE e \in T
    <3>1. T = (S \ {e}) \cup {e}
      BY <2>1
    <3> QED
      BY <2>1, <3>1, <1>1, FS_AddElement, FS_CardinalityType DEF In
  <2>2. CASE e \notin T
    <3>1. T = S \ {e}
      BY <2>2
    <3> QED
      BY <2>2, <3>1, <1>1, FS_CardinalityType DEF In
  <2> QED
    BY <2>1, <2>2
<1> QED
  BY <1>1, <1>2, <1>3, FS_CardinalityType DEF In

LEMMA SetsFinite ==
    /\ IsFiniteSet(Schedulers) /\ IsFiniteSet(Workers)
    /\ IsFiniteSet(Stale) /\ IsFiniteSet(Failing) /\ IsFiniteSet(Mailing)
    /\ IsFiniteSet(Busy) /\ IsFiniteSet(Selected)
    /\ Cardinality(Schedulers) \in Nat /\ Cardinality(Workers) \in Nat
    /\ Cardinality(Stale) \in 0..Cardinality(Workers)
    /\ Cardinality(Selected) \in 0..Cardinality(Schedulers)
    /\ Cardinality(Failing) \in Nat /\ Cardinality(Mailing) \in Nat /\ Cardinality(Busy) \in Nat
<1>1. IsFiniteSet(Schedulers) /\ IsFiniteSet(Workers) /\ IsFiniteSet(Jobs)
  BY ConstantsAssumption, FS_Union DEF Workers
<1>2. /\ Stale \subseteq Workers /\ Failing \subseteq Workers /\ Mailing \subseteq Jobs
      /\ Busy \subseteq Schedulers /\ Selected \subseteq Schedulers
  BY DEF Stale, Failing, Mailing, Busy, Selected
<1> QED
  BY <1>1, <1>2, FS_Subset, FS_CardinalityType

Numbers ==
    /\ now \in Nat /\ failures \in Nat /\ mails \in Nat /\ edits \in Nat
    /\ Burden \in Nat /\ Releases \in Nat /\ Intervals \in Nat /\ Spent \in Nat
    /\ Free \in Int /\ Free <= Intervals
    /\ Due => Free + 1 <= Intervals
    /\ Cardinality(Schedulers) \in Nat
    /\ Cardinality(Selected) \in 0..Cardinality(Schedulers)

LEMMA NumbersTyped == Typed => Numbers
<1> SUFFICES ASSUME Typed
             PROVE  Numbers
  OBVIOUS
<1>1. now \in Nat /\ failures \in Nat /\ mails \in Nat /\ edits \in Nat
  BY ConstantsAssumption DEF Typed
<1>2. Releases \in Nat
  BY SetsFinite DEF Releases, Workers
<1>3. now * (1 + Releases) \in Nat
  BY <1>1, <1>2
<1>4. Burden \in Nat /\ Intervals \in Nat /\ Spent \in Nat /\ (Due => Spent >= 1)
  BY <1>1, <1>3, SetsFinite DEF Burden, Intervals, Spent
<1> QED
  BY <1>1, <1>2, <1>4, SetsFinite DEF Free, Numbers

LEMMA NumbersAfter == Typed' => Numbers'
  BY NumbersTyped, PTL

LEMMA Products ==
    ASSUME NEW n \in Nat, NEW k \in Int, NEW l \in Int
    PROVE  /\ k <= l => n * k <= n * l
           /\ k + 1 <= l => n * k + n <= n * l
           /\ n * k \in Int
  OBVIOUS

\* The step of a worker changes the sets by that worker only.
LEMMA WorkerSizes ==
    ASSUME Typed, NEW w \in Workers, NEW e, task' = [task EXCEPT ![w] = e], now' = now
    PROVE  /\ Cardinality(Stale') = Cardinality(Stale) - In(w, Stale) + In(w, Stale')
           /\ Cardinality(Failing') = Cardinality(Failing) - In(w, Failing) + In(w, Failing')
           /\ Cardinality(Mailing') = Cardinality(Mailing) - In(w, Mailing) + In(w, Mailing')
           /\ w \in Failing' <=> e.pc = "failing"
           /\ w \in Mailing' <=> w \in Jobs /\ e.pc \in {"queued", "run", "mail", "failing"}
           /\ w \in Stale' => e.pc = "run" /\ e.read.next = NextRun(e.read.schedule)
<1>1. task'[w] = e /\ \A v \in Workers \ {w} : task'[v] = task[v]
  BY OneTask
<1>2. /\ Stale \ {w} = Stale' \ {w} /\ Failing \ {w} = Failing' \ {w}
      /\ Mailing \ {w} = Mailing' \ {w}
  BY <1>1 DEF Stale, Failing, Mailing, NextRun, Workers
<1>3. /\ w \in Failing' <=> e.pc = "failing"
      /\ w \in Mailing' <=> w \in Jobs /\ e.pc \in {"queued", "run", "mail", "failing"}
      /\ w \in Stale' => e.pc = "run" /\ e.read.next = NextRun(e.read.schedule)
  BY <1>1 DEF Stale, Failing, Mailing, NextRun, Workers
<1> QED
  BY <1>2, <1>3, SetsFinite, OneChange

\* A step keeps the bound if what it adds to the burden is a failure or a
\* scheduler that selects, and an interval that ends leaves one more unused.
LEMMA Carries ==
    ASSUME Typed, Typed', row.exists, row'.exists, MailInv,
           Burden' - failures' <= Burden - failures
              + (IF Due /\ Due' THEN Cardinality(Selected') - Cardinality(Selected) ELSE 0),
           Free' >= Free + (IF Due /\ ~Due' THEN 1 ELSE 0)
    PROVE  MailInv'
<1> DEFINE n == Cardinality(Schedulers)
<1>1. /\ n \in Nat /\ Cardinality(Selected) \in 0..n
      /\ Cardinality(Selected') \in 0..n
  BY NumbersTyped, NumbersAfter DEF Numbers
<1>2. /\ Free \in Int /\ Free' \in Int /\ Burden \in Nat /\ Burden' \in Nat
      /\ failures \in Nat /\ failures' \in Nat
  BY NumbersTyped, NumbersAfter DEF Numbers
<1>3. Burden <= n * Free + failures + IF Due THEN Cardinality(Selected) ELSE 0
  BY DEF MailInv
<1>4. PICK p \in Int, q \in Int :
        /\ p = n * Free /\ q = n * Free' /\ p <= q
        /\ Due /\ ~Due' => p + n <= q
  <2>1. /\ n * Free \in Int /\ n * Free' \in Int
        /\ Free <= Free' => n * Free <= n * Free'
        /\ Free + 1 <= Free' => n * Free + n <= n * Free'
    BY <1>1, <1>2, Products
  <2>2. Free <= Free' /\ (Due /\ ~Due' => Free + 1 <= Free')
    BY <1>2
  <2> HIDE DEF n
  <2> QED
    BY <2>1, <2>2
<1>5. Burden <= p + failures + IF Due THEN Cardinality(Selected) ELSE 0
  BY <1>3, <1>4
<1> HIDE DEF n
<1>6. Burden' <= q + failures' + IF Due' THEN Cardinality(Selected') ELSE 0
  BY <1>1, <1>2, <1>4, <1>5
<1> QED
  BY <1>4, <1>6 DEF MailInv, n

LEMMA SchedulerSizes ==
    ASSUME Typed, NEW x \in Schedulers, NEW st, sched' = [sched EXCEPT ![x] = st]
    PROVE  /\ Cardinality(Busy') = Cardinality(Busy) - In(x, Busy) + In(x, Busy')
           /\ Cardinality(Selected') = Cardinality(Selected) - In(x, Selected) + In(x, Selected')
           /\ x \in Busy' <=> st # "idle"
           /\ x \in Selected' <=> st = "selected"
<1>1. sched'[x] = st /\ \A y \in Schedulers \ {x} : sched'[y] = sched[y]
  BY DEF Typed
<1>2. Busy \ {x} = Busy' \ {x} /\ Selected \ {x} = Selected' \ {x}
  BY <1>1 DEF Busy, Selected
<1>3. (x \in Busy' <=> st # "idle") /\ (x \in Selected' <=> st = "selected")
  BY <1>1 DEF Busy, Selected
<1> QED
  BY <1>2, <1>3, SetsFinite, OneChange

SizesTyped ==
    /\ Cardinality(Stale) \in 0..Cardinality(Workers) /\ Cardinality(Failing) \in Nat
    /\ Cardinality(Mailing) \in Nat /\ Cardinality(Busy) \in Nat

LEMMA SizesNow == SizesTyped
  BY SetsFinite DEF SizesTyped

LEMMA SizesAfter == SizesTyped'
  BY SizesNow, PTL

\* What a step leaves alone.
LEMMA SameSets ==
    /\ task' = task /\ now' = now => Stale' = Stale /\ Failing' = Failing /\ Mailing' = Mailing
    /\ sched' = sched => Busy' = Busy /\ Selected' = Selected
    /\ row' = row /\ now' = now => Reached' = Reached /\ Due' = Due
  BY DEF Stale, Failing, Mailing, NextRun, Busy, Selected, Reached, Due

\* What the step of a worker adds to each set, by what the worker did and does.
WasMailing(w) == IF w \in Jobs /\ task[w].pc \in {"queued", "run", "mail", "failing"} THEN 1 ELSE 0
WasFailing(w) == IF task[w].pc = "failing" THEN 1 ELSE 0

Counts(w, e) ==
    /\ Cardinality(Mailing') = Cardinality(Mailing) - WasMailing(w)
         + IF w \in Jobs /\ e.pc \in {"queued", "run", "mail", "failing"} THEN 1 ELSE 0
    /\ Cardinality(Failing') = Cardinality(Failing) - WasFailing(w)
         + IF e.pc = "failing" THEN 1 ELSE 0
    /\ Cardinality(Stale') = Cardinality(Stale) - In(w, Stale)
         + IF e.pc = "run" /\ e.read.next = NextRun(e.read.schedule) THEN 1 ELSE 0

LEMMA WorkerCounts ==
    ASSUME Typed, NEW w \in Workers, NEW e, task' = [task EXCEPT ![w] = e], now' = now
    PROVE  Counts(w, e)
<1>1. task'[w] = e
  BY OneTask
<1>2. /\ In(w, Mailing) = WasMailing(w) /\ In(w, Failing) = WasFailing(w)
      /\ In(w, Mailing') =
            IF w \in Jobs /\ e.pc \in {"queued", "run", "mail", "failing"} THEN 1 ELSE 0
      /\ In(w, Failing') = IF e.pc = "failing" THEN 1 ELSE 0
  BY <1>1 DEF In, Mailing, Failing, WasMailing, WasFailing
<1>3. In(w, Stale') = IF e.pc = "run" /\ e.read.next = NextRun(e.read.schedule) THEN 1 ELSE 0
  BY <1>1 DEF In, Stale, NextRun
<1> QED
  BY <1>2, <1>3, WorkerSizes DEF Counts

\* As long as the report exists, every step keeps the bound.
LEMMA LiveStep ==
    Typed /\ Typed' /\ Unedited' /\ MailInv /\ row.exists /\ row'.exists /\ [Next]_vars => MailInv'
<1> SUFFICES ASSUME Typed, Typed', Unedited', MailInv, row.exists, row'.exists, [Next]_vars
             PROVE  MailInv'
  OBVIOUS
<1> USE Carries
<1>a. /\ SizesTyped /\ SizesTyped' /\ Cardinality(Workers) \in Nat
      /\ Numbers /\ Numbers'
  BY SizesNow, SizesAfter, SetsFinite, NumbersTyped, NumbersAfter
<1>b. /\ mails \in Nat /\ failures \in Nat /\ Intervals \in Nat /\ now \in Nat
      /\ Cardinality(Mailing) \in Nat /\ Cardinality(Busy) \in Nat
      /\ Cardinality(Stale) \in Nat /\ Cardinality(Failing) \in Nat
      /\ Cardinality(Selected) \in Nat
  BY <1>a DEF SizesTyped, Numbers
<1>c. ASSUME now' = now, edits' = edits
      PROVE  Intervals' = Intervals + failures' - failures
  <2>1. now * (1 + Releases) \in Nat /\ Releases' = Releases
    BY <1>c, <1>a DEF Releases, Numbers
  <2>2. PICK p \in Nat : p = now * (1 + Releases)
    BY <2>1
  <2>3. Intervals = p + failures /\ Intervals' = p + failures'
    BY <2>1, <2>2, <1>c DEF Intervals
  <2> QED
    BY <2>2, <2>3, <1>a DEF Numbers
<1>1. ASSUME NEW x \in Schedulers, Select(x)
      PROVE  MailInv'
  <2>1. /\ Cardinality(Busy') = Cardinality(Busy) + 1
        /\ Cardinality(Selected') = Cardinality(Selected) + 1
    <3>1. sched' = [sched EXCEPT ![x] = "selected"] /\ sched[x] = "idle"
      BY <1>1 DEF Select
    <3>2. In(x, Busy) = 0 /\ In(x, Selected) = 0
      BY <3>1 DEF In, Busy, Selected
    <3>3. In(x, Busy') = 1 /\ In(x, Selected') = 1
      BY <3>1, SchedulerSizes DEF In
    <3>4. /\ Cardinality(Busy') = Cardinality(Busy) - In(x, Busy) + In(x, Busy')
          /\ Cardinality(Selected') = Cardinality(Selected) - In(x, Selected) + In(x, Selected')
      BY <3>1, SchedulerSizes
    <3> QED
      BY <3>2, <3>3, <3>4, <1>b
  <2>2. /\ Stale' = Stale /\ Failing' = Failing /\ Mailing' = Mailing
        /\ Reached' = Reached /\ Due' = Due /\ Due
    BY <1>1, SameSets DEF Select
  <2>3. Intervals' = Intervals /\ mails' = mails /\ failures' = failures
    BY <1>1, <1>b, <1>c DEF Select, faults, history
  <2> QED
    BY <2>1, <2>2, <2>3, <1>b DEF Burden, Free, Spent
<1>2. ASSUME NEW x \in Schedulers, Mark(x)
      PROVE  MailInv'
  <2>1. row' = [row EXCEPT !.status = "generating"] /\ sched' = [sched EXCEPT ![x] = "marked"]
    BY <1>2 DEF Mark
  <2>2. Cardinality(Busy') = Cardinality(Busy)
    BY <2>1, <1>2, <1>b, SchedulerSizes DEF Mark, In, Busy
  <2>3. /\ Stale' = Stale /\ Failing' = Failing /\ Mailing' = Mailing
        /\ Reached' = Reached /\ ~Due'
    BY <2>1, <1>2, SameSets, RowFields DEF Mark, Reached, Due
  <2>4. Intervals' = Intervals /\ mails' = mails /\ failures' = failures
    BY <1>2, <1>b, <1>c DEF Mark, faults, history
  <2> QED
    BY <2>2, <2>3, <2>4, <1>b DEF Burden, Free, Spent
<1>3. ASSUME NEW x \in Schedulers, NEW j \in Jobs, Send(x, j)
      PROVE  MailInv'
  <2>1. /\ Cardinality(Busy') = Cardinality(Busy) - 1
        /\ Cardinality(Selected') = Cardinality(Selected)
    <3>1. sched' = [sched EXCEPT ![x] = "idle"] /\ sched[x] = "marked"
      BY <1>3 DEF Send
    <3>2. In(x, Busy) = 1 /\ In(x, Selected) = 0
      BY <3>1 DEF In, Busy, Selected
    <3>3. In(x, Busy') = 0 /\ In(x, Selected') = 0
      BY <3>1, SchedulerSizes DEF In
    <3>4. /\ Cardinality(Busy') = Cardinality(Busy) - In(x, Busy) + In(x, Busy')
          /\ Cardinality(Selected') = Cardinality(Selected) - In(x, Selected) + In(x, Selected')
      BY <3>1, SchedulerSizes
    <3> QED
      BY <3>2, <3>3, <3>4, <1>b
  <2>2. /\ Cardinality(Mailing') = Cardinality(Mailing) + 1
        /\ Cardinality(Stale') = Cardinality(Stale)
        /\ Cardinality(Failing') = Cardinality(Failing)
    <3>1. task' = [task EXCEPT ![j] = Queued(0)] /\ j \in Workers /\ now' = now
          /\ task[j].pc = "none" /\ Queued(0).pc = "queued"
      BY <1>3 DEF Send, Workers, None, Queued
    <3>2. WasMailing(j) = 0 /\ In(j, Stale) = 0 /\ WasFailing(j) = 0
      BY <3>1 DEF In, WasMailing, Stale, WasFailing
    <3>3. Counts(j, Queued(0))
      BY <3>1, WorkerCounts
    <3> QED
      BY <3>1, <3>2, <3>3, <1>b DEF Counts
  <2>3. Reached' = Reached /\ Due' = Due
    BY <1>3, SameSets DEF Send
  <2>4. Intervals' = Intervals /\ mails' = mails /\ failures' = failures
    BY <1>3, <1>b, <1>c DEF Send, faults, history
  <2> QED
    BY <2>1, <2>2, <2>3, <2>4, <1>b DEF Burden, Free, Spent
<1>4. ASSUME NEW c \in Clicks, Click(c)
      PROVE  MailInv'
  <2>1. /\ Cardinality(Mailing') = Cardinality(Mailing)
        /\ Cardinality(Stale') = Cardinality(Stale)
        /\ Cardinality(Failing') = Cardinality(Failing)
    <3>1. task' = [task EXCEPT ![c] = [pc |-> "clicked"]] /\ c \in Workers /\ now' = now
          /\ task[c].pc = "none" /\ c \notin Jobs
      BY <1>4, ConstantsAssumption DEF Click, Workers, None
    <3>2. WasMailing(c) = 0 /\ In(c, Stale) = 0 /\ WasFailing(c) = 0
      BY <3>1 DEF In, WasMailing, Stale, WasFailing
    <3>3. Counts(c, [pc |-> "clicked"])
      BY <3>1, WorkerCounts
    <3> QED
      BY <3>1, <3>2, <3>3, <1>b DEF Counts
  <2>2. Reached' = Reached /\ Due' = Due /\ Busy' = Busy /\ Selected' = Selected
    BY <1>4, SameSets DEF Click
  <2>3. Intervals' = Intervals /\ mails' = mails /\ failures' = failures
    BY <1>4, <1>b, <1>c DEF Click, faults, history
  <2> QED
    BY <2>1, <2>2, <2>3, <1>b DEF Burden, Free, Spent
<1>5. ASSUME NEW c \in Clicks, MarkRun(c)
      PROVE  MailInv'
  <2>1. /\ Cardinality(Mailing') = Cardinality(Mailing)
        /\ Cardinality(Stale') = Cardinality(Stale)
        /\ Cardinality(Failing') = Cardinality(Failing)
    <3>1. task' = [task EXCEPT ![c] = Queued(0)] /\ c \in Workers /\ now' = now
          /\ task[c].pc = "clicked" /\ c \notin Jobs /\ Queued(0).pc = "queued"
      BY <1>5, ConstantsAssumption DEF MarkRun, Workers, Queued
    <3>2. WasMailing(c) = 0 /\ In(c, Stale) = 0 /\ WasFailing(c) = 0
      BY <3>1 DEF In, WasMailing, Stale, WasFailing
    <3>3. Counts(c, Queued(0))
      BY <3>1, WorkerCounts
    <3> QED
      BY <3>1, <3>2, <3>3, <1>b DEF Counts
  <2>2. Reached' = Reached /\ ~Due' /\ Busy' = Busy /\ Selected' = Selected
    BY <1>5, SameSets, RowFields DEF MarkRun, Reached, Due
  <2>3. Intervals' = Intervals /\ mails' = mails /\ failures' = failures
    BY <1>5, <1>b, <1>c DEF MarkRun, faults, history
  <2> QED
    BY <2>1, <2>2, <2>3, <1>b DEF Burden, Free, Spent
<1>6. ASSUME NEW w \in Workers, Load(w)
      PROVE  MailInv'
  <2> DEFINE e == [pc |-> "run", tries |-> task[w].tries, read |-> row]
  <2>1. task' = [task EXCEPT ![w] = e] /\ now' = now /\ task[w].pc = "queued" /\ e.pc = "run"
        /\ e.read = row
    BY <1>6 DEF Load
  <2>2. Reached => row.next # NextRun(row.schedule)
    <3>1. row.next \in Nat /\ row.schedule \in Periods /\ now \in Nat
      BY <1>b, RowFields
    <3> QED
      BY <3>1, NextRunTyped DEF Reached
  <2>3. /\ Cardinality(Mailing') = Cardinality(Mailing)
        /\ Reached => Cardinality(Stale') = Cardinality(Stale)
        /\ Cardinality(Failing') = Cardinality(Failing)
    <3>1. WasMailing(w) = (IF w \in Jobs THEN 1 ELSE 0) /\ In(w, Stale) = 0 /\ WasFailing(w) = 0
      BY <2>1 DEF In, WasMailing, Stale, WasFailing
    <3> HIDE DEF e
    <3>2. Counts(w, e)
      BY <2>1, WorkerCounts
    <3> QED
      BY <2>1, <2>2, <3>1, <3>2, <1>b DEF Counts, Reached
  <2>4. Reached' = Reached /\ Due' = Due /\ Busy' = Busy /\ Selected' = Selected
    BY <1>6, SameSets DEF Load
  <2>5. Intervals' = Intervals /\ mails' = mails /\ failures' = failures
    BY <1>6, <1>b, <1>c DEF Load, faults, history
  <2> QED
    BY <2>3, <2>4, <2>5, <1>b DEF Burden, Free, Spent
<1>7. ASSUME NEW w \in Workers, Generate(w)
      PROVE  MailInv'
  <2> DEFINE read == task[w].read
  <2> DEFINE e == IF w \in Jobs THEN [pc |-> "mail", tries |-> task[w].tries, at |-> now] ELSE None
  <2>1. /\ task' = [task EXCEPT ![w] = e] /\ now' = now /\ task[w].pc = "run"
        /\ e.pc = IF w \in Jobs THEN "mail" ELSE "none"
    BY <1>7 DEF Generate, None
  <2> HIDE DEF e
  <2>2. /\ Cardinality(Mailing') = Cardinality(Mailing)
        /\ Cardinality(Stale') = Cardinality(Stale) - In(w, Stale)
        /\ Cardinality(Failing') = Cardinality(Failing)
    <3>1. WasMailing(w) = (IF w \in Jobs THEN 1 ELSE 0) /\ WasFailing(w) = 0
      BY <2>1 DEF WasMailing, WasFailing
    <3>2. In(w, Stale) \in {0, 1}
      BY DEF In
    <3>3. Counts(w, e)
      BY <2>1, WorkerCounts
    <3> QED
      BY <2>1, <3>1, <3>2, <3>3, <1>b DEF Counts
  <2>3. Busy' = Busy /\ Selected' = Selected
    BY <1>7, SameSets DEF Generate
  <2>4. Intervals' = Intervals /\ mails' = mails /\ failures' = failures
    BY <1>7, <1>b, <1>c DEF Generate, faults
  <2>5. CASE w \in Stale
    <3>1. read.next = NextRun(read.schedule) /\ In(w, Stale) = 1
      BY <2>5 DEF Stale, In
    <3>2. row'.next = row.next /\ row'.schedule = row.schedule
          /\ row'.status \in {"idle", row.status}
      BY <3>1, <1>7, RowFields DEF Generate, Written
    <3>3. Reached' = Reached /\ (Due => Due')
      BY <3>2, <2>1 DEF Reached, Due
    <3> QED
      BY <3>1, <3>3, <2>2, <2>3, <2>4, <1>b DEF Burden, Free, Spent, Due
  <2>6. CASE w \notin Stale
    <3>1. read \in Rows
      BY <2>1 DEF Typed, Doing, None
    <3>2. row'.next = NextRun(read.schedule)
      BY <2>6, <2>1, <1>7, RowFields DEF Generate, Written, Stale
    <3>3. NextRun(read.schedule) = 0 \/ NextRun(read.schedule) > now
      <4>1. read.schedule \in Periods
        BY <3>1 DEF Rows
      <4> QED
        BY <4>1, <1>b, NextRunTyped DEF NextRun, Never
    <3>4. NextRun(read.schedule) \in Nat
      BY <3>1, <1>b, NextRunTyped DEF Rows
    <3>5. ~Reached' /\ ~Due'
      BY <3>2, <3>3, <3>4, <2>1, <1>b DEF Reached, Due, Never
    <3> QED
      BY <3>5, <2>2, <2>3, <2>4, <1>b DEF Burden, Free, Spent
  <2> QED
    BY <2>5, <2>6
<1>8. ASSUME NEW w \in Workers, Handle(w)
      PROVE  MailInv'
  <2> DEFINE e == IF Retry(w) THEN Queued(task[w].tries + 1) ELSE None
  <2>1. /\ task' = [task EXCEPT ![w] = e] /\ now' = now /\ task[w].pc = "failing"
        /\ e.pc = IF Retry(w) THEN "queued" ELSE "none"
        /\ row' = [row EXCEPT !.status = "error"]
    BY <1>8 DEF Handle, HandleWhen, NoteError, Queued, None
  <2> HIDE DEF e
  <2>2. /\ Cardinality(Mailing') <= Cardinality(Mailing) /\ Cardinality(Mailing') \in Int
        /\ Cardinality(Stale') = Cardinality(Stale)
        /\ Cardinality(Failing') = Cardinality(Failing) - 1
    <3>1. WasMailing(w) = (IF w \in Jobs THEN 1 ELSE 0) /\ WasFailing(w) = 1
          /\ In(w, Stale) = 0
      BY <2>1 DEF WasMailing, WasFailing, In, Stale
    <3>2. Counts(w, e)
      BY <2>1, WorkerCounts
    <3> QED
      BY <2>1, <3>1, <3>2, <1>b DEF Counts
  <2>3. Busy' = Busy /\ Selected' = Selected
    BY <1>8, SameSets DEF Handle, HandleWhen
  <2>4. Intervals' = Intervals /\ mails' = mails /\ failures' = failures
    BY <1>8, <1>b, <1>c DEF Handle, HandleWhen, faults, history
  <2>5. Reached' = Reached /\ (Due => Due')
    BY <2>1, RowFields DEF Reached, Due
  <2> QED
    BY <2>2, <2>3, <2>4, <2>5, <1>b DEF Burden, Free, Spent, Due
<1>9. ASSUME NEW j \in Jobs, Mail(j)
      PROVE  MailInv'
  <2> DEFINE e == [task[j] EXCEPT !.pc = "store"]
  <2>1. /\ task' = [task EXCEPT ![j] = e] /\ now' = now /\ task[j].pc = "mail" /\ j \in Workers
    BY <1>9 DEF Mail, Workers
  <2>2. e.pc = "store"
    <3>1. Doing(j)
      BY <2>1 DEF Typed
    <3> QED
      BY <2>1, <3>1 DEF Doing, None
  <2> HIDE DEF e
  <2>3. /\ Cardinality(Mailing') = Cardinality(Mailing) - 1
        /\ Cardinality(Stale') = Cardinality(Stale)
        /\ Cardinality(Failing') = Cardinality(Failing)
    <3>1. WasMailing(j) = 1 /\ WasFailing(j) = 0 /\ In(j, Stale) = 0
      BY <2>1 DEF WasMailing, WasFailing, In, Stale
    <3>2. Counts(j, e)
      BY <2>1, WorkerCounts
    <3> QED
      BY <2>2, <3>1, <3>2, <1>b DEF Counts
  <2>4. Reached' = Reached /\ Due' = Due /\ Busy' = Busy /\ Selected' = Selected
    BY <1>9, SameSets DEF Mail
  <2>5. Intervals' = Intervals /\ mails' = mails + 1 /\ failures' = failures
    BY <1>9, <1>b, <1>c DEF Mail, faults
  <2> QED
    BY <2>3, <2>4, <2>5, <1>b DEF Burden, Free, Spent
<1>10. ASSUME NEW j \in Jobs, Store(j)
       PROVE  MailInv'
  <2>1. /\ task' = [task EXCEPT ![j] = None] /\ now' = now /\ task[j].pc = "store"
        /\ j \in Workers /\ None.pc = "none"
    BY <1>10 DEF Store, Workers, None
  <2>2. /\ Cardinality(Mailing') = Cardinality(Mailing)
        /\ Cardinality(Stale') = Cardinality(Stale)
        /\ Cardinality(Failing') = Cardinality(Failing)
    <3>1. WasMailing(j) = 0 /\ WasFailing(j) = 0 /\ In(j, Stale) = 0
      BY <2>1 DEF WasMailing, WasFailing, In, Stale
    <3>2. Counts(j, None)
      BY <2>1, WorkerCounts
    <3> QED
      BY <2>1, <3>1, <3>2, <1>b DEF Counts
  <2>3. Reached' = Reached /\ Due' = Due /\ Busy' = Busy /\ Selected' = Selected
    BY <1>10, SameSets DEF Store
  <2>4. Intervals' = Intervals /\ mails' = mails /\ failures' = failures
    BY <1>10, <1>b, <1>c DEF Store, faults, history
  <2> QED
    BY <2>2, <2>3, <2>4, <1>b DEF Burden, Free, Spent
<1>11. ASSUME NEW w \in Workers, Raise(w)
       PROVE  MailInv'
  <2> DEFINE e == [pc |-> "failing", tries |-> task[w].tries]
  <2>1. /\ task' = [task EXCEPT ![w] = e] /\ now' = now /\ e.pc = "failing"
        /\ task[w].pc \in {"queued", "run", "mail", "store"}
        /\ failures' = failures + 1
    BY <1>11 DEF Raise
  <2> HIDE DEF e
  <2>2. /\ Cardinality(Mailing') <= Cardinality(Mailing) + 1 /\ Cardinality(Mailing') \in Int
        /\ Cardinality(Stale') <= Cardinality(Stale) /\ Cardinality(Stale') \in Int
        /\ Cardinality(Failing') = Cardinality(Failing) + 1
    <3>1. WasMailing(w) \in {0, 1} /\ WasFailing(w) = 0 /\ In(w, Stale) \in {0, 1}
      BY <2>1 DEF WasMailing, WasFailing, In
    <3>2. Counts(w, e)
      BY <2>1, WorkerCounts
    <3> QED
      BY <2>1, <3>1, <3>2, <1>b DEF Counts
  <2>3. Reached' = Reached /\ Due' = Due /\ Busy' = Busy /\ Selected' = Selected
    BY <1>11, SameSets DEF Raise
  <2>4. Intervals' = Intervals + 1 /\ mails' = mails
    BY <1>11, <2>1, <1>b, <1>c DEF Raise, history
  <2> QED
    BY <2>1, <2>2, <2>3, <2>4, <1>b DEF Burden, Free, Spent
<1>12. ASSUME NEW s \in Periods, Reschedule(s)
       PROVE  MailInv'
  <2>1. ~Reached' /\ ~Due'
    <3>1. row'.next = NextRun(s) /\ now' = now /\ NextRun(s) \in Nat
      BY <1>12, <1>b, NextRunTyped, RowFields DEF Reschedule
    <3>2. NextRun(s) = 0 \/ NextRun(s) > now
      BY <1>b, NextRunTyped DEF NextRun, Never
    <3> QED
      BY <3>1, <3>2, <1>b DEF Reached, Due, Never
  <2>2. /\ Stale' = Stale /\ Failing' = Failing /\ Mailing' = Mailing
        /\ Busy' = Busy /\ Selected' = Selected
    BY <1>12, SameSets DEF Reschedule
  <2>3. mails' = mails /\ failures' = failures /\ now' = now
    BY <1>12 DEF Reschedule, faults
  <2>4. Intervals' >= Intervals /\ Intervals' \in Nat
    <3>1. Releases \in Nat /\ Releases' \in Nat /\ Releases <= Releases'
      BY <1>12, <1>a DEF Reschedule, Releases, Numbers, Workers
    <3>2. \A m, k, l \in Nat : k <= l => /\ m * (1 + k) <= m * (1 + l)
                                        /\ m * (1 + k) \in Nat /\ m * (1 + l) \in Nat
      <4> TAKE m, k, l \in Nat
      <4>1. 1 + k <= 1 + l => m * (1 + k) <= m * (1 + l)
        BY Products
      <4> QED
        BY <4>1
    <3>3. /\ now * (1 + Releases) <= now * (1 + Releases')
          /\ now * (1 + Releases) \in Nat /\ now * (1 + Releases') \in Nat
      BY <3>1, <3>2, <1>b
    <3>4. PICK p, q \in Nat : p = now * (1 + Releases) /\ q = now * (1 + Releases') /\ p <= q
      BY <3>3
    <3>5. Intervals = p + failures /\ Intervals' = q + failures
      BY <2>3, <3>4 DEF Intervals
    <3> QED
      BY <3>4, <3>5, <1>b
  <2> QED
    BY <2>1, <2>2, <2>3, <2>4, <1>b DEF Burden, Free, Spent
<1>13. CASE Tick
  <2>1. /\ Failing' = Failing /\ Mailing' = Mailing /\ Busy' = Busy /\ Selected' = Selected
    BY <1>13, SameSets DEF Tick, Failing, Mailing
  <2>2. mails' = mails /\ failures' = failures /\ now' = now + 1 /\ edits' = edits
    BY <1>13 DEF Tick, faults, history
  <2>3. Due => Due'
    BY <1>13, <1>b, RowFields DEF Tick, Due, Reached
  <2>4. Reached' => Cardinality(Stale') <= Releases
    <3>1. CASE edits = 0
      <4>1. (Typed /\ Unedited /\ edits = 0 /\ Reached => Stale = {})'
        BY NoneStale, PTL
      <4> QED
        BY <4>1, <3>1, <2>2, FS_EmptySet DEF Releases
    <3>2. CASE edits # 0
      BY <3>2, <1>a DEF Releases, SizesTyped, Workers
    <3> QED
      BY <3>1, <3>2
  <2>5. Intervals' = Intervals + 1 + Releases /\ Releases \in Nat
    <3>1. \A m, k \in Nat : (m + 1) * (1 + k) = m * (1 + k) + 1 + k /\ m * (1 + k) \in Nat
      OBVIOUS
    <3>2. Releases \in Nat /\ Releases' = Releases
      BY <2>2, <1>a DEF Releases, Numbers
    <3>3. PICK p \in Nat : p = now * (1 + Releases) /\ (now + 1) * (1 + Releases) = p + 1 + Releases
      BY <3>1, <3>2, <1>b
    <3>4. Intervals = p + failures /\ Intervals' = p + 1 + Releases + failures
      BY <2>2, <3>2, <3>3 DEF Intervals
    <3> QED
      BY <3>2, <3>3, <3>4, <1>b
  <2>6. /\ Spent' <= 1 + Releases + Cardinality(Failing) /\ Spent' \in Nat
        /\ Spent >= Cardinality(Failing) /\ Spent \in Nat
    BY <2>1, <2>4, <2>5, <1>a, <1>b DEF Spent, SizesTyped, Numbers
  <2>7. Free' >= Free /\ Free' \in Int /\ Free \in Int
    <3>1. Free = Intervals - Spent /\ Free' = Intervals' - Spent'
      BY DEF Free
    <3>2. \A i, r, t, u, f \in Nat :
            t <= 1 + r + f /\ f <= u => (i + 1 + r) - t >= i - u /\ (i + 1 + r) - t \in Int
      OBVIOUS
    <3>3. (Intervals + 1 + Releases) - Spent' >= Intervals - Spent
          /\ (Intervals + 1 + Releases) - Spent' \in Int
      BY <2>5, <2>6, <3>2, <1>b
    <3>4. Free' = (Intervals + 1 + Releases) - Spent'
      BY <2>5, <3>1
    <3>5. Free \in Int
      BY <3>1, <2>6, <1>b
    <3>6. Free' >= Free
      BY <3>1, <3>3, <3>4
    <3>7. Free' \in Int
      BY <3>3, <3>4
    <3> QED
      BY <3>5, <3>6, <3>7
  <2>8. Burden' = Burden /\ Cardinality(Selected') = Cardinality(Selected) /\ Burden \in Nat
    BY <2>1, <2>2, <1>a DEF Burden, Numbers
  <2> QED
    BY <2>2, <2>3, <2>7, <2>8, <1>b
<1>14. CASE Die
  <2>1. /\ now' = now /\ mails' = mails /\ failures' = failures /\ Intervals' = Intervals
        /\ Reached' = Reached /\ Due' = Due
    BY <1>14, <1>b, <1>c, SameSets DEF Die, history
  <2>2. ASSUME NEW w \in Workers, task' = [task EXCEPT ![w] = None], UNCHANGED sched
        PROVE  MailInv'
    <3>1. Counts(w, None) /\ None.pc = "none"
      BY <2>1, <2>2, WorkerCounts DEF None
    <3>2. WasMailing(w) \in {0, 1} /\ WasFailing(w) \in {0, 1} /\ In(w, Stale) \in {0, 1}
      BY DEF WasMailing, WasFailing, In
    <3>3. /\ Cardinality(Mailing') <= Cardinality(Mailing) /\ Cardinality(Mailing') \in Int
          /\ Cardinality(Stale') <= Cardinality(Stale) /\ Cardinality(Stale') \in Int
          /\ Cardinality(Failing') <= Cardinality(Failing) /\ Cardinality(Failing') \in Int
      BY <3>1, <3>2, <1>b DEF Counts
    <3>4. Busy' = Busy /\ Selected' = Selected
      BY <2>2, SameSets
    <3> QED
      BY <2>1, <3>3, <3>4, <1>b DEF Burden, Free, Spent
  <2>3. ASSUME NEW x \in Schedulers, sched[x] # "idle", sched' = [sched EXCEPT ![x] = "idle"],
               UNCHANGED task
        PROVE  MailInv'
    <3>1. In(x, Busy) = 1 /\ In(x, Busy') = 0 /\ In(x, Selected') = 0 /\ In(x, Selected) \in {0, 1}
      BY <2>3, SchedulerSizes DEF In, Busy
    <3>2. /\ Cardinality(Busy') = Cardinality(Busy) - In(x, Busy) + In(x, Busy')
          /\ Cardinality(Selected') = Cardinality(Selected) - In(x, Selected) + In(x, Selected')
      BY <2>3, SchedulerSizes
    <3>3. /\ Cardinality(Busy') = Cardinality(Busy) - 1
          /\ Cardinality(Selected') \in {Cardinality(Selected), Cardinality(Selected) - 1}
      BY <3>1, <3>2, <1>b
    <3>4. Stale' = Stale /\ Failing' = Failing /\ Mailing' = Mailing
      BY <2>1, <2>3, SameSets
    <3> QED
      BY <2>1, <3>3, <3>4, <1>b DEF Burden, Free, Spent
  <2> QED
    BY <1>14, <2>2, <2>3 DEF Die, Workers
<1>15. CASE UNCHANGED vars
  <2>1. /\ Stale' = Stale /\ Failing' = Failing /\ Mailing' = Mailing
        /\ Busy' = Busy /\ Selected' = Selected /\ Reached' = Reached /\ Due' = Due
        /\ mails' = mails /\ failures' = failures
    BY <1>15, SameSets DEF vars, faults, history
  <2>2. Intervals' = Intervals
    BY <1>15, <2>1, <1>b, <1>c DEF vars
  <2> QED
    BY <2>1, <2>2, <1>b DEF Burden, Free, Spent
<1>16. ~Delete
  BY RowFields DEF Delete
<1> QED
  BY <1>1, <1>2, <1>3, <1>4, <1>5, <1>6, <1>7, <1>8, <1>9, <1>10, <1>11, <1>12, <1>13, <1>14,
     <1>15, <1>16 DEF Next, Schedule, Work, Workers

\* A deleted report does not come back; only what was generated is still mailed.
LEMMA GoneStep ==
    Typed /\ Typed' /\ MailInv /\ ~row'.exists /\ [Next]_vars => MailInv'
<1> SUFFICES ASSUME Typed, Typed', MailInv, ~row'.exists, [Next]_vars
             PROVE  MailInv'
  OBVIOUS
<1> DEFINE n == Cardinality(Schedulers)
           Generated == {j \in Jobs : task[j].pc = "mail"}
           Rest == mails + Cardinality(Generated)
<1>a. /\ n \in Nat /\ Numbers /\ Numbers'
      /\ IsFiniteSet(Generated) /\ Cardinality(Generated) \in Nat
  <2>1. Generated \subseteq Jobs /\ IsFiniteSet(Jobs)
    BY ConstantsAssumption
  <2> QED
    BY <2>1, FS_Subset, FS_CardinalityType, NumbersTyped, NumbersAfter, SetsFinite
<1>b. /\ mails \in Nat /\ failures \in Nat /\ Intervals \in Nat /\ now \in Nat
      /\ Releases \in Nat
  BY <1>a DEF Numbers
<1>c. Rest <= n * Intervals + failures
  <2>1. CASE ~row.exists
    BY <2>1 DEF MailInv
  <2>2. CASE row.exists
    <3>1. Cardinality(Generated) <= Cardinality(Mailing)
      <4>1. Generated \subseteq Mailing
        BY DEF Mailing
      <4> QED
        BY <4>1, SetsFinite, FS_Subset
    <3>2. Burden <= n * Free + failures + IF Due THEN Cardinality(Selected) ELSE 0
      BY <2>2 DEF MailInv
    <3>3. /\ n * Free \in Int /\ n * Intervals \in Int /\ n * Free <= n * Intervals
          /\ Due => n * Free + n <= n * Intervals
      BY <1>a, Products DEF Numbers
    <3>4. Cardinality(Selected) \in 0..n /\ Cardinality(Mailing) \in Nat /\ Cardinality(Busy) \in Nat
      BY SetsFinite
    <3>5. PICK p, q \in Int : p = n * Free /\ q = n * Intervals
      BY <3>3
    <3> HIDE DEF n, Generated
    <3> QED
      BY <3>1, <3>2, <3>3, <3>4, <3>5, <1>a, <1>b DEF Burden
  <2> QED
    BY <2>1, <2>2
<1>d. /\ now' \in {now, now + 1} /\ edits' \in {edits, edits + 1}
      /\ failures' \in {failures, failures + 1}
  <2>1. ASSUME NEW x \in Schedulers, Schedule(x)
        PROVE  now' = now /\ edits' = edits /\ failures' = failures
    BY <2>1 DEF Schedule, Select, Mark, Send, faults
  <2>2. ASSUME NEW c \in Clicks, Click(c) \/ MarkRun(c)
        PROVE  now' = now /\ edits' = edits /\ failures' = failures
    BY <2>2 DEF Click, MarkRun, faults
  <2>3. ASSUME NEW w \in Workers, Work(w)
        PROVE  now' = now /\ edits' = edits /\ failures' = failures
    BY <2>3 DEF Work, Load, Generate, Handle, HandleWhen, Mail, Store, faults
  <2>4. ASSUME NEW w \in Workers, Raise(w)
        PROVE  now' = now /\ edits' = edits /\ failures' \in {failures, failures + 1}
    BY <2>4 DEF Raise
  <2> QED
    BY <2>1, <2>2, <2>3, <2>4 DEF Next, Workers, Reschedule, Delete, Tick, Die, faults, vars
<1>e. Intervals <= Intervals' /\ Intervals' \in Nat /\ failures <= failures' /\ failures' \in Nat
  <2>1. edits \in Nat /\ Releases' \in Nat /\ Releases <= Releases'
    BY <1>a, <1>b, <1>d DEF Numbers, Releases, Workers
  <2>2. \A k, l \in Nat, m \in Nat :
          k <= l => /\ m * (1 + k) <= m * (1 + l) /\ m * (1 + k) <= (m + 1) * (1 + l)
                    /\ m * (1 + k) \in Nat /\ m * (1 + l) \in Nat /\ (m + 1) * (1 + l) \in Nat
    <3> TAKE k, l \in Nat, m \in Nat
    <3>1. 1 + k <= 1 + l => m * (1 + k) <= m * (1 + l)
      BY Products
    <3>2. (m + 1) * (1 + l) = m * (1 + l) + 1 + l
      OBVIOUS
    <3> QED
      BY <3>1, <3>2
  <2>3. PICK p, q \in Nat : p = now * (1 + Releases) /\ q = now' * (1 + Releases') /\ p <= q
    <3>1. CASE now' = now
      <4>1. /\ now * (1 + Releases) <= now' * (1 + Releases')
            /\ now * (1 + Releases) \in Nat /\ now' * (1 + Releases') \in Nat
        BY <2>1, <2>2, <3>1, <1>b
      <4> QED
        BY <4>1
    <3>2. CASE now' = now + 1
      <4>1. /\ now * (1 + Releases) <= now' * (1 + Releases')
            /\ now * (1 + Releases) \in Nat /\ now' * (1 + Releases') \in Nat
        BY <2>1, <2>2, <3>2, <1>b
      <4> QED
        BY <4>1
    <3> QED
      BY <3>1, <3>2, <1>d
  <2>4. Intervals = p + failures /\ Intervals' = q + failures'
    BY <2>3 DEF Intervals
  <2> QED
    BY <2>3, <2>4, <1>b, <1>d
<1>f. ASSUME Generated' \subseteq Generated, mails' = mails
      PROVE  Rest' <= Rest
  <2>1. Cardinality(Generated') <= Cardinality(Generated) /\ Cardinality(Generated') \in Nat
    BY <1>f, <1>a, FS_Subset, FS_CardinalityType
  <2> QED
    BY <1>f, <2>1, <1>a, <1>b
<1>g. ASSUME NEW w \in Workers, NEW e, task' = [task EXCEPT ![w] = e], e.pc # "mail"
      PROVE  Generated' \subseteq Generated
  BY <1>g, OneTask DEF Workers
<1>h. Rest' <= Rest /\ Rest' \in Nat
  <2>1. ASSUME NEW x \in Schedulers, Select(x) \/ Mark(x)
        PROVE  Rest' <= Rest
    BY <2>1, <1>f DEF Select, Mark, history
  <2>2. ASSUME NEW x \in Schedulers, NEW j \in Jobs, Send(x, j)
        PROVE  Rest' <= Rest
    BY <2>2, <1>f, <1>g DEF Send, Queued, Workers, history
  <2>3. ASSUME NEW c \in Clicks, Click(c)
        PROVE  Rest' <= Rest
    BY <2>3, <1>f, <1>g DEF Click, Workers, history
  <2>4. ASSUME NEW c \in Clicks, MarkRun(c)
        PROVE  Rest' <= Rest
    <3>1. \E e \in {Queued(0), None} : task' = [task EXCEPT ![c] = e]
      BY <2>4 DEF MarkRun
    <3> QED
      BY <2>4, <3>1, <1>f, <1>g DEF MarkRun, Queued, None, Workers, history
  <2>5. ASSUME NEW w \in Workers, Load(w)
        PROVE  Rest' <= Rest
    <3>1. PICK e \in {[pc |-> "run", tries |-> task[w].tries, read |-> row], None} :
            task' = [task EXCEPT ![w] = e]
      BY <2>5 DEF Load
    <3>2. e.pc # "mail"
      BY DEF None
    <3> QED
      BY <2>5, <3>1, <3>2, <1>f, <1>g DEF Load, history
  <2>6. ASSUME NEW w \in Workers, Handle(w)
        PROVE  Rest' <= Rest
    <3>1. PICK e \in {Queued(task[w].tries + 1), None} : task' = [task EXCEPT ![w] = e]
      BY <2>6 DEF Handle, HandleWhen
    <3>2. e.pc # "mail"
      BY DEF Queued, None
    <3> QED
      BY <2>6, <3>1, <3>2, <1>f, <1>g DEF Handle, HandleWhen, history
  <2>7. ASSUME NEW j \in Jobs, Mail(j)
        PROVE  Rest' <= Rest
    <3>1. task'[j].pc = "store" /\ \A v \in Workers \ {j} : task'[v] = task[v]
      <4>1. j \in Workers /\ task[j].pc = "mail" /\ Doing(j)
        BY <2>7 DEF Mail, Typed, Workers
      <4>2. [task[j] EXCEPT !.pc = "store"].pc = "store"
        BY <4>1 DEF Doing, None
      <4> QED
        BY <2>7, <4>1, <4>2, OneTask DEF Mail
    <3>2. Generated \ {j} = Generated' \ {j} /\ In(j, Generated) = 1 /\ In(j, Generated') = 0
      BY <2>7, <3>1 DEF Mail, In, Workers
    <3>3. Cardinality(Generated') = Cardinality(Generated) - 1
      <4>1. Cardinality(Generated') = Cardinality(Generated) - In(j, Generated) + In(j, Generated')
        BY <3>2, <1>a, OneChange
      <4> QED
        BY <3>2, <4>1, <1>a
    <3> QED
      BY <2>7, <3>3, <1>a, <1>b DEF Mail
  <2>8. ASSUME NEW j \in Jobs, Store(j)
        PROVE  Rest' <= Rest
    BY <2>8, <1>f, <1>g DEF Store, None, Workers, history
  <2>9. ASSUME NEW w \in Workers, Raise(w)
        PROVE  Rest' <= Rest
    BY <2>9, <1>f, <1>g DEF Raise, history
  <2>10. ASSUME NEW w \in Workers, Generate(w)
         PROVE  Rest' <= Rest
    BY <2>10, RowFields DEF Generate
  <2>11. ASSUME Die
         PROVE  Rest' <= Rest
    <3>1. mails' = mails
      BY <2>11 DEF Die, history
    <3>2. CASE UNCHANGED task
      <4>1. Generated' \subseteq Generated
        BY <3>2
      <4> QED
        BY <3>1, <4>1, <1>f
    <3>3. ASSUME NEW w \in Workers, task' = [task EXCEPT ![w] = None]
          PROVE  Rest' <= Rest
      <4>1. Generated' \subseteq Generated
        BY <3>3, <1>g DEF None
      <4> QED
        BY <3>1, <4>1, <1>f
    <3>4. UNCHANGED task \/ \E w \in Workers : task' = [task EXCEPT ![w] = None]
      BY <2>11 DEF Die, Workers
    <3> QED
      BY <3>2, <3>3, <3>4
  <2>12. ASSUME Delete \/ Tick \/ (\E s \in Periods : Reschedule(s)) \/ UNCHANGED vars
         PROVE  Rest' <= Rest
    <3>1. mails' = mails /\ task' = task
      BY <2>12 DEF Delete, Tick, Reschedule, vars, history
    <3>2. Generated' \subseteq Generated
      BY <3>1
    <3> QED
      BY <3>1, <3>2, <1>f
  <2>13. Rest' \in Nat
    <3>1. Generated' \subseteq Jobs /\ IsFiniteSet(Jobs)
      BY ConstantsAssumption
    <3>2. Cardinality(Generated') \in Nat /\ mails' \in Nat
      BY <3>1, <1>a, FS_Subset, FS_CardinalityType DEF Numbers
    <3> QED
      BY <3>2
  <2> QED
    BY <2>1, <2>2, <2>3, <2>4, <2>5, <2>6, <2>7, <2>8, <2>9, <2>10, <2>11, <2>12, <2>13
       DEF Next, Schedule, Work, Workers
<1>i. n * Intervals <= n * Intervals' /\ n * Intervals \in Int /\ n * Intervals' \in Int
  BY <1>a, <1>b, <1>e, Products
<1>j. PICK p, q \in Int : p = n * Intervals /\ q = n * Intervals' /\ p <= q
  BY <1>i
<1>k. Rest \in Nat
  BY <1>a, <1>b
<1> HIDE DEF Rest
<1>l. Rest' <= q + failures'
  BY <1>b, <1>c, <1>e, <1>h, <1>j, <1>k
<1> QED
  BY <1>j, <1>l DEF MailInv, Rest

LEMMA MailInit == Init => MailInv
<1> SUFFICES ASSUME Init
             PROVE  MailInv
  OBVIOUS
<1>1. \A w \in Workers : task[w].pc = "none"
  BY DEF Init, Workers, None
<1>2. Mailing = {} /\ Busy = {} /\ Stale = {} /\ Failing = {}
  BY <1>1 DEF Init, Mailing, Busy, Stale, Failing, Workers
<1>3. ~Reached /\ ~Due /\ row.exists
  <2>1. PICK s \in Periods \ {0} :
          row = [exists |-> TRUE, schedule |-> s, next |-> s, status |-> "idle"]
    BY DEF Init
  <2>2. s \in Nat /\ now = 0
    BY <2>1, ConstantsAssumption DEF Init
  <2> QED
    BY <2>1, <2>2 DEF Reached, Due
<1>4. Releases \in Nat
  BY SetsFinite DEF Releases, Workers
<1>5. Intervals = 0 /\ Spent = 0 /\ Burden = 0 /\ failures = 0
  <2>1. now * (1 + Releases) = 0
    BY <1>4 DEF Init
  <2> QED
    BY <1>2, <1>3, <2>1, FS_EmptySet DEF Init, Intervals, Spent, Burden
<1>6. Free = 0 /\ Cardinality(Schedulers) * 0 = 0
  BY <1>5, SetsFinite DEF Free
<1> QED
  BY <1>3, <1>5, <1>6 DEF MailInv

LEMMA MailsWithin == Typed /\ MailInv => MailsBounded
<1> SUFFICES ASSUME Typed, MailInv
             PROVE  MailsBounded
  OBVIOUS
<1> DEFINE n == Cardinality(Schedulers)
<1>1. /\ n \in Nat /\ mails \in Nat /\ failures \in Nat /\ Intervals \in Nat /\ Free \in Int
      /\ Free <= Intervals /\ (Due => Free + 1 <= Intervals)
      /\ Cardinality(Selected) \in 0..n /\ Cardinality(Mailing) \in Nat /\ Cardinality(Busy) \in Nat
      /\ Cardinality({j \in Jobs : task[j].pc = "mail"}) \in Nat
  <2>1. {j \in Jobs : task[j].pc = "mail"} \subseteq Jobs /\ IsFiniteSet(Jobs)
    BY ConstantsAssumption
  <2> QED
    BY <2>1, NumbersTyped, SetsFinite, FS_Subset, FS_CardinalityType DEF Numbers
<1>2. /\ n * Free \in Int /\ n * Intervals \in Int /\ n * Free <= n * Intervals
      /\ Due => n * Free + n <= n * Intervals
  BY <1>1, Products
<1>3. PICK p, q \in Int : p = n * Free /\ q = n * Intervals /\ p <= q /\ (Due => p + n <= q)
  BY <1>2
<1>4. \/ row.exists /\ Burden <= p + failures + IF Due THEN Cardinality(Selected) ELSE 0
      \/ mails + Cardinality({j \in Jobs : task[j].pc = "mail"}) <= q + failures
  BY <1>3 DEF MailInv
<1> HIDE DEF n
<1>5. mails <= q + failures
  BY <1>1, <1>3, <1>4 DEF Burden
<1> QED
  BY <1>3, <1>5 DEF MailsBounded, Intervals, n

\* However schedulers, tasks and users meet and steps fail, and whatever the
\* schedule is edited to, mails are bounded by the times the report came due,
\* and failures.  (enqueue_due_reports, generate_and_deliver_report)
THEOREM MailsBoundedHolds == Spec => []MailsBounded
<1>1. Init => Typed /\ Unedited /\ MailInv
  BY TypedInit, UneditedInit, MailInit
<1>2. Typed /\ Unedited /\ MailInv /\ [Next]_vars => (Typed /\ Unedited /\ MailInv)'
  <2> SUFFICES ASSUME Typed, Unedited, MailInv, [Next]_vars
               PROVE  Typed' /\ Unedited' /\ MailInv'
    OBVIOUS
  <2>1. Typed' /\ Unedited'
    BY TypedStep, UneditedStep
  <2>2. row'.exists => row.exists
    BY RowFields DEF Next, Schedule, Select, Mark, Send, Click, MarkRun, Work, Load, Generate,
                     Handle, HandleWhen, NoteError, Mail, Store, Raise, Reschedule, Delete, Tick,
                     Die, vars
  <2> QED
    BY <2>1, <2>2, LiveStep, GoneStep
<1>3. Typed /\ MailInv => MailsBounded
  BY MailsWithin
<1> QED
  BY <1>1, <1>2, <1>3, PTL DEF Spec
=============================================================================
