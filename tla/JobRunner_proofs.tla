-------------------------- MODULE JobRunner_proofs --------------------------
(***************************************************************************)
(* Proofs about JobRunner, for every set of jobs and any number of runs.   *)
(***************************************************************************)
EXTENDS JobRunner, FiniteSetTheorems, TLAPS

Statuses == Final \cup {"none", "running"}

-----------------------------------------------------------------------------
(* Types *)

\* Storing statuses of runs leaves statuses of runs.
LEMMA StoreType ==
  ASSUME TypeOK, NEW saves, DOMAIN saves \subseteq Runs,
         \A r \in DOMAIN saves : saves[r] \in Statuses,
         NEW pruned \in BOOLEAN, Store(saves, pruned)
  PROVE  row' \in [Runs -> Statuses] /\ lost' \subseteq Runs
  BY DEF Store, TypeOK, Statuses

LEMMA BeginType ==
  ASSUME TypeOK, NEW j \in Jobs, Begin(j)
  PROVE  /\ next \in Runs
         /\ next' \in 1..(MaxRuns + 1) /\ next' > next
         /\ job' \in [Runs -> Jobs \cup {NoJob}]
         /\ status' \in [Runs -> Statuses]
         /\ latest' \in [Jobs -> 0..MaxRuns]
         /\ row' \in [Runs -> Statuses]
         /\ lost' \subseteq Runs
<1> DEFINE saves == [r \in {next} \ {s \in {next} : j \in Quiet} |-> "running"]
<1>1. next \in Runs /\ next' \in 1..(MaxRuns + 1) /\ next' > next
  BY JobAssumption DEF Begin, Runs
<1>2. DOMAIN saves \subseteq Runs /\ \A r \in DOMAIN saves : saves[r] \in Statuses
  BY <1>1 DEF Statuses
<1>3. Store(saves, FALSE)
  BY DEF Begin
<1> HIDE DEF saves
<1>4. row' \in [Runs -> Statuses] /\ lost' \subseteq Runs
  BY <1>2, <1>3, StoreType
<1>5. /\ job' \in [Runs -> Jobs \cup {NoJob}]
      /\ status' \in [Runs -> Statuses]
      /\ latest' \in [Jobs -> 0..MaxRuns]
  BY <1>1, JobAssumption DEF Begin, TypeOK, Runs, Statuses
<1>6. QED
  BY <1>1, <1>4, <1>5

LEMMA RecordSkipType ==
  ASSUME TypeOK, NEW j \in Jobs, RecordSkip(j)
  PROVE  TypeOK'
<1> DEFINE saves == [r \in {next} |-> "skipped"]
<1>1. next \in Runs /\ next' \in 1..(MaxRuns + 1) /\ next' > next
  BY JobAssumption DEF RecordSkip, Runs
<1>2. DOMAIN saves \subseteq Runs /\ \A r \in DOMAIN saves : saves[r] \in Statuses
  BY <1>1 DEF Statuses, Final
<1>3. PICK pruned \in BOOLEAN : Store(saves, pruned)
  BY DEF RecordSkip
<1> HIDE DEF saves
<1>4. row' \in [Runs -> Statuses] /\ lost' \subseteq Runs
  BY <1>2, <1>3, StoreType
<1>5. /\ job' \in [Runs -> Jobs \cup {NoJob}]
      /\ status' \in [Runs -> Statuses]
      /\ latest' \in [Jobs -> 0..MaxRuns]
  BY <1>1, JobAssumption DEF RecordSkip, TypeOK, Runs, Statuses, Final
<1>6. UNCHANGED <<up, active, created, asked, threads, young>>
  BY DEF RecordSkip, tasks
<1>7. QED
  BY <1>1, <1>4, <1>5, <1>6 DEF TypeOK, Statuses

LEMMA FinishType ==
  ASSUME TypeOK, NEW r \in AtWork, NEW outcome \in Final, Finish(r, outcome),
         threads' = threads
  PROVE  TypeOK'
<1> DEFINE saves == [x \in {r} \ {s \in {r} : outcome = "idle" /\ job[s] \in Quiet} |-> outcome]
<1>1. r \in Runs /\ r \in active /\ r \notin created
  BY DEF AtWork, TypeOK
<1>2. DOMAIN saves \subseteq Runs /\ \A x \in DOMAIN saves : saves[x] \in Statuses
  BY <1>1 DEF Statuses
<1>3. PICK pruned \in BOOLEAN : Store(saves, pruned)
  BY DEF Finish
<1> HIDE DEF saves
<1>4. row' \in [Runs -> Statuses] /\ lost' \subseteq Runs
  BY <1>2, <1>3, StoreType
<1>5. status' \in [Runs -> Statuses]
  BY <1>1 DEF Finish, TypeOK, Statuses
<1>6. /\ active' = active \ {r} /\ asked' = asked \ {r}
      /\ UNCHANGED <<up, next, job, latest, created, young>>
  BY DEF Finish
<1>7. QED
  BY <1>1, <1>4, <1>5, <1>6 DEF TypeOK, Statuses

LEMMA TypeInit == Init => TypeOK
  BY JobAssumption DEF Init, TypeOK, Runs, Final

LEMMA TypeStep == TypeOK /\ [Next]_vars => TypeOK'
<1> SUFFICES ASSUME TypeOK, [Next]_vars PROVE TypeOK'
  OBVIOUS
<1>1. ASSUME NEW j \in Jobs, Start(j) PROVE TypeOK'
  <2>1. Begin(j)
    BY <1>1 DEF Start
  <2>2. /\ active' = active \cup {next} /\ created' = created \cup {next}
        /\ UNCHANGED <<up, asked, threads, young>>
    BY <1>1, <2>1 DEF Start, Begin
  <2>3. young' \in 1..next'
    BY <2>1, <2>2, BeginType DEF TypeOK
  <2>4. QED
    BY <2>1, <2>2, <2>3, BeginType DEF TypeOK, Statuses
<1>2. ASSUME NEW j \in Jobs, Fire(j) PROVE TypeOK'
  <2>1. CASE RecordSkip(j)
    BY <2>1, RecordSkipType
  <2>2. CASE Begin(j) /\ Work(next, j) /\ UNCHANGED <<up, created, asked, young>>
    <3>1. active' = active \cup {next}
      BY <2>2 DEF Begin
    <3>2. threads' \subseteq threads \cup {next}
      BY <2>2 DEF Work
    <3>3. young' \in 1..next'
      BY <2>2, BeginType DEF TypeOK
    <3>4. QED
      BY <2>2, <3>1, <3>2, <3>3, BeginType DEF TypeOK, Statuses
  <2>3. QED
    BY <1>2, <2>1, <2>2 DEF Fire
<1>3. ASSUME NEW j \in Jobs, SchedulerEvent(j) PROVE TypeOK'
  BY <1>3, RecordSkipType DEF SchedulerEvent
<1>4. ASSUME NEW r \in Runs, FirstStep(r) PROVE TypeOK'
  BY <1>4 DEF FirstStep, Work, TypeOK, runs, history
<1>5. ASSUME NEW r \in Runs, Cancel(r) PROVE TypeOK'
  BY <1>5 DEF Cancel, AtWork, TypeOK, runs, history
<1>6. ASSUME NEW r \in Runs, Complete(r) PROVE TypeOK'
  BY <1>6, FinishType DEF Complete, Final
<1>7. ASSUME NEW r \in Runs, Cancelled(r) PROVE TypeOK'
  <2>1. "cancelled" \in Final
    BY DEF Final
  <2>2. QED
    BY <1>7, <2>1, FinishType DEF Cancelled
<1>8. ASSUME NEW r \in Runs, ThreadEnds(r) PROVE TypeOK'
  BY <1>8 DEF ThreadEnds, TypeOK, runs, history
<1>9. CASE Shutdown
  <2> DEFINE saves == [r \in active |-> "error"]
  <2>1. DOMAIN saves \subseteq Runs /\ \A r \in DOMAIN saves : saves[r] \in Statuses
    BY DEF TypeOK, Statuses, Final, Outcomes
  <2>2. Store(saves, FALSE)
    BY <1>9 DEF Shutdown
  <2> HIDE DEF saves
  <2>3. row' \in [Runs -> Statuses] /\ lost' \subseteq Runs
    BY <2>1, <2>2, StoreType
  <2>4. status' \in [Runs -> Statuses]
    BY <1>9 DEF Shutdown, TypeOK, Statuses, Final, Outcomes
  <2>5. up' \in BOOLEAN /\ UNCHANGED <<next, job, latest, active, created, asked, threads, young>>
    BY <1>9 DEF Shutdown, tasks
  <2>6. QED
    BY <2>3, <2>4, <2>5 DEF TypeOK, Statuses
<1>10. CASE Restart
  <2>1. row' \in [Runs -> Statuses]
    BY <1>10 DEF Restart, TypeOK, Statuses, Final, Outcomes
  <2>2. status' \in [Runs -> Statuses] /\ latest' \in [Jobs -> 0..MaxRuns]
    BY <1>10, JobAssumption DEF Restart, Statuses
  <2>3. /\ up' \in BOOLEAN /\ active' = {} /\ created' = {} /\ asked' = {} /\ threads' = {}
        /\ UNCHANGED <<next, job, young>>
    BY <1>10 DEF Restart
  <2>4. lost' \subseteq Runs
    BY <1>10 DEF Restart, TypeOK
  <2>5. QED
    BY <2>1, <2>2, <2>3, <2>4 DEF TypeOK, Statuses
<1>11. CASE Age
  <2>1. young' \in 1..next'
    BY <1>11 DEF Age, TypeOK, runs
  <2>2. QED
    BY <1>11, <2>1 DEF Age, TypeOK, runs, tasks, history
<1>12. CASE UNCHANGED vars
  BY <1>12 DEF vars, runs, tasks, history, TypeOK
<1>13. QED
  BY <1>1, <1>2, <1>3, <1>4, <1>5, <1>6, <1>7, <1>8, <1>9, <1>10, <1>11, <1>12 DEF Next

\* The variables of the job runner keep to their types (jobs.py:552-569).
THEOREM TypeCorrect == Spec => []TypeOK
  BY TypeInit, TypeStep, PTL DEF Spec

-----------------------------------------------------------------------------
(* One run per job *)

\* Runs in progress are among the runs made, and no two are of one job.
RunsInv ==
  /\ \A r \in active \cup threads : r < next
  /\ \A r, s \in active : job[r] = job[s] => r = s

LEMMA BeginKeepsRuns ==
  ASSUME TypeOK, RunsInv, NEW j \in Jobs, Running(j) = {}, Begin(j),
         threads' \subseteq threads \cup {next}
  PROVE  RunsInv'
<1>1. next \in Runs /\ next \in Int /\ next' = next + 1
  BY DEF Begin, TypeOK
<1>2. active' = active \cup {next} /\ job' = [job EXCEPT ![next] = j]
  BY DEF Begin
<1>3. \A r \in active : r # next /\ r \in Runs /\ job'[r] = job[r] /\ job[r] # j
  BY <1>1, <1>2 DEF RunsInv, TypeOK, Runs, Running
<1>4. job'[next] = j
  BY <1>1, <1>2 DEF TypeOK
<1>5. \A r, s \in active' : job'[r] = job'[s] => r = s
  BY <1>2, <1>3, <1>4 DEF RunsInv
<1>6. \A r \in active' \cup threads' : r < next'
  BY <1>1, <1>2 DEF RunsInv, TypeOK, Runs
<1>7. QED
  BY <1>5, <1>6 DEF RunsInv

LEMMA SkipKeepsRuns ==
  ASSUME TypeOK, RunsInv, NEW j \in Jobs, RecordSkip(j)
  PROVE  RunsInv'
<1>1. next \in Runs /\ next \in Int /\ next' = next + 1
  BY DEF RecordSkip, TypeOK
<1>2. active' = active /\ threads' = threads /\ job' = [job EXCEPT ![next] = j]
  BY DEF RecordSkip, tasks
<1>3. \A r \in active : job'[r] = job[r]
  BY <1>1, <1>2 DEF RunsInv, TypeOK, Runs
<1>4. \A r \in active' \cup threads' : r < next'
  BY <1>1, <1>2 DEF RunsInv, TypeOK, Runs
<1>5. QED
  BY <1>2, <1>3, <1>4 DEF RunsInv

LEMMA RunsStep == TypeOK /\ RunsInv /\ [Next]_vars => RunsInv'
<1> SUFFICES ASSUME TypeOK, RunsInv, [Next]_vars PROVE RunsInv'
  OBVIOUS
<1>1. ASSUME NEW j \in Jobs, Start(j) PROVE RunsInv'
  BY <1>1, BeginKeepsRuns DEF Start
<1>2. ASSUME NEW j \in Jobs, Fire(j) PROVE RunsInv'
  BY <1>2, BeginKeepsRuns, SkipKeepsRuns DEF Fire, Work
<1>3. ASSUME NEW j \in Jobs, SchedulerEvent(j) PROVE RunsInv'
  BY <1>3, SkipKeepsRuns DEF SchedulerEvent
<1>4. ASSUME NEW r \in Runs, FirstStep(r) PROVE RunsInv'
  <2>1. threads' \subseteq threads \cup active
    BY <1>4 DEF FirstStep, Work, TypeOK
  <2>2. UNCHANGED <<next, job, active>>
    BY <1>4 DEF FirstStep, runs
  <2>3. QED
    BY <2>1, <2>2 DEF RunsInv
<1>5. ASSUME NEW r \in Runs, Cancel(r) PROVE RunsInv'
  BY <1>5 DEF Cancel, runs, RunsInv
<1>6. ASSUME NEW r \in Runs, Complete(r) \/ Cancelled(r) PROVE RunsInv'
  <2>1. active' \subseteq active /\ UNCHANGED <<next, job, threads>>
    BY <1>6 DEF Complete, Cancelled, Finish
  <2>2. QED
    BY <2>1 DEF RunsInv
<1>7. ASSUME NEW r \in Runs, ThreadEnds(r) PROVE RunsInv'
  BY <1>7 DEF ThreadEnds, runs, RunsInv
<1>8. CASE Shutdown
  BY <1>8 DEF Shutdown, tasks, RunsInv
<1>9. CASE Restart
  BY <1>9 DEF Restart, RunsInv
<1>10. CASE Age \/ UNCHANGED vars
  BY <1>10 DEF Age, vars, runs, tasks, RunsInv
<1>11. QED
  BY <1>1, <1>2, <1>3, <1>4, <1>5, <1>6, <1>7, <1>8, <1>9, <1>10 DEF Next

LEMMA RunsInvariant == Spec => [](TypeOK /\ RunsInv)
<1>1. Init => RunsInv
  BY DEF Init, RunsInv
<1>2. QED
  BY <1>1, TypeInit, TypeStep, RunsStep, PTL DEF Spec

\* However its runs are started, a job has at most one in progress
\* (jobs.py:668-670, 684-688).
THEOREM NeverTwiceAtOnce == Spec => []OneRunPerJob
<1>1. TypeOK /\ RunsInv => OneRunPerJob
  <2> SUFFICES ASSUME RunsInv, NEW j \in Jobs PROVE Cardinality(Running(j)) <= 1
    BY DEF OneRunPerJob
  <2>1. CASE Running(j) = {}
    BY <2>1, FS_EmptySet
  <2>2. CASE Running(j) # {}
    <3>1. PICK r \in Running(j) : TRUE
      BY <2>2
    <3>2. Running(j) = {r}
      BY <3>1 DEF Running, RunsInv
    <3>3. Cardinality({r}) = 1
      BY FS_Singleton
    <3>4. QED
      BY <3>2, <3>3
  <2>3. QED
    BY <2>1, <2>2
<1>2. QED
  BY <1>1, RunsInvariant, PTL

-----------------------------------------------------------------------------
(* The history *)

\* What makes HistoryAgrees inductive: runs that were not made yet have left no
\* trace, and the runs in progress have not been closed.
HistoryInv ==
  /\ \A r \in Runs : r >= next => row[r] = "none" /\ status[r] = "none"
  /\ up => \A r \in active : status[r] = "running" /\ row[r] \notin Final
  /\ HistoryAgrees

\* What a row is after some saves and, possibly, a prune.
LEMMA StoreEffect ==
  ASSUME TypeOK, NEW saves, DOMAIN saves \subseteq Runs,
         NEW pruned \in BOOLEAN, Store(saves, pruned), NEW r \in Runs
  PROVE  /\ up /\ r \in DOMAIN saves /\ r \notin lost' /\ r >= young => row'[r] = saves[r]
         /\ r \notin DOMAIN saves =>
              /\ row'[r] = row[r] \/ (r < young /\ row'[r] = "none")
              /\ r \notin lost' => r \notin lost
         /\ ~up => row'[r] = row[r]
         /\ \/ row'[r] = row[r] \/ (r < young /\ row'[r] = "none")
            \/ r \in DOMAIN saves /\ row'[r] = saves[r]
  BY DEF Store, TypeOK, Runs

\* A row tells what the status of its run calls for.
Tells(r) ==
  /\ status[r] # "none" =>
       row[r] = IF job[r] \in Quiet /\ status[r] \in {"running", "idle"}
                THEN "none" ELSE status[r]
  /\ status[r] = "none" => row[r] # "running"

\* A step that changes one run, n, keeps the history if n's own row is right.
LEMMA OneRunChanges ==
  ASSUME TypeOK, TypeOK', HistoryInv, up, up' = up, young' = young, NEW n \in Runs,
         n < next', next' = next \/ (next' = next + 1 /\ n = next),
         \A r \in Runs : r # n =>
            /\ status'[r] = status[r] /\ job'[r] = job[r]
            /\ row'[r] = row[r] \/ (r < young /\ row'[r] = "none")
            /\ r \notin lost' => r \notin lost,
         active' \subseteq active \cup {n},
         n \in active' => status'[n] = "running" /\ row'[n] \notin Final,
         n >= young /\ n \notin lost' => Tells(n)'
  PROVE  HistoryInv'
<1>1. ASSUME NEW r \in Runs, r >= next' PROVE row'[r] = "none" /\ status'[r] = "none"
  <2>1. r # n /\ r >= next
    BY <1>1 DEF TypeOK, Runs
  <2>2. QED
    BY <2>1 DEF HistoryInv
<1>2. ASSUME NEW r \in active' PROVE status'[r] = "running" /\ row'[r] \notin Final
  <2>1. CASE r # n
    <3>1. r \in active /\ r \in Runs
      BY <2>1 DEF TypeOK
    <3>2. QED
      BY <2>1, <3>1 DEF HistoryInv, Final, Outcomes
  <2>2. QED
    BY <1>2, <2>1
<1>3. ASSUME NEW r \in (young'..(next' - 1)) \ lost' PROVE Tells(r)'
  <2>1. CASE r # n
    <3>0. young \in Int /\ next \in Int /\ 1 <= young /\ next <= MaxRuns + 1
      BY JobAssumption DEF TypeOK
    <3>1. r \in Runs /\ r \in young..(next - 1) /\ ~(r < young)
      BY <2>1, <3>0, JobAssumption DEF Runs
    <3>2. /\ status'[r] = status[r] /\ job'[r] = job[r] /\ row'[r] = row[r]
          /\ r \notin lost
      BY <2>1, <3>1
    <3>3. Tells(r)
      BY <3>1, <3>2, Zenon DEF HistoryInv, HistoryAgrees, Tells
    <3>4. QED
      BY <3>2, <3>3 DEF Tells
  <2>2. CASE r = n
    <3>1. r >= young
      BY DEF TypeOK
    <3>2. QED
      BY <2>2, <3>1
  <2>3. QED
    BY <2>1, <2>2
<1>4. HistoryAgrees'
  BY <1>3 DEF HistoryAgrees, Tells
<1>5. QED
  BY <1>1, <1>2, <1>4 DEF HistoryInv

LEMMA BeginKeepsHistory ==
  ASSUME TypeOK, TypeOK', HistoryInv, NEW j \in Jobs, NEW n \in Runs, n = next,
         up, Begin(j), up' = up, young' = young
  PROVE  HistoryInv'
<1> DEFINE saves == [r \in {n} \ {s \in {n} : j \in Quiet} |-> "running"]
<1>1. n \in Int /\ n = next /\ next' = n + 1 /\ young <= n
  BY DEF Begin, TypeOK
<1>2. /\ active' = active \cup {n}
      /\ job' = [job EXCEPT ![n] = j]
      /\ status' = [status EXCEPT ![n] = "running"]
  BY DEF Begin
<1>3. Store(saves, FALSE)
  BY DEF Begin
<1>4. /\ DOMAIN saves \subseteq {n}
      /\ j \in Quiet => DOMAIN saves = {}
      /\ j \notin Quiet => DOMAIN saves = {n}
      /\ \A r \in DOMAIN saves : saves[r] = "running"
  OBVIOUS
<1> HIDE DEF saves
<1>5. \A r \in Runs : r # n =>
        /\ status'[r] = status[r] /\ job'[r] = job[r]
        /\ row'[r] = row[r] \/ (r < young /\ row'[r] = "none")
        /\ r \notin lost' => r \notin lost
  <2> SUFFICES ASSUME NEW r \in Runs, r # n
               PROVE  /\ status'[r] = status[r] /\ job'[r] = job[r]
                      /\ row'[r] = row[r] \/ (r < young /\ row'[r] = "none")
                      /\ r \notin lost' => r \notin lost
    OBVIOUS
  <2>1. status'[r] = status[r] /\ job'[r] = job[r]
    BY <1>1, <1>2 DEF TypeOK
  <2>2. r \notin DOMAIN saves
    BY <1>4
  <2>3. QED
    BY <1>1, <1>3, <1>4, <2>1, <2>2, StoreEffect
<1>6. /\ status'[n] = "running" /\ job'[n] = j
      /\ j \in Quiet => row'[n] = "none"
      /\ j \notin Quiet /\ n \notin lost' => row'[n] = "running"
      /\ row'[n] \in {"none", "running"}
  <2>1. row[n] = "none"
    BY <1>1 DEF HistoryInv
  <2>2. status'[n] = "running" /\ job'[n] = j
    BY <1>1, <1>2 DEF TypeOK
  <2>3. QED
    BY <1>1, <1>3, <1>4, <2>1, <2>2, StoreEffect DEF TypeOK
<1>7. n \notin lost' => Tells(n)'
  BY <1>6 DEF Tells
<1>8. row'[n] \notin Final
  BY <1>6 DEF Final, Outcomes
<1>9. QED
  BY <1>1, <1>2, <1>5, <1>6, <1>7, <1>8, OneRunChanges

LEMMA SkipKeepsHistory ==
  ASSUME TypeOK, TypeOK', RunsInv, HistoryInv, NEW j \in Jobs, NEW n \in Runs, n = next,
         up, RecordSkip(j)
  PROVE  HistoryInv'
<1> DEFINE saves == [r \in {n} |-> "skipped"]
<1>1. n \in Int /\ n = next /\ next' = n + 1 /\ young <= n
  BY DEF RecordSkip, TypeOK
<1>2. /\ active' = active /\ up' = up /\ young' = young
      /\ job' = [job EXCEPT ![n] = j]
      /\ status' = [status EXCEPT ![n] = "skipped"]
  BY DEF RecordSkip, tasks
<1>3. PICK pruned \in BOOLEAN : Store(saves, pruned)
  BY DEF RecordSkip
<1>4. DOMAIN saves = {n} /\ saves[n] = "skipped"
  OBVIOUS
<1> HIDE DEF saves
<1>5. \A r \in Runs : r # n =>
        /\ status'[r] = status[r] /\ job'[r] = job[r]
        /\ row'[r] = row[r] \/ (r < young /\ row'[r] = "none")
        /\ r \notin lost' => r \notin lost
  <2> SUFFICES ASSUME NEW r \in Runs, r # n
               PROVE  /\ status'[r] = status[r] /\ job'[r] = job[r]
                      /\ row'[r] = row[r] \/ (r < young /\ row'[r] = "none")
                      /\ r \notin lost' => r \notin lost
    OBVIOUS
  <2>1. status'[r] = status[r] /\ job'[r] = job[r]
    BY <1>1, <1>2 DEF TypeOK
  <2>2. r \notin DOMAIN saves
    BY <1>4
  <2>3. QED
    BY <1>1, <1>3, <1>4, <2>1, <2>2, StoreEffect
<1>6. status'[n] = "skipped" /\ (n \notin lost' => row'[n] = "skipped")
  <2>1. status'[n] = "skipped"
    BY <1>1, <1>2 DEF TypeOK
  <2>2. QED
    BY <1>1, <1>3, <1>4, <2>1, StoreEffect DEF TypeOK
<1>7. n \notin lost' => Tells(n)'
  BY <1>6 DEF Tells
<1>8. n \notin active'
  BY <1>1, <1>2 DEF RunsInv
<1>9. QED
  BY <1>1, <1>2, <1>5, <1>7, <1>8, OneRunChanges

LEMMA FinishKeepsHistory ==
  ASSUME TypeOK, TypeOK', RunsInv, HistoryInv, NEW n \in AtWork, NEW outcome \in Final,
         Finish(n, outcome)
  PROVE  HistoryInv'
<1> DEFINE saves == [x \in {n} \ {s \in {n} : outcome = "idle" /\ job[s] \in Quiet} |-> outcome]
<1>1. n \in Runs /\ n \in active /\ n < next /\ next \in Int
  BY DEF AtWork, TypeOK, RunsInv
<1>2. /\ active' = active \ {n} /\ UNCHANGED <<up, next, job, young>>
      /\ status' = [status EXCEPT ![n] = outcome]
  BY DEF Finish
<1>3. PICK pruned \in BOOLEAN : Store(saves, pruned)
  BY DEF Finish
<1>4. /\ DOMAIN saves \subseteq {n}
      /\ outcome = "idle" /\ job[n] \in Quiet => DOMAIN saves = {}
      /\ ~(outcome = "idle" /\ job[n] \in Quiet) => DOMAIN saves = {n}
      /\ \A r \in DOMAIN saves : saves[r] = outcome
  OBVIOUS
<1> HIDE DEF saves
<1>5. \A r \in Runs : r # n =>
        /\ status'[r] = status[r] /\ job'[r] = job[r]
        /\ row'[r] = row[r] \/ (r < young /\ row'[r] = "none")
        /\ r \notin lost' => r \notin lost
  <2> SUFFICES ASSUME NEW r \in Runs, r # n
               PROVE  /\ status'[r] = status[r] /\ job'[r] = job[r]
                      /\ row'[r] = row[r] \/ (r < young /\ row'[r] = "none")
                      /\ r \notin lost' => r \notin lost
    OBVIOUS
  <2>1. status'[r] = status[r] /\ job'[r] = job[r]
    BY <1>1, <1>2 DEF TypeOK
  <2>2. r \notin DOMAIN saves
    BY <1>4
  <2>3. QED
    BY <1>1, <1>3, <1>4, <2>1, <2>2, StoreEffect
<1>6. status'[n] = outcome /\ outcome \notin {"none", "running"}
  BY <1>1, <1>2 DEF TypeOK, Final, Outcomes
<1>7. CASE up
  <2>1. n >= young /\ n \notin lost' => Tells(n)'
    <3> SUFFICES ASSUME n >= young, n \notin lost' PROVE Tells(n)'
      OBVIOUS
    <3>1. CASE outcome = "idle" /\ job[n] \in Quiet
      <4>1. n \notin DOMAIN saves
        BY <1>4, <3>1
      <4>0. DOMAIN saves \subseteq Runs /\ ~(n < young)
        BY <1>1, <1>4 DEF TypeOK, Runs
      <4>2. n \notin lost /\ row'[n] = row[n]
        BY <1>1, <1>3, <4>0, <4>1, StoreEffect
      <4>3. status[n] = "running" /\ n \in young..(next - 1)
        BY <1>1, <1>7 DEF HistoryInv, TypeOK, Runs
      <4>4. Tells(n)
        BY <1>7, <4>2, <4>3, Zenon DEF HistoryInv, HistoryAgrees, Tells
      <4>5. QED
        BY <1>2, <1>6, <3>1, <4>2, <4>3, <4>4 DEF Tells
    <3>2. CASE ~(outcome = "idle" /\ job[n] \in Quiet)
      <4>1. row'[n] = outcome
        BY <1>1, <1>3, <1>4, <1>7, <3>2, StoreEffect
      <4>2. QED
        BY <1>2, <1>6, <3>2, <4>1 DEF Tells
    <3>3. QED
      BY <3>1, <3>2
  <2>2. QED
    BY <1>1, <1>2, <1>5, <1>7, <2>1, OneRunChanges
<1>8. CASE ~up
  <2>1. \A r \in Runs : r >= next => row'[r] = "none" /\ status'[r] = "none"
    <3> SUFFICES ASSUME NEW r \in Runs, r >= next
                 PROVE  row'[r] = "none" /\ status'[r] = "none"
      OBVIOUS
    <3>1. r # n /\ row[r] = "none" /\ status[r] = "none"
      BY <1>1 DEF HistoryInv, Runs
    <3>2. row'[r] = row[r]
      BY <1>1, <1>3, <1>4, <1>8, StoreEffect
    <3>3. QED
      BY <1>5, <3>1, <3>2
  <2>2. HistoryAgrees'
    BY <1>2, <1>8 DEF HistoryAgrees
  <2>3. QED
    BY <1>2, <1>8, <2>1, <2>2 DEF HistoryInv
<1>9. QED
  BY <1>7, <1>8

LEMMA ShutdownKeepsHistory == TypeOK /\ RunsInv /\ HistoryInv /\ Shutdown => HistoryInv'
<1> SUFFICES ASSUME TypeOK, RunsInv, HistoryInv, Shutdown PROVE HistoryInv'
  OBVIOUS
<1> DEFINE saves == [r \in active |-> "error"]
<1>1. up' = FALSE /\ next' = next
  BY DEF Shutdown
<1>2. Store(saves, FALSE) /\ DOMAIN saves = active /\ active \subseteq Runs
  BY DEF Shutdown, TypeOK
<1> HIDE DEF saves
<1>3. ASSUME NEW r \in Runs, r >= next PROVE row'[r] = "none" /\ status'[r] = "none"
  <2>1. r \notin active /\ row[r] = "none" /\ status[r] = "none"
    BY <1>3 DEF HistoryInv, RunsInv, TypeOK, Runs
  <2>2. row'[r] = "none"
    BY <1>2, <2>1, StoreEffect
  <2>3. QED
    BY <2>1, <2>2 DEF Shutdown
<1>4. HistoryAgrees'
  BY <1>1 DEF HistoryAgrees
<1>5. QED
  BY <1>1, <1>3, <1>4 DEF HistoryInv

LEMMA RestartKeepsHistory == TypeOK /\ HistoryInv /\ Restart => HistoryInv'
<1> SUFFICES ASSUME TypeOK, HistoryInv, Restart PROVE HistoryInv'
  OBVIOUS
<1>1. /\ active' = {} /\ next' = next
      /\ \A r \in Runs : status'[r] = "none"
  BY DEF Restart
<1>2. \A r \in Runs : /\ row'[r] # "running"
                      /\ row[r] = "none" => row'[r] = "none"
  BY DEF Restart
<1>3. \A r \in Runs : r >= next' => row'[r] = "none" /\ status'[r] = "none"
  BY <1>1, <1>2 DEF HistoryInv
<1>4. HistoryAgrees'
  <2>1. (young'..(next' - 1)) \subseteq Runs
    BY JobAssumption DEF Restart, TypeOK, Runs
  <2>2. QED
    BY <1>1, <1>2, <2>1 DEF HistoryAgrees
<1>5. QED
  BY <1>1, <1>3, <1>4 DEF HistoryInv

LEMMA AgeKeepsHistory == TypeOK /\ HistoryInv /\ Age => HistoryInv'
<1> SUFFICES ASSUME TypeOK, HistoryInv, Age PROVE HistoryInv'
  OBVIOUS
<1>1. UNCHANGED <<up, next, job, status, active, row, lost>> /\ young' \in (young + 1)..next
  BY DEF Age, runs, tasks, history
<1>2. (young'..(next - 1)) \subseteq (young..(next - 1))
  BY <1>1 DEF TypeOK
<1>3. HistoryAgrees'
  <2> SUFFICES ASSUME up, NEW r \in (young'..(next - 1)) \ lost PROVE Tells(r)'
    BY <1>1 DEF HistoryAgrees, Tells
  <2>1. Tells(r)
    BY <1>2, Zenon DEF HistoryInv, HistoryAgrees, Tells
  <2>2. QED
    BY <1>1, <2>1 DEF Tells
<1>4. QED
  BY <1>1, <1>3 DEF HistoryInv

LEMMA HistoryStep == TypeOK /\ TypeOK' /\ RunsInv /\ HistoryInv /\ [Next]_vars => HistoryInv'
<1> SUFFICES ASSUME TypeOK, TypeOK', RunsInv, HistoryInv, [Next]_vars PROVE HistoryInv'
  OBVIOUS
<1>1. ASSUME NEW j \in Jobs, Start(j) PROVE HistoryInv'
  BY <1>1, BeginKeepsHistory DEF Start, Begin
<1>2. ASSUME NEW j \in Jobs, Fire(j) PROVE HistoryInv'
  <2>1. CASE RecordSkip(j)
    BY <1>2, <2>1, SkipKeepsHistory DEF Fire, RecordSkip
  <2>2. CASE Begin(j) /\ UNCHANGED <<up, created, asked, young>>
    BY <1>2, <2>2, BeginKeepsHistory DEF Fire, Begin
  <2>3. QED
    BY <1>2, <2>1, <2>2 DEF Fire
<1>3. ASSUME NEW j \in Jobs, SchedulerEvent(j) PROVE HistoryInv'
  BY <1>3, SkipKeepsHistory DEF SchedulerEvent, RecordSkip
<1>4. ASSUME NEW r \in Runs, Complete(r) PROVE HistoryInv'
  BY <1>4, FinishKeepsHistory DEF Complete, Final
<1>5. ASSUME NEW r \in Runs, Cancelled(r) PROVE HistoryInv'
  <2>1. "cancelled" \in Final
    BY DEF Final
  <2>2. QED
    BY <1>5, <2>1, FinishKeepsHistory DEF Cancelled
<1>6. CASE UNCHANGED <<up, runs, active, history, young>>
  BY <1>6 DEF runs, history, HistoryInv, HistoryAgrees
<1>7. ASSUME NEW r \in Runs, FirstStep(r) \/ Cancel(r) \/ ThreadEnds(r) PROVE HistoryInv'
  BY <1>6, <1>7 DEF FirstStep, Cancel, ThreadEnds
<1>8. CASE UNCHANGED vars
  BY <1>6, <1>8 DEF vars, tasks
<1>9. QED
  BY <1>1, <1>2, <1>3, <1>4, <1>5, <1>7, <1>8, ShutdownKeepsHistory, RestartKeepsHistory,
     AgeKeepsHistory DEF Next

LEMMA HistoryInvariant == Spec => [](TypeOK /\ RunsInv /\ HistoryInv)
<1>1. Init => HistoryInv
  BY DEF Init, HistoryInv, HistoryAgrees
<1>2. QED
  BY <1>1, TypeInit, TypeStep, RunsInvariant, HistoryStep, PTL DEF Spec

\* Whatever happens to a run, its row agrees with it unless the newest write of
\* the row failed (jobs.py:718-793, 413-425).
THEOREM HistoryTellsTheTruth == Spec => []HistoryAgrees
<1>1. HistoryInv => HistoryAgrees
  BY DEF HistoryInv
<1>2. QED
  BY <1>1, HistoryInvariant, PTL

\* A row that says how its run ended keeps saying so until it is pruned
\* (jobs.py:413-425, 637-645).
THEOREM HowItEndedStays == Spec => FinalRowStays
<1>1. TypeOK /\ RunsInv /\ HistoryInv /\ [Next]_vars =>
        [\A r \in Runs : row[r] \in Final => row'[r] \in {row[r], "none"}]_vars
  <2> SUFFICES ASSUME TypeOK, RunsInv, HistoryInv, Next, NEW r \in Runs, row[r] \in Final
               PROVE  row'[r] \in {row[r], "none"}
    BY DEF vars
  <2>1. r # next /\ (up => r \notin active)
    BY DEF HistoryInv, TypeOK, Runs, Final, Outcomes
  <2>2. ASSUME NEW saves, NEW pruned \in BOOLEAN, Store(saves, pruned),
               DOMAIN saves \subseteq Runs, up => r \notin DOMAIN saves
        PROVE  row'[r] \in {row[r], "none"}
    BY <2>2, StoreEffect
  <2>3. ASSUME NEW j \in Jobs, Begin(j) PROVE row'[r] \in {row[r], "none"}
    BY <2>1, <2>2, <2>3 DEF Begin
  <2>4. ASSUME NEW j \in Jobs, RecordSkip(j) PROVE row'[r] \in {row[r], "none"}
    BY <2>1, <2>2, <2>4 DEF RecordSkip
  <2>5. ASSUME NEW n \in AtWork, NEW outcome \in Final, Finish(n, outcome)
        PROVE  row'[r] \in {row[r], "none"}
    BY <2>1, <2>2, <2>5 DEF Finish, AtWork, TypeOK
  <2>6. CASE Shutdown
    BY <2>1, <2>2, <2>6 DEF Shutdown, TypeOK
  <2>7. CASE Restart
    BY <2>7 DEF Restart, Final, Outcomes
  <2>8. CASE row' = row
    BY <2>8
  <2>9. QED
    BY <2>3, <2>4, <2>5, <2>6, <2>7, <2>8
    DEF Next, Start, Fire, SchedulerEvent, FirstStep, Cancel, Complete, Cancelled, ThreadEnds,
        Age, history, Final
<1>2. QED
  BY <1>1, HistoryInvariant, PTL DEF Spec, FinalRowStays

-----------------------------------------------------------------------------
(* Worker threads *)

\* Only runs that may be cancelled are told to.
ThreadsInv ==
  /\ \A r \in asked : job[r] \in Cancellable
  /\ UncancellableWorkIsTracked

LEMMA MadeRunsKeepTheirJob ==
  ASSUME TypeOK, RunsInv, NEW j, job' = [job EXCEPT ![next] = j], NEW r \in active \cup threads
  PROVE  job'[r] = job[r]
  BY DEF TypeOK, RunsInv, Runs

LEMMA ThreadsStep == TypeOK /\ RunsInv /\ ThreadsInv /\ [Next]_vars => ThreadsInv'
<1> SUFFICES ASSUME TypeOK, RunsInv, ThreadsInv, [Next]_vars PROVE ThreadsInv'
  OBVIOUS
<1>1. ASSUME NEW j \in Jobs, job' = [job EXCEPT ![next] = j], UNCHANGED <<up, asked>>,
             active \subseteq active', threads' \subseteq threads \cup active'
      PROVE  ThreadsInv'
  <2>1. \A r \in active \cup threads : job'[r] = job[r]
    BY <1>1, MadeRunsKeepTheirJob
  <2>2. \A r \in asked' : job'[r] \in Cancellable
    BY <1>1, <2>1 DEF ThreadsInv, TypeOK
  <2>3. UncancellableWorkIsTracked'
    BY <1>1, <2>1 DEF ThreadsInv, UncancellableWorkIsTracked
  <2>4. QED
    BY <2>2, <2>3 DEF ThreadsInv
<1>2. ASSUME NEW j \in Jobs, Start(j) \/ Fire(j) \/ SchedulerEvent(j) PROVE ThreadsInv'
  <2>1. CASE RecordSkip(j)
    BY <1>1, <2>1 DEF RecordSkip, tasks
  <2>2. CASE Begin(j) /\ UNCHANGED <<up, asked>> /\ threads' \subseteq threads \cup {next}
    BY <1>1, <2>2 DEF Begin
  <2>3. QED
    BY <1>2, <2>1, <2>2 DEF Start, Fire, SchedulerEvent, Work
<1>3. ASSUME NEW r \in Runs, FirstStep(r) PROVE ThreadsInv'
  <2>1. threads' \subseteq threads \cup active /\ UNCHANGED <<up, job, active, asked>>
    BY <1>3 DEF FirstStep, Work, runs, TypeOK
  <2>2. QED
    BY <2>1 DEF ThreadsInv, UncancellableWorkIsTracked
<1>4. ASSUME NEW r \in Runs, Cancel(r) PROVE ThreadsInv'
  BY <1>4 DEF Cancel, runs, ThreadsInv, UncancellableWorkIsTracked
<1>5. ASSUME NEW r \in Runs, Complete(r) PROVE ThreadsInv'
  BY <1>5 DEF Complete, Finish, AtWork, ThreadsInv, UncancellableWorkIsTracked
<1>6. ASSUME NEW r \in Runs, Cancelled(r) PROVE ThreadsInv'
  BY <1>6 DEF Cancelled, Finish, ThreadsInv, UncancellableWorkIsTracked
<1>7. ASSUME NEW r \in Runs, ThreadEnds(r) PROVE ThreadsInv'
  BY <1>7 DEF ThreadEnds, runs, ThreadsInv, UncancellableWorkIsTracked
<1>8. CASE Shutdown
  BY <1>8 DEF Shutdown, tasks, ThreadsInv, UncancellableWorkIsTracked
<1>9. CASE Restart
  BY <1>9 DEF Restart, ThreadsInv, UncancellableWorkIsTracked
<1>10. CASE Age \/ UNCHANGED vars
  BY <1>10 DEF Age, vars, runs, tasks, ThreadsInv, UncancellableWorkIsTracked
<1>11. QED
  BY <1>2, <1>3, <1>4, <1>5, <1>6, <1>7, <1>8, <1>9, <1>10 DEF Next

\* A thread of a job that can't be cancelled belongs to a run in progress, so
\* no second one is started beside it (jobs.py:188-189, 708-710).
THEOREM UncancellableThreadsAreTracked == Spec => []UncancellableWorkIsTracked
<1>1. Init => ThreadsInv
  BY DEF Init, ThreadsInv, UncancellableWorkIsTracked
<1>2. ThreadsInv => UncancellableWorkIsTracked
  BY DEF ThreadsInv
<1>3. QED
  BY <1>1, <1>2, RunsInvariant, ThreadsStep, PTL DEF Spec

-----------------------------------------------------------------------------
(* What a polling client is told *)

\* The runs memory knows have been made, those in progress are young, and the row
\* of a run that is over says how it ended, if it is there.
PollInv ==
  /\ \A j \in Jobs : latest[j] < next
  /\ \A r \in active : r >= young
  /\ up => \A r \in Runs \ lost : status[r] \in Final => row[r] \in {status[r], "none"}

LEMMA FinalSaid == "none" \notin Final /\ "running" \notin Final /\ {"skipped", "error"} \subseteq Final
  BY DEF Final, Outcomes

\* A save that succeeded is in the row, unless the row was pruned at once.
LEMMA SavedOrPruned ==
  ASSUME NEW saves, NEW pruned \in BOOLEAN, Store(saves, pruned),
         NEW r \in Runs, r \in DOMAIN saves, r \notin lost'
  PROVE  row'[r] \in {saves[r], "none"}
  BY DEF Store

LEMMA BeginKeepsPolls ==
  ASSUME TypeOK, RunsInv, HistoryInv, PollInv, NEW j \in Jobs, Begin(j), UNCHANGED <<up, young>>
  PROVE  PollInv'
<1> DEFINE saves == [r \in {next} \ {s \in {next} : j \in Quiet} |-> "running"]
<1>1. /\ next \in Runs /\ next' = next + 1 /\ active' = active \cup {next}
      /\ latest' = [latest EXCEPT ![j] = next]
      /\ status' = [status EXCEPT ![next] = "running"]
      /\ Store(saves, FALSE) /\ DOMAIN saves \subseteq {next}
  BY DEF Begin
<1> HIDE DEF saves
<1>2. \A i \in Jobs : latest'[i] < next'
  BY <1>1 DEF PollInv, TypeOK, Runs
<1>3. \A r \in active' : r >= young'
  BY <1>1 DEF PollInv, TypeOK, Runs
<1>4. ASSUME up, NEW r \in Runs \ lost', status'[r] \in Final PROVE row'[r] \in {status'[r], "none"}
  <2>1. r # next /\ status'[r] = status[r]
    BY <1>1, <1>4, FinalSaid DEF TypeOK
  <2>2. r \notin DOMAIN saves /\ DOMAIN saves \subseteq Runs /\ FALSE \in BOOLEAN
    BY <1>1, <2>1
  <2>3. (row'[r] = row[r] \/ row'[r] = "none") /\ r \notin lost
    BY <1>1, <1>4, <2>2, StoreEffect
  <2>4. QED
    BY <1>4, <2>1, <2>3 DEF PollInv
<1>5. QED
  BY <1>2, <1>3, <1>4 DEF PollInv

LEMMA SkipKeepsPolls ==
  ASSUME TypeOK, RunsInv, HistoryInv, PollInv, NEW j \in Jobs, RecordSkip(j)
  PROVE  PollInv'
<1> DEFINE saves == [r \in {next} |-> "skipped"]
<1>1. /\ next \in Runs /\ next' = next + 1 /\ UNCHANGED <<up, active, young>>
      /\ latest' = [latest EXCEPT ![j] = IF @ = 0 THEN next ELSE @]
      /\ status' = [status EXCEPT ![next] = "skipped"]
  BY DEF RecordSkip, tasks
<1>2. PICK pruned \in BOOLEAN : Store(saves, pruned)
  BY DEF RecordSkip
<1>3. DOMAIN saves = {next} /\ saves[next] = "skipped"
  OBVIOUS
<1> HIDE DEF saves
<1>4. \A i \in Jobs : latest'[i] < next'
  BY <1>1 DEF PollInv, TypeOK, Runs
<1>5. \A r \in active' : r >= young'
  BY <1>1 DEF PollInv
<1>6. ASSUME up, NEW r \in Runs \ lost', status'[r] \in Final PROVE row'[r] \in {status'[r], "none"}
  <2>1. CASE r = next
    <3>1. row'[r] \in {saves[r], "none"}
      BY <1>2, <1>3, <1>6, <2>1, SavedOrPruned
    <3>2. QED
      BY <1>1, <1>3, <2>1, <3>1 DEF TypeOK
  <2>2. CASE r # next
    <3>1. (row'[r] = row[r] \/ row'[r] = "none") /\ r \notin lost
      BY <1>1, <1>2, <1>3, <1>6, <2>2, StoreEffect
    <3>2. status'[r] = status[r]
      BY <1>1, <2>2 DEF TypeOK
    <3>3. QED
      BY <1>6, <3>1, <3>2 DEF PollInv
  <2>3. QED
    BY <2>1, <2>2
<1>7. QED
  BY <1>1, <1>4, <1>5, <1>6 DEF PollInv

LEMMA FinishKeepsPolls ==
  ASSUME TypeOK, RunsInv, HistoryInv, PollInv, NEW n \in AtWork, NEW outcome \in Final,
         Finish(n, outcome)
  PROVE  PollInv'
<1> DEFINE saves == [x \in {n} \ {s \in {n} : outcome = "idle" /\ job[s] \in Quiet} |-> outcome]
<1>1. /\ n \in Runs /\ n \in active /\ UNCHANGED <<up, next, job, latest, young>>
      /\ status' = [status EXCEPT ![n] = outcome] /\ active' = active \ {n}
  BY DEF Finish, AtWork, TypeOK
<1>2. PICK pruned \in BOOLEAN : Store(saves, pruned)
  BY DEF Finish
<1>3. /\ DOMAIN saves \subseteq {n} /\ \A x \in DOMAIN saves : saves[x] = outcome
      /\ n \notin DOMAIN saves => job[n] \in Quiet
  OBVIOUS
<1> HIDE DEF saves
<1>4. ASSUME up, NEW r \in Runs \ lost', status'[r] \in Final PROVE row'[r] \in {status'[r], "none"}
  <2>1. CASE r \in DOMAIN saves
    <3>1. row'[r] \in {saves[r], "none"} /\ r = n
      BY <1>2, <1>3, <1>4, <2>1, SavedOrPruned
    <3>2. QED
      BY <1>1, <1>3, <2>1, <3>1 DEF TypeOK
  <2>2. CASE r \notin DOMAIN saves
    <3>1. (row'[r] = row[r] \/ row'[r] = "none") /\ r \notin lost
      BY <1>1, <1>2, <1>3, <1>4, <2>2, StoreEffect
    <3>2. CASE r = n
      <4>1. r >= young /\ r < next /\ status[r] = "running" /\ job[r] \in Quiet
        BY <1>1, <1>3, <1>4, <2>2, <3>2 DEF PollInv, RunsInv, HistoryInv
      <4>2. r \in (young..(next - 1)) \ lost
        BY <1>4, <3>1, <4>1 DEF Runs, TypeOK
      <4>3. row[r] = "none"
        BY <1>4, <4>1, <4>2 DEF HistoryInv, HistoryAgrees
      <4>4. QED
        BY <3>1, <4>3
    <3>3. CASE r # n
      BY <1>1, <1>4, <3>1, <3>3 DEF PollInv, TypeOK
    <3>4. QED
      BY <3>2, <3>3
  <2>3. QED
    BY <2>1, <2>2
<1>5. QED
  BY <1>1, <1>4 DEF PollInv

LEMMA PollStep == TypeOK /\ RunsInv /\ HistoryInv /\ PollInv /\ [Next]_vars => PollInv'
<1> SUFFICES ASSUME TypeOK, RunsInv, HistoryInv, PollInv, [Next]_vars PROVE PollInv'
  OBVIOUS
<1>1. ASSUME NEW j \in Jobs, Start(j) \/ Fire(j) \/ SchedulerEvent(j) PROVE PollInv'
  BY <1>1, BeginKeepsPolls, SkipKeepsPolls DEF Start, Fire, SchedulerEvent
<1>2. ASSUME NEW r \in Runs, Complete(r) \/ Cancelled(r) PROVE PollInv'
  BY <1>2, FinishKeepsPolls DEF Complete, Cancelled, Final, AtWork
<1>3. CASE UNCHANGED <<up, runs, active, history, young>>
  BY <1>3 DEF runs, history, PollInv
<1>4. ASSUME NEW r \in Runs, FirstStep(r) \/ Cancel(r) \/ ThreadEnds(r) PROVE PollInv'
  BY <1>3, <1>4 DEF FirstStep, Cancel, ThreadEnds
<1>5. CASE Shutdown
  BY <1>5 DEF Shutdown, tasks, PollInv
<1>6. CASE Restart
  <2>1. next \in Nat /\ next > 0
    BY JobAssumption DEF TypeOK
  <2>2. \A r \in Runs : status'[r] \notin Final
    BY <1>6, FinalSaid DEF Restart
  <2>3. QED
    BY <1>6, <2>1, <2>2 DEF Restart, PollInv
<1>7. CASE Age
  BY <1>7 DEF Age, runs, tasks, history, PollInv
<1>8. CASE UNCHANGED vars
  BY <1>3, <1>8 DEF vars, tasks
<1>9. QED
  BY <1>1, <1>2, <1>4, <1>5, <1>6, <1>7, <1>8 DEF Next

\* What a step may make of the answer about a run that is over.
Keeps(r) == Seen(r)' = Seen(r) \/ (Seen(r)' = "none" /\ MayBeForgotten(r))

\* The row says what the client was told, or was dropped or never written for a reason.
LEMMA RowKeeps ==
  ASSUME TypeOK, HistoryInv, PollInv, up, NEW r \in Runs \ lost, r < next, Seen(r) \in Final
  PROVE  row[r] = Seen(r) \/ (row[r] = "none" /\ MayBeForgotten(r))
<1>1. CASE Known(r)
  <2>1. Seen(r) = status[r] /\ status[r] # "none" /\ row[r] \in {status[r], "none"}
    BY <1>1, FinalSaid DEF Seen, PollInv
  <2>2. CASE r >= young
    <3>1. r \in (young..(next - 1)) \ lost
      BY <2>2 DEF TypeOK, Runs
    <3>2. row[r] = IF job[r] \in Quiet /\ status[r] \in {"running", "idle"} THEN "none" ELSE status[r]
      BY <2>1, <3>1 DEF HistoryInv, HistoryAgrees
    <3>3. status[r] # "running"
      BY <2>1, FinalSaid
    <3>4. QED
      BY <2>1, <3>2, <3>3 DEF MayBeForgotten
  <2>3. CASE r < young
    BY <2>1, <2>3 DEF MayBeForgotten
  <2>4. QED
    BY <2>2, <2>3 DEF TypeOK, Runs
<1>2. CASE ~Known(r)
  BY <1>2 DEF Seen
<1>3. QED
  BY <1>1, <1>2

\* The answer stays if memory keeps what it knows, or falls back to the row.
LEMMA AnswerKeeps ==
  ASSUME TypeOK, HistoryInv, PollInv, up, NEW r \in Runs \ lost, r < next, Seen(r) \in Final,
         status'[r] = status[r] \/ ~Known(r)', ~Known(r) => ~Known(r)',
         row'[r] = row[r] \/ (r < young /\ row'[r] = "none")
  PROVE  Keeps(r)
<1>1. CASE Known(r)'
  BY <1>1 DEF Seen, Keeps
<1>2. CASE ~Known(r)'
  BY <1>2, RowKeeps DEF Seen, Keeps, MayBeForgotten
<1>3. QED
  BY <1>1, <1>2

\* What a client was told of a run that is over stays true, or the run is forgotten
\* for its age or because it had nothing to report (jobs.py:830-837, 427-432).
THEOREM PollsStayTrue == Spec => PollNeverGoesBack
<1>1. Init => PollInv
  BY JobAssumption, FinalSaid DEF Init, PollInv
<1>2. TypeOK /\ RunsInv /\ HistoryInv /\ PollInv /\ [Next]_vars =>
        [\A r \in Runs \ lost : up /\ Seen(r) \in Final =>
           \/ Seen(r)' = Seen(r)
           \/ Seen(r)' = "none" /\ MayBeForgotten(r)]_vars
  <2> SUFFICES ASSUME TypeOK, RunsInv, HistoryInv, PollInv, Next, NEW r \in Runs \ lost,
                      up, Seen(r) \in Final
               PROVE  Keeps(r)
    BY DEF vars, Keeps
  <2>1. r < next
    BY FinalSaid DEF Seen, HistoryInv, TypeOK, Runs
  <2>2. r \notin active
    BY FinalSaid DEF Seen, Known, HistoryInv
  <2>3. ASSUME NEW j \in Jobs, Begin(j) PROVE Keeps(r)
    <3> DEFINE saves == [x \in {next} \ {s \in {next} : j \in Quiet} |-> "running"]
    <3>1. /\ next \in Runs /\ Store(saves, FALSE) /\ DOMAIN saves \subseteq {next}
          /\ status' = [status EXCEPT ![next] = "running"]
          /\ latest' = [latest EXCEPT ![j] = next] /\ active' = active \cup {next}
      BY <2>3 DEF Begin
    <3> HIDE DEF saves
    <3>2. r # next /\ status'[r] = status[r]
      BY <2>1, <3>1 DEF TypeOK, Runs
    <3>3. row'[r] = row[r] \/ (r < young /\ row'[r] = "none")
      BY <3>1, <3>2, StoreEffect
    <3>4. Known(r)' => Known(r)
      BY <3>1, <3>2 DEF Known, TypeOK
    <3>5. QED
      BY <2>1, <3>2, <3>3, <3>4, AnswerKeeps
  <2>4. ASSUME NEW j \in Jobs, RecordSkip(j) PROVE Keeps(r)
    <3> DEFINE saves == [x \in {next} |-> "skipped"]
    <3>1. /\ next \in Runs /\ UNCHANGED active /\ DOMAIN saves = {next}
          /\ status' = [status EXCEPT ![next] = "skipped"]
          /\ latest' = [latest EXCEPT ![j] = IF @ = 0 THEN next ELSE @]
          /\ \E pruned \in BOOLEAN : Store(saves, pruned)
      BY <2>4 DEF RecordSkip, tasks
    <3> HIDE DEF saves
    <3>2. r # next /\ status'[r] = status[r]
      BY <2>1, <3>1 DEF TypeOK, Runs
    <3>3. row'[r] = row[r] \/ (r < young /\ row'[r] = "none")
      BY <3>1, <3>2, StoreEffect
    <3>4. Known(r)' => Known(r)
      BY <3>1, <3>2 DEF Known, TypeOK
    <3>5. QED
      BY <2>1, <3>2, <3>3, <3>4, AnswerKeeps
  <2>5. ASSUME NEW n \in AtWork, NEW outcome, Finish(n, outcome) PROVE Keeps(r)
    <3> DEFINE saves == [x \in {n} \ {s \in {n} : outcome = "idle" /\ job[s] \in Quiet} |-> outcome]
    <3>1. /\ n \in Runs /\ DOMAIN saves \subseteq {n} /\ r # n /\ status'[r] = status[r]
          /\ \E pruned \in BOOLEAN : Store(saves, pruned)
          /\ UNCHANGED latest /\ active' = active \ {n}
      BY <2>2, <2>5 DEF Finish, AtWork, TypeOK
    <3> HIDE DEF saves
    <3>2. row'[r] = row[r] \/ (r < young /\ row'[r] = "none")
      BY <3>1, StoreEffect
    <3>3. Known(r)' => Known(r)
      BY <3>1 DEF Known
    <3>4. QED
      BY <2>1, <3>1, <3>2, <3>3, AnswerKeeps
  <2>6. CASE Shutdown
    <3> DEFINE saves == [x \in active |-> "error"]
    <3>1. /\ DOMAIN saves = active /\ active \subseteq Runs /\ Store(saves, FALSE)
          /\ status'[r] = status[r] /\ UNCHANGED <<latest, active>>
      BY <2>2, <2>6 DEF Shutdown, tasks, TypeOK
    <3> HIDE DEF saves
    <3>2. row'[r] = row[r] \/ (r < young /\ row'[r] = "none")
      BY <2>2, <3>1, StoreEffect
    <3>3. Known(r)' => Known(r)
      BY <3>1 DEF Known
    <3>4. QED
      BY <2>1, <3>1, <3>2, <3>3, AnswerKeeps
  <2>7. CASE Restart
    <3>1. ~Known(r)'
      BY <2>7 DEF Restart, Known, Runs
    <3>2. Seen(r)' = IF r < young THEN "none" ELSE IF row[r] = "running" THEN "error" ELSE row[r]
      BY <2>7, <3>1 DEF Restart, Seen
    <3>3. QED
      BY <2>1, <3>2, RowKeeps, FinalSaid DEF Keeps, MayBeForgotten
  <2>8. CASE UNCHANGED <<status, latest, active, row>>
    BY <2>8 DEF Keeps, Seen, Known
  <2>9. QED
    BY <2>3, <2>4, <2>5, <2>6, <2>7, <2>8
    DEF Next, Start, Fire, SchedulerEvent, FirstStep, Cancel, Complete, Cancelled, ThreadEnds,
        Age, history, runs, tasks, Final
<1>3. QED
  BY <1>1, <1>2, HistoryInvariant, PollStep, PTL DEF Spec, PollNeverGoesBack

=============================================================================
