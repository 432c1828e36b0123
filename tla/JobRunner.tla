----------------------------- MODULE JobRunner -----------------------------
(***************************************************************************)
(* The job runner of jobs.py: scheduled and manual runs of the background  *)
(* jobs, the runs in memory, their rows in jobs.db, cancellation, shutdown *)
(* and the restart that tidies up after a process that died.               *)
(*                                                                         *)
(* Runs are tasks of one event loop; an action is what one of them does    *)
(* between two awaits.  Cancel requests come from the thread pool, because *)
(* admin_job_cancel is a plain function.  Runs are numbered in the order   *)
(* they were made, over all processes.                                     *)
(***************************************************************************)
EXTENDS Integers, FiniteSets

CONSTANTS
  Jobs,
  NoJob,        \* the job of a run that was not made yet
  Triggered,    \* jobs with a schedule
  Cancellable,  \* jobs whose spec does not say cancellable=False
  Threaded,     \* jobs whose work is done on a worker thread
  Quiet,        \* jobs with persist_idle=False
  MaxRuns       \* bound: runs ever made

ASSUME JobAssumption ==
  /\ NoJob \notin Jobs
  /\ Triggered \cup Cancellable \cup Threaded \cup Quiet \subseteq Jobs
  /\ MaxRuns \in Nat

Runs == 1..MaxRuns
\* What a job's result comes to; "partial" is recorded as "done" is.
Outcomes == {"done", "idle", "error"}
Final == Outcomes \cup {"cancelled", "skipped"}

VARIABLES
  up,        \* FALSE from the end of the lifespan to the next start
  next,      \* the number of the next run
  job,       \* run -> its job
  status,    \* run -> its status in the memory of this process
  active,    \* _active: the runs in progress
  created,   \* manual runs whose task has not had its first step yet
  latest,    \* _latest: job -> its newest run of this process, or 0
  asked,     \* runs whose task was told to cancel
  threads,   \* runs whose worker thread is still at work
  row,       \* job_runs: run -> the status its row shows, or "none"
  young,     \* the oldest run that was started less than 30 days ago
  lost       \* history: runs whose newest status did not reach job_runs

runs == <<next, job, status, latest>>
tasks == <<active, created, asked, threads>>
history == <<row, lost>>
vars == <<up, runs, tasks, history, young>>

Running(j) == {r \in active : job[r] = j}
AtWork == active \ created

\* GET /admin/jobs/{run_id}: the run in memory if it is known there, else its row.
Known(r) == r \in active \/ \E j \in Jobs : latest[j] = r
Seen(r) == IF Known(r) THEN status[r] ELSE row[r]

Init ==
  /\ up = TRUE
  /\ next = 1
  /\ job = [r \in Runs |-> NoJob]
  /\ status = [r \in Runs |-> "none"]
  /\ latest = [j \in Jobs |-> 0]
  /\ active = {} /\ created = {} /\ asked = {} /\ threads = {}
  /\ row = [r \in Runs |-> "none"]
  /\ young = 1
  /\ lost = {}

-----------------------------------------------------------------------------
\* _save of some runs, each of which may fail (and does once the history is
\* closed), then possibly the prune that every 200th finished run triggers.
StoreAfterClose(saves, pruned) ==
  \E kept \in SUBSET DOMAIN saves :
    /\ row' = [r \in Runs |-> IF pruned /\ r < young THEN "none"
                              ELSE IF r \in kept THEN saves[r] ELSE row[r]]
    /\ lost' = (lost \ kept) \cup (DOMAIN saves \ kept)
Store(saves, pruned) ==
  \E kept \in IF up THEN SUBSET DOMAIN saves ELSE {{}} :
    /\ row' = [r \in Runs |-> IF up /\ pruned /\ r < young THEN "none"
                              ELSE IF r \in kept THEN saves[r] ELSE row[r]]
    /\ lost' = (lost \ kept) \cup (DOMAIN saves \ kept)

\* _begin of run next: in memory and, unless its job is quiet, in the history.
BeginUnsaved(j) ==
  /\ next \in Runs
  /\ next' = next + 1
  /\ job' = [job EXCEPT ![next] = j]
  /\ status' = [status EXCEPT ![next] = "running"]
  /\ latest' = [latest EXCEPT ![j] = next]
  /\ active' = active \cup {next}
  /\ UNCHANGED history
Begin(j) ==
  /\ next \in Runs
  /\ next' = next + 1
  /\ job' = [job EXCEPT ![next] = j]
  /\ status' = [status EXCEPT ![next] = "running"]
  /\ latest' = [latest EXCEPT ![j] = next]
  /\ active' = active \cup {next}
  /\ Store([r \in {next} \ {s \in {next} : j \in Quiet} |-> "running"], FALSE)

\* start: a run by hand; its task is created and runs at the next turn of the loop.
\* A job the settings disable is refused without an effect.
StartUnchecked(j) ==
  /\ up
  /\ Begin(j)
  /\ created' = created \cup {next}
  /\ UNCHANGED <<up, asked, threads, young>>
Start(j) ==
  /\ up
  /\ Running(j) = {}
  /\ Begin(j)
  /\ created' = created \cup {next}
  /\ UNCHANGED <<up, asked, threads, young>>

\* The work begins: from here on a threaded job waits for its worker thread.
Work(r, j) == threads' = IF j \in Threaded THEN threads \cup {r} ELSE threads

FirstStep(r) ==
  /\ r \in created
  /\ created' = created \ {r}
  /\ Work(r, job[r])
  /\ UNCHANGED <<up, runs, active, asked, history, young>>

\* _record_skip: a run that is over at once (overlap, disabled, missed).
RecordSkip(j) ==
  /\ next \in Runs
  /\ next' = next + 1
  /\ job' = [job EXCEPT ![next] = j]
  /\ status' = [status EXCEPT ![next] = "skipped"]
  /\ latest' = [latest EXCEPT ![j] = IF @ = 0 THEN next ELSE @]
  /\ \E pruned \in BOOLEAN : Store([r \in {next} |-> "skipped"], pruned)
  /\ UNCHANGED <<up, tasks, young>>

\* _fire: the scheduler's task runs the job, or records why it does not.  The
\* settings, which can change at any moment, may disable the job.
Fire(j) ==
  /\ up
  /\ j \in Triggered
  /\ \E disabled \in BOOLEAN :
       \/ /\ Running(j) = {} /\ ~disabled
          /\ Begin(j)
          /\ Work(next, j)
          /\ UNCHANGED <<up, created, asked, young>>
       \/ /\ Running(j) # {} \/ disabled
          /\ RecordSkip(j)

\* _on_scheduler_event: APScheduler missed a start, or its own run is still going.
SchedulerEvent(j) ==
  /\ up
  /\ j \in Triggered
  /\ RecordSkip(j)

\* cancel, for a run a client has heard of: its task has had its first step,
\* because the loop ran it before it could read the client's next request.
CancelLatest(r) ==
  /\ up
  /\ \E j \in Cancellable : latest[j] = r
  /\ asked' = asked \cup {r}
  /\ UNCHANGED <<up, runs, active, created, threads, history, young>>
CancelAny(r) ==
  /\ up
  /\ r \in AtWork
  /\ asked' = asked \cup {r}
  /\ UNCHANGED <<up, runs, active, created, threads, history, young>>
Cancel(r) ==
  /\ up
  /\ r \in AtWork
  /\ job[r] \in Cancellable
  /\ asked' = asked \cup {r}
  /\ UNCHANGED <<up, runs, active, created, threads, history, young>>

\* _execute ends with _finish and takes the run out of _active.
FinishKeepingActive(r, outcome) ==
  /\ status' = [status EXCEPT ![r] = outcome]
  /\ \E pruned \in BOOLEAN :
       Store([x \in {r} \ {s \in {r} : outcome = "idle" /\ job[s] \in Quiet} |-> outcome],
             pruned)
  /\ UNCHANGED <<up, next, job, latest, active, created, asked, young>>
FinishBusyOnly(r, outcome) ==
  /\ status' = [status EXCEPT ![r] = outcome]
  /\ active' = active \ {r}
  /\ asked' = asked \ {r}
  /\ Store([x \in {r} \ {s \in {r} : job[s] \in Quiet} |-> outcome], FALSE)
  /\ UNCHANGED <<up, next, job, latest, created, young>>
Finish(r, outcome) ==
  /\ status' = [status EXCEPT ![r] = outcome]
  /\ active' = active \ {r}
  /\ asked' = asked \ {r}
  /\ \E pruned \in BOOLEAN :
       Store([x \in {r} \ {s \in {r} : outcome = "idle" /\ job[s] \in Quiet} |-> outcome],
             pruned)
  /\ UNCHANGED <<up, next, job, latest, created, young>>

\* The job returns or raises.  It may have been told to cancel during its last
\* stretch of code without an await, too late to notice.
Complete(r) ==
  /\ r \in AtWork \ threads
  /\ \E outcome \in Outcomes : Finish(r, outcome)
  /\ UNCHANGED threads

\* The await of the job raises CancelledError; a worker thread does not notice.
\* The end of the event loop cancels every task.
Cancelled(r) ==
  /\ r \in AtWork
  /\ r \in asked \/ ~up
  /\ Finish(r, "cancelled")
  /\ UNCHANGED threads

ThreadEnds(r) ==
  /\ r \in threads
  /\ threads' = threads \ {r}
  /\ UNCHANGED <<up, runs, active, created, asked, history, young>>

-----------------------------------------------------------------------------
\* shutdown: the runs in progress are recorded as errors, then the history closes.
Shutdown ==
  /\ up
  /\ up' = FALSE
  /\ status' = [r \in Runs |-> IF r \in active THEN "error" ELSE status[r]]
  /\ Store([r \in active |-> "error"], FALSE)
  /\ UNCHANGED <<next, job, latest, tasks, young>>

\* The process is gone, with or without a shutdown, and a new one starts:
\* startup marks the rows left running, then prunes.
RestartUnmarked ==
  /\ up' = TRUE
  /\ status' = [r \in Runs |-> "none"]
  /\ latest' = [j \in Jobs |-> 0]
  /\ active' = {} /\ created' = {} /\ asked' = {} /\ threads' = {}
  /\ row' = [r \in Runs |-> IF r < young THEN "none" ELSE row[r]]
  /\ lost' = {r \in lost : row[r] = "none"}
  /\ UNCHANGED <<next, job, young>>
Restart ==
  /\ up' = TRUE
  /\ status' = [r \in Runs |-> "none"]
  /\ latest' = [j \in Jobs |-> 0]
  /\ active' = {} /\ created' = {} /\ asked' = {} /\ threads' = {}
  /\ row' = [r \in Runs |-> IF r < young THEN "none"
                            ELSE IF row[r] = "running" THEN "error" ELSE row[r]]
  /\ lost' = {r \in lost : row[r] = "none"}
  /\ UNCHANGED <<next, job, young>>

\* Days pass.  No run lasts 30 days.
Age ==
  /\ young' \in (young + 1)..next
  /\ \A r \in active : r >= young'
  /\ UNCHANGED <<up, runs, tasks, history>>

Next ==
  \/ \E j \in Jobs : Start(j) \/ Fire(j) \/ SchedulerEvent(j)
  \/ \E r \in Runs : \/ FirstStep(r) \/ Cancel(r) \/ Complete(r)
                     \/ Cancelled(r) \/ ThreadEnds(r)
  \/ Shutdown \/ Restart \/ Age

\* The event loop keeps turning: a task that can take a step takes it.  Nothing
\* is assumed of the jobs themselves, which may run for ever.
LoopTurns == \A r \in Runs : WF_vars(FirstStep(r)) /\ WF_vars(Cancelled(r))

Spec == Init /\ [][Next]_vars /\ LoopTurns

-----------------------------------------------------------------------------
\* The values the variables range over.
TypeOK ==
  /\ up \in BOOLEAN
  /\ next \in 1..(MaxRuns + 1)
  /\ job \in [Runs -> Jobs \cup {NoJob}]
  /\ status \in [Runs -> Final \cup {"none", "running"}]
  /\ latest \in [Jobs -> 0..MaxRuns]
  /\ active \subseteq Runs /\ created \subseteq active
  /\ asked \subseteq active /\ threads \subseteq Runs
  /\ row \in [Runs -> Final \cup {"none", "running"}]
  /\ young \in 1..next
  /\ lost \subseteq Runs

\* A job is never run twice at once, whoever starts it: by hand, by the
\* schedule, or by a change of the publisher lists (jobs.py:669-671, 683-687).
OneRunPerJob == \A j \in Jobs : Cardinality(Running(j)) <= 1

\* The history tells the truth.  A run of this process has the row its status
\* calls for (none while a quiet job has nothing to report), whatever happened
\* to it, and no row of an earlier process says the run is still going.  Only
\* a save that failed excuses a row (jobs.py:718-795, 413-425).
HistoryAgrees ==
  up => \A r \in (young..(next - 1)) \ lost :
    /\ status[r] # "none" =>
         row[r] = IF job[r] \in Quiet /\ status[r] \in {"running", "idle"}
                  THEN "none" ELSE status[r]
    /\ status[r] = "none" => row[r] # "running"

\* Once the history has recorded how a run ended, that never changes: not by
\* the late end of a run the shutdown wrote off, nor by the next start-up
\* (jobs.py:413-425, 637-645).
FinalRowStays == [][\A r \in Runs : row[r] \in Final => row'[r] \in {row[r], "none"}]_vars

MayBeForgotten(r) == r < young \/ (job[r] \in Quiet /\ Seen(r) = "idle")

\* A client that polls a run and was told how it ended is never told later that
\* it is running or ended otherwise, although the answer comes from three
\* places.  Only a run with nothing to report, which leaves no row, and one
\* older than 30 days are forgotten (jobs.py:830-837, 427-432).
PollNeverGoesBack ==
  [][\A r \in Runs \ lost :
       up /\ Seen(r) \in Final =>
         \/ Seen(r)' = Seen(r)
         \/ Seen(r)' = "none" /\ MayBeForgotten(r)]_vars

\* The worker threads of a job that can't be cancelled never overlap: each
\* belongs to the run in progress (jobs.py:188-189, 708-710).
UncancellableWorkIsTracked ==
  up => \A r \in threads : job[r] \notin Cancellable => r \in active

\* A run that was told to cancel ends, even if its job would have run for ever,
\* so its job can be started again (jobs.py:701-714, 735-745).
CancelTakesEffect == \A r \in Runs : r \in asked ~> r \notin active

=============================================================================
