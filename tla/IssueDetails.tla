--------------------------- MODULE IssueDetails ---------------------------
(***************************************************************************)
(* The stored issues (cv_issue in db.py): rows that list answers bring     *)
(* without credits, the details that clients (get_issue in routes/api.py)  *)
(* and backfills (scheduler.py) fetch one by one, what upsert_issue does   *)
(* not store, eviction and the purge.                                      *)
(*                                                                         *)
(* All coroutines share one SQLite connection, so they see each other's    *)
(* uncommitted rows, any of them commits them all, and a crash loses them  *)
(* all.  Worker threads read the file on connections of their own.         *)
(***************************************************************************)
EXTENDS Integers, FiniteSets

CONSTANTS
  Issues,
  Volumes,    \* the sets of issues that make a volume; the lists are by volume
  Clients,    \* requests for an issue in progress at once
  Old,        \* issues past the cutoff of EVICT_OLDER_THAN_YEARS
  Imported,   \* issues an older database brought, without dates
  BeforeCutoff, \* issues older than CACHE_CUTOFF_YEAR
  OutOfWindow,  \* dated issues older than BACKFILL_MIN_YEAR
  PageSize,   \* bound: issues in a list answer
  MaxEdits,   \* bound: changes on ComicVine and of the publisher lists
  MaxTroubles \* bound: failed calls, cancelled runs, restarts

ASSUME DetailsAssumption ==
  /\ Volumes \subseteq SUBSET Issues
  /\ {Old, Imported, BeforeCutoff, OutOfWindow} \subseteq SUBSET Issues
  /\ {PageSize, MaxEdits, MaxTroubles} \subseteq Nat

VARIABLES
  upstream, \* issue -> date_last_updated on ComicVine, Gone when it is not there
  shown,    \* issue -> row the shared connection sees
  saved,    \* issue -> committed row
  call,     \* client -> where its get_issue is
  page,     \* a list answer on its way: the dates of the issues in it
  run,      \* the backfill run
  blocked,  \* the issues of blocked volumes
  scope,    \* the issues the publisher lists let backfills fetch
  edits,
  troubles,
  reported  \* history: what finished runs counted and had stored, not deleted since

outside == <<upstream, edits, blocked, scope>>
rows == <<shown, saved>>
vars == <<outside, rows, call, page, run, troubles, reported>>

Gone == 0
Failed == -1
RateLimited == -2
NoPage == [i \in Issues |-> Gone]

\* list: date_last_updated (0 for NULL); detail: the date of the credits (0: none);
\* fresh: detail_fetched_at is set; missing: backfill_missing; used: last_accessed is
\* set and not older than EVICT_UNACCESSED_DAYS
Bare(date) == [list |-> date, detail |-> 0, fresh |-> FALSE, missing |-> FALSE, used |-> FALSE]
NoRow == Bare(-1)
Undated == Bare(0)

Asking(i, had, answer) == [issue |-> i, had |-> had, answer |-> answer]
Idle == Asking(0, FALSE, Failed)
\* updated: what it counts as updated; lost (history): what of that upsert_issue left
\* out, or was rolled back or deleted since
NoRun ==
  [pc |-> "idle", todo |-> {}, issue |-> 0, answer |-> Failed, updated |-> {}, lost |-> {}]

Init ==
  /\ upstream = [i \in Issues |-> 1]
  /\ shown = [i \in Issues |-> IF i \in Imported THEN Undated ELSE NoRow]
  /\ saved = shown
  /\ call = [c \in Clients |-> Idle]
  /\ page = NoPage
  /\ run = NoRun
  /\ blocked = {} /\ scope = Issues
  /\ edits = 0 /\ troubles = 0
  /\ reported = {}

Stored(i) == shown[i] # NoRow

Trouble(happens) ==
  /\ happens => troubles < MaxTroubles
  /\ troubles' = IF happens THEN troubles + 1 ELSE troubles

-----------------------------------------------------------------------------
(* The tables *)

\* upsert_issue returns early for issues too old to be cached and of blocked volumes.
Barred == BeforeCutoff \cup blocked

\* A detail answer replaces the row: every column it does not bring is NULL.
WithDetail(i, date) ==
  IF i \in Barred THEN shown[i] ELSE [Bare(date) EXCEPT !.detail = date, !.fresh = TRUE]

\* A list answer updates the list columns; a new date takes the stamp away.
KeepsStamp(i, date) == [shown[i] EXCEPT !.list = date, !.missing = FALSE]
WithList(i, date) ==
  IF i \in Barred THEN shown[i]
  ELSE IF ~Stored(i) THEN Bare(date)
  ELSE [shown[i] EXCEPT !.list = date, !.missing = FALSE,
                        !.fresh = @ /\ shown[i].list = date]

\* touch_last_accessed, once eviction is on and the issue is past its cutoff.
Touched(row, i) == IF i \in Old /\ row # NoRow THEN [row EXCEPT !.used = TRUE] ELSE row

\* mark_issue_backfill_missing: an UPDATE, so only of a row there is.
MarkedAlways(row) == [row EXCEPT !.missing = TRUE]
Marked(row) == IF row = NoRow THEN row ELSE [row EXCEPT !.missing = TRUE]

Write(new) == shown' = new /\ UNCHANGED saved
Commit(new) == shown' = new /\ saved' = new

-----------------------------------------------------------------------------
(* ComicVine *)

Edit(i) ==
  /\ edits < MaxEdits
  /\ edits' = edits + 1
  /\ upstream[i] # Gone
  /\ \/ upstream' = [upstream EXCEPT ![i] = @ + 1]
     \/ upstream' = [upstream EXCEPT ![i] = Gone]
  /\ UNCHANGED <<rows, call, page, run, blocked, scope, troubles, reported>>

\* What it answers for one issue: the date of what it has, "not found", or nothing.
\* The answer is as old as the call and arrives later.
Answer(i) == {upstream[i], Failed}

-----------------------------------------------------------------------------
(* get_issue *)

Serve(i) == Commit([shown EXCEPT ![i] = Touched(@, i)])

\* A stored row answers unless it lacks details that are wanted, or the client
\* wants no cache; a client that wants only the cache gets what there is.
Request(c, i, wantsDetail, mode) ==
  /\ call[c] = Idle
  /\ LET had == mode # "no-cache" /\ Stored(i)
         local == had /\ (mode = "only-if-cached" \/ ~wantsDetail \/ shown[i].fresh)
     IN  \/ /\ local
            /\ Serve(i)
            /\ UNCHANGED call
         \/ /\ ~local
            /\ mode # "only-if-cached"
            /\ \E answer \in Answer(i) \cup {RateLimited} :
                 call' = [call EXCEPT ![c] = Asking(i, had, answer)]
            /\ UNCHANGED rows
  /\ UNCHANGED <<outside, page, run, troubles, reported>>

\* The answer arrives: stored and committed, unless it may not be stored; or, for want
\* of details, the row of before the call is served, if there was one.  A refused
\* client is told to come back.
Arrives(c) ==
  /\ call[c] # Idle
  /\ LET i == call[c].issue
         date == call[c].answer
         local == date \in {Gone, Failed} /\ call[c].had
     IN  \/ date > 0 /\ i \notin Barred /\ Commit([shown EXCEPT ![i] = WithDetail(i, date)])
         \/ local /\ Serve(i)
         \/ ~local /\ (date > 0 => i \in Barred) /\ UNCHANGED rows
  /\ call' = [call EXCEPT ![c] = Idle]
  /\ UNCHANGED <<outside, page, run, troubles, reported>>

-----------------------------------------------------------------------------
(* List answers *)

\* ComicVine makes a page with some of the issues asked for.
Listed(wanted) ==
  /\ page = NoPage
  /\ \E some \in SUBSET {i \in wanted : upstream[i] # Gone} :
       /\ Cardinality(some) \in 1..PageSize
       /\ page' = [i \in Issues |-> IF i \in some THEN upstream[i] ELSE Gone]
  /\ UNCHANGED <<outside, rows, call, run, troubles, reported>>

\* What changed or appeared, or what a client or the operator named; for the gaps
\* the MCL shows, what the file doesn't have and the lists let it fetch.
ListSome == Listed(Issues)
ListMissing == Listed({i \in scope \ blocked : saved[i] = NoRow})

InPage == {i \in Issues : page[i] # Gone}

\* Incremental sync, release prefetch and re-fetch upsert every issue of the page,
\* the MCL backfill, searches by volume and other lists only those not stored yet.
Upserted == [i \in Issues |-> IF i \in InPage THEN WithList(i, page[i]) ELSE shown[i]]
Inserted ==
  [i \in Issues |-> IF i \in InPage /\ ~Stored(i) THEN WithList(i, page[i]) ELSE shown[i]]

UpsertPage ==
  /\ InPage # {}
  /\ Commit(Upserted)
  /\ page' = NoPage
  /\ UNCHANGED <<outside, call, run, troubles, reported>>

InsertPage ==
  /\ InPage # {}
  /\ Commit(Inserted)
  /\ page' = NoPage
  /\ UNCHANGED <<outside, call, run, troubles, reported>>

-----------------------------------------------------------------------------
(* _backfill_ids *)

Needs(row) == row # NoRow /\ (~row.fresh \/ row.list = 0) /\ ~row.missing

\* The ids come from the file, on a worker thread's connection: the newest ones of the
\* backfill window that the publisher lists allow, hundreds of them (_ISSUE_BATCH,
\* _ISSUE_DETAIL_BATCH), here all.
DueNeverFetched == {i \in scope \ OutOfWindow : Needs(saved[i]) /\ saved[i].detail = 0}
Due == {i \in scope \ OutOfWindow : Needs(saved[i])}
StartRun ==
  /\ run = NoRun
  /\ Due # {}
  /\ run' = [NoRun EXCEPT !.pc = "between", !.todo = Due]
  /\ UNCHANGED <<outside, rows, call, page, troubles, reported>>

\* Quota and queue leave room for the next id, and ComicVine answers.
Ask(i) ==
  /\ run.pc = "between"
  /\ i \in run.todo
  /\ \E answer \in Answer(i) :
       /\ Trouble(answer = Failed)
       /\ run' = [run EXCEPT !.pc = "asking", !.todo = @ \ {i}, !.issue = i, !.answer = answer]
  /\ UNCHANGED <<outside, rows, call, page, reported>>

\* Upserted or marked as missing, without a commit; then the run sleeps.  What
\* upsert_issue left out is counted as updated all the same.
RunStores ==
  /\ run.pc = "asking"
  /\ LET i == run.issue
         found == IF run.answer > 0 THEN {i} ELSE {}
     IN  /\ Write([shown EXCEPT ![i] =
              IF run.answer > 0 THEN WithDetail(i, run.answer)
              ELSE IF run.answer = Gone THEN Marked(@)
              ELSE @])
         /\ run' = [run EXCEPT !.pc = "between", !.issue = 0, !.answer = Failed,
                               !.updated = @ \cup found, !.lost = @ \cup (found \cap Barred)]
  /\ UNCHANGED <<outside, call, page, troubles, reported>>

\* All asked, or no room left, or refused: the commit, and the run's counts.
Stays(r) == r.updated \ r.lost
Report == /\ reported' = reported \cup Stays(run)
          /\ run' = NoRun
Uncommitted(new) == Write(new)
Finish(new) == Commit(new)

EndRun ==
  /\ run.pc = "between"
  /\ Finish(shown)
  /\ Report
  /\ UNCHANGED <<outside, call, page, troubles>>

Refused ==
  /\ run.pc = "asking"
  /\ Trouble(TRUE)
  /\ Finish(shown)
  /\ Report
  /\ UNCHANGED <<outside, call, page>>

\* Cancelled, or an exception: no commit; the rows wait for somebody else's.
CancelRun ==
  /\ run # NoRun
  /\ Trouble(TRUE)
  /\ run' = NoRun
  /\ UNCHANGED <<outside, rows, call, page, reported>>

-----------------------------------------------------------------------------
(* The publisher lists *)

\* set_publisher_list or import_publisher_list, or an answer that names a volume's
\* blocked publisher: other volumes are blocked or in scope, and what is open on the
\* connection is committed along with it.
EditLists ==
  /\ edits < MaxEdits
  /\ edits' = edits + 1
  /\ \E closed \in SUBSET Volumes, open \in SUBSET Volumes :
       blocked' = UNION closed /\ scope' = UNION open \ UNION closed
  /\ Commit(shown)
  /\ UNCHANGED <<upstream, call, page, run, troubles, reported>>

\* A statement of it fails: everything open is rolled back, a run's upserts included.
EditListsFails ==
  /\ Trouble(TRUE)
  /\ shown' = saved
  /\ run' = [run EXCEPT !.lost = @ \cup {i \in run.updated : shown[i] # saved[i]}]
  /\ UNCHANGED <<outside, saved, call, page, reported>>

-----------------------------------------------------------------------------
(* Eviction, the purge, time and restarts *)

Delete(gone) ==
  /\ reported' = reported \ gone
  /\ run' = [run EXCEPT !.lost = @ \cup (run.updated \cap gone)]
  /\ UNCHANGED <<outside, call, page, troubles>>

\* evict_stale_issues: old issues not accessed for EVICT_UNACCESSED_DAYS.
Stale == {i \in Old : Stored(i) /\ ~shown[i].used}
Evict ==
  /\ Stale # {}
  /\ Commit([i \in Issues |-> IF i \in Stale THEN NoRow ELSE shown[i]])
  /\ Delete(Stale)

\* purge_blocked, a batch, on a connection of its own: it gets the write lock only
\* while nothing is open on the shared one.
Purge ==
  /\ shown = saved
  /\ \E batch \in SUBSET {i \in blocked : Stored(i)} :
       /\ batch # {}
       /\ Commit([i \in Issues |-> IF i \in batch THEN NoRow ELSE shown[i]])
       /\ Delete(batch)

\* EVICT_UNACCESSED_DAYS pass.
Forgotten(row) == IF row.used THEN [row EXCEPT !.used = FALSE] ELSE row
DaysPass ==
  /\ \E i \in Issues : shown[i].used
  /\ shown' = [i \in Issues |-> Forgotten(shown[i])]
  /\ saved' = [i \in Issues |-> Forgotten(saved[i])]
  /\ UNCHANGED <<outside, call, page, run, troubles, reported>>

\* The process dies and a new one starts: uncommitted rows are lost.
Restart ==
  /\ Trouble(TRUE)
  /\ shown' = saved
  /\ call' = [c \in Clients |-> Idle]
  /\ page' = NoPage
  /\ run' = NoRun
  /\ UNCHANGED <<outside, saved, reported>>

Modes == {"", "no-cache", "only-if-cached"}

Next ==
  \/ \E i \in Issues : Edit(i) \/ Ask(i)
  \/ \E c \in Clients :
       \/ \E i \in Issues, wantsDetail \in BOOLEAN, mode \in Modes : Request(c, i, wantsDetail, mode)
       \/ Arrives(c)
  \/ ListSome \/ ListMissing \/ UpsertPage \/ InsertPage
  \/ StartRun \/ RunStores \/ EndRun \/ Refused \/ CancelRun
  \/ EditLists \/ EditListsFails
  \/ Evict \/ Purge \/ DaysPass \/ Restart

\* The backfill is scheduled every hour and its calls end; again and again quota
\* and queue leave it a call.
Fairness ==
  /\ WF_vars(StartRun) /\ WF_vars(RunStores) /\ WF_vars(EndRun)
  /\ \A i \in Issues : SF_vars(Ask(i))

Spec == Init /\ [][Next]_vars /\ Fairness

-----------------------------------------------------------------------------
Dates == 0..(MaxEdits + 1)
\* A row without list date is no row at all: it has nothing else either.
Rows == {NoRow} \cup [list : Dates, detail : Dates, fresh : BOOLEAN, missing : BOOLEAN,
         used : BOOLEAN]

TypeOK ==
  /\ upstream \in [Issues -> Dates]
  /\ shown \in [Issues -> Rows] /\ saved \in [Issues -> Rows]
  /\ call \in [Clients -> [issue : Issues \cup {0}, had : BOOLEAN,
                            answer : Dates \cup {Failed, RateLimited}]]
  /\ page \in [Issues -> Dates]
  /\ run \in [pc : {"idle", "between", "asking"}, todo : SUBSET Issues,
              issue : Issues \cup {0}, answer : Dates \cup {Failed},
              updated : SUBSET Issues, lost : SUBSET Issues]
  /\ blocked \subseteq Issues /\ scope \subseteq Issues
  /\ edits \in 0..MaxEdits /\ troubles \in 0..MaxTroubles
  /\ reported \subseteq Issues

\* A row that passes for having its details has those of its own date, in the
\* file as on the connection: credits of an older edit are never served as fresh
\* next to newer list columns (db.py:1918-1920).
FreshIsWhole ==
  \A i \in Issues : /\ shown[i].fresh => shown[i].detail = shown[i].list
                    /\ saved[i].fresh => saved[i].detail = saved[i].list

\* What a finished backfill run has counted as updated is in the file with details, also
\* after a crash, until it is evicted or purged (scheduler.py:758, 788).  The exceptions
\* are what upsert_issue left out and what a failed edit of the lists has rolled back:
\* the run counts them all the same (scheduler.py:783).
UpdatesSurvive == \A i \in reported : saved[i].detail > 0

\* Every stored issue that backfills may fetch and upsert_issue stores gets its details
\* in the end, or is known to be gone, whatever runs are cancelled or lost their
\* uncommitted rows with the process or to a failed edit of the lists.
EveryIssueGetsDetails ==
  \A i \in Issues : []<>~(Needs(shown[i]) /\ i \in scope \ (OutOfWindow \cup Barred))

=============================================================================
