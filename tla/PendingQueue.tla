--------------------------- MODULE PendingQueue ---------------------------
(***************************************************************************)
(* The queue of requests that missed the cache while ComicVine could not   *)
(* be asked (pending.py, the queue's rows in db.py), with everybody who    *)
(* uses up the hourly windows its worker depends on: client requests       *)
(* (routes/api.py), the id-by-id backfills and the other jobs              *)
(* (scheduler.py).                                                         *)
(*                                                                         *)
(* Of the limiter only what its callers look at is kept: how many calls of *)
(* an endpoint are younger than an hour, and whether ComicVine refused.    *)
(***************************************************************************)
EXTENDS Integers, Sequences

CONSTANTS
  Items,        \* what is asked for: one issue, volume, publisher, search, ...
  Lists,        \* the items that are a volume's issue list: several pages, a lock
  Endpoints,
  EndpointOf,   \* item -> the endpoint it is fetched from
  Clients,      \* client requests in progress at once
  Worker,       \* the pending_fetch job
  NoItem,
  Backfills,    \* the backfill jobs
  BackfillOf,   \* backfill -> its endpoint
  Limit,        \* _hourly_limit
  Reserve,      \* LIVE_RESERVE
  Budget,       \* _BACKFILL_HOURLY_BUDGET
  Batch,        \* _BATCH
  MaxAttempts,  \* MAX_ATTEMPTS
  MaxPages,     \* _VOLUME_REFRESH_MAX_ISSUES in pages
  MaxRequests,  \* bound: misses of clients, and calls of other jobs
  MaxTroubles   \* bound: refusals, unreadable answers, cancelled runs, restarts

ASSUME QueueAssumption ==
  /\ Lists \subseteq Items
  /\ EndpointOf \in [Items -> Endpoints]
  /\ BackfillOf \in [Backfills -> Endpoints]
  /\ NoItem \notin Items
  /\ Worker \notin Clients
  /\ {Limit, Budget, Batch, MaxAttempts, MaxPages} \subseteq Nat \ {0}
  /\ {Reserve, MaxRequests, MaxTroubles} \subseteq Nat

VARIABLES
  used,       \* endpoint -> calls of the last hour
  cooling,    \* ComicVine has refused a call and the pause is not over
  queue,      \* cv_pending_fetch, oldest first
  attempts,   \* its attempts column (0 for what is not queued)
  stored,     \* the items the cache can answer
  call,       \* client or worker -> the fetch it is in
  batch,      \* what the worker's run has not looked at yet
  backfill,   \* backfill -> "between" calls, "asleep" for the quota, "asking"
  requests,
  troubles,
  owed,       \* history: items a client was told to come back for, not settled yet
  tries       \* history: item -> fetches of the worker that brought no answer

window == <<used, cooling>>
rows == <<queue, attempts>>
past == <<owed, tries>>
vars == <<window, rows, stored, call, batch, backfill, requests, troubles, past>>

Fetchers == Clients \cup {Worker}

Idle == [pc |-> "idle", item |-> NoItem, page |-> 0]
Looking == [pc |-> "looking", item |-> NoItem, page |-> 0]
Waiting(i) == [pc |-> "waiting", item |-> i, page |-> 0]
Asking(i, page) == [pc |-> "asking", item |-> i, page |-> page]

Queued(i) == \E k \in 1..Len(queue) : queue[k] = i
QueuedFor(e) == \E k \in 1..Len(queue) : EndpointOf[queue[k]] = e

Init ==
  /\ used = [e \in Endpoints |-> 0]
  /\ cooling = FALSE
  /\ queue = <<>> /\ attempts = [i \in Items |-> 0]
  /\ stored = {}
  /\ call = [f \in Fetchers |-> Idle]
  /\ batch = <<>>
  /\ backfill = [b \in Backfills |-> "between"]
  /\ requests = 0 /\ troubles = 0
  /\ owed = {} /\ tries = [i \in Items |-> 0]

-----------------------------------------------------------------------------
(* The hourly windows *)

Windows == INSTANCE CallWindows

\* retry_after is 0: no pause, and room in the window.
CanAskOffByOne(e) == ~cooling /\ used[e] <= Limit
CanAsk(e) == ~cooling /\ used[e] < Limit

\* _wait_for_hourly_limit gives a slot at once.
Spend(e) == used' = [used EXCEPT ![e] = @ + 1]

Expire(e) ==
  /\ used[e] > 0
  /\ used' = [used EXCEPT ![e] = @ - 1]
  /\ UNCHANGED <<cooling, rows, stored, call, batch, backfill, requests, troubles, past>>

PauseOver ==
  /\ cooling
  /\ cooling' = FALSE
  /\ UNCHANGED <<used, rows, stored, call, batch, backfill, requests, troubles, past>>

-----------------------------------------------------------------------------
(* The rows of the queue *)

\* pending_add: a repeat request keeps its place.
Add(i) == queue' = IF Queued(i) THEN queue ELSE Append(queue, i)

\* pending_done: the row goes; the next request for i starts from nothing.
Remove(i) ==
  /\ LET k == CHOOSE n \in 1..Len(queue) : queue[n] = i
     IN  queue' = SubSeq(queue, 1, k - 1) \o SubSeq(queue, k + 1, Len(queue))
  /\ attempts' = [attempts EXCEPT ![i] = 0]
  /\ tries' = [tries EXCEPT ![i] = 0]

\* pending_failed: a failed attempt is counted, the last one removes the row.
\* Then the clients' request is settled, if it was tried as often as promised.
Count(i) ==
  /\ attempts' = [attempts EXCEPT ![i] = @ + 1]
  /\ tries' = [tries EXCEPT ![i] = @ + 1]
  /\ UNCHANGED <<queue, owed>>
GiveUp(i) ==
  /\ Remove(i)
  /\ owed' = IF tries[i] + 1 >= MaxAttempts THEN owed \ {i} ELSE owed
FailUncounted(i) == UNCHANGED <<rows, past>>
Fail(i) == IF attempts[i] + 1 >= MaxAttempts THEN GiveUp(i) ELSE Count(i)

-----------------------------------------------------------------------------
(* How a fetch ends, for the one who made it *)

\* "stored" and "none" are ComicVine's answers; "failed" is an error, or a list
\* that is too long; "refused" is RATE_LIMITED, from ComicVine or from the client
\* here; "raised" is an exception get does not catch: an answer that is not JSON.
Outcomes == {"stored", "none", "failed", "refused", "raised"}

\* That a volume has no issues completes its list.
Fills(i, outcome) == outcome = "stored" \/ (outcome = "none" /\ i \in Lists)

\* A route answers its client; if ComicVine can't be asked, with 420 and a row.
ClientEnds(c, i, outcome) ==
  /\ call' = [call EXCEPT ![c] = Idle]
  /\ IF outcome = "refused"
     THEN Add(i) /\ owed' = owed \cup {i}
     ELSE UNCHANGED queue /\ owed' = IF Fills(i, outcome) THEN owed \ {i} ELSE owed
  /\ UNCHANGED <<attempts, tries, batch>>

\* process_pending notes the outcome and goes on with its batch.
WorkerGoesOn == call' = [call EXCEPT ![Worker] = Looking] /\ UNCHANGED batch
WorkerEndsDroppingRefused(i, outcome) ==
  /\ WorkerGoesOn
  /\ IF outcome = "failed" THEN Fail(i)
     ELSE Remove(i) /\ owed' = IF outcome = "refused" THEN owed ELSE owed \ {i}
WorkerEnds(i, outcome) ==
  \/ /\ outcome \in {"stored", "none"} \/ (outcome = "failed" /\ i \in Lists)
     /\ Remove(i)
     /\ owed' = owed \ {i}
     /\ WorkerGoesOn
  \/ /\ outcome = "failed" /\ i \notin Lists
     /\ Fail(i)
     /\ WorkerGoesOn
  \/ /\ outcome = "refused"
     /\ WorkerGoesOn
     /\ UNCHANGED <<rows, past>>
  \/ /\ outcome = "raised"   \* nobody catches it: the run is over
     /\ call' = [call EXCEPT ![Worker] = Idle]
     /\ batch' = <<>>
     /\ tries' = [tries EXCEPT ![i] = @ + 1]
     /\ UNCHANGED <<rows, owed>>

Ends(f, i, outcome) == IF f = Worker THEN WorkerEnds(i, outcome) ELSE ClientEnds(f, i, outcome)

-----------------------------------------------------------------------------
(* Fetches *)

\* Somebody pages the issue list of this volume: _volume_refresh_locks.
Locked(i) == i \in Lists /\ \E f \in Fetchers : call[f] \in {Asking(i, n) : n \in 1..MaxPages}

\* _guarded_get: the first call of the fetch, unless ComicVine can't be asked.
FirstCall(f, i) ==
  \/ /\ CanAsk(EndpointOf[i])
     /\ Spend(EndpointOf[i])
     /\ call' = [call EXCEPT ![f] = Asking(i, 1)]
     /\ UNCHANGED <<rows, batch, past>>
  \/ /\ ~CanAsk(EndpointOf[i])
     /\ Ends(f, i, "refused")
     /\ UNCHANGED used

\* A route asks for an item: the cache has it not, or the client wants it fresh
\* (which for an issue list is another route).
Request(c, i) ==
  /\ call[c] = Idle
  /\ requests < MaxRequests
  /\ requests' = requests + 1
  /\ i \in stored => i \notin Lists
  /\ \/ /\ ~Locked(i)
        /\ FirstCall(c, i)
     \/ /\ Locked(i)
        /\ call' = [call EXCEPT ![c] = Waiting(i)]
        /\ UNCHANGED <<used, rows, batch, past>>
  /\ UNCHANGED <<cooling, stored, backfill, troubles>>

\* The lock is free; the list may be complete by now.
LockGained(f) ==
  /\ call[f].pc = "waiting"
  /\ ~Locked(call[f].item)
  /\ \/ /\ call[f].item \notin stored
        /\ FirstCall(f, call[f].item)
     \/ /\ call[f].item \in stored
        /\ Ends(f, call[f].item, "stored")
        /\ UNCHANGED used
  /\ UNCHANGED <<cooling, stored, backfill, requests, troubles>>

\* A page of a list came and there are more: the next call, guarded again.
NextPage(f) ==
  /\ call[f].pc = "asking"
  /\ call[f].item \in Lists
  /\ call[f].page < MaxPages
  /\ LET i == call[f].item
     IN  \/ /\ CanAsk(EndpointOf[i])
            /\ Spend(EndpointOf[i])
            /\ call' = [call EXCEPT ![f] = Asking(i, @.page + 1)]
            /\ UNCHANGED <<rows, batch, past>>
         \/ /\ ~CanAsk(EndpointOf[i])
            /\ Ends(f, i, "refused")
            /\ UNCHANGED used
  /\ UNCHANGED <<cooling, stored, backfill, requests, troubles>>

\* The bound on what goes wrong; a refusal during a pause is no new one.
Trouble(happens) ==
  /\ happens => troubles < MaxTroubles
  /\ troubles' = IF happens THEN troubles + 1 ELSE troubles

\* The last answer of a fetch.
LastAnswer(f) ==
  /\ call[f].pc = "asking"
  /\ \E outcome \in Outcomes :
       /\ Trouble(outcome = "raised" \/ (outcome = "refused" /\ ~cooling))
       /\ cooling' = (cooling \/ outcome = "refused")
       /\ stored' = IF Fills(call[f].item, outcome) THEN stored \cup {call[f].item} ELSE stored
       /\ Ends(f, call[f].item, outcome)
  /\ UNCHANGED <<used, backfill, requests>>

-----------------------------------------------------------------------------
(* The worker: process_pending *)

\* A run of the job, every two minutes, takes the oldest rows.
StartRun ==
  /\ call[Worker] = Idle
  /\ queue # <<>>
  /\ batch' = SubSeq(queue, 1, IF Len(queue) < Batch THEN Len(queue) ELSE Batch)
  /\ call' = [call EXCEPT ![Worker] = Looking]
  /\ UNCHANGED <<window, rows, stored, backfill, requests, troubles, past>>

EndRun ==
  /\ call[Worker] = Looking
  /\ batch = <<>>
  /\ call' = [call EXCEPT ![Worker] = Idle]
  /\ UNCHANGED <<window, rows, stored, batch, backfill, requests, troubles, past>>

HasRoom(e) == CanAsk(e) /\ used[e] < Limit - Reserve

\* The next row of the batch.  From the end of one fetch to the next call the
\* loop does not wait; that others may act between two rows here only adds
\* behaviours.
Skip ==
  /\ call[Worker] = Looking
  /\ batch # <<>>
  /\ ~HasRoom(EndpointOf[Head(batch)])
  /\ batch' = Tail(batch)
  /\ UNCHANGED <<window, rows, stored, call, backfill, requests, troubles, past>>

FetchNext ==
  /\ call[Worker] = Looking
  /\ batch # <<>>
  /\ LET i == Head(batch)
     IN  /\ HasRoom(EndpointOf[i])
         /\ batch' = Tail(batch)
         /\ \/ /\ ~Locked(i)
               /\ i \in Lists => i \notin stored
               /\ Spend(EndpointOf[i])
               /\ call' = [call EXCEPT ![Worker] = Asking(i, 1)]
               /\ UNCHANGED <<rows, past>>
            \/ /\ Locked(i)
               /\ call' = [call EXCEPT ![Worker] = Waiting(i)]
               /\ UNCHANGED <<used, rows, past>>
            \/ /\ ~Locked(i)
               /\ i \in Lists \cap stored
               /\ Remove(i)
               /\ owed' = owed \ {i}
               /\ UNCHANGED <<used, call>>
  /\ UNCHANGED <<cooling, stored, backfill, requests, troubles>>

\* The run is cancelled.
Cancel ==
  /\ call[Worker].pc \in {"waiting", "asking"}
  /\ Trouble(TRUE)
  /\ call' = [call EXCEPT ![Worker] = Idle]
  /\ batch' = <<>>
  /\ UNCHANGED <<window, rows, stored, backfill, requests, past>>

-----------------------------------------------------------------------------
(* Backfills and other jobs *)

\* _budget_stop lets a backfill go on to its next id.
MayBackfill(b) == ~QueuedFor(BackfillOf[b]) /\ used[BackfillOf[b]] < Budget

\* The call itself, which sleeps when the window is full.
BackfillCall(b) ==
  /\ backfill[b] = "between"
  /\ MayBackfill(b)
  /\ ~cooling
  /\ \/ /\ used[BackfillOf[b]] < Limit
        /\ Spend(BackfillOf[b])
        /\ backfill' = [backfill EXCEPT ![b] = "asking"]
     \/ /\ used[BackfillOf[b]] >= Limit
        /\ backfill' = [backfill EXCEPT ![b] = "asleep"]
        /\ UNCHANGED used
  /\ UNCHANGED <<cooling, rows, stored, call, batch, requests, troubles, past>>

BackfillWakes(b) ==
  /\ backfill[b] = "asleep"
  /\ used[BackfillOf[b]] < Limit
  /\ Spend(BackfillOf[b])
  /\ backfill' = [backfill EXCEPT ![b] = "asking"]
  /\ UNCHANGED <<cooling, rows, stored, call, batch, requests, troubles, past>>

BackfillAnswer(b) ==
  /\ backfill[b] = "asking"
  /\ \E refused \in BOOLEAN :
       /\ Trouble(refused /\ ~cooling)
       /\ cooling' = (cooling \/ refused)
  /\ backfill' = [backfill EXCEPT ![b] = "between"]
  /\ UNCHANGED <<used, rows, stored, call, batch, requests, past>>

\* A job that minds neither queue nor budget (sync, prefetch) takes a slot.
OtherCall(e) ==
  /\ requests < MaxRequests
  /\ requests' = requests + 1
  /\ CanAsk(e)
  /\ Spend(e)
  /\ UNCHANGED <<cooling, rows, stored, call, batch, backfill, troubles, past>>

\* The process dies, perhaps after the worker stored an answer and before it
\* removed the row, and a new one starts.  Windows and pause come back from the
\* limiter's file.
Restart ==
  /\ Trouble(TRUE)
  /\ stored' \in {stored, stored \cup {i \in Items : call[Worker] = Asking(i, 1)}}
  /\ call' = [f \in Fetchers |-> Idle]
  /\ batch' = <<>>
  /\ backfill' = [b \in Backfills |-> "between"]
  /\ UNCHANGED <<window, rows, requests, past>>

-----------------------------------------------------------------------------
Next ==
  \/ \E e \in Endpoints : Expire(e) \/ OtherCall(e)
  \/ PauseOver
  \/ \E c \in Clients, i \in Items : Request(c, i)
  \/ \E f \in Fetchers : LockGained(f) \/ NextPage(f) \/ LastAnswer(f)
  \/ StartRun \/ Skip \/ FetchNext \/ EndRun \/ Cancel
  \/ \E b \in Backfills : BackfillCall(b) \/ BackfillWakes(b) \/ BackfillAnswer(b)
  \/ Restart

\* Hours and pauses end, every call to ComicVine ends (it has a timeout), the
\* scheduler starts the worker, and the event loop turns.  Nothing is assumed of
\* clients and backfills.
Fairness ==
  /\ \A e \in Endpoints : WF_vars(Expire(e))
  /\ WF_vars(PauseOver)
  /\ \A f \in Fetchers : WF_vars(LockGained(f) \/ NextPage(f) \/ LastAnswer(f))
  /\ WF_vars(StartRun \/ Skip \/ FetchNext \/ EndRun)

Spec == Init /\ [][Next]_vars /\ Fairness

-----------------------------------------------------------------------------
Calls ==
  {Idle, Looking} \cup {Waiting(i) : i \in Lists}
    \cup {Asking(i, n) : i \in Items, n \in 1..MaxPages}

\* The values the variables range over; a row is in the queue once.
TypeOK ==
  /\ used \in [Endpoints -> 0..Limit]
  /\ cooling \in BOOLEAN
  /\ queue \in Seq(Items)
  /\ \A k, n \in 1..Len(queue) : queue[k] = queue[n] => k = n
  /\ attempts \in [Items -> 0..(MaxAttempts - 1)]
  /\ stored \subseteq Items
  /\ call \in [Fetchers -> Calls] /\ \A c \in Clients : call[c] # Looking
  /\ batch \in Seq(Items)
  /\ backfill \in [Backfills -> {"between", "asleep", "asking"}]
  /\ requests \in 0..MaxRequests /\ troubles \in 0..MaxTroubles
  /\ owed \subseteq Items
  /\ tries \in [Items -> Nat]

\* Who was told to come back is not forgotten: what a client was refused stays
\* queued until its answer is stored, ComicVine said there is none (or too much),
\* or it was fetched MaxAttempts times in vain - whatever refusals, repeated
\* requests, cancelled runs and restarts come between (pending.py:133-142).
OwedIsQueued == \A i \in owed : Queued(i)

\* Clients, the worker, backfills and other jobs share the windows as the limiter
\* lets them: none takes a slot that is not there any more, although each looked at
\* the window before it waited - for a lock, a page, or the quota itself
\* (pending.py:126, scheduler.py:769, routes/api.py:328).
WindowsSpec == Windows!WindowsSpec

\* Every queued request leaves the queue in the end, once clients and other jobs
\* stop using up its window, behind whatever it is queued (pending.py:114).  The
\* worker needs a share of the window: Limit > Reserve.
QueueDrains == \A i \in Items : []<>~Queued(i)

\* pending.py:6 says that "queued requests are served before any backfill on the
\* same endpoint": a backfill takes no slot while some are waiting.
BackfillYieldsToQueue ==
  [][\A b \in Backfills :
       backfill[b] # "asking" /\ backfill'[b] = "asking" => ~QueuedFor(BackfillOf[b])]_vars

=============================================================================
