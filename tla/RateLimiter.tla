---------------------------- MODULE RateLimiter ----------------------------
(***************************************************************************)
(* The upstream client of cv_client.py: the per-endpoint sliding hour, the *)
(* global pacer, the cooldown after a refusal, and the state file that     *)
(* carries calls and cooldown over a restart.                              *)
(*                                                                         *)
(* Every caller is a coroutine of one event loop.  It runs from one await  *)
(* that suspends to the next without interference, so an action here is    *)
(* the code between two such awaits.  Neither lock of the client is ever   *)
(* held over an await, so acquiring one never suspends.                    *)
(***************************************************************************)
EXTENDS Integers, FiniteSets

CONSTANTS
  Endpoints,    \* path segments with an hourly budget of their own
  Image,        \* target of get_image, which has no hourly budget
  Live,         \* callers that go through _guarded_get (client requests)
  Background,   \* callers that call get directly (jobs)
  Limits,       \* values RATE_LIMIT_PER_HOUR_PER_ENDPOINT may be set to
  MaxLimit,     \* the largest of them
  Hour,         \* 3600 s
  MinInterval,  \* seconds between two paced requests
  Pauses,       \* lengths of a cooldown: the default, or a Retry-After
  MaxTime,      \* bound: the clock stops here
  MaxBurst      \* bound: slots of one endpoint taken in one instant

ASSUME LimiterAssumption ==
  /\ MaxLimit \in Nat \ {0}
  /\ Limits \subseteq 1..MaxLimit
  /\ Limits # {}
  /\ Hour \in Nat \ {0}
  /\ MinInterval \in Nat
  /\ Pauses \subseteq Nat
  /\ MaxTime \in Nat
  /\ MaxBurst \in Nat
  /\ Image \notin Endpoints
  /\ Live \cap Background = {}

Callers == Live \cup Background
Targets == Endpoints \cup {Image}

VARIABLES
  now,            \* wall clock and monotonic clock, which advance together
  limit,          \* _hourly_limit of the running process
  window,         \* _hourly_windows: per endpoint, the recorded calls
  lastRequest,    \* _last_request: the newest start time the pacer gave out
  cooldownUntil,  \* _cooldown_until
  file,           \* the state file: windows and cooldown as last saved
  task,           \* per caller: where it is suspended
  stale,          \* history: the last write of the file failed
  granted,        \* history: per endpoint, the slots taken in the last hour
  refusedUntil    \* history: end of the longest pause ComicVine asked for
\* (both since the last restart that found the state file stale or unreadable)

disk == <<file, stale>>
vars == <<now, limit, window, lastRequest, cooldownUntil, disk, task,
          granted, refusedUntil>>

Quota == INSTANCE HourlyQuota
  WITH Endpoints <- Endpoints, MaxLimit <- MaxLimit, Hour <- Hour, MaxBurst <- MaxBurst,
       now <- now, granted <- granted

Stamp == [at : Int, id : Nat]

Idle == [pc |-> "idle", to |-> Image, due |-> 0]
Asleep(where, x, until) == [pc |-> where, to |-> x, due |-> until]
Upstream(x) == [pc |-> "upstream", to |-> x, due |-> 0]

Later(x, y) == IF x >= y THEN x ELSE y

\* The recorded calls that are younger than an hour at time t.
Recent(S, t) == {s \in S : s.at > t - Hour}
Held(e) == Recent(window[e], now)
\* The n-th newest member of S.
Newest(S, n) ==
  CHOOSE s \in S :
    Cardinality({r \in S : r.at > s.at \/ (r.at = s.at /\ r.id >= s.id)}) = n

Cooling == cooldownUntil > now

Windows == INSTANCE CallWindows
  WITH Limit <- MaxLimit, used <- [e \in Endpoints |-> Cardinality(Held(e))], cooling <- Cooling

\* The window of e has room for one more call.
HasRoomOffByOne(e) == Cardinality(Held(e)) <= limit
HasRoom(e) == Cardinality(Held(e)) < limit

\* Seconds until a request to e may go upstream, 0 when it may go now.
RetryAfterOffByOne(e) ==
  LET quota == IF Cardinality(Held(e)) > limit
               THEN Newest(Held(e), limit).at + Hour - now ELSE 0
  IN  Later(0, Later(cooldownUntil - now, quota))
RetryAfterOldest(e) ==
  LET quota == IF ~HasRoom(e)
               THEN Newest(Held(e), Cardinality(Held(e))).at + Hour - now ELSE 0
  IN  Later(0, Later(cooldownUntil - now, quota))
RetryAfter(e) ==
  LET quota == IF ~HasRoom(e) THEN Newest(Held(e), limit).at + Hour - now ELSE 0
  IN  Later(0, Later(cooldownUntil - now, quota))

-----------------------------------------------------------------------------
NoFile == [window |-> [e \in Endpoints |-> {}], cooldown |-> 0]

Init ==
  /\ now = MinInterval
  /\ limit \in Limits
  /\ window = [e \in Endpoints |-> {}]
  /\ lastRequest = 0
  /\ cooldownUntil = 0
  /\ file = NoFile
  /\ task = [c \in Callers |-> Idle]
  /\ stale = FALSE
  /\ granted = [e \in Endpoints |-> {}]
  /\ refusedUntil = 0

\* _save_state: the temporary file replaces the old one, or an OSError leaves it.
SaveCooldownOnly(w, until) ==
  /\ file' = [window |-> [e \in Endpoints |-> {}], cooldown |-> until]
  /\ stale' = FALSE
Save(w, until) ==
  \/ /\ file' = [window |-> [e \in Endpoints |-> Recent(w[e], now)],
                 cooldown |-> until]
     /\ stale' = FALSE
  \/ /\ stale' = TRUE
     /\ UNCHANGED file

\* get after the pacer: the second look at the cooldown, then the request.
LaunchUnchecked(c, x) == task' = [task EXCEPT ![c] = Upstream(x)]
Launch(c, x) ==
  task' = [task EXCEPT ![c] = IF x # Image /\ Cooling THEN Idle ELSE Upstream(x)]

\* _wait_for_rate_limit: reserve the next start time, then sleep until it.
PaceUnreserved(c, x) ==
  LET start == Later(now, lastRequest + MinInterval) IN
  /\ lastRequest' = now
  /\ IF start = now
     THEN Launch(c, x)
     ELSE task' = [task EXCEPT ![c] = Asleep("pacer", x, start)]
Pace(c, x) ==
  LET start == Later(now, lastRequest + MinInterval) IN
  /\ lastRequest' = start
  /\ IF start = now
     THEN Launch(c, x)
     ELSE task' = [task EXCEPT ![c] = Asleep("pacer", x, start)]

\* _wait_for_hourly_limit finds room: the call is recorded before it is paced.
TakeSlot(c, e) ==
  /\ HasRoom(e)
  /\ \E id \in 1..MaxBurst :
       LET slot == [at |-> now, id |-> id] IN
       /\ Quota!NextSlot(granted[e], slot)
       /\ window' = [window EXCEPT ![e] = Held(e) \cup {slot}]
       /\ granted' = [granted EXCEPT ![e] = @ \cup {slot}]
  /\ Save(window', cooldownUntil)
  /\ Pace(c, e)
  /\ UNCHANGED <<now, limit, cooldownUntil, refusedUntil>>

\* _wait_for_hourly_limit finds the window full and sleeps without the lock.
SleepForQuota(c, e) ==
  /\ ~HasRoom(e)
  /\ window' = [window EXCEPT ![e] = Held(e)]
  /\ \E oldest \in Held(e) :
       /\ \A s \in Held(e) : oldest.at <= s.at
       /\ task' = [task EXCEPT ![c] = Asleep("quota", e, oldest.at + Hour)]
  /\ UNCHANGED <<now, limit, lastRequest, cooldownUntil, disk, granted,
                 refusedUntil>>

Admit(c, e) == TakeSlot(c, e) \/ SleepForQuota(c, e)

\* get, from a job; a call during a cooldown returns without an effect.
BackgroundCall(c, e) ==
  /\ c \in Background
  /\ task[c] = Idle
  /\ ~Cooling
  /\ Admit(c, e)

\* _guarded_get, from a client request: answered "rate limited" at once,
\* without an effect, when retry_after is positive.
LiveCall(c, e) ==
  /\ c \in Live
  /\ task[c] = Idle
  /\ RetryAfter(e) = 0
  /\ Admit(c, e)

\* The sleep for the hourly quota ends: the loop looks at the window again.
WakeForQuota(c) ==
  /\ task[c].pc = "quota"
  /\ task[c].due <= now
  /\ Admit(c, task[c].to)

WakeFromPacer(c) ==
  /\ task[c].pc = "pacer"
  /\ task[c].due <= now
  /\ Launch(c, task[c].to)
  /\ UNCHANGED <<now, limit, window, lastRequest, cooldownUntil, disk, granted, refusedUntil>>

\* get_image, from proxy_image: the pacer only.
GetImage(c) ==
  /\ c \in Live
  /\ task[c] = Idle
  /\ Pace(c, Image)
  /\ UNCHANGED <<now, limit, window, cooldownUntil, disk, granted,
                 refusedUntil>>

\* An answer other than a refusal (results, 101, an error, a failed request).
Answered(c) ==
  /\ task[c].pc = "upstream"
  /\ task' = [task EXCEPT ![c] = Idle]
  /\ UNCHANGED <<now, limit, window, lastRequest, cooldownUntil, disk, granted, refusedUntil>>

\* HTTP 420 or 429, or status 107: _start_cooldown.
Refused(c, pause) ==
  /\ task[c].pc = "upstream"
  /\ task[c].to # Image
  /\ task' = [task EXCEPT ![c] = Idle]
  /\ cooldownUntil' = Later(cooldownUntil, now + pause)
  /\ refusedUntil' = Later(refusedUntil, now + pause)
  /\ Save(window, cooldownUntil')
  /\ UNCHANGED <<now, limit, window, lastRequest, granted>>

\* A job is cancelled while its call is suspended; what it reserved stays.
Cancelled(c) ==
  /\ c \in Background
  /\ task[c] # Idle
  /\ task' = [task EXCEPT ![c] = Idle]
  /\ UNCHANGED <<now, limit, window, lastRequest, cooldownUntil, disk, granted, refusedUntil>>

\* _load_state: what was last saved, or nothing when the file is corrupt, in
\* which case it reads as nothing until the next save replaces it.
Load(lost) ==
  \/ /\ file' = file
     /\ lost = stale
  \/ /\ file' = NoFile
     /\ lost = TRUE

\* The process dies and a new one starts, with any configured limit.
Restart ==
  /\ limit' \in Limits
  /\ lastRequest' = 0
  /\ task' = [c \in Callers |-> Idle]
  /\ \E lost \in BOOLEAN :
       /\ Load(lost)
       /\ window' = [e \in Endpoints |-> Recent(file'.window[e], now)]
       /\ cooldownUntil' = file'.cooldown
       /\ granted' = IF lost THEN window' ELSE granted
       /\ refusedUntil' = IF lost THEN cooldownUntil' ELSE refusedUntil
  /\ stale' = FALSE
  /\ UNCHANGED now

Tick ==
  /\ now < MaxTime
  /\ now' = now + 1
  /\ granted' = [e \in Endpoints |-> Recent(granted[e], now')]
  /\ UNCHANGED <<limit, window, lastRequest, cooldownUntil, disk, task,
                 refusedUntil>>

\* What one process does; the disjuncts of a caller are its resumptions.
Caller(c) ==
  \/ \E e \in Endpoints : BackgroundCall(c, e) \/ LiveCall(c, e)
  \/ WakeForQuota(c)
  \/ WakeFromPacer(c)
  \/ GetImage(c)
  \/ Answered(c)
  \/ \E pause \in Pauses : Refused(c, pause)
  \/ Cancelled(c)

Next == Tick \/ Restart \/ \E c \in Callers : Caller(c)

Spec == Init /\ [][Next]_vars

-----------------------------------------------------------------------------
TaskState ==
  [pc : {"idle", "quota", "pacer", "upstream"}, to : Targets, due : Int]

\* The values the variables range over.
TypeOK ==
  /\ now \in Nat
  /\ limit \in Limits
  /\ window \in [Endpoints -> SUBSET Stamp]
  /\ lastRequest \in Int
  /\ cooldownUntil \in Nat
  /\ file \in [window : [Endpoints -> SUBSET Stamp], cooldown : Nat]
  /\ stale \in BOOLEAN
  /\ task \in [Callers -> TaskState]
  /\ \A c \in Callers : task[c].pc = "quota" => task[c].to \in Endpoints
  /\ granted \in [Endpoints -> SUBSET Stamp]
  /\ refusedUntil \in Nat

\* The limiter keeps the hourly promise (README.md:78) over restarts, changes
\* of the configured limit and cooldowns (cv_client.py:164-169, 192-225).
QuotaSpec == Quota!QuotaSpec

\* What the callers of the limiter rely on, in PendingQueue, is what it does with the
\* windows it has recorded (cv_client.py:153-190, 198-225).
WindowsSpec == Windows!WindowsSpec

\* No endpoint is granted more than MaxLimit slots in any hour, as long as no
\* restart has lost the record (cv_client.py:164-169).
SlidingHourBound == Quota!SlidingHourBound

\* Once ComicVine has refused a call, nothing is sent to it before the pause
\* it asked for is over: not by calls that were already queued behind the
\* pacer or the quota, not after a second, shorter pause, and not after a
\* restart (cv_client.py:185-190, 267-275).
NoCallWhileRefused ==
  [][\A c \in Callers :
       task[c].pc # "upstream" /\ task'[c].pc = "upstream" /\ task'[c].to # Image
         => refusedUntil <= now]_vars

\* Two requests that wait for the pacer never start closer together than its
\* interval, whichever endpoints or images they are for (cv_client.py:119-129).
PacerSpacing ==
  \A c, d \in Callers :
    c # d /\ task[c].pc = "pacer" /\ task[d].pc = "pacer"
      => \/ task[c].due - task[d].due >= MinInterval
         \/ task[d].due - task[c].due >= MinInterval

\* A client request is answered "rate limited" instead of sleeping for the
\* hourly quota (cv_client.py:227-241, routes/api.py:328-339).
LiveNeverSleepsForQuota == \A c \in Live : task[c].pc # "quota"

\* What retry_after tells a client is exact: a call that many seconds from now
\* would go through if nobody else calls, and a second earlier it would not
\* (cv_client.py:227-241).
RetryAfterExact ==
  \A e \in Endpoints :
    LET OpenAt(t) == cooldownUntil <= t /\ Cardinality(Recent(window[e], t)) < limit
        wait == RetryAfter(e)
    IN  /\ OpenAt(now + wait)
        /\ wait > 0 => ~OpenAt(now + wait - 1)

=============================================================================
