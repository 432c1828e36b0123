------------------------- MODULE RateLimiter_proofs -------------------------
(***************************************************************************)
(* Proofs about RateLimiter: type correctness, the hourly promise, the     *)
(* silence after a refusal, the spacing of the pacer and what clients are  *)
(* told, for any number of callers and endpoints and any limits.           *)
(***************************************************************************)
EXTENDS RateLimiter, FiniteSetTheorems, TLAPS

FileType == [window : [Endpoints -> SUBSET Stamp], cooldown : Nat]

\* What _save_state writes is a well-typed file.
LEMMA SavedType ==
  ASSUME NEW w \in [Endpoints -> SUBSET Stamp], NEW until \in Nat, TypeOK, Save(w, until)
  PROVE  file' \in FileType /\ stale' \in BOOLEAN
<1>1. [e \in Endpoints |-> Recent(w[e], now)] \in [Endpoints -> SUBSET Stamp]
  BY DEF Recent
<1>2. file \in FileType
  BY DEF TypeOK, FileType
<1>3. file' \in FileType
  BY <1>1, <1>2 DEF Save, FileType
<1>4. stale' \in BOOLEAN
  BY Zenon DEF Save
<1>5. QED
  BY <1>3, <1>4

\* A start time from the pacer, and the state it leaves the caller in.
LEMMA PaceType ==
  ASSUME TypeOK, NEW c \in Callers, NEW x \in Targets, Pace(c, x)
  PROVE  /\ task' \in [Callers -> TaskState]
         /\ \A d \in Callers : task'[d].pc = "quota" => task'[d].to \in Endpoints
         /\ lastRequest' \in Int
<1>1. Later(now, lastRequest + MinInterval) \in Int
  BY LimiterAssumption DEF Later, TypeOK
<1>2. PICK t \in {Idle, Upstream(x), Asleep("pacer", x, Later(now, lastRequest + MinInterval))} :
        task' = [task EXCEPT ![c] = t]
  BY DEF Pace, Launch
<1>3. t \in TaskState /\ t.pc # "quota"
  BY <1>1 DEF TaskState, Targets, Idle, Upstream, Asleep
<1>4. QED
  BY <1>1, <1>2, <1>3 DEF Pace, TypeOK

\* A call that takes a slot or sleeps for one leaves a well-typed state.
LEMMA TypeOfAdmit ==
  ASSUME TypeOK, NEW c \in Callers, NEW e \in Endpoints, Admit(c, e)
  PROVE  TypeOK'
<1> USE LimiterAssumption
<1> USE DEF TypeOK, TaskState, Targets, Stamp, Held, Recent, disk
<1>1. CASE TakeSlot(c, e)
  <2>1. PICK id \in 1..MaxBurst :
          /\ window' = [window EXCEPT ![e] = Held(e) \cup {[at |-> now, id |-> id]}]
          /\ granted' = [granted EXCEPT ![e] = @ \cup {[at |-> now, id |-> id]}]
    BY <1>1 DEF TakeSlot
  <2>2. id \in Nat
    BY <2>1
  <2>3. window' \in [Endpoints -> SUBSET Stamp] /\ granted' \in [Endpoints -> SUBSET Stamp]
    BY <2>1, <2>2
  <2>4. file' \in FileType /\ stale' \in BOOLEAN
    <3> DEFINE w == window'
    <3>1. w \in [Endpoints -> SUBSET Stamp] /\ Save(w, cooldownUntil)
      BY <1>1, <2>3 DEF TakeSlot
    <3> HIDE DEF w
    <3>2. QED
      BY <3>1, SavedType
  <2>5. /\ task' \in [Callers -> TaskState]
        /\ lastRequest' \in Int
        /\ \A d \in Callers : task'[d].pc = "quota" => task'[d].to \in Endpoints
    BY <1>1, PaceType DEF TakeSlot
  <2>6. QED
    BY <1>1, <2>3, <2>4, <2>5 DEF TakeSlot, FileType
<1>2. CASE SleepForQuota(c, e)
  <2>1. PICK oldest \in Held(e) :
          task' = [task EXCEPT ![c] = Asleep("quota", e, oldest.at + Hour)]
    BY <1>2 DEF SleepForQuota
  <2>2. oldest.at + Hour \in Int
    BY <2>1
  <2>3. /\ task' \in [Callers -> TaskState]
        /\ \A d \in Callers : task'[d].pc = "quota" => task'[d].to \in Endpoints
    BY <2>1, <2>2 DEF Asleep
  <2>4. window' \in [Endpoints -> SUBSET Stamp]
    BY <1>2 DEF SleepForQuota
  <2>5. QED
    BY <1>2, <2>3, <2>4 DEF SleepForQuota
<1>3. QED
  BY <1>1, <1>2 DEF Admit

LEMMA TypeInit == Init => TypeOK
<1> SUFFICES ASSUME Init PROVE TypeOK
  OBVIOUS
<1>1. Idle \in TaskState /\ Idle.pc # "quota"
  BY DEF Idle, TaskState, Targets
<1>2. NoFile \in FileType
  BY DEF NoFile, FileType
<1>3. stale \in BOOLEAN
  BY Zenon DEF Init
<1>4. QED
  BY <1>1, <1>2, <1>3, LimiterAssumption DEF Init, TypeOK, FileType

LEMMA TypeStep == TypeOK /\ [Next]_vars => TypeOK'
<1> SUFFICES ASSUME TypeOK, [Next]_vars PROVE TypeOK'
  OBVIOUS
<1> USE LimiterAssumption
<1>1. CASE Tick
  BY <1>1 DEF Tick, TypeOK, TaskState, Recent, disk
<1>2. CASE Restart
  <2>1. file' \in FileType
    BY <1>2 DEF Restart, Load, NoFile, TypeOK, FileType
  <2>2. /\ window' \in [Endpoints -> SUBSET Stamp]
        /\ cooldownUntil' \in Nat
    BY <1>2, <2>1 DEF Restart, Recent, FileType
  <2>3. granted' \in [Endpoints -> SUBSET Stamp] /\ refusedUntil' \in Nat
    BY <1>2, <2>2 DEF Restart, TypeOK
  <2>4. /\ task' \in [Callers -> TaskState]
        /\ \A d \in Callers : task'[d].pc = "quota" => task'[d].to \in Endpoints
    BY <1>2 DEF Restart, TaskState, Targets, Idle
  <2>5. stale' \in BOOLEAN
    BY <1>2, Zenon DEF Restart
  <2>6. /\ now' \in Nat /\ limit' \in Limits /\ lastRequest' \in Int
    BY <1>2 DEF Restart, TypeOK
  <2>7. QED
    BY <2>1, <2>2, <2>3, <2>4, <2>5, <2>6 DEF TypeOK, FileType
<1>3. ASSUME NEW c \in Callers, Caller(c) PROVE TypeOK'
  <2>1. ASSUME NEW e \in Endpoints, BackgroundCall(c, e) \/ LiveCall(c, e) PROVE TypeOK'
    BY <2>1, TypeOfAdmit DEF BackgroundCall, LiveCall
  <2>2. CASE WakeForQuota(c)
    <3>1. task[c].to \in Endpoints
      BY <2>2 DEF WakeForQuota, TypeOK
    <3>2. QED
      BY <2>2, <3>1, TypeOfAdmit DEF WakeForQuota
  <2>3. CASE WakeFromPacer(c)
    BY <2>3 DEF WakeFromPacer, Launch, TypeOK, TaskState, Targets, Idle, Upstream, disk
  <2>4. CASE GetImage(c)
    <3>1. Image \in Targets
      BY DEF Targets
    <3>2. QED
      BY <2>4, <3>1, PaceType DEF GetImage, TypeOK, disk
  <2>5. CASE Answered(c)
    BY <2>5 DEF Answered, TypeOK, TaskState, Targets, Idle, disk
  <2>6. ASSUME NEW pause \in Pauses, Refused(c, pause) PROVE TypeOK'
    <3>1. cooldownUntil' \in Nat /\ refusedUntil' \in Nat
      BY <2>6 DEF Refused, Later, TypeOK
    <3>2. file' \in FileType /\ stale' \in BOOLEAN
      <4> DEFINE until == cooldownUntil'
      <4>1. until \in Nat /\ Save(window, until) /\ window \in [Endpoints -> SUBSET Stamp]
        BY <2>6, <3>1 DEF Refused, TypeOK
      <4> HIDE DEF until
      <4>2. QED
        BY <4>1, SavedType
    <3>3. /\ task' \in [Callers -> TaskState]
          /\ \A d \in Callers : task'[d].pc = "quota" => task'[d].to \in Endpoints
      BY <2>6 DEF Refused, TypeOK, TaskState, Targets, Idle
    <3>4. QED
      BY <2>6, <3>1, <3>2, <3>3 DEF Refused, TypeOK, FileType
  <2>7. CASE Cancelled(c)
    BY <2>7 DEF Cancelled, TypeOK, TaskState, Targets, Idle, disk
  <2>8. QED
    BY <1>3, <2>1, <2>2, <2>3, <2>4, <2>5, <2>6, <2>7 DEF Caller
<1>4. CASE UNCHANGED vars
  BY <1>4 DEF vars, disk, TypeOK
<1>5. QED
  BY <1>1, <1>2, <1>3, <1>4 DEF Next

\* Every state of the limiter is well-typed.
THEOREM TypeCorrect == Spec => []TypeOK
  BY TypeInit, TypeStep, PTL DEF Spec

-----------------------------------------------------------------------------
\* What ties the window in memory, the state file and the slots granted
\* together: memory is complete, and the file is part of it, all of it unless
\* its last write failed.
RecordInv ==
  \A e \in Endpoints :
    /\ IsFiniteSet(granted[e])
    /\ Cardinality(granted[e]) <= MaxLimit
    /\ Held(e) = granted[e]
    /\ Recent(file.window[e], now) \subseteq granted[e]
    /\ ~stale => Recent(file.window[e], now) = granted[e]

LEMMA RecordInit == Init => RecordInv
  BY LimiterAssumption, FS_EmptySet DEF Init, RecordInv, Held, Recent, NoFile

\* A set of stamps that was pruned once is not changed by pruning it again.
LEMMA PrunedTwice ==
  ASSUME NEW S \in SUBSET Stamp, NEW t \in Int, NEW u \in Int, t <= u
  PROVE  Recent(Recent(S, t), u) = Recent(S, u)
  BY LimiterAssumption DEF Recent, Stamp

\* Saving the windows keeps the file in step with memory, or marks it stale.
LEMMA SavedRecord ==
  ASSUME TypeOK, RecordInv,
         NEW w \in [Endpoints -> SUBSET Stamp], NEW g \in [Endpoints -> SUBSET Stamp],
         NEW until \in Nat,
         \A e \in Endpoints : Recent(w[e], now) = g[e] /\ granted[e] \subseteq g[e],
         Save(w, until)
  PROVE  \A e \in Endpoints :
           /\ Recent(file'.window[e], now) \subseteq g[e]
           /\ ~stale' => Recent(file'.window[e], now) = g[e]
<1>1. ASSUME NEW e \in Endpoints PROVE Recent(Recent(w[e], now), now) = g[e]
  BY PrunedTwice, w[e] \in SUBSET Stamp DEF TypeOK
<1>2. CASE stale' = TRUE /\ file' = file
  BY <1>2 DEF RecordInv
<1>3. CASE file' = [window |-> [e \in Endpoints |-> Recent(w[e], now)], cooldown |-> until]
  BY <1>1, <1>3
<1>4. QED
  BY <1>2, <1>3 DEF Save

LEMMA RecordOfAdmit ==
  ASSUME TypeOK, RecordInv, NEW c \in Callers, NEW e \in Endpoints, Admit(c, e), TypeOK'
  PROVE  RecordInv'
<1> USE LimiterAssumption
<1>1. CASE TakeSlot(c, e)
  <2> DEFINE g == granted'
             w == window'
  <2>1. PICK id \in 1..MaxBurst :
          /\ Quota!NextSlot(granted[e], [at |-> now, id |-> id])
          /\ w = [window EXCEPT ![e] = Held(e) \cup {[at |-> now, id |-> id]}]
          /\ g = [granted EXCEPT ![e] = @ \cup {[at |-> now, id |-> id]}]
    BY <1>1 DEF TakeSlot
  <2> DEFINE slot == [at |-> now, id |-> id]
  <2>2. w \in [Endpoints -> SUBSET Stamp] /\ g \in [Endpoints -> SUBSET Stamp]
    BY DEF TypeOK
  <2>3. slot \notin granted[e] /\ slot.at = now
    BY <2>1 DEF Quota!NextSlot
  <2> HIDE DEF slot
  <2>4. now' = now
    BY <1>1 DEF TakeSlot
  <2>5. ASSUME NEW f \in Endpoints
        PROVE  Recent(w[f], now) = g[f] /\ granted[f] \subseteq g[f]
    <3>1. CASE f = e
      <4>1. w[f] = Held(e) \cup {slot} /\ g[f] = granted[e] \cup {slot}
        BY <2>1, <3>1 DEF TypeOK, slot
      <4>2. Held(e) = granted[e] /\ Recent(Held(e), now) = Held(e)
        BY DEF RecordInv, Held, Recent
      <4>3. Recent(Held(e) \cup {slot}, now) = Recent(Held(e), now) \cup {slot}
        BY <2>3, now > now - Hour DEF Recent, TypeOK
      <4>4. QED
        BY <3>1, <4>1, <4>2, <4>3
    <3>2. CASE f # e
      BY <2>1, <3>2 DEF TypeOK, RecordInv, Held
    <3>3. QED
      BY <3>1, <3>2
  <2>6. ASSUME NEW f \in Endpoints
        PROVE  IsFiniteSet(g[f]) /\ Cardinality(g[f]) <= MaxLimit
    <3>1. CASE f = e
      <4>1. IsFiniteSet(granted[e]) /\ Cardinality(granted[e]) < limit
        BY <1>1 DEF TakeSlot, HasRoom, RecordInv
      <4>2. limit \in Nat /\ limit <= MaxLimit
        BY DEF TypeOK
      <4>3. g[f] = granted[e] \cup {slot}
        BY <2>1, <3>1 DEF TypeOK, slot
      <4>4. Cardinality(granted[e]) \in Nat
        BY <4>1, FS_CardinalityType
      <4>5. IsFiniteSet(g[f]) /\ Cardinality(g[f]) = Cardinality(granted[e]) + 1
        BY <2>3, <4>1, <4>3, FS_AddElement
      <4>6. QED
        BY <4>1, <4>2, <4>4, <4>5
    <3>2. CASE f # e
      BY <2>1, <3>2 DEF TypeOK, RecordInv
    <3>3. QED
      BY <3>1, <3>2
  <2>7. ASSUME NEW f \in Endpoints
        PROVE  /\ Recent(file'.window[f], now) \subseteq g[f]
               /\ ~stale' => Recent(file'.window[f], now) = g[f]
    <3>1. Save(w, cooldownUntil) /\ cooldownUntil \in Nat
      BY <1>1 DEF TakeSlot, TypeOK
    <3> HIDE DEF w, g
    <3>2. QED
      BY <2>2, <2>5, <3>1, SavedRecord
  <2>8. QED
    BY <2>4, <2>5, <2>6, <2>7 DEF RecordInv, Held
<1>2. CASE SleepForQuota(c, e)
  <2>1. ASSUME NEW f \in Endpoints PROVE Recent(window'[f], now) = Held(f)
    <3>1. window'[f] = IF f = e THEN Held(e) ELSE window[f]
      BY <1>2 DEF SleepForQuota, TypeOK
    <3>2. Recent(Held(e), now) = Held(e)
      BY DEF Held, Recent
    <3>3. QED
      BY <3>1, <3>2 DEF Held
  <2>2. UNCHANGED <<now, granted, file, stale>>
    BY <1>2 DEF SleepForQuota, disk
  <2>3. QED
    BY <2>1, <2>2 DEF RecordInv, Held
<1>3. QED
  BY <1>1, <1>2 DEF Admit

\* A restart takes the file for the truth; when that loses slots, they are forgotten.
LEMMA RecordOfRestart == TypeOK /\ RecordInv /\ Restart => RecordInv'
<1> SUFFICES ASSUME TypeOK, RecordInv, Restart PROVE RecordInv'
  OBVIOUS
<1>1. PICK lost \in BOOLEAN :
        /\ Load(lost)
        /\ granted' = IF lost THEN window' ELSE granted
  BY DEF Restart
<1>2. /\ now' = now
      /\ window' = [e \in Endpoints |-> Recent(file'.window[e], now)]
  BY DEF Restart
<1>3. file' = file \/ file' = NoFile
  BY <1>1 DEF Load
<1>4. now \in Int /\ \A e \in Endpoints : file'.window[e] \in SUBSET Stamp
  BY <1>3 DEF TypeOK, NoFile
<1>5. ASSUME NEW e \in Endpoints
      PROVE  /\ Recent(window'[e], now) = window'[e]
             /\ Recent(file'.window[e], now) = window'[e]
  BY <1>2, <1>4, PrunedTwice
<1>6. ASSUME NEW e \in Endpoints
      PROVE  /\ window'[e] \subseteq granted[e]
             /\ ~lost => window'[e] = granted[e]
  <2>1. CASE file' = file
    <3>1. ~lost => ~stale
      BY <1>1, Zenon DEF Load
    <3>2. QED
      BY <1>5, <2>1, <3>1 DEF RecordInv
  <2>2. CASE file' = NoFile /\ lost = TRUE
    BY <1>5, <2>2 DEF NoFile, Recent
  <2>3. QED
    BY <1>1, <2>1, <2>2, Zenon DEF Load
<1>7. ASSUME NEW e \in Endpoints PROVE granted'[e] = window'[e]
  <2>1. CASE lost
    BY <1>1, <2>1
  <2>2. CASE ~lost
    BY <1>1, <1>6, <2>2
  <2>3. QED
    BY <2>1, <2>2
<1>8. ASSUME NEW e \in Endpoints
      PROVE  IsFiniteSet(granted'[e]) /\ Cardinality(granted'[e]) <= MaxLimit
  <2>1. IsFiniteSet(granted[e]) /\ Cardinality(granted[e]) <= MaxLimit
    BY DEF RecordInv
  <2>2. granted'[e] \in SUBSET granted[e]
    BY <1>6, <1>7
  <2>3. IsFiniteSet(granted'[e]) /\ Cardinality(granted'[e]) <= Cardinality(granted[e])
    BY <2>1, <2>2, FS_Subset
  <2>4. Cardinality(granted'[e]) \in Nat /\ Cardinality(granted[e]) \in Nat
    BY <2>1, <2>3, FS_CardinalityType
  <2>5. QED
    BY <2>1, <2>3, <2>4, LimiterAssumption
<1>9. QED
  BY <1>2, <1>5, <1>7, <1>8 DEF RecordInv, Held

LEMMA RecordOfTick == TypeOK /\ RecordInv /\ Tick => RecordInv'
<1> SUFFICES ASSUME TypeOK, RecordInv, Tick PROVE RecordInv'
  OBVIOUS
<1>1. /\ now' = now + 1 /\ UNCHANGED <<window, file, stale>>
      /\ granted' = [e \in Endpoints |-> Recent(granted[e], now')]
  BY DEF Tick, disk
<1>2. now \in Int /\ now' \in Int /\ now <= now'
  BY <1>1 DEF TypeOK
<1>3. SUFFICES ASSUME NEW e \in Endpoints
      PROVE  /\ IsFiniteSet(granted'[e])
             /\ Cardinality(granted'[e]) <= MaxLimit
             /\ Recent(window'[e], now') = granted'[e]
             /\ Recent(file'.window[e], now') \subseteq granted'[e]
             /\ ~stale' => Recent(file'.window[e], now') = granted'[e]
  BY DEF RecordInv, Held
<1>4. /\ IsFiniteSet(granted[e]) /\ Cardinality(granted[e]) <= MaxLimit
      /\ Recent(window[e], now) = granted[e]
      /\ Recent(file.window[e], now) \subseteq granted[e]
      /\ ~stale => Recent(file.window[e], now) = granted[e]
  BY DEF RecordInv, Held
<1>5. /\ Recent(window[e], now') = Recent(Recent(window[e], now), now')
      /\ Recent(file.window[e], now') = Recent(Recent(file.window[e], now), now')
  BY <1>2, PrunedTwice DEF TypeOK
<1>6. granted'[e] = Recent(granted[e], now')
  BY <1>1
<1>7. IsFiniteSet(granted'[e]) /\ Cardinality(granted'[e]) <= MaxLimit
  <2>1. granted'[e] \in SUBSET granted[e]
    BY <1>6 DEF Recent
  <2>2. IsFiniteSet(granted'[e]) /\ Cardinality(granted'[e]) <= Cardinality(granted[e])
    BY <1>4, <2>1, FS_Subset
  <2>3. Cardinality(granted'[e]) \in Nat /\ Cardinality(granted[e]) \in Nat
    BY <1>4, <2>2, FS_CardinalityType
  <2>4. QED
    BY <1>4, <2>2, <2>3, LimiterAssumption
<1>8. Recent(file.window[e], now') \subseteq Recent(granted[e], now')
  BY <1>4, <1>5 DEF Recent
<1>9. QED
  BY <1>1, <1>4, <1>5, <1>6, <1>7, <1>8

LEMMA RecordStep == TypeOK /\ RecordInv /\ [Next]_vars => RecordInv'
<1> SUFFICES ASSUME TypeOK, RecordInv, [Next]_vars PROVE RecordInv'
  OBVIOUS
<1>0. TypeOK'
  BY TypeStep
<1>1. CASE Tick
  BY <1>1, RecordOfTick
<1>2. CASE Restart
  BY <1>2, RecordOfRestart
<1>3. ASSUME NEW c \in Callers, Caller(c) PROVE RecordInv'
  <2>1. ASSUME NEW e \in Endpoints, Admit(c, e) PROVE RecordInv'
    BY <1>0, <2>1, RecordOfAdmit
  <2>2. CASE WakeForQuota(c)
    <3>1. task[c].to \in Endpoints
      BY <2>2 DEF WakeForQuota, TypeOK
    <3>2. QED
      BY <2>1, <2>2, <3>1 DEF WakeForQuota
  <2>3. CASE UNCHANGED <<now, window, granted, disk>>
    BY <2>3 DEF RecordInv, Held, disk
  <2>4. ASSUME NEW pause \in Pauses, Refused(c, pause) PROVE RecordInv'
    <3>1. UNCHANGED <<now, window, granted>> /\ Save(window, cooldownUntil')
      BY <2>4 DEF Refused
    <3>2. window \in [Endpoints -> SUBSET Stamp] /\ granted \in [Endpoints -> SUBSET Stamp]
      BY DEF TypeOK
    <3>3. \A e \in Endpoints : Recent(window[e], now) = granted[e] /\ granted[e] \subseteq granted[e]
      BY DEF RecordInv, Held
    <3>4. \A e \in Endpoints :
            /\ Recent(file'.window[e], now) \subseteq granted[e]
            /\ ~stale' => Recent(file'.window[e], now) = granted[e]
      <4> DEFINE until == cooldownUntil'
      <4>1. until \in Nat /\ Save(window, until)
        BY <1>0, <3>1 DEF TypeOK
      <4> HIDE DEF until
      <4>2. QED
        BY <3>2, <3>3, <4>1, SavedRecord
    <3>5. QED
      BY <3>1, <3>4 DEF RecordInv, Held
  <2>5. QED
    BY <1>3, <2>1, <2>2, <2>3, <2>4
    DEF Caller, BackgroundCall, LiveCall, WakeFromPacer, GetImage, Answered, Cancelled
<1>4. CASE UNCHANGED vars
  BY <1>4 DEF vars, disk, RecordInv, Held
<1>5. QED
  BY <1>1, <1>2, <1>3, <1>4 DEF Next

\* The record is always in step, because each step keeps it so.
THEOREM RecordCorrect == Spec => []RecordInv
  BY TypeInit, TypeStep, RecordInit, RecordStep, PTL DEF Spec

\* The two modules take Cardinality from the same place.
LEMMA SameCardinality == \A S : Quota!Cardinality(S) = Cardinality(S)
  BY DEF Cardinality, Quota!Cardinality, IsFiniteSet, Quota!IsFiniteSet

\* For any number of callers, endpoints and restarts and any limits, at most
\* MaxLimit calls of an endpoint are granted in any hour (cv_client.py:164-169).
THEOREM HourlyBound == Spec => []SlidingHourBound
<1>1. RecordInv => SlidingHourBound
  BY SameCardinality DEF RecordInv, SlidingHourBound, Quota!SlidingHourBound
<1>2. QED
  BY <1>1, RecordCorrect, PTL

-----------------------------------------------------------------------------
LEMMA RestartForgets == TypeOK /\ RecordInv /\ Restart => Quota!Forget
<1> SUFFICES ASSUME TypeOK, RecordInv, Restart PROVE Quota!Forget
  OBVIOUS
<1>1. PICK lost \in BOOLEAN :
        /\ Load(lost)
        /\ window' = [e \in Endpoints |-> Recent(file'.window[e], now)]
        /\ granted' = IF lost THEN window' ELSE granted
  BY DEF Restart
<1>2. file' = file \/ file' = NoFile
  BY <1>1 DEF Load
<1>3. ASSUME NEW e \in Endpoints PROVE window'[e] \subseteq granted[e]
  <2>1. CASE file' = file
    BY <1>1, <2>1 DEF RecordInv
  <2>2. CASE file' = NoFile
    BY <1>1, <2>2 DEF NoFile, Recent
  <2>3. QED
    BY <1>2, <2>1, <2>2
<1>4. now' = now
  BY DEF Restart
<1>5. CASE lost
  BY <1>1, <1>3, <1>4, <1>5 DEF Quota!Forget
<1>6. CASE ~lost
  BY <1>1, <1>4, <1>6 DEF Quota!Forget, TypeOK
<1>7. QED
  BY <1>5, <1>6

LEMMA TakeSlotGrants ==
  ASSUME TypeOK, RecordInv, NEW c \in Callers, NEW e \in Endpoints, TakeSlot(c, e)
  PROVE  Quota!Grant(e)
<1>1. Cardinality(granted[e]) < limit /\ IsFiniteSet(granted[e])
  BY DEF TakeSlot, HasRoom, RecordInv
<1>2. Cardinality(granted[e]) \in Nat /\ limit \in Nat /\ limit <= MaxLimit
  BY <1>1, FS_CardinalityType, LimiterAssumption DEF TypeOK
<1>3. Quota!Cardinality(granted[e]) < MaxLimit
  BY <1>1, <1>2, SameCardinality, LimiterAssumption
<1>4. QED
  BY <1>3 DEF Quota!Grant, TakeSlot

LEMMA QuotaStep ==
  TypeOK /\ RecordInv /\ [Next]_vars => [Quota!QuotaNext]_(Quota!quotaVars)
<1> SUFFICES ASSUME TypeOK, RecordInv, [Next]_vars
             PROVE  Quota!QuotaNext \/ UNCHANGED <<now, granted>>
  BY DEF Quota!quotaVars
<1>1. CASE Tick
  BY <1>1 DEF Tick, Quota!QuotaNext, Quota!Pass, Quota!Recent, Recent
<1>2. CASE Restart
  BY <1>2, RestartForgets DEF Quota!QuotaNext
<1>3. ASSUME NEW c \in Callers, Caller(c)
      PROVE  Quota!QuotaNext \/ UNCHANGED <<now, granted>>
  <2>1. ASSUME NEW e \in Endpoints, Admit(c, e)
        PROVE  Quota!QuotaNext \/ UNCHANGED <<now, granted>>
    BY <2>1, TakeSlotGrants DEF Admit, SleepForQuota, Quota!QuotaNext
  <2>2. CASE WakeForQuota(c)
    <3>1. task[c].to \in Endpoints
      BY <2>2 DEF WakeForQuota, TypeOK
    <3>2. QED
      BY <2>1, <2>2, <3>1 DEF WakeForQuota
  <2>3. QED
    BY <1>3, <2>1, <2>2 DEF Caller, BackgroundCall, LiveCall, WakeFromPacer, GetImage,
       Answered, Refused, Cancelled
<1>4. CASE UNCHANGED vars
  BY <1>4 DEF vars
<1>5. QED
  BY <1>1, <1>2, <1>3, <1>4 DEF Next

\* The limiter implements the hourly promise: every step of it grants a slot
\* where HourlyQuota allows one, lets time pass, forgets, or changes nothing.
THEOREM LimiterKeepsPromise == Spec => QuotaSpec
<1>1. Init => Quota!QuotaInit
  BY LimiterAssumption DEF Init, Quota!QuotaInit
<1>2. QED
  BY <1>1, QuotaStep, TypeCorrect, RecordCorrect, PTL DEF Spec, QuotaSpec, Quota!QuotaSpec

-----------------------------------------------------------------------------
\* The cooldown covers every pause ComicVine asked for, and so does the file
\* unless its last write failed.
PauseInv ==
  /\ refusedUntil <= cooldownUntil
  /\ ~stale => file.cooldown = cooldownUntil

LEMMA PauseStep == TypeOK /\ PauseInv /\ [Next]_vars => PauseInv'
<1> SUFFICES ASSUME TypeOK, PauseInv, [Next]_vars PROVE PauseInv'
  OBVIOUS
<1>1. CASE Restart
  <2>1. PICK lost \in BOOLEAN :
          /\ Load(lost)
          /\ cooldownUntil' = file'.cooldown
          /\ refusedUntil' = IF lost THEN cooldownUntil' ELSE refusedUntil
    BY <1>1 DEF Restart
  <2>2. cooldownUntil' \in Nat
    BY TypeStep DEF TypeOK
  <2>3. CASE lost
    BY <2>1, <2>2, <2>3 DEF PauseInv
  <2>4. CASE ~lost
    <3>1. file' = file
      BY <2>1, <2>4 DEF Load
    <3>2. ~stale
      BY <2>1, <2>4, Zenon DEF Load
    <3>3. QED
      BY <2>1, <2>4, <3>1, <3>2 DEF PauseInv
  <2>5. QED
    BY <2>3, <2>4
<1>2. ASSUME NEW c \in Callers, Caller(c) PROVE PauseInv'
  <2>1. CASE UNCHANGED <<cooldownUntil, refusedUntil, file, stale>>
    BY <2>1 DEF PauseInv
  <2>2. ASSUME NEW e \in Endpoints, Admit(c, e) PROVE PauseInv'
    <3>1. CASE SleepForQuota(c, e)
      BY <2>1, <3>1 DEF SleepForQuota, disk
    <3>2. CASE TakeSlot(c, e)
      BY <3>2 DEF TakeSlot, Save, PauseInv
    <3>3. QED
      BY <2>2, <3>1, <3>2 DEF Admit
  <2>3. CASE WakeForQuota(c)
    <3>1. task[c].to \in Endpoints
      BY <2>3 DEF WakeForQuota, TypeOK
    <3>2. QED
      BY <2>2, <2>3, <3>1 DEF WakeForQuota
  <2>4. ASSUME NEW pause \in Pauses, Refused(c, pause) PROVE PauseInv'
    <3>1. /\ cooldownUntil' = Later(cooldownUntil, now + pause)
          /\ refusedUntil' = Later(refusedUntil, now + pause)
          /\ Save(window, cooldownUntil')
      BY <2>4 DEF Refused
    <3>2. refusedUntil' <= cooldownUntil'
      BY <3>1, LimiterAssumption DEF Later, PauseInv, TypeOK
    <3>3. ~stale' => file'.cooldown = cooldownUntil'
      BY <3>1 DEF Save
    <3>4. QED
      BY <3>2, <3>3 DEF PauseInv
  <2>5. QED
    BY <1>2, <2>1, <2>2, <2>3, <2>4
    DEF Caller, BackgroundCall, LiveCall, WakeFromPacer, GetImage, Answered, Cancelled, disk
<1>3. CASE Tick \/ UNCHANGED vars
  BY <1>3 DEF Tick, vars, disk, PauseInv
<1>4. QED
  BY <1>1, <1>2, <1>3 DEF Next

\* A caller reaches ComicVine only through Launch, which looks at the cooldown.
LEMMA LaunchRespectsPause ==
  ASSUME TypeOK, PauseInv, [Next]_vars, NEW d \in Callers,
         task[d].pc # "upstream", task'[d].pc = "upstream", task'[d].to # Image
  PROVE  refusedUntil <= now
<1>1. ASSUME NEW c \in Callers, NEW x \in Targets, Launch(c, x)
      PROVE  refusedUntil <= now
  BY <1>1 DEF Launch, Upstream, Idle, Cooling, PauseInv, TypeOK
<1>2. ASSUME NEW c \in Callers, NEW x \in Targets, Pace(c, x)
      PROVE  refusedUntil <= now
  <2>1. CASE Launch(c, x)
    BY <1>1, <2>1
  <2>2. ASSUME NEW until, task' = [task EXCEPT ![c] = Asleep("pacer", x, until)]
        PROVE  FALSE
    BY <2>2 DEF Asleep, TypeOK
  <2>3. QED
    BY <1>2, <2>1, <2>2 DEF Pace
<1>3. ASSUME NEW c \in Callers, NEW e \in Endpoints, Admit(c, e)
      PROVE  refusedUntil <= now
  <2>1. e \in Targets
    BY DEF Targets
  <2>2. CASE TakeSlot(c, e)
    BY <1>2, <2>1, <2>2 DEF TakeSlot
  <2>3. CASE SleepForQuota(c, e)
    BY <2>3 DEF SleepForQuota, Asleep, TypeOK
  <2>4. QED
    BY <1>3, <2>2, <2>3 DEF Admit
<1>4. ASSUME NEW c \in Callers, Caller(c)
      PROVE  refusedUntil <= now
  <2>1. CASE WakeForQuota(c)
    <3>1. task[c].to \in Endpoints
      BY <2>1 DEF WakeForQuota, TypeOK
    <3>2. QED
      BY <1>3, <2>1, <3>1 DEF WakeForQuota
  <2>2. CASE WakeFromPacer(c)
    <3>1. task[c].to \in Targets
      BY DEF TypeOK, TaskState
    <3>2. QED
      BY <1>1, <2>2, <3>1 DEF WakeFromPacer
  <2>3. CASE GetImage(c)
    BY <1>2, <2>3 DEF GetImage, Targets
  <2>4. CASE task' = [task EXCEPT ![c] = Idle]
    BY <2>4 DEF Idle, TypeOK
  <2>5. QED
    BY <1>3, <1>4, <2>1, <2>2, <2>3, <2>4
    DEF Caller, BackgroundCall, LiveCall, Answered, Refused, Cancelled
<1>5. CASE Tick \/ UNCHANGED vars
  BY <1>5 DEF Tick, vars
<1>6. CASE Restart
  BY <1>6 DEF Restart, Idle
<1>7. QED
  BY <1>4, <1>5, <1>6 DEF Next

\* Nothing is sent to ComicVine before a pause it asked for is over, whatever
\* was queued when it did (cv_client.py:185-190, 267-275).
THEOREM SilenceAfterRefusal == Spec => NoCallWhileRefused
<1>1. Init => PauseInv
  BY DEF Init, PauseInv, NoFile
<1>2. TypeOK /\ PauseInv /\ [Next]_vars =>
        [\A c \in Callers :
           task[c].pc # "upstream" /\ task'[c].pc = "upstream" /\ task'[c].to # Image
             => refusedUntil <= now]_vars
  BY LaunchRespectsPause
<1>3. QED
  BY <1>1, <1>2, PauseStep, TypeCorrect, PTL DEF Spec, NoCallWhileRefused

-----------------------------------------------------------------------------
\* Start times are given out in order, so the newest one bounds them all.
PacerInv ==
  /\ \A c \in Callers : task[c].pc = "pacer" => task[c].due <= lastRequest
  /\ PacerSpacing

\* A step that lets one caller leave the pacer, or stay out of it, keeps the spacing.
LEMMA LeavingThePacer ==
  ASSUME TypeOK, PacerInv, NEW c \in Callers, NEW t, t.pc # "pacer",
         task' = [task EXCEPT ![c] = t], lastRequest' = lastRequest
  PROVE  PacerInv'
  BY DEF PacerInv, PacerSpacing, TypeOK

LEMMA LaunchLeaves ==
  ASSUME NEW c \in Callers, NEW x \in Targets, Launch(c, x)
  PROVE  \E t : t.pc # "pacer" /\ task' = [task EXCEPT ![c] = t]
<1> DEFINE t == IF x # Image /\ Cooling THEN Idle ELSE Upstream(x)
<1>1. t.pc # "pacer"
  BY DEF Idle, Upstream
<1>2. task' = [task EXCEPT ![c] = t]
  BY DEF Launch
<1> HIDE DEF t
<1>3. QED
  BY <1>1, <1>2

LEMMA PaceSpaces ==
  ASSUME TypeOK, PacerInv, NEW c \in Callers, NEW x \in Targets, Pace(c, x)
  PROVE  PacerInv'
<1> DEFINE start == Later(now, lastRequest + MinInterval)
<1>1. lastRequest' = start
  BY DEF Pace
<1>2. start \in Int /\ start >= lastRequest + MinInterval /\ start >= lastRequest
  BY LimiterAssumption DEF Later, TypeOK
<1>3. PICK t : task' = [task EXCEPT ![c] = t] /\ (t.pc = "pacer" => t.due = start)
  <2>1. CASE start = now
    BY <2>1, LaunchLeaves DEF Pace
  <2>2. CASE start # now
    <3>1. task' = [task EXCEPT ![c] = Asleep("pacer", x, start)]
      BY <2>2 DEF Pace
    <3>2. Asleep("pacer", x, start).due = start
      BY DEF Asleep
    <3>3. QED
      BY <3>1, <3>2
  <2>3. QED
    BY <2>1, <2>2
<1> HIDE DEF start
<1>4. ASSUME NEW d \in Callers, d # c, task'[d].pc = "pacer"
      PROVE  /\ task'[d].due \in Int
             /\ task'[d].due <= lastRequest
             /\ task'[d].due + MinInterval <= start
  <2>1. task'[d] = task[d] /\ task[d].due \in Int
    BY <1>3, <1>4 DEF TypeOK, TaskState
  <2>2. task[d].due <= lastRequest
    BY <1>4, <2>1 DEF PacerInv
  <2>3. QED
    BY <1>2, <2>1, <2>2, LimiterAssumption DEF TypeOK
<1>5. ASSUME NEW d \in Callers, task'[d].pc = "pacer" PROVE task'[d].due <= lastRequest'
  <2>1. CASE d = c
    BY <1>1, <1>2, <1>3, <1>5, <2>1 DEF TypeOK
  <2>2. CASE d # c
    BY <1>1, <1>2, <1>4, <1>5, <2>2 DEF TypeOK
  <2>3. QED
    BY <2>1, <2>2
<1>6. ASSUME NEW d \in Callers, d # c, task'[d].pc = "pacer", task'[c].pc = "pacer"
      PROVE  task'[c].due - task'[d].due >= MinInterval
  <2>1. task'[c].due = start
    BY <1>3, <1>6 DEF TypeOK
  <2>2. QED
    BY <1>2, <1>4, <1>6, <2>1, LimiterAssumption
<1>7. ASSUME NEW d \in Callers, NEW f \in Callers, d # f, d # c, f # c,
             task'[d].pc = "pacer", task'[f].pc = "pacer"
      PROVE  \/ task'[d].due - task'[f].due >= MinInterval
             \/ task'[f].due - task'[d].due >= MinInterval
  BY <1>3, <1>7 DEF PacerInv, PacerSpacing, TypeOK
<1>8. PacerSpacing'
  BY <1>6, <1>7 DEF PacerSpacing
<1>9. QED
  BY <1>5, <1>8 DEF PacerInv

LEMMA PacerStep == TypeOK /\ PacerInv /\ [Next]_vars => PacerInv'
<1> SUFFICES ASSUME TypeOK, PacerInv, [Next]_vars PROVE PacerInv'
  OBVIOUS
<1>1. CASE Restart
  BY <1>1 DEF Restart, Idle, PacerInv, PacerSpacing
<1>2. CASE Tick \/ UNCHANGED vars
  BY <1>2 DEF Tick, vars, PacerInv, PacerSpacing
<1>3. ASSUME NEW c \in Callers, Caller(c) PROVE PacerInv'
  <2>1. ASSUME NEW e \in Endpoints, Admit(c, e) PROVE PacerInv'
    <3>1. CASE TakeSlot(c, e)
      BY <3>1, PaceSpaces DEF TakeSlot, Targets
    <3>2. CASE SleepForQuota(c, e)
      <4>1. PICK oldest \in Held(e) :
              task' = [task EXCEPT ![c] = Asleep("quota", e, oldest.at + Hour)]
        BY <3>2 DEF SleepForQuota
      <4>2. lastRequest' = lastRequest
        BY <3>2 DEF SleepForQuota
      <4>3. Asleep("quota", e, oldest.at + Hour).pc # "pacer"
        BY DEF Asleep
      <4>4. QED
        BY <4>1, <4>2, <4>3, LeavingThePacer
    <3>3. QED
      BY <2>1, <3>1, <3>2 DEF Admit
  <2>2. CASE WakeForQuota(c)
    <3>1. task[c].to \in Endpoints
      BY <2>2 DEF WakeForQuota, TypeOK
    <3>2. QED
      BY <2>1, <2>2, <3>1 DEF WakeForQuota
  <2>3. CASE WakeFromPacer(c)
    <3>1. task[c].to \in Targets
      BY DEF TypeOK, TaskState
    <3>2. Launch(c, task[c].to) /\ lastRequest' = lastRequest
      BY <2>3 DEF WakeFromPacer
    <3>3. QED
      BY <3>1, <3>2, LaunchLeaves, LeavingThePacer
  <2>4. CASE GetImage(c)
    BY <2>4, PaceSpaces DEF GetImage, Targets
  <2>5. CASE task' = [task EXCEPT ![c] = Idle] /\ lastRequest' = lastRequest
    <3>1. Idle.pc # "pacer"
      BY DEF Idle
    <3>2. QED
      BY <2>5, <3>1, LeavingThePacer
  <2>6. QED
    BY <1>3, <2>1, <2>2, <2>3, <2>4, <2>5
    DEF Caller, BackgroundCall, LiveCall, Answered, Refused, Cancelled
<1>4. QED
  BY <1>1, <1>2, <1>3 DEF Next

\* Requests that wait for the pacer never start closer together than its
\* interval (cv_client.py:119-129).
THEOREM PacerKeepsDistance == Spec => []PacerSpacing
<1>1. Init => PacerInv
  BY DEF Init, Idle, PacerInv, PacerSpacing
<1>2. PacerInv => PacerSpacing
  BY DEF PacerInv
<1>3. QED
  BY <1>1, <1>2, PacerStep, TypeCorrect, PTL DEF Spec

-----------------------------------------------------------------------------
(* What retry_after computes *)

\* s and the members of S that are newer.
From(S, s) == {r \in S : r.at > s.at \/ (r.at = s.at /\ r.id >= s.id)}

\* A minimal set among the subsets of a finite set.
LEMMA Minimal ==
  ASSUME NEW S, IsFiniteSet(S), NEW F, F # {}, F \subseteq SUBSET S
  PROVE  \E T \in F : \A U \in F : U \subseteq T => U = T
<1>1. F \subseteq FiniteSubsetsOf(S)
  BY FS_FiniteSubsetsOfFinite
<1>2. PICK T \in F : \A U \in F : ~(<<U, T>> \in StrictSubsetOrdering(S))
  BY <1>1, FS_StrictSubsetOrderingWellFounded, WFMin
<1>3. QED
  BY <1>2 DEF StrictSubsetOrdering

\* The order of stamps.
LEMMA FromOrder ==
  ASSUME NEW S \in SUBSET Stamp, NEW s \in S, NEW r \in S
  PROVE  /\ s \in From(S, s)
         /\ r \in From(S, s) => From(S, r) \subseteq From(S, s)
         /\ r \notin From(S, s) => s \in From(S, r)
         /\ r \in From(S, s) /\ s \in From(S, r) => r = s
BY DEF From, Stamp

\* A finite set of stamps has an oldest one.
LEMMA Oldest ==
  ASSUME NEW S \in SUBSET Stamp, IsFiniteSet(S), S # {}
  PROVE  \E s \in S : From(S, s) = S
<1> DEFINE F == {S \ From(S, x) : x \in S}
<1>1. F # {} /\ F \subseteq SUBSET S
  OBVIOUS
<1>2. PICK T \in F : \A U \in F : U \subseteq T => U = T
  <2> HIDE DEF F
  <2> QED  BY <1>1, Minimal
<1>3. PICK s \in S : T = S \ From(S, s)
  BY <1>2
<1>4. ASSUME NEW r \in S, r \notin From(S, s) PROVE FALSE
  <2>1. s \in From(S, r) /\ r \in From(S, r)
    BY <1>4, FromOrder
  <2>2. From(S, s) \subseteq From(S, r)
    BY <2>1, FromOrder
  <2>3. S \ From(S, r) \subseteq T /\ S \ From(S, r) # T
    BY <1>3, <1>4, <2>1, <2>2
  <2>4. QED
    BY <1>2, <2>3
<1>5. QED
  BY <1>4 DEF From

\* Newest(S, n) is what its name says, when there are n stamps.
LEMMA NewestIsNth ==
  ASSUME NEW S \in SUBSET Stamp, IsFiniteSet(S),
         NEW n \in Nat \ {0}, n <= Cardinality(S)
  PROVE  Newest(S, n) \in S /\ Cardinality(From(S, Newest(S, n))) = n
<1> DEFINE F == {T \in {From(S, s) : s \in S} : Cardinality(T) >= n}
<1>1. ASSUME NEW T \in SUBSET S PROVE IsFiniteSet(T) /\ Cardinality(T) \in Nat
  BY FS_Subset, FS_CardinalityType
<1>2. Cardinality(S) \in Nat
  BY FS_CardinalityType
<1>3. F # {} /\ F \subseteq SUBSET S
  <2>1. S # {}
    BY <1>2, FS_EmptySet
  <2>2. QED
    BY <2>1, Oldest DEF From
<1>4. PICK T \in F : \A U \in F : U \subseteq T => U = T
  <2> HIDE DEF F
  <2> QED  BY <1>3, Minimal
<1>5. PICK s \in S : T = From(S, s) /\ Cardinality(T) >= n
  BY <1>4
<1>6. ASSUME Cardinality(T) > n PROVE FALSE
  <2> DEFINE Rest == T \ {s}
  <2>1. T \subseteq S /\ s \in T
    BY <1>5, FromOrder DEF From
  <2>2. IsFiniteSet(T) /\ Cardinality(T) \in Nat
    BY <1>1, <2>1
  <2>3. IsFiniteSet(Rest) /\ Cardinality(Rest) = Cardinality(T) - 1
    BY <2>1, <2>2, FS_RemoveElement
  <2>4. Cardinality(Rest) >= n /\ Rest # {}
    BY <1>6, <2>2, <2>3, FS_EmptySet
  <2>5. PICK k \in Rest : From(Rest, k) = Rest
    BY <2>1, <2>3, <2>4, Oldest
  <2>6. k \in S /\ k \in From(S, s) /\ k # s
    BY <1>5, <2>1, <2>5
  <2>7. From(S, k) \subseteq T /\ s \notin From(S, k)
    BY <1>5, <2>6, FromOrder
  <2>8. Rest \subseteq From(S, k)
    BY <2>1, <2>5 DEF From
  <2>9. From(S, k) \in SUBSET S
    BY DEF From
  <2>10. Cardinality(From(S, k)) >= n
    BY <1>1, <2>3, <2>4, <2>8, <2>9, FS_Subset, FS_CardinalityType
  <2>11. From(S, k) \in F
    BY <2>6, <2>10
  <2>12. QED
    BY <1>4, <2>1, <2>7, <2>11
<1>7. Cardinality(T) = n
  <2>1. Cardinality(T) \in Nat
    BY <1>1, <1>5 DEF From
  <2>2. QED
    BY <1>5, <1>6, <2>1
<1>8. \E x \in S : Cardinality(From(S, x)) = n
  BY <1>5, <1>7
<1>9. Newest(S, n) = CHOOSE x \in S : Cardinality(From(S, x)) = n
  BY DEF Newest, From
<1>10. QED
  BY <1>8, <1>9

\* The window of an endpoint is finite, and a later look finds no more in it.
LEMMA WindowCounts ==
  ASSUME TypeOK, RecordInv, NEW e \in Endpoints
  PROVE  /\ Held(e) \in SUBSET Stamp /\ IsFiniteSet(Held(e)) /\ Cardinality(Held(e)) \in Nat
         /\ \A t \in Int : t >= now =>
              /\ Recent(window[e], t) = Recent(Held(e), t)
              /\ Cardinality(Recent(window[e], t)) \in Nat
              /\ Cardinality(Recent(window[e], t)) <= Cardinality(Held(e))
<1>1. Held(e) \in SUBSET Stamp /\ IsFiniteSet(Held(e)) /\ Cardinality(Held(e)) \in Nat
  BY FS_CardinalityType DEF RecordInv, TypeOK, Held, Recent
<1>2. ASSUME NEW t \in Int, t >= now PROVE Recent(window[e], t) = Recent(Held(e), t)
  BY <1>2, LimiterAssumption DEF TypeOK, Held, Recent, Stamp
<1>3. ASSUME NEW t \in Int PROVE Recent(Held(e), t) \in SUBSET Held(e)
  BY DEF Recent
<1>4. QED
  BY <1>1, <1>2, <1>3, FS_Subset, FS_CardinalityType

\* With a full window, room is made when the limit-th newest call is an hour old.
LEMMA RoomAgain ==
  ASSUME TypeOK, RecordInv, NEW e \in Endpoints, ~HasRoom(e)
  PROVE  LET x == Newest(Held(e), limit)
         IN  /\ x.at \in Int /\ x.at + Hour > now
             /\ \A t \in Int : t >= now =>
                  (Cardinality(Recent(window[e], t)) < limit <=> t >= x.at + Hour)
<1> DEFINE x == Newest(Held(e), limit)
           R(t) == Recent(Held(e), t)
<1>0. limit \in Nat \ {0} /\ Hour \in Nat /\ now \in Nat
  BY LimiterAssumption DEF TypeOK
<1>1. Held(e) \in SUBSET Stamp /\ IsFiniteSet(Held(e)) /\ limit <= Cardinality(Held(e))
  BY <1>0, WindowCounts DEF HasRoom
<1>2. x \in Held(e) /\ Cardinality(From(Held(e), x)) = limit
  BY <1>0, <1>1, NewestIsNth
<1>3. x.at \in Int /\ x.at + Hour > now
  BY <1>0, <1>1, <1>2 DEF Held, Recent, Stamp
<1>4. ASSUME NEW t \in Int, t >= now, t >= x.at + Hour
      PROVE  Cardinality(R(t)) < limit
  <2>1. R(t) \subseteq From(Held(e), x) \ {x}
    BY <1>0, <1>1, <1>2, <1>3, <1>4 DEF Recent, From, Stamp
  <2>2. x \in From(Held(e), x) /\ From(Held(e), x) \in SUBSET Held(e)
    BY <1>1, <1>2, FromOrder DEF From
  <2>3. IsFiniteSet(From(Held(e), x))
    BY <1>1, <2>2, FS_Subset
  <2>4. IsFiniteSet(From(Held(e), x) \ {x}) /\ Cardinality(From(Held(e), x) \ {x}) = limit - 1
    BY <1>2, <2>2, <2>3, FS_RemoveElement
  <2>5. Cardinality(R(t)) <= limit - 1 /\ Cardinality(R(t)) \in Nat
    BY <2>1, <2>4, FS_Subset, FS_CardinalityType
  <2>6. QED
    BY <1>0, <2>5
<1>5. ASSUME NEW t \in Int, t >= now, t < x.at + Hour
      PROVE  ~(Cardinality(R(t)) < limit)
  <2>1. From(Held(e), x) \in SUBSET R(t) /\ R(t) \in SUBSET Held(e)
    BY <1>0, <1>1, <1>2, <1>3, <1>5 DEF Recent, From, Stamp
  <2>2. limit <= Cardinality(R(t)) /\ Cardinality(R(t)) \in Nat
    BY <1>1, <1>2, <2>1, FS_Subset, FS_CardinalityType
  <2>3. QED
    BY <1>0, <2>2
<1>6. ASSUME NEW t \in Int, t >= now PROVE Cardinality(Recent(window[e], t)) = Cardinality(R(t))
  BY <1>6, WindowCounts
<1>7. QED
  BY <1>0, <1>3, <1>4, <1>5, <1>6

\* What retry_after says of a full window.
LEMMA FullWindowWait ==
  ASSUME NEW e \in Endpoints, ~HasRoom(e)
  PROVE  LET full == Newest(Held(e), limit).at + Hour - now
         IN  RetryAfter(e) = Later(0, Later(cooldownUntil - now, full))
<1> DEFINE full == Newest(Held(e), limit).at + Hour - now
           quota == IF ~HasRoom(e) THEN full ELSE 0
<1>1. RetryAfter(e) = Later(0, Later(cooldownUntil - now, quota))
  BY DEF RetryAfter
<1>2. quota = full
  OBVIOUS
<1> HIDE DEF full, quota
<1>3. RetryAfter(e) = Later(0, Later(cooldownUntil - now, full))
  BY <1>1, <1>2
<1>4. QED
  BY <1>3 DEF full

\* With a full window it answers when there will be room and no pause.
LEMMA FullWindowAnswer ==
  ASSUME TypeOK, RecordInv, NEW e \in Endpoints, ~HasRoom(e)
  PROVE  LET at == Newest(Held(e), limit).at + Hour
         IN  RetryAfter(e) = Later(cooldownUntil, at) - now /\ RetryAfter(e) > 0
<1> DEFINE at == Newest(Held(e), limit).at + Hour
           full == Newest(Held(e), limit).at + Hour - now
<1>1. Newest(Held(e), limit).at \in Int /\ at > now
  BY RoomAgain
<1>2. now \in Nat /\ cooldownUntil \in Nat /\ Hour \in Nat
  BY LimiterAssumption DEF TypeOK
<1>3. RetryAfter(e) = Later(0, Later(cooldownUntil - now, full))
  BY FullWindowWait
<1>4. at \in Int /\ full = at - now
  BY <1>1, <1>2
<1> HIDE DEF at, full
<1>5. RetryAfter(e) = Later(cooldownUntil, at) - now /\ RetryAfter(e) > 0
  BY <1>1, <1>2, <1>3, <1>4 DEF Later
<1>6. QED
  BY <1>5 DEF at

\* What retry_after tells a client is exact, whatever the limit was changed to.
LEMMA RetryIsExact == TypeOK /\ RecordInv => RetryAfterExact
<1> SUFFICES ASSUME TypeOK, RecordInv, NEW e \in Endpoints
             PROVE  LET OpenAt(t) == cooldownUntil <= t /\ Cardinality(Recent(window[e], t)) < limit
                        wait == RetryAfter(e)
                    IN  OpenAt(now + wait) /\ (wait > 0 => ~OpenAt(now + wait - 1))
  BY DEF RetryAfterExact
<1> DEFINE wait == RetryAfter(e)
           Count(t) == Cardinality(Recent(window[e], t))
<1>1. limit \in Nat \ {0} /\ now \in Nat /\ cooldownUntil \in Nat
  BY LimiterAssumption DEF TypeOK
<1>2. CASE HasRoom(e)
  <2>1. wait = Later(0, Later(cooldownUntil - now, 0))
    BY <1>2 DEF RetryAfter
  <2>2. now + wait \in Int /\ now + wait >= now
    BY <1>1, <2>1 DEF Later
  <2>3. Count(now + wait) <= Cardinality(Held(e)) /\ Count(now + wait) \in Nat
    BY <2>2, WindowCounts
  <2>4. Cardinality(Held(e)) \in Nat /\ Count(now + wait) < limit
    <3> HIDE DEF Count, wait
    <3> QED  BY <1>1, <1>2, <2>3, WindowCounts DEF HasRoom
  <2>5. cooldownUntil <= now + wait /\ (wait > 0 => ~(cooldownUntil <= now + wait - 1))
    BY <1>1, <2>1 DEF Later
  <2>6. QED
    BY <2>4, <2>5
<1>3. CASE ~HasRoom(e)
  <2> DEFINE at == Newest(Held(e), limit).at + Hour
  <2>1. /\ at \in Int /\ at > now
        /\ \A t \in Int : t >= now => (Count(t) < limit <=> t >= at)
    BY <1>3, RoomAgain, LimiterAssumption
  <2>2. wait = Later(cooldownUntil, at) - now /\ wait > 0
    BY <1>3, FullWindowAnswer
  <2> HIDE DEF at, wait, Count
  <2>3. /\ wait \in Int /\ now + wait >= at /\ now + wait >= cooldownUntil
        /\ now + wait - 1 < at \/ now + wait - 1 < cooldownUntil
    BY <1>1, <2>1, <2>2 DEF Later
  <2>4. Count(now + wait) < limit
    BY <1>1, <2>1, <2>3
  <2>5. ~(cooldownUntil <= now + wait - 1) \/ ~(Count(now + wait - 1) < limit)
    BY <1>1, <2>1, <2>3
  <2>6. QED
    BY <2>3, <2>4, <2>5 DEF wait, Count
<1>4. QED
  BY <1>2, <1>3 DEF wait, Count

\* A request that is told to go finds room.
LEMMA NoWaitMeansRoom ==
  ASSUME TypeOK, RecordInv, NEW e \in Endpoints, RetryAfter(e) = 0
  PROVE  HasRoom(e)
<1>1. SUFFICES ASSUME ~HasRoom(e) PROVE FALSE
  OBVIOUS
<1>2. QED
  BY <1>1, FullWindowAnswer

\* What retry_after tells a client is exact (cv_client.py:227-241).
THEOREM WaitsAreExact == Spec => []RetryAfterExact
<1>1. QED
  BY RetryIsExact, TypeCorrect, RecordCorrect, PTL

\* A call may go now exactly when no pause runs and its window has room: what the
\* callers of retry_after make of its answer (cv_client.py:227-241,
\* routes/api.py:328-339, pending.py:126), and what PendingQueue calls CanAsk.
FreeToGo == \A e \in Endpoints : RetryAfter(e) = 0 <=> ~Cooling /\ HasRoom(e)

LEMMA ZeroMeansFree == TypeOK /\ RecordInv => FreeToGo
<1> SUFFICES ASSUME TypeOK, RecordInv, NEW e \in Endpoints
             PROVE  RetryAfter(e) = 0 <=> ~Cooling /\ HasRoom(e)
  BY DEF FreeToGo
<1>1. cooldownUntil \in Nat /\ now \in Nat
  BY DEF TypeOK
<1>2. CASE HasRoom(e)
  <2>1. RetryAfter(e) = Later(0, Later(cooldownUntil - now, 0))
    BY <1>2 DEF RetryAfter
  <2>2. RetryAfter(e) = 0 <=> ~Cooling
    BY <1>1, <2>1 DEF Later, Cooling
  <2>3. QED
    BY <1>2, <2>2
<1>3. CASE ~HasRoom(e)
  <2>1. RetryAfter(e) > 0
    BY <1>3, FullWindowAnswer
  <2>2. QED
    BY <1>3, <2>1
<1>4. QED
  BY <1>2, <1>3

THEOREM NoWaitIsFree == Spec => []FreeToGo
<1>1. QED
  BY ZeroMeansFree, TypeCorrect, RecordCorrect, PTL

LEMMA LiveStep ==
  TypeOK /\ RecordInv /\ LiveNeverSleepsForQuota /\ [Next]_vars => LiveNeverSleepsForQuota'
<1> SUFFICES ASSUME TypeOK, RecordInv, LiveNeverSleepsForQuota, [Next]_vars,
                    NEW d \in Live, task'[d].pc = "quota"
             PROVE  FALSE
  BY DEF LiveNeverSleepsForQuota
<1>1. task \in [Callers -> TaskState] /\ d \in Callers /\ task[d].pc # "quota"
  BY DEF TypeOK, LiveNeverSleepsForQuota, Callers
<1>2. CASE Restart
  BY <1>1, <1>2 DEF Restart, Idle
<1>3. CASE Tick \/ UNCHANGED vars
  BY <1>1, <1>3 DEF Tick, vars
<1>4. ASSUME NEW c \in Callers, Caller(c) PROVE FALSE
  <2>1. ASSUME NEW x, Launch(c, x) PROVE FALSE
    BY <1>1, <2>1 DEF Launch, Idle, Upstream
  <2>2. ASSUME NEW x, Pace(c, x) PROVE FALSE
    <3>1. CASE Launch(c, x)
      BY <2>1, <3>1
    <3>2. CASE \E until : task' = [task EXCEPT ![c] = Asleep("pacer", x, until)]
      BY <1>1, <3>2 DEF Asleep
    <3>3. QED
      BY <2>2, <3>1, <3>2 DEF Pace
  <2>3. CASE \E e \in Endpoints : LiveCall(c, e)
    <3>1. PICK e \in Endpoints : LiveCall(c, e)
      BY <2>3
    <3>2. TakeSlot(c, e)
      BY <3>1, NoWaitMeansRoom DEF LiveCall, Admit, SleepForQuota
    <3>3. QED
      BY <2>2, <3>2 DEF TakeSlot
  <2>4. ASSUME NEW e, Admit(c, e), c # d PROVE FALSE
    <3>1. CASE TakeSlot(c, e)
      BY <2>2, <3>1 DEF TakeSlot
    <3>2. CASE SleepForQuota(c, e)
      BY <1>1, <2>4, <3>2 DEF SleepForQuota
    <3>3. QED
      BY <2>4, <3>1, <3>2 DEF Admit
  <2>5. CASE \E e \in Endpoints : BackgroundCall(c, e)
    BY <2>4, <2>5, LimiterAssumption DEF BackgroundCall
  <2>6. CASE WakeForQuota(c)
    BY <1>1, <2>4, <2>6 DEF WakeForQuota
  <2>7. CASE WakeFromPacer(c)
    BY <2>1, <2>7 DEF WakeFromPacer
  <2>8. CASE GetImage(c)
    BY <2>2, <2>8 DEF GetImage
  <2>9. CASE task' = [task EXCEPT ![c] = Idle]
    BY <1>1, <2>9 DEF Idle
  <2>10. QED
    BY <1>4, <2>3, <2>5, <2>6, <2>7, <2>8, <2>9 DEF Caller, Answered, Refused, Cancelled
<1>5. QED
  BY <1>2, <1>3, <1>4 DEF Next

\* A client request never sleeps for the hourly quota: retry_after and the look
\* into the window agree (cv_client.py:227-241, routes/api.py:328-339).
THEOREM ClientsAreAnsweredAtOnce == Spec => []LiveNeverSleepsForQuota
<1>1. Init => LiveNeverSleepsForQuota
  BY DEF Init, Idle, LiveNeverSleepsForQuota, Callers
<1>2. QED
  BY <1>1, LiveStep, TypeCorrect, RecordCorrect, PTL DEF Spec

-----------------------------------------------------------------------------
(* What the callers rely on *)

\* A pause that a restart finds in the file is one the process knew of: what was
\* saved last may be an older pause, never a longer one.
FileIsOlder == file.cooldown <= cooldownUntil

LEMMA FileStep == TypeOK /\ FileIsOlder /\ [Next]_vars => FileIsOlder'
<1> SUFFICES ASSUME TypeOK, FileIsOlder, [Next]_vars PROVE FileIsOlder'
  OBVIOUS
<1>1. cooldownUntil \in Nat /\ cooldownUntil' \in Nat /\ file.cooldown \in Nat /\ now \in Nat
  BY TypeStep DEF TypeOK
<1>2. CASE Restart
  BY <1>1, <1>2 DEF Restart, FileIsOlder
<1>3. ASSUME NEW w, NEW until \in Nat, Save(w, until), cooldownUntil <= until, cooldownUntil' = until
      PROVE  FileIsOlder'
  BY <1>1, <1>3 DEF Save, FileIsOlder
<1>4. ASSUME NEW c \in Callers, NEW e, Admit(c, e) PROVE FileIsOlder'
  <2>1. CASE TakeSlot(c, e)
    <3>1. cooldownUntil' = cooldownUntil /\ \E w : Save(w, cooldownUntil)
      BY <2>1 DEF TakeSlot
    <3>2. QED
      BY <1>1, <1>3, <3>1
  <2>2. CASE SleepForQuota(c, e)
    BY <2>2 DEF SleepForQuota, FileIsOlder, disk
  <2>3. QED
    BY <1>4, <2>1, <2>2 DEF Admit
<1>5. ASSUME NEW c \in Callers, NEW pause \in Pauses, Refused(c, pause) PROVE FileIsOlder'
  <2> DEFINE until == cooldownUntil'
  <2>1. Save(window, until) /\ until = Later(cooldownUntil, now + pause)
    BY <1>5 DEF Refused
  <2>2. cooldownUntil <= until
    BY <1>1, <2>1, LimiterAssumption DEF Later
  <2>3. cooldownUntil' = until /\ until \in Nat
    BY <1>1
  <2> HIDE DEF until
  <2>4. QED
    BY <1>3, <2>1, <2>2, <2>3
<1>6. CASE UNCHANGED <<file, cooldownUntil>>
  BY <1>6 DEF FileIsOlder
<1>7. QED
  BY <1>2, <1>4, <1>5, <1>6
  DEF Next, Caller, Tick, BackgroundCall, LiveCall, WakeForQuota, WakeFromPacer, GetImage,
      Answered, Cancelled, disk, vars

\* The calls of the last hour, per endpoint.
Used == [e \in Endpoints |-> Cardinality(Held(e))]

LEMMA UsedIsCounted ==
  ASSUME RecordInv
  PROVE  /\ Used = [e \in Endpoints |-> Cardinality(granted[e])]
         /\ \A e \in Endpoints : Cardinality(granted[e]) \in 0..MaxLimit
<1>1. \A e \in Endpoints : Held(e) = granted[e]
  BY DEF RecordInv
<1>2. \A e \in Endpoints : Cardinality(granted[e]) \in Nat /\ Cardinality(granted[e]) <= MaxLimit
  BY FS_CardinalityType DEF RecordInv
<1>3. QED
  BY <1>1, <1>2, LimiterAssumption DEF Used

\* A slot is one more call of its endpoint, and there was room for it.
LEMMA SlotCounts ==
  ASSUME TypeOK, RecordInv, RecordInv', NEW c \in Callers, NEW e \in Endpoints, TakeSlot(c, e)
  PROVE  /\ Used[e] < MaxLimit
         /\ Used' = [Used EXCEPT ![e] = @ + 1]
<1>1. PICK id \in 1..MaxBurst :
        /\ Quota!NextSlot(granted[e], [at |-> now, id |-> id])
        /\ granted' = [granted EXCEPT ![e] = @ \cup {[at |-> now, id |-> id]}]
  BY DEF TakeSlot
<1> DEFINE slot == [at |-> now, id |-> id]
<1>2. slot \notin granted[e]
  BY <1>1 DEF Quota!NextSlot
<1>3. granted' = [granted EXCEPT ![e] = @ \cup {slot}]
  BY <1>1
<1> HIDE DEF slot
<1>4. IsFiniteSet(granted[e]) /\ Cardinality(granted[e] \cup {slot}) = Cardinality(granted[e]) + 1
  BY <1>2, FS_AddElement DEF RecordInv
<1>5. /\ granted'[e] = granted[e] \cup {slot}
      /\ \A f \in Endpoints : f # e => granted'[f] = granted[f]
  BY <1>3 DEF TypeOK
<1>6. /\ Used = [f \in Endpoints |-> Cardinality(granted[f])]
      /\ Used' = [f \in Endpoints |-> Cardinality(granted'[f])]
  BY UsedIsCounted DEF Used, RecordInv, Held
<1>7. Used' = [Used EXCEPT ![e] = @ + 1]
  BY <1>4, <1>5, <1>6
<1>8. Cardinality(granted[e]) < MaxLimit
  <2>1. Cardinality(granted[e]) < limit /\ Cardinality(granted[e]) \in Nat
    BY UsedIsCounted DEF TakeSlot, HasRoom, RecordInv
  <2>2. QED
    BY <2>1, LimiterAssumption DEF TypeOK
<1>9. QED
  BY <1>6, <1>7, <1>8

\* Where calls are only forgotten, the counts go down.
LEMMA LessGranted ==
  ASSUME RecordInv, RecordInv', \A e \in Endpoints : granted'[e] \subseteq granted[e]
  PROVE  /\ Used' \in [Endpoints -> 0..MaxLimit]
         /\ \A e \in Endpoints : Used'[e] <= Used[e]
<1>1. /\ Used = [e \in Endpoints |-> Cardinality(granted[e])]
      /\ Used' = [e \in Endpoints |-> Cardinality(granted'[e])]
  BY UsedIsCounted DEF Used, RecordInv, Held
<1>2. \A e \in Endpoints :
        IsFiniteSet(granted[e]) /\ IsFiniteSet(granted'[e]) /\ Cardinality(granted'[e]) <= MaxLimit
  BY DEF RecordInv
<1>3. \A e \in Endpoints :
        Cardinality(granted'[e]) <= Cardinality(granted[e]) /\ Cardinality(granted'[e]) \in Nat
  BY <1>2, FS_Subset, FS_CardinalityType
<1>4. QED
  BY <1>1, <1>2, <1>3, LimiterAssumption

\* A step in which no slot is taken.
WindowsLater ==
  \/ UNCHANGED <<Used, Cooling>>
  \/ Used' = Used /\ Cooling' = TRUE
  \/ /\ Used' \in [Endpoints -> 0..MaxLimit]
     /\ \A e \in Endpoints : Used'[e] <= Used[e]
     /\ Cooling' \in {Cooling, FALSE}

LEMMA WindowsOfAdmit ==
  ASSUME TypeOK, RecordInv, RecordInv', NEW c \in Callers, NEW e \in Endpoints, Admit(c, e)
  PROVE  \/ WindowsLater
         \/ /\ Used[e] < MaxLimit
            /\ Used' = [Used EXCEPT ![e] = @ + 1]
            /\ UNCHANGED Cooling
<1>1. CASE TakeSlot(c, e)
  <2>1. UNCHANGED Cooling
    BY <1>1 DEF TakeSlot, Cooling
  <2>2. QED
    BY <1>1, <2>1, SlotCounts
<1>2. CASE SleepForQuota(c, e)
  <2>1. UNCHANGED Cooling /\ UNCHANGED granted
    BY <1>2 DEF SleepForQuota, Cooling
  <2>2. UNCHANGED Used
    BY <2>1, UsedIsCounted DEF Used, RecordInv, Held
  <2>3. QED
    BY <2>1, <2>2 DEF WindowsLater
<1>3. QED
  BY <1>1, <1>2 DEF Admit

LEMMA WindowsOfOthers ==
  ASSUME TypeOK, RecordInv, RecordInv', FileIsOlder,
         Tick \/ Restart \/ (\E c \in Callers, pause \in Pauses : Refused(c, pause))
  PROVE  WindowsLater
<1>0. (Cooling = TRUE \/ Cooling = FALSE) /\ (Cooling' = TRUE \/ Cooling' = FALSE)
  <2>1. /\ Cooling = (cooldownUntil > now) /\ (cooldownUntil > now) \in BOOLEAN
        /\ Cooling' = (cooldownUntil' > now') /\ (cooldownUntil' > now') \in BOOLEAN
    BY DEF Cooling
  <2>2. QED
    BY <2>1, Zenon
<1>1. cooldownUntil \in Nat /\ now \in Nat
  BY DEF TypeOK
<1>2. CASE Tick
  <2>1. \A e \in Endpoints : granted'[e] \subseteq granted[e]
    BY <1>2 DEF Tick, Recent
  <2>2. Cooling' \in {Cooling, FALSE}
    <3>1. Cooling' => Cooling
      BY <1>1, <1>2 DEF Tick, Cooling
    <3>2. QED
      BY <1>0, <3>1, Zenon
  <2>3. QED
    BY <2>1, <2>2, LessGranted DEF WindowsLater
<1>3. CASE Restart
  <2>1. \A e \in Endpoints : granted'[e] \subseteq granted[e]
    BY <1>3, RestartForgets DEF Quota!Forget
  <2>2. Cooling' \in {Cooling, FALSE}
    <3>1. now' = now /\ cooldownUntil' <= cooldownUntil
      BY <1>1, <1>3 DEF Restart, Load, NoFile, FileIsOlder
    <3>2. cooldownUntil' \in Nat
      BY <1>3 DEF Restart, Load, NoFile, TypeOK
    <3>3. Cooling' => Cooling
      BY <1>1, <3>1, <3>2 DEF Cooling
    <3>4. QED
      BY <1>0, <3>3, Zenon
  <2>3. QED
    BY <2>1, <2>2, LessGranted DEF WindowsLater
<1>4. CASE \E c \in Callers, pause \in Pauses : Refused(c, pause)
  <2>1. PICK c \in Callers, pause \in Pauses : Refused(c, pause)
    BY <1>4
  <2>2. UNCHANGED <<now, window>> /\ cooldownUntil' = Later(cooldownUntil, now + pause)
    BY <2>1 DEF Refused
  <2>3. UNCHANGED Used
    BY <2>2 DEF Used, Held
  <2>4. pause \in Nat
    BY LimiterAssumption
  <2>5. Cooling' \in {Cooling, TRUE}
    <3>1. Cooling => Cooling'
      BY <1>1, <2>2, <2>4 DEF Cooling, Later
    <3>2. QED
      BY <1>0, <3>1, Zenon
  <2>6. QED
    BY <2>3, <2>5 DEF WindowsLater
<1>5. QED
  BY <1>2, <1>3, <1>4

LEMMA WindowsStep ==
  ASSUME TypeOK, RecordInv, FileIsOlder, [Next]_vars
  PROVE  \/ WindowsLater
         \/ \E e \in Endpoints :
              /\ Used[e] < MaxLimit
              /\ Used' = [Used EXCEPT ![e] = @ + 1]
              /\ UNCHANGED Cooling
<1>1. RecordInv'
  BY RecordStep
<1>2. CASE UNCHANGED <<now, window, cooldownUntil>>
  BY <1>2 DEF WindowsLater, Used, Held, Cooling
<1>3. CASE \E c \in Callers, e \in Endpoints : Admit(c, e)
  BY <1>1, <1>3, WindowsOfAdmit
<1>4. CASE Tick \/ Restart \/ (\E c \in Callers, pause \in Pauses : Refused(c, pause))
  BY <1>1, <1>4, WindowsOfOthers
<1>5. ASSUME NEW c \in Callers, WakeForQuota(c)
      PROVE  \E d \in Callers, e \in Endpoints : Admit(d, e)
  BY <1>5 DEF WakeForQuota, TypeOK
<1>6. QED
  BY <1>2, <1>3, <1>4, <1>5
  DEF Next, Caller, BackgroundCall, LiveCall, WakeFromPacer, GetImage, Answered, Cancelled, vars

\* The limiter gives the callers the windows they are promised: every step of it
\* takes a slot that is there, begins a pause, lets both grow old, or leaves them
\* alone, over restarts and changes of the limit (cv_client.py:153-190, 198-225).
THEOREM LimiterKeepsWindows == Spec => WindowsSpec
<1>1. Init => FileIsOlder
  BY DEF Init, NoFile, FileIsOlder
<1>2. Init => Windows!WindowsInit
  <2> SUFFICES ASSUME Init PROVE Windows!WindowsInit
    OBVIOUS
  <2>1. \A e \in Endpoints : Held(e) = {}
    BY DEF Init, Held, Recent
  <2>2. Cooling = FALSE
    BY LimiterAssumption DEF Init, Cooling
  <2>3. QED
    BY <2>1, <2>2, FS_EmptySet DEF Windows!WindowsInit
<1>3. TypeOK /\ RecordInv /\ FileIsOlder /\ [Next]_vars
        => [Windows!WindowsNext]_<<Used, Cooling>>
  BY WindowsStep, Zenon
  DEF WindowsLater, Windows!WindowsNext, Windows!TakeSlot, Windows!BeginPause, Windows!Pass, Used
<1>4. QED
  BY <1>1, <1>2, <1>3, FileStep, TypeCorrect, RecordCorrect, PTL
  DEF Spec, WindowsSpec, Windows!WindowsSpec, Used

=============================================================================
