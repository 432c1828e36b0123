---------------------- MODULE SettingOverrides_proofs ----------------------
(***************************************************************************)
(* Proofs about SettingOverrides for all settings, values and jobs, and    *)
(* any number of updates and restarts: what holds when updates follow one  *)
(* another, and the types, which hold however they interleave.             *)
(***************************************************************************)
EXTENDS SettingOverrides, TLAPS

\* One request at a time; two at once may leave jobs scheduled against the settings.
OneAtATime == \A u, v \in Updaters : u = v

-----------------------------------------------------------------------------
(* Overrides and what follows from them *)

AllGood(o) == o \in Overrides /\ \A n \in Names : Good(n, o[n])

LEMMA UsableGood ==
  ASSUME NEW o \in Overrides
  PROVE  AllGood(Usable(o)) /\ (AllGood(o) => Usable(o) = o)
<1>1. \A n \in Names : o[n] \in Values \cup {None}
  BY DEF Overrides
<1>2. Usable(o) = [n \in Names |-> IF Good(n, o[n]) THEN o[n] ELSE None]
  BY DEF Usable
<1>3. Usable(o) \in Overrides
  BY <1>1, <1>2 DEF Overrides
<1>4. \A n \in Names : Good(n, Usable(o)[n])
  BY <1>2 DEF Good
<1>5. AllGood(o) => Usable(o) = o
  BY <1>2 DEF AllGood, Overrides
<1>6. QED
  BY <1>3, <1>4, <1>5 DEF AllGood

-----------------------------------------------------------------------------
(* The inductive invariant *)

Pcs == {"idle", "saving", "remembering", "applying", "looking", "judging", "acting"}
Updates == [pc : Pcs, wanted : Overrides, todo : Seq(Scheduled), seen : BOOLEAN, off : BOOLEAN]

Typed ==
  /\ stored \in Overrides
  /\ AllGood(remembered)
  /\ update \in [Updaters -> Updates]
  /\ \A u \in Updaters : update[u] # Idle => update[u].pc # "idle"

\* What an update under way has done so far.
Progress(u) ==
  /\ update[u].pc # "idle" => AllGood(update[u].wanted)
  /\ update[u].pc \in {"remembering", "applying"} => stored = update[u].wanted
  /\ update[u].pc = "applying" => remembered = update[u].wanted
  /\ update[u].pc \in {"looking", "judging", "acting"} =>
       stored = update[u].wanted /\ remembered = update[u].wanted /\ current = Apply(update[u].wanted)

\* What was said of a setting follows from everything that is or will be in effect.
Told ==
  \A n \in Names : told[n] # None =>
    /\ current[n] = told[n]
    /\ Apply(remembered)[n] = told[n]
    /\ Apply(Usable(stored))[n] = told[n]
    /\ \A u \in Updaters : update[u].pc \in {"saving", "remembering", "applying"} =>
         Apply(update[u].wanted)[n] = told[n]

Coming(u) == {update[u].todo[k] : k \in 1..Len(update[u].todo)}

\* Every job that an update has behind it is scheduled as the settings say; what it
\* has seen and judged of the next one is still so.
Synced ==
  /\ Quiet => schedule = Enabled(Apply(Usable(stored)))
  /\ schedule \subseteq Scheduled
  /\ \A u \in Updaters : update[u].pc \in {"looking", "judging", "acting"} =>
       /\ \A j \in Scheduled \ Coming(u) : j \in schedule <=> j \in Enabled(current)
       /\ update[u].pc # "looking" => update[u].todo # <<>>
       /\ update[u].pc # "looking" => (update[u].seen <=> Head(update[u].todo) \in schedule)
       /\ update[u].pc = "acting" => (update[u].off <=> Off(Head(update[u].todo), current))

IInv == Typed /\ (\A u \in Updaters : Progress(u)) /\ Told /\ Synced

LEMMA IdleType == Idle \in Updates /\ Idle.pc = "idle"
  BY DEF Idle, Updates, Pcs, NoOverrides, Overrides

LEMMA IInvInit == Init => IInv
<1> SUFFICES ASSUME Init PROVE IInv
  OBVIOUS
<1>1. \A u \in Updaters : update[u] = Idle
  BY DEF Init
<1>2. Typed
  BY <1>1, IdleType, UsableGood DEF Init, Typed
<1>3. \A u \in Updaters : Progress(u)
  BY <1>1, IdleType DEF Progress
<1>4. Told
  BY <1>1, IdleType DEF Init, Told
<1>5. Synced
  BY <1>1, IdleType DEF Init, Synced, Enabled
<1>6. QED
  BY <1>2, <1>3, <1>4, <1>5 DEF IInv

\* A step of the only update.
LEMMA Moves ==
  ASSUME OneAtATime, NEW u \in Updaters, update \in [Updaters -> Updates], NEW new \in Updates,
         update' = [update EXCEPT ![u] = new]
  PROVE  /\ update' \in [Updaters -> Updates] /\ update'[u] = new
         /\ \A v \in Updaters : v = u
  BY DEF OneAtATime

-----------------------------------------------------------------------------
(* From the request to the settings in effect *)

LEMMA ChangeType ==
  ASSUME NEW changes \in Changes, NEW n \in DOMAIN changes
  PROVE  changes[n] \in Values \cup {None}
<1>1. PICK some \in SUBSET Names \ {{}} : changes \in [some -> Values \cup {None}]
  BY DEF Changes
<1>2. QED
  BY <1>1

LEMMA MergeStep ==
  ASSUME OneAtATime, IInv, NEW u \in Updaters, NEW changes \in Changes, Merge(u, changes)
  PROVE  IInv'
<1> DEFINE merged == [n \in Names |-> IF n \in DOMAIN changes THEN changes[n] ELSE remembered[n]]
           new == [Idle EXCEPT !.pc = "saving", !.wanted = merged]
<1>1. UNCHANGED <<stored, remembered, current, schedule>> /\ update[u] = Idle
  BY DEF Merge, memory
<1>2. CASE UNCHANGED <<update, told>>
  BY <1>1, <1>2 DEF IInv, Typed, Progress, Told, Synced, Quiet, Coming
<1>3. CASE /\ \A n \in Names : Good(n, merged[n])
           /\ update' = [update EXCEPT ![u] = new]
           /\ told' = [n \in Names |-> IF n \in DOMAIN changes THEN None ELSE told[n]]
  <2>1. merged \in Overrides
    BY ChangeType DEF IInv, Typed, AllGood, Overrides
  <2>2. AllGood(merged)
    BY <1>3, <2>1 DEF AllGood
  <2>3. \A n \in Names : n \notin DOMAIN changes => merged[n] = remembered[n]
    OBVIOUS
  <2> HIDE DEF merged
  <2>4. new \in Updates /\ new.pc = "saving" /\ new.wanted = merged
    BY <2>1, IdleType DEF Updates, Pcs
  <2> HIDE DEF new
  <2>5. update' \in [Updaters -> Updates] /\ update'[u] = new /\ \A v \in Updaters : v = u
    BY <1>3, <2>4, Moves DEF IInv, Typed
  <2>6. Typed'
    BY <1>1, <2>4, <2>5 DEF IInv, Typed
  <2>7. \A v \in Updaters : Progress(v)'
    BY <2>2, <2>4, <2>5 DEF Progress
  <2>8. Told'
    <3> SUFFICES ASSUME NEW n \in Names, told'[n] # None
                 PROVE  /\ current[n] = told'[n]
                        /\ Apply(remembered)[n] = told'[n]
                        /\ Apply(Usable(stored))[n] = told'[n]
                        /\ Apply(merged)[n] = told'[n]
      BY <1>1, <2>4, <2>5 DEF Told
    <3>1. told'[n] = told[n] /\ n \notin DOMAIN changes
      BY <1>3
    <3>2. Apply(merged)[n] = Apply(remembered)[n]
      BY <2>3, <3>1 DEF Apply
    <3>3. QED
      BY <3>1, <3>2 DEF IInv, Told
  <2>9. Synced'
    <3>1. ~Quiet'
      BY <2>4, <2>5, IdleType DEF Quiet
    <3>2. QED
      BY <1>1, <2>4, <2>5, <3>1 DEF IInv, Synced
  <2>10. QED
    BY <2>6, <2>7, <2>8, <2>9 DEF IInv
<1>4. QED
  BY <1>2, <1>3 DEF Merge

\* Going on changes where the update is, and nothing else of it.
LEMMA GoesOn ==
  ASSUME OneAtATime, IInv, NEW u \in Updaters, NEW pc \in Pcs, pc # "idle", Goes(u, pc)
  PROVE  /\ update' \in [Updaters -> Updates]
         /\ update'[u].pc = pc /\ update'[u].wanted = update[u].wanted
         /\ update'[u].todo = update[u].todo
         /\ \A v \in Updaters : v = u
         /\ ~Quiet'
<1> DEFINE new == [update[u] EXCEPT !.pc = pc]
<1>1. update[u] \in Updates
  BY DEF IInv, Typed
<1>2. update' = [update EXCEPT ![u] = new]
  BY DEF Goes
<1>3. new \in Updates /\ new.pc = pc /\ new.wanted = update[u].wanted /\ new.todo = update[u].todo
  BY <1>1 DEF Updates
<1> HIDE DEF new
<1>4. update' \in [Updaters -> Updates] /\ update'[u] = new /\ \A v \in Updaters : v = u
  BY <1>2, <1>3, Moves DEF IInv, Typed
<1>5. ~Quiet'
  BY <1>3, <1>4, IdleType DEF Quiet
<1>6. QED
  BY <1>3, <1>4, <1>5

LEMMA SaveStep == ASSUME OneAtATime, IInv, NEW u \in Updaters, Save(u) PROVE IInv'
<1>1. /\ update[u].pc = "saving" /\ stored' = update[u].wanted
      /\ UNCHANGED <<remembered, current, schedule, told>>
      /\ Goes(u, "remembering")
  BY DEF Save, memory
<1>2. /\ update' \in [Updaters -> Updates]
      /\ update'[u].pc = "remembering" /\ update'[u].wanted = update[u].wanted
      /\ \A v \in Updaters : v = u
      /\ ~Quiet'
  BY <1>1, GoesOn DEF Pcs
<1>3. AllGood(update[u].wanted)
  BY <1>1 DEF IInv, Progress
<1>4. Usable(stored') = update[u].wanted
  BY <1>1, <1>3, UsableGood DEF AllGood
<1>5. Typed'
  BY <1>1, <1>2, <1>3 DEF IInv, Typed, AllGood
<1>6. \A v \in Updaters : Progress(v)'
  BY <1>1, <1>2, <1>3 DEF Progress
<1>7. Told'
  BY <1>1, <1>2, <1>4 DEF IInv, Told
<1>8. Synced'
  BY <1>1, <1>2 DEF IInv, Synced
<1>9. QED
  BY <1>5, <1>6, <1>7, <1>8 DEF IInv

LEMMA RememberStep == ASSUME OneAtATime, IInv, NEW u \in Updaters, Remember(u) PROVE IInv'
<1>1. /\ update[u].pc = "remembering" /\ remembered' = update[u].wanted
      /\ UNCHANGED <<stored, current, schedule, told>>
      /\ Goes(u, "applying")
  BY DEF Remember
<1>2. /\ update' \in [Updaters -> Updates]
      /\ update'[u].pc = "applying" /\ update'[u].wanted = update[u].wanted
      /\ \A v \in Updaters : v = u
      /\ ~Quiet'
  BY <1>1, GoesOn DEF Pcs
<1>3. AllGood(update[u].wanted) /\ stored = update[u].wanted
  BY <1>1 DEF IInv, Progress
<1>4. Typed'
  BY <1>1, <1>2, <1>3 DEF IInv, Typed
<1>5. \A v \in Updaters : Progress(v)'
  BY <1>1, <1>2, <1>3 DEF Progress
<1>6. Told'
  BY <1>1, <1>2 DEF IInv, Told
<1>7. Synced'
  BY <1>1, <1>2 DEF IInv, Synced
<1>8. QED
  BY <1>4, <1>5, <1>6, <1>7 DEF IInv

LEMMA OverrideStep == ASSUME OneAtATime, IInv, NEW u \in Updaters, Override(u) PROVE IInv'
<1> DEFINE new == [update[u] EXCEPT !.pc = "looking", !.todo = Jobs]
<1>1. /\ update[u].pc = "applying" /\ current' = Apply(update[u].wanted)
      /\ UNCHANGED <<stored, remembered, schedule, told>>
      /\ update' = [update EXCEPT ![u] = new]
  BY DEF Override, IInv, Typed
<1>2. new \in Updates /\ new.pc = "looking" /\ new.wanted = update[u].wanted /\ new.todo = Jobs
  BY SettingsAssumption DEF IInv, Typed, Updates, Pcs
<1> HIDE DEF new
<1>3. update' \in [Updaters -> Updates] /\ update'[u] = new /\ \A v \in Updaters : v = u
  BY <1>1, <1>2, Moves DEF IInv, Typed
<1>4. AllGood(update[u].wanted) /\ stored = update[u].wanted /\ remembered = update[u].wanted
  BY <1>1 DEF IInv, Progress
<1>5. Typed'
  BY <1>1, <1>2, <1>3 DEF IInv, Typed
<1>6. \A v \in Updaters : Progress(v)'
  BY <1>1, <1>2, <1>3, <1>4 DEF Progress
<1>7. Told'
  BY <1>1, <1>2, <1>3 DEF IInv, Told
<1>8. Synced'
  <2>1. ~Quiet'
    BY <1>2, <1>3, IdleType DEF Quiet
  <2>2. Coming(u)' = Scheduled
    BY <1>2, <1>3 DEF Coming, Scheduled
  <2>3. QED
    BY <1>1, <1>2, <1>3, <2>1, <2>2 DEF IInv, Synced
<1>9. QED
  BY <1>5, <1>6, <1>7, <1>8 DEF IInv

-----------------------------------------------------------------------------
(* sync_schedule *)

Syncing == {"looking", "judging", "acting"}

\* A step of sync_schedule touches no setting.
LEMMA SyncKeeps ==
  ASSUME OneAtATime, IInv, NEW u \in Updaters, update[u].pc \in Syncing,
         NEW new \in Updates, new.pc \in Syncing, new.wanted = update[u].wanted,
         update' = [update EXCEPT ![u] = new],
         UNCHANGED <<stored, remembered, current, told>>
  PROVE  /\ Typed' /\ (\A v \in Updaters : Progress(v)') /\ Told'
         /\ update'[u] = new /\ (\A v \in Updaters : v = u) /\ ~Quiet'
<1>1. update' \in [Updaters -> Updates] /\ update'[u] = new /\ \A v \in Updaters : v = u
  BY Moves DEF IInv, Typed
<1>2. new.pc # "idle" /\ update[u].pc # "idle"
  BY DEF Syncing
<1>3. Typed'
  BY <1>1, <1>2 DEF IInv, Typed
<1>4. \A v \in Updaters : Progress(v)'
  BY <1>1 DEF IInv, Progress, Syncing
<1>5. Told'
  BY <1>1 DEF IInv, Told, Syncing
<1>6. ~Quiet'
  BY <1>1, <1>2, IdleType DEF Quiet
<1>7. QED
  BY <1>1, <1>3, <1>4, <1>5, <1>6

\* The next job, and what is left after it.
LEMMA HeadTail ==
  ASSUME NEW s \in Seq(Scheduled), s # <<>>
  PROVE  /\ Head(s) \in Scheduled /\ Tail(s) \in Seq(Scheduled)
         /\ \A k \in 1..Len(s) : s[k] = Head(s) \/ \E l \in 1..Len(Tail(s)) : s[k] = Tail(s)[l]
<1>1. Head(s) \in Scheduled /\ Tail(s) \in Seq(Scheduled) /\ Len(s) \in Nat /\ Len(Tail(s)) = Len(s) - 1
  OBVIOUS
<1>2. ASSUME NEW k \in 1..Len(s), k # 1 PROVE \E l \in 1..Len(Tail(s)) : s[k] = Tail(s)[l]
  <2>1. k - 1 \in 1..Len(Tail(s)) /\ s[k] = Tail(s)[k - 1]
    BY <1>1, <1>2
  <2>2. QED
    BY <2>1
<1>3. s[1] = Head(s)
  OBVIOUS
<1>4. QED
  BY <1>1, <1>2, <1>3

LEMMA LookStep == ASSUME OneAtATime, IInv, NEW u \in Updaters, Look(u) PROVE IInv'
<1> DEFINE sees == Head(update[u].todo) \in schedule
           new == [update[u] EXCEPT !.pc = "judging", !.seen = sees]
<1>1. /\ update[u].pc = "looking" /\ update[u].todo # <<>>
      /\ update' = [update EXCEPT ![u] = new]
      /\ UNCHANGED <<stored, remembered, current, schedule, told>>
  BY DEF Look, IInv, Typed, memory
<1>2. sees \in BOOLEAN
  OBVIOUS
<1>3. sees <=> Head(update[u].todo) \in schedule
  OBVIOUS
<1> HIDE DEF sees
<1>4. /\ new \in Updates /\ new.pc = "judging" /\ new.wanted = update[u].wanted
      /\ new.todo = update[u].todo /\ (new.seen <=> sees)
  BY <1>2 DEF IInv, Typed, Updates, Pcs
<1> HIDE DEF new
<1>5. /\ Typed' /\ (\A v \in Updaters : Progress(v)') /\ Told'
      /\ update'[u] = new /\ (\A v \in Updaters : v = u) /\ ~Quiet'
  BY <1>1, <1>4, SyncKeeps DEF Syncing
<1>6. Coming(u)' = Coming(u)
  BY <1>4, <1>5 DEF Coming
<1>7. Synced'
  BY <1>1, <1>3, <1>4, <1>5, <1>6 DEF IInv, Synced
<1>8. QED
  BY <1>5, <1>7 DEF IInv

LEMMA JudgeStep == ASSUME OneAtATime, IInv, NEW u \in Updaters, Judge(u) PROVE IInv'
<1> DEFINE off == Off(Head(update[u].todo), current)
           new == [update[u] EXCEPT !.pc = "acting", !.off = off]
<1>1. /\ update[u].pc = "judging"
      /\ update' = [update EXCEPT ![u] = new]
      /\ UNCHANGED <<stored, remembered, current, schedule, told>>
  BY DEF Judge, IInv, Typed, memory
<1>2. off \in BOOLEAN
  BY DEF Off
<1>3. /\ new \in Updates /\ new.pc = "acting" /\ new.wanted = update[u].wanted
      /\ new.todo = update[u].todo /\ (new.seen <=> update[u].seen) /\ (new.off <=> off)
  BY <1>2 DEF IInv, Typed, Updates, Pcs
<1> HIDE DEF new
<1>4. /\ Typed' /\ (\A v \in Updaters : Progress(v)') /\ Told'
      /\ update'[u] = new /\ (\A v \in Updaters : v = u) /\ ~Quiet'
  BY <1>1, <1>3, SyncKeeps DEF Syncing
<1>5. Coming(u)' = Coming(u)
  BY <1>3, <1>4 DEF Coming
<1>6. Synced'
  <2>1. /\ \A j \in Scheduled \ Coming(u) : j \in schedule <=> j \in Enabled(current)
        /\ update[u].todo # <<>>
        /\ update[u].seen <=> Head(update[u].todo) \in schedule
        /\ schedule \subseteq Scheduled
    BY <1>1 DEF IInv, Synced
  <2>2. QED
    BY <1>1, <1>3, <1>4, <1>5, <2>1 DEF Synced
<1>7. QED
  BY <1>4, <1>6 DEF IInv

LEMMA ActStep == ASSUME OneAtATime, IInv, NEW u \in Updaters, Act(u) PROVE IInv'
<1> DEFINE j == Head(update[u].todo)
           new == [update[u] EXCEPT !.pc = "looking", !.todo = Tail(update[u].todo),
                                    !.seen = FALSE, !.off = FALSE]
<1>1. /\ update[u].pc = "acting"
      /\ UNCHANGED <<stored, remembered, current, told>>
  BY DEF Act
<1>2. /\ update[u].todo # <<>> /\ schedule \subseteq Scheduled
      /\ update[u].seen <=> j \in schedule
      /\ update[u].off <=> Off(j, current)
      /\ \A i \in Scheduled \ Coming(u) : i \in schedule <=> i \in Enabled(current)
  BY <1>1 DEF IInv, Synced
<1>3. /\ j \in Scheduled /\ Tail(update[u].todo) \in Seq(Scheduled)
      /\ \A k \in 1..Len(update[u].todo) :
           \/ update[u].todo[k] = j
           \/ \E l \in 1..Len(Tail(update[u].todo)) : update[u].todo[k] = Tail(update[u].todo)[l]
  BY <1>2, HeadTail DEF IInv, Typed, Updates
<1>4. /\ NextJob(u)
      /\ schedule' = IF Off(j, current) THEN schedule \ {j} ELSE schedule \cup {j}
  <2>1. CASE update[u].off /\ update[u].seen
    BY <1>2, <2>1 DEF Act
  <2>2. CASE ~(update[u].off /\ update[u].seen)
    BY <1>2, <2>2 DEF Act
  <2>3. QED
    BY <2>1, <2>2
<1>5. update' = [update EXCEPT ![u] = new]
  BY <1>4 DEF NextJob, IInv, Typed
<1>6. /\ new \in Updates /\ new.pc = "looking" /\ new.wanted = update[u].wanted
      /\ new.todo = Tail(update[u].todo)
  BY <1>3 DEF IInv, Typed, Updates, Pcs
<1> HIDE DEF new
<1>7. /\ Typed' /\ (\A v \in Updaters : Progress(v)') /\ Told'
      /\ update'[u] = new /\ (\A v \in Updaters : v = u) /\ ~Quiet'
  BY <1>1, <1>5, <1>6, SyncKeeps DEF Syncing
<1>8. \A i \in Scheduled \ Coming(u)' : i = j \/ i \in Scheduled \ Coming(u)
  BY <1>3, <1>6, <1>7 DEF Coming
<1>9. j \in schedule' <=> j \in Enabled(current)
  BY <1>3, <1>4 DEF Enabled
<1>10. \A i \in Scheduled : i # j => (i \in schedule' <=> i \in schedule)
  BY <1>4
<1>11. \A i \in Scheduled \ Coming(u)' : i \in schedule' <=> i \in Enabled(current)
  BY <1>2, <1>8, <1>9, <1>10
<1>12. schedule' \subseteq Scheduled
  BY <1>2, <1>3, <1>4
<1>13. Synced'
  BY <1>1, <1>6, <1>7, <1>11, <1>12 DEF Synced
<1>14. QED
  BY <1>7, <1>13 DEF IInv

-----------------------------------------------------------------------------
(* The answer, and a restart *)

LEMMA AnswerStep == ASSUME OneAtATime, IInv, NEW u \in Updaters, Answer(u) PROVE IInv'
<1>1. /\ update[u].pc = "looking" /\ update[u].todo = <<>> /\ told' = current
      /\ update' = [update EXCEPT ![u] = Idle]
      /\ UNCHANGED <<stored, remembered, current, schedule>>
  BY DEF Answer, memory
<1>2. update' \in [Updaters -> Updates] /\ update'[u] = Idle /\ \A v \in Updaters : v = u
  BY <1>1, IdleType, Moves DEF IInv, Typed
<1>3. /\ AllGood(update[u].wanted) /\ stored = update[u].wanted /\ remembered = update[u].wanted
      /\ current = Apply(update[u].wanted)
  BY <1>1 DEF IInv, Progress
<1>4. Usable(stored) = stored
  BY <1>3, UsableGood DEF AllGood
<1>5. Typed'
  BY <1>1, <1>2, IdleType DEF IInv, Typed
<1>6. \A v \in Updaters : Progress(v)'
  BY <1>2, IdleType DEF Progress
<1>7. Told'
  BY <1>1, <1>2, <1>3, <1>4, IdleType DEF Told
<1>8. Synced'
  <2>1. Coming(u) = {}
    BY <1>1 DEF Coming
  <2>2. schedule = Enabled(current)
    BY <1>1, <2>1 DEF IInv, Synced, Enabled
  <2>3. QED
    BY <1>1, <1>2, <1>3, <1>4, <2>2, IdleType DEF IInv, Synced
<1>9. QED
  BY <1>5, <1>6, <1>7, <1>8 DEF IInv

LEMMA RestartStep == IInv /\ Restart => IInv'
<1> SUFFICES ASSUME IInv, Restart PROVE IInv'
  OBVIOUS
<1>1. /\ \A u \in Updaters : update'[u] = Idle
      /\ update' = [u \in Updaters |-> Idle]
      /\ stored' = stored /\ told' = told
      /\ remembered' = Usable(stored) /\ current' = Apply(Usable(stored))
      /\ schedule' = Enabled(Apply(Usable(stored)))
  BY DEF Restart, Start
<1>2. Typed'
  BY <1>1, IdleType, UsableGood DEF IInv, Typed
<1>3. \A u \in Updaters : Progress(u)'
  BY <1>1, IdleType DEF Progress
<1>4. Told'
  BY <1>1, IdleType DEF IInv, Told
<1>5. Synced'
  BY <1>1, IdleType DEF Synced, Enabled
<1>6. QED
  BY <1>2, <1>3, <1>4, <1>5 DEF IInv

LEMMA IInvStep == ASSUME OneAtATime PROVE IInv /\ [Next]_vars => IInv'
<1> SUFFICES ASSUME IInv, [Next]_vars PROVE IInv'
  OBVIOUS
<1>1. CASE UNCHANGED vars
  BY <1>1 DEF vars, memory, IInv, Typed, Progress, Told, Synced, Quiet, Coming
<1>2. QED
  BY <1>1, MergeStep, SaveStep, RememberStep, OverrideStep, LookStep, JudgeStep, ActStep,
     AnswerStep, RestartStep DEF Next

-----------------------------------------------------------------------------
(* What it means *)

LEMMA Meaning == IInv => AnswersHold /\ ScheduleFollowsFile
  BY DEF IInv, Told, Synced, AnswersHold, ScheduleFollowsFile

\* With one update at a time, what an answer said of a setting stays in effect until
\* an update of it is accepted, through restarts at any point (app.py:529-538).
THEOREM AnswersStay == ASSUME OneAtATime PROVE Spec => []AnswersHold
  BY IInvInit, IInvStep, Meaning, PTL DEF Spec

\* With one update at a time, the scheduled jobs are between updates those that the
\* stored overrides leave enabled; no removal ever meets a job already gone
\* (overrides.py:86, jobs.py:599-626).
THEOREM ScheduleCorrect == ASSUME OneAtATime PROVE Spec => []ScheduleFollowsFile
  BY IInvInit, IInvStep, Meaning, PTL DEF Spec

-----------------------------------------------------------------------------
(* Type correctness, however many updates there are at once *)

UpdateTypes ==
  [pc : Pcs, wanted : Overrides, todo : Todo \cup {<<>>}, seen : BOOLEAN, off : BOOLEAN]

\* TypeOK, with the names of this module.
Types ==
  /\ stored \in Overrides /\ AllGood(remembered)
  /\ current \in [Names -> Int] /\ schedule \subseteq Scheduled
  /\ update \in [Updaters -> UpdateTypes]
  /\ updates \in 0..MaxUpdates /\ crashes \in 0..MaxCrashes
  /\ told \in [Names -> Int \cup {None}]

\* What is under way passed the check, and judges and acts on a job there is.
Checked(u) ==
  /\ update[u].pc # "idle" => AllGood(update[u].wanted)
  /\ update[u].pc \in {"judging", "acting"} => update[u].todo # <<>>

TInv == Types /\ \A u \in Updaters : Checked(u)

\* The jobs left to look at.
LEMMA TodoLeft ==
  ASSUME NEW s \in Todo \cup {<<>>}
  PROVE  s # <<>> => Head(s) \in Scheduled /\ Tail(s) \in Todo
<1> SUFFICES ASSUME s # <<>> PROVE Head(s) \in Scheduled /\ Tail(s) \in Todo
  OBVIOUS
<1>1. Jobs \in Seq(Scheduled) /\ Len(Jobs) \in Nat
  BY SettingsAssumption
<1>2. PICK k \in 1..(Len(Jobs) + 1) : s = SubSeq(Jobs, k, Len(Jobs))
  BY DEF Todo
<1>3. k \in 1..Len(Jobs)
  BY <1>1, <1>2
<1>4. Head(s) = Jobs[k] /\ Jobs[k] \in Scheduled
  BY <1>1, <1>2, <1>3
<1>5. Tail(s) = SubSeq(Jobs, k + 1, Len(Jobs)) /\ k + 1 \in 1..(Len(Jobs) + 1)
  BY <1>1, <1>2, <1>3
<1>6. QED
  BY <1>4, <1>5 DEF Todo

LEMMA AllTodo == Jobs \in Todo
<1>1. Jobs \in Seq(Scheduled) /\ Len(Jobs) \in Nat
  BY SettingsAssumption
<1>2. SubSeq(Jobs, 1, Len(Jobs)) = Jobs /\ 1 \in 1..(Len(Jobs) + 1)
  BY <1>1
<1>3. QED
  BY <1>2 DEF Todo

LEMMA ApplyType == ASSUME NEW o \in Overrides PROVE Apply(o) \in [Names -> Int]
  BY SettingsAssumption DEF Overrides, Apply

LEMMA IdleTypes == Idle \in UpdateTypes /\ Idle.pc = "idle"
  BY DEF Idle, UpdateTypes, Pcs, NoOverrides, Overrides

\* What a process starts with, the first one or after a crash.
LEMMA StartTypes ==
  AllGood(Usable(stored)) => Apply(Usable(stored)) \in [Names -> Int]
  BY ApplyType DEF AllGood

LEMMA TInvInit == Init => TInv
<1> SUFFICES ASSUME Init PROVE TInv
  OBVIOUS
<1>1. AllGood(remembered) /\ current \in [Names -> Int] /\ told = current
  BY UsableGood, StartTypes DEF Init
<1>2. schedule \subseteq Scheduled
  BY DEF Init, Enabled
<1>3. update \in [Updaters -> UpdateTypes] /\ \A u \in Updaters : Checked(u)
  BY IdleTypes DEF Init, Checked
<1>4. updates \in 0..MaxUpdates /\ crashes \in 0..MaxCrashes
  BY SettingsAssumption DEF Init
<1>5. QED
  BY <1>1, <1>2, <1>3, <1>4 DEF Types, TInv, Init

\* A step that only takes one update on.
LEMMA TypesMove ==
  ASSUME TInv, NEW u \in Updaters, NEW new \in UpdateTypes,
         new.pc # "idle" => AllGood(new.wanted),
         new.pc \in {"judging", "acting"} => new.todo # <<>>,
         update' = [update EXCEPT ![u] = new]
  PROVE  update' \in [Updaters -> UpdateTypes] /\ \A v \in Updaters : Checked(v)'
<1>1. update \in [Updaters -> UpdateTypes] /\ \A v \in Updaters : Checked(v)
  BY DEF Types, TInv
<1>2. \A v \in Updaters : update'[v] = IF v = u THEN new ELSE update[v]
  BY <1>1
<1>3. QED
  BY <1>1, <1>2 DEF Checked

\* What every step starts from.
LEMMA Before ==
  ASSUME TInv, NEW u \in Updaters
  PROVE  /\ stored \in Overrides /\ AllGood(remembered)
         /\ current \in [Names -> Int] /\ schedule \subseteq Scheduled
         /\ updates \in 0..MaxUpdates /\ crashes \in 0..MaxCrashes
         /\ told \in [Names -> Int \cup {None}]
         /\ update \in [Updaters -> UpdateTypes] /\ update[u] \in UpdateTypes
         /\ update[u].todo \in Todo \cup {<<>>}
         /\ update[u].pc # "idle" => AllGood(update[u].wanted)
         /\ update[u].pc \in {"judging", "acting"} => update[u].todo # <<>>
<1>1. update \in [Updaters -> UpdateTypes] /\ Checked(u)
  BY DEF Types, TInv
<1>2. update[u] \in UpdateTypes
  BY <1>1
<1>3. update[u].todo \in Todo \cup {<<>>}
  BY <1>2 DEF UpdateTypes
<1>4. QED
  BY <1>1, <1>2, <1>3 DEF Types, TInv, Checked

LEMMA TypesMerge ==
  ASSUME TInv, NEW u \in Updaters, NEW changes \in Changes, Merge(u, changes) PROVE TInv'
<1> DEFINE merged == [n \in Names |-> IF n \in DOMAIN changes THEN changes[n] ELSE remembered[n]]
           new == [Idle EXCEPT !.pc = "saving", !.wanted = merged]
<1>1. /\ updates < MaxUpdates /\ updates' = updates + 1
      /\ UNCHANGED <<stored, remembered, current, schedule, crashes>>
  BY DEF Merge, memory
<1>2. updates' \in 0..MaxUpdates
  BY <1>1, Before, SettingsAssumption
<1>3. CASE UNCHANGED <<update, told>>
  BY <1>1, <1>2, <1>3, Before DEF Types, TInv, Checked
<1>4. CASE /\ \A n \in Names : Good(n, merged[n])
           /\ update' = [update EXCEPT ![u] = new]
           /\ told' = [n \in Names |-> IF n \in DOMAIN changes THEN None ELSE told[n]]
  <2>1. merged \in Overrides
    BY Before, ChangeType DEF AllGood, Overrides
  <2>2. AllGood(merged)
    BY <1>4, <2>1 DEF AllGood
  <2> HIDE DEF merged
  <2>3. new \in UpdateTypes /\ new.pc = "saving" /\ new.wanted = merged
    BY <2>1, IdleTypes DEF UpdateTypes, Pcs
  <2> HIDE DEF new
  <2>4. update' \in [Updaters -> UpdateTypes] /\ \A v \in Updaters : Checked(v)'
    BY <1>4, <2>2, <2>3, TypesMove
  <2>5. told' \in [Names -> Int \cup {None}]
    BY <1>4, Before
  <2>6. QED
    BY <1>1, <1>2, <2>4, <2>5, Before DEF Types, TInv
<1>5. QED
  BY <1>3, <1>4 DEF Merge

\* Going on changes where the update is, and nothing else of it.
LEMMA TypesGo ==
  ASSUME TInv, NEW u \in Updaters, NEW pc \in {"remembering", "applying"}, update[u].pc # "idle", Goes(u, pc)
  PROVE  update' \in [Updaters -> UpdateTypes] /\ \A v \in Updaters : Checked(v)'
<1> DEFINE new == [update[u] EXCEPT !.pc = pc]
<1>1. update' = [update EXCEPT ![u] = new]
  BY Before DEF Goes
<1>2. new \in UpdateTypes /\ new.pc = pc /\ new.wanted = update[u].wanted
  BY Before DEF UpdateTypes, Pcs
<1> HIDE DEF new
<1>3. QED
  BY <1>1, <1>2, Before, TypesMove

LEMMA TypesStore == ASSUME TInv, NEW u \in Updaters, Save(u) \/ Remember(u) PROVE TInv'
<1>1. AllGood(update[u].wanted)
  BY Before DEF Save, Remember
<1>2. update' \in [Updaters -> UpdateTypes] /\ \A v \in Updaters : Checked(v)'
  BY TypesGo DEF Save, Remember
<1>3. stored' \in Overrides /\ AllGood(remembered')
  BY <1>1, Before DEF Save, Remember, memory, AllGood
<1>4. UNCHANGED <<current, schedule, updates, crashes, told>>
  BY DEF Save, Remember, memory
<1>5. Types'
  BY <1>2, <1>3, <1>4, Before DEF Types
<1>6. QED
  BY <1>2, <1>5 DEF TInv

LEMMA TypesOverride == ASSUME TInv, NEW u \in Updaters, Override(u) PROVE TInv'
<1> DEFINE new == [update[u] EXCEPT !.pc = "looking", !.todo = Jobs]
<1>1. /\ update[u].pc = "applying" /\ current' = Apply(update[u].wanted)
      /\ update' = [update EXCEPT ![u] = new]
      /\ UNCHANGED <<stored, remembered, schedule, updates, crashes, told>>
  BY Before DEF Override
<1>2. new \in UpdateTypes /\ new.pc = "looking" /\ new.wanted = update[u].wanted
  BY Before, AllTodo DEF UpdateTypes, Pcs
<1> HIDE DEF new
<1>3. update' \in [Updaters -> UpdateTypes] /\ \A v \in Updaters : Checked(v)'
  BY <1>1, <1>2, Before, TypesMove
<1>4. current' \in [Names -> Int]
  BY <1>1, Before, ApplyType DEF AllGood
<1>5. QED
  BY <1>1, <1>3, <1>4, Before DEF Types, TInv

\* What a step of sync_schedule may do: the settings are left alone.
LEMMA TypesSync ==
  ASSUME TInv, NEW u \in Updaters, NEW new \in UpdateTypes, update[u].pc # "idle",
         new.wanted = update[u].wanted,
         new.pc \in {"judging", "acting"} => new.todo # <<>>,
         update' = [update EXCEPT ![u] = new],
         schedule' \subseteq Scheduled,
         UNCHANGED <<stored, remembered, current, updates, crashes, told>>
  PROVE  TInv'
<1>1. update' \in [Updaters -> UpdateTypes] /\ \A v \in Updaters : Checked(v)'
  BY Before, TypesMove
<1>2. QED
  BY <1>1, Before DEF Types, TInv

LEMMA TypesLook == ASSUME TInv, NEW u \in Updaters, Look(u) \/ Judge(u) PROVE TInv'
<1>1. CASE Look(u)
  <2> DEFINE sees == Head(update[u].todo) \in schedule
             new == [update[u] EXCEPT !.pc = "judging", !.seen = sees]
  <2>1. /\ update[u].pc = "looking" /\ update[u].todo # <<>>
        /\ update' = [update EXCEPT ![u] = new]
        /\ UNCHANGED <<stored, remembered, current, schedule, updates, crashes, told>>
    BY <1>1, Before DEF Look, memory
  <2>2. sees \in BOOLEAN
    OBVIOUS
  <2> HIDE DEF sees
  <2>3. new \in UpdateTypes /\ new.wanted = update[u].wanted /\ new.todo = update[u].todo
    BY <2>2, Before DEF UpdateTypes, Pcs
  <2> HIDE DEF new
  <2>4. QED
    BY <2>1, <2>3, Before, TypesSync
<1>2. CASE Judge(u)
  <2> DEFINE turnedOff == Off(Head(update[u].todo), current)
             new == [update[u] EXCEPT !.pc = "acting", !.off = turnedOff]
  <2>1. /\ update[u].pc = "judging"
        /\ update' = [update EXCEPT ![u] = new]
        /\ UNCHANGED <<stored, remembered, current, schedule, updates, crashes, told>>
    BY <1>2, Before DEF Judge, memory
  <2>2. turnedOff \in BOOLEAN
    BY DEF Off
  <2> HIDE DEF turnedOff
  <2>3. new \in UpdateTypes /\ new.wanted = update[u].wanted /\ new.todo = update[u].todo
    BY <2>2, Before DEF UpdateTypes, Pcs
  <2> HIDE DEF new
  <2>4. QED
    BY <2>1, <2>3, Before, TypesSync
<1>3. QED
  BY <1>1, <1>2

LEMMA TypesAct == ASSUME TInv, NEW u \in Updaters, Act(u) PROVE TInv'
<1> DEFINE new == [update[u] EXCEPT !.pc = "looking", !.todo = Tail(@), !.seen = FALSE, !.off = FALSE]
<1>1. /\ update[u].pc = "acting"
      /\ UNCHANGED <<stored, remembered, current, updates, crashes, told>>
      /\ NextJob(u) \/ update' = [update EXCEPT ![u] = Idle]
      /\ schedule' \subseteq schedule \cup {Head(update[u].todo)}
  BY DEF Act
<1>2. Head(update[u].todo) \in Scheduled /\ Tail(update[u].todo) \in Todo
  BY <1>1, Before, TodoLeft
<1>3. schedule' \subseteq Scheduled
  BY <1>1, <1>2, Before
<1>4. CASE NextJob(u)
  <2>1. update' = [update EXCEPT ![u] = new]
    BY <1>4, Before DEF NextJob
  <2>2. new \in UpdateTypes /\ new.pc = "looking" /\ new.wanted = update[u].wanted
    BY <1>2, Before DEF UpdateTypes, Pcs
  <2> HIDE DEF new
  <2>3. QED
    BY <1>1, <1>3, <2>1, <2>2, TypesSync
<1>5. CASE update' = [update EXCEPT ![u] = Idle]
  <2>1. update' \in [Updaters -> UpdateTypes] /\ \A v \in Updaters : Checked(v)'
    BY <1>5, IdleTypes, TypesMove
  <2>2. QED
    BY <1>1, <1>3, <2>1, Before DEF Types, TInv
<1>6. QED
  BY <1>1, <1>4, <1>5

LEMMA TypesAnswer == ASSUME TInv, NEW u \in Updaters, Answer(u) PROVE TInv'
<1>1. /\ told' = current /\ update' = [update EXCEPT ![u] = Idle]
      /\ UNCHANGED <<stored, remembered, current, schedule, updates, crashes>>
  BY DEF Answer, memory
<1>2. update' \in [Updaters -> UpdateTypes] /\ \A v \in Updaters : Checked(v)'
  BY <1>1, IdleTypes, TypesMove
<1>3. told' \in [Names -> Int \cup {None}]
  BY <1>1, Before
<1>4. QED
  BY <1>1, <1>2, <1>3, Before DEF Types, TInv

LEMMA TypesRestart == TInv /\ Restart => TInv'
<1> SUFFICES ASSUME TInv, Restart PROVE TInv'
  OBVIOUS
<1>1. /\ crashes < MaxCrashes /\ crashes' = crashes + 1
      /\ update' = [u \in Updaters |-> Idle]
      /\ stored' = stored /\ told' = told /\ updates' = updates
      /\ remembered' = Usable(stored) /\ current' = Apply(Usable(stored))
      /\ schedule' = Enabled(Apply(Usable(stored)))
  BY DEF Restart, Start
<1>2. stored \in Overrides /\ crashes \in 0..MaxCrashes
  BY DEF Types, TInv
<1>3. AllGood(remembered') /\ current' \in [Names -> Int]
  BY <1>1, <1>2, UsableGood, StartTypes
<1>4. schedule' \subseteq Scheduled
  BY <1>1 DEF Enabled
<1>5. crashes' \in 0..MaxCrashes
  BY <1>1, <1>2, SettingsAssumption
<1>6. update' \in [Updaters -> UpdateTypes] /\ \A u \in Updaters : Checked(u)'
  BY <1>1, IdleTypes DEF Checked
<1>7. QED
  BY <1>1, <1>3, <1>4, <1>5, <1>6 DEF Types, TInv

LEMMA TInvStep == TInv /\ [Next]_vars => TInv'
<1> SUFFICES ASSUME TInv, [Next]_vars PROVE TInv'
  OBVIOUS
<1>1. CASE UNCHANGED vars
  BY <1>1 DEF Types, vars, memory, TInv, Checked
<1>2. QED
  BY <1>1, TypesMerge, TypesStore, TypesOverride, TypesLook, TypesAct, TypesAnswer, TypesRestart DEF Next

\* Every variable keeps its type, with any number of updates at once: what the
\* process remembers is always fit to be applied, and only registered jobs that have
\* a trigger are ever scheduled (overrides.py:60-86, jobs.py:599-626).
THEOREM TypeCorrect == Spec => []TypeOK
<1>1. TInv => TypeOK
  BY DEF TInv, Types, TypeOK, AllGood, UpdateTypes, Pcs
<1>2. QED
  BY <1>1, TInvInit, TInvStep, PTL DEF Spec

=============================================================================
