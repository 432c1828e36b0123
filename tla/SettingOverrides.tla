------------------------- MODULE SettingOverrides -------------------------
(***************************************************************************)
(* Settings edited on the dashboard (overrides.py, the PUT handler in      *)
(* app.py): what is stored in jobs.db, what the process remembers, the     *)
(* settings in effect, and the jobs that sync_schedule keeps scheduled.    *)
(*                                                                         *)
(* The handler is a def endpoint: FastAPI runs each update on a thread of  *)
(* its pool, and nothing but the store has a lock.  Every access to what   *)
(* updates share is a step.                                                *)
(***************************************************************************)
EXTENDS Integers, Sequences

CONSTANTS
  Updaters,   \* requests to PUT /admin/settings in progress at once
  Names,      \* names of settings, as stored or sent
  Editable,   \* the names in EDITABLE
  Minimum,    \* name -> Editable.minimum
  Values,     \* whole numbers a client may send
  Base,       \* name -> value from environment or default
  None,       \* no override
  Jobs,       \* the specs that have a trigger, in the order of registration
  OffAtZero,  \* the jobs a setting turns off (_no_backups, _no_covers)
  SwitchOf,   \* job -> that setting
  MaxUpdates, \* bound: updates
  MaxCrashes  \* bound: restarts

Scheduled == {Jobs[k] : k \in 1..Len(Jobs)}

ASSUME SettingsAssumption ==
  /\ Editable \subseteq Names
  /\ Values \subseteq Int /\ None \notin Values
  /\ Minimum \in [Names -> Nat]
  /\ Base \in [Names -> Int]
  /\ Jobs \in Seq(Scheduled)
  /\ OffAtZero \subseteq Scheduled /\ SwitchOf \in [OffAtZero -> Names]
  /\ {MaxUpdates, MaxCrashes} \subseteq Nat

VARIABLES
  stored,     \* the setting_overrides table
  remembered, \* app.state.setting_overrides
  current,    \* get_settings()
  schedule,   \* jobs APScheduler holds
  update,     \* updater -> where its request is
  updates,
  crashes,
  told        \* history: name -> what the last answer said it is, unless changed since

memory == <<remembered, current, schedule>>
vars == <<stored, memory, update, updates, crashes, told>>

Overrides == [Names -> Values \cup {None}]
NoOverrides == [n \in Names |-> None]
Idle == [pc |-> "idle", wanted |-> NoOverrides, todo |-> <<>>, seen |-> FALSE, off |-> FALSE]

\* _check
Good(n, v) == v = None \/ (n \in Editable /\ v >= Minimum[n])

\* usable_overrides: bad entries of an older version are dropped.
Usable(o) == [n \in Names |-> IF Good(n, o[n]) THEN o[n] ELSE None]

\* apply_overrides, once every entry is checked
Apply(o) == [n \in Names |-> IF o[n] = None THEN Base[n] ELSE o[n]]

\* disabled_reason
Off(j, settings) == j \in OffAtZero /\ settings[SwitchOf[j]] <= 0
Enabled(settings) == {j \in Scheduled : ~Off(j, settings)}

\* _load_overrides, then create_scheduler: what a process starts with.
Start(o) ==
  /\ remembered' = Usable(o)
  /\ current' = Apply(Usable(o))
  /\ schedule' = Enabled(Apply(Usable(o)))

Init ==
  /\ stored \in Overrides
  /\ remembered = Usable(stored)
  /\ current = Apply(remembered)
  /\ schedule = Enabled(current)
  /\ update = [u \in Updaters |-> Idle]
  /\ updates = 0 /\ crashes = 0
  /\ told = current

Goes(u, pc) == update' = [update EXCEPT ![u].pc = pc]

-----------------------------------------------------------------------------
(* admin_settings_update *)

\* Reads app.state, merges the changes (null takes an override away), checks
\* every entry of the result: 422, or on to saving.
Merge(u, changes) ==
  /\ update[u] = Idle
  /\ updates < MaxUpdates
  /\ updates' = updates + 1
  /\ LET merged == [n \in Names |-> IF n \in DOMAIN changes THEN changes[n] ELSE remembered[n]]
     IN  IF \A n \in Names : Good(n, merged[n])
         THEN /\ update' = [update EXCEPT ![u] = [Idle EXCEPT !.pc = "saving", !.wanted = merged]]
              /\ told' = [n \in Names |-> IF n \in DOMAIN changes THEN None ELSE told[n]]
         ELSE UNCHANGED <<update, told>>
  /\ UNCHANGED <<stored, memory, crashes>>

SaveOver(u) ==
  /\ update[u].pc = "saving"
  /\ stored' = [n \in Names |-> IF update[u].wanted[n] = None THEN stored[n] ELSE update[u].wanted[n]]
  /\ Goes(u, "remembering")
  /\ UNCHANGED <<memory, updates, crashes, told>>

\* OverrideStore.save: one transaction replaces the table.
Save(u) ==
  /\ update[u].pc = "saving"
  /\ stored' = update[u].wanted
  /\ Goes(u, "remembering")
  /\ UNCHANGED <<memory, updates, crashes, told>>

Remember(u) ==
  /\ update[u].pc = "remembering"
  /\ remembered' = update[u].wanted
  /\ Goes(u, "applying")
  /\ UNCHANGED <<stored, current, schedule, updates, crashes, told>>

\* override_settings
Override(u) ==
  /\ update[u].pc = "applying"
  /\ current' = Apply(update[u].wanted)
  /\ update' = [update EXCEPT ![u].pc = "looking", ![u].todo = Jobs]
  /\ UNCHANGED <<stored, remembered, schedule, updates, crashes, told>>

-----------------------------------------------------------------------------
(* sync_schedule, job by job: look the job up, judge it, add or remove it *)

Look(u) ==
  /\ update[u].pc = "looking"
  /\ update[u].todo # <<>>
  /\ update' = [update EXCEPT ![u].pc = "judging",
                              ![u].seen = Head(update[u].todo) \in schedule]
  /\ UNCHANGED <<stored, memory, updates, crashes, told>>

Judge(u) ==
  /\ update[u].pc = "judging"
  /\ update' = [update EXCEPT ![u].pc = "acting",
                              ![u].off = Off(Head(update[u].todo), current)]
  /\ UNCHANGED <<stored, memory, updates, crashes, told>>

NextJob(u) == update' = [update EXCEPT ![u].pc = "looking", ![u].todo = Tail(@),
                                       ![u].seen = FALSE, ![u].off = FALSE]

AddOnly(u) ==
  /\ update[u].pc = "acting"
  /\ schedule' = IF update[u].off THEN schedule ELSE schedule \cup {Head(update[u].todo)}
  /\ NextJob(u)
  /\ UNCHANGED <<stored, remembered, current, updates, crashes, told>>

\* Removing a job that another update removed raises JobLookupError: a 500, and
\* the rest of the jobs are not looked at.
Act(u) ==
  /\ update[u].pc = "acting"
  /\ LET j == Head(update[u].todo)
     IN  \/ /\ update[u].off = ~update[u].seen
            /\ UNCHANGED schedule
            /\ NextJob(u)
         \/ /\ ~update[u].off /\ ~update[u].seen
            /\ schedule' = schedule \cup {j}
            /\ NextJob(u)
         \/ /\ update[u].off /\ update[u].seen
            /\ schedule' = schedule \ {j}
            /\ IF j \in schedule THEN NextJob(u) ELSE update' = [update EXCEPT ![u] = Idle]
  /\ UNCHANGED <<stored, remembered, current, updates, crashes, told>>

\* The answer, with every setting's value (describe_settings).
Answer(u) ==
  /\ update[u].pc = "looking"
  /\ update[u].todo = <<>>
  /\ told' = current
  /\ update' = [update EXCEPT ![u] = Idle]
  /\ UNCHANGED <<stored, memory, updates, crashes>>

\* The process dies and a new one starts.
Restart ==
  /\ crashes < MaxCrashes
  /\ crashes' = crashes + 1
  /\ update' = [u \in Updaters |-> Idle]
  /\ Start(stored)
  /\ UNCHANGED <<stored, updates, told>>

Changes == UNION {[some -> Values \cup {None}] : some \in SUBSET Names \ {{}}}

Next ==
  \/ \E u \in Updaters :
       \/ \E changes \in Changes : Merge(u, changes)
       \/ Save(u) \/ Remember(u) \/ Override(u)
       \/ Look(u) \/ Judge(u) \/ Act(u) \/ Answer(u)
  \/ Restart

Spec == Init /\ [][Next]_vars

-----------------------------------------------------------------------------
Todo == {SubSeq(Jobs, k, Len(Jobs)) : k \in 1..(Len(Jobs) + 1)}

TypeOK ==
  /\ stored \in Overrides
  /\ remembered \in Overrides /\ \A n \in Names : Good(n, remembered[n])
  /\ current \in [Names -> Int]
  /\ schedule \subseteq Scheduled
  /\ update \in [Updaters ->
       [pc : {"idle", "saving", "remembering", "applying", "looking", "judging", "acting"},
        wanted : Overrides, todo : Todo \cup {<<>>}, seen : BOOLEAN, off : BOOLEAN]]
  /\ updates \in 0..MaxUpdates /\ crashes \in 0..MaxCrashes
  /\ told \in [Names -> Int \cup {None}]

Quiet == \A u \in Updaters : update[u] = Idle

\* What an answer said of a setting stays in effect, through restarts and updates
\* of other settings that fail or die half way, until an update of that setting is
\* accepted (app.py:529-538).  One update at a time.
AnswersHold == \A n \in Names : told[n] # None => current[n] = told[n]

\* Between updates the jobs that are scheduled are the ones that the stored
\* overrides, without the bad ones, leave enabled, whatever failed before
\* (overrides.py:86, jobs.py:604).  One update at a time.
ScheduleFollowsFile == Quiet => schedule = Enabled(Apply(Usable(stored)))

\* jobs.py:604 says of sync_schedule: "Schedule every enabled job that has a
\* trigger and unschedule disabled ones": after every update the schedule agrees
\* with the settings in effect.
ScheduleFollowsSettings == Quiet => schedule = Enabled(current)
=============================================================================
