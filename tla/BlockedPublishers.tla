------------------------- MODULE BlockedPublishers -------------------------
(***************************************************************************)
(* The publisher lists (publishers.py, db.py): a blocked publisher's       *)
(* volumes are remembered in blocked_volume, answers that bring them or    *)
(* their issues are not stored, and the purge job deletes the rows there   *)
(* are, in batches, on a worker thread with a connection of its own.       *)
(*                                                                         *)
(* On the event loop everybody shares the main connection: "shown" is what *)
(* it sees, "saved" what is committed.  The lists themselves are only      *)
(* changed by transactions that commit at once.                            *)
(***************************************************************************)
EXTENDS Integers, FiniteSets

CONSTANTS
  Publishers, Volumes, Issues,
  PublisherOf, \* volume -> its publisher
  VolumeOf,    \* issue -> its volume
  Seed,        \* publisher -> list SEED_ALLOW and SEED_BLOCK put it on
  Batch,       \* _PURGE_BATCH
  MaxEdits,    \* bound: edits of the lists
  MaxTroubles  \* bound: restarts, list edits that fail, runs that are cut short

Lists == {"none", "allow", "block"}

ASSUME ListsAssumption ==
  /\ PublisherOf \in [Volumes -> Publishers]
  /\ VolumeOf \in [Issues -> Volumes]
  /\ Volumes \cap Issues = {}
  /\ Seed \in [Publishers -> Lists]
  /\ Batch \in Nat \ {0}
  /\ {MaxEdits, MaxTroubles} \subseteq Nat

VARIABLES
  up,       \* the process runs
  seeded,   \* the marker in cvproxy_meta
  lists,    \* publisher_list, and allowed_publishers and blocked_publishers in memory
  shown,    \* what the main connection sees: volumes, those of them whose row names
            \* their publisher, issues, and the table of blocked volumes
  saved,    \* the same as committed
  remembered, \* blocked_volumes in memory
  pending,  \* answers on their way: what a client or a backfill asked for
  purge,    \* the purge job
  edits,
  troubles,
  repaired, \* history: volumes whose publisher only a repair named, while it was blocked
  steady,   \* history: volumes blocked in the file since the purge began
  purged    \* history: volumes purged whose publisher stayed blocked

rows == <<shown, saved>>
vars == <<up, seeded, lists, rows, remembered, pending, purge, edits, troubles, repaired, steady, purged>>

NoPurge == [pc |-> "idle", ids |-> {}]

Init ==
  /\ up = FALSE /\ seeded = FALSE
  /\ lists = [p \in Publishers |-> "none"]
  /\ saved \in [volumes : SUBSET Volumes, named : SUBSET Volumes, issues : SUBSET Issues, blocked : {{}}]
  /\ saved.named \subseteq saved.volumes
  /\ shown = saved
  /\ remembered = {}
  /\ pending = {}
  /\ purge = NoPurge
  /\ edits = 0 /\ troubles = 0
  /\ repaired = {} /\ steady = {} /\ purged = {}

Trouble == troubles < MaxTroubles /\ troubles' = troubles + 1

\* The main connection has a transaction open, and with it the write lock.
Open == shown # saved

Write(new) == shown' = new /\ UNCHANGED saved
Commit(new) == shown' = new /\ saved' = new

OnBlocked(vs) == {i \in Issues : VolumeOf[i] \in vs}
Of(ps) == {v \in Volumes : PublisherOf[v] \in ps}

\* The histories: what a repair names (byRepair) while it is blocked and nobody remembers
\* since; what is blocked throughout the purge; what it deleted for good.
Follow(byRepair) ==
  /\ repaired' = {v \in (repaired \cup byRepair) \ saved'.blocked :
                    lists'[PublisherOf[v]] = "block"}
  /\ steady' = IF purge.pc = "idle" THEN saved'.blocked ELSE steady \cap saved'.blocked
  /\ purged' = {v \in purged \cup (IF purge.pc = "volumes" THEN purge.ids \ saved'.volumes ELSE {}) :
                  lists'[PublisherOf[v]] = "block"}

-----------------------------------------------------------------------------
(* Start-up: connect, seed_publisher_lists *)

\* Only the first start fills the lists; what is stored of the blocked ones is
\* remembered.  Every start loads the lists.
Start ==
  /\ ~up
  /\ up' = TRUE
  /\ seeded' = TRUE
  /\ lists' = [p \in Publishers |-> IF ~seeded /\ lists[p] = "none" THEN Seed[p] ELSE lists[p]]
  /\ Commit([saved EXCEPT !.blocked = IF seeded THEN @
       ELSE @ \cup (saved.named \cap Of({p \in Publishers : lists'[p] = "block"}))])
  /\ remembered' = shown'.blocked
  /\ UNCHANGED <<pending, purge, edits, troubles>>

Restart ==
  /\ up /\ Trouble
  /\ up' = FALSE
  /\ shown' = saved
  /\ remembered' = {}
  /\ pending' = {}
  /\ purge' = NoPurge
  /\ UNCHANGED <<seeded, lists, saved, edits>>

-----------------------------------------------------------------------------
(* Answers of ComicVine: upsert_volume, upsert_issue *)

\* Rows that lack details, as far as the lists let them be fetched.
MayBackfill(v) ==
  /\ v \in shown.volumes
  /\ IF \E p \in Publishers : lists[p] = "allow"
     THEN v \in shown.named /\ lists[PublisherOf[v]] = "allow"
     ELSE v \notin shown.named \/ lists[PublisherOf[v]] # "block"

\* Volumes a cached search names and the file doesn't have: nobody knows whose they are.
Missing(v) == v \notin saved.volumes

\* An issue only names its volume: the stored rows tell.
InScope(i) ==
  IF \E p \in Publishers : lists[p] = "allow"
  THEN VolumeOf[i] \in saved.named /\ lists[PublisherOf[VolumeOf[i]]] = "allow"
  ELSE VolumeOf[i] \notin saved.blocked

Ask(who, x) ==
  /\ up
  /\ \A a \in pending : a.who # who
  /\ pending' = pending \cup {[who |-> who, what |-> x]}
  /\ UNCHANGED <<up, seeded, lists, rows, remembered, purge, edits, troubles>>

\* A client's request that the rows can't answer, by id or as one of a list.
AskClient(x) == Ask("client", x)

AskBackfill(x) ==
  /\ IF x \in Volumes THEN MayBackfill(x) \/ Missing(x) ELSE InScope(x)
  /\ Ask("backfill", x)

\* What an answer does to the rows: nothing for what is blocked by its own id;
\* a blocked publisher's volume is remembered.
StoresAny(i) == TRUE
Stores(i) == VolumeOf[i] \notin remembered
NewRows(x) ==
  IF x \in Issues THEN [shown EXCEPT !.issues = IF Stores(x) THEN @ \cup {x} ELSE @]
  ELSE IF x \in remembered THEN shown
  ELSE IF lists[PublisherOf[x]] = "block" THEN [shown EXCEPT !.blocked = @ \cup {x}]
  ELSE [shown EXCEPT !.volumes = @ \cup {x}, !.named = @ \cup {x}]
NotRemembered(x) == remembered
NowRemembered(x) ==
  IF x \in Volumes /\ lists[PublisherOf[x]] = "block" THEN remembered \cup {x} ELSE remembered

\* The keys of a result that tell whose it is.  field_list, or a list's default fields,
\* may have taken any of them out of the answer; and a row may not name its publisher.
Keys == {"id", "publisher", "volume", "resource_type"}

\* What is_blocked sees in a result x that carries these keys: its kind, which search
\* results have to say themselves, then a volume remembered or of a publisher on the
\* list, or an issue of one remembered.
IsBlocked(x, search, keys) ==
  /\ search => "resource_type" \in keys
  /\ IF x \in Issues THEN "volume" \in keys /\ VolumeOf[x] \in remembered
     ELSE \/ "id" \in keys /\ x \in remembered
          \/ "publisher" \in keys /\ lists[PublisherOf[x]] = "block"

\* PublisherFilterMiddleware looks into the answers once anything is blocked at all.
Filters == remembered # {} \/ \E p \in Publishers : lists[p] = "block"
Serves(x, search, keys) == ~(Filters /\ IsBlocked(x, search, keys))

Arrive(a) ==
  /\ remembered' = NowRemembered(a.what)
  /\ pending' = pending \ {a}
  /\ UNCHANGED <<up, seeded, lists, purge, edits, troubles>>

\* Routes commit at once; a backfill leaves its upserts open.
ArriveClient(a) == a.who = "client" /\ Commit(NewRows(a.what)) /\ Arrive(a)
ArriveBackfill(a) == a.who = "backfill" /\ Write(NewRows(a.what)) /\ Arrive(a)

\* The end of a backfill, or any other commit.
CommitRows ==
  /\ up /\ Open
  /\ Commit(shown)
  /\ UNCHANGED <<up, seeded, lists, remembered, pending, purge, edits, troubles>>

\* _repair_publishers: an answer names the publisher of a stored volume.  Nothing
\* is remembered, whoever that is.
UpdatePublisher(v) == Commit([shown EXCEPT !.named = @ \cup {v}])

Repair(v) ==
  /\ up /\ v \in shown.volumes \ shown.named
  /\ UpdatePublisher(v)
  /\ UNCHANGED <<up, seeded, lists, remembered, pending, purge, edits, troubles>>

-----------------------------------------------------------------------------
(* Edits: set_publisher_list, import_publisher_list *)

\* _put_on_list for every publisher changed: its blocked volumes are forgotten;
\* blocking remembers those that are stored.
ForgetOnly(changes) == shown.blocked \ Of(DOMAIN changes)
PutOnLists(changes) ==
  (shown.blocked \ Of(DOMAIN changes))
    \cup (shown.named \cap Of({p \in DOMAIN changes : changes[p] = "block"}))

\* One publisher to a list or off both; or those of a file to one list, and with
\* replace the others of that list off it.
OneChange == UNION {[{p} -> Lists] : p \in Publishers}
Imported(file, which, replace) ==
  [p \in file \cup (IF replace THEN {q \in Publishers : lists[q] = which} ELSE {}) |->
     IF p \in file THEN which ELSE "none"]
Changes ==
  OneChange \cup {Imported(file, which, replace) :
                    file \in SUBSET Publishers, which \in {"allow", "block"}, replace \in BOOLEAN}

EditLists(changes) ==
  /\ up /\ edits < MaxEdits
  /\ edits' = edits + 1
  /\ lists' = [p \in Publishers |-> IF p \in DOMAIN changes THEN changes[p] ELSE lists[p]]
  /\ Commit([shown EXCEPT !.blocked = PutOnLists(changes)])
  /\ remembered' = shown'.blocked
  /\ UNCHANGED <<up, seeded, pending, purge, troubles>>

\* A statement of it fails: "with self.conn" rolls everybody's open upserts back,
\* and the lists are not loaded again.
EditFails ==
  /\ up /\ edits < MaxEdits
  /\ edits' = edits + 1
  /\ Trouble
  /\ shown' = saved
  /\ UNCHANGED <<up, seeded, lists, saved, remembered, pending, purge>>

-----------------------------------------------------------------------------
(* purge_blocked *)

PurgeAt(pc, ids) == purge' = [pc |-> pc, ids |-> ids]
PurgeKeeps == UNCHANGED <<up, seeded, lists, remembered, pending, edits>>

Batches(set) == {ids \in SUBSET set : Cardinality(ids) = Batch \/ (ids = set /\ Cardinality(set) < Batch)}

StartPurge ==
  /\ up /\ purge = NoPurge
  /\ PurgeAt("select issues", {})
  /\ PurgeKeeps /\ UNCHANGED <<rows, troubles>>

\* The next batch of blocked volumes' issues, read from the file; then the volumes.
SelectIssues ==
  /\ purge.pc = "select issues"
  /\ LET found == saved.issues \cap OnBlocked(saved.blocked)
     IN  \/ found = {} /\ PurgeAt("select volumes", {})
         \/ found # {} /\ \E ids \in Batches(found) : PurgeAt("issues", ids)
  /\ PurgeKeeps /\ UNCHANGED <<rows, troubles>>

\* A transaction: it needs the write lock.
DeleteIssues ==
  /\ purge.pc = "issues"
  /\ ~Open
  /\ Commit([saved EXCEPT !.issues = @ \ purge.ids])
  /\ PurgeAt("select issues", {})
  /\ PurgeKeeps /\ UNCHANGED troubles

SelectVolumes ==
  /\ purge.pc = "select volumes"
  /\ LET found == saved.volumes \cap saved.blocked
     IN  \/ found = {} /\ PurgeAt("done", {})
         \/ found # {} /\ \E ids \in Batches(found) : PurgeAt("volumes", ids)
  /\ PurgeKeeps /\ UNCHANGED <<rows, troubles>>

DeleteVolumes ==
  /\ purge.pc = "volumes"
  /\ ~Open
  /\ Commit([saved EXCEPT !.volumes = @ \ purge.ids, !.named = @ \ purge.ids])
  /\ PurgeAt("select volumes", {})
  /\ PurgeKeeps /\ UNCHANGED troubles

\* A transaction of the main connection stays open for more than 30 seconds: the
\* thread's fails with "database is locked", and the run with it.
LockedOut ==
  /\ purge.pc \in {"issues", "volumes"}
  /\ Open
  /\ purge' = NoPurge
  /\ PurgeKeeps /\ UNCHANGED <<rows, troubles>>

EndPurge ==
  /\ purge.pc = "done"
  /\ purge' = NoPurge
  /\ PurgeKeeps /\ UNCHANGED <<rows, troubles>>

-----------------------------------------------------------------------------
Purging == SelectIssues \/ DeleteIssues \/ SelectVolumes \/ DeleteVolumes \/ LockedOut \/ EndPurge
\* Every step but a repair's.
Step ==
  \/ Start \/ Restart
  \/ \E x \in Volumes \cup Issues : AskClient(x) \/ AskBackfill(x)
  \/ \E a \in pending : ArriveClient(a) \/ ArriveBackfill(a)
  \/ CommitRows
  \/ \E changes \in Changes : EditLists(changes)
  \/ EditFails
  \/ StartPurge \/ Purging

Next ==
  \/ Step /\ Follow({})
  \/ \E v \in Volumes : Repair(v) /\ Follow({v})

\* The purge's thread runs, and its statements end, by success or for want of the lock.
Fairness == WF_vars(Purging /\ Follow({}))

Spec == Init /\ [][Next]_vars /\ Fairness

-----------------------------------------------------------------------------
Rows == [volumes : SUBSET Volumes, named : SUBSET Volumes, issues : SUBSET Issues, blocked : SUBSET Volumes]

TypeOK ==
  /\ up \in BOOLEAN /\ seeded \in BOOLEAN
  /\ lists \in [Publishers -> Lists]
  /\ shown \in Rows /\ saved \in Rows
  /\ remembered \subseteq Volumes
  /\ pending \subseteq [who : {"client", "backfill"}, what : Volumes \cup Issues]
  /\ purge.pc \in {"idle", "select issues", "issues", "select volumes", "volumes", "done"}
  /\ purge.ids \subseteq (IF purge.pc = "volumes" THEN Volumes ELSE Issues)
  /\ Cardinality(purge.ids) <= Batch
  /\ edits \in 0..MaxEdits /\ troubles \in 0..MaxTroubles
  /\ repaired \subseteq Volumes /\ steady \subseteq Volumes /\ purged \subseteq Volumes

\* Every stored volume that is known to be of a blocked publisher is remembered as
\* blocked, on the connection and in the file, so that its issues, which only name
\* their volume, are neither stored nor served (publishers.py:5-8).  The repair of
\* publishers is the exception: what it names is not remembered until the next edit
\* of that publisher or the next answer for that volume.
BlockedAreRemembered ==
  \A t \in {shown, saved} : \A v \in t.named \ repaired :
    lists[PublisherOf[v]] = "block" => v \in t.blocked

\* The result still says what it is: its kind, and by its id or its volume's whose.
Recognisable(x, search, keys) ==
  /\ search => "resource_type" \in keys
  /\ (IF x \in Issues THEN "volume" ELSE "id") \in keys

\* Nothing that the table says is blocked is served in an answer that still carries the
\* keys to recognise it by: what the process remembers covers the table, also after
\* edits, edits that were rolled back, answers of backfills and restarts
\* (publishers.py:39-51, db.py:1979-1985).  An answer that field_list has
\* trimmed further is served, though publishers.py:4-8 says never.
BlockedStaysHidden ==
  up => \A v \in shown.blocked \cup saved.blocked :
          \A x \in {v} \cup OnBlocked({v}), search \in BOOLEAN, keys \in SUBSET Keys :
            Recognisable(x, search, keys) => ~Serves(x, search, keys)

\* When a purge ends, nothing is stored of the volumes that were blocked while it
\* ran, whatever clients, backfills and edits of the lists did between its batches.
PurgeLeavesNothing ==
  purge.pc = "done" =>
    saved.volumes \cap steady = {} /\ saved.issues \cap OnBlocked(steady) = {}

\* However many answers arrive between its batches, a purge ends.
PurgeEnds == purge.pc # "idle" ~> purge.pc = "idle"

\* db.py:283 says of blocked_volume: "Volumes of blocked publishers, remembered after
\* their rows are purged".
RememberedAfterPurge == up => purged \subseteq shown.blocked
=============================================================================
