---------------------- MODULE BlockedPublishers_proofs ----------------------
(***************************************************************************)
(* Proofs about BlockedPublishers, for all publishers, volumes, issues and *)
(* seeds, every size of the purge's batches, and any number of edits and   *)
(* troubles.                                                               *)
(***************************************************************************)
EXTENDS BlockedPublishers, FiniteSetTheorems, TLAPS

-----------------------------------------------------------------------------
(* The inductive invariant *)

Typed ==
  /\ shown \in Rows /\ saved \in Rows
  /\ lists \in [Publishers -> Lists]
  /\ \A a \in pending : a.what \in Volumes \cup Issues

\* While the process runs it remembers what either table says is blocked; what is not
\* committed only adds to the blocked volumes; answers and purges need the process.
Known ==
  /\ up => shown.blocked \subseteq remembered /\ saved.blocked \subseteq remembered
  /\ saved.blocked \subseteq shown.blocked
  /\ ~up => pending = {} /\ purge.pc = "idle"

\* Nothing uncommitted is of a volume that the file says is blocked; what a purge has
\* searched for in vain stays away from the file.
Settled ==
  /\ \A v \in saved.blocked : v \in shown.volumes => v \in saved.volumes
  /\ \A i \in shown.issues : VolumeOf[i] \in saved.blocked => i \in saved.issues
  /\ steady \subseteq saved.blocked
  /\ purge.pc \in {"select volumes", "volumes", "done"} =>
       \A i \in saved.issues : VolumeOf[i] \notin steady
  /\ purge.pc = "done" => \A v \in saved.volumes : v \notin steady

IInv == Typed /\ Known /\ BlockedAreRemembered /\ Settled

LEMMA IInvInit == Init => IInv
<1> SUFFICES ASSUME Init PROVE IInv
  OBVIOUS
<1>1. PICK r \in [volumes : SUBSET Volumes, named : SUBSET Volumes, issues : SUBSET Issues, blocked : {{}}] :
        saved = r /\ shown = r
  BY DEF Init
<1>2. saved \in Rows /\ shown \in Rows /\ saved = shown /\ saved.blocked = {}
  BY <1>1 DEF Rows
<1>3. Typed
  BY <1>2 DEF Init, Typed, Lists
<1>4. Known
  BY <1>2 DEF Init, Known, NoPurge
<1>5. BlockedAreRemembered
  <2>1. \A v \in shown.named \cup saved.named : lists[PublisherOf[v]] = "none"
    BY <1>2, ListsAssumption DEF Init, Rows
  <2>2. QED
    BY <2>1 DEF BlockedAreRemembered
<1>6. Settled
  BY <1>2 DEF Init, Settled, NoPurge
<1>7. QED
  BY <1>3, <1>4, <1>5, <1>6 DEF IInv

\* The histories follow a step, one that repairs the volumes byRepair or none.
Followed == \E byRepair \in SUBSET Volumes : Follow(byRepair)

LEMMA Histories ==
  ASSUME Followed
  PROVE  /\ \A v \in repaired : v \notin repaired' /\ lists'[PublisherOf[v]] = "block" => v \in saved'.blocked
         /\ steady' \subseteq saved'.blocked
         /\ purge.pc # "idle" => steady' \subseteq steady
  BY DEF Followed, Follow

-----------------------------------------------------------------------------
(* Answers *)

\* The rows an answer for x makes: nothing of a blocked volume is added.
Adds(new) ==
  /\ new \in Rows
  /\ shown.blocked \subseteq new.blocked
  /\ \A v \in new.named : v \in shown.named \/ lists[PublisherOf[v]] # "block"
  /\ \A v \in new.volumes : v \in shown.volumes \/ v \notin remembered
  /\ \A i \in new.issues : i \in shown.issues \/ VolumeOf[i] \notin remembered

LEMMA AnswerAdds ==
  ASSUME IInv, NEW x \in Volumes \cup Issues
  PROVE  /\ Adds(NewRows(x))
         /\ NewRows(x).blocked \subseteq shown.blocked \cup NowRemembered(x)
         /\ remembered \subseteq NowRemembered(x)
<1> DEFINE new == NewRows(x)
<1>1. shown \in Rows
  BY DEF IInv, Typed
<1>2. CASE x \in Issues
  <2>1. x \notin Volumes
    BY <1>2, ListsAssumption
  <2>2. CASE Stores(x)
    <3>1. new = [shown EXCEPT !.issues = shown.issues \cup {x}]
      BY <1>2, <2>2 DEF NewRows
    <3>2. QED
      BY <1>1, <1>2, <2>1, <2>2, <3>1 DEF Adds, Rows, Stores, NowRemembered
  <2>3. CASE ~Stores(x)
    <3>1. new = [shown EXCEPT !.issues = shown.issues]
      BY <1>2, <2>3 DEF NewRows
    <3>2. QED
      BY <1>1, <2>1, <3>1 DEF Adds, Rows, NowRemembered
  <2>4. QED
    BY <2>2, <2>3
<1>3. CASE x \notin Issues /\ x \in remembered
  <2>1. new = shown
    BY <1>3 DEF NewRows
  <2>2. QED
    BY <1>1, <2>1 DEF Adds, NowRemembered
<1>4. CASE x \notin Issues /\ x \notin remembered /\ lists[PublisherOf[x]] = "block"
  <2>1. new = [shown EXCEPT !.blocked = shown.blocked \cup {x}] /\ x \in Volumes
    BY <1>4 DEF NewRows
  <2>2. QED
    BY <1>1, <1>4, <2>1 DEF Adds, Rows, NowRemembered
<1>5. CASE x \notin Issues /\ x \notin remembered /\ lists[PublisherOf[x]] # "block"
  <2>1. /\ new = [shown EXCEPT !.volumes = shown.volumes \cup {x}, !.named = shown.named \cup {x}]
        /\ x \in Volumes
    BY <1>5 DEF NewRows
  <2>2. /\ new \in Rows
        /\ new.volumes = shown.volumes \cup {x} /\ new.named = shown.named \cup {x}
        /\ new.issues = shown.issues /\ new.blocked = shown.blocked
    BY <1>1, <2>1 DEF Rows
  <2>3. NowRemembered(x) = remembered
    BY <1>5 DEF NowRemembered
  <2> HIDE DEF new
  <2>4. Adds(new) /\ new.blocked \subseteq shown.blocked \cup NowRemembered(x)
    BY <1>5, <2>2 DEF Adds
  <2>5. QED
    BY <2>3, <2>4 DEF new
<1>6. QED
  BY <1>2, <1>3, <1>4, <1>5

\* A step that at most adds such rows, and commits them or not.
LEMMA AddStep ==
  ASSUME IInv, Followed, up, NEW new, Adds(new),
         shown' = new, saved' = saved \/ saved' = new,
         remembered \subseteq remembered', new.blocked \subseteq remembered',
         UNCHANGED <<up, lists, purge>>
  PROVE  Known' /\ BlockedAreRemembered' /\ Settled'
<1>1. Known'
  BY DEF IInv, Known, Adds
<1>2. BlockedAreRemembered'
  <2> SUFFICES ASSUME NEW t \in {shown', saved'}, NEW v \in t.named, v \notin repaired',
                      lists[PublisherOf[v]] = "block"
               PROVE  v \in t.blocked
    BY DEF BlockedAreRemembered
  <2>1. saved'.blocked \subseteq new.blocked
    BY <1>1 DEF Known
  <2>2. v \in repaired => v \in saved'.blocked
    BY Histories
  <2>3. CASE t = shown'
    <3>1. v \in shown.named
      BY <2>3 DEF Adds
    <3>2. v \notin repaired => v \in shown.blocked
      BY <3>1 DEF IInv, BlockedAreRemembered
    <3>3. QED
      BY <2>1, <2>2, <2>3, <3>2 DEF Adds
  <2>4. CASE t = saved' /\ saved' = saved
    <3>1. v \notin repaired => v \in saved.blocked
      BY <2>4 DEF IInv, BlockedAreRemembered
    <3>2. QED
      BY <2>2, <2>4, <3>1
  <2>5. QED
    BY <2>3, <2>4
<1>3. Settled'
  <2>1. saved.blocked \subseteq remembered /\ steady \subseteq saved.blocked
    BY DEF IInv, Known, Settled
  <2>2. \A v \in new.volumes : v \in saved.blocked => v \in saved.volumes
    BY <2>1 DEF Adds, IInv, Settled
  <2>3. \A i \in new.issues : VolumeOf[i] \in saved.blocked => i \in saved.issues
    BY <2>1 DEF Adds, IInv, Settled
  <2>4. steady' \subseteq saved'.blocked /\ (purge.pc # "idle" => steady' \subseteq steady)
    BY Histories
  <2>5. \A i \in saved'.issues : VolumeOf[i] \in steady => i \in saved.issues
    BY <2>1, <2>3
  <2>6. \A v \in saved'.volumes : v \in steady => v \in saved.volumes
    BY <2>1, <2>2
  <2>7. QED
    BY <2>2, <2>3, <2>4, <2>5, <2>6 DEF IInv, Settled
<1>4. QED
  BY <1>1, <1>2, <1>3

\* What there is adds nothing.
LEMMA SameAdds == IInv => Adds(shown)
  BY DEF IInv, Typed, Adds

LEMMA ArriveStep ==
  ASSUME IInv, Followed, NEW a \in pending, ArriveClient(a) \/ ArriveBackfill(a)
  PROVE  IInv'
<1> DEFINE x == a.what
           new == NewRows(x)
<1>1. x \in Volumes \cup Issues /\ up
  BY DEF IInv, Typed, Known
<1>2. /\ shown' = new /\ (saved' = saved \/ saved' = new)
      /\ remembered' = NowRemembered(x)
      /\ pending' = pending \ {a}
      /\ UNCHANGED <<up, lists, purge>>
  BY DEF ArriveClient, ArriveBackfill, Arrive, Commit, Write
<1> HIDE DEF x
<1>3. /\ Adds(new) /\ new.blocked \subseteq shown.blocked \cup remembered'
      /\ remembered \subseteq remembered'
  BY <1>1, <1>2, AnswerAdds
<1> HIDE DEF new
<1>4. new.blocked \subseteq remembered'
  BY <1>1, <1>3 DEF IInv, Known
<1>5. Known' /\ BlockedAreRemembered' /\ Settled'
  BY <1>1, <1>2, <1>3, <1>4, AddStep
<1>6. Typed'
  BY <1>2, <1>3 DEF Adds, IInv, Typed
<1>7. QED
  BY <1>5, <1>6 DEF IInv

LEMMA CommitStep == ASSUME IInv, Followed, CommitRows PROVE IInv'
<1>1. /\ up /\ shown' = shown /\ saved' = shown
      /\ UNCHANGED <<up, lists, remembered, pending, purge>>
  BY DEF CommitRows, Commit
<1>2. shown.blocked \subseteq remembered'
  BY <1>1 DEF IInv, Known
<1>3. Known' /\ BlockedAreRemembered' /\ Settled'
  BY <1>1, <1>2, SameAdds, AddStep
<1>4. Typed'
  BY <1>1 DEF IInv, Typed
<1>5. QED
  BY <1>3, <1>4 DEF IInv

\* A request or the end of a run touches no row and no list.
LEMMA AskStep ==
  ASSUME IInv, Followed, NEW x \in Volumes \cup Issues, AskClient(x) \/ AskBackfill(x)
  PROVE  IInv'
<1>1. PICK who \in {"client", "backfill"} : Ask(who, x)
  BY DEF AskClient, AskBackfill
<1>2. /\ up /\ pending' = pending \cup {[who |-> who, what |-> x]}
      /\ shown' = shown /\ saved' = saved
      /\ UNCHANGED <<up, lists, remembered, purge>>
  BY <1>1 DEF Ask, rows
<1>3. shown.blocked \subseteq remembered'
  BY <1>2 DEF IInv, Known
<1>4. Known' /\ BlockedAreRemembered' /\ Settled'
  BY <1>2, <1>3, SameAdds, AddStep
<1>5. Typed'
  BY <1>2 DEF IInv, Typed
<1>6. QED
  BY <1>4, <1>5 DEF IInv

-----------------------------------------------------------------------------
(* Start-up, repairs and edits of the lists *)

LEMMA StartStep == ASSUME IInv, Followed, Start PROVE IInv'
<1> DEFINE more == IF seeded THEN saved.blocked
                   ELSE saved.blocked \cup (saved.named \cap Of({p \in Publishers : lists'[p] = "block"}))
           new == [saved EXCEPT !.blocked = more]
<1>1. /\ ~up /\ up' = TRUE
      /\ lists' = [p \in Publishers |-> IF ~seeded /\ lists[p] = "none" THEN Seed[p] ELSE lists[p]]
      /\ shown' = new /\ saved' = new
      /\ remembered' = shown'.blocked
      /\ pending' = pending /\ purge' = purge
  BY DEF Start, Commit
<1>2. saved \in Rows /\ more \subseteq Volumes /\ saved.blocked \subseteq more
  BY DEF IInv, Typed, Rows
<1>3. /\ new \in Rows /\ new.blocked = more /\ new.volumes = saved.volumes
      /\ new.named = saved.named /\ new.issues = saved.issues
  BY <1>2 DEF Rows
<1>4. seeded => more = saved.blocked
  OBVIOUS
<1>5. ~seeded => \A v \in saved.named : lists'[PublisherOf[v]] = "block" => v \in more
  BY <1>2, ListsAssumption DEF Of, Rows
<1> HIDE DEF new, more
<1>6. Typed'
  BY <1>1, <1>3, ListsAssumption DEF IInv, Typed
<1>7. Known'
  BY <1>1 DEF Known
<1>8. BlockedAreRemembered'
  <2> SUFFICES ASSUME NEW v \in saved.named, v \notin repaired', lists'[PublisherOf[v]] = "block"
               PROVE  v \in more
    BY <1>1, <1>3 DEF BlockedAreRemembered
  <2>1. CASE seeded
    <3>1. lists' = [p \in Publishers |-> lists[p]]
      BY <1>1, <2>1
    <3>2. PublisherOf[v] \in Publishers
      BY <1>2, ListsAssumption DEF Rows
    <3>3. v \notin repaired => v \in saved.blocked
      BY <3>1, <3>2 DEF IInv, BlockedAreRemembered
    <3>4. v \in repaired => v \in saved'.blocked
      BY Histories
    <3>5. QED
      BY <1>1, <1>2, <1>3, <3>3, <3>4
  <2>2. CASE ~seeded
    BY <1>5, <2>2
  <2>3. QED
    BY <2>1, <2>2
<1>9. Settled'
  <2>1. purge'.pc = "idle"
    BY <1>1 DEF IInv, Known
  <2>2. QED
    BY <1>1, <2>1, Histories DEF Settled
<1>10. QED
  BY <1>6, <1>7, <1>8, <1>9 DEF IInv

\* The connection loses what is not committed.
LEMMA RolledBack ==
  ASSUME IInv, Followed, shown' = saved, saved' = saved, lists' = lists
  PROVE  BlockedAreRemembered'
<1> SUFFICES ASSUME NEW v \in saved.named, v \notin repaired', lists[PublisherOf[v]] = "block"
             PROVE  v \in saved.blocked
  BY DEF BlockedAreRemembered
<1>1. v \in repaired => v \in saved.blocked
  BY Histories
<1>2. QED
  BY <1>1 DEF IInv, BlockedAreRemembered

LEMMA RestartStep == ASSUME IInv, Followed, Restart PROVE IInv'
<1>1. /\ up' = FALSE /\ shown' = saved /\ saved' = saved
      /\ pending' = {} /\ purge' = NoPurge /\ lists' = lists
  BY DEF Restart
<1>2. Typed' /\ Known'
  BY <1>1 DEF IInv, Typed, Known, NoPurge
<1>3. Settled'
  BY <1>1, Histories DEF Settled, NoPurge
<1>4. QED
  BY <1>1, <1>2, <1>3, RolledBack DEF IInv

LEMMA EditFailsStep == ASSUME IInv, Followed, EditFails PROVE IInv'
<1>1. /\ up /\ shown' = saved /\ saved' = saved
      /\ UNCHANGED <<up, lists, remembered, pending, purge>>
  BY DEF EditFails
<1>2. Typed' /\ Known'
  BY <1>1 DEF IInv, Typed, Known
<1>3. Settled'
  BY <1>1, Histories DEF IInv, Settled
<1>4. QED
  BY <1>1, <1>2, <1>3, RolledBack DEF IInv

\* Committing everything keeps what a purge under way has reached.
LEMMA CommitAll ==
  ASSUME IInv, Followed, up, NEW new, shown' = new, saved' = new, purge' = purge,
         new.volumes = shown.volumes, new.issues = shown.issues
  PROVE  Settled'
<1>1. steady \subseteq saved.blocked /\ steady' \subseteq saved'.blocked
      /\ (purge.pc # "idle" => steady' \subseteq steady)
  BY Histories DEF IInv, Settled
<1>2. QED
  BY <1>1 DEF IInv, Settled

LEMMA RepairStep == ASSUME IInv, NEW u \in Volumes, Repair(u), Follow({u}) PROVE IInv'
<1> DEFINE new == [shown EXCEPT !.named = shown.named \cup {u}]
<1>1. /\ up /\ u \in shown.volumes \ shown.named
      /\ shown' = new /\ saved' = new
      /\ UNCHANGED <<up, lists, remembered, pending, purge>>
  BY DEF Repair, UpdatePublisher, Commit
<1>0. Followed
  BY DEF Followed
<1>2. /\ new \in Rows /\ new.named = shown.named \cup {u} /\ new.blocked = shown.blocked
      /\ new.volumes = shown.volumes /\ new.issues = shown.issues
  BY DEF IInv, Typed, Rows
<1> HIDE DEF new
<1>3. Typed' /\ Known'
  BY <1>1, <1>2 DEF IInv, Typed, Known
<1>4. Settled'
  BY <1>0, <1>1, <1>2, CommitAll
<1>5. BlockedAreRemembered'
  <2> SUFFICES ASSUME NEW v \in new.named, v \notin repaired', lists[PublisherOf[v]] = "block"
               PROVE  v \in new.blocked
    BY <1>1 DEF BlockedAreRemembered
  <2>1. v \in repaired \/ v = u => v \in new.blocked
    BY <1>1, <1>2 DEF Follow
  <2>2. v \in shown.named /\ v \notin repaired => v \in new.blocked
    BY <1>2 DEF IInv, BlockedAreRemembered
  <2>3. QED
    BY <1>2, <2>1, <2>2
<1>6. QED
  BY <1>3, <1>4, <1>5 DEF IInv

LEMMA EditStep == ASSUME IInv, Followed, NEW changes \in Changes, EditLists(changes) PROVE IInv'
<1> DEFINE new == [shown EXCEPT !.blocked = PutOnLists(changes)]
<1>1. /\ up
      /\ lists' = [p \in Publishers |-> IF p \in DOMAIN changes THEN changes[p] ELSE lists[p]]
      /\ shown' = new /\ saved' = new
      /\ remembered' = shown'.blocked
      /\ UNCHANGED <<up, pending, purge>>
  BY DEF EditLists, Commit
<1>2. \A p \in DOMAIN changes : changes[p] \in Lists
  <2>1. ASSUME NEW q \in Publishers, changes \in [{q} -> Lists]
        PROVE  \A p \in DOMAIN changes : changes[p] \in Lists
    BY <2>1
  <2>2. ASSUME NEW file \in SUBSET Publishers, NEW which \in {"allow", "block"}, NEW replace \in BOOLEAN,
               changes = Imported(file, which, replace)
        PROVE  \A p \in DOMAIN changes : changes[p] \in Lists
    <3> DEFINE named == file \cup (IF replace THEN {q \in Publishers : lists[q] = which} ELSE {})
    <3>1. changes = [p \in named |-> IF p \in file THEN which ELSE "none"]
      BY <2>2 DEF Imported
    <3> HIDE DEF named
    <3>2. DOMAIN changes = named /\ \A p \in named : changes[p] = which \/ changes[p] = "none"
      BY <3>1
    <3>3. QED
      BY <3>2 DEF Lists
  <2>3. changes \in OneChange \/ \E file \in SUBSET Publishers, which \in {"allow", "block"}, replace \in BOOLEAN :
          changes = Imported(file, which, replace)
    BY DEF Changes
  <2>4. changes \in OneChange => \E q \in Publishers : changes \in [{q} -> Lists]
    BY DEF OneChange
  <2>5. QED
    BY <2>1, <2>2, <2>3, <2>4
<1>3. shown \in Rows /\ PutOnLists(changes) \subseteq Volumes
  BY DEF IInv, Typed, Rows, PutOnLists
<1>4. /\ new \in Rows /\ new.blocked = PutOnLists(changes) /\ new.named = shown.named
      /\ new.volumes = shown.volumes /\ new.issues = shown.issues
  BY <1>3 DEF Rows
<1> HIDE DEF new
<1>5. Typed'
  BY <1>1, <1>2, <1>4 DEF IInv, Typed
<1>6. Known'
  BY <1>1 DEF Known
<1>7. Settled'
  BY <1>1, <1>4, CommitAll
<1>8. BlockedAreRemembered'
  <2> SUFFICES ASSUME NEW v \in shown.named, v \notin repaired', lists'[PublisherOf[v]] = "block"
               PROVE  v \in new.blocked
    BY <1>1, <1>4 DEF BlockedAreRemembered
  <2>1. v \in Volumes /\ PublisherOf[v] \in Publishers
    BY <1>3, ListsAssumption DEF Rows
  <2>2. CASE PublisherOf[v] \in DOMAIN changes
    <3>1. changes[PublisherOf[v]] = "block"
      BY <1>1, <2>1, <2>2
    <3>2. QED
      BY <1>4, <2>1, <2>2, <3>1 DEF PutOnLists, Of
  <2>3. CASE PublisherOf[v] \notin DOMAIN changes
    <3>1. lists[PublisherOf[v]] = "block"
      BY <1>1, <2>1, <2>3
    <3>2. v \notin repaired => v \in shown.blocked
      BY <3>1 DEF IInv, BlockedAreRemembered
    <3>3. v \in repaired => v \in new.blocked
      BY <1>1, Histories
    <3>4. QED
      BY <1>4, <2>3, <3>2, <3>3 DEF PutOnLists, Of
  <2>4. QED
    BY <2>2, <2>3
<1>9. QED
  BY <1>5, <1>6, <1>7, <1>8 DEF IInv

-----------------------------------------------------------------------------
(* The purge *)

\* The purge moves on without touching a row.
LEMMA PurgeReads ==
  ASSUME IInv, Followed, PurgeKeeps, UNCHANGED rows,
         purge'.pc # "idle" => up,
         purge'.pc \in {"select volumes", "volumes", "done"} =>
           \/ purge.pc \in {"select volumes", "volumes", "done"}
           \/ purge.pc # "idle" /\ \A i \in saved.issues : VolumeOf[i] \notin saved.blocked,
         purge'.pc = "done" => purge.pc # "idle" /\ \A v \in saved.volumes : v \notin saved.blocked
  PROVE  IInv'
<1>1. UNCHANGED <<up, lists, shown, saved, remembered, pending>>
  BY DEF PurgeKeeps, rows
<1>2. Typed' /\ Known'
  BY <1>1 DEF IInv, Typed, Known
<1>3. BlockedAreRemembered'
  <2> SUFFICES ASSUME NEW t \in {shown, saved}, NEW v \in t.named, v \notin repaired',
                      lists[PublisherOf[v]] = "block"
               PROVE  v \in t.blocked
    BY <1>1 DEF BlockedAreRemembered
  <2>1. v \in repaired => v \in saved.blocked
    BY <1>1, Histories
  <2>2. v \notin repaired => v \in t.blocked
    BY DEF IInv, BlockedAreRemembered
  <2>3. QED
    BY <2>1, <2>2 DEF IInv, Known
<1>4. Settled'
  <2>1. /\ steady \subseteq saved.blocked /\ steady' \subseteq saved.blocked
        /\ (purge.pc # "idle" => steady' \subseteq steady)
    BY <1>1, Histories DEF IInv, Settled
  <2>2. purge'.pc \in {"select volumes", "volumes", "done"} =>
          \A i \in saved.issues : VolumeOf[i] \notin steady'
    BY <2>1 DEF IInv, Settled
  <2>3. purge'.pc = "done" => \A v \in saved.volumes : v \notin steady'
    BY <2>1
  <2>4. QED
    BY <1>1, <2>1, <2>2, <2>3 DEF IInv, Settled
<1>5. QED
  BY <1>2, <1>3, <1>4 DEF IInv

\* A batch of rows goes; the blocked volumes stay known.
LEMMA PurgeDeletes ==
  ASSUME IInv, Followed, PurgeKeeps, up, ~Open,
         NEW new \in Rows, shown' = new, saved' = new,
         new.blocked = saved.blocked, new.volumes \subseteq saved.volumes,
         new.named \subseteq saved.named, new.issues \subseteq saved.issues,
         purge.pc # "idle", purge'.pc # "done",
         purge'.pc \in {"select volumes", "volumes", "done"} =>
           purge.pc \in {"select volumes", "volumes", "done"}
  PROVE  IInv'
<1>1. UNCHANGED <<up, lists, remembered, pending>> /\ shown = saved
  BY DEF PurgeKeeps, Open
<1>2. Typed' /\ Known'
  BY <1>1 DEF IInv, Typed, Known
<1>3. BlockedAreRemembered'
  <2> SUFFICES ASSUME NEW v \in new.named, v \notin repaired', lists[PublisherOf[v]] = "block"
               PROVE  v \in new.blocked
    BY <1>1 DEF BlockedAreRemembered
  <2>1. v \in repaired => v \in new.blocked
    BY <1>1, Histories
  <2>2. v \notin repaired => v \in saved.blocked
    BY DEF IInv, BlockedAreRemembered
  <2>3. QED
    BY <2>1, <2>2
<1>4. Settled'
  <2>1. steady' \subseteq new.blocked /\ steady' \subseteq steady
    BY Histories
  <2>2. QED
    BY <1>1, <2>1 DEF IInv, Settled
<1>5. QED
  BY <1>2, <1>3, <1>4 DEF IInv

LEMMA PurgeGoes == ASSUME NEW pc, NEW ids, PurgeAt(pc, ids) PROVE purge'.pc = pc
  BY DEF PurgeAt

LEMMA PurgeStep == ASSUME IInv, Followed, StartPurge \/ Purging PROVE IInv'
<1>1. purge.pc # "idle" => up
  BY DEF IInv, Known
<1>2. CASE StartPurge
  <2>1. PurgeKeeps /\ UNCHANGED rows /\ up /\ purge'.pc = "select issues"
    BY <1>2 DEF StartPurge, PurgeAt
  <2>2. QED
    BY <2>1, PurgeReads
<1>3. CASE SelectIssues
  <2>1. /\ PurgeKeeps /\ UNCHANGED rows /\ purge.pc = "select issues"
        /\ \/ purge'.pc = "issues"
           \/ purge'.pc = "select volumes" /\ saved.issues \cap OnBlocked(saved.blocked) = {}
    <3>1. PurgeKeeps /\ UNCHANGED rows /\ purge.pc = "select issues"
      BY <1>3 DEF SelectIssues
    <3>2. \/ saved.issues \cap OnBlocked(saved.blocked) = {} /\ PurgeAt("select volumes", {})
          \/ \E ids \in Batches(saved.issues \cap OnBlocked(saved.blocked)) : PurgeAt("issues", ids)
      BY <1>3 DEF SelectIssues
    <3>3. QED
      BY <3>1, <3>2, PurgeGoes
  <2>2. \A i \in saved.issues : VolumeOf[i] \in saved.blocked => i \in OnBlocked(saved.blocked)
    BY DEF OnBlocked, IInv, Typed, Rows
  <2>3. QED
    BY <1>1, <2>1, <2>2, PurgeReads
<1>4. CASE SelectVolumes
  <2>1. /\ PurgeKeeps /\ UNCHANGED rows /\ purge.pc = "select volumes"
        /\ \/ purge'.pc = "volumes"
           \/ purge'.pc = "done" /\ saved.volumes \cap saved.blocked = {}
    <3>1. PurgeKeeps /\ UNCHANGED rows /\ purge.pc = "select volumes"
      BY <1>4 DEF SelectVolumes
    <3>2. \/ saved.volumes \cap saved.blocked = {} /\ PurgeAt("done", {})
          \/ \E ids \in Batches(saved.volumes \cap saved.blocked) : PurgeAt("volumes", ids)
      BY <1>4 DEF SelectVolumes
    <3>3. QED
      BY <3>1, <3>2, PurgeGoes
  <2>2. QED
    BY <1>1, <2>1, PurgeReads
<1>5. CASE DeleteIssues
  <2> DEFINE new == [saved EXCEPT !.issues = saved.issues \ purge.ids]
  <2>1. /\ PurgeKeeps /\ ~Open /\ purge.pc = "issues" /\ purge'.pc = "select issues"
        /\ shown' = new /\ saved' = new
    BY <1>5 DEF DeleteIssues, Commit, PurgeAt
  <2>2. /\ new \in Rows /\ new.blocked = saved.blocked /\ new.volumes = saved.volumes
        /\ new.named = saved.named /\ new.issues \subseteq saved.issues
    BY DEF IInv, Typed, Rows
  <2> HIDE DEF new
  <2>3. QED
    BY <1>1, <2>1, <2>2, PurgeDeletes
<1>6. CASE DeleteVolumes
  <2> DEFINE new == [saved EXCEPT !.volumes = saved.volumes \ purge.ids, !.named = saved.named \ purge.ids]
  <2>1. /\ PurgeKeeps /\ ~Open /\ purge.pc = "volumes" /\ purge'.pc = "select volumes"
        /\ shown' = new /\ saved' = new
    BY <1>6 DEF DeleteVolumes, Commit, PurgeAt
  <2>2. /\ new \in Rows /\ new.blocked = saved.blocked /\ new.volumes \subseteq saved.volumes
        /\ new.named \subseteq saved.named /\ new.issues = saved.issues
    BY DEF IInv, Typed, Rows
  <2> HIDE DEF new
  <2>3. QED
    BY <1>1, <2>1, <2>2, PurgeDeletes
<1>7. CASE LockedOut \/ EndPurge
  <2>1. PurgeKeeps /\ UNCHANGED rows /\ purge'.pc = "idle"
    BY <1>7 DEF LockedOut, EndPurge, NoPurge
  <2>2. QED
    BY <2>1, PurgeReads
<1>8. QED
  BY <1>2, <1>3, <1>4, <1>5, <1>6, <1>7 DEF Purging

LEMMA IInvStep == IInv /\ [Next]_vars => IInv'
<1> SUFFICES ASSUME IInv, [Next]_vars PROVE IInv'
  OBVIOUS
<1>1. CASE UNCHANGED vars
  BY <1>1 DEF vars, rows, IInv, Typed, Known, BlockedAreRemembered, Settled
<1>2. CASE Step /\ Follow({})
  <2>1. Followed
    BY <1>2 DEF Followed
  <2>2. QED
    BY <1>2, <2>1, StartStep, RestartStep, AskStep, ArriveStep, CommitStep, EditStep,
       EditFailsStep, PurgeStep DEF Step
<1>3. CASE \E v \in Volumes : Repair(v) /\ Follow({v})
  BY <1>3, RepairStep
<1>4. QED
  BY <1>1, <1>2, <1>3 DEF Next

-----------------------------------------------------------------------------
(* What it means *)

\* Every stored volume of a blocked publisher is in the table of blocked volumes, on
\* the connection and in the file, but for what a repair named (publishers.py:5-8).
THEOREM BlockedVolumesKnown == Spec => []BlockedAreRemembered
<1>1. IInv => BlockedAreRemembered
  BY DEF IInv
<1>2. QED
  BY <1>1, IInvInit, IInvStep, PTL DEF Spec

LEMMA HiddenHolds == IInv => BlockedStaysHidden
<1> SUFFICES ASSUME IInv, up, NEW v \in shown.blocked \cup saved.blocked,
                    NEW x \in {v} \cup OnBlocked({v}), NEW search \in BOOLEAN, NEW keys \in SUBSET Keys,
                    Recognisable(x, search, keys)
             PROVE  ~Serves(x, search, keys)
  BY DEF BlockedStaysHidden
<1>1. v \in Volumes /\ v \in remembered
  BY DEF IInv, Typed, Known, Rows
<1>2. Filters
  BY <1>1 DEF Filters
<1>3. x \in Issues => VolumeOf[x] = v
  BY <1>1, ListsAssumption DEF OnBlocked
<1>4. x \notin Issues => x = v
  BY DEF OnBlocked
<1>5. IsBlocked(x, search, keys)
  BY <1>1, <1>3, <1>4 DEF IsBlocked, Recognisable
<1>6. QED
  BY <1>2, <1>5 DEF Serves

\* What the table of blocked volumes names is not served, nor are its issues, between
\* any two edits, answers, rollbacks and restarts, in an answer that still carries the
\* keys which tell whose a result is (publishers.py:39-51).
THEOREM BlockedHidden == Spec => []BlockedStaysHidden
  BY IInvInit, IInvStep, HiddenHolds, PTL DEF Spec

LEMMA NothingLeft == IInv => PurgeLeavesNothing
  BY DEF IInv, Settled, PurgeLeavesNothing, OnBlocked

\* A purge that ends leaves nothing of what was blocked while it ran (db.py:2127-2163).
THEOREM PurgeComplete == Spec => []PurgeLeavesNothing
  BY IInvInit, IInvStep, NothingLeft, PTL DEF Spec

-----------------------------------------------------------------------------
(* Type correctness *)

\* What TypeOK says beyond Typed.
Types ==
  /\ up \in BOOLEAN /\ seeded \in BOOLEAN
  /\ remembered \subseteq Volumes
  /\ pending \subseteq [who : {"client", "backfill"}, what : Volumes \cup Issues]
  /\ edits \in 0..MaxEdits /\ troubles \in 0..MaxTroubles

\* A purge holds at most one batch, of what it deletes next.
PurgeTypes ==
  /\ purge.pc \in {"idle", "select issues", "issues", "select volumes", "volumes", "done"}
  /\ purge.ids \subseteq (IF purge.pc = "volumes" THEN Volumes ELSE Issues)
  /\ Cardinality(purge.ids) <= Batch

HistoryTypes == repaired \subseteq Volumes /\ steady \subseteq Volumes /\ purged \subseteq Volumes

\* There are finitely many volumes and issues: a batch of them has a size.
FiniteRows == IsFiniteSet(Volumes) /\ IsFiniteSet(Issues)

TInv == IInv /\ Types /\ PurgeTypes /\ HistoryTypes

LEMMA NoBatch == Cardinality({}) <= Batch /\ {} \subseteq Issues
  BY FS_EmptySet, ListsAssumption

LEMMA TInvInit == Init => TInv
<1> SUFFICES ASSUME Init PROVE TInv
  OBVIOUS
<1>1. Types
  <2>1. up = FALSE /\ seeded = FALSE /\ remembered = {} /\ pending = {} /\ edits = 0 /\ troubles = 0
    BY DEF Init
  <2>2. 0 \in 0..MaxEdits /\ 0 \in 0..MaxTroubles
    BY ListsAssumption
  <2>3. QED
    BY <2>1, <2>2 DEF Types
<1>2. PurgeTypes
  BY NoBatch DEF Init, NoPurge, PurgeTypes
<1>3. HistoryTypes
  BY DEF Init, HistoryTypes
<1>4. QED
  BY <1>1, <1>2, <1>3, IInvInit DEF TInv

\* The histories hold volumes, whatever the step.
LEMMA HistoriesTyped == ASSUME TInv, IInv', Followed PROVE HistoryTypes'
<1>1. saved'.blocked \subseteq Volumes /\ shown'.named \subseteq Volumes
  BY DEF IInv, Typed, Rows
<1>2. purge.pc = "volumes" => purge.ids \subseteq Volumes
  BY DEF TInv, PurgeTypes
<1>3. QED
  BY <1>1, <1>2 DEF Followed, Follow, TInv, HistoryTypes

LEMMA Counts ==
  ASSUME TInv
  PROVE  /\ edits < MaxEdits => edits + 1 \in 0..MaxEdits
         /\ Trouble => troubles' \in 0..MaxTroubles
  BY ListsAssumption DEF TInv, Types, Trouble

LEMMA StartTyped == ASSUME TInv, IInv', Start \/ Restart PROVE Types' /\ PurgeTypes'
<1>1. shown'.blocked \subseteq Volumes
  BY DEF IInv, Typed, Rows
<1>2. CASE Start
  BY <1>1, <1>2 DEF Start, TInv, Types, PurgeTypes
<1>3. CASE Restart
  BY <1>3, Counts, NoBatch DEF Restart, NoPurge, TInv, Types, PurgeTypes
<1>4. QED
  BY <1>2, <1>3

LEMMA AskTyped ==
  ASSUME TInv, NEW x \in Volumes \cup Issues, AskClient(x) \/ AskBackfill(x) PROVE Types' /\ PurgeTypes'
<1>1. PICK who \in {"client", "backfill"} : Ask(who, x)
  BY DEF AskClient, AskBackfill
<1>2. pending' = pending \cup {[who |-> who, what |-> x]}
      /\ UNCHANGED <<up, seeded, remembered, purge, edits, troubles>>
  BY <1>1 DEF Ask
<1>3. [who |-> who, what |-> x] \in [who : {"client", "backfill"}, what : Volumes \cup Issues]
  OBVIOUS
<1>4. pending' \subseteq [who : {"client", "backfill"}, what : Volumes \cup Issues]
  BY <1>2, <1>3 DEF TInv, Types
<1>5. QED
  BY <1>2, <1>4 DEF TInv, Types, PurgeTypes

LEMMA ArriveTyped ==
  ASSUME TInv, NEW a \in pending, ArriveClient(a) \/ ArriveBackfill(a) PROVE Types' /\ PurgeTypes'
<1>1. Arrive(a)
  BY DEF ArriveClient, ArriveBackfill
<1>2. NowRemembered(a.what) \subseteq Volumes
  BY DEF NowRemembered, TInv, Types
<1>3. QED
  BY <1>1, <1>2 DEF Arrive, TInv, Types, PurgeTypes

LEMMA RowsTyped ==
  ASSUME TInv, CommitRows \/ \E v \in Volumes : Repair(v) PROVE Types' /\ PurgeTypes'
  BY DEF CommitRows, Repair, TInv, Types, PurgeTypes

LEMMA EditTyped ==
  ASSUME TInv, IInv', EditFails \/ \E changes \in Changes : EditLists(changes) PROVE Types' /\ PurgeTypes'
<1>1. shown'.blocked \subseteq Volumes
  BY DEF IInv, Typed, Rows
<1>2. CASE EditFails
  BY <1>2, Counts DEF EditFails, TInv, Types, PurgeTypes
<1>3. CASE \E changes \in Changes : EditLists(changes)
  BY <1>1, <1>3, Counts DEF EditLists, TInv, Types, PurgeTypes
<1>4. QED
  BY <1>2, <1>3

\* A batch is of what was found, and no larger than it may be.
LEMMA BatchFits ==
  ASSUME NEW found, IsFiniteSet(found), NEW ids \in Batches(found)
  PROVE  ids \subseteq found /\ Cardinality(ids) <= Batch
<1>1. Cardinality(found) \in Nat /\ Batch \in Nat
  BY FS_CardinalityType, ListsAssumption
<1>2. QED
  BY <1>1 DEF Batches

LEMMA PurgeTyped == ASSUME FiniteRows, TInv, StartPurge \/ Purging PROVE Types' /\ PurgeTypes'
<1>1. troubles' = troubles /\ PurgeKeeps
  BY DEF StartPurge, Purging, SelectIssues, DeleteIssues, SelectVolumes, DeleteVolumes, LockedOut, EndPurge
<1>2. Types'
  BY <1>1 DEF PurgeKeeps, TInv, Types
<1>3. ASSUME purge' = NoPurge \/ \E pc \in {"select issues", "select volumes", "done"} : PurgeAt(pc, {})
      PROVE  PurgeTypes'
  <2>1. PICK pc \in {"idle", "select issues", "select volumes", "done"} : purge' = [pc |-> pc, ids |-> {}]
    BY <1>3 DEF PurgeAt, NoPurge
  <2>2. /\ purge'.ids = {} /\ purge'.pc # "volumes"
        /\ purge'.pc \in {"idle", "select issues", "issues", "select volumes", "volumes", "done"}
    BY <2>1
  <2>3. Cardinality(purge'.ids) <= Batch /\ purge'.ids \subseteq Issues
    BY <2>2, NoBatch
  <2>4. QED
    BY <2>2, <2>3 DEF PurgeTypes
<1>4. ASSUME NEW ids \in Batches(saved.issues \cap OnBlocked(saved.blocked)), PurgeAt("issues", ids)
      PROVE  PurgeTypes'
  <2>1. saved.issues \cap OnBlocked(saved.blocked) \subseteq Issues
    BY DEF OnBlocked
  <2>2. ids \subseteq Issues /\ Cardinality(ids) <= Batch
    BY <2>1, BatchFits, FS_Subset DEF FiniteRows
  <2>3. QED
    BY <1>4, <2>2 DEF PurgeAt, PurgeTypes
<1>5. ASSUME NEW ids \in Batches(saved.volumes \cap saved.blocked), PurgeAt("volumes", ids)
      PROVE  PurgeTypes'
  <2>1. saved.volumes \cap saved.blocked \subseteq Volumes
    BY DEF TInv, IInv, Typed, Rows
  <2>2. ids \subseteq Volumes /\ Cardinality(ids) <= Batch
    BY <2>1, BatchFits, FS_Subset DEF FiniteRows
  <2>3. QED
    BY <1>5, <2>2 DEF PurgeAt, PurgeTypes
<1>6. PurgeTypes'
  BY <1>3, <1>4, <1>5
     DEF StartPurge, Purging, SelectIssues, DeleteIssues, SelectVolumes, DeleteVolumes, LockedOut, EndPurge
<1>7. QED
  BY <1>2, <1>6

LEMMA TInvStep == ASSUME FiniteRows PROVE TInv /\ [Next]_vars => TInv'
<1> SUFFICES ASSUME TInv, [Next]_vars PROVE TInv'
  OBVIOUS
<1>1. IInv'
  BY IInvStep DEF TInv
<1>2. CASE UNCHANGED vars
  BY <1>1, <1>2 DEF vars, rows, TInv, Types, PurgeTypes, HistoryTypes
<1>3. CASE Next
  <2>1. Types' /\ PurgeTypes'
    BY <1>1, <1>3, StartTyped, AskTyped, ArriveTyped, RowsTyped, EditTyped, PurgeTyped DEF Next, Step
  <2>2. HistoryTypes'
    <3>1. Followed
      BY <1>3 DEF Next, Followed
    <3>2. QED
      BY <1>1, <3>1, HistoriesTyped
  <2>3. QED
    BY <1>1, <2>1, <2>2 DEF TInv
<1>4. QED
  BY <1>2, <1>3

\* Every variable keeps its type: what is remembered and what the histories name are
\* volumes, and a purge never holds more than one batch (db.py's _PURGE_BATCH).
THEOREM TypeCorrect == ASSUME FiniteRows PROVE Spec => []TypeOK
<1>1. TInv => TypeOK
  BY DEF TInv, IInv, Typed, Types, PurgeTypes, HistoryTypes, TypeOK
<1>2. QED
  BY <1>1, TInvInit, TInvStep, PTL DEF Spec

=============================================================================
