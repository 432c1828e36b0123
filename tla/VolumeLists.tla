---------------------------- MODULE VolumeLists ----------------------------
(***************************************************************************)
(* A volume's issue list (list_issues in routes/api.py): once the whole    *)
(* list was fetched, lookups are answered from the stored issues, also     *)
(* with "no such issue".  Clients and the pending worker fetch it, one at  *)
(* a time; other lookups are forwarded as they are.                        *)
(*                                                                         *)
(* One volume that is not blocked, and no CACHE_CUTOFF_YEAR (with one no   *)
(* list is fetched).  Every write commits at once.  Lookups answered from  *)
(* what is stored, and those that ask only the cache, change nothing.      *)
(***************************************************************************)
EXTENDS Integers, Sequences, FiniteSets, Functions, SequencesExt

CONSTANTS
  VolumeIssues,
  Numbers,   \* issues that are looked up by their number
  ListClients,
  Worker,    \* the pending worker
  ListPageSize,  \* _ISSUES_PAGE_SIZE
  MaxIssues, \* _VOLUME_REFRESH_MAX_ISSUES
  First,     \* ComicVine's list at first
  MaxListEdits,  \* bound: issues ComicVine adds or removes
  MaxListTroubles \* bound: refused or failed calls, cancelled runs, restarts

Whole == "whole volume"
Filters == {Whole} \cup Numbers

ASSUME VolumeAssumption ==
  /\ Numbers \subseteq VolumeIssues /\ Whole \notin VolumeIssues
  /\ Worker \notin ListClients
  /\ ListPageSize \in Nat \ {0} /\ MaxIssues \in Nat
  /\ First \in Seq(VolumeIssues) /\ IsInjective(First)
  /\ {MaxListEdits, MaxListTroubles} \subseteq Nat

VARIABLES
  listing,  \* ComicVine's list of the volume's issues, in the order of its pages
  stored,   \* its issues in cv_issue
  count,    \* count_of_issues in its row, 0 without a row
  synced,   \* it was marked in cv_volume_issue_sync less than 24 hours ago
  negative, \* lookups ComicVine answered with nothing, less than 24 hours ago
  queued,   \* lookups and refreshes in the pending-fetch queue
  lock,     \* _volume_refresh_locks: who holds it, and those who wait, in order
  task,     \* client or worker -> what it does
  promised, \* history: issues ComicVine had when the list was read, not evicted since
  listEdits,
  listTroubles

entries == <<negative, queued>>
listRows == <<stored, count, synced, promised>>
listVars == <<listing, listRows, entries, lock, task, listEdits, listTroubles>>

Readers == ListClients \cup {Worker}
Refresh == "refresh"

\* at: "waiting" for the lock, "paging" the list, or "asking" for the lookup itself;
\* served: there are issues to answer with already; had: history, what ComicVine had at
\* the first page, empty when that changed since.
NoTask == [at |-> "idle", filter |-> Whole, served |-> FALSE, offset |-> 0, had |-> {}]

ListInit ==
  /\ listing = First
  /\ stored = {} /\ count = 0 /\ synced = FALSE
  /\ negative = {} /\ queued = {}
  /\ lock = <<>>
  /\ task = [r \in Readers |-> NoTask]
  /\ promised = {}
  /\ listEdits = 0 /\ listTroubles = 0

ListTrouble == listTroubles < MaxListTroubles /\ listTroubles' = listTroubles + 1

\* volume_issues_complete
Complete == synced \/ (count > 0 /\ Cardinality(stored) >= count)

-----------------------------------------------------------------------------
(* ComicVine and the other jobs *)

EditList(list) ==
  /\ listEdits < MaxListEdits
  /\ listEdits' = listEdits + 1
  /\ listing' = list
  /\ task' = [r \in Readers |-> [task[r] EXCEPT !.had = {}]]
  /\ UNCHANGED <<listRows, entries, lock, listTroubles>>

Edits == {InsertAt(listing, k, i) : k \in 1..(Len(listing) + 1), i \in VolumeIssues \ Range(listing)}
         \cup {RemoveAt(listing, k) : k \in 1..Len(listing)}

\* Sync and backfills store issues and the volume's row.
StoreIssue(i) ==
  /\ i \in Range(listing) \ stored
  /\ stored' = stored \cup {i}
  /\ UNCHANGED <<listing, count, synced, promised, entries, lock, task, listEdits, listTroubles>>

StoreVolume ==
  /\ count # Len(listing)
  /\ count' = Len(listing)
  /\ UNCHANGED <<listing, stored, synced, promised, entries, lock, task, listEdits, listTroubles>>

\* Old issues that were not accessed; then volumes without issues.
EvictIssues(old) ==
  /\ old # {} /\ old \subseteq stored
  /\ stored' = stored \ old
  /\ promised' = promised \ old
  /\ task' = [r \in Readers |-> [task[r] EXCEPT !.had = @ \ old]]
  /\ count' \in IF stored' = {} THEN {0, count} ELSE {count}
  /\ UNCHANGED <<listing, synced, entries, lock, listEdits, listTroubles>>

DayPasses ==
  /\ synced \/ negative # {}
  /\ \E old \in SUBSET negative : negative' = negative \ old
  /\ synced' \in {synced, FALSE}
  /\ promised' = IF synced' THEN promised ELSE {}
  /\ UNCHANGED <<listing, stored, count, queued, lock, task, listEdits, listTroubles>>

-----------------------------------------------------------------------------
(* list_issues, up to its first call *)

Lookup(c, f, noCache) ==
  /\ task[c] = NoTask
  /\ \/ /\ noCache
        /\ task' = [task EXCEPT ![c] = [NoTask EXCEPT !.at = "asking", !.filter = f]]
        /\ UNCHANGED lock
     \/ /\ ~noCache
        /\ f \notin stored /\ ~Complete /\ f \notin negative
        /\ task' = [task EXCEPT ![c] = [NoTask EXCEPT !.at = "waiting", !.filter = f,
                                                      !.served = f = Whole /\ stored # {}]]
        /\ lock' = Append(lock, c)
  /\ UNCHANGED <<listing, listRows, entries, listEdits, listTroubles>>

\* The pending worker's: _fetch_volume_issues, _fetch_issues_filter.
Fetch(what) ==
  /\ what \in queued
  /\ task[Worker] = NoTask
  /\ IF what = Refresh
     THEN /\ task' = [task EXCEPT ![Worker] = [NoTask EXCEPT !.at = "waiting"]]
          /\ lock' = Append(lock, Worker)
     ELSE /\ task' = [task EXCEPT ![Worker] = [NoTask EXCEPT !.at = "asking", !.filter = what]]
          /\ UNCHANGED lock
  /\ UNCHANGED <<listing, listRows, entries, listEdits, listTroubles>>

-----------------------------------------------------------------------------
(* How a refresh ends; it lets go of the lock *)

NotReleased == lock
Released == Tail(lock)

\* A client's lookup that could not be answered is asked by itself.
AskItself(r) == [task[r] EXCEPT !.at = "asking", !.had = {}]
RefreshEnds(r, outcome) ==
  LET asks == /\ r # Worker /\ outcome = "skipped"
              /\ ~task[r].served /\ task[r].filter \notin negative
  IN  /\ lock' = Released
      /\ task' = [task EXCEPT ![r] = IF asks THEN AskItself(r) ELSE NoTask]
      /\ queued' = IF outcome = "rate_limited" THEN queued \cup {Refresh}
                   ELSE IF r = Worker THEN queued \ {Refresh} ELSE queued
      /\ UNCHANGED negative

Insert(issues) == stored' = stored \cup issues /\ UNCHANGED count

\* mark_volume_issues_synced
MarkSynced(r, had) == synced' = TRUE /\ promised' = had

-----------------------------------------------------------------------------
(* _refresh_volume_issues *)

\* The lock is gained: somebody else may have fetched the list meanwhile.
NothingNew == FALSE
FetchedMeanwhile == Complete

LockGained(r) ==
  /\ task[r].at = "waiting"
  /\ Head(lock) = r
  /\ \/ FetchedMeanwhile /\ RefreshEnds(r, "complete")
     \/ ~FetchedMeanwhile /\ count > MaxIssues /\ RefreshEnds(r, "skipped")
     \/ /\ ~FetchedMeanwhile /\ count <= MaxIssues
        /\ task' = [task EXCEPT ![r].at = "paging"]
        /\ UNCHANGED <<entries, lock>>
  /\ UNCHANGED <<listing, listRows, listEdits, listTroubles>>

PageAt(offset) == SubSeq(listing, offset + 1, Min({Len(listing), offset + ListPageSize}))
LastPageShort(offset) == offset + 1 >= Len(listing)
LastPage(offset) == offset >= Len(listing)

\* A page arrives, or "not found" for an empty list.
Page(r) ==
  /\ task[r].at = "paging"
  /\ \E page \in {PageAt(task[r].offset)} :
       LET offset == task[r].offset + Len(page)
           had == IF task[r].offset = 0 THEN Range(listing) ELSE task[r].had
       IN  /\ Insert(Range(page))
           /\ \/ /\ Len(listing) > MaxIssues
                 /\ RefreshEnds(r, "skipped")
                 /\ UNCHANGED <<synced, promised>>
              \/ /\ Len(listing) <= MaxIssues
                 /\ page = <<>> \/ LastPage(offset)
                 /\ MarkSynced(r, had)
                 /\ RefreshEnds(r, "complete")
              \/ /\ Len(listing) <= MaxIssues
                 /\ page # <<>> /\ ~LastPage(offset)
                 /\ task' = [task EXCEPT ![r].offset = offset, ![r].had = had]
                 /\ UNCHANGED <<synced, promised, entries, lock>>
  /\ UNCHANGED <<listing, listEdits, listTroubles>>

PageFails(r, outcome) ==
  /\ task[r].at = "paging"
  /\ ListTrouble
  /\ RefreshEnds(r, outcome)
  /\ UNCHANGED <<listing, listRows, listEdits>>

-----------------------------------------------------------------------------
(* The lookup itself *)

AskEnds(r) == task' = [task EXCEPT ![r] = NoTask]

\* The first page of the whole list, or the issue, if there is one; the worker's
\* lookup leaves the queue.
Answered(r) ==
  LET f == task[r].filter
      found == IF f = Whole THEN Range(PageAt(0)) ELSE {f} \cap Range(listing)
  IN  /\ task[r].at = "asking"
      /\ Insert(found)
      /\ negative' = IF found = {} THEN negative \cup {f} ELSE negative
      /\ queued' = IF r = Worker THEN queued \ {f} ELSE queued
      /\ AskEnds(r)
      /\ UNCHANGED <<listing, synced, promised, lock, listEdits, listTroubles>>

\* A refused one is queued, or stays; a failed one stays, if it was queued.
AskFails(r, outcome) ==
  /\ task[r].at = "asking"
  /\ ListTrouble
  /\ queued' = IF outcome = "rate_limited" THEN queued \cup {task[r].filter} ELSE queued
  /\ AskEnds(r)
  /\ UNCHANGED <<listing, listRows, negative, lock, listEdits>>

\* An answer that is not JSON, or the worker's run is cancelled, also while it waits.
Raises(r) ==
  /\ task[r] # NoTask
  /\ task[r].at = "waiting" => r = Worker
  /\ ListTrouble
  /\ task' = [task EXCEPT ![r] = NoTask]
  /\ lock' = RemoveFirst(lock, r)
  /\ UNCHANGED <<listing, listRows, entries, listEdits>>

ListRestart ==
  /\ ListTrouble
  /\ task' = [r \in Readers |-> NoTask]
  /\ lock' = <<>>
  /\ UNCHANGED <<listing, listRows, entries, listEdits>>

Failures == {"rate_limited", "skipped"}

ListNext ==
  \/ \E list \in Edits : EditList(list)
  \/ \E i \in VolumeIssues : StoreIssue(i)
  \/ StoreVolume \/ DayPasses \/ ListRestart
  \/ \E old \in SUBSET VolumeIssues : EvictIssues(old)
  \/ \E c \in ListClients, f \in Filters, noCache \in BOOLEAN : Lookup(c, f, noCache)
  \/ \E what \in Filters \cup {Refresh} : Fetch(what)
  \/ \E r \in Readers :
       \/ LockGained(r) \/ Page(r) \/ Answered(r) \/ Raises(r)
       \/ \E outcome \in Failures : PageFails(r, outcome) \/ AskFails(r, outcome)

\* The loop wakes who waits for the lock, and ComicVine's answers arrive.
ListFairness ==
  \A r \in Readers : WF_listVars(LockGained(r)) /\ WF_listVars(Page(r)) /\ WF_listVars(Answered(r))

ListSpec == ListInit /\ [][ListNext]_listVars /\ ListFairness

-----------------------------------------------------------------------------
\* Types; the queue of the lock holds readers, and what is queued, remembered as not
\* found or stored is of this volume.
ListTypeOK ==
  /\ listing \in Seq(VolumeIssues)
  /\ stored \subseteq VolumeIssues /\ promised \subseteq VolumeIssues
  /\ count \in Nat /\ synced \in BOOLEAN
  /\ negative \subseteq Filters /\ queued \subseteq Filters \cup {Refresh}
  /\ lock \in Seq(Readers)
  /\ task \in [Readers -> [at : {"idle", "waiting", "paging", "asking"}, filter : Filters,
                           served : BOOLEAN, offset : Nat, had : SUBSET VolumeIssues]]
  /\ listEdits \in 0..MaxListEdits /\ listTroubles \in 0..MaxListTroubles

\* While the mark lasts, every issue ComicVine had when the list was read is stored, so
\* "no such issue" is a true answer: over stops in the middle of the list, other
\* requests, edits and eviction; except for issues evicted since, and for a list that
\* changed between its pages (routes/api.py:1127-1163).
SyncedIsWhole == synced => promised \subseteq stored

\* No request reads the list again while the mark of another one lasts, however they
\* waited for each other (routes/api.py:1103, 1135-1137).
ListReadOnce == \A r \in Readers : task[r].at = "paging" => ~synced

\* Every lookup is answered in the end: a request that stops, fails or is cancelled
\* lets go of the lock for those behind it.
EveryLookupEnds == \A r \in Readers : task[r].at # "idle" ~> task[r].at = "idle"
=============================================================================
