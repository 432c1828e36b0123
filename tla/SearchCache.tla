---------------------------- MODULE SearchCache ----------------------------
(***************************************************************************)
(* Cached searches (search in routes/api.py): the pages a search needs are *)
(* fetched before it is answered, the rest by a background task of the     *)
(* same request; queued searches are fetched by the pending worker.  An    *)
(* entry answers until more matching volumes are stored than it holds; a   *)
(* complete entry also answers narrower searches.                          *)
(*                                                                         *)
(* Searches for volumes, by their queries; every write commits at once.    *)
(* Searches answered from the cache or from local rows, and those that ask *)
(* only the cache, change nothing but for the entry of a narrower search.  *)
(***************************************************************************)
EXTENDS Integers, Sequences, FiniteSets, Functions, SequencesExt

CONSTANTS
  Queries,
  Volumes,
  Hits,       \* query -> volumes ComicVine finds with it: those with one of its words
  Named,      \* query -> volumes whose name contains it
  Worded,     \* query -> volumes whose name has all its words
  Broader,    \* query -> queries that are part of it, of its words or in the middle of one
  Clients,
  Worker,     \* the pending worker
  PageSize, MaxPages, \* _SEARCH_PAGE_SIZE, search_max_pages
  First,      \* what ComicVine has at first
  MaxEdits,   \* bound: volumes ComicVine adds or removes
  MaxSearchTroubles \* bound: requests that fail or raise, restarts

ASSUME SearchAssumption ==
  /\ {Hits, Named, Worded} \subseteq [Queries -> SUBSET Volumes]
  /\ \A q \in Queries : /\ Broader[q] \subseteq Queries \ {q}
                        /\ \A b \in Broader[q] : Named[q] \subseteq Named[b]
  /\ Worker \notin Clients
  /\ {PageSize, MaxPages} \subseteq Nat \ {0}
  /\ First \in Seq(Volumes) /\ IsInjective(First)
  /\ {MaxEdits, MaxSearchTroubles} \subseteq Nat

VARIABLES
  ranking,  \* ComicVine's volumes in the order of its answers
  cache,    \* query -> entry of cv_response_cache
  negative, \* queries whose "nothing found" is not older than 24 hours
  local,    \* volumes in cv_volume, of those a query could count
  filling,  \* _search_fills_in_progress
  reading,  \* request or worker -> the pages it fetches
  queued,   \* searches in the pending-fetch queue
  edits,
  searchTroubles

stored == <<cache, negative, local, queued>>
searchVars == <<ranking, stored, filling, reading, edits, searchTroubles>>

Readers == Clients \cup {Worker}

\* had, torn, missed: histories: all that ComicVine had when the first page was made,
\* whether what it finds changed before the last one was, and what a search of its own
\* would have found that the broader ones it is derived from do not find.
Entry(results, total, had, torn) ==
  [results |-> results, total |-> total, had |-> had, torn |-> torn, missed |-> {}]
NoEntry == Entry(<<>>, -1, {}, FALSE)

\* as: "search", "fill" or "worker"; pages next to last are to be fetched; before:
\* results there were when the task began.
Task(as, q, next, last, before, got) ==
  [as |-> as, query |-> q, next |-> next, last |-> last, before |-> before, got |-> got]
Reads(as, q, last) == Task(as, q, 1, last, 0, Entry(<<>>, 0, {}, FALSE))
NoTask == Reads("idle", "none", 1)

SearchInit ==
  /\ ranking = First
  /\ cache = [q \in Queries |-> NoEntry]
  /\ negative = {} /\ local = {} /\ queued = {}
  /\ filling = {}
  /\ reading = [r \in Readers |-> NoTask]
  /\ edits = 0 /\ searchTroubles = 0

\* Volumes that are ever counted against an entry.
Countable == UNION {Worded[q] : q \in Queries}

\* What of a list is in a set, in its order.
Only(list, some) ==
  LET upto[n \in 0..Len(list)] ==
        IF n = 0 THEN <<>>
        ELSE IF list[n] \in some THEN Append(upto[n - 1], list[n]) ELSE upto[n - 1]
  IN  upto[Len(list)]

Found(list, q) == Only(list, Hits[q])

SearchTrouble == searchTroubles < MaxSearchTroubles /\ searchTroubles' = searchTroubles + 1

-----------------------------------------------------------------------------
(* ComicVine and the other jobs *)

\* A volume appears or disappears: pages fetched before and after do not fit.
Torn(task) ==
  Task(task.as, task.query, task.next, task.last, task.before,
       Entry(task.got.results, task.got.total, task.got.had, TRUE))
Edit(list) ==
  /\ edits' = edits + 1
  /\ ranking' = list
  /\ reading' = [r \in Readers |->
       IF reading[r].next > 1 /\ Found(list, reading[r].query) # Found(ranking, reading[r].query)
       THEN Torn(reading[r]) ELSE reading[r]]
  /\ UNCHANGED <<stored, filling, searchTroubles>>

Edits == {InsertAt(ranking, k, v) : k \in 1..(Len(ranking) + 1), v \in Volumes \ Range(ranking)}
         \cup {RemoveAt(ranking, k) : k \in 1..Len(ranking)}

\* Sync and backfills store volumes, too.
Sync(v) ==
  /\ v \in (Countable \cap Range(ranking)) \ local
  /\ local' = local \cup {v}
  /\ UNCHANGED <<ranking, cache, negative, queued, filling, reading, edits, searchTroubles>>

\* 24 hours pass over what was not found.
ForgetNothing(q) ==
  /\ q \in negative
  /\ negative' = negative \ {q}
  /\ UNCHANGED <<ranking, cache, local, queued, filling, reading, edits, searchTroubles>>

\* An entry gets past SEARCH_CACHE_TTL_DAYS.
Expire(q) ==
  /\ cache[q] # NoEntry
  /\ cache' = [cache EXCEPT ![q] = NoEntry]
  /\ UNCHANGED <<ranking, negative, local, queued, filling, reading, edits, searchTroubles>>

-----------------------------------------------------------------------------
(* The cache *)

\* count_volumes_fts: stored volumes with all words of the query.
Outgrown(q) == q \notin filling /\ Cardinality(local \cap Worded[q]) > Len(cache[q].results)
Answers(q) == cache[q] # NoEntry /\ ~Outgrown(q) /\ IsInjective(cache[q].results)

\* cache_find_superset_search: the first of the broader complete entries, in no order
\* of ours, if it has no volume twice.
Complete(b) == cache[b] # NoEntry /\ Len(cache[b].results) >= cache[b].total
\* Where b ends inside a word of q, ComicVine, that looks for words, may find volumes of
\* the name q with q and not with b.
Narrowed(b, q) ==
  LET some == Only(cache[b].results, Named[q])
  IN  [cache[b] EXCEPT !.results = some, !.total = Len(some),
                       !.missed = @ \cup ((Named[q] \cap Hits[q]) \ Hits[b])]
AnyBroader(q) == {b \in Broader[q] : cache[b] # NoEntry}
Supersets(q) == {b \in Broader[q] : Complete(b)}

Put(q, entry) == cache' = [cache EXCEPT ![q] = entry]
Store(q, entry) ==
  /\ Put(q, entry)
  /\ local' = local \cup (Countable \cap Range(entry.results))

-----------------------------------------------------------------------------
(* A search, up to its first call *)

\* Not in the cache, but part of a broader search: the derived entry is stored.
Derive(q) ==
  /\ ~Answers(q)
  /\ \E b \in Supersets(q) :
       /\ IsInjective(Narrowed(b, q).results)
       /\ Put(q, Narrowed(b, q))
  /\ UNCHANGED <<ranking, negative, local, queued, filling, reading, edits, searchTroubles>>

\* need: the pages that cover offset and limit.
Search(c, q, noCache, need) ==
  /\ reading[c] = NoTask
  /\ noCache \/ ( /\ ~Answers(q)
                  /\ Supersets(q) # {} => \E b \in Supersets(q) : ~IsInjective(Narrowed(b, q).results)
                  /\ q \notin negative )
  /\ reading' = [reading EXCEPT ![c] = Reads("search", q, need)]
  /\ UNCHANGED <<ranking, stored, filling, edits, searchTroubles>>

\* The worker fetches the first page of a queued search.
Fetch(q) ==
  /\ q \in queued
  /\ reading[Worker] = NoTask
  /\ reading' = [reading EXCEPT ![Worker] = Reads("worker", q, 1)]
  /\ UNCHANGED <<ranking, stored, filling, edits, searchTroubles>>

-----------------------------------------------------------------------------
(* How a search, a fill and a fetch of the worker end *)

More(task, outcome) ==
  /\ outcome # "rate_limited"
  /\ Len(task.got.results) = task.last * PageSize
  /\ Len(task.got.results) < task.got.total
  /\ task.last < MaxPages

FillsAgain(q) == TRUE
MayFill(q) == q \notin filling

SearchEnds(r, task, outcome) ==
  LET q == task.query
      nothing == task.got.results = <<>>
      fill == ~nothing /\ More(task, outcome) /\ MayFill(q)
  IN  /\ negative' = IF nothing /\ outcome = "ok" THEN negative \cup {q} ELSE negative
      /\ queued' = IF nothing /\ outcome = "rate_limited" THEN queued \cup {q} ELSE queued
      /\ IF nothing THEN UNCHANGED <<cache, local>> ELSE Store(q, task.got)
      /\ filling' = IF fill THEN filling \cup {q} ELSE filling
      /\ reading' = [reading EXCEPT ![r] =
           IF fill THEN Task("fill", q, task.last + 1, MaxPages, Len(task.got.results), task.got)
           ELSE NoTask]

\* _fill_search_cache; "finally" takes the mark away, whatever happened.
StaysMarked(q) == filling
Unmarked(q) == filling \ {q}

FillEnds(r, task) ==
  /\ IF Len(task.got.results) > task.before THEN Store(task.query, task.got)
     ELSE UNCHANGED <<cache, local>>
  /\ filling' = Unmarked(task.query)
  /\ reading' = [reading EXCEPT ![r] = NoTask]
  /\ UNCHANGED <<negative, queued>>

\* Refused and failed fetches stay queued; PendingQueue says how long.
WorkerEnds(task, outcome) ==
  LET nothing == task.got.results = <<>>
  IN  /\ IF nothing THEN UNCHANGED <<cache, local>> ELSE Store(task.query, task.got)
      /\ negative' = IF nothing /\ outcome = "ok" THEN negative \cup {task.query} ELSE negative
      /\ queued' = IF nothing /\ outcome # "ok" THEN queued ELSE queued \ {task.query}
      /\ reading' = [reading EXCEPT ![Worker] = NoTask]
      /\ UNCHANGED filling

Ends(r, task, outcome) ==
  \/ task.as = "search" /\ SearchEnds(r, task, outcome)
  \/ task.as = "fill" /\ FillEnds(r, task)
  \/ task.as = "worker" /\ WorkerEnds(task, outcome)

-----------------------------------------------------------------------------
(* _fetch_search_pages: one page *)

WithPage(task) ==
  LET list == Found(ranking, task.query)
      from == (task.next - 1) * PageSize
      page == SubSeq(list, from + 1, Min({Len(list), from + PageSize}))
      total == IF task.got.total = 0 THEN Len(list) ELSE task.got.total
  IN  Task(task.as, task.query, task.next + 1, task.last, task.before,
           Entry(task.got.results \o page, IF page = <<>> THEN task.got.total ELSE total,
                 IF task.next = 1 THEN Range(ranking) ELSE task.got.had, task.got.torn))

\* Of a task that just got a page: it was short, or nothing is left, or it was the last.
AllRead(task) ==
  \/ Len(task.got.results) < (task.next - 1) * PageSize
  \/ (task.next - 1) * PageSize >= task.got.total
  \/ task.next > task.last

Page(r) ==
  /\ reading[r] # NoTask
  /\ \E task \in {WithPage(reading[r])} :
       \/ AllRead(task) /\ Ends(r, task, "ok")
       \/ ~AllRead(task) /\ reading' = [reading EXCEPT ![r] = task] /\ UNCHANGED <<stored, filling>>
  /\ UNCHANGED <<ranking, edits, searchTroubles>>

\* No quota, a pause, or a request that failed: what there is so far is kept.
Stops(r, outcome) ==
  /\ reading[r] # NoTask
  /\ SearchTrouble
  /\ Ends(r, reading[r], outcome)
  /\ UNCHANGED <<ranking, edits>>

\* An answer that is not JSON, or the worker's run is cancelled.
Raises(r) ==
  /\ reading[r] # NoTask
  /\ SearchTrouble
  /\ reading' = [reading EXCEPT ![r] = NoTask]
  /\ filling' = IF reading[r].as = "fill" THEN Unmarked(reading[r].query) ELSE filling
  /\ UNCHANGED <<ranking, stored, edits>>

SearchRestart ==
  /\ SearchTrouble
  /\ reading' = [r \in Readers |-> NoTask]
  /\ filling' = {}
  /\ UNCHANGED <<ranking, stored, edits>>

SearchNext ==
  \/ edits < MaxEdits /\ \E list \in Edits : Edit(list)
  \/ \E v \in Volumes : Sync(v)
  \/ \E q \in Queries : ForgetNothing(q) \/ Expire(q) \/ Derive(q) \/ Fetch(q)
  \/ \E c \in Clients, q \in Queries, noCache \in BOOLEAN, need \in 1..MaxPages : Search(c, q, noCache, need)
  \/ \E r \in Readers : \/ Page(r)
                        \/ \E outcome \in {"rate_limited", "failed"} : Stops(r, outcome)
                        \/ Raises(r)
  \/ SearchRestart

\* ComicVine's answers arrive.
SearchFairness == \A r \in Readers : WF_searchVars(Page(r))

SearchSpec == SearchInit /\ [][SearchNext]_searchVars /\ SearchFairness

-----------------------------------------------------------------------------
\* Types; only volumes that could be counted are kept, and a task is of a query.
SearchTypeOK ==
  LET Entries == [results : Seq(Volumes), total : Int, had : SUBSET Volumes, torn : BOOLEAN,
                 missed : SUBSET Volumes]
  IN  /\ ranking \in Seq(Volumes)
      /\ cache \in [Queries -> Entries]
      /\ negative \subseteq Queries /\ queued \subseteq Queries /\ filling \subseteq Queries
      /\ local \subseteq Countable
      /\ reading \in [Readers -> [as : {"idle", "search", "fill", "worker"},
                                  query : Queries \cup {"none"}, next : Nat \ {0}, last : Nat \ {0},
                                  before : Nat, got : Entries]]
      /\ \A r \in Readers : reading[r].as = "idle" <=> reading[r] = NoTask
      /\ \A r \in Readers : reading[r].as # "idle" => reading[r].query \in Queries
      /\ edits \in 0..MaxEdits /\ searchTroubles \in 0..MaxSearchTroubles

\* An entry that passes for complete, and so answers narrower searches and needs no
\* more pages, holds every volume of that name that ComicVine had when its first page
\* was made, or that of the entry it was derived from, unless that changed between the
\* pages: also after fills, stops, the worker's first pages and searches that replaced
\* it while it was being filled (db.py:1644-1652, routes/api.py:646-671).  A derived
\* entry lacks what the broader search could not find (missed), though db.py:1634 calls
\* that one a superset.
CompleteMeansAll ==
  \A q \in Queries :
    Complete(q) /\ ~cache[q].torn =>
      Named[q] \cap Hits[q] \cap cache[q].had \subseteq Range(cache[q].results) \cup cache[q].missed

\* A query is marked exactly while one task fills it: two would spend its quota twice
\* and overwrite each other, a mark without a task would end its check for stale
\* entries (routes/api.py:564, 840).
OneFillPerSearch ==
  \A q \in Queries :
    LET fills == {r \in Readers : reading[r].as = "fill" /\ reading[r].query = q}
    IN  Cardinality(fills) = IF q \in filling THEN 1 ELSE 0

\* A mark is taken away again, however the task ends.
FillsEnd == \A q \in Queries : []<>(q \notin filling)
=============================================================================
