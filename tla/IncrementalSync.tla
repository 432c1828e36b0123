-------------------------- MODULE IncrementalSync --------------------------
(***************************************************************************)
(* The hourly sync of scheduler.py (_sync_window, _sync_incremental,       *)
(* _rewind_volume_sync): it walks what ComicVine changed since a stored    *)
(* watermark in time slices, page by page, and moves the watermark.        *)
(*                                                                         *)
(* ComicVine's list is alive: it is sorted by date_last_updated, pages are *)
(* counted from its start, and edits re-order it while it is being read.   *)
(* A request, its answer and the storing of the page are one action: what  *)
(* ComicVine edits in between does not change the page it has answered     *)
(* with, and the storing touches nothing that an edit looks at.            *)
(***************************************************************************)
EXTENDS Integers, FiniteSets

CONSTANTS
  Items,        \* issues or volumes; numbers, whose order breaks ties in time
  Chunk,        \* _SYNC_CHUNK, a slice (24 h)
  MaxChunks,    \* _SYNC_MAX_CHUNKS
  Overlap,      \* _SYNC_OVERLAP (1 h)
  Lookback,     \* _SYNC_INITIAL_LOOKBACK (72 h)
  Pad,          \* _SYNC_FUTURE_PAD (1 day)
  PageSize,     \* 100
  Skew,         \* ComicVine's clock minus UTC
  Lag,          \* an edit may be stamped this much in ComicVine's past
  FirstTime,    \* UTC when the model starts
  MaxTime,      \* bound: the clock stops here
  Targets,      \* the moments a rewind goes back to
  MaxTroubles   \* bound: requests that fail, runs cancelled, crashes

ASSUME SyncAssumption ==
  /\ Items \subseteq Nat
  /\ IsFiniteSet(Items)
  /\ {Chunk, MaxChunks, PageSize} \subseteq Nat \ {0}
  /\ {Overlap, Lookback, Pad, Lag, FirstTime, MaxTime, MaxTroubles} \subseteq Nat
  /\ Skew \in Int
  \* a rewind goes back a day at least
  /\ \A t \in Targets : t \in Nat /\ t <= FirstTime /\ t <= FirstTime + Skew
  /\ FirstTime <= MaxTime /\ FirstTime + Skew >= 0
  /\ Lag <= Overlap
  /\ Skew <= Pad

VARIABLES
  now,        \* UTC
  edited,     \* ComicVine: item -> its date_last_updated
  mark,       \* the stored watermark, or NoMark
  run,        \* the sync run in progress, or how the last one ended
  troubles,   \* how many requests or runs have failed
  current,    \* history: the items whose newest version was read and stored, and
              \* was so since the last rewind that reaches back to them
  shifted,    \* history: items outside current that an edit moved behind the walk
  raced,      \* history: items outside current that a rewind left behind the walk
  floor       \* history: the earliest start of a run since the first one that set a watermark

upstream == <<now, edited>>
past == <<current, shifted, raced, floor>>
vars == <<upstream, mark, run, troubles, past>>

NoMark == -1
CVNow == now + Skew
Never == MaxTime + Pad + 1

Stopped(reason) == [pc |-> "idle", stop |-> reason]
Paging == run.pc = "paging"

Smaller(x, y) == IF x <= y THEN x ELSE y
MaxStamp(S, least) ==
  CHOOSE x \in {edited[i] : i \in S} \cup {least} :
    \A y \in {edited[i] : i \in S} \cup {least} : x >= y

\* ComicVine's answer to the filter from|to, when the items' stamps are ed.
Listed(ed, from, to) == {i \in Items : from <= ed[i] /\ ed[i] <= to}
\* The position of i in the list S, sorted by stamp.
Rank(ed, S, i) == Cardinality({j \in S : ed[j] < ed[i] \/ (ed[j] = ed[i] /\ j <= i)})

SliceEnd == Smaller(run.slice + Chunk, run.to)
Slice == Listed(edited, run.slice, SliceEnd)
Page == {i \in Slice : LET k == Rank(edited, Slice, i)
                       IN  run.offset < k /\ k <= run.offset + PageSize}
Newest == MaxStamp(Page, run.latest)

Init ==
  /\ now = FirstTime
  /\ edited \in [Items -> 0..CVNow]
  /\ mark = NoMark
  /\ run = Stopped("none")
  /\ troubles = 0
  /\ current = {} /\ shifted = {} /\ raced = {}
  /\ floor = Never

-----------------------------------------------------------------------------
\* Where a run starts to read when the watermark is m.
StartAtMark(m) == IF m = NoMark THEN now - Lookback ELSE m
Start(m) == IF m = NoMark THEN now - Lookback ELSE m - Overlap

\* _sync_incremental reads the watermark and enters _sync_window.
BeginUpTo(end) ==
  /\ ~Paging
  /\ run' = [pc |-> "paging", slice |-> Start(mark), to |-> end,
             chunks |-> 0, offset |-> 0, latest |-> NoMark, mark |-> mark]
  /\ floor' = IF mark = NoMark THEN Start(mark) ELSE Smaller(floor, Start(mark))
  /\ UNCHANGED <<upstream, mark, troubles, current, shifted, raced>>
Begin == BeginUpTo(now + Pad)

\* The watermark is the newest stamp stored, if that is past the one the run read.
AdvanceWhole(latest) ==
  mark' = IF latest > run.mark /\ SliceEnd >= run.to THEN latest ELSE mark
Advance(latest) == mark' = IF latest > run.mark THEN latest ELSE mark

\* _sync_window stores a page and asks for the next one.
StorePage ==
  /\ current' = current \cup Page
  /\ shifted' = shifted \ Page
  /\ raced' = raced \ Page
  /\ UNCHANGED <<upstream, troubles, floor>>

\* _SYNC_MAX_CHUNKS slices are done with the one at hand.
AtRunLimitLate == run.chunks >= MaxChunks
AtRunLimit == run.chunks + 1 >= MaxChunks

LastPage == run.offset + PageSize >= Cardinality(Slice)

NextPage ==
  /\ Paging
  /\ ~LastPage
  /\ StorePage
  /\ run' = [run EXCEPT !.offset = @ + PageSize, !.latest = Newest]
  /\ UNCHANGED mark

\* The slice is read: go on with the next, or stop at the end or at the limit.
SliceDone ==
  /\ Paging
  /\ LastPage
  /\ StorePage
  /\ LET stop == IF SliceEnd >= run.to THEN "complete"
                 ELSE IF AtRunLimit THEN "run_limit" ELSE "none"
     IN  IF stop = "none"
         THEN /\ run' = [run EXCEPT !.slice = SliceEnd, !.chunks = @ + 1,
                                    !.offset = 0, !.latest = Newest]
              /\ UNCHANGED mark
         ELSE /\ Advance(Newest)
              /\ run' = Stopped(stop)

\* A request fails or is refused: the run keeps what it has stored so far.
RequestFailsSkipping ==
  /\ Paging
  /\ troubles < MaxTroubles
  /\ troubles' = troubles + 1
  /\ mark' = run.to
  /\ run' = Stopped("failed")
  /\ UNCHANGED <<upstream, past>>
RequestFails ==
  /\ Paging
  /\ troubles < MaxTroubles
  /\ troubles' = troubles + 1
  /\ Advance(run.latest)
  /\ run' = Stopped("failed")
  /\ UNCHANGED <<upstream, past>>

\* The run is cancelled or the process dies: the watermark stays.
Aborted ==
  /\ Paging
  /\ troubles < MaxTroubles
  /\ troubles' = troubles + 1
  /\ run' = Stopped("aborted")
  /\ UNCHANGED <<upstream, mark, past>>

\* What the walk in progress has passed, when the items' stamps are ed.
Passed(ed, i) ==
  /\ Paging
  /\ \/ ed[i] < run.slice
     \/ LET slice == Listed(ed, run.slice, SliceEnd)
        IN  i \in slice /\ Rank(ed, slice, i) <= run.offset

\* _rewind_volume_sync, at any moment: back to target, never forward.
Rewind(target) ==
  /\ mark' = IF mark = NoMark THEN target ELSE Smaller(mark, target)
  /\ floor' = IF mark = NoMark THEN Never ELSE floor
  /\ current' = {i \in current : edited[i] < target}
  /\ raced' = raced \cup {i \in Items \ current' : Passed(edited, i)}
  /\ UNCHANGED <<upstream, run, troubles, shifted>>

\* _sync_recent_issues, on demand: a walk of its own over a window of its own, which
\* stores what it reads and leaves the watermark alone.  A step is a page of it.
Resync(i) ==
  /\ current' = current \cup {i}
  /\ shifted' = shifted \ {i}
  /\ raced' = raced \ {i}
  /\ UNCHANGED <<upstream, mark, run, troubles, floor>>

-----------------------------------------------------------------------------
\* ComicVine: somebody edits item i, which moves it towards the end of the list.
Edit(i) ==
  \E stamp \in (CVNow - Lag)..CVNow :
    /\ stamp >= edited[i]
    /\ edited' = [edited EXCEPT ![i] = stamp]
    /\ current' = current \ {i}
    /\ raced' = raced \ {i}
    /\ shifted' = (shifted \ {i}) \cup {j \in Items \ current' : Passed(edited', j)}
    /\ UNCHANGED <<now, mark, run, troubles, floor>>

Tick ==
  /\ now < MaxTime
  /\ now' = now + 1
  /\ UNCHANGED <<edited, mark, run, troubles, past>>

Next ==
  \/ Begin \/ NextPage \/ SliceDone \/ RequestFails \/ Aborted
  \/ \E target \in Targets : Rewind(target)
  \/ \E i \in Items : Edit(i) \/ Resync(i)
  \/ Tick

\* The scheduler starts the next run, ComicVine answers, the clock goes on.
Fairness == WF_vars(Begin) /\ WF_vars(NextPage \/ SliceDone) /\ WF_vars(Tick)

Spec == Init /\ [][Next]_vars /\ Fairness

-----------------------------------------------------------------------------
Walk ==
  [pc : {"paging"}, slice : Int, to : Int, chunks : 0..(MaxChunks - 1),
   offset : Nat, latest : Int, mark : Int]

\* The values the variables range over.  A walk never leaves its window, nor
\* asks for a page of a list that was exhausted when it last looked.
TypeOK ==
  /\ now \in FirstTime..MaxTime
  /\ edited \in [Items -> 0..CVNow]
  /\ mark \in NoMark..CVNow
  /\ run \in Walk \cup {Stopped(s) : s \in {"none", "complete", "run_limit", "failed", "aborted"}}
  /\ Paging => run.slice <= run.to
  /\ troubles \in 0..MaxTroubles
  /\ current \subseteq Items
  /\ shifted \cup raced \subseteq Items \ current
  /\ floor \in Int

\* The items the next run will not read although their newest version is not
\* stored: behind the point it starts from, in the range runs have covered.
Missed == {i \in Items \ current : mark # NoMark /\ floor <= edited[i] /\ edited[i] < Start(mark)}

\* The watermark leaves no gap: whatever fails, is cancelled, is cut off by the
\* run limit or is stamped late by ComicVine, the next run still reads it.  Only
\* what an edit or a rewind moved behind the walk of a run in progress can be
\* missed (scheduler.py:1124-1129, 1147-1149).
NoGap == Missed \subseteq shifted \cup raced

\* How far a run that starts at the watermark comes within its slices.
Reach == Start(mark) + MaxChunks * Chunk

\* No run comes to i: it lies past the slices of a run, and nothing in them is newer
\* than the watermark, which therefore stays, so that the next run walks them again,
\* though scheduler.py:1016 says that a longer backlog continues on the next run.
OutOfReach(i) ==
  edited[i] > Reach /\ \A j \in Items : ~(mark < edited[j] /\ edited[j] <= Reach)

\* Nobody goes on rewinding for ever: a rewind is a job an operator starts.
RewindsEnd == <>[][~\E target \in Targets : Rewind(target)]_vars

\* Every change ComicVine makes in the range the sync covers arrives, over as many
\* runs as the run limit makes it take, unless it was moved behind a walk in progress
\* or lies beyond a whole run's slices without a change (scheduler.py:1070,
\* 1124-1129, 1147-1149).
EveryChangeArrives ==
  RewindsEnd =>
    \A i \in Items :
      mark # NoMark /\ i \notin current /\ edited[i] >= floor
        ~> i \in current \cup shifted \cup raced \/ OutOfReach(i)

=============================================================================
