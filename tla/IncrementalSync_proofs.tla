----------------------- MODULE IncrementalSync_proofs -----------------------
(***************************************************************************)
(* Proofs about IncrementalSync: types, and that the watermark leaves no   *)
(* gap, for any number of items, any slices, pages, clocks and failures.   *)
(***************************************************************************)
EXTENDS IncrementalSync, FiniteSetTheorems, TLAPS

\* Whatever the walk in progress has passed is stored, or known to have been moved
\* there, if it is in the range that is covered.
Walked ==
  Paging => \A i \in Items \ current :
              floor <= edited[i] /\ Passed(edited, i) => i \in shifted \cup raced

\* It has passed everything older than the newest stamp it will hand over, but for
\* the overlap; that stamp is one of ComicVine's, and not beyond the slice.
Ordered ==
  Paging => /\ \A i \in Items : edited[i] < run.latest - Overlap => Passed(edited, i)
            /\ NoMark <= run.latest /\ run.latest <= CVNow
            /\ run.latest = NoMark \/ run.latest <= SliceEnd

IInv == TypeOK /\ NoGap /\ Walked /\ Ordered

-----------------------------------------------------------------------------
(* Maxima and ranks *)

\* A finite set of integers has a greatest element.
LEMMA Greatest ==
  ASSUME NEW S \in SUBSET Int, IsFiniteSet(S), S # {}
  PROVE  \E m \in S : \A n \in S : m >= n
<1> DEFINE Above(m) == {n \in S : n > m}
           F == {Above(m) : m \in S}
<1>1. F # {} /\ F \subseteq SUBSET S
  OBVIOUS
<1>2. PICK T \in F : \A U \in F : ~(<<U, T>> \in StrictSubsetOrdering(S))
  <2>1. F # {} /\ F \subseteq FiniteSubsetsOf(S)
    BY <1>1, FS_FiniteSubsetsOfFinite
  <2> HIDE DEF F
  <2>2. QED
    BY <2>1, FS_StrictSubsetOrderingWellFounded, WFMin
<1>3. PICK m \in S : T = Above(m)
  BY <1>2
<1>4. ASSUME NEW n \in S, n > m PROVE FALSE
  <2>1. m \in Int /\ n \in Int
    OBVIOUS
  <2>2. Above(n) \in SUBSET Above(m) /\ n \in Above(m) /\ n \notin Above(n)
    <3>1. \A x \in S : x \in Int /\ (x > n => x > m) /\ ~(n > n)
      BY <1>4, <2>1
    <3>2. QED
      BY <1>4, <3>1
  <2>3. <<Above(n), Above(m)>> \in StrictSubsetOrdering(S)
    BY <2>2 DEF StrictSubsetOrdering
  <2>4. QED
    BY <1>2, <1>3, <2>3
<1>5. QED
  BY <1>4

\* MaxStamp is a maximum.
LEMMA MaxStampIsMax ==
  ASSUME TypeOK, NEW S \in SUBSET Items, NEW least \in Int
  PROVE  /\ MaxStamp(S, least) \in {edited[i] : i \in S} \cup {least}
         /\ MaxStamp(S, least) >= least
         /\ \A i \in S : MaxStamp(S, least) >= edited[i]
<1> DEFINE All == {edited[i] : i \in S} \cup {least}
<1>1. now \in Int /\ CVNow \in Int /\ \A i \in Items : edited[i] \in 0..CVNow
  BY SyncAssumption DEF TypeOK, CVNow
<1>2. IsFiniteSet({edited[i] : i \in S})
  <2>1. {edited[i] : i \in S} \in SUBSET (0..CVNow)
    <3> DEFINE Stamps == 0..CVNow
    <3>1. \A i \in S : edited[i] \in Stamps
      BY <1>1
    <3> HIDE DEF Stamps
    <3>2. {edited[i] : i \in S} \in SUBSET Stamps
      BY <3>1
    <3>3. QED
      BY <3>2 DEF Stamps
  <2>2. IsFiniteSet(0..CVNow)
    BY <1>1, FS_Interval
  <2>3. QED
    BY <2>1, <2>2, FS_Subset
<1>3. IsFiniteSet(All) /\ All \in SUBSET Int /\ All # {}
  BY <1>1, <1>2, FS_AddElement
<1>4. \E m \in All : \A n \in All : m >= n
  <2> HIDE DEF All
  <2> QED  BY <1>3, Greatest
<1>5. MaxStamp(S, least) \in All /\ \A n \in All : MaxStamp(S, least) >= n
  BY <1>4 DEF MaxStamp
<1>6. QED
  BY <1>5

\* Ranks count from one, and follow the stamps.
LEMMA Ranks ==
  ASSUME NEW ed \in [Items -> Int], NEW S \in SUBSET Items, NEW i \in S
  PROVE  /\ Rank(ed, S, i) \in Nat \ {0}
         /\ Rank(ed, S, i) <= Cardinality(S)
         /\ \A j \in S : ed[j] < ed[i] => Rank(ed, S, j) <= Rank(ed, S, i)
<1> DEFINE Upto(x) == {j \in S : ed[j] < ed[x] \/ (ed[j] = ed[x] /\ j <= x)}
<1>1. IsFiniteSet(S) /\ \A x \in S : Upto(x) \in SUBSET S
  BY SyncAssumption, FS_Subset
<1>2. \A x \in S : IsFiniteSet(Upto(x)) /\ Cardinality(Upto(x)) \in Nat
                   /\ Cardinality(Upto(x)) <= Cardinality(S)
  BY <1>1, FS_Subset, FS_CardinalityType
<1>3. i \in Upto(i)
  BY SyncAssumption
<1>4. Cardinality(Upto(i)) # 0
  BY <1>2, <1>3, FS_EmptySet
<1>5. ASSUME NEW j \in S, ed[j] < ed[i] PROVE Cardinality(Upto(j)) <= Cardinality(Upto(i))
  <2>1. Upto(j) \in SUBSET Upto(i)
    BY <1>5
  <2>2. QED
    BY <1>2, <2>1, FS_Subset
<1>6. \A x \in S : Rank(ed, S, x) = Cardinality(Upto(x))
  BY DEF Rank
<1>7. QED
  BY <1>2, <1>4, <1>5, <1>6

\* An edit of another item that moves to or behind i does not move i forward.
LEMMA RankAfterEdit ==
  ASSUME NEW ed \in [Items -> Int], NEW ed2 \in [Items -> Int],
         NEW S \in SUBSET Items, NEW S2 \in SUBSET Items, NEW i \in S \cap S2, NEW k,
         \A j \in Items \ {k} : ed2[j] = ed[j] /\ (j \in S <=> j \in S2),
         i # k, k \in S2 => ed2[k] > ed2[i]
  PROVE  Rank(ed2, S2, i) <= Rank(ed, S, i)
<1> DEFINE Upto(e, T) == {j \in T : e[j] < e[i] \/ (e[j] = e[i] /\ j <= i)}
<1>1. Upto(ed2, S2) \in SUBSET Upto(ed, S)
  OBVIOUS
<1>2. IsFiniteSet(Upto(ed, S))
  BY SyncAssumption, FS_Subset
<1>3. Cardinality(Upto(ed2, S2)) <= Cardinality(Upto(ed, S))
  BY <1>1, <1>2, FS_Subset
<1>4. QED
  BY <1>3 DEF Rank

-----------------------------------------------------------------------------
(* A page of the walk *)

\* The numbers of a walk in progress.
LEMMA WalkNumbers ==
  ASSUME TypeOK, Paging
  PROVE  /\ run \in Walk
         /\ {run.slice, run.to, run.latest, run.mark} \subseteq Int
         /\ run.offset \in Nat /\ run.slice <= run.to
         /\ SliceEnd \in Int /\ run.slice <= SliceEnd /\ SliceEnd <= run.to
         /\ edited \in [Items -> Int] /\ \A i \in Items : 0 <= edited[i] /\ edited[i] <= CVNow
         /\ now \in Nat /\ CVNow \in Int /\ Slice \in SUBSET Items /\ Page \in SUBSET Slice
<1>1. run \in Walk
  BY DEF TypeOK, Paging, Stopped
<1>2. now \in Nat /\ CVNow \in Int /\ edited \in [Items -> 0..CVNow]
  BY SyncAssumption DEF TypeOK, CVNow
<1>3. {run.slice, run.to, run.latest, run.mark} \subseteq Int /\ run.offset \in Nat
  BY <1>1 DEF Walk
<1>4. run.slice <= run.to
  BY DEF TypeOK
<1>5. SliceEnd \in Int /\ run.slice <= SliceEnd /\ SliceEnd <= run.to
  BY <1>3, <1>4, SyncAssumption DEF SliceEnd, Smaller
<1>6. edited \in [Items -> Int] /\ \A i \in Items : 0 <= edited[i] /\ edited[i] <= CVNow
  BY <1>2
<1>7. Slice \in SUBSET Items /\ Page \in SUBSET Slice
  BY DEF Slice, Page, Listed
<1>8. QED
  BY <1>1, <1>2, <1>3, <1>4, <1>5, <1>6, <1>7

\* Passed, for the stamps there are.
LEMMA PassedMeans ==
  ASSUME Paging, NEW i \in Items
  PROVE  Passed(edited, i) <=> \/ edited[i] < run.slice
                               \/ i \in Slice /\ Rank(edited, Slice, i) <= run.offset
BY DEF Passed, Slice

\* What the page brings the walk past: what it holds.
LEMMA PagePasses ==
  ASSUME TypeOK, Paging, NEW i \in Slice,
         Rank(edited, Slice, i) <= run.offset + PageSize \/ LastPage
  PROVE  Passed(edited, i) \/ i \in Page
<1>1. Rank(edited, Slice, i) \in Nat /\ Rank(edited, Slice, i) <= Cardinality(Slice)
  BY WalkNumbers, Ranks
<1>2. Cardinality(Slice) \in Nat
  BY WalkNumbers, SyncAssumption, FS_Subset, FS_CardinalityType
<1>3. Rank(edited, Slice, i) <= run.offset + PageSize
  BY <1>1, <1>2, WalkNumbers, SyncAssumption DEF LastPage
<1>4. i \in Items /\ run.offset \in Nat
  BY WalkNumbers
<1>5. QED
  BY <1>1, <1>3, <1>4, PassedMeans DEF Page

\* The stamp the walk hands over, after the page.
LEMMA NewestOfPage ==
  ASSUME TypeOK, Ordered, Paging
  PROVE  /\ Newest \in Int /\ NoMark <= Newest /\ Newest <= CVNow
         /\ Newest = NoMark \/ Newest <= SliceEnd
         /\ Newest = run.latest \/ \E k \in Page : Newest = edited[k]
<1>1. Page \in SUBSET Items /\ run.latest \in Int
  BY WalkNumbers
<1>2. Newest \in {edited[i] : i \in Page} \cup {run.latest} /\ Newest >= run.latest
  BY <1>1, MaxStampIsMax DEF Newest
<1>3. NoMark <= run.latest /\ run.latest <= CVNow /\ (run.latest = NoMark \/ run.latest <= SliceEnd)
  BY DEF Ordered
<1>4. CASE Newest = run.latest
  BY <1>1, <1>3, <1>4
<1>5. CASE \E k \in Page : Newest = edited[k]
  <2>1. PICK k \in Page : Newest = edited[k]
    BY <1>5
  <2>2. k \in Slice
    BY <2>1 DEF Page
  <2>3. k \in Items /\ edited[k] <= SliceEnd
    BY <2>2 DEF Slice, Listed
  <2>4. edited[k] \in Int /\ 0 <= edited[k] /\ edited[k] <= CVNow
    BY <2>3, WalkNumbers
  <2>5. QED
    BY <2>1, <2>3, <2>4 DEF NoMark
<1>6. QED
  BY <1>2, <1>4, <1>5

\* After the page, the walk is past everything that is older than that stamp.
LEMMA ReadInOrder ==
  ASSUME TypeOK, Ordered, Paging, NEW i \in Items, edited[i] < Newest - Overlap
  PROVE  \/ Passed(edited, i)
         \/ i \in Page
<1>1. edited[i] \in Int /\ run.latest \in Int /\ Overlap \in Nat
  BY WalkNumbers, SyncAssumption
<1>2. CASE Newest = run.latest
  BY <1>2 DEF Ordered
<1>3. ASSUME NEW k \in Page, Newest = edited[k]
      PROVE  Passed(edited, i) \/ i \in Page
  <2>1. k \in Slice /\ Rank(edited, Slice, k) <= run.offset + PageSize
    BY DEF Page
  <2>2. k \in Items /\ edited[k] \in Int /\ edited[k] <= SliceEnd
    BY <2>1, WalkNumbers DEF Slice, Listed
  <2>3. edited[i] < edited[k]
    BY <1>1, <1>3, <2>2
  <2>4. CASE edited[i] < run.slice
    BY <2>4, PassedMeans
  <2>5. CASE ~(edited[i] < run.slice)
    <3>1. i \in Slice
      BY <1>1, <2>2, <2>3, <2>5, WalkNumbers DEF Slice, Listed
    <3>2. Rank(edited, Slice, i) <= Rank(edited, Slice, k)
          /\ Rank(edited, Slice, i) \in Nat /\ Rank(edited, Slice, k) \in Nat
      BY <2>1, <2>3, <3>1, WalkNumbers, Ranks
    <3>3. Rank(edited, Slice, i) <= run.offset + PageSize
      BY <2>1, <3>2, WalkNumbers, SyncAssumption
    <3>4. QED
      BY <3>1, <3>3, PagePasses
  <2>6. QED
    BY <2>4, <2>5
<1>4. QED
  BY <1>2, <1>3, NewestOfPage

-----------------------------------------------------------------------------
(* The invariant: start, and steps of the walk *)

LEMMA InitHolds == Init => IInv
<1> SUFFICES ASSUME Init PROVE IInv
  OBVIOUS
<1>1. now = FirstTime /\ mark = NoMark /\ run = Stopped("none") /\ floor = Never
      /\ current = {} /\ shifted = {} /\ raced = {} /\ troubles = 0
      /\ edited \in [Items -> 0..CVNow]
  BY DEF Init
<1>2. ~Paging
  BY <1>1 DEF Paging, Stopped
<1>3. mark \in NoMark..CVNow
  BY <1>1, SyncAssumption DEF NoMark, CVNow
<1>4. TypeOK
  BY <1>1, <1>2, <1>3, SyncAssumption DEF TypeOK, Never
<1>5. NoGap
  BY <1>1 DEF NoGap, Missed
<1>6. QED
  BY <1>2, <1>4, <1>5 DEF IInv, Walked, Ordered

\* A run starts at the watermark: what lies before it was settled or never covered.
LEMMA BeginHolds == IInv /\ Begin => IInv'
<1> SUFFICES ASSUME IInv, Begin PROVE IInv'
  OBVIOUS
<1>1. TypeOK /\ NoGap
  BY DEF IInv
<1>2. /\ run' = [pc |-> "paging", slice |-> Start(mark), to |-> now + Pad,
                 chunks |-> 0, offset |-> 0, latest |-> NoMark, mark |-> mark]
      /\ floor' = IF mark = NoMark THEN Start(mark) ELSE Smaller(floor, Start(mark))
      /\ UNCHANGED <<now, edited, mark, troubles, current, shifted, raced>>
  BY DEF Begin, BeginUpTo, upstream
<1>3. /\ now \in Nat /\ mark \in Int /\ NoMark <= mark /\ mark <= CVNow /\ floor \in Int
      /\ CVNow \in Int /\ NoMark <= CVNow /\ Start(mark) \in Int /\ Start(mark) <= now + Pad
      /\ \A i \in Items : edited[i] \in Int /\ 0 <= edited[i]
  BY <1>1, SyncAssumption DEF TypeOK, CVNow, Start, NoMark
<1>4. run' \in Walk /\ Paging' /\ (run.slice <= run.to)'
  BY <1>2, <1>3, SyncAssumption DEF Walk, Paging, NoMark
<1>5. floor' \in Int
  BY <1>2, <1>3 DEF Smaller
<1>6. TypeOK'
  BY <1>1, <1>2, <1>4, <1>5 DEF TypeOK, CVNow
<1>7. ASSUME NEW i \in Items \ current, floor' <= edited[i], edited[i] < Start(mark)
      PROVE  i \in shifted \cup raced
  <2>1. mark # NoMark /\ floor <= edited[i]
    BY <1>2, <1>3, <1>7 DEF Smaller
  <2>2. i \in Missed
    BY <1>7, <2>1 DEF Missed
  <2>3. QED
    BY <1>1, <2>2 DEF NoGap
<1>8. NoGap'
  BY <1>2, <1>7 DEF NoGap, Missed, Start
<1>9. ASSUME NEW i \in Items, Passed(edited, i)' PROVE edited[i] < Start(mark)
  <2>1. edited \in [Items -> Int] /\ Slice' \in SUBSET Items
    BY <1>1 DEF Slice, Listed, TypeOK
  <2>2. i \in Slice' => Rank(edited, Slice', i) \in Nat \ {0}
    BY <2>1, Ranks
  <2>3. \/ edited'[i] < run'.slice
        \/ i \in Slice' /\ Rank(edited', Slice', i) <= run'.offset
    BY <1>9 DEF Passed, Slice
  <2>4. edited' = edited /\ run'.slice = Start(mark) /\ run'.offset = 0
    BY <1>2
  <2>5. QED
    BY <2>2, <2>3, <2>4
<1>10. Walked'
  BY <1>2, <1>7, <1>9 DEF Walked
<1>11. Ordered'
  BY <1>2, <1>3, SyncAssumption DEF Ordered, NoMark, CVNow
<1>12. QED
  BY <1>6, <1>8, <1>10, <1>11 DEF IInv

\* The items of a page are stored and need no excuse any more.
LEMMA StoredPage ==
  ASSUME TypeOK, Paging, StorePage
  PROVE  /\ current' \subseteq Items /\ shifted' \cup raced' \subseteq Items \ current'
         /\ current \subseteq current' /\ Page \subseteq current'
         /\ \A i \in Items \ current' : i \in shifted \cup raced => i \in shifted' \cup raced'
         /\ UNCHANGED <<now, edited, troubles, floor>> /\ CVNow' = CVNow
BY WalkNumbers DEF StorePage, TypeOK, upstream, CVNow

\* What the page brings the walk past is stored or excused.
LEMMA PassedIsSettled ==
  ASSUME IInv, Paging, StorePage, NEW i \in Items \ current', floor <= edited[i],
         Passed(edited, i) \/ i \in Page
  PROVE  i \in shifted' \cup raced'
<1>1. i \notin Page /\ i \notin current
  BY StoredPage DEF IInv
<1>2. i \in shifted \cup raced
  BY <1>1 DEF IInv, Walked
<1>3. QED
  BY <1>2, StoredPage DEF IInv

LEMMA NextPageHolds == IInv /\ NextPage => IInv'
<1> SUFFICES ASSUME IInv, NextPage PROVE IInv'
  OBVIOUS
<1>1. TypeOK /\ NoGap /\ Ordered /\ Paging /\ StorePage /\ mark' = mark
      /\ run' = [run EXCEPT !.offset = @ + PageSize, !.latest = Newest]
  BY DEF IInv, NextPage
<1>2. run \in Walk /\ run.offset + PageSize \in Nat /\ Newest \in Int
  BY <1>1, WalkNumbers, NewestOfPage, SyncAssumption
<1>3. run' \in Walk /\ Paging' /\ run'.slice = run.slice /\ run'.to = run.to
      /\ run'.offset = run.offset + PageSize /\ run'.latest = Newest
  BY <1>1, <1>2 DEF Walk, Paging
<1>4. SliceEnd' = SliceEnd /\ Slice' = Slice /\ edited' = edited /\ floor' = floor /\ now' = now
  BY <1>1, <1>3, StoredPage DEF SliceEnd, Slice
<1>5. TypeOK'
  BY <1>1, <1>3, <1>4, StoredPage DEF TypeOK
<1>6. NoGap'
  BY <1>1, <1>4, StoredPage DEF NoGap, Missed, Start
<1>7. \A i \in Items : Passed(edited, i)' <=>
          \/ edited'[i] < run'.slice
          \/ i \in Slice' /\ Rank(edited', Slice', i) <= run'.offset
  BY <1>3 DEF Passed, Slice
<1>8. ASSUME NEW i \in Items PROVE Passed(edited, i)' <=> Passed(edited, i) \/ i \in Page
  <2>1. Passed(edited, i)' <=> \/ edited[i] < run.slice
                               \/ i \in Slice /\ Rank(edited, Slice, i) <= run.offset + PageSize
    BY <1>3, <1>4, <1>7
  <2>2. Passed(edited, i) <=> \/ edited[i] < run.slice
                              \/ i \in Slice /\ Rank(edited, Slice, i) <= run.offset
    BY <1>1, PassedMeans
  <2>3. i \in Page <=> /\ i \in Slice /\ run.offset < Rank(edited, Slice, i)
                       /\ Rank(edited, Slice, i) <= run.offset + PageSize
    BY DEF Page
  <2>4. i \in Slice => Rank(edited, Slice, i) \in Nat
    BY <1>1, WalkNumbers, Ranks
  <2>5. run.offset \in Nat /\ PageSize \in Nat
    BY <1>1, WalkNumbers, SyncAssumption
  <2>6. QED
    BY <2>1, <2>2, <2>3, <2>4, <2>5
<1>9. Walked'
  BY <1>1, <1>4, <1>8, PassedIsSettled DEF Walked
<1>10. Ordered'
  BY <1>1, <1>3, <1>4, <1>8, NewestOfPage, ReadInOrder, StoredPage DEF Ordered
<1>11. QED
  BY <1>5, <1>6, <1>9, <1>10 DEF IInv

\* The watermark moves to the newest stamp: what it leaves behind is settled.
LEMMA SliceDoneHolds == IInv /\ SliceDone => IInv'
<1> SUFFICES ASSUME IInv, SliceDone PROVE IInv'
  OBVIOUS
<1>1. TypeOK /\ NoGap /\ Ordered /\ Paging /\ StorePage /\ LastPage
  BY DEF IInv, SliceDone
<1>2. /\ run \in Walk /\ Newest \in Int /\ NoMark <= Newest /\ Newest <= CVNow
      /\ Newest = NoMark \/ Newest <= SliceEnd
      /\ SliceEnd \in Int /\ SliceEnd <= run.to
      /\ mark \in Int /\ NoMark <= mark /\ mark <= CVNow
  BY <1>1, WalkNumbers, NewestOfPage DEF TypeOK, CVNow, NoMark
<1>3. UNCHANGED <<now, edited, troubles, floor>> /\ CVNow' = CVNow
  BY <1>1, StoredPage
<1>4. ASSUME NEW i \in Items, edited[i] < SliceEnd PROVE Passed(edited, i) \/ i \in Page
  <2>1. CASE edited[i] < run.slice
    BY <1>1, <2>1, PassedMeans
  <2>2. CASE ~(edited[i] < run.slice)
    <3>1. i \in Slice
      BY <1>1, <1>2, <1>4, <2>2, WalkNumbers DEF Slice, Listed
    <3>2. QED
      BY <1>1, <3>1, PagePasses
  <2>3. QED
    BY <2>1, <2>2
<1>5. CASE run' = [run EXCEPT !.slice = SliceEnd, !.chunks = @ + 1, !.offset = 0, !.latest = Newest]
           /\ mark' = mark /\ ~(SliceEnd >= run.to) /\ ~AtRunLimit
  <2>1. run.chunks + 1 \in 0..(MaxChunks - 1)
    BY <1>2, <1>5, SyncAssumption DEF Walk, AtRunLimit
  <2>2. run' \in Walk /\ Paging' /\ run'.slice = SliceEnd /\ run'.to = run.to
        /\ run'.offset = 0 /\ run'.latest = Newest
    BY <1>1, <1>2, <1>5, <2>1 DEF Walk, Paging
  <2>3. TypeOK'
    BY <1>1, <1>2, <1>3, <1>5, <2>2, StoredPage DEF TypeOK
  <2>4. NoGap'
    BY <1>1, <1>3, <1>5, StoredPage DEF NoGap, Missed, Start
  <2>5. ASSUME NEW i \in Items PROVE Passed(edited, i)' <=> edited[i] < SliceEnd
    <3>1. edited \in [Items -> Int] /\ Slice' \in SUBSET Items
      BY <1>1, WalkNumbers DEF Slice, Listed
    <3>2. i \in Slice' => Rank(edited, Slice', i) \in Nat \ {0}
      BY <3>1, Ranks
    <3>3. Passed(edited, i)' <=> \/ edited'[i] < run'.slice
                                 \/ i \in Slice' /\ Rank(edited', Slice', i) <= run'.offset
      BY <2>2 DEF Passed, Slice
    <3>4. QED
      BY <1>3, <2>2, <3>2, <3>3
  <2>6. Walked'
    BY <1>1, <1>3, <1>4, <2>5, PassedIsSettled DEF Walked
  <2>7. SliceEnd' \in Int /\ SliceEnd <= SliceEnd'
    BY <1>2, <2>2, <2>3, WalkNumbers, SyncAssumption DEF SliceEnd, Smaller, Walk, TypeOK
  <2>8. Newest = NoMark \/ Newest <= SliceEnd'
    BY <1>2, <2>7
  <2>9. ASSUME NEW i \in Items, edited[i] < Newest - Overlap PROVE edited[i] < SliceEnd
    <3>1. edited[i] \in Int /\ 0 <= edited[i] /\ Overlap \in Nat
      BY <1>1, WalkNumbers, SyncAssumption
    <3>2. Newest # NoMark
      BY <2>9, <3>1 DEF NoMark
    <3>3. QED
      BY <1>2, <2>9, <3>1, <3>2
  <2>10. Ordered'
    BY <1>2, <1>3, <2>2, <2>5, <2>8, <2>9 DEF Ordered
  <2>11. QED
    BY <2>3, <2>4, <2>6, <2>10 DEF IInv
<1>6. CASE Advance(Newest) /\ \E why \in {"complete", "run_limit"} : run' = Stopped(why)
  <2>1. ~Paging'
    BY <1>6 DEF Paging, Stopped
  <2>2. mark' = mark \/ mark' = Newest
    BY <1>6 DEF Advance
  <2>3. TypeOK'
    BY <1>1, <1>2, <1>3, <1>6, <2>1, <2>2, StoredPage DEF TypeOK
  <2>4. NoGap'
    <3>1. CASE mark' = mark
      BY <1>1, <1>3, <3>1, StoredPage DEF NoGap, Missed, Start
    <3>2. CASE mark' = Newest
      <4>1. SUFFICES ASSUME NEW i \in Items \ current', mark' # NoMark,
                            floor <= edited[i], edited[i] < Newest - Overlap
                     PROVE  i \in shifted' \cup raced'
        BY <1>3, <3>2 DEF NoGap, Missed, Start
      <4>2. Passed(edited, i) \/ i \in Page
        BY <1>1, <4>1, ReadInOrder
      <4>3. QED
        BY <1>1, <4>1, <4>2, PassedIsSettled
    <3>3. QED
      BY <2>2, <3>1, <3>2
  <2>5. QED
    BY <2>1, <2>3, <2>4 DEF IInv, Walked, Ordered
<1>7. QED
  <2> DEFINE stop == IF SliceEnd >= run.to THEN "complete"
                     ELSE IF AtRunLimit THEN "run_limit" ELSE "none"
  <2>1. CASE stop = "none"
    BY <1>5, <2>1 DEF SliceDone
  <2>2. CASE stop # "none"
    <3>1. stop \in {"complete", "run_limit"}
      BY <2>2
    <3>2. Advance(Newest) /\ run' = Stopped(stop)
      BY <2>2 DEF SliceDone
    <3>3. QED
      BY <1>6, <3>1, <3>2
  <2>3. QED
    BY <2>1, <2>2

\* A run that fails hands over what it has stored so far.
LEMMA RequestFailsHolds == IInv /\ RequestFails => IInv'
<1> SUFFICES ASSUME IInv, RequestFails PROVE IInv'
  OBVIOUS
<1>1. /\ TypeOK /\ NoGap /\ Walked /\ Ordered /\ Paging /\ Advance(run.latest)
      /\ run' = Stopped("failed") /\ troubles < MaxTroubles /\ troubles' = troubles + 1
      /\ UNCHANGED <<now, edited, current, shifted, raced, floor>>
  BY DEF IInv, RequestFails, upstream, past
<1>2. ~Paging' /\ CVNow' = CVNow
  BY <1>1 DEF Paging, Stopped, CVNow
<1>3. run.latest \in Int /\ NoMark <= run.latest /\ run.latest <= CVNow
  BY <1>1, WalkNumbers DEF Ordered
<1>4. mark' = mark \/ mark' = run.latest
  BY <1>1 DEF Advance
<1>5. TypeOK'
  <2>1. mark' \in NoMark..CVNow
    BY <1>1, <1>3, <1>4, WalkNumbers DEF TypeOK, NoMark
  <2>2. troubles' \in 0..MaxTroubles
    BY <1>1, SyncAssumption DEF TypeOK
  <2>3. QED
    BY <1>1, <1>2, <2>1, <2>2 DEF TypeOK
<1>6. NoGap'
  <2>1. CASE mark' = mark
    BY <1>1, <2>1 DEF NoGap, Missed, Start
  <2>2. CASE mark' = run.latest
    <3>1. SUFFICES ASSUME NEW i \in Items \ current, mark' # NoMark,
                          floor <= edited[i], edited[i] < run.latest - Overlap
                   PROVE  i \in shifted \cup raced
      BY <1>1, <2>2 DEF NoGap, Missed, Start
    <3>2. QED
      BY <1>1, <3>1 DEF Walked, Ordered
  <2>3. QED
    BY <1>4, <2>1, <2>2
<1>7. QED
  BY <1>2, <1>5, <1>6 DEF IInv, Walked, Ordered

LEMMA AbortedHolds == IInv /\ Aborted => IInv'
<1> SUFFICES ASSUME IInv, Aborted PROVE IInv'
  OBVIOUS
<1>1. /\ TypeOK /\ NoGap
      /\ run' = Stopped("aborted") /\ troubles < MaxTroubles /\ troubles' = troubles + 1
      /\ UNCHANGED <<now, edited, mark, current, shifted, raced, floor>>
  BY DEF IInv, Aborted, upstream, past
<1>2. ~Paging' /\ CVNow' = CVNow
  BY <1>1 DEF Paging, Stopped, CVNow
<1>3. TypeOK'
  BY <1>1, <1>2, SyncAssumption DEF TypeOK
<1>4. NoGap'
  BY <1>1 DEF NoGap, Missed, Start
<1>5. QED
  BY <1>2, <1>3, <1>4 DEF IInv, Walked, Ordered

-----------------------------------------------------------------------------
(* Steps around the walk *)

\* A rewind excuses what the walk in progress has passed and will not read again.
LEMMA RewindHolds == ASSUME NEW target \in Targets PROVE IInv /\ Rewind(target) => IInv'
<1> SUFFICES ASSUME IInv, Rewind(target) PROVE IInv'
  OBVIOUS
<1>1. /\ TypeOK /\ NoGap /\ Ordered
      /\ mark' = IF mark = NoMark THEN target ELSE Smaller(mark, target)
      /\ floor' = IF mark = NoMark THEN Never ELSE floor
      /\ current' = {i \in current : edited[i] < target}
      /\ raced' = raced \cup {i \in Items \ current' : Passed(edited, i)}
      /\ UNCHANGED <<now, edited, run, troubles, shifted>>
  BY DEF IInv, Rewind, upstream
<1>2. target \in Nat /\ target <= CVNow /\ CVNow \in Int /\ CVNow < Never /\ Never \in Int
      /\ mark \in Int /\ NoMark <= mark /\ mark <= CVNow /\ floor \in Int
      /\ \A i \in Items : edited[i] \in Int /\ edited[i] <= CVNow
  BY <1>1, SyncAssumption DEF TypeOK, CVNow, Never, NoMark
<1>3. mark' \in NoMark..CVNow
  BY <1>1, <1>2 DEF Smaller, NoMark
<1>4. CVNow' = CVNow /\ (Paging' <=> Paging) /\ current' \subseteq current /\ current \subseteq Items
  BY <1>1 DEF CVNow, Paging, TypeOK
<1>5. TypeOK'
  <2>1. shifted' \cup raced' \subseteq Items \ current'
    BY <1>1, <1>4 DEF TypeOK
  <2>2. floor' \in Int
    BY <1>1, <1>2
  <2>3. QED
    BY <1>1, <1>3, <1>4, <2>1, <2>2 DEF TypeOK
<1>6. NoGap'
  <2>1. SUFFICES ASSUME NEW i \in Items \ current', mark' # NoMark,
                        floor' <= edited[i], edited[i] < mark' - Overlap
                 PROVE  i \in shifted \cup raced
    BY <1>1 DEF NoGap, Missed, Start
  <2>2. mark # NoMark /\ floor <= edited[i]
    BY <1>1, <1>2, <2>1
  <2>3. mark' <= mark /\ mark' <= target /\ mark' \in Int /\ Overlap \in Nat
    BY <1>1, <1>2, <2>2, SyncAssumption DEF Smaller
  <2>4. edited[i] < mark - Overlap /\ edited[i] < target
    BY <1>2, <2>1, <2>3
  <2>5. i \notin current
    BY <1>1, <2>1, <2>4
  <2>6. i \in Missed
    BY <2>2, <2>4, <2>5 DEF Missed, Start
  <2>7. QED
    BY <1>1, <2>6 DEF NoGap
<1>7. \A i \in Items : Passed(edited, i)' <=> Passed(edited, i)
  BY <1>1 DEF Passed, Paging, SliceEnd
<1>8. Walked'
  BY <1>1, <1>7 DEF Walked
<1>9. Ordered'
  BY <1>1, <1>4, <1>7 DEF Ordered, SliceEnd
<1>10. QED
  BY <1>5, <1>6, <1>8, <1>9 DEF IInv

LEMMA ResyncHolds == ASSUME NEW i \in Items PROVE IInv /\ Resync(i) => IInv'
<1> SUFFICES ASSUME IInv, Resync(i) PROVE IInv'
  OBVIOUS
<1>1. /\ TypeOK /\ NoGap /\ Ordered /\ Walked
      /\ current' = current \cup {i} /\ shifted' = shifted \ {i} /\ raced' = raced \ {i}
      /\ UNCHANGED <<now, edited, mark, run, troubles, floor>>
  BY DEF IInv, Resync, upstream
<1>2. CVNow' = CVNow /\ (Paging' <=> Paging)
  BY <1>1 DEF CVNow, Paging
<1>3. TypeOK'
  BY <1>1, <1>2 DEF TypeOK
<1>4. NoGap'
  BY <1>1 DEF NoGap, Missed, Start
<1>5. \A j \in Items : Passed(edited, j)' <=> Passed(edited, j)
  BY <1>1 DEF Passed, Paging, SliceEnd
<1>6. Walked' /\ Ordered'
  BY <1>1, <1>2, <1>5 DEF Walked, Ordered, SliceEnd
<1>7. QED
  BY <1>3, <1>4, <1>6 DEF IInv

LEMMA TickHolds == IInv /\ Tick => IInv'
<1> SUFFICES ASSUME IInv, Tick PROVE IInv'
  OBVIOUS
<1>1. /\ TypeOK /\ NoGap /\ Ordered /\ Walked /\ now < MaxTime /\ now' = now + 1
      /\ UNCHANGED <<edited, mark, run, troubles, current, shifted, raced, floor>>
  BY DEF IInv, Tick, past
<1>2. now \in Nat /\ CVNow \in Int /\ CVNow' = CVNow + 1 /\ (Paging' <=> Paging)
  BY <1>1, SyncAssumption DEF TypeOK, CVNow, Paging
<1>3. edited' \in [Items -> 0..CVNow'] /\ mark' \in NoMark..CVNow' /\ now' \in FirstTime..MaxTime
  BY <1>1, <1>2, SyncAssumption DEF TypeOK, NoMark
<1>4. TypeOK'
  BY <1>1, <1>2, <1>3 DEF TypeOK
<1>5. NoGap'
  <2>1. mark # NoMark => Start(mark)' = Start(mark)
    BY <1>1 DEF Start
  <2>2. QED
    BY <1>1, <2>1 DEF NoGap, Missed
<1>6. \A j \in Items : Passed(edited, j)' <=> Passed(edited, j)
  BY <1>1 DEF Passed, Paging, SliceEnd
<1>7. Walked'
  BY <1>1, <1>2, <1>6 DEF Walked
<1>8. Ordered'
  <2>1. Paging => run.latest \in Int
    BY <1>1, WalkNumbers
  <2>2. QED
    BY <1>1, <1>2, <1>6, <2>1 DEF Ordered, SliceEnd
<1>9. QED
  BY <1>4, <1>5, <1>7, <1>8 DEF IInv

\* An edit is stamped no earlier than the overlap before the clock: behind the
\* watermark it cannot fall, and what it moves behind the walk is in shifted.
LEMMA EditHolds == ASSUME NEW i \in Items PROVE IInv /\ Edit(i) => IInv'
<1> SUFFICES ASSUME IInv, Edit(i) PROVE IInv'
  OBVIOUS
<1> PICK stamp \in (CVNow - Lag)..CVNow :
      /\ stamp >= edited[i]
      /\ edited' = [edited EXCEPT ![i] = stamp]
      /\ current' = current \ {i}
      /\ raced' = raced \ {i}
      /\ shifted' = (shifted \ {i}) \cup {j \in Items \ current' : Passed(edited', j)}
      /\ UNCHANGED <<now, mark, run, troubles, floor>>
  BY DEF Edit
<1>1. TypeOK /\ NoGap /\ Walked /\ Ordered
  BY DEF IInv
<1>2. /\ now \in Nat /\ CVNow \in Int /\ stamp \in Int /\ CVNow - Lag <= stamp /\ stamp <= CVNow
      /\ mark \in Int /\ mark <= CVNow /\ CVNow' = CVNow /\ (Paging' <=> Paging)
      /\ Overlap \in Nat /\ Lag \in Nat /\ Lag <= Overlap
  BY <1>1, SyncAssumption DEF TypeOK, CVNow, NoMark, Paging
<1>3. /\ edited \in [Items -> 0..CVNow] /\ edited' \in [Items -> 0..CVNow]
      /\ edited'[i] = stamp /\ \A j \in Items \ {i} : edited'[j] = edited[j]
  BY <1>1, <1>2 DEF TypeOK
<1>4. TypeOK'
  BY <1>1, <1>2, <1>3 DEF TypeOK
<1>5. NoGap'
  <2>1. SUFFICES ASSUME NEW j \in Items \ current', mark # NoMark,
                        floor <= edited'[j], edited'[j] < mark - Overlap
                 PROVE  j \in shifted' \cup raced'
    BY DEF NoGap, Missed, Start
  <2>2. j # i
    BY <1>2, <1>3, <2>1
  <2>3. j \in Missed
    BY <1>3, <2>1, <2>2 DEF Missed, Start
  <2>4. QED
    BY <1>1, <2>2, <2>3 DEF NoGap
<1>6. \A j \in Items : Passed(edited, j)' <=> Passed(edited', j)
  BY DEF Passed, Paging, SliceEnd
<1>7. Walked'
  BY <1>6 DEF Walked
<1>8. ASSUME Paging, NEW j \in Items, edited'[j] < run.latest - Overlap
      PROVE  Passed(edited', j)
  <2>1. /\ run.latest \in Int /\ run.latest <= CVNow /\ run.offset \in Nat
        /\ edited \in [Items -> Int] /\ edited' \in [Items -> Int]
    BY <1>1, <1>3, <1>8, WalkNumbers DEF Ordered
  <2>2. j # i /\ edited[j] = edited'[j] /\ edited'[j] < stamp
    BY <1>2, <1>3, <1>8, <2>1
  <2>3. Passed(edited, j)
    BY <1>1, <1>8, <2>2 DEF Ordered
  <2> DEFINE old == Listed(edited, run.slice, SliceEnd)
             new == Listed(edited', run.slice, SliceEnd)
  <2>4. CASE edited[j] < run.slice
    BY <1>8, <2>2, <2>4 DEF Passed
  <2>5. CASE j \in old /\ Rank(edited, old, j) <= run.offset
    <3>1. old \in SUBSET Items /\ new \in SUBSET Items /\ j \in new
          /\ \A k \in Items \ {i} : edited'[k] = edited[k] /\ (k \in old <=> k \in new)
      BY <1>3, <2>2, <2>5 DEF Listed
    <3>2. i \in new => edited'[i] > edited'[j]
      BY <1>2, <1>3, <2>1, <2>2
    <3> HIDE DEF old, new
    <3>3. Rank(edited', new, j) <= Rank(edited, old, j)
      BY <2>1, <2>2, <2>5, <3>1, <3>2, RankAfterEdit
    <3>4. Rank(edited', new, j) \in Nat /\ Rank(edited, old, j) \in Nat
      BY <2>1, <2>5, <3>1, Ranks
    <3>5. Rank(edited', new, j) <= run.offset
      BY <2>1, <2>5, <3>3, <3>4
    <3>6. QED
      BY <1>8, <3>1, <3>5 DEF Passed, new
  <2>6. QED
    BY <2>3, <2>4, <2>5 DEF Passed
<1>9. Ordered'
  BY <1>1, <1>2, <1>6, <1>8 DEF Ordered, SliceEnd
<1>10. QED
  BY <1>4, <1>5, <1>7, <1>9 DEF IInv

-----------------------------------------------------------------------------
(* The invariant: every step, and what it says *)

LEMMA StepHolds == IInv /\ [Next]_vars => IInv'
<1> SUFFICES ASSUME IInv, [Next]_vars PROVE IInv'
  OBVIOUS
<1>1. CASE Begin
  BY <1>1, BeginHolds
<1>2. CASE NextPage
  BY <1>2, NextPageHolds
<1>3. CASE SliceDone
  BY <1>3, SliceDoneHolds
<1>4. CASE RequestFails
  BY <1>4, RequestFailsHolds
<1>5. CASE Aborted
  BY <1>5, AbortedHolds
<1>6. ASSUME NEW target \in Targets, Rewind(target) PROVE IInv'
  BY <1>6, RewindHolds
<1>7. ASSUME NEW i \in Items, Edit(i) PROVE IInv'
  BY <1>7, EditHolds
<1>8. ASSUME NEW i \in Items, Resync(i) PROVE IInv'
  BY <1>8, ResyncHolds
<1>9. CASE Tick
  BY <1>9, TickHolds
<1>10. CASE UNCHANGED vars
  <2>1. UNCHANGED <<now, edited, mark, run, troubles, current, shifted, raced, floor>>
    BY <1>10 DEF vars, upstream, past
  <2>2. TypeOK' /\ NoGap'
    BY <2>1 DEF IInv, TypeOK, NoGap, Missed, Start, CVNow, Paging
  <2>3. \A j \in Items : Passed(edited, j)' <=> Passed(edited, j)
    BY <2>1 DEF Passed, Paging, SliceEnd
  <2>4. Walked' /\ Ordered'
    BY <2>1, <2>3 DEF IInv, Walked, Ordered, SliceEnd, CVNow, Paging
  <2>5. QED
    BY <2>2, <2>4 DEF IInv
<1>11. QED
  BY <1>1, <1>2, <1>3, <1>4, <1>5, <1>6, <1>7, <1>8, <1>9, <1>10 DEF Next

LEMMA Invariant == Spec => []IInv
<1>1. Init => IInv
  BY InitHolds
<1>2. IInv /\ [Next]_vars => IInv'
  BY StepHolds
<1>3. QED
  BY <1>1, <1>2, PTL DEF Spec

\* The walk never leaves its window, and the watermark is never ahead of
\* ComicVine's clock, although runs end a day after UTC (scheduler.py:1118-1122).
THEOREM TypeCorrect == Spec => []TypeOK
<1>1. IInv => TypeOK
  BY DEF IInv
<1>2. QED
  BY <1>1, Invariant, PTL

\* However many items, slices and pages there are, and whatever fails, is cancelled,
\* cut off or stamped late: what the next run will not read again is stored, or
\* was moved behind the walk by an edit or a rewind (scheduler.py:1124-1129).
THEOREM WatermarkLeavesNoGap == Spec => []NoGap
<1>1. IInv => NoGap
  BY DEF IInv
<1>2. QED
  BY <1>1, Invariant, PTL

=============================================================================
