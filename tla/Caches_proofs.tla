-------------------------- MODULE Caches_proofs --------------------------
(***************************************************************************)
(* Proofs about the two caches with tasks of their own: images             *)
(* (ImageCache), then searches (SearchCache).  They share no state; their  *)
(* names differ, so that both can be extended here.                        *)
(***************************************************************************)
EXTENDS ImageCache, SearchCache, SequenceTheorems, FiniteSetTheorems, WellFoundedInduction, TLAPS

-----------------------------------------------------------------------------
(* Types *)

LEMMA TypeInit == Init => TypeOK
  BY ImageAssumption DEF Init, TypeOK, Calls

LEMMA LookupType ==
  ASSUME TypeOK, NEW u \in Urls, Hit(u) \/ Miss(u)
  PROVE  /\ row' \in [Urls -> {NoRow} \cup 0..TTL]
         /\ file' = file
         /\ unused' \in [Urls -> 0..TTL]
  BY ImageAssumption DEF TypeOK, Hit, Miss, Touch, NoRow

LEMMA ReleaseType ==
  ASSUME TypeOK, NEW c \in Callers, NEW u \in Urls, NEW got \in BOOLEAN, Release(c, u, got)
  PROVE  inFlight' \subseteq Urls /\ call' \in [Callers -> Calls]
<1>1. \A d \in Callers : At("woken", u, got) \in Calls /\ Idle \in Calls /\ call[d] \in Calls
  BY DEF TypeOK, Calls, At
<1>2. QED
  BY <1>1 DEF Release, TypeOK

\* Who does something works on an image.
LEMMA Working ==
  ASSUME TypeOK, NEW c \in Callers, call[c].pc # "idle"
  PROVE  call[c].url \in Urls /\ call[c].got \in BOOLEAN
  BY DEF TypeOK, Calls, Idle, At

LEMMA TypeStep == TypeOK /\ [Next]_vars => TypeOK'
<1> SUFFICES ASSUME TypeOK, [Next]_vars PROVE TypeOK'
  OBVIOUS
<1>1. ASSUME NEW c \in Callers, NEW u \in Urls, Request(c, u) PROVE TypeOK'
  <2>1. Hit(u) \/ Miss(u)
    BY <1>1 DEF Request
  <2>2. inFlight' \subseteq Urls /\ troubles' = troubles
    BY <1>1 DEF Request, Register, TypeOK
  <2>3. call' \in [Callers -> Calls]
    <3>1. At("waiting", u, FALSE) \in Calls /\ At("fetching", u, FALSE) \in Calls
      BY DEF Calls, At
    <3>2. \/ call' = call
          \/ call' = [call EXCEPT ![c] = At("waiting", u, FALSE)]
          \/ call' = [call EXCEPT ![c] = At("fetching", u, FALSE)]
      BY <1>1 DEF Request
    <3>3. QED
      BY <3>1, <3>2 DEF TypeOK
  <2>4. QED
    BY <2>1, <2>2, <2>3, LookupType DEF TypeOK
<1>2. ASSUME NEW c \in Callers, Fetched(c) PROVE TypeOK'
  <2>1. call[c].url \in Urls
    BY <1>2, Working DEF Fetched
  <2>2. inFlight' \subseteq Urls /\ call' \in [Callers -> Calls]
    BY <1>2, <2>1, ReleaseType DEF Fetched
  <2>3. QED
    BY <1>2, <2>1, <2>2, ImageAssumption DEF Fetched, WriteFile, WriteRow, TypeOK
<1>3. ASSUME NEW c \in Callers, FetchFails(c) PROVE TypeOK'
  <2>1. call[c].url \in Urls
    BY <1>3, Working DEF FetchFails
  <2>2. inFlight' \subseteq Urls /\ call' \in [Callers -> Calls]
    BY <1>3, <2>1, ReleaseType DEF FetchFails
  <2>3. QED
    BY <1>3, <2>1, <2>2 DEF FetchFails, WriteFile, TypeOK
<1>4. ASSUME NEW c \in Callers, LookAgain(c) PROVE TypeOK'
  <2>1. call[c].url \in Urls
    BY <1>4, Working DEF LookAgain
  <2>2. call' \in [Callers -> Calls] /\ inFlight' = inFlight /\ troubles' = troubles
    BY <1>4 DEF LookAgain, TypeOK, Calls
  <2>3. QED
    BY <1>4, <2>1, <2>2, LookupType DEF LookAgain, TypeOK
<1>5. CASE CleanUp
  BY <1>5 DEF CleanUp, TypeOK
<1>6. CASE Day
  BY <1>6, ImageAssumption DEF Day, TypeOK, NoRow
<1>7. ASSUME NEW u \in Urls, DeleteOutside(u) PROVE TypeOK'
  <2>1. ASSUME NEW c \in Callers, call[c].url = u PROVE At(call[c].pc, u, FALSE) \in Calls
    BY <2>1, ImageAssumption DEF TypeOK, Calls, Idle, At
  <2>2. call' \in [Callers -> Calls]
    BY <1>7, <2>1 DEF DeleteOutside, TypeOK
  <2>3. /\ file' \in [Urls -> {"none", "part", "whole"}]
        /\ unused' \in [Urls -> 0..TTL]
        /\ row' = row /\ inFlight' = inFlight
        /\ troubles' \in 0..MaxTroubles
    <3>1. /\ file' = [file EXCEPT ![u] = "none"]
          /\ unused' = [unused EXCEPT ![u] = TTL]
          /\ row' = row /\ inFlight' = inFlight
          /\ troubles < MaxTroubles /\ troubles' = troubles + 1
      BY <1>7 DEF DeleteOutside, Trouble
    <3>2. QED
      BY <3>1, ImageAssumption DEF TypeOK
  <2>4. QED
    BY <2>2, <2>3 DEF TypeOK
<1>8. CASE Restart
  <2>1. file' \in [Urls -> {"none", "part", "whole"}]
    <3>1. ASSUME NEW c \in Callers, call[c].pc = "fetching", NEW much \in {"part", "whole"},
                 WriteFile(call[c].url, much)
          PROVE  file' \in [Urls -> {"none", "part", "whole"}]
      BY <3>1 DEF WriteFile, TypeOK
    <3>2. QED
      BY <1>8, <3>1 DEF Restart, TypeOK
  <2>2. QED
    BY <1>8, <2>1, ImageAssumption DEF Restart, Trouble, TypeOK, Calls
<1>9. CASE UNCHANGED vars
  BY <1>9 DEF vars, disk, TypeOK
<1>10. QED
  BY <1>1, <1>2, <1>3, <1>4, <1>5, <1>6, <1>7, <1>8, <1>9 DEF Next

\* The values of the cache and of the requests stay in their types.
THEOREM TypeCorrect == Spec => []TypeOK
  BY TypeInit, TypeStep, PTL DEF Spec

-----------------------------------------------------------------------------
(* The inductive invariant *)

Busy(c, u) == call[c].pc = "fetching" /\ call[c].url = u

\* An image is marked in flight exactly while one request fetches it; others wait only
\* for an image in flight.
Marked ==
  /\ \A u \in Urls : u \in inFlight <=> \E c \in Callers : Busy(c, u)
  /\ \A u \in Urls, c, d \in Callers : Busy(c, u) /\ Busy(d, u) => c = d
  /\ \A c \in Callers : call[c].pc = "waiting" => call[c].url \in inFlight

\* What is fetched has no row, so a file cut short has none; who was woken with an
\* image finds the row just written.
Rows ==
  /\ \A c \in Callers, u \in Urls : Busy(c, u) => row[u] = NoRow
  /\ \A u \in Urls : row[u] # NoRow => file[u] # "part"
  /\ \A c \in Callers : call[c].pc = "woken" /\ call[c].got =>
       row[call[c].url] = 0 /\ file[call[c].url] # "none"

\* A row is never older than the last use.
Aged == \A u \in Urls : row[u] # NoRow /\ unused[u] < TTL => row[u] <= unused[u]

IInv == TypeOK /\ Marked /\ Rows /\ Aged

LEMMA IInvInit == Init => IInv
<1> SUFFICES ASSUME Init PROVE IInv
  OBVIOUS
<1>1. \A c \in Callers : call[c].pc = "idle"
  BY DEF Init, Idle
<1>2. QED
  BY <1>1, TypeInit DEF Init, IInv, Marked, Rows, Aged, Busy

\* What a lookup does to the rows.
LEMMA LookupRows ==
  ASSUME IInv, NEW v \in Urls, Hit(v) \/ Miss(v)
  PROVE  /\ \A u \in Urls : u # v => row'[u] = row[u] /\ unused'[u] = unused[u]
         /\ row'[v] \in {0, NoRow}
         /\ row'[v] = 0 <=> Has(v)
         /\ Has(v) => row[v] # NoRow /\ file[v] # "none" /\ unused'[v] = 0
         /\ row[v] = NoRow => row'[v] = NoRow
         /\ file' = file
  BY ImageAssumption DEF IInv, TypeOK, Hit, Miss, Touch, NoRow, Has

\* The rows and the ages stay right through a lookup that wakes nobody and starts at
\* most one fetch, of the image it did not find.
LEMMA LookupStep ==
  ASSUME IInv, NEW v \in Urls, Hit(v) \/ Miss(v), NEW w \in Callers,
         call' \in [Callers -> Calls],
         \A d \in Callers : d # w => call'[d] = call[d],
         call'[w].pc # "woken",
         call'[w].pc = "fetching" => (call'[w].url = v /\ ~Has(v)) \/ call'[w] = call[w]
  PROVE  Rows' /\ Aged'
<1>1. Aged'
  BY LookupRows, ImageAssumption DEF Aged, IInv, TypeOK, NoRow
<1>2. ASSUME NEW c \in Callers, NEW u \in Urls, Busy(c, u)' PROVE row'[u] = NoRow
  <2>1. Busy(c, u) \/ (u = v /\ ~Has(v))
    BY <1>2 DEF Busy
  <2>2. QED
    BY <2>1, LookupRows DEF IInv, Rows, NoRow
<1>3. \A u \in Urls : row'[u] # NoRow => file'[u] # "part"
  BY LookupRows DEF IInv, Rows
<1>4. ASSUME NEW c \in Callers, call'[c].pc = "woken", call'[c].got
      PROVE  row'[call'[c].url] = 0 /\ file'[call'[c].url] # "none"
  <2>1. c # w /\ call'[c] = call[c]
    BY <1>4
  <2>2. call[c].url \in Urls /\ row[call[c].url] = 0 /\ file[call[c].url] # "none"
    BY <1>4, <2>1, Working DEF IInv, Rows
  <2>3. row'[call[c].url] = 0 /\ file' = file
    BY <2>2, LookupRows DEF Has, NoRow
  <2>4. QED
    BY <2>1, <2>2, <2>3
<1>5. QED
  BY <1>1, <1>2, <1>3, <1>4 DEF Rows

LEMMA RequestStep ==
  ASSUME IInv, TypeOK', NEW c \in Callers, NEW v \in Urls, Request(c, v)
  PROVE  IInv'
<1>1. Hit(v) \/ Miss(v)
  BY DEF Request
<1>2. call[c].pc = "idle"
  BY DEF Request, Idle
<1>3. CASE Hit(v) /\ inFlight' = inFlight /\ call' = call
  <2>1. Marked'
    BY <1>3 DEF IInv, Marked, Busy
  <2>2. Rows' /\ Aged'
    BY <1>1, <1>2, <1>3, LookupStep DEF TypeOK
  <2>3. QED
    BY <2>1, <2>2 DEF IInv
<1>4. CASE /\ Miss(v)
           /\ v \in inFlight
           /\ call' = [call EXCEPT ![c] = At("waiting", v, FALSE)]
           /\ inFlight' = inFlight
  <2>1. /\ \A d \in Callers : d # c => call'[d] = call[d]
        /\ call'[c].pc = "waiting" /\ call'[c].url = v
        /\ v \in inFlight /\ inFlight' = inFlight
    BY <1>4 DEF IInv, TypeOK, At
  <2>2. \A d \in Callers, u \in Urls : Busy(d, u)' <=> Busy(d, u)
    BY <1>2, <2>1 DEF Busy
  <2>3. Marked'
    <3>1. \A u \in Urls : u \in inFlight' <=> \E d \in Callers : Busy(d, u)'
      BY <2>1, <2>2 DEF IInv, Marked
    <3>2. \A u \in Urls, d, e \in Callers : Busy(d, u)' /\ Busy(e, u)' => d = e
      BY <2>1, <2>2 DEF IInv, Marked
    <3>3. \A d \in Callers : call'[d].pc = "waiting" => call'[d].url \in inFlight'
      BY <2>1, <2>2 DEF IInv, Marked
    <3>4. QED
      BY <3>1, <3>2, <3>3 DEF Marked
  <2>4. Rows' /\ Aged'
    BY <1>1, <2>1, LookupStep DEF TypeOK
  <2>5. QED
    BY <2>3, <2>4 DEF IInv
<1>5. CASE /\ Miss(v)
           /\ v \notin inFlight
           /\ call' = [call EXCEPT ![c] = At("fetching", v, FALSE)]
           /\ Register(v)
  <2>1. /\ \A d \in Callers : d # c => call'[d] = call[d]
        /\ call'[c].pc = "fetching" /\ call'[c].url = v
    BY <1>5 DEF IInv, TypeOK, At
  <2>2. \A d \in Callers, u \in Urls : Busy(d, u)' <=> Busy(d, u) \/ (d = c /\ u = v)
    BY <1>2, <2>1 DEF Busy
  <2>3. v \notin inFlight /\ inFlight' = inFlight \cup {v}
    BY <1>5 DEF Register
  <2>4. Marked'
    <3>1. \A u \in Urls : u \in inFlight' <=> \E d \in Callers : Busy(d, u)'
      BY <2>1, <2>2, <2>3 DEF IInv, Marked
    <3>2. \A u \in Urls, d, e \in Callers : Busy(d, u)' /\ Busy(e, u)' => d = e
      BY <2>1, <2>2, <2>3 DEF IInv, Marked
    <3>3. \A d \in Callers : call'[d].pc = "waiting" => call'[d].url \in inFlight'
      BY <2>1, <2>2, <2>3 DEF IInv, Marked
    <3>4. QED
      BY <3>1, <3>2, <3>3 DEF Marked
  <2>5. ~Has(v)
    BY <1>5 DEF Miss
  <2>6. Rows' /\ Aged'
    BY <1>1, <2>1, <2>5, LookupStep DEF TypeOK
  <2>7. QED
    BY <2>4, <2>6 DEF IInv
<1>6. QED
  BY <1>3, <1>4, <1>5 DEF Request

LEMMA LookAgainStep ==
  ASSUME IInv, TypeOK', NEW c \in Callers, LookAgain(c)
  PROVE  IInv'
<1>1. call[c].pc = "woken" /\ (Hit(call[c].url) \/ Miss(call[c].url)) /\ inFlight' = inFlight
  BY DEF LookAgain
<1>2. call[c].url \in Urls
  BY <1>1, Working DEF IInv
<1>3. /\ \A d \in Callers : d # c => call'[d] = call[d]
      /\ call'[c].pc = "idle"
  BY DEF LookAgain, Idle, IInv, TypeOK
<1>4. \A d \in Callers, u \in Urls : Busy(d, u)' <=> Busy(d, u)
  BY <1>1, <1>3 DEF Busy
<1>5. Marked'
  BY <1>1, <1>3, <1>4 DEF IInv, Marked
<1>6. Rows' /\ Aged'
  BY <1>1, <1>2, <1>3, LookupStep DEF TypeOK
<1>7. QED
  BY <1>5, <1>6 DEF IInv

\* The end of a fetch takes the mark away and wakes everybody who waits for it.
LEMMA ReleaseStep ==
  ASSUME IInv, NEW c \in Callers, NEW v \in Urls, Busy(c, v), NEW got \in BOOLEAN, Release(c, v, got)
  PROVE  /\ Marked'
         /\ \A d \in Callers, u \in Urls : Busy(d, u)' => Busy(d, u) /\ u # v
         /\ \A d \in Callers : call'[d].pc = "woken" =>
              call'[d] = call[d] \/ (call'[d].url = v /\ call'[d].got = got)
<1>1. inFlight' = inFlight \ {v}
  BY DEF Release
<1>2. /\ call'[c].pc = "idle"
      /\ \A d \in Callers : d # c =>
           \/ call[d].pc = "waiting" /\ call[d].url = v /\ call'[d].pc = "woken"
              /\ call'[d].url = v /\ call'[d].got = got
           \/ ~(call[d].pc = "waiting" /\ call[d].url = v) /\ call'[d] = call[d]
  BY DEF Release, Idle, At
<1>3. \A d \in Callers, u \in Urls : Busy(d, u)' <=> Busy(d, u) /\ d # c
  BY <1>2 DEF Busy
<1>4. \A d \in Callers, u \in Urls : Busy(d, u) /\ d # c => u # v
  BY DEF IInv, Marked
<1>5. \A d \in Callers, u \in Urls : Busy(d, u) /\ u # v => d # c
  BY DEF Busy
<1>6. Marked'
  <2>1. \A u \in Urls : u \in inFlight' <=> \E d \in Callers : Busy(d, u)'
    BY <1>1, <1>3, <1>4, <1>5 DEF IInv, Marked
  <2>2. \A u \in Urls, d, e \in Callers : Busy(d, u)' /\ Busy(e, u)' => d = e
    BY <1>3 DEF IInv, Marked
  <2>3. \A d \in Callers : call'[d].pc = "waiting" => call'[d].url \in inFlight'
    BY <1>1, <1>2 DEF IInv, Marked
  <2>4. QED
    BY <2>1, <2>2, <2>3 DEF Marked
<1>7. QED
  BY <1>2, <1>3, <1>4, <1>6

LEMMA FetchedStep ==
  ASSUME IInv, TypeOK', NEW c \in Callers, Fetched(c)
  PROVE  IInv'
<1> DEFINE v == call[c].url
<1>1. v \in Urls /\ Busy(c, v)
  BY Working DEF Fetched, IInv, Busy
<1>2. /\ file' = [file EXCEPT ![v] = "whole"]
      /\ row' = [row EXCEPT ![v] = 0]
      /\ unused' = [unused EXCEPT ![v] = 0]
      /\ Release(c, v, TRUE)
  BY DEF Fetched, WriteFile, WriteRow
<1> HIDE DEF v
<1>3. /\ Marked'
      /\ \A d \in Callers, u \in Urls : Busy(d, u)' => Busy(d, u) /\ u # v
      /\ \A d \in Callers : call'[d].pc = "woken" =>
           call'[d] = call[d] \/ (call'[d].url = v /\ call'[d].got = TRUE)
  BY <1>1, <1>2, ReleaseStep
<1>4. \A u \in Urls : u # v => row'[u] = row[u] /\ file'[u] = file[u] /\ unused'[u] = unused[u]
  BY <1>2 DEF IInv, TypeOK
<1>5. row'[v] = 0 /\ file'[v] = "whole" /\ unused'[v] = 0
  BY <1>1, <1>2 DEF IInv, TypeOK
<1>6. Aged'
  BY <1>4, <1>5 DEF IInv, Aged
<1>7. Rows'
  <2>1. \A d \in Callers, u \in Urls : Busy(d, u)' => row'[u] = NoRow
    BY <1>3, <1>4 DEF IInv, Rows
  <2>2. \A u \in Urls : row'[u] # NoRow => file'[u] # "part"
    BY <1>4, <1>5 DEF IInv, Rows
  <2>3. ASSUME NEW d \in Callers, call'[d].pc = "woken", call'[d].got
        PROVE  row'[call'[d].url] = 0 /\ file'[call'[d].url] # "none"
    <3>1. CASE call'[d].url = v
      BY <3>1, <1>5
    <3>2. CASE call'[d].url # v
      <4>1. call'[d] = call[d]
        BY <3>2, <2>3, <1>3
      <4>2. call[d].url \in Urls /\ call[d].url # v /\ row[call[d].url] = 0 /\ file[call[d].url] # "none"
        BY <4>1, <2>3, <3>2, Working DEF IInv, Rows
      <4>3. QED
        BY <4>1, <4>2, <1>4
    <3>3. QED
      BY <3>1, <3>2
  <2>4. QED
    BY <2>1, <2>2, <2>3 DEF Rows
<1>8. QED
  BY <1>3, <1>6, <1>7 DEF IInv

LEMMA FetchFailsStep ==
  ASSUME IInv, TypeOK', NEW c \in Callers, FetchFails(c)
  PROVE  IInv'
<1> DEFINE v == call[c].url
<1>1. v \in Urls /\ Busy(c, v)
  BY Working DEF FetchFails, IInv, Busy
<1>2. /\ file' = file \/ file' = [file EXCEPT ![v] = "part"]
      /\ row' = row /\ unused' = unused
      /\ Release(c, v, FALSE)
  BY DEF FetchFails, WriteFile
<1> HIDE DEF v
<1>3. /\ Marked'
      /\ \A d \in Callers, u \in Urls : Busy(d, u)' => Busy(d, u) /\ u # v
      /\ \A d \in Callers : call'[d].pc = "woken" =>
           call'[d] = call[d] \/ (call'[d].url = v /\ call'[d].got = FALSE)
  BY <1>1, <1>2, ReleaseStep
<1>4. \A u \in Urls : u # v => file'[u] = file[u]
  BY <1>2 DEF IInv, TypeOK
<1>5. row[v] = NoRow
  BY <1>1 DEF IInv, Rows
<1>6. Aged'
  BY <1>2 DEF IInv, Aged
<1>7. Rows'
  <2>1. \A d \in Callers, u \in Urls : Busy(d, u)' => row'[u] = NoRow
    BY <1>2, <1>3 DEF IInv, Rows
  <2>2. \A u \in Urls : row'[u] # NoRow => file'[u] # "part"
    BY <1>2, <1>4, <1>5 DEF IInv, Rows
  <2>3. ASSUME NEW d \in Callers, call'[d].pc = "woken", call'[d].got
        PROVE  row'[call'[d].url] = 0 /\ file'[call'[d].url] # "none"
    <3>1. call'[d] = call[d]
      BY <2>3, <1>3
    <3>2. call[d].url \in Urls /\ row[call[d].url] = 0 /\ file[call[d].url] # "none"
      BY <3>1, <2>3, Working DEF IInv, Rows
    <3>3. call[d].url # v
      BY <3>2, <1>5 DEF NoRow
    <3>4. QED
      BY <3>1, <3>2, <3>3, <1>2, <1>4
  <2>4. QED
    BY <2>1, <2>2, <2>3 DEF Rows
<1>8. QED
  BY <1>3, <1>6, <1>7 DEF IInv

LEMMA CleanUpStep == IInv /\ TypeOK' /\ CleanUp => IInv'
<1> SUFFICES ASSUME IInv, TypeOK', CleanUp PROVE IInv'
  OBVIOUS
<1>1. PICK kept \in SUBSET Expired :
        file' = [u \in Urls |-> IF u \in Expired \ kept THEN "none" ELSE file[u]]
  BY DEF CleanUp
<1>2. /\ \A u \in Urls : row'[u] = IF u \in Expired THEN NoRow ELSE row[u]
      /\ \A u \in Urls : u \in Expired <=> row[u] # NoRow /\ row[u] >= TTL
      /\ inFlight' = inFlight /\ call' = call /\ unused' = unused
  BY DEF CleanUp, Expired
<1>3. \A u \in Urls : u \notin Expired => file'[u] = file[u]
  BY <1>1
<1>4. Marked'
  BY <1>2 DEF IInv, Marked, Busy
<1>5. Aged'
  BY <1>2 DEF IInv, Aged
<1>6. \A c \in Callers, u \in Urls : Busy(c, u)' <=> Busy(c, u)
  BY <1>2 DEF Busy
<1>7. Rows'
  <2>1. \A c \in Callers, u \in Urls : Busy(c, u)' => row'[u] = NoRow
    BY <1>2, <1>6 DEF IInv, Rows
  <2>2. \A u \in Urls : row'[u] # NoRow => file'[u] # "part"
    BY <1>2, <1>3 DEF IInv, Rows
  <2>3. ASSUME NEW d \in Callers, call'[d].pc = "woken", call'[d].got
        PROVE  row'[call'[d].url] = 0 /\ file'[call'[d].url] # "none"
    <3>1. call[d].url \in Urls /\ row[call[d].url] = 0 /\ file[call[d].url] # "none"
      BY <1>2, <2>3, Working DEF IInv, Rows
    <3>2. call[d].url \notin Expired
      BY <1>2, <3>1, ImageAssumption
    <3>3. QED
      BY <1>2, <1>3, <3>1, <3>2
  <2>4. QED
    BY <2>1, <2>2, <2>3 DEF Rows
<1>8. QED
  BY <1>4, <1>5, <1>7 DEF IInv

LEMMA DayStep == IInv /\ TypeOK' /\ Day => IInv'
<1> SUFFICES ASSUME IInv, TypeOK', Day PROVE IInv'
  OBVIOUS
<1>1. /\ \A c \in Callers : call[c].pc # "woken"
      /\ \A u \in Urls : row'[u] = IF row[u] \in 0..(TTL - 1) THEN row[u] + 1 ELSE row[u]
      /\ \A u \in Urls : unused'[u] = IF unused[u] < TTL THEN unused[u] + 1 ELSE TTL
      /\ inFlight' = inFlight /\ call' = call /\ file' = file
  BY DEF Day
<1>2. Marked'
  BY <1>1 DEF IInv, Marked, Busy
<1>3. Aged'
  BY <1>1, ImageAssumption DEF IInv, TypeOK, Aged, NoRow
<1>4. \A c \in Callers, u \in Urls : Busy(c, u)' <=> Busy(c, u)
  BY <1>1 DEF Busy
<1>5. \A u \in Urls : row'[u] = NoRow <=> row[u] = NoRow
  BY <1>1, ImageAssumption DEF IInv, TypeOK, NoRow
<1>6. Rows'
  <2>1. \A c \in Callers, u \in Urls : Busy(c, u)' => row'[u] = NoRow
    BY <1>4, <1>5 DEF IInv, Rows
  <2>2. \A u \in Urls : row'[u] # NoRow => file'[u] # "part"
    BY <1>1, <1>5 DEF IInv, Rows
  <2>3. \A c \in Callers : call'[c].pc # "woken"
    BY <1>1
  <2>4. QED
    BY <2>1, <2>2, <2>3 DEF Rows
<1>7. QED
  BY <1>2, <1>3, <1>6 DEF IInv

LEMMA DeleteOutsideStep ==
  ASSUME IInv, TypeOK', NEW v \in Urls, DeleteOutside(v)
  PROVE  IInv'
<1>1. /\ file' = [file EXCEPT ![v] = "none"]
      /\ unused' = [unused EXCEPT ![v] = TTL]
      /\ row' = row /\ inFlight' = inFlight
  BY DEF DeleteOutside
<1>2. \A c \in Callers :
        /\ call'[c].pc = call[c].pc /\ call'[c].url = call[c].url
        /\ call[c].url = v => ~call'[c].got
        /\ call[c].url # v => call'[c] = call[c]
  BY DEF DeleteOutside, At
<1>3. \A c \in Callers, u \in Urls : Busy(c, u)' <=> Busy(c, u)
  BY <1>2 DEF Busy
<1>4. Marked'
  <2>1. \A u \in Urls : u \in inFlight' <=> \E d \in Callers : Busy(d, u)'
    BY <1>1, <1>3 DEF IInv, Marked
  <2>2. \A u \in Urls, d, e \in Callers : Busy(d, u)' /\ Busy(e, u)' => d = e
    BY <1>3 DEF IInv, Marked
  <2>3. \A d \in Callers : call'[d].pc = "waiting" => call'[d].url \in inFlight'
    BY <1>1, <1>2 DEF IInv, Marked
  <2>4. QED
    BY <2>1, <2>2, <2>3 DEF Marked
<1>5. Aged'
  <2>1. \A u \in Urls : unused'[u] < TTL => unused'[u] = unused[u]
    BY <1>1, ImageAssumption DEF IInv, TypeOK
  <2>2. QED
    BY <1>1, <2>1 DEF IInv, Aged
<1>6. Rows'
  <2>1. \A c \in Callers, u \in Urls : Busy(c, u)' => row'[u] = NoRow
    BY <1>1, <1>3 DEF IInv, Rows
  <2>2. \A u \in Urls : row'[u] # NoRow => file'[u] # "part"
    BY <1>1 DEF IInv, Rows, TypeOK
  <2>3. ASSUME NEW d \in Callers, call'[d].pc = "woken", call'[d].got
        PROVE  row'[call'[d].url] = 0 /\ file'[call'[d].url] # "none"
    <3>1. call[d].url # v /\ call'[d] = call[d]
      BY <1>2, <2>3
    <3>2. call[d].url \in Urls /\ row[call[d].url] = 0 /\ file[call[d].url] # "none"
      BY <3>1, <2>3, Working DEF IInv, Rows
    <3>3. QED
      BY <1>1, <3>1, <3>2 DEF IInv, TypeOK
  <2>4. QED
    BY <2>1, <2>2, <2>3 DEF Rows
<1>7. QED
  BY <1>4, <1>5, <1>6 DEF IInv

\* What is being written when the process dies has no row.
LEMMA RestartFiles ==
  ASSUME IInv, Restart, NEW u \in Urls, row[u] # NoRow, file'[u] # file[u]
  PROVE  u \in Expired /\ file'[u] = "none"
<1>1. CASE \E gone \in SUBSET Expired : file' = [w \in Urls |-> IF w \in gone THEN "none" ELSE file[w]]
  BY <1>1
<1>2. ASSUME NEW c \in Callers, call[c].pc = "fetching", NEW much \in {"part", "whole"},
             WriteFile(call[c].url, much)
      PROVE  FALSE
  <2>1. call[c].url \in Urls /\ Busy(c, call[c].url)
    BY <1>2, Working DEF IInv, Busy
  <2>2. row[call[c].url] = NoRow
    BY <2>1 DEF IInv, Rows
  <2>3. file' = [file EXCEPT ![call[c].url] = much]
    BY <1>2 DEF WriteFile
  <2>4. QED
    BY <2>1, <2>2, <2>3 DEF IInv, TypeOK
<1>3. QED
  BY <1>1, <1>2 DEF Restart

LEMMA RestartStep == IInv /\ TypeOK' /\ Restart => IInv'
<1> SUFFICES ASSUME IInv, TypeOK', Restart PROVE IInv'
  OBVIOUS
<1>1. inFlight' = {} /\ row' = row /\ unused' = unused /\ \A c \in Callers : call'[c].pc = "idle"
  BY DEF Restart, Idle
<1>2. \A u \in Urls : row[u] # NoRow => file'[u] = file[u] \/ file'[u] = "none"
  BY RestartFiles
<1>3. QED
  BY <1>1, <1>2 DEF IInv, Marked, Rows, Aged, Busy

LEMMA IInvStep == IInv /\ [Next]_vars => IInv'
<1> SUFFICES ASSUME IInv, [Next]_vars PROVE IInv'
  OBVIOUS
<1>1. TypeOK'
  BY TypeStep DEF IInv
<1>2. CASE UNCHANGED vars
  BY <1>2 DEF vars, disk, IInv, TypeOK, Marked, Rows, Aged, Busy
<1>3. QED
  BY <1>1, <1>2, RequestStep, LookAgainStep, FetchedStep, FetchFailsStep, CleanUpStep, DayStep,
     DeleteOutsideStep, RestartStep DEF Next

-----------------------------------------------------------------------------
(* What it means *)

LEMMA SharedHolds == IInv => FetchIsShared
<1> SUFFICES ASSUME IInv PROVE FetchIsShared
  OBVIOUS
<1>1. ASSUME NEW u \in Urls, NEW c \in Callers, NEW d \in Callers, {c, d} \subseteq Fetching(u)
      PROVE  c = d
  <2>1. Busy(c, u) /\ Busy(d, u)
    BY <1>1 DEF Fetching, Busy
  <2>2. QED
    BY <2>1 DEF IInv, Marked
<1>2. ASSUME NEW c \in Callers, call[c].pc = "waiting" PROVE Fetching(call[c].url) # {}
  <2>1. call[c].url \in inFlight /\ call[c].url \in Urls
    BY <1>2 DEF IInv, Marked, TypeOK
  <2>2. PICK d \in Callers : Busy(d, call[c].url)
    BY <2>1 DEF IInv, Marked
  <2>3. QED
    BY <2>2 DEF Fetching, Busy
<1>3. ASSUME NEW c \in Callers, call[c].pc = "woken", call[c].got PROVE Has(call[c].url)
  BY <1>3 DEF IInv, Rows, Has, NoRow
<1>4. QED
  BY <1>1, <1>2, <1>3 DEF FetchIsShared, OneFetchPerUrl

\* At any time at most one request fetches an image, who waits for it waits for that
\* fetch, and who was woken with the image finds it (image_cache.py:128-143).
THEOREM SharingCorrect == Spec => []FetchIsShared
  BY IInvInit, IInvStep, SharedHolds, PTL DEF Spec

LEMMA WholeHolds == IInv => NeverHalfAnImage
  BY DEF IInv, Rows, NeverHalfAnImage

\* No lookup ever finds a file that was cut short, whatever fails and whenever the
\* process dies (image_cache.py:103-116).
THEOREM WholeImages == Spec => []NeverHalfAnImage
  BY IInvInit, IInvStep, WholeHolds, PTL DEF Spec

Stays(u) ==
  Has(u) /\ unused[u] < TTL /\ unused'[u] # TTL => row'[u] # NoRow /\ file'[u] = file[u]

LEMMA StaysStep == IInv /\ [Next]_vars => [\A u \in Urls : Stays(u)]_vars
<1> SUFFICES ASSUME IInv, Next, NEW u \in Urls, Has(u), unused[u] < TTL, unused'[u] # TTL
             PROVE  row'[u] # NoRow /\ file'[u] = file[u]
  BY DEF Stays
<1>0. row[u] # NoRow /\ row[u] < TTL /\ row[u] \in 0..TTL
  BY ImageAssumption DEF Has, IInv, Aged, TypeOK, NoRow
<1>1. ASSUME NEW v \in Urls, Hit(v) \/ Miss(v) PROVE row'[u] # NoRow /\ file'[u] = file[u]
  BY <1>0, <1>1, LookupRows DEF NoRow
<1>2. ASSUME NEW c \in Callers, call[c].pc = "fetching" PROVE call[c].url # u
  BY <1>0, <1>2 DEF IInv, Rows, Busy
<1>3. ASSUME NEW c \in Callers, NEW v \in Urls, Request(c, v)
      PROVE  row'[u] # NoRow /\ file'[u] = file[u]
  BY <1>1, <1>3 DEF Request
<1>4. ASSUME NEW c \in Callers, LookAgain(c) PROVE row'[u] # NoRow /\ file'[u] = file[u]
  <2>1. call[c].url \in Urls
    BY <1>4, Working DEF LookAgain, IInv
  <2>2. QED
    BY <1>1, <1>4, <2>1 DEF LookAgain
<1>5. ASSUME NEW c \in Callers, Fetched(c) PROVE row'[u] # NoRow /\ file'[u] = file[u]
  <2>1. call[c].url # u
    BY <1>2, <1>5 DEF Fetched
  <2>2. row' = [row EXCEPT ![call[c].url] = 0] /\ file' = [file EXCEPT ![call[c].url] = "whole"]
    BY <1>5 DEF Fetched, WriteFile, WriteRow
  <2>3. QED
    BY <1>0, <2>1, <2>2 DEF IInv, TypeOK
<1>6. ASSUME NEW c \in Callers, FetchFails(c) PROVE row'[u] # NoRow /\ file'[u] = file[u]
  <2>1. call[c].url # u
    BY <1>2, <1>6 DEF FetchFails
  <2>2. row' = row /\ (file' = file \/ file' = [file EXCEPT ![call[c].url] = "part"])
    BY <1>6 DEF FetchFails, WriteFile
  <2>3. QED
    BY <1>0, <2>1, <2>2 DEF IInv, TypeOK
<1>7. CASE CleanUp
  <2>1. u \notin Expired
    BY <1>0, ImageAssumption DEF Expired
  <2>2. QED
    BY <1>0, <1>7, <2>1 DEF CleanUp
<1>8. CASE Day
  <2>1. row'[u] = IF row[u] \in 0..(TTL - 1) THEN row[u] + 1 ELSE row[u]
    BY <1>8 DEF Day
  <2>2. file' = file
    BY <1>8 DEF Day
  <2>3. QED
    BY <1>0, <2>1, <2>2, ImageAssumption DEF NoRow
<1>9. ASSUME NEW v \in Urls, DeleteOutside(v) PROVE row'[u] # NoRow /\ file'[u] = file[u]
  <2>1. /\ row' = row /\ file' = [file EXCEPT ![v] = "none"]
        /\ unused' = [unused EXCEPT ![v] = TTL]
    BY <1>9 DEF DeleteOutside
  <2>2. QED
    BY <1>0, <2>1 DEF IInv, TypeOK
<1>10. CASE Restart
  <2>1. u \notin Expired
    BY <1>0, ImageAssumption DEF Expired
  <2>2. QED
    BY <1>0, <1>10, <2>1, RestartFiles DEF Restart
<1>11. QED
  BY <1>3, <1>4, <1>5, <1>6, <1>7, <1>8, <1>9, <1>10 DEF Next

\* No step takes the row or the file of an image a client got within the TTL, except
\* somebody deleting the file from outside (image_cache.py:3-5).
THEOREM UsedImagesAreKept == Spec => UsedImagesStay
<1>1. Spec => [][\A u \in Urls : Stays(u)]_vars
  BY IInvInit, IInvStep, StaysStep, PTL DEF Spec
<1>2. QED
  BY <1>1 DEF UsedImagesStay, Stays

-----------------------------------------------------------------------------
(***************************************************************************)
(* Searches, for every set of queries and volumes, any number of clients,  *)
(* pages, edits and troubles.                                              *)
(***************************************************************************)

(* Lists *)

\* A finite set of numbers has a greatest one.
LEMMA LastOne ==
  ASSUME NEW m \in Nat, NEW S \in SUBSET (0..m), S # {}
  PROVE  \E n \in S : \A k \in S : k <= n
<1> DEFINE Above(n) == {k \in S : k > n}
           F == {Above(n) : n \in S}
<1>1. IsFiniteSet(S)
  <2>1. IsFiniteSet(0..m)
    BY FS_Interval
  <2>2. QED
    BY <2>1, FS_Subset
<1>2. F # {} /\ F \subseteq SUBSET S
  OBVIOUS
<1>3. PICK T \in F : \A U \in F : ~(<<U, T>> \in StrictSubsetOrdering(S))
  <2>1. F # {} /\ F \subseteq FiniteSubsetsOf(S)
    BY <1>1, <1>2, FS_FiniteSubsetsOfFinite
  <2> HIDE DEF F
  <2>2. QED
    BY <1>1, <2>1, FS_StrictSubsetOrderingWellFounded, WFMin
<1>4. PICK n \in S : T = Above(n)
  BY <1>3
<1>5. ASSUME NEW k \in S, k > n PROVE FALSE
  <2>1. k \in Nat /\ n \in Nat /\ \A x \in S : x \in Nat
    OBVIOUS
  <2>2. Above(k) \in SUBSET Above(n) /\ k \in Above(n) /\ k \notin Above(k)
    <3>1. \A x \in S : (x > k => x > n) /\ ~(k > k)
      BY <1>5, <2>1
    <3>2. QED
      BY <1>5, <3>1
  <2>3. <<Above(k), Above(n)>> \in StrictSubsetOrdering(S)
    BY <2>2 DEF StrictSubsetOrdering
  <2>4. QED
    BY <1>3, <1>4, <2>3
<1>6. QED
  BY <1>5

\* So a set that has 0 and with a number the next one has all of them.
LEMMA Upwards ==
  ASSUME NEW m \in Nat, NEW S, 0 \in S, \A n \in 0..(m - 1) : n \in S => n + 1 \in S
  PROVE  m \in S
<1>1. ASSUME m \notin S PROVE FALSE
  <2> DEFINE T == {k \in 0..m : k \in S}
  <2>1. T \in SUBSET (0..m) /\ 0 \in T
    OBVIOUS
  <2>2. PICK k \in T : \A j \in T : j <= k
    BY <2>1, LastOne
  <2>3. k \in 0..(m - 1) /\ k + 1 \in 0..m /\ k \in S
    BY <1>1
  <2>4. k + 1 \in T /\ ~(k + 1 <= k)
    BY <2>3
  <2>5. QED
    BY <2>2, <2>4
<1>2. QED
  BY <1>1

\* What Only makes of a list: everything of the set that is in it.
LEMMA OnlyKeeps ==
  ASSUME NEW S, NEW list \in Seq(S), NEW some
  PROVE  /\ Only(list, some) \in Seq(S)
         /\ \A i \in 1..Len(list) :
              list[i] \in some => \E j \in 1..Len(Only(list, some)) : Only(list, some)[j] = list[i]
<1> DEFINE m == Len(list)
           Step(f, n) == IF n = 0 THEN <<>>
                         ELSE IF list[n] \in some THEN Append(f[n - 1], list[n]) ELSE f[n - 1]
           Good(f, n) == f = [k \in 0..n |-> Step(f, k)]
           upto == CHOOSE f : Good(f, m)
<1>1. m \in Nat /\ \A i \in 1..m : list[i] \in S
  OBVIOUS
<1>2. \E f : Good(f, m)
  <2> DEFINE T == {n \in 0..m : \E f : Good(f, n)}
  <2>1. 0 \in T
    <3> DEFINE f == [k \in 0..0 |-> <<>>]
    <3>1. \A k \in 0..0 : k = 0
      OBVIOUS
    <3>2. \A k \in 0..0 : f[k] = Step(f, k)
      BY <3>1
    <3>3. Good(f, 0)
      BY <3>2
    <3>4. 0 \in 0..m
      BY <1>1
    <3> HIDE DEF f, Good, m
    <3>5. QED
      BY <3>3, <3>4
  <2>2. ASSUME NEW n \in 0..(m - 1), n \in T PROVE n + 1 \in T
    <3>1. PICK f : Good(f, n)
      BY <2>2
    <3>2. n \in Nat /\ n + 1 \in 0..m /\ DOMAIN f = 0..n
      BY <1>1, <3>1
    <3> DEFINE g == [k \in 0..(n + 1) |-> IF k = n + 1 THEN Step(f, k) ELSE f[k]]
    <3>3. ASSUME NEW k \in 0..(n + 1) PROVE g[k] = Step(g, k)
      <4>1. CASE k = 0
        BY <3>1, <3>2, <4>1
      <4>2. CASE k # 0
        <5>1. k - 1 \in 0..(n + 1) /\ k - 1 # n + 1
          BY <3>2, <4>2
        <5>2. g[k - 1] = f[k - 1]
          BY <5>1
        <5>3. Step(g, k) = Step(f, k)
          BY <4>2, <5>2
        <5>4. k # n + 1 => k \in 0..n
          BY <3>2
        <5>5. g[k] = Step(f, k)
          BY <3>1, <5>4
        <5>6. QED
          BY <5>3, <5>5
      <4>3. QED
        BY <4>1, <4>2
    <3>4. g = [k \in 0..(n + 1) |-> Step(g, k)]
      BY <3>3
    <3>5. QED
      BY <3>2, <3>4
  <2> HIDE DEF T, Good, m
  <2>3. m \in T
    BY <1>1, <2>1, <2>2, Upwards
  <2>4. QED
    BY <2>3 DEF T
<1>3. Good(upto, m)
  BY <1>2
<1>4. Only(list, some) = upto[m]
  BY DEF Only
<1> HIDE DEF upto
<1>5. /\ upto[0] = <<>>
      /\ \A n \in 1..m : upto[n] = IF list[n] \in some THEN Append(upto[n - 1], list[n]) ELSE upto[n - 1]
  <2>1. ASSUME NEW n \in 0..m PROVE upto[n] = Step(upto, n)
    <3> HIDE DEF m
    <3>1. QED
      BY <1>3
  <2>2. ASSUME NEW n \in 1..m
        PROVE  n \in 0..m /\ n # 0
    BY <1>1
  <2>3. 0 \in 0..m
    BY <1>1
  <2> HIDE DEF m
  <2>4. QED
    BY <2>1, <2>2, <2>3
<1> DEFINE Kept(n) == /\ upto[n] \in Seq(S)
                      /\ \A i \in 1..n : list[i] \in some => \E j \in 1..Len(upto[n]) : upto[n][j] = list[i]
           K == {n \in 0..m : Kept(n)}
<1>6. 0 \in K
  <2>1. 0 \in 0..m /\ ~\E i \in 1..0 : TRUE
    BY <1>1
  <2>2. <<>> \in Seq(S)
    OBVIOUS
  <2>3. Kept(0)
    BY <1>5, <2>1, <2>2
  <2> HIDE DEF Kept, m
  <2>4. QED
    BY <2>1, <2>3
<1>7. ASSUME NEW n \in 0..(m - 1), n \in K PROVE n + 1 \in K
  <2>1. /\ n \in Nat /\ n + 1 \in 1..m /\ (n + 1) - 1 = n
        /\ upto[n] \in Seq(S) /\ list[n + 1] \in S
    BY <1>1, <1>7
  <2>2. CASE list[n + 1] \in some
    <3>1. upto[n + 1] = Append(upto[n], list[n + 1])
      BY <1>5, <2>1, <2>2
    <3>2. /\ upto[n + 1] \in Seq(S) /\ Len(upto[n + 1]) = Len(upto[n]) + 1 /\ Len(upto[n]) \in Nat
          /\ upto[n + 1][Len(upto[n]) + 1] = list[n + 1]
          /\ \A j \in 1..Len(upto[n]) : upto[n + 1][j] = upto[n][j]
      BY <2>1, <3>1
    <3>3. ASSUME NEW i \in 1..(n + 1), list[i] \in some
          PROVE  \E j \in 1..Len(upto[n + 1]) : upto[n + 1][j] = list[i]
      <4>1. CASE i = n + 1
        BY <3>2, <4>1
      <4>2. CASE i \in 1..n
        <5>1. PICK j \in 1..Len(upto[n]) : upto[n][j] = list[i]
          BY <1>7, <3>3, <4>2
        <5>2. j \in 1..Len(upto[n + 1]) /\ upto[n + 1][j] = list[i]
          BY <3>2, <5>1
        <5>3. QED
          BY <5>2
      <4>3. QED
        BY <2>1, <4>1, <4>2
    <3>4. QED
      BY <2>1, <3>2, <3>3
  <2>3. CASE list[n + 1] \notin some
    <3>1. upto[n + 1] = upto[n]
      BY <1>5, <2>1, <2>3
    <3>2. ASSUME NEW i \in 1..(n + 1), list[i] \in some PROVE i \in 1..n
      BY <2>1, <2>3, <3>2
    <3>3. QED
      BY <1>7, <2>1, <3>1, <3>2
  <2>4. QED
    BY <2>2, <2>3
<1>8. m \in K
  <2> HIDE DEF K, m
  <2>1. QED
    BY <1>1, <1>6, <1>7, Upwards
<1>9. QED
  BY <1>4, <1>8

LEMMA OneMorePage ==
  ASSUME NEW n \in Nat, n > 0, NEW p \in Nat
  PROVE  /\ (n - 1) * p \in Nat /\ ((n + 1) - 1) * p = (n - 1) * p + p
<1>1. (n + 1) - 1 = (n - 1) + 1 /\ n - 1 \in Nat
  OBVIOUS
<1>2. \A k \in Nat : k * p \in Nat /\ (k + 1) * p = k * p + p
  OBVIOUS
<1>3. QED
  BY <1>1, <1>2

LEMMA SmallerNumber ==
  ASSUME NEW a \in Nat, NEW b \in Nat
  PROVE  Min({a, b}) = IF a <= b THEN a ELSE b
<1>1. \A x \in {a, b} : (\A y \in {a, b} : x <= y) <=> x = IF a <= b THEN a ELSE b
  OBVIOUS
<1>2. QED
  BY <1>1 DEF Min

-----------------------------------------------------------------------------
(* The inductive invariant *)

Entries == [results : Seq(Volumes), total : Int, had : SUBSET Volumes, torn : BOOLEAN,
            missed : SUBSET Volumes]
Tasks == [as : {"idle", "search", "fill", "worker"}, query : Queries \cup {"none"},
          next : Nat \ {0}, last : Nat \ {0}, before : Nat, got : Entries]

SearchTyped ==
  /\ ranking \in Seq(Volumes)
  /\ cache \in [Queries -> Entries]
  /\ reading \in [Readers -> Tasks]

\* The first pages of a list, as many as a task has asked for.
FirstPages(results, list, asked) ==
  /\ results \in Seq(Volumes)
  /\ Len(results) <= Len(list) /\ Len(results) <= asked * PageSize
  /\ \A i \in 1..Len(results) : results[i] = list[i]
  /\ Len(results) = asked * PageSize \/ Len(results) = Len(list)

Begins(got, list, hits, asked) ==
  /\ got.had \cap hits \subseteq Range(list) /\ got.total = Len(list)
  /\ FirstPages(got.results, list, asked)

Nothing == Entry(<<>>, 0, {}, FALSE)

\* A task has nothing before its first page, and then what ComicVine would still answer,
\* or it is torn.
Fits(order, task) ==
  /\ task.next = 1 => task.got = Nothing
  /\ task.next > 1 /\ ~task.got.torn => Begins(task.got, Found(order, task.query), Hits[task.query], task.next - 1)

AllFit == \A r \in Readers : Fits(ranking, reading[r])

\* CompleteMeansAll of one entry.
Whole(q, entry) ==
  Len(entry.results) >= entry.total /\ ~entry.torn =>
    Named[q] \cap Hits[q] \cap entry.had \subseteq Range(entry.results) \cup entry.missed

AllWhole == \A q \in Queries : Whole(q, cache[q])

\* The marks, without counting.
Fills(tasks, r, q) == tasks[r].as = "fill" /\ tasks[r].query = q
MarksAre(marks, tasks) ==
  \A q \in Queries :
    /\ q \in marks <=> \E r \in Readers : Fills(tasks, r, q)
    /\ \A r, s \in Readers : Fills(tasks, r, q) /\ Fills(tasks, s, q) => r = s

WorkerFetches(tasks) == \A r \in Readers : tasks[r].as = "worker" => r = Worker

SearchInv ==
  SearchTyped /\ AllFit /\ AllWhole /\ MarksAre(filling, reading) /\ WorkerFetches(reading)

LEMMA NothingTyped ==
  /\ Nothing \in Entries /\ Nothing.results = <<>> /\ Nothing.total = 0 /\ Nothing.torn = FALSE
  /\ Nothing.had = {}
  /\ NoEntry \in Entries /\ NoEntry.had = {}
BY DEF Nothing, NoEntry, Entry, Entries

LEMMA ReadsTyped ==
  ASSUME NEW kind \in {"idle", "search", "worker"}, NEW q \in Queries \cup {"none"}, NEW last \in Nat \ {0}
  PROVE  /\ Reads(kind, q, last) \in Tasks /\ \A order : Fits(order, Reads(kind, q, last))
         /\ Reads(kind, q, last).as = kind
<1>1. Reads(kind, q, last) = [as |-> kind, query |-> q, next |-> 1, last |-> last, before |-> 0, got |-> Nothing]
  BY DEF Reads, Task, Nothing
<1>2. Reads(kind, q, last) \in Tasks
  BY <1>1, NothingTyped DEF Tasks
<1>3. Reads(kind, q, last).as = kind /\ Reads(kind, q, last).got = Nothing /\ Reads(kind, q, last).next = 1
  BY <1>1
<1>4. \A order : Fits(order, Reads(kind, q, last))
  BY <1>3 DEF Fits
<1>5. QED
  BY <1>2, <1>3, <1>4

LEMMA IdleFits == NoTask \in Tasks /\ (\A order : Fits(order, NoTask)) /\ NoTask.as = "idle"
<1>1. "none" \in Queries \cup {"none"} /\ 1 \in Nat \ {0} /\ "idle" \in {"idle", "search", "worker"}
  OBVIOUS
<1>2. QED
  BY <1>1, ReadsTyped DEF NoTask

LEMMA SearchInvInit ==
  ASSUME SearchInit PROVE SearchInv
<1>1. SearchTyped
  BY NothingTyped, IdleFits, SearchAssumption DEF SearchInit, SearchTyped
<1>2. AllFit
  BY IdleFits DEF SearchInit, AllFit
<1>3. AllWhole
  BY NothingTyped DEF SearchInit, AllWhole, Whole
<1>4. MarksAre(filling, reading) /\ WorkerFetches(reading)
  BY IdleFits DEF SearchInit, MarksAre, Fills, WorkerFetches
<1>5. QED
  BY <1>1, <1>2, <1>3, <1>4 DEF SearchInv

-----------------------------------------------------------------------------
(* Entries *)

LEMMA FoundTyped ==
  ASSUME NEW order \in Seq(Volumes), NEW q PROVE Found(order, q) \in Seq(Volumes)
BY OnlyKeeps DEF Found

\* Of what there is, a search finds its hits.
LEMMA FoundHits ==
  ASSUME NEW order \in Seq(Volumes), NEW q PROVE Range(order) \cap Hits[q] \subseteq Range(Found(order, q))
<1> DEFINE some == Only(order, Hits[q])
<1>1. /\ some \in Seq(Volumes)
      /\ \A i \in 1..Len(order) : order[i] \in Hits[q] => \E j \in 1..Len(some) : some[j] = order[i]
  BY OnlyKeeps
<1>2. Range(order) = {order[i] : i \in 1..Len(order)} /\ Range(some) = {some[j] : j \in 1..Len(some)}
  BY <1>1 DEF Range
<1>3. Found(order, q) = some
  BY DEF Found
<1> HIDE DEF some
<1>4. QED
  BY <1>1, <1>2, <1>3

\* What a task got is whole as soon as it passes for complete.
LEMMA GotIsWhole ==
  ASSUME NEW order \in Seq(Volumes), NEW task \in Tasks, Fits(order, task),
         task.got.results # <<>>
  PROVE  Whole(task.query, task.got)
<1> SUFFICES ASSUME ~task.got.torn, Len(task.got.results) >= task.got.total
             PROVE  task.got.had \cap Hits[task.query] \subseteq Range(task.got.results)
  BY DEF Whole
<1> DEFINE list == Found(order, task.query)
           results == task.got.results
<1>1. results \in Seq(Volumes) /\ task.next \in Nat \ {0} /\ task.got \in Entries
  BY DEF Tasks, Entries
<1>2. list \in Seq(Volumes)
  BY FoundTyped
<1>3. task.next > 1
  BY <1>1, NothingTyped DEF Fits
<1>4. Begins(task.got, list, Hits[task.query], task.next - 1)
  BY <1>3 DEF Fits
<1> HIDE DEF list
<1>5. Len(results) = Len(list) /\ \A i \in 1..Len(results) : results[i] = list[i]
  BY <1>1, <1>2, <1>4 DEF Begins, FirstPages
<1>6. Range(list) = {list[i] : i \in 1..Len(list)} /\ Range(results) = {results[i] : i \in 1..Len(results)}
  BY <1>1, <1>2 DEF Range
<1>7. Range(list) \subseteq Range(results)
  BY <1>5, <1>6
<1>8. QED
  BY <1>4, <1>7 DEF Begins

LEMMA PutWhole ==
  ASSUME SearchInv, NEW q, NEW entry \in Entries, Whole(q, entry), Put(q, entry)
  PROVE  cache' \in [Queries -> Entries] /\ AllWhole'
<1>1. cache \in [Queries -> Entries]
  BY DEF SearchInv, SearchTyped
<1>2. \A p \in Queries : cache'[p] = IF p = q THEN entry ELSE cache[p]
  BY <1>1 DEF Put
<1>3. cache' \in [Queries -> Entries]
  BY <1>1 DEF Put
<1>4. \A p \in Queries : Whole(p, cache'[p])
  BY <1>2 DEF SearchInv, AllWhole
<1>5. QED
  BY <1>3, <1>4 DEF AllWhole

\* The entry of a narrower search is whole as the broader one is.
LEMMA NarrowedWhole ==
  ASSUME SearchInv, NEW q \in Queries, NEW b \in Supersets(q)
  PROVE  Narrowed(b, q) \in Entries /\ Whole(q, Narrowed(b, q))
<1> DEFINE entry == cache[b]
           list == entry.results
           some == Only(list, Named[q])
<1>1. b \in Queries /\ Named[q] \subseteq Named[b] /\ Complete(b)
  BY SearchAssumption DEF Supersets
<1>2. entry \in Entries /\ list \in Seq(Volumes) /\ Whole(b, entry)
  BY <1>1 DEF SearchInv, SearchTyped, AllWhole, Entries
<1>3. Len(list) >= entry.total
  BY <1>1 DEF Complete
<1> DEFINE missed == entry.missed \cup ((Named[q] \cap Hits[q]) \ Hits[b])
<1>4. Narrowed(b, q) = [entry EXCEPT !.results = some, !.total = Len(some), !.missed = missed]
  BY DEF Narrowed
<1> HIDE DEF entry
<1>5. Whole(b, entry) <=> (Len(list) >= entry.total /\ ~entry.torn =>
                            Named[b] \cap Hits[b] \cap entry.had \subseteq Range(list) \cup entry.missed)
  BY DEF Whole
<1> HIDE DEF list
<1>6. /\ some \in Seq(Volumes)
      /\ \A i \in 1..Len(list) : list[i] \in Named[q] => \E j \in 1..Len(some) : some[j] = list[i]
  BY <1>2, OnlyKeeps
<1> HIDE DEF some
<1>7. /\ Narrowed(b, q) \in Entries
      /\ Narrowed(b, q).results = some /\ Narrowed(b, q).torn = entry.torn
      /\ Narrowed(b, q).had = entry.had /\ Narrowed(b, q).missed = missed
  <2>1. /\ entry.had \in SUBSET Volumes /\ entry.torn \in BOOLEAN /\ Len(some) \in Int
        /\ missed \in SUBSET Volumes
    BY <1>2, <1>6, SearchAssumption DEF Entries
  <2> HIDE DEF missed
  <2>2. Narrowed(b, q) = [results |-> some, total |-> Len(some), had |-> entry.had, torn |-> entry.torn,
                          missed |-> missed]
    BY <1>2, <1>4 DEF Entries
  <2>3. Narrowed(b, q) \in Entries
    BY <1>6, <2>1, <2>2 DEF Entries
  <2>4. QED
    BY <2>2, <2>3
<1>8. ASSUME ~entry.torn, NEW v \in Named[q] \cap Hits[q] \cap entry.had, v \notin missed
      PROVE  v \in Range(some)
  <2>0. v \in Named[b] \cap Hits[b] \cap entry.had /\ v \notin entry.missed
    BY <1>1, <1>8
  <2>1. v \in Range(list)
    BY <1>2, <1>3, <1>5, <1>8, <2>0
  <2>2. PICK i \in 1..Len(list) : list[i] = v
    BY <1>2, <2>1 DEF Range
  <2>3. PICK j \in 1..Len(some) : some[j] = v
    BY <1>6, <1>8, <2>2
  <2>4. QED
    BY <1>6, <2>3 DEF Range
<1> HIDE DEF missed
<1>9. QED
  BY <1>7, <1>8 DEF Whole

-----------------------------------------------------------------------------
(* Tasks and marks *)

LEMMA TaskTurns ==
  ASSUME SearchInv, NEW r \in Readers, NEW task \in Tasks, Fits(ranking, task),
         task.as = "worker" => r = Worker,
         ranking' = ranking, reading' = [reading EXCEPT ![r] = task]
  PROVE  /\ ranking' \in Seq(Volumes) /\ reading' \in [Readers -> Tasks] /\ AllFit' /\ WorkerFetches(reading')
<1>1. reading \in [Readers -> Tasks] /\ ranking \in Seq(Volumes)
  BY DEF SearchInv, SearchTyped
<1>2. \A s \in Readers : reading'[s] = IF s = r THEN task ELSE reading[s]
  BY <1>1
<1>3. \A s \in Readers : Fits(ranking', reading'[s])
  BY <1>2 DEF SearchInv, AllFit
<1>4. WorkerFetches(reading')
  BY <1>2 DEF SearchInv, WorkerFetches
<1>5. QED
  BY <1>1, <1>3, <1>4 DEF AllFit

\* No task starts or stops filling.
LEMMA SameMarks ==
  ASSUME SearchInv, NEW r \in Readers, NEW task, reading' = [reading EXCEPT ![r] = task],
         \/ reading[r].as # "fill" /\ task.as # "fill"
         \/ reading[r].as = task.as /\ reading[r].query = task.query
  PROVE  MarksAre(filling, reading')
<1>1. reading \in [Readers -> Tasks]
  BY DEF SearchInv, SearchTyped
<1>2. \A s \in Readers, q \in Queries : Fills(reading', s, q) <=> Fills(reading, s, q)
  BY <1>1 DEF Fills
<1>3. QED
  BY <1>2 DEF SearchInv, MarksAre

\* A task starts filling where none does.
LEMMA OneMoreMark ==
  ASSUME SearchInv, NEW r \in Readers, NEW task, NEW q, reading' = [reading EXCEPT ![r] = task],
         reading[r].as # "fill", task.as = "fill", task.query = q, q \notin filling
  PROVE  MarksAre(filling \cup {q}, reading')
<1>1. reading \in [Readers -> Tasks]
  BY DEF SearchInv, SearchTyped
<1>2. \A s \in Readers, p \in Queries : Fills(reading', s, p) <=> IF s = r THEN p = q ELSE Fills(reading, s, p)
  BY <1>1 DEF Fills
<1>3. ~\E p \in Queries : Fills(reading, r, p)
  BY DEF Fills
<1>4. \A s \in Readers : q \in Queries => ~Fills(reading, s, q)
  BY DEF SearchInv, MarksAre
<1>5. ASSUME NEW p \in Queries
      PROVE  p \in filling \cup {q} <=> \E s \in Readers : Fills(reading', s, p)
  <2>1. CASE p = q
    BY <1>2, <2>1
  <2>2. CASE p # q
    <3>1. \A s \in Readers : Fills(reading', s, p) <=> Fills(reading, s, p)
      BY <1>2, <1>3, <2>2
    <3>2. QED
      BY <2>2, <3>1 DEF SearchInv, MarksAre
  <2>3. QED
    BY <2>1, <2>2
<1>6. ASSUME NEW p \in Queries, NEW s \in Readers, NEW t \in Readers,
             Fills(reading', s, p), Fills(reading', t, p)
      PROVE  s = t
  <2>1. CASE p = q
    BY <1>2, <1>4, <1>6, <2>1
  <2>2. CASE p # q
    BY <1>2, <1>6, <2>2 DEF SearchInv, MarksAre
  <2>3. QED
    BY <2>1, <2>2
<1>7. QED
  BY <1>5, <1>6 DEF MarksAre

\* A task stops filling, and takes its mark away.
LEMMA OneMarkLess ==
  ASSUME SearchInv, NEW r \in Readers, NEW task, reading' = [reading EXCEPT ![r] = task],
         reading[r].as = "fill", task.as # "fill"
  PROVE  MarksAre(filling \ {reading[r].query}, reading')
<1>1. reading \in [Readers -> Tasks]
  BY DEF SearchInv, SearchTyped
<1>2. \A s \in Readers, p \in Queries : Fills(reading', s, p) <=> s # r /\ Fills(reading, s, p)
  BY <1>1 DEF Fills
<1>3. \A p \in Queries : Fills(reading, r, p) <=> p = reading[r].query
  BY DEF Fills
<1>4. QED
  BY <1>2, <1>3 DEF SearchInv, MarksAre

-----------------------------------------------------------------------------
(* A page *)

PageOf(list, from) == SubSeq(list, from + 1, Min({Len(list), from + PageSize}))

LEMMA PageIs ==
  ASSUME NEW list \in Seq(Volumes), NEW from \in Nat
  PROVE  /\ PageOf(list, from) \in Seq(Volumes)
         /\ Len(PageOf(list, from)) = IF Len(list) <= from THEN 0
                                      ELSE IF Len(list) <= from + PageSize THEN Len(list) - from ELSE PageSize
         /\ \A i \in 1..Len(PageOf(list, from)) : PageOf(list, from)[i] = list[from + i]
<1> DEFINE last == IF Len(list) <= from + PageSize THEN Len(list) ELSE from + PageSize
<1>1. PageSize \in Nat /\ PageSize > 0 /\ Len(list) \in Nat
  BY SearchAssumption
<1>2. PageOf(list, from) = SubSeq(list, from + 1, last)
  <2>1. from + PageSize \in Nat
    BY <1>1
  <2>2. Min({Len(list), from + PageSize}) = last
    BY <1>1, <2>1, SmallerNumber
  <2>3. QED
    BY <2>2 DEF PageOf
<1>3. last \in Nat /\ last <= Len(list)
  BY <1>1
<1>4. (last <= from <=> Len(list) <= from) /\ last - from \in Int
      /\ (last > from => last - from = IF Len(list) <= from + PageSize THEN Len(list) - from ELSE PageSize)
  BY <1>1
<1> HIDE DEF last
<1>5. /\ PageOf(list, from) \in Seq(Volumes)
      /\ Len(PageOf(list, from)) = IF from + 1 <= last THEN last - from ELSE 0
      /\ \A i \in 1..(last - from) : PageOf(list, from)[i] = list[from + i]
  BY <1>2, <1>3
<1>6. QED
  BY <1>3, <1>4, <1>5

LEMMA NextPage ==
  ASSUME NEW list \in Seq(Volumes), NEW results, NEW n \in Nat \ {0},
         FirstPages(results, list, n - 1)
  PROVE  /\ FirstPages(results \o PageOf(list, (n - 1) * PageSize), list, n)
         /\ PageOf(list, (n - 1) * PageSize) = <<>> => Len(list) <= (n - 1) * PageSize
<1> DEFINE from == (n - 1) * PageSize
           page == PageOf(list, from)
           all == results \o page
<1>1. PageSize \in Nat /\ PageSize > 0 /\ Len(list) \in Nat
  BY SearchAssumption
<1>2. from \in Nat /\ n * PageSize = from + PageSize
  BY <1>1, OneMorePage
<1>3. /\ results \in Seq(Volumes) /\ Len(results) <= Len(list) /\ Len(results) <= from
      /\ \A i \in 1..Len(results) : results[i] = list[i]
      /\ Len(results) = from \/ Len(results) = Len(list)
  BY DEF FirstPages
<1> HIDE DEF from
<1>4. /\ page \in Seq(Volumes)
      /\ Len(page) = IF Len(list) <= from THEN 0
                     ELSE IF Len(list) <= from + PageSize THEN Len(list) - from ELSE PageSize
      /\ \A i \in 1..Len(page) : page[i] = list[from + i]
  BY <1>2, PageIs
<1> HIDE DEF page
<1>5. /\ all \in Seq(Volumes) /\ Len(all) = Len(results) + Len(page)
      /\ \A i \in 1..(Len(results) + Len(page)) :
           all[i] = IF i <= Len(results) THEN results[i] ELSE page[i - Len(results)]
  <2>1. results \in Seq(Volumes) /\ page \in Seq(Volumes)
    BY <1>3, <1>4
  <2>2. QED
    BY <2>1, ConcatProperties
<1> HIDE DEF all
<1>6. /\ Len(all) <= Len(list) /\ Len(all) <= n * PageSize
      /\ Len(all) = n * PageSize \/ Len(all) = Len(list)
  <2>1. /\ Len(results) \in Nat /\ Len(results) <= Len(list) /\ Len(results) <= from
        /\ Len(results) = from \/ Len(results) = Len(list)
    BY <1>3
  <2>2. Len(all) = Len(results) + Len(page)
    BY <1>5
  <2>3. Len(page) = IF Len(list) <= from THEN 0
                    ELSE IF Len(list) <= from + PageSize THEN Len(list) - from ELSE PageSize
    BY <1>4
  <2>4. /\ Len(all) <= Len(list) /\ Len(all) <= from + PageSize
        /\ Len(all) = from + PageSize \/ Len(all) = Len(list)
    <3> DEFINE a == Len(results)
               b == Len(list)
               c == Len(page)
    <3>1. from \in Nat /\ a \in Nat /\ b \in Nat /\ c \in Nat /\ Len(all) = a + c
      BY <1>1, <1>2, <1>4, <2>1, <2>2
    <3>2. a <= b /\ a <= from /\ (a = from \/ a = b)
      BY <2>1
    <3>3. c = IF b <= from THEN 0 ELSE IF b <= from + PageSize THEN b - from ELSE PageSize
      BY <2>3
    <3> HIDE DEF a, b, c
    <3>4. a + c <= b /\ a + c <= from + PageSize /\ (a + c = from + PageSize \/ a + c = b)
      <4>1. CASE b <= from
        BY <1>1, <3>1, <3>2, <3>3, <4>1
      <4>2. CASE b > from
        BY <1>1, <3>1, <3>2, <3>3, <4>2
      <4>3. QED
        BY <3>1, <4>1, <4>2
    <3>5. QED
      BY <3>1, <3>4 DEF b
  <2>5. QED
    BY <1>2, <2>4, Zenon
<1>7. ASSUME NEW i \in 1..Len(all) PROVE all[i] = list[i]
  <2>1. CASE i <= Len(results)
    BY <1>3, <1>5, <2>1
  <2>2. CASE i > Len(results)
    <3>1. i - Len(results) \in 1..Len(page)
      BY <1>3, <1>4, <1>5, <2>2
    <3>2. Len(results) = from
      BY <1>1, <1>2, <1>3, <1>4, <3>1
    <3>3. i - Len(results) \in Int /\ from + (i - Len(results)) = i
      BY <1>2, <1>3, <3>2
    <3>4. all[i] = page[i - Len(results)]
      BY <1>3, <1>5, <2>2
    <3>5. QED
      BY <1>4, <3>1, <3>3, <3>4
  <2>3. QED
    BY <1>3, <2>1, <2>2
<1>8. page = <<>> => Len(list) <= from
  BY <1>1, <1>2, <1>4
<1>9. QED
  BY <1>5, <1>6, <1>7, <1>8 DEF FirstPages, all, page, from

LEMMA WithPageIs ==
  ASSUME NEW task
  PROVE  LET list == Found(ranking, task.query)
             page == PageOf(list, (task.next - 1) * PageSize)
             one == WithPage(task)
         IN  /\ one.as = task.as /\ one.query = task.query /\ one.next = task.next + 1
             /\ one.last = task.last /\ one.before = task.before
             /\ one.got = [results |-> task.got.results \o page,
                           total |-> IF page # <<>> /\ task.got.total = 0 THEN Len(list) ELSE task.got.total,
                           had |-> IF task.next = 1 THEN Range(ranking) ELSE task.got.had,
                           torn |-> task.got.torn, missed |-> {}]
             /\ one = [as |-> one.as, query |-> one.query, next |-> one.next, last |-> one.last,
                       before |-> one.before, got |-> one.got]
BY DEF WithPage, PageOf, Task, Entry

LEMMA WithPageFits ==
  ASSUME SearchTyped, NEW task \in Tasks, Fits(ranking, task)
  PROVE  /\ WithPage(task) \in Tasks /\ Fits(ranking, WithPage(task))
         /\ WithPage(task).as = task.as /\ WithPage(task).query = task.query
<1> DEFINE list == Found(ranking, task.query)
           from == (task.next - 1) * PageSize
           page == PageOf(list, from)
           got == task.got
           all == got.results \o page
           n == task.next
           hits == Hits[task.query]
           one == WithPage(task)
<1>1. list \in Seq(Volumes)
  BY FoundTyped DEF SearchTyped
<1>2. /\ got \in Entries /\ n \in Nat \ {0} /\ task.last \in Nat \ {0} /\ task.before \in Nat
      /\ task.query \in Queries \cup {"none"} /\ task.as \in {"idle", "search", "fill", "worker"}
  BY DEF Tasks
<1>3. /\ got.results \in Seq(Volumes) /\ got.total \in Int /\ got.had \in SUBSET Volumes /\ got.torn \in BOOLEAN
  BY <1>2 DEF Entries
<1>4. /\ one.as = task.as /\ one.query = task.query /\ one.next = n + 1
      /\ one.last = task.last /\ one.before = task.before
      /\ one.got = [results |-> all,
                    total |-> IF page # <<>> /\ got.total = 0 THEN Len(list) ELSE got.total,
                    had |-> IF n = 1 THEN Range(ranking) ELSE got.had,
                    torn |-> got.torn, missed |-> {}]
      /\ one = [as |-> one.as, query |-> one.query, next |-> one.next, last |-> one.last,
                before |-> one.before, got |-> one.got]
  BY WithPageIs, Zenon
<1>5. n = 1 => got = Nothing
  BY DEF Fits
<1>6. n > 1 /\ ~got.torn => Begins(got, list, hits, n - 1)
  BY DEF Fits
<1>7. Fits(ranking, one) <=> (n + 1 = 1 => one.got = Nothing)
                             /\ (n + 1 > 1 /\ ~one.got.torn => Begins(one.got, list, hits, (n + 1) - 1))
  BY <1>4 DEF Fits
<1>0. ranking \in Seq(Volumes) /\ Range(ranking) \cap hits \subseteq Range(list)
  BY FoundHits DEF SearchTyped
<1> HIDE DEF one, list, got, hits
<1>8. from \in Nat
  BY <1>2, OneMorePage, SearchAssumption
<1>9. from = (n - 1) * PageSize
  OBVIOUS
<1> HIDE DEF n, from
<1>10. page \in Seq(Volumes)
  BY <1>1, <1>8, PageIs
<1>11. one.got \in Entries
  <2>1. all \in Seq(Volumes)
    BY <1>3, <1>10, ConcatProperties
  <2>2. Len(list) \in Int /\ Range(ranking) \in SUBSET Volumes
    BY <1>0, <1>1 DEF Range
  <2> HIDE DEF all, page
  <2>3. QED
    BY <1>3, <1>4, <2>1, <2>2 DEF Entries
<1>12. one \in Tasks
  <2>1. /\ one.as \in {"idle", "search", "fill", "worker"} /\ one.query \in Queries \cup {"none"}
        /\ one.next \in Nat \ {0} /\ one.last \in Nat \ {0} /\ one.before \in Nat
    BY <1>2, <1>4
  <2>2. one = [as |-> one.as, query |-> one.query, next |-> one.next, last |-> one.last,
               before |-> one.before, got |-> one.got]
    BY <1>4
  <2>3. QED
    BY <1>11, <2>1, <2>2 DEF Tasks
<1>13. ASSUME ~one.got.torn PROVE Begins(one.got, list, hits, (n + 1) - 1)
  <2>1. (n + 1) - 1 = n /\ ~got.torn
    BY <1>2, <1>4, <1>13
  <2>2. /\ FirstPages(got.results, list, n - 1)
        /\ n = 1 => got.total = 0
        /\ n # 1 => got.total = Len(list) /\ got.had \cap hits \subseteq Range(list)
    <3>1. CASE n = 1
      <4>1. got.results = <<>> /\ got.total = 0
        BY <1>5, <3>1, NothingTyped
      <4>2. PageSize \in Nat /\ (n - 1) * PageSize = 0
        BY <3>1, SearchAssumption
      <4>3. QED
        BY <1>1, <3>1, <4>1, <4>2 DEF FirstPages
    <3>2. CASE n # 1
      <4>1. n > 1
        BY <1>2, <3>2
      <4>2. QED
        BY <1>6, <2>1, <3>2, <4>1 DEF Begins
    <3>3. QED
      BY <3>1, <3>2
  <2>3. FirstPages(all, list, n) /\ (page = <<>> => Len(list) <= from)
    BY <1>1, <1>2, <1>9, <2>2, NextPage
  <2>4. page = <<>> /\ n = 1 => Len(list) = 0
    <3>1. PageSize \in Nat /\ Len(list) \in Nat
      BY <1>1, SearchAssumption
    <3>2. n = 1 => from = 0
      BY <1>9, <3>1
    <3>3. QED
      BY <2>3, <3>1, <3>2
  <2> HIDE DEF all, page
  <2>5. one.got.had \cap hits \subseteq Range(list) /\ one.got.total = Len(list) /\ one.got.results = all
    BY <1>0, <1>4, <2>2, <2>4
  <2>6. QED
    BY <2>1, <2>3, <2>5 DEF Begins
<1>14. n + 1 # 1
  BY <1>2
<1>15. QED
  BY <1>4, <1>7, <1>12, <1>13, <1>14 DEF one

-----------------------------------------------------------------------------
(* How a task ends *)

\* A search becomes the fill of what it left.
LEMMA FillFits ==
  ASSUME NEW order \in Seq(Volumes), NEW task \in Tasks, Fits(order, task),
         task.got.results # <<>>, Len(task.got.results) = task.last * PageSize
  PROVE  LET fill == Task("fill", task.query, task.last + 1, MaxPages, Len(task.got.results), task.got)
         IN  fill \in Tasks /\ Fits(order, fill) /\ fill.as = "fill" /\ fill.query = task.query
<1> DEFINE got == task.got
           before == Len(got.results)
           fill == Task("fill", task.query, task.last + 1, MaxPages, before, got)
           list == Found(order, task.query)
           hits == Hits[task.query]
<1>1. /\ got \in Entries /\ task.next \in Nat \ {0} /\ task.last \in Nat \ {0}
      /\ task.query \in Queries \cup {"none"} /\ before \in Nat /\ MaxPages \in Nat \ {0}
  BY SearchAssumption DEF Tasks, Entries
<1>2. fill = [as |-> "fill", query |-> task.query, next |-> task.last + 1, last |-> MaxPages,
              before |-> before, got |-> got]
  BY DEF Task
<1>3. task.next > 1
  BY <1>1, NothingTyped DEF Fits
<1>4. ~got.torn => Begins(got, list, hits, task.next - 1)
  BY <1>3 DEF Fits
<1>5. (task.last + 1) - 1 = task.last /\ task.last + 1 # 1 /\ task.last + 1 \in Nat \ {0}
  BY <1>1
<1>6. ASSUME ~got.torn PROVE Begins(got, list, hits, task.last)
  <2>1. before <= task.last * PageSize
    BY <1>1
  <2>2. QED
    BY <1>4, <1>6, <2>1 DEF Begins, FirstPages
<1> HIDE DEF got, before, fill, list, hits
<1>7. fill \in Tasks
  BY <1>1, <1>2, <1>5 DEF Tasks
<1>8. fill.next = task.last + 1 /\ fill.got = got /\ fill.query = task.query /\ fill.as = "fill"
  BY <1>2
<1>9. Fits(order, fill)
  BY <1>5, <1>6, <1>8 DEF Fits, list, hits
<1>10. QED
  BY <1>7, <1>8, <1>9 DEF fill, before, got

LEMMA EndsKeep ==
  ASSUME SearchInv, ranking' = ranking, NEW r \in Readers, NEW task \in Tasks,
         Fits(ranking, task), task.as = reading[r].as, task.query = reading[r].query,
         NEW outcome, Ends(r, task, outcome)
  PROVE  SearchInv'
<1> DEFINE q == task.query
           got == task.got
<1>1. got \in Entries /\ q \in Queries \cup {"none"}
  BY DEF Tasks
<1>2. ranking \in Seq(Volumes) /\ cache \in [Queries -> Entries] /\ AllWhole
  BY DEF SearchInv, SearchTyped
<1>3. ASSUME got.results # <<>>, Store(q, got) PROVE cache' \in [Queries -> Entries] /\ AllWhole'
  <2>1. Whole(q, got)
    BY <1>2, <1>3, GotIsWhole
  <2>2. Put(q, got)
    BY <1>3 DEF Store
  <2>3. QED
    BY <1>1, <2>1, <2>2, PutWhole
<1>4. ASSUME UNCHANGED cache PROVE cache' \in [Queries -> Entries] /\ AllWhole'
  BY <1>2, <1>4 DEF AllWhole
<1>5. ASSUME reading' = [reading EXCEPT ![r] = NoTask]
      PROVE  ranking' \in Seq(Volumes) /\ reading' \in [Readers -> Tasks] /\ AllFit' /\ WorkerFetches(reading')
  BY <1>5, IdleFits, TaskTurns
<1>6. CASE task.as = "search" /\ SearchEnds(r, task, outcome)
  <2> DEFINE nothing == got.results = <<>>
             fill == ~nothing /\ More(task, outcome) /\ MayFill(q)
             next == Task("fill", q, task.last + 1, MaxPages, Len(got.results), got)
  <2>1. /\ IF nothing THEN UNCHANGED <<cache, local>> ELSE Store(q, got)
        /\ filling' = IF fill THEN filling \cup {q} ELSE filling
        /\ reading' = [reading EXCEPT ![r] = IF fill THEN next ELSE NoTask]
    BY <1>6 DEF SearchEnds
  <2>2. cache' \in [Queries -> Entries] /\ AllWhole'
    BY <1>3, <1>4, <2>1
  <2>3. CASE fill
    <3>1. got.results # <<>> /\ Len(got.results) = task.last * PageSize /\ q \notin filling
      BY <2>3 DEF More, MayFill
    <3>2. next \in Tasks /\ Fits(ranking, next) /\ next.as = "fill" /\ next.query = q
      BY <1>2, <3>1, FillFits
    <3> HIDE DEF next, fill, nothing
    <3>3. reading' = [reading EXCEPT ![r] = next] /\ filling' = filling \cup {q}
      BY <2>1, <2>3
    <3>4. ranking' \in Seq(Volumes) /\ reading' \in [Readers -> Tasks] /\ AllFit' /\ WorkerFetches(reading')
      BY <3>2, <3>3, TaskTurns
    <3>5. reading[r].as # "fill"
      BY <1>6
    <3>6. MarksAre(filling \cup {q}, reading')
      BY <3>1, <3>2, <3>3, <3>5, OneMoreMark
    <3>7. QED
      BY <2>2, <3>3, <3>4, <3>6 DEF SearchInv, SearchTyped
  <2>4. CASE ~fill
    <3> HIDE DEF next, fill, nothing
    <3>1. reading' = [reading EXCEPT ![r] = NoTask] /\ filling' = filling
      BY <2>1, <2>4
    <3>2. MarksAre(filling, reading')
      BY <1>6, <3>1, IdleFits, SameMarks
    <3>3. QED
      BY <1>5, <2>2, <3>1, <3>2 DEF SearchInv, SearchTyped
  <2>5. QED
    BY <2>3, <2>4
<1>7. CASE task.as = "fill" /\ FillEnds(r, task)
  <2>1. /\ IF Len(got.results) > task.before THEN Store(q, got) ELSE UNCHANGED <<cache, local>>
        /\ filling' = filling \ {q} /\ reading' = [reading EXCEPT ![r] = NoTask]
    BY <1>7 DEF FillEnds, Unmarked
  <2>2. Len(got.results) > task.before => got.results # <<>>
    <3>1. task.before \in Nat
      BY DEF Tasks
    <3>2. QED
      BY <3>1
  <2>3. cache' \in [Queries -> Entries] /\ AllWhole'
    BY <1>3, <1>4, <2>1, <2>2
  <2>4. MarksAre(filling \ {q}, reading')
    BY <1>7, <2>1, IdleFits, OneMarkLess
  <2>5. QED
    BY <1>5, <2>1, <2>3, <2>4 DEF SearchInv, SearchTyped
<1>8. CASE task.as = "worker" /\ WorkerEnds(task, outcome)
  <2>1. r = Worker
    BY <1>8 DEF SearchInv, WorkerFetches
  <2>2. /\ IF got.results = <<>> THEN UNCHANGED <<cache, local>> ELSE Store(q, got)
        /\ filling' = filling /\ reading' = [reading EXCEPT ![r] = NoTask]
    BY <1>8, <2>1 DEF WorkerEnds
  <2>3. cache' \in [Queries -> Entries] /\ AllWhole'
    BY <1>3, <1>4, <2>2
  <2>4. MarksAre(filling, reading')
    BY <1>8, <2>2, IdleFits, SameMarks
  <2>5. QED
    BY <1>5, <2>2, <2>3, <2>4 DEF SearchInv, SearchTyped
<1>9. QED
  BY <1>6, <1>7, <1>8 DEF Ends

-----------------------------------------------------------------------------
(* One lemma per action *)

LEMMA EditsAreLists ==
  ASSUME ranking \in Seq(Volumes), NEW list \in Edits PROVE list \in Seq(Volumes)
<1>1. CASE \E k \in 1..(Len(ranking) + 1), v \in Volumes \ Range(ranking) : list = InsertAt(ranking, k, v)
  <2>1. PICK k \in 1..(Len(ranking) + 1), v \in Volumes : list = InsertAt(ranking, k, v)
    BY <1>1
  <2>2. /\ SubSeq(ranking, 1, k - 1) \in Seq(Volumes) /\ SubSeq(ranking, k, Len(ranking)) \in Seq(Volumes)
        /\ <<v>> \in Seq(Volumes)
    BY <2>1
  <2>3. SubSeq(ranking, 1, k - 1) \o <<v>> \in Seq(Volumes)
    BY <2>2, ConcatProperties
  <2>4. QED
    BY <2>1, <2>2, <2>3, ConcatProperties DEF InsertAt
<1>2. CASE \E k \in 1..Len(ranking) : list = RemoveAt(ranking, k)
  <2>1. PICK k \in 1..Len(ranking) : list = RemoveAt(ranking, k)
    BY <1>2
  <2>2. SubSeq(ranking, 1, k - 1) \in Seq(Volumes) /\ SubSeq(ranking, k + 1, Len(ranking)) \in Seq(Volumes)
    BY <2>1
  <2>3. QED
    BY <2>1, <2>2, ConcatProperties DEF RemoveAt
<1>3. QED
  BY <1>1, <1>2 DEF Edits

LEMMA TornTask ==
  ASSUME NEW task \in Tasks
  PROVE  /\ Torn(task) \in Tasks /\ Torn(task).got.torn = TRUE
         /\ Torn(task).as = task.as /\ Torn(task).query = task.query /\ Torn(task).next = task.next
<1> DEFINE got == Entry(task.got.results, task.got.total, task.got.had, TRUE)
<1>1. got \in Entries /\ got.torn = TRUE
  BY DEF Entry, Tasks, Entries
<1> HIDE DEF got
<1>2. Torn(task) = [as |-> task.as, query |-> task.query, next |-> task.next, last |-> task.last,
                    before |-> task.before, got |-> got]
  BY DEF Torn, Task, got
<1>3. QED
  BY <1>1, <1>2 DEF Tasks

LEMMA EditStep ==
  ASSUME SearchInv, NEW list \in Edits, Edit(list) PROVE SearchInv'
<1>1. ranking \in Seq(Volumes) /\ reading \in [Readers -> Tasks] /\ list \in Seq(Volumes)
  BY EditsAreLists DEF SearchInv, SearchTyped
<1> DEFINE Tears(r) == reading[r].next > 1 /\ Found(list, reading[r].query) # Found(ranking, reading[r].query)
<1>2. /\ ranking' = list /\ cache' = cache /\ filling' = filling
      /\ reading' = [r \in Readers |-> IF Tears(r) THEN Torn(reading[r]) ELSE reading[r]]
  BY DEF Edit, stored
<1>3. ASSUME NEW r \in Readers
      PROVE  /\ reading'[r] \in Tasks /\ Fits(list, reading'[r])
             /\ reading'[r].as = reading[r].as /\ reading'[r].query = reading[r].query
  <2>1. reading[r] \in Tasks /\ Fits(ranking, reading[r]) /\ reading[r].next \in Nat
    BY <1>1 DEF SearchInv, AllFit, Tasks
  <2>2. CASE Tears(r)
    <3>1. reading'[r] = Torn(reading[r])
      BY <1>2, <2>2
    <3>2. ~(reading[r].next = 1)
      BY <2>1, <2>2
    <3>3. QED
      BY <2>1, <3>1, <3>2, TornTask DEF Fits
  <2>3. CASE ~Tears(r)
    <3>1. reading'[r] = reading[r]
      BY <1>2, <2>3
    <3>2. reading[r].next > 1 => Found(list, reading[r].query) = Found(ranking, reading[r].query)
      BY <2>3
    <3>3. QED
      BY <2>1, <3>1, <3>2 DEF Fits
  <2>4. QED
    BY <2>2, <2>3
<1> HIDE DEF Tears
<1>4. reading' \in [Readers -> Tasks]
  BY <1>2, <1>3
<1>5. AllFit'
  BY <1>2, <1>3 DEF AllFit
<1>6. MarksAre(filling, reading') /\ WorkerFetches(reading')
  <2>1. \A r \in Readers, q \in Queries : Fills(reading', r, q) <=> Fills(reading, r, q)
    BY <1>3 DEF Fills
  <2>2. QED
    BY <1>3, <2>1 DEF SearchInv, MarksAre, WorkerFetches
<1>7. QED
  BY <1>1, <1>2, <1>4, <1>5, <1>6 DEF SearchInv, SearchTyped, AllWhole

\* What leaves the tasks and marks alone keeps what is said of them.
LEMMA CacheStep ==
  ASSUME SearchInv, ranking' = ranking, reading' = reading, filling' = filling,
         cache' \in [Queries -> Entries], AllWhole'
  PROVE  SearchInv'
BY DEF SearchInv, SearchTyped, AllFit

LEMMA SameCacheStep ==
  ASSUME SearchInv, ranking' = ranking, reading' = reading, filling' = filling, cache' = cache
  PROVE  SearchInv'
<1>1. cache' \in [Queries -> Entries] /\ AllWhole'
  BY DEF SearchInv, SearchTyped, AllWhole
<1>2. QED
  BY <1>1, CacheStep

LEMMA ExpireStep ==
  ASSUME SearchInv, NEW q \in Queries, Expire(q) PROVE SearchInv'
<1>1. Whole(q, NoEntry) /\ NoEntry \in Entries
  BY NothingTyped DEF Whole
<1>2. Put(q, NoEntry)
  BY DEF Expire, Put
<1>3. cache' \in [Queries -> Entries] /\ AllWhole'
  BY <1>1, <1>2, PutWhole
<1>4. QED
  BY <1>3, CacheStep DEF Expire

LEMMA DeriveStep ==
  ASSUME SearchInv, NEW q \in Queries, Derive(q) PROVE SearchInv'
<1>1. PICK b \in Supersets(q) : Put(q, Narrowed(b, q))
  BY DEF Derive
<1>2. Narrowed(b, q) \in Entries /\ Whole(q, Narrowed(b, q))
  BY NarrowedWhole
<1>3. cache' \in [Queries -> Entries] /\ AllWhole'
  BY <1>1, <1>2, PutWhole
<1>4. QED
  BY <1>3, CacheStep DEF Derive

\* Who does nothing yet starts to read.
LEMMA StartStep ==
  ASSUME SearchInv, NEW r \in Readers, reading[r] = NoTask,
         NEW kind \in {"search", "worker"}, NEW q \in Queries, NEW last \in Nat \ {0},
         kind = "worker" => r = Worker,
         reading' = [reading EXCEPT ![r] = Reads(kind, q, last)],
         ranking' = ranking, cache' = cache, filling' = filling
  PROVE  SearchInv'
<1> DEFINE task == Reads(kind, q, last)
<1>1. task \in Tasks /\ Fits(ranking, task) /\ task.as = kind
  BY ReadsTyped
<1> HIDE DEF task
<1>2. reading' = [reading EXCEPT ![r] = task]
  BY DEF task
<1>3. ranking' \in Seq(Volumes) /\ reading' \in [Readers -> Tasks] /\ AllFit' /\ WorkerFetches(reading')
  BY <1>1, <1>2, TaskTurns
<1>4. MarksAre(filling, reading')
  BY <1>1, <1>2, IdleFits, SameMarks
<1>5. QED
  BY <1>3, <1>4 DEF SearchInv, SearchTyped, AllWhole

LEMMA PageStep ==
  ASSUME SearchInv, NEW r \in Readers, Page(r) PROVE SearchInv'
<1> DEFINE task == WithPage(reading[r])
<1>1. reading[r] \in Tasks /\ Fits(ranking, reading[r])
  BY DEF SearchInv, SearchTyped, AllFit
<1>2. task \in Tasks /\ Fits(ranking, task) /\ task.as = reading[r].as /\ task.query = reading[r].query
  BY <1>1, WithPageFits DEF SearchInv
<1>3. /\ \/ Ends(r, task, "ok")
         \/ reading' = [reading EXCEPT ![r] = task] /\ UNCHANGED <<stored, filling>>
      /\ ranking' = ranking
  BY DEF Page
<1> HIDE DEF task
<1>4. CASE Ends(r, task, "ok")
  BY <1>2, <1>3, <1>4, EndsKeep
<1>5. CASE reading' = [reading EXCEPT ![r] = task] /\ UNCHANGED <<stored, filling>>
  <2>1. task.as = "worker" => r = Worker
    BY <1>2 DEF SearchInv, WorkerFetches
  <2>2. ranking' \in Seq(Volumes) /\ reading' \in [Readers -> Tasks] /\ AllFit' /\ WorkerFetches(reading')
    BY <1>2, <1>3, <1>5, <2>1, TaskTurns
  <2>3. MarksAre(filling, reading')
    BY <1>2, <1>5, SameMarks
  <2>4. QED
    BY <1>5, <2>2, <2>3 DEF SearchInv, SearchTyped, AllWhole, stored
<1>6. QED
  BY <1>3, <1>4, <1>5

LEMMA StopsStep ==
  ASSUME SearchInv, NEW r \in Readers, NEW outcome, Stops(r, outcome) PROVE SearchInv'
<1>1. reading[r] \in Tasks /\ Fits(ranking, reading[r])
  BY DEF SearchInv, SearchTyped, AllFit
<1>2. QED
  BY <1>1, EndsKeep DEF Stops

LEMMA RaisesStep ==
  ASSUME SearchInv, NEW r \in Readers, Raises(r) PROVE SearchInv'
<1>1. /\ reading' = [reading EXCEPT ![r] = NoTask]
      /\ filling' = IF reading[r].as = "fill" THEN filling \ {reading[r].query} ELSE filling
      /\ ranking' = ranking /\ cache' = cache
  BY DEF Raises, stored, Unmarked
<1>2. ranking' \in Seq(Volumes) /\ reading' \in [Readers -> Tasks] /\ AllFit' /\ WorkerFetches(reading')
  BY <1>1, IdleFits, TaskTurns
<1>3. MarksAre(filling', reading')
  <2>1. CASE reading[r].as = "fill"
    BY <1>1, <2>1, IdleFits, OneMarkLess
  <2>2. CASE reading[r].as # "fill"
    BY <1>1, <2>2, IdleFits, SameMarks
  <2>3. QED
    BY <2>1, <2>2
<1>4. QED
  BY <1>1, <1>2, <1>3 DEF SearchInv, SearchTyped, AllWhole

LEMMA RestartForgetsMarks ==
  ASSUME SearchInv, SearchRestart PROVE SearchInv'
<1>1. /\ reading' = [r \in Readers |-> NoTask] /\ filling' = {}
      /\ ranking' = ranking /\ cache' = cache
  BY DEF SearchRestart, stored
<1>2. reading' \in [Readers -> Tasks] /\ AllFit'
  BY <1>1, IdleFits DEF AllFit
<1>3. MarksAre(filling', reading') /\ WorkerFetches(reading')
  BY <1>1, IdleFits DEF MarksAre, Fills, WorkerFetches
<1>4. QED
  BY <1>1, <1>2, <1>3 DEF SearchInv, SearchTyped, AllWhole

LEMMA SearchStep ==
  ASSUME SearchInv, [SearchNext]_searchVars PROVE SearchInv'
<1>1. ASSUME NEW list \in Edits, Edit(list) PROVE SearchInv'
  BY <1>1, EditStep
<1>2. ASSUME NEW v \in Volumes, Sync(v) PROVE SearchInv'
  BY <1>2, SameCacheStep DEF Sync
<1>3. ASSUME NEW q \in Queries, ForgetNothing(q) \/ Expire(q) \/ Derive(q) \/ Fetch(q) PROVE SearchInv'
  <2>1. CASE ForgetNothing(q)
    BY <2>1, SameCacheStep DEF ForgetNothing
  <2>2. CASE Expire(q)
    BY <2>2, ExpireStep
  <2>3. CASE Derive(q)
    BY <2>3, DeriveStep
  <2>4. CASE Fetch(q)
    <3>1. Worker \in Readers /\ 1 \in Nat \ {0}
      BY DEF Readers
    <3>2. QED
      BY <2>4, <3>1, StartStep DEF Fetch, stored
  <2>5. QED
    BY <1>3, <2>1, <2>2, <2>3, <2>4
<1>4. ASSUME NEW c \in Clients, NEW q \in Queries, NEW noCache, NEW need \in 1..MaxPages,
             Search(c, q, noCache, need)
      PROVE  SearchInv'
  <2>1. need \in Nat \ {0} /\ c \in Readers
    BY SearchAssumption DEF Readers
  <2>2. QED
    BY <1>4, <2>1, StartStep DEF Search, stored
<1>5. ASSUME NEW r \in Readers, NEW outcome, Page(r) \/ Stops(r, outcome) \/ Raises(r) PROVE SearchInv'
  BY <1>5, PageStep, StopsStep, RaisesStep
<1>6. ASSUME SearchRestart PROVE SearchInv'
  BY <1>6, RestartForgetsMarks
<1>7. ASSUME UNCHANGED searchVars PROVE SearchInv'
  BY <1>7, SameCacheStep DEF searchVars, stored
<1>8. QED
  BY <1>1, <1>2, <1>3, <1>4, <1>5, <1>6, <1>7 DEF SearchNext

-----------------------------------------------------------------------------
(* The properties *)

LEMMA WholeIsComplete ==
  ASSUME SearchInv PROVE CompleteMeansAll
BY DEF SearchInv, AllWhole, Whole, CompleteMeansAll, Complete

LEMMA MarksCount ==
  ASSUME SearchInv PROVE OneFillPerSearch
<1> SUFFICES ASSUME NEW q \in Queries
             PROVE  Cardinality({r \in Readers : Fills(reading, r, q)}) = IF q \in filling THEN 1 ELSE 0
  BY DEF OneFillPerSearch, Fills, Cardinality, Cardinality
<1> DEFINE fills == {r \in Readers : Fills(reading, r, q)}
<1>1. CASE q \in filling
  <2>1. PICK r \in Readers : Fills(reading, r, q)
    BY <1>1 DEF SearchInv, MarksAre
  <2>2. fills = {r}
    BY <2>1 DEF SearchInv, MarksAre
  <2>3. QED
    BY <1>1, <2>2, FS_Singleton
<1>2. CASE q \notin filling
  <2>1. fills = {}
    BY <1>2 DEF SearchInv, MarksAre
  <2>2. QED
    BY <1>2, <2>1, FS_EmptySet
<1>3. QED
  BY <1>1, <1>2

LEMMA SearchInvariant == SearchSpec => []SearchInv
<1>1. SearchInit => SearchInv
  BY SearchInvInit
<1>2. SearchInv /\ [SearchNext]_searchVars => SearchInv'
  BY SearchStep
<1>3. QED
  BY <1>1, <1>2, PTL DEF SearchSpec

-----------------------------------------------------------------------------
(* Types: what SearchTypeOK has beyond SearchTyped *)

OfQuery(task) == task = NoTask \/ (task.as # "idle" /\ task.query \in Queries)

SearchRest ==
  /\ negative \subseteq Queries /\ queued \subseteq Queries /\ filling \subseteq Queries
  /\ local \subseteq Countable
  /\ \A r \in Readers : OfQuery(reading[r])
  /\ edits \in 0..MaxEdits /\ searchTroubles \in 0..MaxSearchTroubles

LEMMA IdleOfQuery == OfQuery(NoTask)
BY DEF OfQuery

LEMMA SearchTypes ==
  ASSUME SearchTyped, SearchRest PROVE SearchTypeOK
<1>1. \A r \in Readers : reading[r].as = "idle" <=> reading[r] = NoTask
  BY IdleFits DEF SearchRest, OfQuery
<1>2. \A r \in Readers : reading[r].as # "idle" => reading[r].query \in Queries
  BY IdleFits DEF SearchRest, OfQuery
<1>3. QED
  BY <1>1, <1>2 DEF SearchTyped, SearchRest, SearchTypeOK, Entries, Tasks

LEMMA SearchTroubleCounted ==
  ASSUME SearchRest, SearchTrouble PROVE searchTroubles' \in 0..MaxSearchTroubles
BY SearchAssumption DEF SearchRest, SearchTrouble

\* One task turns into another one.
LEMMA TurnsOfQuery ==
  ASSUME SearchInv, SearchRest, NEW r, NEW task, OfQuery(task), reading' = [reading EXCEPT ![r] = task]
  PROVE  \A s \in Readers : OfQuery(reading'[s])
BY DEF SearchInv, SearchTyped, SearchRest

LEMMA StoreTyped ==
  ASSUME SearchRest, NEW q, NEW entry, Store(q, entry) \/ UNCHANGED <<cache, local>>
  PROVE  local' \subseteq Countable
<1>1. local' \subseteq local \cup Countable
  BY DEF Store
<1>2. QED
  BY <1>1 DEF SearchRest

LEMMA EndsTyped ==
  ASSUME SearchInv, SearchRest, NEW r \in Readers, NEW task, task.as # "idle", task.query \in Queries,
         NEW outcome, Ends(r, task, outcome), edits' = edits,
         searchTroubles' \in 0..MaxSearchTroubles
  PROVE  SearchRest'
<1> DEFINE q == task.query
           nothing == task.got.results = <<>>
<1>1. OfQuery(NoTask)
  BY IdleOfQuery
<1>2. edits' \in 0..MaxEdits
  BY DEF SearchRest
<1>3. CASE task.as = "search" /\ SearchEnds(r, task, outcome)
  <2> DEFINE fill == ~nothing /\ More(task, outcome) /\ MayFill(q)
             next == Task("fill", q, task.last + 1, MaxPages, Len(task.got.results), task.got)
  <2>1. /\ negative' \subseteq negative \cup {q} /\ queued' \subseteq queued \cup {q}
        /\ filling' \subseteq filling \cup {q}
        /\ Store(q, task.got) \/ UNCHANGED <<cache, local>>
        /\ reading' = [reading EXCEPT ![r] = IF fill THEN next ELSE NoTask]
    BY <1>3 DEF SearchEnds
  <2>2. OfQuery(IF fill THEN next ELSE NoTask)
    BY <1>1 DEF OfQuery, Task
  <2> HIDE DEF fill, next
  <2>3. \A s \in Readers : OfQuery(reading'[s])
    BY <2>1, <2>2, TurnsOfQuery
  <2>4. local' \subseteq Countable
    BY <2>1, StoreTyped
  <2>5. negative' \subseteq Queries /\ queued' \subseteq Queries /\ filling' \subseteq Queries
    BY <2>1 DEF SearchRest
  <2>6. QED
    BY <1>2, <2>3, <2>4, <2>5 DEF SearchRest
<1>4. CASE task.as = "fill" /\ FillEnds(r, task)
  <2>1. /\ UNCHANGED <<negative, queued>> /\ filling' \subseteq filling
        /\ Store(q, task.got) \/ UNCHANGED <<cache, local>>
        /\ reading' = [reading EXCEPT ![r] = NoTask]
    BY <1>4 DEF FillEnds, Unmarked
  <2>2. local' \subseteq Countable
    BY <2>1, StoreTyped
  <2>3. \A s \in Readers : OfQuery(reading'[s])
    BY <1>1, <2>1, TurnsOfQuery
  <2>4. QED
    BY <1>2, <2>1, <2>2, <2>3 DEF SearchRest
<1>5. CASE task.as = "worker" /\ WorkerEnds(task, outcome)
  <2>1. /\ negative' \subseteq negative \cup {q} /\ queued' \subseteq queued /\ filling' = filling
        /\ Store(q, task.got) \/ UNCHANGED <<cache, local>>
        /\ reading' = [reading EXCEPT ![Worker] = NoTask]
    BY <1>5 DEF WorkerEnds
  <2>2. local' \subseteq Countable
    BY <2>1, StoreTyped
  <2>3. \A s \in Readers : OfQuery(reading'[s])
    BY <1>1, <2>1, TurnsOfQuery
  <2>4. negative' \subseteq Queries /\ queued' \subseteq Queries /\ filling' \subseteq Queries
    BY <2>1 DEF SearchRest
  <2>5. QED
    BY <1>2, <2>2, <2>3, <2>4 DEF SearchRest
<1>6. QED
  BY <1>3, <1>4, <1>5 DEF Ends

LEMMA StartTyped ==
  ASSUME SearchInv, SearchRest, NEW r, NEW kind \in {"search", "worker"}, NEW q \in Queries, NEW last,
         reading' = [reading EXCEPT ![r] = Reads(kind, q, last)],
         UNCHANGED <<stored, filling, edits, searchTroubles>>
  PROVE  SearchRest'
<1>1. OfQuery(Reads(kind, q, last))
  BY DEF OfQuery, Reads, Task
<1>2. \A s \in Readers : OfQuery(reading'[s])
  BY <1>1, TurnsOfQuery
<1>3. QED
  BY <1>2 DEF SearchRest, stored

LEMMA EditTyped ==
  ASSUME SearchInv, SearchRest, edits < MaxEdits, NEW list, Edit(list) PROVE SearchRest'
<1>1. ASSUME NEW r \in Readers PROVE OfQuery(reading'[r])
  <2>1. reading[r] \in Tasks /\ reading'[r] \in {reading[r], Torn(reading[r])}
    BY DEF Edit, SearchInv, SearchTyped
  <2>2. CASE reading'[r] = reading[r]
    BY <2>2 DEF SearchRest
  <2>3. CASE reading'[r] # reading[r]
    <3>1. reading'[r] = Torn(reading[r]) /\ reading[r].next > 1
      BY <2>1, <2>3 DEF Edit
    <3>2. NoTask.next = 1
      BY DEF NoTask, Reads, Task
    <3>3. reading[r] # NoTask
      BY <3>1, <3>2
    <3>4. QED
      BY <2>1, <3>1, <3>3, TornTask DEF SearchRest, OfQuery
  <2>4. QED
    BY <2>2, <2>3
<1>2. edits' \in 0..MaxEdits
  BY SearchAssumption DEF Edit, SearchRest
<1>3. UNCHANGED <<negative, local, queued, filling, searchTroubles>>
  BY DEF Edit, stored
<1>4. QED
  BY <1>1, <1>2, <1>3 DEF SearchRest

LEMMA PageTyped ==
  ASSUME SearchInv, SearchRest, NEW r \in Readers, Page(r) PROVE SearchRest'
<1> DEFINE task == WithPage(reading[r])
<1>1. reading[r].as # "idle" /\ reading[r].query \in Queries
  BY DEF Page, SearchRest, OfQuery
<1>2. task.as # "idle" /\ task.query \in Queries
  BY <1>1, WithPageFits DEF SearchInv, SearchTyped, AllFit
<1>3. /\ Ends(r, task, "ok") \/ (reading' = [reading EXCEPT ![r] = task] /\ UNCHANGED <<stored, filling>>)
      /\ UNCHANGED <<edits, searchTroubles>>
  BY DEF Page
<1> HIDE DEF task
<1>4. searchTroubles' \in 0..MaxSearchTroubles
  BY <1>3 DEF SearchRest
<1>5. CASE Ends(r, task, "ok")
  BY <1>2, <1>3, <1>4, <1>5, EndsTyped
<1>6. CASE reading' = [reading EXCEPT ![r] = task] /\ UNCHANGED <<stored, filling>>
  <2>1. \A s \in Readers : OfQuery(reading'[s])
    BY <1>2, <1>6, TurnsOfQuery DEF OfQuery
  <2>2. QED
    BY <1>3, <1>6, <2>1 DEF SearchRest, stored
<1>7. QED
  BY <1>3, <1>5, <1>6

LEMMA StopsTyped ==
  ASSUME SearchInv, SearchRest, NEW r \in Readers, NEW outcome, Stops(r, outcome) \/ Raises(r)
  PROVE  SearchRest'
<1>1. SearchTrouble /\ edits' = edits
  BY DEF Stops, Raises
<1>2. searchTroubles' \in 0..MaxSearchTroubles
  BY <1>1, SearchTroubleCounted
<1>3. CASE Stops(r, outcome)
  <2>1. reading[r].as # "idle" /\ reading[r].query \in Queries /\ Ends(r, reading[r], outcome)
    BY <1>3 DEF Stops, SearchRest, OfQuery
  <2>2. QED
    BY <1>1, <1>2, <2>1, EndsTyped
<1>4. CASE Raises(r)
  <2>1. reading' = [reading EXCEPT ![r] = NoTask] /\ filling' \subseteq filling /\ UNCHANGED stored
    BY <1>4 DEF Raises, Unmarked
  <2>2. \A s \in Readers : OfQuery(reading'[s])
    BY <2>1, IdleOfQuery, TurnsOfQuery
  <2>3. QED
    BY <1>1, <1>2, <2>1, <2>2 DEF SearchRest, stored
<1>5. QED
  BY <1>3, <1>4

LEMMA SearchRestStep ==
  ASSUME SearchInv, SearchRest, [SearchNext]_searchVars PROVE SearchRest'
<1>1. ASSUME NEW list \in Edits, edits < MaxEdits, Edit(list) PROVE SearchRest'
  BY <1>1, EditTyped
<1>2. ASSUME NEW v \in Volumes, Sync(v) PROVE SearchRest'
  BY <1>2 DEF Sync, SearchRest
<1>3. ASSUME NEW q \in Queries, ForgetNothing(q) \/ Expire(q) \/ Derive(q) \/ Fetch(q) PROVE SearchRest'
  <2>1. CASE ForgetNothing(q) \/ Expire(q) \/ Derive(q)
    BY <2>1 DEF ForgetNothing, Expire, Derive, SearchRest
  <2>2. CASE Fetch(q)
    BY <2>2, StartTyped DEF Fetch
  <2>3. QED
    BY <1>3, <2>1, <2>2
<1>4. ASSUME NEW c \in Clients, NEW q \in Queries, NEW noCache, NEW need, Search(c, q, noCache, need)
      PROVE  SearchRest'
  BY <1>4, StartTyped DEF Search
<1>5. ASSUME NEW r \in Readers, NEW outcome, Page(r) \/ Stops(r, outcome) \/ Raises(r) PROVE SearchRest'
  BY <1>5, PageTyped, StopsTyped
<1>6. ASSUME SearchRestart PROVE SearchRest'
  <2>1. /\ SearchTrouble /\ filling' = {} /\ UNCHANGED <<stored, edits>>
        /\ reading' = [r \in Readers |-> NoTask]
    BY <1>6 DEF SearchRestart
  <2>2. searchTroubles' \in 0..MaxSearchTroubles
    BY <2>1, SearchTroubleCounted
  <2>3. QED
    BY <2>1, <2>2, IdleOfQuery DEF SearchRest, stored
<1>7. ASSUME UNCHANGED searchVars PROVE SearchRest'
  BY <1>7 DEF searchVars, stored, SearchRest
<1>8. QED
  BY <1>1, <1>2, <1>3, <1>4, <1>5, <1>6, <1>7 DEF SearchNext

\* Searches, their entries, tasks and marks keep their types.
THEOREM SearchTypeCorrect == SearchSpec => []SearchTypeOK
<1>1. SearchInit => SearchInv /\ SearchRest
  <2> SUFFICES ASSUME SearchInit PROVE SearchInv /\ SearchRest
    OBVIOUS
  <2>1. 0 \in 0..MaxEdits /\ 0 \in 0..MaxSearchTroubles
    BY SearchAssumption
  <2>2. /\ negative = {} /\ local = {} /\ queued = {} /\ filling = {} /\ edits = 0 /\ searchTroubles = 0
        /\ \A r \in Readers : reading[r] = NoTask
    BY DEF SearchInit
  <2>3. SearchRest
    BY <2>1, <2>2, IdleOfQuery DEF SearchRest
  <2>4. QED
    BY <2>3, SearchInvInit
<1>2. (SearchInv /\ SearchRest) /\ [SearchNext]_searchVars => (SearchInv /\ SearchRest)'
  BY SearchStep, SearchRestStep
<1>3. SearchInv /\ SearchRest => SearchTypeOK
  BY SearchTypes DEF SearchInv
<1>4. QED
  BY <1>1, <1>2, <1>3, PTL DEF SearchSpec

-----------------------------------------------------------------------------
(* The theorems *)

\* An entry that passes for complete has every volume of its name there was that its
\* search finds, but for what the broader searches it is derived from cannot find
\* (search in routes/api.py, cache_find_superset_search).
THEOREM CompleteIsWhole == SearchSpec => []CompleteMeansAll
<1>1. SearchInv => CompleteMeansAll
  BY WholeIsComplete
<1>2. QED
  BY <1>1, SearchInvariant, PTL

\* A query is marked exactly while one task fills it (OneFillPerSearch of
\* _search_fills_in_progress).
THEOREM OneTaskFills == SearchSpec => []OneFillPerSearch
<1>1. SearchInv => OneFillPerSearch
  BY MarksCount
<1>2. QED
  BY <1>1, SearchInvariant, PTL
=============================================================================
