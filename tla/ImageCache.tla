---------------------------- MODULE ImageCache ----------------------------
(***************************************************************************)
(* The image cache (image_cache.py) behind /api/image and the daily job    *)
(* that empties it: a file and an index row per image, one fetch at a time *)
(* for each URL, others waiting for it.  Everything runs on the event      *)
(* loop; a step lasts until the next await.  The process may die between   *)
(* any two writes.                                                         *)
(***************************************************************************)
EXTENDS Integers

CONSTANTS
  Urls,
  Callers,    \* requests for images in progress at once
  NoUrl,
  TTL,        \* ttl_days
  MaxTroubles \* bound: restarts, files deleted from outside

ASSUME ImageAssumption ==
  /\ NoUrl \notin Urls
  /\ TTL \in Nat \ {0}
  /\ MaxTroubles \in Nat

VARIABLES
  row,      \* url -> days since last_accessed, or NoRow
  file,     \* url -> "none", "part" or "whole"
  inFlight, \* _in_flight: the urls with an event
  call,     \* caller -> where its get_or_fetch is
  troubles,
  unused    \* history: url -> days since a client got the image, TTL if never

disk == <<row, file>>
vars == <<disk, inFlight, call, troubles, unused>>

NoRow == -1
Idle == [pc |-> "idle", url |-> NoUrl, got |-> FALSE]
At(pc, u, got) == [pc |-> pc, url |-> u, got |-> got]

Init ==
  /\ row = [u \in Urls |-> NoRow]
  /\ file = [u \in Urls |-> "none"]
  /\ inFlight = {}
  /\ call = [c \in Callers |-> Idle]
  /\ troubles = 0
  /\ unused = [u \in Urls |-> TTL]

-----------------------------------------------------------------------------
(* lookup *)

Has(u) == row[u] # NoRow /\ file[u] # "none"

\* The access is noted; the client gets the file's bytes.
TouchNot(u) == UNCHANGED row
Touch(u) == row' = [row EXCEPT ![u] = 0]
Hit(u) ==
  /\ Has(u)
  /\ Touch(u)
  /\ unused' = [unused EXCEPT ![u] = 0]
  /\ UNCHANGED file

\* A row whose file is gone goes too.
Miss(u) ==
  /\ ~Has(u)
  /\ row' = [row EXCEPT ![u] = NoRow]
  /\ UNCHANGED <<file, unused>>

-----------------------------------------------------------------------------
(* get_or_fetch *)

\* The in-flight marker.
RegisterNot(u) == UNCHANGED inFlight
Register(u) == inFlight' = inFlight \cup {u}

\* On a miss: wait for whoever fetches the image, or be the one.
Request(c, u) ==
  /\ call[c] = Idle
  /\ \/ Hit(u) /\ UNCHANGED <<inFlight, call>>
     \/ /\ Miss(u)
        /\ u \in inFlight
        /\ call' = [call EXCEPT ![c] = At("waiting", u, FALSE)]
        /\ UNCHANGED inFlight
     \/ /\ Miss(u)
        /\ u \notin inFlight
        /\ call' = [call EXCEPT ![c] = At("fetching", u, FALSE)]
        /\ Register(u)
  /\ UNCHANGED troubles

\* finally: the event is set, whoever waits may go on.
ReleaseSilently(c, u, got) ==
  /\ inFlight' = inFlight \ {u}
  /\ call' = [call EXCEPT ![c] = Idle]
Release(c, u, got) ==
  /\ inFlight' = inFlight \ {u}
  /\ call' = [d \in Callers |->
       IF d = c THEN Idle
       ELSE IF call[d].pc = "waiting" /\ call[d].url = u THEN At("woken", u, got)
       ELSE call[d]]

\* store: the file first, then the row.
WriteFile(u, much) == file' = [file EXCEPT ![u] = much]

WriteRow(u) == row' = [row EXCEPT ![u] = 0]

Fetched(c) ==
  /\ call[c].pc = "fetching"
  /\ WriteFile(call[c].url, "whole")
  /\ WriteRow(call[c].url)
  /\ unused' = [unused EXCEPT ![call[c].url] = 0]
  /\ Release(c, call[c].url, TRUE)
  /\ UNCHANGED troubles

RowFirst(c) ==
  /\ call[c].pc = "fetching"
  /\ WriteRow(call[c].url)
  /\ WriteFile(call[c].url, "part")
  /\ Release(c, call[c].url, FALSE)
  /\ UNCHANGED <<troubles, unused>>

\* The fetch brings nothing or is cancelled; or writing the file fails half way.
FetchFails(c) ==
  /\ call[c].pc = "fetching"
  /\ \/ UNCHANGED file
     \/ WriteFile(call[c].url, "part")
  /\ Release(c, call[c].url, FALSE)
  /\ UNCHANGED <<row, troubles, unused>>

\* Who waited looks again, once; nobody fetches again for it.
LookAgain(c) ==
  /\ call[c].pc = "woken"
  /\ Hit(call[c].url) \/ Miss(call[c].url)
  /\ call' = [call EXCEPT ![c] = Idle]
  /\ UNCHANGED <<inFlight, troubles>>

-----------------------------------------------------------------------------
(* cleanup_expired *)

Expired == {u \in Urls : row[u] # NoRow /\ row[u] >= TTL}

\* The files of expired rows are unlinked, some perhaps in vain, then the rows go.
CleanUp ==
  /\ Expired # {}
  /\ \E kept \in SUBSET Expired :
       file' = [u \in Urls |-> IF u \in Expired \ kept THEN "none" ELSE file[u]]
  /\ row' = [u \in Urls |-> IF u \in Expired THEN NoRow ELSE row[u]]
  /\ UNCHANGED <<inFlight, call, troubles, unused>>

-----------------------------------------------------------------------------
(* What happens around it *)

\* A day passes; nobody stays woken that long.
Day ==
  /\ \A c \in Callers : call[c].pc # "woken"
  /\ \E u \in Urls : (row[u] # NoRow /\ row[u] < TTL) \/ unused[u] < TTL
  /\ row' = [u \in Urls |-> IF row[u] \in 0..(TTL - 1) THEN row[u] + 1 ELSE row[u]]
  /\ unused' = [u \in Urls |-> IF unused[u] < TTL THEN unused[u] + 1 ELSE TTL]
  /\ UNCHANGED <<file, inFlight, call, troubles>>

Trouble == troubles < MaxTroubles /\ troubles' = troubles + 1

\* Somebody deletes a file of the cache.
DeleteOutside(u) ==
  /\ Trouble
  /\ file[u] # "none"
  /\ file' = [file EXCEPT ![u] = "none"]
  /\ unused' = [unused EXCEPT ![u] = TTL]
  /\ call' = [c \in Callers |-> IF call[c].url = u THEN At(call[c].pc, u, FALSE) ELSE call[c]]
  /\ UNCHANGED <<row, inFlight>>

\* The process dies: in the middle of a cleanup, with files of expired rows gone;
\* in the middle of a store, with the file begun or complete and no row; or at rest.
Restart ==
  /\ Trouble
  /\ \/ UNCHANGED file
     \/ \E gone \in SUBSET Expired :
          file' = [u \in Urls |-> IF u \in gone THEN "none" ELSE file[u]]
     \/ \E c \in Callers : call[c].pc = "fetching" /\ \E much \in {"part", "whole"} :
          WriteFile(call[c].url, much)
  /\ inFlight' = {}
  /\ call' = [c \in Callers |-> Idle]
  /\ UNCHANGED <<row, unused>>

Next ==
  \/ \E c \in Callers : (\E u \in Urls : Request(c, u)) \/ Fetched(c) \/ FetchFails(c) \/ LookAgain(c)
  \/ CleanUp \/ Day \/ Restart
  \/ \E u \in Urls : DeleteOutside(u)

\* A fetch ends (it has a timeout) and the event loop turns.
Fairness == \A c \in Callers : WF_vars(Fetched(c) \/ FetchFails(c)) /\ WF_vars(LookAgain(c))

Spec == Init /\ [][Next]_vars /\ Fairness

-----------------------------------------------------------------------------
Calls == {Idle} \cup [pc : {"waiting", "fetching", "woken"}, url : Urls, got : BOOLEAN]

TypeOK ==
  /\ row \in [Urls -> {NoRow} \cup 0..TTL]
  /\ file \in [Urls -> {"none", "part", "whole"}]
  /\ inFlight \subseteq Urls
  /\ call \in [Callers -> Calls]
  /\ troubles \in 0..MaxTroubles
  /\ unused \in [Urls -> 0..TTL]

Fetching(u) == {c \in Callers : call[c].pc = "fetching" /\ call[c].url = u}

\* No client is served a file that was cut short, whatever a crash or a full disk
\* left behind: a row's file is complete or gone (image_cache.py:103-116).
NeverHalfAnImage == \A u \in Urls : row[u] # NoRow => file[u] # "part"

OneFetchPerUrl ==
  /\ \A u \in Urls, c, d \in Callers : {c, d} \subseteq Fetching(u) => c = d
  /\ \A c \in Callers : call[c].pc = "waiting" => Fetching(call[c].url) # {}

\* Only the first of concurrent requests for an image fetches it; who waits for the
\* image waits for a fetch that is still under way, and gets what it brings
\* (image_cache.py:128-143).
FetchIsShared ==
  /\ OneFetchPerUrl
  /\ \A c \in Callers : call[c].pc = "woken" /\ call[c].got => Has(call[c].url)

\* The cleanup leaves alone what a client got within the TTL (image_cache.py:3-5),
\* also when it dies half way.
UsedImagesStay ==
  [][\A u \in Urls : Has(u) /\ unused[u] < TTL /\ unused'[u] # TTL
       => row'[u] # NoRow /\ file'[u] = file[u]]_vars

\* Every request is answered.
EveryCallEnds == \A c \in Callers : call[c] # Idle ~> call[c] = Idle
=============================================================================
