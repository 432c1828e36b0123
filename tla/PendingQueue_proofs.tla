------------------------ MODULE PendingQueue_proofs ------------------------
(***************************************************************************)
(* Proofs about PendingQueue, for all items, clients, backfills, limits    *)
(* and bounds.                                                             *)
(***************************************************************************)
EXTENDS PendingQueue, SequenceTheorems, TLAPS

-----------------------------------------------------------------------------
(* The queue as a sequence without repetition *)

Distinct(s) == \A k, n \in 1..Len(s) : s[k] = s[n] => k = n

\* What two sequences joined are, in terms of where they are joined.
LEMMA Joined ==
  ASSUME NEW S, NEW a \in Seq(S), NEW b \in Seq(S), NEW k \in Nat \ {0}, NEW l \in Nat,
         Len(a) = k - 1, Len(b) = l - k
  PROVE  /\ a \o b \in Seq(S)
         /\ Len(a \o b) = l - 1
         /\ \A n \in 1..(l - 1) : (a \o b)[n] = IF n < k THEN a[n] ELSE b[n - (k - 1)]
<1>1. /\ a \o b \in Seq(S) /\ Len(a \o b) = Len(a) + Len(b)
      /\ \A n \in 1..(Len(a) + Len(b)) : (a \o b)[n] = IF n <= Len(a) THEN a[n] ELSE b[n - Len(a)]
  BY ConcatProperties
<1>2. Len(a) + Len(b) = l - 1
  OBVIOUS
<1>3. QED
  BY <1>1, <1>2

\* Removing the k-th element leaves the others, in their order.
LEMMA Without ==
  ASSUME NEW S, NEW s \in Seq(S), NEW k \in 1..Len(s)
  PROVE  LET t == SubSeq(s, 1, k - 1) \o SubSeq(s, k + 1, Len(s))
         IN  /\ t \in Seq(S)
             /\ Len(t) = Len(s) - 1
             /\ \A n \in 1..Len(t) : t[n] = IF n < k THEN s[n] ELSE s[n + 1]
<1> DEFINE a == SubSeq(s, 1, k - 1)
           b == SubSeq(s, k + 1, Len(s))
<1>1. a \in Seq(S) /\ Len(a) = k - 1 /\ \A n \in 1..(k - 1) : a[n] = s[n]
  OBVIOUS
<1>2. b \in Seq(S) /\ Len(b) = Len(s) - k /\ \A n \in 1..(Len(s) - k) : b[n] = s[k + n]
  OBVIOUS
<1>3. k \in Nat \ {0} /\ Len(s) \in Nat
  OBVIOUS
<1> HIDE DEF a, b
<1>4. /\ a \o b \in Seq(S)
      /\ Len(a \o b) = Len(s) - 1
      /\ \A n \in 1..(Len(s) - 1) : (a \o b)[n] = IF n < k THEN a[n] ELSE b[n - (k - 1)]
  BY <1>1, <1>2, <1>3, Joined
<1>5. ASSUME NEW n \in 1..(Len(s) - 1)
      PROVE  (a \o b)[n] = IF n < k THEN s[n] ELSE s[n + 1]
  <2>1. CASE n < k
    BY <1>1, <1>4, <2>1
  <2>2. CASE ~(n < k)
    <3>1. n - (k - 1) \in 1..(Len(s) - k) /\ k + (n - (k - 1)) = n + 1
      BY <1>3, <2>2
    <3>2. QED
      BY <1>2, <1>4, <2>2, <3>1
  <2>3. QED
    BY <2>1, <2>2
<1>6. QED
  BY <1>4, <1>5 DEF a, b

\* What pending_done does to the queue.
LEMMA RemoveEffect ==
  ASSUME queue \in Seq(Items), Distinct(queue), NEW i \in Items, Queued(i), Remove(i)
  PROVE  /\ queue' \in Seq(Items) /\ Distinct(queue')
         /\ \A j \in Items : Queued(j)' <=> Queued(j) /\ j # i
<1> DEFINE k == CHOOSE n \in 1..Len(queue) : queue[n] = i
<1>1. k \in 1..Len(queue) /\ queue[k] = i
  BY DEF Queued
<1>2. queue' = SubSeq(queue, 1, k - 1) \o SubSeq(queue, k + 1, Len(queue))
  BY DEF Remove
<1> HIDE DEF k
<1>3. /\ queue' \in Seq(Items)
      /\ Len(queue') = Len(queue) - 1
      /\ \A n \in 1..Len(queue') : queue'[n] = IF n < k THEN queue[n] ELSE queue[n + 1]
  BY <1>1, <1>2, Without
<1>4. Distinct(queue')
  BY <1>1, <1>3 DEF Distinct
<1>5. ASSUME NEW j \in Items PROVE Queued(j)' <=> Queued(j) /\ j # i
  <2>1. ASSUME Queued(j)' PROVE Queued(j) /\ j # i
    <3>1. PICK n \in 1..Len(queue') : queue'[n] = j
      BY <2>1 DEF Queued
    <3>2. PICK m \in 1..Len(queue) : queue[m] = j /\ m # k
      BY <1>1, <1>3, <3>1
    <3>3. QED
      BY <1>1, <3>2 DEF Queued, Distinct
  <2>2. ASSUME Queued(j), j # i PROVE Queued(j)'
    <3>1. PICK m \in 1..Len(queue) : queue[m] = j /\ m # k
      BY <1>1, <2>2 DEF Queued
    <3>2. CASE m < k
      BY <1>1, <1>3, <3>1, <3>2 DEF Queued
    <3>3. CASE m > k
      <4>1. m - 1 \in 1..Len(queue') /\ queue'[m - 1] = j
        BY <1>1, <1>3, <3>1, <3>3
      <4>2. QED
        BY <4>1 DEF Queued
    <3>4. QED
      BY <1>1, <3>1, <3>2, <3>3
  <2>3. QED
    BY <2>1, <2>2
<1>6. QED
  BY <1>3, <1>4, <1>5

\* What pending_add does to the queue.
LEMMA AddEffect ==
  ASSUME queue \in Seq(Items), Distinct(queue), NEW i \in Items, Add(i)
  PROVE  /\ queue' \in Seq(Items) /\ Distinct(queue')
         /\ \A j \in Items : Queued(j)' <=> Queued(j) \/ j = i
<1>1. CASE Queued(i)
  BY <1>1 DEF Add, Queued
<1>2. CASE ~Queued(i)
  <2>1. /\ queue' \in Seq(Items) /\ Len(queue') = Len(queue) + 1
        /\ queue'[Len(queue) + 1] = i
        /\ \A n \in 1..Len(queue) : queue'[n] = queue[n]
    BY <1>2 DEF Add
  <2>2. Distinct(queue')
    BY <1>2, <2>1 DEF Distinct, Queued
  <2>3. \A j \in Items : Queued(j)' <=> Queued(j) \/ j = i
    BY <2>1 DEF Queued
  <2>4. QED
    BY <2>1, <2>2, <2>3
<1>3. QED
  BY <1>1, <1>2

-----------------------------------------------------------------------------
(* The rows of the queue and the worker's view of them *)

RowsOK ==
  /\ queue \in Seq(Items) /\ Distinct(queue)
  /\ attempts \in [Items -> 0..(MaxAttempts - 1)]
  /\ tries \in [Items -> Nat]
  /\ owed \subseteq Items
  /\ call \in [Fetchers -> Calls] /\ \A c \in Clients : call[c] # Looking
  /\ batch \in Seq(Items)

\* What the worker has in hand is still queued, and only once: nobody else
\* removes rows.  The tries that count are tries.
WorkerOK ==
  /\ call[Worker].item \in Items => Queued(call[Worker].item)
  /\ \A k \in 1..Len(batch) : Queued(batch[k]) /\ batch[k] # call[Worker].item
  /\ Distinct(batch)
  /\ \A i \in Items : attempts[i] <= tries[i]
  /\ OwedIsQueued

QueueInv == RowsOK /\ WorkerOK

LEMMA CallTypes ==
  /\ Worker \in Fetchers /\ Clients \subseteq Fetchers
  /\ Idle \in Calls /\ Looking \in Calls /\ Idle # Looking
  /\ \A i \in Lists : Waiting(i) \in Calls
  /\ \A i \in Items, n \in 1..MaxPages : Asking(i, n) \in Calls
  /\ \A i \in Items, n \in 1..MaxPages : Asking(i, n) # Looking /\ Waiting(i) # Looking
  /\ \A x \in Calls : x.pc \in {"waiting", "asking"} => x.item \in Items
  /\ \A x \in Calls : x.pc = "waiting" => x.item \in Lists
  /\ \A x \in Calls : x.pc = "asking" => x.page \in 1..MaxPages
  /\ Idle.item \notin Items /\ Looking.item \notin Items
  /\ 1 \in 1..MaxPages
<1>1. 1 \in 1..MaxPages /\ NoItem \notin Items
  BY QueueAssumption
<1>2. \A i, n : Asking(i, n).pc = "asking" /\ Asking(i, n).item = i /\ Asking(i, n).page = n
  BY DEF Asking
<1>3. \A i : Waiting(i).pc = "waiting" /\ Waiting(i).item = i
  BY DEF Waiting
<1>4. /\ Idle.pc = "idle" /\ Idle.item = NoItem
      /\ Looking.pc = "looking" /\ Looking.item = NoItem
  BY DEF Idle, Looking
<1>5. Lists \subseteq Items
  BY QueueAssumption
<1>6. /\ \A x \in Calls : x.pc \in {"waiting", "asking"} => x.item \in Items
      /\ \A x \in Calls : x.pc = "waiting" => x.item \in Lists
      /\ \A x \in Calls : x.pc = "asking" => x.page \in 1..MaxPages
  <2> SUFFICES ASSUME NEW x \in Calls
               PROVE  /\ x.pc \in {"waiting", "asking"} => x.item \in Items
                      /\ x.pc = "waiting" => x.item \in Lists
                      /\ x.pc = "asking" => x.page \in 1..MaxPages
    OBVIOUS
  <2>1. CASE x \in {Idle, Looking}
    BY <1>4, <2>1
  <2>2. CASE \E i \in Lists : x = Waiting(i)
    BY <1>3, <1>5, <2>2
  <2>3. CASE \E i \in Items, n \in 1..MaxPages : x = Asking(i, n)
    BY <1>2, <2>3
  <2>4. QED
    BY <2>1, <2>2, <2>3 DEF Calls
<1>7. /\ Idle # Looking
      /\ \A i, n : Asking(i, n) # Looking /\ Waiting(i) # Looking
  BY <1>2, <1>3, <1>4
<1>8. QED
  BY <1>1, <1>4, <1>6, <1>7 DEF Fetchers, Calls

\* The row the worker has in hand goes.
LEMMA WorkerRemoves ==
  ASSUME QueueInv, NEW i \in Items, call[Worker].item = i \/ Queued(i),
         \A k \in 1..Len(batch') : batch'[k] # i /\ \E n \in 1..Len(batch) : batch'[k] = batch[n],
         batch' \in Seq(Items), Distinct(batch'),
         Remove(i), owed' \subseteq owed, i \notin owed',
         call' \in [Fetchers -> Calls], \A c \in Clients : call'[c] # Looking,
         call'[Worker].item \notin Items
  PROVE  QueueInv'
<1>1. Queued(i)
  BY DEF QueueInv, WorkerOK
<1>2. /\ queue' \in Seq(Items) /\ Distinct(queue')
      /\ \A j \in Items : Queued(j)' <=> Queued(j) /\ j # i
  BY <1>1, RemoveEffect DEF QueueInv, RowsOK
<1>3. /\ attempts' \in [Items -> 0..(MaxAttempts - 1)]
      /\ tries' \in [Items -> Nat]
      /\ \A j \in Items : attempts'[j] <= tries'[j]
  <2>1. 0 \in 0..(MaxAttempts - 1)
    BY QueueAssumption
  <2>2. /\ attempts \in [Items -> 0..(MaxAttempts - 1)] /\ tries \in [Items -> Nat]
        /\ \A j \in Items : attempts[j] <= tries[j]
    BY DEF QueueInv, RowsOK, WorkerOK
  <2>3. attempts' = [attempts EXCEPT ![i] = 0] /\ tries' = [tries EXCEPT ![i] = 0]
    BY DEF Remove
  <2>4. QED
    BY <2>1, <2>2, <2>3
<1>4. RowsOK'
  <2>1. owed' \subseteq Items
    BY DEF QueueInv, RowsOK
  <2>2. Distinct(queue)'
    BY <1>2 DEF Distinct
  <2>3. QED
    BY <1>2, <1>3, <2>1, <2>2 DEF RowsOK
<1>5. OwedIsQueued'
  BY <1>2 DEF QueueInv, RowsOK, WorkerOK, OwedIsQueued
<1>6. ASSUME NEW k \in 1..Len(batch')
      PROVE  (Queued(batch[k]) /\ batch[k] # call[Worker].item)'
  <2>1. PICK j \in Items : j = batch'[k]
    OBVIOUS
  <2>2. Queued(j) /\ j # i
    BY <2>1 DEF QueueInv, WorkerOK
  <2>3. Queued(j)'
    BY <1>2, <2>2
  <2>4. QED
    BY <2>1, <2>3 DEF Queued
<1>7. WorkerOK'
  <2>1. (call[Worker].item \in Items => Queued(call[Worker].item))'
    OBVIOUS
  <2>2. Distinct(batch)'
    BY DEF Distinct
  <2>3. QED
    BY <1>3, <1>5, <1>6, <2>1, <2>2 DEF WorkerOK
<1>8. QED
  BY <1>4, <1>7 DEF QueueInv

\* No row goes; rows may come.
LEMMA RowsStay ==
  ASSUME QueueInv,
         queue' \in Seq(Items), Distinct(queue'),
         \A j \in Items : Queued(j) => Queued(j)',
         attempts' \in [Items -> 0..(MaxAttempts - 1)], tries' \in [Items -> Nat],
         \A j \in Items : attempts'[j] <= tries'[j],
         owed' \subseteq Items, \A j \in Items : j \in owed' => j \in owed \/ Queued(j)',
         call' \in [Fetchers -> Calls], \A c \in Clients : call'[c] # Looking,
         batch' \in Seq(Items), Distinct(batch'),
         \A k \in 1..Len(batch') : \E n \in 1..Len(batch) : batch'[k] = batch[n],
         \A k \in 1..Len(batch') : batch'[k] # call'[Worker].item,
         \A j \in Items : call'[Worker].item = j => Queued(j)
  PROVE  QueueInv'
<1>1. RowsOK'
  BY DEF RowsOK, Distinct
<1>2. ASSUME NEW k \in 1..Len(batch')
      PROVE  (Queued(batch[k]) /\ batch[k] # call[Worker].item)'
  <2>1. PICK j \in Items : j = batch'[k]
    OBVIOUS
  <2>2. Queued(j)
    BY <2>1 DEF QueueInv, WorkerOK
  <2>3. Queued(j)'
    BY <2>2
  <2>4. QED
    BY <2>1, <2>3 DEF Queued
<1>3. (call[Worker].item \in Items => Queued(call[Worker].item))'
  <2> SUFFICES ASSUME NEW j \in Items, call'[Worker].item = j
               PROVE  Queued(call[Worker].item)'
    OBVIOUS
  <2>1. Queued(j)'
    OBVIOUS
  <2>2. QED
    BY <2>1 DEF Queued
<1>4. OwedIsQueued'
  <2> SUFFICES ASSUME NEW j \in owed' PROVE Queued(j)'
    BY DEF OwedIsQueued
  <2>1. j \in owed => Queued(j)
    BY DEF QueueInv, WorkerOK, OwedIsQueued
  <2>2. QED
    BY <2>1
<1>5. Distinct(batch)'
  BY DEF Distinct
<1>6. QED
  BY <1>1, <1>2, <1>3, <1>4, <1>5 DEF QueueInv, WorkerOK

\* A client's fetch ends.
LEMMA ClientEndsKeeps ==
  ASSUME QueueInv, NEW c \in Clients, NEW i \in Items, NEW outcome, ClientEnds(c, i, outcome)
  PROVE  QueueInv'
<1>1. c # Worker /\ c \in Fetchers /\ Idle \in Calls /\ Idle # Looking
  BY QueueAssumption, CallTypes
<1>2. /\ call' = [call EXCEPT ![c] = Idle]
      /\ UNCHANGED <<attempts, tries, batch>>
  BY DEF ClientEnds
<1>3. call' \in [Fetchers -> Calls] /\ (\A d \in Clients : call'[d] # Looking)
  BY <1>1, <1>2 DEF QueueInv, RowsOK
<1>4. call'[Worker] = call[Worker]
  BY <1>1, <1>2 DEF QueueInv, RowsOK, Fetchers
<1>5. /\ queue' \in Seq(Items) /\ Distinct(queue')
      /\ \A j \in Items : Queued(j) => Queued(j)'
      /\ owed' \subseteq Items /\ \A j \in Items : j \in owed' => j \in owed \/ Queued(j)'
  <2>1. CASE outcome = "refused"
    <3>1. Add(i) /\ owed' = owed \cup {i}
      BY <2>1 DEF ClientEnds
    <3>2. QED
      BY <3>1, AddEffect DEF QueueInv, RowsOK
  <2>2. CASE outcome # "refused"
    <3>1. queue' = queue /\ owed' \subseteq owed
      BY <2>2 DEF ClientEnds
    <3>2. QED
      BY <3>1 DEF QueueInv, RowsOK, Queued
  <2>3. QED
    BY <2>1, <2>2
<1>6. /\ batch' = batch /\ batch \in Seq(Items) /\ Distinct(batch)
      /\ \A k \in 1..Len(batch) : batch[k] # call[Worker].item
      /\ \A j \in Items : call[Worker].item = j => Queued(j)
  BY <1>2 DEF QueueInv, RowsOK, WorkerOK
<1>7. /\ attempts' \in [Items -> 0..(MaxAttempts - 1)] /\ tries' \in [Items -> Nat]
      /\ \A j \in Items : attempts'[j] <= tries'[j]
  BY <1>2 DEF QueueInv, RowsOK, WorkerOK
<1>8. QED
  BY <1>3, <1>4, <1>5, <1>6, <1>7, RowsStay

\* The worker's fetch of i, the row it has in hand, ends.
LEMMA WorkerEndsKeeps ==
  ASSUME QueueInv, NEW i \in Items, call[Worker].item = i, NEW outcome, WorkerEnds(i, outcome)
  PROVE  QueueInv'
<1>1. /\ Worker \in Fetchers /\ Worker \notin Clients
      /\ {Idle, Looking} \subseteq Calls
      /\ Idle.item \notin Items /\ Looking.item \notin Items
  BY QueueAssumption, CallTypes
<1>2. Queued(i) /\ \A k \in 1..Len(batch) : batch[k] # i
  BY DEF QueueInv, WorkerOK
<1>3. batch \in Seq(Items) /\ Distinct(batch)
  BY DEF QueueInv, RowsOK, WorkerOK
<1>4. /\ call' \in [Fetchers -> Calls] /\ (\A d \in Clients : call'[d] # Looking)
      /\ call'[Worker].item \notin Items
      /\ batch' = batch \/ batch' = <<>>
  <2>1. \/ call' = [call EXCEPT ![Worker] = Looking] /\ batch' = batch
        \/ call' = [call EXCEPT ![Worker] = Idle] /\ batch' = <<>>
    BY DEF WorkerEnds, WorkerGoesOn
  <2>2. call \in [Fetchers -> Calls] /\ \A d \in Clients : d # Worker /\ call[d] # Looking
    BY <1>1 DEF QueueInv, RowsOK
  <2>3. Clients \subseteq Fetchers
    BY CallTypes
  <2>4. QED
    BY <1>1, <2>1, <2>2, <2>3
<1>5. /\ batch' \in Seq(Items) /\ Distinct(batch')
      /\ \A k \in 1..Len(batch') :
            batch'[k] # i /\ (\E n \in 1..Len(batch) : batch'[k] = batch[n])
      /\ \A k \in 1..Len(batch') : batch'[k] \in Items
  <2>1. CASE batch' = batch
    BY <1>2, <1>3, <2>1
  <2>2. CASE batch' = <<>>
    BY <2>2 DEF Distinct
  <2>3. QED
    BY <1>4, <2>1, <2>2
<1>6. ASSUME NEW k \in 1..Len(batch') PROVE batch'[k] # call'[Worker].item
  BY <1>4, <1>5
<1>7. CASE Remove(i) /\ owed' = owed \ {i}
  BY <1>2, <1>4, <1>5, <1>7, WorkerRemoves
<1>8. ASSUME UNCHANGED <<queue, owed>>,
             attempts' = attempts \/ (attempts[i] + 1 < MaxAttempts
                                      /\ attempts' = [attempts EXCEPT ![i] = @ + 1]
                                      /\ tries' # tries),
             tries' = tries \/ tries' = [tries EXCEPT ![i] = @ + 1]
      PROVE  QueueInv'
  <2>1. /\ attempts' \in [Items -> 0..(MaxAttempts - 1)] /\ tries' \in [Items -> Nat]
        /\ \A j \in Items : attempts'[j] <= tries'[j]
    <3>1. /\ attempts \in [Items -> 0..(MaxAttempts - 1)] /\ tries \in [Items -> Nat]
          /\ \A j \in Items : attempts[j] <= tries[j]
          /\ MaxAttempts \in Nat
      BY QueueAssumption DEF QueueInv, RowsOK, WorkerOK
    <3>2. QED
      BY <1>8, <3>1
  <2>2. /\ queue' \in Seq(Items) /\ Distinct(queue')
        /\ \A j \in Items : Queued(j) => Queued(j)'
        /\ owed' = owed /\ owed \subseteq Items
    BY <1>8 DEF QueueInv, RowsOK, Queued
  <2>3. QED
    BY <1>4, <1>5, <1>6, <2>1, <2>2, RowsStay
<1>9. CASE outcome = "failed" /\ i \notin Lists
  <2>1. Fail(i)
    BY <1>9 DEF WorkerEnds
  <2>2. CASE attempts[i] + 1 >= MaxAttempts
    <3>1. attempts[i] <= tries[i] /\ tries[i] \in Nat /\ attempts[i] \in Int /\ MaxAttempts \in Int
      BY QueueAssumption DEF QueueInv, RowsOK, WorkerOK
    <3>2. Remove(i) /\ owed' = owed \ {i}
      BY <2>1, <2>2, <3>1 DEF Fail, GiveUp
    <3>3. QED
      BY <1>7, <3>2
  <2>3. CASE ~(attempts[i] + 1 >= MaxAttempts)
    <3>1. Count(i)
      BY <2>1, <2>3 DEF Fail
    <3>2. attempts[i] + 1 < MaxAttempts
      BY <2>3, QueueAssumption DEF QueueInv, RowsOK
    <3>3. tries' # tries
      BY <3>1 DEF Count, QueueInv, RowsOK
    <3>4. QED
      BY <1>8, <3>1, <3>2, <3>3 DEF Count
  <2>4. QED
    BY <2>2, <2>3
<1>10. QED
  BY <1>7, <1>8, <1>9 DEF WorkerEnds, rows, past

LEMMA EndsKeeps ==
  ASSUME QueueInv, NEW f \in Fetchers, NEW i \in Items, f = Worker => call[Worker].item = i,
         NEW outcome, Ends(f, i, outcome)
  PROVE  QueueInv'
<1>1. CASE f = Worker
  BY <1>1, WorkerEndsKeeps DEF Ends
<1>2. CASE f # Worker
  BY <1>2, ClientEndsKeeps DEF Ends, Fetchers
<1>3. QED
  BY <1>1, <1>2

\* A fetch goes from one stage to the next.
LEMMA CallKeeps ==
  ASSUME QueueInv, UNCHANGED <<rows, past, batch>>,
         NEW f \in Fetchers, NEW x \in Calls, call' = [call EXCEPT ![f] = x],
         x = Looking => f = Worker,
         f = Worker /\ x.item \in Items => x.item = call[f].item
  PROVE  QueueInv'
<1>1. Worker \in Fetchers /\ Worker \notin Clients /\ Clients \subseteq Fetchers
  BY QueueAssumption, CallTypes
<1>2. call' \in [Fetchers -> Calls] /\ (\A d \in Clients : call'[d] # Looking)
  BY <1>1 DEF QueueInv, RowsOK
<1>3. \A j \in Items : call'[Worker].item = j => call[Worker].item = j
  BY <1>1 DEF QueueInv, RowsOK
<1>4. /\ batch' = batch /\ batch \in Seq(Items) /\ Distinct(batch)
      /\ \A k \in 1..Len(batch) : batch[k] \in Items /\ batch[k] # call'[Worker].item
      /\ \A j \in Items : call'[Worker].item = j => Queued(j)
  BY <1>3 DEF QueueInv, RowsOK, WorkerOK
<1>5. /\ queue' \in Seq(Items) /\ Distinct(queue')
      /\ \A j \in Items : Queued(j) => Queued(j)'
      /\ owed' = owed /\ owed \subseteq Items
      /\ attempts' \in [Items -> 0..(MaxAttempts - 1)] /\ tries' \in [Items -> Nat]
      /\ \A j \in Items : attempts'[j] <= tries'[j]
  BY DEF rows, past, QueueInv, RowsOK, WorkerOK, Queued
<1>6. QED
  BY <1>2, <1>4, <1>5, RowsStay

LEMMA FirstCallKeeps ==
  ASSUME QueueInv, NEW f \in Fetchers, NEW i \in Items, f = Worker => call[Worker].item = i,
         FirstCall(f, i)
  PROVE  QueueInv'
<1>1. CASE call' = [call EXCEPT ![f] = Asking(i, 1)] /\ UNCHANGED <<rows, batch, past>>
  <2>1. Asking(i, 1) \in Calls /\ Asking(i, 1) # Looking /\ Asking(i, 1).item = i
    BY CallTypes DEF Asking
  <2>2. QED
    BY <1>1, <2>1, CallKeeps
<1>2. QED
  BY <1>1, EndsKeeps DEF FirstCall

\* The worker takes rows in hand that are queued, or lets them go.
LEMMA BatchKeeps ==
  ASSUME QueueInv, UNCHANGED <<rows, past>>,
         call' \in [Fetchers -> Calls], \A c \in Clients : call'[c] # Looking,
         batch' \in Seq(Items), Distinct(batch'),
         \A k \in 1..Len(batch') : Queued(batch'[k]) /\ batch'[k] # call'[Worker].item,
         \A j \in Items : call'[Worker].item = j => Queued(j)
  PROVE  QueueInv'
<1>1. RowsOK'
  BY DEF QueueInv, RowsOK, rows, past, Distinct
<1>2. queue' = queue
  BY DEF rows
<1>3. (\A k \in 1..Len(batch) : Queued(batch[k]) /\ batch[k] # call[Worker].item)'
  BY <1>2 DEF Queued
<1>4. (call[Worker].item \in Items => Queued(call[Worker].item))'
  BY <1>2 DEF Queued
<1>5. (\A i \in Items : attempts[i] <= tries[i])' /\ OwedIsQueued'
  BY <1>2 DEF QueueInv, WorkerOK, rows, past, OwedIsQueued, Queued
<1>6. Distinct(batch)'
  BY DEF Distinct
<1>7. QED
  BY <1>1, <1>3, <1>4, <1>5, <1>6 DEF QueueInv, WorkerOK

LEMMA QueueInit == Init => QueueInv
<1> SUFFICES ASSUME Init PROVE QueueInv
  OBVIOUS
<1>1. RowsOK
  <2>1. 0 \in 0..(MaxAttempts - 1)
    BY QueueAssumption
  <2>2. Idle \in Calls /\ Idle # Looking
    BY CallTypes
  <2>3. QED
    BY <2>1, <2>2, CallTypes DEF Init, RowsOK, Distinct
<1>2. call[Worker].item \notin Items
  BY CallTypes DEF Init
<1>3. QED
  BY <1>1, <1>2 DEF Init, QueueInv, WorkerOK, OwedIsQueued, Distinct

LEMMA QueueStep == QueueInv /\ [Next]_vars => QueueInv'
<1> SUFFICES ASSUME QueueInv, [Next]_vars PROVE QueueInv'
  OBVIOUS
<1>1. call \in [Fetchers -> Calls] /\ (\A d \in Clients : call[d] # Looking)
  BY DEF QueueInv, RowsOK
<1>2. ASSUME UNCHANGED <<rows, call, batch, past>> PROVE QueueInv'
  BY <1>2 DEF QueueInv, RowsOK, WorkerOK, rows, past, Distinct, OwedIsQueued, Queued
<1>3. ASSUME NEW c \in Clients, NEW i \in Items, Request(c, i) PROVE QueueInv'
  <2>1. c # Worker /\ c \in Fetchers
    BY QueueAssumption, CallTypes
  <2>2. CASE FirstCall(c, i)
    BY <2>1, <2>2, FirstCallKeeps
  <2>3. CASE Locked(i) /\ call' = [call EXCEPT ![c] = Waiting(i)] /\ UNCHANGED <<rows, batch, past>>
    <3>1. Waiting(i) \in Calls /\ Waiting(i) # Looking
      BY <2>3, CallTypes DEF Locked, Waiting, Looking
    <3>2. QED
      BY <2>1, <2>3, <3>1, CallKeeps
  <2>4. QED
    BY <1>3, <2>2, <2>3 DEF Request
<1>4. ASSUME NEW f \in Fetchers, LockGained(f) PROVE QueueInv'
  <2>1. call[f].item \in Items
    BY <1>1, <1>4, CallTypes DEF LockGained
  <2>2. QED
    BY <1>4, <2>1, FirstCallKeeps, EndsKeeps DEF LockGained
<1>5. ASSUME NEW f \in Fetchers, NextPage(f) PROVE QueueInv'
  <2> DEFINE i == call[f].item
             n == call[f].page
  <2>1. /\ i \in Items /\ n \in 1..MaxPages /\ n < MaxPages
    BY <1>1, <1>5, CallTypes DEF NextPage
  <2>2. CASE call' = [call EXCEPT ![f] = Asking(i, @.page + 1)] /\ UNCHANGED <<rows, batch, past>>
    <3>1. n + 1 \in 1..MaxPages
      BY <2>1, QueueAssumption
    <3>2. /\ Asking(i, n + 1) \in Calls /\ Asking(i, n + 1) # Looking
          /\ Asking(i, n + 1).item = i
      BY <2>1, <3>1, CallTypes DEF Asking
    <3>3. call' = [call EXCEPT ![f] = Asking(i, n + 1)]
      BY <1>1, <2>2
    <3>4. QED
      BY <2>2, <3>2, <3>3, CallKeeps
  <2>3. CASE Ends(f, i, "refused")
    BY <2>1, <2>3, EndsKeeps
  <2>4. QED
    BY <1>5, <2>2, <2>3 DEF NextPage
<1>6. ASSUME NEW f \in Fetchers, LastAnswer(f) PROVE QueueInv'
  <2>1. call[f].item \in Items
    BY <1>1, <1>6, CallTypes DEF LastAnswer
  <2>2. QED
    BY <1>6, <2>1, EndsKeeps DEF LastAnswer
<1>7. CASE StartRun
  <2>1. /\ queue \in Seq(Items) /\ Distinct(queue) /\ Worker \in Fetchers /\ Looking \in Calls
        /\ Worker \notin Clients /\ Looking.item \notin Items
    BY CallTypes, QueueAssumption DEF QueueInv, RowsOK
  <2>2. PICK m \in 0..Len(queue) : batch' = SubSeq(queue, 1, m)
    <3>1. Batch \in Nat
      BY QueueAssumption
    <3>2. QED
      BY <1>7, <2>1, <3>1 DEF StartRun
  <2>3. batch' \in Seq(Items) /\ Len(batch') = m /\ \A k \in 1..m : batch'[k] = queue[k]
    BY <2>1, <2>2
  <2>4. Distinct(batch') /\ \A k \in 1..Len(batch') : batch'[k] \in Items /\ Queued(batch'[k])
    BY <2>1, <2>3 DEF Distinct, Queued
  <2>5. call' \in [Fetchers -> Calls] /\ call'[Worker] = Looking /\ \A d \in Clients : call'[d] # Looking
    BY <1>1, <1>7, <2>1 DEF StartRun
  <2>6. UNCHANGED <<rows, past>>
    BY <1>7 DEF StartRun
  <2>7. QED
    BY <2>1, <2>3, <2>4, <2>5, <2>6, BatchKeeps
<1>8. CASE EndRun
  BY <1>8, CallTypes, CallKeeps DEF EndRun
<1>9. ASSUME call[Worker] = Looking, batch # <<>>
      PROVE  /\ Head(batch) \in Items /\ Queued(Head(batch))
             /\ Tail(batch) \in Seq(Items) /\ Distinct(Tail(batch))
             /\ \A k \in 1..Len(Tail(batch)) :
                   /\ Tail(batch)[k] \in Items /\ Tail(batch)[k] # Head(batch)
                   /\ Queued(Tail(batch)[k])
                   /\ \E n \in 1..Len(batch) : Tail(batch)[k] = batch[n]
  <2>1. batch \in Seq(Items) /\ Distinct(batch) /\ \A k \in 1..Len(batch) : Queued(batch[k])
    BY DEF QueueInv, RowsOK, WorkerOK
  <2>2. /\ Head(batch) = batch[1] /\ 1 \in 1..Len(batch)
        /\ Tail(batch) \in Seq(Items)
        /\ \A k \in 1..Len(Tail(batch)) : Tail(batch)[k] = batch[k + 1] /\ k + 1 \in 2..Len(batch)
    BY <1>9, <2>1
  <2>3. Distinct(Tail(batch))
    BY <2>1, <2>2 DEF Distinct
  <2>4. Head(batch) \in Items /\ Queued(Head(batch))
    BY <2>1, <2>2
  <2>5. ASSUME NEW k \in 1..Len(Tail(batch))
        PROVE  /\ Tail(batch)[k] \in Items /\ Tail(batch)[k] # Head(batch)
               /\ Queued(Tail(batch)[k])
               /\ \E n \in 1..Len(batch) : Tail(batch)[k] = batch[n]
    BY <2>1, <2>2 DEF Distinct
  <2>6. QED
    BY <2>2, <2>3, <2>4, <2>5
<1>10. CASE Skip
  <2>1. batch' = Tail(batch) /\ UNCHANGED <<rows, past, call>> /\ call[Worker] = Looking
    BY <1>10 DEF Skip
  <2>2. QED
    BY <1>1, <1>9, <1>10, <2>1, CallTypes, BatchKeeps DEF Skip
<1>11. CASE FetchNext
  <2> DEFINE i == Head(batch)
  <2>1. call[Worker] = Looking /\ batch # <<>> /\ batch' = Tail(batch)
    BY <1>11 DEF FetchNext
  <2>2. i \in Items /\ Queued(i)
    BY <1>9, <2>1
  <2>3. /\ batch' \in Seq(Items) /\ Distinct(batch')
        /\ \A k \in 1..Len(batch') :
             /\ batch'[k] \in Items /\ batch'[k] # i /\ Queued(batch'[k])
             /\ \E n \in 1..Len(batch) : batch'[k] = batch[n]
    BY <1>9, <2>1
  <2>4. Worker \in Fetchers /\ Worker \notin Clients /\ Looking.item \notin Items
    BY CallTypes, QueueAssumption
  <2> HIDE DEF i
  <2>5. ASSUME NEW x \in Calls, x.item = i, call' = [call EXCEPT ![Worker] = x],
               UNCHANGED <<rows, past>>
        PROVE  QueueInv'
    <3>1. /\ call' \in [Fetchers -> Calls] /\ \A d \in Clients : call'[d] # Looking
          /\ call'[Worker].item = i
      BY <1>1, <2>4, <2>5
    <3>2. QED
      BY <2>2, <2>3, <2>5, <3>1, BatchKeeps
  <2>6. Asking(i, 1) \in Calls /\ Asking(i, 1).item = i /\ Waiting(i).item = i
    BY <2>2, CallTypes DEF Asking, Waiting
  <2>7. Locked(i) => Waiting(i) \in Calls
    BY CallTypes DEF Locked
  <2>8. CASE call' = [call EXCEPT ![Worker] = Asking(i, 1)] /\ UNCHANGED <<rows, past>>
    BY <2>5, <2>6, <2>8
  <2>9. CASE Locked(i) /\ call' = [call EXCEPT ![Worker] = Waiting(i)] /\ UNCHANGED <<rows, past>>
    BY <2>5, <2>6, <2>7, <2>9
  <2>10. CASE Remove(i) /\ owed' = owed \ {i} /\ UNCHANGED call
    BY <1>1, <2>1, <2>2, <2>3, <2>4, <2>10, WorkerRemoves
  <2>11. QED
    BY <1>11, <2>8, <2>9, <2>10 DEF FetchNext, i
<1>12. ASSUME call'= [call EXCEPT ![Worker] = Idle] \/ call' = [f \in Fetchers |-> Idle],
              batch' = <<>>, UNCHANGED <<rows, past>>
       PROVE  QueueInv'
  <2>1. Worker \in Fetchers /\ Worker \notin Clients /\ Clients \subseteq Fetchers
    BY CallTypes, QueueAssumption
  <2>2. Idle \in Calls /\ Idle # Looking /\ Idle.item \notin Items
    BY CallTypes
  <2>3. /\ call' \in [Fetchers -> Calls] /\ call'[Worker] = Idle
        /\ \A d \in Clients : call'[d] # Looking
    BY <1>1, <1>12, <2>1, <2>2
  <2>4. batch' \in Seq(Items) /\ Len(batch') = 0 /\ Distinct(batch')
    BY <1>12 DEF Distinct
  <2>5. QED
    BY <1>12, <2>2, <2>3, <2>4, BatchKeeps
<1>13. CASE Cancel \/ Restart
  BY <1>12, <1>13 DEF Cancel, Restart
<1>14. ASSUME \/ \E e \in Endpoints : Expire(e) \/ OtherCall(e)
              \/ PauseOver
              \/ \E b \in Backfills : BackfillCall(b) \/ BackfillWakes(b) \/ BackfillAnswer(b)
              \/ UNCHANGED vars
       PROVE  QueueInv'
  <2>1. UNCHANGED <<rows, call, batch, past>>
    BY <1>14 DEF Expire, OtherCall, PauseOver, BackfillCall, BackfillWakes, BackfillAnswer, vars
  <2>2. QED
    BY <1>2, <2>1
<1>15. QED
  BY <1>3, <1>4, <1>5, <1>6, <1>7, <1>8, <1>10, <1>11, <1>13, <1>14 DEF Next

LEMMA QueueInvariant == Spec => []QueueInv
  BY QueueInit, QueueStep, PTL DEF Spec

\* A request that was answered with "come back later" stays queued until it is
\* settled (pending.py:133-142, db.py:1507-1559).
THEOREM NobodyIsForgotten == Spec => []OwedIsQueued
<1>1. QueueInv => OwedIsQueued
  BY DEF QueueInv, WorkerOK
<1>2. QED
  BY <1>1, QueueInvariant, PTL

-----------------------------------------------------------------------------
(* Types, and the windows *)

WindowOK ==
  /\ used \in [Endpoints -> 0..Limit]
  /\ cooling \in BOOLEAN
  /\ stored \subseteq Items
  /\ backfill \in [Backfills -> {"between", "asleep", "asking"}]
  /\ requests \in 0..MaxRequests /\ troubles \in 0..MaxTroubles

LEMMA SpendType ==
  ASSUME used \in [Endpoints -> 0..Limit], NEW e \in Endpoints, used[e] < Limit, Spend(e)
  PROVE  used' \in [Endpoints -> 0..Limit]
<1>1. Limit \in Nat
  BY QueueAssumption
<1>2. used[e] + 1 \in 0..Limit
  BY <1>1
<1>3. QED
  BY <1>2 DEF Spend

LEMMA FirstCallType ==
  ASSUME used \in [Endpoints -> 0..Limit], NEW f, NEW i \in Items, FirstCall(f, i)
  PROVE  used' \in [Endpoints -> 0..Limit]
<1>1. EndpointOf[i] \in Endpoints
  BY QueueAssumption
<1>2. QED
  BY <1>1, SpendType DEF FirstCall, CanAsk

LEMMA TroubleType ==
  ASSUME troubles \in 0..MaxTroubles, NEW happens \in BOOLEAN, Trouble(happens)
  PROVE  troubles' \in 0..MaxTroubles
<1>1. MaxTroubles \in Nat
  BY QueueAssumption
<1>2. QED
  BY <1>1 DEF Trouble

LEMMA WindowInit == Init => WindowOK
<1> SUFFICES ASSUME Init PROVE WindowOK
  OBVIOUS
<1>1. Limit \in Nat /\ MaxRequests \in Nat /\ MaxTroubles \in Nat
  BY QueueAssumption
<1>2. used \in [Endpoints -> 0..Limit]
  BY <1>1 DEF Init
<1>3. cooling \in BOOLEAN /\ stored \subseteq Items
  BY DEF Init
<1>4. backfill \in [Backfills -> {"between", "asleep", "asking"}]
  BY DEF Init
<1>5. requests \in 0..MaxRequests /\ troubles \in 0..MaxTroubles
  BY <1>1 DEF Init
<1>6. QED
  BY <1>2, <1>3, <1>4, <1>5 DEF WindowOK

LEMMA WindowStep == QueueInv /\ WindowOK /\ [Next]_vars => WindowOK'
<1> SUFFICES ASSUME QueueInv, WindowOK, [Next]_vars PROVE WindowOK'
  OBVIOUS
<1>1. /\ MaxRequests \in Nat /\ Limit \in Nat /\ MaxPages \in Nat
      /\ \A i \in Items : EndpointOf[i] \in Endpoints
      /\ \A b \in Backfills : BackfillOf[b] \in Endpoints
      /\ Lists \subseteq Items
  BY QueueAssumption
<1>2. \A f \in Fetchers : call[f].pc \in {"waiting", "asking"} => call[f].item \in Items
  BY CallTypes DEF QueueInv, RowsOK
<1>3. ASSUME NEW e \in Endpoints, Expire(e) PROVE WindowOK'
  <2>1. used'  \in [Endpoints -> 0..Limit]
    BY <1>1, <1>3 DEF Expire, WindowOK
  <2>2. QED
    BY <1>3, <2>1 DEF Expire, WindowOK
<1>4. ASSUME NEW e \in Endpoints, OtherCall(e) PROVE WindowOK'
  <2>1. used' \in [Endpoints -> 0..Limit]
    BY <1>4, SpendType DEF OtherCall, CanAsk, WindowOK
  <2>2. requests' \in 0..MaxRequests
    BY <1>1, <1>4 DEF OtherCall, WindowOK
  <2>3. QED
    BY <1>4, <2>1, <2>2 DEF OtherCall, WindowOK
<1>5. ASSUME NEW c \in Clients, NEW i \in Items, Request(c, i) PROVE WindowOK'
  <2>1. used' \in [Endpoints -> 0..Limit]
    BY <1>5, FirstCallType DEF Request, WindowOK
  <2>2. requests' \in 0..MaxRequests
    BY <1>1, <1>5 DEF Request, WindowOK
  <2>3. QED
    BY <1>5, <2>1, <2>2 DEF Request, WindowOK
<1>6. ASSUME NEW f \in Fetchers, LockGained(f) PROVE WindowOK'
  <2>1. used' \in [Endpoints -> 0..Limit]
    BY <1>2, <1>6, FirstCallType DEF LockGained, WindowOK
  <2>2. QED
    BY <1>6, <2>1 DEF LockGained, WindowOK
<1>7. ASSUME NEW f \in Fetchers, NextPage(f) PROVE WindowOK'
  <2>1. EndpointOf[call[f].item] \in Endpoints
    BY <1>1, <1>7 DEF NextPage
  <2>2. used' \in [Endpoints -> 0..Limit]
    BY <1>7, <2>1, SpendType DEF NextPage, CanAsk, WindowOK
  <2>3. QED
    BY <1>7, <2>2 DEF NextPage, WindowOK
<1>8. ASSUME NEW f \in Fetchers, LastAnswer(f) PROVE WindowOK'
  <2>1. PICK outcome \in Outcomes :
          /\ Trouble(outcome = "raised" \/ (outcome = "refused" /\ ~cooling))
          /\ cooling' = (cooling \/ outcome = "refused")
          /\ stored' = IF Fills(call[f].item, outcome) THEN stored \cup {call[f].item} ELSE stored
    BY <1>8 DEF LastAnswer
  <2>2. (outcome = "raised" \/ (outcome = "refused" /\ ~cooling)) \in BOOLEAN
    OBVIOUS
  <2>3. troubles' \in 0..MaxTroubles
    BY <2>1, <2>2, TroubleType DEF WindowOK
  <2>4. stored' \subseteq Items
    BY <1>2, <1>8, <2>1 DEF LastAnswer, WindowOK
  <2>5. cooling' \in BOOLEAN /\ UNCHANGED <<used, backfill, requests>>
    BY <1>8, <2>1 DEF LastAnswer
  <2>6. QED
    BY <2>3, <2>4, <2>5 DEF WindowOK
<1>9. CASE FetchNext
  <2>1. /\ HasRoom(EndpointOf[Head(batch)])
        /\ Spend(EndpointOf[Head(batch)]) \/ UNCHANGED used
        /\ UNCHANGED <<cooling, stored, backfill, requests, troubles>>
        /\ batch # <<>>
    BY <1>9 DEF FetchNext
  <2>2. Head(batch) \in Items
    BY <2>1 DEF QueueInv, RowsOK
  <2>3. used' \in [Endpoints -> 0..Limit]
    BY <1>1, <2>1, <2>2, SpendType DEF HasRoom, CanAsk, WindowOK
  <2>4. QED
    BY <2>1, <2>3 DEF WindowOK
<1>10. ASSUME NEW b \in Backfills, BackfillCall(b) \/ BackfillWakes(b) PROVE WindowOK'
  <2>1. used' \in [Endpoints -> 0..Limit]
    BY <1>1, <1>10, SpendType DEF BackfillCall, BackfillWakes, WindowOK
  <2>2. QED
    BY <1>10, <2>1 DEF BackfillCall, BackfillWakes, WindowOK
<1>11. ASSUME NEW b \in Backfills, BackfillAnswer(b) PROVE WindowOK'
  <2>1. PICK refused \in BOOLEAN : Trouble(refused /\ ~cooling) /\ cooling' = (cooling \/ refused)
    BY <1>11 DEF BackfillAnswer
  <2>2. troubles' \in 0..MaxTroubles
    BY <2>1, TroubleType DEF WindowOK
  <2>3. QED
    BY <1>11, <2>1, <2>2 DEF BackfillAnswer, WindowOK
<1>12. CASE Cancel \/ Restart
  <2>1. troubles' \in 0..MaxTroubles
    BY <1>12, TroubleType DEF Cancel, Restart, WindowOK
  <2>2. stored' \subseteq Items
    BY <1>12 DEF Cancel, Restart, WindowOK
  <2>3. QED
    BY <1>12, <2>1, <2>2 DEF Cancel, Restart, WindowOK, window
<1>13. CASE PauseOver \/ StartRun \/ EndRun \/ Skip \/ UNCHANGED vars
  BY <1>13 DEF PauseOver, StartRun, EndRun, Skip, vars, window, WindowOK
<1>14. QED
  BY <1>3, <1>4, <1>5, <1>6, <1>7, <1>8, <1>9, <1>10, <1>11, <1>12, <1>13 DEF Next

\* The variables of the queue and its users keep to their types, and no item is
\* queued twice.
THEOREM TypeCorrect == Spec => []TypeOK
<1>1. QueueInv /\ WindowOK => TypeOK
  BY DEF QueueInv, RowsOK, WindowOK, TypeOK, Distinct
<1>2. QED
  BY <1>1, WindowInit, QueueInvariant, WindowStep, PTL DEF Spec

-----------------------------------------------------------------------------
(* The limiter's windows *)

WindowsStep == Windows!WindowsNext \/ UNCHANGED window

LEMMA SlotTaken ==
  ASSUME NEW e \in Endpoints, used[e] < Limit, Spend(e), UNCHANGED cooling PROVE WindowsStep
BY DEF Spend, WindowsStep, Windows!WindowsNext, Windows!TakeSlot

LEMMA FirstCallTakes ==
  ASSUME NEW f, NEW i \in Items, FirstCall(f, i), UNCHANGED cooling PROVE WindowsStep
<1>1. EndpointOf[i] \in Endpoints
  BY QueueAssumption
<1>2. QED
  BY <1>1, SlotTaken DEF FirstCall, CanAsk, WindowsStep, window

LEMMA WindowsUsed ==
  ASSUME QueueInv, WindowOK, [Next]_vars PROVE WindowsStep
<1>1. ASSUME NEW e \in Endpoints, Expire(e) PROVE WindowsStep
  <2>1. used' \in [Endpoints -> 0..Limit] /\ \A d \in Endpoints : used'[d] <= used[d]
    BY <1>1, QueueAssumption DEF Expire, WindowOK
  <2>2. QED
    BY <1>1, <2>1 DEF Expire, WindowsStep, Windows!WindowsNext, Windows!Pass
<1>2. ASSUME NEW e \in Endpoints, OtherCall(e) PROVE WindowsStep
  BY <1>2, SlotTaken DEF OtherCall, CanAsk
<1>3. CASE PauseOver
  <2>1. used' = used /\ cooling' = FALSE
    BY <1>3 DEF PauseOver
  <2>2. used \in [Endpoints -> 0..Limit] /\ \A d \in Endpoints : used[d] <= used[d]
    BY QueueAssumption DEF WindowOK
  <2>3. QED
    BY <2>1, <2>2 DEF WindowsStep, Windows!WindowsNext, Windows!Pass
<1>4. ASSUME NEW c \in Clients, NEW i \in Items, Request(c, i) PROVE WindowsStep
  BY <1>4, FirstCallTakes DEF Request, WindowsStep, window
<1>5. ASSUME NEW f \in Fetchers, LockGained(f) PROVE WindowsStep
  <2>1. call[f].item \in Items
    BY <1>5, CallTypes DEF LockGained, QueueInv, RowsOK
  <2>2. QED
    BY <1>5, <2>1, FirstCallTakes DEF LockGained, WindowsStep, window
<1>6. ASSUME NEW f \in Fetchers, NextPage(f) PROVE WindowsStep
  <2>1. EndpointOf[call[f].item] \in Endpoints
    BY <1>6, QueueAssumption DEF NextPage
  <2>2. QED
    BY <1>6, <2>1, SlotTaken DEF NextPage, CanAsk, WindowsStep, window
<1>7. ASSUME NEW f \in Fetchers, LastAnswer(f) PROVE WindowsStep
  <2>1. PICK outcome \in Outcomes : cooling' = (cooling \/ outcome = "refused")
    BY <1>7 DEF LastAnswer
  <2>2. used' = used
    BY <1>7 DEF LastAnswer
  <2>3. cooling' = TRUE \/ cooling' = cooling
    BY <2>1 DEF WindowOK
  <2>4. QED
    BY <2>2, <2>3 DEF WindowsStep, Windows!WindowsNext, Windows!BeginPause, window
<1>8. CASE FetchNext
  <2>1. EndpointOf[Head(batch)] \in Endpoints
    BY <1>8, QueueAssumption DEF FetchNext, QueueInv, RowsOK
  <2>2. QED
    BY <1>8, <2>1, SlotTaken DEF FetchNext, HasRoom, CanAsk, WindowsStep, window
<1>9. ASSUME NEW b \in Backfills, BackfillCall(b) \/ BackfillWakes(b) PROVE WindowsStep
  <2>1. BackfillOf[b] \in Endpoints
    BY QueueAssumption
  <2>2. QED
    BY <1>9, <2>1, SlotTaken DEF BackfillCall, BackfillWakes, WindowsStep, window
<1>10. ASSUME NEW b \in Backfills, BackfillAnswer(b) PROVE WindowsStep
  <2>1. PICK refused \in BOOLEAN : cooling' = (cooling \/ refused)
    BY <1>10 DEF BackfillAnswer
  <2>2. used' = used
    BY <1>10 DEF BackfillAnswer
  <2>3. cooling' = TRUE \/ cooling' = cooling
    BY <2>1 DEF WindowOK
  <2>4. QED
    BY <2>2, <2>3 DEF WindowsStep, Windows!WindowsNext, Windows!BeginPause, window
<1>11. CASE UNCHANGED window
  BY <1>11 DEF WindowsStep
<1>12. QED
  BY <1>1, <1>2, <1>3, <1>4, <1>5, <1>6, <1>7, <1>8, <1>9, <1>10, <1>11
     DEF Next, StartRun, Skip, EndRun, Cancel, Restart, vars

\* Whoever calls, and whatever waits lie between its look at the window and the call,
\* a slot is taken only while the limiter has one (pending.py:126, scheduler.py:769,
\* routes/api.py:328).
THEOREM WindowsAreShared == Spec => WindowsSpec
<1>1. Init => Windows!WindowsInit
  BY DEF Init, Windows!WindowsInit
<1>2. QueueInv /\ WindowOK /\ [Next]_vars => [Windows!WindowsNext]_<<used, cooling>>
  BY WindowsUsed DEF WindowsStep, window
<1>3. QED
  BY <1>1, <1>2, WindowInit, QueueInvariant, WindowStep, PTL
     DEF Spec, WindowsSpec, Windows!WindowsSpec

-----------------------------------------------------------------------------
(* Backfills *)

\* A limit of at least the backfill budget (180 and 120 by default) makes the
\* comment of pending.py:6 true: no backfill that looked at the queue goes to
\* sleep after it, so none takes a slot while requests wait.
THEOREM BackfillYields ==
  ASSUME Budget <= Limit PROVE Spec => BackfillYieldsToQueue
<1> DEFINE Awake == \A b \in Backfills : backfill[b] # "asleep"
<1>1. Init => Awake
  BY DEF Init
<1>2. QueueInv /\ WindowOK /\ Awake /\ [Next]_vars =>
        /\ Awake'
        /\ \A b \in Backfills :
             backfill[b] # "asking" /\ backfill'[b] = "asking" => ~QueuedFor(BackfillOf[b])
  <2> SUFFICES ASSUME QueueInv, WindowOK, Awake, [Next]_vars
               PROVE  /\ Awake'
                      /\ \A b \in Backfills : backfill[b] # "asking" /\ backfill'[b] = "asking"
                                                => ~QueuedFor(BackfillOf[b])
    OBVIOUS
  <2>1. ASSUME NEW b \in Backfills, BackfillCall(b)
        PROVE  /\ ~QueuedFor(BackfillOf[b])
               /\ backfill' = [backfill EXCEPT ![b] = "asking"]
    <3>1. BackfillOf[b] \in Endpoints /\ Budget \in Nat /\ Limit \in Nat
      BY QueueAssumption
    <3>2. used[BackfillOf[b]] \in Int
      BY <3>1 DEF WindowOK
    <3>3. used[BackfillOf[b]] < Limit
      BY <2>1, <3>1, <3>2 DEF BackfillCall, MayBackfill
    <3>4. QED
      BY <2>1, <3>1, <3>2, <3>3 DEF BackfillCall, MayBackfill
  <2>2. CASE \E b \in Backfills : BackfillCall(b)
    BY <2>1, <2>2 DEF WindowOK
  <2>3. CASE \E b \in Backfills : BackfillWakes(b)
    BY <2>3 DEF BackfillWakes
  <2>4. CASE \E b \in Backfills : BackfillAnswer(b)
    BY <2>4 DEF BackfillAnswer, WindowOK
  <2>5. CASE Restart
    BY <2>5 DEF Restart
  <2>6. CASE UNCHANGED backfill
    BY <2>6
  <2>7. QED
    BY <2>2, <2>3, <2>4, <2>5, <2>6
       DEF Next, Expire, OtherCall, PauseOver, Request, LockGained, NextPage, LastAnswer,
           StartRun, Skip, FetchNext, EndRun, Cancel, vars
<1>3. QED
  BY <1>1, <1>2, WindowInit, QueueInvariant, WindowStep, PTL DEF Spec, BackfillYieldsToQueue

=============================================================================
