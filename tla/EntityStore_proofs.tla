------------------------ MODULE EntityStore_proofs ------------------------
(***************************************************************************)
(* Proofs about the two parts of the entity store that are models of their *)
(* own: the rows of issues (IssueDetails), then the lists of a volume's    *)
(* issues (VolumeLists).  Their names differ, so that both can be extended *)
(* here.                                                                   *)
(***************************************************************************)
EXTENDS IssueDetails, VolumeLists, SequenceTheorems, TLAPS

-----------------------------------------------------------------------------
(* Rows *)

\* What a client's request for an issue knows.
Calls == [issue : Issues \cup {0}, had : BOOLEAN, answer : Dates \cup {Failed, RateLimited}]

\* A row of the table, or none, that is fresh only with the details of its date.
Sound(row) == row \in Rows /\ (row.fresh => row.detail = row.list)

\* What a row becomes is sound, and has details if it had some.
Keeps(old, new) == Sound(old) => Sound(new) /\ (old.detail > 0 => new.detail > 0)

LEMMA NoRowSound == Sound(NoRow) /\ NoRow.detail = 0
  BY DEF Sound, Rows, NoRow, Bare

\* A row that only a list brought, and one of a detail answer.
LEMMA BareSound ==
  ASSUME NEW date \in Dates
  PROVE  Sound(Bare(date)) /\ Bare(date).detail = 0
  BY DetailsAssumption DEF Sound, Rows, Bare, Dates

LEMMA WithDetailKeeps ==
  ASSUME NEW i, NEW date \in Dates, date > 0
  PROVE  Keeps(shown[i], WithDetail(i, date)) /\ (i \notin Barred => WithDetail(i, date).detail > 0)
<1>1. CASE i \in Barred
  BY <1>1 DEF WithDetail, Keeps
<1>2. CASE i \notin Barred
  BY <1>2, DetailsAssumption DEF Keeps, Sound, Rows, Bare, WithDetail, Dates
<1>3. QED
  BY <1>1, <1>2

LEMMA WithListKeeps ==
  ASSUME NEW i, NEW date \in Dates
  PROVE  Keeps(shown[i], WithList(i, date))
<1> SUFFICES ASSUME Sound(shown[i])
             PROVE  /\ Sound(WithList(i, date))
                    /\ shown[i].detail > 0 => WithList(i, date).detail > 0
  BY DEF Keeps
<1>1. CASE i \in Barred
  BY <1>1 DEF WithList
<1>2. CASE i \notin Barred /\ shown[i] = NoRow
  <2>1. WithList(i, date) = Bare(date)
    BY <1>2 DEF WithList, Stored
  <2>2. QED
    BY <1>2, <2>1, BareSound, NoRowSound
<1>3. CASE i \notin Barred /\ shown[i] # NoRow
  <2>1. shown[i] \in [list : Dates, detail : Dates, fresh : BOOLEAN, missing : BOOLEAN, used : BOOLEAN]
    BY <1>3 DEF Sound, Rows
  <2>2. WithList(i, date) =
          [shown[i] EXCEPT !.list = date, !.missing = FALSE,
                           !.fresh = shown[i].fresh /\ shown[i].list = date]
    BY <1>3 DEF WithList, Stored
  <2>3. QED
    BY <2>1, <2>2, DetailsAssumption DEF Sound, Rows, Dates
<1>4. QED
  BY <1>1, <1>2, <1>3

LEMMA MarkedKeeps == ASSUME NEW row PROVE Keeps(row, Marked(row))
  BY DetailsAssumption DEF Keeps, Sound, Rows, Marked, Dates

LEMMA TouchedKeeps == ASSUME NEW row, NEW i PROVE Keeps(row, Touched(row, i))
  BY DetailsAssumption DEF Keeps, Sound, Rows, Touched, Dates

-----------------------------------------------------------------------------
(* The inductive invariant *)

\* An issue has one date more than it had edits at most; a run asks for an issue.
Bounds ==
  /\ \A i \in Issues : upstream[i] <= edits + 1
  /\ run.pc = "asking" => run.issue \in Issues

SoundTables == \A i \in Issues : Sound(shown[i]) /\ Sound(saved[i])

\* What runs reported has details in the file and on the connection; what the run
\* under way stored has them on the connection.
Kept ==
  /\ \A i \in reported : shown[i].detail > 0 /\ saved[i].detail > 0
  /\ \A i \in Stays(run) : shown[i].detail > 0

IInv == TypeOK /\ Bounds /\ SoundTables /\ Kept

LEMMA IInvInit == Init => IInv
<1> SUFFICES ASSUME Init PROVE IInv
  OBVIOUS
<1>1. \A i \in Issues : shown[i] \in {NoRow, Undated} /\ shown \in [Issues -> {NoRow, Undated}]
  BY DEF Init
<1>2. \A i \in Issues : Sound(shown[i])
  BY <1>1, NoRowSound, BareSound, DetailsAssumption DEF Undated, Dates
<1>3. SoundTables /\ shown \in [Issues -> Rows] /\ saved = shown
  BY <1>1, <1>2 DEF Init, SoundTables, Sound
<1>4. call \in [Clients -> Calls]
  BY DEF Init, Idle, Asking, Calls
<1>5. /\ run \in [pc : {"idle", "between", "asking"}, todo : SUBSET Issues,
                  issue : Issues \cup {0}, answer : Dates \cup {Failed},
                  updated : SUBSET Issues, lost : SUBSET Issues]
      /\ run.pc = "idle" /\ Stays(run) = {}
  BY DEF Init, NoRun, Stays
<1>6. /\ upstream \in [Issues -> Dates] /\ page \in [Issues -> Dates]
      /\ \A i \in Issues : upstream[i] = 1
      /\ edits = 0 /\ troubles = 0 /\ reported = {}
      /\ blocked \subseteq Issues /\ scope \subseteq Issues
  BY DetailsAssumption DEF Init, NoPage, Gone, Dates
<1>7. TypeOK
  BY <1>3, <1>4, <1>5, <1>6, DetailsAssumption DEF TypeOK, Calls
<1>8. Bounds /\ Kept
  BY <1>5, <1>6 DEF Bounds, Kept
<1>9. QED
  BY <1>3, <1>7, <1>8 DEF IInv

\* New rows that are sound and keep their details are so in the file as well, when
\* they are committed.
LEMMA TablesStep ==
  ASSUME IInv, NEW new \in [Issues -> Rows], \A i \in Issues : Keeps(shown[i], new[i]),
         shown' = new, saved' = saved \/ saved' = new
  PROVE  /\ shown' \in [Issues -> Rows] /\ saved' \in [Issues -> Rows]
         /\ SoundTables'
         /\ \A i \in Issues : shown[i].detail > 0 => shown'[i].detail > 0
         /\ \A i \in Issues : shown[i].detail > 0 /\ saved[i].detail > 0 => saved'[i].detail > 0
<1>1. \A i \in Issues : Sound(new[i]) /\ (shown[i].detail > 0 => new[i].detail > 0)
  BY DEF Keeps, IInv, SoundTables
<1>2. QED
  BY <1>1 DEF IInv, TypeOK, SoundTables

\* One row changed.
LEMMA RowStep ==
  ASSUME IInv, NEW i, NEW row, i \in Issues => Keeps(shown[i], row)
  PROVE  /\ [shown EXCEPT ![i] = row] \in [Issues -> Rows]
         /\ \A j \in Issues : Keeps(shown[j], [shown EXCEPT ![i] = row][j])
<1>1. i \in Issues => Sound(row) /\ row \in Rows
  BY DEF Keeps, Sound, IInv, SoundTables
<1>2. \A j \in Issues : Keeps(shown[j], shown[j])
  BY DEF Keeps
<1>3. QED
  BY <1>1, <1>2 DEF IInv, TypeOK

\* A step that only changes rows, and commits them or not.
LEMMA RowsOnly ==
  ASSUME IInv, NEW new \in [Issues -> Rows], \A i \in Issues : Keeps(shown[i], new[i]),
         shown' = new, saved' = saved \/ saved' = new,
         UNCHANGED <<outside, run, reported>>
  PROVE  /\ shown' \in [Issues -> Rows] /\ saved' \in [Issues -> Rows]
         /\ Bounds' /\ SoundTables' /\ Kept'
<1>1. Bounds'
  BY DEF IInv, Bounds, outside
<1>2. /\ shown' \in [Issues -> Rows] /\ saved' \in [Issues -> Rows] /\ SoundTables'
      /\ \A i \in Issues : shown[i].detail > 0 => shown'[i].detail > 0
      /\ \A i \in Issues : shown[i].detail > 0 /\ saved[i].detail > 0 => saved'[i].detail > 0
  BY TablesStep
<1>3. Kept'
  BY <1>2 DEF IInv, TypeOK, Kept, Stays
<1>4. QED
  BY <1>1, <1>2, <1>3

\* A step that changes neither rows nor what runs did.
LEMMA NoRows ==
  ASSUME IInv, UNCHANGED <<rows, reported>>, Stays(run') = Stays(run)
  PROVE  SoundTables' /\ Kept'
  BY DEF IInv, SoundTables, Kept, rows

-----------------------------------------------------------------------------
(* The steps *)

LEMMA EditStep == ASSUME IInv, NEW i \in Issues, Edit(i) PROVE IInv'
<1>1. /\ edits' = edits + 1 /\ edits < MaxEdits
      /\ upstream[i] # Gone
      /\ upstream' = [upstream EXCEPT ![i] = upstream[i] + 1] \/ upstream' = [upstream EXCEPT ![i] = Gone]
      /\ UNCHANGED <<rows, call, page, run, blocked, scope, troubles, reported>>
  BY DEF Edit
<1>2. /\ upstream' \in [Issues -> Dates] /\ edits' \in 0..MaxEdits
      /\ \A j \in Issues : upstream'[j] <= edits' + 1
  BY <1>1, DetailsAssumption DEF IInv, TypeOK, Bounds, Dates, Gone
<1>3. Bounds'
  BY <1>1, <1>2 DEF IInv, Bounds
<1>4. SoundTables' /\ Kept'
  BY <1>1, NoRows
<1>5. TypeOK'
  BY <1>1, <1>2 DEF IInv, TypeOK, rows
<1>6. QED
  BY <1>3, <1>4, <1>5 DEF IInv

LEMMA ServeStep ==
  ASSUME IInv, NEW i, Serve(i), UNCHANGED <<outside, run, reported>>
  PROVE  /\ shown' \in [Issues -> Rows] /\ saved' \in [Issues -> Rows]
         /\ Bounds' /\ SoundTables' /\ Kept'
<1> DEFINE new == [shown EXCEPT ![i] = Touched(shown[i], i)]
<1>1. shown' = new /\ saved' = new
  BY DEF Serve, Commit
<1>2. new \in [Issues -> Rows] /\ \A j \in Issues : Keeps(shown[j], new[j])
  BY RowStep, TouchedKeeps
<1> HIDE DEF new
<1>3. QED
  BY <1>1, <1>2, RowsOnly

LEMMA RequestStep ==
  ASSUME IInv, NEW c \in Clients, NEW i \in Issues, NEW wantsDetail \in BOOLEAN, NEW mode \in Modes,
         Request(c, i, wantsDetail, mode)
  PROVE  IInv'
<1>1. UNCHANGED <<outside, page, run, troubles, reported>>
  BY DEF Request
<1>2. CASE Serve(i) /\ call' = call
  <2>1. /\ shown' \in [Issues -> Rows] /\ saved' \in [Issues -> Rows]
        /\ Bounds' /\ SoundTables' /\ Kept'
    BY <1>1, <1>2, ServeStep
  <2>2. TypeOK'
    BY <1>1, <1>2, <2>1 DEF IInv, TypeOK, outside
  <2>3. QED
    BY <2>1, <2>2 DEF IInv
<1>3. ASSUME NEW answer \in Answer(i) \cup {RateLimited}, NEW had \in BOOLEAN,
             call' = [call EXCEPT ![c] = Asking(i, had, answer)], UNCHANGED rows
      PROVE  IInv'
  <2>1. answer \in Dates \cup {Failed, RateLimited}
    BY DEF Answer, IInv, TypeOK
  <2>2. Asking(i, had, answer) \in Calls
    BY <2>1 DEF Asking, Calls
  <2>3. TypeOK'
    BY <1>1, <1>3, <2>2 DEF IInv, TypeOK, Calls, outside, rows
  <2>4. Bounds' /\ SoundTables' /\ Kept'
    BY <1>1, <1>3, NoRows DEF IInv, Bounds, outside
  <2>5. QED
    BY <2>3, <2>4 DEF IInv
<1>4. QED
  <2> DEFINE had == mode # "no-cache" /\ Stored(i)
  <2>1. had \in BOOLEAN
    OBVIOUS
  <2>2. \/ Serve(i) /\ call' = call
        \/ /\ \E answer \in Answer(i) \cup {RateLimited} : call' = [call EXCEPT ![c] = Asking(i, had, answer)]
           /\ UNCHANGED rows
    BY DEF Request
  <2> HIDE DEF had
  <2>3. QED
    BY <1>2, <1>3, <2>1, <2>2

LEMMA ArrivesStep == ASSUME IInv, NEW c \in Clients, Arrives(c) PROVE IInv'
<1> DEFINE i == call[c].issue
           date == call[c].answer
<1>1. /\ call' = [call EXCEPT ![c] = Idle]
      /\ UNCHANGED <<outside, page, run, troubles, reported>>
      /\ \/ date > 0 /\ Commit([shown EXCEPT ![i] = WithDetail(i, date)])
         \/ Serve(i)
         \/ UNCHANGED rows
  BY DEF Arrives
<1>2. date \in Dates \cup {Failed, RateLimited}
  BY DEF IInv, TypeOK
<1>3. call' \in [Clients -> Calls]
  BY <1>1 DEF IInv, TypeOK, Calls, Idle, Asking
<1> HIDE DEF i, date
<1>4. /\ shown' \in [Issues -> Rows] /\ saved' \in [Issues -> Rows]
      /\ Bounds' /\ SoundTables' /\ Kept'
  <2>1. CASE date > 0 /\ Commit([shown EXCEPT ![i] = WithDetail(i, date)])
    <3> DEFINE new == [shown EXCEPT ![i] = WithDetail(i, date)]
    <3>1. date \in Dates
      BY <1>2, <2>1 DEF Failed, RateLimited
    <3>2. Keeps(shown[i], WithDetail(i, date))
      BY <2>1, <3>1, WithDetailKeeps
    <3>3. new \in [Issues -> Rows] /\ \A j \in Issues : Keeps(shown[j], new[j])
      BY <3>2, RowStep
    <3>4. shown' = new /\ saved' = new
      BY <2>1 DEF Commit
    <3> HIDE DEF new
    <3>5. QED
      BY <1>1, <3>3, <3>4, RowsOnly
  <2>2. CASE Serve(i)
    BY <1>1, <2>2, ServeStep
  <2>3. CASE UNCHANGED rows
    BY <1>1, <2>3, NoRows DEF IInv, TypeOK, Bounds, outside, rows
  <2>4. QED
    BY <1>1, <2>1, <2>2, <2>3
<1>5. TypeOK'
  BY <1>1, <1>3, <1>4 DEF IInv, TypeOK, Calls, outside
<1>6. QED
  BY <1>4, <1>5 DEF IInv

LEMMA ListedStep == ASSUME IInv, NEW wanted \in SUBSET Issues, Listed(wanted) PROVE IInv'
<1>1. UNCHANGED <<outside, rows, call, run, troubles, reported>>
  BY DEF Listed
<1>2. page' \in [Issues -> Dates]
  <2>1. PICK some \in SUBSET {i \in wanted : upstream[i] # Gone} :
          page' = [i \in Issues |-> IF i \in some THEN upstream[i] ELSE Gone]
    BY DEF Listed
  <2>2. QED
    BY <2>1, DetailsAssumption DEF IInv, TypeOK, Dates, Gone
<1>3. TypeOK'
  BY <1>1, <1>2 DEF IInv, TypeOK, outside, rows
<1>4. Bounds' /\ SoundTables' /\ Kept'
  BY <1>1, NoRows DEF IInv, Bounds, outside
<1>5. QED
  BY <1>3, <1>4 DEF IInv

LEMMA PageRows ==
  ASSUME IInv, NEW new, new = Upserted \/ new = Inserted
  PROVE  new \in [Issues -> Rows] /\ \A i \in Issues : Keeps(shown[i], new[i])
<1>1. ASSUME NEW i \in Issues
      PROVE  /\ Keeps(shown[i], shown[i]) /\ Sound(shown[i])
             /\ Keeps(shown[i], WithList(i, page[i]))
             /\ Sound(WithList(i, page[i]))
  <2>1. page[i] \in Dates /\ Sound(shown[i])
    BY DEF IInv, TypeOK, SoundTables
  <2>2. Keeps(shown[i], WithList(i, page[i]))
    BY <2>1, WithListKeeps
  <2>3. QED
    BY <2>1, <2>2 DEF Keeps
<1>2. CASE new = Upserted
  <2>1. new = [i \in Issues |-> IF i \in InPage THEN WithList(i, page[i]) ELSE shown[i]]
    BY <1>2 DEF Upserted
  <2>2. \A i \in Issues : Keeps(shown[i], new[i]) /\ Sound(new[i])
    BY <2>1, <1>1
  <2>3. QED
    BY <2>1, <2>2 DEF Sound
<1>3. CASE new = Inserted
  <2>1. new = [i \in Issues |->
                 IF i \in InPage /\ ~Stored(i) THEN WithList(i, page[i]) ELSE shown[i]]
    BY <1>3 DEF Inserted
  <2>2. \A i \in Issues : Keeps(shown[i], new[i]) /\ Sound(new[i])
    BY <2>1, <1>1
  <2>3. QED
    BY <2>1, <2>2 DEF Sound
<1>4. QED
  BY <1>2, <1>3

LEMMA PageStep == ASSUME IInv, UpsertPage \/ InsertPage PROVE IInv'
<1>1. PICK new \in {Upserted, Inserted} : shown' = new /\ saved' = new
  BY DEF UpsertPage, InsertPage, Commit
<1>2. page' = NoPage /\ UNCHANGED <<outside, call, run, troubles, reported>>
  BY DEF UpsertPage, InsertPage
<1>3. /\ shown' \in [Issues -> Rows] /\ saved' \in [Issues -> Rows]
      /\ Bounds' /\ SoundTables' /\ Kept'
  BY <1>1, <1>2, PageRows, RowsOnly
<1>4. page' \in [Issues -> Dates]
  BY <1>2, DetailsAssumption DEF NoPage, Gone, Dates
<1>5. TypeOK'
  BY <1>2, <1>3, <1>4 DEF IInv, TypeOK, outside
<1>6. QED
  BY <1>3, <1>5 DEF IInv

\* What a run knows: where it is, what it has left, asks for, was told and updated.
Runs == [pc : {"idle", "between", "asking"}, todo : SUBSET Issues,
         issue : Issues \cup {0}, answer : Dates \cup {Failed},
         updated : SUBSET Issues, lost : SUBSET Issues]

LEMMA NoRunType == NoRun \in Runs /\ NoRun.pc = "idle" /\ Stays(NoRun) = {}
  BY DEF Runs, NoRun, Stays

LEMMA StartStep == ASSUME IInv, StartRun PROVE IInv'
<1>1. /\ run' = [NoRun EXCEPT !.pc = "between", !.todo = Due]
      /\ run = NoRun
      /\ UNCHANGED <<outside, rows, call, page, troubles, reported>>
  BY DEF StartRun
<1>2. Due \in SUBSET Issues
  BY DEF Due, IInv, TypeOK
<1>3. run' \in Runs /\ Stays(run') = Stays(run) /\ run'.pc = "between"
  BY <1>1, <1>2, NoRunType DEF Runs, Stays
<1>4. TypeOK'
  BY <1>1, <1>3 DEF IInv, TypeOK, Runs, outside, rows
<1>5. Bounds' /\ SoundTables' /\ Kept'
  BY <1>1, <1>3, NoRows DEF IInv, Bounds, outside
<1>6. QED
  BY <1>4, <1>5 DEF IInv

LEMMA TroubleType ==
  ASSUME IInv, NEW happens \in BOOLEAN, Trouble(happens)
  PROVE  troubles' \in 0..MaxTroubles
  BY DetailsAssumption DEF Trouble, IInv, TypeOK

LEMMA AskStep == ASSUME IInv, NEW i \in Issues, Ask(i) PROVE IInv'
<1>1. PICK answer \in Answer(i) :
        /\ Trouble(answer = Failed)
        /\ run' = [run EXCEPT !.pc = "asking", !.todo = run.todo \ {i}, !.issue = i, !.answer = answer]
  BY DEF Ask
<1>2. UNCHANGED <<outside, rows, call, page, reported>>
  BY DEF Ask
<1>3. answer \in Dates \cup {Failed}
  BY DEF Answer, IInv, TypeOK
<1>4. run \in Runs
  BY DEF IInv, TypeOK, Runs
<1>5. run' \in Runs /\ Stays(run') = Stays(run) /\ run'.issue \in Issues
  BY <1>1, <1>3, <1>4 DEF Runs, Stays
<1>6. troubles' \in 0..MaxTroubles
  BY <1>1, TroubleType
<1>7. TypeOK'
  BY <1>2, <1>5, <1>6 DEF IInv, TypeOK, Runs, outside, rows
<1>8. Bounds' /\ SoundTables' /\ Kept'
  BY <1>2, <1>5, NoRows DEF IInv, Bounds, outside
<1>9. QED
  BY <1>7, <1>8 DEF IInv

LEMMA RunStoresStep == ASSUME IInv, RunStores PROVE IInv'
<1> DEFINE i == run.issue
           row == IF run.answer > 0 THEN WithDetail(i, run.answer)
                  ELSE IF run.answer = Gone THEN Marked(shown[i]) ELSE shown[i]
           new == [shown EXCEPT ![i] = row]
           found == IF run.answer > 0 THEN {i} ELSE {}
<1>1. run.pc = "asking" /\ run \in Runs /\ i \in Issues
  BY DEF RunStores, IInv, TypeOK, Runs, Bounds
<1>2. shown' = new /\ saved' = saved
  BY DEF RunStores, Write
<1>3. run' = [run EXCEPT !.pc = "between", !.issue = 0, !.answer = Failed,
                      !.updated = run.updated \cup found,
                      !.lost = run.lost \cup (found \cap Barred)]
  BY DEF RunStores
<1>4. UNCHANGED <<outside, call, page, troubles, reported>>
  BY DEF RunStores
<1>5. run' \in Runs /\ Stays(run') \subseteq Stays(run) \cup (found \ Barred) /\ run'.pc = "between"
  BY <1>1, <1>3 DEF Runs, Stays
<1>6. Keeps(shown[i], row) /\ (run.answer > 0 /\ i \notin Barred => row.detail > 0)
  <2>1. CASE run.answer > 0
    <3>1. run.answer \in Dates
      BY <1>1, <2>1 DEF Runs, Failed
    <3>2. QED
      BY <2>1, <3>1, WithDetailKeeps
  <2>2. CASE ~(run.answer > 0)
    BY <2>2, MarkedKeeps DEF Keeps
  <2>3. QED
    BY <2>1, <2>2
<1> HIDE DEF row
<1>7. new \in [Issues -> Rows] /\ \A j \in Issues : Keeps(shown[j], new[j])
  BY <1>6, RowStep
<1>8. new[i] = row
  BY <1>1 DEF IInv, TypeOK
<1> HIDE DEF new, i
<1>9. /\ shown' \in [Issues -> Rows] /\ saved' \in [Issues -> Rows]
      /\ SoundTables'
      /\ \A j \in Issues : shown[j].detail > 0 => shown'[j].detail > 0
  BY <1>2, <1>7, TablesStep
<1>10. Kept'
  <2>1. \A j \in reported : shown'[j].detail > 0 /\ saved'[j].detail > 0
    BY <1>2, <1>9 DEF IInv, TypeOK, Kept
  <2>2. \A j \in Stays(run) : shown'[j].detail > 0
    BY <1>1, <1>9 DEF IInv, Kept, Runs, Stays
  <2>3. \A j \in found \ Barred : shown'[j].detail > 0
    BY <1>2, <1>6, <1>8
  <2>4. QED
    BY <1>4, <1>5, <2>1, <2>2, <2>3 DEF Kept
<1>11. Bounds'
  BY <1>4, <1>5 DEF IInv, Bounds, outside
<1>12. TypeOK'
  BY <1>4, <1>5, <1>9 DEF IInv, TypeOK, Runs, outside
<1>13. QED
  BY <1>9, <1>10, <1>11, <1>12 DEF IInv

LEMMA FinishStep ==
  ASSUME IInv, Finish(shown), Report, troubles' \in 0..MaxTroubles,
         UNCHANGED <<outside, call, page>>
  PROVE  IInv'
<1>1. shown' = shown /\ saved' = shown /\ run' = NoRun /\ reported' = reported \cup Stays(run)
  BY DEF Finish, Commit, Report
<1>2. TypeOK'
  BY <1>1, NoRunType DEF IInv, TypeOK, Runs, outside, Stays
<1>3. Bounds'
  BY <1>1, NoRunType DEF IInv, Bounds, outside
<1>4. SoundTables'
  BY <1>1 DEF IInv, SoundTables
<1>5. Kept'
  BY <1>1, NoRunType DEF IInv, Kept
<1>6. QED
  BY <1>2, <1>3, <1>4, <1>5 DEF IInv

LEMMA EndStep == ASSUME IInv, EndRun PROVE IInv'
  BY FinishStep DEF EndRun, IInv, TypeOK

LEMMA RefusedStep == ASSUME IInv, Refused PROVE IInv'
<1>1. troubles' \in 0..MaxTroubles
  BY TroubleType DEF Refused
<1>2. QED
  BY <1>1, FinishStep DEF Refused

LEMMA CancelStep == ASSUME IInv, CancelRun PROVE IInv'
<1>1. troubles' \in 0..MaxTroubles
  BY TroubleType DEF CancelRun
<1>2. run' = NoRun /\ UNCHANGED <<outside, rows, call, page, reported>>
  BY DEF CancelRun
<1>3. TypeOK'
  BY <1>1, <1>2, NoRunType DEF IInv, TypeOK, Runs, outside, rows
<1>4. Bounds' /\ SoundTables' /\ Kept'
  BY <1>2, NoRunType DEF IInv, Bounds, SoundTables, Kept, outside, rows
<1>5. QED
  BY <1>3, <1>4 DEF IInv

\* Rows that are deleted take with them what runs stored in them.
LEMMA DeleteStep ==
  ASSUME IInv, NEW gone \in SUBSET Issues,
         Commit([i \in Issues |-> IF i \in gone THEN NoRow ELSE shown[i]]), Delete(gone)
  PROVE  IInv'
<1> DEFINE new == [i \in Issues |-> IF i \in gone THEN NoRow ELSE shown[i]]
<1>1. /\ shown' = new /\ saved' = new
      /\ reported' = reported \ gone
      /\ run' = [run EXCEPT !.lost = run.lost \cup (run.updated \cap gone)]
      /\ UNCHANGED <<outside, call, page, troubles>>
  BY DEF Delete, Commit
<1>2. \A i \in Issues : Sound(new[i]) /\ (i \notin gone => new[i] = shown[i])
  BY NoRowSound DEF IInv, SoundTables
<1>3. new \in [Issues -> Rows]
  BY <1>2 DEF Sound
<1> HIDE DEF new
<1>4. run \in Runs
  BY DEF IInv, TypeOK, Runs
<1>5. run' \in Runs /\ Stays(run') = Stays(run) \ gone /\ run'.pc = run.pc /\ run'.issue = run.issue
  BY <1>1, <1>4 DEF Runs, Stays
<1>6. TypeOK'
  BY <1>1, <1>3, <1>5 DEF IInv, TypeOK, Runs, outside
<1>7. Bounds'
  BY <1>1, <1>5 DEF IInv, Bounds, outside
<1>8. SoundTables'
  BY <1>1, <1>2 DEF SoundTables
<1>9. Kept'
  <2>1. \A i \in reported' : shown'[i].detail > 0 /\ saved'[i].detail > 0
    BY <1>1, <1>2 DEF IInv, TypeOK, Kept
  <2>2. \A i \in Stays(run') : shown'[i].detail > 0
    BY <1>1, <1>2, <1>4, <1>5 DEF IInv, Kept, Runs, Stays
  <2>3. QED
    BY <2>1, <2>2 DEF Kept
<1>10. QED
  BY <1>6, <1>7, <1>8, <1>9 DEF IInv

LEMMA EvictStep == ASSUME IInv, Evict PROVE IInv'
<1>1. Stale \in SUBSET Issues
  BY DetailsAssumption DEF Stale
<1>2. QED
  BY <1>1, DeleteStep DEF Evict

LEMMA PurgeStep == ASSUME IInv, Purge PROVE IInv'
<1>1. \E batch \in SUBSET Issues :
        /\ Commit([i \in Issues |-> IF i \in batch THEN NoRow ELSE shown[i]])
        /\ Delete(batch)
  BY DEF Purge, IInv, TypeOK
<1>2. QED
  BY <1>1, DeleteStep

LEMMA EditListsStep == ASSUME IInv, EditLists PROVE IInv'
<1>1. /\ shown' = shown /\ saved' = shown /\ edits' = edits + 1 /\ edits < MaxEdits
      /\ UNCHANGED <<upstream, call, page, run, troubles, reported>>
  BY DEF EditLists, Commit
<1>2. blocked' \subseteq Issues /\ scope' \subseteq Issues
  BY DetailsAssumption DEF EditLists
<1>3. edits' \in 0..MaxEdits /\ Bounds'
  BY <1>1, DetailsAssumption DEF IInv, TypeOK, Bounds, Dates
<1>4. TypeOK'
  BY <1>1, <1>2, <1>3 DEF IInv, TypeOK
<1>5. SoundTables' /\ Kept'
  BY <1>1 DEF IInv, SoundTables, Kept
<1>6. QED
  BY <1>3, <1>4, <1>5 DEF IInv

LEMMA EditListsFailsStep == ASSUME IInv, EditListsFails PROVE IInv'
<1>1. /\ shown' = saved /\ saved' = saved
      /\ run' = [run EXCEPT !.lost = run.lost \cup {i \in run.updated : shown[i] # saved[i]}]
      /\ UNCHANGED <<outside, call, page, reported>>
  BY DEF EditListsFails
<1>2. troubles' \in 0..MaxTroubles
  BY TroubleType DEF EditListsFails
<1>3. run \in Runs
  BY DEF IInv, TypeOK, Runs
<1>4. /\ run' \in Runs /\ run'.pc = run.pc /\ run'.issue = run.issue
      /\ Stays(run') = {i \in Stays(run) : shown[i] = saved[i]}
  BY <1>1, <1>3 DEF Runs, Stays
<1>5. TypeOK'
  BY <1>1, <1>2, <1>4 DEF IInv, TypeOK, Runs, outside
<1>6. Bounds' /\ SoundTables'
  BY <1>1, <1>4 DEF IInv, Bounds, SoundTables, outside
<1>7. Kept'
  BY <1>1, <1>4 DEF IInv, Kept
<1>8. QED
  BY <1>5, <1>6, <1>7 DEF IInv

\* Forgetting the last access changes nothing else of a row.
LEMMA ForgottenRow ==
  ASSUME NEW row, Sound(row)
  PROVE  Sound(Forgotten(row)) /\ Forgotten(row).detail = row.detail
<1>1. CASE row.used
  <2>1. row \in [list : Dates, detail : Dates, fresh : BOOLEAN, missing : BOOLEAN, used : BOOLEAN]
    BY <1>1 DEF Sound, Rows, NoRow, Bare
  <2>2. QED
    BY <1>1, <2>1 DEF Sound, Rows, Forgotten
<1>2. CASE ~row.used
  BY <1>2 DEF Forgotten
<1>3. QED
  BY <1>1, <1>2

LEMMA DaysStep == ASSUME IInv, DaysPass PROVE IInv'
<1>1. /\ shown' = [i \in Issues |-> Forgotten(shown[i])]
      /\ saved' = [i \in Issues |-> Forgotten(saved[i])]
      /\ UNCHANGED <<outside, call, page, run, troubles, reported>>
  BY DEF DaysPass
<1>2. \A i \in Issues : /\ Sound(Forgotten(shown[i]))
                        /\ Sound(Forgotten(saved[i]))
                        /\ Forgotten(shown[i]).detail = shown[i].detail
                        /\ Forgotten(saved[i]).detail = saved[i].detail
  BY ForgottenRow DEF IInv, SoundTables
<1>3. \A i \in Issues : /\ Sound(shown'[i]) /\ Sound(saved'[i])
                        /\ shown'[i].detail = shown[i].detail /\ saved'[i].detail = saved[i].detail
  BY <1>1, <1>2
<1>4. shown' \in [Issues -> Rows] /\ saved' \in [Issues -> Rows]
  BY <1>1, <1>2 DEF Sound
<1>5. TypeOK'
  BY <1>1, <1>4 DEF IInv, TypeOK, outside
<1>6. Bounds' /\ SoundTables'
  BY <1>1, <1>3 DEF IInv, Bounds, SoundTables, outside
<1>7. Kept'
  BY <1>1, <1>3 DEF IInv, TypeOK, Kept, Stays
<1>8. QED
  BY <1>5, <1>6, <1>7 DEF IInv

LEMMA RestartStep == ASSUME IInv, Restart PROVE IInv'
<1>1. troubles' \in 0..MaxTroubles
  BY TroubleType DEF Restart
<1>2. /\ shown' = saved /\ saved' = saved /\ run' = NoRun /\ page' = NoPage
      /\ call' = [c \in Clients |-> Idle]
      /\ UNCHANGED <<outside, reported>>
  BY DEF Restart
<1>3. page' \in [Issues -> Dates]
  BY <1>2, DetailsAssumption DEF NoPage, Gone, Dates
<1>4. call' \in [Clients -> Calls]
  BY <1>2 DEF Idle, Asking, Calls
<1>5. TypeOK'
  BY <1>1, <1>2, <1>3, <1>4, NoRunType DEF IInv, TypeOK, Runs, Calls, outside
<1>6. Bounds' /\ SoundTables' /\ Kept'
  BY <1>2, NoRunType DEF IInv, Bounds, SoundTables, Kept, outside
<1>7. QED
  BY <1>5, <1>6 DEF IInv

LEMMA IInvStep == IInv /\ [Next]_vars => IInv'
<1> SUFFICES ASSUME IInv, [Next]_vars PROVE IInv'
  OBVIOUS
<1>1. CASE UNCHANGED vars
  <2>1. TypeOK'
    BY <1>1 DEF vars, outside, rows, IInv, TypeOK
  <2>2. Bounds' /\ SoundTables' /\ Kept'
    BY <1>1 DEF vars, outside, rows, IInv, Bounds, SoundTables, Kept
  <2>3. QED
    BY <2>1, <2>2 DEF IInv
<1>2. ASSUME ListSome \/ ListMissing PROVE IInv'
  <2>1. \E wanted \in SUBSET Issues : Listed(wanted)
    BY <1>2 DEF ListSome, ListMissing, IInv, TypeOK
  <2>2. QED
    BY <2>1, ListedStep
<1>3. QED
  BY <1>1, <1>2, EditStep, AskStep, RequestStep, ArrivesStep, PageStep, StartStep, RunStoresStep,
     EndStep, RefusedStep, CancelStep, EvictStep, PurgeStep, DaysStep, RestartStep,
     EditListsStep, EditListsFailsStep DEF Next

-----------------------------------------------------------------------------
(* What it means *)

LEMMA Meaning == IInv => TypeOK /\ FreshIsWhole /\ UpdatesSurvive
  BY DEF IInv, SoundTables, Sound, Kept, FreshIsWhole, UpdatesSurvive

\* The values of the tables, the requests and the run stay in their types.
THEOREM TypeCorrect == Spec => []TypeOK
  BY IInvInit, IInvStep, Meaning, PTL DEF Spec

\* Credits of an older edit never pass for those of the row's date (db.py:1918-1920).
THEOREM FreshDetails == Spec => []FreshIsWhole
  BY IInvInit, IInvStep, Meaning, PTL DEF Spec

\* What a finished backfill run has counted as updated is in the file, whatever crashed
\* since, until it is deleted, unless upsert_issue left it out or a failed list edit
\* rolled it back before the commit (scheduler.py:758, 783, 788).
THEOREM UpdatesAreSaved == Spec => []UpdatesSurvive
  BY IInvInit, IInvStep, Meaning, PTL DEF Spec

-----------------------------------------------------------------------------
(***************************************************************************)
(* Lists of a volume's issues, for every number of clients, issues, pages, *)
(* edits and troubles.                                                     *)
(***************************************************************************)

-----------------------------------------------------------------------------
(* Pages of a list, and the queue for its lock *)

LEMMA SmallerOfTwo ==
  ASSUME NEW a \in Nat, NEW b \in Nat
  PROVE  Min({a, b}) = IF a <= b THEN a ELSE b
<1>1. \A x \in {a, b} : (\A y \in {a, b} : x <= y) <=> x = IF a <= b THEN a ELSE b
  OBVIOUS
<1>2. QED
  BY <1>1 DEF Min

\* A page has what is between its offset and the next one; without a page the list ends.
LEMMA PageOfList ==
  ASSUME listing \in Seq(VolumeIssues), NEW offset \in Nat
  PROVE  /\ PageAt(offset) \in Seq(VolumeIssues)
         /\ \A i \in 1..Len(listing) :
              i <= offset + Len(PageAt(offset)) => i <= offset \/ listing[i] \in Range(PageAt(offset))
         /\ PageAt(offset) = <<>> => Len(listing) <= offset
<1> DEFINE last == IF Len(listing) <= offset + ListPageSize THEN Len(listing) ELSE offset + ListPageSize
<1>1. ListPageSize \in Nat /\ ListPageSize > 0 /\ offset + ListPageSize \in Nat /\ Len(listing) \in Nat
  BY VolumeAssumption
<1>2. Min({Len(listing), offset + ListPageSize}) = last
  BY <1>1, SmallerOfTwo
<1>3. PageAt(offset) = SubSeq(listing, offset + 1, last)
  BY <1>2 DEF PageAt
<1>4. last \in Nat /\ last <= Len(listing)
  BY <1>1
<1> HIDE DEF last
<1>5. /\ PageAt(offset) \in Seq(VolumeIssues)
      /\ Len(PageAt(offset)) = IF offset + 1 <= last THEN last - offset ELSE 0
      /\ \A k \in 1..(last - offset) : PageAt(offset)[k] = listing[offset + k]
  BY <1>3, <1>4
<1>6. ASSUME NEW i \in 1..Len(listing), i <= offset + Len(PageAt(offset)), i > offset
      PROVE  listing[i] \in Range(PageAt(offset))
  <2>1. i - offset \in 1..(last - offset) /\ i - offset \in 1..Len(PageAt(offset))
    BY <1>4, <1>5, <1>6
  <2>2. PageAt(offset)[i - offset] = listing[i]
    BY <1>5, <2>1
  <2>3. DOMAIN PageAt(offset) = 1..Len(PageAt(offset))
    BY <1>5
  <2>4. QED
    BY <2>1, <2>2, <2>3 DEF Range
<1>7. ASSUME PageAt(offset) = <<>> PROVE Len(listing) <= offset
  BY <1>1, <1>4, <1>5, <1>7 DEF last
<1>8. QED
  BY <1>1, <1>5, <1>6, <1>7

OneOf(queue, S) ==
  /\ queue \in Seq(S)
  /\ \A i, j \in 1..Len(queue) : queue[i] = queue[j] => i = j

\* Who gives up waiting leaves the others in their order.
Left(queue, S, r, rest) ==
  /\ OneOf(rest, S)
  /\ \A x \in S : (\E i \in 1..Len(rest) : rest[i] = x) <=>
                  x # r /\ \E i \in 1..Len(queue) : queue[i] = x
  /\ queue # <<>> /\ queue[1] # r => rest # <<>> /\ rest[1] = queue[1]

LEMMA Leaving ==
  ASSUME NEW S, NEW queue, OneOf(queue, S), NEW r \in S
  PROVE  Left(queue, S, r, RemoveFirst(queue, r))
<1> DEFINE rest == RemoveFirst(queue, r)
<1>1. CASE ~\E i \in 1..Len(queue) : queue[i] = r
  <2>1. rest = queue
    BY <1>1 DEF RemoveFirst
  <2>2. QED
    BY <1>1, <2>1 DEF OneOf, Left
<1>2. CASE \E i \in 1..Len(queue) : queue[i] = r
  <2>1. PICK k \in 1..Len(queue) : queue[k] = r
    BY <1>2
  <2>2. {i \in 1..Len(queue) : queue[i] = r} = {k}
    BY <2>1 DEF OneOf
  <2>3. Min({k}) = k
    BY DEF Min
  <2>4. rest = RemoveAt(queue, k)
    BY <1>2, <2>2, <2>3 DEF RemoveFirst, SelectInSeq
  <2>5. rest = SubSeq(queue, 1, k - 1) \o SubSeq(queue, k + 1, Len(queue))
    BY <2>4 DEF RemoveAt
  <2> HIDE DEF rest
  <2>6. /\ rest \in Seq(S) /\ Len(rest) = Len(queue) - 1
        /\ \A i \in 1..Len(rest) : rest[i] = IF i < k THEN queue[i] ELSE queue[i + 1]
    <3> DEFINE front == SubSeq(queue, 1, k - 1)
               back == SubSeq(queue, k + 1, Len(queue))
    <3>1. queue \in Seq(S) /\ Len(queue) \in Nat
      BY DEF OneOf
    <3>2. /\ front \in Seq(S) /\ Len(front) = k - 1
          /\ \A i \in 1..(k - 1) : front[i] = queue[i]
      BY <2>1, <3>1
    <3>3. /\ back \in Seq(S) /\ Len(back) = Len(queue) - k
          /\ \A i \in 1..(Len(queue) - k) : back[i] = queue[k + i]
      BY <2>1, <3>1
    <3> HIDE DEF front, back
    <3>4. rest = front \o back
      BY <2>5 DEF front, back
    <3>5. /\ rest \in Seq(S) /\ Len(rest) = Len(queue) - 1
          /\ \A i \in 1..Len(rest) : rest[i] = IF i <= k - 1 THEN front[i] ELSE back[i - (k - 1)]
      <4>1. /\ front \o back \in Seq(S)
            /\ Len(front \o back) = Len(front) + Len(back)
            /\ \A i \in 1..(Len(front) + Len(back)) :
                 (front \o back)[i] = IF i <= Len(front) THEN front[i] ELSE back[i - Len(front)]
        BY <3>2, <3>3, ConcatProperties
      <4>2. Len(front) + Len(back) = Len(queue) - 1
        BY <3>1, <3>2, <3>3
      <4>3. QED
        BY <3>2, <3>4, <4>1, <4>2
    <3>6. ASSUME NEW i \in 1..Len(rest), i < k PROVE rest[i] = queue[i]
      BY <3>1, <3>2, <3>5, <3>6
    <3>7. ASSUME NEW i \in 1..Len(rest), i >= k PROVE rest[i] = queue[i + 1]
      <4>1. rest[i] = back[i - (k - 1)]
        <5>1. ~(i <= k - 1)
          BY <3>1, <3>5, <3>7
        <5>2. QED
          BY <3>5, <5>1, Zenon
      <4>2. i - (k - 1) \in 1..(Len(queue) - k)
        BY <3>1, <3>5, <3>7
      <4>3. k + (i - (k - 1)) = i + 1
        BY <3>1, <3>7
      <4>4. QED
        BY <3>3, <4>1, <4>2, <4>3
    <3>8. QED
      BY <3>5, <3>6, <3>7, <3>1
  <2>7. OneOf(rest, S)
    <3>1. \A i, j \in 1..Len(queue) : queue[i] = queue[j] => i = j
      BY DEF OneOf
    <3>2. ASSUME NEW i \in 1..Len(rest), NEW j \in 1..Len(rest), rest[i] = rest[j]
          PROVE  i = j
      <4>1. CASE i < k /\ j < k
        BY <2>6, <3>1, <3>2, <4>1
      <4>2. CASE i < k /\ j >= k
        BY <2>6, <3>1, <3>2, <4>2
      <4>3. CASE i >= k /\ j < k
        BY <2>6, <3>1, <3>2, <4>3
      <4>4. CASE i >= k /\ j >= k
        BY <2>6, <3>1, <3>2, <4>4
      <4>5. QED
        BY <4>1, <4>2, <4>3, <4>4
    <3>3. QED
      BY <2>6, <3>2 DEF OneOf
  <2>8. ASSUME NEW i \in 1..Len(rest)
        PROVE  rest[i] # r /\ \E j \in 1..Len(queue) : queue[j] = rest[i]
    BY <2>1, <2>6 DEF OneOf
  <2>9. ASSUME NEW i \in 1..Len(queue), queue[i] # r
        PROVE  \E j \in 1..Len(rest) : rest[j] = queue[i]
    <3>1. CASE i < k
      BY <2>6, <3>1 DEF OneOf
    <3>2. CASE i > k
      <4>1. i - 1 \in 1..Len(rest) /\ rest[i - 1] = queue[i]
        BY <2>6, <3>2 DEF OneOf
      <4>2. QED
        BY <4>1
    <3>3. QED
      BY <2>1, <2>9, <3>1, <3>2 DEF OneOf
  <2>10. queue # <<>> /\ queue[1] # r => rest # <<>> /\ rest[1] = queue[1]
    BY <2>1, <2>6 DEF OneOf
  <2>11. QED
    <3>1. \A x \in S : (\E i \in 1..Len(rest) : rest[i] = x) <=>
                     x # r /\ \E i \in 1..Len(queue) : queue[i] = x
      BY <2>8, <2>9
    <3>2. QED
      BY <2>7, <2>10, <3>1 DEF Left, rest
<1>3. QED
  BY <1>1, <1>2

-----------------------------------------------------------------------------
(* The inductive invariant *)

Ats == {"idle", "waiting", "paging", "asking"}
Reads == [at : Ats, filter : Filters, served : BOOLEAN, offset : Nat, had : SUBSET VolumeIssues]

ListTyped ==
  /\ listing \in Seq(VolumeIssues)
  /\ task \in [Readers -> Reads]
  /\ OneOf(lock, Readers)

\* Who refreshes stands in the queue, and only the first of it reads the list, never
\* while the mark lasts.
InLine ==
  /\ \A r \in Readers :
       task[r].at \in {"waiting", "paging"} <=> \E i \in 1..Len(lock) : lock[i] = r
  /\ \A r \in Readers : task[r].at = "paging" => lock[1] = r /\ ~synced

\* What a reader has seen of the list, if that did not change since, is stored.
SeenIsStored ==
  \A r \in Readers :
    /\ task[r].had \subseteq Range(listing)
    /\ \A i \in 1..Len(listing) : listing[i] \in task[r].had => i > task[r].offset \/ listing[i] \in stored

ListInv == ListTyped /\ InLine /\ SeenIsStored /\ SyncedIsWhole

LEMMA IdleTyped == NoTask \in Reads /\ NoTask.at = "idle" /\ NoTask.had = {}
BY DEF NoTask, Reads, Ats, Filters

LEMMA ListInvInit ==
  ASSUME ListInit PROVE ListInv
<1>1. ListTyped
  BY IdleTyped, VolumeAssumption DEF ListInit, ListTyped, OneOf
<1>2. InLine
  BY DEF ListInit, InLine, NoTask
<1>3. SeenIsStored
  BY DEF ListInit, SeenIsStored, NoTask
<1>4. SyncedIsWhole
  BY DEF ListInit, SyncedIsWhole
<1>5. QED
  BY <1>1, <1>2, <1>3, <1>4 DEF ListInv

\* The list changes, which nobody who reads it holds on to.
LEMMA ListEdits ==
  ASSUME ListInv, NEW list \in Edits, EditList(list) PROVE ListInv'
<1>1. list \in Seq(VolumeIssues)
  <2>1. CASE \E k \in 1..(Len(listing) + 1), i \in VolumeIssues \ Range(listing) : list = InsertAt(listing, k, i)
    <3>1. PICK k \in 1..(Len(listing) + 1), i \in VolumeIssues \ Range(listing) :
            list = SubSeq(listing, 1, k - 1) \o <<i>> \o SubSeq(listing, k, Len(listing))
      BY <2>1 DEF InsertAt
    <3>2. SubSeq(listing, 1, k - 1) \in Seq(VolumeIssues) /\ SubSeq(listing, k, Len(listing)) \in Seq(VolumeIssues)
      BY DEF ListInv, ListTyped
    <3>3. <<i>> \in Seq(VolumeIssues)
      OBVIOUS
    <3>4. QED
      BY <3>1, <3>2, <3>3, ConcatProperties
  <2>2. CASE \E k \in 1..Len(listing) : list = RemoveAt(listing, k)
    <3>1. PICK k \in 1..Len(listing) :
            list = SubSeq(listing, 1, k - 1) \o SubSeq(listing, k + 1, Len(listing))
      BY <2>2 DEF RemoveAt
    <3>2. SubSeq(listing, 1, k - 1) \in Seq(VolumeIssues) /\ SubSeq(listing, k + 1, Len(listing)) \in Seq(VolumeIssues)
      BY DEF ListInv, ListTyped
    <3>3. QED
      BY <3>1, <3>2, ConcatProperties
  <2>3. QED
    BY <2>1, <2>2 DEF Edits
<1>2. \A r \in Readers : task'[r] = [task[r] EXCEPT !.had = {}]
  BY DEF EditList
<1>3. \A r \in Readers : task[r] \in Reads
  BY DEF ListInv, ListTyped
<1>4. \A r \in Readers : task'[r] \in Reads /\ task'[r].had = {} /\ task'[r].at = task[r].at
  BY <1>2, <1>3 DEF Reads
<1>5. ListTyped'
  BY <1>1, <1>4 DEF ListInv, ListTyped, EditList
<1>6. InLine'
  BY <1>4 DEF ListInv, InLine, EditList, listRows
<1>7. SeenIsStored'
  BY <1>4 DEF SeenIsStored
<1>8. SyncedIsWhole'
  BY DEF ListInv, SyncedIsWhole, EditList, listRows
<1>9. QED
  BY <1>5, <1>6, <1>7, <1>8 DEF ListInv

LEMMA OthersStore ==
  ASSUME ListInv, (\E i \in VolumeIssues : StoreIssue(i)) \/ StoreVolume \/ DayPasses PROVE ListInv'
<1>1. /\ UNCHANGED <<listing, lock, task>>
      /\ stored \subseteq stored'
      /\ synced' => synced
      /\ synced' => promised' = promised
  <2>1. CASE DayPasses
    <3>1. synced' = synced \/ synced' = FALSE
      BY <2>1 DEF DayPasses
    <3>2. synced' => promised' = promised
      BY <2>1, Zenon DEF DayPasses
    <3>3. QED
      BY <2>1, <3>1, <3>2 DEF DayPasses
  <2>2. CASE (\E i \in VolumeIssues : StoreIssue(i)) \/ StoreVolume
    BY <2>2 DEF StoreIssue, StoreVolume
  <2>3. QED
    BY <2>1, <2>2
<1>2. ListTyped' /\ InLine' /\ SeenIsStored' /\ SyncedIsWhole'
  BY <1>1 DEF ListInv, ListTyped, InLine, SeenIsStored, SyncedIsWhole
<1>3. QED
  BY <1>2 DEF ListInv

\* An evicted issue is not promised any longer, nor by who is still reading.
LEMMA IssuesEvicted ==
  ASSUME ListInv, NEW old \in SUBSET VolumeIssues, EvictIssues(old) PROVE ListInv'
<1>1. \A r \in Readers : task[r] \in Reads /\ task'[r] = [task[r] EXCEPT !.had = @ \ old]
  BY DEF ListInv, ListTyped, EvictIssues
<1>2. \A r \in Readers : /\ task'[r] \in Reads /\ task'[r].had = task[r].had \ old
                         /\ task'[r].at = task[r].at /\ task'[r].offset = task[r].offset
  <2> SUFFICES ASSUME NEW r \in Readers
               PROVE  /\ task'[r] \in Reads /\ task'[r].had = task[r].had \ old
                      /\ task'[r].at = task[r].at /\ task'[r].offset = task[r].offset
    OBVIOUS
  <2>1. task[r] \in Reads /\ task[r].had \ old \in SUBSET VolumeIssues
    BY <1>1 DEF Reads
  <2>2. task'[r] = [task[r] EXCEPT !.had = task[r].had \ old]
    BY <1>1, Zenon
  <2>3. QED
    BY <2>1, <2>2 DEF Reads
<1>3. ListTyped'
  BY <1>2 DEF ListInv, ListTyped, EvictIssues
<1>4. InLine'
  BY <1>2 DEF ListInv, InLine, EvictIssues
<1>5. SeenIsStored'
  BY <1>2 DEF ListInv, SeenIsStored, EvictIssues
<1>6. SyncedIsWhole'
  BY DEF ListInv, SyncedIsWhole, EvictIssues
<1>7. QED
  BY <1>3, <1>4, <1>5, <1>6 DEF ListInv

-----------------------------------------------------------------------------
(* The queue *)

\* Joining it at its end.
LEMMA Joins ==
  ASSUME ListInv, NEW r \in Readers, task[r] = NoTask,
         NEW read \in Reads, read.at = "waiting", read.had = {},
         task' = [task EXCEPT ![r] = read], lock' = Append(lock, r),
         UNCHANGED <<listing, listRows>>
  PROVE  ListInv'
<1>1. lock \in Seq(Readers) /\ Len(lock) \in Nat
  BY DEF ListInv, ListTyped, OneOf
<1>2. /\ lock' \in Seq(Readers) /\ Len(lock') = Len(lock) + 1 /\ lock'[Len(lock) + 1] = r
      /\ \A i \in 1..Len(lock) : lock'[i] = lock[i]
  BY <1>1
<1>3. ~\E i \in 1..Len(lock) : lock[i] = r
  BY DEF ListInv, InLine, NoTask
<1>4. OneOf(lock', Readers)
  BY <1>1, <1>2, <1>3 DEF ListInv, ListTyped, OneOf
<1>5. \A x \in Readers : (\E i \in 1..Len(lock') : lock'[i] = x) <=> x = r \/ \E i \in 1..Len(lock) : lock[i] = x
  BY <1>1, <1>2
<1>6. task' \in [Readers -> Reads] /\ \A x \in Readers : task'[x] = IF x = r THEN read ELSE task[x]
  BY DEF ListInv, ListTyped
<1>7. ListTyped'
  BY <1>4, <1>6 DEF ListInv, ListTyped
<1>8. InLine'
  <2>1. ASSUME NEW x \in Readers PROVE task'[x].at \in {"waiting", "paging"} <=> \E i \in 1..Len(lock') : lock'[i] = x
    BY <1>5, <1>6 DEF ListInv, InLine
  <2>2. ASSUME NEW x \in Readers, task'[x].at = "paging" PROVE lock'[1] = x /\ ~synced'
    <3>1. x # r /\ task[x].at = "paging"
      BY <1>6, <2>2
    <3>2. \E i \in 1..Len(lock) : lock[i] = x
      BY <3>1 DEF ListInv, InLine
    <3>3. 1 \in 1..Len(lock)
      BY <1>1, <3>2
    <3>4. QED
      BY <1>2, <3>1, <3>3 DEF ListInv, InLine, listRows
  <2>3. QED
    BY <2>1, <2>2 DEF InLine
<1>9. SeenIsStored' /\ SyncedIsWhole'
  BY <1>6 DEF ListInv, SeenIsStored, SyncedIsWhole, listRows
<1>10. QED
  BY <1>7, <1>8, <1>9 DEF ListInv

\* A reader that is not in the queue may ask, or stop asking.
LEMMA OutsideQueue ==
  ASSUME ListInv, NEW r \in Readers, task[r].at \notin {"waiting", "paging"},
         NEW read \in Reads, read.at \notin {"waiting", "paging"}, read.had = {},
         task' = [task EXCEPT ![r] = read],
         UNCHANGED <<listing, synced, promised, lock>>, stored \subseteq stored'
  PROVE  ListInv'
<1>1. task' \in [Readers -> Reads] /\ \A x \in Readers : task'[x] = IF x = r THEN read ELSE task[x]
  BY DEF ListInv, ListTyped
<1>2. ListTyped'
  BY <1>1 DEF ListInv, ListTyped
<1>3. InLine'
  BY <1>1 DEF ListInv, InLine
<1>4. SeenIsStored' /\ SyncedIsWhole'
  BY <1>1 DEF ListInv, SeenIsStored, SyncedIsWhole
<1>5. QED
  BY <1>2, <1>3, <1>4 DEF ListInv

\* Leaving it, or not having been in it.
LEMMA Leaves ==
  ASSUME ListInv, NEW r \in Readers,
         NEW read \in Reads, read.at \notin {"waiting", "paging"}, read.had = {},
         task' = [task EXCEPT ![r] = read],
         OneOf(lock', Readers),
         \A x \in Readers : (\E i \in 1..Len(lock') : lock'[i] = x) <=>
                            x # r /\ \E i \in 1..Len(lock) : lock[i] = x,
         \A x \in Readers : x # r /\ task[x].at = "paging" => lock'[1] = x /\ ~synced',
         listing' = listing, stored \subseteq stored', synced' => promised' \subseteq stored'
  PROVE  ListInv'
<1>1. task' \in [Readers -> Reads] /\ \A x \in Readers : task'[x] = IF x = r THEN read ELSE task[x]
  BY DEF ListInv, ListTyped
<1>2. ListTyped'
  BY <1>1 DEF ListInv, ListTyped
<1>3. InLine'
  BY <1>1 DEF ListInv, InLine
<1>4. SeenIsStored' /\ SyncedIsWhole'
  BY <1>1 DEF ListInv, SeenIsStored, SyncedIsWhole
<1>5. QED
  BY <1>2, <1>3, <1>4 DEF ListInv

\* The first of the queue ends its refresh; nobody else reads the list.
LEMMA RefreshDone ==
  ASSUME ListInv, NEW r \in Readers, task[r].at \in {"waiting", "paging"}, Head(lock) = r,
         NEW outcome, RefreshEnds(r, outcome),
         listing' = listing, stored \subseteq stored', synced' => promised' \subseteq stored'
  PROVE  ListInv'
<1>1. lock \in Seq(Readers) /\ lock # <<>> /\ lock[1] = r /\ Len(lock) \in Nat
  BY DEF ListInv, ListTyped, OneOf, InLine
<1>2. /\ lock' \in Seq(Readers) /\ Len(lock') = Len(lock) - 1
      /\ \A i \in 1..Len(lock') : lock'[i] = lock[i + 1]
  BY <1>1 DEF RefreshEnds, Released
<1>3. OneOf(lock', Readers)
  BY <1>1, <1>2 DEF ListInv, ListTyped, OneOf
<1>4. ASSUME NEW x \in Readers
      PROVE  (\E i \in 1..Len(lock') : lock'[i] = x) <=> x # r /\ \E i \in 1..Len(lock) : lock[i] = x
  <2>1. ASSUME NEW i \in 1..Len(lock') PROVE lock'[i] # r /\ \E j \in 1..Len(lock) : lock[j] = lock'[i]
    BY <1>1, <1>2 DEF ListInv, ListTyped, OneOf
  <2>2. ASSUME NEW i \in 1..Len(lock), lock[i] # r PROVE \E j \in 1..Len(lock') : lock'[j] = lock[i]
    <3>1. i - 1 \in 1..Len(lock') /\ (i - 1) + 1 = i
      BY <1>1, <1>2, <2>2
    <3>2. QED
      BY <1>2, <3>1
  <2>3. QED
    BY <2>1, <2>2
<1> DEFINE asks == /\ r # Worker /\ outcome = "skipped"
                   /\ ~task[r].served /\ task[r].filter \notin negative
           read == IF asks THEN AskItself(r) ELSE NoTask
<1>5. task' = [task EXCEPT ![r] = read] /\ read \in {AskItself(r), NoTask}
  BY DEF RefreshEnds
<1> HIDE DEF read
<1>6. AskItself(r) \in Reads /\ AskItself(r).at = "asking" /\ AskItself(r).had = {}
  BY DEF AskItself, ListInv, ListTyped, Reads, Ats
<1>7. read \in Reads /\ read.at \notin {"waiting", "paging"} /\ read.had = {}
  BY <1>5, <1>6, IdleTyped
<1>8. \A x \in Readers : task[x].at = "paging" => x = r
  BY <1>1 DEF ListInv, InLine
<1>9. QED
  BY <1>3, <1>4, <1>5, <1>7, <1>8, Leaves

\* The lock is gained, and the list shall be read.
LEMMA ReadingStarts ==
  ASSUME ListInv, NEW r \in Readers, task[r].at = "waiting", Head(lock) = r, ~Complete,
         task' = [task EXCEPT ![r].at = "paging"],
         UNCHANGED <<listing, listRows, lock>>
  PROVE  ListInv'
<1>1. task[r] \in Reads /\ lock \in Seq(Readers) /\ lock # <<>> /\ lock[1] = r
  BY DEF ListInv, ListTyped, OneOf, InLine
<1>2. /\ task' \in [Readers -> Reads]
      /\ task'[r].at = "paging" /\ task'[r].had = task[r].had /\ task'[r].offset = task[r].offset
      /\ \A x \in Readers \ {r} : task'[x] = task[x]
  BY <1>1 DEF ListInv, ListTyped, Reads, Ats
<1>3. ~synced
  BY DEF Complete
<1>4. ListTyped'
  BY <1>2 DEF ListInv, ListTyped
<1>5. InLine'
  BY <1>1, <1>2, <1>3 DEF ListInv, InLine, listRows
<1>6. SeenIsStored' /\ SyncedIsWhole'
  BY <1>2 DEF ListInv, SeenIsStored, SyncedIsWhole, listRows
<1>7. QED
  BY <1>4, <1>5, <1>6 DEF ListInv

-----------------------------------------------------------------------------
(* Pages *)

\* What ComicVine had at the first page and a reader has come past is stored, the page
\* that just arrived included.
LEMMA PageStores ==
  ASSUME ListInv, NEW r \in Readers, Insert(Range(PageAt(task[r].offset))),
         NEW had, had = IF task[r].offset = 0 THEN Range(listing) ELSE task[r].had,
         NEW offset, offset = task[r].offset + Len(PageAt(task[r].offset))
  PROVE  /\ offset \in Nat /\ had \subseteq Range(listing) /\ had \in SUBSET VolumeIssues
         /\ \A i \in 1..Len(listing) : listing[i] \in had => i > offset \/ listing[i] \in stored'
         /\ stored \subseteq stored'
         /\ PageAt(task[r].offset) = <<>> \/ LastPage(offset) => had \subseteq stored'
<1> DEFINE from == task[r].offset
           piece == PageAt(from)
<1>1. from \in Nat /\ task[r] \in Reads /\ listing \in Seq(VolumeIssues) /\ Len(listing) \in Nat
  BY DEF ListInv, ListTyped, Reads
<1>2. /\ piece \in Seq(VolumeIssues)
      /\ \A i \in 1..Len(listing) : i <= from + Len(piece) => i <= from \/ listing[i] \in Range(piece)
      /\ piece = <<>> => Len(listing) <= from
  BY <1>1, PageOfList
<1> HIDE DEF piece
<1>3. stored' = stored \cup Range(piece) /\ offset = from + Len(piece) /\ offset \in Nat
  BY <1>1, <1>2 DEF Insert, piece
<1>4. had \subseteq Range(listing)
  BY DEF ListInv, SeenIsStored
<1>5. Range(listing) = {listing[i] : i \in 1..Len(listing)} /\ Range(listing) \subseteq VolumeIssues
  BY <1>1 DEF Range
<1>6. ASSUME NEW i \in 1..Len(listing), listing[i] \in had, i <= offset PROVE listing[i] \in stored'
  <2>1. CASE i <= from
    <3>1. had = task[r].had
      BY <1>1, <2>1
    <3>2. QED
      BY <1>1, <1>3, <1>6, <2>1, <3>1 DEF ListInv, SeenIsStored
  <2>2. CASE listing[i] \in Range(piece)
    BY <1>3, <2>2
  <2>3. QED
    BY <1>2, <1>3, <1>6, <2>1, <2>2
<1>7. ASSUME piece = <<>> \/ LastPage(offset) PROVE had \subseteq stored'
  <2>1. Len(listing) <= offset
    <3>1. CASE piece = <<>>
      BY <1>1, <1>2, <1>3, <3>1
    <3>2. CASE LastPage(offset)
      BY <1>1, <1>3, <3>2 DEF LastPage
    <3>3. QED
      BY <1>7, <3>1, <3>2
  <2>2. ASSUME NEW x \in had PROVE x \in stored'
    <3>1. PICK i \in 1..Len(listing) : listing[i] = x
      BY <1>4, <1>5
    <3>2. i <= offset
      BY <1>1, <1>3, <2>1
    <3>3. QED
      BY <1>6, <3>1, <3>2
  <2>3. QED
    BY <2>2
<1>8. \A i \in 1..Len(listing) : listing[i] \in had => i > offset \/ listing[i] \in stored'
  BY <1>1, <1>3, <1>6
<1>9. QED
  BY <1>3, <1>4, <1>5, <1>7, <1>8 DEF piece

LEMMA PageArrives ==
  ASSUME ListInv, NEW r \in Readers, Page(r) PROVE ListInv'
<1> DEFINE piece == PageAt(task[r].offset)
           had == IF task[r].offset = 0 THEN Range(listing) ELSE task[r].had
           offset == task[r].offset + Len(piece)
<1>1. /\ task[r].at = "paging" /\ listing' = listing /\ Insert(Range(piece))
      /\ \/ RefreshEnds(r, "skipped") /\ UNCHANGED <<synced, promised>>
         \/ (piece = <<>> \/ LastPage(offset)) /\ MarkSynced(r, had) /\ RefreshEnds(r, "complete")
         \/ /\ task' = [task EXCEPT ![r].offset = offset, ![r].had = had]
            /\ UNCHANGED <<synced, promised, entries, lock>>
  BY DEF Page
<1>2. /\ offset \in Nat /\ had \subseteq Range(listing) /\ had \in SUBSET VolumeIssues
      /\ \A i \in 1..Len(listing) : listing[i] \in had => i > offset \/ listing[i] \in stored'
      /\ stored \subseteq stored'
      /\ piece = <<>> \/ LastPage(offset) => had \subseteq stored'
  BY <1>1, PageStores
<1> HIDE DEF piece, had, offset
<1>3. Head(lock) = r /\ ~synced /\ lock[1] = r
  BY <1>1 DEF ListInv, ListTyped, OneOf, InLine
<1>4. CASE RefreshEnds(r, "skipped") /\ UNCHANGED <<synced, promised>>
  BY <1>1, <1>2, <1>3, <1>4, RefreshDone
<1>5. CASE (piece = <<>> \/ LastPage(offset)) /\ MarkSynced(r, had) /\ RefreshEnds(r, "complete")
  <2>1. promised' = had /\ had \subseteq stored'
    BY <1>2, <1>5 DEF MarkSynced
  <2>2. QED
    BY <1>1, <1>2, <1>3, <1>5, <2>1, RefreshDone
<1>6. CASE /\ task' = [task EXCEPT ![r].offset = offset, ![r].had = had]
           /\ UNCHANGED <<synced, promised, entries, lock>>
  <2>1. task[r] \in Reads
    BY DEF ListInv, ListTyped
  <2>2. /\ task' \in [Readers -> Reads]
        /\ task'[r].at = "paging" /\ task'[r].had = had /\ task'[r].offset = offset
        /\ \A x \in Readers \ {r} : task'[x] = task[x]
    BY <1>1, <1>2, <1>6, <2>1 DEF ListInv, ListTyped, Reads, Ats
  <2>3. ListTyped'
    BY <1>1, <1>6, <2>2 DEF ListInv, ListTyped
  <2>4. InLine'
    BY <1>1, <1>3, <1>6, <2>2 DEF ListInv, InLine
  <2>5. SeenIsStored' /\ SyncedIsWhole'
    BY <1>1, <1>2, <1>6, <2>2 DEF ListInv, SeenIsStored, SyncedIsWhole
  <2>6. QED
    BY <2>3, <2>4, <2>5 DEF ListInv
<1>7. QED
  BY <1>1, <1>4, <1>5, <1>6

-----------------------------------------------------------------------------
(* Every step *)

LEMMA Requests ==
  ASSUME ListInv, \/ \E c \in ListClients, f \in Filters, noCache \in BOOLEAN : Lookup(c, f, noCache)
                  \/ \E what \in Filters \cup {Refresh} : Fetch(what)
  PROVE  ListInv'
<1>1. ASSUME NEW c \in ListClients, NEW f \in Filters, NEW noCache \in BOOLEAN, Lookup(c, f, noCache)
      PROVE  ListInv'
  <2>1. c \in Readers /\ task[c] = NoTask /\ task[c].at = "idle"
    BY <1>1, IdleTyped DEF Lookup, Readers
  <2>2. CASE noCache
    <3> DEFINE read == [NoTask EXCEPT !.at = "asking", !.filter = f]
    <3>1. read \in Reads /\ read.at = "asking" /\ read.had = {}
      BY IdleTyped DEF Reads, Ats, NoTask
    <3>2. task' = [task EXCEPT ![c] = read] /\ UNCHANGED <<listing, listRows, lock>>
      BY <1>1, <2>2 DEF Lookup
    <3> HIDE DEF read
    <3>3. QED
      BY <2>1, <3>1, <3>2, OutsideQueue DEF listRows
  <2>3. CASE ~noCache
    <3> DEFINE read == [NoTask EXCEPT !.at = "waiting", !.filter = f, !.served = f = Whole /\ stored # {}]
    <3>1. (f = Whole /\ stored # {}) \in BOOLEAN
      OBVIOUS
    <3>2. read \in Reads /\ read.at = "waiting" /\ read.had = {}
      BY IdleTyped, <3>1 DEF Reads, Ats, NoTask
    <3>3. task' = [task EXCEPT ![c] = read] /\ lock' = Append(lock, c) /\ UNCHANGED <<listing, listRows>>
      BY <1>1, <2>3 DEF Lookup
    <3> HIDE DEF read
    <3>4. QED
      BY <2>1, <3>2, <3>3, Joins
  <2>4. QED
    BY <2>2, <2>3
<1>2. ASSUME NEW what \in Filters \cup {Refresh}, Fetch(what)
      PROVE  ListInv'
  <2>1. Worker \in Readers /\ task[Worker] = NoTask /\ task[Worker].at = "idle"
    BY <1>2, IdleTyped DEF Fetch, Readers
  <2>2. CASE what = Refresh
    <3> DEFINE read == [NoTask EXCEPT !.at = "waiting"]
    <3>1. read \in Reads /\ read.at = "waiting" /\ read.had = {}
      BY IdleTyped DEF Reads, Ats, NoTask
    <3>2. task' = [task EXCEPT ![Worker] = read] /\ lock' = Append(lock, Worker) /\ UNCHANGED <<listing, listRows>>
      BY <1>2, <2>2 DEF Fetch
    <3> HIDE DEF read
    <3>3. QED
      BY <2>1, <3>1, <3>2, Joins
  <2>3. CASE what # Refresh
    <3> DEFINE read == [NoTask EXCEPT !.at = "asking", !.filter = what]
    <3>1. read \in Reads /\ read.at = "asking" /\ read.had = {}
      BY <1>2, <2>3, IdleTyped DEF Reads, Ats, NoTask
    <3>2. task' = [task EXCEPT ![Worker] = read] /\ UNCHANGED <<listing, listRows, lock>>
      BY <1>2, <2>3 DEF Fetch
    <3> HIDE DEF read
    <3>3. QED
      BY <2>1, <3>1, <3>2, OutsideQueue DEF listRows
  <2>4. QED
    BY <2>2, <2>3
<1>3. QED
  BY <1>1, <1>2

LEMMA LockIsGained ==
  ASSUME ListInv, NEW r \in Readers, LockGained(r) PROVE ListInv'
<1>1. /\ task[r].at = "waiting" /\ Head(lock) = r /\ UNCHANGED <<listing, listRows>>
      /\ \/ RefreshEnds(r, "complete") \/ RefreshEnds(r, "skipped")
         \/ ~Complete /\ task' = [task EXCEPT ![r].at = "paging"] /\ UNCHANGED <<entries, lock>>
  BY DEF LockGained, FetchedMeanwhile
<1>2. stored' = stored /\ (synced' => promised' \subseteq stored')
  BY <1>1 DEF ListInv, SyncedIsWhole, listRows
<1>3. CASE RefreshEnds(r, "complete") \/ RefreshEnds(r, "skipped")
  BY <1>1, <1>2, <1>3, RefreshDone
<1>4. CASE ~Complete /\ task' = [task EXCEPT ![r].at = "paging"] /\ UNCHANGED <<entries, lock>>
  BY <1>1, <1>4, ReadingStarts
<1>5. QED
  BY <1>1, <1>3, <1>4

LEMMA RefreshStops ==
  ASSUME ListInv, NEW r \in Readers, NEW outcome, PageFails(r, outcome) PROVE ListInv'
<1>1. /\ task[r].at = "paging" /\ RefreshEnds(r, outcome) /\ UNCHANGED <<listing, listRows>>
  BY DEF PageFails
<1>2. Head(lock) = r
  BY <1>1 DEF ListInv, ListTyped, OneOf, InLine
<1>3. stored' = stored /\ (synced' => promised' \subseteq stored')
  BY <1>1 DEF ListInv, SyncedIsWhole, listRows
<1>4. QED
  BY <1>1, <1>2, <1>3, RefreshDone

LEMMA LookupEnds ==
  ASSUME ListInv, NEW r \in Readers, Answered(r) \/ \E outcome \in Failures : AskFails(r, outcome)
  PROVE  ListInv'
<1>1. /\ task[r].at = "asking" /\ task' = [task EXCEPT ![r] = NoTask]
      /\ stored \subseteq stored' /\ UNCHANGED <<listing, synced, promised, lock>>
  BY DEF Answered, AskFails, AskEnds, Insert, listRows
<1>2. QED
  BY <1>1, IdleTyped, OutsideQueue

\* Cancelled, at whatever it did.
LEMMA Cancelled ==
  ASSUME ListInv, NEW r \in Readers, Raises(r) PROVE ListInv'
<1>1. /\ task' = [task EXCEPT ![r] = NoTask] /\ lock' = RemoveFirst(lock, r)
      /\ UNCHANGED <<listing, listRows>>
  BY DEF Raises
<1>2. Left(lock, Readers, r, lock')
  BY <1>1, Leaving DEF ListInv, ListTyped
<1>3. ASSUME NEW x \in Readers, x # r, task[x].at = "paging" PROVE lock'[1] = x /\ ~synced'
  BY <1>1, <1>2, <1>3 DEF ListInv, ListTyped, OneOf, InLine, Left, listRows
<1>4. stored' = stored /\ listing' = listing /\ (synced' => promised' \subseteq stored')
  BY <1>1 DEF ListInv, SyncedIsWhole, listRows
<1>5. QED
  <2>1. NoTask \in Reads /\ NoTask.at \notin {"waiting", "paging"} /\ NoTask.had = {}
    BY IdleTyped
  <2>2. QED
    BY <1>1, <1>2, <1>3, <1>4, <2>1, Leaves DEF Left

LEMMA ListRestarts ==
  ASSUME ListInv, ListRestart PROVE ListInv'
<1>1. task' = [r \in Readers |-> NoTask] /\ lock' = <<>> /\ UNCHANGED <<listing, listRows>>
  BY DEF ListRestart
<1>2. \A r \in Readers : task'[r] \in Reads /\ task'[r].at = "idle" /\ task'[r].had = {}
  BY <1>1, IdleTyped
<1>3. ListTyped'
  BY <1>1, <1>2 DEF ListInv, ListTyped, OneOf
<1>4. InLine' /\ SeenIsStored' /\ SyncedIsWhole'
  BY <1>1, <1>2 DEF ListInv, InLine, SeenIsStored, SyncedIsWhole, listRows
<1>5. QED
  BY <1>3, <1>4 DEF ListInv

LEMMA ListStep ==
  ASSUME ListInv, [ListNext]_listVars PROVE ListInv'
<1>1. CASE UNCHANGED listVars
  <2>1. UNCHANGED <<listing, stored, synced, promised, lock, task>>
    BY <1>1 DEF listVars, listRows
  <2>2. QED
    BY <2>1 DEF ListInv, ListTyped, OneOf, InLine, SeenIsStored, SyncedIsWhole
<1>2. CASE ListNext
  <2>1. CASE \E list \in Edits : EditList(list)
    BY <2>1, ListEdits
  <2>2. CASE (\E i \in VolumeIssues : StoreIssue(i)) \/ StoreVolume \/ DayPasses
    BY <2>2, OthersStore
  <2>3. CASE ListRestart
    BY <2>3, ListRestarts
  <2>4. CASE \E old \in SUBSET VolumeIssues : EvictIssues(old)
    BY <2>4, IssuesEvicted
  <2>5. CASE \/ \E c \in ListClients, f \in Filters, noCache \in BOOLEAN : Lookup(c, f, noCache)
             \/ \E what \in Filters \cup {Refresh} : Fetch(what)
    BY <2>5, Requests
  <2>6. CASE \E r \in Readers : LockGained(r)
    BY <2>6, LockIsGained
  <2>7. CASE \E r \in Readers : Page(r)
    BY <2>7, PageArrives
  <2>8. CASE \E r \in Readers : Answered(r) \/ \E outcome \in Failures : AskFails(r, outcome)
    BY <2>8, LookupEnds
  <2>9. CASE \E r \in Readers : Raises(r)
    BY <2>9, Cancelled
  <2>10. CASE \E r \in Readers : \E outcome \in Failures : PageFails(r, outcome)
    BY <2>10, RefreshStops
  <2>11. QED
    BY <1>2, <2>1, <2>2, <2>3, <2>4, <2>5, <2>6, <2>7, <2>8, <2>9, <2>10 DEF ListNext
<1>3. QED
  BY <1>1, <1>2

LEMMA ListInvariant == ListSpec => []ListInv
<1>1. ListInit => ListInv
  BY ListInvInit
<1>2. ListInv /\ [ListNext]_listVars => ListInv'
  BY ListStep
<1>3. QED
  BY <1>1, <1>2, PTL DEF ListSpec

-----------------------------------------------------------------------------
(* Types: what ListTypeOK has beyond ListTyped *)

ListRest ==
  /\ stored \subseteq VolumeIssues /\ promised \subseteq VolumeIssues
  /\ count \in Nat /\ synced \in BOOLEAN
  /\ negative \subseteq Filters /\ queued \subseteq Filters \cup {Refresh}
  /\ listEdits \in 0..MaxListEdits /\ listTroubles \in 0..MaxListTroubles

LEMMA ListTypes ==
  ASSUME ListTyped, ListRest PROVE ListTypeOK
BY DEF ListTyped, ListRest, ListTypeOK, Reads, Ats, OneOf

LEMMA TroubleCounted ==
  ASSUME ListRest, ListTrouble PROVE listTroubles' \in 0..MaxListTroubles
BY VolumeAssumption DEF ListRest, ListTrouble

LEMMA RefreshEndsTyped ==
  ASSUME ListRest, NEW r, NEW outcome, RefreshEnds(r, outcome)
  PROVE  negative' \subseteq Filters /\ queued' \subseteq Filters \cup {Refresh}
<1>1. negative' = negative /\ queued' \subseteq queued \cup {Refresh}
  BY DEF RefreshEnds
<1>2. QED
  BY <1>1 DEF ListRest

LEMMA JobsTyped ==
  ASSUME ListInv, ListRest,
         \/ \E list \in Edits : EditList(list)
         \/ \E i \in VolumeIssues : StoreIssue(i)
         \/ StoreVolume \/ DayPasses
         \/ \E old \in SUBSET VolumeIssues : EvictIssues(old)
  PROVE  ListRest'
<1>1. CASE \E list \in Edits : EditList(list)
  BY <1>1, VolumeAssumption DEF EditList, listRows, entries, ListRest
<1>2. CASE \E i \in VolumeIssues : StoreIssue(i)
  BY <1>2 DEF StoreIssue, entries, ListRest
<1>3. CASE StoreVolume
  <2>1. count' \in Nat
    BY <1>3 DEF StoreVolume, ListInv, ListTyped
  <2>2. QED
    BY <1>3, <2>1 DEF StoreVolume, entries, ListRest
<1>4. CASE DayPasses
  <2>1. negative' \subseteq negative /\ synced' \in BOOLEAN /\ promised' \subseteq promised
    <3>1. synced' \in {synced, FALSE} /\ \E old \in SUBSET negative : negative' = negative \ old
      BY <1>4 DEF DayPasses
    <3>2. promised' = promised \/ promised' = {}
      BY <1>4, Zenon DEF DayPasses
    <3>3. QED
      BY <3>1, <3>2 DEF ListRest
  <2>2. UNCHANGED <<stored, count, queued, listEdits, listTroubles>>
    BY <1>4 DEF DayPasses
  <2>3. QED
    BY <2>1, <2>2 DEF ListRest
<1>5. CASE \E old \in SUBSET VolumeIssues : EvictIssues(old)
  <2>1. /\ stored' \subseteq stored /\ promised' \subseteq promised /\ count' \in {0, count}
        /\ UNCHANGED <<synced, negative, queued, listEdits, listTroubles>>
    BY <1>5 DEF EvictIssues, entries
  <2>2. QED
    BY <2>1 DEF ListRest
<1>6. QED
  BY <1>1, <1>2, <1>3, <1>4, <1>5

LEMMA PageTyped ==
  ASSUME ListInv, ListRest, NEW r \in Readers, Page(r) PROVE ListRest'
<1> DEFINE piece == PageAt(task[r].offset)
           had == IF task[r].offset = 0 THEN Range(listing) ELSE task[r].had
<1>1. /\ Insert(Range(piece)) /\ UNCHANGED <<listEdits, listTroubles>>
      /\ \/ RefreshEnds(r, "skipped") /\ UNCHANGED <<synced, promised>>
         \/ MarkSynced(r, had) /\ RefreshEnds(r, "complete")
         \/ UNCHANGED <<synced, promised, entries>>
  BY DEF Page
<1>2. task[r].offset \in Nat /\ task[r].had \subseteq VolumeIssues /\ listing \in Seq(VolumeIssues)
  BY DEF ListInv, ListTyped, Reads
<1>3. Range(piece) \subseteq VolumeIssues /\ had \subseteq VolumeIssues
  <2>1. piece \in Seq(VolumeIssues)
    BY <1>2, PageOfList
  <2> HIDE DEF piece
  <2>2. QED
    BY <1>2, <2>1 DEF Range
<1> HIDE DEF piece, had
<1>4. stored' \subseteq VolumeIssues /\ count' = count
  BY <1>1, <1>3 DEF Insert, ListRest
<1>5. promised' \subseteq VolumeIssues /\ synced' \in BOOLEAN
  BY <1>1, <1>3 DEF MarkSynced, ListRest
<1>6. negative' \subseteq Filters /\ queued' \subseteq Filters \cup {Refresh}
  BY <1>1, RefreshEndsTyped DEF entries, ListRest
<1>7. QED
  BY <1>1, <1>4, <1>5, <1>6 DEF ListRest

LEMMA AskTyped ==
  ASSUME ListInv, ListRest, NEW r \in Readers,
         Answered(r) \/ \E outcome \in Failures : AskFails(r, outcome)
  PROVE  ListRest'
<1>1. task[r].filter \in Filters /\ listing \in Seq(VolumeIssues)
  BY DEF ListInv, ListTyped, Reads
<1>2. CASE Answered(r)
  <2> DEFINE f == task[r].filter
             found == IF f = Whole THEN Range(PageAt(0)) ELSE {f} \cap Range(listing)
  <2>1. /\ stored' = stored \cup found /\ count' = count
        /\ negative' \subseteq negative \cup {f} /\ queued' \subseteq queued
        /\ UNCHANGED <<synced, promised, listEdits, listTroubles>>
    BY <1>2 DEF Answered, Insert
  <2>2. found \subseteq VolumeIssues
    <3>1. PageAt(0) \in Seq(VolumeIssues)
      BY <1>1, PageOfList
    <3>2. Range(PageAt(0)) \subseteq VolumeIssues /\ Range(listing) \subseteq VolumeIssues
      BY <1>1, <3>1 DEF Range
    <3>3. QED
      BY <3>2
  <2> HIDE DEF found
  <2>3. QED
    BY <1>1, <2>1, <2>2 DEF ListRest
<1>3. CASE \E outcome \in Failures : AskFails(r, outcome)
  <2>1. /\ queued' \subseteq queued \cup {task[r].filter}
        /\ UNCHANGED <<listRows, negative, listEdits>> /\ ListTrouble
    BY <1>3 DEF AskFails
  <2>2. listTroubles' \in 0..MaxListTroubles
    BY <2>1, TroubleCounted
  <2>3. QED
    BY <1>1, <2>1, <2>2 DEF ListRest, listRows
<1>4. QED
  BY <1>2, <1>3

LEMMA ListRestStep ==
  ASSUME ListInv, ListRest, [ListNext]_listVars PROVE ListRest'
<1>1. CASE UNCHANGED listVars
  BY <1>1 DEF listVars, listRows, entries, ListRest
<1>2. CASE ListNext
  <2>1. CASE \/ \E list \in Edits : EditList(list)
             \/ \E i \in VolumeIssues : StoreIssue(i)
             \/ StoreVolume \/ DayPasses
             \/ \E old \in SUBSET VolumeIssues : EvictIssues(old)
    BY <2>1, JobsTyped
  <2>2. CASE \/ \E c \in ListClients, f \in Filters, noCache \in BOOLEAN : Lookup(c, f, noCache)
             \/ \E what \in Filters \cup {Refresh} : Fetch(what)
    BY <2>2 DEF Lookup, Fetch, listRows, entries, ListRest
  <2>3. CASE ListRestart \/ \E r \in Readers : Raises(r)
    <3>1. ListTrouble /\ UNCHANGED <<listRows, entries, listEdits>>
      BY <2>3 DEF ListRestart, Raises
    <3>2. listTroubles' \in 0..MaxListTroubles
      BY <3>1, TroubleCounted
    <3>3. QED
      BY <3>1, <3>2 DEF listRows, entries, ListRest
  <2>4. CASE \E r \in Readers : LockGained(r)
    <3>1. PICK r \in Readers : LockGained(r)
      BY <2>4
    <3>2. /\ UNCHANGED <<listRows, listEdits, listTroubles>>
          /\ RefreshEnds(r, "complete") \/ RefreshEnds(r, "skipped") \/ UNCHANGED entries
      BY <3>1 DEF LockGained
    <3>3. negative' \subseteq Filters /\ queued' \subseteq Filters \cup {Refresh}
      BY <3>2, RefreshEndsTyped DEF entries, ListRest
    <3>4. QED
      BY <3>2, <3>3 DEF listRows, ListRest
  <2>5. CASE \E r \in Readers : Page(r)
    BY <2>5, PageTyped
  <2>6. CASE \E r \in Readers : Answered(r) \/ \E outcome \in Failures : AskFails(r, outcome)
    BY <2>6, AskTyped
  <2>7. CASE \E r \in Readers : \E outcome \in Failures : PageFails(r, outcome)
    <3>1. PICK r \in Readers, outcome \in Failures : PageFails(r, outcome)
      BY <2>7
    <3>2. RefreshEnds(r, outcome) /\ ListTrouble /\ UNCHANGED <<listRows, listEdits>>
      BY <3>1 DEF PageFails
    <3>3. negative' \subseteq Filters /\ queued' \subseteq Filters \cup {Refresh}
      BY <3>2, RefreshEndsTyped
    <3>4. listTroubles' \in 0..MaxListTroubles
      BY <3>2, TroubleCounted
    <3>5. QED
      BY <3>2, <3>3, <3>4 DEF listRows, ListRest
  <2>8. QED
    BY <1>2, <2>1, <2>2, <2>3, <2>4, <2>5, <2>6, <2>7 DEF ListNext
<1>3. QED
  BY <1>1, <1>2

-----------------------------------------------------------------------------
(* The theorems *)

\* The lists of a volume's issues, their marks, lock and requests keep their types.
THEOREM ListTypeCorrect == ListSpec => []ListTypeOK
<1>1. ListInit => ListInv /\ ListRest
  <2> SUFFICES ASSUME ListInit PROVE ListInv /\ ListRest
    OBVIOUS
  <2>1. MaxListEdits \in Nat /\ MaxListTroubles \in Nat
    BY VolumeAssumption
  <2>2. /\ stored = {} /\ promised = {} /\ count = 0 /\ synced = FALSE
        /\ negative = {} /\ queued = {} /\ listEdits = 0 /\ listTroubles = 0
    BY DEF ListInit
  <2>3. 0 \in 0..MaxListEdits /\ 0 \in 0..MaxListTroubles
    BY <2>1
  <2>4. {} \subseteq VolumeIssues /\ {} \subseteq Filters /\ {} \subseteq Filters \cup {Refresh}
    OBVIOUS
  <2>5. ListRest
    BY <2>2, <2>3, <2>4 DEF ListRest
  <2>6. QED
    BY <2>5, ListInvInit
<1>2. (ListInv /\ ListRest) /\ [ListNext]_listVars => (ListInv /\ ListRest)'
  BY ListStep, ListRestStep
<1>3. ListInv /\ ListRest => ListTypeOK
  BY ListTypes DEF ListInv
<1>4. QED
  BY <1>1, <1>2, <1>3, PTL DEF ListSpec

\* While the mark of a list lasts, "no such issue" is a true answer, whatever stopped,
\* waited or changed (routes/api.py:1127-1163).
THEOREM MarkMeansWhole == ListSpec => []SyncedIsWhole
<1>1. ListSpec => []ListInv
  BY ListInvariant
<1>2. ListInv => SyncedIsWhole
  BY DEF ListInv
<1>3. QED
  BY <1>1, <1>2, PTL

\* Nobody reads the list again while the mark of another one lasts.
THEOREM NobodyReadsAgain == ListSpec => []ListReadOnce
<1>1. ListSpec => []ListInv
  BY ListInvariant
<1>2. ListInv => ListReadOnce
  BY DEF ListInv, InLine, ListReadOnce
<1>3. QED
  BY <1>1, <1>2, PTL
=============================================================================
