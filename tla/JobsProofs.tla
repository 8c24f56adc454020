----------------------------- MODULE JobsProofs -----------------------------
(* Theorems about Jobs, for every set of paths, files and worker threads.   *)
EXTENDS Jobs, FiniteSetTheorems, TLAPS

Active(w) == at[w] # "none"
Started(w) == at[w] \notin {"none", "start"}

\* At most one worker is alive, and only while its job runs.
Exclusive == \A w \in Workers : Active(w) => job.running /\ \A v \in Workers : Active(v) => v = w

\* Once a job's start is over, the flag is set exactly if somebody has cancelled
\* that job: a flag of earlier days was cleared, one of now is not.
CancelOK ==
  /\ stop.id <= job.id
  /\ \A w \in Workers : /\ at[w] = "start" => stop.id # job.id
                        /\ Started(w) => (cancel <=> stop.id = job.id)

\* A cancel that has come leaves the worker at most the file it turns.
DoneOK == stop.id = job.id => /\ job.done <= stop.done + 1
                              /\ \A w \in Workers : at[w] = "turn" => job.done <= stop.done

\* What a worker lists is a folder, what it turns a file; what it has found is finite.
ListsOK == \A w \in Workers : /\ IsFiniteSet(files[w])
                              /\ at[w] = "list" => item[w] \in Folders
                              /\ at[w] = "turn" => item[w] \in Files

TypeInv == TypeOK /\ ListsOK

ControlInv == TypeInv /\ Exclusive /\ CancelOK /\ DoneOK /\ CancelledWasAsked

\* What a job that is neither cancelled nor failed owes of each path and file.
Clean == ~cancel /\ job.errors = 0
Asserted(p) == p \in touched \/ (p \in pinned <=> job.operation = "keep")
Settled(f) == f \in touched \/ InPlace(f)
Finished ==
  /\ job.done = job.total
  /\ \A p \in selected : Asserted(p) /\ \A f \in Contents[p] : Settled(f)

\* A start has its whole selection before it.
StartOK(w) == at[w] = "start" => left[w] = selected

\* Of a path already asked about, every file is settled, noted, or about to be listed.
SelectOK(w) ==
  at[w] \in {"select", "list"} /\ Clean =>
    \A p \in selected \ left[w] :
      /\ Asserted(p)
      /\ \/ at[w] = "list" /\ item[w] = p
         \/ \A f \in Contents[p] : f \in files[w] \/ Settled(f)

\* Of the whole selection, every file is settled, noted, or being turned.
FilesOK(w) ==
  at[w] \in {"files", "turn"} /\ Clean =>
    \A p \in selected :
      /\ Asserted(p)
      /\ \A f \in Contents[p] : \/ f \in files[w] \/ Settled(f)
                                \/ at[w] = "turn" /\ item[w] = f

\* The count and what is left of the files make up the total.
CountOK(w) ==
  /\ at[w] \in {"start", "select", "list"} => job.done = 0
  /\ at[w] = "files" => job.total = job.done + Cardinality(files[w])
  /\ at[w] = "turn" => job.total = job.done + 1 + Cardinality(files[w])

\* What a worker brings to the end of its job.
EndOK(w) ==
  /\ at[w] = "close" => cancel \/ job.errors > 0 \/ Finished
  /\ at[w] = "end" => job.cancelled \/ job.errors > 0 \/ Finished

Progress(w) == StartOK(w) /\ SelectOK(w) /\ FilesOK(w) /\ CountOK(w) /\ EndOK(w)

ProgressInv == (\A w \in Workers : Progress(w)) /\ EndsAsAsked
IInv == ControlInv /\ ProgressInv
-----------------------------------------------------------------------------
(* The records of jobs, and what the actions write into them.               *)

\* Two records of a job that agree but for the fields in F.
Same(j, k, F) == \A field \in {"id", "running", "operation", "done", "total", "cancelled", "errors"} \ F : j[field] = k[field]

LEMMA NewRecord == ASSUME NEW i \in 0..MaxJobs, NEW o \in {"keep", "free"}
  PROVE  LET j == [NoJob EXCEPT !.id = i, !.running = TRUE, !.operation = o]
         IN  /\ j \in Job /\ j.id = i /\ j.running = TRUE /\ j.operation = o
             /\ j.done = 0 /\ j.cancelled = FALSE /\ j.errors = 0
<1> DEFINE a == [NoJob EXCEPT !.id = i]
           b == [a EXCEPT !.running = TRUE]
           c == [b EXCEPT !.operation = o]
<1>1. NoJob \in Job /\ NoJob.done = 0 /\ NoJob.cancelled = FALSE /\ NoJob.errors = 0
  BY ConstantsAssumption DEF NoJob, Job
<1>2. a \in Job /\ a.id = i /\ a.done = 0 /\ a.cancelled = FALSE /\ a.errors = 0 BY <1>1 DEF Job
<1> HIDE DEF a
<1>3. b \in Job /\ b.id = i /\ b.running = TRUE /\ b.done = 0 /\ b.cancelled = FALSE /\ b.errors = 0
  BY <1>2 DEF Job
<1> HIDE DEF b
<1>4. c \in Job /\ c.id = i /\ c.running = TRUE /\ c.operation = o /\ c.done = 0 /\ c.cancelled = FALSE /\ c.errors = 0
  BY <1>3 DEF Job
<1> QED BY <1>4 DEF a, b

LEMMA ErrorCount == ASSUME NEW e, MaxErrors \in Nat \ {0}, e \in 0..MaxErrors
  PROVE (IF e < MaxErrors THEN e + 1 ELSE e) \in 1..MaxErrors
OBVIOUS
LEMMA FailedRecord == ASSUME NEW j \in Job
  PROVE /\ Failed(j) \in Job /\ Failed(j).errors > 0 /\ Same(Failed(j), j, {"errors"})
<1>1. j.errors \in 0..MaxErrors BY DEF Job
<1> DEFINE e == IF j.errors < MaxErrors THEN j.errors + 1 ELSE j.errors
<1>2. e \in 1..MaxErrors BY <1>1, ErrorCount, ConstantsAssumption
<1> HIDE DEF e
<1>3. Failed(j) = [j EXCEPT !.errors = e] BY DEF Failed, e
<1>4. e \in 0..MaxErrors /\ e > 0 BY <1>2, ConstantsAssumption
<1> QED BY <1>3, <1>4 DEF Job, Same

LEMMA DoneRecord == ASSUME NEW j \in Job, NEW n \in Nat
  PROVE /\ [j EXCEPT !.done = n] \in Job /\ [j EXCEPT !.done = n].done = n
        /\ Same([j EXCEPT !.done = n], j, {"done"})
BY DEF Job, Same
LEMMA TotalRecord == ASSUME NEW j \in Job, NEW n \in Nat
  PROVE /\ [j EXCEPT !.total = n] \in Job /\ [j EXCEPT !.total = n].total = n
        /\ Same([j EXCEPT !.total = n], j, {"total"})
BY DEF Job, Same
LEMMA CancelledRecord == ASSUME NEW j \in Job, NEW c \in BOOLEAN
  PROVE /\ [j EXCEPT !.cancelled = c] \in Job /\ [j EXCEPT !.cancelled = c].cancelled = c
        /\ Same([j EXCEPT !.cancelled = c], j, {"cancelled"})
BY DEF Job, Same
LEMMA EndedRecord == ASSUME NEW j \in Job
  PROVE /\ [j EXCEPT !.running = FALSE] \in Job /\ [j EXCEPT !.running = FALSE].running = FALSE
        /\ Same([j EXCEPT !.running = FALSE], j, {"running"})
BY DEF Job, Same
LEMMA JobFields == ASSUME NEW j \in Job
  PROVE /\ j.id \in 0..MaxJobs /\ j.running \in BOOLEAN /\ j.operation \in {"keep", "free", ""}
        /\ j.done \in Nat /\ j.total \in Nat /\ j.cancelled \in BOOLEAN /\ j.errors \in 0..MaxErrors
BY DEF Job

LEMMA CountNext == ASSUME NEW j \in Job PROVE j.done + 1 \in Nat
<1>1. j.done \in Nat BY JobFields
<1> QED BY <1>1

LEMMA FailedDoneRecord == ASSUME NEW j \in Job
  PROVE LET k == [Failed(j) EXCEPT !.done = @ + 1]
        IN  k \in Job /\ k.done = j.done + 1 /\ k.errors > 0 /\ Same(k, j, {"done", "errors"})
<1>1. Failed(j) \in Job /\ Failed(j).errors > 0 /\ Same(Failed(j), j, {"errors"}) BY FailedRecord
<1>2. Failed(j).done = j.done /\ j.done + 1 \in Nat BY <1>1, CountNext DEF Same
<1>3. [Failed(j) EXCEPT !.done = @ + 1] = [Failed(j) EXCEPT !.done = j.done + 1] BY <1>2
<1> DEFINE k == [Failed(j) EXCEPT !.done = j.done + 1]
<1>4. k \in Job /\ k.done = j.done + 1 /\ Same(k, Failed(j), {"done"}) BY <1>1, <1>2, DoneRecord
<1> HIDE DEF k
<1>5. k.errors > 0 /\ Same(k, j, {"done", "errors"}) BY <1>1, <1>4 DEF Same
<1> QED BY <1>3, <1>4, <1>5 DEF k

LEMMA CountedRecord == ASSUME NEW j \in Job
  PROVE LET k == [j EXCEPT !.done = @ + 1]
        IN  k \in Job /\ k.done = j.done + 1 /\ Same(k, j, {"done"})
<1>1. j.done + 1 \in Nat BY CountNext
<1> QED BY <1>1, DoneRecord
-----------------------------------------------------------------------------
(* Type correctness.                                                        *)

LEMMA ContentsOfPaths == \A p \in Paths : Contents[p] \subseteq Files /\ IsFiniteSet(Contents[p])
BY ConstantsAssumption DEF Files

LEMMA NextId == TypeOK /\ job.id < MaxJobs => job.id + 1 \in 0..MaxJobs
<1>1. TypeOK => job.id \in 0..MaxJobs BY JobFields DEF TypeOK
<1>2. MaxJobs \in Nat BY ConstantsAssumption
<1> QED BY <1>1, <1>2

LEMMA Counters == TypeOK => {job.id, job.done, job.total, stop.id, stop.done} \subseteq Nat
<1> SUFFICES ASSUME TypeOK PROVE {job.id, job.done, job.total, stop.id, stop.done} \subseteq Nat
  OBVIOUS
<1>1. job.id \in 0..MaxJobs /\ job.done \in Nat /\ job.total \in Nat BY JobFields DEF TypeOK
<1>2. stop.id \in 0..MaxJobs /\ stop.done \in Nat BY DEF TypeOK
<1>3. 0..MaxJobs \subseteq Nat BY ConstantsAssumption
<1> QED BY <1>1, <1>2, <1>3

\* What a start puts into the record.
LEMMA StartRecord ==
  ASSUME TypeOK, NEW w, NEW operation \in {"keep", "free"}, NEW paths,
         StartJob(w, operation, paths)
  PROVE  /\ job' \in Job /\ job'.id = job.id + 1 /\ job'.running = TRUE
         /\ job'.done = 0 /\ job'.cancelled = FALSE
<1> DEFINE i == job.id + 1
<1>1. i \in 0..MaxJobs BY NextId DEF StartJob
<1>2. job' = [NoJob EXCEPT !.id = i, !.running = TRUE, !.operation = operation] BY DEF StartJob
<1> HIDE DEF i
<1>3. /\ job' \in Job /\ job'.id = i /\ job'.running = TRUE
      /\ job'.done = 0 /\ job'.cancelled = FALSE
  BY <1>1, <1>2, NewRecord
<1> QED BY <1>3 DEF i

LEMMA StartType ==
  ASSUME TypeInv, NEW w \in Workers, NEW operation \in {"keep", "free"},
         NEW paths \in SUBSET Paths, StartJob(w, operation, paths)
  PROVE  TypeInv'
<1>2. job' \in Job BY StartRecord DEF TypeInv
<1>3. TypeOK' BY <1>2 DEF StartJob, TypeOK, TypeInv, world
<1>4. ListsOK' BY DEF StartJob, TypeOK, TypeInv, ListsOK
<1> QED BY <1>3, <1>4 DEF TypeInv

\* What one step of a worker does to the record.
LEMMA WorkerRecord == ASSUME TypeInv, NEW w \in Workers, Worker(w)
  PROVE  /\ job' \in Job /\ job'.id = job.id /\ job'.operation = job.operation
         /\ at[w] # "end" => job'.running = job.running
         /\ at[w] # "close" => job'.cancelled = job.cancelled
         /\ at[w] # "select" => job'.total = job.total
         /\ at[w] \notin {"files", "turn"} => job'.done = job.done
         /\ job.errors > 0 => job'.errors > 0
<1> USE DEF Move, Same
<1>0. job \in Job BY DEF TypeInv, TypeOK
<1>1. CASE UNCHANGED job BY <1>0, <1>1
<1>2. CASE job' = Failed(job) BY <1>0, <1>2, FailedRecord
<1>3. CASE Count(w)
  <2>1. Cardinality(files[w]) \in Nat BY FS_CardinalityType DEF TypeInv, ListsOK
  <2>2. /\ job' \in Job /\ Same(job', job, {"total"}) BY <1>0, <1>3, <2>1, TotalRecord DEF Count
  <2>3. at[w] = "select" BY <1>3 DEF Count
  <2> QED BY <2>2, <2>3
<1>4. CASE Examine(w) \/ Turn(w)
  <2>1. at[w] \in {"files", "turn"} BY <1>4 DEF Examine, Turn
  <2>2. CASE job' = [Failed(job) EXCEPT !.done = @ + 1]
    <3>1. job' \in Job /\ job'.errors > 0 /\ Same(job', job, {"done", "errors"})
      BY <1>0, <2>2, FailedDoneRecord
    <3> QED BY <2>1, <3>1
  <2>3. CASE job' = [job EXCEPT !.done = @ + 1]
    <3>1. job' \in Job /\ Same(job', job, {"done"}) BY <1>0, <2>3, CountedRecord
    <3> QED BY <2>1, <3>1
  <2> QED BY <1>1, <1>4, <2>2, <2>3 DEF Examine, Turn
<1>5. CASE ReadCancel(w)
  <2>1. cancel \in BOOLEAN /\ at[w] = "close" BY <1>5 DEF ReadCancel, TypeInv, TypeOK
  <2>2. job' \in Job /\ Same(job', job, {"cancelled"})
    BY <1>0, <1>5, <2>1, CancelledRecord DEF ReadCancel
  <2> QED BY <2>1, <2>2
<1>6. CASE EndJob(w)
  <2>1. job' \in Job /\ Same(job', job, {"running"}) /\ at[w] = "end"
    BY <1>0, <1>6, EndedRecord DEF EndJob
  <2> QED BY <2>1
<1> QED BY <1>1, <1>2, <1>3, <1>4, <1>5, <1>6
      DEF Worker, ClearCancel, Cancelled, Request, RequestLost, ListPending, Collect, ListLost,
          Leave, RecordError, Abort

LEMMA WorkerType == ASSUME TypeInv, NEW w \in Workers, Worker(w) PROVE TypeInv'
<1> USE DEF TypeInv, TypeOK, ListsOK, world, history, Move
<1>0. job' \in Job BY WorkerRecord
<1>1. CASE ClearCancel(w) BY <1>1, <1>0 DEF ClearCancel
<1>2. CASE Cancelled(w) BY <1>2, <1>0 DEF Cancelled
<1>3. CASE Request(w)
  <2>1. PICK p \in left[w] :
          /\ left' = [left EXCEPT ![w] = @ \ {p}]
          /\ \/ /\ pinned' = Asked(p)
                /\ Move(w, "select", IF p \in Folders THEN "list" ELSE "select")
                /\ item' = [item EXCEPT ![w] = IF p \in Folders THEN p ELSE Free]
                /\ files' = [files EXCEPT ![w] = IF p \in Folders THEN @ ELSE @ \cup Contents[p]]
                /\ UNCHANGED job
             \/ Move(w, "select", "select") /\ job' = Failed(job)
                /\ UNCHANGED <<item, files, pinned>>
    BY <1>3 DEF Request
  <2>2. p \in Paths /\ Contents[p] \subseteq Files /\ IsFiniteSet(files[w] \cup Contents[p])
    BY ContentsOfPaths, FS_Union
  <2>3. Asked(p) \subseteq Paths BY <2>2 DEF Asked
  <2>4. TypeOK' BY <1>0, <1>3, <2>1, <2>2, <2>3 DEF Request
  <2>5. ListsOK' BY <1>3, <2>1, <2>2 DEF Request
  <2> QED BY <2>4, <2>5
<1>4. CASE RequestLost(w) BY <1>4, <1>0 DEF RequestLost, Abort, Asked
<1>5. CASE ListPending(w)
  <2>1. item[w] \in Paths BY <1>5, ConstantsAssumption DEF ListPending
  <2>2. Contents[item[w]] \cap dehydrated \subseteq Files BY <2>1
  <2>3. IsFiniteSet(files[w] \cup (Contents[item[w]] \cap dehydrated))
    <3>1. IsFiniteSet(Contents[item[w]]) /\ IsFiniteSet(files[w]) BY <2>1, ContentsOfPaths
    <3>2. IsFiniteSet(Contents[item[w]] \cap dehydrated) BY <3>1, FS_Subset
    <3> QED BY <3>1, <3>2, FS_Union
  <2>4. TypeOK' BY <1>5, <1>0, <2>2 DEF ListPending
  <2> QED BY <1>5, <2>4, <2>3 DEF ListPending
<1>6. CASE Collect(w)
  <2>1. PICK found \in SUBSET Contents[item[w]] : files' = [files EXCEPT ![w] = @ \cup found]
    BY <1>6 DEF Collect
  <2>2. item[w] \in Paths BY <1>6, ConstantsAssumption DEF Collect
  <2>3. found \subseteq Files /\ IsFiniteSet(files[w] \cup found)
    BY <2>2, ContentsOfPaths, FS_Union, FS_Subset
  <2>4. TypeOK' BY <1>6, <1>0, <2>1, <2>3 DEF Collect
  <2> QED BY <1>6, <2>1, <2>3, <2>4 DEF Collect
<1>7. CASE ListLost(w) BY <1>7, <1>0 DEF ListLost, Abort
<1>8. CASE Count(w) BY <1>8, <1>0 DEF Count
<1>9. CASE Leave(w) BY <1>9, <1>0 DEF Leave
<1>10. CASE Examine(w)
  <2>1. PICK f \in files[w] :
          /\ files' = [files EXCEPT ![w] = @ \ {f}]
          /\ \/ Move(w, "files", "files") /\ UNCHANGED item
             \/ Move(w, "files", "turn") /\ item' = [item EXCEPT ![w] = f]
    BY <1>10 DEF Examine
  <2>2. IsFiniteSet(files[w] \ {f}) BY FS_RemoveElement
  <2>3. TypeOK' BY <1>10, <1>0, <2>1 DEF Examine
  <2>4. ListsOK' BY <2>1, <2>2
  <2> QED BY <2>3, <2>4
<1>11. CASE Turn(w) BY <1>11, <1>0 DEF Turn
<1>12. CASE RecordError(w) BY <1>12, <1>0 DEF RecordError
<1>13. CASE ReadCancel(w) BY <1>13, <1>0 DEF ReadCancel
<1>14. CASE EndJob(w)
  <2>1. IsFiniteSet({}) BY FS_EmptySet
  <2> QED BY <1>14, <1>0, <2>1 DEF EndJob
<1> QED BY <1>1, <1>2, <1>3, <1>4, <1>5, <1>6, <1>7, <1>8, <1>9, <1>10, <1>11, <1>12, <1>13,
           <1>14 DEF Worker

LEMMA OthersType == ASSUME TypeInv, Cancel \/ Others \/ UNCHANGED vars PROVE TypeInv'
<1> USE DEF TypeInv, TypeOK, ListsOK, local
<1>1. CASE Cancel
  <2>1. stop' \in [id : 0..MaxJobs, done : Nat] BY <1>1, JobFields DEF Cancel
  <2> QED BY <1>1, <2>1 DEF Cancel, world
<1>2. CASE Others BY <1>2 DEF Others
<1>3. CASE UNCHANGED vars BY <1>3 DEF vars, world, history
<1> QED BY <1>1, <1>2, <1>3

LEMMA InitType == Init => TypeInv
<1> SUFFICES ASSUME Init PROVE TypeInv OBVIOUS
<1>1. NoJob \in Job BY ConstantsAssumption DEF NoJob, Job
<1>2. [id |-> 0, done |-> 0] \in [id : 0..MaxJobs, done : Nat] BY ConstantsAssumption
<1>3. IsFiniteSet({}) BY FS_EmptySet
<1>4. ListsOK BY <1>3 DEF Init, ListsOK
<1>5. /\ at \in [Workers -> {"none", "start", "select", "list", "files", "turn", "failed",
                          "close", "end"}]
      /\ item \in [Workers -> Folders \cup Files \cup {Free}]
  BY DEF Init
<1>6. left \in [Workers -> SUBSET Paths] /\ files \in [Workers -> SUBSET Files] BY DEF Init
<1>7. TypeOK BY <1>1, <1>2, <1>5, <1>6 DEF Init, TypeOK
<1> QED BY <1>4, <1>7 DEF TypeInv

LEMMA NextType == TypeInv /\ [Next]_vars => TypeInv'
BY StartType, WorkerType, OthersType DEF Next, Starts

\* Every variable keeps its type.
THEOREM TypeCorrect == Spec => []TypeOK
<1>1. TypeInv => TypeOK BY DEF TypeInv
<1> QED BY <1>1, InitType, NextType, PTL DEF Spec
-----------------------------------------------------------------------------
(* The mutex, the flag and the count.                                       *)

\* What one step of a worker does to everything else that ControlInv speaks of.
LEMMA WorkerControl == ASSUME TypeInv, NEW w \in Workers, Worker(w)
  PROVE  /\ at[w] # "none" /\ at'[w] # "start" /\ UNCHANGED history
         /\ \A v \in Workers : v # w => at'[v] = at[v]
         /\ at'[w] = "none" <=> at[w] = "end"
         /\ IF at[w] = "start" THEN cancel' = FALSE ELSE cancel' = cancel
         /\ at[w] = "close" => job'.cancelled = cancel
         /\ at'[w] = "turn" => at[w] = "files" /\ ~cancel /\ job'.done = job.done
         /\ \/ job'.done = job.done
            \/ /\ job'.done = job.done + 1 /\ at'[w] # "turn"
               /\ at[w] = "turn" \/ (at[w] = "files" /\ ~cancel)
<1> USE DEF TypeInv, TypeOK, history, Move, Abort
<1>0. job \in Job OBVIOUS
<1>1. CASE at[w] \notin {"files", "turn", "close"}
  BY <1>1, WorkerRecord
     DEF Worker, ClearCancel, Cancelled, Request, RequestLost, ListPending, Collect, ListLost,
         Count, Leave, Examine, Turn, RecordError, ReadCancel, EndJob
<1>2. CASE Examine(w)
  <2>1. PICK f \in files[w] :
          \/ Move(w, "files", "files") /\ job' = [Failed(job) EXCEPT !.done = @ + 1]
          \/ Move(w, "files", "files") /\ job' = [job EXCEPT !.done = @ + 1]
          \/ Move(w, "files", "turn") /\ UNCHANGED job
    BY <1>2 DEF Examine
  <2>2. CASE Move(w, "files", "files")
    <3>1. job'.done = job.done + 1 BY <1>0, <2>1, <2>2, FailedDoneRecord, CountedRecord
    <3> QED BY <1>2, <2>2, <3>1 DEF Examine
  <2>3. CASE Move(w, "files", "turn") /\ UNCHANGED job BY <1>2, <2>3 DEF Examine
  <2> QED BY <2>1, <2>2, <2>3
<1>3. CASE Turn(w)
  <2>1. job'.done = job.done + 1 BY <1>0, <1>3, FailedDoneRecord, CountedRecord DEF Turn
  <2>2. at' = [at EXCEPT ![w] = "files"] /\ at[w] = "turn" /\ UNCHANGED <<cancel, history>>
    BY <1>3 DEF Turn
  <2> QED BY <2>1, <2>2
<1>4. CASE ReadCancel(w)
  <2>1. job'.cancelled = cancel BY <1>0, <1>4, CancelledRecord DEF ReadCancel
  <2>2. job'.done = job.done BY <1>4, WorkerRecord DEF ReadCancel
  <2> QED BY <1>4, <2>1, <2>2 DEF ReadCancel
<1>5. CASE Leave(w) BY <1>5 DEF Leave
<1> QED BY <1>1, <1>2, <1>3, <1>4, <1>5
      DEF Worker, ClearCancel, Cancelled, Request, RequestLost, ListPending, Collect, ListLost,
          Count, RecordError, EndJob

LEMMA StartControl ==
  ASSUME ControlInv, NEW w \in Workers, NEW operation \in {"keep", "free"},
         NEW paths \in SUBSET Paths, StartJob(w, operation, paths)
  PROVE  ControlInv'
<1> USE DEF ControlInv
<1>1. TypeInv' BY StartType
<1>3. /\ job'.id = job.id + 1 /\ job'.running = TRUE /\ job'.done = 0 /\ job'.cancelled = FALSE
  BY StartRecord DEF TypeInv
<1>4. at' = [at EXCEPT ![w] = "start"] /\ UNCHANGED <<stop, cancel>> BY DEF StartJob
<1>5. \A v \in Workers : at[v] = "none" BY DEF StartJob, Exclusive, Active
<1>6. Exclusive' BY <1>3, <1>4, <1>5 DEF Exclusive, Active, TypeInv, TypeOK
<1>7. stop.id <= job.id /\ stop.id \in Nat /\ job.id \in Nat
  BY Counters DEF CancelOK, TypeInv
<1>8. stop'.id <= job'.id /\ stop'.id # job'.id BY <1>3, <1>4, <1>7
<1>9. CancelOK' BY <1>4, <1>5, <1>8 DEF CancelOK, Started, TypeInv, TypeOK
<1>10. DoneOK' BY <1>8 DEF DoneOK
<1>11. CancelledWasAsked' BY <1>3 DEF CancelledWasAsked
<1> QED BY <1>1, <1>6, <1>9, <1>10, <1>11

LEMMA WorkerControlInv == ASSUME ControlInv, NEW w \in Workers, Worker(w) PROVE ControlInv'
<1> USE DEF ControlInv
<1>1. TypeInv' BY WorkerType
<1>2. /\ job'.id = job.id /\ stop' = stop
      /\ at[w] # "end" => job'.running = job.running
      /\ at[w] # "close" => job'.cancelled = job.cancelled
      /\ at[w] = "close" => job'.cancelled = cancel
  BY WorkerRecord, WorkerControl DEF history
<1>3. /\ at[w] # "none" /\ at'[w] # "start"
      /\ \A v \in Workers : v # w => at'[v] = at[v]
      /\ at'[w] = "none" <=> at[w] = "end"
      /\ IF at[w] = "start" THEN cancel' = FALSE ELSE cancel' = cancel
  BY WorkerControl
<1>4. job.running /\ \A v \in Workers : v # w => at[v] = "none" /\ at'[v] = "none"
  BY <1>3 DEF Exclusive, Active
<1>5. Exclusive' BY <1>2, <1>3, <1>4 DEF Exclusive, Active
<1>6. CancelOK'
  <2>1. at'[w] # "start" /\ (Started(w)' => (cancel' <=> stop.id = job.id))
    BY <1>3 DEF CancelOK, Started
  <2> QED BY <1>2, <1>4, <2>1 DEF CancelOK, Started
<1>7. DoneOK'
  <2> SUFFICES ASSUME stop.id = job.id
               PROVE  /\ job'.done <= stop.done + 1
                      /\ \A v \in Workers : at'[v] = "turn" => job'.done <= stop.done
    BY <1>2 DEF DoneOK
  <2>1. job.done <= stop.done + 1 /\ (at[w] = "turn" => job.done <= stop.done) BY DEF DoneOK
  <2>2. cancel BY <1>3 DEF CancelOK, Started
  <2>3. at'[w] # "turn" BY <2>2, WorkerControl
  <2>4. \A v \in Workers : at'[v] # "turn" BY <1>4, <2>3
  <2>5. job'.done = job.done \/ (job'.done = job.done + 1 /\ at[w] = "turn")
    <3>1. \/ job'.done = job.done
          \/ /\ job'.done = job.done + 1 /\ at'[w] # "turn"
             /\ at[w] = "turn" \/ (at[w] = "files" /\ ~cancel)
      BY WorkerControl
    <3> QED BY <2>2, <3>1
  <2>6. job.done \in Nat /\ stop.done \in Nat BY Counters DEF TypeInv
  <2>7. job'.done <= stop.done + 1 BY <2>1, <2>5, <2>6
  <2> QED BY <2>4, <2>7
<1>8. CancelledWasAsked'
  <2>1. at[w] = "close" /\ cancel => stop.id = job.id BY DEF CancelOK, Started
  <2> QED BY <1>2, <2>1 DEF CancelledWasAsked
<1> QED BY <1>1, <1>5, <1>6, <1>7, <1>8

LEMMA OthersControl == ASSUME ControlInv, Cancel \/ Others \/ UNCHANGED vars PROVE ControlInv'
<1> USE DEF ControlInv
<1>1. TypeInv' BY OthersType
<1>2. CASE Cancel
  <2>1. UNCHANGED <<job, at>> /\ cancel' = TRUE BY <1>2 DEF Cancel, local
  <2>2. job.done \in Nat /\ job.id \in Nat BY Counters DEF TypeInv
  <2>3. CASE job.running /\ stop.id # job.id /\ \A w \in Workers : at[w] # "start"
    <3>1. stop'.id = job.id /\ stop'.done = job.done BY <1>2, <2>3 DEF Cancel
    <3>2. DoneOK' BY <2>1, <2>2, <3>1 DEF DoneOK
    <3>3. CancelOK' BY <2>1, <2>2, <2>3, <3>1 DEF CancelOK, Started
    <3> QED BY <1>1, <2>1, <3>1, <3>2, <3>3 DEF Exclusive, Active, CancelledWasAsked
  <2>4. CASE ~(job.running /\ stop.id # job.id /\ \A w \in Workers : at[w] # "start")
    <3>1. UNCHANGED stop BY <1>2, <2>4 DEF Cancel
    <3>2. \A w \in Workers : Started(w) => stop.id = job.id
      BY <2>4 DEF Exclusive, Active, Started
    <3>3. CancelOK' BY <2>1, <3>1, <3>2 DEF CancelOK, Started
    <3> QED BY <1>1, <2>1, <3>1, <3>3 DEF Exclusive, Active, DoneOK, CancelledWasAsked
  <2> QED BY <2>3, <2>4
<1>3. CASE Others \/ UNCHANGED vars
  <2>1. UNCHANGED <<job, at, cancel, stop>> BY <1>3 DEF Others, vars, local, history
  <2> QED BY <1>1, <2>1 DEF Exclusive, Active, CancelOK, Started, DoneOK, CancelledWasAsked
<1> QED BY <1>2, <1>3

LEMMA ControlInvariance == /\ Init => ControlInv
                           /\ ControlInv /\ [Next]_vars => ControlInv'
<1>1. Init => ControlInv
  <2> SUFFICES ASSUME Init PROVE ControlInv OBVIOUS
  <2>1. \A w \in Workers : at[w] = "none" BY DEF Init
  <2>2. /\ job.id = 0 /\ job.done = 0 /\ job.cancelled = FALSE /\ stop.id = 0 /\ stop.done = 0
    BY DEF Init, NoJob
  <2> QED BY <2>1, <2>2, InitType
        DEF ControlInv, Exclusive, Active, CancelOK, Started, DoneOK, CancelledWasAsked
<1>2. ControlInv /\ [Next]_vars => ControlInv'
  BY StartControl, WorkerControlInv, OthersControl DEF Next, Starts
<1> QED BY <1>1, <1>2

\* A job is reported cancelled only if somebody cancelled it while it ran.
THEOREM CancelIsNotInherited == Spec => []CancelledWasAsked
<1>1. ControlInv => CancelledWasAsked BY DEF ControlInv
<1> QED BY <1>1, ControlInvariance, PTL DEF Spec

\* A cancelled job finishes at most the file it is at.
THEOREM CancelStops == Spec => []StopsAfterCurrentFile
<1>1. ControlInv => StopsAfterCurrentFile BY DEF ControlInv, DoneOK, StopsAfterCurrentFile
<1> QED BY <1>1, ControlInvariance, PTL DEF Spec

\* The record of a job that has ended is not written again.
THEOREM EndedRecordStays == Spec => RecordFinal
<1>1. ControlInv /\ [Next]_vars => [~job.running /\ job'.id = job.id => job' = job]_vars
  <2> SUFFICES ASSUME ControlInv, [Next]_vars, ~job.running, job'.id = job.id PROVE job' = job
    OBVIOUS
  <2>1. ASSUME NEW w \in Workers, Worker(w) PROVE FALSE
    <3>1. at[w] # "none" BY <2>1, WorkerControl DEF ControlInv
    <3> QED BY <3>1 DEF ControlInv, Exclusive, Active
  <2>2. ASSUME NEW w \in Workers, Starts(w) PROVE FALSE
    <3>1. job'.id = job.id + 1 BY <2>2, StartRecord DEF Starts, ControlInv, TypeInv
    <3>2. job.id \in Nat BY Counters DEF ControlInv, TypeInv
    <3> QED BY <3>1, <3>2
  <2> QED BY <2>1, <2>2 DEF Next, Cancel, Others, vars
<1> QED BY <1>1, ControlInvariance, PTL DEF Spec, RecordFinal
-----------------------------------------------------------------------------
(* The work: what a worker has asked, found and turned so far.              *)

\* One worker is alive, its job runs on, and nobody else's progress is at stake.
LEMMA Alone == ASSUME ControlInv, NEW w \in Workers, Worker(w)
  PROVE  /\ job.running /\ \A v \in Workers : v # w => at'[v] = "none"
         /\ UNCHANGED <<selected, touched>> /\ job'.operation = job.operation
         /\ job'.errors = 0 => job.errors = 0
<1>1. at[w] # "none" /\ \A v \in Workers : v # w => at'[v] = at[v]
  BY WorkerControl DEF ControlInv
<1>2. UNCHANGED <<selected, touched>> BY WorkerControl DEF ControlInv, history
<1>3. job'.operation = job.operation /\ (job.errors > 0 => job'.errors > 0)
  BY WorkerRecord DEF ControlInv
<1>4. job.errors \in 0..MaxErrors BY JobFields DEF ControlInv, TypeInv, TypeOK
<1>5. job.errors = 0 \/ job.errors > 0 BY <1>4, ConstantsAssumption
<1>6. job'.errors = 0 => job.errors = 0 BY <1>3, <1>5
<1> QED BY <1>1, <1>2, <1>3, <1>6 DEF ControlInv, Exclusive, Active

LEMMA Idle == ASSUME NEW w, at[w] = "none" PROVE Progress(w)
BY DEF Progress, StartOK, SelectOK, FilesOK, CountOK, EndOK

LEMMA RequestProgress == ASSUME IInv, NEW w \in Workers, Request(w) PROVE Progress(w)'
<1> USE DEF IInv, ControlInv, TypeInv, TypeOK
<1>1. Worker(w) BY DEF Worker
<1>2. job'.operation = job.operation /\ UNCHANGED <<selected, touched, dehydrated, cancel>>
      /\ (job'.errors = 0 => job.errors = 0) /\ job'.done = job.done /\ at[w] = "select"
  BY <1>1, Alone, WorkerRecord DEF Request, Move
<1>3. PICK p \in left[w] :
        /\ left' = [left EXCEPT ![w] = @ \ {p}]
        /\ \/ /\ pinned' = Asked(p)
              /\ Move(w, "select", IF p \in Folders THEN "list" ELSE "select")
              /\ item' = [item EXCEPT ![w] = IF p \in Folders THEN p ELSE Free]
              /\ files' = [files EXCEPT ![w] = IF p \in Folders THEN @ ELSE @ \cup Contents[p]]
           \/ Move(w, "select", "select") /\ job' = Failed(job)
  BY DEF Request
<1>4. at'[w] \in {"select", "list"} /\ job.done = 0 /\ left'[w] = left[w] \ {p}
  BY <1>2, <1>3 DEF Move, ProgressInv, Progress, CountOK
<1>5. SelectOK(w)'
  <2>1. CASE job' = Failed(job)
    <3>1. job'.errors > 0 BY <2>1, FailedRecord
    <3>2. ~Clean' BY <3>1 DEF Clean
    <3> QED BY <3>2 DEF SelectOK
  <2>2. CASE job' # Failed(job)
    <3> SUFFICES ASSUME Clean', NEW q \in (selected \ left[w]) \cup {p}, q \in selected
                 PROVE  /\ Asserted(q)'
                        /\ \/ at'[w] = "list" /\ item'[w] = q
                           \/ \A f \in Contents[q] : f \in files'[w] \/ Settled(f)'
      BY <1>2, <1>4 DEF SelectOK
    <3>1. /\ pinned' = Asked(p)
          /\ IF p \in Folders THEN at'[w] = "list" /\ item'[w] = p /\ files'[w] = files[w]
                              ELSE files'[w] = files[w] \cup Contents[p]
      BY <1>2, <1>3, <2>2 DEF Move
    <3>2. \A f : Settled(f)' = Settled(f) BY <1>2 DEF Settled, InPlace
    <3>3. CASE q = p
      <4>1. Asserted(p)' BY <1>2, <3>1 DEF Asserted, Asked
      <4> QED BY <3>1, <3>3, <4>1
    <3>4. CASE q # p
      <4>1. Clean /\ q \in selected \ left[w] BY <1>2, <3>4 DEF Clean
      <4>2. Asserted(q) /\ \A f \in Contents[q] : f \in files[w] \/ Settled(f)
        BY <1>2, <4>1 DEF ProgressInv, Progress, SelectOK
      <4>3. Asserted(q)' BY <1>2, <3>1, <3>4, <4>2 DEF Asserted, Asked
      <4> QED BY <3>1, <3>2, <4>2, <4>3
    <3> QED BY <3>3, <3>4
  <2> QED BY <2>1, <2>2
<1> QED BY <1>2, <1>4, <1>5 DEF Progress, StartOK, FilesOK, CountOK, EndOK

LEMMA ListProgress ==
  ASSUME IInv, NEW w \in Workers, ListPending(w) \/ Collect(w) PROVE Progress(w)'
<1> USE DEF IInv, ControlInv, TypeInv, TypeOK
<1>1. Worker(w) BY DEF Worker
<1>2. /\ at[w] = "list" /\ at'[w] = "select" /\ job.done = 0
      /\ UNCHANGED <<selected, touched, dehydrated, pinned, cancel, left>>
  BY DEF ListPending, Collect, Move, world, history, ProgressInv, Progress, CountOK
<1>3. job'.operation = job.operation /\ (job'.errors = 0 => job.errors = 0) /\ job'.done = job.done
  BY <1>1, <1>2, Alone, WorkerRecord
<1>4. SelectOK(w)'
  <2> SUFFICES ASSUME Clean', NEW p \in selected \ left[w]
               PROVE  Asserted(p)' /\ \A f \in Contents[p] : f \in files'[w] \/ Settled(f)'
    BY <1>2 DEF SelectOK
  <2>1. Clean BY <1>2, <1>3 DEF Clean
  <2>2. Asserted(p) /\ (item[w] = p \/ \A f \in Contents[p] : f \in files[w] \/ Settled(f))
    BY <1>2, <2>1 DEF ProgressInv, Progress, SelectOK
  <2>3. (\A f : Settled(f)' = Settled(f)) /\ Asserted(p)'
    BY <1>2, <1>3, <2>2 DEF Settled, InPlace, Asserted
  <2>4. job' # Failed(job)
    <3>1. Failed(job).errors > 0 BY FailedRecord
    <3> QED BY <3>1 DEF Clean
  <2>5. files[w] \subseteq files'[w] BY <2>4 DEF ListPending, Collect
  <2>6. ASSUME item[w] = p, NEW f \in Contents[p] PROVE f \in files'[w] \/ Settled(f)
    <3>1. CASE ListPending(w)
      <4>1. files'[w] = files[w] \cup (Contents[p] \cap dehydrated) /\ job.operation = "keep"
        BY <2>4, <2>6, <3>1 DEF ListPending
      <4> QED BY <4>1 DEF Settled, InPlace
    <3>2. CASE Collect(w)
      <4>1. files'[w] = files[w] \cup Contents[p] BY <2>1, <2>6, <3>2 DEF Collect, Clean
      <4> QED BY <4>1
    <3> QED BY <3>1, <3>2
  <2> QED BY <2>2, <2>3, <2>5, <2>6
<1> QED BY <1>2, <1>3, <1>4 DEF Progress, StartOK, FilesOK, CountOK, EndOK

LEMMA CountProgress == ASSUME IInv, NEW w \in Workers, Count(w) PROVE Progress(w)'
<1> USE DEF IInv, ControlInv, TypeInv, TypeOK
<1>1. Worker(w) BY DEF Worker
<1>2. /\ at[w] = "select" /\ at'[w] \in {"files", "failed"} /\ left[w] = {} /\ job.done = 0
      /\ UNCHANGED <<selected, touched, dehydrated, pinned, cancel, files>>
  BY DEF Count, Move, world, history, ProgressInv, Progress, CountOK
<1>3. job'.operation = job.operation /\ (job'.errors = 0 => job.errors = 0) /\ job'.done = job.done
  BY <1>1, <1>2, Alone, WorkerRecord
<1>4. CASE at'[w] = "failed"
  BY <1>4 DEF Progress, StartOK, SelectOK, FilesOK, CountOK, EndOK
<1>5. CASE at'[w] = "files"
  <2>1. Cardinality(files[w]) \in Nat BY FS_CardinalityType DEF ListsOK
  <2>2. job'.total = Cardinality(files[w]) BY <2>1, TotalRecord DEF Count
  <2>3. CountOK(w)' BY <1>2, <1>3, <1>5, <2>1, <2>2 DEF CountOK
  <2>4. FilesOK(w)'
    <3> SUFFICES ASSUME Clean', NEW p \in selected
                 PROVE  Asserted(p)' /\ \A f \in Contents[p] : f \in files[w] \/ Settled(f)'
      BY <1>2 DEF FilesOK
    <3>1. Clean BY <1>2, <1>3 DEF Clean
    <3>2. Asserted(p) /\ \A f \in Contents[p] : f \in files[w] \/ Settled(f)
      BY <1>2, <3>1 DEF ProgressInv, Progress, SelectOK
    <3> QED BY <1>2, <1>3, <3>2 DEF Settled, InPlace, Asserted
  <2> QED BY <1>5, <2>3, <2>4 DEF Progress, StartOK, SelectOK, EndOK
<1> QED BY <1>2, <1>4, <1>5

LEMMA LeaveProgress == ASSUME IInv, NEW w \in Workers, Leave(w) PROVE Progress(w)'
<1> USE DEF IInv, ControlInv, TypeInv, TypeOK
<1>1. /\ at[w] = "files" /\ at'[w] = "close" /\ (cancel \/ files[w] = {})
      /\ UNCHANGED <<job, selected, touched, dehydrated, pinned, cancel>>
  BY DEF Leave, Move, world, history
<1>2. cancel \/ job.errors > 0 \/ Finished
  <2> SUFFICES ASSUME ~cancel, ~(job.errors > 0) PROVE Finished OBVIOUS
  <2>1. job.errors \in 0..MaxErrors BY JobFields
  <2>2. job.errors = 0 BY <2>1, ConstantsAssumption
  <2>3. \A p \in selected : Asserted(p) /\ \A f \in Contents[p] : Settled(f)
    BY <1>1, <2>2 DEF Clean, ProgressInv, Progress, FilesOK
  <2>4. job.total = job.done + 0
    BY <1>1, FS_EmptySet DEF ProgressInv, Progress, CountOK
  <2>5. job.done = job.total BY <2>4, Counters
  <2> QED BY <2>3, <2>5 DEF Finished
<1>3. EndOK(w)' BY <1>1, <1>2 DEF EndOK, Finished, Asserted, Settled, InPlace
<1> QED BY <1>1, <1>3 DEF Progress, StartOK, SelectOK, FilesOK, CountOK

LEMMA ExamineProgress == ASSUME IInv, NEW w \in Workers, Examine(w) PROVE Progress(w)'
<1> USE DEF IInv, ControlInv, TypeInv, TypeOK
<1>1. Worker(w) BY DEF Worker
<1>2. at[w] = "files" /\ UNCHANGED <<selected, touched, dehydrated, pinned, cancel>>
  BY DEF Examine, Move, world, history
<1>3. job'.operation = job.operation /\ (job'.errors = 0 => job.errors = 0) /\ job'.total = job.total
  BY <1>1, <1>2, Alone, WorkerRecord
<1>4. PICK f \in files[w] :
        /\ files' = [files EXCEPT ![w] = @ \ {f}]
        /\ \/ Move(w, "files", "files") /\ job' = [Failed(job) EXCEPT !.done = @ + 1]
           \/ InPlace(f) /\ Move(w, "files", "files") /\ job' = [job EXCEPT !.done = @ + 1]
           \/ Move(w, "files", "turn") /\ item' = [item EXCEPT ![w] = f] /\ UNCHANGED job
  BY DEF Examine
<1>5. files'[w] = files[w] \ {f} /\ at'[w] \in {"files", "turn"} BY <1>4 DEF Move
<1>6. \/ at'[w] = "files" /\ job'.done = job.done + 1 /\ job'.errors > 0
      \/ at'[w] = "files" /\ job'.done = job.done + 1 /\ InPlace(f)
      \/ at'[w] = "turn" /\ job'.done = job.done /\ item'[w] = f
  BY <1>4, FailedDoneRecord, CountedRecord DEF Move
<1>7. CountOK(w)'
  <2> DEFINE n == Cardinality(files[w])
  <2>1. /\ n \in Nat /\ Cardinality(files[w] \ {f}) = n - 1 
    BY FS_CardinalityType, FS_RemoveElement DEF ListsOK
  <2>2. job.total = job.done + n BY <1>2 DEF ProgressInv, Progress, CountOK
  <2>3. job.done \in Nat BY Counters
  <2> HIDE DEF n
  <2>4. \/ at'[w] = "files" /\ job'.done = job.done + 1
        \/ at'[w] = "turn" /\ job'.done = job.done
    BY <1>6
  <2>5. job.total = (job.done + 1) + (n - 1) /\ job.total = job.done + 1 + (n - 1)
    BY <2>1, <2>2, <2>3
  <2> QED BY <1>3, <1>5, <2>1, <2>4, <2>5 DEF CountOK
<1>8. FilesOK(w)'
  <2> SUFFICES ASSUME Clean', NEW p \in selected
               PROVE  /\ Asserted(p)'
                      /\ \A g \in Contents[p] : \/ g \in files'[w] \/ Settled(g)'
                                                \/ at'[w] = "turn" /\ item'[w] = g
    BY <1>2 DEF FilesOK
  <2>1. Clean BY <1>2, <1>3 DEF Clean
  <2>2. Asserted(p) /\ \A g \in Contents[p] : g \in files[w] \/ Settled(g)
    BY <1>2, <2>1 DEF ProgressInv, Progress, FilesOK
  <2>3. \A g : Settled(g)' = Settled(g) BY <1>2, <1>3 DEF Settled, InPlace
  <2>4. Settled(f) \/ (at'[w] = "turn" /\ item'[w] = f)
    <3>1. ~(job'.errors > 0) BY DEF Clean
    <3> QED BY <1>6, <3>1 DEF Settled
  <2>5. Asserted(p)' BY <1>2, <1>3, <2>2 DEF Asserted
  <2> QED BY <1>5, <2>2, <2>3, <2>4, <2>5
<1> QED BY <1>5, <1>7, <1>8 DEF Progress, StartOK, SelectOK, EndOK

LEMMA TurnProgress == ASSUME IInv, NEW w \in Workers, Turn(w) PROVE Progress(w)'
<1> USE DEF IInv, ControlInv, TypeInv, TypeOK
<1>1. Worker(w) BY DEF Worker
<1>2. /\ at[w] = "turn" /\ at'[w] = "files"
      /\ UNCHANGED <<selected, touched, pinned, cancel, files>>
  BY DEF Turn, Move, history
<1>3. job'.operation = job.operation /\ (job'.errors = 0 => job.errors = 0) /\ job'.total = job.total
  BY <1>1, <1>2, Alone, WorkerRecord
<1>4. /\ job'.done = job.done + 1
      /\ job'.errors > 0 \/ dehydrated' = IF job.operation = "free" THEN dehydrated \cup {item[w]}
                                                                  ELSE dehydrated \ {item[w]}
  BY FailedDoneRecord, CountedRecord DEF Turn
<1>5. CountOK(w)'
  <2>1. job.total = job.done + 1 + Cardinality(files[w])
    BY <1>2 DEF ProgressInv, Progress, CountOK
  <2> QED BY <1>2, <1>3, <1>4, <2>1 DEF CountOK
<1>6. FilesOK(w)'
  <2> SUFFICES ASSUME Clean', NEW p \in selected
               PROVE  Asserted(p)' /\ \A g \in Contents[p] : g \in files[w] \/ Settled(g)'
    BY <1>2 DEF FilesOK
  <2>1. Clean BY <1>2, <1>3 DEF Clean
  <2>2. Asserted(p) /\ \A g \in Contents[p] : g \in files[w] \/ Settled(g) \/ item[w] = g
    BY <1>2, <2>1 DEF ProgressInv, Progress, FilesOK
  <2>3. ~(job'.errors > 0) BY DEF Clean
  <2>4. \A g : Settled(g) \/ item[w] = g => Settled(g)'
    BY <1>2, <1>3, <1>4, <2>3 DEF Settled, InPlace
  <2>5. Asserted(p)' BY <1>2, <1>3, <2>2 DEF Asserted
  <2> QED BY <2>2, <2>4, <2>5
<1> QED BY <1>2, <1>5, <1>6 DEF Progress, StartOK, SelectOK, EndOK

LEMMA CloseProgress ==
  ASSUME IInv, NEW w \in Workers, RecordError(w) \/ ReadCancel(w) \/ EndJob(w)
  PROVE  Progress(w)' /\ EndsAsAsked'
<1> USE DEF IInv, ControlInv, TypeInv, TypeOK
<1>1. job.running /\ UNCHANGED <<selected, touched, dehydrated, pinned, cancel>>
  <2>1. Worker(w) BY DEF Worker
  <2> QED BY <2>1, Alone DEF RecordError, ReadCancel, EndJob, world
<1>2. CASE RecordError(w)
  <2>1. at'[w] = "close" /\ job'.errors > 0 /\ job'.running
    BY <1>1, <1>2, FailedRecord DEF RecordError, Move, Same
  <2> QED BY <2>1
        DEF Progress, StartOK, SelectOK, FilesOK, CountOK, EndOK, EndsAsAsked
<1>3. CASE ReadCancel(w)
  <2>1. at[w] = "close" /\ at'[w] = "end" BY <1>3 DEF ReadCancel, Move
  <2>2. /\ job'.cancelled = cancel /\ job'.errors = job.errors /\ job'.running
        /\ job'.done = job.done /\ job'.total = job.total /\ job'.operation = job.operation
    BY <1>1, <1>3, CancelledRecord DEF ReadCancel, Same
  <2>3. cancel \/ job.errors > 0 \/ Finished BY <2>1 DEF ProgressInv, Progress, EndOK
  <2>4. Finished => Finished'
    BY <1>1, <2>2 DEF Finished, Asserted, Settled, InPlace
  <2>5. EndOK(w)' BY <2>1, <2>2, <2>3, <2>4 DEF EndOK
  <2> QED BY <2>1, <2>2, <2>5
        DEF Progress, StartOK, SelectOK, FilesOK, CountOK, EndsAsAsked
<1>4. CASE EndJob(w)
  <2>1. at[w] = "end" /\ at'[w] = "none" BY <1>4 DEF EndJob, Move
  <2>2. /\ job'.cancelled = job.cancelled /\ job'.errors = job.errors /\ job'.done = job.done
        /\ job'.total = job.total /\ job'.operation = job.operation
    BY <1>4, EndedRecord DEF EndJob, Same
  <2>3. job.cancelled \/ job.errors > 0 \/ Finished BY <2>1 DEF ProgressInv, Progress, EndOK
  <2>4. job.errors \in 0..MaxErrors BY JobFields
  <2>5. job.cancelled \/ job.errors # 0 \/ Finished BY <2>3, <2>4, ConstantsAssumption
  <2>6. EndsAsAsked'
    BY <1>1, <2>2, <2>5 DEF EndsAsAsked, Finished, Asserted, Settled, InPlace
  <2> QED BY <2>1, <2>6, Idle DEF Progress, StartOK, SelectOK, FilesOK, CountOK, EndOK
<1> QED BY <1>2, <1>3, <1>4

LEMMA WorkerProgress == ASSUME IInv, NEW w \in Workers, Worker(w) PROVE ProgressInv'
<1> USE DEF IInv
<1>1. \A v \in Workers \ {w} : Progress(v)'
  BY Alone DEF Progress, StartOK, SelectOK, FilesOK, CountOK, EndOK
<1>2. CASE at[w] # "end"
  <2>1. job'.running BY <1>2, Alone, WorkerRecord DEF ControlInv
  <2>2. EndsAsAsked' BY <2>1 DEF EndsAsAsked
  <2>3. CASE ClearCancel(w)
    <3>1. at[w] = "start" /\ at'[w] = "select" /\ UNCHANGED <<job, left, selected>>
      BY <2>3 DEF ClearCancel, history, ControlInv, TypeInv, TypeOK
    <3>2. left'[w] = selected' /\ job'.done = 0
      BY <3>1 DEF ProgressInv, Progress, StartOK, CountOK
    <3> QED BY <1>1, <2>2, <3>1, <3>2
          DEF ProgressInv, Progress, StartOK, SelectOK, FilesOK, CountOK, EndOK
  <2>4. CASE Cancelled(w)
    <3>1. at'[w] = "close" /\ cancel'
      BY <2>4 DEF Cancelled, Move, ControlInv, TypeInv, TypeOK
    <3> QED BY <1>1, <2>2, <3>1
          DEF ProgressInv, Progress, StartOK, SelectOK, FilesOK, CountOK, EndOK
  <2>5. CASE RequestLost(w) \/ ListLost(w)
    <3>1. at'[w] = "failed"
      BY <2>5 DEF RequestLost, ListLost, Abort, Move, ControlInv, TypeInv, TypeOK
    <3> QED BY <1>1, <2>2, <3>1
          DEF ProgressInv, Progress, StartOK, SelectOK, FilesOK, CountOK, EndOK
  <2>6. CASE ~(ClearCancel(w) \/ Cancelled(w) \/ RequestLost(w) \/ ListLost(w))
    <3>1. Progress(w)'
      BY <2>6, RequestProgress, ListProgress, CountProgress, LeaveProgress, ExamineProgress,
         TurnProgress, CloseProgress DEF Worker
    <3> QED BY <1>1, <2>2, <3>1 DEF ProgressInv
  <2> QED BY <2>3, <2>4, <2>5, <2>6
<1>3. CASE at[w] = "end"
  <2>1. EndJob(w)
    BY <1>3 DEF Worker, ClearCancel, Cancelled, Request, RequestLost, ListPending, Collect,
        ListLost, Count, Leave, Examine, Turn, RecordError, ReadCancel, Move, Abort
  <2> QED BY <1>1, <2>1, CloseProgress DEF ProgressInv
<1> QED BY <1>2, <1>3

LEMMA StartProgress ==
  ASSUME IInv, NEW w \in Workers, NEW operation \in {"keep", "free"},
         NEW paths \in SUBSET Paths, StartJob(w, operation, paths)
  PROVE  ProgressInv'
<1> USE DEF IInv, ControlInv, TypeInv, TypeOK
<1>2. job'.running = TRUE /\ job'.done = 0 BY StartRecord
<1>3. at'[w] = "start" /\ left'[w] = selected' BY DEF StartJob
<1>4. \A v \in Workers : v # w => at'[v] = "none" BY DEF StartJob, Exclusive, Active
<1>5. EndsAsAsked' BY <1>2 DEF EndsAsAsked
<1> QED BY <1>2, <1>3, <1>4, <1>5
      DEF ProgressInv, Progress, StartOK, SelectOK, FilesOK, CountOK, EndOK

LEMMA OthersProgress == ASSUME IInv, Cancel \/ Others \/ UNCHANGED vars PROVE ProgressInv'
<1> USE DEF IInv
<1>1. UNCHANGED <<job, at, left, item, files, selected>>
  BY DEF Cancel, Others, vars, local, history
<1>2. \A p : Asserted(p) => Asserted(p)'
  BY <1>1 DEF Asserted, Cancel, Others, vars, world, history
<1>3. \A f : Settled(f) => Settled(f)'
  BY <1>1 DEF Settled, InPlace, Cancel, Others, vars, world, history
<1>4. (Clean' => Clean) /\ (cancel => cancel')
  BY <1>1 DEF Clean, Cancel, Others, vars
<1>5. Finished => Finished' BY <1>1, <1>2, <1>3 DEF Finished
<1>6. EndsAsAsked'
  <2> SUFFICES ASSUME job.id > 0 /\ ~job.running /\ ~job.cancelled /\ job.errors = 0
               PROVE  Finished'
    BY <1>1 DEF EndsAsAsked, Finished, Asserted, Settled
  <2>1. Finished BY DEF ProgressInv, EndsAsAsked, Finished, Asserted, Settled
  <2> QED BY <2>1, <1>5
<1>7. ASSUME NEW w \in Workers PROVE Progress(w)'
  <2>0. Progress(w) BY DEF ProgressInv
  <2>1. StartOK(w)' /\ CountOK(w)' BY <1>1, <2>0 DEF Progress, StartOK, CountOK
  <2>2. SelectOK(w)' BY <1>1, <1>2, <1>3, <1>4, <2>0 DEF Progress, SelectOK
  <2>3. FilesOK(w)' BY <1>1, <1>2, <1>3, <1>4, <2>0 DEF Progress, FilesOK
  <2>4. EndOK(w)' BY <1>1, <1>4, <1>5, <2>0 DEF Progress, EndOK
  <2> QED BY <2>1, <2>2, <2>3, <2>4 DEF Progress
<1> QED BY <1>6, <1>7 DEF ProgressInv

\* The inductive invariant, of which the properties below are consequences.
THEOREM Invariance == Spec => []IInv
<1>1. Init => IInv
  <2> SUFFICES ASSUME Init PROVE IInv OBVIOUS
  <2>1. \A w \in Workers : Progress(w) BY Idle DEF Init
  <2>2. EndsAsAsked BY DEF Init, NoJob, EndsAsAsked
  <2> QED BY <2>1, <2>2, ControlInvariance DEF IInv, ProgressInv
<1>2. IInv /\ [Next]_vars => IInv'
  <2> SUFFICES ASSUME IInv, [Next]_vars PROVE IInv' OBVIOUS
  <2>1. ControlInv' BY ControlInvariance DEF IInv
  <2>2. ProgressInv' BY StartProgress, WorkerProgress, OthersProgress DEF Next, Starts
  <2> QED BY <2>1, <2>2 DEF IInv
<1> QED BY <1>1, <1>2, PTL DEF Spec

\* A job that ends neither cancelled nor with an error has done what was asked.
THEOREM CleanEndIsWhole == Spec => []EndsAsAsked
<1>1. IInv => EndsAsAsked BY DEF IInv, ProgressInv
<1> QED BY <1>1, Invariance, PTL
-----------------------------------------------------------------------------
(* The record as its readers see it.                                        *)

\* Only the end of a job marks it cancelled.
UnmarkedInv == \A w \in Workers : Active(w) /\ at[w] # "end" => ~job.cancelled

LEMMA UnmarkedStep == IInv /\ UnmarkedInv /\ [Next]_vars => UnmarkedInv'
<1> SUFFICES ASSUME IInv, UnmarkedInv, [Next]_vars PROVE UnmarkedInv' OBVIOUS
<1>1. ASSUME NEW w \in Workers, Worker(w) PROVE UnmarkedInv'
  <2>1. /\ \A v \in Workers : v # w => at'[v] = "none"
        /\ at[w] # "none" /\ (at'[w] = "none" <=> at[w] = "end")
        /\ at[w] # "close" => job'.cancelled = job.cancelled
    BY <1>1, Alone, WorkerControl, WorkerRecord DEF IInv, ControlInv
  <2>2. CASE at[w] = "close"
    <3>1. ReadCancel(w) BY <1>1, <2>2 DEF Worker, ClearCancel, Cancelled, Request, RequestLost, ListPending,
            Collect, ListLost, Count, Leave, Examine, Turn, RecordError, EndJob, Move, Abort
    <3>2. at'[w] = "end" BY <3>1 DEF ReadCancel, Move, IInv, ControlInv, TypeInv, TypeOK
    <3> QED BY <2>1, <3>2 DEF UnmarkedInv, Active
  <2> QED BY <2>1, <2>2 DEF UnmarkedInv, Active
<1>2. ASSUME NEW w \in Workers, Starts(w) PROVE UnmarkedInv'
  <2>1. job'.cancelled = FALSE BY <1>2, StartRecord DEF Starts, IInv, ControlInv, TypeInv
  <2> QED BY <2>1 DEF UnmarkedInv
<1>3. CASE Cancel \/ Others \/ UNCHANGED vars
  BY <1>3 DEF Cancel, Others, vars, local, UnmarkedInv, Active
<1> QED BY <1>1, <1>2, <1>3 DEF Next

LEMMA EndedAtOnce == ASSUME NEW j \in Job
  PROVE [j EXCEPT !.running = FALSE] =
          [[[j EXCEPT !.cancelled = FALSE] EXCEPT !.running = FALSE] EXCEPT !.cancelled = j.cancelled]
BY DEF Job

LEMMA CancelledHidden == ASSUME NEW j \in Job, ~j.cancelled, NEW c
  PROVE [[j EXCEPT !.cancelled = c] EXCEPT !.cancelled = FALSE] = j
BY DEF Job

LEMMA CountedAtOnce == ASSUME NEW j \in Job
  PROVE /\ [j EXCEPT !.done = @ + 1] = [[j EXCEPT !.done = @ + 1] EXCEPT !.errors = j.errors]
        /\ [Failed(j) EXCEPT !.done = @ + 1] = [[j EXCEPT !.done = @ + 1] EXCEPT !.errors = Failed(j).errors]
<1>1. PICK n : n = j.done + 1 OBVIOUS
<1>2. [j EXCEPT !.done = n] = [[j EXCEPT !.done = n] EXCEPT !.errors = j.errors] BY DEF Job
<1>3. PICK e : Failed(j) = [j EXCEPT !.errors = e] BY DEF Failed
<1>4. Failed(j).errors = e /\ Failed(j).done = j.done BY <1>3 DEF Job
<1>5. [[j EXCEPT !.errors = e] EXCEPT !.done = n] = [[j EXCEPT !.done = n] EXCEPT !.errors = e] BY DEF Job
<1> QED BY <1>1, <1>2, <1>3, <1>4, <1>5

LEMMA ErrorNoted == ASSUME NEW j \in Job
  PROVE /\ j.errors \in Record!Noted(j.errors)
        /\ Failed(j).errors \in Record!Noted(j.errors) /\ Failed(j) = [j EXCEPT !.errors = Failed(j).errors]
<1>1. j.errors \in 0..MaxErrors /\ MaxErrors \in Nat BY ConstantsAssumption DEF Job
<1> DEFINE e == IF j.errors < MaxErrors THEN j.errors + 1 ELSE j.errors
<1>2. e \in Record!Noted(j.errors) BY <1>1 DEF Record!Noted
<1> HIDE DEF e
<1>3. Failed(j) = [j EXCEPT !.errors = e] BY DEF Failed, e
<1>4. Failed(j).errors = e BY <1>3 DEF Job
<1> QED BY <1>2, <1>3, <1>4 DEF Record!Noted

\* A start is a start of the record; its mutex is held from the first half to the second.
LEMMA StartsRecord ==
  ASSUME IInv, NEW w \in Workers, Starts(w) PROVE \E operation \in {"keep", "free"} : Record!Start(operation)
<1>1. PICK operation \in {"keep", "free"}, paths \in SUBSET Paths : StartJob(w, operation, paths)
  BY DEF Starts
<1>2. \A v \in Workers : at[v] = "none" BY <1>1 DEF StartJob, IInv, ControlInv, Exclusive, Active
<1>3. \A v \in Workers : at'[v] # "end" BY <1>1, <1>2 DEF StartJob
<1>4. Visible = job /\ Visible' = job' BY <1>2, <1>3 DEF Visible
<1>5. job' = Record!New(job.id + 1, TRUE, operation) BY <1>1 DEF StartJob, NoJob, Record!New
<1> QED BY <1>1, <1>4, <1>5 DEF StartJob, Record!Start

LEMMA WorkersRecord ==
  ASSUME IInv, UnmarkedInv, NEW w \in Workers, Worker(w)
  PROVE  Record!Next \/ UNCHANGED <<Visible, stop>>
<1> USE DEF Move
<1>0. ControlInv /\ TypeInv /\ TypeOK BY DEF IInv, ControlInv, TypeInv
<1>a. at[w] # "none" /\ UNCHANGED stop BY <1>0, WorkerControl DEF history
<1>b. job \in Job /\ job' \in Job BY <1>0, WorkerRecord DEF TypeOK
<1>c. job.running /\ \A v \in Workers : v # w => at'[v] = "none" BY <1>0, Alone
<1>d. \A v \in Workers : v # w => at[v] = "none" BY <1>0, <1>a DEF ControlInv, Exclusive, Active
<1>e. Progress(w) BY DEF IInv, ProgressInv
<1>f. at \in [Workers -> {"none", "start", "select", "list", "files", "turn", "failed", "close", "end"}]
  BY <1>0 DEF TypeOK
<1>1. /\ at[w] # "none" /\ UNCHANGED stop /\ job.running /\ job \in Job /\ job' \in Job
      /\ \A v \in Workers : v # w => at[v] = "none" /\ at'[v] = "none"
      /\ Progress(w) /\ at \in [Workers -> {"none", "start", "select", "list", "files", "turn", "failed",
                                           "close", "end"}]
  BY <1>a, <1>b, <1>c, <1>d, <1>e, <1>f
<1>2. CASE EndJob(w)
  <2>1. at[w] = "end" /\ job' = [job EXCEPT !.running = FALSE] /\ at'[w] = "none" BY <1>1, <1>2 DEF EndJob
  <2>2. Visible = [job EXCEPT !.cancelled = FALSE] /\ Visible' = job' BY <1>1, <2>1 DEF Visible
  <2>3. Visible' = [[Visible EXCEPT !.running = FALSE] EXCEPT !.cancelled = job.cancelled]
    BY <1>1, <2>1, <2>2, EndedAtOnce
  <2>4. Same(Visible, job, {"cancelled"}) /\ job.cancelled \in BOOLEAN BY <1>1, <2>2, CancelledRecord, JobFields
  <2>5. job.cancelled \/ job.errors > 0 \/ job.done = job.total
    BY <1>1, <2>1 DEF Progress, EndOK, Finished
  <2>6. job.cancelled => stop.id = job.id BY DEF IInv, ControlInv, CancelledWasAsked
  <2>7. Record!Finish(job.cancelled) BY <1>1, <2>3, <2>4, <2>5, <2>6 DEF Record!Finish, Record!Stopped, Same
  <2> QED BY <2>4, <2>7 DEF Record!Next
<1>3. CASE ReadCancel(w)
  <2>1. at[w] = "close" /\ job' = [job EXCEPT !.cancelled = cancel] /\ at'[w] = "end" /\ ~job.cancelled
    BY <1>1, <1>3 DEF ReadCancel, UnmarkedInv, Active
  <2>2. Visible = job /\ Visible' = [job' EXCEPT !.cancelled = FALSE] BY <1>1, <2>1 DEF Visible
  <2> QED BY <1>1, <2>1, <2>2, CancelledHidden
<1>4. CASE ~EndJob(w) /\ ~ReadCancel(w)
  <2>1. at[w] # "end" /\ at'[w] # "end"
    BY <1>1, <1>4 DEF Worker, ClearCancel, Cancelled, Request, RequestLost, ListPending, Collect, ListLost,
       Count, Leave, Examine, Turn, RecordError, Abort
  <2>2. Visible = job /\ Visible' = job' BY <1>1, <2>1 DEF Visible
  <2>3. CASE UNCHANGED job BY <1>1, <2>2, <2>3
  <2>4. CASE job' = Failed(job)
    <3>1. Record!NoteError BY <1>1, <2>2, <2>4, ErrorNoted DEF Record!NoteError
    <3> QED BY <3>1 DEF Record!Next
  <2>5. CASE Count(w)
    <3>1. job' = [job EXCEPT !.total = Cardinality(files[w])] /\ at[w] = "select" BY <2>5 DEF Count
    <3>2. job.done = 0 BY <1>1, <3>1 DEF Progress, CountOK
    <3>3. job'.total = Cardinality(files[w]) /\ job'.total \in Nat BY <1>1, <3>1, JobFields DEF Job
    <3>4. Record!SetTotal BY <1>1, <2>2, <3>1, <3>2, <3>3 DEF Record!SetTotal
    <3> QED BY <3>4 DEF Record!Next
  <2>6. CASE Examine(w) \/ Turn(w)
    <3>1. CASE job' = job BY <2>3, <3>1
    <3>2. CASE job' # job
      <4>1. job' = [Failed(job) EXCEPT !.done = @ + 1] \/ job' = [job EXCEPT !.done = @ + 1]
        BY <2>6, <3>2 DEF Examine, Turn
      <4>2. \E e \in Record!Noted(job.errors) : job' = [[job EXCEPT !.done = @ + 1] EXCEPT !.errors = e]
        <5>1. CASE job' = [job EXCEPT !.done = @ + 1]
          <6>1. job' = [[job EXCEPT !.done = @ + 1] EXCEPT !.errors = job.errors] BY <1>1, <5>1, CountedAtOnce
          <6>2. job.errors \in Record!Noted(job.errors) BY <1>1, ErrorNoted
          <6> QED BY <6>1, <6>2
        <5>2. CASE job' = [Failed(job) EXCEPT !.done = @ + 1]
          <6> DEFINE e == Failed(job).errors
          <6>1. job' = [[job EXCEPT !.done = @ + 1] EXCEPT !.errors = e] BY <1>1, <5>2, CountedAtOnce
          <6>2. e \in Record!Noted(job.errors) BY <1>1, ErrorNoted
          <6> HIDE DEF e
          <6> QED BY <6>1, <6>2
        <5> QED BY <4>1, <5>1, <5>2
      <4>3. job.done < job.total
        <5>1. job.done \in Nat /\ job.total \in Nat /\ IsFiniteSet(files[w])
          BY <1>1, JobFields DEF IInv, ControlInv, TypeInv, ListsOK
        <5>2. Cardinality(files[w]) \in Nat /\ (Cardinality(files[w]) = 0 <=> files[w] = {})
          BY <5>1, FS_CardinalityType, FS_EmptySet
        <5>3. CASE Turn(w)
          <6>1. job.total = job.done + 1 + Cardinality(files[w])
            BY <1>1, <5>3 DEF Turn, Progress, CountOK
          <6> QED BY <5>1, <5>2, <6>1
        <5>4. CASE Examine(w)
          <6>1. files[w] # {} /\ job.total = job.done + Cardinality(files[w])
            BY <1>1, <5>4 DEF Examine, Progress, CountOK
          <6> QED BY <5>1, <5>2, <6>1
        <5> QED BY <2>6, <5>3, <5>4
      <4>4. stop.id = job.id => job.done <= stop.done
        <5>1. CASE Turn(w) BY <1>1, <5>1 DEF Turn, IInv, ControlInv, DoneOK
        <5>2. CASE Examine(w)
          <6>1. at[w] = "files" /\ ~cancel BY <5>2 DEF Examine
          <6> QED BY <6>1 DEF IInv, ControlInv, CancelOK, Started
        <5> QED BY <2>6, <5>1, <5>2
      <4>5. Record!Count BY <1>1, <2>2, <4>2, <4>3, <4>4 DEF Record!Count, Record!Stopped
      <4> QED BY <4>5 DEF Record!Next
    <3> QED BY <3>1, <3>2
  <2> QED BY <1>4, <2>3, <2>4, <2>5, <2>6
      DEF Worker, ClearCancel, Cancelled, Request, RequestLost, ListPending, Collect, ListLost,
          Leave, RecordError, Abort
<1> QED BY <1>2, <1>3, <1>4

LEMMA OthersRecord ==
  ASSUME IInv, Cancel \/ Others \/ UNCHANGED vars PROVE Record!Next \/ UNCHANGED <<Visible, stop>>
<1>1. UNCHANGED <<job, at>> BY DEF Cancel, Others, vars, local
<1>2. Visible' = Visible BY <1>1 DEF Visible
<1>3. job \in Job BY DEF IInv, ControlInv, TypeInv, TypeOK
<1>4. Same(Visible, job, {"cancelled"})
  BY <1>3, CancelledRecord DEF Visible, Same
<1>5. stop' = stop \/ Record!Cancel
  BY <1>2, <1>4 DEF Cancel, Others, vars, history, Record!Cancel, Record!Stopped, Same
<1> QED BY <1>2, <1>5 DEF Record!Next

\* Every behaviour of starts, cancels, workers and others is one that the record promises
\* its readers: numbers in turn, a total before the count, one file at most after a cancel,
\* an end that says how it came, and nothing after it.
THEOREM ImplementsRecord == Spec => Record!Safety
<1>1. Init => UnmarkedInv /\ Record!Init
  <2> SUFFICES ASSUME Init PROVE UnmarkedInv /\ Record!Init OBVIOUS
  <2>1. Visible = job BY DEF Init, Visible
  <2>2. job = Record!New(0, FALSE, "") BY DEF Init, NoJob, Record!New
  <2> QED BY <2>1, <2>2 DEF Init, UnmarkedInv, Active, Record!Init
<1>2. IInv /\ UnmarkedInv /\ [Next]_vars => UnmarkedInv' BY UnmarkedStep
<1>3. IInv /\ UnmarkedInv /\ [Next]_vars => [Record!Next]_Record!record
  <2> SUFFICES ASSUME IInv, UnmarkedInv, [Next]_vars PROVE Record!Next \/ UNCHANGED <<Visible, stop>>
    BY DEF Record!record
  <2>1. ASSUME NEW w \in Workers, Starts(w) PROVE Record!Next BY <2>1, StartsRecord DEF Record!Next
  <2> QED BY <2>1, WorkersRecord, OthersRecord DEF Next
<1> QED BY <1>1, <1>2, <1>3, Invariance, PTL DEF Spec, Record!Safety
=============================================================================
