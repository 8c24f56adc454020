------------------------------ MODULE JobRecord ------------------------------
(***************************************************************************)
(* What the record of an availability job promises its readers: a start    *)
(* gives it the next number and makes it new; its total is known before    *)
(* the first file is counted; files are counted one by one, after a cancel *)
(* one at most; it ends once, cancelled only if somebody asked for it, and *)
(* with every file counted if neither that nor an error is the reason; it  *)
(* stays as it ended; and it ends.  Workers, locks and the cancel flag are *)
(* the business of Jobs.                                                   *)
(***************************************************************************)
EXTENDS Naturals

CONSTANT MaxErrors

VARIABLES
  job,   \* the record
  stop   \* the last job that somebody cancelled, and its count then

record == <<job, stop>>

New(id, running, operation) ==
  [id |-> id, running |-> running, operation |-> operation, done |-> 0, total |-> 0,
   cancelled |-> FALSE, errors |-> 0]

Stopped == stop.id = job.id

Init == job = New(0, FALSE, "") /\ stop = [id |-> 0, done |-> 0]

Start(operation) == ~job.running /\ job' = New(job.id + 1, TRUE, operation) /\ UNCHANGED stop

Cancel == job.running /\ ~Stopped /\ stop' = [id |-> job.id, done |-> job.done] /\ UNCHANGED job

SetTotal ==
  /\ job.running /\ job.done = 0 /\ job'.total \in Nat
  /\ job' = [job EXCEPT !.total = job'.total] /\ UNCHANGED stop

\* An error more, of those a record keeps.
Noted(errors) == {errors} \cup {e \in {errors + 1} : e <= MaxErrors}

Count ==
  /\ job.running /\ job.done < job.total /\ (Stopped => job.done <= stop.done)
  /\ \E e \in Noted(job.errors) : job' = [[job EXCEPT !.done = @ + 1] EXCEPT !.errors = e]
  /\ UNCHANGED stop

NoteError ==
  /\ job.running /\ UNCHANGED stop
  /\ \E e \in Noted(job.errors) : job' = [job EXCEPT !.errors = e]

Finish(cancelled) ==
  /\ job.running /\ (cancelled => Stopped)
  /\ cancelled \/ job.errors > 0 \/ job.done = job.total
  /\ job' = [[job EXCEPT !.running = FALSE] EXCEPT !.cancelled = cancelled] /\ UNCHANGED stop

Next ==
  \/ \E operation \in {"keep", "free"} : Start(operation)
  \/ Cancel \/ SetTotal \/ Count \/ NoteError
  \/ \E cancelled \in BOOLEAN : Finish(cancelled)

Safety == Init /\ [][Next]_record

Spec == Safety /\ (job.running ~> ~job.running)
=============================================================================
