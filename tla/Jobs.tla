-------------------------------- MODULE Jobs --------------------------------
(***************************************************************************)
(* Availability jobs of the state service: jobs.rs, and the methods of     *)
(* dbus.rs that start and cancel them.                                     *)
(*                                                                         *)
(* A start takes the mutex of the job record, makes a new record, clears   *)
(* the cancel flag and spawns a worker thread.  The worker asks the daemon *)
(* to pin or unpin each selected path, lists the files below it, and turns *)
(* them one by one.  A cancel only sets the flag, without the mutex, and   *)
(* does not say which job it is meant for.  Wrappers, other clients and    *)
(* the daemon itself pin and turn files meanwhile.                         *)
(***************************************************************************)
EXTENDS Naturals, FiniteSets

CONSTANTS
  Workers,    \* worker threads a start can spawn
  Paths,      \* what can be selected: disjoint, as nested selections are merged
  Folders,    \* the paths that are folders
  Contents,   \* the files of each path
  MaxErrors,  \* error messages a record keeps
  MaxJobs,    \* bound: starts
  MaxTouched, \* bound: paths and files others change during one job
  Free        \* nobody holds the mutex

Files == UNION {Contents[p] : p \in Paths}

ASSUME ConstantsAssumption ==
  /\ Folders \subseteq Paths
  /\ \A p \in Paths : IsFiniteSet(Contents[p])
  /\ \A p, q \in Paths : p # q => Contents[p] \cap Contents[q] = {}
  /\ \A p \in Paths \ Folders : Cardinality(Contents[p]) = 1
  /\ MaxErrors \in Nat \ {0} /\ {MaxJobs, MaxTouched} \subseteq Nat /\ Free \notin Workers

Job == [id : 0..MaxJobs, running : BOOLEAN, operation : {"keep", "free", ""},
        done : Nat, total : Nat, cancelled : BOOLEAN, errors : 0..MaxErrors]

NoJob == [id |-> 0, running |-> FALSE, operation |-> "", done |-> 0, total |-> 0,
          cancelled |-> FALSE, errors |-> 0]

VARIABLES
  job,        \* Jobs.state
  lock,       \* who holds its mutex over more than one step
  cancel,     \* Jobs.cancel
  at,         \* where each worker is
  left,       \* selected paths it has not asked the daemon about
  item,       \* the folder it lists, or the file it turns
  files,      \* files it has found and not yet examined
  pinned,     \* the paths the daemon has pinned
  dehydrated, \* the files that are placeholders
  selected,   \* history: the paths the last job was started on
  touched,    \* history: paths and files others changed since that start
  stop        \* history: the last job cancelled while it ran, and how far it was

local   == <<at, left, item, files>>
world   == <<pinned, dehydrated>>
history == <<selected, touched, stop>>
vars == <<job, lock, cancel, local, world, history>>

Init ==
  /\ job = NoJob /\ lock = Free /\ cancel = FALSE
  /\ at = [w \in Workers |-> "none"] /\ left = [w \in Workers |-> {}]
  /\ item = [w \in Workers |-> Free] /\ files = [w \in Workers |-> {}]
  /\ pinned = {} /\ dehydrated \in SUBSET Files
  /\ selected = {} /\ touched = {} /\ stop = [id |-> 0, done |-> 0]
-----------------------------------------------------------------------------
(* Jobs::start, behind the checks of start_availability_job, and cancel.    *)

\* mutants: no look at `running`; or the flag cleared before that look
StartUnchecked(w, operation, paths) ==
  /\ at[w] = "none" /\ lock = Free /\ job.id < MaxJobs
  /\ job' = [NoJob EXCEPT !.id = job.id + 1, !.running = TRUE, !.operation = operation]
  /\ lock' = w /\ at' = [at EXCEPT ![w] = "start"] /\ left' = [left EXCEPT ![w] = paths]
  /\ selected' = paths /\ touched' = {}
  /\ UNCHANGED <<cancel, item, files, world, stop>>
StartClearing(w, operation, paths) ==
  \/ /\ ~job.running /\ StartUnchecked(w, operation, paths)
  \/ /\ job.running /\ at[w] = "none" /\ cancel' = FALSE
     /\ UNCHANGED <<job, lock, local, world, history>>

\* The mutex is taken and, when no job runs, the new record is in place ...
StartJob(w, operation, paths) ==
  /\ at[w] = "none" /\ lock = Free /\ ~job.running /\ job.id < MaxJobs
  /\ job' = [NoJob EXCEPT !.id = job.id + 1, !.running = TRUE, !.operation = operation]
  /\ lock' = w /\ at' = [at EXCEPT ![w] = "start"] /\ left' = [left EXCEPT ![w] = paths]
  /\ selected' = paths /\ touched' = {}
  /\ UNCHANGED <<cancel, item, files, world, stop>>

\* ... the flag is cleared, the mutex given up, the worker spawned.
ClearNever(w) ==                                                   \* mutant
  /\ at[w] = "start" /\ at' = [at EXCEPT ![w] = "select"] /\ lock' = Free
  /\ UNCHANGED <<job, cancel, left, item, files, world, history>>
ClearCancel(w) ==
  /\ at[w] = "start" /\ at' = [at EXCEPT ![w] = "select"] /\ lock' = Free
  /\ cancel' = FALSE
  /\ UNCHANGED <<job, left, item, files, world, history>>

\* Whoever cancels has seen the job run, which the mutex hides until its start
\* is over: a cancel before that is a late one for an earlier job.
Cancel ==
  /\ cancel' = TRUE
  /\ stop' = IF job.running /\ stop.id # job.id /\ (\A w \in Workers : at[w] # "start")
             THEN [id |-> job.id, done |-> job.done] ELSE stop
  /\ UNCHANGED <<job, lock, local, world, selected, touched>>
-----------------------------------------------------------------------------
(* The worker: Jobs::run, collect, and the closure that start spawns.       *)

Failed(j) == [j EXCEPT !.errors = IF @ < MaxErrors THEN @ + 1 ELSE @]

Move(w, from, to) == at[w] = from /\ at' = [at EXCEPT ![w] = to]

\* `?`: run returns its error, and the closure records it.
Abort(w, from) == Move(w, from, "failed") /\ UNCHANGED <<job, left, item, files>>

\* Before each request the flag is read; a cancelled run returns.
Cancelled(w) ==
  /\ cancel /\ Move(w, "select", "close") /\ left[w] # {}
  /\ UNCHANGED <<job, lock, cancel, left, item, files, world, history>>

Asked(p) == IF job.operation = "keep" THEN pinned \cup {p} ELSE pinned \ {p}

\* "pin" or "unpin": an unexpected reply is noted and the path passed over.
Request(w) ==
  /\ ~cancel /\ lock = Free
  /\ \E p \in left[w] :
       /\ left' = [left EXCEPT ![w] = @ \ {p}]
       /\ \/ /\ pinned' = Asked(p)
             /\ Move(w, "select", IF p \in Folders THEN "list" ELSE "select")
             /\ item' = [item EXCEPT ![w] = IF p \in Folders THEN p ELSE Free]
             /\ files' = [files EXCEPT ![w] = IF p \in Folders THEN @ ELSE @ \cup Contents[p]]
             /\ UNCHANGED job
          \/ Move(w, "select", "select") /\ job' = Failed(job)
             /\ UNCHANGED <<item, files, pinned>>
  /\ UNCHANGED <<lock, cancel, dehydrated, history>>

\* No reply: the daemon may have done it all the same.
RequestLost(w) ==
  /\ ~cancel /\ Abort(w, "select")
  /\ \E p \in left[w] : pinned' \in {pinned, Asked(p)}
  /\ UNCHANGED <<lock, cancel, dehydrated, history>>

\* "pending" lists what the daemon still has to fetch below the folder.
ListPending(w) ==
  /\ job.operation = "keep" /\ lock = Free /\ Move(w, "list", "select")
  /\ item' = [item EXCEPT ![w] = Free]
  /\ \/ /\ files' = [files EXCEPT ![w] = @ \cup (Contents[item[w]] \cap dehydrated)]
        /\ UNCHANGED job
     \/ job' = Failed(job) /\ UNCHANGED files
  /\ UNCHANGED <<lock, cancel, left, world, history>>

\* collect walks the folder, and stops wherever it is when the flag is set.
Collect(w) ==
  /\ job.operation = "free" /\ Move(w, "list", "select")
  /\ item' = [item EXCEPT ![w] = Free]
  /\ \E found \in IF cancel THEN SUBSET Contents[item[w]] ELSE {Contents[item[w]]} :
       files' = [files EXCEPT ![w] = @ \cup found]
  /\ UNCHANGED <<job, lock, cancel, left, world, history>>

\* No reply, a child outside the folder, a directory that cannot be read.
ListLost(w) ==
  /\ Abort(w, "list")
  /\ UNCHANGED <<lock, cancel, world, history>>

\* The total is set; then the path of the ctl program may not be found.
Count(w) ==
  /\ left[w] = {} /\ lock = Free
  /\ Move(w, "select", "files") \/ Move(w, "select", "failed")
  /\ job' = [job EXCEPT !.total = Cardinality(files[w])]
  /\ UNCHANGED <<lock, cancel, left, item, files, world, history>>

\* The loop over the files is left when the flag is set or nothing remains.
Leave(w) ==
  /\ cancel \/ files[w] = {}
  /\ Move(w, "files", "close")
  /\ UNCHANGED <<job, lock, cancel, left, item, files, world, history>>

InPlace(f) == IF job.operation = "free" THEN f \in dehydrated ELSE f \notin dehydrated

\* One file: it has moved or its mark cannot be read; it is as asked already;
\* or it has to be turned.
ExamineAlways(w) ==                                                \* mutant
  /\ lock = Free
  /\ \E f \in files[w] :
       /\ files' = [files EXCEPT ![w] = @ \ {f}]
       /\ \/ Move(w, "files", "files") /\ job' = [Failed(job) EXCEPT !.done = @ + 1]
             /\ UNCHANGED item
          \/ InPlace(f) /\ Move(w, "files", "files") /\ job' = [job EXCEPT !.done = @ + 1]
             /\ UNCHANGED item
          \/ ~InPlace(f) /\ Move(w, "files", "turn") /\ item' = [item EXCEPT ![w] = f]
             /\ UNCHANGED job
  /\ UNCHANGED <<lock, cancel, left, world, history>>
Examine(w) ==
  /\ ~cancel /\ lock = Free
  /\ \E f \in files[w] :
       /\ files' = [files EXCEPT ![w] = @ \ {f}]
       /\ \/ Move(w, "files", "files") /\ job' = [Failed(job) EXCEPT !.done = @ + 1]
             /\ UNCHANGED item
          \/ InPlace(f) /\ Move(w, "files", "files") /\ job' = [job EXCEPT !.done = @ + 1]
             /\ UNCHANGED item
          \/ ~InPlace(f) /\ Move(w, "files", "turn") /\ item' = [item EXCEPT ![w] = f]
             /\ UNCHANGED job
  /\ UNCHANGED <<lock, cancel, left, world, history>>

\* "evict", or a ctl process that reads the file through.  An eviction that
\* finds a placeholder is content; any other reply is an error, and so is a
\* reply that was lost.
Turn(w) ==
  /\ lock = Free /\ Move(w, "turn", "files") /\ item' = [item EXCEPT ![w] = Free]
  /\ LET turned == IF job.operation = "free" THEN dehydrated \cup {item[w]}
                   ELSE dehydrated \ {item[w]}
     IN \/ dehydrated' = turned /\ job' = [job EXCEPT !.done = @ + 1]
        \/ /\ dehydrated' \in {dehydrated, turned}
           /\ job' = [Failed(job) EXCEPT !.done = @ + 1]
  /\ UNCHANGED <<lock, cancel, left, files, pinned, history>>

\* mutant: an error of run ends the closure
RecordAndStop(w) ==
  /\ lock = Free /\ Move(w, "failed", "none") /\ job' = Failed(job)
  /\ UNCHANGED <<lock, cancel, left, item, files, world, history>>
RecordError(w) ==
  /\ lock = Free /\ Move(w, "failed", "close") /\ job' = Failed(job)
  /\ UNCHANGED <<lock, cancel, left, item, files, world, history>>

\* The end, under the mutex: the flag is read, then the job stops running.
ReadCancel(w) ==
  /\ lock = Free /\ lock' = w /\ Move(w, "close", "end")
  /\ job' = [job EXCEPT !.cancelled = cancel]
  /\ UNCHANGED <<cancel, left, item, files, world, history>>

EndJob(w) ==
  /\ Move(w, "end", "none") /\ lock' = Free
  /\ job' = [job EXCEPT !.running = FALSE]
  /\ left' = [left EXCEPT ![w] = {}] /\ item' = [item EXCEPT ![w] = Free]
  /\ files' = [files EXCEPT ![w] = {}]
  /\ UNCHANGED <<cancel, world, history>>

Worker(w) ==
  \/ ClearCancel(w) \/ Cancelled(w) \/ Request(w) \/ RequestLost(w) \/ ListPending(w)
  \/ Collect(w) \/ ListLost(w) \/ Count(w) \/ Leave(w) \/ Examine(w)
  \/ Turn(w) \/ RecordError(w) \/ ReadCancel(w) \/ EndJob(w)
-----------------------------------------------------------------------------
(* Wrappers, other clients and the daemon change what the worker sees.      *)

Others ==
  /\ \/ \E p \in Paths : /\ pinned' = (pinned \ {p}) \cup ({p} \ pinned)
                         /\ touched' = touched \cup {p} /\ UNCHANGED dehydrated
     \/ \E f \in Files : /\ dehydrated' = (dehydrated \ {f}) \cup ({f} \ dehydrated)
                         /\ touched' = touched \cup {f} /\ UNCHANGED pinned
  /\ Cardinality(touched') <= MaxTouched
  /\ UNCHANGED <<job, lock, cancel, local, selected, stop>>

Starts(w) == \E operation \in {"keep", "free"}, paths \in SUBSET Paths \ {{}} :
               StartJob(w, operation, paths)

Next == Cancel \/ Others \/ \E w \in Workers : Starts(w) \/ Worker(w)

Spec == Init /\ [][Next]_vars

\* Threads run.  Requests have timeouts; a file that is kept is read by a child
\* process without one, so that its read ends is assumed.
Fairness == \A w \in Workers : WF_vars(Worker(w))
FairSpec == Spec /\ Fairness
-----------------------------------------------------------------------------
(* Properties.                                                              *)

TypeOK ==
  /\ job \in Job /\ lock \in Workers \cup {Free} /\ cancel \in BOOLEAN
  /\ at \in [Workers -> {"none", "start", "select", "list", "files", "turn", "failed",
                         "close", "end"}]
  /\ left \in [Workers -> SUBSET Paths] /\ files \in [Workers -> SUBSET Files]
  /\ item \in [Workers -> Folders \cup Files \cup {Free}]
  /\ pinned \subseteq Paths /\ dehydrated \subseteq Files
  /\ selected \subseteq Paths /\ touched \subseteq Paths \cup Files
  /\ stop \in [id : 0..MaxJobs, done : Nat]

\* A job that ends neither cancelled nor with an error has done what was asked:
\* every file counted, every selected path pinned or unpinned and every file in
\* it turned, except where somebody else changed one since the start.  (A walk
\* that a cancel cut short must therefore never pass for a whole one.)
EndsAsAsked ==
  (job.id > 0 /\ ~job.running /\ ~job.cancelled /\ job.errors = 0)
    => /\ job.done = job.total
       /\ \A p \in selected :
            /\ p \in touched \/ (p \in pinned <=> job.operation = "keep")
            /\ \A f \in Contents[p] : f \in touched \/ InPlace(f)

\* "Cancellation after the current file": from the first cancel that reaches a
\* running job, it finishes at most the file it is at.
StopsAfterCurrentFile == stop.id = job.id => job.done <= stop.done + 1

\* A job is reported cancelled only if somebody cancelled while it ran: a cancel
\* that found no job, or a late one, is not inherited.
CancelledWasAsked == job.cancelled => stop.id = job.id

\* The record of a job that has ended is not written again: no worker outlives
\* the end of its job and writes its errors or counts into that record.
RecordFinal == [][~job.running /\ job'.id = job.id => job' = job]_vars

\* What the mutex lets a reader see: the two halves of an end are one.
Visible == IF \E w \in Workers : at[w] = "end" THEN [job EXCEPT !.cancelled = FALSE] ELSE job
Record == INSTANCE JobRecord WITH job <- Visible

\* The record is what JobRecord promises a client that polls it and cancels: counts one
\* by one up to a total known before, at most one more after a cancel, an end that tells
\* the truth about cancels, errors and files, and is final, and that it ends.
RecordSpec == Record!Spec
=============================================================================
