----------------------------- MODULE DesktopPoll -----------------------------
(***************************************************************************)
(* The poll thread of the D-Bus state service: the binary's loop around    *)
(* control_request "desktop" and publish_desktop.  Every two seconds it    *)
(* asks the daemon for its desktop state, adds the account that the daemon *)
(* writes to a profile file (account.rs), announces the availability job   *)
(* if it has moved, and publishes the desktop state if it has.             *)
(*                                                                         *)
(* The daemon, whose startup removes the profile of the one before, and    *)
(* the job, which Jobs models, are seen from here as what can be read.     *)
(* Flyout composes these steps with a service that may die and with the    *)
(* subscriber they are for.                                                *)
(***************************************************************************)
EXTENDS Naturals

CONSTANTS
  MaxLives,   \* bound: starts of the daemon
  MaxChanges, \* bound: changes of what a daemon's desktop answer says
  MaxJobs     \* bound: availability jobs of one service process

ASSUME ConstantsAssumption == {MaxLives, MaxChanges, MaxJobs} \subseteq Nat

VARIABLES
  life,     \* which daemon process, counted
  stage,    \* it is down, discovers its drive, or serves
  content,  \* its desktop state (pause, issues, selection): how often it has changed
  profile,  \* the life whose account the file describes; 0: no file
  at,       \* where the poll thread is
  answer,   \* the daemon's answer, on its way to be published
  job,      \* Jobs::snapshot, as far as others tell snapshots apart
  last_job, \* the job last announced
  desktop_state \* what the property answers

daemon == <<life, stage, content, profile>>
vars == <<daemon, at, answer, job, last_job, desktop_state>>

Contents == 0..MaxChanges
Unavailable == [available |-> FALSE]
Answers == [available : {TRUE}, of : 1..MaxLives, content : Contents] \cup {Unavailable}
Desktops == [available : {TRUE}, of : 1..MaxLives, content : Contents,
             account : 0..MaxLives] \cup {Unavailable}
NoJob == [id |-> 0, running |-> FALSE]

Init ==
  /\ life = 0 /\ stage = "down" /\ content = 0 /\ profile = 0
  /\ at = "asleep" /\ answer = Unavailable /\ job = NoJob /\ last_job = NoJob
  /\ desktop_state = Unavailable
-----------------------------------------------------------------------------
(* The daemon's main(), its profile thread, and what changes in it.         *)

Start ==
  /\ stage = "down" /\ life < MaxLives /\ life' = life + 1 /\ stage' = "discovering"
  /\ UNCHANGED <<content, profile, at, answer, job, last_job, desktop_state>>

ServeKeepingProfile ==                                             \* mutant
  /\ stage = "discovering" /\ stage' = "serving"
  /\ UNCHANGED <<life, content, profile, at, answer, job, last_job, desktop_state>>
\* The file goes before daemon_loop binds the control socket.
Serve ==
  /\ stage = "discovering" /\ stage' = "serving" /\ profile' = 0
  /\ UNCHANGED <<life, content, at, answer, job, last_job, desktop_state>>

End ==
  /\ stage # "down" /\ stage' = "down"
  /\ UNCHANGED <<life, content, profile, at, answer, job, last_job, desktop_state>>

\* account::serve: the temporary file is renamed over the old one.
WriteProfile ==
  /\ stage = "serving" /\ profile' = life
  /\ UNCHANGED <<life, stage, content, at, answer, job, last_job, desktop_state>>

Change ==
  /\ stage = "serving" /\ content < MaxChanges /\ content' = content + 1
  /\ UNCHANGED <<life, stage, profile, at, answer, job, last_job, desktop_state>>

\* start_availability_job needs the published desktop state, Jobs::start a
\* record that is not running.
StartJob ==
  /\ desktop_state.available /\ ~job.running /\ job.id < MaxJobs
  /\ job' = [id |-> job.id + 1, running |-> TRUE]
  /\ UNCHANGED <<daemon, at, answer, last_job, desktop_state>>
EndJob ==
  /\ job.running /\ job' = [job EXCEPT !.running = FALSE]
  /\ UNCHANGED <<daemon, at, answer, last_job, desktop_state>>
-----------------------------------------------------------------------------
(* The poll thread.                                                         *)

\* mutant: an answer that does not come leaves the last one
AskPatiently ==
  /\ at = "asleep" /\ at' = "asked"
  /\ answer' = IF stage = "serving"
               THEN [available |-> TRUE, of |-> life, content |-> content]
               ELSE IF desktop_state.available
                    THEN [available |-> TRUE, of |-> desktop_state.of, content |-> desktop_state.content]
                    ELSE Unavailable
  /\ UNCHANGED <<daemon, job, last_job, desktop_state>>
\* An answer of version 1; or none, a late, a refused or an unreadable one.
Ask ==
  /\ at = "asleep" /\ at' = "asked"
  /\ \/ /\ stage = "serving"
        /\ answer' = [available |-> TRUE, of |-> life, content |-> content]
     \/ answer' = Unavailable
  /\ UNCHANGED <<daemon, job, last_job, desktop_state>>

WithAccount(account) ==
  IF answer.available
  THEN [available |-> TRUE, of |-> answer.of, content |-> answer.content, account |-> account]
  ELSE Unavailable

\* mutant: nothing at all is published for an old desktop state
PublishNew(state) ==
  /\ last_job' = IF state = desktop_state THEN last_job ELSE job
  /\ desktop_state' = state
\* publish_desktop, under the interface's lock: the job is announced if it
\* has moved, and then the desktop state if that has.
PublishDesktop(state) ==
  /\ last_job' = job
  /\ desktop_state' = state

\* The profile is read after the answer has come.
Publish ==
  /\ at = "asked" /\ at' = "asleep" /\ PublishDesktop(WithAccount(profile))
  /\ answer' = Unavailable /\ UNCHANGED <<daemon, job>>
-----------------------------------------------------------------------------
Daemon == Start \/ Serve \/ End \/ WriteProfile \/ Change
Job == StartJob \/ EndJob

\* The daemon that serves answers.
Answered == Ask /\ answer'.available
-----------------------------------------------------------------------------
TypeOK ==
  /\ life \in 0..MaxLives /\ stage \in {"down", "discovering", "serving"}
  /\ content \in Contents /\ profile \in 0..life /\ at \in {"asleep", "asked"}
  /\ answer \in Answers /\ desktop_state \in Desktops
  /\ job \in [id : 0..MaxJobs, running : BOOLEAN] /\ last_job \in [id : 0..MaxJobs, running : BOOLEAN]

\* "A previous daemon/account's runtime snapshot must not be presented as a
\* fresh answer" (main.rs): the account shown with a daemon's desktop state is
\* no earlier daemon's, although the file outlives the daemon and is read
\* after the answer.
NoPreviousAccount ==
  desktop_state.available => desktop_state.account \in {0} \cup (desktop_state.of..life)
=============================================================================
