------------------------------- MODULE Flyout -------------------------------
(***************************************************************************)
(* The Plasmoid's view of the service: readAll, the apply functions, the   *)
(* service watcher and the signal watcher of main.qml, composed with the   *)
(* poll thread of DesktopPoll and with a service that dies and returns.    *)
(*                                                                         *)
(* Everything the service sends the flyout, signals and replies, arrives   *)
(* in the order it was sent, and the bus announces the end of a process    *)
(* after its last message.  A GetAll samples the properties at once, but   *)
(* its reply may be sent later, after signals of newer values.  The code   *)
(* counts "generations"; a read here keeps the set of kinds that have not  *)
(* been applied since it was asked, which is all a comparison can tell,    *)
(* and of its answer only what is still of use.                            *)
(*                                                                         *)
(* Three of the seven kinds are modelled: the daemon's state, the desktop  *)
(* state and the availability job.  The others follow the first.           *)
(***************************************************************************)
EXTENDS DesktopPoll, Sequences, FiniteSets

CONSTANTS
  MaxEvents, \* bound: starts of daemon and service and control requests of
             \* the flyout, together
  MaxWire    \* bound: messages under way when the service sends one more

ASSUME FlyoutAssumption == {MaxEvents, MaxWire} \subseteq Nat

Kinds == {"state", "desktop", "job"}
Slots == 1..2 \* bound: reads at a time

VARIABLES
  up,       \* the service owns its name
  service,  \* which of its processes, counted
  running,  \* its DaemonRunning
  wire,     \* what is on its way to the flyout
  reads,    \* the flyout's GetAll calls
  known,    \* stateKnown: a state was heard since the service appeared
  shown,    \* the flyout's properties, each with the process that said it
  controls  \* control requests, so far

serviceVars == <<up, service, running>>
flyoutVars == <<serviceVars, wire, reads, known, shown, controls>>
allVars == <<vars, flyoutVars>>

Said(value) == [by |-> service, value |-> value]
Sampled == [state |-> Said(running), desktop |-> Said(desktop_state), job |-> Said(job)]
Without(sample, kinds) == [kind \in DOMAIN sample \ kinds |-> sample[kind]]
Idle == [at |-> "idle", fresh |-> {}, sample |-> <<>>]

FlyoutInit ==
  /\ Init /\ up = FALSE /\ service = 0 /\ running = FALSE /\ wire = <<>> /\ controls = 0
  /\ reads = [r \in Slots |-> Idle]
  /\ known = FALSE /\ shown = Sampled

Events == life + service + controls
Room == Len(wire) < MaxWire
\* A slot is left for one more read.
Spare == Cardinality({r \in Slots : reads[r].at # "idle"})
           + Len(SelectSeq(wire, LAMBDA m : m[1] \in {"came", "done"})) < 2
Send(kind, value) == wire' = Append(wire, <<kind, value>>)
-----------------------------------------------------------------------------
(* The service.                                                             *)

\* The poll thread.  publish_desktop signals what it has changed.
Poll ==
  /\ up
  /\ \/ Ask /\ UNCHANGED wire
     \/ /\ Room /\ Publish
        /\ LET Signal(kind, old, new) == IF new = old THEN <<>>
                                         ELSE << <<kind, Said(new)>> >>
           IN wire' = wire \o Signal("job", last_job, last_job')
                           \o Signal("desktop", desktop_state, desktop_state')
  /\ UNCHANGED <<serviceVars, reads, known, shown, controls>>

\* watch_daemon, which StateService models, and publish_state.
Watch ==
  /\ up /\ Room /\ running # (stage = "serving") /\ running' = (stage = "serving")
  /\ Send("state", [by |-> service, value |-> running'])
  /\ UNCHANGED <<vars, up, service, reads, known, shown, controls>>

\* GetAll reads the properties under the interface's lock; the reply follows.
Sample(r) ==
  /\ up /\ reads[r].at = "asked"
  /\ reads' = [reads EXCEPT ![r].at = "sampled", ![r].sample = Without(Sampled, Kinds \ reads[r].fresh)]
  /\ UNCHANGED <<vars, serviceVars, wire, known, shown, controls>>
Reply(r) ==
  /\ up /\ Room /\ reads[r].at = "sampled" /\ Send("reply", r)
  /\ reads' = [reads EXCEPT ![r].at = "replied"]
  /\ UNCHANGED <<vars, serviceVars, known, shown, controls>>

\* A control request of the flyout succeeds.
Control ==
  /\ up /\ Room /\ Spare /\ Events < MaxEvents /\ controls' = controls + 1 /\ Send("done", service)
  /\ UNCHANGED <<vars, serviceVars, reads, known, shown>>

\* Calls without a reply fail, and the job dies with its process.
Leave ==
  /\ up /\ up' = FALSE /\ running' = FALSE /\ Send("gone", service)
  /\ at' = "asleep" /\ answer' = Unavailable /\ job' = NoJob /\ last_job' = NoJob
  /\ desktop_state' = Unavailable
  /\ reads' = [r \in Slots |-> IF reads[r].at = "replied" THEN reads[r] ELSE Idle]
  /\ UNCHANGED <<daemon, service, known, shown, controls>>
Come ==
  /\ ~up /\ Spare /\ Events < MaxEvents /\ service' = service + 1 /\ up' = TRUE /\ Send("came", service')
  /\ UNCHANGED <<vars, running, reads, known, shown, controls>>
-----------------------------------------------------------------------------
(* The flyout, one message at a time.                                       *)

Hear(kinds) == /\ wire # <<>> /\ Head(wire)[1] \in kinds /\ wire' = Tail(wire)
               /\ UNCHANGED <<vars, serviceVars, controls>>

\* mutant: applyDesktop and applyJob do not count
OvertakenInState(kinds) ==
  LET old == kinds \cap {"state"}
  IN  [r \in Slots |-> [reads[r] EXCEPT !.fresh = @ \ old, !.sample = Without(@, old)]]
\* Applying a kind makes older answers of that kind worthless.
Overtaken(kinds) ==
  [r \in Slots |-> [reads[r] EXCEPT !.fresh = @ \ kinds, !.sample = Without(@, kinds)]]


\* applyState, applyDesktop or applyJob, of a signal.
ApplySignal ==
  /\ Hear(Kinds)
  /\ \E kind \in {Head(wire)[1]} :
       /\ shown' = [shown EXCEPT ![kind] = Head(wire)[2]]
       /\ known' = (known \/ kind = "state")
       /\ reads' = Overtaken({kind})

\* Of an answer, what no signal has overtaken.
ApplyReply ==
  /\ Hear({"reply"})
  /\ \E r \in {Head(wire)[2]} :
       /\ shown' = [kind \in Kinds |-> IF kind \in reads[r].fresh THEN reads[r].sample[kind]
                                       ELSE shown[kind]]
       /\ known' = (known \/ "state" \in reads[r].fresh)
       /\ reads' = [Overtaken(reads[r].fresh) EXCEPT ![r] = Idle]

\* readAll: when the service appears and after a control request.
ReadAll ==
  /\ Hear({"came", "done"})
  /\ \E r \in Slots : /\ reads[r].at = "idle" /\ \A q \in Slots : reads[q].at = "idle" => r <= q
                      /\ reads' = [reads EXCEPT ![r].at = "asked", ![r].fresh = Kinds]
  /\ UNCHANGED <<known, shown>>

\* The service left the bus: its state is unknown until one is heard again.
\* The desktop state and the job stay, the first out of sight.
Forget ==
  /\ Hear({"gone"}) /\ known' = FALSE /\ reads' = Overtaken({"state"}) /\ UNCHANGED shown

Apply == ApplySignal \/ ApplyReply \/ ReadAll \/ Forget
-----------------------------------------------------------------------------
Machine ==
  /\ UNCHANGED flyoutVars
  /\ (Daemon /\ Events' <= MaxEvents) \/ (up /\ running /\ StartJob) \/ (up /\ EndJob)
Answer == \E r \in Slots : Sample(r) \/ Reply(r)
FlyoutNext == Machine \/ Poll \/ Watch \/ Answer \/ Control \/ Leave \/ Come \/ Apply

FlyoutSpec == FlyoutInit /\ [][FlyoutNext]_allVars

\* The threads of the service and the flyout's event loop go on; a daemon that
\* serves answers the poll again and again.
Fairness ==
  /\ WF_allVars(Poll) /\ WF_allVars(Watch) /\ WF_allVars(Answer) /\ WF_allVars(Apply)
  /\ SF_allVars(Poll /\ Answered)
FlyoutFairSpec == FlyoutSpec /\ Fairness
-----------------------------------------------------------------------------
\* Once no daemon serves, nothing available is published; what a daemon that
\* stays says is published in the end, and again after an answer failed.
DesktopFollows ==
  /\ <>[](stage # "serving") => <>[]~desktop_state.available
  /\ \A c \in Contents : <>[](up /\ stage = "serving" /\ content = c)
       => []<>(desktop_state.available /\ desktop_state.of = life /\ desktop_state.content = c)

NotOlder(old, new) ==
  /\ (old.available /\ new.available) => \/ new.of > old.of
                                         \/ new.of = old.of /\ new.content >= old.content
JobNotOlder(old, new) == new.id > old.id \/ (new.id = old.id /\ (new.running => old.running))

\* "A cold read that was overtaken by a signal mid-flight cannot roll the newer
\* state back to an older one": neither the desktop state nor the job that the
\* flyout shows steps back behind what it has shown, also across processes of
\* the service, although reads overlap each other and the signals.
NeverStepsBack ==
  [][ /\ \A kind \in {"desktop", "job"} : shown'[kind].by >= shown[kind].by
      /\ shown'.desktop.by = shown.desktop.by => NotOlder(shown.desktop.value, shown'.desktop.value)
      /\ shown'.job.by = shown.job.by => JobNotOlder(shown.job.value, shown'.job.value) ]_allVars

\* "No follow-up read is ever needed": when the service stays and what it
\* serves holds still, the flyout comes to show it, the end of a job included,
\* whatever was discarded on the way.
FlyoutSettles ==
  (<>[]up /\ <>[][FALSE]_<<running, desktop_state, job>>) => <>[](known /\ shown = Sampled)
=============================================================================
