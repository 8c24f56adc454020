-------------------------------- MODULE Tray --------------------------------
(***************************************************************************)
(* The tray icon: run, apply_presentation and the menu of tray.rs, against *)
(* the state service on the session bus.                                   *)
(*                                                                         *)
(* The tray subscribes first, then reads the properties, and from then on  *)
(* applies signals; it reads again when the service returns.  Every signal *)
(* has a stream and a thread of its own that forwards to one queue, so of  *)
(* two signals of different streams either may come first: the model takes *)
(* the next event from the head of any stream.  Within a stream the order  *)
(* is kept.  The service publishes as StateService does (ControlSurface),  *)
(* may leave the bus and return with a process that knows nothing.         *)
(***************************************************************************)
EXTENDS Presentation

CONSTANTS
  States,       \* DaemonStates the service may publish
  Credentials, Desktops,
  MaxLives,     \* bound: processes of the service
  MaxPublished, \* bound: publications
  MaxWatchers,  \* bound: returns of the watcher
  MaxClicks     \* bound: clicks on "Sign In..."

\* A DaemonState and a desktop state have their fields, numbers and flags.
IsState(s) ==
  /\ s = [k \in DOMAIN DefaultState |-> s[k]] /\ {s.daemon_running, s.indexing} \subseteq BOOLEAN
  /\ {s.unsent, s.excluded, s.exposures, s.downloading} \subseteq Nat

ASSUME ConstantsAssumption ==
  /\ \A s \in States : IsState(s)
  /\ Desktops \subseteq [paused : BOOLEAN, issues : Nat, excluded_folders : Nat, resolving : BOOLEAN]
  /\ {MaxLives, MaxPublished, MaxWatchers, MaxClicks} \subseteq Nat

Members == {"StateChanged", "DownloadChanged", "IndexingChanged", "ActiveUploadsChanged",
            "CredentialStateChanged", "DesktopChanged", "NameOwnerChanged"}

VARIABLES
  owned,      \* the service's name has an owner
  life,       \* how many processes have owned it
  served,     \* its properties
  published,  \* publications, so far
  streams,    \* signals on their way to the run loop, each with the life that sent it
  at,         \* "off", "starting", "refreshing", "run", "done"
  reads,      \* what is left of a cold read
  view,       \* daemon_state, credential and desktop of the run loop
  item, menu, \* the presentations of the two served objects
  host,       \* what the panel has learnt from their signals
  watcher,    \* a StatusNotifierWatcher is on the bus
  watchers,   \* how often it came back
  returned,   \* WatcherReturned events in the queue
  registered, \* the watcher knows the item
  clicks, signIns, \* SignIn events in the queue, and clicks so far
  ended,      \* history: the last life whose end was applied
  late        \* history: since the last cold read was asked for, a signal was
              \* applied after the end of the life that sent it

serviceVars == <<owned, life, served, published>>
panelVars   == <<item, menu, host>>
watcherVars == <<watcher, watchers, returned, registered>>
clickVars   == <<clicks, signIns>>
vars == <<serviceVars, streams, at, reads, view, panelVars, watcherVars, clickVars, ended, late>>

NewlyServed == [state |-> DefaultState, credential |-> "unknown", desktop |-> NoDesktop]
Quiet == [m \in Members |-> <<>>]
HostView(p) == [icon |-> p.icon, status |-> p.status,
                tooltip |-> <<p.headline, p.detail>>, menu |-> MenuItems(p)]

Init ==
  /\ owned \in BOOLEAN /\ life = (IF owned THEN 1 ELSE 0) /\ served = NewlyServed /\ published = 0
  /\ streams = Quiet /\ at = "off" /\ reads = <<>> /\ view = Nothing
  /\ item = Present(Nothing) /\ menu = Present(Nothing) /\ host = HostView(Present(Nothing))
  /\ watcher = TRUE /\ watchers = 0 /\ returned = 0 /\ registered = FALSE
  /\ clicks = 0 /\ signIns = 0
  /\ ended = 0 /\ late = FALSE
-----------------------------------------------------------------------------
(* The service.                                                             *)

\* Signals, no two of one member, reach a tray that has subscribed and still runs.
Emit(signals) ==
  LET Sent(m) == {i \in DOMAIN signals : signals[i].member = m}
  IN streams' = IF at \in {"off", "done"} THEN streams
                ELSE [m \in Members |-> IF Sent(m) = {} THEN streams[m]
                        ELSE Append(streams[m], [args |-> signals[Max(Sent(m))].args, of |-> life'])]

Come ==
  /\ ~owned /\ life < MaxLives /\ owned' = TRUE /\ life' = life + 1 /\ served' = NewlyServed
  /\ Emit(<<[member |-> "NameOwnerChanged", args |-> [owned |-> TRUE]]>>)
  /\ UNCHANGED <<published, at, reads, view, panelVars, watcherVars, clickVars, ended, late>>

Leave ==
  /\ owned /\ owned' = FALSE /\ UNCHANGED life
  /\ Emit(<<[member |-> "NameOwnerChanged", args |-> [owned |-> FALSE]]>>)
  /\ UNCHANGED <<served, published, at, reads, view, panelVars, watcherVars, clickVars, ended, late>>

Publish ==
  /\ owned /\ published < MaxPublished /\ published' = published + 1
  /\ \/ \E s \in States \ {served.state} :
          /\ served' = [served EXCEPT !.state = s] /\ UNCHANGED life
          /\ Emit(StateSignals(served.state, s))
     \/ \E c \in Credentials \ {served.credential} :
          /\ served' = [served EXCEPT !.credential = c] /\ UNCHANGED life
          /\ Emit(<<[member |-> "CredentialStateChanged", args |-> [credential |-> c]]>>)
     \/ \E d \in Desktops \ {served.desktop} :
          /\ served' = [served EXCEPT !.desktop = d] /\ UNCHANGED life
          /\ Emit(<<[member |-> "DesktopChanged", args |-> [desktop |-> d]]>>)
  /\ UNCHANGED <<owned, at, reads, view, panelVars, watcherVars, clickVars, ended, late>>
-----------------------------------------------------------------------------
(* The tray.                                                                *)

\* mutant: a dynamic menu item is forgotten in DYNAMIC_MENU_ITEMS
ApplyForgetting(p) ==
  /\ item' = p /\ menu' = p
  /\ host' = [HostView(p) EXCEPT !.menu.sign_in = host.menu.sign_in]
\* apply_presentation: both objects are set, and what moved is signalled.
Apply(p) ==
  /\ item' = p /\ menu' = p
  /\ host' = [icon    |-> IF item.icon # p.icon THEN p.icon ELSE host.icon,
              status  |-> IF item.status # p.status THEN p.status ELSE host.status,
              tooltip |-> IF item.headline # p.headline \/ item.detail # p.detail
                          THEN <<p.headline, p.detail>> ELSE host.tooltip,
              menu    |-> [id \in DOMAIN MenuItems(p) |->
                             IF MenuItems(menu)[id] # MenuItems(p)[id]
                             THEN MenuItems(p)[id] ELSE host.menu[id]]]

Refresh == \E p \in {PresentWithDesktop(view')} : Apply(p)

\* A watcher must be there.  The subscriptions are made before the first read.
Start ==
  /\ at = "off" /\ watcher /\ at' = "starting"
  /\ reads' = <<"counters", "activities", "desktop", "credential">>
  /\ UNCHANGED <<serviceVars, streams, view, panelVars, watcherVars, clickVars, ended, late>>

Fields(which) == IF which = "counters" THEN StateChangedFields
                 ELSE DOMAIN DefaultState \ StateChangedFields
\* One group of properties.  Of a service that is not there the counters are
\* not known, nor asked further; the rest is what stands for an absent answer.
Read(which) ==
  LET source == IF owned THEN served ELSE NewlyServed
      Fetched == [k \in Fields(which) |-> source.state[k]]
  IN CASE which = "desktop" -> [view EXCEPT !.desktop = source.desktop]
       [] which = "credential" -> [view EXCEPT !.credential = source.credential]
       [] which = "counters" -> [view EXCEPT !.known = owned, !.state = Overlay(Fetched, DefaultState)]
       [] OTHER -> IF view.known THEN [view EXCEPT !.state = Overlay(Fetched, @)] ELSE view

\* One group is read after the other.  The first read ends with the
\* registration, and without a watcher so does the tray.
ColdRead ==
  /\ reads # <<>> /\ view' = Read(Head(reads)) /\ reads' = Tail(reads)
  /\ IF Len(reads) > 1 THEN UNCHANGED <<at, panelVars, registered>>
     ELSE /\ Refresh
          /\ at' = IF at = "starting" /\ ~watcher THEN "done" ELSE "run"
          /\ registered' = IF at = "starting" THEN watcher ELSE registered
  /\ UNCHANGED <<serviceVars, streams, watcher, watchers, returned, clickVars, ended, late>>

\* mutant: counters come with activities of zero
HearZeroing(member, args) ==
  CASE member = "StateChanged" ->
         [view EXCEPT !.known = TRUE, !.state = Overlay(args, DefaultState)]
    [] member = "CredentialStateChanged" -> [view EXCEPT !.credential = args.credential]
    [] member = "DesktopChanged" -> [view EXCEPT !.desktop = args.desktop]
    [] OTHER -> IF view.known THEN [view EXCEPT !.state = Overlay(args, @)] ELSE view
\* The counters inherit the activities last known; an activity without a
\* known state has nothing to attach to.
HearSignal(member, args) ==
  CASE member = "StateChanged" -> [view EXCEPT !.known = TRUE, !.state = Overlay(args, @)]
    [] member = "CredentialStateChanged" -> [view EXCEPT !.credential = args.credential]
    [] member = "DesktopChanged" -> [view EXCEPT !.desktop = args.desktop]
    [] OTHER -> IF view.known THEN [view EXCEPT !.state = Overlay(args, @)] ELSE view

Handle(member) ==
  /\ at = "run" /\ member # "NameOwnerChanged" /\ streams[member] # <<>>
  /\ LET signal == Head(streams[member])
     IN /\ view' = HearSignal(member, signal.args)
        /\ late' = (late \/ signal.of <= ended)
  /\ Refresh
  /\ streams' = [streams EXCEPT ![member] = Tail(@)]
  /\ UNCHANGED <<serviceVars, at, reads, watcherVars, clickVars, ended>>

ForgetQuietly == view' = [view EXCEPT !.credential = "unknown"]     \* mutant
\* ServiceGone forgets all but the desktop state.
Forget == view' = [Nothing EXCEPT !.desktop = view.desktop]

\* ServiceGone, or ServiceReturned with its reads.
HandleOwner ==
  /\ at = "run" /\ streams["NameOwnerChanged"] # <<>>
  /\ LET change == Head(streams["NameOwnerChanged"])
     IN \/ /\ ~change.args.owned /\ ended' = change.of
           /\ Forget /\ Refresh /\ UNCHANGED <<at, reads, late>>
        \/ /\ change.args.owned /\ at' = "refreshing" /\ late' = FALSE
           /\ reads' = <<"desktop", "counters", "activities", "credential">>
           /\ UNCHANGED <<view, panelVars, ended>>
  /\ streams' = [streams EXCEPT !["NameOwnerChanged"] = Tail(@)]
  /\ UNCHANGED <<serviceVars, watcherVars, clickVars>>
-----------------------------------------------------------------------------
(* The watcher, the menu's clicks, and the end.                             *)

WatcherLeaves ==
  /\ watcher /\ watcher' = FALSE /\ registered' = FALSE
  /\ UNCHANGED <<serviceVars, streams, at, reads, view, panelVars, watchers, returned, clickVars, ended, late>>
WatcherComes ==
  /\ ~watcher /\ watchers < MaxWatchers /\ watchers' = watchers + 1 /\ watcher' = TRUE
  /\ returned' = IF at \in {"off", "done"} THEN returned ELSE returned + 1
  /\ UNCHANGED <<serviceVars, streams, at, reads, view, panelVars, registered, clickVars, ended, late>>

\* mutant: "it is registered already"
HandleWatcherOnce ==
  /\ at = "run" /\ returned > 0 /\ returned' = returned - 1 /\ UNCHANGED registered
  /\ UNCHANGED <<serviceVars, streams, at, reads, view, panelVars, watcher, watchers, clickVars, ended, late>>
\* A watcher that has left again is waited for.
HandleWatcher ==
  /\ at = "run" /\ returned > 0 /\ returned' = returned - 1 /\ registered' = watcher
  /\ UNCHANGED <<serviceVars, streams, at, reads, view, panelVars, watcher, watchers, clickVars, ended, late>>

\* The panel may send a click from an old menu; it counts while one is offered.
Click ==
  /\ at \in {"refreshing", "run"} /\ menu.rows.offer_sign_in
  /\ clicks < MaxClicks /\ clicks' = clicks + 1 /\ signIns' = signIns + 1
  /\ UNCHANGED <<serviceVars, streams, at, reads, view, panelVars, watcherVars, ended, late>>
SignIn ==
  /\ at = "run" /\ signIns > 0 /\ signIns' = signIns - 1
  /\ UNCHANGED <<serviceVars, streams, at, reads, view, panelVars, watcherVars, clicks, ended, late>>

\* Quit, or the bus connection is lost.
End ==
  /\ at = "run" /\ at' = "done" /\ streams' = Quiet /\ registered' = FALSE
  /\ UNCHANGED <<serviceVars, reads, view, panelVars, watcher, watchers, returned, clickVars, ended, late>>
-----------------------------------------------------------------------------
Service == Come \/ Leave \/ Publish
Loop == \/ \E m \in Members : Handle(m)
        \/ ColdRead \/ HandleOwner \/ HandleWatcher \/ SignIn
Next == \/ Service \/ Start \/ Loop
        \/ WatcherLeaves \/ WatcherComes \/ Click \/ End

Spec == Init /\ [][Next]_vars

\* The run loop, with the threads that feed it, does not stop while it has work.
FairSpec == Spec /\ WF_vars(Loop)
-----------------------------------------------------------------------------
Views == [known : BOOLEAN, credential : Credentials \cup {"unknown"}, desktop : Desktops \cup {NoDesktop}]

TypeOK ==
  /\ owned \in BOOLEAN /\ life \in 0..(MaxLives + 1) /\ published \in 0..MaxPublished
  /\ at \in {"off", "starting", "refreshing", "run", "done"}
  /\ (reads # <<>>) <=> at \in {"starting", "refreshing"}
  /\ [known |-> view.known, credential |-> view.credential, desktop |-> view.desktop] \in Views
  /\ (~view.known => view.state = DefaultState) /\ DOMAIN view.state = DOMAIN DefaultState
  /\ \A m \in Members : \A i \in DOMAIN streams[m] : streams[m][i].of \in 1..life
  /\ returned \in 0..watchers /\ watchers \in 0..MaxWatchers /\ clicks \in 0..MaxClicks
  /\ (registered => watcher) /\ item = menu /\ ended \in 0..life

\* "It must never share the idle icon or claim that all work is finished":
\* the idle icon is shown only if nothing is sent, fetched, indexed or
\* waiting, nothing is wrong, and sync is not held up.
IdleMeansDone ==
  at = "run" /\ item.icon = "synced" =>
    /\ view.known /\ view.state.daemon_running /\ view.credential # "rejected"
    /\ view.state = Overlay([daemon_running |-> TRUE, excluded |-> view.state.excluded], DefaultState)
    /\ ~view.desktop.paused /\ view.desktop.issues = 0 /\ ~view.desktop.resolving

\* The panel, which learns of changes from the New... signals and
\* ItemsPropertiesUpdated only, shows what is served: apply_presentation
\* leaves no moved item out.
HostInformed == host = HostView(item)

\* "Nothing the service asserted survives it leaving the bus", although the
\* desktop state is kept: while the loss is the last the tray heard, the
\* sync status is unavailable.
GoneAssertsNothing ==
  at = "run" /\ life = ended /\ ended > 0 /\ ~late => item = Present(Nothing)

\* With the service on the bus to stay, the panel comes to show what it
\* serves, in whatever order the threads forward its signals and however
\* they overlap with the cold reads; with the service gone, that it is gone.
Settles ==
  /\ <>[](at = "run" /\ owned) => <>[](late \/ item = PresentWithDesktop(
        [known |-> TRUE, state |-> served.state, credential |-> served.credential,
         desktop |-> served.desktop]))
  /\ <>[](at = "run" /\ ~owned) => <>[](late \/ item = Present(Nothing))

\* A watcher that returns to stay comes to know the item again.
RegisteredAgain == <>[](at = "run" /\ watcher) => <>[]registered
=============================================================================
