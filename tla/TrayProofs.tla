----------------------------- MODULE TrayProofs -----------------------------
(* Theorems about Tray, for every set of states the service may publish and  *)
(* any number of its processes, publications and watchers.                   *)
EXTENDS Tray, SharedLemmas

Constants == MaxLives \in Nat /\ MaxPublished \in Nat /\ MaxWatchers \in Nat /\ MaxClicks \in Nat

LEMMA ConstantsAre == Constants
BY ConstantsAssumption DEF Constants
-----------------------------------------------------------------------------
(* What the tray knows.                                                      *)

DaemonView(s) == IsDaemonState(s) /\ IsState(s)

IsView(v) ==
  /\ v = [known |-> v.known, state |-> v.state, credential |-> v.credential, desktop |-> v.desktop]
  /\ v.known \in BOOLEAN /\ DaemonView(v.state) /\ (~v.known => v.state = DefaultState)
  /\ v.credential \in Credentials \cup {"unknown"} /\ v.desktop \in Desktops \cup {NoDesktop}

LEMMA StateParts ==
  ASSUME NEW s, IsState(s)
  PROVE  /\ DOMAIN s = DaemonFields
         /\ s["daemon_running"] \in BOOLEAN /\ s["indexing"] \in BOOLEAN
         /\ s["unsent"] \in Nat /\ s["excluded"] \in Nat
         /\ s["exposures"] \in Nat /\ s["downloading"] \in Nat
<1>1. DOMAIN DefaultState = DaemonFields BY DefaultIsState
<1>2. s = [k \in DaemonFields |-> s[k]] BY <1>1 DEF IsState
<1>3. DOMAIN s = DaemonFields BY <1>2
<1> QED BY <1>3 DEF IsState

LEMMA StateOfParts ==
  ASSUME NEW s, IsDaemonState(s),
         s["daemon_running"] \in BOOLEAN, s["indexing"] \in BOOLEAN,
         s["unsent"] \in Nat, s["excluded"] \in Nat, s["exposures"] \in Nat, s["downloading"] \in Nat
  PROVE  IsState(s)
<1>1. DOMAIN DefaultState = DaemonFields BY DefaultIsState
<1> QED BY <1>1 DEF IsState, IsDaemonState

LEMMA DefaultIsView == DaemonView(DefaultState)
<1>1. IsState(DefaultState)
  <2>1. DefaultState = [k \in DOMAIN DefaultState |-> DefaultState[k]]
    BY DefaultIsState DEF IsDaemonState
  <2>2. {DefaultState.daemon_running, DefaultState.indexing} \subseteq BOOLEAN
        /\ {DefaultState.unsent, DefaultState.excluded, DefaultState.exposures, DefaultState.downloading}
           \subseteq Nat
    BY DEF DefaultState
  <2> QED BY <2>1, <2>2 DEF IsState
<1> QED BY <1>1, DefaultIsState DEF DaemonView

LEMMA NothingIsView == IsView(Nothing)
<1>1. DaemonView(DefaultState) BY DefaultIsView
<1> QED BY <1>1 DEF IsView, Nothing

\* Fields of a state laid over a state that is known.
LEMMA OverlayIsView ==
  ASSUME NEW s, IsState(s), NEW fields, NEW old, DaemonView(old)
  PROVE  DaemonView(Overlay([k \in fields |-> s[k]], old))
<1> DEFINE partial == [k \in fields |-> s[k]]
           new == Overlay(partial, old)
<1>1. IsDaemonState(new) BY OverlayIsState DEF DaemonView
<1>2. DOMAIN old = DaemonFields /\ DOMAIN new = DaemonFields BY <1>1, StateFields DEF DaemonView
<1>3. \A k \in DaemonFields : new[k] = s[k] \/ new[k] = old[k]
  <2>1. new = [k \in DaemonFields |-> IF k \in DOMAIN partial THEN partial[k] ELSE old[k]]
    BY <1>2 DEF Overlay
  <2>2. \A k \in DOMAIN partial : partial[k] = s[k] OBVIOUS
  <2> QED BY <2>1, <2>2
<1>4. IsState(old) BY DEF DaemonView
<1>5. \A k \in DaemonFields : new[k] \in {s[k], old[k]} BY <1>3
<1>6. /\ "daemon_running" \in DaemonFields /\ "indexing" \in DaemonFields
      /\ "unsent" \in DaemonFields /\ "excluded" \in DaemonFields
      /\ "exposures" \in DaemonFields /\ "downloading" \in DaemonFields
  BY DEF DaemonFields
<1> HIDE DEF new, partial
<1>7. IsState(new) BY <1>1, <1>2, <1>4, <1>5, <1>6, StateParts, StateOfParts
<1> QED BY <1>1, <1>7 DEF DaemonView, new, partial
-----------------------------------------------------------------------------
(* What the panel shows for it.                                              *)

\* The icon of Present is the idle one in the last of its cases only.
LEMMA IdlePresent ==
  ASSUME NEW v, Present(v).icon = "synced"
  PROVE  /\ v.known /\ v.state.daemon_running /\ ~Exposed(v) /\ v.credential # "rejected"
         /\ ~Active(v) /\ ~(v.state.unsent > 0)
BY DEF Present

LEMMA IdleShown ==
  ASSUME NEW v, PresentWithDesktop(v).icon = "synced"
  PROVE  Present(v).icon = "synced" /\ ~DesktopSpeaks(v)
<1>1. \E h, d, r, i, t : Present(v) = [icon |-> i, status |-> t, headline |-> h, detail |-> d, rows |-> r]
  BY DEF Present
<1>2. PICK h, d, r, i, t : Present(v) = [icon |-> i, status |-> t, headline |-> h, detail |-> d, rows |-> r]
  BY <1>1
<1>3. ~DesktopSpeaks(v) BY <1>2 DEF PresentWithDesktop
<1> QED BY <1>2, <1>3 DEF PresentWithDesktop

\* The idle icon is shown for nothing but a daemon at rest.
LEMMA SyncedMeansDone ==
  ASSUME NEW v, IsView(v), PresentWithDesktop(v).icon = "synced"
  PROVE  /\ v.known /\ v.state.daemon_running /\ v.credential # "rejected"
         /\ v.state = Overlay([daemon_running |-> TRUE, excluded |-> v.state.excluded], DefaultState)
         /\ ~v.desktop.paused /\ v.desktop.issues = 0 /\ ~v.desktop.resolving
<1> DEFINE s == v.state
           d == v.desktop
<1>1. /\ v.known /\ s.daemon_running /\ ~(s.exposures > 0) /\ v.credential # "rejected"
      /\ ~(s.downloading > 0) /\ ~s.indexing /\ s.uploading = {} /\ ~(s.unsent > 0)
      /\ ~DesktopSpeaks(v)
  BY IdleShown, IdlePresent DEF Exposed, Active
<1>2. /\ IsDaemonState(s) /\ s.daemon_running \in BOOLEAN /\ s.indexing \in BOOLEAN
      /\ s.unsent \in Nat /\ s.exposures \in Nat /\ s.downloading \in Nat
  BY StateParts DEF IsView, DaemonView
<1>3. /\ s.daemon_running = TRUE /\ s.exposures = 0 /\ s.downloading = 0 /\ s.indexing = FALSE
      /\ s.unsent = 0
  BY <1>1, <1>2
<1>4. s = Overlay([daemon_running |-> TRUE, excluded |-> s.excluded], DefaultState)
  <2> DEFINE partial == [daemon_running |-> TRUE, excluded |-> s.excluded]
             t == Overlay(partial, DefaultState)
  <2>1. IsDaemonState(t) BY DefaultIsState, OverlayIsState
  <2>2. t = [k \in DaemonFields |-> IF k \in DOMAIN partial THEN partial[k] ELSE DefaultState[k]]
    BY DefaultIsState DEF Overlay
  <2>3. /\ t["daemon_running"] = TRUE /\ t["excluded"] = s["excluded"]
        /\ t["unsent"] = 0 /\ t["exposures"] = 0 /\ t["downloading"] = 0
        /\ t["indexing"] = FALSE /\ t["uploading"] = {}
    BY <2>2 DEF DaemonFields, DefaultState
  <2>4. \A k \in DaemonFields : s[k] = t[k] BY <1>1, <1>3, <2>3 DEF DaemonFields
  <2> HIDE DEF t
  <2>5. s = t BY <1>2, <2>1, <2>4, SameState
  <2> QED BY <2>5 DEF t
<1>5. d.issues \in Nat
  <2>1. d \in Desktops \cup {NoDesktop} BY DEF IsView
  <2> QED BY <2>1, ConstantsAssumption DEF NoDesktop
<1>6. ~d.paused /\ ~(d.issues > 0) /\ ~d.resolving BY <1>1 DEF DesktopSpeaks, Running, Exposed
<1> QED BY <1>1, <1>4, <1>5, <1>6

\* Of a service that is not known nothing else is shown, whatever is kept.
LEMMA UnknownShowsNothing ==
  ASSUME NEW v, ~v.known
  PROVE  PresentWithDesktop(v) = Present(Nothing)
<1>1. ~Running(v) /\ ~Running(Nothing) /\ ~Nothing.known BY DEF Running, Nothing
<1>2. Rows(v) = Rows(Nothing) BY <1>1 DEF Rows, Option, OfferSignIn
<1>3. /\ Present(v) = Present(Nothing)
      /\ Present(v).headline = <<"unavailable", 0>>
  BY <1>1, <1>2 DEF Present
<1>4. ~DesktopSpeaks(v) BY <1>1 DEF DesktopSpeaks
<1>5. <<"unavailable", 0>> # <<"up to date", 0>> OBVIOUS
<1> QED BY <1>3, <1>4, <1>5 DEF PresentWithDesktop
-----------------------------------------------------------------------------
(* The invariant.                                                            *)

\* What a signal carries: the fields of a state that its member is for, or what
\* it says.
Carried(m) == CASE m = "StateChanged" -> StateChangedFields
                [] m = "DownloadChanged" -> {"downloading"}
                [] m = "IndexingChanged" -> {"indexing"}
                [] OTHER -> {"uploading"}
Partials(m) == {[k \in Carried(m) |-> s[k]] : s \in States}
ArgumentsOf(m) == CASE m = "CredentialStateChanged" -> [credential : Credentials]
                    [] m = "DesktopChanged" -> [desktop : Desktops]
                    [] m = "NameOwnerChanged" -> [owned : BOOLEAN]
                    [] OTHER -> Partials(m)
Sent(m) == [args : ArgumentsOf(m), of : Nat]

Served == [state : States \cup {DefaultState}, credential : Credentials \cup {"unknown"},
           desktop : Desktops \cup {NoDesktop}]
Groups == {"counters", "activities", "desktop", "credential"}

ServiceOK ==
  /\ owned \in BOOLEAN /\ life \in 0..(MaxLives + 1) /\ published \in 0..MaxPublished
  /\ served \in Served /\ (owned => life > 0)

StreamsOK ==
  /\ streams = [m \in Members |-> streams[m]]
  /\ \A m \in Members : /\ streams[m] \in Seq(Sent(m))
                        /\ \A i \in DOMAIN streams[m] : streams[m][i].of \in 1..life

LoopOK ==
  /\ at \in {"off", "starting", "refreshing", "run", "done"} /\ reads \in Seq(Groups)
  /\ (reads # <<>>) <=> at \in {"starting", "refreshing"}
  /\ ended \in 0..life /\ late \in BOOLEAN /\ IsView(view)

\* The owner changes in turns: of each life at most one end is on its way, behind
\* its beginning, and none of a life that was seen to end.
Turns(changes, seen, last, open) ==
  /\ \A i \in DOMAIN changes : changes[i].of > seen
  /\ \A i, j \in DOMAIN changes : (i < j /\ ~changes[i].args.owned) => changes[i].of < changes[j].of
  /\ \A i \in DOMAIN changes : ~changes[i].args.owned => (changes[i].of < last \/ ~open)
  /\ open => seen < last

OwnerOK ==
  /\ Turns(streams["NameOwnerChanged"], ended, life, owned)
  /\ at \in {"off", "starting"} => ended = 0
  /\ at = "refreshing" => ended < life

\* What is shown is what the run loop knows, and after the end of the last
\* life it knows nothing unless something came late.
ShownOK ==
  /\ item = menu /\ HostInformed
  /\ at = "run" => item = PresentWithDesktop(view)
  /\ (at = "run" /\ ended = life /\ ended > 0 /\ ~late) => ~view.known

WatcherOK ==
  /\ returned \in 0..watchers /\ watchers \in 0..MaxWatchers /\ clicks \in 0..MaxClicks
  /\ (registered => watcher)

IInv == ServiceOK /\ StreamsOK /\ LoopOK /\ OwnerOK /\ ShownOK /\ WatcherOK
-----------------------------------------------------------------------------
(* The signals.                                                              *)

LEMMA MemberArguments ==
  /\ ArgumentsOf("CredentialStateChanged") = [credential : Credentials]
  /\ ArgumentsOf("DesktopChanged") = [desktop : Desktops]
  /\ ArgumentsOf("NameOwnerChanged") = [owned : BOOLEAN]
  /\ \A m \in {"StateChanged", "DownloadChanged", "IndexingChanged", "ActiveUploadsChanged"} :
       ArgumentsOf(m) = Partials(m)
BY DEF ArgumentsOf

\* Each member's stream gets what is sent of it, if the tray listens.
LEMMA EmitShape ==
  ASSUME NEW signals, DOMAIN signals \subseteq 1..4, StreamsOK, Emit(signals)
  PROVE  /\ streams' = [m \in Members |-> streams'[m]]
         /\ \A m \in Members :
              IF at \in {"off", "done"} \/ ~\E n \in DOMAIN signals : signals[n].member = m
              THEN streams'[m] = streams[m]
              ELSE \E n \in DOMAIN signals :
                     /\ signals[n].member = m
                     /\ streams'[m] = Append(streams[m], [args |-> signals[n].args, of |-> life'])
<1> DEFINE Of(m) == {n \in DOMAIN signals : signals[n].member = m}
           next(m) == IF Of(m) = {} THEN streams[m]
                      ELSE Append(streams[m], [args |-> signals[Max(Of(m))].args, of |-> life'])
<1>1. CASE at \in {"off", "done"} BY <1>1 DEF Emit, StreamsOK
<1>2. CASE at \notin {"off", "done"}
  <2>1. streams' = [m \in Members |-> next(m)] BY <1>2 DEF Emit
  <2>2. \A m \in Members : streams'[m] = next(m) BY <2>1
  <2>3. \A m \in Members : Of(m) # {} => Max(Of(m)) \in Of(m)
    <3>1. \A m \in Members : Of(m) \in SUBSET (1..4) OBVIOUS
    <3> QED BY <3>1, MaxOfFour
  <2>4. streams' = [m \in Members |-> streams'[m]] BY <2>1
  <2>5. ASSUME NEW m \in Members
        PROVE  IF ~\E n \in DOMAIN signals : signals[n].member = m
               THEN streams'[m] = streams[m]
               ELSE \E n \in DOMAIN signals :
                      /\ signals[n].member = m
                      /\ streams'[m] = Append(streams[m], [args |-> signals[n].args, of |-> life'])
    BY <2>2, <2>3
  <2> QED BY <1>2, <2>4, <2>5
<1> QED BY <1>1, <1>2

\* The streams keep their type when signals of theirs are sent.
LEMMA EmitType ==
  ASSUME NEW signals, DOMAIN signals \subseteq 1..4, StreamsOK, ServiceOK, Emit(signals),
         life' \in Nat, life' >= life, life' > 0,
         \A n \in DOMAIN signals : signals[n].args \in ArgumentsOf(signals[n].member)
  PROVE  StreamsOK'
<1>1. streams' = [m \in Members |-> streams'[m]] BY EmitShape
<1>2. ASSUME NEW m \in Members
      PROVE  /\ streams'[m] \in Seq(Sent(m))
             /\ \A i \in DOMAIN streams'[m] : streams'[m][i].of \in 1..(life')
  <2>1. /\ streams[m] \in Seq(Sent(m)) /\ \A i \in DOMAIN streams[m] : streams[m][i].of \in 1..life
        /\ life \in Nat
    BY ConstantsAre DEF StreamsOK, ServiceOK, Constants
  <2>2. \A i \in DOMAIN streams[m] : streams[m][i].of \in 1..(life') BY <2>1
  <2>3. CASE streams'[m] = streams[m] BY <2>1, <2>2, <2>3
  <2>4. CASE streams'[m] # streams[m]
    <3>1. PICK n \in DOMAIN signals :
            /\ signals[n].member = m
            /\ streams'[m] = Append(streams[m], [args |-> signals[n].args, of |-> life'])
      BY <2>4, EmitShape
    <3> DEFINE x == [args |-> signals[n].args, of |-> life']
    <3>2. x \in Sent(m) /\ x.of \in 1..(life') BY <3>1 DEF Sent
    <3> HIDE DEF x
    <3>3. /\ Append(streams[m], x) \in Seq(Sent(m))
          /\ DOMAIN Append(streams[m], x) = 1..(Len(streams[m]) + 1) /\ Len(streams[m]) \in Nat
          /\ DOMAIN streams[m] = 1..Len(streams[m])
          /\ \A i \in 1..Len(streams[m]) : Append(streams[m], x)[i] = streams[m][i]
          /\ Append(streams[m], x)[Len(streams[m]) + 1] = x
      BY <2>1, <3>2
    <3>4. \A i \in 1..(Len(streams[m]) + 1) : i \in 1..Len(streams[m]) \/ i = Len(streams[m]) + 1
      BY <3>3
    <3>5. streams'[m] = Append(streams[m], x) BY <3>1 DEF x
    <3> QED BY <2>2, <3>2, <3>3, <3>4, <3>5
  <2> QED BY <2>3, <2>4
<1> QED BY <1>1, <1>2 DEF StreamsOK

\* A stream without its head.
LEMMA TailType ==
  ASSUME StreamsOK, NEW m \in Members, streams[m] # <<>>,
         streams' = [streams EXCEPT ![m] = Tail(@)], life' = life
  PROVE  /\ StreamsOK' /\ Head(streams[m]) \in Sent(m) /\ Head(streams[m]).of \in 1..life
         /\ \A k \in Members \ {m} : streams'[k] = streams[k]
         /\ streams'[m] = Tail(streams[m])
<1> DEFINE o == streams[m]
<1>1. o \in Seq(Sent(m)) /\ \A i \in DOMAIN o : o[i].of \in 1..life BY DEF StreamsOK
<1>2. streams'[m] = Tail(o) /\ (\A k \in Members \ {m} : streams'[k] = streams[k])
      /\ streams' = [k \in Members |-> streams'[k]]
  BY DEF StreamsOK
<1> HIDE DEF o
<1>3. /\ Len(o) \in Nat /\ Len(o) > 0 /\ DOMAIN o = 1..Len(o) /\ Head(o) = o[1] /\ o[1] \in Sent(m)
      /\ Tail(o) \in Seq(Sent(m)) /\ DOMAIN Tail(o) = 1..(Len(o) - 1)
      /\ \A i \in 1..(Len(o) - 1) : Tail(o)[i] = o[i + 1]
  BY <1>1 DEF o
<1>4. \A i \in 1..(Len(o) - 1) : i + 1 \in DOMAIN o BY <1>3
<1>5. 1 \in DOMAIN o BY <1>3
<1>6. \A i \in DOMAIN Tail(o) : Tail(o)[i].of \in 1..life BY <1>1, <1>3, <1>4
<1>7. ASSUME NEW k \in Members
      PROVE  streams'[k] \in Seq(Sent(k)) /\ \A i \in DOMAIN streams'[k] : streams'[k][i].of \in 1..life
  BY <1>2, <1>3, <1>6 DEF StreamsOK
<1> QED BY <1>1, <1>2, <1>3, <1>5, <1>7 DEF StreamsOK, o
-----------------------------------------------------------------------------
(* The turns of the owner changes.                                           *)

LEMMA TurnsAppend ==
  ASSUME NEW S, NEW changes \in Seq(S), NEW x \in S, NEW seen \in Nat, NEW last \in Nat, NEW next \in Nat,
         NEW open \in BOOLEAN, NEW opens \in BOOLEAN, \A i \in DOMAIN changes : changes[i].of \in Nat,
         Turns(changes, seen, last, open), x.of = next, seen < next, last <= next,
         \A i \in DOMAIN changes : ~changes[i].args.owned => changes[i].of < next,
         ~x.args.owned => ~opens
  PROVE  Turns(Append(changes, x), seen, next, opens)
<1> DEFINE more == Append(changes, x)
           n == Len(changes)
<1>1. /\ n \in Nat /\ DOMAIN changes = 1..n /\ DOMAIN more = 1..(n + 1)
      /\ \A i \in 1..n : more[i] = changes[i]
      /\ more[n + 1] = x
  OBVIOUS
<1> HIDE DEF more, n
<1>2. \A i \in 1..(n + 1) : i \in 1..n \/ i = n + 1 BY <1>1
<1>3. \A i \in DOMAIN more : more[i].of > seen BY <1>1, <1>2 DEF Turns
<1>4. ASSUME NEW i \in DOMAIN more, NEW j \in DOMAIN more, i < j, ~more[i].args.owned
      PROVE  more[i].of < more[j].of
  <2>1. i \in 1..n BY <1>1, <1>2, <1>4
  <2>2. CASE j \in 1..n BY <1>1, <1>4, <2>1, <2>2 DEF Turns
  <2>3. CASE j = n + 1 BY <1>1, <1>4, <2>1, <2>3
  <2> QED BY <1>1, <1>2, <2>2, <2>3
<1>5. \A i \in DOMAIN more : ~more[i].args.owned => (more[i].of < next \/ ~opens)
  BY <1>1, <1>2
<1>6. opens => seen < next OBVIOUS
<1> QED BY <1>3, <1>4, <1>5, <1>6 DEF Turns, more

\* The head is taken: an end is then the last that was seen.
LEMMA TurnsTail ==
  ASSUME NEW S, NEW changes \in Seq(S), changes # <<>>, NEW seen \in Nat, NEW last \in Nat,
         NEW open \in BOOLEAN, Turns(changes, seen, last, open),
         \A i \in DOMAIN changes : changes[i].of \in 1..last
  PROVE  /\ seen < Head(changes).of
         /\ Turns(Tail(changes), seen, last, open)
         /\ ~Head(changes).args.owned => Turns(Tail(changes), Head(changes).of, last, open)
<1> DEFINE rest == Tail(changes)
           n == Len(changes)
<1>1. /\ n \in Nat /\ n > 0 /\ DOMAIN changes = 1..n /\ DOMAIN rest = 1..(n - 1)
      /\ Head(changes) = changes[1] /\ 1 \in 1..n
      /\ \A i \in 1..(n - 1) : rest[i] = changes[i + 1]
  OBVIOUS
<1> HIDE DEF rest, n
<1>2. \A i \in 1..(n - 1) : i + 1 \in 1..n /\ 1 < i + 1 BY <1>1
<1>3. \A i, j \in 1..(n - 1) : i < j => i + 1 < j + 1 BY <1>1
<1>4. /\ \A i, j \in DOMAIN rest : (i < j /\ ~rest[i].args.owned) => rest[i].of < rest[j].of
      /\ \A i \in DOMAIN rest : ~rest[i].args.owned => (rest[i].of < last \/ ~open)
  BY <1>1, <1>2, <1>3 DEF Turns
<1>5. seen < Head(changes).of BY <1>1 DEF Turns
<1>6. Turns(rest, seen, last, open) BY <1>1, <1>2, <1>4 DEF Turns
<1>7. ASSUME ~Head(changes).args.owned PROVE Turns(rest, Head(changes).of, last, open)
  <2>1. \A i \in DOMAIN rest : rest[i].of > Head(changes).of
    BY <1>1, <1>2, <1>7 DEF Turns
  <2>2. open => Head(changes).of < last BY <1>1, <1>7 DEF Turns
  <2> QED BY <1>4, <2>1, <2>2 DEF Turns
<1> QED BY <1>5, <1>6, <1>7 DEF rest
-----------------------------------------------------------------------------
(* The service.                                                              *)

\* What a step of the service leaves alone.
LEMMA ServiceFrame ==
  ASSUME LoopOK, ShownOK, WatcherOK, UNCHANGED <<at, reads, view, panelVars, watcherVars, clickVars, ended, late>>,
         life' \in Nat, life' >= life, life \in Nat,
         life' = life \/ ended < life'
  PROVE  LoopOK' /\ ShownOK' /\ WatcherOK'
<1>1. LoopOK'
  <2>1. /\ view' = view /\ at' = at /\ reads' = reads /\ ended' = ended /\ late' = late
        /\ ended \in 0..(life')
    BY DEF LoopOK
  <2> QED BY <2>1 DEF LoopOK
<1>2. ShownOK'
  <2>1. UNCHANGED <<item, menu, host, at, view, ended, late>> BY DEF panelVars
  <2>2. ended = life' => ended = life BY DEF LoopOK
  <2> QED BY <2>1, <2>2 DEF ShownOK, HostInformed
<1>3. WatcherOK' BY DEF WatcherOK, watcherVars, clickVars
<1> QED BY <1>1, <1>2, <1>3

\* The owner's stream and what was seen of it.
LEMMA OwnerParts ==
  ASSUME StreamsOK, ServiceOK, LoopOK
  PROVE  LET o == streams["NameOwnerChanged"]
         IN /\ o \in Seq(Sent("NameOwnerChanged")) /\ \A i \in DOMAIN o : o[i].of \in 1..life
            /\ life \in Nat /\ ended \in Nat /\ ended <= life
<1>1. "NameOwnerChanged" \in Members BY DEF Members
<1>2. life \in Nat BY ConstantsAre DEF ServiceOK, Constants
<1> QED BY <1>1, <1>2 DEF StreamsOK, LoopOK

\* A change of owner is announced to a tray that listens.
LEMMA OwnerAnnounced ==
  ASSUME ServiceOK, StreamsOK, LoopOK, OwnerOK, NEW b \in BOOLEAN,
         Emit(<<[member |-> "NameOwnerChanged", args |-> [owned |-> b]]>>),
         \/ b = TRUE /\ ~owned /\ owned' = TRUE /\ life' = life + 1
         \/ b = FALSE /\ owned /\ owned' = FALSE /\ life' = life,
         UNCHANGED <<at, ended>>
  PROVE  StreamsOK' /\ OwnerOK' /\ ended < life'
<1> DEFINE signal == [member |-> "NameOwnerChanged", args |-> [owned |-> b]]
           signals == <<signal>>
           o == streams["NameOwnerChanged"]
           x == [args |-> [owned |-> b], of |-> life']
<1>1. /\ o \in Seq(Sent("NameOwnerChanged")) /\ \A i \in DOMAIN o : o[i].of \in 1..life
      /\ life \in Nat /\ ended \in Nat /\ ended <= life
  BY OwnerParts
<1>2. Turns(o, ended, life, owned) BY DEF OwnerOK
<1>3. life' \in Nat /\ life' >= life /\ ended < life' /\ life' > 0 /\ owned' = b
  <2>1. owned => ended < life BY <1>2 DEF Turns
  <2>2. CASE b = TRUE BY <1>1, <2>2
  <2>3. CASE b = FALSE
    <3>1. owned /\ owned' = FALSE /\ life' = life BY <2>3
    <3>2. owned' = b BY <2>3
    <3>3. ended < life BY <2>1, <3>1
    <3>4. life > 0 BY <1>1, <3>3
    <3>5. life' \in Nat /\ life' >= life /\ ended < life' /\ life' > 0
      BY <1>1, <3>1, <3>3, <3>4
    <3> QED BY <3>2, <3>5
  <2> QED BY <2>2, <2>3
<1>4. /\ DOMAIN signals = {1} /\ signals[1] = signal
      /\ signal.member = "NameOwnerChanged" /\ signal.args = [owned |-> b]
      /\ signal.args \in ArgumentsOf("NameOwnerChanged")
  <2>1. signal.args = [owned |-> b] /\ [owned |-> b] \in [owned : BOOLEAN] OBVIOUS
  <2>2. signal.args \in ArgumentsOf("NameOwnerChanged") BY <2>1, MemberArguments
  <2>3. signal.member = "NameOwnerChanged" OBVIOUS
  <2> HIDE DEF signal
  <2>4. DOMAIN signals = {1} /\ signals[1] = signal OBVIOUS
  <2> QED BY <2>1, <2>2, <2>3, <2>4
<1>5. DOMAIN signals \subseteq 1..4 BY <1>4
<1>6. \A n \in DOMAIN signals : signals[n] = signal BY <1>4
<1> HIDE DEF signals, signal
<1>7. Emit(signals) BY DEF signals, signal
<1>8. StreamsOK' BY <1>3, <1>4, <1>5, <1>6, <1>7, EmitType
<1>9. "NameOwnerChanged" \in Members BY DEF Members
<1>10. streams'["NameOwnerChanged"] = IF at \in {"off", "done"} THEN o ELSE Append(o, x)
  <2>1. IF at \in {"off", "done"} \/ ~\E n \in DOMAIN signals : signals[n].member = "NameOwnerChanged"
        THEN streams'["NameOwnerChanged"] = o
        ELSE \E n \in DOMAIN signals :
               /\ signals[n].member = "NameOwnerChanged"
               /\ streams'["NameOwnerChanged"] = Append(o, [args |-> signals[n].args, of |-> life'])
    BY <1>5, <1>7, <1>9, EmitShape
  <2> QED BY <1>4, <1>6, <2>1
<1>11. \A i \in DOMAIN o : ~o[i].args.owned => o[i].of < life' /\ o[i].of \in Nat
  <2>1. \A i \in DOMAIN o : o[i].of \in Nat /\ o[i].of <= life BY <1>1
  <2>2. \A i \in DOMAIN o : ~o[i].args.owned => o[i].of < life \/ ~owned BY <1>2 DEF Turns
  <2> HIDE DEF o
  <2>3. CASE b = TRUE BY <1>1, <2>1, <2>3
  <2>4. CASE b = FALSE BY <1>1, <2>1, <2>2, <2>4
  <2> QED BY <2>3, <2>4
<1>12. Turns(o, ended, life', b) BY <1>2, <1>3, <1>11 DEF Turns
<1>13. Turns(Append(o, x), ended, life', b)
  <2>1. x \in Sent("NameOwnerChanged") BY <1>3, MemberArguments DEF Sent
  <2>2. x.of = life' /\ x.args.owned = b OBVIOUS
  <2>3. \A i \in DOMAIN o : o[i].of \in Nat BY <1>1
  <2> HIDE DEF x, o
  <2> QED BY <1>1, <1>2, <1>3, <1>11, <2>1, <2>2, <2>3, TurnsAppend DEF ServiceOK
<1>14. Turns(streams'["NameOwnerChanged"], ended', life', owned') BY <1>10, <1>12, <1>13
<1>15. at' = "refreshing" => ended' < life' BY <1>3
<1> QED BY <1>3, <1>8, <1>14, <1>15 DEF OwnerOK

LEMMA ComeLeaveOK == ASSUME IInv, Come \/ Leave PROVE IInv'
<1> USE DEF IInv
<1>0. life \in Nat /\ MaxLives \in Nat BY ConstantsAre DEF ServiceOK, Constants
<1>1. CASE Come
  <2>1. StreamsOK' /\ OwnerOK' /\ ended < life'
    <3>1. ~owned /\ owned' = TRUE /\ life' = life + 1 /\ UNCHANGED <<at, ended>>
          /\ Emit(<<[member |-> "NameOwnerChanged", args |-> [owned |-> TRUE]]>>)
      BY <1>1 DEF Come
    <3> QED BY <3>1, OwnerAnnounced
  <2>2. life' = life + 1 /\ life < MaxLives BY <1>1 DEF Come
  <2>3. LoopOK' /\ ShownOK' /\ WatcherOK'
    BY <1>0, <1>1, <2>1, <2>2, ServiceFrame DEF Come
  <2>4. NewlyServed \in Served BY DEF NewlyServed, Served
  <2>5. ServiceOK' BY <1>0, <1>1, <2>2, <2>4 DEF ServiceOK, Come
  <2> QED BY <2>1, <2>3, <2>5
<1>2. CASE Leave
  <2>1. StreamsOK' /\ OwnerOK' /\ ended < life'
    <3>1. owned /\ owned' = FALSE /\ life' = life /\ UNCHANGED <<at, ended>>
          /\ Emit(<<[member |-> "NameOwnerChanged", args |-> [owned |-> FALSE]]>>)
      BY <1>2 DEF Leave
    <3> QED BY <3>1, OwnerAnnounced
  <2>2. LoopOK' /\ ShownOK' /\ WatcherOK' BY <1>0, <1>2, ServiceFrame DEF Leave
  <2>3. ServiceOK' BY <1>2 DEF ServiceOK, Leave
  <2> QED BY <2>1, <2>2, <2>3
<1> QED BY <1>1, <1>2

\* What a publication sends says something of its member, and of no owner.
LEMMA PublishedSignals ==
  ASSUME ServiceOK, Publish
  PROVE  \E signals : /\ DOMAIN signals \subseteq 1..4 /\ Emit(signals)
                      /\ \A n \in DOMAIN signals :
                           /\ signals[n].args \in ArgumentsOf(signals[n].member)
                           /\ signals[n].member # "NameOwnerChanged"
<1>1. ASSUME NEW s \in States, Emit(StateSignals(served.state, s))
      PROVE  \E signals : /\ DOMAIN signals \subseteq 1..4 /\ Emit(signals)
                          /\ \A n \in DOMAIN signals :
                               /\ signals[n].args \in ArgumentsOf(signals[n].member)
                               /\ signals[n].member # "NameOwnerChanged"
  <2> DEFINE signals == StateSignals(served.state, s)
  <2>1. ASSUME NEW x,
               NEW m \in {"StateChanged", "DownloadChanged", "IndexingChanged", "ActiveUploadsChanged"},
               x = Signal(m, Carried(m), s)
        PROVE  x.args \in ArgumentsOf(x.member) /\ x.member # "NameOwnerChanged"
    <3>1. x.member = m /\ x.args = [k \in Carried(m) |-> s[k]] BY <2>1 DEF Signal
    <3> QED BY <3>1, MemberArguments DEF Partials
  <2>2. /\ Carried("StateChanged") = StateChangedFields /\ Carried("DownloadChanged") = {"downloading"}
        /\ Carried("IndexingChanged") = {"indexing"} /\ Carried("ActiveUploadsChanged") = {"uploading"}
    BY DEF Carried
  <2>3. DOMAIN signals \subseteq 1..4
        /\ \A n \in DOMAIN signals :
             \/ signals[n] = Signal("StateChanged", StateChangedFields, s)
             \/ signals[n] = Signal("DownloadChanged", {"downloading"}, s)
             \/ signals[n] = Signal("IndexingChanged", {"indexing"}, s)
             \/ signals[n] = Signal("ActiveUploadsChanged", {"uploading"}, s)
    BY SignalsOfChange DEF Holds
  <2>4. Emit(signals) BY <1>1
  <2> HIDE DEF signals
  <2>5. \A n \in DOMAIN signals : /\ signals[n].args \in ArgumentsOf(signals[n].member)
                                  /\ signals[n].member # "NameOwnerChanged"
    BY <2>1, <2>2, <2>3
  <2> QED BY <2>3, <2>4, <2>5
<1>2. ASSUME NEW m \in {"CredentialStateChanged", "DesktopChanged"}, NEW args \in ArgumentsOf(m),
             Emit(<<[member |-> m, args |-> args]>>)
      PROVE  \E signals : /\ DOMAIN signals \subseteq 1..4 /\ Emit(signals)
                          /\ \A n \in DOMAIN signals :
                               /\ signals[n].args \in ArgumentsOf(signals[n].member)
                               /\ signals[n].member # "NameOwnerChanged"
  <2> DEFINE signals == <<[member |-> m, args |-> args]>>
  <2>1. DOMAIN signals = {1} /\ signals[1].member = m /\ signals[1].args = args OBVIOUS
  <2>2. Emit(signals) BY <1>2
  <2> HIDE DEF signals
  <2> QED BY <2>1, <2>2
<1>3. CASE \E s \in States : Emit(StateSignals(served.state, s)) BY <1>1, <1>3
<1>4. CASE \E c \in Credentials : Emit(<<[member |-> "CredentialStateChanged", args |-> [credential |-> c]]>>)
  BY <1>2, <1>4, MemberArguments
<1>5. CASE \E d \in Desktops : Emit(<<[member |-> "DesktopChanged", args |-> [desktop |-> d]]>>)
  BY <1>2, <1>5, MemberArguments
<1> QED BY <1>3, <1>4, <1>5 DEF Publish

LEMMA PublishOK == ASSUME IInv, Publish PROVE IInv'
<1> USE DEF IInv
<1>1. /\ life' = life /\ owned' = owned /\ owned /\ published' = published + 1 /\ published < MaxPublished
      /\ UNCHANGED <<at, reads, view, panelVars, watcherVars, clickVars, ended, late>>
  BY DEF Publish
<1>2. life \in Nat /\ MaxPublished \in Nat /\ life > 0 BY <1>1, ConstantsAre DEF ServiceOK, Constants
<1>3. PICK signals : /\ DOMAIN signals \subseteq 1..4 /\ Emit(signals)
                     /\ \A n \in DOMAIN signals :
                          /\ signals[n].args \in ArgumentsOf(signals[n].member)
                          /\ signals[n].member # "NameOwnerChanged"
  BY PublishedSignals
<1>4. StreamsOK' BY <1>1, <1>2, <1>3, EmitType
<1>5. streams'["NameOwnerChanged"] = streams["NameOwnerChanged"]
  <2>1. "NameOwnerChanged" \in Members BY DEF Members
  <2> QED BY <1>3, <2>1, EmitShape
<1>6. OwnerOK' BY <1>1, <1>5 DEF OwnerOK
<1>7. LoopOK' /\ ShownOK' /\ WatcherOK' BY <1>1, <1>2, ServiceFrame
<1>8. served' \in Served
  <2>1. served \in Served BY DEF ServiceOK
  <2>2. ASSUME NEW s \in States, served' = [served EXCEPT !.state = s] PROVE served' \in Served
    BY <2>1, <2>2 DEF Served
  <2>3. ASSUME NEW c \in Credentials, served' = [served EXCEPT !.credential = c] PROVE served' \in Served
    BY <2>1, <2>3 DEF Served
  <2>4. ASSUME NEW d \in Desktops, served' = [served EXCEPT !.desktop = d] PROVE served' \in Served
    BY <2>1, <2>4 DEF Served
  <2> QED BY <2>2, <2>3, <2>4 DEF Publish
<1>9. ServiceOK' BY <1>1, <1>2, <1>8 DEF ServiceOK
<1> QED BY <1>4, <1>6, <1>7, <1>9
-----------------------------------------------------------------------------
(* What the tray reads and hears.                                            *)

\* A view of which two fields move.
LEMMA LearntIsView ==
  ASSUME NEW v, IsView(v), NEW known \in BOOLEAN, NEW s, DaemonView(s), known \/ s = DefaultState,
         NEW w, w = [known |-> known, state |-> s, credential |-> v.credential, desktop |-> v.desktop]
  PROVE  IsView(w)
BY DEF IsView

LEMMA KnownField ==
  ASSUME NEW v, IsView(v), NEW b
  PROVE  [v EXCEPT !.known = b]
         = [known |-> b, state |-> v.state, credential |-> v.credential, desktop |-> v.desktop]
BY DEF IsView

LEMMA KnownIsView ==
  ASSUME NEW v, IsView(v), NEW w, w = [v EXCEPT !.known = TRUE]
  PROVE  IsView(w) /\ w.known = TRUE /\ w.state = v.state
<1>1. w = [known |-> TRUE, state |-> v.state, credential |-> v.credential, desktop |-> v.desktop]
  BY KnownField
<1>2. DaemonView(v.state) BY DEF IsView
<1>3. IsView(w) BY <1>1, <1>2, LearntIsView
<1> QED BY <1>1, <1>3, Zenon

LEMMA FieldIsView ==
  ASSUME NEW v, IsView(v)
  PROVE  /\ \A c \in Credentials \cup {"unknown"} : IsView([v EXCEPT !.credential = c])
         /\ \A d \in Desktops \cup {NoDesktop} : IsView([v EXCEPT !.desktop = d])
         /\ \A s : v.known /\ DaemonView(s) => IsView([v EXCEPT !.state = s])
BY DEF IsView

LEMMA ReadIsView == ASSUME ServiceOK, IsView(view), NEW which \in Groups PROVE IsView(Read(which))
<1> DEFINE source == IF owned THEN served ELSE NewlyServed
           fetched == [k \in Fields(which) |-> source.state[k]]
<1>1. source \in Served BY DEF ServiceOK, NewlyServed, Served
<1>2. IsState(source.state)
  <2>1. source.state \in States \cup {DefaultState} BY <1>1 DEF Served
  <2> QED BY <2>1, ConstantsAssumption, DefaultIsView DEF DaemonView
<1>3. source.credential \in Credentials \cup {"unknown"} /\ source.desktop \in Desktops \cup {NoDesktop}
  BY <1>1 DEF Served
<1>4. ~owned => source.state = DefaultState BY DEF NewlyServed
<1> HIDE DEF source
<1>5. \A old : DaemonView(old) => DaemonView(Overlay(fetched, old)) BY <1>2, OverlayIsView
<1>6. ~owned => Overlay(fetched, DefaultState) = DefaultState
  <2>1. \A k \in DOMAIN fetched : fetched[k] = source.state[k] OBVIOUS
  <2>2. DefaultState = [k \in DaemonFields |-> DefaultState[k]] /\ DOMAIN DefaultState = DaemonFields
    BY DefaultIsState DEF IsDaemonState
  <2> HIDE DEF fetched
  <2> QED BY <1>4, <2>1, <2>2 DEF Overlay
<1> HIDE DEF fetched
<1>7. CASE which = "desktop"
  <2>1. Read(which) = [view EXCEPT !.desktop = source.desktop] BY <1>7 DEF Read, source
  <2> QED BY <1>3, <2>1, FieldIsView
<1>8. CASE which = "credential"
  <2>1. Read(which) = [view EXCEPT !.credential = source.credential] BY <1>8 DEF Read, source
  <2> QED BY <1>3, <2>1, FieldIsView
<1>9. CASE which = "counters"
  <2> DEFINE s == Overlay(fetched, DefaultState)
             v == [view EXCEPT !.known = owned]
             w == [v EXCEPT !.state = s]
  <2>1. Read(which) = w BY <1>9, Zenon DEF Read, source, fetched
  <2>2. DaemonView(s) /\ (owned \/ s = DefaultState) BY <1>5, <1>6, DefaultIsView
  <2> HIDE DEF s
  <2>3. v = [known |-> owned, state |-> view.state, credential |-> view.credential, desktop |-> view.desktop]
    BY KnownField
  <2> HIDE DEF v
  <2>4. w = [known |-> owned, state |-> s, credential |-> view.credential, desktop |-> view.desktop]
    BY <2>3
  <2> HIDE DEF w
  <2>5. IsView(w) BY <2>2, <2>4, LearntIsView DEF ServiceOK
  <2> QED BY <2>1, <2>5
<1>10. CASE which = "activities"
  <2>1. Read(which) = IF view.known THEN [view EXCEPT !.state = Overlay(fetched, view.state)] ELSE view
    BY <1>10 DEF Read, source, fetched
  <2>2. DaemonView(Overlay(fetched, view.state)) BY <1>5 DEF IsView
  <2> QED BY <2>1, <2>2, FieldIsView
<1> QED BY <1>7, <1>8, <1>9, <1>10 DEF Groups

LEMMA HearIsView ==
  ASSUME IsView(view), NEW m \in Members \ {"NameOwnerChanged"}, NEW args \in ArgumentsOf(m)
  PROVE  IsView(HearSignal(m, args))
<1>1. ASSUME args \in Partials(m), NEW old, DaemonView(old) PROVE DaemonView(Overlay(args, old))
  <2>1. PICK s \in States : args = [k \in Carried(m) |-> s[k]] BY <1>1 DEF Partials
  <2>2. IsState(s) BY ConstantsAssumption
  <2> QED BY <1>1, <2>1, <2>2, OverlayIsView
<1>2. DaemonView(view.state) BY DEF IsView
<1>3. CASE m = "CredentialStateChanged"
  <2>0. args \in [credential : Credentials] BY <1>3, MemberArguments
  <2>1. args.credential \in Credentials BY <2>0
  <2>2. HearSignal(m, args) = [view EXCEPT !.credential = args.credential] BY <1>3 DEF HearSignal
  <2> QED BY <2>1, <2>2, FieldIsView
<1>4. CASE m = "DesktopChanged"
  <2>0. args \in [desktop : Desktops] BY <1>4, MemberArguments
  <2>1. args.desktop \in Desktops BY <2>0
  <2>2. HearSignal(m, args) = [view EXCEPT !.desktop = args.desktop] BY <1>4 DEF HearSignal
  <2> QED BY <2>1, <2>2, FieldIsView
<1>5. CASE m = "StateChanged"
  <2> DEFINE s == Overlay(args, view.state)
             v == [view EXCEPT !.known = TRUE]
             w == [v EXCEPT !.state = Overlay(args, v.state)]
  <2>1. HearSignal(m, args) = w BY <1>5, Zenon DEF HearSignal
  <2>2. DaemonView(s) BY <1>1, <1>2, <1>5, MemberArguments
  <2>3. IsView(v) /\ v.known = TRUE /\ v.state = view.state BY KnownIsView
  <2> HIDE DEF v
  <2>4. w = [v EXCEPT !.state = s] BY <2>3
  <2> HIDE DEF w, s
  <2>5. IsView(w) BY <2>2, <2>3, <2>4, FieldIsView
  <2> QED BY <2>1, <2>5
<1>6. CASE m \in {"DownloadChanged", "IndexingChanged", "ActiveUploadsChanged"}
  <2>1. HearSignal(m, args) = IF view.known THEN [view EXCEPT !.state = Overlay(args, view.state)] ELSE view
    BY <1>6 DEF HearSignal
  <2>2. DaemonView(Overlay(args, view.state)) BY <1>1, <1>2, <1>6, MemberArguments
  <2> QED BY <2>1, <2>2, FieldIsView
<1> QED BY <1>3, <1>4, <1>5, <1>6 DEF Members
-----------------------------------------------------------------------------
(* What it shows.                                                            *)

LEMMA ApplyShows ==
  ASSUME item = menu, HostInformed, NEW p, Apply(p)
  PROVE  item' = p /\ menu' = p /\ HostInformed'
<1>1. /\ host.icon = item.icon /\ host.status = item.status
      /\ host.tooltip = <<item.headline, item.detail>> /\ host.menu = MenuItems(menu)
  BY DEF HostInformed, HostView
<1>2. item' = p /\ menu' = p BY DEF Apply
<1>3. [id \in DOMAIN MenuItems(p) |-> IF MenuItems(menu)[id] # MenuItems(p)[id]
                                     THEN MenuItems(p)[id] ELSE host.menu[id]] = MenuItems(p)
  <2>1. \A id \in DOMAIN MenuItems(p) :
          (IF MenuItems(menu)[id] # MenuItems(p)[id] THEN MenuItems(p)[id] ELSE host.menu[id])
          = MenuItems(p)[id]
    BY <1>1
  <2>2. MenuItems(p) = [id \in DOMAIN MenuItems(p) |-> MenuItems(p)[id]] BY DEF MenuItems
  <2> QED BY <2>1, <2>2
<1>4. host' = [icon |-> p.icon, status |-> p.status,
               tooltip |-> <<p.headline, p.detail>>, menu |-> MenuItems(p)]
  BY <1>1, <1>3 DEF Apply
<1> QED BY <1>2, <1>4 DEF HostInformed, HostView

LEMMA RefreshShows ==
  ASSUME ShownOK, Refresh
  PROVE  item' = menu' /\ HostInformed' /\ item' = PresentWithDesktop(view')
<1>1. item = menu /\ HostInformed BY DEF ShownOK
<1>2. PICK p \in {PresentWithDesktop(view')} : Apply(p) BY DEF Refresh
<1>3. item' = p /\ menu' = p /\ HostInformed' BY <1>1, <1>2, ApplyShows
<1> QED BY <1>2, <1>3
-----------------------------------------------------------------------------
(* The run loop.                                                             *)

LEMMA StartOK == ASSUME IInv, Start PROVE IInv'
<1> USE DEF IInv
<1>1. ServiceOK' BY DEF ServiceOK, Start, serviceVars
<1>2. StreamsOK' BY DEF StreamsOK, Start, serviceVars
<1>3. at = "off" /\ at' = "starting" BY DEF Start
<1>4. reads' \in Seq(Groups) /\ reads' # <<>>
  <2>1. reads' = <<"counters", "activities", "desktop", "credential">> BY DEF Start
  <2> QED BY <2>1 DEF Groups
<1>5. LoopOK' BY <1>3, <1>4 DEF LoopOK, Start, serviceVars
<1>6. OwnerOK' BY <1>3 DEF OwnerOK, Start, serviceVars
<1>7. ShownOK' BY <1>3 DEF ShownOK, HostInformed, Start, panelVars
<1>8. WatcherOK' BY DEF WatcherOK, Start, watcherVars, clickVars
<1> QED BY <1>1, <1>2, <1>5, <1>6, <1>7, <1>8

LEMMA ColdReadOK == ASSUME IInv, ColdRead PROVE IInv'
<1> USE DEF IInv
<1>1. ServiceOK' BY DEF ServiceOK, ColdRead, serviceVars
<1>2. StreamsOK' BY DEF StreamsOK, ColdRead, serviceVars
<1>3. /\ at \in {"starting", "refreshing"} /\ reads \in Seq(Groups) /\ reads # <<>>
      /\ reads' = Tail(reads) /\ UNCHANGED <<streams, life, owned, ended, late>>
  BY DEF ColdRead, LoopOK, serviceVars
<1>4. /\ Head(reads) \in Groups /\ reads' \in Seq(Groups) /\ Len(reads) \in Nat
      /\ (reads' # <<>>) <=> (Len(reads) > 1)
  <2>1. /\ Len(reads) \in Nat /\ Len(reads) > 0 /\ Head(reads) \in Groups
        /\ Tail(reads) \in Seq(Groups) /\ Len(Tail(reads)) = Len(reads) - 1
    BY <1>3
  <2>2. Tail(reads) # <<>> <=> Len(Tail(reads)) > 0 BY <2>1
  <2> QED BY <1>3, <2>1, <2>2
<1>5. IsView(view')
  <2>1. view' = Read(Head(reads)) BY DEF ColdRead
  <2> QED BY <1>4, <2>1, ReadIsView DEF LoopOK
<1>6. WatcherOK' BY DEF WatcherOK, ColdRead, watcherVars, clickVars
<1>7. CASE Len(reads) > 1
  <2>1. UNCHANGED <<at, panelVars, registered>> BY <1>7 DEF ColdRead
  <2>2. LoopOK' BY <1>3, <1>4, <1>5, <1>7, <2>1 DEF LoopOK
  <2>3. OwnerOK' BY <1>3, <2>1 DEF OwnerOK
  <2>4. ShownOK' BY <1>3, <2>1 DEF ShownOK, HostInformed, panelVars
  <2> QED BY <1>1, <1>2, <1>6, <2>2, <2>3, <2>4
<1>8. CASE ~(Len(reads) > 1)
  <2>1. Refresh /\ at' \in {"done", "run"} BY <1>8 DEF ColdRead
  <2>2. item' = menu' /\ HostInformed' /\ item' = PresentWithDesktop(view') BY <2>1, RefreshShows
  <2>3. LoopOK' BY <1>3, <1>4, <1>5, <1>8, <2>1 DEF LoopOK
  <2>4. OwnerOK' BY <1>3, <2>1 DEF OwnerOK
  <2>5. ~(ended = life /\ ended > 0) BY <1>3 DEF OwnerOK, LoopOK
  <2>6. ShownOK' BY <1>3, <2>2, <2>5 DEF ShownOK
  <2> QED BY <1>1, <1>2, <1>6, <2>3, <2>4, <2>6
<1> QED BY <1>7, <1>8

LEMMA HandleOK == ASSUME IInv, NEW m \in Members, Handle(m) PROVE IInv'
<1> USE DEF IInv
<1>1. /\ at = "run" /\ m # "NameOwnerChanged" /\ streams[m] # <<>> /\ Refresh
      /\ view' = HearSignal(m, Head(streams[m]).args)
      /\ late' = (late \/ Head(streams[m]).of <= ended)
      /\ streams' = [streams EXCEPT ![m] = Tail(@)]
      /\ UNCHANGED <<serviceVars, at, reads, watcherVars, clickVars, ended>>
  BY DEF Handle
<1>2. ServiceOK' BY <1>1 DEF ServiceOK, serviceVars
<1>3. /\ StreamsOK' /\ Head(streams[m]) \in Sent(m) /\ Head(streams[m]).of \in 1..life
      /\ \A k \in Members \ {m} : streams'[k] = streams[k]
  BY <1>1, TailType DEF serviceVars
<1>4. IsView(view')
  <2>1. Head(streams[m]).args \in ArgumentsOf(m) BY <1>3 DEF Sent
  <2> QED BY <1>1, <2>1, HearIsView DEF LoopOK
<1>5. life \in Nat /\ ended \in Nat /\ life' = life /\ owned' = owned
  BY <1>1, OwnerParts DEF serviceVars
<1>6. late' \in BOOLEAN BY <1>1 DEF LoopOK
<1>7. LoopOK' BY <1>1, <1>4, <1>5, <1>6 DEF LoopOK
<1>8. OwnerOK'
  <2>1. "NameOwnerChanged" \in Members \ {m} BY <1>1 DEF Members
  <2>2. streams'["NameOwnerChanged"] = streams["NameOwnerChanged"] BY <1>3, <2>1
  <2> QED BY <1>1, <1>5, <2>2 DEF OwnerOK
<1>9. item' = menu' /\ HostInformed' /\ item' = PresentWithDesktop(view') BY <1>1, RefreshShows
<1>10. ~(ended' = life' /\ ~late')
  <2>1. ended' = ended BY <1>1
  <2>2. ended = life => Head(streams[m]).of <= ended BY <1>3, <1>5
  <2>3. Head(streams[m]).of <= ended => late' BY <1>1
  <2> QED BY <1>5, <2>1, <2>2, <2>3
<1>11. ShownOK' BY <1>9, <1>10 DEF ShownOK
<1>12. WatcherOK' BY <1>1 DEF WatcherOK, watcherVars, clickVars
<1> QED BY <1>2, <1>3, <1>7, <1>8, <1>11, <1>12

LEMMA HandleOwnerOK == ASSUME IInv, HandleOwner PROVE IInv'
<1> USE DEF IInv
<1> DEFINE o == streams["NameOwnerChanged"]
           change == Head(o)
<1>1. /\ at = "run" /\ o # <<>> /\ UNCHANGED <<serviceVars, watcherVars, clickVars>>
      /\ streams' = [streams EXCEPT !["NameOwnerChanged"] = Tail(@)]
  BY DEF HandleOwner
<1>2. ServiceOK' BY <1>1 DEF ServiceOK, serviceVars
<1>3. "NameOwnerChanged" \in Members BY DEF Members
<1>4. life' = life /\ owned' = owned BY <1>1 DEF serviceVars
<1>5. StreamsOK' /\ change.of \in 1..life /\ streams'["NameOwnerChanged"] = Tail(o)
  BY <1>1, <1>3, <1>4, TailType
<1>6. /\ o \in Seq(Sent("NameOwnerChanged")) /\ \A i \in DOMAIN o : o[i].of \in 1..life
      /\ life \in Nat /\ ended \in Nat /\ ended <= life
  BY OwnerParts
<1>7. Turns(o, ended, life, owned) /\ owned \in BOOLEAN BY DEF OwnerOK, ServiceOK
<1> HIDE DEF o
<1>8. /\ ended < change.of /\ Turns(Tail(o), ended, life, owned)
      /\ ~change.args.owned => Turns(Tail(o), change.of, life, owned)
  BY <1>1, <1>6, <1>7, TurnsTail
<1>9. WatcherOK' BY <1>1 DEF WatcherOK, watcherVars, clickVars
<1>10. CASE ~change.args.owned /\ ended' = change.of /\ Forget /\ Refresh /\ UNCHANGED <<at, reads, late>>
  <2>1. view' = [Nothing EXCEPT !.desktop = view.desktop] BY <1>10 DEF Forget
  <2>2. IsView(view') /\ ~view'.known
    <3>1. IsView(Nothing) /\ view.desktop \in Desktops \cup {NoDesktop}
      BY NothingIsView DEF LoopOK, IsView
    <3>2. ~view'.known BY <2>1 DEF Nothing
    <3> QED BY <2>1, <3>1, <3>2, FieldIsView
  <2>3. LoopOK' BY <1>4, <1>5, <1>10, <2>2 DEF LoopOK
  <2>4. OwnerOK' BY <1>1, <1>4, <1>5, <1>8, <1>10 DEF OwnerOK
  <2>5. ShownOK' BY <1>10, <2>2, RefreshShows DEF ShownOK
  <2> QED BY <1>2, <1>5, <1>9, <2>3, <2>4, <2>5
<1>11. CASE /\ change.args.owned /\ at' = "refreshing" /\ late' = FALSE
            /\ reads' = <<"desktop", "counters", "activities", "credential">>
            /\ UNCHANGED <<view, panelVars, ended>>
  <2>1. reads' \in Seq(Groups) /\ reads' # <<>> BY <1>11 DEF Groups
  <2>2. LoopOK' BY <1>4, <1>6, <1>11, <2>1 DEF LoopOK
  <2>3. ended < life BY <1>5, <1>6, <1>8
  <2>4. OwnerOK' BY <1>4, <1>5, <1>8, <1>11, <2>3 DEF OwnerOK
  <2>5. ShownOK' BY <1>11 DEF ShownOK, HostInformed, panelVars
  <2> QED BY <1>2, <1>5, <1>9, <2>2, <2>4, <2>5
<1> QED BY <1>10, <1>11 DEF HandleOwner, o
-----------------------------------------------------------------------------
(* The watcher, the clicks and the end.                                      *)

LEMMA WatcherStepsOK ==
  ASSUME IInv, WatcherLeaves \/ WatcherComes \/ HandleWatcher \/ Click \/ SignIn
  PROVE  IInv'
<1> USE DEF IInv
<1>1. UNCHANGED <<serviceVars, streams, at, reads, view, panelVars, ended, late>>
  BY DEF WatcherLeaves, WatcherComes, HandleWatcher, Click, SignIn
<1>2. ServiceOK' /\ StreamsOK' BY <1>1 DEF ServiceOK, StreamsOK, serviceVars
<1>3. LoopOK' BY <1>1 DEF LoopOK, serviceVars
<1>4. OwnerOK' BY <1>1 DEF OwnerOK, serviceVars
<1>5. ShownOK' BY <1>1 DEF ShownOK, HostInformed, serviceVars, panelVars
<1>6. WatcherOK'
  <2>0. MaxWatchers \in Nat /\ MaxClicks \in Nat BY ConstantsAre DEF Constants
  <2>1. CASE WatcherLeaves BY <2>1 DEF WatcherLeaves, WatcherOK, clickVars
  <2>2. CASE WatcherComes BY <2>0, <2>2 DEF WatcherComes, WatcherOK, clickVars
  <2>3. CASE HandleWatcher BY <2>0, <2>3 DEF HandleWatcher, WatcherOK, clickVars
  <2>4. CASE Click BY <2>0, <2>4 DEF Click, WatcherOK, watcherVars
  <2>5. CASE SignIn BY <2>5 DEF SignIn, WatcherOK, watcherVars
  <2> QED BY <2>1, <2>2, <2>3, <2>4, <2>5
<1> QED BY <1>2, <1>3, <1>4, <1>5, <1>6

LEMMA EndOK == ASSUME IInv, End PROVE IInv'
<1> USE DEF IInv
<1>1. at = "run" /\ at' = "done" /\ streams' = Quiet /\ registered' = FALSE
      /\ UNCHANGED <<serviceVars, reads, view, panelVars, watcher, watchers, returned, clickVars, ended, late>>
  BY DEF End
<1>2. ServiceOK' BY <1>1 DEF ServiceOK, serviceVars
<1>3. /\ streams' = [m \in Members |-> streams'[m]] /\ \A m \in Members : streams'[m] = <<>>
  BY <1>1 DEF Quiet
<1>4. StreamsOK'
  <2>1. DOMAIN <<>> = {} /\ \A S : <<>> \in Seq(S) OBVIOUS
  <2> QED BY <1>3, <2>1 DEF StreamsOK
<1>5. LoopOK' BY <1>1 DEF LoopOK, serviceVars
<1>6. OwnerOK'
  <2>1. streams'["NameOwnerChanged"] = <<>> BY <1>3 DEF Members
  <2>2. owned => ended < life BY DEF OwnerOK, Turns
  <2>3. UNCHANGED <<ended, life, owned>> BY <1>1 DEF serviceVars
  <2>4. Turns(<<>>, ended', life', owned') BY <2>2, <2>3 DEF Turns
  <2> QED BY <1>1, <2>1, <2>4 DEF OwnerOK
<1>7. ShownOK' BY <1>1 DEF ShownOK, HostInformed, panelVars
<1>8. WatcherOK' BY <1>1 DEF WatcherOK, clickVars
<1> QED BY <1>2, <1>4, <1>5, <1>6, <1>7, <1>8

LEMMA InitOK == ASSUME Init PROVE IInv
<1> USE DEF Init
<1>1. Constants BY ConstantsAre
<1>2. ServiceOK
  <2>1. NewlyServed \in Served BY DEF NewlyServed, Served
  <2>2. life \in 0..(MaxLives + 1) /\ 0 \in 0..MaxPublished BY <1>1 DEF Constants
  <2> QED BY <2>1, <2>2 DEF ServiceOK
<1>3. StreamsOK
  <2>1. streams = [m \in Members |-> streams[m]] /\ \A m \in Members : streams[m] = <<>> BY DEF Quiet
  <2>2. DOMAIN <<>> = {} /\ \A S : <<>> \in Seq(S) OBVIOUS
  <2> QED BY <2>1, <2>2 DEF StreamsOK
<1>4. LoopOK
  <2>1. 0 \in 0..life /\ <<>> \in Seq(Groups) OBVIOUS
  <2> QED BY <2>1, NothingIsView DEF LoopOK
<1>5. OwnerOK
  <2>1. streams["NameOwnerChanged"] = <<>> BY DEF Quiet, Members
  <2>2. owned => 0 < life OBVIOUS
  <2> QED BY <2>1, <2>2 DEF OwnerOK, Turns
<1>6. ShownOK BY DEF ShownOK, HostInformed
<1>7. WatcherOK BY <1>1 DEF WatcherOK, Constants
<1> QED BY <1>2, <1>3, <1>4, <1>5, <1>6, <1>7 DEF IInv
-----------------------------------------------------------------------------
(* The theorems.                                                             *)

\* Every signal on its way is of a life begun, owner changes come in turns, and
\* the panel shows what the run loop knows.
THEOREM Invariance == Spec => []IInv
<1>1. IInv /\ [Next]_vars => IInv'
  <2> SUFFICES ASSUME IInv, [Next]_vars PROVE IInv' OBVIOUS
  <2>1. CASE UNCHANGED vars
    <3> USE DEF vars, serviceVars, panelVars, watcherVars, clickVars
    <3>1. ServiceOK' /\ StreamsOK' BY <2>1 DEF IInv, ServiceOK, StreamsOK
    <3>2. LoopOK' /\ OwnerOK' BY <2>1 DEF IInv, LoopOK, OwnerOK
    <3>3. ShownOK' /\ WatcherOK' BY <2>1 DEF IInv, ShownOK, HostInformed, WatcherOK
    <3> QED BY <3>1, <3>2, <3>3 DEF IInv
  <2>2. CASE Service BY <2>2, ComeLeaveOK, PublishOK DEF Service
  <2>3. CASE Loop BY <2>3, HandleOK, ColdReadOK, HandleOwnerOK, WatcherStepsOK DEF Loop
  <2>4. CASE Start \/ WatcherLeaves \/ WatcherComes \/ Click \/ End
    BY <2>4, StartOK, WatcherStepsOK, EndOK
  <2> QED BY <2>1, <2>2, <2>3, <2>4 DEF Next
<1> QED BY <1>1, InitOK, PTL DEF Spec

\* The types of the service, its signals, the run loop and the watcher.
THEOREM TypeCorrect == Spec => []TypeOK
<1>1. IInv => TypeOK
  <2> SUFFICES ASSUME IInv PROVE TypeOK BY DEF IInv
  <2> USE DEF IInv
  <2>1. /\ [known |-> view.known, credential |-> view.credential, desktop |-> view.desktop] \in Views
        /\ ~view.known => view.state = DefaultState
    BY DEF LoopOK, IsView, Views
  <2>2. DOMAIN view.state = DOMAIN DefaultState
    BY DefaultIsState, StateFields DEF LoopOK, IsView, DaemonView
  <2>3. \A m \in Members : \A i \in DOMAIN streams[m] : streams[m][i].of \in 1..life
    BY DEF StreamsOK
  <2>4. item = menu BY DEF ShownOK
  <2> QED BY <2>1, <2>2, <2>3, <2>4 DEF TypeOK, ServiceOK, LoopOK, WatcherOK
<1> QED BY <1>1, Invariance, PTL

\* The idle icon is shown for nothing but a daemon that runs and is at rest:
\* for any states the service may publish, in whatever order they are heard.
THEOREM IdleIsDone == Spec => []IdleMeansDone
<1>1. IInv => IdleMeansDone
  <2> SUFFICES ASSUME IInv PROVE IdleMeansDone OBVIOUS
  <2>1. IsView(view) /\ (at = "run" => item = PresentWithDesktop(view))
    BY DEF IInv, LoopOK, ShownOK
  <2> QED BY <2>1, SyncedMeansDone DEF IdleMeansDone
<1> QED BY <1>1, Invariance, PTL

\* The panel, told of what moved only, knows what is served.
THEOREM HostKnows == Spec => []HostInformed
<1>1. IInv => HostInformed BY DEF IInv, ShownOK
<1> QED BY <1>1, Invariance, PTL

\* After the end of the service, nothing it asserted is shown.
THEOREM GoneIsForgotten == Spec => []GoneAssertsNothing
<1>1. IInv => GoneAssertsNothing
  <2> SUFFICES ASSUME IInv PROVE GoneAssertsNothing OBVIOUS
  <2>1. /\ at = "run" => item = PresentWithDesktop(view)
        /\ (at = "run" /\ ended = life /\ ended > 0 /\ ~late) => ~view.known
    BY DEF IInv, ShownOK
  <2> QED BY <2>1, UnknownShowsNothing DEF GoneAssertsNothing
<1> QED BY <1>1, Invariance, PTL
-----------------------------------------------------------------------------
(* The panel follows the service: what it shows once every signal is handled. *)

Heard == Members \ {"NameOwnerChanged"}
Listening == at \notin {"off", "done"}
Changes == streams["NameOwnerChanged"]

\* What a member says of the service's properties, or of a view of them, and
\* the group of a cold read that asks the same.
Part(fields, s) == [k \in fields |-> s[k]]
Told(m, v) == CASE m = "CredentialStateChanged" -> [credential |-> v.credential]
                [] m = "DesktopChanged" -> [desktop |-> v.desktop]
                [] OTHER -> Part(Carried(m), v.state)
GroupOf(m) == CASE m = "CredentialStateChanged" -> "credential"
                [] m = "DesktopChanged" -> "desktop"
                [] m = "StateChanged" -> "counters"
                [] OTHER -> "activities"

\* Nothing is sent to a tray that has not started.
NotStarted == at = "off" => streams = Quiet /\ view = Nothing

\* The last change of owner on its way is the one that made it so.
LastChange ==
  Listening /\ Changes # <<>> =>
    Changes[Len(Changes)].args.owned = owned /\ Changes[Len(Changes)].of = life

\* The counters are asked before the activities, whose last values they drop.
CountersFirst ==
  \A i \in DOMAIN reads : reads[i] = "counters" => \E j \in DOMAIN reads : j > i /\ reads[j] = "activities"

\* A signal of a life that is over comes late, or the end of that life is on its way.
OldSignals ==
  Listening => \A m \in Heard : \A i \in DOMAIN streams[m] :
    \/ streams[m][i].of <= ended
    \/ owned /\ streams[m][i].of = life
    \/ \E j \in DOMAIN Changes : ~Changes[j].args.owned /\ streams[m][i].of <= Changes[j].of

\* Of a service that is there the tray knows, or is about to ask.
KnownOrAsked == Listening /\ owned => view.known \/ Changes # <<>> \/ Holds(reads, "counters")

\* What the service last said with a member is the last of its stream.  When it
\* is not on its way, the tray knows it, is about to read it or came to be late.
Follows(m) ==
  LET q == streams[m]
  IN IF \E i \in DOMAIN q : q[i].of = life
     THEN q[Len(q)].of = life /\ q[Len(q)].args = Told(m, served)
     ELSE \/ Changes # <<>> \/ Holds(reads, GroupOf(m)) \/ late
          \/ Told(m, view) = Told(m, served)
Following == Listening /\ owned => \A m \in Heard : Follows(m)

\* Of a service that is gone the tray will hear, has heard, or never knew.
GoneKnown ==
  Listening /\ ~owned =>
    \/ Changes # <<>>
    \/ ended = life /\ ended > 0
    \/ streams = Quiet /\ ~view.known

FollowInv ==
  /\ NotStarted /\ LastChange /\ CountersFirst /\ OldSignals
  /\ KnownOrAsked /\ Following /\ GoneKnown

LEMMA AppendParts ==
  ASSUME NEW S, NEW q \in Seq(S), NEW x \in S, NEW r, r = Append(q, x)
  PROVE  /\ r # <<>> /\ r[Len(r)] = x /\ Len(r) \in DOMAIN r
         /\ \A i \in DOMAIN q : i \in DOMAIN r /\ r[i] = q[i]
         /\ \A i \in DOMAIN r : (i \in DOMAIN q /\ r[i] = q[i]) \/ r[i] = x
<1>1. /\ Len(q) \in Nat /\ DOMAIN q = 1..Len(q) /\ r \in Seq(S) /\ Len(r) = Len(q) + 1
      /\ DOMAIN r = 1..(Len(q) + 1) /\ r[Len(q) + 1] = x /\ \A i \in 1..Len(q) : r[i] = q[i]
  OBVIOUS
<1>2. Len(r) \in DOMAIN r /\ r # <<>>
  <2>1. Len(<<>>) = 0 OBVIOUS
  <2> QED BY <1>1, <2>1
<1>3. \A i \in 1..(Len(q) + 1) : i \in 1..Len(q) \/ i = Len(q) + 1 BY <1>1
<1> QED BY <1>1, <1>2, <1>3

LEMMA TailParts ==
  ASSUME NEW S, NEW q \in Seq(S), q # <<>>, NEW r, r = Tail(q)
  PROVE  /\ Head(q) = q[1] /\ 1 \in DOMAIN q /\ Len(q) \in DOMAIN q
         /\ \A i \in DOMAIN r : i \in Nat /\ i + 1 \in DOMAIN q /\ r[i] = q[i + 1]
         /\ \A i \in DOMAIN q : i \in Nat
         /\ \A i \in DOMAIN q : i = 1 \/ (i - 1 \in DOMAIN r /\ r[i - 1] = q[i])
         /\ r = <<>> => Len(q) = 1
         /\ r # <<>> => r[Len(r)] = q[Len(q)] /\ Len(r) \in DOMAIN r
<1>0. Len(<<>>) = 0 /\ \A t \in Seq(S) : Len(t) = 0 => t = <<>> OBVIOUS
<1>1. /\ Len(q) \in Nat /\ DOMAIN q = 1..Len(q) /\ r \in Seq(S) /\ Len(r) = Len(q) - 1
      /\ Len(q) > 0 /\ Head(q) = q[1]
      /\ DOMAIN r = 1..(Len(q) - 1) /\ \A i \in 1..(Len(q) - 1) : r[i] = q[i + 1]
  BY <1>0
<1>2. \A i \in DOMAIN r : i \in Nat /\ i + 1 \in DOMAIN q /\ r[i] = q[i + 1] BY <1>1
<1>3. ASSUME NEW i \in DOMAIN q, i # 1 PROVE i - 1 \in DOMAIN r /\ r[i - 1] = q[i]
  <2>1. i - 1 \in 1..(Len(q) - 1) /\ (i - 1) + 1 = i BY <1>1, <1>3
  <2> QED BY <1>1, <2>1
<1>4. 1 \in DOMAIN q /\ Len(q) \in DOMAIN q /\ \A i \in DOMAIN q : i \in Nat BY <1>1
<1>5. ASSUME r = <<>> PROVE Len(q) = 1
  <2>1. Len(r) = 0 BY <1>0, <1>5
  <2> QED BY <1>1, <2>1
<1>6. ASSUME r # <<>> PROVE r[Len(r)] = q[Len(q)] /\ Len(r) \in DOMAIN r
  <2>1. Len(r) # 0 BY <1>0, <1>1, <1>6
  <2>2. Len(r) \in 1..(Len(q) - 1) /\ Len(r) + 1 = Len(q) BY <1>1, <2>1
  <2> QED BY <1>1, <2>2
<1>7. \A i \in DOMAIN q : i = 1 \/ (i - 1 \in DOMAIN r /\ r[i - 1] = q[i]) BY <1>3
<1>8. Head(q) = q[1] BY <1>1
<1> QED BY <1>2, <1>4, <1>5, <1>6, <1>7, <1>8

LEMMA StreamParts ==
  ASSUME IInv, NEW m \in Members
  PROVE  /\ streams[m] \in Seq(Sent(m)) /\ \A i \in DOMAIN streams[m] : streams[m][i].of \in 1..life
         /\ life \in Nat /\ ended \in Nat /\ ended <= life
BY OwnerParts DEF IInv, StreamsOK

LEMMA NamesHeard ==
  /\ Heard \subseteq Members /\ "NameOwnerChanged" \in Members /\ "NameOwnerChanged" \notin Heard
  /\ Heard = {"StateChanged", "DownloadChanged", "IndexingChanged", "ActiveUploadsChanged",
              "CredentialStateChanged", "DesktopChanged"}
BY DEF Heard, Members

\* A change of owner is sent in the stream of its own.
LEMMA OwnerSent ==
  ASSUME IInv, NEW b \in BOOLEAN,
         Emit(<<[member |-> "NameOwnerChanged", args |-> [owned |-> b]]>>)
  PROVE  /\ \A m \in Heard : streams'[m] = streams[m]
         /\ Listening => Changes' = Append(Changes, [args |-> [owned |-> b], of |-> life'])
         /\ ~Listening => streams' = streams
<1> DEFINE signal == [member |-> "NameOwnerChanged", args |-> [owned |-> b]]
           signals == <<signal>>
<1>1. signal.member = "NameOwnerChanged" /\ signal.args = [owned |-> b] OBVIOUS
<1>2. Emit(signals) OBVIOUS
<1> HIDE DEF signal
<1>3. DOMAIN signals = {1} /\ signals[1] = signal OBVIOUS
<1>4. ~Listening => streams' = streams BY <1>2 DEF Emit, Listening
<1> HIDE DEF signals
<1>5. DOMAIN signals \subseteq 1..4 BY <1>3
<1>6. ASSUME NEW m \in Members
      PROVE  IF at \in {"off", "done"} \/ ~\E n \in DOMAIN signals : signals[n].member = m
             THEN streams'[m] = streams[m]
             ELSE \E n \in DOMAIN signals :
                    /\ signals[n].member = m
                    /\ streams'[m] = Append(streams[m], [args |-> signals[n].args, of |-> life'])
  BY <1>2, <1>5, EmitShape DEF IInv
<1>7. \A m \in Heard : streams'[m] = streams[m] BY <1>1, <1>3, <1>6, NamesHeard
<1>8. Listening => Changes' = Append(Changes, [args |-> [owned |-> b], of |-> life'])
  BY <1>1, <1>3, <1>6, NamesHeard DEF Listening, Changes
<1> QED BY <1>4, <1>7, <1>8

LEMMA ComeLeaveFollow == ASSUME IInv, FollowInv, Come \/ Leave PROVE FollowInv'
<1> USE DEF FollowInv
<1>1. PICK b \in BOOLEAN :
        /\ owned = ~b /\ owned' = b /\ life' = (IF b THEN life + 1 ELSE life)
        /\ Emit(<<[member |-> "NameOwnerChanged", args |-> [owned |-> b]]>>)
        /\ UNCHANGED <<at, reads, view, ended, late>>
  <2>1. CASE Come
    <3>1. /\ owned = ~TRUE /\ owned' = TRUE /\ life' = (IF TRUE THEN life + 1 ELSE life)
          /\ Emit(<<[member |-> "NameOwnerChanged", args |-> [owned |-> TRUE]]>>)
          /\ UNCHANGED <<at, reads, view, ended, late>>
      BY <2>1 DEF Come, IInv, ServiceOK
    <3> QED BY <3>1
  <2>2. CASE Leave
    <3>1. /\ owned = ~FALSE /\ owned' = FALSE /\ life' = (IF FALSE THEN life + 1 ELSE life)
          /\ Emit(<<[member |-> "NameOwnerChanged", args |-> [owned |-> FALSE]]>>)
          /\ UNCHANGED <<at, reads, view, ended, late>>
      BY <2>2 DEF Leave, IInv, ServiceOK
    <3> QED BY <3>1
  <2> QED BY <2>1, <2>2
<1> DEFINE x == [args |-> [owned |-> b], of |-> life']
<1>2. /\ \A m \in Heard : streams'[m] = streams[m]
      /\ Listening => Changes' = Append(Changes, x)
      /\ ~Listening => streams' = streams
  BY <1>1, OwnerSent
<1>3. Listening' <=> Listening BY <1>1 DEF Listening
<1>4. NotStarted' BY <1>1, <1>2 DEF NotStarted, Listening
<1>5. CountersFirst' BY <1>1 DEF CountersFirst
<1>6. CASE ~Listening
  BY <1>3, <1>4, <1>5, <1>6 DEF LastChange, OldSignals, KnownOrAsked, Following, GoneKnown
<1>7. CASE Listening
  <2>1. /\ Changes \in Seq(Sent("NameOwnerChanged")) /\ life \in Nat /\ ended \in Nat /\ ended <= life
        /\ \A m \in Heard : \A i \in DOMAIN streams[m] : streams[m][i].of \in 1..life
    BY StreamParts, NamesHeard DEF Changes
  <2>2. x \in Sent("NameOwnerChanged") /\ x.of = life' /\ x.args.owned = b
    <3>1. life' \in Nat BY <1>1, <2>1
    <3>2. [owned |-> b] \in ArgumentsOf("NameOwnerChanged") BY MemberArguments
    <3> QED BY <3>1, <3>2 DEF Sent
  <2> HIDE DEF x
  <2>3. /\ Changes' # <<>> /\ (Changes[Len(Changes)])' = x
        /\ \A j \in DOMAIN Changes : j \in DOMAIN Changes' /\ Changes'[j] = Changes[j]
        /\ Len(Changes') \in DOMAIN Changes' /\ Changes'[Len(Changes')] = x
    BY <1>2, <1>7, <2>1, <2>2, AppendParts
  <2>4. LastChange' BY <1>1, <2>2, <2>3 DEF LastChange
  <2>5. ASSUME NEW m \in Heard, NEW i \in DOMAIN streams'[m]
        PROVE  \/ streams'[m][i].of <= ended'
               \/ owned' /\ streams'[m][i].of = life'
               \/ \E j \in DOMAIN Changes' : ~Changes'[j].args.owned /\ streams'[m][i].of <= Changes'[j].of
    <3>1. streams'[m] = streams[m] /\ ended' = ended BY <1>1, <1>2
    <3>2. streams[m][i].of \in 1..life BY <2>1, <3>1
    <3>3. \/ streams[m][i].of <= ended
          \/ owned /\ streams[m][i].of = life
          \/ \E j \in DOMAIN Changes : ~Changes[j].args.owned /\ streams[m][i].of <= Changes[j].of
      BY <1>7, <3>1 DEF OldSignals
    <3>4. owned => ~b /\ life' = life BY <1>1
    <3>5. CASE owned /\ streams[m][i].of = life BY <2>1, <2>2, <2>3, <3>1, <3>4, <3>5
    <3> QED BY <2>3, <3>1, <3>3, <3>5
  <2>6. OldSignals' BY <2>5 DEF OldSignals
  <2>7. KnownOrAsked' /\ GoneKnown' BY <2>3 DEF KnownOrAsked, GoneKnown
  <2>8. ASSUME NEW m \in Heard, owned' PROVE Follows(m)'
    <3>1. life' = life + 1 BY <1>1, <2>8
    <3>2. \A i \in DOMAIN streams'[m] : streams'[m][i].of # life' BY <1>2, <2>1, <3>1
    <3> QED BY <2>3, <3>2 DEF Follows
  <2>9. Following' BY <2>8 DEF Following
  <2> QED BY <1>4, <1>5, <2>4, <2>6, <2>7, <2>9
<1> QED BY <1>6, <1>7

LEMMA WhatIsTold ==
  ASSUME NEW v
  PROVE  /\ Told("StateChanged", v) = Part(StateChangedFields, v.state)
         /\ Told("DownloadChanged", v) = Part({"downloading"}, v.state)
         /\ Told("IndexingChanged", v) = Part({"indexing"}, v.state)
         /\ Told("ActiveUploadsChanged", v) = Part({"uploading"}, v.state)
BY DEF Told, Carried

LEMMA SameCredential ==
  ASSUME NEW v, NEW c, v.credential = c PROVE Told("CredentialStateChanged", v) = [credential |-> c]
BY DEF Told

LEMMA SameDesktop ==
  ASSUME NEW v, NEW d, v.desktop = d PROVE Told("DesktopChanged", v) = [desktop |-> d]
BY DEF Told

LEMMA SameTold ==
  ASSUME NEW m, NEW v, NEW w, v.credential = w.credential \/ m # "CredentialStateChanged",
         v.desktop = w.desktop \/ m # "DesktopChanged",
         v.state = w.state \/ m \in {"CredentialStateChanged", "DesktopChanged"}
  PROVE  Told(m, v) = Told(m, w)
<1>1. CASE m = "CredentialStateChanged" BY <1>1, SameCredential
<1>2. CASE m = "DesktopChanged" BY <1>2, SameDesktop
<1>3. CASE m \notin {"CredentialStateChanged", "DesktopChanged"} BY <1>3 DEF Told
<1> QED BY <1>1, <1>2, <1>3

LEMMA SamePart ==
  ASSUME NEW fields, NEW s, NEW t, \A k \in fields : s[k] = t[k] PROVE Part(fields, s) = Part(fields, t)
BY DEF Part

\* Signals that say what is served, and leave nothing out that moved.
Says(signals) ==
  /\ DOMAIN signals \subseteq 1..4 /\ Emit(signals)
  /\ \A n \in DOMAIN signals :
       signals[n].member \in Heard /\ signals[n].args = Told(signals[n].member, served')
  /\ \A m \in Heard : \/ Told(m, served') = Told(m, served)
                      \/ \E n \in DOMAIN signals : signals[n].member = m

LEMMA PublishSays == ASSUME IInv, Publish PROVE \E signals : Says(signals)
<1>1. served \in Served BY DEF IInv, ServiceOK
<1>2. ASSUME NEW s \in States, served' = [served EXCEPT !.state = s], Emit(StateSignals(served.state, s))
      PROVE  \E signals : Says(signals)
  <2> DEFINE old == served.state
             signals == StateSignals(old, s)
             a == Signal("StateChanged", StateChangedFields, s)
             d == Signal("DownloadChanged", {"downloading"}, s)
             i == Signal("IndexingChanged", {"indexing"}, s)
             u == Signal("ActiveUploadsChanged", {"uploading"}, s)
  <2>1. served'.state = s /\ served'.credential = served.credential /\ served'.desktop = served.desktop
    BY <1>1, <1>2 DEF Served
  <2>2. /\ DOMAIN signals \subseteq 1..4
        /\ \A x : Holds(signals, x) <=>
             \/ x = a
             \/ old["downloading"] # s["downloading"] /\ x = d
             \/ old["indexing"] # s["indexing"] /\ x = i
             \/ old["uploading"] # s["uploading"] /\ x = u
    BY SignalsOfChange
  <2>3. /\ a.member = "StateChanged" /\ a.args = Told("StateChanged", served')
        /\ d.member = "DownloadChanged" /\ d.args = Told("DownloadChanged", served')
        /\ i.member = "IndexingChanged" /\ i.args = Told("IndexingChanged", served')
        /\ u.member = "ActiveUploadsChanged" /\ u.args = Told("ActiveUploadsChanged", served')
    <3>1. ASSUME NEW member, NEW fields
          PROVE  /\ Signal(member, fields, s).member = member
                 /\ Signal(member, fields, s).args = Part(fields, s)
      BY DEF Signal, Part
    <3> QED BY <2>1, <3>1, WhatIsTold
  <2>4. /\ Told("CredentialStateChanged", served') = Told("CredentialStateChanged", served)
        /\ Told("DesktopChanged", served') = Told("DesktopChanged", served)
        /\ old["downloading"] = s["downloading"] =>
             Told("DownloadChanged", served') = Told("DownloadChanged", served)
        /\ old["indexing"] = s["indexing"] =>
             Told("IndexingChanged", served') = Told("IndexingChanged", served)
        /\ old["uploading"] = s["uploading"] =>
             Told("ActiveUploadsChanged", served') = Told("ActiveUploadsChanged", served)
    <3>1. \A k : old[k] = s[k] => Part({k}, old) = Part({k}, s) BY SamePart
    <3>2. Told("CredentialStateChanged", served') = Told("CredentialStateChanged", served)
          /\ Told("DesktopChanged", served') = Told("DesktopChanged", served)
      BY <2>1, SameTold
    <3> QED BY <2>1, <3>1, <3>2, WhatIsTold
  <2>5. Emit(signals) BY <1>2
  <2> HIDE DEF signals, a, d, i, u
  <2>6. \A n \in DOMAIN signals :
          signals[n].member \in Heard /\ signals[n].args = Told(signals[n].member, served')
    BY <2>2, <2>3, NamesHeard DEF Holds
  <2>7. ASSUME NEW m \in Heard
        PROVE  \/ Told(m, served') = Told(m, served)
               \/ \E n \in DOMAIN signals : signals[n].member = m
    BY <2>2, <2>3, <2>4, NamesHeard DEF Holds
  <2> QED BY <2>2, <2>5, <2>6, <2>7 DEF Says
<1>3. ASSUME NEW member \in {"CredentialStateChanged", "DesktopChanged"}, NEW args,
             Emit(<<[member |-> member, args |-> args]>>), args = Told(member, served'),
             \A m \in Heard \ {member} : Told(m, served') = Told(m, served)
      PROVE  \E signals : Says(signals)
  <2> DEFINE signals == <<[member |-> member, args |-> args]>>
  <2>1. DOMAIN signals = {1} /\ signals[1].member = member /\ signals[1].args = args OBVIOUS
  <2>2. Emit(signals) BY <1>3
  <2> HIDE DEF signals
  <2>3. \A m \in Heard : \/ Told(m, served') = Told(m, served)
                         \/ \E n \in DOMAIN signals : signals[n].member = m
    BY <1>3, <2>1
  <2> QED BY <1>3, <2>1, <2>2, <2>3, NamesHeard DEF Says
<1>4. ASSUME NEW c \in Credentials, served' = [served EXCEPT !.credential = c],
             Emit(<<[member |-> "CredentialStateChanged", args |-> [credential |-> c]]>>)
      PROVE  \E signals : Says(signals)
  <2>1. served'.state = served.state /\ served'.credential = c /\ served'.desktop = served.desktop
    BY <1>1, <1>4 DEF Served
  <2>2. [credential |-> c] = Told("CredentialStateChanged", served') BY <2>1, SameCredential
  <2>3. \A m \in Heard \ {"CredentialStateChanged"} : Told(m, served') = Told(m, served) BY <2>1, SameTold
  <2> QED BY <1>3, <1>4, <2>2, <2>3
<1>5. ASSUME NEW d \in Desktops, served' = [served EXCEPT !.desktop = d],
             Emit(<<[member |-> "DesktopChanged", args |-> [desktop |-> d]]>>)
      PROVE  \E signals : Says(signals)
  <2>1. served'.state = served.state /\ served'.credential = served.credential /\ served'.desktop = d
    BY <1>1, <1>5 DEF Served
  <2>2. [desktop |-> d] = Told("DesktopChanged", served') BY <2>1, SameDesktop
  <2>3. \A m \in Heard \ {"DesktopChanged"} : Told(m, served') = Told(m, served) BY <2>1, SameTold
  <2> QED BY <1>3, <1>5, <2>2, <2>3
<1> QED BY <1>2, <1>4, <1>5 DEF Publish

LEMMA PublishFollow == ASSUME IInv, FollowInv, Publish PROVE FollowInv'
<1> USE DEF FollowInv
<1>1. PICK signals : Says(signals) BY PublishSays
<1>2. /\ owned /\ owned' = owned /\ life' = life /\ UNCHANGED <<at, reads, view, ended, late>>
  BY DEF Publish
<1>3. ASSUME NEW m \in Members
      PROVE  IF at \in {"off", "done"} \/ ~\E n \in DOMAIN signals : signals[n].member = m
             THEN streams'[m] = streams[m]
             ELSE \E n \in DOMAIN signals :
                    /\ signals[n].member = m
                    /\ streams'[m] = Append(streams[m], [args |-> signals[n].args, of |-> life'])
  BY <1>1, EmitShape DEF IInv, Says
<1>4. Changes' = Changes BY <1>1, <1>3, NamesHeard DEF Says, Changes
<1>5. ~Listening => streams' = streams BY <1>1 DEF Says, Emit, Listening
<1>6. Listening' <=> Listening BY <1>2 DEF Listening
<1>7. NotStarted' BY <1>2, <1>5 DEF NotStarted, Listening
<1>8. LastChange' /\ CountersFirst' /\ KnownOrAsked' /\ GoneKnown'
  BY <1>2, <1>4, <1>6 DEF LastChange, CountersFirst, KnownOrAsked, GoneKnown
<1>9. ASSUME Listening, NEW m \in Heard
      PROVE  /\ Follows(m)'
             /\ \A i \in DOMAIN streams'[m] :
                  \/ streams'[m][i].of <= ended'
                  \/ owned' /\ streams'[m][i].of = life'
                  \/ \E j \in DOMAIN Changes' : ~Changes'[j].args.owned /\ streams'[m][i].of <= Changes'[j].of
  <2> DEFINE x == [args |-> Told(m, served'), of |-> life]
  <2>1. /\ Follows(m)
        /\ \A i \in DOMAIN streams[m] :
             \/ streams[m][i].of <= ended
             \/ owned /\ streams[m][i].of = life
             \/ \E j \in DOMAIN Changes : ~Changes[j].args.owned /\ streams[m][i].of <= Changes[j].of
    BY <1>2, <1>9 DEF Following, OldSignals
  <2>2. CASE streams'[m] = streams[m] /\ Told(m, served') = Told(m, served)
    BY <1>2, <1>4, <2>1, <2>2 DEF Follows
  <2>3. CASE streams'[m] = Append(streams[m], x) /\ x \in Sent(m)
    <3>1. x.of = life /\ x.args = Told(m, served') OBVIOUS
    <3> HIDE DEF x
    <3>2. streams[m] \in Seq(Sent(m)) BY StreamParts, NamesHeard
    <3>3. /\ Len(streams'[m]) \in DOMAIN streams'[m] /\ streams'[m][Len(streams'[m])] = x
          /\ \A i \in DOMAIN streams'[m] : (i \in DOMAIN streams[m] /\ streams'[m][i] = streams[m][i])
                                           \/ streams'[m][i] = x
      BY <2>3, <3>2, AppendParts
    <3>4. Follows(m)' BY <1>2, <3>1, <3>3 DEF Follows
    <3>5. \A i \in DOMAIN streams'[m] :
            \/ streams'[m][i].of <= ended'
            \/ owned' /\ streams'[m][i].of = life'
            \/ \E j \in DOMAIN Changes' : ~Changes'[j].args.owned /\ streams'[m][i].of <= Changes'[j].of
      BY <1>2, <1>4, <2>1, <3>1, <3>3
    <3> QED BY <3>4, <3>5
  <2>4. (streams'[m] = streams[m] /\ Told(m, served') = Told(m, served))
        \/ (streams'[m] = Append(streams[m], x) /\ x \in Sent(m))
    <3>1. CASE \E n \in DOMAIN signals : signals[n].member = m
      <4>1. PICK n \in DOMAIN signals :
              /\ signals[n].member = m
              /\ streams'[m] = Append(streams[m], [args |-> signals[n].args, of |-> life'])
        BY <1>3, <1>9, <3>1, NamesHeard DEF Listening
      <4>5. signals[n].args = Told(m, served') /\ life' = life BY <1>1, <1>2, <4>1 DEF Says
      <4>6. streams'[m] = Append(streams[m], x) BY <4>1, <4>5
      <4>2. streams' [m] \in Seq(Sent(m)) /\ streams[m] \in Seq(Sent(m))
        BY PublishOK, NamesHeard DEF IInv, StreamsOK
      <4> HIDE DEF x
      <4>3. /\ Len(Append(streams[m], x)) = Len(streams[m]) + 1 /\ Len(streams[m]) \in Nat
            /\ Append(streams[m], x)[Len(streams[m]) + 1] = x
        BY <4>2
      <4>4. x \in Sent(m) BY <4>6, <4>2, <4>3
      <4> QED BY <4>6, <4>4
    <3>2. CASE ~\E n \in DOMAIN signals : signals[n].member = m
      BY <1>1, <1>3, <3>2, NamesHeard DEF Says
    <3> QED BY <3>1, <3>2
  <2> QED BY <2>2, <2>3, <2>4
<1>10. Following' /\ OldSignals' BY <1>6, <1>9 DEF Following, OldSignals
<1> QED BY <1>7, <1>8, <1>10

LEMMA FieldsCarried ==
  /\ \A m \in Heard : \/ m \in {"CredentialStateChanged", "DesktopChanged"} \/ Carried(m) \subseteq DaemonFields
  /\ \A m, n \in Heard \ {"CredentialStateChanged", "DesktopChanged"} :
       m # n => \A k \in Carried(m) : k \notin Carried(n)
  /\ Fields("counters") = StateChangedFields
  /\ \A k \in Fields("activities") : k \in DaemonFields \ StateChangedFields
  /\ \A k \in DaemonFields \ StateChangedFields : k \in Fields("activities")
<1>1. DOMAIN DefaultState = DaemonFields BY DefaultIsState
<1>2. /\ Carried("StateChanged") = {"daemon_running", "unsent", "excluded", "exposures"}
      /\ Carried("DownloadChanged") = {"downloading"} /\ Carried("IndexingChanged") = {"indexing"}
      /\ Carried("ActiveUploadsChanged") = {"uploading"}
  BY DEF Carried, StateChangedFields
<1>3. Fields("counters") = StateChangedFields /\ Fields("activities") = DaemonFields \ StateChangedFields
  BY <1>1 DEF Fields
<1>4. ASSUME NEW m \in Heard, m \notin {"CredentialStateChanged", "DesktopChanged"}
      PROVE  Carried(m) \subseteq DaemonFields
  BY <1>2, <1>4, NamesHeard DEF DaemonFields
<1>5. ASSUME NEW m \in Heard \ {"CredentialStateChanged", "DesktopChanged"},
             NEW n \in Heard \ {"CredentialStateChanged", "DesktopChanged"}, m # n, NEW k \in Carried(m)
      PROVE  k \notin Carried(n)
  BY <1>2, <1>5, NamesHeard
<1> QED BY <1>3, <1>4, <1>5

LEMMA OverlayParts ==
  ASSUME NEW s, NEW fields, NEW old, IsDaemonState(old), NEW new,
         new = Overlay([k \in fields |-> s[k]], old)
  PROVE  \A k \in DaemonFields : new[k] = IF k \in fields THEN s[k] ELSE old[k]
<1> DEFINE partial == [k \in fields |-> s[k]]
<1>1. DOMAIN partial = fields /\ \A k \in fields : partial[k] = s[k] OBVIOUS
<1>2. new = Overlay(partial, old) OBVIOUS
<1> HIDE DEF partial
<1> QED BY <1>1, <1>2, StateFields DEF Overlay

\* A group that is read says what is served.  It moves what no other member
\* says, except that the counters drop the activities.
LEMMA ReadTells ==
  ASSUME ServiceOK, IsView(view), NEW g \in Groups
  PROVE  /\ Read(g).known = IF g = "counters" THEN owned ELSE view.known
         /\ \A m \in Heard : owned =>
              /\ GroupOf(m) = g => Told(m, Read(g)) = Told(m, served)
                                   \/ (g = "activities" /\ ~view.known /\ Told(m, Read(g)) = Told(m, view))
              /\ GroupOf(m) = g \/ (g = "counters" /\ GroupOf(m) = "activities")
                 \/ Told(m, Read(g)) = Told(m, view)
<1> DEFINE source == IF owned THEN served ELSE NewlyServed
           fetched == [k \in Fields(g) |-> source.state[k]]
           read == Read(g)
<1>0. owned => source = served OBVIOUS
<1>1. view = [known |-> view.known, state |-> view.state, credential |-> view.credential, desktop |-> view.desktop]
      /\ IsDaemonState(view.state)
  BY DEF IsView, DaemonView
<1>2. CASE g = "desktop"
  <2>1. read = [view EXCEPT !.desktop = source.desktop] BY <1>2 DEF Read, source
  <2> HIDE DEF source, read
  <2>2. /\ read.known = view.known /\ read.state = view.state /\ read.credential = view.credential
        /\ read.desktop = source.desktop
    BY <1>1, <2>1
  <2>3. \A m \in Heard : m # "DesktopChanged" => Told(m, read) = Told(m, view) BY <2>2, SameTold
  <2>4. owned => Told("DesktopChanged", read) = Told("DesktopChanged", served) BY <1>0, <2>2, SameTold
  <2>5. \A m \in Heard : GroupOf(m) = "desktop" <=> m = "DesktopChanged" BY NamesHeard DEF GroupOf
  <2> QED BY <1>2, <2>2, <2>3, <2>4, <2>5 DEF read
<1>3. CASE g = "credential"
  <2>1. read = [view EXCEPT !.credential = source.credential] BY <1>3 DEF Read, source
  <2> HIDE DEF source, read
  <2>2. /\ read.known = view.known /\ read.state = view.state /\ read.desktop = view.desktop
        /\ read.credential = source.credential
    BY <1>1, <2>1
  <2>3. \A m \in Heard : m # "CredentialStateChanged" => Told(m, read) = Told(m, view) BY <2>2, SameTold
  <2>4. owned => Told("CredentialStateChanged", read) = Told("CredentialStateChanged", served)
    BY <1>0, <2>2, SameTold
  <2>5. \A m \in Heard : GroupOf(m) = "credential" <=> m = "CredentialStateChanged"
    BY NamesHeard DEF GroupOf
  <2> QED BY <1>3, <2>2, <2>3, <2>4, <2>5 DEF read
<1>4. CASE g = "counters"
  <2> DEFINE s == Overlay(fetched, DefaultState)
  <2>1. read = [view EXCEPT !.known = owned, !.state = s] BY <1>4, Zenon DEF Read, source, fetched
  <2>2. \A k \in StateChangedFields : s[k] = source.state[k]
    <3>1. \A k \in DaemonFields : s[k] = IF k \in Fields(g) THEN source.state[k] ELSE DefaultState[k]
      BY DefaultIsState, OverlayParts
    <3>2. StateChangedFields \subseteq DaemonFields BY DEF StateChangedFields, DaemonFields
    <3> HIDE DEF s, source
    <3> QED BY <1>4, <3>1, <3>2, FieldsCarried
  <2> HIDE DEF source, fetched, read, s
  <2> DEFINE v == [view EXCEPT !.known = owned]
  <2>3. v = [known |-> owned, state |-> view.state, credential |-> view.credential, desktop |-> view.desktop]
    BY KnownField
  <2>4. read = [v EXCEPT !.state = s] BY <2>1, Zenon
  <2> HIDE DEF v
  <2>5. /\ read.known = owned /\ read.state = s /\ read.credential = view.credential
        /\ read.desktop = view.desktop
    BY <2>3, <2>4
  <2>6. owned => Told("StateChanged", read) = Told("StateChanged", served)
    BY <1>0, <2>2, <2>5, SamePart, WhatIsTold
  <2>7. \A m \in {"CredentialStateChanged", "DesktopChanged"} : Told(m, read) = Told(m, view)
    BY <2>5, SameTold
  <2>8. \A m \in Heard : \/ m = "StateChanged" /\ GroupOf(m) = "counters"
                         \/ m \in {"CredentialStateChanged", "DesktopChanged"} /\ GroupOf(m) # "counters"
                         \/ GroupOf(m) = "activities"
    BY NamesHeard DEF GroupOf
  <2> QED BY <1>4, <2>5, <2>6, <2>7, <2>8 DEF read
<1>5. CASE g = "activities"
  <2> DEFINE s == Overlay(fetched, view.state)
  <2>1. read = IF view.known THEN [view EXCEPT !.state = s] ELSE view
    BY <1>5 DEF Read, source, fetched
  <2>2. \A k \in DaemonFields : s[k] = IF k \in Fields(g) THEN source.state[k] ELSE view.state[k]
    BY <1>1, OverlayParts
  <2> HIDE DEF source, fetched, read, s
  <2>3. /\ read.known = view.known /\ read.credential = view.credential /\ read.desktop = view.desktop
        /\ read.state = (IF view.known THEN s ELSE view.state)
    BY <1>1, <2>1
  <2>4. Told("StateChanged", read) = Told("StateChanged", view)
    <3>1. \A k \in StateChangedFields : read.state[k] = view.state[k]
      <4>1. StateChangedFields \subseteq DaemonFields BY DEF StateChangedFields, DaemonFields
      <4> QED BY <1>5, <2>2, <2>3, <4>1, FieldsCarried
    <3> QED BY <3>1, SamePart, WhatIsTold
  <2>5. ASSUME NEW m \in {"DownloadChanged", "IndexingChanged", "ActiveUploadsChanged"}, owned
        PROVE  Told(m, read) = IF view.known THEN Told(m, served) ELSE Told(m, view)
    <3>1. CASE ~view.known
      <4>1. Told(m, read) = Told(m, view) BY <2>3, <3>1, SameTold
      <4> QED BY <3>1, <4>1
    <3>2. CASE view.known
      <4>1. {"downloading", "indexing", "uploading"} \subseteq DaemonFields \ StateChangedFields
        BY DEF StateChangedFields, DaemonFields
      <4>2. \A k \in {"downloading", "indexing", "uploading"} : read.state[k] = served.state[k]
        BY <1>0, <1>5, <2>2, <2>3, <2>5, <3>2, <4>1, FieldsCarried
      <4>3. \A k \in {"downloading", "indexing", "uploading"} : Part({k}, read.state) = Part({k}, served.state)
        BY <4>2, SamePart
      <4>4. Told(m, read) = Told(m, served) BY <4>3, WhatIsTold
      <4> QED BY <3>2, <4>4
    <3> QED BY <3>1, <3>2
  <2>6. \A m \in {"CredentialStateChanged", "DesktopChanged"} : Told(m, read) = Told(m, view)
    BY <2>3, SameTold
  <2>7. \A m \in Heard : \/ m \in {"StateChanged", "CredentialStateChanged", "DesktopChanged"}
                            /\ GroupOf(m) # "activities"
                         \/ m \in {"DownloadChanged", "IndexingChanged", "ActiveUploadsChanged"}
                            /\ GroupOf(m) = "activities"
    BY NamesHeard DEF GroupOf
  <2> QED BY <1>5, <2>3, <2>4, <2>5, <2>6, <2>7 DEF read
<1> QED BY <1>2, <1>3, <1>4, <1>5 DEF Groups

\* A signal that is heard is believed, an activity if the counters are known.
LEMMA HearTells ==
  ASSUME IsView(view), NEW m \in Heard, NEW args \in ArgumentsOf(m)
  PROVE  /\ HearSignal(m, args).known = (view.known \/ m = "StateChanged")
         /\ view.known \/ GroupOf(m) # "activities" => Told(m, HearSignal(m, args)) = args
         /\ \A n \in Heard \ {m} : Told(n, HearSignal(m, args)) = Told(n, view)
<1> DEFINE heard == HearSignal(m, args)
<1>1. view = [known |-> view.known, state |-> view.state, credential |-> view.credential, desktop |-> view.desktop]
      /\ IsDaemonState(view.state) /\ view.known \in BOOLEAN
  BY DEF IsView, DaemonView
<1>2. CASE m = "CredentialStateChanged"
  <2>1. heard = [view EXCEPT !.credential = args.credential] BY <1>2 DEF HearSignal
  <2>2. args \in [credential : Credentials] BY <1>2, MemberArguments
  <2> HIDE DEF heard
  <2>3. /\ heard.known = view.known /\ heard.state = view.state /\ heard.desktop = view.desktop
        /\ heard.credential = args.credential
    BY <1>1, <2>1
  <2>4. Told(m, heard) = [credential |-> args.credential] BY <1>2, <2>3, SameCredential
  <2>5. args = [credential |-> args.credential] BY <2>2
  <2>6. \A n \in Heard \ {m} : Told(n, heard) = Told(n, view) BY <1>2, <2>3, SameTold
  <2> QED BY <1>1, <1>2, <2>3, <2>4, <2>5, <2>6 DEF heard
<1>3. CASE m = "DesktopChanged"
  <2>1. heard = [view EXCEPT !.desktop = args.desktop] BY <1>3 DEF HearSignal
  <2>2. args \in [desktop : Desktops] BY <1>3, MemberArguments
  <2> HIDE DEF heard
  <2>3. /\ heard.known = view.known /\ heard.state = view.state /\ heard.credential = view.credential
        /\ heard.desktop = args.desktop
    BY <1>1, <2>1
  <2>4. Told(m, heard) = [desktop |-> args.desktop] BY <1>3, <2>3, SameDesktop
  <2>5. args = [desktop |-> args.desktop] BY <2>2
  <2>6. \A n \in Heard \ {m} : Told(n, heard) = Told(n, view) BY <1>3, <2>3, SameTold
  <2> QED BY <1>1, <1>3, <2>3, <2>4, <2>5, <2>6 DEF heard
<1>4. CASE m \notin {"CredentialStateChanged", "DesktopChanged"}
  <2>1. m \in {"StateChanged", "DownloadChanged", "IndexingChanged", "ActiveUploadsChanged"}
    BY <1>4, NamesHeard
  <2>2. PICK s \in States : args = [k \in Carried(m) |-> s[k]] BY <2>1, MemberArguments DEF Partials
  <2> DEFINE new == Overlay(args, view.state)
  <2>3. \A k \in DaemonFields : new[k] = IF k \in Carried(m) THEN s[k] ELSE view.state[k]
    BY <1>1, <2>2, OverlayParts
  <2>4. args = Part(Carried(m), s) BY <2>2 DEF Part
  <2>5. IF m = "StateChanged" THEN heard = [view EXCEPT !.known = TRUE, !.state = new]
        ELSE heard = IF view.known THEN [view EXCEPT !.state = new] ELSE view
    <3>1. CASE m = "StateChanged"
      <4>1. heard = [view EXCEPT !.known = TRUE, !.state = Overlay(args, @)] BY <3>1, Zenon DEF HearSignal
      <4> DEFINE v == [view EXCEPT !.known = TRUE]
      <4>2. heard = [v EXCEPT !.state = Overlay(args, v.state)] BY <4>1, Zenon
      <4>3. v.state = view.state BY <1>1
      <4>4. heard = [v EXCEPT !.state = new] BY <4>2, <4>3
      <4> QED BY <3>1, <4>4, Zenon
    <3>2. CASE m # "StateChanged"
      <4>1. heard = IF view.known THEN [view EXCEPT !.state = Overlay(args, view.state)] ELSE view
        BY <2>1, <3>2 DEF HearSignal
      <4> QED BY <3>2, <4>1
    <3> QED BY <3>1, <3>2
  <2> HIDE DEF heard, new
  <2>6. /\ heard.credential = view.credential /\ heard.desktop = view.desktop
        /\ heard.known = (view.known \/ m = "StateChanged")
        /\ heard.state = (IF view.known \/ m = "StateChanged" THEN new ELSE view.state)
    <3>1. CASE m = "StateChanged"
      <4> DEFINE v == [view EXCEPT !.known = TRUE]
      <4>1. v = [known |-> TRUE, state |-> view.state, credential |-> view.credential, desktop |-> view.desktop]
        BY KnownField
      <4>2. heard = [v EXCEPT !.state = new] BY <2>5, <3>1, Zenon
      <4> HIDE DEF v
      <4> QED BY <3>1, <4>1, <4>2
    <3>2. CASE m # "StateChanged"
      <4>1. heard = IF view.known THEN [view EXCEPT !.state = new] ELSE view BY <2>5, <3>2
      <4> QED BY <1>1, <3>2, <4>1
    <3> QED BY <3>1, <3>2
  <2>7. Carried(m) \subseteq DaemonFields BY <1>4, FieldsCarried
  <2>8. view.known \/ GroupOf(m) # "activities" => Told(m, heard) = args
    <3>1. SUFFICES ASSUME view.known \/ m = "StateChanged" PROVE Told(m, heard) = args
      BY <2>1 DEF GroupOf
    <3>2. \A k \in Carried(m) : heard.state[k] = s[k] BY <2>3, <2>6, <2>7, <3>1
    <3>3. Part(Carried(m), heard.state) = Part(Carried(m), s) BY <3>2, SamePart
    <3>4. Told(m, heard) = Part(Carried(m), heard.state) BY <1>4 DEF Told
    <3> QED BY <2>4, <3>3, <3>4
  <2>9. ASSUME NEW n \in Heard \ {m} PROVE Told(n, heard) = Told(n, view)
    <3>1. CASE n \in {"CredentialStateChanged", "DesktopChanged"} BY <2>6, <3>1, SameTold
    <3>2. CASE n \notin {"CredentialStateChanged", "DesktopChanged"}
      <4>1. \A k \in Carried(n) : k \in DaemonFields /\ k \notin Carried(m)
        BY <1>4, <2>9, <3>2, FieldsCarried
      <4>2. \A k \in Carried(n) : heard.state[k] = view.state[k] BY <2>3, <2>6, <4>1
      <4>3. Part(Carried(n), heard.state) = Part(Carried(n), view.state) BY <4>2, SamePart
      <4>4. \A v : Told(n, v) = Part(Carried(n), v.state) BY <3>2 DEF Told
      <4> QED BY <4>3, <4>4
    <3> QED BY <3>1, <3>2
  <2> QED BY <2>6, <2>8, <2>9 DEF heard
<1> QED BY <1>2, <1>3, <1>4

LEMMA StartFollow == ASSUME IInv, FollowInv, Start PROVE FollowInv'
<1> USE DEF FollowInv
<1>1. /\ at = "off" /\ at' = "starting" /\ UNCHANGED <<owned, life, served, streams, view, ended, late>>
      /\ reads' = <<"counters", "activities", "desktop", "credential">>
  BY DEF Start, serviceVars
<1>2. streams = Quiet /\ view = Nothing BY <1>1 DEF NotStarted
<1>3. (\A m \in Members : streams'[m] = <<>>) /\ Changes' = <<>> BY <1>1, <1>2, NamesHeard DEF Quiet, Changes
<1>4. DOMAIN <<>> = {} OBVIOUS
<1>5. /\ DOMAIN reads' = 1..4 /\ reads'[1] = "counters" /\ reads'[2] = "activities"
      /\ reads'[3] = "desktop" /\ reads'[4] = "credential"
  BY <1>1
<1>6. \A g \in Groups : Holds(reads, g)' BY <1>5 DEF Groups, Holds
<1>7. NotStarted' BY <1>1 DEF NotStarted
<1>8. LastChange' BY <1>3 DEF LastChange
<1>9. CountersFirst'
  <2>1. \A i \in 1..4 : reads'[i] = "counters" => i = 1 BY <1>5
  <2> QED BY <1>5, <2>1 DEF CountersFirst
<1>10. OldSignals' BY <1>3, <1>4, NamesHeard DEF OldSignals
<1>11. KnownOrAsked' BY <1>6 DEF KnownOrAsked, Groups
<1>12. \A m \in Heard : GroupOf(m) \in Groups BY NamesHeard DEF GroupOf, Groups
<1>13. \A m \in Heard : Follows(m)' BY <1>3, <1>4, <1>6, <1>12, NamesHeard DEF Follows
<1>14. Following' BY <1>13 DEF Following
<1>15. GoneKnown' BY <1>1, <1>2 DEF GoneKnown, Nothing
<1> QED BY <1>7, <1>8, <1>9, <1>10, <1>11, <1>14, <1>15

LEMMA ColdReadFollow == ASSUME IInv, FollowInv, ColdRead PROVE FollowInv'
<1> USE DEF FollowInv
<1> DEFINE g == Head(reads)
<1>1. /\ reads # <<>> /\ reads' = Tail(reads) /\ view' = Read(g) /\ reads \in Seq(Groups)
      /\ UNCHANGED <<owned, life, served, streams, ended, late>>
      /\ at \in {"starting", "refreshing"} /\ at' \in {"starting", "refreshing", "run", "done"}
  BY DEF ColdRead, IInv, LoopOK, serviceVars
<1>2. /\ g = reads[1] /\ 1 \in DOMAIN reads
      /\ \A i \in DOMAIN reads' : i \in Nat /\ i + 1 \in DOMAIN reads /\ reads'[i] = reads[i + 1]
      /\ \A i \in DOMAIN reads : i \in Nat
      /\ \A i \in DOMAIN reads : i = 1 \/ (i - 1 \in DOMAIN reads' /\ reads'[i - 1] = reads[i])
  BY <1>1, TailParts
<1>3. g \in Groups BY <1>1, <1>2
<1>4. ServiceOK /\ IsView(view) BY DEF IInv, LoopOK
<1> HIDE DEF g
<1>5. /\ view'.known = IF g = "counters" THEN owned ELSE view.known
      /\ \A m \in Heard : owned =>
           /\ GroupOf(m) = g => Told(m, view') = Told(m, served)
                                \/ (g = "activities" /\ ~view.known /\ Told(m, view') = Told(m, view))
           /\ GroupOf(m) = g \/ (g = "counters" /\ GroupOf(m) = "activities")
              \/ Told(m, view') = Told(m, view)
  BY <1>1, <1>3, <1>4, ReadTells
<1>6. Listening /\ at # "off" /\ at' # "off" BY <1>1 DEF Listening
<1>7. Changes' = Changes BY <1>1 DEF Changes
\* What is left to read, but for the group just read.
<1>8. \A h : Holds(reads, h) => h = g \/ Holds(reads', h) BY <1>2 DEF Holds
<1>9. \A i \in DOMAIN reads : reads[i] = "counters" => Holds(reads', "activities")
  <2>1. SUFFICES ASSUME NEW i \in DOMAIN reads, reads[i] = "counters" PROVE Holds(reads', "activities")
    OBVIOUS
  <2>2. PICK j \in DOMAIN reads : j > i /\ reads[j] = "activities" BY <2>1 DEF CountersFirst
  <2>3. i \in Nat /\ j \in Nat /\ (i = 1 \/ i - 1 \in DOMAIN reads') BY <1>2
  <2>4. i >= 1
    <3>1. CASE i = 1 BY <3>1
    <3>2. CASE i # 1
      <4>1. i - 1 \in Nat BY <1>2, <2>3, <3>2
      <4> QED BY <2>3, <4>1
    <3> QED BY <3>1, <3>2
  <2>5. j # 1 BY <2>2, <2>3, <2>4
  <2> QED BY <1>2, <2>2, <2>5 DEF Holds
<1>10. NotStarted' BY <1>6 DEF NotStarted
<1>11. LastChange' BY <1>1, <1>6, <1>7 DEF LastChange
<1>12. CountersFirst'
  <2>1. SUFFICES ASSUME NEW i \in DOMAIN reads', reads'[i] = "counters"
                 PROVE  \E j \in DOMAIN reads' : j > i /\ reads'[j] = "activities"
    BY DEF CountersFirst
  <2>2. i \in Nat /\ i + 1 \in DOMAIN reads /\ reads[i + 1] = "counters" BY <1>2, <2>1
  <2>3. PICK j \in DOMAIN reads : j > i + 1 /\ reads[j] = "activities" BY <2>2 DEF CountersFirst
  <2>4. j \in Nat /\ j # 1 /\ j - 1 > i BY <1>2, <2>2, <2>3
  <2> QED BY <1>2, <2>3, <2>4
<1>13. OldSignals' BY <1>1, <1>6, <1>7 DEF OldSignals
<1>14. KnownOrAsked' BY <1>1, <1>5, <1>6, <1>7, <1>8 DEF KnownOrAsked
<1>15. ASSUME NEW m \in Heard, owned PROVE Follows(m)'
  <2> DEFINE q == streams[m]
  <2>1. Follows(m) BY <1>6, <1>15 DEF Following
  <2>2. streams'[m] = q /\ life' = life /\ served' = served /\ late' = late BY <1>1
  <2>3. CASE \E i \in DOMAIN q : q[i].of = life BY <2>1, <2>2, <2>3 DEF Follows
  <2>4. CASE ~\E i \in DOMAIN q : q[i].of = life
    <3> SUFFICES ASSUME Changes = <<>>, ~late
                 PROVE  Holds(reads', GroupOf(m)) \/ Told(m, view') = Told(m, served)
      BY <1>7, <2>2, <2>4 DEF Follows
    <3>1. Holds(reads, GroupOf(m)) \/ Told(m, view) = Told(m, served) BY <2>1, <2>4 DEF Follows
    <3>2. CASE GroupOf(m) = g
      <4>1. CASE g = "activities" /\ ~view.known
        <5>1. Holds(reads, "counters") BY <1>6, <1>15, <4>1 DEF KnownOrAsked
        <5> QED BY <1>9, <3>2, <4>1, <5>1 DEF Holds
      <4>2. CASE ~(g = "activities" /\ ~view.known) BY <1>5, <1>15, <3>2, <4>2
      <4> QED BY <4>1, <4>2
    <3>3. CASE GroupOf(m) # g /\ ~(g = "counters" /\ GroupOf(m) = "activities")
      BY <1>5, <1>8, <1>15, <3>1, <3>3
    <3>4. CASE g = "counters" /\ GroupOf(m) = "activities" BY <1>2, <1>9, <3>4
    <3> QED BY <3>2, <3>3, <3>4
  <2> QED BY <2>3, <2>4
<1>16. Following' BY <1>1, <1>15 DEF Following
<1>17. GoneKnown' BY <1>1, <1>5, <1>6, <1>7 DEF GoneKnown
<1> QED BY <1>10, <1>11, <1>12, <1>13, <1>14, <1>16, <1>17

LEMMA HandleFollow == ASSUME IInv, FollowInv, NEW m \in Members, Handle(m) PROVE FollowInv'
<1> USE DEF FollowInv
<1> DEFINE q == streams[m]
           head == Head(q)
<1>1. /\ at = "run" /\ at' = at /\ m \in Heard /\ q # <<>> /\ view' = HearSignal(m, head.args)
      /\ late' = (late \/ head.of <= ended) /\ streams' = [streams EXCEPT ![m] = Tail(@)]
      /\ UNCHANGED <<owned, life, served, reads, ended>>
  BY DEF Handle, Heard, serviceVars
<1>2. /\ streams'[m] = Tail(q) /\ (\A n \in Members \ {m} : streams'[n] = streams[n]) /\ head \in Sent(m)
  BY <1>1, TailType DEF IInv
<1>3. q \in Seq(Sent(m)) BY StreamParts
<1> HIDE DEF q
<1> DEFINE rest == streams'[m]
<1>0. rest = Tail(q) BY <1>2
<1> HIDE DEF rest
<1>4. /\ head = q[1] /\ 1 \in DOMAIN q
      /\ \A i \in DOMAIN rest : i + 1 \in DOMAIN q /\ rest[i] = q[i + 1]
      /\ rest = <<>> => Len(q) = 1
      /\ rest # <<>> => rest[Len(rest)] = q[Len(q)] /\ Len(rest) \in DOMAIN rest
  <2>1. q # <<>> BY <1>1
  <2>2. Head(q) = q[1] /\ 1 \in DOMAIN q BY <1>0, <1>3, <2>1, TailParts
  <2>3. \A i \in DOMAIN rest : i + 1 \in DOMAIN q /\ rest[i] = q[i + 1]
    BY <1>0, <1>3, <2>1, TailParts
  <2>4. rest = <<>> => Len(q) = 1 BY <1>0, <1>3, <2>1, TailParts
  <2>5. rest # <<>> => rest[Len(rest)] = q[Len(q)] /\ Len(rest) \in DOMAIN rest
    BY <1>0, <1>3, <2>1, TailParts
  <2> QED BY <2>2, <2>3, <2>4, <2>5
<1> USE DEF rest
<1>5. Changes' = Changes BY <1>1, <1>2, NamesHeard DEF Changes
<1>6. Listening /\ Listening' /\ at' # "off" BY <1>1 DEF Listening
<1>7. /\ view'.known = (view.known \/ m = "StateChanged")
      /\ view.known \/ GroupOf(m) # "activities" => Told(m, view') = head.args
      /\ \A n \in Heard \ {m} : Told(n, view') = Told(n, view)
  <2>1. head.args \in ArgumentsOf(m) BY <1>2 DEF Sent
  <2> HIDE DEF head
  <2> QED BY <1>1, <2>1, HearTells DEF IInv, LoopOK
<1> HIDE DEF head
<1>8. NotStarted' /\ LastChange' /\ CountersFirst'
  BY <1>1, <1>5, <1>6 DEF NotStarted, LastChange, CountersFirst
<1>9. ASSUME NEW i \in DOMAIN q
      PROVE  \/ q[i].of <= ended
             \/ owned /\ q[i].of = life
             \/ \E j \in DOMAIN Changes : ~Changes[j].args.owned /\ q[i].of <= Changes[j].of
  BY <1>1, <1>6 DEF OldSignals, q
<1>10. OldSignals'
  <2>1. ASSUME NEW n \in Heard, NEW i \in DOMAIN streams'[n]
        PROVE  \/ streams'[n][i].of <= ended
               \/ owned /\ streams'[n][i].of = life
               \/ \E j \in DOMAIN Changes : ~Changes[j].args.owned /\ streams'[n][i].of <= Changes[j].of
    <3>1. CASE n = m
      <4>1. i + 1 \in DOMAIN q /\ streams'[n][i] = q[i + 1] BY <1>4, <2>1, <3>1
      <4> QED BY <1>9, <4>1
    <3>2. CASE n # m
      <4>1. streams'[n] = streams[n] BY <1>2, <3>2, NamesHeard
      <4> QED BY <1>6, <4>1 DEF OldSignals
    <3> QED BY <3>1, <3>2
  <2> QED BY <1>1, <1>5, <2>1 DEF OldSignals
<1>11. KnownOrAsked' BY <1>1, <1>5, <1>6, <1>7 DEF KnownOrAsked
<1>12. ASSUME owned PROVE Follows(m)'
  <2>1. Follows(m) BY <1>1, <1>6, <1>12 DEF Following
  <2>2. /\ Changes # <<>> \/ view.known
        /\ ~Holds(reads, "counters")
    <3>1. reads = <<>> BY <1>1 DEF IInv, LoopOK
    <3>2. DOMAIN <<>> = {} OBVIOUS
    <3> QED BY <1>6, <1>12, <3>1, <3>2 DEF KnownOrAsked, Holds
  <2>3. CASE \E i \in DOMAIN q : q[i].of = life
    <3>1. q[Len(q)].of = life /\ q[Len(q)].args = Told(m, served) BY <2>1, <2>3 DEF Follows, q
    <3>2. CASE rest # <<>> BY <1>1, <1>4, <3>1, <3>2 DEF Follows
    <3>3. CASE rest = <<>>
      <4>1. head.args = Told(m, served) BY <1>4, <3>1, <3>3
      <4>2. Changes # <<>> \/ Told(m, view') = Told(m, served) BY <1>7, <2>2, <4>1
      <4>3. DOMAIN rest = {} BY <3>3
      <4> QED BY <1>1, <1>5, <4>2, <4>3 DEF Follows
    <3> QED BY <3>2, <3>3
  <2>4. CASE ~\E i \in DOMAIN q : q[i].of = life
    <3>1. ~\E i \in DOMAIN rest : rest[i].of = life BY <1>4, <2>4
    <3>2. \/ head.of <= ended
          \/ \E j \in DOMAIN Changes : ~Changes[j].args.owned /\ head.of <= Changes[j].of
      BY <1>4, <1>9, <2>4
    <3>3. late' \/ Changes # <<>>
      <4>1. DOMAIN <<>> = {} OBVIOUS
      <4> QED BY <1>1, <3>2, <4>1
    <3> QED BY <1>1, <1>5, <3>1, <3>3 DEF Follows
  <2> QED BY <2>3, <2>4
<1>13. ASSUME owned, NEW n \in Heard \ {m} PROVE Follows(n)'
  <2>1. Follows(n) BY <1>6, <1>13 DEF Following
  <2>2. streams'[n] = streams[n] /\ Told(n, view') = Told(n, view) BY <1>2, <1>7, <1>13, NamesHeard
  <2>3. late => late' BY <1>1
  <2> QED BY <1>1, <1>5, <2>1, <2>2, <2>3 DEF Follows
<1>14. Following' BY <1>1, <1>12, <1>13 DEF Following
<1>15. streams # Quiet BY <1>1 DEF Quiet, q
<1>16. GoneKnown' BY <1>1, <1>5, <1>6, <1>15 DEF GoneKnown
<1> QED BY <1>8, <1>10, <1>11, <1>14, <1>16

LEMMA HandleOwnerFollow == ASSUME IInv, FollowInv, HandleOwner PROVE FollowInv'
<1> USE DEF FollowInv
<1> DEFINE head == Head(Changes)
<1>1. /\ at = "run" /\ Changes # <<>> /\ UNCHANGED <<owned, life, served>>
      /\ streams' = [streams EXCEPT !["NameOwnerChanged"] = Tail(@)]
      /\ \/ /\ ~head.args.owned /\ ended' = head.of /\ UNCHANGED <<at, reads, late>>
         \/ /\ head.args.owned /\ at' = "refreshing" /\ late' = FALSE /\ UNCHANGED <<view, ended>>
            /\ reads' = <<"desktop", "counters", "activities", "credential">>
  BY DEF HandleOwner, serviceVars, Changes
<1>2. /\ Changes' = Tail(Changes) /\ \A n \in Heard : streams'[n] = streams[n]
  <2>1. /\ streams'["NameOwnerChanged"] = Tail(streams["NameOwnerChanged"])
        /\ \A n \in Members \ {"NameOwnerChanged"} : streams'[n] = streams[n]
    BY <1>1, NamesHeard, TailType DEF IInv, Changes
  <2> QED BY <2>1, NamesHeard DEF Changes, Heard
<1>3. /\ Changes \in Seq(Sent("NameOwnerChanged")) /\ life \in Nat /\ ended \in Nat
      /\ \A i \in DOMAIN Changes : Changes[i].of \in 1..life
  BY StreamParts, NamesHeard DEF Changes
<1>4. /\ head = Changes[1] /\ 1 \in DOMAIN Changes
      /\ \A i \in DOMAIN Changes : i = 1 \/ (i - 1 \in DOMAIN Changes' /\ Changes'[i - 1] = Changes[i])
      /\ Changes' = <<>> => Len(Changes) = 1
      /\ Changes' # <<>> => Changes'[Len(Changes')] = Changes[Len(Changes)]
  <2>1. Changes # <<>> /\ Changes' = Tail(Changes) /\ Changes \in Seq(Sent("NameOwnerChanged"))
    BY <1>1, <1>2, <1>3
  <2>2. /\ Head(Changes) = Changes[1] /\ 1 \in DOMAIN Changes
        /\ \A i \in DOMAIN Changes : i = 1 \/ (i - 1 \in DOMAIN Changes' /\ Changes'[i - 1] = Changes[i])
        /\ Changes' = <<>> => Len(Changes) = 1
        /\ Changes' # <<>> => Changes'[Len(Changes')] = Changes[Len(Changes)]
    BY <2>1, TailParts
  <2> QED BY <2>2
<1> HIDE DEF head
<1>5. Listening /\ Listening' /\ at # "off" /\ at' # "off" BY <1>1 DEF Listening
<1>6. Changes[Len(Changes)].args.owned = owned /\ Changes[Len(Changes)].of = life
  BY <1>1, <1>5 DEF LastChange
<1>7. ended < head.of /\ head.of \in Nat /\ head.of > 0
  <2>1. \A i \in DOMAIN Changes : Changes[i].of > ended BY DEF IInv, OwnerOK, Turns, Changes
  <2> QED BY <1>3, <1>4, <2>1
<1>8. NotStarted' /\ LastChange' BY <1>1, <1>4, <1>5, <1>6 DEF NotStarted, LastChange
<1>9. Changes' = <<>> => head.args.owned = owned /\ head.of = life BY <1>4, <1>6
<1>10. owned \in BOOLEAN BY DEF IInv, ServiceOK
<1>11. ASSUME NEW n \in Heard, NEW i \in DOMAIN streams'[n], ended' >= ended, ended' \in Nat,
              ~head.args.owned => ended' >= head.of
       PROVE  \/ streams'[n][i].of <= ended'
              \/ owned /\ streams'[n][i].of = life
              \/ \E j \in DOMAIN Changes' : ~Changes'[j].args.owned /\ streams'[n][i].of <= Changes'[j].of
  <2> DEFINE of == streams[n][i].of
  <2>1. streams'[n] = streams[n] /\ of \in Nat
    <3>1. streams'[n] = streams[n] BY <1>2
    <3>2. \A j \in DOMAIN streams[n] : streams[n][j].of \in 1..life BY StreamParts, NamesHeard
    <3> QED BY <1>3, <1>11, <3>1, <3>2
  <2>2. \/ of <= ended
        \/ owned /\ of = life
        \/ \E j \in DOMAIN Changes : ~Changes[j].args.owned /\ of <= Changes[j].of
    BY <1>5, <1>11, <2>1 DEF OldSignals
  <2> HIDE DEF of
  <2>3. ASSUME NEW j \in DOMAIN Changes, ~Changes[j].args.owned, of <= Changes[j].of
        PROVE  of <= ended' \/ \E k \in DOMAIN Changes' : ~Changes'[k].args.owned /\ of <= Changes'[k].of
    <3>1. CASE j = 1 BY <1>4, <1>7, <1>11, <2>1, <2>3, <3>1
    <3>2. CASE j # 1 BY <1>4, <2>3, <3>2
    <3> QED BY <3>1, <3>2
  <2>4. of <= ended => of <= ended' BY <1>3, <1>11, <2>1
  <2> QED BY <2>1, <2>2, <2>3, <2>4 DEF of
<1>12. CASE ~head.args.owned /\ ended' = head.of /\ UNCHANGED <<at, reads, late>>
  <2>1. OldSignals' BY <1>1, <1>3, <1>7, <1>11, <1>12 DEF OldSignals
  <2>2. CountersFirst' BY <1>12 DEF CountersFirst
  <2>3. owned => Changes' # <<>> BY <1>9, <1>12
  <2>4. KnownOrAsked' BY <1>1, <2>3 DEF KnownOrAsked
  <2>5. ASSUME NEW n \in Heard, owned PROVE Follows(n)'
    <3>1. Follows(n) BY <1>5, <2>5 DEF Following
    <3> QED BY <1>1, <1>2, <2>3, <2>5, <3>1 DEF Follows
  <2>6. Following' BY <1>1, <2>5 DEF Following
  <2>7. GoneKnown' BY <1>1, <1>7, <1>9, <1>12 DEF GoneKnown
  <2> QED BY <1>8, <2>1, <2>2, <2>4, <2>6, <2>7
<1>13. CASE /\ head.args.owned /\ UNCHANGED <<view, ended>>
            /\ reads' = <<"desktop", "counters", "activities", "credential">>
  <2>1. OldSignals' BY <1>1, <1>3, <1>11, <1>13 DEF OldSignals
  <2>2. /\ DOMAIN reads' = 1..4 /\ reads'[1] = "desktop" /\ reads'[2] = "counters"
        /\ reads'[3] = "activities" /\ reads'[4] = "credential"
    BY <1>13
  <2>3. CountersFirst'
    <3>1. \A i \in 1..4 : reads'[i] = "counters" => i = 2 BY <2>2
    <3> QED BY <2>2, <3>1 DEF CountersFirst
  <2>4. \A g \in Groups : Holds(reads', g) BY <2>2 DEF Groups, Holds
  <2>5. KnownOrAsked' BY <2>4 DEF KnownOrAsked, Groups
  <2>6. \A m \in Heard : GroupOf(m) \in Groups BY NamesHeard DEF GroupOf, Groups
  <2>7. ASSUME NEW n \in Heard, owned PROVE Follows(n)'
    <3>1. Follows(n) BY <1>5, <2>7 DEF Following
    <3> QED BY <1>1, <1>2, <2>4, <2>6, <3>1 DEF Follows
  <2>8. Following' BY <1>1, <2>7 DEF Following
  <2>9. GoneKnown' BY <1>1, <1>9, <1>10, <1>13 DEF GoneKnown
  <2> QED BY <1>8, <2>1, <2>3, <2>5, <2>8, <2>9
<1> QED BY <1>1, <1>12, <1>13

\* The watcher, the clicks and the end move nothing of this.
LEMMA OthersFollow ==
  ASSUME FollowInv, UNCHANGED <<owned, life, served, reads, view, ended, late>>,
         UNCHANGED <<at, streams>> \/ at' = "done"
  PROVE  FollowInv'
<1> USE DEF FollowInv
<1>1. CountersFirst' BY DEF CountersFirst
<1>2. CASE at' = "done"
  BY <1>1, <1>2 DEF NotStarted, LastChange, OldSignals, KnownOrAsked, Following, GoneKnown, Listening
<1>3. CASE UNCHANGED <<at, streams>>
  <2>1. Listening' = Listening /\ Changes' = Changes BY <1>3 DEF Listening, Changes
  <2>2. NotStarted' /\ LastChange' /\ OldSignals' BY <1>3, <2>1 DEF NotStarted, LastChange, OldSignals
  <2>3. KnownOrAsked' /\ GoneKnown' BY <1>3, <2>1 DEF KnownOrAsked, GoneKnown
  <2>4. \A m : Follows(m) => Follows(m)' BY <1>3, <2>1 DEF Follows
  <2>5. Following' BY <2>1, <2>4 DEF Following
  <2> QED BY <1>1, <2>2, <2>3, <2>5
<1> QED BY <1>2, <1>3

LEMMA InitFollow == Init => FollowInv
<1>1. SUFFICES ASSUME Init PROVE FollowInv OBVIOUS
<1>2. DOMAIN <<>> = {} OBVIOUS
<1> QED BY <1>1, <1>2 DEF Init, FollowInv, NotStarted, LastChange, CountersFirst, OldSignals, KnownOrAsked,
                         Following, GoneKnown, Listening

LEMMA NextFollows == IInv /\ FollowInv /\ [Next]_vars => FollowInv'
<1> SUFFICES ASSUME IInv, FollowInv, [Next]_vars PROVE FollowInv' OBVIOUS
<1>1. CASE WatcherLeaves \/ WatcherComes \/ HandleWatcher \/ Click \/ SignIn
  BY <1>1, OthersFollow DEF WatcherLeaves, WatcherComes, HandleWatcher, Click, SignIn, serviceVars
<1>2. CASE End BY <1>2, OthersFollow DEF End, serviceVars
<1>3. CASE UNCHANGED vars BY <1>3, OthersFollow DEF vars, serviceVars
<1> QED BY <1>1, <1>2, <1>3, ComeLeaveFollow, PublishFollow, StartFollow, HandleFollow, ColdReadFollow,
           HandleOwnerFollow DEF Next, Service, Loop

\* Whenever every signal that reached the tray is handled, the panel shows what
\* the service serves, or that there is no service: in whatever order the
\* signals of different streams were taken, and however they overlapped with
\* the cold reads and with the service's comings and goings, unless a signal
\* came after the end of its life and no cold read was asked for since.
FollowsService ==
  at = "run" /\ streams = Quiet /\ ~late =>
    item = IF owned
           THEN PresentWithDesktop([known |-> TRUE, state |-> served.state,
                                    credential |-> served.credential, desktop |-> served.desktop])
           ELSE Present(Nothing)

\* The part of Settles that does not depend on time: what the tray comes to
\* show once it has handled what it was sent.
THEOREM PanelFollows == Spec => []FollowsService
<1>1. IInv /\ FollowInv => FollowsService
  <2> SUFFICES ASSUME IInv, FollowInv, at = "run", streams = Quiet, ~late
               PROVE  item = IF owned
                             THEN PresentWithDesktop([known |-> TRUE, state |-> served.state,
                                    credential |-> served.credential, desktop |-> served.desktop])
                             ELSE Present(Nothing)
    BY DEF FollowsService
  <2>1. item = PresentWithDesktop(view) /\ Listening /\ reads = <<>>
    BY DEF IInv, ShownOK, LoopOK, Listening
  <2>2. Changes = <<>> /\ (\A m \in Heard : streams[m] = <<>>) /\ DOMAIN <<>> = {}
    BY NamesHeard DEF Quiet, Changes
  <2>3. CASE ~owned
    <3>1. ~view.known BY <2>1, <2>2, <2>3 DEF FollowInv, GoneKnown, IInv, ShownOK
    <3> QED BY <2>1, <2>3, <3>1, UnknownShowsNothing
  <2>4. CASE owned
    <3>1. view.known BY <2>1, <2>2, <2>4 DEF FollowInv, KnownOrAsked, Holds
    <3>2. \A m \in Heard : Told(m, view) = Told(m, served)
      BY <2>1, <2>2, <2>4 DEF FollowInv, Following, Follows, Holds
    <3>3. IsView(view) /\ served \in Served BY DEF IInv, LoopOK, ServiceOK
    <3>4. view.credential = served.credential
      <4>1. Told("CredentialStateChanged", view) = Told("CredentialStateChanged", served) BY <3>2, NamesHeard
      <4>2. [credential |-> view.credential] = [credential |-> served.credential] BY <4>1, SameCredential
      <4> QED BY <4>2
    <3>5. view.desktop = served.desktop
      <4>1. Told("DesktopChanged", view) = Told("DesktopChanged", served) BY <3>2, NamesHeard
      <4>2. [desktop |-> view.desktop] = [desktop |-> served.desktop] BY <4>1, SameDesktop
      <4> QED BY <4>2
    <3>6. view.state = served.state
      <4>1. /\ Part(StateChangedFields, view.state) = Part(StateChangedFields, served.state)
            /\ Part({"downloading"}, view.state) = Part({"downloading"}, served.state)
            /\ Part({"indexing"}, view.state) = Part({"indexing"}, served.state)
            /\ Part({"uploading"}, view.state) = Part({"uploading"}, served.state)
        BY <3>2, NamesHeard, WhatIsTold
      <4>2. \A fields, s, t : Part(fields, s) = Part(fields, t) => \A k \in fields : s[k] = t[k]
        <5>1. \A fields, s : \A k \in fields : Part(fields, s)[k] = s[k] BY DEF Part
        <5> QED BY <5>1
      <4>3. \A k \in DaemonFields : view.state[k] = served.state[k]
        BY <4>1, <4>2 DEF DaemonFields, StateChangedFields
      <4>4. IsDaemonState(view.state) /\ IsDaemonState(served.state)
        <5>1. served.state \in States \cup {DefaultState} BY <3>3 DEF Served
        <5>2. IsState(served.state) BY <5>1, ConstantsAssumption, DefaultIsView DEF DaemonView
        <5> QED BY <3>3, <5>2, DefaultIsState DEF IsState, IsDaemonState, IsView, DaemonView
      <4> QED BY <4>3, <4>4, SameState
    <3>7. view = [known |-> TRUE, state |-> served.state,
                  credential |-> served.credential, desktop |-> served.desktop]
      BY <3>1, <3>3, <3>4, <3>5, <3>6 DEF IsView
    <3> QED BY <2>1, <2>4, <3>7
  <2> QED BY <2>3, <2>4
<1>2. Init => FollowInv BY InitFollow
<1>3. IInv /\ FollowInv /\ [Next]_vars => FollowInv' BY NextFollows
<1> QED BY <1>1, <1>2, <1>3, Invariance, PTL DEF Spec
=============================================================================
