------------------------- MODULE StateServiceProofs -------------------------
(* Theorems about StateService, for every set of lines and every delay.     *)
EXTENDS StateService, SharedLemmas

-----------------------------------------------------------------------------
(* Types.                                                                   *)

IsCredential(s) == s = [k \in {"credential"} |-> s[k]]

\* The daemon and the connections to it; whoever serves has something to say.
DaemonOK ==
  /\ lives \in 0..MaxLives /\ up \in BOOLEAN /\ said \in 0..MaxSaid
  /\ serving \subseteq Feeds /\ full \subseteq serving /\ (serving # {} => up)
  /\ DOMAIN says = Feeds
  /\ \A f \in Feeds : says[f] \in Lines[f] \/ (says[f] = << >> /\ f \notin serving)

LoopsOK ==
  /\ at \in [Feeds -> {"idle", "reading", "asleep"}] /\ spoke \in [Feeds -> BOOLEAN]
  /\ delay \in [Feeds -> RETRY_FLOOR..RETRY_CEILING] /\ slept \in [Feeds -> 0..RETRY_CEILING]
  /\ fruitless \in [Feeds -> 0..RETRY_CEILING]

\* A connection that brings lines of S.
Conns(S) == [lines : Seq(S), open : BOOLEAN]

ConnsOK ==
  /\ DOMAIN conn = Feeds
  /\ \A f \in Feeds : /\ conn[f] \in Conns(Lines[f])
                      /\ conn[f].open => f \in serving /\ at[f] = "reading"

HeldOK ==
  /\ held = [f \in Feeds |-> held[f]]
  /\ IsDaemonState(held["control"]) /\ IsCredential(held["auth"])

\* What a loop holds is published, served and heard.
SameInv == last = held /\ surface = held /\ heard = held

\* Without a connection that has spoken, nothing is asserted.
QuietInv ==
  \A f \in Feeds : ~(at[f] = "reading" /\ spoke[f]) => held[f] = Forgotten(f)

IInv == DaemonOK /\ LoopsOK /\ ConnsOK /\ HeldOK /\ SameInv /\ QuietInv

LEMMA DefaultOK ==
  /\ Default = [f \in Feeds |-> Default[f]] /\ IsDaemonState(Default["control"])
  /\ IsCredential(Default["auth"]) /\ Default["auth"] = [credential |-> "unknown"]
  /\ [Default["control"] EXCEPT !.daemon_running = FALSE] = Default["control"]
<1>1. Default["control"] = DefaultState /\ Default["auth"] = [credential |-> "unknown"]
  BY DEF Default, Feeds
<1>2. DefaultState.daemon_running = FALSE BY DEF DefaultState
<1>3. [DefaultState EXCEPT !.daemon_running = FALSE] = DefaultState
  BY <1>2, DefaultIsState DEF IsDaemonState
<1> QED BY <1>1, <1>3, DefaultIsState DEF IsCredential, Default

\* A connection whose peer dies, one to which a line comes, one that is read.
LEMMA PeerDies ==
  ASSUME NEW S, NEW c \in Conns(S)
  PROVE  /\ c.lines \in Seq(S)
         /\ [c EXCEPT !.open = FALSE] \in Conns(S) /\ ~[c EXCEPT !.open = FALSE].open
BY DEF Conns

LEMMA LineComes ==
  ASSUME NEW S, NEW c \in Conns(S), NEW x \in S, NEW d, d = [c EXCEPT !.lines = Append(@, x)]
  PROVE  d \in Conns(S) /\ d.open = c.open
<1>1. c.lines \in Seq(S) BY PeerDies
<1>2. Append(c.lines, x) \in Seq(S) BY <1>1
<1> QED BY <1>2 DEF Conns

LEMMA LineRead ==
  ASSUME NEW S, NEW c \in Conns(S), c.lines # << >>, NEW d, d = [c EXCEPT !.lines = Tail(@)]
  PROVE  d \in Conns(S) /\ d.open = c.open
<1>1. c.lines \in Seq(S) BY PeerDies
<1>2. Tail(c.lines) \in Seq(S) BY <1>1
<1> QED BY <1>2 DEF Conns

LEMMA TypeParts == IInv => TypeOK
<1> SUFFICES ASSUME IInv PROVE TypeOK OBVIOUS
<1> USE DEF IInv
<1>1. ASSUME NEW f \in Feeds
      PROVE  \A state \in {held[f], last[f], surface[f], heard[f]} : DOMAIN state = DOMAIN Default[f]
  <2>1. held[f] = last[f] /\ held[f] = surface[f] /\ held[f] = heard[f] BY DEF SameInv
  <2>2. DOMAIN held[f] = DOMAIN Default[f]
    BY DefaultOK DEF HeldOK, IsDaemonState, IsCredential, Feeds
  <2> QED BY <2>1, <2>2
<1>2. ASSUME NEW f \in Feeds
      PROVE  /\ says[f] \in Lines[f] \cup {<<>>}
             /\ at[f] \in {"idle", "reading", "asleep"} /\ spoke[f] \in BOOLEAN
             /\ conn[f].lines \in Seq(Lines[f]) /\ (conn[f].open => f \in serving /\ at[f] = "reading")
             /\ delay[f] \in RETRY_FLOOR..RETRY_CEILING /\ slept[f] \in 0..RETRY_CEILING
             /\ fruitless[f] \in 0..RETRY_CEILING
  <2>1. says[f] \in Lines[f] \cup {<<>>} BY DEF DaemonOK
  <2>2. /\ at[f] \in {"idle", "reading", "asleep"} /\ spoke[f] \in BOOLEAN
        /\ delay[f] \in RETRY_FLOOR..RETRY_CEILING /\ slept[f] \in 0..RETRY_CEILING
        /\ fruitless[f] \in 0..RETRY_CEILING
    BY DEF LoopsOK
  <2>3. conn[f] \in Conns(Lines[f])
        /\ (conn[f].open => f \in serving /\ at[f] = "reading")
    BY DEF ConnsOK
  <2>4. conn[f].lines \in Seq(Lines[f]) BY <2>3, PeerDies
  <2> QED BY <2>1, <2>2, <2>3, <2>4
<1>3. /\ lives \in 0..MaxLives /\ up \in BOOLEAN /\ said \in 0..MaxSaid
      /\ serving \subseteq Feeds /\ full \subseteq serving /\ (serving # {} => up)
  BY DEF DaemonOK
<1> QED BY <1>1, <1>2, <1>3 DEF TypeOK

LEMMA InitOK == ASSUME Init PROVE IInv
<1>1. DaemonOK
  <2>1. 0 \in 0..MaxLives /\ 0 \in 0..MaxSaid BY ConstantsAssumption
  <2> QED BY <2>1 DEF Init, DaemonOK
<1>2. LoopsOK BY ConstantsAssumption DEF Init, LoopsOK, InitialDelays, Zero
<1>3. ConnsOK
  <2>1. \A f \in Feeds : << >> \in Seq(Lines[f]) OBVIOUS
  <2>2. \A f \in Feeds : Nowhere \in Conns(Lines[f]) /\ ~Nowhere.open
    BY <2>1 DEF Nowhere, Conns
  <2> QED BY <2>2 DEF Init, ConnsOK
<1>4. HeldOK /\ SameInv BY DefaultOK DEF Init, HeldOK, SameInv
<1>5. QuietInv BY DefaultOK DEF Init, QuietInv, Forgotten, Feeds
<1> QED BY <1>1, <1>2, <1>3, <1>4, <1>5 DEF IInv

LEMMA RestartOK == ASSUME IInv, RestartService PROVE IInv'
<1>1. DaemonOK' BY DEF IInv, RestartService, DaemonOK, daemonVars
<1>2. LoopsOK' BY ConstantsAssumption DEF RestartService, LoopsOK, InitialDelays, Zero
<1>3. ConnsOK'
  <2>1. \A f \in Feeds : << >> \in Seq(Lines[f]) OBVIOUS
  <2>2. \A f \in Feeds : Nowhere \in Conns(Lines[f]) /\ ~Nowhere.open
    BY <2>1 DEF Nowhere, Conns
  <2> QED BY <2>2 DEF RestartService, ConnsOK
<1>4. HeldOK' /\ SameInv' BY DefaultOK DEF RestartService, HeldOK, SameInv
<1>5. QuietInv' BY DefaultOK DEF RestartService, QuietInv, Forgotten, Feeds
<1> QED BY <1>1, <1>2, <1>3, <1>4, <1>5 DEF IInv

LEMMA DaemonStepOK == ASSUME IInv, Daemon PROVE IInv'
<1> USE DEF IInv
<1>1. UNCHANGED <<at, held, last, spoke, retryVars, busVars>>
  BY DEF Daemon, StartDaemon, Die, Bind, Say, Crowd
<1>2. LoopsOK' /\ HeldOK' /\ SameInv' /\ QuietInv'
  BY <1>1 DEF LoopsOK, HeldOK, SameInv, QuietInv, Forgotten, retryVars, busVars
<1>3. DaemonOK' /\ ConnsOK'
  <2>1. CASE StartDaemon
    <3>1. lives' \in 0..MaxLives BY <2>1, ConstantsAssumption DEF StartDaemon, DaemonOK
    <3> QED BY <2>1, <3>1 DEF StartDaemon, DaemonOK, ConnsOK
  <2>2. CASE Die
    <3>1. DaemonOK' BY <2>2 DEF Die, DaemonOK
    <3>2. ASSUME NEW f \in Feeds
          PROVE  conn'[f] \in Conns(Lines[f]) /\ ~conn'[f].open
      <4>1. conn'[f] = [conn[f] EXCEPT !.open = FALSE] BY <2>2 DEF Die
      <4>2. conn[f] \in Conns(Lines[f]) BY DEF ConnsOK
      <4> QED BY <4>1, <4>2, PeerDies
    <3> QED BY <2>2, <3>1, <3>2 DEF Die, ConnsOK
  <2>3. ASSUME NEW f \in Feeds, Bind(f) PROVE DaemonOK' /\ ConnsOK'
    BY <2>3 DEF Bind, DaemonOK, ConnsOK
  <2>4. ASSUME NEW f \in Feeds, Say(f) PROVE DaemonOK' /\ ConnsOK'
    <3>1. PICK line \in Lines[f] :
            /\ says' = [says EXCEPT ![f] = line]
            /\ conn' = IF conn[f].open THEN [conn EXCEPT ![f].lines = Append(@, line)] ELSE conn
      BY <2>4 DEF Say
    <3>2. said' \in 0..MaxSaid BY <2>4, ConstantsAssumption DEF Say, DaemonOK
    <3>3. DaemonOK' BY <2>4, <3>1, <3>2 DEF Say, DaemonOK
    <3>4. conn[f] \in Conns(Lines[f]) BY DEF ConnsOK
    <3>5. conn'[f] \in Conns(Lines[f]) /\ conn'[f].open = conn[f].open
      <4>1. CASE conn[f].open
        <5>1. conn'[f] = [conn[f] EXCEPT !.lines = Append(@, line)]
          BY <3>1, <4>1 DEF ConnsOK
        <5> QED BY <3>1, <3>4, <5>1, LineComes
      <4>2. CASE ~conn[f].open BY <3>1, <3>4, <4>2
      <4> QED BY <4>1, <4>2
    <3>6. \A g \in Feeds \ {f} : conn'[g] = conn[g] BY <3>1
    <3>7. DOMAIN conn' = Feeds BY <3>1 DEF ConnsOK
    <3>8. serving' = serving /\ at' = at BY <2>4 DEF Say
    <3>9. ConnsOK' BY <3>5, <3>6, <3>7, <3>8 DEF ConnsOK
    <3> QED BY <3>3, <3>9
  <2>5. ASSUME NEW f \in Feeds, Crowd(f) PROVE DaemonOK' /\ ConnsOK'
    BY <2>5 DEF Crowd, DaemonOK, ConnsOK
  <2> QED BY <2>1, <2>2, <2>3, <2>4, <2>5 DEF Daemon
<1> QED BY <1>2, <1>3

\* A publication serves and tells what the loop has come to hold.
LEMMA PublishSame ==
  ASSUME HeldOK, SameInv, NEW f \in Feeds, NEW state, PublishDistinct(f, state),
         held' = [held EXCEPT ![f] = state], f = "control" => IsDaemonState(state),
         f = "auth" => IsCredential(state)
  PROVE  SameInv' /\ HeldOK' /\ surface' = held' /\ (state = held[f] => surface' = surface)
<1>1. HeldOK' BY DEF HeldOK, Feeds
<1>2. CASE state = held[f]
  <2>1. held' = held BY <1>2 DEF HeldOK
  <2>2. UNCHANGED <<last, surface, heard>> BY <1>2 DEF PublishDistinct, SameInv, busVars
  <2> QED BY <1>1, <2>1, <2>2 DEF SameInv
<1>3. CASE state # held[f]
  <2>1. /\ last' = [last EXCEPT ![f] = state] /\ surface' = [surface EXCEPT ![f] = state]
        /\ heard' = [heard EXCEPT ![f] =
             IF f = "control" THEN Hear(@, StateSignals(surface[f], state)) ELSE state]
    BY <1>3 DEF PublishDistinct, SameInv
  <2>2. heard' = [heard EXCEPT ![f] = state]
    <3>1. CASE f = "control"
      <4>1. heard[f] = held[f] /\ surface[f] = held[f] /\ IsDaemonState(held[f])
        BY <3>1 DEF SameInv, HeldOK
      <4>2. Hear(heard[f], StateSignals(surface[f], state)) = state
        BY <3>1, <4>1, SignalsCarryAll
      <4> QED BY <2>1, <3>1, <4>2
    <3>2. CASE f # "control" BY <2>1, <3>2
    <3> QED BY <3>1, <3>2
  <2> QED BY <1>1, <1>3, <2>1, <2>2 DEF SameInv
<1> QED BY <1>2, <1>3

LEMMA RetryOK == ASSUME LoopsOK, NEW f \in Feeds, Retry(f)
  PROVE  /\ delay' \in [Feeds -> RETRY_FLOOR..RETRY_CEILING] /\ slept' \in [Feeds -> 0..RETRY_CEILING]
         /\ fruitless' \in [Feeds -> 0..RETRY_CEILING]
<1> USE DEF LoopsOK
<1>1. RETRY_FLOOR \in RETRY_FLOOR..RETRY_CEILING /\ RETRY_FLOOR \in 0..RETRY_CEILING
      /\ RETRY_FLOOR..RETRY_CEILING \subseteq 0..RETRY_CEILING /\ 0 \in 0..RETRY_CEILING
  BY ConstantsAssumption
<1>2. \A d \in RETRY_FLOOR..RETRY_CEILING : Smaller(RETRY_CEILING, 2 * d) \in RETRY_FLOOR..RETRY_CEILING
  BY ConstantsAssumption DEF Smaller
<1>3. \A n \in 0..RETRY_CEILING : Smaller(RETRY_CEILING, n + 1) \in 0..RETRY_CEILING
  BY ConstantsAssumption DEF Smaller
<1> HIDE ConstantsAssumption
<1>4. delay' \in [Feeds -> RETRY_FLOOR..RETRY_CEILING] BY <1>1, <1>2 DEF Retry
<1>5. slept' \in [Feeds -> 0..RETRY_CEILING] BY <1>1 DEF Retry
<1>6. fruitless' \in [Feeds -> 0..RETRY_CEILING] BY <1>1, <1>3 DEF Retry
<1> QED BY <1>4, <1>5, <1>6

\* What a feed holds once its connection is gone: nothing more is to be forgotten.
LEMMA ForgottenOK ==
  ASSUME HeldOK, NEW f \in Feeds
  PROVE  /\ f = "control" => IsDaemonState(Forgotten(f)) /\ Forgotten(f).daemon_running = FALSE
         /\ f = "auth" => IsCredential(Forgotten(f)) /\ Forgotten(f) = Default[f]
         /\ held' = [held EXCEPT ![f] = Forgotten(f)] => Forgotten(f)' = held'[f]
<1>1. CASE f = "control"
  <2>1. Forgotten(f) = [held[f] EXCEPT !.daemon_running = FALSE] BY <1>1 DEF Forgotten
  <2>2. IsDaemonState(held[f]) /\ DOMAIN held[f] = DaemonFields BY <1>1, StateFields DEF HeldOK
  <2>3. /\ IsDaemonState(Forgotten(f)) /\ DOMAIN Forgotten(f) = DaemonFields
        /\ Forgotten(f).daemon_running = FALSE
    BY <2>1, <2>2 DEF IsDaemonState, DaemonFields
  <2>4. [Forgotten(f) EXCEPT !.daemon_running = FALSE] = Forgotten(f)
    BY <2>3 DEF IsDaemonState, DaemonFields
  <2>5. ASSUME held' = [held EXCEPT ![f] = Forgotten(f)] PROVE Forgotten(f)' = held'[f]
    <3>1. held'[f] = Forgotten(f) BY <2>5 DEF HeldOK
    <3>2. Forgotten(f)' = [held'[f] EXCEPT !.daemon_running = FALSE] BY <1>1 DEF Forgotten
    <3> QED BY <2>4, <3>1, <3>2
  <2> QED BY <1>1, <2>3, <2>5
<1>2. CASE f = "auth"
  <2>1. Forgotten(f) = Default[f] /\ Forgotten(f)' = Default[f] BY <1>2 DEF Forgotten, Default, Feeds
  <2>2. held' = [held EXCEPT ![f] = Forgotten(f)] => held'[f] = Forgotten(f) BY DEF HeldOK
  <2> QED BY <1>2, <2>1, <2>2, DefaultOK
<1> QED BY <1>1, <1>2 DEF Feeds

LEMMA ConnectOK == ASSUME IInv, NEW f \in Feeds, Connect(f) PROVE IInv'
<1> USE DEF IInv
<1>1. DaemonOK' /\ LoopsOK' BY DEF Connect, DaemonOK, LoopsOK, daemonVars, retryVars
<1>2. ConnsOK'
  <2>1. conn'[f] \in Conns(Lines[f]) /\ (conn'[f].open => f \in serving)
    <3>1. CASE f \in serving \ full
      <4>1. says[f] \in Lines[f] BY <3>1 DEF DaemonOK
      <4>2. <<says[f]>> \in Seq(Lines[f]) BY <4>1, OneContains
      <4>3. conn'[f] = [lines |-> <<says[f]>>, open |-> TRUE] BY <3>1 DEF Connect, ConnsOK
      <4> QED BY <3>1, <4>2, <4>3 DEF Conns
    <3>2. CASE f \notin serving \ full
      <4>1. << >> \in Seq(Lines[f]) OBVIOUS
      <4>2. conn'[f] = Nowhere BY <3>2 DEF Connect, ConnsOK
      <4> QED BY <4>1, <4>2 DEF Conns, Nowhere
    <3> QED BY <3>1, <3>2
  <2>2. /\ DOMAIN conn' = Feeds /\ serving' = serving /\ at'[f] = "reading"
        /\ \A g \in Feeds \ {f} : conn'[g] = conn[g] /\ at'[g] = at[g]
    BY DEF Connect, ConnsOK, LoopsOK, daemonVars
  <2> QED BY <2>1, <2>2 DEF ConnsOK
<1>3. HeldOK' /\ SameInv' BY DEF Connect, HeldOK, SameInv, busVars
<1>4. QuietInv'
  <2>1. \A g \in Feeds : held'[g] = held[g] /\ Forgotten(g)' = Forgotten(g)
    BY DEF Connect, Forgotten
  <2>2. at[f] = "idle" BY DEF Connect
  <2>3. \A g \in Feeds \ {f} : at'[g] = at[g] /\ spoke'[g] = spoke[g]
    BY DEF Connect, LoopsOK
  <2> QED BY <2>1, <2>2, <2>3 DEF QuietInv
<1> QED BY <1>1, <1>2, <1>3, <1>4

LEMMA WakeOK == ASSUME IInv, NEW f \in Feeds, Wake(f) PROVE IInv'
<1> USE DEF IInv
<1>1. DaemonOK' /\ LoopsOK' BY DEF Wake, DaemonOK, LoopsOK, daemonVars, retryVars
<1>2. \A g \in Feeds : (g = f => at[g] = "asleep" /\ at'[g] = "idle") /\ (g # f => at'[g] = at[g])
  BY DEF Wake, LoopsOK
<1>3. ConnsOK' BY <1>2 DEF Wake, ConnsOK, daemonVars
<1>4. HeldOK' /\ SameInv' BY DEF Wake, HeldOK, SameInv, busVars
<1>5. QuietInv' BY <1>2 DEF Wake, QuietInv, Forgotten
<1> QED BY <1>1, <1>3, <1>4, <1>5

LEMMA ToldOK ==
  ASSUME HeldOK, NEW f \in Feeds, NEW line
  PROVE  /\ f = "control" => IsDaemonState(Told(f, line))
         /\ f = "auth" => IsCredential(Told(f, line))
<1>1. CASE f = "control"
  <2>1. Told(f, line) = [Overlay(line, held[f]) EXCEPT !.daemon_running = TRUE]
    BY <1>1 DEF Told
  <2>2. IsDaemonState(Overlay(line, held[f])) BY <1>1, OverlayIsState DEF HeldOK
  <2> QED BY <1>1, <2>1, <2>2 DEF IsDaemonState
<1>2. CASE f = "auth"
  <2>1. Told(f, line) = Overlay(line, held[f]) BY <1>2 DEF Told
  <2>2. DOMAIN held[f] = {"credential"} BY <1>2 DEF HeldOK, IsCredential
  <2> QED BY <1>2, <2>1, <2>2 DEF IsCredential, Overlay
<1> QED BY <1>1, <1>2 DEF Feeds

\* A line that is read reaches the bus, and only the feed that reads it moves.
LEMMA ReadLineOK ==
  ASSUME IInv, NEW f \in Feeds, ReadLine(f)
  PROVE  /\ IInv' /\ (spoke'[f] \/ surface' = surface)
         /\ \A g \in Feeds \ {f} : surface'[g] = surface[g]
<1> USE DEF IInv
<1>1. /\ at[f] = "reading" /\ conn[f].lines # << >> /\ conn' = [conn EXCEPT ![f].lines = Tail(@)]
      /\ UNCHANGED <<daemonVars, at, retryVars>>
  BY DEF ReadLine
<1>2. DaemonOK' BY <1>1 DEF DaemonOK, daemonVars
<1>3. ConnsOK'
  <2>1. conn[f] \in Conns(Lines[f]) /\ conn'[f] = [conn[f] EXCEPT !.lines = Tail(@)]
    BY <1>1 DEF ConnsOK
  <2>2. conn'[f] \in Conns(Lines[f]) /\ conn'[f].open = conn[f].open
    BY <1>1, <2>1, LineRead
  <2>3. /\ DOMAIN conn' = Feeds /\ serving' = serving /\ at' = at
        /\ \A g \in Feeds \ {f} : conn'[g] = conn[g]
    BY <1>1 DEF ConnsOK, daemonVars
  <2> QED BY <2>2, <2>3 DEF ConnsOK
<1>4. PICK line : line = Head(conn[f].lines) OBVIOUS
<1>5. CASE ~Recognized(line)
  <2>1. UNCHANGED <<held, last, spoke, surface, heard>> BY <1>4, <1>5 DEF ReadLine, busVars
  <2>2. LoopsOK' /\ HeldOK' /\ SameInv' /\ QuietInv'
    BY <1>1, <2>1 DEF LoopsOK, HeldOK, SameInv, QuietInv, Forgotten, retryVars
  <2> QED BY <1>2, <1>3, <2>1, <2>2
<1>6. CASE Recognized(line)
  <2>1. /\ spoke' = [spoke EXCEPT ![f] = TRUE] /\ held' = [held EXCEPT ![f] = Told(f, line)]
        /\ PublishDistinct(f, Told(f, line))
    BY <1>4, <1>6 DEF ReadLine
  <2>2. LoopsOK' BY <1>1, <2>1 DEF LoopsOK, retryVars
  <2>3. HeldOK' /\ SameInv' /\ surface' = held' BY <2>1, ToldOK, PublishSame
  <2>4. \A g \in Feeds \ {f} : held'[g] = held[g] /\ surface'[g] = surface[g]
    BY <2>1, <2>3 DEF SameInv, HeldOK
  <2>5. spoke'[f] /\ at'[f] = "reading" /\ \A g \in Feeds \ {f} : spoke'[g] = spoke[g] /\ at'[g] = at[g]
    BY <1>1, <2>1 DEF LoopsOK
  <2>6. QuietInv' BY <2>4, <2>5 DEF QuietInv, Forgotten
  <2> QED BY <1>2, <1>3, <2>2, <2>3, <2>4, <2>5, <2>6
<1> QED BY <1>5, <1>6

\* The end of a connection that has not spoken changes nothing on the bus.
LEMMA HangUpOK ==
  ASSUME IInv, NEW f \in Feeds, HangUp(f)
  PROVE  /\ IInv' /\ spoke' = spoke /\ (spoke[f] \/ surface' = surface)
         /\ \A g \in Feeds \ {f} : surface'[g] = surface[g]
<1> USE DEF IInv
<1>1. /\ at[f] = "reading" /\ conn[f] = Nowhere /\ held' = [held EXCEPT ![f] = Forgotten(f)]
      /\ PublishDistinct(f, Forgotten(f)) /\ Retry(f) /\ at' = [at EXCEPT ![f] = "asleep"]
      /\ UNCHANGED <<daemonVars, conn, spoke>>
  BY DEF HangUp
<1>2. DaemonOK' BY <1>1 DEF DaemonOK, daemonVars
<1>3. at'[f] = "asleep" /\ \A g \in Feeds \ {f} : at'[g] = at[g] BY <1>1 DEF LoopsOK
<1>4. LoopsOK'
  <2>1. at' \in [Feeds -> {"idle", "reading", "asleep"}] /\ spoke' \in [Feeds -> BOOLEAN]
    BY <1>1 DEF LoopsOK
  <2> QED BY <1>1, <2>1, RetryOK DEF LoopsOK
<1>5. ConnsOK'
  <2>1. serving' = serving /\ conn' = conn /\ ~conn[f].open BY <1>1 DEF daemonVars, Nowhere
  <2> QED BY <1>3, <2>1 DEF ConnsOK
<1>6. /\ HeldOK' /\ SameInv' /\ surface' = held'
      /\ (Forgotten(f) = held[f] => surface' = surface)
  BY <1>1, ForgottenOK, PublishSame
<1>7. \A g \in Feeds \ {f} : held'[g] = held[g] /\ surface'[g] = surface[g]
  BY <1>1, <1>6 DEF SameInv, HeldOK
<1>8. QuietInv'
  <2>1. held'[f] = Forgotten(f)' BY <1>1, ForgottenOK
  <2>2. \A g \in Feeds \ {f} : Forgotten(g)' = Forgotten(g) /\ spoke'[g] = spoke[g]
    BY <1>1, <1>7 DEF Forgotten
  <2> QED BY <1>3, <1>7, <2>1, <2>2 DEF QuietInv
<1>9. spoke[f] \/ Forgotten(f) = held[f] BY DEF QuietInv
<1> QED BY <1>1, <1>2, <1>4, <1>5, <1>6, <1>7, <1>8, <1>9

LEMMA StutterOK == ASSUME IInv, UNCHANGED vars PROVE IInv' /\ surface' = surface
<1>1. UNCHANGED <<lives, up, serving, full, says, said>> BY DEF vars, daemonVars
<1>2. UNCHANGED <<at, conn, held, last, spoke, delay, slept, surface, heard, fruitless>>
  BY DEF vars, retryVars, busVars
<1>3. DaemonOK' BY <1>1 DEF IInv, DaemonOK
<1>4. LoopsOK' /\ HeldOK' /\ SameInv' BY <1>2 DEF IInv, LoopsOK, HeldOK, SameInv
<1>5. ConnsOK' /\ QuietInv' BY <1>1, <1>2 DEF IInv, ConnsOK, QuietInv, Forgotten
<1> QED BY <1>2, <1>3, <1>4, <1>5 DEF IInv

LEMMA StepOK == IInv /\ [Next]_vars => IInv'
<1> SUFFICES ASSUME IInv, [Next]_vars PROVE IInv' OBVIOUS
<1>1. CASE Daemon BY <1>1, DaemonStepOK
<1>2. ASSUME NEW f \in Feeds, Watch(f) PROVE IInv'
  BY <1>2, ConnectOK, ReadLineOK, HangUpOK, WakeOK DEF Watch
<1>3. CASE RestartService BY <1>3, RestartOK
<1>4. CASE UNCHANGED vars BY <1>4, StutterOK
<1> QED BY <1>1, <1>2, <1>3, <1>4 DEF Next
-----------------------------------------------------------------------------
(* The pace of the retries.                                                 *)

LEMMA DoublingDefined ==
  Doubled \in [Nat -> Nat] /\ Doubled[0] = RETRY_FLOOR /\ \A n \in Nat : Doubled[n + 1] = 2 * Doubled[n]
<1> DEFINE twice == [n \in Nat |-> [d \in Nat |-> 2 * d]]
           recursive(g) == g = [n \in Nat |-> IF n = 0 THEN RETRY_FLOOR ELSE 2 * g[n - 1]]
<1> HIDE DEF twice
<1>1. PICK g : g \in Recursive(Nat, RETRY_FLOOR, twice)
  <2>1. RETRY_FLOOR \in Nat /\ twice \in [Nat -> [Nat -> Nat]] BY ConstantsAssumption DEF twice
  <2> QED BY <2>1, Recursion
<1>2. g \in [Nat -> Nat] /\ g[0] = RETRY_FLOOR /\ \A n \in Nat : g[n + 1] = 2 * g[n]
  <2>1. g \in [Nat -> Nat] /\ g[0] = RETRY_FLOOR /\ \A n \in Nat : g[n + 1] = twice[n][g[n]]
    BY <1>1 DEF Recursive
  <2> QED BY <2>1 DEF twice
<1>3. recursive(g)
  <2>1. ASSUME NEW n \in Nat PROVE g[n] = IF n = 0 THEN RETRY_FLOOR ELSE 2 * g[n - 1]
    <3>1. CASE n = 0 BY <1>2, <3>1
    <3>2. CASE n # 0
      <4>1. n - 1 \in Nat /\ n = (n - 1) + 1 BY <3>2
      <4> QED BY <1>2, <3>2, <4>1
    <3> QED BY <3>1, <3>2
  <2> QED BY <1>2, <2>1
<1>4. Doubled = CHOOSE h : recursive(h) BY DEF Doubled
<1>5. recursive(Doubled) BY <1>3, <1>4
<1>6. Doubled[0] = RETRY_FLOOR BY <1>5
<1>7. \A n \in Nat : Doubled[n + 1] = 2 * Doubled[n]
  <2>1. \A n \in Nat : n + 1 \in Nat /\ n + 1 # 0 /\ (n + 1) - 1 = n OBVIOUS
  <2> QED BY <1>5, <2>1
<1>8. \A n \in Nat : Doubled[n] \in Nat
  <2> DEFINE T == {n \in Nat : Doubled[n] \in Nat}
  <2>1. 0 \in T BY <1>6, ConstantsAssumption
  <2>2. ASSUME NEW n \in Nat, n \in T PROVE n + 1 \in T BY <1>7, <2>2
  <2> HIDE DEF T
  <2>3. \A n \in Nat : n \in T BY <2>1, <2>2, Induction
  <2> QED BY <2>3 DEF T
<1> QED BY <1>5, <1>6, <1>7, <1>8

\* The count of fruitless connections is capped where the delay has long been.
LEMMA DoublingGrows == \A n \in Nat : Doubled[n] >= n + 1
<1> DEFINE T == {n \in Nat : Doubled[n] >= n + 1}
<1>1. 0 \in T BY DoublingDefined, ConstantsAssumption
<1>2. ASSUME NEW n \in Nat, n \in T PROVE n + 1 \in T
  <2>1. Doubled[n] \in Nat /\ Doubled[n] >= n + 1 /\ Doubled[n + 1] = 2 * Doubled[n]
    BY <1>2, DoublingDefined
  <2> QED BY <2>1
<1> HIDE DEF T
<1>3. \A n \in Nat : n \in T BY <1>1, <1>2, Induction
<1> QED BY <1>3 DEF T

\* The delay of a loop is the floor, doubled once for each fruitless
\* connection since the last that spoke, at most the ceiling.
PaceInv ==
  \A f \in Feeds :
    /\ delay[f] = Smaller(RETRY_CEILING, Doubled[fruitless[f]])
    /\ at[f] = "asleep" =>
         slept[f] = Smaller(RETRY_CEILING, Doubled[IF fruitless[f] = 0 THEN 0 ELSE fruitless[f] - 1])

LEMMA StartsAtFloor ==
  ASSUME delay = InitialDelays, fruitless = Zero, \A f \in Feeds : at[f] = "idle" PROVE PaceInv
<1>1. Smaller(RETRY_CEILING, Doubled[0]) = RETRY_FLOOR
  BY DoublingDefined, ConstantsAssumption DEF Smaller
<1> QED BY <1>1 DEF PaceInv, InitialDelays, Zero

LEMMA RetryKeepsPace ==
  ASSUME LoopsOK, PaceInv, NEW f \in Feeds, Retry(f), at' = [at EXCEPT ![f] = "asleep"]
  PROVE  PaceInv'
<1>1. PICK n \in 0..RETRY_CEILING : fruitless[f] = n BY DEF LoopsOK
<1>2. delay[f] = Smaller(RETRY_CEILING, Doubled[n]) BY <1>1 DEF PaceInv
<1>3. Doubled[n] \in Nat /\ Doubled[0] = RETRY_FLOOR /\ Doubled[n + 1] = 2 * Doubled[n]
  BY DoublingDefined
<1>4. ASSUME /\ delay'[f] = Smaller(RETRY_CEILING, Doubled[fruitless'[f]])
             /\ slept'[f] = Smaller(RETRY_CEILING,
                              Doubled[IF fruitless'[f] = 0 THEN 0 ELSE fruitless'[f] - 1])
      PROVE  PaceInv'
  <2>1. \A g \in Feeds \ {f} : /\ delay'[g] = delay[g] /\ slept'[g] = slept[g]
                                /\ fruitless'[g] = fruitless[g] /\ at'[g] = at[g]
    BY DEF Retry, LoopsOK
  <2> QED BY <1>4, <2>1 DEF PaceInv
<1>5. CASE spoke[f]
  <2>1. delay'[f] = RETRY_FLOOR /\ slept'[f] = RETRY_FLOOR /\ fruitless'[f] = 0
    BY <1>5 DEF Retry, LoopsOK
  <2>2. Smaller(RETRY_CEILING, Doubled[0]) = RETRY_FLOOR BY <1>3, ConstantsAssumption DEF Smaller
  <2> QED BY <1>4, <2>1, <2>2
<1>6. CASE ~spoke[f]
  <2>1. /\ delay'[f] = Smaller(RETRY_CEILING, 2 * delay[f]) /\ slept'[f] = delay[f]
        /\ fruitless'[f] = Smaller(RETRY_CEILING, n + 1)
    BY <1>1, <1>6 DEF Retry, LoopsOK
  <2>2. Smaller(RETRY_CEILING, 2 * delay[f]) = Smaller(RETRY_CEILING, Doubled[n + 1])
    BY <1>2, <1>3, ConstantsAssumption DEF Smaller
  <2>3. CASE n < RETRY_CEILING
    <3>1. fruitless'[f] = n + 1 /\ n + 1 # 0 /\ (n + 1) - 1 = n
      BY <2>1, <2>3, ConstantsAssumption DEF Smaller
    <3> QED BY <1>2, <2>1, <2>2, <3>1, <1>4
  <2>4. CASE n = RETRY_CEILING
    <3>1. fruitless'[f] = n /\ n # 0 BY <2>1, <2>4, ConstantsAssumption DEF Smaller
    <3>2. n - 1 \in Nat /\ Doubled[n - 1] >= n /\ Doubled[n] >= n /\ Doubled[n + 1] >= n
          /\ Doubled[n - 1] \in Nat /\ Doubled[n + 1] \in Nat
      BY <3>1, DoublingGrows, DoublingDefined
    <3>3. Smaller(n, Doubled[n - 1]) = n /\ Smaller(n, Doubled[n]) = n /\ Smaller(n, Doubled[n + 1]) = n
      BY <1>3, <3>2 DEF Smaller
    <3> QED BY <1>2, <2>1, <2>2, <2>4, <3>1, <3>3, <1>4
  <2> QED BY <2>3, <2>4, ConstantsAssumption
<1> QED BY <1>5, <1>6

LEMMA PaceStep == IInv /\ PaceInv /\ [Next]_vars => PaceInv'
<1> SUFFICES ASSUME IInv, PaceInv, [Next]_vars PROVE PaceInv' OBVIOUS
<1>1. ASSUME UNCHANGED <<at, retryVars>> PROVE PaceInv' BY <1>1 DEF PaceInv, retryVars
<1>2. CASE Daemon
  BY <1>1, <1>2 DEF Daemon, StartDaemon, Die, Bind, Say, Crowd
<1>3. ASSUME NEW f \in Feeds, Connect(f) \/ Wake(f) PROVE PaceInv'
  <2>1. \A g \in Feeds : at'[g] = "asleep" => at[g] = "asleep"
    BY <1>3 DEF Connect, Wake, IInv, LoopsOK
  <2>2. UNCHANGED <<delay, slept, fruitless>> BY <1>3 DEF Connect, Wake, retryVars
  <2> QED BY <2>1, <2>2 DEF PaceInv
<1>4. ASSUME NEW f \in Feeds, ReadLine(f) PROVE PaceInv' BY <1>1, <1>4 DEF ReadLine
<1>5. ASSUME NEW f \in Feeds, HangUp(f) PROVE PaceInv'
  BY <1>5, RetryKeepsPace DEF HangUp, IInv
<1>6. CASE RestartService
  <2>1. (delay = InitialDelays /\ fruitless = Zero /\ \A f \in Feeds : at[f] = "idle")'
    BY <1>6 DEF RestartService, InitialDelays, Zero
  <2>2. Smaller(RETRY_CEILING, Doubled[0]) = RETRY_FLOOR
    BY DoublingDefined, ConstantsAssumption DEF Smaller
  <2> QED BY <2>1, <2>2 DEF PaceInv, InitialDelays, Zero
<1>7. CASE UNCHANGED vars BY <1>1, <1>7 DEF vars
<1> QED BY <1>2, <1>3, <1>4, <1>5, <1>6, <1>7 DEF Next, Watch
-----------------------------------------------------------------------------
(* No line is lost on the way from the daemon to the bus.                   *)

\* A state that a line has been applied to.
Shows(f, line, state) ==
  Overlay(line, state) = state /\ (f = "control" /\ Recognized(line) => state.daemon_running)

\* Of an open connection the last line not read yet is what the daemon says; once
\* all are read, the loop holds it.
CaughtUp ==
  \A f \in Feeds : conn[f].open =>
    IF conn[f].lines = << >> THEN Shows(f, says[f], held[f]) ELSE Last(conn[f].lines) = says[f]

LEMMA LastLine ==
  ASSUME NEW S, NEW s \in Seq(S), NEW x \in S
  PROVE  /\ Append(s, x) # << >> /\ Last(Append(s, x)) = x
         /\ s # << >> => Last(s) = IF Tail(s) = << >> THEN Head(s) ELSE Last(Tail(s))
<1>1. Len(Append(s, x)) = Len(s) + 1 /\ Append(s, x)[Len(s) + 1] = x /\ Append(s, x) # << >> OBVIOUS
<1>2. ASSUME s # << >> PROVE Last(s) = IF Tail(s) = << >> THEN Head(s) ELSE Last(Tail(s))
  <2>1. Len(s) \in Nat /\ Len(s) > 0 /\ Len(Tail(s)) = Len(s) - 1 /\ Head(s) = s[1] BY <1>2
  <2>2. CASE Tail(s) = << >>
    <3>1. Len(<< >>) = 0 OBVIOUS
    <3>2. Len(s) - 1 = 0 BY <2>1, <2>2, <3>1
    <3>3. Len(s) = 1 BY <2>1, <3>2
    <3> QED BY <2>1, <2>2, <3>3 DEF Last
  <2>3. CASE Tail(s) # << >>
    <3>0. \A t \in Seq(S) : Len(t) = 0 => t = << >> OBVIOUS
    <3>a. Tail(s) \in Seq(S) BY <1>2
    <3>1. Tail(s) \in Seq(S) /\ Len(Tail(s)) # 0 BY <2>3, <3>0, <3>a
    <3>2. Tail(s)[Len(s) - 1] = s[Len(s)] BY <1>2, <2>1, <3>1
    <3> QED BY <2>1, <2>3, <3>2 DEF Last
  <2> QED BY <2>2, <2>3
<1> QED BY <1>1, <1>2 DEF Last

LEMMA ToldShows ==
  ASSUME HeldOK, NEW f \in Feeds, NEW line \in Lines[f]
  PROVE  /\ Shows(f, line, Told(f, line))
         /\ ~Recognized(line) => Shows(f, line, held[f])
<1>1. CASE f = "control"
  <2>1. Told(f, line) = [Overlay(line, held[f]) EXCEPT !.daemon_running = TRUE] BY <1>1 DEF Told
  <2>2. /\ IsDaemonState(held[f]) /\ IsDaemonState(Told(f, line))
        /\ DOMAIN Told(f, line) = DaemonFields /\ DOMAIN held[f] = DaemonFields
    BY <1>1, ToldOK, StateFields DEF HeldOK
  <2>3. "daemon_running" \notin DOMAIN line BY <1>1, ConstantsAssumption
  <2>4. Told(f, line).daemon_running = TRUE
    BY <2>1, <2>2 DEF Overlay, DaemonFields
  <2>5. \A k \in DaemonFields : k \in DOMAIN line => Told(f, line)[k] = line[k]
    BY <2>1, <2>2, <2>3 DEF Overlay
  <2>6. Overlay(line, Told(f, line)) = Told(f, line)
    <3>1. IsDaemonState(Overlay(line, Told(f, line))) BY <2>2, OverlayIsState
    <3>2. \A k \in DaemonFields : Overlay(line, Told(f, line))[k] = Told(f, line)[k]
      BY <2>2, <2>5 DEF Overlay
    <3> QED BY <2>2, <3>1, <3>2, SameState
  <2>7. ~Recognized(line) => Overlay(line, held[f]) = held[f]
    <3>1. IsDaemonState(Overlay(line, held[f])) BY <2>2, OverlayIsState
    <3>2. ~Recognized(line) => \A k \in DaemonFields : Overlay(line, held[f])[k] = held[f][k]
      BY <2>2 DEF Overlay, Recognized
    <3> QED BY <2>2, <3>1, <3>2, SameState
  <2> QED BY <2>4, <2>6, <2>7 DEF Shows
<1>2. CASE f = "auth"
  <2>1. Told(f, line) = Overlay(line, held[f]) BY <1>2 DEF Told
  <2>2. held[f] = [k \in {"credential"} |-> held[f][k]] BY <1>2 DEF HeldOK, IsCredential
  <2>3. Overlay(line, Told(f, line)) = Told(f, line) BY <2>1, <2>2 DEF Overlay
  <2>4. ~Recognized(line) => Overlay(line, held[f]) = held[f] BY <2>2 DEF Overlay, Recognized
  <2> QED BY <1>2, <2>3, <2>4 DEF Shows
<1> QED BY <1>1, <1>2 DEF Feeds

LEMMA DaemonCaughtUp == ASSUME IInv, CaughtUp, Daemon PROVE CaughtUp'
<1> USE DEF IInv
<1>1. held' = held BY DEF Daemon, StartDaemon, Die, Bind, Say, Crowd
<1>2. CASE StartDaemon \/ \E f \in Feeds : Crowd(f)
  BY <1>1, <1>2 DEF StartDaemon, Crowd, CaughtUp, Shows
<1>3. CASE Die
  <2>1. ASSUME NEW f \in Feeds PROVE ~conn'[f].open
    <3>1. conn'[f] = [conn[f] EXCEPT !.open = FALSE] /\ conn[f] \in Conns(Lines[f])
      BY <1>3 DEF Die, ConnsOK
    <3> QED BY <3>1, PeerDies
  <2> QED BY <2>1 DEF CaughtUp
<1>4. ASSUME NEW f \in Feeds, Bind(f) PROVE CaughtUp'
  <2>1. conn' = conn /\ ~conn[f].open BY <1>4 DEF Bind, ConnsOK
  <2>2. \A g \in Feeds \ {f} : says'[g] = says[g] BY <1>4 DEF Bind, DaemonOK
  <2> QED BY <1>1, <2>1, <2>2 DEF CaughtUp, Shows
<1>5. ASSUME NEW f \in Feeds, Say(f) PROVE CaughtUp'
  <2>1. PICK line \in Lines[f] :
          /\ says' = [says EXCEPT ![f] = line]
          /\ conn' = IF conn[f].open THEN [conn EXCEPT ![f].lines = Append(@, line)] ELSE conn
    BY <1>5 DEF Say
  <2>2. \A g \in Feeds \ {f} : says'[g] = says[g] /\ conn'[g] = conn[g] BY <2>1 DEF DaemonOK, ConnsOK
  <2>3. CASE ~conn[f].open
    <3>1. ~conn'[f].open BY <2>1, <2>3
    <3> QED BY <1>1, <2>2, <3>1 DEF CaughtUp, Shows
  <2>4. CASE conn[f].open
    <3>1. conn'[f] = [conn[f] EXCEPT !.lines = Append(@, line)] /\ conn[f] \in Conns(Lines[f])
      BY <2>1, <2>4 DEF ConnsOK
    <3>2. conn'[f].lines = Append(conn[f].lines, line) /\ conn[f].lines \in Seq(Lines[f])
      BY <3>1 DEF Conns
    <3>3. conn'[f].lines # << >> /\ Last(conn'[f].lines) = line BY <3>2, LastLine
    <3>4. says'[f] = line BY <2>1 DEF DaemonOK
    <3> QED BY <1>1, <2>2, <3>3, <3>4 DEF CaughtUp, Shows
  <2> QED BY <2>3, <2>4
<1> QED BY <1>2, <1>3, <1>4, <1>5 DEF Daemon

LEMMA ReadCaughtUp == ASSUME IInv, CaughtUp, NEW f \in Feeds, ReadLine(f) PROVE CaughtUp'
<1> USE DEF IInv
<1>1. /\ conn[f].lines # << >> /\ conn' = [conn EXCEPT ![f].lines = Tail(@)] /\ says' = says
  BY DEF ReadLine, daemonVars
<1>2. PICK line : line = Head(conn[f].lines) OBVIOUS
<1>3. conn[f] \in Conns(Lines[f]) /\ conn'[f] = [conn[f] EXCEPT !.lines = Tail(@)]
      /\ \A g \in Feeds \ {f} : conn'[g] = conn[g]
  BY <1>1 DEF ConnsOK
<1>4. /\ conn[f].lines \in Seq(Lines[f]) /\ conn'[f].lines = Tail(conn[f].lines)
      /\ conn'[f].open = conn[f].open
  BY <1>3 DEF Conns
<1>5. line \in Lines[f] BY <1>1, <1>2, <1>4
<1>6. \/ ~Recognized(line) /\ held' = held
      \/ Recognized(line) /\ held' = [held EXCEPT ![f] = Told(f, line)]
  BY <1>2 DEF ReadLine
<1>7. Shows(f, line, held'[f]) /\ \A g \in Feeds \ {f} : held'[g] = held[g]
  <2>1. DOMAIN held = Feeds BY DEF HeldOK
  <2>2. CASE Recognized(line)
    <3>1. held'[f] = Told(f, line) /\ \A g \in Feeds \ {f} : held'[g] = held[g] BY <1>6, <2>1, <2>2
    <3> QED BY <1>5, <3>1, ToldShows
  <2>3. CASE ~Recognized(line)
    <3>1. held' = held BY <1>6, <2>3
    <3> QED BY <1>5, <2>3, <3>1, ToldShows
  <2> QED BY <2>2, <2>3
<1>8. ASSUME conn'[f].open
      PROVE  IF conn'[f].lines = << >> THEN Shows(f, says'[f], held'[f]) ELSE Last(conn'[f].lines) = says'[f]
  <2>1. Last(conn[f].lines) = says[f] BY <1>1, <1>4, <1>8 DEF CaughtUp
  <2>2. Last(conn[f].lines) = IF conn'[f].lines = << >> THEN line ELSE Last(conn'[f].lines)
    BY <1>1, <1>2, <1>4, <1>5, LastLine
  <2> QED BY <1>1, <1>7, <2>1, <2>2
<1> QED BY <1>1, <1>3, <1>7, <1>8 DEF CaughtUp

LEMMA WatchCaughtUp == ASSUME IInv, CaughtUp, NEW f \in Feeds, Watch(f) PROVE CaughtUp'
<1> USE DEF IInv
<1>1. CASE Connect(f)
  <2>1. /\ says' = says /\ held' = held /\ \A g \in Feeds \ {f} : conn'[g] = conn[g]
        /\ conn'[f] = IF f \in serving \ full THEN [lines |-> <<says[f]>>, open |-> TRUE] ELSE Nowhere
    BY <1>1 DEF Connect, ConnsOK, daemonVars
  <2>2. conn'[f].open => conn'[f].lines = <<says[f]>> /\ <<says[f]>> # << >> /\ Last(<<says[f]>>) = says[f]
    BY <2>1 DEF Nowhere, Last
  <2> QED BY <2>1, <2>2 DEF CaughtUp, Shows
<1>2. CASE Wake(f) BY <1>2 DEF Wake, CaughtUp, Shows, daemonVars
<1>3. CASE HangUp(f)
  <2>1. /\ says' = says /\ conn' = conn /\ ~conn[f].open /\ \A g \in Feeds \ {f} : held'[g] = held[g]
    BY <1>3 DEF HangUp, Nowhere, HeldOK, daemonVars
  <2> QED BY <2>1 DEF CaughtUp, Shows
<1> QED BY <1>1, <1>2, <1>3, ReadCaughtUp DEF Watch

LEMMA CaughtUpStep == IInv /\ CaughtUp /\ [Next]_vars => CaughtUp'
<1> SUFFICES ASSUME IInv, CaughtUp, [Next]_vars PROVE CaughtUp' OBVIOUS
<1>1. CASE RestartService BY <1>1 DEF RestartService, CaughtUp, Nowhere
<1>2. CASE UNCHANGED vars BY <1>2 DEF vars, daemonVars, CaughtUp, Shows
<1> QED BY <1>1, <1>2, DaemonCaughtUp, WatchCaughtUp DEF Next
-----------------------------------------------------------------------------
(* The theorems.                                                            *)

\* What the loops hold is what the bus serves and a listener knows, and what
\* a loop without a connection that has spoken holds asserts nothing.
THEOREM Invariance == Spec => []IInv
<1>1. Init => IInv BY InitOK
<1>2. IInv /\ [Next]_vars => IInv' BY StepOK
<1> QED BY <1>1, <1>2, PTL DEF Spec

\* The types of the connections, of the retry delays and of what the bus serves.
THEOREM TypeCorrect == Spec => []TypeOK
<1>1. IInv => TypeOK BY TypeParts
<1> QED BY <1>1, Invariance, PTL

\* "Running" and a sign-in conclusion are on the bus only while the connection
\* over which the daemon said so lasts, however the two loops, the daemon and
\* restarts of the service interleave (watch_daemon, watch_credential).
THEOREM AssertsOnlyWhileTold == Spec => []AssertedOnlyWhileTold
<1>1. IInv => AssertedOnlyWhileTold
  <2> SUFFICES ASSUME IInv, NEW f \in Feeds, ~(at[f] = "reading" /\ spoke[f]) PROVE ~Asserts(f)
    BY DEF AssertedOnlyWhileTold
  <2>1. surface[f] = Forgotten(f) /\ HeldOK BY DEF IInv, SameInv, QuietInv
  <2>2. CASE f = "control"
    <3>1. surface[f].daemon_running = FALSE BY <2>1, <2>2, ForgottenOK
    <3> QED BY <2>2, <3>1 DEF Asserts
  <2>3. CASE f = "auth"
    <3>1. surface[f] = [credential |-> "unknown"] BY <2>1, <2>3, ForgottenOK, DefaultOK
    <3> QED BY <2>3, <3>1 DEF Asserts
  <2> QED BY <2>2, <2>3 DEF Feeds
<1> QED BY <1>1, Invariance, PTL

\* Who applies every signal knows every property, for every set of lines and
\* whichever fields they move: publish_state leaves no change unannounced.
THEOREM HeardServed == Spec => []HeardIsServed
<1>1. IInv => HeardIsServed BY DEF IInv, SameInv, HeardIsServed
<1> QED BY <1>1, Invariance, PTL

\* A loop sleeps the floor after a connection that spoke, and after the n-th
\* fruitless one in a row the floor doubled n - 1 times, at most the ceiling:
\* for every floor and ceiling (watch_daemon, watch_credential).
THEOREM Paced == Spec => []RetryPaced
<1>1. Init => PaceInv
  <2>1. Init => delay = InitialDelays /\ fruitless = Zero /\ \A f \in Feeds : at[f] = "idle"
    BY DEF Init
  <2> QED BY <2>1, StartsAtFloor
<1>2. IInv /\ PaceInv /\ [Next]_vars => PaceInv' BY PaceStep
<1>3. PaceInv => RetryPaced BY DEF PaceInv, RetryPaced
<1> QED BY <1>1, <1>2, <1>3, Invariance, PTL DEF Spec

\* While a connection is open and all it has brought is read, the bus shows what the
\* daemon says: of BusFollowsDaemon the part that does not depend on time.
NoLineLost == \A f \in Feeds : conn[f].open /\ conn[f].lines = << >> => Agrees(f)

\* Lines of both sockets, whatever they carry and however often the daemon dies,
\* crowds its sockets or says the next before the last is read (watch_once).
THEOREM NoLineIsLost == Spec => []NoLineLost
<1>1. Init => CaughtUp BY DEF Init, CaughtUp, Nowhere
<1>2. IInv /\ CaughtUp /\ [Next]_vars => CaughtUp' BY CaughtUpStep
<1>3. IInv /\ CaughtUp => NoLineLost
  BY DEF IInv, SameInv, CaughtUp, NoLineLost, Agrees, Asserts, Shows
<1> QED BY <1>1, <1>2, <1>3, Invariance, PTL DEF Spec

\* A connection that ends without a line leaves no trace on the bus.
THEOREM NoFlap == Spec => NeverFlaps
<1> DEFINE Quiet == \A f \in Feeds : surface'[f] # surface[f] => spoke'[f] \/ at'[f] = "idle"
<1>1. IInv /\ [Next]_vars => [Quiet]_vars
  <2> SUFFICES ASSUME IInv, Next PROVE Quiet OBVIOUS
  <2>1. CASE Daemon
    <3>1. surface' = surface BY <2>1 DEF Daemon, StartDaemon, Die, Bind, Say, Crowd, busVars
    <3> QED BY <3>1
  <2>2. ASSUME NEW f \in Feeds, Watch(f) PROVE Quiet
    <3>1. CASE Connect(f) \/ Wake(f)
      <4>1. surface' = surface BY <3>1 DEF Connect, Wake, busVars
      <4> QED BY <4>1
    <3>2. CASE ReadLine(f) BY <3>2, ReadLineOK
    <3>3. CASE HangUp(f) BY <3>3, HangUpOK
    <3> QED BY <2>2, <3>1, <3>2, <3>3 DEF Watch
  <2>3. CASE RestartService
    <3>1. \A f \in Feeds : at'[f] = "idle" BY <2>3 DEF RestartService
    <3> QED BY <3>1
  <2> QED BY <2>1, <2>2, <2>3 DEF Next
<1>2. IInv /\ [Next]_vars => [\A f \in Feeds : surface'[f] # surface[f]
                                               => spoke'[f] \/ at'[f] = "idle"]_vars
  BY <1>1
<1> QED BY <1>2, Invariance, PTL DEF Spec, NeverFlaps
=============================================================================
