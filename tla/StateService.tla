---------------------------- MODULE StateService ----------------------------
(***************************************************************************)
(* The two watch loops of the D-Bus state service: watch_daemon,           *)
(* watch_credential and the publish functions of dbus.rs, each loop on a   *)
(* thread of the binary.                                                   *)
(*                                                                         *)
(* A loop holds a watch connection to one socket of the daemon, publishes  *)
(* what it is told, and comes back after a while when the connection ends. *)
(* The loops share nothing but the served surface, whose write lock a      *)
(* publication holds.  The daemon is the environment: it starts and dies,  *)
(* binds its sockets one by one, says new lines, is full of other          *)
(* watchers.  Its auth socket is the one AuthState models.                 *)
(***************************************************************************)
EXTENDS ControlSurface, FiniteSets

CONSTANTS
  Lines,         \* [Feeds -> what a line may say]: partial states
  RETRY_FLOOR, RETRY_CEILING,
  MaxLives,      \* bound: starts of the daemon
  MaxSaid        \* bound: lines said after the first of a socket

Feeds == {"control", "auth"}

ASSUME ConstantsAssumption ==
  /\ RETRY_FLOOR \in Nat \ {0} /\ RETRY_CEILING \in Nat /\ RETRY_FLOOR <= RETRY_CEILING
  /\ {MaxLives, MaxSaid} \subseteq Nat
  /\ \A line \in Lines["control"] : DOMAIN line \subseteq DOMAIN DefaultState \ {"daemon_running"}
  /\ \A line \in Lines["auth"] : DOMAIN line \subseteq {"credential"}

VARIABLES
  lives,    \* starts of the daemon, so far
  up,       \* it runs
  serving,  \* the sockets it has bound
  full,     \* those with as many watchers as they take
  says,     \* the state line each would write
  said,     \* lines said, so far
  at,       \* where each watch loop is
  conn,     \* its connection: lines not read yet, and whether the peer lives
  held,     \* its `state`
  last,     \* its `last_published`
  spoke,    \* its `saw_state_line`
  delay,    \* its `delay`
  slept,    \* the delay it sleeps
  surface,  \* what the properties answer
  heard,    \* history: what a subscriber knows that only listens
  fruitless \* history: connections in a row that brought no line, capped

daemonVars == <<lives, up, serving, full, says, said>>
retryVars  == <<delay, slept, fruitless>>
busVars    == <<surface, heard>>
vars == <<daemonVars, at, conn, held, last, spoke, retryVars, busVars>>

Default == [f \in Feeds |-> IF f = "control" THEN DefaultState ELSE [credential |-> "unknown"]]
Nowhere == [lines |-> <<>>, open |-> FALSE]
InitialDelays == [f \in Feeds |-> RETRY_FLOOR]
Zero == [f \in Feeds |-> 0]

Init ==
  /\ lives = 0 /\ up = FALSE /\ serving = {} /\ full = {} /\ said = 0
  /\ says = [f \in Feeds |-> <<>>]
  /\ at = [f \in Feeds |-> "idle"] /\ conn = [f \in Feeds |-> Nowhere]
  /\ spoke = [f \in Feeds |-> FALSE]
  /\ held = Default /\ last = Default /\ surface = Default /\ heard = Default
  /\ delay = InitialDelays /\ slept = Zero /\ fruitless = Zero
-----------------------------------------------------------------------------
(* The daemon.                                                              *)

StartDaemon ==
  /\ ~up /\ lives < MaxLives /\ up' = TRUE /\ lives' = lives + 1
  /\ UNCHANGED <<serving, full, says, said, at, conn, held, last, spoke, retryVars, busVars>>

\* Each socket is bound by a thread of its own; one that cannot be is done without.
Bind(f) ==
  /\ up /\ f \notin serving /\ serving' = serving \cup {f}
  /\ \E line \in Lines[f] : says' = [says EXCEPT ![f] = line]
  /\ UNCHANGED <<lives, up, full, said, at, conn, held, last, spoke, retryVars, busVars>>

\* Its sockets close with it; lines it has written can still be read.
Die ==
  /\ up /\ up' = FALSE /\ serving' = {} /\ full' = {}
  /\ conn' = [f \in Feeds |-> [conn[f] EXCEPT !.open = FALSE]]
  /\ UNCHANGED <<lives, says, said, at, held, last, spoke, retryVars, busVars>>

\* A new line, written to the watcher.
Say(f) ==
  /\ f \in serving /\ said < MaxSaid /\ said' = said + 1
  /\ \E line \in Lines[f] \ {says[f]} :
       /\ says' = [says EXCEPT ![f] = line]
       /\ conn' = IF conn[f].open
                  THEN [conn EXCEPT ![f].lines = Append(@, line)] ELSE conn
  /\ UNCHANGED <<lives, up, serving, full, at, held, last, spoke, retryVars, busVars>>

\* Other watchers come or go.
Crowd(f) ==
  /\ f \in serving /\ full' = (full \ {f}) \cup ({f} \ full)
  /\ UNCHANGED <<lives, up, serving, says, said, at, conn, held, last, spoke, retryVars, busVars>>
-----------------------------------------------------------------------------
(* watch_daemon and watch_credential: one loop per feed.                    *)

PublishFlagOnly(f, state) ==                                       \* mutant
  IF state = last[f] \/ (f = "control" /\ state.daemon_running = last[f].daemon_running)
  THEN UNCHANGED <<last, busVars>>
  ELSE /\ last' = [last EXCEPT ![f] = state]
       /\ surface' = [surface EXCEPT ![f] = state]
       /\ heard' = [heard EXCEPT ![f] =
            IF f = "control" THEN Hear(@, StateSignals(surface[f], state)) ELSE state]
\* publish_distinct, and with it publish_state or publish_credential.
PublishDistinct(f, state) ==
  IF state = last[f] THEN UNCHANGED <<last, busVars>>
  ELSE /\ last' = [last EXCEPT ![f] = state]
       /\ surface' = [surface EXCEPT ![f] = state]
       /\ heard' = [heard EXCEPT ![f] =
            IF f = "control" THEN Hear(@, StateSignals(surface[f], state)) ELSE state]

\* A connect fails, or is accepted and closed without a line because the
\* socket is full; or the watcher is adopted and told the state at once.
Connect(f) ==
  /\ at[f] = "idle" /\ at' = [at EXCEPT ![f] = "reading"]
  /\ spoke' = [spoke EXCEPT ![f] = FALSE]
  /\ conn' = [conn EXCEPT ![f] = IF f \in serving \ full
                                 THEN [lines |-> <<says[f]>>, open |-> TRUE] ELSE Nowhere]
  /\ UNCHANGED <<daemonVars, held, last, retryVars, busVars>>

Told(f, line) ==
  LET state == Overlay(line, held[f])
  IN IF f = "control" THEN [state EXCEPT !.daemon_running = TRUE] ELSE state

\* mutant: the daemon runs from the connect on, whatever the line says
ReadAny(f) ==
  /\ at[f] = "reading" /\ conn[f].lines # <<>>
  /\ conn' = [conn EXCEPT ![f].lines = Tail(@)]
  /\ held' = [held EXCEPT ![f] = Told(f, Head(conn[f].lines))]
  /\ PublishDistinct(f, Told(f, Head(conn[f].lines)))
  /\ spoke' = [spoke EXCEPT ![f] = @ \/ Recognized(Head(conn[f].lines))]
  /\ UNCHANGED <<daemonVars, at, retryVars>>
ReadLine(f) ==
  /\ at[f] = "reading" /\ conn[f].lines # <<>>
  /\ conn' = [conn EXCEPT ![f].lines = Tail(@)]
  /\ LET line == Head(conn[f].lines)
     IN \/ /\ Recognized(line) /\ spoke' = [spoke EXCEPT ![f] = TRUE]
           /\ held' = [held EXCEPT ![f] = Told(f, line)] /\ PublishDistinct(f, Told(f, line))
        \/ ~Recognized(line) /\ UNCHANGED <<held, last, spoke, busVars>>
  /\ UNCHANGED <<daemonVars, at, retryVars>>

Smaller(m, n) == IF m < n THEN m ELSE n

\* mutant: the delay is doubled before the sleep
RetryDoubled(f) ==
  LET next == IF spoke[f] THEN RETRY_FLOOR ELSE Smaller(RETRY_CEILING, 2 * delay[f])
  IN /\ slept' = [slept EXCEPT ![f] = next] /\ delay' = [delay EXCEPT ![f] = next]
     /\ fruitless' = [fruitless EXCEPT ![f] = IF spoke[f] THEN 0 ELSE Smaller(RETRY_CEILING, @ + 1)]
\* The loop sleeps: after a connection that spoke for the floor, after any
\* other for twice as long as the last time, up to the ceiling.
Retry(f) ==
  /\ slept' = [slept EXCEPT ![f] = IF spoke[f] THEN RETRY_FLOOR ELSE delay[f]]
  /\ delay' = [delay EXCEPT ![f] = IF spoke[f] THEN RETRY_FLOOR ELSE Smaller(RETRY_CEILING, 2 * @)]
  /\ fruitless' = [fruitless EXCEPT ![f] = IF spoke[f] THEN 0 ELSE Smaller(RETRY_CEILING, @ + 1)]

\* End of file: counters are held, the flag and the sign-in conclusion are not.
Forgotten(f) ==
  IF f = "control" THEN [held[f] EXCEPT !.daemon_running = FALSE] ELSE Default[f]
HangUpQuietly(f) ==                                                \* mutant
  /\ at[f] = "reading" /\ conn[f] = Nowhere
  /\ held' = [held EXCEPT ![f] = Forgotten(f)] /\ UNCHANGED <<last, busVars>>
  /\ Retry(f) /\ at' = [at EXCEPT ![f] = "asleep"]
  /\ UNCHANGED <<daemonVars, conn, spoke>>
HangUp(f) ==
  /\ at[f] = "reading" /\ conn[f] = Nowhere
  /\ held' = [held EXCEPT ![f] = Forgotten(f)] /\ PublishDistinct(f, Forgotten(f))
  /\ Retry(f) /\ at' = [at EXCEPT ![f] = "asleep"]
  /\ UNCHANGED <<daemonVars, conn, spoke>>

Wake(f) ==
  /\ at[f] = "asleep" /\ at' = [at EXCEPT ![f] = "idle"]
  /\ UNCHANGED <<daemonVars, conn, held, last, spoke, retryVars, busVars>>

\* The service ends and is started again; subscribers read the new one.
RestartService ==
  /\ at' = [f \in Feeds |-> "idle"] /\ conn' = [f \in Feeds |-> Nowhere]
  /\ spoke' = [f \in Feeds |-> FALSE]
  /\ held' = Default /\ last' = Default /\ surface' = Default /\ heard' = Default
  /\ delay' = InitialDelays /\ slept' = Zero /\ fruitless' = Zero
  /\ UNCHANGED daemonVars
-----------------------------------------------------------------------------
Daemon == StartDaemon \/ Die \/ \E f \in Feeds : Bind(f) \/ Say(f) \/ Crowd(f)
Watch(f) == Connect(f) \/ ReadLine(f) \/ HangUp(f) \/ Wake(f)
Next == Daemon \/ (\E f \in Feeds : Watch(f)) \/ RestartService

Spec == Init /\ [][Next]_vars

\* The threads run and their sleeps end, and the service does not end for ever
\* again.  Nothing is assumed of the daemon.
FairSpec ==
  Spec /\ (\A f \in Feeds : WF_vars(Watch(f))) /\ <>[][~RestartService]_vars
-----------------------------------------------------------------------------
TypeOK ==
  /\ lives \in 0..MaxLives /\ up \in BOOLEAN /\ said \in 0..MaxSaid
  /\ serving \subseteq Feeds /\ full \subseteq serving /\ (serving # {} => up)
  /\ \A f \in Feeds :
       /\ says[f] \in Lines[f] \cup {<<>>}
       /\ at[f] \in {"idle", "reading", "asleep"} /\ spoke[f] \in BOOLEAN
       /\ conn[f].lines \in Seq(Lines[f]) /\ (conn[f].open => f \in serving /\ at[f] = "reading")
       /\ delay[f] \in RETRY_FLOOR..RETRY_CEILING /\ slept[f] \in 0..RETRY_CEILING
       /\ fruitless[f] \in 0..RETRY_CEILING
       /\ \A state \in {held[f], last[f], surface[f], heard[f]} : DOMAIN state = DOMAIN Default[f]

Asserts(f) == IF f = "control" THEN surface[f].daemon_running
              ELSE surface[f].credential # "unknown"

\* "Running" and a sign-in conclusion are asserted only while the connection
\* over which the daemon said so has not ended: publish_distinct after
\* watch_once, and the reset of watch_credential.
AssertedOnlyWhileTold ==
  \A f \in Feeds : Asserts(f) => at[f] = "reading" /\ spoke[f]

\* "carrying the same values as the properties so a subscriber never needs a
\* follow-up read" (state_changed and its siblings): who applies every signal
\* knows every property, whichever fields a step of the state moved.
HeardIsServed == heard = surface

\* A connection that brings no line, like that to a daemon with too many
\* watchers, leaves no trace on the bus (watch_once decides "running" by the
\* first state line).  A service that begins again is another matter.
NeverFlaps ==
  [][\A f \in Feeds : surface'[f] # surface[f] => spoke'[f] \/ at'[f] = "idle"]_vars

\* A delay doubled n times.
Doubled[n \in Nat] == IF n = 0 THEN RETRY_FLOOR ELSE 2 * Doubled[n - 1]

\* The sleep after the n-th fruitless connection in a row is the floor doubled
\* n - 1 times, at most the ceiling; one line and the count starts again.
RetryPaced ==
  \A f \in Feeds : at[f] = "asleep" =>
    slept[f] = Smaller(RETRY_CEILING, Doubled[IF fruitless[f] = 0 THEN 0 ELSE fruitless[f] - 1])

Agrees(f) == /\ Overlay(says[f], surface[f]) = surface[f]
             /\ f = "control" /\ Recognized(says[f]) => Asserts(f)

\* While a socket stays bound and takes watchers, the bus comes to show what
\* the daemon says; once it stays unbound, the bus comes to assert nothing.
BusFollowsDaemon ==
  \A f \in Feeds : /\ <>[](f \in serving \ full) => <>[]Agrees(f)
                   /\ <>[](f \notin serving) => <>[]~Asserts(f)
=============================================================================
