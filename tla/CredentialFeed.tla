--------------------------- MODULE CredentialFeed ---------------------------
(***************************************************************************)
(* What the auth socket promises a watcher: it is told a state when it     *)
(* joins; from then on it is owed a line whenever the state it was told    *)
(* may not be the latest; a line it is owed carries the latest state; and  *)
(* no line is owed forever.  A watcher that is owed nothing knows the      *)
(* latest state.  How threads, locks and sockets achieve this is           *)
(* AuthState's business.                                                   *)
(***************************************************************************)
CONSTANTS Conns, States, Nothing

VARIABLES
  latest,  \* the state the daemon asserts
  told,    \* the last state each watcher was told; Nothing: not a watcher
  owed     \* the watchers a line is on its way to

feed == <<latest, told, owed>>

Watchers == {c \in Conns : told[c] # Nothing}

Init == latest \in States /\ told = [c \in Conns |-> Nothing] /\ owed = {}

\* A new state; every watcher is owed it.
Change(s) ==
  /\ owed = {} /\ latest' = s /\ owed' = Watchers
  /\ UNCHANGED told

\* A watcher joins.  If a change is under way it may be told the state before
\* it, and is then owed the change like everybody else.
Join(c, s) ==
  /\ told[c] = Nothing /\ told' = [told EXCEPT ![c] = s]
  /\ owed' \in {owed, owed \cup {c}} /\ (s # latest => c \in owed')
  /\ UNCHANGED latest

Deliver(c) ==
  /\ c \in owed /\ owed' = owed \ {c}
  /\ told' = [told EXCEPT ![c] = latest]
  /\ UNCHANGED latest

\* Watchers whose peer hung up are forgotten.
Forget(C) ==
  /\ told' = [c \in Conns |-> IF c \in C THEN Nothing ELSE told[c]]
  /\ owed' = owed \ C
  /\ UNCHANGED latest

\* The daemon ends: every watcher is let go.  A new process asserts afresh.
Restart == told' = [c \in Conns |-> Nothing] /\ owed' = {} /\ latest' \in States

Next == \/ \E s \in States : Change(s)
        \/ \E c \in Conns, s \in States : Join(c, s)
        \/ \E c \in Conns : Deliver(c)
        \/ \E C \in SUBSET Watchers : Forget(C)
        \/ Restart

Served(c) == c \in owed ~> c \notin owed

Spec == Init /\ [][Next]_feed /\ \A c \in Conns : Served(c)

Safety == Init /\ [][Next]_feed
=============================================================================
