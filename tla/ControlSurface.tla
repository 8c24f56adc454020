--------------------------- MODULE ControlSurface ---------------------------
(***************************************************************************)
(* What the state service serves on the session bus and how it announces   *)
(* a change of it: DaemonState, apply_state_line and the signals of        *)
(* publish_state in dbus.rs.  StateService publishes with these operators  *)
(* and Tray receives with them.                                            *)
(*                                                                         *)
(* A line of a socket, and the arguments of a signal, are a partial state: *)
(* a record of the fields they carry.  Of a line those are the keys this   *)
(* build knows with values it can parse; the others are skipped.           *)
(***************************************************************************)
EXTENDS Naturals, Sequences, SequencesExt

DefaultState == [daemon_running |-> FALSE, unsent |-> 0, excluded |-> 0,
                 exposures |-> 0, downloading |-> 0, indexing |-> FALSE,
                 uploading |-> {}]

\* A field that is not carried keeps its value.
Overlay(partial, state) ==
  [k \in DOMAIN state |-> IF k \in DOMAIN partial THEN partial[k] ELSE state[k]]

Recognized(line) == DOMAIN line # {}

\* StateChanged has four arguments for good; each activity has its own signal.
StateChangedFields == {"daemon_running", "unsent", "excluded", "exposures"}

Signal(member, fields, state) == [member |-> member, args |-> [k \in fields |-> state[k]]]

Announce(member, field, old, new) ==
  IF old[field] = new[field] THEN <<>> ELSE <<Signal(member, {field}, new)>>
Announcements(old, new) == Announce("DownloadChanged", "downloading", old, new)
                           \o Announce("IndexingChanged", "indexing", old, new)
                           \o Announce("ActiveUploadsChanged", "uploading", old, new)

\* mutant: a moved counter is taken to be all that moved
SignalsOfOneKind(old, new) ==
  <<Signal("StateChanged", StateChangedFields, new)>>
    \o IF new.unsent = old.unsent THEN Announcements(old, new) ELSE <<>>
\* publish_state: the signals for a step from old to new, in their order.
StateSignals(old, new) ==
  <<Signal("StateChanged", StateChangedFields, new)>> \o Announcements(old, new)

\* What a subscriber knows that applies signals to what it knew, in their
\* order: of each field what the last signal says that carries it.
Hear(known, signals) ==
  [k \in DOMAIN known |->
     LET carrying == {i \in DOMAIN signals : k \in DOMAIN signals[i].args}
     IN IF carrying = {} THEN known[k] ELSE signals[Max(carrying)].args[k]]
=============================================================================
