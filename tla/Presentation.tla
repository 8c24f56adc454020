---------------------------- MODULE Presentation ----------------------------
(***************************************************************************)
(* What the panel shows for what the tray knows: present and               *)
(* present_with_desktop of tray.rs, and the menu items made from it.       *)
(*                                                                         *)
(* A text is the name of its sentence with the number in it, a detail the  *)
(* set of its sentences; an optional row is a sequence of at most one.     *)
(* What the tray knows is a record: whether the service is on the bus, the *)
(* DaemonState it read or heard, the credential and the desktop state.     *)
(***************************************************************************)
EXTENDS ControlSurface, FiniteSets

NoDesktop == [paused |-> FALSE, issues |-> 0, excluded_folders |-> 0, resolving |-> FALSE]

Nothing == [known |-> FALSE, state |-> DefaultState, credential |-> "unknown",
            desktop |-> NoDesktop]

Running(view) == view.known /\ view.state.daemon_running
\* mutant: an empty queue is taken for idleness
ActiveQueue(view) == view.state.unsent > 0 /\ (view.state.downloading > 0 \/ view.state.uploading # {})
Active(view) == view.state.downloading > 0 \/ view.state.indexing \/ view.state.uploading # {}

Option(shown, value) == IF shown THEN <<value>> ELSE <<>>
Sentence(name, n) == IF n > 0 THEN {<<name, n>>} ELSE {}

\* store_caveat: unlock the keyring to stay signed in.
Caveat(credential) == IF credential = "unsaved" THEN {<<"caveat", 0>>} ELSE {}
OfferSignIn(view) == Running(view) /\ view.credential = "rejected"

\* The rows under the headline: only of a running daemon, whatever the headline.
Rows(view) ==
  LET s == view.state
  IN [placeholders |-> Option(Running(view), s.excluded),
      downloading  |-> Option(Running(view) /\ s.downloading > 0, s.downloading),
      indexing     |-> Running(view) /\ s.indexing,
      uploading    |-> Option(Running(view) /\ s.uploading # {},
                              IF Cardinality(s.uploading) = 1 THEN [name |-> s.uploading]
                              ELSE [count |-> Cardinality(s.uploading)]),
      offer_sign_in |-> OfferSignIn(view)]

ActivityHeadline(s) ==
  LET sent == Cardinality(s.uploading)
  IN IF sent > 0 /\ s.downloading > 0 THEN <<"syncing", 0>>
     ELSE IF sent > 0 THEN <<"uploading", sent>>
     ELSE IF s.downloading > 0 THEN <<"downloading", s.downloading>>
     ELSE <<"checking", 0>>

Exposed(view) == view.state.exposures > 0

\* The most urgent knowledge decides.
Present(view) ==
  LET s == view.state
      caveat == Caveat(view.credential)
      waiting == Sentence("waiting", s.unsent)
      Show(icon, status, headline, detail) ==
        [icon |-> icon, status |-> status, headline |-> headline, detail |-> detail,
         rows |-> Rows(view)]
  IN IF ~view.known THEN Show("stopped", "Active", <<"unavailable", 0>>, {})
     ELSE IF ~s.daemon_running
     THEN Show("stopped", "Active", <<"stopped", 0>>, Sentence("exposed before", s.exposures))
     ELSE IF Exposed(view)
     THEN Show("exposed", "NeedsAttention", <<"exposed", 0>>, waiting \cup caveat)
     ELSE IF view.credential = "rejected"
     THEN Show("stopped", "NeedsAttention", <<"sign-in", 0>>, waiting)
     ELSE IF Active(view) THEN Show("syncing", "Active", ActivityHeadline(s), caveat)
     ELSE IF s.unsent > 0
     THEN Show("unsent", "Active", <<"waiting", s.unsent>>,
               waiting \cup Sentence("online only", s.excluded) \cup caveat)
     ELSE Show("synced", "Active", <<"up to date", 0>>, caveat)

\* The desktop state speaks only where nothing more urgent does.
DesktopSpeaks(view) ==
  LET d == view.desktop
  IN /\ d.paused \/ d.issues > 0 \/ d.resolving
     /\ Running(view) /\ ~Exposed(view) /\ view.credential # "rejected"

PresentWithDesktop(view) ==
  LET base == Present(view)
      d == view.desktop
      detailed == IF base.headline = <<"up to date", 0>> /\ d.excluded_folders > 0
                  THEN [base EXCEPT !.detail = {<<"folders not synced", d.excluded_folders>>}]
                  ELSE base
  IN IF ~DesktopSpeaks(view) THEN detailed
     ELSE IF d.resolving
     THEN [base EXCEPT !.icon = "syncing", !.status = "Active",
             !.headline = <<"resolving", 0>>, !.detail = {<<"copies kept", 0>>}]
     ELSE IF d.issues > 0
     THEN [base EXCEPT !.icon = "unsent", !.status = "NeedsAttention",
             !.headline = <<"attention", 0>>, !.detail = {<<"review", d.issues>>}]
     ELSE [base EXCEPT !.icon = "stopped",
             !.headline = <<IF Active(view) THEN "pausing" ELSE "paused", 0>>,
             !.detail = {<<"background paused", 0>>}]

\* The menu items that a presentation moves; menu_item_properties of each.
MenuItems(p) == [status |-> p.headline, placeholders |-> p.rows.placeholders,
                 downloading |-> p.rows.downloading, indexing |-> p.rows.indexing,
                 uploads |-> p.rows.uploading, sign_in |-> p.rows.offer_sign_in]
=============================================================================
