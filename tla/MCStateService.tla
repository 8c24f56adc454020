--------------------------- MODULE MCStateService ---------------------------
(* A small instance of StateService for TLC: control lines that lack a key or *)
(* carry an activity, auth lines with a word of the wire or another one, and  *)
(* lines with nothing this build knows.                                       *)
EXTENDS StateService

MCLines == [f \in Feeds |->
  IF f = "control" THEN {[unsent |-> 1], [unsent |-> 0, downloading |-> 1], <<>>}
  ELSE {[credential |-> "rejected"], <<>>}]
=============================================================================
