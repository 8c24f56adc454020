------------------------------- MODULE MCTray -------------------------------
(* A small instance of Tray for TLC: a daemon that stopped amid a transfer,  *)
(* one with a transfer and nothing queued, one that is exposed.              *)
EXTENDS Tray

State(partial) == Overlay(partial, DefaultState)
MCStates == {State([unsent |-> 1, exposures |-> 1]),
             State([daemon_running |-> TRUE, downloading |-> 1]),
             State([daemon_running |-> TRUE, unsent |-> 1, exposures |-> 1])}
MCDesktops == {[NoDesktop EXCEPT !.paused = TRUE, !.excluded_folders = 1]}
=============================================================================
