---------------------------- MODULE MCAuthState ----------------------------
(* A small instance of AuthState for TLC.                                   *)
EXTENDS AuthState

WatchAndRestart == {<<"watch">>, <<"enrollment-complete">>}
=============================================================================
