------------------------------ MODULE MCFlyout ------------------------------
(* A small instance of Flyout for TLC. *)
EXTENDS Flyout
=============================================================================
