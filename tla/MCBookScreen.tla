---------------------------- MODULE MCBookScreen ----------------------------
(* An instance of BookScreen for TLC: its constants are given in the .cfg. *)
EXTENDS BookScreen
=============================================================================
