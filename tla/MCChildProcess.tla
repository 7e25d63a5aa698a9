---------------------------- MODULE MCChildProcess ----------------------------
(* ChildProcess with one or two descendants: see the configurations. *)
EXTENDS ChildProcess
=============================================================================
