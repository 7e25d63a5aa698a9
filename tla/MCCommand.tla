------------------------------- MODULE MCCommand -------------------------------
(* Command on a small instance: see the configuration. *)
EXTENDS Command
=============================================================================
