---------------------------- MODULE MCCollectorRun ----------------------------
(* CollectorRun on small instances: see the configurations. *)
EXTENDS CollectorRun
=============================================================================
