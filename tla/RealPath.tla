------------------------------- MODULE RealPath -------------------------------
(***************************************************************************)
(* The data path of a real run: the topology decides which pipelines the   *)
(* harness has, the fixture goes through them, and the exports are put     *)
(* into their canonical form.  The processors here let everything through, *)
(* in batches of their own making, so that any difference between the      *)
(* fixture and the captured telemetry is one the runner itself has made.   *)
(***************************************************************************)
EXTENDS HarnessTopology, CapturedTelemetry

CONSTANT Cases    \* pairs of a configuration and a fixture

ASSUME CasesAssumption ==
  \A case \in Cases : IsConfiguration(case[1]) /\ IsFixture(case[2])

vars == <<topologyVars, telemetryVars>>

Init ==
  /\ \E case \in Cases : source = case[1] /\ fixture = case[2]
  /\ populated = (IF fixture.logs # <<>> THEN {"logs"} ELSE {})
                   \cup (IF fixture.spans # <<>> THEN {"traces"} ELSE {})
                   \cup (IF fixture.metrics # <<>> THEN {"metrics"} ELSE {})
  /\ InitTopology /\ InitCapture

activeSignals == {active[i].signal : i \in DOMAIN active}

Parse   == ParseTopology /\ UNCHANGED telemetryVars
Deliver == pc = "accepted" /\ Export(activeSignals) /\ UNCHANGED topologyVars

Next == Parse \/ Deliver
Spec == Init /\ [][Next]_vars

\* Pipelines that change nothing are seen to change nothing: once everything
\* was exported, in whatever order and pieces, the canonical output equals
\* the canonical input, and no signal of the fixture was left out.
PassThroughIsIdentity ==
  (pc = "accepted" /\ \A x \in owed : x[1] \notin activeSignals)
    => Canonicalize(captured) = Canonicalize(fixture)
=============================================================================
