------------------------------- MODULE Evidence -------------------------------
(***************************************************************************)
(* What a policy run may conclude from what it captured: the evaluator     *)
(* (src/internal/evaluator/evaluator.go) with the evidence requirements of *)
(* a real execution, and the report's status and exit code                 *)
(* (src/internal/report/report.go).                                        *)
(*                                                                         *)
(* For a signal whose output is reliable the capture is complete.  For an  *)
(* unreliable one the captured output is only a part of what the pipeline  *)
(* would still export, so here it grows, one record per step, and every    *)
(* state is an output some run could have evaluated.  The question is      *)
(* which verdicts survive that growth.                                     *)
(*                                                                         *)
(* A record carries just what the checks ask of it:                        *)
(*   signal, forbidden (it matches a forbidden key, value, body or name),  *)
(*   required (it has every required resource attribute), and              *)
(*   spans: error (status code ERROR), key (trace id and span id);         *)
(*   metrics: key (the name), series (resource and labels; "none" for a    *)
(*   metric without a datapoint).                                          *)
(***************************************************************************)
EXTENDS Naturals, FiniteSets

CONSTANTS
  Records,    \* every record a pipeline may export
  Inputs,     \* the fixtures: sets of records
  Policies,   \* the policies: sets of checks
  MaxSeries   \* max_series_per_metric, for the policies that assert it

Signals == {"logs", "traces", "metrics"}
Checks  == (Signals \X {"forbidden", "required"})
             \cup {<<"traces", "preserve">>, <<"metrics", "series">>}

ASSUME EvidenceAssumption ==
  /\ IsFiniteSet(Records)
  /\ \A i \in Inputs : i \subseteq Records
  /\ \A p \in Policies : p \subseteq Checks /\ p # {}
  /\ MaxSeries \in Nat \ {0}

VARIABLES
  input,        \* the normalized fixture
  output,       \* the captured telemetry
  policy,       \* the asserted checks
  broken,       \* a forbidden pattern of the policy does not compile
  real,         \* the runner is otelcol: RequireApplicableInput
  unreliable,   \* the signals with a reason in UnreliableSignals
  warned,       \* the runner gave a warning
  runFailed,    \* the runner returned an error
  failOnWarn    \* --fail-on-warn

setting == <<input, policy, broken, real, unreliable, warned, runFailed, failOnWarn>>
vars    == <<output, setting>>

-----------------------------------------------------------------------------
(* The checks                                                              *)

Of(signal, S) == {r \in S : r.signal = signal}

errorSpans(S) == {r.key : r \in {s \in Of("traces", S) : s.error}}

UniqueSeriesKeys(name, S) ==
  {r.series : r \in {m \in Of("metrics", S) : m.key = name /\ m.series # "none"}}

\* The four checks as pass or fail, with no regard to evidence.  A pattern that
\* does not compile fails the check; so does the absence of every record.
hasForbidden(signal, out) == broken \/ \E r \in Of(signal, out) : r.forbidden

lacksRequired(signal, out) == Of(signal, out) = {} \/ \E r \in Of(signal, out) : ~r.required

losesErrors(out) == ~(errorSpans(input) \subseteq errorSpans(out))

exceedsSeries(out) ==
  \E r \in Of("metrics", out) : Cardinality(UniqueSeriesKeys(r.key, out)) > MaxSeries

fails(c, out) ==
  \/ c[2] = "forbidden" /\ hasForbidden(c[1], out)
  \/ c[2] = "required" /\ lacksRequired(c[1], out)
  \/ c[2] = "preserve" /\ losesErrors(out)
  \/ c[2] = "series" /\ exceedsSeries(out)

\* The fixture has nothing the check is about.
notApplicable(c) ==
  \/ {r \in Of(c[1], input) : c[1] = "metrics" => r.series # "none"} = {}
  \/ c[2] = "preserve" /\ errorSpans(input) = {}

\* Mutant of doubted: UnreliableSignals is not looked at.
doubtedFixtureOnly(c) == real /\ notApplicable(c)

\* There is a reason to doubt the check's plain result.
doubted(c) == (real /\ notApplicable(c)) \/ c[1] \in unreliable

\* Mutant of conclusiveObservation: no output at all fails "required".
conclusiveOnNothing(c, out) ==
  \/ c[2] = "preserve" /\ ~fails(c, out) /\ errorSpans(input) # {}
  \/ c[2] # "preserve" /\ fails(c, out)

conclusiveObservation(c, out) ==
  \/ c[2] = "preserve" /\ ~fails(c, out) /\ errorSpans(input) # {}
  \/ c[2] \in {"forbidden", "series"} /\ fails(c, out)
  \/ c[2] = "required" /\ fails(c, out) /\ Of(c[1], out) # {}

verdict(c, out) ==
  IF doubted(c) /\ ~conclusiveObservation(c, out) THEN "INCONCLUSIVE"
  ELSE IF fails(c, out) THEN "FAIL"
  ELSE "PASS"

-----------------------------------------------------------------------------
(* The report.  Its counts are only ever compared with zero, so the set of *)
(* the statuses that occur stands for them.                                *)

statuses(out) ==
  IF runFailed THEN {"ERROR"}
  ELSE {verdict(c, out) : c \in policy} \cup (IF warned THEN {"WARN"} ELSE {})

OverallStatus(S) ==
  IF "ERROR" \in S THEN "ERROR"
  ELSE IF "FAIL" \in S THEN "FAIL"
  ELSE IF "INCONCLUSIVE" \in S THEN "INCONCLUSIVE"
  ELSE IF "WARN" \in S /\ ~real THEN "WARN"
  ELSE "PASS"

\* Mutant of ExitCode: doubt before failure.
ExitCodeDoubtFirst(S) ==
  IF OverallStatus(S) = "ERROR" THEN 3
  ELSE IF "INCONCLUSIVE" \in S THEN 4
  ELSE IF "FAIL" \in S \/ (failOnWarn /\ "WARN" \in S) THEN 1
  ELSE 0

ExitCode(S) ==
  IF OverallStatus(S) = "ERROR" THEN 3
  ELSE IF "FAIL" \in S THEN 1
  ELSE IF OverallStatus(S) = "INCONCLUSIVE" THEN 4
  ELSE IF failOnWarn /\ "WARN" \in S THEN 1
  ELSE 0

exit == ExitCode(statuses(output))

-----------------------------------------------------------------------------
\* Any fixture and policy, any complete output of the reliable signals, and
\* nothing yet of the others.  Only a real execution can be unreliable; a
\* failed one evaluates nothing.
Init ==
  /\ input \in Inputs /\ policy \in Policies /\ broken \in BOOLEAN
  /\ real \in BOOLEAN
  /\ unreliable \in IF real THEN SUBSET Signals ELSE {{}}
  /\ output \in SUBSET {r \in Records : r.signal \notin unreliable}
  /\ warned \in BOOLEAN /\ runFailed \in BOOLEAN /\ failOnWarn \in BOOLEAN

\* A record the pipeline still owed.
Arrive(r) ==
  /\ r.signal \in unreliable /\ r \notin output
  /\ output' = output \cup {r}
  /\ UNCHANGED setting

Next == \E r \in Records : Arrive(r)

Spec == Init /\ [][Next]_vars

-----------------------------------------------------------------------------
(* Properties *)

\* A PASS or a FAIL that a run reports is what it would have reported of any
\* longer capture: an observed violation cannot be disproved, and no absence
\* is concluded from an output that may be incomplete.
VerdictsAreFinal ==
  [][\A c \in policy :
       verdict(c, output) # "INCONCLUSIVE" => verdict(c, output') = verdict(c, output)]_vars

\* The CI gate is final in the same sense: every exit code but 4 (and so a 0
\* above all) would be the same on a longer capture.
GateIsFinal == [][exit # 4 => exit' = exit]_vars

\* The outcome table of docs/real-collector-runner.md: 0 only if every
\* asserted check passed, 4 only if none failed, an error before all else.
ExitMeaning ==
  /\ exit = 3 <=> runFailed
  /\ exit = 0 => \A c \in policy : verdict(c, output) = "PASS"
  /\ exit = 4 => \A c \in policy : verdict(c, output) # "FAIL"
  /\ OverallStatus(statuses(output)) = "FAIL" => exit = 1
  /\ exit = 0 => OverallStatus(statuses(output)) \in {"PASS", "WARN"}
=============================================================================
