---------------------------- MODULE EvidenceProofs ----------------------------
(***************************************************************************)
(* The verdicts of the evaluator are final for every universe of records,  *)
(* every fixture, every policy and every limit.                            *)
(***************************************************************************)
EXTENDS Evidence, FiniteSetTheorems, TLAPS

\* The captured output is always a part of a finite universe.
Bounded == output \subseteq Records /\ policy \subseteq Checks

LEMMA OutputBounded == Spec => []Bounded
<1>1. Init => Bounded
  BY EvidenceAssumption DEF Init, Bounded
<1>2. Bounded /\ [Next]_vars => Bounded'
  BY DEF Bounded, Next, Arrive, vars, setting
<1> QED BY <1>1, <1>2, PTL DEF Spec

-----------------------------------------------------------------------------
(* What growth does to the ingredients of the checks.                      *)

LEMMA ErrorSpansGrow ==
  ASSUME NEW S, NEW T, S \subseteq T
  PROVE  errorSpans(S) \subseteq errorSpans(T)
BY DEF errorSpans, Of

LEMMA SeriesGrow ==
  ASSUME NEW S, NEW T, S \subseteq T, T \subseteq Records, NEW name
  PROVE  /\ Cardinality(UniqueSeriesKeys(name, S)) \in Nat
         /\ Cardinality(UniqueSeriesKeys(name, T)) \in Nat
         /\ Cardinality(UniqueSeriesKeys(name, S)) <= Cardinality(UniqueSeriesKeys(name, T))
<1> DEFINE U == {m \in Of("metrics", T) : m.key = name /\ m.series # "none"}
<1>1. IsFiniteSet(U)
  <2>1. U \subseteq Records
    BY DEF Of
  <2> QED BY <2>1, FS_Subset, EvidenceAssumption
<1>2. IsFiniteSet({r.series : r \in U})
  <2>1. [r \in U |-> r.series] \in Surjection(U, {r.series : r \in U})
    BY DEF Surjection
  <2> QED BY <1>1, <2>1, FS_Surjection
<1>3. UniqueSeriesKeys(name, T) = {r.series : r \in U}
  BY DEF UniqueSeriesKeys
<1>4. UniqueSeriesKeys(name, S) \subseteq UniqueSeriesKeys(name, T)
  BY DEF UniqueSeriesKeys, Of
<1> QED BY <1>2, <1>3, <1>4, FS_Subset, FS_CardinalityType

\* Other signals' records do not enter a check.
LEMMA OwnSignalOnly ==
  ASSUME NEW c \in Checks, NEW S, NEW T, Of(c[1], S) = Of(c[1], T)
  PROVE  verdict(c, S) = verdict(c, T)
<1>1. fails(c, S) = fails(c, T)
  <2>1. c[2] = "preserve" => errorSpans(S) = errorSpans(T)
    BY DEF Checks, Signals, errorSpans
  <2>2. c[2] = "series" => Of("metrics", S) = Of("metrics", T)
    BY DEF Checks, Signals
  <2>3. c[2] = "series" => \A n : UniqueSeriesKeys(n, S) = UniqueSeriesKeys(n, T)
    BY <2>2 DEF UniqueSeriesKeys
  <2>4. ASSUME c[2] = "series" PROVE fails(c, S) = fails(c, T)
    BY <2>2, <2>3, <2>4 DEF fails, hasForbidden, lacksRequired, losesErrors, exceedsSeries
  <2>5. ASSUME c[2] # "series" PROVE fails(c, S) = fails(c, T)
    BY <2>1, <2>5 DEF fails, hasForbidden, lacksRequired, losesErrors, exceedsSeries
  <2> QED BY <2>4, <2>5
<1>2. conclusiveObservation(c, S) = conclusiveObservation(c, T)
  BY <1>1 DEF conclusiveObservation
<1> QED BY <1>1, <1>2 DEF verdict

\* A conclusive observation stays one, with the same result.
LEMMA ConclusiveIsFinal ==
  ASSUME NEW c \in Checks, NEW S, NEW T, S \subseteq T, T \subseteq Records,
         conclusiveObservation(c, S)
  PROVE  conclusiveObservation(c, T) /\ fails(c, T) = fails(c, S)
<1>1. Of(c[1], S) \subseteq Of(c[1], T)
  BY DEF Of
<1>2. CASE c[2] = "preserve"
  <2>1. ~fails(c, S) /\ errorSpans(input) # {}
    BY <1>2 DEF conclusiveObservation
  <2>2. errorSpans(input) \subseteq errorSpans(S)
    BY <1>2, <2>1 DEF fails, losesErrors
  <2>3. ~fails(c, T)
    BY <1>2, <2>2, ErrorSpansGrow DEF fails, losesErrors
  <2> QED BY <1>2, <2>1, <2>3 DEF conclusiveObservation, fails, losesErrors
<1>3. CASE c[2] = "forbidden"
  <2>1. fails(c, S)
    BY <1>3 DEF conclusiveObservation
  <2>2. fails(c, T)
    BY <1>1, <1>3, <2>1 DEF fails, hasForbidden
  <2> QED BY <1>3, <2>1, <2>2 DEF conclusiveObservation, fails, hasForbidden
<1>4. CASE c[2] = "required"
  <2>1. fails(c, S) /\ Of(c[1], S) # {}
    BY <1>4 DEF conclusiveObservation
  <2>2. PICK r \in Of(c[1], S) : ~r.required
    BY <1>4, <2>1 DEF fails, lacksRequired
  <2>3. r \in Of(c[1], T)
    BY <1>1, <2>2
  <2>4. fails(c, T)
    BY <1>4, <2>2, <2>3 DEF fails, lacksRequired
  <2> QED BY <1>4, <2>1, <2>3, <2>4 DEF conclusiveObservation, fails, lacksRequired
<1>5. CASE c[2] = "series"
  <2>1. fails(c, S)
    BY <1>5 DEF conclusiveObservation
  <2>2. PICK r \in Of("metrics", S) : Cardinality(UniqueSeriesKeys(r.key, S)) > MaxSeries
    BY <1>5, <2>1 DEF fails, exceedsSeries
  <2>3. Cardinality(UniqueSeriesKeys(r.key, T)) > MaxSeries
    BY <2>2, SeriesGrow, EvidenceAssumption
  <2>4. r \in Of("metrics", T)
    BY <2>2 DEF Of
  <2>5. fails(c, T)
    BY <1>5, <2>3, <2>4 DEF fails, exceedsSeries
  <2> QED BY <1>5, <2>1, <2>5 DEF conclusiveObservation, fails, exceedsSeries
<1> QED BY <1>2, <1>3, <1>4, <1>5 DEF Checks

LEMMA StepKeepsVerdict ==
  ASSUME Bounded, NEW r \in Records, Arrive(r), NEW c \in policy,
         verdict(c, output) # "INCONCLUSIVE"
  PROVE  verdict(c, output)' = verdict(c, output)
<1>0. c \in Checks
  BY DEF Bounded
<1>1. verdict(c, output)' = verdict(c, output')
  BY DEF Arrive, setting, verdict, doubted, notApplicable, conclusiveObservation,
     fails, hasForbidden, lacksRequired, losesErrors, exceedsSeries
<1>2. output \subseteq output' /\ output' \subseteq Records
  BY DEF Arrive, Bounded
<1>3. CASE c[1] # r.signal
  <2>1. Of(c[1], output) = Of(c[1], output')
    BY <1>3 DEF Arrive, Of
  <2> QED BY <1>0, <1>1, <2>1, OwnSignalOnly
<1>4. CASE c[1] = r.signal
  <2>1. conclusiveObservation(c, output)
    BY <1>4 DEF Arrive, verdict, doubted
  <2>2. conclusiveObservation(c, output') /\ fails(c, output') = fails(c, output)
    BY <1>0, <1>2, <2>1, ConclusiveIsFinal
  <2> QED BY <1>1, <2>1, <2>2 DEF verdict
<1> QED BY <1>3, <1>4

-----------------------------------------------------------------------------

\* A PASS or a FAIL is the same on every longer capture.
THEOREM VerdictsFinal == Spec => VerdictsAreFinal
<1>1. ASSUME Bounded, [Next]_vars, NEW c \in policy, verdict(c, output) # "INCONCLUSIVE",
             ~UNCHANGED vars
      PROVE  verdict(c, output') = verdict(c, output)
  <2>1. PICK r \in Records : Arrive(r)
    BY <1>1 DEF Next
  <2>2. verdict(c, output)' = verdict(c, output')
    BY <2>1 DEF Arrive, setting, verdict, doubted, notApplicable, conclusiveObservation,
       fails, hasForbidden, lacksRequired, losesErrors, exceedsSeries
  <2> QED BY <1>1, <2>1, <2>2, StepKeepsVerdict
<1>2. Bounded /\ [Next]_vars =>
        [\A c \in policy : verdict(c, output) # "INCONCLUSIVE" =>
                             verdict(c, output') = verdict(c, output)]_vars
  BY <1>1
<1> QED BY <1>2, OutputBounded, PTL DEF Spec, VerdictsAreFinal

\* Every exit code but 4 is the same on every longer capture.
THEOREM GateFinal == Spec => GateIsFinal
<1>1. ASSUME Bounded, NEW r \in Records, Arrive(r), exit # 4
      PROVE  exit' = exit
  <2> DEFINE S == statuses(output)
  <2>1. UNCHANGED setting
    BY <1>1 DEF Arrive
  <2>2. CASE runFailed
    BY <2>1, <2>2 DEF exit, ExitCode, OverallStatus, statuses, setting
  <2>3. CASE ~runFailed /\ "FAIL" \in S
    <3>1. PICK c \in policy : verdict(c, output) = "FAIL"
      BY <2>3 DEF statuses
    <3>2. verdict(c, output)' = "FAIL" /\ c \in policy'
      BY <1>1, <2>1, <3>1, StepKeepsVerdict DEF setting
    <3>3. "FAIL" \in S' /\ "ERROR" \notin S' /\ "ERROR" \notin S
      BY <2>1, <2>3, <3>2 DEF statuses, verdict, setting
    <3> QED BY <2>3, <3>3 DEF exit, ExitCode, OverallStatus
  <2>4. CASE ~runFailed /\ "FAIL" \notin S
    <3>1. "ERROR" \notin S
      BY <2>4 DEF statuses, verdict
    <3>2. "INCONCLUSIVE" \notin S
      BY <1>1, <2>4, <3>1 DEF exit, ExitCode, OverallStatus
    <3>3. \A c \in policy : verdict(c, output) = "PASS" /\ verdict(c, output)' = "PASS"
      <4>1. ASSUME NEW c \in policy PROVE verdict(c, output) = "PASS"
        BY <2>4, <3>2 DEF statuses, verdict
      <4> QED BY <1>1, <4>1, StepKeepsVerdict
    <3>4. S' = S
      BY <2>1, <2>4, <3>3 DEF statuses, setting
    <3> QED BY <2>1, <3>4 DEF exit, ExitCode, OverallStatus, setting
  <2> QED BY <2>2, <2>3, <2>4
<1>2. Bounded /\ [Next]_vars => [exit # 4 => exit' = exit]_vars
  BY <1>1 DEF Next
<1> QED BY <1>2, OutputBounded, PTL DEF Spec, GateIsFinal

\* The exit codes mean what the documentation's table says, for every policy.
THEOREM ExitCodesMean == Spec => []ExitMeaning
<1>1. ExitMeaning
  <2> DEFINE S == statuses(output)
  <2>1. CASE runFailed
    BY <2>1 DEF ExitMeaning, exit, ExitCode, OverallStatus, statuses
  <2>2. CASE ~runFailed
    <3>1. \A c \in policy : verdict(c, output) \in S /\ verdict(c, output) \in {"PASS", "FAIL", "INCONCLUSIVE"}
      BY <2>2 DEF statuses, verdict
    <3>2. "ERROR" \notin S
      BY <2>2, <3>1 DEF statuses
    <3>3. "FAIL" \in S <=> \E c \in policy : verdict(c, output) = "FAIL"
      BY <2>2 DEF statuses
    <3>4. exit = 0 => "FAIL" \notin S /\ "INCONCLUSIVE" \notin S
      BY <3>2 DEF exit, ExitCode, OverallStatus
    <3> QED BY <2>2, <3>1, <3>2, <3>3, <3>4 DEF ExitMeaning, exit, ExitCode, OverallStatus
  <2> QED BY <2>1, <2>2
<1> QED BY <1>1, PTL
=============================================================================
