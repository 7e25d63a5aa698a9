-------------------------- MODULE CapturedTelemetry --------------------------
(***************************************************************************)
(* How captured exports become the policy view: Export appends the blocks  *)
(* of a request to the capture (src/internal/runner/capture.go), Normalize *)
(* flattens them (src/internal/telemetry/otlp.go) and Canonicalize         *)
(* (canonical.go) takes out what batching did.  A Collector exports in any *)
(* order, and splits the datapoints of one metric over any requests.       *)
(*                                                                         *)
(* Logs and spans are numbers and so are labels, ranked as their JSON      *)
(* encodings are; the key of a metric ranks its name and resource.  Two    *)
(* metrics with one key (of two scopes, or of two kinds) are possible.     *)
(***************************************************************************)
EXTENDS Naturals, Sequences, FiniteSets

VARIABLES
  fixture,    \* [logs, spans : sequences of ranks; metrics : a sequence of [key, points]]
  owed,       \* what the Collector has still to export
  captured    \* the capture, normalized: the form of a fixture

telemetryVars == <<fixture, owed, captured>>

IsFixture(f) ==
  f \in [logs : Seq(Nat), spans : Seq(Nat), metrics : Seq([key : Nat, points : Seq(Nat)])]

\* The pieces a metric may be exported in: its datapoints, or 0 for a metric
\* that has none.
pieces(metric) == IF metric.points = <<>> THEN {0} ELSE DOMAIN metric.points

Items(f) ==
  {<<"logs", i, 0>> : i \in DOMAIN f.logs} \cup {<<"traces", i, 0>> : i \in DOMAIN f.spans}
    \cup UNION {{<<"metrics", m, i>> : i \in pieces(f.metrics[m])} : m \in DOMAIN f.metrics}

InitCapture == owed = Items(fixture) /\ captured = [logs |-> <<>>, spans |-> <<>>, metrics |-> <<>>]

ExportLog(i) ==
  /\ <<"logs", i, 0>> \in owed
  /\ captured' = [captured EXCEPT !.logs = Append(@, fixture.logs[i])]
  /\ owed' = owed \ {<<"logs", i, 0>>}
  /\ UNCHANGED fixture

ExportSpan(i) ==
  /\ <<"traces", i, 0>> \in owed
  /\ captured' = [captured EXCEPT !.spans = Append(@, fixture.spans[i])]
  /\ owed' = owed \ {<<"traces", i, 0>>}
  /\ UNCHANGED fixture

Arrangements(S) == {f \in [1..Cardinality(S) -> S] : \A i, j \in DOMAIN f : f[i] = f[j] => i = j}

\* One metric of one request: some of the datapoints that are owed, in any
\* order.
ExportMetric(m, part) ==
  /\ part # {} /\ \A i \in part : <<"metrics", m, i>> \in owed
  /\ \E order \in Arrangements(part \ {0}) :
       captured' = [captured EXCEPT !.metrics = Append(@,
         [key |-> fixture.metrics[m].key,
          points |-> [k \in DOMAIN order |-> fixture.metrics[m].points[order[k]]]])]
  /\ owed' = owed \ {<<"metrics", m, i>> : i \in part}
  /\ UNCHANGED fixture

owedPoints(m) == {x[3] : x \in {y \in owed : y[1] = "metrics" /\ y[2] = m}}

Export(signals) ==
  \/ "logs" \in signals /\ \E i \in DOMAIN fixture.logs : ExportLog(i)
  \/ "traces" \in signals /\ \E i \in DOMAIN fixture.spans : ExportSpan(i)
  \/ /\ "metrics" \in signals
     /\ \E m \in DOMAIN fixture.metrics : \E part \in SUBSET owedPoints(m) : ExportMetric(m, part)

-----------------------------------------------------------------------------
(* Canonicalize                                                            *)

\* The values of w, which may be a sequence or have any other finite domain, in
\* ascending order: the i-th is the one that fewer than i values are below.
sortByJSON(w) ==
  LET below(v) == {x \in DOMAIN w : w[x] < v}
      upTo(v)  == {x \in DOMAIN w : w[x] <= v}
  IN [i \in 1..Cardinality(DOMAIN w) |->
        CHOOSE v \in {w[x] : x \in DOMAIN w} :
          Cardinality(below(v)) < i /\ i <= Cardinality(upTo(v))]

\* Mutant of fragments: the first fragment of a metric is taken for all of it.
firstFragment(metrics, key) ==
  {j \in DOMAIN metrics : metrics[j].key = key /\ \A k \in 1..(j - 1) : metrics[k].key # key}

fragments(metrics, key) == {j \in DOMAIN metrics : metrics[j].key = key}

\* All the datapoints of a metric, each at its fragment and its place there.
grouped(metrics, key) ==
  [x \in UNION {{<<j, i>> : i \in DOMAIN metrics[j].points} : j \in fragments(metrics, key)} |->
     metrics[x[1]].points[x[2]]]

metricKeys(metrics) == {metrics[j].key : j \in DOMAIN metrics}

Canonicalize(t) ==
  LET keys == sortByJSON([key \in metricKeys(t.metrics) |-> key])
  IN [logs |-> sortByJSON(t.logs), spans |-> sortByJSON(t.spans),
      metrics |-> [i \in DOMAIN keys |->
        [key |-> keys[i], points |-> sortByJSON(grouped(t.metrics, keys[i]))]]]
=============================================================================
