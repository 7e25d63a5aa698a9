# otel-policy-lab in TLA+

A verification development for `otel-policy-lab`, a command that runs an
OpenTelemetry fixture through Collector processors and checks the result
against a policy. It models what is hard to test there: a subprocess with
descendants, a capture server with concurrent handlers, a run that can fail at
every step and must clean up after itself, a simulation whose order is that of
a Go map, and verdicts drawn from a capture that may be incomplete. TLC checks
the models on small instances, TLAPS proves the main safety properties for all
instances.

## 1. Inventory

| Component | Source (`src/internal/...`) | State | Operations | What is hard | What makes it correct |
| --- | --- | --- | --- | --- | --- |
| Child process | `runner/process.go`, `process_unix.go` | the OS process group, `done`, `err`, `forced` | `startProcess`, `exited`, `stop`, `record` | three concurrent actors (group, Wait goroutine, caller), timers that race the exit, descendants that outlive their leader or hold its output | no survivor in the group; a clean Wait is evidence; stop returns and tells the truth |
| Diagnostic buffer | `runner/process.go` | `data`, `ready`, `exportFailure` | `Write` | output is cut anywhere, the tail forgets | a marker is found exactly if it was printed |
| Version query | `runner/process.go` | one child process | `collectorVersion` | deadline against answer | nothing invented, nothing left running |
| Capture service | `runner/capture.go` | counters, `raw`, `failure`, the gRPC server, `served` | `Export` of three signals, `HandleRPC`, `close` | concurrent handlers at a limit, streams that end in error, close against late streams | limits hold; nothing is lost silently; close returns |
| Collector run | `runner/collector.go` | attempt, connection, diagnostics, `runErr`, private directory | `Run` and its deferred calls | cancellation anywhere, retry, a port that is free for a moment, failures during cleanup | a success is evidence; every return cleans up; the first failure is reported |
| Harness topology | `runner/topology.go` | the parse result | `parseTopology`, `harness`, `inconclusiveSignals` | active and inactive pipelines, shared processors, escaping | the harness runs the user's chains and nothing else; doubt is scoped to the right signal |
| Fixture runner | `runner/runner.go` | the simulated telemetry and its warnings | `pipelineProcessors`, `applyProcessor` | map iteration order | the result does not depend on that order; what is unsupported is named |
| Policy evaluation | `evaluator/*.go`, `policy/policy.go` | none (pure) | `EvaluateWithOptions` | what an incomplete capture proves | verdicts survive a longer capture |
| Report and exit code | `report/report.go`, `cli/cli.go` | none (pure) | `Build`, `ExitCode` | precedence of mixed outcomes | 0 means that everything asserted passed |
| Telemetry model | `telemetry/*.go` | none (pure) | parse, normalize, canonicalize | identity and order of series | batching does not show |
| Config validation | `collector/validate.go` | one process, the goroutines of os/exec | `ValidateConfig` | deadline with a descendant on the pipe | the verdict is about the configuration; it returns |
| Command line | `cli/cli.go`, `main.go` | signal context, report file, exit code | `runTest`, `runValidate` | signals at any moment, a report cut short | exit code and report agree on every path |
| Action, workflows | `action.yml`, `.github/` | none | shell glue | none of its own | not modelled |

How they interact: `runTest` may call `ValidateConfig`, loads policy and
fixture, calls a runner, and passes the captured output to the evaluator and
the report. `Run` (Collector run) asks for the version, builds the harness from
the topology, and owns a capture service and the child processes, one at a time.
It talks to the Collector over one gRPC connection and listens to it in three
ways: the diagnostic buffer (text), `process.done` (its end) and the capture
service (its exports, and the channel `failed`). `monitoredContext` turns the
last two into a cancellation. Nothing is persistent except the private
directory of a run and the report file.

## 2. Modules

    CapturePromise  <--refines--  CaptureSink   <--  MCCaptureSink, CaptureSinkProofs
          ^
          | INSTANCE
    CollectorRun  --INSTANCE-->  ChildProcess  <--  MCChildProcess, ChildProcessProofs
    (MC.., ..Proofs)                  ^
                                      | INSTANCE
    ConfigValidation    VersionQuery
                  \      /
                   Command  --INSTANCE-->  Evidence  <--  MCEvidence, EvidenceProofs
                   (MCCommand, CommandProofs)
    HarnessTopology    CapturedTelemetry
                  \      /
                  RealPath  <--  MCRealPath, RealPathProofs
    FixtureRun  <--  MCFixtureRun, FixtureRunProofs
    DiagnosticBuffer  <--  MCDiagnosticBuffer, DiagnosticBufferProofs

A definition named "Mutant of X" is X with a plausible bug; `PROJECT.json` says
which property it breaks. No specification uses these definitions.

### ChildProcess

`leader`, `status`, `kids`, `pipe` and `out` are the operating system's view:
the leader, its wait status, each descendant's place (member of the group,
member with SIGKILL pending, escaped, gone), who holds the output pipe and what
was written. `waited` is `done` together with `err`, `seen` what the copying
goroutine passed to the buffer. `stopAt` is the next statement of `stop`.
`StopEntry`, `StopTerm`, `GraceDone`/`GraceExpires`, `StopKill` and
`ReapDone`/`ReapTimeout` are its statements in order; `StopLeave` is the
deferred kill that every return goes through. `WaitDrained` and `WaitDelayed`
are the two ways `cmd.Wait` returns. A timer may fire at any moment it is
armed, also together with the event it races. `killFailed` is history: the
deferred kill's error, which the code drops.

### DiagnosticBuffer

`privateBuffer.Write` over sequences of symbols; `output` is history, all that
was ever written. In `ChildProcess` the buffer is the set of the texts seen,
which `MarkersExact` justifies.

### CaptureSink and CapturePromise

The gRPC server is external, modelled by what `capture.go` relies on: each
stream that begins ends with one `stats.End`, after its handler if that was
called; `GracefulStop` returns once no stream is left; `Stop` cuts the streams.
The three `Export` handlers differ only in how they count, so they are one
action with the size and the item count of the request as constants.
`CapturePromise` is what the runner may rely on, in four actions. The refinement
maps `begun` to the streams that began, `captured` to `raw`, `failed` to
`failure # "none"` and `closed` to the return of `close`.

### CollectorRun

`pc` walks through the statements of `Run`; every early return goes through
`fail` to the deferred calls (`DeferStop` to `RemoveDir`) as in the code. The
Collector is the process of `ChildProcess` plus what it does on the network:
it binds the endpoint, speaks, exports, and may drop telemetry and log it. A
rival may bind the port in the window in which it is free. Statements that
only prepare inputs are one action (`Prepare`), with one category for their
errors; likewise the three categories of `processFailure` that are never
retried. `processFailure` reads the bounded tail of the output, from which a
bind conflict may have gone, so it may report another exit even if one was
printed. `serving` is the existence of the Go variable `sink`: from a successful
`startCapture` on, every return has a capture service to close, whether or not a
Collector was started.

### HarnessTopology, CapturedTelemetry and RealPath

`HarnessTopology` is `parseTopology`, one pipeline a step: `CheckForm` for what
is wrong with the document as a whole, `ReadPipeline` for each pipeline in file
order, `CheckRouted`; then `SelectPipeline` for each signal in the order of the
names of the pipelines, and within a pipeline `SelectProcessor` for each item of
its chain, with the lookup in `selectedIDs` and the test for provider
substitution on the scalars of each processor it copies. A scalar is a sequence
of the characters the test looks at. `out.processors` is the set of identifiers
it defines, `selected` the sequence that becomes the processors section.

`CapturedTelemetry` has the exports of a Collector in any order and any pieces:
a request may carry any of the datapoints of a metric that are still owed, in
any order. `Canonicalize` groups what has one key and orders by `sortByJSON`,
which is defined by counting (the i-th value is the one with fewer than i values
below it and at least i up to it), so that it can be reasoned about without
recursion. `RealPath` joins the two: the active pipelines decide what is
exported.

### FixtureRun

`Join` is one round of the loop over the map of pipelines, in any order;
`NextSignal` is the loop over `orderedSignals`; the seven processor actions are
the branches of `applyProcessor`. A record carries the attribute keys of its
resource and of each of its maps. The warnings are a set: their order is left
out.

### Evidence

The evaluator with the evidence requirements of a real run and the report's
status and exit code. The variable `output` starts as any output of the reliable
signals and grows by one record per step in the unreliable ones, so a behaviour
is a sequence of captures of which each is more complete than the one before.
The questions of the evaluator to a record (forbidden, has the required
attributes, error span and its identity, metric and series) are its fields.

### ConfigValidation, VersionQuery and Command

`ConfigValidation` is `ValidateConfig` over the three goroutines of
`exec.CommandContext`: `ReapValidator` and `ReturnVerdict` (Run), `CopyOutput`,
`WatchKills`/`WatchEnds`. It kills the validator alone and has no `WaitDelay`.
`VersionQuery` is `collectorVersion` over an instance of `ChildProcess`; it too
reads the tail, so a version that was printed may not be found.
`Command` extends both: `at` is the next step of `runTest` or `runValidate`,
with every early exit, the flags that change the path, `Interrupt` for SIGINT
and SIGTERM, and the report file (`old`, `torn` while it is being written, or
the status of this run). What comes after the version query in a real run is one
step with any outcome, which `CollectorRun` details; the status and the exit
code are those of `Evidence`.

## 3. What TLC checks

Every run covers its whole state space. Deadlock checking is off because each
component ends: a closed capture, a returned run, a dead process, an exited
command.

| Run | Instance | Shows |
| --- | --- | --- |
| `process` | 2 descendants, all exit statuses, unbounded stop calls, failing signals | `NoSurvivor`, `LogsComplete`, `StopVerdict`, `VerdictFinal`, `StopReturns`, `StopReleases` |
| `buffer` | 2 symbols, outputs up to 8, pieces up to 4, overlap 2, tail 3 | `MarkersExact`, `TailExact` |
| `capture` | 5 requests that meet each of the four limits alone | `LimitsKept`, `Accounting`, `NoSilentLoss`, `ImplementsPromise`, `CloseReturns` |
| `run` | 2 attempts, 1 signal, 1 export request, a rival that closes its connections with its listener | `TransmittedToCollector`, `StatusIsFinal`, `FirstFailureWins`, `RunReturns` |
| `run_group` | as `run`, with 1 descendant, a restart that may fail and a settling time shorter than `WaitDelay` | `SuccessIsEvidence`, `CleanedUp`, `CaptureOutlivesCollector`, `AttemptsDoNotOverlap` |
| `evidence` | 9 records, 3 fixtures, 2 policies, all settings | `VerdictsAreFinal`, `GateIsFinal`, `ExitMeaning` |
| `fixture` | 3 pipelines, 2 of one signal, chains of up to 2 of 8 processors, 2 fixtures | `OutputDetermined`, `UnsupportedIsWarned` |
| `harness` | all scalars of up to 5 characters; all chains of up to 2 of 8 identifiers over 2 pipelines; 8 malformed documents and a good one; 2 fixtures exported in all pieces | `HarnessIsFaithful`, `NoProviderInHarness`, `DoubtIsScoped`, `PassThroughIsIdentity` |
| `command` | both commands, all flags, a validator and a query with 1 descendant each, failing signals, an interrupt at any step | `ValidationTellsTruth`, `VersionNotInvented`, `QueryLeavesNothing`, `ReportMatchesExit`, `StrictPassNamesVersion`, `CommandEnds` |
| `run_status`, `run_rival`, `fixture_partial` | as `run` and `fixture` | three disagreements, below |

`process`, `capture`, `run` and `command` check a `TypeOK` as well.

Why the bounds are enough. Two descendants are the smallest number at which one
holds the pipe while the other leaves the group; the proofs cover any number. In
`capture`, two requests fit and each third or larger one meets one limit; any
number is proved. Two attempts have the one transition that matters between
attempts; the third repeats it, and the proofs cover any number. One signal and
one export request suffice in `run` and `run_group` because `Run` treats the signals alike, and
what happens to several requests is `CaptureSink`'s matter. The descendant of
`run_group` may hold the output pipe of a Collector that died during the
submission, so that its exit is noticed only after `WaitDelay`; with a short
settling `Run` may by then be in the graceful stop. In `buffer` the
sizes keep the proportions of the source: the longest marker (23 bytes) is at
most the overlap (32) plus one, and the overlap at most the tail (65536); the
proofs need no more than these proportions. In `harness` a scalar of five
characters has every parity of dollars before a brace, also after an earlier
brace or another character; two pipelines suffice because a pipeline only meets
the others through `seenSignals`, `defined` and `selected`. In `fixture` two
pipelines of one signal can be joined both ways round, next to a third that
shares their processors; any number is proved. In `command` one descendant per
process can hold the pipe or outlive its parent.

### Fairness

Assumed: the program's own goroutines are scheduled; the timers of `stop`,
`close`, `WaitDelay`, the validation and the run deadline fire; SIGKILL takes
effect; a stopped gRPC server cuts its streams, so that handlers and streams
end. Not assumed: anything of the Collector, its descendants, its clients'
streams while the server is up, or of the other users of the port. So
`RunReturns`, `StopReturns` and `CloseReturns` hold of a Collector that hangs at
any point. `CommandEnds` needs one thing more, stated in the property: the
descendants of a *validator* give up its output in the end, since
`ValidateConfig` kills neither them nor the wait for the pipe. For the version
query, which has a group kill and `WaitDelay`, nothing of the kind is needed.

### Disagreements found

1. `run_status` (`collector.go:189`). After a bind conflict the second
   `startProcess` may fail; `process` is then nil, the deferred call records
   nothing, and the report says `exit_status: running` with no process left.
   `docs/real-collector-runner.md:67` promises the final exit status. With an
   executable that can be started again (`run`) the property holds.
2. `run_rival` (`collector.go:191`). Reachability is established before the
   readiness marker and never again. A rival that accepts the connection, stops
   listening and keeps the connection gets the fixture, in a run that succeeds
   with an empty capture. `docs/real-collector-runner.md:35` says that readiness
   and reachability together prevent this. If the rival's connections end with
   its listener (`run`), the property holds, provided that the settling time
   covers `WaitDelay`, as the default does (`SettleCoversWait`).
3. `fixture_partial` (`runner.go:193`). An attributes processor that deletes a
   key and has other actions as well is simulated in part, counted as simulated,
   and named in no warning. `README.md:174` promises a warning for processors
   that are "only partially simulated".

Not a run, since the order of warnings is left out of the model: two pipelines
of one signal are joined in map order, so the *order* of the warnings may differ
between two runs of one input, next to "deterministic transformations"
(`runner.go:82`). The output, the set of warnings about the log volume and the
accounting of processors do not differ (`OutputDetermined`).

## 4. What is proved

| Theorem | Statement | Argument |
| --- | --- | --- |
| `ChildProcessProofs!TypeCorrect` | `TypeOK` | inductive |
| `ChildProcessProofs!GroupNeverSurvives` | `NoSurvivor` | `KilledInv`: a killed group has no unkilled member and cannot grow; whenever a result is set and the deferred kill did not fail, the group was killed |
| `ChildProcessProofs!WaitIsEvidence` | `LogsComplete` | `WaitInv` adds that only a reaped leader has a returned Wait, that the status is set once and that the pipe is held by the living only |
| `ChildProcessProofs!StopTellsTheTruth` | `StopVerdict` | `VerdictInv` adds that `forced` is only set once a call killed, which needs the graceful call to be the first |
| `ChildProcessProofs!WaitIsFinal` | `VerdictFinal` | from `WaitInv`: a returned Wait has a reaped leader, so that no action that writes the wait status or the text seen is enabled; what `record` reports is another matter, since a stop under way may still set `forced` |
| `DiagnosticBufferProofs!TailIsKept` | `TailExact` | `TailStep`: both forms of the new tail are the window at the end of the new output, and a window of a given place and length is unique |
| `DiagnosticBufferProofs!MarkersAreFound` | `MarkersExact` | `MarkerStep`: a marker in the new output is in the old output, in the piece or in the window of the seam; `Cover` is the arithmetic of the three, and this is where a marker of at most `Overlap + 1` symbols is needed |
| `CaptureSinkProofs!TypeCorrect`, `LimitsHold` | `TypeOK`, `LimitsKept` | inductive |
| `CaptureSinkProofs!NothingLostSilently` | `NoSilentLoss` | `PromiseInvariant`: without a failure, a stream past its handler is stored, and once the server drained no stream is left |
| `CaptureSinkProofs!SinkImplementsPromise`, `SinkIsFinal` | `ImplementsPromise`; after `close` nothing changes | step by step, from the same invariant |
| `CaptureSinkProofs!CountersExact` | `Accounting` | the total over a finite set is the number of its tokens, one for each unit of each element (`SumIsTokens`); a request that is stored adds its own |
| `CollectorRunProofs!TypeCorrect` | `TypeOK` | inductive, with `ProcessInv` |
| `CollectorRunProofs!SuccessProved` | `SuccessIsEvidence` | `EvidenceInv`: what a success of `Decide` saw stays true through the deferred calls, and telemetry is only lost with a line in the log |
| `CollectorRunProofs!ReturnCleansUp`, `CaptureClosedLast`, `FirstFailureReported`, `OneCollectorAtATime` | `CleanedUp`, `CaptureOutlivesCollector`, `FirstFailureWins`, `AttemptsDoNotOverlap` | `ControlInv`: at each `pc`, what the process, the capture service and the directory have been through; in particular a capture service that was started is closed before the directory goes, on the returns before any Collector as well |
| `CollectorRunProofs!TransmissionIsPrivate` | `TransmittedToCollector` if `~RivalKeepsConn` and `SettleCoversWait` | `EndpointInv`: whose the endpoint and the connection are |
| `CollectorRunProofs!StatusIsTold` | `StatusIsFinal` if `~RestartCanFail` | `StatusInv`: while the report says "running" there is a process to be recorded |
| `CollectorRunProofs!RunKeepsPromise`, `RunDrivesProcesses` | inside a run the capture service is a `CapturePromise`, and the process of every attempt a `ChildProcess` | step by step |
| `RealPathProofs!HarnessFaithful`, `DoubtScoped` | `HarnessIsFaithful`, `DoubtIsScoped` | `HarnessInv`: `ReadInv` (the pipelines read mirror the file, one per signal) and `SelectInv` (the active ones are those of the signals visited; `selected` is what their chains, as far as they are copied, consist of, each once) |
| `RealPathProofs!HarnessHasNoProvider` | `NoProviderInHarness` | `OpensIsOddRun`: what the recursive scan from the left finds is an odd run of dollars before a brace, by a last position at which the two differ |
| `RealPathProofs!PassThrough` | `PassThroughIsIdentity` | `CaptureInv`: for every set of values, as many are captured and owed as the fixture has; `SortOfCounts`: the canonical order depends on these numbers alone |
| `RealPathProofs!CanonicalOrderSorts` | `sortByJSON` is ascending and a permutation | the places of a value are an interval, as long as the value occurs |
| `CommandProofs!QueryRunsChildProcess` | the query only does what `ChildProcess` allows | step by step |
| `CommandProofs!VerdictIsTrue` | `ValidationTellsTruth` | `ValidationInv`: the watching goroutine is the only one that kills, and a verdict comes after reaping |
| `CommandProofs!CommandRunsQuery`, `TypeCorrect` | a command refines `VersionQuery`; `TypeOK` | step by step |
| `CommandProofs!CommandInventsNothing`, `CommandLeavesNothing` | `VersionNotInvented`, `QueryLeavesNothing` | proved of `VersionQuery` and carried over by that refinement |
| `CommandProofs!ReportAgrees`, `StrictPassIsNamed` | `ReportMatchesExit`, `StrictPassNamesVersion` | `CommandInv` (file, checks and warning at each step) and `ExitInv`; `ReportedExit` is the case analysis over the exit code |
| `FixtureRunProofs!OrderIrrelevant` | `OutputDetermined` | the invariant `Simulation(config, Rest, output) = Simulation(config, Uses(config), fixture)`, where `Rest` are the uses still to come: one processor applied is one use taken out of a set, and sets have no order |
| `FixtureRunProofs!NothingUnnamed` | `UnsupportedIsWarned` | `Accounted`: each use that is not in `Rest` is in one of the two lists, with its warning |
| `EvidenceProofs!VerdictsFinal` | `VerdictsAreFinal` | each plain result that is conclusive is monotone in the output |
| `EvidenceProofs!GateFinal` | `GateIsFinal` | from the former by cases on the exit code |
| `EvidenceProofs!ExitCodesMean` | `ExitMeaning` | cases on the statuses present |

The proofs about `CollectorRun` reuse those about `ChildProcess`: every step of
the run is a step of `ChildProcess`, leaves the process alone, or replaces it by
a fresh one, so `ProcessInv`, the conjunction of the process invariants, carries
over (`ProcessStep`). The assumptions of `TransmissionIsPrivate` and
`StatusIsTold` are exactly the negations of what the disagreements 2 and 1 need
(plus the settling time): outside these the documented behaviour holds for every
number of attempts, descendants and requests. `SuccessProved` and
`ReturnCleansUp` need no such assumption, so they also cover a settling time
shorter than `WaitDelay`.

The proofs about `RealPath` hold for every set of cases: configurations with any
number of pipelines, chains of any length and scalars of any length, and any
fixture. `HarnessInv` and `CaptureInv` are inductive; the harness theorems need
the first, `PassThrough` both, since a signal without a pipeline must turn out
to have an empty fixture. Where a fold or a recursive function has to be
unfolded for every input (`Total`, `Opens`), the induction is replaced by a least
counterexample: a least subset or a last position at which the claim fails,
which the well-foundedness theorems of the library provide.

Other assumptions are those named in the modules, ranges of the constants
(`ConstantsAssumption`, `SizesAssumption`, `EvidenceAssumption`,
`BufferAssumption`, `ConfigAssumption`, `FixtureAssumption` and the like), which
TLC evaluates in the runs. `CasesAssumption` says that a configuration has
sequences where the source has slices and strings, and that a fixture is one.

Every invariant and every action property that a run checks is also proved.
Only model-checked: all liveness (`StopReturns`, `StopReleases`, `CloseReturns`,
`RunReturns`, `CommandEnds`), since fairness and ENABLED are beyond the prover.
The theorems `TransmissionIsPrivate` and `StatusIsTold` are conditional because
the property fails otherwise, as the disagreements show.

## 5. What is not modelled

- Durations. A timer is only an event; that the settling time exceeds
  `WaitDelay` is a constant (`SettleCoversWait`).
- Reuse of process ids, groups whose members have different owners, and
  descendants that escaped: the last are outside the documented guarantee.
- The hashes in the report: they are computed from files read again after the
  run, and are missing if the context has ended by then. File contents have no
  place in the model.
- Matching of keys, globs and regular expressions, rendering of reports, decoding
  of OTLP and YAML: conversions without control of their own. A record has the
  answers as fields. In particular, that typed attribute values become strings
  is left out, as is the order of the warnings of the fixture runner.
- `process_unsupported.go`, `action.yml` and the workflows: no behaviour beyond
  a refusal, and shell glue. Help and version of the command only print.

## 6. Plan

Done: the modules of section 2, their runs and the theorems of section 4. In
this order remain:

1. `telemetry.go`: the parsing of a fixture, with its rejections, in front of
   `CapturedTelemetry`; `matches.go` beyond the required and forbidden
   attributes (which values a pattern matches).
2. `policy.go`: the rejections of `Validate`, in front of `Evidence`.
3. `CollectorRun` inside `Command` in place of its abstract outcome, by a
   refinement rather than in one run, whose state space would be the product.
