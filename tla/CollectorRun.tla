----------------------------- MODULE CollectorRun -----------------------------
(***************************************************************************)
(* CollectorRunner.Run (src/internal/runner/collector.go): one execution   *)
(* of a fixture through a real Collector.  The runner's goroutine starts   *)
(* the capture service, tries up to three times to start a Collector on a  *)
(* port it has just released, submits the fixture, waits, stops the        *)
(* Collector gracefully and decides; its deferred calls clean up on every  *)
(* path.  It runs against                                                  *)
(*   - the Collector's process group and cmd.Wait: ChildProcess;           *)
(*   - the capture service: CapturePromise, which CaptureSink implements;  *)
(*   - the run's context, which may end at any moment;                     *)
(*   - another program that may take the released port (a rival).          *)
(***************************************************************************)
EXTENDS Naturals, FiniteSets

CONSTANTS
  Kids, SelfExits, SignalCanFail,   \* see ChildProcess
  Requests,         \* the export requests the Collector may make
  Signals,          \* how many signals the fixture populates
  MaxAttempts,      \* the bound of the startup loop
  RivalKeepsConn,   \* a rival may stop listening and keep its connections
  RestartCanFail,   \* the executable may fail to start after it once started
  SettleCoversWait  \* the settling time is longer than cmd.Wait's WaitDelay

\* The output that matters: the readiness marker, "address already in use",
\* and any of the texts of exportFailureText.
Text == {"ready", "bind", "export_failure"}

VARIABLES
  leader, status, sent, kids, pipe, out, seen, waited,   \* the current attempt's
  forced, stopAt, stopGraceful, stopResult, killFailed,  \* child process
  begun, captured, failed, closed,                       \* the capture service
  serving,     \* startCapture succeeded: from then on there is a sink to close
  pc,          \* the next statement of Run
  attempt,     \* the startup attempt, counted from 1
  ctx,         \* runCtx: "live", or the category its end stands for
  startOver,   \* the startup deadline has passed
  owner,       \* who listens on the receiver endpoint
  conn,        \* whom the gRPC connection reaches; "idle": nobody any more
  next,        \* the signal to submit next
  sentTo,      \* who accepted a part of the fixture
  lost,        \* the Collector failed to deliver something it had accepted
  dir,         \* the private harness directory exists
  category,    \* d.FailureCategory; "none" is also runErr = nil
  exitStatus   \* d.ExitStatus

processVars == <<leader, status, sent, kids, pipe, out, seen, waited,
                 forced, stopAt, stopGraceful, stopResult, killFailed>>
captureVars == <<begun, captured, failed, closed, serving>>
netVars     == <<owner, conn>>
runVars     == <<pc, attempt, next, sentTo, dir, category, exitStatus>>
envVars     == <<ctx, startOver, lost>>
vars        == <<processVars, captureVars, netVars, runVars, envVars>>

P == INSTANCE ChildProcess
C == INSTANCE CapturePromise

ASSUME RunAssumption ==
  /\ P!ConstantsAssumption
  /\ Signals \in 1..3 /\ MaxAttempts \in Nat \ {0}
  /\ {RivalKeepsConn, RestartCanFail, SettleCoversWait} \subseteq BOOLEAN

Contexts   == {"canceled", "run_timeout"}
Categories == Contexts \cup
  {"preparation", "harness", "capture", "startup_timeout", "process_start", "bind_conflict",
   "process_exit", "submission", "shutdown", "export", "cleanup"}

TypeOK ==
  /\ P!TypeOK
  /\ begun \subseteq Requests /\ captured \subseteq Requests
  /\ failed \in BOOLEAN /\ closed \in BOOLEAN /\ serving \in BOOLEAN
  /\ pc \in {"prepare", "setup", "attempt", "connect", "ready", "unready", "retry", "send",
             "settle", "settle_dead", "check", "shutdown", "defer", "deferred", "close", "rmdir", "returned"}
  /\ attempt \in 1..MaxAttempts
  /\ ctx \in Contexts \cup {"live"} /\ startOver \in BOOLEAN
  /\ owner \in {"none", "collector", "rival"}
  /\ conn \in {"none", "idle", "collector", "rival"}
  /\ next \in 1..(Signals + 1)
  /\ sentTo \subseteq {"collector", "rival"}
  /\ lost \in BOOLEAN /\ dir \in BOOLEAN
  /\ category \in Categories \cup {"none"}
  /\ exitStatus \in {"not_started", "running", "exited", "signaled", "forced"}

Init ==
  /\ P!Init /\ C!Init /\ serving = FALSE
  /\ pc = "prepare" /\ attempt = 1
  /\ ctx = "live" /\ startOver = FALSE
  /\ owner = "none" /\ conn = "none"
  /\ next = 1 /\ sentTo = {} /\ lost = FALSE
  /\ dir = FALSE /\ category = "none" /\ exitStatus = "not_started"

-----------------------------------------------------------------------------
(* The environment                                                         *)

\* The caller cancels, or the run deadline passes.
ContextEnds ==
  /\ pc # "returned" /\ ctx = "live"
  /\ ctx' \in Contexts
  /\ UNCHANGED <<processVars, captureVars, netVars, runVars, startOver, lost>>

StartupExpires ==
  /\ pc \in {"attempt", "connect", "ready", "unready", "retry"} /\ ~startOver
  /\ startOver' = TRUE
  /\ UNCHANGED <<processVars, captureVars, netVars, runVars, ctx, lost>>

\* The Collector is up on its endpoint; a rival there makes it fail instead.
CollectorBinds ==
  /\ leader = "alive" /\ owner = "none"
  /\ owner' = "collector"
  /\ UNCHANGED <<processVars, captureVars, conn, runVars, envVars>>

\* The Collector prints that it is ready once it listens, and a bind conflict
\* only while it does not.
CollectorSays ==
  /\ \/ owner = "collector" /\ P!Emit("ready")
     \/ owner # "collector" /\ P!Emit("bind")
  /\ UNCHANGED <<captureVars, netVars, runVars, envVars>>

\* The exporter gives up on telemetry it had taken, and logs it.
CollectorLoses ==
  /\ sentTo # {} /\ leader = "alive"
  /\ P!Emit("export_failure")
  /\ lost' = TRUE
  /\ UNCHANGED <<captureVars, netVars, runVars, ctx, startOver>>

CollectorExports(r) ==
  /\ leader = "alive"
  /\ C!Begin(r)
  /\ UNCHANGED <<serving, processVars, netVars, runVars, envVars>>

CaptureWorks ==
  /\ serving
  /\ (\E r \in Requests : C!Take(r)) \/ C!Fail
  /\ UNCHANGED <<serving, processVars, netVars, runVars, envVars>>

\* The kernel closes the Collector's sockets with it.
CollectorDies(s) ==
  /\ P!LeaderExit(s)
  /\ owner' = IF owner = "collector" THEN "none" ELSE owner
  /\ conn' = IF conn = "collector" THEN "idle" ELSE conn
  /\ UNCHANGED <<captureVars, runVars, envVars>>

DescendantSteps ==
  /\ \E k \in Kids : P!Fork(k) \/ P!Escape(k) \/ P!ClosePipe(k) \/ P!KidExit(k)
  /\ UNCHANGED <<captureVars, netVars, runVars, envVars>>

\* The port is free from the moment the reservation is closed.  Who listens
\* there once the fixture is submitted concerns nobody.
RivalBinds ==
  /\ pc \in {"connect", "ready", "send"} /\ owner = "none"
  /\ owner' = "rival"
  /\ UNCHANGED <<processVars, captureVars, conn, runVars, envVars>>

RivalStopsListening ==
  /\ owner = "rival"
  /\ owner' = "none"
  /\ \/ conn' = IF conn = "rival" THEN "idle" ELSE conn
     \/ RivalKeepsConn /\ UNCHANGED conn
  /\ UNCHANGED <<processVars, captureVars, runVars, envVars>>

\* A ClientConn whose transport went away connects again for the next RPC.
Reconnects ==
  /\ pc = "send" /\ conn = "idle" /\ owner # "none"
  /\ conn' = owner
  /\ UNCHANGED <<processVars, captureVars, owner, runVars, envVars>>

\* cmd.Wait, the copying goroutine, and the inside of stop.
WaitSteps == P!WaitNext /\ UNCHANGED <<captureVars, netVars, runVars, envVars>>
StopSteps == P!StopNext /\ UNCHANGED <<captureVars, netVars, runVars, envVars>>

Environment ==
  \/ ContextEnds \/ StartupExpires
  \/ CollectorBinds \/ CollectorSays \/ CollectorLoses \/ DescendantSteps
  \/ \E r \in Requests : CollectorExports(r)
  \/ \E s \in P!Statuses : CollectorDies(s)
  \/ CaptureWorks
  \/ RivalBinds \/ RivalStopsListening \/ Reconnects

-----------------------------------------------------------------------------
(* Run, up to the start of a Collector                                     *)

goto(label) == pc' = label /\ UNCHANGED category

\* fail(): the deferred calls follow every return.
failTo(label, c) == pc' = label /\ category' = c
fail(c) == failTo("defer", c)

startupDone == startOver \/ ctx # "live"
readyCtxDone == startupDone \/ P!exited \/ failed

\* Everything before the private directory: inputs, topology, checksum, the
\* version query.  A fixture without telemetry is a success that ran nothing.
\* A context that ends during the checksum is always called a timeout.
Prepare ==
  /\ pc = "prepare"
  /\ \/ ctx = "live" /\ (goto("setup") \/ goto("returned") \/ failTo("returned", "preparation"))
     \/ ctx # "live" /\ \E c \in {ctx, "run_timeout"} : failTo("returned", c)
  /\ UNCHANGED <<processVars, captureVars, netVars, envVars, attempt, next, sentTo, dir, exitStatus>>

\* The private directory, then the capture service.
Setup ==
  /\ pc = "setup"
  /\ \/ failTo("returned", "harness") /\ UNCHANGED <<dir, serving>>
     \/ failTo("rmdir", "harness") /\ dir' = TRUE /\ UNCHANGED serving
     \/ failTo("rmdir", "capture") /\ dir' = TRUE /\ UNCHANGED serving
     \/ goto("attempt") /\ dir' = TRUE /\ serving' = TRUE
  /\ UNCHANGED <<processVars, begun, captured, failed, closed, netVars, envVars, attempt, next, sentTo, exitStatus>>

\* The loop's head: the startup deadline, the reservation and the harness.
AttemptFails ==
  /\ pc = "attempt"
  /\ fail(IF startupDone THEN "startup_timeout" ELSE "harness")
  /\ UNCHANGED <<processVars, captureVars, netVars, envVars, attempt, next, sentTo, dir, exitStatus>>

freshProcess ==
  /\ status' = "none" /\ sent' = {} /\ kids' = [k \in Kids |-> "unborn"] /\ pipe' = {}
  /\ out' = {} /\ seen' = {} /\ waited' = "running" /\ forced' = FALSE
  /\ stopAt' = "idle" /\ stopGraceful' = FALSE /\ stopResult' = "none" /\ killFailed' = FALSE

\* The reservation is closed and startProcess called: it assigns process
\* either way.
AttemptStarts ==
  /\ pc = "attempt" /\ ~startupDone
  /\ freshProcess
  /\ \/ goto("connect") /\ leader' = "alive" /\ exitStatus' = "running"
     \/ /\ attempt = 1 \/ RestartCanFail
        /\ fail("process_start") /\ leader' = "none" /\ UNCHANGED exitStatus
  /\ owner' = "none" /\ conn' = "none"
  /\ UNCHANGED <<captureVars, envVars, attempt, next, sentTo, dir>>

-----------------------------------------------------------------------------
(* Readiness and the retry                                                 *)

\* Mutant of Connect: the wait for the endpoint ignores readyCtx.
ConnectForever ==
  /\ pc = "connect"
  /\ owner # "none" /\ conn' = owner /\ goto("ready")
  /\ UNCHANGED <<processVars, captureVars, owner, envVars, attempt, next, sentTo, dir, exitStatus>>

\* connectReceiver
Connect ==
  /\ pc = "connect"
  /\ \/ owner # "none" /\ conn' = owner /\ goto("ready")
     \/ readyCtxDone /\ conn' = "none" /\ goto("unready")
  /\ UNCHANGED <<processVars, captureVars, owner, envVars, attempt, next, sentTo, dir, exitStatus>>

\* Mutant of AwaitReady: a reachable endpoint is taken for readiness.
AwaitReachable ==
  /\ pc = "ready"
  /\ \/ ~P!exited /\ goto("send")
     \/ readyCtxDone /\ goto("unready")
  /\ UNCHANGED <<processVars, captureVars, netVars, envVars, attempt, next, sentTo, dir, exitStatus>>

\* waitCollectorReadiness and the check for an exit that follows it.
AwaitReady ==
  /\ pc = "ready"
  /\ \/ "ready" \in seen /\ ~P!exited /\ goto("send")
     \/ readyCtxDone /\ goto("unready")
  /\ UNCHANGED <<processVars, captureVars, netVars, envVars, attempt, next, sentTo, dir, exitStatus>>

\* Mutant of StartupExit: an exited leader needs no stop.
StartupExitUnstopped ==
  /\ pc = "unready" /\ P!exited
  /\ conn' = "none"
  /\ goto("retry")
  /\ UNCHANGED <<processVars, captureVars, owner, envVars, attempt, next, sentTo, dir, exitStatus>>

\* Not ready, and the Collector has exited: its group is killed first.
StartupExit ==
  /\ pc = "unready" /\ P!exited
  /\ conn' = "none"
  /\ P!StopCall(FALSE)
  /\ goto("retry")
  /\ UNCHANGED <<captureVars, owner, envVars, attempt, next, sentTo, dir, exitStatus>>

\* Not ready for any other reason.
StartupFails ==
  /\ pc = "unready" /\ ~P!exited
  /\ conn' = "none"
  /\ fail(IF failed THEN "capture" ELSE IF ctx # "live" THEN ctx ELSE "startup_timeout")
  /\ UNCHANGED <<processVars, captureVars, owner, envVars, attempt, next, sentTo, dir, exitStatus>>

\* What processFailure may find in the tail of the output, from which a bind
\* conflict may have gone.  Its categories that are never retried are one here.
processFailures ==
  {"process_exit"} \cup (IF "bind" \in seen THEN {"bind_conflict"} ELSE {})

\* Mutant of RetryOrFail: one attempt too many.
RetryOnceMore ==
  /\ pc = "retry" /\ stopAt = "idle"
  /\ \E c \in processFailures :
       IF c = "bind_conflict" /\ attempt <= MaxAttempts
         THEN goto("attempt") /\ attempt' = attempt + 1
         ELSE fail(c) /\ UNCHANGED attempt
  /\ UNCHANGED <<processVars, captureVars, netVars, envVars, next, sentTo, dir, exitStatus>>

\* Only a bind conflict is worth another port.
RetryOrFail ==
  /\ pc = "retry" /\ stopAt = "idle"
  /\ \E c \in processFailures :
       IF c = "bind_conflict" /\ attempt < MaxAttempts
         THEN goto("attempt") /\ attempt' = attempt + 1
         ELSE fail(c) /\ UNCHANGED attempt
  /\ UNCHANGED <<processVars, captureVars, netVars, envVars, next, sentTo, dir, exitStatus>>

-----------------------------------------------------------------------------
(* Submission, settling and the verdict                                    *)

\* One Export of submitFixture succeeds; the next signal follows.
Submit ==
  /\ pc = "send" /\ next <= Signals
  /\ conn \in {"collector", "rival"}
  /\ sentTo' = sentTo \cup {conn}
  /\ next' = next + 1
  /\ UNCHANGED <<processVars, captureVars, netVars, envVars, pc, attempt, dir, category, exitStatus>>

\* An RPC error or a partial success; what the peer accepted is uncertain.
SubmitFails ==
  /\ pc = "send" /\ next <= Signals
  /\ sentTo' \in {sentTo} \cup {sentTo \cup {c} : c \in {conn} \cap {"collector", "rival"}}
  /\ fail(IF ctx # "live" THEN ctx ELSE IF failed THEN "capture" ELSE "submission")
  /\ UNCHANGED <<processVars, captureVars, netVars, envVars, attempt, next, dir, exitStatus>>

\* The settling begins, of a Collector that is up or of one already dead.
Submitted ==
  /\ pc = "send" /\ next > Signals
  /\ goto(IF leader = "alive" THEN "settle" ELSE "settle_dead")
  /\ UNCHANGED <<processVars, captureVars, netVars, envVars, attempt, next, sentTo, dir, exitStatus>>

\* The select may take any case that is ready, the timer's too.  A timer
\* longer than WaitDelay gives a Collector that died before it began the time
\* to be noticed.
Settle ==
  /\ pc \in {"settle", "settle_dead"}
  /\ \/ ctx # "live" /\ fail(ctx)
     \/ P!exited /\ fail("process_exit")
     \/ failed /\ fail("capture")
     \/ (pc = "settle_dead" /\ SettleCoversWait => P!exited) /\ goto("check")
  /\ UNCHANGED <<processVars, captureVars, netVars, envVars, attempt, next, sentTo, dir, exitStatus>>

EarlyExit ==
  /\ pc = "check" /\ P!exited
  /\ fail("process_exit")
  /\ UNCHANGED <<processVars, captureVars, netVars, envVars, attempt, next, sentTo, dir, exitStatus>>

Shutdown ==
  /\ pc = "check" /\ ~P!exited
  /\ P!StopCall(TRUE)
  /\ goto("shutdown")
  /\ UNCHANGED <<captureVars, netVars, envVars, attempt, next, sentTo, dir, exitStatus>>

\* Mutant of verdict: the logs are not asked for export failures.
verdictWithoutLogs ==
  IF stopResult # "ok" THEN IF ctx # "live" THEN ctx ELSE "shutdown"
  ELSE IF waited # "nil" THEN "process_exit"
  ELSE IF ctx # "live" THEN ctx
  ELSE "none"

\* After the graceful stop: record, then the checks in the code's order.
verdict ==
  IF stopResult # "ok" THEN IF ctx # "live" THEN ctx ELSE "shutdown"
  ELSE IF waited # "nil" THEN "process_exit"
  ELSE IF ctx # "live" THEN ctx
  ELSE IF "export_failure" \in seen THEN "export"
  ELSE "none"

Decide ==
  /\ pc = "shutdown" /\ stopAt = "idle"
  /\ exitStatus' = P!record
  /\ fail(verdict)
  /\ UNCHANGED <<processVars, captureVars, netVars, envVars, attempt, next, sentTo, dir>>

-----------------------------------------------------------------------------
(* The deferred calls                                                      *)

\* Mutant of failIfFirst: no test of runErr.
failAnyway(c) == c

failIfFirst(c) == IF category = "none" THEN c ELSE category

\* Mutant of DeferStop: only a Collector that is still up is stopped.
DeferStopRunning ==
  /\ pc = "defer"
  /\ conn' = "none"
  /\ IF leader = "none" \/ P!exited
       THEN pc' = "close" /\ UNCHANGED processVars
       ELSE pc' = "deferred" /\ P!StopCall(FALSE)
  /\ UNCHANGED <<captureVars, owner, envVars, attempt, next, sentTo, dir, category, exitStatus>>

\* Mutant of DeferStop: the capture is closed only when there is a process.
DeferStopAndCapture ==
  /\ pc = "defer"
  /\ conn' = "none"
  /\ IF leader = "none" THEN pc' = "rmdir" /\ UNCHANGED processVars
                        ELSE pc' = "deferred" /\ P!StopCall(FALSE)
  /\ UNCHANGED <<captureVars, owner, envVars, attempt, next, sentTo, dir, category, exitStatus>>

\* conn.Close, then process.stop when there is a process.
DeferStop ==
  /\ pc = "defer"
  /\ conn' = "none"
  /\ IF leader = "none" THEN pc' = "close" /\ UNCHANGED processVars
                        ELSE pc' = "deferred" /\ P!StopCall(FALSE)
  /\ UNCHANGED <<captureVars, owner, envVars, attempt, next, sentTo, dir, category, exitStatus>>

\* Mutant of DeferStopped: no record.
DeferStoppedUnrecorded ==
  /\ pc = "deferred" /\ stopAt = "idle"
  /\ category' = IF stopResult # "ok" THEN failIfFirst("cleanup") ELSE category
  /\ pc' = "close"
  /\ UNCHANGED <<processVars, captureVars, netVars, envVars, attempt, next, sentTo, dir, exitStatus>>

\* A stop of a process that had exited returns no error, so its result needs
\* no further test.
DeferStopped ==
  /\ pc = "deferred" /\ stopAt = "idle"
  /\ category' = IF stopResult # "ok" THEN failIfFirst("cleanup") ELSE category
  /\ exitStatus' = P!record
  /\ pc' = "close"
  /\ UNCHANGED <<processVars, captureVars, netVars, envVars, attempt, next, sentTo, dir>>

\* Mutant of CloseCapture: the capture is closed before the Collector stops.
CloseCaptureFirst ==
  /\ pc \in {"defer", "close"}
  /\ C!Seal
  /\ category' = IF failed THEN failIfFirst("capture") ELSE category
  /\ pc' = IF pc = "defer" THEN "defer" ELSE "rmdir"
  /\ UNCHANGED <<serving, processVars, netVars, envVars, attempt, next, sentTo, dir, exitStatus>>

\* sink.close, normalized and failureCategory: closed is final.
CloseCapture ==
  /\ pc = "close"
  /\ C!Seal
  /\ category' = IF failed THEN failIfFirst("capture") ELSE category
  /\ pc' = "rmdir"
  /\ UNCHANGED <<serving, processVars, netVars, envVars, attempt, next, sentTo, dir, exitStatus>>

RemoveDir ==
  /\ pc = "rmdir"
  /\ \/ dir' = FALSE /\ UNCHANGED category
     \/ category' = failIfFirst("cleanup") /\ UNCHANGED dir
  /\ pc' = "returned"
  /\ UNCHANGED <<processVars, captureVars, netVars, envVars, attempt, next, sentTo, exitStatus>>

-----------------------------------------------------------------------------
Startup == Connect \/ AwaitReady \/ StartupExit \/ StartupFails \/ RetryOrFail
Execute == Submit \/ SubmitFails \/ Submitted \/ Settle \/ EarlyExit \/ Shutdown \/ Decide
Cleanup == DeferStop \/ DeferStopped \/ CloseCapture \/ RemoveDir
Runner  == Prepare \/ Setup \/ AttemptFails \/ AttemptStarts \/ Startup \/ Execute \/ Cleanup

Next == Environment \/ WaitSteps \/ StopSteps \/ Runner

Spec == Init /\ [][Next]_vars

\* The runner and its goroutines run; the run deadline passes; SIGKILL takes
\* effect; close() gives up on a client that never lets go.  Nothing is
\* assumed of the Collector or of the rival.
Fairness ==
  /\ WF_vars(Runner) /\ WF_vars(StopSteps) /\ WF_vars(ContextEnds)
  /\ WF_vars(pc = "close" /\ (CaptureWorks \/ CloseCapture))

FairSpec == Spec /\ Fairness

-----------------------------------------------------------------------------
(* Properties *)

ranCollector == exitStatus # "not_started"

\* A run that reports success is evidence about the processors: the whole
\* fixture was accepted, the Collector then ended by itself with status zero,
\* it never reported telemetry it could not deliver, and the capture holds
\* every request it ever began.
SuccessIsEvidence ==
  (pc = "returned" /\ category = "none" /\ ranCollector) =>
    /\ next > Signals
    /\ status = "zero" /\ ~forced /\ exitStatus = "exited"
    /\ ~lost
    /\ closed /\ ~failed /\ captured = begun

\* A successful run sent the fixture to its own Collector and to nobody else
\* (docs/real-collector-runner.md: readiness prevents "transmission to a
\* competing port owner during startup").
TransmittedToCollector ==
  (pc = "returned" /\ category = "none" /\ ranCollector) => sentTo = {"collector"}

\* Whatever failed and wherever, the return leaves no live process in the
\* group, no open capture service once one was started, with or without a
\* Collector, and no directory that goes unreported.
CleanedUp ==
  pc = "returned" =>
    /\ ranCollector /\ ~killFailed => P!GroupKilled
    /\ serving => closed
    /\ dir => category # "none"

\* The capture service is closed only when no Collector can be flushing into
\* it: batch processors export during shutdown (capture.go 88).
CaptureOutlivesCollector ==
  closed /\ ~killFailed => leader # "alive" \/ "kill" \in sent

\* The category in the report is the first failure's: cleanup errors and
\* capture failures never hide the cause.
FirstFailureWins == [][category # "none" => category' = category]_vars

\* A new attempt starts only when the group of the one before is dead or
\* dying, so two Collectors never share the capture service.
AttemptsDoNotOverlap ==
  [][attempt' # attempt /\ ~killFailed => leader = "reaped" /\ P!GroupKilled]_vars

\* The reported exit status is final: "running" is said of a process only if
\* it could not be reaped.
StatusIsFinal ==
  pc = "returned" =>
    /\ exitStatus = "running" => leader # "none" /\ ~P!exited
    /\ exitStatus = "exited" => status \in {"zero", "nonzero"}

\* Run returns, whatever the Collector, its descendants and the port's other
\* users do.
RunReturns == <>(pc = "returned")
=============================================================================
