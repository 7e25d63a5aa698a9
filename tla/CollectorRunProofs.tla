-------------------------- MODULE CollectorRunProofs --------------------------
(***************************************************************************)
(* Safety of CollectorRun for every number of descendants, requests,       *)
(* signals and attempts.  What its child process does is taken from        *)
(* ChildProcessProofs: a step of Run is a step of ChildProcess, leaves the *)
(* process alone, or replaces it by a fresh one, so the invariants proved  *)
(* there hold of the process of every attempt.                             *)
(***************************************************************************)
EXTENDS CollectorRun, TLAPS

L == INSTANCE ChildProcessProofs

ProcessInv == L!TypeOK /\ L!KilledInv /\ L!WaitInv /\ L!VerdictInv

Startups == {"prepare", "setup", "attempt", "connect", "ready", "unready", "retry"}
Cleanups == {"defer", "deferred", "close", "rmdir"}

\* Where Run stands and what its process, its capture service and its
\* directory have been through by then.
ControlInv ==
  /\ stopAt # "idle" => pc \in {"retry", "shutdown", "deferred"}
  /\ stopAt = "leave" => stopResult # "none"
  /\ pc \in {"retry", "shutdown", "deferred"} /\ stopAt = "idle" => stopResult # "none"
  /\ pc = "retry" => waited # "running"
  /\ pc = "shutdown" => stopGraceful
  /\ pc \in {"close", "rmdir", "returned"} => leader = "none" \/ stopResult # "none"
  /\ leader = "none" => kids = [k \in Kids |-> "unborn"]
  /\ pc \in {"prepare", "setup"} => leader = "none" /\ exitStatus = "not_started" /\ ~dir
  /\ pc \in {"prepare", "setup"} => ~serving
  /\ pc \notin {"prepare", "setup", "rmdir", "returned"} \/ exitStatus # "not_started" => serving
  /\ category # "none" => pc \in Cleanups \cup {"returned"}
  /\ closed => pc \in {"rmdir", "returned"}
  /\ pc \in {"rmdir", "returned"} /\ serving => closed
  /\ pc = "returned" /\ dir => category # "none"

\* The verdict of Decide, and what keeps it true until Run returns.
Clean ==
  /\ next > Signals
  /\ waited = "nil" /\ stopResult = "ok" /\ ~forced
  /\ exitStatus = "exited"
  /\ "export_failure" \notin seen

EvidenceInv ==
  /\ sentTo # {} => pc \notin Startups
  /\ lost => sentTo # {} /\ "export_failure" \in out
  /\ closed => IF failed THEN category # "none" ELSE captured = begun
  /\ pc \in {"settle", "settle_dead", "check", "shutdown"} => next > Signals
  /\ pc \in Cleanups /\ category = "none" => Clean
  /\ pc = "returned" /\ category = "none" /\ exitStatus # "not_started" => Clean
  /\ pc = "deferred" /\ category = "none" => stopAt \in {"entry", "leave", "idle"}

-----------------------------------------------------------------------------
(* The two instances of ChildProcess are the same process.                 *)

LEMMA SameWait == P!WaitNext => L!WaitNext
BY DEF P!WaitNext, L!WaitNext, P!Copy, P!Reap, P!WaitDrained, P!WaitDelayed,
   L!Copy, L!Reap, L!WaitDrained, L!WaitDelayed, P!groupVars, L!groupVars,
   P!waitVars, L!waitVars, P!stopVars, L!stopVars

LEMMA SameCall == ASSUME NEW g \in BOOLEAN, P!StopCall(g) PROVE L!Next
<1>1. L!StopCall(g)
  BY DEF P!StopCall, L!StopCall, P!groupVars, L!groupVars, P!waitVars, L!waitVars
<1> QED BY <1>1 DEF L!Next

LEMMA SameStop == P!StopNext => L!StopNext
<1> USE DEF P!KillGroup, L!KillGroup, P!DeferredKill, L!DeferredKill, P!exited, L!exited,
            P!groupVars, L!groupVars, P!waitVars, L!waitVars
<1>1. P!StopEntry => L!StopEntry
  BY DEF P!StopEntry, L!StopEntry
<1>2. P!StopTerm => L!StopTerm
  BY DEF P!StopTerm, L!StopTerm
<1>3. (P!GraceDone => L!GraceDone) /\ (P!GraceExpires => L!GraceExpires)
  BY DEF P!GraceDone, L!GraceDone, P!GraceExpires, L!GraceExpires
<1>4. P!StopKill => L!StopKill
  BY DEF P!StopKill, L!StopKill
<1>5. (P!ReapDone => L!ReapDone) /\ (P!ReapTimeout => L!ReapTimeout)
  BY DEF P!ReapDone, L!ReapDone, P!ReapTimeout, L!ReapTimeout
<1>6. P!StopLeave => L!StopLeave
  BY DEF P!StopLeave, L!StopLeave
<1> QED BY <1>1, <1>2, <1>3, <1>4, <1>5, <1>6 DEF P!StopNext, L!StopNext

\* Every step of the environment leaves the process alone or is one of its
\* group's.
LEMMA SameGroup == Environment => L!GroupNext \/ UNCHANGED processVars
<1> SUFFICES ASSUME Environment PROVE L!GroupNext \/ UNCHANGED processVars
  OBVIOUS
<1> USE DEF P!groupVars, L!groupVars, P!waitVars, L!waitVars, P!stopVars, L!stopVars,
            P!Members, L!Members
<1>1. ASSUME NEW t \in Text, P!Emit(t) PROVE L!GroupNext
  <2>1. L!Emit(t)
    BY <1>1 DEF P!Emit, L!Emit
  <2> QED BY <2>1 DEF L!GroupNext
<1>2. ASSUME NEW k \in Kids, P!Fork(k) \/ P!Escape(k) \/ P!ClosePipe(k) \/ P!KidExit(k)
      PROVE L!GroupNext
  <2>1. L!Fork(k) \/ L!Escape(k) \/ L!ClosePipe(k) \/ L!KidExit(k)
    BY <1>2 DEF P!Fork, P!Escape, P!ClosePipe, P!KidExit, L!Fork, L!Escape, L!ClosePipe, L!KidExit
  <2> QED BY <2>1 DEF L!GroupNext
<1>3. ASSUME NEW s \in P!Statuses, P!LeaderExit(s) PROVE L!GroupNext
  <2>1. L!LeaderExit(s)
    BY <1>3 DEF P!LeaderExit, L!LeaderExit
  <2> QED BY <2>1 DEF L!GroupNext, P!Statuses, L!Statuses
<1>4. CASE CollectorSays \/ CollectorLoses
  BY <1>1, <1>4 DEF CollectorSays, CollectorLoses, Text
<1>5. CASE DescendantSteps
  BY <1>2, <1>5 DEF DescendantSteps
<1>6. ASSUME NEW s \in P!Statuses, CollectorDies(s) PROVE L!GroupNext
  BY <1>3, <1>6 DEF CollectorDies
<1>7. CASE \/ ContextEnds \/ StartupExpires \/ CollectorBinds \/ CaptureWorks
           \/ RivalBinds \/ RivalStopsListening \/ Reconnects
           \/ \E r \in Requests : CollectorExports(r)
  BY <1>7 DEF ContextEnds, StartupExpires, CollectorBinds, CaptureWorks,
     RivalBinds, RivalStopsListening, Reconnects, CollectorExports
<1> QED BY <1>4, <1>5, <1>6, <1>7 DEF Environment

\* Every statement of Run leaves the process alone, calls its stop, or starts
\* a fresh one.
LEMMA SameRun == Runner => L!Next \/ UNCHANGED processVars \/ AttemptStarts
<1> SUFFICES ASSUME Runner PROVE L!Next \/ UNCHANGED processVars \/ AttemptStarts
  OBVIOUS
<1>1. CASE StartupExit \/ Shutdown \/ DeferStop
  BY <1>1, SameCall DEF StartupExit, Shutdown, DeferStop
<1>2. CASE \/ Prepare \/ Setup \/ AttemptFails \/ Connect \/ AwaitReady \/ StartupFails
           \/ RetryOrFail \/ Submit \/ SubmitFails \/ Submitted \/ Settle \/ EarlyExit
           \/ Decide \/ DeferStopped \/ CloseCapture \/ RemoveDir
  BY <1>2 DEF Prepare, Setup, AttemptFails, Connect, AwaitReady, StartupFails, RetryOrFail,
     Submit, SubmitFails, Submitted, Settle, EarlyExit, Decide, DeferStopped, CloseCapture, RemoveDir
<1> QED BY <1>1, <1>2 DEF Runner, Startup, Execute, Cleanup

\* The invariants of ChildProcess hold of the process of every attempt.
LEMMA ProcessStep == ProcessInv /\ [Next]_vars => ProcessInv'
<1> SUFFICES ASSUME ProcessInv, [Next]_vars PROVE ProcessInv'
  OBVIOUS
<1> USE DEF ProcessInv
<1>1. ASSUME [L!Next]_(L!vars) PROVE ProcessInv'
  <2>1. P!ConstantsAssumption <=> L!ConstantsAssumption
    BY DEF P!ConstantsAssumption, L!ConstantsAssumption
  <2>2. L!TypeOK'
    BY <1>1, <2>1, RunAssumption, L!TypeStep DEF RunAssumption
  <2>3. L!KilledInv'
    BY <1>1, <2>1, RunAssumption, L!KilledStep DEF RunAssumption
  <2>4. L!WaitInv'
    BY <1>1, <2>1, RunAssumption, L!WaitStep DEF RunAssumption
  <2>5. L!VerdictInv'
    BY <1>1, <2>1, RunAssumption, L!VerdictStep DEF RunAssumption
  <2> QED BY <2>2, <2>3, <2>4, <2>5
<1>2. CASE AttemptStarts
  <2> USE <1>2 DEF AttemptStarts, freshProcess
  <2>1. L!TypeOK'
    BY DEF L!TypeOK, L!Statuses, L!Returned, L!StopSteps, L!Results
  <2>2. L!KilledInv'
    BY DEF L!KilledInv, L!Members
  <2>3. L!WaitInv'
    BY DEF L!WaitInv, L!LogsComplete, L!exited
  <2>4. L!VerdictInv'
    BY DEF L!VerdictInv, L!StopVerdict, L!exited
  <2> QED BY <2>1, <2>2, <2>3, <2>4
<1>3. UNCHANGED processVars => UNCHANGED L!vars
  BY DEF processVars, L!vars, L!groupVars, L!waitVars, L!stopVars
<1>4. CASE Environment
  BY <1>1, <1>3, <1>4, SameGroup DEF L!Next
<1>5. CASE WaitSteps \/ StopSteps
  BY <1>1, <1>5, SameWait, SameStop DEF L!Next, WaitSteps, StopSteps
<1>6. CASE Runner
  BY <1>1, <1>2, <1>3, <1>6, SameRun
<1>7. CASE UNCHANGED vars
  BY <1>1, <1>3, <1>7 DEF vars
<1> QED BY <1>4, <1>5, <1>6, <1>7 DEF Next

-----------------------------------------------------------------------------
(* What the actors besides Run may change.                                 *)

\* The environment never touches what Run and the goroutines of its process
\* keep, nor a capture that is closed.
LEMMA EnvironmentKeeps ==
  ASSUME Environment
  PROVE  /\ UNCHANGED <<runVars, sent, waited, seen>>
         /\ UNCHANGED <<forced, stopAt, stopGraceful, stopResult, killFailed>>
         /\ UNCHANGED <<closed, serving>>
         /\ closed => UNCHANGED <<begun, captured, failed>>
         /\ leader' = leader \/ (leader = "alive" /\ leader' = "zombie")
         /\ out \subseteq out'
         /\ lost' => lost \/ (sentTo # {} /\ "export_failure" \in out')
<1> USE DEF processVars, captureVars, netVars, envVars, P!waitVars, P!stopVars,
            C!Begin, C!Take, C!Fail, P!Emit, P!LeaderExit
<1>1. CASE ContextEnds \/ StartupExpires \/ CollectorBinds
  BY <1>1 DEF ContextEnds, StartupExpires, CollectorBinds
<1>2. CASE CollectorSays \/ CollectorLoses
  BY <1>2 DEF CollectorSays, CollectorLoses
<1>3. CASE DescendantSteps
  BY <1>3 DEF DescendantSteps, P!Fork, P!Escape, P!ClosePipe, P!KidExit
<1>4. CASE \E s \in P!Statuses : CollectorDies(s)
  BY <1>4 DEF CollectorDies
<1>5. CASE CaptureWorks \/ \E r \in Requests : CollectorExports(r)
  BY <1>5 DEF CaptureWorks, CollectorExports
<1>6. CASE RivalBinds \/ RivalStopsListening \/ Reconnects
  BY <1>6 DEF RivalBinds, RivalStopsListening, Reconnects
<1> QED BY <1>1, <1>2, <1>3, <1>4, <1>5, <1>6 DEF Environment

\* A process that was never started has no descendants to act.
LEMMA NoProcessNoKids ==
  ASSUME kids = [k \in Kids |-> "unborn"], leader = "none", Environment
  PROVE  kids' = kids
<1>1. P!Members = {}
  BY DEF P!Members
<1>2. DescendantSteps => kids' = kids
  BY <1>1 DEF DescendantSteps, P!Fork, P!Escape, P!ClosePipe, P!KidExit
<1>3. CASE ~DescendantSteps
  BY <1>3 DEF Environment, ContextEnds, StartupExpires, CollectorBinds, CollectorSays,
     CollectorLoses, CollectorExports, CollectorDies, CaptureWorks, RivalBinds,
     RivalStopsListening, Reconnects, P!Emit, P!LeaderExit, processVars
<1> QED BY <1>2, <1>3

\* cmd.Wait gives its verdict once.
LEMMA WaitKeeps ==
  ASSUME WaitSteps
  PROVE  /\ UNCHANGED <<runVars, captureVars, envVars, sent, kids, out>>
         /\ UNCHANGED <<forced, stopAt, stopGraceful, stopResult, killFailed>>
         /\ waited # "running" => UNCHANGED <<waited, seen>>
         /\ leader' = leader \/ (leader = "zombie" /\ leader' = "reaped")
BY DEF WaitSteps, P!WaitNext, P!Copy, P!Reap, P!WaitDrained, P!WaitDelayed,
   P!groupVars, P!waitVars, P!stopVars

\* Inside stop: a return sets the result first, and a process that has exited
\* is not killed again.
LEMMA StopKeeps ==
  ASSUME StopSteps
  PROVE  /\ UNCHANGED <<runVars, captureVars, envVars, leader, out, waited, seen, stopGraceful>>
         /\ stopAt # "idle"
         /\ stopAt' = "idle" => stopAt = "leave" /\ stopResult' = stopResult
         /\ stopAt' = "leave" => stopResult' # "none"
         /\ stopResult # "none" => stopResult' # "none"
         /\ stopAt = "entry" /\ waited # "running" => stopAt' = "leave" /\ stopResult' = "ok" /\ forced' = forced
         /\ stopAt = "leave" => stopAt' = "idle" /\ UNCHANGED <<forced, stopResult>>
         /\ kids = [k \in Kids |-> "unborn"] => kids' = kids
<1> USE DEF StopSteps, P!groupVars, P!waitVars, P!exited, P!KillGroup
<1>1. CASE P!StopEntry
  BY <1>1 DEF P!StopEntry
<1>2. CASE P!StopTerm
  BY <1>2 DEF P!StopTerm
<1>3. CASE P!GraceDone \/ P!GraceExpires \/ P!ReapDone \/ P!ReapTimeout
  BY <1>3 DEF P!GraceDone, P!GraceExpires, P!ReapDone, P!ReapTimeout
<1>4. CASE P!StopKill
  BY <1>4 DEF P!StopKill
<1>5. CASE P!StopLeave
  BY <1>5 DEF P!StopLeave, P!DeferredKill
<1> QED BY <1>1, <1>2, <1>3, <1>4, <1>5 DEF P!StopNext

-----------------------------------------------------------------------------
(* Types.                                                                  *)

LEMMA RunTypeStep == TypeOK /\ ProcessInv' /\ [Next]_vars => TypeOK'
<1> SUFFICES ASSUME TypeOK, ProcessInv', [Next]_vars PROVE TypeOK'
  OBVIOUS
<1>1. P!TypeOK'
  BY DEF ProcessInv, P!TypeOK, L!TypeOK, P!Statuses, L!Statuses, P!Returned, L!Returned,
     P!StopSteps, L!StopSteps, P!Results, L!Results
<1> USE <1>1 DEF TypeOK, Categories, Contexts, processVars, captureVars, netVars, runVars, envVars
<1>2. MaxAttempts \in Nat \ {0} /\ Signals \in 1..3
  BY RunAssumption DEF RunAssumption
<1>3. CASE Environment
  <2>1. CASE ContextEnds
    BY <2>1 DEF ContextEnds
  <2>2. CASE StartupExpires
    BY <2>2 DEF StartupExpires
  <2>3. CASE CollectorBinds
    BY <2>3 DEF CollectorBinds
  <2>4. CASE CollectorSays
    BY <2>4 DEF CollectorSays
  <2>5. CASE CollectorLoses
    BY <2>5 DEF CollectorLoses
  <2>6. CASE DescendantSteps
    BY <2>6 DEF DescendantSteps
  <2>7. ASSUME NEW r \in Requests, CollectorExports(r) PROVE TypeOK'
    BY <2>7 DEF CollectorExports, C!Begin
  <2>8. CASE CaptureWorks
    <3>1. ASSUME NEW r \in Requests, C!Take(r) PROVE captured' \subseteq Requests
      BY <3>1 DEF C!Take
    <3>2. C!Fail \/ \E r \in Requests : C!Take(r)
      BY <2>8 DEF CaptureWorks
    <3>3. begun' = begun /\ captured' \subseteq Requests /\ failed' \in BOOLEAN /\ UNCHANGED <<closed, serving>>
      BY <2>8, <3>1, <3>2 DEF CaptureWorks, C!Take, C!Fail
    <3> QED BY <2>8, <3>3 DEF CaptureWorks
  <2>9. ASSUME NEW s \in P!Statuses, CollectorDies(s) PROVE TypeOK'
    BY <2>9 DEF CollectorDies
  <2>10. CASE RivalBinds
    BY <2>10 DEF RivalBinds
  <2>11. CASE RivalStopsListening
    BY <2>11 DEF RivalStopsListening
  <2>12. CASE Reconnects
    BY <2>12 DEF Reconnects
  <2> QED BY <1>3, <2>1, <2>2, <2>3, <2>4, <2>5, <2>6, <2>7, <2>8, <2>9, <2>10, <2>11, <2>12
          DEF Environment
<1>4. CASE WaitSteps \/ StopSteps
  <2>1. CASE WaitSteps
    BY <2>1 DEF WaitSteps
  <2>2. CASE StopSteps
    BY <2>2 DEF StopSteps
  <2> QED BY <1>4, <2>1, <2>2
<1>5. CASE Runner
  <2> USE DEF goto, fail, failTo
  <2>1. CASE Prepare
    BY <2>1 DEF Prepare
  <2>2. CASE Setup
    <3>1. pc' \in {"returned", "rmdir", "attempt"} /\ dir' \in BOOLEAN
      BY <2>2 DEF Setup
    <3>2. category' \in {category, "harness", "capture"}
      BY <2>2 DEF Setup
    <3>3. /\ serving' \in BOOLEAN
          /\ UNCHANGED <<processVars, begun, captured, failed, closed, netVars, envVars,
                         attempt, next, sentTo, exitStatus>>
      BY <2>2 DEF Setup
    <3> QED BY <3>1, <3>2, <3>3
  <2>3. CASE AttemptFails
    BY <2>3 DEF AttemptFails
  <2>4. CASE AttemptStarts
    BY <2>4 DEF AttemptStarts
  <2>5. CASE Connect
    BY <2>5 DEF Connect
  <2>6. CASE AwaitReady
    BY <2>6 DEF AwaitReady
  <2>7. CASE StartupExit
    BY <2>7 DEF StartupExit
  <2>8. CASE StartupFails
    BY <2>8 DEF StartupFails
  <2>9. CASE RetryOrFail
    BY <1>2, <2>9 DEF RetryOrFail, processFailures
  <2>10. CASE Submit
    BY <1>2, <2>10 DEF Submit
  <2>11. CASE SubmitFails
    <3>1. sentTo' \subseteq {"collector", "rival"}
      BY <2>11 DEF SubmitFails
    <3>2. pc' = "defer" /\ category' \in {ctx, "capture", "submission"} /\ (ctx = "live" => category' # ctx)
      BY <2>11 DEF SubmitFails
    <3>3. UNCHANGED <<processVars, captureVars, netVars, envVars, attempt, next, dir, exitStatus>>
      BY <2>11 DEF SubmitFails
    <3> QED BY <3>1, <3>2, <3>3
  <2>12. CASE Submitted
    BY <2>12 DEF Submitted
  <2>13. CASE Settle
    BY <2>13 DEF Settle
  <2>14. CASE EarlyExit
    BY <2>14 DEF EarlyExit
  <2>15. CASE Shutdown
    BY <2>15 DEF Shutdown
  <2>16. CASE Decide
    BY <2>16 DEF Decide, verdict, P!record
  <2>17. CASE DeferStop
    <3>1. pc' \in {"close", "deferred"} /\ conn' = "none"
      BY <2>17 DEF DeferStop
    <3>2. UNCHANGED <<captureVars, owner, envVars, attempt, next, sentTo, dir, category, exitStatus>>
      BY <2>17 DEF DeferStop
    <3> QED BY <3>1, <3>2
  <2>18. CASE DeferStopped
    BY <2>18 DEF DeferStopped, P!record, failIfFirst
  <2>19. CASE CloseCapture
    BY <2>19 DEF CloseCapture, C!Seal, failIfFirst
  <2>20. CASE RemoveDir
    <3>1. pc' = "returned" /\ dir' \in BOOLEAN /\ category' \in {category, "cleanup"}
      BY <2>20 DEF RemoveDir, failIfFirst
    <3>2. UNCHANGED <<processVars, captureVars, netVars, envVars, attempt, next, sentTo, exitStatus>>
      BY <2>20 DEF RemoveDir
    <3> QED BY <3>1, <3>2
  <2> QED BY <1>5, <2>1, <2>2, <2>3, <2>4, <2>5, <2>6, <2>7, <2>8, <2>9, <2>10, <2>11,
             <2>12, <2>13, <2>14, <2>15, <2>16, <2>17, <2>18, <2>19, <2>20
          DEF Runner, Startup, Execute, Cleanup
<1>6. CASE UNCHANGED vars
  BY <1>6 DEF vars
<1> QED BY <1>3, <1>4, <1>5, <1>6 DEF Next

-----------------------------------------------------------------------------
(* Control.                                                                *)

LEMMA ControlStep == TypeOK /\ ProcessInv /\ ControlInv /\ [Next]_vars => ControlInv'
<1> SUFFICES ASSUME TypeOK, ProcessInv, ControlInv, [Next]_vars PROVE ControlInv'
  OBVIOUS
<1> USE DEF ControlInv, Cleanups
<1>1. CASE Environment
  BY <1>1, EnvironmentKeeps, NoProcessNoKids DEF runVars
<1>2. CASE WaitSteps
  BY <1>2, WaitKeeps DEF runVars, captureVars
<1>3. CASE StopSteps
  BY <1>3, StopKeeps DEF runVars, captureVars
<1>4. CASE Runner
  <2> USE DEF goto, fail, failTo, processVars, captureVars, P!StopCall, P!groupVars, P!waitVars
  <2>1. CASE Prepare
    BY <2>1 DEF Prepare
  <2>2. CASE Setup
    BY <2>2 DEF Setup
  <2>3. CASE AttemptFails
    BY <2>3 DEF AttemptFails
  <2>4. CASE AttemptStarts
    BY <2>4 DEF AttemptStarts, freshProcess
  <2>5. CASE Connect \/ AwaitReady \/ StartupFails
    BY <2>5 DEF Connect, AwaitReady, StartupFails
  <2>6. CASE StartupExit
    BY <2>6 DEF StartupExit, P!exited
  <2>7. CASE RetryOrFail
    BY <2>7 DEF RetryOrFail
  <2>8. CASE Submit \/ SubmitFails \/ Submitted
    BY <2>8 DEF Submit, SubmitFails, Submitted
  <2>9. CASE Settle \/ EarlyExit
    BY <2>9 DEF Settle, EarlyExit
  <2>10. CASE Shutdown
    BY <2>10 DEF Shutdown
  <2>11. CASE Decide
    BY <2>11 DEF Decide, P!record
  <2>12. CASE DeferStop
    BY <2>12 DEF DeferStop
  <2>13. CASE DeferStopped
    BY <2>13 DEF DeferStopped, P!record, failIfFirst
  <2>14. CASE CloseCapture
    BY <2>14 DEF CloseCapture, C!Seal, failIfFirst
  <2>15. CASE RemoveDir
    BY <2>15 DEF RemoveDir, failIfFirst
  <2> QED BY <1>4, <2>1, <2>2, <2>3, <2>4, <2>5, <2>6, <2>7, <2>8, <2>9, <2>10, <2>11, <2>12,
             <2>13, <2>14, <2>15 DEF Runner, Startup, Execute, Cleanup
<1>5. CASE UNCHANGED vars
  BY <1>5 DEF vars, processVars, captureVars, runVars
<1> QED BY <1>1, <1>2, <1>3, <1>4, <1>5 DEF Next

-----------------------------------------------------------------------------
(* Evidence.                                                               *)

LEMMA EvidenceStep ==
  TypeOK /\ ProcessInv /\ ControlInv /\ EvidenceInv /\ [Next]_vars => EvidenceInv'
<1> SUFFICES ASSUME TypeOK, ProcessInv, ControlInv, EvidenceInv, [Next]_vars PROVE EvidenceInv'
  OBVIOUS
<1> USE DEF EvidenceInv, Clean, Startups, Cleanups
<1>1. CASE Environment
  BY <1>1, EnvironmentKeeps DEF runVars
<1>2. CASE WaitSteps
  BY <1>2, WaitKeeps DEF runVars, captureVars, envVars
<1>3. CASE StopSteps
  <2>1. pc = "deferred" /\ category = "none" => stopAt' \in {"leave", "idle"} /\ stopResult' = "ok" /\ forced' = forced
    BY <1>3, StopKeeps
  <2>2. pc \in {"retry", "shutdown", "deferred"}
    BY <1>3, StopKeeps DEF ControlInv
  <2> QED BY <1>3, <2>1, <2>2, StopKeeps DEF runVars, captureVars, envVars
<1>4. CASE Runner
  <2> USE DEF ControlInv, goto, fail, failTo, processVars, captureVars, envVars, P!StopCall, P!groupVars, P!waitVars
  <2>1. CASE Prepare
    BY <2>1 DEF Prepare
  <2>2. CASE Setup
    BY <2>2 DEF Setup
  <2>3. CASE AttemptFails
    BY <2>3 DEF AttemptFails
  <2>4. CASE AttemptStarts
    BY <2>4 DEF AttemptStarts, freshProcess
  <2>5. CASE Connect \/ AwaitReady \/ StartupFails
    BY <2>5 DEF Connect, AwaitReady, StartupFails, TypeOK, Contexts
  <2>6. CASE StartupExit
    BY <2>6 DEF StartupExit, P!exited
  <2>7. CASE RetryOrFail
    BY <2>7 DEF RetryOrFail, processFailures
  <2>8. CASE Submit
    BY <2>8 DEF Submit
  <2>9. CASE SubmitFails
    BY <2>9 DEF SubmitFails, TypeOK, Contexts
  <2>10. CASE Submitted
    BY <2>10 DEF Submitted
  <2>11. CASE Settle \/ EarlyExit
    BY <2>11 DEF Settle, EarlyExit, TypeOK, Contexts
  <2>12. CASE Shutdown
    BY <2>12 DEF Shutdown
  <2>13. CASE Decide
    <3>1. category' = "none" =>
            /\ stopResult = "ok" /\ waited = "nil" /\ "export_failure" \notin seen
      BY <2>13 DEF Decide, verdict, TypeOK, Contexts
    <3>2. stopResult = "ok" => ~forced
      BY <2>13 DEF Decide, ProcessInv, L!VerdictInv, L!StopVerdict
    <3>3. waited = "nil" => status = "zero"
      BY DEF ProcessInv, L!WaitInv, L!LogsComplete
    <3>4. category' = "none" => exitStatus' = "exited"
      BY <2>13, <3>1, <3>2, <3>3 DEF Decide, P!record, P!exited
    <3> QED BY <2>13, <3>1, <3>2, <3>4 DEF Decide
  <2>14. CASE DeferStop
    BY <2>14 DEF DeferStop
  <2>15. CASE DeferStopped
    <3>1. waited = "nil" => status = "zero"
      BY DEF ProcessInv, L!WaitInv, L!LogsComplete
    <3>2. category' = "none" => category = "none"
      BY <2>15 DEF DeferStopped, failIfFirst
    <3>3. category' = "none" => exitStatus' = "exited"
      BY <2>15, <3>1, <3>2 DEF DeferStopped, P!record, P!exited
    <3> QED BY <2>15, <3>2, <3>3 DEF DeferStopped
  <2>16. CASE CloseCapture
    BY <2>16 DEF CloseCapture, C!Seal, failIfFirst
  <2>17. CASE RemoveDir
    BY <2>17 DEF RemoveDir, failIfFirst
  <2> QED BY <1>4, <2>1, <2>2, <2>3, <2>4, <2>5, <2>6, <2>7, <2>8, <2>9, <2>10, <2>11, <2>12,
             <2>13, <2>14, <2>15, <2>16, <2>17 DEF Runner, Startup, Execute, Cleanup
<1>5. CASE UNCHANGED vars
  BY <1>5 DEF vars, processVars, captureVars, runVars, envVars
<1> QED BY <1>1, <1>2, <1>3, <1>4, <1>5 DEF Next

-----------------------------------------------------------------------------
(* The theorems.                                                           *)

LEMMA RunInvariant == Spec => [](TypeOK /\ ProcessInv /\ ControlInv /\ EvidenceInv)
<1>1. Init => TypeOK /\ ProcessInv /\ ControlInv /\ EvidenceInv
  <2> SUFFICES ASSUME Init PROVE TypeOK /\ ProcessInv /\ ControlInv /\ EvidenceInv
    OBVIOUS
  <2> USE DEF Init, P!Init, C!Init
  <2>1. P!TypeOK /\ L!TypeOK
    BY DEF P!TypeOK, L!TypeOK, P!Statuses, L!Statuses, P!Returned, L!Returned,
       P!StopSteps, L!StopSteps, P!Results, L!Results
  <2>2. TypeOK
    <3>1. attempt \in 1..MaxAttempts /\ next \in 1..(Signals + 1)
      BY RunAssumption DEF RunAssumption
    <3> QED BY <2>1, <3>1 DEF TypeOK
  <2>3. L!KilledInv /\ L!WaitInv /\ L!VerdictInv
    BY DEF L!KilledInv, L!Members, L!WaitInv, L!LogsComplete, L!exited, L!VerdictInv, L!StopVerdict
  <2>4. ControlInv /\ EvidenceInv
    BY DEF ControlInv, EvidenceInv, Startups, Cleanups
  <2> QED BY <2>1, <2>2, <2>3, <2>4 DEF ProcessInv
<1> QED BY <1>1, ProcessStep, RunTypeStep, ControlStep, EvidenceStep, PTL DEF Spec

\* Every variable keeps to its type, for any number of attempts.
THEOREM TypeCorrect == Spec => []TypeOK
BY RunInvariant, PTL

\* A run that reports success is evidence, whatever the Collector, its
\* descendants, the port's rival and the clients of the capture service do.
THEOREM SuccessProved == Spec => []SuccessIsEvidence
<1>1. ProcessInv /\ ControlInv /\ EvidenceInv => SuccessIsEvidence
  <2> SUFFICES ASSUME ProcessInv, ControlInv, EvidenceInv, pc = "returned", category = "none", ranCollector
               PROVE  /\ next > Signals /\ status = "zero" /\ ~forced /\ exitStatus = "exited"
                      /\ ~lost /\ closed /\ ~failed /\ captured = begun
    BY DEF SuccessIsEvidence
  <2>1. Clean /\ closed
    BY DEF EvidenceInv, ControlInv, ranCollector
  <2>2. status = "zero" /\ seen = out
    BY <2>1 DEF Clean, ProcessInv, L!WaitInv, L!LogsComplete
  <2> QED BY <2>1, <2>2 DEF Clean, EvidenceInv
<1> QED BY <1>1, RunInvariant, PTL

\* Every return, from whatever failure, has killed the group of the last
\* Collector, closed the capture service if one was started, whether or not a
\* Collector was, and removed the directory or said so.
THEOREM ReturnCleansUp == Spec => []CleanedUp
<1>1. ProcessInv /\ ControlInv => CleanedUp
  <2> SUFFICES ASSUME ProcessInv, ControlInv, pc = "returned"
               PROVE  /\ ranCollector /\ ~killFailed => P!GroupKilled
                      /\ serving => closed
                      /\ dir => category # "none"
    BY DEF CleanedUp
  <2>1. CASE leader = "none"
    BY <2>1 DEF ControlInv, ranCollector, P!GroupKilled, P!Members
  <2>2. CASE stopResult # "none"
    BY <2>2 DEF ControlInv, ranCollector, ProcessInv, L!KilledInv, P!GroupKilled, P!Members, L!Members
  <2> QED BY <2>1, <2>2 DEF ControlInv
<1> QED BY <1>1, RunInvariant, PTL

\* The capture service outlives every Collector that is not being killed.
THEOREM CaptureClosedLast == Spec => []CaptureOutlivesCollector
<1>1. ProcessInv /\ ControlInv => CaptureOutlivesCollector
  BY DEF CaptureOutlivesCollector, ControlInv, ProcessInv, L!KilledInv
<1> QED BY <1>1, RunInvariant, PTL

\* The reported category is that of the first failure.
THEOREM FirstFailureReported == Spec => FirstFailureWins
<1>1. ControlInv /\ [Next]_vars => [category # "none" => category' = category]_vars
  <2> SUFFICES ASSUME ControlInv, Next, category # "none" PROVE category' = category
    BY DEF vars
  <2>1. pc \in Cleanups \cup {"returned"}
    BY DEF ControlInv
  <2>2. CASE Environment
    BY <2>2, EnvironmentKeeps DEF runVars
  <2>3. CASE WaitSteps \/ StopSteps
    BY <2>3 DEF WaitSteps, StopSteps, runVars
  <2>4. CASE Runner
    BY <2>1, <2>4 DEF Cleanups, Runner, Startup, Execute, Cleanup, Prepare, Setup, AttemptFails,
       AttemptStarts, Connect, AwaitReady, StartupExit, StartupFails, RetryOrFail, Submit,
       SubmitFails, Submitted, Settle, EarlyExit, Shutdown, Decide, DeferStop, DeferStopped,
       CloseCapture, RemoveDir, failIfFirst
  <2> QED BY <2>2, <2>3, <2>4 DEF Next
<1> QED BY <1>1, RunInvariant, PTL DEF Spec, FirstFailureWins

\* A new attempt begins only after the group of the one before was killed and
\* its leader reaped.
THEOREM OneCollectorAtATime == Spec => AttemptsDoNotOverlap
<1>1. ProcessInv /\ ControlInv /\ [Next]_vars =>
        [attempt' # attempt /\ ~killFailed => leader = "reaped" /\ P!GroupKilled]_vars
  <2> SUFFICES ASSUME ProcessInv, ControlInv, Next, attempt' # attempt, ~killFailed
               PROVE  leader = "reaped" /\ P!GroupKilled
    BY DEF vars
  <2>1. CASE Environment
    BY <2>1, EnvironmentKeeps DEF runVars
  <2>2. CASE WaitSteps \/ StopSteps
    BY <2>2 DEF WaitSteps, StopSteps, runVars
  <2>3. CASE Runner
    <3>1. pc = "retry" /\ stopAt = "idle"
      BY <2>3 DEF Runner, Startup, Execute, Cleanup, Prepare, Setup, AttemptFails,
         AttemptStarts, Connect, AwaitReady, StartupExit, StartupFails, RetryOrFail, Submit,
         SubmitFails, Submitted, Settle, EarlyExit, Shutdown, Decide, DeferStop, DeferStopped,
         CloseCapture, RemoveDir
    <3> QED BY <3>1 DEF ControlInv, ProcessInv, L!WaitInv, L!KilledInv, L!exited, L!Members,
               P!GroupKilled, P!Members
  <2> QED BY <2>1, <2>2, <2>3 DEF Next
<1> QED BY <1>1, RunInvariant, PTL DEF Spec, AttemptsDoNotOverlap

-----------------------------------------------------------------------------
(* Who got the fixture.  A Collector that said it was ready held the       *)
(* endpoint, so a rival can only hold it once that Collector is dead; a    *)
(* settling longer than WaitDelay then always notices.                     *)

Succeeding ==
  \/ pc \in {"settle", "shutdown"}
  \/ pc = "check" /\ waited = "running"
  \/ pc \in Cleanups \cup {"returned"} /\ category = "none"

EndpointInv ==
  /\ owner = "collector" => leader = "alive"
  /\ seen \subseteq out
  /\ "ready" \in out => owner = "collector" \/ leader # "alive"
  /\ conn = "rival" => owner = "rival"
  /\ pc = "send" => "ready" \in out
  /\ "rival" \in sentTo => pc \notin Startups /\ leader # "alive" /\ ~Succeeding
  /\ sentTo = {} => next = 1

LEMMA EndpointStep ==
  ASSUME ~RivalKeepsConn, SettleCoversWait, TypeOK, ProcessInv, ControlInv, EvidenceInv,
         EndpointInv, [Next]_vars
  PROVE  EndpointInv'
<1> USE DEF EndpointInv, Succeeding, Startups, Cleanups
<1>1. CASE Environment
  <2> USE DEF processVars, captureVars, netVars, runVars, envVars,
              P!waitVars, P!stopVars, P!Emit, P!LeaderExit
  <2>1. CASE ContextEnds
    BY <2>1 DEF ContextEnds
  <2>2. CASE StartupExpires
    BY <2>2 DEF StartupExpires
  <2>3. CASE CollectorBinds
    BY <2>3 DEF CollectorBinds
  <2>4. CASE CollectorSays
    BY <2>4 DEF CollectorSays
  <2>5. CASE CollectorLoses
    BY <2>5 DEF CollectorLoses
  <2>6. CASE DescendantSteps
    BY <2>6 DEF DescendantSteps, P!Fork, P!Escape, P!ClosePipe, P!KidExit
  <2>7. ASSUME NEW r \in Requests, CollectorExports(r) PROVE EndpointInv'
    BY <2>7 DEF CollectorExports
  <2>8. CASE CaptureWorks
    BY <2>8 DEF CaptureWorks
  <2>9. ASSUME NEW s \in P!Statuses, CollectorDies(s) PROVE EndpointInv'
    BY <2>9 DEF CollectorDies
  <2>10. CASE RivalBinds
    BY <2>10 DEF RivalBinds
  <2>11. CASE RivalStopsListening
    BY <2>11 DEF RivalStopsListening
  <2>12. CASE Reconnects
    BY <2>12 DEF Reconnects
  <2> QED BY <1>1, <2>1, <2>2, <2>3, <2>4, <2>5, <2>6, <2>7, <2>8, <2>9, <2>10, <2>11, <2>12
          DEF Environment
<1>2. CASE WaitSteps
  BY <1>2, WaitKeeps DEF WaitSteps, netVars, runVars, P!WaitNext, P!Copy, P!Reap,
     P!WaitDrained, P!WaitDelayed, P!waitVars
<1>3. CASE StopSteps
  BY <1>3, StopKeeps DEF StopSteps, netVars, runVars
<1>4. CASE Runner
  <2> USE DEF goto, fail, failTo, processVars, netVars, P!StopCall, P!groupVars, P!waitVars
  <2>1. CASE Prepare
    BY <2>1 DEF Prepare, ControlInv, EvidenceInv
  <2>2. CASE Setup
    BY <2>2 DEF Setup
  <2>3. CASE AttemptFails
    BY <2>3 DEF AttemptFails
  <2>4. CASE AttemptStarts
    BY <2>4 DEF AttemptStarts, freshProcess
  <2>5. CASE Connect
    BY <2>5 DEF Connect
  <2>6. CASE AwaitReady
    BY <2>6 DEF AwaitReady
  <2>7. CASE StartupExit
    BY <2>7 DEF StartupExit
  <2>8. CASE StartupFails
    BY <2>8 DEF StartupFails
  <2>9. CASE RetryOrFail
    BY <2>9 DEF RetryOrFail
  <2>10. CASE Submit
    BY <2>10 DEF Submit
  <2>11. CASE SubmitFails
    <3>1. category' # "none" /\ pc' = "defer"
      BY <2>11 DEF SubmitFails, TypeOK, Contexts
    <3>2. "rival" \in sentTo' => leader # "alive"
      BY <2>11 DEF SubmitFails
    <3>3. sentTo' = {} => next' = 1
      BY <2>11 DEF SubmitFails
    <3>4. UNCHANGED <<processVars, netVars>>
      BY <2>11 DEF SubmitFails
    <3> QED BY <3>1, <3>2, <3>3, <3>4
  <2>12. CASE Submitted
    BY <2>12 DEF Submitted
  <2>13. CASE Settle
    BY <2>13 DEF Settle, P!exited, TypeOK, Contexts
  <2>14. CASE EarlyExit
    BY <2>14 DEF EarlyExit
  <2>15. CASE Shutdown
    BY <2>15 DEF Shutdown, P!exited
  <2>16. CASE Decide
    BY <2>16 DEF Decide
  <2>17. CASE DeferStop
    BY <2>17 DEF DeferStop
  <2>18. CASE DeferStopped
    BY <2>18 DEF DeferStopped, failIfFirst
  <2>19. CASE CloseCapture
    BY <2>19 DEF CloseCapture, failIfFirst
  <2>20. CASE RemoveDir
    BY <2>20 DEF RemoveDir, failIfFirst
  <2> QED BY <1>4, <2>1, <2>2, <2>3, <2>4, <2>5, <2>6, <2>7, <2>8, <2>9, <2>10, <2>11, <2>12,
             <2>13, <2>14, <2>15, <2>16, <2>17, <2>18, <2>19, <2>20
          DEF Runner, Startup, Execute, Cleanup
<1>5. CASE UNCHANGED vars
  BY <1>5 DEF vars, processVars, netVars, runVars
<1> QED BY <1>1, <1>2, <1>3, <1>4, <1>5 DEF Next

\* If the rival's connections end with its listener and the settling outlasts
\* WaitDelay, a success sent the fixture to the Collector alone.
THEOREM TransmissionIsPrivate ==
  ASSUME ~RivalKeepsConn, SettleCoversWait
  PROVE  Spec => []TransmittedToCollector
<1>1. Init => EndpointInv
  BY DEF Init, P!Init, EndpointInv, Startups
<1>2. TypeOK /\ ProcessInv /\ ControlInv /\ EvidenceInv /\ EndpointInv /\ [Next]_vars => EndpointInv'
  BY EndpointStep
<1>3. TypeOK /\ EvidenceInv /\ EndpointInv => TransmittedToCollector
  <2> SUFFICES ASSUME TypeOK, EvidenceInv, EndpointInv, pc = "returned", category = "none", ranCollector
               PROVE  sentTo = {"collector"}
    BY DEF TransmittedToCollector
  <2>1. next > Signals /\ Signals \in 1..3
    BY RunAssumption DEF RunAssumption, EvidenceInv, Clean, ranCollector
  <2>2. sentTo # {}
    BY <2>1 DEF EndpointInv
  <2>3. "rival" \notin sentTo
    BY DEF EndpointInv, Succeeding
  <2> QED BY <2>2, <2>3 DEF TypeOK
<1> QED BY <1>1, <1>2, <1>3, RunInvariant, PTL DEF Spec

-----------------------------------------------------------------------------
(* The exit status in the report.  The deferred stop is never graceful: it *)
(* finds the process exited or sets forced, whether the kill works or not. *)

StatusInv ==
  /\ leader \in {"zombie", "reaped"} => status \in P!Statuses
  /\ exitStatus # "not_started" => leader # "none"
  /\ pc = "attempt" /\ attempt = 1 => leader = "none"
  /\ pc \in {"shutdown", "deferred"} => leader # "none"
  /\ pc = "deferred" => ~stopGraceful /\ stopAt \notin {"term", "grace"}
  /\ pc = "deferred" /\ stopAt \in {"reap", "leave", "idle"} => forced \/ waited # "running"
  /\ pc \in {"close", "rmdir", "returned"} =>
       /\ exitStatus # "running"
       /\ exitStatus = "exited" => waited # "running" /\ status # "signal"

LEMMA StatusStep ==
  ASSUME ~RestartCanFail, TypeOK, ProcessInv, ControlInv, StatusInv, [Next]_vars
  PROVE  StatusInv'
<1> USE DEF StatusInv
<1>1. CASE Environment
  <2>1. UNCHANGED <<runVars, waited, forced, stopAt, stopGraceful>>
    BY <1>1, EnvironmentKeeps
  <2>2. CASE \E s \in P!Statuses : CollectorDies(s)
    <3>1. leader = "alive" /\ leader' = "zombie" /\ status' \in P!Statuses
      BY <2>2 DEF CollectorDies, P!LeaderExit
    <3>2. waited = "running"
      BY <3>1 DEF ProcessInv, L!WaitInv, L!exited
    <3> QED BY <2>1, <3>1, <3>2 DEF runVars
  <2>3. CASE ~\E s \in P!Statuses : CollectorDies(s)
    <3>1. UNCHANGED <<leader, status>>
      BY <1>1, <2>3 DEF Environment, ContextEnds, StartupExpires, CollectorBinds, CollectorSays,
         CollectorLoses, DescendantSteps, CollectorExports, CaptureWorks, RivalBinds,
         RivalStopsListening, Reconnects, P!Emit, P!Fork, P!Escape, P!ClosePipe, P!KidExit,
         processVars
    <3> QED BY <2>1, <3>1 DEF runVars
  <2> QED BY <2>2, <2>3
<1>2. CASE WaitSteps
  <2>1. status' = status
    BY <1>2 DEF WaitSteps, P!WaitNext, P!Copy, P!Reap, P!WaitDrained, P!WaitDelayed, P!groupVars
  <2> QED BY <1>2, <2>1, WaitKeeps DEF runVars
<1>3. CASE StopSteps
  <2>1. UNCHANGED <<status, runVars, leader, waited>>
    BY <1>3, StopKeeps DEF StopSteps, P!StopNext, P!StopEntry, P!StopTerm, P!GraceDone,
       P!GraceExpires, P!StopKill, P!ReapDone, P!ReapTimeout, P!StopLeave, P!groupVars
  <2>2. CASE pc = "deferred"
    <3> USE <2>1, <2>2 DEF runVars, P!exited
    <3>1. CASE P!StopEntry
      BY <3>1 DEF P!StopEntry
    <3>2. CASE P!StopTerm \/ P!GraceDone \/ P!GraceExpires
      BY <3>2 DEF P!StopTerm, P!GraceDone, P!GraceExpires
    <3>3. CASE P!StopKill
      BY <3>3 DEF P!StopKill
    <3>4. CASE P!ReapDone \/ P!ReapTimeout
      BY <3>4 DEF P!ReapDone, P!ReapTimeout
    <3>5. CASE P!StopLeave
      BY <3>5 DEF P!StopLeave
    <3> QED BY <1>3, <3>1, <3>2, <3>3, <3>4, <3>5 DEF StopSteps, P!StopNext
  <2>3. CASE pc # "deferred"
    BY <2>1, <2>3 DEF runVars
  <2> QED BY <2>2, <2>3
<1>4. CASE Runner
  <2> USE DEF goto, fail, failTo, processVars, P!StopCall, P!groupVars, P!waitVars
  <2>1. CASE Prepare
    BY <2>1 DEF Prepare, ControlInv
  <2>2. CASE Setup
    BY <2>2 DEF Setup, ControlInv
  <2>3. CASE AttemptFails
    BY <2>3 DEF AttemptFails
  <2>4. CASE AttemptStarts
    BY <2>4 DEF AttemptStarts, freshProcess, ControlInv
  <2>5. CASE Connect
    BY <2>5 DEF Connect
  <2>6. CASE AwaitReady
    BY <2>6 DEF AwaitReady
  <2>7. CASE StartupExit
    BY <2>7 DEF StartupExit
  <2>8. CASE StartupFails
    BY <2>8 DEF StartupFails
  <2>9. CASE RetryOrFail
    BY <2>9 DEF RetryOrFail, TypeOK
  <2>10. CASE Submit
    BY <2>10 DEF Submit
  <2>11. CASE SubmitFails
    BY <2>11 DEF SubmitFails
  <2>12. CASE Submitted
    BY <2>12 DEF Submitted
  <2>13. CASE Settle
    BY <2>13 DEF Settle
  <2>14. CASE EarlyExit
    BY <2>14 DEF EarlyExit
  <2>15. CASE Shutdown
    BY <2>15 DEF Shutdown
  <2>16. CASE Decide
    BY <2>16 DEF Decide, P!record
  <2>17. CASE DeferStop
    BY <2>17 DEF DeferStop
  <2>18. CASE DeferStopped
    BY <2>18 DEF DeferStopped, P!record, P!exited
  <2>19. CASE CloseCapture
    BY <2>19 DEF CloseCapture
  <2>20. CASE RemoveDir
    BY <2>20 DEF RemoveDir
  <2> QED BY <1>4, <2>1, <2>2, <2>3, <2>4, <2>5, <2>6, <2>7, <2>8, <2>9, <2>10, <2>11, <2>12,
             <2>13, <2>14, <2>15, <2>16, <2>17, <2>18, <2>19, <2>20
          DEF Runner, Startup, Execute, Cleanup
<1>5. CASE UNCHANGED vars
  BY <1>5 DEF vars, processVars, runVars
<1> QED BY <1>1, <1>2, <1>3, <1>4, <1>5 DEF Next

\* If a Collector that started once can be started again, the report never
\* says that it is running, nor that it exited when a signal ended it, even if
\* signals fail.
THEOREM StatusIsTold ==
  ASSUME ~RestartCanFail
  PROVE  Spec => []StatusIsFinal
<1>1. Init => StatusInv
  BY DEF Init, P!Init, StatusInv
<1>2. TypeOK /\ ProcessInv /\ ControlInv /\ StatusInv /\ [Next]_vars => StatusInv'
  BY StatusStep
<1>3. ProcessInv /\ StatusInv => StatusIsFinal
  BY DEF StatusIsFinal, StatusInv, ProcessInv, L!WaitInv, L!exited, P!Statuses
<1> QED BY <1>1, <1>2, <1>3, RunInvariant, PTL DEF Spec

-----------------------------------------------------------------------------
(* Run between the components it is made of.                               *)

\* The capture service, as Run sees it, never breaks the promise: Run closes
\* it only when it has failed or has everything it began, and once.
THEOREM RunKeepsPromise == Spec => C!Spec
<1>1. Init => C!Init
  BY DEF Init
<1>2. [Next]_vars => [C!Next]_(C!vars)
  <2> SUFFICES ASSUME [Next]_vars PROVE C!Next \/ UNCHANGED <<begun, captured, failed, closed>>
    BY DEF C!vars
  <2> USE DEF captureVars
  <2>1. CASE \E r \in Requests : CollectorExports(r)
    BY <2>1 DEF CollectorExports, C!Next
  <2>2. CASE CaptureWorks
    BY <2>2 DEF CaptureWorks, C!Next
  <2>3. CASE CloseCapture
    BY <2>3 DEF CloseCapture, C!Next
  <2>4. CASE \/ ContextEnds \/ StartupExpires \/ CollectorBinds \/ CollectorSays \/ CollectorLoses
             \/ DescendantSteps \/ RivalBinds \/ RivalStopsListening \/ Reconnects
             \/ \E s \in P!Statuses : CollectorDies(s)
    BY <2>4 DEF ContextEnds, StartupExpires, CollectorBinds, CollectorSays, CollectorLoses,
       DescendantSteps, RivalBinds, RivalStopsListening, Reconnects, CollectorDies
  <2>5. CASE WaitSteps \/ StopSteps
    BY <2>5 DEF WaitSteps, StopSteps
  <2>6. CASE \/ Prepare \/ Setup \/ AttemptFails \/ AttemptStarts \/ Startup \/ Execute
             \/ DeferStop \/ DeferStopped \/ RemoveDir
    BY <2>6 DEF Prepare, Setup, AttemptFails, AttemptStarts, Startup, Connect, AwaitReady,
       StartupExit, StartupFails, RetryOrFail, Execute, Submit, SubmitFails, Submitted, Settle,
       EarlyExit, Shutdown, Decide, DeferStop, DeferStopped, RemoveDir
  <2>7. CASE UNCHANGED vars
    BY <2>7 DEF vars
  <2> QED BY <2>1, <2>2, <2>3, <2>4, <2>5, <2>6, <2>7 DEF Next, Environment, Runner, Cleanup
<1> QED BY <1>1, <1>2, PTL DEF Spec, C!Spec

\* What Run reads of the capture after close() is final, and so is a failure.
THEOREM RunReadsFinalCapture == Spec => C!ClosedIsFinal /\ C!FailureIsFinal
<1>1. [C!Next]_(C!vars) => [~closed]_(C!vars)
  BY DEF C!Next, C!Begin, C!Take, C!Fail, C!Seal
<1>2. [C!Next]_(C!vars) => [failed => failed' /\ captured' = captured]_(C!vars)
  BY DEF C!Next, C!Begin, C!Take, C!Fail, C!Seal
<1> QED BY <1>1, <1>2, RunKeepsPromise, PTL DEF C!Spec, C!ClosedIsFinal, C!FailureIsFinal

\* The process of every attempt is a ChildProcess: nothing but the start of
\* the next attempt changes it otherwise, and that makes it as new.
THEOREM RunDrivesProcesses == Spec => L!Init /\ [][L!Next \/ AttemptStarts]_processVars
<1>1. Init => L!Init
  BY DEF Init, P!Init, L!Init
<1>2. [Next]_vars => [L!Next \/ AttemptStarts]_processVars
  BY SameGroup, SameWait, SameStop, SameRun DEF Next, L!Next, WaitSteps, StopSteps, vars
<1> QED BY <1>1, <1>2, PTL DEF Spec
=============================================================================
