----------------------------- MODULE CommandProofs -----------------------------
(***************************************************************************)
(* Safety of the version query and of Command, for any number of           *)
(* descendants of the two processes a command waits for.  The query uses   *)
(* its child process as ChildProcess allows, so what is proved of stop and *)
(* Wait holds of it, and through the query inside a command of the command.*)
(***************************************************************************)
EXTENDS Command, TLAPS

-----------------------------------------------------------------------------
(* The version query                                                       *)

\* Until it is answered the query is at one statement of its child process,
\* and a wait that was not cut short ends without a kill.
QueryInv ==
  /\ pc \in {"start", "wait"} => stopAt = "idle" /\ ~forced
  /\ stopAt = "leave" => stopResult # "none"
  /\ pc = "stop" /\ stopAt = "idle" => stopResult # "none"
  /\ pc = "returned" => stopAt = "idle" /\ (answer # "not_started" => stopResult # "none")
  /\ pc = "stop" /\ ~expired => waited # "running" /\ stopAt \in {"entry", "leave", "idle"} /\ ~forced
  /\ pc # "returned" => answer = "none"
  /\ answer = "version" => pc = "returned" /\ waited = "nil" /\ "version" \in seen /\ ~forced

LEMMA QueryInvariant == QuerySpec => []QueryInv
<1>1. InitQuery => QueryInv
  BY DEF InitQuery, P!Init, QueryInv
<1>2. QueryInv /\ [NextQuery]_queryVars => QueryInv'
  <2> SUFFICES ASSUME QueryInv, [NextQuery]_queryVars PROVE QueryInv'
    OBVIOUS
  <2> USE DEF QueryInv, processVars, callVars, P!groupVars, P!waitVars, P!stopVars, P!exited
  <2>1. CASE StartQuery
    <3>1. CASE P!Start /\ pc' = "wait" /\ UNCHANGED <<answer, expired>>
      BY <2>1, <3>1 DEF StartQuery, P!Start
    <3>2. CASE pc' = "returned" /\ answer' = "not_started" /\ UNCHANGED <<processVars, expired>>
      BY <2>1, <3>2 DEF StartQuery
    <3> QED BY <2>1, <3>1, <3>2 DEF StartQuery
  <2>2. CASE EndWait
    BY <2>2 DEF EndWait, P!StopCall
  <2>3. CASE ReturnAnswer
    <3>1. answer' = "version" => waited = "nil" /\ "version" \in seen /\ ~expired
      BY <2>3 DEF ReturnAnswer, Answer, found
    <3> QED BY <2>3, <3>1 DEF ReturnAnswer, Answer, found
  <2>4. ASSUME P!GroupNext, UNCHANGED callVars PROVE QueryInv'
    BY <2>4 DEF P!GroupNext, P!Fork, P!Escape, P!ClosePipe, P!KidExit, P!LeaderExit, P!Emit
  <2>5. ASSUME P!WaitNext, UNCHANGED callVars PROVE QueryInv'
    BY <2>5 DEF P!WaitNext, P!Copy, P!Reap, P!WaitDrained, P!WaitDelayed
  <2>6. ASSUME P!StopNext, UNCHANGED callVars PROVE QueryInv'
    <3>1. CASE P!StopEntry
      BY <2>6, <3>1 DEF P!StopEntry
    <3>2. CASE P!StopTerm
      BY <2>6, <3>2 DEF P!StopTerm
    <3>3. CASE P!GraceDone \/ P!GraceExpires \/ P!ReapDone \/ P!ReapTimeout
      BY <2>6, <3>3 DEF P!GraceDone, P!GraceExpires, P!ReapDone, P!ReapTimeout
    <3>4. CASE P!StopKill
      BY <2>6, <3>4 DEF P!StopKill
    <3>5. CASE P!StopLeave
      BY <2>6, <3>5 DEF P!StopLeave
    <3> QED BY <2>6, <3>1, <3>2, <3>3, <3>4, <3>5 DEF P!StopNext
  <2>7. CASE UNCHANGED queryVars
    BY <2>7 DEF queryVars
  <2> QED BY <2>1, <2>2, <2>3, <2>4, <2>5, <2>6, <2>7 DEF NextQuery, Query, ProcessSteps
<1> QED BY <1>1, <1>2, PTL DEF QuerySpec

-----------------------------------------------------------------------------
C == INSTANCE ChildProcessProofs

\* Every behaviour of the query is, for its child process, one of ChildProcess:
\* the query calls stop once, never gracefully, and only on a started process.
THEOREM QueryRunsChildProcess == QuerySpec => C!Spec
<1>1. InitQuery => C!Init
  BY DEF InitQuery, P!Init, C!Init
<1>2. [NextQuery]_queryVars => [C!Next]_(C!vars)
  <2> SUFFICES ASSUME [NextQuery]_queryVars PROVE C!Next \/ UNCHANGED processVars
    BY DEF processVars, C!vars, C!groupVars, C!waitVars, C!stopVars
  <2> USE DEF P!groupVars, P!waitVars, P!stopVars, C!groupVars, C!waitVars, C!stopVars,
              P!exited, C!exited, P!Members, C!Members, P!Statuses, C!Statuses
  <2>1. CASE StartQuery
    BY <2>1 DEF StartQuery, P!Start, C!Start, C!Next
  <2>2. CASE EndWait
    <3>1. C!StopCall(FALSE)
      BY <2>2 DEF EndWait, P!StopCall, C!StopCall
    <3> QED BY <3>1 DEF C!Next
  <2>3. CASE ReturnAnswer
    BY <2>3 DEF ReturnAnswer
  <2>4. ASSUME P!GroupNext PROVE C!GroupNext
    <3>1. ASSUME NEW k \in Kids, P!Fork(k) \/ P!Escape(k) \/ P!ClosePipe(k) \/ P!KidExit(k)
          PROVE C!Fork(k) \/ C!Escape(k) \/ C!ClosePipe(k) \/ C!KidExit(k)
      BY <3>1 DEF P!Fork, P!Escape, P!ClosePipe, P!KidExit, C!Fork, C!Escape, C!ClosePipe, C!KidExit
    <3>2. ASSUME NEW s \in P!Statuses, P!LeaderExit(s) PROVE C!LeaderExit(s)
      BY <3>2 DEF P!LeaderExit, C!LeaderExit
    <3>3. ASSUME NEW t \in Text, P!Emit(t) PROVE C!Emit(t)
      BY <3>3 DEF P!Emit, C!Emit
    <3> QED BY <2>4, <3>1, <3>2, <3>3 DEF P!GroupNext, C!GroupNext
  <2>5. ASSUME P!WaitNext PROVE C!WaitNext
    BY <2>5 DEF P!WaitNext, C!WaitNext, P!Copy, P!Reap, P!WaitDrained, P!WaitDelayed,
       C!Copy, C!Reap, C!WaitDrained, C!WaitDelayed
  <2>6. ASSUME P!StopNext PROVE C!StopNext
    <3> USE DEF P!KillGroup, C!KillGroup, P!DeferredKill, C!DeferredKill
    <3>1. P!StopEntry => C!StopEntry
      BY DEF P!StopEntry, C!StopEntry
    <3>2. P!StopTerm => C!StopTerm
      BY DEF P!StopTerm, C!StopTerm
    <3>3. (P!GraceDone => C!GraceDone) /\ (P!GraceExpires => C!GraceExpires)
      BY DEF P!GraceDone, C!GraceDone, P!GraceExpires, C!GraceExpires
    <3>4. P!StopKill => C!StopKill
      BY DEF P!StopKill, C!StopKill
    <3>5. (P!ReapDone => C!ReapDone) /\ (P!ReapTimeout => C!ReapTimeout)
      BY DEF P!ReapDone, C!ReapDone, P!ReapTimeout, C!ReapTimeout
    <3>6. P!StopLeave => C!StopLeave
      BY DEF P!StopLeave, C!StopLeave
    <3> QED BY <2>6, <3>1, <3>2, <3>3, <3>4, <3>5, <3>6 DEF P!StopNext, C!StopNext
  <2>7. CASE UNCHANGED queryVars
    BY <2>7 DEF queryVars
  <2> QED BY <2>1, <2>2, <2>3, <2>4, <2>5, <2>6, <2>7 DEF NextQuery, Query, ProcessSteps, C!Next
<1> QED BY <1>1, <1>2, PTL DEF QuerySpec, C!Spec

-----------------------------------------------------------------------------
LEMMA QueryTyped == QuerySpec => []QueryTypeOK
<1> DEFINE CallTyped == pc \in {"start", "wait", "stop", "returned"} /\ expired \in BOOLEAN
                        /\ answer \in Answers \cup {"none"}
<1>1. InitQuery => CallTyped
  BY DEF InitQuery
<1>2. CallTyped /\ [NextQuery]_queryVars => CallTyped'
  <2> SUFFICES ASSUME CallTyped, NextQuery PROVE CallTyped'
    BY DEF queryVars, callVars
  <2>1. CASE StartQuery
    BY <2>1 DEF StartQuery, Answers
  <2>2. CASE EndWait
    BY <2>2 DEF EndWait
  <2>3. CASE ReturnAnswer
    BY <2>3 DEF ReturnAnswer, Answer, found, Answers
  <2>4. CASE ProcessSteps
    BY <2>4 DEF ProcessSteps, callVars
  <2> QED BY <2>1, <2>2, <2>3, <2>4 DEF NextQuery, Query
<1>3. CallTyped /\ C!TypeOK => QueryTypeOK
  BY DEF QueryTypeOK, P!TypeOK, C!TypeOK, P!Statuses, C!Statuses, P!Returned, C!Returned,
         P!StopSteps, C!StopSteps, P!Results, C!Results
<1>4. C!Spec => []C!TypeOK
  BY C!TypeCorrect, QueryAssumption DEF P!ConstantsAssumption, C!ConstantsAssumption
<1> HIDE DEF CallTyped
<1> QED BY <1>1, <1>2, <1>3, <1>4, QueryRunsChildProcess, PTL DEF QuerySpec

-----------------------------------------------------------------------------
\* Whatever the supplied binary forks, the query that returned has killed what
\* was left of its process group.
THEOREM NothingLeft == QuerySpec => []QueryLeavesNothing
<1>1. QueryInv /\ C!NoSurvivor => QueryLeavesNothing
  BY DEF QueryInv, C!NoSurvivor, QueryLeavesNothing, P!GroupKilled, C!GroupKilled, P!Members, C!Members
<1>2. C!Spec => []C!NoSurvivor
  BY C!GroupNeverSurvives, QueryAssumption DEF P!ConstantsAssumption, C!ConstantsAssumption
<1> QED BY <1>1, <1>2, QueryInvariant, QueryRunsChildProcess, PTL

\* A version in the report was printed by a binary that exited with zero by
\* itself, and is all it printed.
THEOREM NotInvented == QuerySpec => []VersionNotInvented
<1>1. QueryInv /\ C!LogsComplete => VersionNotInvented
  BY DEF QueryInv, C!LogsComplete, VersionNotInvented
<1>2. C!Spec => []C!LogsComplete
  BY C!WaitIsEvidence, QueryAssumption DEF P!ConstantsAssumption, C!ConstantsAssumption
<1> QED BY <1>1, <1>2, QueryInvariant, QueryRunsChildProcess, PTL

-----------------------------------------------------------------------------
(* The command                                                             *)

\* What the command passes through on the way to its exit code.
CommandInv ==
  /\ opts \in [report : BOOLEAN, strict : BOOLEAN, validate : BOOLEAN]
  /\ at \in {"query", "execute"} => mode = "otelcol"
  /\ at \notin {"parse", "validation", "exited"} => mode # "validate"
  /\ at \notin {"writing", "exited"} => file = "old"
  /\ at = "writing" => file = "torn"
  /\ at \in {"write", "writing"} => opts.report
  /\ at = "execute" => warned \/ answer = "version"
  /\ at = "evaluate" /\ mode = "otelcol" => warned \/ answer = "version"
  /\ at \in {"report", "write", "writing"} =>
       \/ checks = {"ERROR"} /\ mode = "otelcol"
       \/ /\ checks # {} /\ checks \subseteq {"PASS", "FAIL", "INCONCLUSIVE", "WARN"}
          /\ "WARN" \in checks <=> warned
          /\ mode = "otelcol" => warned \/ answer = "version"

Reported(c, f) ==
  /\ ~opts.report => f = "old"
  /\ opts.report =>
       /\ c = 0 => f \in {"PASS", "WARN"}
       /\ c = 1 => f = "FAIL" \/ (opts.strict /\ warned /\ f \in {"PASS", "WARN"})
       /\ c = 2 => f \in {"old", "torn"}
       /\ c = 3 => f = IF mode = "otelcol" THEN "ERROR" ELSE "old"
       /\ c = 4 => f = "INCONCLUSIVE"

Ended(c, f) ==
  /\ c \in {0, 1, 2, 3, 4, 130}
  /\ mode # "validate" /\ c # 130 => Reported(c, f)
  /\ c = 0 /\ mode = "otelcol" /\ opts.strict => answer = "version"

ExitInv == at = "exited" => Ended(code, file)

-----------------------------------------------------------------------------
(* The validation                                                          *)

\* The watching goroutine is what kills; a verdict on a validator that was
\* started comes after its reaping, and a pass after the end of its output.
ValidationInv ==
  /\ validator \in {"none", "alive", "zombie", "reaped"}
  /\ vstatus = "none" <=> validator \in {"none", "alive"}
  /\ killed = (watch = "interrupted")
  /\ validator = "none" =>
       holders = {} /\ ~unread /\ watch = "waiting" /\ verdict \in {"none", "failed"}
  /\ verdict # "none" /\ validator # "none" => validator = "reaped" /\ watch # "waiting"
  /\ ValidationTellsTruth

LEMMA ValidationStep == ValidationInv /\ [Next]_vars => ValidationInv'
<1> SUFFICES ASSUME ValidationInv, [Next]_vars PROVE ValidationInv'
  OBVIOUS
<1> USE DEF ValidationInv, ValidationTellsTruth
<1>1. ASSUME UNCHANGED validationVars PROVE ValidationInv'
  BY <1>1 DEF validationVars
<1>2. CASE Steps
  <2>1. CASE Validate
    BY <2>1 DEF Validate, StartValidation
  <2> QED BY <1>1, <1>2, <2>1 DEF Steps, ParseFlags, Validated, Load, RunFixture, Prepare,
          QueryVersion, VersionQueried, Execute, Evaluate, Report, OpenReport, WriteReport
<1>3. CASE Interrupt
  <2>1. CASE UNCHANGED validationVars
    BY <1>1, <2>1
  <2>2. CASE /\ UNCHANGED <<validator, vstatus, killed, holders, unread, watch, verdict>>
             /\ CancelValidation
    BY <2>2 DEF CancelValidation
  <2> QED BY <1>3, <2>1, <2>2 DEF Interrupt
<1>4. CASE Validator
  <2>1. ASSUME NEW k \in Heirs, ValidatorForks(k) \/ HolderLeaves(k) PROVE ValidationInv'
    BY <2>1 DEF ValidatorForks, HolderLeaves
  <2>2. CASE ValidatorWrites
    BY <2>2 DEF ValidatorWrites
  <2>3. ASSUME NEW s \in {"zero", "nonzero", "signal"}, ValidatorExits(s) PROVE ValidationInv'
    BY <2>3 DEF ValidatorExits
  <2> QED BY <1>4, <2>1, <2>2, <2>3 DEF Validator, ValidatorSteps
<1>5. CASE Exec
  <2>1. CASE CopyOutput
    BY <2>1 DEF CopyOutput
  <2>2. CASE ReapValidator
    BY <2>2 DEF ReapValidator
  <2>3. CASE WatchKills
    BY <2>3 DEF WatchKills
  <2>4. CASE WatchEnds
    BY <2>4 DEF WatchEnds
  <2>5. CASE ReturnVerdict
    BY <2>5 DEF ReturnVerdict, runError
  <2> QED BY <1>5, <2>1, <2>2, <2>3, <2>4, <2>5 DEF Exec, ExecSteps
<1>6. CASE Deadline
  BY <1>6 DEF Deadline, DeadlinePasses
<1>7. CASE Collector \/ Wait \/ Stop \/ UNCHANGED vars
  BY <1>1, <1>7 DEF Collector, Wait, Stop, vars
<1> QED BY <1>2, <1>3, <1>4, <1>5, <1>6, <1>7 DEF Next

\* A verdict on a configuration is one the validator gave or the deadline
\* forced, however the exit, the kill and the reaping race.
THEOREM VerdictIsTrue == Spec => []ValidationTellsTruth
<1>1. Init => ValidationInv
  BY DEF Init, InitValidation, ValidationInv, ValidationTellsTruth
<1>2. ValidationInv => ValidationTellsTruth
  BY DEF ValidationInv
<1> QED BY <1>1, <1>2, ValidationStep, PTL DEF Spec

-----------------------------------------------------------------------------
\* The exit code of a report and the status in it.
LEMMA ReportedExit ==
  ASSUME CommandInv, at \in {"report", "writing"}
  PROVE  LET c == E!ExitCode(checks) IN
         /\ c \in {0, 1, 3, 4}
         /\ opts.report => Reported(c, E!OverallStatus(checks))
         /\ c = 0 /\ mode = "otelcol" /\ opts.strict => answer = "version"
<1>1. CASE checks = {"ERROR"} /\ mode = "otelcol"
  BY <1>1 DEF E!ExitCode, E!OverallStatus, Reported
<1>2. CASE /\ checks # {} /\ checks \subseteq {"PASS", "FAIL", "INCONCLUSIVE", "WARN"}
           /\ "WARN" \in checks <=> warned
           /\ mode = "otelcol" => warned \/ answer = "version"
  <2>1. "ERROR" \notin checks
    BY <1>2
  <2>2. CASE "FAIL" \in checks
    BY <2>1, <2>2 DEF E!ExitCode, E!OverallStatus, Reported
  <2>3. CASE "FAIL" \notin checks /\ "INCONCLUSIVE" \in checks
    BY <2>1, <2>3 DEF E!ExitCode, E!OverallStatus, Reported
  <2>4. CASE "FAIL" \notin checks /\ "INCONCLUSIVE" \notin checks
    <3>1. E!OverallStatus(checks) =
            IF "WARN" \in checks /\ mode # "otelcol" THEN "WARN" ELSE "PASS"
      BY <2>1, <2>4 DEF E!OverallStatus
    <3>2. E!OverallStatus(checks) \in {"PASS", "WARN"}
      BY <3>1
    <3>3. E!ExitCode(checks) = IF opts.strict /\ "WARN" \in checks THEN 1 ELSE 0
      BY <2>4, <3>2 DEF E!ExitCode
    <3>4. CASE opts.strict /\ "WARN" \in checks
      BY <1>2, <3>2, <3>3, <3>4 DEF Reported
    <3>5. CASE ~(opts.strict /\ "WARN" \in checks)
      BY <1>2, <3>2, <3>3, <3>5 DEF Reported
    <3> QED BY <3>4, <3>5
  <2> QED BY <2>2, <2>3, <2>4
<1> QED BY <1>1, <1>2 DEF CommandInv

LEMMA CommandStep == CommandInv /\ ExitInv /\ [Next]_vars => CommandInv' /\ ExitInv'
<1> SUFFICES ASSUME CommandInv, ExitInv, [Next]_vars PROVE CommandInv' /\ ExitInv'
  OBVIOUS
<1> USE DEF CommandInv, ExitInv, Ended, Reported, Exit, RunFails, commandVars
<1>1. ASSUME UNCHANGED <<commandVars, answer>> PROVE CommandInv' /\ ExitInv'
  BY <1>1
<1>2. CASE Validator \/ Exec \/ Deadline \/ Collector \/ Wait \/ Stop \/ Validate \/ UNCHANGED vars
  BY <1>1, <1>2 DEF Validator, Exec, Deadline, Collector, Wait, Stop, Validate, vars, queryVars, callVars
<1>3. CASE QueryVersion
  BY <1>3 DEF QueryVersion
<1>4. CASE Steps
  <2> USE DEF queryVars, callVars
  <2>1. CASE ParseFlags
    BY <2>1 DEF ParseFlags
  <2>2. CASE Validated
    BY <2>2 DEF Validated
  <2>3. CASE Load
    BY <2>3 DEF Load
  <2>4. CASE RunFixture
    BY <2>4 DEF RunFixture
  <2>5. CASE Prepare
    BY <2>5 DEF Prepare
  <2>6. CASE VersionQueried
    BY <2>6 DEF VersionQueried
  <2>7. CASE Execute
    BY <2>7 DEF Execute
  <2>8. CASE Evaluate
    BY <2>8 DEF Evaluate
  <2>9. CASE Report
    BY <2>9, ReportedExit DEF Report
  <2>10. CASE OpenReport
    BY <2>10 DEF OpenReport
  <2>11. CASE WriteReport
    <3> HIDE DEF Reported
    <3>1. /\ at' = "exited" /\ opts.report
          /\ UNCHANGED <<mode, opts, warned, answer>>
      BY <2>11 DEF WriteReport
    <3>2. CASE Exit(2) /\ UNCHANGED file
      <4>1. file = "torn"
        BY <2>11 DEF WriteReport
      <4>2. Ended(2, file)
        BY <3>1, <4>1 DEF Reported
      <4> QED BY <3>1, <3>2, <4>2 DEF Reported
    <3>3. CASE file' = E!OverallStatus(checks) /\ Exit(E!ExitCode(checks))
      <4>1. Ended(E!ExitCode(checks), E!OverallStatus(checks))
        BY <2>11, <3>1, ReportedExit DEF WriteReport
      <4> QED BY <3>1, <3>3, <4>1 DEF Reported
    <3> QED BY <2>11, <3>2, <3>3 DEF WriteReport
  <2> QED BY <1>2, <1>3, <1>4, <2>1, <2>2, <2>3, <2>4, <2>5, <2>6, <2>7, <2>8, <2>9, <2>10, <2>11
          DEF Steps
<1>5. CASE Interrupt
  BY <1>5 DEF Interrupt, queryVars, callVars
<1> QED BY <1>2, <1>4, <1>5 DEF Next

LEMMA CommandInvariant == Spec => [](CommandInv /\ ExitInv)
<1>1. Init => CommandInv /\ ExitInv
  BY DEF Init, CommandInv, ExitInv
<1> QED BY <1>1, CommandStep, PTL DEF Spec

\* A command's query is a VersionQuery.
THEOREM CommandRunsQuery == Spec => QuerySpec
<1>1. Init => InitQuery
  BY DEF Init
<1>2. [Next]_vars => [NextQuery]_queryVars
  <2> SUFFICES ASSUME [Next]_vars PROVE NextQuery \/ UNCHANGED queryVars
    OBVIOUS
  <2>1. CASE Steps
    BY <2>1 DEF Steps, ParseFlags, Validate, Validated, Load, RunFixture, Prepare, QueryVersion,
       VersionQueried, Execute, Evaluate, Report, OpenReport, WriteReport, NextQuery
  <2>2. CASE Interrupt \/ Validator \/ Exec \/ Deadline
    BY <2>2 DEF Interrupt, Validator, Exec, Deadline
  <2>3. CASE Collector \/ Wait \/ Stop
    BY <2>3 DEF Collector, Wait, Stop, ProcessSteps, NextQuery
  <2> QED BY <2>1, <2>2, <2>3 DEF Next, vars
<1> QED BY <1>1, <1>2, PTL DEF Spec, QuerySpec

\* Every variable of a command has its type.
THEOREM TypeCorrect == Spec => []TypeOK
<1> DEFINE CommandTyped ==
      /\ mode \in {"fixture", "otelcol", "validate"}
      /\ opts \in [report : BOOLEAN, strict : BOOLEAN, validate : BOOLEAN]
      /\ at \in {"parse", "validation", "load", "run", "query", "execute", "evaluate",
                 "report", "write", "writing", "exited"}
      /\ interrupted \in BOOLEAN /\ warned \in BOOLEAN
      /\ checks \subseteq {"PASS", "FAIL", "INCONCLUSIVE", "WARN", "ERROR"}
      /\ file \in {"old", "torn", "PASS", "FAIL", "INCONCLUSIVE", "WARN", "ERROR"}
      /\ code \in {0, 1, 2, 3, 4, 130}
<1>1. Init => CommandTyped /\ ValidationTypeOK
  BY DEF Init, InitValidation, ValidationTypeOK
<1>2. \A S : E!OverallStatus(S) \in {"PASS", "FAIL", "INCONCLUSIVE", "WARN", "ERROR"}
             /\ E!ExitCode(S) \in {0, 1, 3, 4}
  BY DEF E!OverallStatus, E!ExitCode
<1>3. CommandTyped /\ [Next]_vars => CommandTyped'
  <2> SUFFICES ASSUME CommandTyped, [Next]_vars PROVE CommandTyped'
    OBVIOUS
  <2> USE DEF Exit, RunFails
  <2>1. ASSUME UNCHANGED commandVars PROVE CommandTyped'
    BY <2>1 DEF commandVars
  <2>2. CASE Steps
    <3>0. ASSUME RunFails, UNCHANGED <<mode, opts, interrupted, file>> PROVE CommandTyped'
      <4>1. checks' \subseteq {"PASS", "FAIL", "INCONCLUSIVE", "WARN", "ERROR"}
        BY <3>0
      <4> QED BY <3>0, <4>1
    <3>1. CASE ParseFlags
      BY <3>1 DEF ParseFlags
    <3>2. CASE Validated
      BY <3>2 DEF Validated
    <3>3. CASE Load
      BY <3>3 DEF Load
    <3>4. CASE RunFixture
      BY <3>4 DEF RunFixture
    <3>5. CASE Prepare
      <4>1. CASE at' = "query" /\ UNCHANGED <<warned, checks, code>>
        BY <3>5, <4>1 DEF Prepare
      <4> QED BY <3>0, <3>5, <4>1 DEF Prepare
    <3>6. CASE VersionQueried
      <4>1. CASE at' = "execute" /\ warned' = (answer # "version") /\ UNCHANGED <<checks, code>>
        BY <3>6, <4>1 DEF VersionQueried
      <4> QED BY <3>0, <3>6, <4>1 DEF VersionQueried
    <3>7. CASE Execute
      <4>1. CASE at' = "evaluate" /\ UNCHANGED <<warned, checks, code>>
        BY <3>7, <4>1 DEF Execute
      <4> QED BY <3>0, <3>7, <4>1 DEF Execute
    <3>8. CASE Evaluate
      BY <3>8 DEF Evaluate
    <3>9. CASE Report
      BY <1>2, <3>9 DEF Report
    <3>10. CASE OpenReport
      BY <3>10 DEF OpenReport
    <3>11. CASE WriteReport
      BY <1>2, <3>11 DEF WriteReport
    <3> QED BY <2>1, <2>2, <3>1, <3>2, <3>3, <3>4, <3>5, <3>6, <3>7, <3>8, <3>9, <3>10, <3>11
            DEF Steps, Validate, QueryVersion
  <2>3. CASE Interrupt
    BY <2>3 DEF Interrupt
  <2> QED BY <2>1, <2>2, <2>3 DEF Next, Validator, Exec, Deadline, Collector, Wait, Stop, vars
<1>4. ValidationTypeOK /\ [Next]_vars => ValidationTypeOK'
  <2> SUFFICES ASSUME ValidationTypeOK, [Next]_vars PROVE ValidationTypeOK'
    OBVIOUS
  <2> USE DEF ValidationTypeOK, Verdicts
  <2>1. ASSUME UNCHANGED validationVars PROVE ValidationTypeOK'
    BY <2>1 DEF validationVars
  <2>2. CASE Steps
    <3>1. CASE Validate
      BY <3>1 DEF Validate, StartValidation
    <3> QED BY <2>1, <2>2, <3>1 DEF Steps, ParseFlags, Validated, Load, RunFixture, Prepare,
            QueryVersion, VersionQueried, Execute, Evaluate, Report, OpenReport, WriteReport
  <2>3. CASE Interrupt
    BY <2>1, <2>3 DEF Interrupt, CancelValidation
  <2>4. CASE Validator
    BY <2>4 DEF Validator, ValidatorSteps, ValidatorForks, HolderLeaves, ValidatorWrites, ValidatorExits
  <2>5. CASE Exec
    BY <2>5 DEF Exec, ExecSteps, CopyOutput, ReapValidator, WatchKills, WatchEnds, ReturnVerdict
  <2>6. CASE Deadline
    BY <2>6 DEF Deadline, DeadlinePasses
  <2> QED BY <2>1, <2>2, <2>3, <2>4, <2>5, <2>6 DEF Next, Collector, Wait, Stop, vars
<1>5. CommandTyped /\ ValidationTypeOK /\ QueryTypeOK => TypeOK
  BY DEF TypeOK
<1> HIDE DEF CommandTyped
<1> QED BY <1>1, <1>3, <1>4, <1>5, CommandRunsQuery, QueryTyped, PTL DEF Spec

\* In a command too, no version is made up.
THEOREM CommandInventsNothing == Spec => []VersionNotInvented
BY CommandRunsQuery, NotInvented, PTL

\* In a command too, the query leaves no process behind.
THEOREM CommandLeavesNothing == Spec => []QueryLeavesNothing
BY CommandRunsQuery, NothingLeft, PTL

\* Exit code and report file agree on every path, whatever step failed and
\* whenever a signal came.
THEOREM ReportAgrees == Spec => []ReportMatchesExit
<1>1. ExitInv => ReportMatchesExit
  <2> SUFFICES ASSUME at = "exited", Ended(code, file), mode # "validate", code # 130, opts.report
               PROVE  ReportMatchesExit
    BY DEF ExitInv, Ended, Reported, ReportMatchesExit
  <2>1. code \in {0, 1, 2, 3, 4} /\ Reported(code, file)
    BY DEF Ended
  <2>2. CASE code = 0
    BY <2>1, <2>2 DEF Reported, ReportMatchesExit
  <2>3. CASE code = 1
    BY <2>1, <2>3 DEF Reported, ReportMatchesExit
  <2>4. CASE code = 2
    BY <2>1, <2>4 DEF Reported, ReportMatchesExit
  <2>5. CASE code = 3
    BY <2>1, <2>5 DEF Reported, ReportMatchesExit
  <2>6. CASE code = 4
    BY <2>1, <2>6 DEF Reported, ReportMatchesExit
  <2> QED BY <2>1, <2>2, <2>3, <2>4, <2>5, <2>6
<1> QED BY <1>1, CommandInvariant, PTL

\* A strict real run that passes names the Collector that it ran.
THEOREM StrictPassIsNamed == Spec => []StrictPassNamesVersion
<1>1. ExitInv /\ VersionNotInvented => StrictPassNamesVersion
  BY DEF ExitInv, Ended, VersionNotInvented, StrictPassNamesVersion
<1> QED BY <1>1, CommandInvariant, CommandInventsNothing, PTL
=============================================================================
