----------------------------- MODULE VersionQuery -----------------------------
(***************************************************************************)
(* collectorVersion (src/internal/runner/process.go): the supplied binary  *)
(* is run once with --version, within two seconds and the run's deadline,  *)
(* before anything else is started.  It uses the same child process as the *)
(* run proper; the select waits for p.done or for the deadline.            *)
(***************************************************************************)
EXTENDS Naturals

CONSTANTS Kids, SelfExits, SignalCanFail

Text == {"version"}   \* output that matches versionPattern

VARIABLES
  leader, status, sent, kids, pipe, out, seen, waited,
  forced, stopAt, stopGraceful, stopResult, killFailed,   \* the child process
  pc,        \* "start", "wait", "stop", "returned"
  expired,   \* the select took versionCtx.Done()
  answer     \* what the query returns: "none" yet, "version" or an error

P == INSTANCE ChildProcess

ASSUME QueryAssumption == P!ConstantsAssumption

processVars == <<leader, status, sent, kids, pipe, out, seen, waited,
                 forced, stopAt, stopGraceful, stopResult, killFailed>>
callVars    == <<pc, expired, answer>>
queryVars   == <<processVars, callVars>>

Answers == {"version", "not_started", "failed", "unavailable", "not_stopped", "timed_out"}

QueryTypeOK ==
  /\ P!TypeOK
  /\ pc \in {"start", "wait", "stop", "returned"}
  /\ expired \in BOOLEAN
  /\ answer \in Answers \cup {"none"}

InitQuery == P!Init /\ pc = "start" /\ expired = FALSE /\ answer = "none"

StartQuery ==
  /\ pc = "start"
  /\ \/ P!Start /\ pc' = "wait" /\ UNCHANGED answer
     \/ pc' = "returned" /\ answer' = "not_started" /\ UNCHANGED processVars
  /\ UNCHANGED expired

\* Mutant of EndWait: a query that ended needs no stop.
EndWaitUnstopped ==
  /\ pc = "wait"
  /\ expired' \in BOOLEAN
  /\ IF expired' THEN P!StopCall(FALSE) ELSE P!exited /\ UNCHANGED processVars
  /\ pc' = "stop"
  /\ UNCHANGED answer

\* Either case of the select; both call stop, one for its group kill only.
EndWait ==
  /\ pc = "wait"
  /\ expired' \in BOOLEAN
  /\ expired' \/ P!exited
  /\ P!StopCall(FALSE)
  /\ pc' = "stop"
  /\ UNCHANGED answer

\* What versionPattern may find: the buffer keeps the end of the output only,
\* and a version may have gone from it.
found == {"unavailable"} \cup (seen \cap {"version"})

\* Mutants of Answer: a query cut short returns no error; p.err is not read.
AnswerStopResult ==
  IF expired THEN {stopResult}
  ELSE IF waited # "nil" THEN {"failed"}
  ELSE found

AnswerAnyExit ==
  IF expired THEN {IF stopResult = "ok" THEN "timed_out" ELSE "not_stopped"}
  ELSE found

\* What the query may return.
Answer ==
  IF expired THEN {IF stopResult = "ok" THEN "timed_out" ELSE "not_stopped"}
  ELSE IF waited # "nil" THEN {"failed"}
  ELSE found

ReturnAnswer ==
  /\ pc = "stop" /\ stopAt = "idle"
  /\ answer' \in Answer
  /\ pc' = "returned"
  /\ UNCHANGED <<processVars, expired>>

Query == StartQuery \/ EndWait \/ ReturnAnswer

ProcessSteps ==
  /\ P!GroupNext \/ P!WaitNext \/ P!StopNext
  /\ UNCHANGED callVars

NextQuery == Query \/ ProcessSteps

QuerySpec == InitQuery /\ [][NextQuery]_queryVars

-----------------------------------------------------------------------------
(* Properties *)

\* "An unavailable version is omitted rather than invented": a version was
\* printed by a query that exited with zero and whose output is complete.
VersionNotInvented ==
  answer = "version" => status = "zero" /\ ~forced /\ seen = out /\ "version" \in out

\* The query leaves no process of its group behind, even if it answered
\* early and left a descendant with the pipe.
QueryLeavesNothing ==
  (pc = "returned" /\ answer # "not_started" /\ ~killFailed) => P!GroupKilled
=============================================================================
