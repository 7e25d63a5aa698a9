------------------------- MODULE ChildProcessProofs -------------------------
(***************************************************************************)
(* Safety of ChildProcess for every set of descendants, every set of       *)
(* outputs and every way of exiting.                                       *)
(***************************************************************************)
EXTENDS ChildProcess, TLAPS

\* A signal to the group leaves the signals sent and its members typed.
LEMMA KilledTyped ==
  ASSUME TypeOK, KillGroup
  PROVE  sent' \subseteq {"term", "kill"} /\ kids' \in [Kids -> {"unborn", "member", "doomed", "escaped", "gone"}]
BY DEF KillGroup, TypeOK

\* Every step keeps the types.
LEMMA TypeStep == TypeOK /\ [Next]_vars => TypeOK'
<1> SUFFICES ASSUME TypeOK, [Next]_vars PROVE TypeOK'
  OBVIOUS
<1> USE DEF TypeOK, groupVars, waitVars, stopVars, Statuses, Returned, StopSteps, Results
<1>1. CASE Start
  BY <1>1 DEF Start
<1>2. CASE GroupNext
  <2>1. ASSUME NEW k \in Kids, Fork(k) PROVE TypeOK'
    BY <2>1 DEF Fork
  <2>2. ASSUME NEW k \in Kids, Escape(k) PROVE TypeOK'
    BY <2>2 DEF Escape
  <2>3. ASSUME NEW k \in Kids, ClosePipe(k) PROVE TypeOK'
    BY <2>3 DEF ClosePipe
  <2>4. ASSUME NEW k \in Kids, KidExit(k) PROVE TypeOK'
    BY <2>4 DEF KidExit
  <2>5. ASSUME NEW s \in Statuses, LeaderExit(s) PROVE TypeOK'
    BY <2>5 DEF LeaderExit
  <2>6. ASSUME NEW t \in Text, Emit(t) PROVE TypeOK'
    BY <2>6 DEF Emit
  <2> QED BY <1>2, <2>1, <2>2, <2>3, <2>4, <2>5, <2>6 DEF GroupNext
<1>3. CASE WaitNext
  <2>1. CASE Copy
    BY <2>1 DEF Copy
  <2>2. CASE Reap
    BY <2>2 DEF Reap
  <2>3. CASE WaitDrained
    BY <2>3 DEF WaitDrained
  <2>4. CASE WaitDelayed
    BY <2>4 DEF WaitDelayed
  <2> QED BY <1>3, <2>1, <2>2, <2>3, <2>4 DEF WaitNext
<1>4. ASSUME NEW g \in BOOLEAN, StopCall(g) PROVE TypeOK'
  <2>1. stopAt' = "entry" /\ stopGraceful' = g /\ UNCHANGED <<groupVars, sent, waitVars>>
    BY <1>4 DEF StopCall
  <2>2. UNCHANGED <<forced, stopResult, killFailed>>
    BY <1>4 DEF StopCall
  <2> QED BY <2>1, <2>2
<1>5. CASE StopNext
  <2>1. CASE StopEntry
    BY <2>1 DEF StopEntry
  <2>2. CASE StopTerm
    <3>1. sent' \subseteq {"term", "kill"} /\ stopAt' \in {"grace", "leave"}
      BY <2>2 DEF StopTerm
    <3>2. stopResult' \in {stopResult, "signal_err"}
      BY <2>2 DEF StopTerm
    <3>3. UNCHANGED <<groupVars, waitVars, killFailed, forced, stopGraceful>>
      BY <2>2 DEF StopTerm
    <3> QED BY <3>1, <3>2, <3>3
  <2>3. CASE GraceDone
    BY <2>3 DEF GraceDone
  <2>4. CASE GraceExpires
    BY <2>4 DEF GraceExpires
  <2>5. CASE StopKill
    <3>1. sent' \subseteq {"term", "kill"} /\ kids' \in [Kids -> {"unborn", "member", "doomed", "escaped", "gone"}]
      BY <2>5, KilledTyped DEF StopKill
    <3>2. forced' = TRUE /\ stopAt' \in {"reap", "leave"} /\ stopResult' \in {stopResult, "kill_err"}
      BY <2>5 DEF StopKill
    <3>3. UNCHANGED <<leader, status, pipe, out, waitVars, killFailed, stopGraceful>>
      BY <2>5 DEF StopKill
    <3> QED BY <3>1, <3>2, <3>3
  <2>6. CASE ReapDone
    BY <2>6 DEF ReapDone
  <2>7. CASE ReapTimeout
    BY <2>7 DEF ReapTimeout
  <2>8. CASE StopLeave
    <3>1. sent' \subseteq {"term", "kill"} /\ kids' \in [Kids -> {"unborn", "member", "doomed", "escaped", "gone"}]
      BY <2>8, KilledTyped DEF StopLeave, DeferredKill
    <3>2. stopAt' = "idle" /\ killFailed' \in BOOLEAN
      BY <2>8 DEF StopLeave, DeferredKill
    <3>3. UNCHANGED <<leader, status, pipe, out, waitVars, forced, stopGraceful, stopResult>>
      BY <2>8 DEF StopLeave
    <3> QED BY <3>1, <3>2, <3>3
  <2> QED BY <1>5, <2>1, <2>2, <2>3, <2>4, <2>5, <2>6, <2>7, <2>8 DEF StopNext
<1>6. CASE UNCHANGED vars
  BY <1>6 DEF vars
<1> QED BY <1>1, <1>2, <1>3, <1>4, <1>5, <1>6 DEF Next

\* Every variable keeps to its type.
THEOREM TypeCorrect == Spec => []TypeOK
<1>1. Init => TypeOK
  BY DEF Init, TypeOK
<1>2. TypeOK /\ [Next]_vars => TypeOK'
  BY TypeStep
<1> QED BY <1>1, <1>2, PTL DEF Spec

-----------------------------------------------------------------------------
(* A killed group cannot grow, and every path of stop kills the group.     *)

KilledInv ==
  /\ "kill" \in sent => Members = {}
  /\ (stopResult # "none" /\ stopAt # "leave" /\ ~killFailed) => "kill" \in sent

\* No step revives a killed group or returns from stop without the kill.
LEMMA KilledStep == TypeOK /\ KilledInv /\ [Next]_vars => KilledInv'
<1> SUFFICES ASSUME TypeOK, KilledInv, [Next]_vars PROVE KilledInv'
  OBVIOUS
<1> USE DEF KilledInv, Members, groupVars, waitVars, stopVars
<1>1. CASE Start
  BY <1>1 DEF Start
<1>2. CASE GroupNext
  <2>1. ASSUME NEW k \in Kids, Fork(k) PROVE KilledInv'
    BY <2>1 DEF Fork
  <2>2. ASSUME NEW k \in Kids, Escape(k) \/ KidExit(k) PROVE KilledInv'
    BY <2>2 DEF Escape, KidExit, TypeOK
  <2>3. ASSUME NEW k \in Kids, ClosePipe(k) PROVE KilledInv'
    BY <2>3 DEF ClosePipe
  <2>4. ASSUME NEW s \in Statuses, LeaderExit(s) PROVE KilledInv'
    BY <2>4 DEF LeaderExit
  <2>5. ASSUME NEW t \in Text, Emit(t) PROVE KilledInv'
    BY <2>5 DEF Emit
  <2> QED BY <1>2, <2>1, <2>2, <2>3, <2>4, <2>5 DEF GroupNext
<1>3. CASE WaitNext
  <2>1. CASE Copy
    BY <2>1 DEF Copy
  <2>2. CASE Reap
    BY <2>2 DEF Reap
  <2>3. CASE WaitDrained \/ WaitDelayed
    BY <2>3 DEF WaitDrained, WaitDelayed
  <2> QED BY <1>3, <2>1, <2>2, <2>3 DEF WaitNext
<1>4. ASSUME NEW g \in BOOLEAN, StopCall(g) PROVE KilledInv'
  BY <1>4 DEF StopCall
<1>5. CASE StopNext
  <2>1. CASE StopEntry \/ GraceDone \/ ReapDone \/ ReapTimeout \/ GraceExpires
    BY <2>1 DEF StopEntry, GraceDone, ReapDone, ReapTimeout, GraceExpires
  <2>2. CASE StopTerm
    <3>1. kids' = kids /\ ("kill" \in sent' <=> "kill" \in sent)
      BY <2>2 DEF StopTerm
    <3>2. stopAt' = "leave" \/ (stopAt # "leave" /\ stopResult' = stopResult /\ killFailed' = killFailed)
      BY <2>2 DEF StopTerm
    <3> QED BY <3>1, <3>2
  <2>3. CASE StopKill
    BY <2>3 DEF StopKill, KillGroup
  <2>4. CASE StopLeave
    BY <2>4 DEF StopLeave, DeferredKill, KillGroup
  <2> QED BY <1>5, <2>1, <2>2, <2>3, <2>4 DEF StopNext
<1>6. CASE UNCHANGED vars
  BY <1>6 DEF vars
<1> QED BY <1>1, <1>2, <1>3, <1>4, <1>5, <1>6 DEF Next

\* Every return of stop leaves the whole group dead or dying, and the group
\* never grows again.
THEOREM GroupNeverSurvives == Spec => []NoSurvivor
<1>1. Init => KilledInv
  BY DEF Init, KilledInv, Members
<1>2. TypeOK /\ KilledInv /\ [Next]_vars => KilledInv'
  BY KilledStep
<1>3. KilledInv => NoSurvivor
  BY DEF KilledInv, NoSurvivor, GroupKilled
<1> QED BY <1>1, <1>2, <1>3, TypeCorrect, PTL DEF Spec

-----------------------------------------------------------------------------
(* What cmd.Wait's verdict is worth.                                       *)

WaitInv ==
  /\ LogsComplete
  /\ exited => leader = "reaped"
  /\ leader \in {"none", "alive"} => status = "none"
  /\ leader = "none" => pipe = {}
  /\ \A k \in pipe : kids[k] \in {"member", "doomed", "escaped"}

\* No step touches what a returned Wait stands for.
LEMMA WaitStep == TypeOK /\ WaitInv /\ [Next]_vars => WaitInv'
<1> SUFFICES ASSUME TypeOK, WaitInv, [Next]_vars PROVE WaitInv'
  OBVIOUS
<1> USE DEF WaitInv, LogsComplete, exited, groupVars, waitVars, stopVars
<1>1. CASE Start
  BY <1>1 DEF Start
<1>2. CASE GroupNext
  <2>1. ASSUME NEW k \in Kids, Fork(k) PROVE WaitInv'
    BY <2>1 DEF Fork, Members, TypeOK
  <2>2. ASSUME NEW k \in Kids, Escape(k) PROVE WaitInv'
    BY <2>2 DEF Escape, TypeOK
  <2>3. ASSUME NEW k \in Kids, ClosePipe(k) PROVE WaitInv'
    BY <2>3 DEF ClosePipe, TypeOK
  <2>4. ASSUME NEW k \in Kids, KidExit(k) PROVE WaitInv'
    BY <2>4 DEF KidExit, TypeOK
  <2>5. ASSUME NEW s \in Statuses, LeaderExit(s) PROVE WaitInv'
    BY <2>5 DEF LeaderExit, Statuses
  <2>6. ASSUME NEW t \in Text, Emit(t) PROVE WaitInv'
    BY <2>6 DEF Emit
  <2> QED BY <1>2, <2>1, <2>2, <2>3, <2>4, <2>5, <2>6 DEF GroupNext
<1>3. CASE WaitNext
  <2>1. CASE Copy
    BY <2>1 DEF Copy
  <2>2. CASE Reap
    BY <2>2 DEF Reap
  <2>3. CASE WaitDrained \/ WaitDelayed
    BY <2>3 DEF WaitDrained, WaitDelayed
  <2> QED BY <1>3, <2>1, <2>2, <2>3 DEF WaitNext
<1>4. ASSUME NEW g \in BOOLEAN, StopCall(g) PROVE WaitInv'
  BY <1>4 DEF StopCall
<1>5. CASE StopNext
  <2>1. CASE StopEntry \/ StopTerm \/ GraceDone \/ ReapDone \/ ReapTimeout \/ GraceExpires
    BY <2>1 DEF StopEntry, StopTerm, GraceDone, ReapDone, ReapTimeout, GraceExpires
  <2>2. CASE StopKill
    BY <2>2 DEF StopKill, KillGroup, TypeOK
  <2>3. CASE StopLeave
    BY <2>3 DEF StopLeave, DeferredKill, KillGroup, TypeOK
  <2> QED BY <1>5, <2>1, <2>2, <2>3 DEF StopNext
<1>6. CASE UNCHANGED vars
  BY <1>6 DEF vars
<1> QED BY <1>1, <1>2, <1>3, <1>4, <1>5, <1>6 DEF Next

LEMMA WaitInvariant == Spec => []WaitInv
<1>1. Init => WaitInv
  BY DEF Init, WaitInv, LogsComplete, exited
<1>2. TypeOK /\ WaitInv /\ [Next]_vars => WaitInv'
  BY WaitStep
<1> QED BY <1>1, <1>2, TypeCorrect, PTL DEF Spec

\* An error-free Wait means a zero exit, a closed pipe and a buffer that holds
\* every byte that was written.
THEOREM WaitIsEvidence == Spec => []LogsComplete
<1>1. WaitInv => LogsComplete
  BY DEF WaitInv
<1> QED BY <1>1, WaitInvariant, PTL

\* Once Wait has returned nothing changes its verdict, the logs or the wait
\* status: the leader is reaped and the copying goroutine has ended.
THEOREM WaitIsFinal == Spec => VerdictFinal
<1>1. WaitInv /\ [Next]_vars => [exited => UNCHANGED <<waited, seen, status>>]_vars
  <2> SUFFICES ASSUME WaitInv, Next, exited PROVE UNCHANGED <<waited, seen, status>>
    BY DEF vars
  <2> USE DEF exited, waitVars
  <2>1. leader = "reaped"
    BY DEF WaitInv
  <2>2. CASE Start
    BY <2>2 DEF Start
  <2>3. CASE GroupNext
    BY <2>1, <2>3 DEF GroupNext, Fork, Escape, ClosePipe, KidExit, LeaderExit, Emit
  <2>4. CASE WaitNext
    BY <2>1, <2>4 DEF WaitNext, Copy, Reap, WaitDrained, WaitDelayed
  <2>5. ASSUME NEW g \in BOOLEAN, StopCall(g) PROVE UNCHANGED <<waited, seen, status>>
    BY <2>5 DEF StopCall, groupVars
  <2>6. CASE StopNext
    BY <2>6 DEF StopNext, StopEntry, StopTerm, GraceDone, GraceExpires, StopKill, ReapDone,
       ReapTimeout, StopLeave, groupVars
  <2> QED BY <2>2, <2>3, <2>4, <2>5, <2>6 DEF Next
<1> QED BY <1>1, WaitInvariant, PTL DEF Spec, VerdictFinal

-----------------------------------------------------------------------------
(* What the verdict of stop is worth.  forced survives from one call to    *)
(* the next, so the verdict rests on the graceful call being the first.    *)

VerdictInv ==
  /\ StopVerdict
  /\ (stopResult = "none" /\ stopAt # "reap") => ~forced
  /\ (stopGraceful /\ stopAt \in {"entry", "term", "grace", "kill"}) => stopResult = "none"

\* No step makes the verdict of stop untrue.
LEMMA VerdictStep == TypeOK /\ VerdictInv /\ [Next]_vars => VerdictInv'
<1> SUFFICES ASSUME TypeOK, VerdictInv, [Next]_vars PROVE VerdictInv'
  OBVIOUS
<1> USE DEF VerdictInv, StopVerdict, exited, waitVars, stopVars
<1>1. ASSUME UNCHANGED stopVars, waited' = waited \/ waited = "running" PROVE VerdictInv'
  BY <1>1
<1>2. CASE Start \/ GroupNext \/ WaitNext \/ UNCHANGED vars
  BY <1>1, <1>2 DEF Start, GroupNext, Fork, Escape, ClosePipe, KidExit, LeaderExit, Emit,
     WaitNext, Copy, Reap, WaitDrained, WaitDelayed, vars
<1>3. ASSUME NEW g \in BOOLEAN, StopCall(g) PROVE VerdictInv'
  BY <1>3 DEF StopCall, TypeOK
<1>4. CASE StopNext
  <2>1. CASE StopEntry
    BY <2>1 DEF StopEntry
  <2>2. CASE StopTerm
    BY <2>2 DEF StopTerm
  <2>3. CASE GraceDone
    BY <2>3 DEF GraceDone
  <2>4. CASE GraceExpires
    BY <2>4 DEF GraceExpires
  <2>5. CASE StopKill
    BY <2>5 DEF StopKill
  <2>6. CASE ReapDone \/ ReapTimeout
    BY <2>6 DEF ReapDone, ReapTimeout
  <2>7. CASE StopLeave
    BY <2>7 DEF StopLeave
  <2> QED BY <1>4, <2>1, <2>2, <2>3, <2>4, <2>5, <2>6, <2>7 DEF StopNext
<1> QED BY <1>2, <1>3, <1>4 DEF Next

\* An "ok" or "forced" return means p.done is closed, whatever signals did,
\* and a graceful "ok" means nothing had to be killed.
THEOREM StopTellsTheTruth == Spec => []StopVerdict
<1>1. Init => VerdictInv
  BY DEF Init, VerdictInv, StopVerdict
<1>2. TypeOK /\ VerdictInv /\ [Next]_vars => VerdictInv'
  BY VerdictStep
<1>3. VerdictInv => StopVerdict
  BY DEF VerdictInv
<1> QED BY <1>1, <1>2, <1>3, TypeCorrect, PTL DEF Spec
=============================================================================
