----------------------------- MODULE ChildProcess -----------------------------
(***************************************************************************)
(* One child process of the runner: src/internal/runner/process.go with    *)
(* process_unix.go.  startProcess starts a process group leader whose two  *)
(* outputs share one pipe, a goroutine waits for it, and stop ends the     *)
(* group.  Three actors interleave here:                                   *)
(*   - the group itself (leader and descendants: they fork, write, leave   *)
(*     the group, close the pipe and die when they like);                  *)
(*   - the goroutine of startProcess running cmd.Wait, with the 100 ms     *)
(*     WaitDelay, and the copying goroutine of os/exec;                    *)
(*   - the caller's goroutine inside stop, one statement at a time.        *)
(* Time is not modelled: a timer may fire whenever it is armed, so the     *)
(* context's end and the 3 s timer of stop are one step.                   *)
(***************************************************************************)
EXTENDS FiniteSets, Naturals

CONSTANTS
  Kids,           \* the descendants the leader may fork (bounds their number)
  Text,           \* the kinds of output that matter to the caller
  SelfExits,      \* the ways a process ends with no signal from the runner
  SignalCanFail   \* kill(2) may fail with an error other than ESRCH

ASSUME ConstantsAssumption ==
  /\ SelfExits \subseteq {"zero", "nonzero", "signal"}
  /\ SignalCanFail \in BOOLEAN

VARIABLES
  leader,         \* "none", "alive", "zombie", "reaped"
  status,         \* the leader's wait status, "none" while it lives
  sent,           \* the signals that reached the group
  kids,           \* per descendant: where it stands with the group
  pipe,           \* the descendants that hold the output pipe open
  out,            \* what the group wrote
  seen,           \* what the copying goroutine passed to privateBuffer.Write
  waited,         \* p.done and p.err: "running", or how cmd.Wait returned
  forced,         \* p.forced
  stopAt,         \* the next statement of stop, "idle" outside a call
  stopGraceful,   \* the argument of the current or latest call
  stopResult,     \* what the latest call returned, "none" before the first
  killFailed      \* its deferred kill failed; nobody is told (history)

groupVars == <<leader, status, kids, pipe, out>>
waitVars  == <<seen, waited>>
stopVars  == <<forced, stopAt, stopGraceful, stopResult, killFailed>>
vars      == <<groupVars, sent, waitVars, stopVars>>

Statuses  == {"zero", "nonzero", "signal"}
Returned  == {"nil", "exit", "delay"}
StopSteps == {"entry", "term", "grace", "kill", "reap", "leave"}
Results   == {"ok", "signal_err", "kill_err", "forced_shutdown", "unreaped"}

TypeOK ==
  /\ leader \in {"none", "alive", "zombie", "reaped"}
  /\ status \in Statuses \cup {"none"}
  /\ sent \subseteq {"term", "kill"}
  /\ kids \in [Kids -> {"unborn", "member", "doomed", "escaped", "gone"}]
  /\ pipe \subseteq Kids
  /\ out \subseteq Text
  /\ seen \subseteq Text
  /\ waited \in Returned \cup {"running"}
  /\ forced \in BOOLEAN
  /\ stopAt \in StopSteps \cup {"idle"}
  /\ stopGraceful \in BOOLEAN
  /\ stopResult \in Results \cup {"none"}
  /\ killFailed \in BOOLEAN

Init ==
  /\ leader = "none" /\ status = "none" /\ sent = {}
  /\ kids = [k \in Kids |-> "unborn"] /\ pipe = {}
  /\ out = {} /\ seen = {} /\ waited = "running"
  /\ forced = FALSE /\ stopAt = "idle"
  /\ stopGraceful = FALSE /\ stopResult = "none" /\ killFailed = FALSE

-----------------------------------------------------------------------------
(* The process group: external code, observed only through what it does.   *)

Members == {k \in Kids : kids[k] = "member"}

\* startProcess when cmd.Start succeeds.
Start ==
  /\ leader = "none"
  /\ leader' = "alive"
  /\ UNCHANGED <<status, kids, pipe, out, sent, waitVars, stopVars>>

\* A process with SIGKILL pending never returns from fork, and kill(2) on a
\* group reaches all of it at once, so only an unkilled group grows.  The
\* descendant inherits the output its parent holds.
Fork(k) ==
  /\ leader = "alive" \/ Members # {}
  /\ "kill" \notin sent
  /\ kids[k] = "unborn"
  /\ kids' = [kids EXCEPT ![k] = "member"]
  /\ pipe' = IF leader = "alive" \/ pipe \cap Members # {} THEN pipe \cup {k} ELSE pipe
  /\ UNCHANGED <<leader, status, out, sent, waitVars, stopVars>>

\* A descendant leaves the group (setsid, setpgid).
Escape(k) ==
  /\ kids[k] = "member"
  /\ kids' = [kids EXCEPT ![k] = "escaped"]
  /\ UNCHANGED <<leader, status, pipe, out, sent, waitVars, stopVars>>

\* A descendant closes or redirects the output it inherited.
ClosePipe(k) ==
  /\ k \in pipe
  /\ kids[k] # "doomed"
  /\ pipe' = pipe \ {k}
  /\ UNCHANGED <<leader, status, kids, out, sent, waitVars, stopVars>>

KidExit(k) ==
  /\ kids[k] \in {"member", "doomed", "escaped"}
  /\ kids' = [kids EXCEPT ![k] = "gone"]
  /\ pipe' = pipe \ {k}
  /\ UNCHANGED <<leader, status, out, sent, waitVars, stopVars>>

LeaderExit(s) ==
  /\ leader = "alive"
  /\ s \in SelfExits \/ (s = "signal" /\ sent # {})
  /\ leader' = "zombie"
  /\ status' = s
  /\ UNCHANGED <<kids, pipe, out, sent, waitVars, stopVars>>

Emit(t) ==
  /\ leader = "alive" \/ pipe # {}
  /\ waited = "running"
  /\ out' = out \cup {t}
  /\ UNCHANGED <<leader, status, kids, pipe, sent, waitVars, stopVars>>

-----------------------------------------------------------------------------
(* cmd.Wait and the copying goroutine.                                     *)

\* Mutant of Copy: the copying goroutine outlives the Wait.
CopyOn ==
  /\ seen # out
  /\ seen' = out
  /\ UNCHANGED <<groupVars, sent, waited, stopVars>>

Copy ==
  /\ waited = "running"
  /\ seen # out
  /\ seen' = out
  /\ UNCHANGED <<groupVars, sent, waited, stopVars>>

\* cmd.Wait collects the leader's status.
Reap ==
  /\ leader = "zombie"
  /\ leader' = "reaped"
  /\ UNCHANGED <<status, kids, pipe, out, sent, waitVars, stopVars>>

\* The copying goroutine met the end of the pipe: nobody holds it any more
\* and everything written was read.
WaitDrained ==
  /\ leader = "reaped" /\ waited = "running"
  /\ pipe = {} /\ seen = out
  /\ waited' = IF status = "zero" THEN "nil" ELSE "exit"
  /\ UNCHANGED <<groupVars, sent, seen, stopVars>>

\* Mutant of WaitDelayed: ErrWaitDelay is dropped.
WaitDelayForgotten ==
  /\ leader = "reaped" /\ waited = "running"
  /\ waited' = IF status = "zero" THEN "nil" ELSE "exit"
  /\ UNCHANGED <<groupVars, sent, seen, stopVars>>

\* WaitDelay passed first: the pipe is closed on whoever still writes, and
\* the error is ErrWaitDelay unless the exit status already made one.
WaitDelayed ==
  /\ leader = "reaped" /\ waited = "running"
  /\ waited' = IF status = "zero" THEN "delay" ELSE "exit"
  /\ UNCHANGED <<groupVars, sent, seen, stopVars>>

exited == waited # "running"

-----------------------------------------------------------------------------
(* stop                                                                    *)

\* Mutant of KillGroup: kill(pid) for kill(-pid).
KillLeader == sent' = sent \cup {"kill"} /\ UNCHANGED kids

\* signalProcessGroup(cmd, SIGKILL) when it succeeds or finds no group.
KillGroup ==
  /\ sent' = sent \cup {"kill"}
  /\ kids' = [k \in Kids |-> IF kids[k] = "member" THEN "doomed" ELSE kids[k]]

\* The deferred kill of stop ignores its error.
DeferredKill ==
  \/ KillGroup /\ killFailed' = FALSE
  \/ SignalCanFail /\ killFailed' = TRUE /\ UNCHANGED <<sent, kids>>

\* A call of stop.  The graceful one is the runner's first: collector.go
\* stops gracefully once, and afterwards only the deferred stop(false) runs.
StopCall(g) ==
  /\ leader # "none" /\ stopAt = "idle"
  /\ g => stopResult = "none"
  /\ stopAt' = "entry"
  /\ stopGraceful' = g
  /\ UNCHANGED <<groupVars, sent, waitVars, killFailed, forced, stopResult>>

StopEntry ==
  /\ stopAt = "entry"
  /\ IF exited
       THEN stopAt' = "leave" /\ stopResult' = "ok"
       ELSE /\ stopAt' = IF stopGraceful THEN "term" ELSE "kill"
            /\ UNCHANGED stopResult
  /\ UNCHANGED <<groupVars, sent, waitVars, killFailed, forced, stopGraceful>>

\* Mutant of StopTerm: an interrupt where the Collector expects SIGTERM.
StopInterrupt ==
  /\ stopAt = "term"
  /\ sent' = sent \cup {"int"}
  /\ stopAt' = "grace"
  /\ UNCHANGED <<groupVars, waitVars, killFailed, forced, stopGraceful, stopResult>>

StopTerm ==
  /\ stopAt = "term"
  /\ \/ /\ sent' = sent \cup {"term"}
        /\ stopAt' = "grace"
        /\ UNCHANGED stopResult
     \/ /\ SignalCanFail
        /\ stopAt' = "leave" /\ stopResult' = "signal_err"
        /\ UNCHANGED sent
  /\ UNCHANGED <<groupVars, waitVars, killFailed, forced, stopGraceful>>

GraceDone ==
  /\ stopAt = "grace" /\ exited
  /\ stopAt' = "leave" /\ stopResult' = "ok"
  /\ UNCHANGED <<groupVars, sent, waitVars, killFailed, forced, stopGraceful>>

\* Mutant of GraceExpires: the select has neither ctx.Done() nor the timer.
GraceUnbounded ==
  /\ stopAt = "grace" /\ exited
  /\ stopAt' = "kill"
  /\ UNCHANGED <<groupVars, sent, waitVars, killFailed, forced, stopGraceful, stopResult>>

\* ctx.Done() or the shutdownAllowance timer.  A select with p.done also
\* ready may still take this case.
GraceExpires ==
  /\ stopAt = "grace"
  /\ stopAt' = "kill"
  /\ UNCHANGED <<groupVars, sent, waitVars, killFailed, forced, stopGraceful, stopResult>>

StopKill ==
  /\ stopAt = "kill"
  /\ forced' = TRUE
  /\ \/ KillGroup /\ stopAt' = "reap" /\ UNCHANGED stopResult
     \/ /\ SignalCanFail
        /\ stopAt' = "leave" /\ stopResult' = "kill_err"
        /\ UNCHANGED <<sent, kids>>
  /\ UNCHANGED <<leader, status, pipe, out, waitVars, killFailed, stopGraceful>>

\* Mutant of ReapDone: a forced shutdown passes for a clean one.
ReapDoneQuiet ==
  /\ stopAt = "reap" /\ exited
  /\ stopAt' = "leave" /\ stopResult' = "ok"
  /\ UNCHANGED <<groupVars, sent, waitVars, killFailed, forced, stopGraceful>>

ReapDone ==
  /\ stopAt = "reap" /\ exited
  /\ stopAt' = "leave"
  /\ stopResult' = IF stopGraceful THEN "forced_shutdown" ELSE "ok"
  /\ UNCHANGED <<groupVars, sent, waitVars, killFailed, forced, stopGraceful>>

ReapTimeout ==
  /\ stopAt = "reap"
  /\ stopAt' = "leave" /\ stopResult' = "unreaped"
  /\ UNCHANGED <<groupVars, sent, waitVars, killFailed, forced, stopGraceful>>

\* Mutant of StopLeave: no deferred kill.
StopLeaveGroup ==
  /\ stopAt = "leave"
  /\ stopAt' = "idle"
  /\ UNCHANGED <<groupVars, sent, waitVars, forced, stopGraceful, stopResult, killFailed>>

\* The deferred kill of the group, then the return to the caller.
StopLeave ==
  /\ stopAt = "leave"
  /\ DeferredKill
  /\ stopAt' = "idle"
  /\ UNCHANGED <<leader, status, pipe, out, waitVars, forced, stopGraceful, stopResult>>

-----------------------------------------------------------------------------
\* record: the exit status the report shows.
record ==
  IF forced THEN "forced"
  ELSE IF ~exited THEN "running"
  ELSE IF status = "signal" THEN "signaled"
  ELSE "exited"

GroupNext ==
  \/ \E k \in Kids : Fork(k) \/ Escape(k) \/ ClosePipe(k) \/ KidExit(k)
  \/ \E s \in Statuses : LeaderExit(s)
  \/ \E t \in Text : Emit(t)

WaitNext == Copy \/ Reap \/ WaitDrained \/ WaitDelayed

StopNext ==
  \/ StopEntry \/ StopTerm \/ GraceDone \/ GraceExpires
  \/ StopKill \/ ReapDone \/ ReapTimeout \/ StopLeave

Next ==
  \/ Start
  \/ GroupNext
  \/ WaitNext
  \/ \E g \in BOOLEAN : StopCall(g)
  \/ StopNext

Spec == Init /\ [][Next]_vars

\* SIGKILL takes effect.
KernelKills ==
  /\ "kill" \in sent
  /\ LeaderExit("signal") \/ \E k \in Kids : kids[k] = "doomed" /\ KidExit(k)

\* cmd.Wait always gets to run, its WaitDelay timer fires, and so do the
\* timers of stop; nothing is assumed of the Collector itself.
Fairness ==
  /\ WF_vars(Reap) /\ WF_vars(WaitDrained \/ WaitDelayed)
  /\ WF_vars(StopNext)
  /\ WF_vars(KernelKills)

FairSpec == Spec /\ Fairness

-----------------------------------------------------------------------------
(* Properties *)

\* The group is beyond help: the leader is dead or has SIGKILL pending and
\* so has every descendant still in the group.
GroupKilled ==
  /\ leader = "alive" => "kill" \in sent
  /\ Members = {}

\* stop's contract: whatever path it took (the leader had already exited, it
\* obeyed SIGTERM, it had to be killed, it could not be reaped in time), no
\* process of the group survives the return unkilled, later ones included.
\* Only the failure of the deferred kill itself excuses it.
NoSurvivor ==
  (stopResult # "none" /\ stopAt = "idle" /\ ~killFailed) => GroupKilled

\* A Wait that returned no error is evidence: the leader exited with zero,
\* nobody can write to the pipe any more and the buffer got all of it, so a
\* marker that is not in the buffer was never printed (collector.go 267-275
\* relies on it for "no export failure").
LogsComplete ==
  waited = "nil" =>
    /\ status = "zero"
    /\ leader = "reaped" /\ pipe = {}
    /\ seen = out

\* A stop that reports the end of the process is right even if signals can
\* fail: p.done is closed, so the process.err its caller reads next is final
\* (collector.go 258-267).  And a graceful stop that had to kill, or lost the
\* race between p.done and its timer, is never reported as a clean one.
StopVerdict ==
  (stopAt \in {"leave", "idle"} /\ stopResult \in {"ok", "forced_shutdown"}) =>
    /\ exited
    /\ (stopGraceful /\ stopResult = "ok") => ~forced

\* p.err is written once, before p.done is closed, and never again, and
\* with it the logs and the wait status are final.  The exit status that record
\* makes of them is not: a stop under way may still set forced.
VerdictFinal == [][exited => UNCHANGED <<waited, seen, status>>]_vars

\* Every call of stop returns: the Collector can delay it, never hold it.
StopReturns == stopAt # "idle" ~> stopAt = "idle"

\* A stop that returned leaves nothing behind for good: the leader is reaped,
\* the Wait goroutine ends and every descendant in the group dies.
StopReleases ==
  (stopResult # "none" /\ stopAt = "idle" /\ ~killFailed) ~>
    (leader = "reaped" /\ exited /\ \A k \in Kids : kids[k] \in {"unborn", "escaped", "gone"})
=============================================================================
