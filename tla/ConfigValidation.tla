--------------------------- MODULE ConfigValidation ---------------------------
(***************************************************************************)
(* ValidateConfig (src/internal/collector/validate.go): the supplied       *)
(* binary is run as "otelcol validate" through exec.CommandContext, with a *)
(* 30 s deadline inside the caller's context.  Three goroutines of os/exec *)
(* take part: Run waits for the process, a copying goroutine reads the one *)
(* pipe both outputs share, and a watching goroutine kills the validator   *)
(* (it alone, it leads no group) when the context ends.  WaitDelay is zero:*)
(* after the process Run waits for the end of the pipe without a bound.    *)
(***************************************************************************)

CONSTANT Heirs   \* the descendants of the validator (bounds their number)

VARIABLES
  validator,   \* "none", "alive", "zombie" or "reaped"
  vstatus,     \* how it exited, "none" before
  killed,      \* SIGKILL was sent to it
  holders,     \* the descendants that hold the output pipe
  unread,      \* something is in the pipe
  vctx,        \* the context: "live", "deadline" or "canceled"
  watch,       \* the watching goroutine: "waiting", "done" or "interrupted"
  verdict      \* what ValidateConfig returns, "none" yet

validationVars == <<validator, vstatus, killed, holders, unread, vctx, watch, verdict>>

Verdicts == {"pass", "failed", "timed_out"}

ValidationTypeOK ==
  /\ validator \in {"none", "alive", "zombie", "reaped"}
  /\ vstatus \in {"none", "zero", "nonzero", "signal"}
  /\ killed \in BOOLEAN /\ unread \in BOOLEAN
  /\ holders \subseteq Heirs
  /\ vctx \in {"live", "deadline", "canceled"}
  /\ watch \in {"waiting", "done", "interrupted"}
  /\ verdict \in Verdicts \cup {"none"}

InitValidation ==
  /\ validator = "none" /\ vstatus = "none" /\ killed = FALSE
  /\ holders = {} /\ unread = FALSE
  /\ vctx = "live" /\ watch = "waiting" /\ verdict = "none"

-----------------------------------------------------------------------------
(* The validator and its descendants                                       *)

ValidatorForks(k) ==
  /\ (validator = "alive" /\ ~killed) \/ holders # {}
  /\ holders' = holders \cup {k}
  /\ UNCHANGED <<validator, vstatus, killed, unread, vctx, watch, verdict>>

\* A descendant exits or gives the pipe up.
HolderLeaves(k) ==
  /\ holders' = holders \ {k}
  /\ UNCHANGED <<validator, vstatus, killed, unread, vctx, watch, verdict>>

ValidatorWrites ==
  /\ validator = "alive" \/ holders # {}
  /\ unread' = TRUE
  /\ UNCHANGED <<validator, vstatus, killed, holders, vctx, watch, verdict>>

ValidatorExits(s) ==
  /\ validator = "alive"
  /\ s = "signal" => killed
  /\ validator' = "zombie" /\ vstatus' = s
  /\ UNCHANGED <<killed, holders, unread, vctx, watch, verdict>>

-----------------------------------------------------------------------------
(* os/exec                                                                 *)

\* cmd.Start: not with a context that has ended, and not without a binary.
StartValidation(canceled) ==
  /\ validator = "none" /\ verdict = "none"
  /\ vctx' = IF canceled THEN "canceled" ELSE "live"
  /\ \/ ~canceled /\ validator' = "alive" /\ UNCHANGED verdict
     \/ verdict' = "failed" /\ UNCHANGED validator
  /\ UNCHANGED <<vstatus, killed, holders, unread, watch>>

CopyOutput ==
  /\ unread /\ unread' = FALSE
  /\ UNCHANGED <<validator, vstatus, killed, holders, vctx, watch, verdict>>

ReapValidator ==
  /\ validator = "zombie" /\ validator' = "reaped"
  /\ UNCHANGED <<vstatus, killed, holders, unread, vctx, watch, verdict>>

\* Mutant of DeadlinePasses: the context has no timeout.
DeadlineUnset ==
  /\ validator # "none" /\ verdict = "none" /\ vctx = "canceled"
  /\ vctx' = "deadline"
  /\ UNCHANGED <<validator, vstatus, killed, holders, unread, watch, verdict>>

DeadlinePasses ==
  /\ validator # "none" /\ verdict = "none" /\ vctx = "live"
  /\ vctx' = "deadline"
  /\ UNCHANGED <<validator, vstatus, killed, holders, unread, watch, verdict>>

\* The context ended before Run had asked for the watching goroutine's
\* result.  Killing a zombie succeeds, and then the context's error counts
\* even if the validator exited with zero; a reaped one is "already done".
WatchKills ==
  /\ validator # "none" /\ watch = "waiting" /\ vctx # "live"
  /\ IF validator = "reaped"
       THEN watch' = "done" /\ UNCHANGED killed
       ELSE watch' = "interrupted" /\ killed' = TRUE
  /\ UNCHANGED <<validator, vstatus, holders, unread, vctx, verdict>>

\* Run takes the goroutine's result after it has reaped the process.
WatchEnds ==
  /\ validator = "reaped" /\ watch = "waiting"
  /\ watch' = "done"
  /\ UNCHANGED <<validator, vstatus, killed, holders, unread, vctx, verdict>>

runError == vstatus # "zero" \/ watch = "interrupted"

\* Mutant of ReturnVerdict: as with a WaitDelay whose error is dropped.
ReturnUndrained ==
  /\ validator = "reaped" /\ watch # "waiting" /\ verdict = "none"
  /\ verdict' = IF ~runError THEN "pass"
                ELSE IF vctx = "deadline" THEN "timed_out" ELSE "failed"
  /\ UNCHANGED <<validator, vstatus, killed, holders, unread, vctx, watch>>

\* The pipe has ended: nobody holds it and it is empty.
ReturnVerdict ==
  /\ validator = "reaped" /\ watch # "waiting" /\ verdict = "none"
  /\ holders = {} /\ ~unread
  /\ verdict' = IF ~runError THEN "pass"
                ELSE IF vctx = "deadline" THEN "timed_out" ELSE "failed"
  /\ UNCHANGED <<validator, vstatus, killed, holders, unread, vctx, watch>>

\* The caller's context is canceled.
CancelValidation == vctx' = IF validator # "none" /\ verdict = "none" /\ vctx = "live" THEN "canceled" ELSE vctx

ExecSteps == CopyOutput \/ ReapValidator \/ WatchKills \/ WatchEnds \/ ReturnVerdict

ValidatorSteps ==
  \/ \E k \in Heirs : ValidatorForks(k) \/ HolderLeaves(k)
  \/ ValidatorWrites
  \/ \E s \in {"zero", "nonzero", "signal"} : ValidatorExits(s)

-----------------------------------------------------------------------------
(* Properties *)

\* A configuration passes only if the validator itself exited with zero and
\* was not cut short, with all that it and its descendants had to say read;
\* a timeout is reported only when the deadline had passed, and a validator
\* that exited with zero fails only if a kill was sent before it was reaped.
ValidationTellsTruth ==
  /\ verdict = "pass" => vstatus = "zero" /\ ~killed /\ holders = {} /\ ~unread
  /\ verdict = "timed_out" => vctx = "deadline"
  /\ verdict \in {"failed", "timed_out"} => vstatus # "zero" \/ killed
=============================================================================
