---------------------------- MODULE CapturePromise ----------------------------
(***************************************************************************)
(* What the capture service promises the runner, whatever gRPC does: a     *)
(* capture that was closed with no failure holds every request the server  *)
(* began; a failure is final and stops the capture where it is; after the  *)
(* close nothing changes, so the runner may read the result.               *)
(***************************************************************************)
CONSTANT Requests   \* the export requests clients may make

VARIABLES
  begun,      \* the requests the server saw the start of
  captured,   \* the requests whose telemetry the capture holds
  failed,     \* the capture has a failure category
  closed      \* close() has returned

vars == <<begun, captured, failed, closed>>

Init == begun = {} /\ captured = {} /\ failed = FALSE /\ closed = FALSE

\* A client's request reaches the server.
Begin(r) ==
  /\ ~closed /\ r \notin begun
  /\ begun' = begun \cup {r}
  /\ UNCHANGED <<captured, failed, closed>>

\* The service takes a request's telemetry.
Take(r) ==
  /\ ~closed /\ ~failed
  /\ r \in begun \ captured
  /\ captured' = captured \cup {r}
  /\ UNCHANGED <<begun, failed, closed>>

\* Something was, or may have been, missed.
Fail ==
  /\ ~closed
  /\ failed' = TRUE
  /\ UNCHANGED <<begun, captured, closed>>

Seal ==
  /\ ~closed
  /\ failed \/ captured = begun
  /\ closed' = TRUE
  /\ UNCHANGED <<begun, captured, failed>>

Next == (\E r \in Requests : Begin(r) \/ Take(r)) \/ Fail \/ Seal

Spec == Init /\ [][Next]_vars

\* A capture that closed with no failure lost nothing.
NoSilentLoss == closed /\ ~failed => captured = begun

\* A failure is final and freezes what was captured.
FailureIsFinal == [][failed => failed' /\ captured' = captured]_vars

\* The runner reads the result of close() without any further wait.
ClosedIsFinal == [][~closed]_vars
=============================================================================
