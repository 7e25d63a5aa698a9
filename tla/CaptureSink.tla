----------------------------- MODULE CaptureSink -----------------------------
(***************************************************************************)
(* The capture service: src/internal/runner/capture.go.  A gRPC server     *)
(* runs the three Export handlers concurrently under one mutex; HandleRPC  *)
(* is told how each RPC ended; Serve runs in a goroutine of startCapture;  *)
(* close() races GracefulStop against a timer.  The server is external and *)
(* modelled by what capture.go relies on: every stream that begins ends    *)
(* with one stats.End, after its handler; GracefulStop returns only when   *)
(* no stream is left; Stop cuts the streams.                               *)
(***************************************************************************)
EXTENDS Naturals, FiniteSets, FiniteSetsExt

CONSTANTS
  Requests,            \* the export requests of all clients
  Size, Items,         \* the size and the item count of each request
  maxMessageBytes, maxCaptureBytes, maxCaptureItems, maxCaptureRequests

ASSUME SizesAssumption ==
  /\ Size \in [Requests -> Nat] /\ Items \in [Requests -> Nat]
  /\ maxMessageBytes \in Nat /\ maxCaptureBytes \in Nat
  /\ maxCaptureItems \in Nat /\ maxCaptureRequests \in Nat

VARIABLES
  rpc,       \* per request: where its RPC stands
  raw,       \* the requests whose telemetry was appended to raw
  bytes, items, requests,
  failure,   \* the failure category, "none" while it is empty
  server,    \* "up", "draining" (GracefulStop), "stopped" (Stop), "drained" (done closed)
  accept,    \* the goroutine of Serve: "pending", "serving", "returned"
  closing    \* close(): "open", "wait", "stop", "served", "closed"

counters == <<bytes, items, requests>>
vars == <<rpc, raw, counters, failure, server, accept, closing>>

Categories == {"capture_server", "capture_limit", "capture_transport", "capture_shutdown"}

TypeOK ==
  /\ rpc \in [Requests -> {"idle", "begun", "stored", "refused", "ended"}]
  /\ raw \subseteq Requests
  /\ bytes \in Nat /\ items \in Nat /\ requests \in Nat
  /\ failure \in Categories \cup {"none"}
  /\ server \in {"up", "draining", "stopped", "drained"}
  /\ accept \in {"pending", "serving", "returned"}
  /\ closing \in {"open", "wait", "stop", "served", "closed"}

\* startCapture returned: the listener exists, the Serve goroutine is to run.
Init ==
  /\ rpc = [r \in Requests |-> "idle"]
  /\ raw = {} /\ bytes = 0 /\ items = 0 /\ requests = 0
  /\ failure = "none"
  /\ server = "up" /\ accept = "pending" /\ closing = "open"

failed == failure # "none"

failLocked(category) == failure' = IF failed THEN failure ELSE category

InFlight == {r \in Requests : rpc[r] \in {"begun", "stored", "refused"}}

-----------------------------------------------------------------------------
(* The Serve goroutine                                                     *)

ServeStarts ==
  /\ accept = "pending" /\ server = "up"
  /\ accept' = "serving"
  /\ UNCHANGED <<rpc, raw, counters, failure, server, closing>>

\* Serve returns an error: accept failed, or the server was stopped before
\* Serve got to run.
ServeFails ==
  /\ \/ accept = "serving" /\ server = "up"
     \/ accept = "pending" /\ server # "up"
  /\ accept' = "returned"
  /\ failLocked("capture_server")
  /\ UNCHANGED <<rpc, raw, counters, server, closing>>

ServeReturns ==
  /\ accept = "serving" /\ server # "up"
  /\ accept' = "returned"
  /\ UNCHANGED <<rpc, raw, counters, failure, server, closing>>

-----------------------------------------------------------------------------
(* One RPC                                                                 *)

\* A draining server still takes the streams its clients opened before they
\* saw the GOAWAY.
Begin(r) ==
  /\ rpc[r] = "idle"
  /\ accept # "pending" /\ server \in {"up", "draining"}
  /\ rpc' = [rpc EXCEPT ![r] = "begun"]
  /\ UNCHANGED <<raw, counters, failure, server, accept, closing>>

\* Mutant of Fits: the request itself is left out of the size it must fit.
FitsBefore(r) ==
  /\ Size[r] <= maxMessageBytes
  /\ bytes <= maxCaptureBytes
  /\ items + Items[r] <= maxCaptureItems
  /\ requests + 1 <= maxCaptureRequests

Fits(r) ==
  /\ Size[r] <= maxMessageBytes
  /\ bytes + Size[r] <= maxCaptureBytes
  /\ items + Items[r] <= maxCaptureItems
  /\ requests + 1 <= maxCaptureRequests

\* Mutant of ExportStores: reserve does not look at the failure.
ExportStoresAfterFailure(r) ==
  /\ rpc[r] = "begun" /\ Fits(r)
  /\ bytes' = bytes + Size[r] /\ items' = items + Items[r] /\ requests' = requests + 1
  /\ raw' = raw \cup {r}
  /\ rpc' = [rpc EXCEPT ![r] = "stored"]
  /\ UNCHANGED <<failure, server, accept, closing>>

\* Export of any signal when reserve grants the room.
ExportStores(r) ==
  /\ rpc[r] = "begun"
  /\ ~failed /\ Fits(r)
  /\ bytes' = bytes + Size[r] /\ items' = items + Items[r] /\ requests' = requests + 1
  /\ raw' = raw \cup {r}
  /\ rpc' = [rpc EXCEPT ![r] = "stored"]
  /\ UNCHANGED <<failure, server, accept, closing>>

\* Mutant of ExportRefuses: the refused request is charged.
ExportRefusesCharged(r) ==
  /\ rpc[r] = "begun"
  /\ failed \/ ~Fits(r)
  /\ failLocked("capture_limit")
  /\ bytes' = bytes + Size[r]
  /\ rpc' = [rpc EXCEPT ![r] = "refused"]
  /\ UNCHANGED <<raw, items, requests, server, accept, closing>>

\* Export when reserve refuses: after any failure, or for want of room.
ExportRefuses(r) ==
  /\ rpc[r] = "begun"
  /\ failed \/ ~Fits(r)
  /\ failLocked("capture_limit")
  /\ rpc' = [rpc EXCEPT ![r] = "refused"]
  /\ UNCHANGED <<raw, counters, server, accept, closing>>

\* stats.End without an error.
EndOk(r) ==
  /\ rpc[r] = "stored"
  /\ rpc' = [rpc EXCEPT ![r] = "ended"]
  /\ UNCHANGED <<raw, counters, failure, server, accept, closing>>

\* stats.End with ResourceExhausted: reserve refused, or gRPC found the
\* message larger than MaxRecvMsgSize and never called the handler.
EndExhausted(r) ==
  /\ rpc[r] = "refused" \/ (rpc[r] = "begun" /\ Size[r] > maxMessageBytes)
  /\ failLocked("capture_limit")
  /\ rpc' = [rpc EXCEPT ![r] = "ended"]
  /\ UNCHANGED <<raw, counters, server, accept, closing>>

\* Mutant of EndBroken: HandleRPC sees to ResourceExhausted only.
EndBrokenUnnoticed(r) ==
  /\ rpc[r] \in {"begun", "stored"}
  /\ rpc' = [rpc EXCEPT ![r] = "ended"]
  /\ UNCHANGED <<raw, counters, failure, server, accept, closing>>

\* stats.End with any other error: the client cancelled or went away, the
\* message was cut or could not be decoded, or the response was not written.
\* The handler may have run, or may never run.
EndBroken(r) ==
  /\ rpc[r] \in {"begun", "stored"}
  /\ failLocked("capture_transport")
  /\ rpc' = [rpc EXCEPT ![r] = "ended"]
  /\ UNCHANGED <<raw, counters, server, accept, closing>>

-----------------------------------------------------------------------------
(* close                                                                   *)

CloseCall ==
  /\ closing = "open"
  /\ closing' = "wait"
  /\ server' = "draining"
  /\ UNCHANGED <<rpc, raw, counters, failure, accept>>

\* GracefulStop returns and the goroutine of close() closes done.
GracefulReturns ==
  /\ server \in {"draining", "stopped"}
  /\ accept # "serving" /\ InFlight = {}
  /\ server' = "drained"
  /\ UNCHANGED <<rpc, raw, counters, failure, accept, closing>>

\* Mutants of CloseTimeout: a category the report does not know; no Stop.
CloseTimeoutMisnamed ==
  /\ closing = "wait"
  /\ failLocked("shutdown")
  /\ server' = IF server = "drained" THEN "drained" ELSE "stopped"
  /\ closing' = "stop"
  /\ UNCHANGED <<rpc, raw, counters, accept>>

CloseTimeoutWaits ==
  /\ closing = "wait"
  /\ failLocked("capture_shutdown")
  /\ closing' = "stop"
  /\ UNCHANGED <<rpc, raw, counters, server, accept>>

\* The 500 ms timer, whether or not done is closed too; then Stop.
CloseTimeout ==
  /\ closing = "wait"
  /\ failLocked("capture_shutdown")
  /\ server' = IF server = "drained" THEN "drained" ELSE "stopped"
  /\ closing' = "stop"
  /\ UNCHANGED <<rpc, raw, counters, accept>>

CloseDone ==
  /\ closing \in {"wait", "stop"} /\ server = "drained"
  /\ closing' = "served"
  /\ UNCHANGED <<rpc, raw, counters, failure, server, accept>>

CloseServed ==
  /\ closing = "served" /\ accept = "returned"
  /\ closing' = "closed"
  /\ UNCHANGED <<rpc, raw, counters, failure, server, accept>>

-----------------------------------------------------------------------------
ServeNext == ServeStarts \/ ServeFails \/ ServeReturns
Handler(r) == ExportStores(r) \/ ExportRefuses(r)
End(r) == EndOk(r) \/ EndExhausted(r) \/ EndBroken(r)
CloseNext == CloseTimeout \/ CloseDone \/ CloseServed

Next ==
  \/ ServeNext
  \/ \E r \in Requests : Begin(r) \/ Handler(r) \/ End(r)
  \/ CloseCall \/ GracefulReturns \/ CloseNext

Spec == Init /\ [][Next]_vars

\* The runner's own goroutines run (nothing makes accept fail, though); a
\* stopped server cuts its streams, so every handler that was called returns
\* and every stream ends.
Fairness ==
  /\ WF_vars(server # "up" /\ ServeNext) /\ WF_vars(CloseNext)
  /\ WF_vars(GracefulReturns)
  /\ WF_vars(server = "stopped" /\ \E r \in Requests : Handler(r) \/ End(r))

FairSpec == Spec /\ Fairness

-----------------------------------------------------------------------------
(* Properties *)

\* No interleaving of handlers takes the capture past a limit.
LimitsKept ==
  /\ bytes <= maxCaptureBytes /\ items <= maxCaptureItems /\ requests <= maxCaptureRequests
  /\ \A r \in raw : Size[r] <= maxMessageBytes

Begun == {r \in Requests : rpc[r] # "idle"}

\* The promise to the runner, as a refinement: see CapturePromise.
Promise == INSTANCE CapturePromise
  WITH begun <- Begun, captured <- raw, failed <- failed, closed <- closing = "closed"

ImplementsPromise == Promise!Spec

\* A capture closed without a failure holds every request that ever began.
NoSilentLoss == closing = "closed" /\ ~failed => raw = Begun

Total(f, S) == MapThenSumSet(LAMBDA r : f[r], S)

\* The limits count what is held, no more and no less: a refused request uses
\* up no room and a stored one is counted once.
Accounting ==
  /\ requests = Cardinality(raw)
  /\ bytes = Total(Size, raw)
  /\ items = Total(Items, raw)

\* close() always returns, even to a client that never lets go.
CloseReturns == closing # "open" ~> closing = "closed"
=============================================================================
