-------------------------- MODULE MCDiagnosticBuffer --------------------------
(***************************************************************************)
(* The proportions of the source on a small scale: markers no longer than  *)
(* the overlap plus one, a tail a little larger than the overlap, pieces   *)
(* shorter and longer than the tail.  The markers overlap themselves and   *)
(* each other, so that seams can be misread.                               *)
(***************************************************************************)
EXTENDS DiagnosticBuffer

MCReady    == <<"a", "b", "a">>
MCFailures == {<<"b", "b">>, <<"a", "a", "b">>}
=============================================================================
