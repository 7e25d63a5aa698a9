---------------------------- MODULE MCCaptureSink ----------------------------
(***************************************************************************)
(* Five requests around every limit, so that each limit is met alone: the  *)
(* fourth and the third exceed the bytes, the fourth and the second the    *)
(* items, the first three the number of requests, and the last is larger   *)
(* than a message may be.                                                  *)
(***************************************************************************)
EXTENDS CaptureSink

MCRequests == 1..5
MCSize     == <<1, 3, 5, 6, 7>>
MCItems    == <<1, 2, 1, 3, 1>>
=============================================================================
