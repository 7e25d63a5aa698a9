--------------------------- MODULE DiagnosticBuffer ---------------------------
(***************************************************************************)
(* privateBuffer (src/internal/runner/process.go): the bounded tail of a   *)
(* Collector's output.  os/exec hands the output over in pieces cut        *)
(* anywhere, the tail forgets, and yet the readiness and the export-       *)
(* failure marker must be found exactly when they were printed: Write      *)
(* looks for a marker in each piece and across the seam to the piece       *)
(* before.  Text is a sequence of symbols; letter case is left out.        *)
(***************************************************************************)
EXTENDS Naturals, Sequences, SequencesExt

CONSTANTS
  Symbols,
  ReadyMarker, FailureMarkers,   \* the texts searched for
  Overlap,                       \* how much of each side of a seam is searched (32)
  maxDiagnosticBytes,            \* the size of the tail
  MaxPiece, MaxOutput            \* bounds of a piece and of the whole output

ASSUME BufferAssumption ==
  /\ Overlap \in Nat /\ maxDiagnosticBytes \in Nat
  /\ \A m \in FailureMarkers \cup {ReadyMarker} :
       m \in Seq(Symbols) /\ Len(m) \in 1..(Overlap + 1)
  /\ Overlap <= maxDiagnosticBytes

VARIABLES
  data, ready, exportFailure,   \* the buffer
  output                        \* everything ever written (history)

vars == <<data, ready, exportFailure, output>>

Init == data = <<>> /\ ready = FALSE /\ exportFailure = FALSE /\ output = <<>>

contains(s, marker) ==
  \E i \in 1..Len(s) : IsPrefix(marker, SubSeq(s, i, Len(s)))

last(s, n)  == IF Len(s) <= n THEN s ELSE SubSeq(s, Len(s) - n + 1, Len(s))
first(s, n) == IF Len(s) <= n THEN s ELSE SubSeq(s, 1, n)

\* Mutant of found: each piece by itself.
foundInPiece(p, marker) == contains(p, marker)

\* A marker inside the new piece, or across the seam.
found(p, marker) ==
  contains(p, marker) \/ contains(last(data, Overlap) \o first(p, Overlap), marker)

\* Mutant of Write: the old text is cut to the bound, the new one comes on top.
WriteUnbounded(p) ==
  /\ ready' = (ready \/ found(p, ReadyMarker))
  /\ exportFailure' = (exportFailure \/ \E m \in FailureMarkers : found(p, m))
  /\ data' = last(data, maxDiagnosticBytes) \o p
  /\ output' = output \o p

Write(p) ==
  /\ ready' = (ready \/ found(p, ReadyMarker))
  /\ exportFailure' = (exportFailure \/ \E m \in FailureMarkers : found(p, m))
  /\ data' = IF Len(p) >= maxDiagnosticBytes
               THEN last(p, maxDiagnosticBytes)
               ELSE last(data, maxDiagnosticBytes - Len(p)) \o p
  /\ output' = output \o p

Next ==
  \E p \in BoundedSeq(Symbols, MaxPiece) :
    Len(output) + Len(p) <= MaxOutput /\ Write(p)

Spec == Init /\ [][Next]_vars

-----------------------------------------------------------------------------
(* Properties *)

\* However the output is cut, a marker is noticed exactly if it was printed:
\* none is lost in a seam or to the bound, none is made up from two texts
\* that were never next to each other.
MarkersExact ==
  /\ ready <=> contains(output, ReadyMarker)
  /\ exportFailure <=> \E m \in FailureMarkers : contains(output, m)

\* What processFailure and the version query read is the latest output, as
\* much of it as the bound allows.
TailExact == data = last(output, maxDiagnosticBytes)
=============================================================================
