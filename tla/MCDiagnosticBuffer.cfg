SPECIFICATION Spec
CONSTANTS
  Symbols = {"a", "b"}
  ReadyMarker <- MCReady
  FailureMarkers <- MCFailures
  Overlap = 2
  maxDiagnosticBytes = 3
  MaxPiece = 4
  MaxOutput = 8
CHECK_DEADLOCK FALSE
INVARIANTS
  MarkersExact TailExact
