SPECIFICATION Spec
CONSTANTS
  Boundary <- MCBoundary
  Contents <- MCContents
  MaxItems = 1
  Epilogues <- MCEpilogues
  CutAnywhere = TRUE
INVARIANTS
  PiecesDoNotMatter
CHECK_DEADLOCK FALSE
