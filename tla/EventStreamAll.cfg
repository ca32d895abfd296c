\* Two records between two polls.
CONSTANTS
  MaxChunks = 3
  MaxFiles = 2
  MaxCuts = 1
  MaxErrors = 1
SPECIFICATION Spec
INVARIANTS SendsAll
CHECK_DEADLOCK FALSE
