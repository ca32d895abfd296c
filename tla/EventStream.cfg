\* A file, its replacement, a truncation of either, a record in two pieces, and
\* a failed poll that the stream survives.
CONSTANTS
  MaxChunks = 3
  MaxFiles = 2
  MaxCuts = 1
  MaxErrors = 1
SPECIFICATION Spec
INVARIANTS ShownInOrder OnlyGapMissed
PROPERTIES KeepsReading
\* A page that cannot load stays as it is.
CHECK_DEADLOCK FALSE
