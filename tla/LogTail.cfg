\* A file, its replacement, a truncation of either, and a record in two pieces.
CONSTANTS
  MaxChunks = 3
  MaxFiles = 2
  MaxCuts = 1
  MaxErrors = 1
SPECIFICATION TailSpec
INVARIANTS TypeOK PrintedInOrder
PROPERTIES CaughtUp
\* Once the command has ended and the bounds are used up nothing happens.
CHECK_DEADLOCK FALSE
