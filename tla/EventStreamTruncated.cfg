\* A record cut inside a character, and a truncation after the poll that failed
\* on it.
CONSTANTS
  MaxChunks = 3
  MaxFiles = 1
  MaxCuts = 1
  MaxErrors = 1
SPECIFICATION Spec
PROPERTIES RewindsAfterTruncate
CHECK_DEADLOCK FALSE
