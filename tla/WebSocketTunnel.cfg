\* Buffers of one or two units, frames of up to four.
CONSTANTS
  Worlds <- MCWorlds
  MaxBuffer = 2
  MaxRead = 2
  SocketRoom = 2
  SessionRoom = 1
SPECIFICATION Spec
INVARIANTS TypeOK Unchanged ReportsAreFrames DecodedIsTrue
PROPERTIES Arrives
\* The tunnel ends.
CHECK_DEADLOCK FALSE
