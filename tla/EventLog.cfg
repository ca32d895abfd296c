\* Two emitters, three records, three lives: two records queued behind a
\* signal, a torn record at the end of one life and a full life after it.  No
\* symmetry: TLC's liveness check is not sound under it.
CONSTANTS
  Handles = {h1, h2}
  MaxRecords = 3
  MaxSpawns = 3
SPECIFICATION Spec
INVARIANTS TypeOK LogFollowsSends ShutdownFlushes EmitterOrder DamageBounded
PROPERTIES ShutdownReturns AcceptedIsWritten ImplementsDurableLog
\* The daemon stops when its lives are used up.
CHECK_DEADLOCK FALSE
