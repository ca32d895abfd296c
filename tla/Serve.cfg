\* Two proxy connections and two gateway requests: one that ends and one that
\* is still there when the daemon stops.
CONSTANTS
  MaxConns = 2
  MaxRequests = 2
SPECIFICATION Spec
INVARIANTS StopIsTrue OkIsComplete NothingRefusedEarly
PROPERTIES StopsWhenAsked
\* The process ends.
CHECK_DEADLOCK FALSE
