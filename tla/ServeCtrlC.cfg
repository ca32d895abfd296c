\* The listener stops with an error some time before Ctrl-C.
CONSTANTS
  MaxConns = 2
  MaxRequests = 2
SPECIFICATION Spec
INVARIANTS CtrlCIsClean
\* The process ends.
CHECK_DEADLOCK FALSE
