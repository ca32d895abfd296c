\* The client sends its first items in one packet with its CONNECT head.
CONSTANTS
  MaxItems = 2
  MaxFrames = 2
SPECIFICATION Spec
INVARIANT TunnelUnchanged
\* The handler returns.
CHECK_DEADLOCK FALSE
