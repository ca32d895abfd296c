\* The instance of WebSocketTunnel.cfg, and what the plan says of its messages.
CONSTANTS
  Worlds <- MCWorlds
  MaxBuffer = 2
  MaxRead = 2
  SocketRoom = 2
  SessionRoom = 1
SPECIFICATION Spec
INVARIANTS ContextMaintained
\* The tunnel ends.
CHECK_DEADLOCK FALSE
