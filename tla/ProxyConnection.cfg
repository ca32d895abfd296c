\* Two items behind the CONNECT head (both, one or none of them read with it),
\* two frames of a captured WebSocket.
CONSTANTS
  MaxItems = 2
  MaxFrames = 2
SPECIFICATION Spec
INVARIANTS TypeOK LogOrder Logged ForwardedIsTrue RefusedStaysLocal Answered
           SecondAnswerIsGateway
PROPERTIES KeptByPeerOnly
\* The handler returns.
CHECK_DEADLOCK FALSE
