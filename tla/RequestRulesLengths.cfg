CONSTANTS
  Layers <- MCLayers
  Connects <- MCConnects
  Requests <- MCRequests
  Responses <- MCResponses
SPECIFICATION RulesSpec
INVARIANTS LengthsAreDigits
\* One request: the run ends.
CHECK_DEADLOCK FALSE
