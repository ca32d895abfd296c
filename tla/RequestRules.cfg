CONSTANTS
  Layers <- MCLayers
  Connects <- MCConnects
  Requests <- MCRequests
  Responses <- MCResponses
SPECIFICATION RulesSpec
INVARIANTS AuthorityKept MessagesKept
\* One request: the run ends.
CHECK_DEADLOCK FALSE
