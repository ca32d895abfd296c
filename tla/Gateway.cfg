\* Two requests to any of the routes, in any mode, and bodies of two chunks.
CONSTANTS
  Requests = {r1, r2}
  MaxChunks = 2
SPECIFICATION Spec
INVARIANTS OneStory FateLogged StreamStatusTrue CallsAccountedFor
PROPERTIES RequestsEnd
\* The requests are used up.
CHECK_DEADLOCK FALSE
