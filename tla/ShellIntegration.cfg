\* Two processes of either sort, and three edits.
CONSTANTS
  Runs = {r1, r2}
  Commands = {c1, c2}
  UserLines = {"alias", "path"}
  MaxEdits = 3
SYMMETRY Symmetry
SPECIFICATION Spec
INVARIANTS PairMatches UserLinesKept
\* Every process ends.
CHECK_DEADLOCK FALSE
