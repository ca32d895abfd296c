\* Without a certificate authority, which install asks for: uninstall alone, in
\* two processes, and a user who has a line and a block.
CONSTANTS
  Runs = {}
  Commands = {c1, c2}
  UserLines = {"alias"}
  MaxEdits = 2
SPECIFICATION Spec
INVARIANTS UserContentStays
\* Every process ends.
CHECK_DEADLOCK FALSE
