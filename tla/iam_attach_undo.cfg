SPECIFICATION IamSpec
CONSTANTS
  PolicyNames = {"p1", "p2"}
INVARIANT
  AttachUndoLeavesTheRest
