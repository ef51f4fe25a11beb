SPECIFICATION Spec
CONSTANTS
  Call = {c1, c2}
  Conduct = {"searches", "silent", "raises"}
INVARIANTS OneWinner ResultExplained NoError
PROPERTIES AlwaysResult
CHECK_DEADLOCK FALSE
