SPECIFICATION Spec
CONSTANTS
  Calls = 3
  Clients = 1
  inputLength = 2
  outputLength = 1
  Conduct = {"searches"}
INVARIANTS SameHistory
CHECK_DEADLOCK FALSE
