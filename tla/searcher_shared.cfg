SPECIFICATION Spec
CONSTANTS
  Calls = 2
  Clients = 2
  inputLength = 1
  outputLength = 2
  Conduct = {"searches"}
 
PROPERTIES Answered 
CHECK_DEADLOCK FALSE
