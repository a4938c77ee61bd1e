SPECIFICATION LiveSpec
CONSTANTS
  RDESC_LENGTH = 3
  MaxPackages = 6
  Headers = {2, 4}
  MaxRuns = 2
INVARIANTS
  RecvOK
  WaitOK
PROPERTY Received
CHECK_DEADLOCK FALSE
