\* One execution and idle stops.
CONSTANTS
  Turns = {k1}
  Observers = {"stop"}
  NoVerdict = noVerdict
  MaxEpoch = 3
  MaxControls = 0
  MaxInstance = 1
SPECIFICATION Spec
PROPERTIES
  StopVerified
CHECK_DEADLOCK FALSE
