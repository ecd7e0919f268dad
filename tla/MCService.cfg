\* One execution; two commands, a signal and a crash, or one command, polls and idle stops.
CONSTANTS
  Turns = {k1}
  Observers = {"signal", "status", "stop"}
  NoVerdict = noVerdict
  MaxEpoch = 3
  MaxControls = 2
  MaxInstance = 2
SPECIFICATION Spec
CONSTRAINT InBounds
INVARIANTS
  ServiceInv
  OutcomesHaveEvidence
PROPERTIES
  AppliedCountIsSound
  IdleStopIsQuiet
CHECK_DEADLOCK FALSE
