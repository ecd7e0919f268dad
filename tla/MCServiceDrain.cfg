\* An execution, a command, and a drain or a signal, with fair handlers.
CONSTANTS
  Turns = {k1}
  Observers = {"drain", "signal"}
  NoVerdict = noVerdict
  MaxEpoch = 3
  MaxControls = 1
  MaxInstance = 1
SPECIFICATION OneLoopSpec
PROPERTIES
  WorkersRetire
  DrainEnds
CHECK_DEADLOCK FALSE
