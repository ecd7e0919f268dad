\* One turn, the first of its thread, one child, one fault: the child's stream breaks.  No
\* notification overflows the turn's tap.
CONSTANTS
  None = None
  MaxTurn = 1
  MaxGen = 1
  TapCap = 2
  MaxFault = 1
SPECIFICATION Spec
INVARIANT AbsentTookNothing
CHECK_DEADLOCK FALSE
