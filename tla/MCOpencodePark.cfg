\* A dispatch that follows the check of the idle timer.
CONSTANTS
  t1 = t1
  t2 = t2
  c1 = c1
  c2 = c2
  c3 = c3
  o1 = o1
  Turns = {t1, t2}
  Calls = {c1, c2, c3}
  Ref <- MCRef
  Observers = {o1}
  Watched <- MCWatched
  None = None
  MaxGen = 2
  MaxPump = 2
  MaxFault = 1
  LateCalls = FALSE
SPECIFICATION Spec
PROPERTY
  ParkIsQuiet
SYMMETRY Symmetry
CHECK_DEADLOCK FALSE
