\* Two turns of a thread or session, two children, one fault: a crash, a broken stream, a
\* child that ends by itself, a lost answer, a full tap or a cancellation.
CONSTANTS
  None = None
  MaxTurn = 2
  MaxGen = 2
  TapCap = 1
  MaxFault = 1
  Calls = {1, 2, 3}
  Ref <- MCRef
  Observers = {1}
  Watched <- MCWatched
  MaxPump = 2
  LateCalls = FALSE
SPECIFICATION MCSpec
INVARIANTS
  CodexVerdictsTrue
  OpencodeVerdictsTrue
  OpencodeSlotHeld
PROPERTIES
  CodexImplementsTurns
CHECK_DEADLOCK FALSE
