\* Two turns of a session or conversation and a crash; two concurrent births, three creations
\* and a crash; two births and two launches that want a workspace, with two faults.
CONSTANTS
  Turns = {1, 2}
  Callers = {1, 2}
  NativeIDs = {1, 2}
  None = None
  MaxInstance = 2
  MaxTurn = 2
  InterruptSupported = TRUE
  Conversations = {1, 2, 3}
  MaxBirthInstance = 3
  MaxEpisode = 3
  MaxCreation = 3
  Births = {b1, b2}
  Launches = {l1, l2}
  MaxFault = 2
SPECIFICATION MCSpec
INVARIANTS
  ClaudeVerdictsTrue
  AgyVerdictsTrue
  AgyConversationHeld
  BirthsAccounted
  WorkspaceIsWhole
PROPERTIES
  ClaudeImplementsTurns
  AgyImplementsTurns
CHECK_DEADLOCK FALSE
