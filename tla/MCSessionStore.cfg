\* Two turns of one session over two controller generations, one retried operation id.
CONSTANTS
  TurnKeys = {k1, k2}
  Prompts = {p1}
  Tools = {t1, t2}
  Results = {r1}
  OpIDs = {o1}
  Untracked = untracked
  NoKey = noKey
  NoResult = noResult
  Unstated = unstated
  NotQueued = notQueued
  NoReceipt = noReceipt
  MaxVersion = 9
  MaxRetriedVersion = 8
  MaxGen = 2
SPECIFICATION Spec
CONSTRAINT InBounds
INVARIANTS
  AttemptsNameExecutions
  StoreInv
  HydrateConsistent
  HostLossRecoverable
  ToolsAsQueued
PROPERTIES
  EveryChangeMovesVersion
  TerminalIsFinal
  ArchivedFrozen
  ImplementsLifecycle
SYMMETRY Symmetry
CHECK_DEADLOCK FALSE
