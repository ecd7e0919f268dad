\* A handoff whose response was lost is retried.
CONSTANTS
  OpIDs = {o1, o2, o3, o4}
  NoOp = noOp
  NoEntry = noEntry
  NoLease = noLease
  NoAttachment = noAttachment
  Routes = {"run"}
  MaxGen = 2
  MaxRev = 2
  MaxInstance = 2
  MaxTasks = 2
SPECIFICATION Spec
PROPERTY
  RetriesClearNothing
SYMMETRY Symmetry
CHECK_DEADLOCK FALSE
