\* Connects through both routes.
CONSTANTS
  OpIDs = {o1, o2, o3, o4}
  NoOp = noOp
  NoEntry = noEntry
  NoLease = noLease
  NoAttachment = noAttachment
  Routes = {"run", "session"}
  MaxGen = 2
  MaxRev = 2
  MaxInstance = 2
  MaxTasks = 2
SPECIFICATION Spec
PROPERTY
  DecisionsFresh
SYMMETRY Symmetry
CHECK_DEADLOCK FALSE
