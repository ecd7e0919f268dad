\* Four operations, two generations, two attachment revisions and a restart, on the run route;
\* three threads of a stream that is soon full; two clients whose channels are soon full.
CONSTANTS
  OpIDs = {1, 2, 3, 4}
  NoOp = noOp
  NoEntry = noEntry
  NoLease = noLease
  NoAttachment = noAttachment
  Routes = {"run"}
  MaxGen = 2
  MaxRev = 2
  MaxInstance = 2
  MaxTasks = 2
  Threads = {h1, h2, h3}
  Capacity = 1
  Clients = {v1, v2}
  SubCapacity = 1
SPECIFICATION MCSpec
INVARIANTS
  LeaseInv
  ChannelsAreSound
PROPERTIES
  RetiredForGood
  DecisionsFresh
  CurrentIsPublished
  ImplementsGrant
  ConnectedGetsAttached
  CallsReturn
  ToldStreamsEnd
CHECK_DEADLOCK FALSE
