SPECIFICATION FairSpec
CONSTANTS
  p1 = p1
  p2 = p2
  o1 = o1
  o2 = o2
  f1 = f1
  w1 = w1
  w2 = w2
  NoWorkspace = NoWorkspace
  Patches <- TwoPatches
  Opens <- OneOpen
  Refreshes <- OneRefresh
  Workspaces <- OneWorkspace
  Phases <- OnePhase
  MaxRevision = 5
  MayLose = FALSE
PROPERTY
  PreparedSettles
CHECK_DEADLOCK FALSE
