SPECIFICATION MCSpec
CONSTANTS
  p1 = p1
  o1 = o1
  w1 = w1
  a1 = a1
  e1 = e1
  q1 = q1
  NoWorkspace = NoWorkspace
  NoPlan = NoPlan
  NoCall = NoCall
  Patches <- OnePatch
  Opens <- OneOpen
  Refreshes <- NoRefresh
  Workspaces <- OneWorkspace
  PlanCalls <- OnePlanCall
  ExecCalls <- OneExecCall
  Plans <- OnePlan
  Phases <- BridgePhases
  MaxRevision = 8
  MayLose = TRUE
  MayOverlap = FALSE
  MayBreak = FALSE
  MayLoseStart = TRUE
  MayReconcile = FALSE
  MayReconfigure = TRUE
  MaxEdits = 1
CHECK_DEADLOCK FALSE
PROPERTY
  StartsAreExclusive
