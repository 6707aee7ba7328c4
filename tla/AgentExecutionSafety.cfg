SPECIFICATION MCSpec
CONSTANTS
  a1 = a1
  a2 = a2
  e1 = e1
  e2 = e2
  q1 = q1
  q2 = q2
  NoPlan = NoPlan
  NoCall = NoCall
  Patches <- NoPatches
  PlanCalls <- TwoPlanCalls
  ExecCalls <- OneExecCall
  Plans <- TwoPlans
  Phases <- RunPhases
  MaxRevision = 6
  MayOverlap = TRUE
  MayBreak = TRUE
  MayLoseStart = TRUE
  MayReconcile = TRUE
  MayReconfigure = FALSE
CHECK_DEADLOCK FALSE
SYMMETRY CallSymmetry
INVARIANTS
  AgentTypeOK
  OneApprovedPlan
PROPERTIES
  BindsInItsContext
  FenceStopsWrites
