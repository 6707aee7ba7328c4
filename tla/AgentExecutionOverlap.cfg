SPECIFICATION AgentSpec
CONSTANTS
  a1 = a1
  a2 = a2
  e1 = e1
  e2 = e2
  q1 = q1
  q2 = q2
  NoPlan = NoPlan
  NoCall = NoCall
  Patches <- NoPatches
  PlanCalls <- TwoPlanCalls
  ExecCalls <- NoExecCall
  Plans <- OnePlan
  Phases <- RunPhases
  MaxRevision = 3
  MayOverlap = TRUE
  MayBreak = FALSE
  MayLoseStart = FALSE
  MayReconcile = FALSE
  MayReconfigure = TRUE
CHECK_DEADLOCK FALSE
INVARIANT
  UnboundRunFenced
