SPECIFICATION MCSpec
CONSTANTS
  c1 = c1
  c2 = c2
  q1 = q1
  q2 = q2
  t1 = t1
  r1 = r1
  r2 = r2
  NoPlan = NoPlan
  NoText = NoText
  NoWorkflow = NoWorkflow
  Patches <- NoPatch
  Calls <- TwoCalls
  Plans <- TwoPlans
  Texts <- OneText
  Replans <- TwoReplans
  MaxInFlight = 2
  MaxWorkflows = 2
  Phases <- ReplanTaskPhases
  MaxRevision = 6
  MayFail = TRUE
SYMMETRY Symmetry
CHECK_DEADLOCK FALSE
INVARIANTS
  ReplanTypeOK
  CapturedIsCurrent
  AttemptIsCurrent
  NoSilentOrphan
  SnapshotIsQuiet
  LatestOverrideStands
PROPERTIES
  OutcomeMatchesTask
  SettlesOwnAttempt
