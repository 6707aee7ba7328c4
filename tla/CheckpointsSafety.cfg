SPECIFICATION MCSpec
CONSTANTS
  c1 = c1
  c2 = c2
  w1 = w1
  w2 = w2
  NoWorkflow = NoWorkflow
  Patches <- NoPatch
  Phases <- CollectPhases
  Collectors <- TwoCollectors
  Workflows <- TwoWorkflows
  Observations <- FewObservations
  MaxRevision = 4
  MaxMoments = 3
  MaxBucket = 1
SYMMETRY Symmetry
CHECK_DEADLOCK FALSE
INVARIANTS
  CheckpointTypeOK
  ReviewableInObservationOrder
  HeartbeatsRepeatDecision
PROPERTIES
  CheckpointNamesBoundRuntime
  ReviewsNewestFirst
