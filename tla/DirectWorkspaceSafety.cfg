SPECIFICATION Spec
CONSTANTS
  p1 = p1
  p2 = p2
  o1 = o1
  o2 = o2
  f1 = f1
  w1 = w1
  w2 = w2
  NoWorkspace = NoWorkspace
  Patches <- TwoPatches
  Opens <- TwoOpens
  Refreshes <- NoRefresh
  Workspaces <- TwoWorkspaces
  Phases <- TwoPhases
  MaxRevision = 6
  MayLose = TRUE
SYMMETRY Symmetry
INVARIANTS
  TypeOK
  ModeAdmitsWriter
  PreparedUnderLease
  OutstandingPatchFenced
  SuccessIsExclusive
  IInv
PROPERTIES
  SuccessReportsWorktree
  ReconciliationFreezes
  RevisionCoversDecisions
  ImplementsWriterSession
CHECK_DEADLOCK FALSE
