SPECIFICATION KandevSpec
CONSTANTS
  p1 = p1
  p2 = p2
  t1 = t1
  t2 = t2
  NoKandev = NoKandev
  Processes <- TwoProcesses
  Tasks <- TwoTasks
  OldTasks <- OneOldTask
  Binaries <- TwoBinaries
  MaxRevision = 2
SYMMETRY Symmetry
INVARIANTS
  KandevTypeOK
  RecordedIsApplied
  ServesOnItsSchema
  OneKandevTask
PROPERTIES
  ModeSurvivesReplay
  BoundForPresentGoal
