----------------------------- MODULE MCHardReplan -----------------------------
(***************************************************************************)
(* HardReplan for TLC.  The starts are at revision 4, so that the few      *)
(* revisions left below MaxRevision are spent on overrides and races: a    *)
(* fresh task on which four events were recorded; a task whose plan was    *)
(* started, imported and approved before CODEX took the lease; and two     *)
(* whose plan was started before an override, of which the interrupt       *)
(* failed in one and in the other succeeded, and an event was recorded.    *)
(***************************************************************************)
EXTENDS HardReplan, TLC

CONSTANTS c1, c2, q1, q2, t1, r1, r2

NoPatch == {}
TwoCalls == {c1, c2}
TwoPlans == {q1, q2}
OneText == {t1}
TwoReplans == {r1, r2}
ReplanTaskPhases == {"created"} \cup PlanPhases \cup ReplanPhases

Symmetry == Permutations(TwoCalls) \cup Permutations(TwoReplans)

\* What the three starts have in common.
StartOfAll ==
  /\ revision = 4
  /\ mode = "HYBRID"
  /\ policy = "MANUAL_ONLY"
  /\ safety = "NONE"
  /\ wsState = "unbound"
  /\ opStatus = [c \in Patches |-> "none"]
  /\ call = [c \in Calls |-> Idle]
  /\ abandoned = {}

NoWriter ==
  /\ writer = "NONE"
  /\ epoch = 0
  /\ acquiredRevision = NoRevision

FourEvents ==
  /\ StartOfAll
  /\ phase = "created"
  /\ NoWriter
  /\ PlanInit
  /\ ControlInit
  /\ ReplanInit

ApprovedTask ==
  /\ StartOfAll
  /\ phase = "implementing"
  /\ writer = "CODEX"
  /\ epoch = 1
  /\ acquiredRevision = 4
  /\ planStatus = (q1 :> "APPROVED" @@ q2 :> "none")
  /\ intent = 1
  /\ planVersion = 1
  /\ planText = (q1 :> t1 @@ q2 :> NoText)
  /\ runtime = <<1, 1>>
  /\ remote = (<<1, 1>> :> [status |-> "planned", text |-> t1])
  /\ ReplanInit

Overridden(newPhase, replanStatus, workflowStatus) ==
  /\ StartOfAll
  /\ phase = newPhase
  /\ NoWriter
  /\ PlanInit
  /\ intent = 2
  /\ planVersion = 0
  /\ planText = [p \in Plans |-> NoText]
  /\ runtime = <<1, 1>>
  /\ remote = (<<1, 1>> :> [status |-> workflowStatus, text |-> NoText])
  /\ replan = (r1 :> [status |-> replanStatus, target |-> 2, snapshot |-> <<1, 1>>]
              @@ r2 :> [status |-> "none", target |-> 0, snapshot |-> NoWorkflow])
  /\ attempt = (r1 :> [NoAttempt EXCEPT !.rev = 2] @@ r2 :> NoAttempt)

FailedInterrupt == Overridden("blocked", "INTERRUPT_FAILED", "planning")
ReadySnapshot == Overridden("paused", "SNAPSHOT_READY", "interrupted")

MCInit == FourEvents \/ ApprovedTask \/ FailedInterrupt \/ ReadySnapshot

MCSpec == MCInit /\ [][ReplanNext]_allVars
=============================================================================
