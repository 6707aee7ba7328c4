------------------------------ MODULE PlanGate ------------------------------
(***************************************************************************)
(* The local plan gate of memory/store.py: plan rows are drafted, then     *)
(* approved or rejected, and one approved plan at a time may be executed.  *)
(***************************************************************************)
EXTENDS ExecutionLease

CONSTANTS Plans, NoPlan

ASSUME PlansAssumption == NoPlan \notin Plans

VARIABLE planStatus   \* task_plans.status, "none" before the row exists

PlanStates == {"none", "DRAFT", "APPROVED", "REJECTED", "SUPERSEDED"}
PlanPhases == {"plan_review", "implementing", "planning"}

ASSUME PlanPhasesAssumption == PlanPhases \subseteq Phases

PlanTypeOK == planStatus \in [Plans -> PlanStates]

PlanInit == planStatus = [p \in Plans |-> "none"]

\* MemoryStore.approved_plan: the newest approved row, if there is one.
IsApproved(p) == planStatus[p] = "APPROVED"

\* What all three writes do besides the plan row.
PlanWrite(newPhase) ==
  /\ phase' = newPhase
  /\ Bump
  /\ UNCHANGED <<leaseVars, safety, workVars>>

CreatePlan(p) ==
  /\ planStatus[p] = "none"
  /\ planStatus' = [planStatus EXCEPT ![p] = "DRAFT"]
  /\ PlanWrite("plan_review")

FaultyApproveKeepsOld(p) ==
  /\ planStatus[p] = "DRAFT"
  /\ planStatus' = [planStatus EXCEPT ![p] = "APPROVED"]
  /\ PlanWrite("implementing")

\* Approving a draft supersedes whatever was approved.
ApprovePlan(p) ==
  /\ planStatus[p] = "DRAFT"
  /\ planStatus' = [q \in Plans |-> IF q = p THEN "APPROVED"
                                    ELSE IF IsApproved(q) THEN "SUPERSEDED"
                                    ELSE planStatus[q]]
  /\ PlanWrite("implementing")

RejectPlan(p) ==
  /\ planStatus[p] = "DRAFT"
  /\ planStatus' = [planStatus EXCEPT ![p] = "REJECTED"]
  /\ PlanWrite("planning")

PlanRequest == \E p \in Plans : CreatePlan(p) \/ ApprovePlan(p) \/ RejectPlan(p)

\* approve_plan retires the plan it replaces in the same transaction, so
\* approved_plan never has two rows to choose from.
OneApprovedPlan ==
  \A p, q \in Plans : IsApproved(p) /\ IsApproved(q) => p = q
=============================================================================
