-------------------------- MODULE MCAgentExecution --------------------------
(***************************************************************************)
(* AgentExecution for TLC.  No direct call takes part, so there are no     *)
(* operation rows and the workspace row stays away.  MCSpec starts later:  *)
(* CODEX took the lease, then a plan was created and approved, so that the *)
(* revisions below MaxRevision are spent on starts that overlap.           *)
(***************************************************************************)
EXTENDS AgentExecution, TLC

CONSTANTS a1, a2, e1, e2, q1, q2

NoPatches == {}
OnePlanCall == {a1}
TwoPlanCalls == {a1, a2}
OneExecCall == {e1}
TwoExecCalls == {e1, e2}
NoExecCall == {}
OnePlan == {q1}
TwoPlans == {q1, q2}

\* Calls of one kind and plans are interchangeable.
CallSymmetry ==
  Permutations(TwoPlanCalls) \cup Permutations(TwoExecCalls) \cup Permutations(TwoPlans)

RunPhases == {"created"} \cup PlanPhases

ApprovedTask ==
  /\ phase = "implementing"
  /\ revision = 3
  /\ mode = "HYBRID"
  /\ policy = "MANUAL_ONLY"
  /\ writer = "CODEX"
  /\ epoch = 1
  /\ acquiredRevision = 1
  /\ safety = "NONE"
  /\ wsState = "unbound"
  /\ opStatus = [c \in Patches |-> "none"]
  /\ planStatus = [p \in Plans |-> IF p = q1 THEN "APPROVED" ELSE "none"]
  /\ runtime = NoCall
  /\ runtimeActive = FALSE
  /\ callPc = [s \in Calls |-> "idle"]
  /\ expected = [s \in Calls |-> 0]
  /\ leaseEpoch = [s \in Calls |-> 0]
  /\ approvedPlan = [s \in Calls |-> NoPlan]
  /\ runtimeSeen = [s \in Calls |-> NoCall]
  /\ handle = [s \in Calls |-> "none"]
  /\ run = [s \in Calls |-> "none"]

MCSpec == ApprovedTask /\ [][AgentNext]_agentSystemVars
=============================================================================
