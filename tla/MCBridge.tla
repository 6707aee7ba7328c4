------------------------------ MODULE MCBridge ------------------------------
(***************************************************************************)
(* Bridge for TLC: one call of each kind.  Behaviours start where a task   *)
(* is ready to be implemented: its plan run is bound and over, its plan    *)
(* drafted and approved (three writes), and nobody has a lease yet.        *)
(***************************************************************************)
EXTENDS Bridge, TLC

CONSTANTS p1, o1, w1, a1, e1, q1

OnePatch == {p1}
OneOpen == {o1}
NoRefresh == {}
OneWorkspace == {w1}
OnePlanCall == {a1}
OneExecCall == {e1}
OnePlan == {q1}
BridgePhases == {"created"} \cup PlanPhases

\* What BridgeInit says of everything those three writes leave alone.
Untouched ==
  /\ mode = "HYBRID"
  /\ policy = "MANUAL_ONLY"
  /\ writer = "NONE"
  /\ epoch = 0
  /\ acquiredRevision = NoRevision
  /\ safety = "NONE"
  /\ wsState = "unbound" /\ wsId = NoWorkspace /\ facts = 0
  /\ opStatus = [c \in Patches |-> "none"]
  /\ opEpoch = [c \in Patches |-> 0]
  /\ opPrepared = [c \in Patches |-> 0]
  /\ opCompleted = [c \in Patches |-> 0]
  /\ evidence = [c \in Patches |-> "none"]
  /\ pc = [c \in Patches |-> "idle"]
  /\ opWs = [c \in Patches |-> NoWorkspace]
  /\ seen = [c \in Patches |-> 0]
  /\ base = [c \in Patches |-> 0]
  /\ openPc = [o \in Opens |-> "idle"]
  /\ openExpected = [o \in Opens |-> 0]
  /\ openWs = [o \in Opens |-> NoWorkspace]
  /\ refreshPc = [f \in Refreshes |-> "idle"]
  /\ refreshSeen = [f \in Refreshes |-> 0]
  /\ request = [c \in Patches |-> "none"]
  /\ tree = [w \in Workspaces |-> 0]
  /\ edits = [w \in Workspaces |-> 0]
  /\ editsAt = [c \in Patches |-> 0]
  /\ expected = [s \in Calls |-> 0]
  /\ leaseEpoch = [s \in Calls |-> 0]
  /\ approvedPlan = [s \in Calls |-> NoPlan]
  /\ runtimeSeen = [s \in Calls |-> NoCall]

PlannedTask ==
  /\ Untouched
  /\ revision = 3
  /\ phase = "implementing"
  /\ planStatus = [p \in Plans |-> "APPROVED"]
  /\ runtime = a1
  /\ runtimeActive = FALSE
  /\ callPc = [s \in Calls |-> IF s = a1 THEN "bound" ELSE "idle"]
  /\ handle = [s \in Calls |-> IF s = a1 THEN "known" ELSE "none"]
  /\ run = [s \in Calls |-> IF s = a1 THEN "finished" ELSE "none"]

MCSpec == PlannedTask /\ [][BridgeNext]_bridgeVars
=============================================================================
