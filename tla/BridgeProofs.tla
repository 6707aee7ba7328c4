----------------------------- MODULE BridgeProofs -----------------------------
(***************************************************************************)
(* Proofs about Bridge, for any number of direct calls and agent starts.   *)
(*                                                                         *)
(* Each coordinator keeps the inductive invariant of the other: it either  *)
(* leaves the rows alone that the other has read, or advances the revision *)
(* past what the other expects.  The one write without a revision, the     *)
(* mark for reconciliation, needs a prepared row, hence CHATGPT as writer, *)
(* and no execution start can then still be current.                       *)
(***************************************************************************)
EXTENDS Bridge, DirectWorkspaceRefinement, AgentExecutionProofs

\* An execution start that may still bind was made on a clean worktree, and
\* the worktree has stayed so.
ExecClear ==
  \A s \in ExecCalls :
    callPc[s] \in Undecided /\ expected[s] = revision => wsState # "RECONCILIATION_REQUIRED"

BInv == IInv /\ AInv /\ ExecClear

LEMMA InitBInv == BridgeInit => BInv
  <1> SUFFICES ASSUME BridgeInit PROVE BInv
    OBVIOUS
  <1>1. Init /\ AgentInit
    BY DEF BridgeInit
  <1>2. ExecClear
    BY <1>1 DEF AgentInit, ExecClear, Undecided, Calls
  <1>3. QED
    BY <1>1, <1>2, InitEstablishes, InitAInv DEF BInv

-----------------------------------------------------------------------------
(* What a step of one side does to the invariant of the other *)

\* A write that moves the revision, the worktree row aside, is stale news to
\* every start.
LEMMA WritesKeepClear ==
  ASSUME AInv, revision' = revision + 1, UNCHANGED <<callPc, contextVars>>
  PROVE  ExecClear'
  <1>1. \A s \in Calls : expected[s] \in Nat
    BY DEF AInv, AgentTypeOK
  <1>2. revision \in Nat /\ \A s \in ExecCalls : s \in Calls
    BY DEF AInv, AgentTypeOK, LeaseTypeOK, Calls
  <1>3. QED
    BY <1>1, <1>2 DEF AInv, CallInv, ExecClear, Undecided, contextVars

\* The rows an agent start depends on, after a step of the direct side.
LEMMA DirectRows ==
  ASSUME IInv, DirectRequest \/ DirectStep
  PROVE  \/ revision' = revision + 1
         \/ UNCHANGED <<revision, leaseVars, safety, wsState>>
         \/ /\ UNCHANGED <<revision, leaseVars, safety>>
            /\ writer = "CHATGPT"
  <1>1. CASE QuietStep
    BY <1>1, QuietSteps DEF rowVars, taskVars, workVars
  <1>2. ASSUME NEW c \in Patches, Prepare(c) PROVE revision' = revision + 1
    BY <1>2 DEF Prepare, Bump
  <1>3. ASSUME NEW c \in Patches, Fail(c) \/ Complete(c)
        PROVE  /\ writer = "CHATGPT" /\ UNCHANGED <<leaseVars, safety>>
               /\ revision' \in {revision, revision + 1}
    <2>1. opStatus[c] = "PREPARED"
      BY <1>3 DEF Fail, Complete
    <2>2. writer = "CHATGPT"
      BY <2>1 DEF IInv, PreparedUnderLease
    <2>3. QED
      BY <1>3, <2>2 DEF Fail, Complete, Bump, taskVars
  <1>4. ASSUME NEW o \in Opens, OpenBinds(o)
        PROVE  \/ revision' = revision + 1
               \/ UNCHANGED <<revision, leaseVars, safety, wsState>>
    BY <1>4 DEF OpenBinds, Bump
  <1>5. QED
    BY <1>1, <1>2, <1>3, <1>4
    DEF DirectRequest, DirectStep, PatchStep, OpenStep, QuietStep

LEMMA DirectKeepsAgent ==
  ASSUME BInv, LeaseTypeOK', DirectRequest \/ DirectStep
  PROVE  AInv' /\ ExecClear'
  <1>1. UNCHANGED agentVars
    BY DEF DirectRequest, DirectStep
  <1>2. UNCHANGED <<planStatus, runtime, runtimeActive, callPc, expected, leaseEpoch,
                    approvedPlan, runtimeSeen, handle, run>>
    BY <1>1 DEF agentVars, runtimeVars, contextVars
  <1>3. AgentTypeOK' /\ OneApprovedPlan'
    BY <1>2 DEF BInv, AInv, AgentTypeOK, PlanTypeOK, OneApprovedPlan, IsApproved
  <1>4. CASE revision' = revision + 1
    <2>1. UNCHANGED <<callPc, contextVars, handle>>
      BY <1>2 DEF contextVars
    <2>2. QED
      BY <1>3, <1>4, <2>1, WritesPassCalls, WritesKeepClear DEF BInv, AInv
  <1>5. CASE UNCHANGED <<revision, leaseVars, safety>>
    <2>1. \A s \in Calls : CallInv(s)
      BY DEF BInv, AInv
    <2>2. \A s \in Calls : CallInv(s)'
      BY <1>2, <1>5, <2>1 DEF CallInv, ContextKept, IsApproved, leaseVars
    <2>3. AInv'
      BY <1>3, <2>2 DEF AInv
    <2>4. CASE UNCHANGED wsState
      BY <1>2, <1>5, <2>3, <2>4 DEF BInv, ExecClear
    <2>5. CASE writer = "CHATGPT"
      <3>1. ASSUME NEW s \in ExecCalls, callPc[s] \in Undecided, expected[s] = revision
            PROVE  FALSE
        BY <2>1, <2>5, <3>1 DEF CallInv, ContextKept, Calls
      <3>2. QED
        BY <1>2, <1>5, <2>3, <3>1 DEF ExecClear
    <2>6. revision \in Nat /\ ~(revision' = revision + 1)
      BY <1>5 DEF BInv, AInv, AgentTypeOK, LeaseTypeOK
    <2>7. QED
      BY <2>4, <2>5, <2>6, DirectRows DEF BInv
  <1>6. QED
    BY <1>4, <1>5, DirectRows DEF BInv

LEMMA DirectKeepsDirect ==
  ASSUME IInv, DirectStep \/ DirectRequest
  PROVE  IInv'
  <1>1. Next
    BY DEF DirectStep, DirectRequest, Next, Request
  <1>2. QED
    BY <1>1, NextPreserves

\* Starts that wait, and what the agent does, touch no row.
LEMMA AgentWaits ==
  ASSUME AInv, NEW s \in Calls,
         \/ AgentAcknowledges(s) \/ StartTimesOut(s) \/ StartBreaks(s) \/ ContextHolds(s)
         \/ LoseStart(s) \/ AgentStep(s)
  PROVE  /\ UNCHANGED <<rowVars, expected>>
         /\ \A t \in Calls : callPc'[t] \in Undecided => callPc[t] \in Undecided
  <1> USE DEF AgentAcknowledges, StartTimesOut, StartBreaks, ContextHolds, LoseStart, AgentStep,
              RunStarts, RunNeverStarts, RunFinishes, RunInterrupted, RunBecomes
  <1>1. UNCHANGED <<rowVars, expected>>
    BY DEF contextVars
  <1>2. \/ UNCHANGED callPc
        \/ callPc[s] \in Undecided /\ \E where : MoveTo(s, where)
        \/ MoveTo(s, "lost")
    BY DEF Undecided
  <1>3. \A t \in Calls : callPc'[t] \in Undecided => callPc[t] \in Undecided
    BY <1>2 DEF MoveTo, Undecided, AInv, AgentTypeOK
  <1>4. QED
    BY <1>1, <1>3

\* The writes of the agent side are writes by somebody else to the direct side.
LEMMA AgentWrites ==
  ASSUME AInv, NEW s \in Calls,
         \/ BindRuntime(s) \/ LatchCompensation(s) \/ CompensationSucceeds(s)
         \/ CompensationUncertain(s)
  PROVE  /\ revision' = revision + 1 /\ UNCHANGED <<leaseVars, workVars, contextVars>>
         /\ phase' \in Phases /\ safety' \in SafetyStates
         /\ \A t \in Calls : callPc'[t] \in Undecided => callPc[t] \in Undecided
  <1> USE DEF BindRuntime, LatchCompensation, CompensationSucceeds, CompensationUncertain,
              RecordSafety, Bump
  <1>1. /\ revision' = revision + 1 /\ UNCHANGED <<leaseVars, workVars, contextVars>>
        /\ phase' \in Phases /\ safety' \in SafetyStates
    BY PlanPhasesAssumption DEF AInv, AgentTypeOK, LeaseTypeOK, PlanPhases, SafetyStates
  <1>2. \E where \in {"bound", "interrupting", "stale", "uncertain"} : MoveTo(s, where)
    OBVIOUS
  <1>3. \A t \in Calls : callPc'[t] \in Undecided => callPc[t] \in Undecided
    BY <1>2 DEF MoveTo, Undecided, AInv, AgentTypeOK
  <1>4. QED
    BY <1>1, <1>3

LEMMA CodexPreserves ==
  ASSUME BInv, CodexStep
  PROVE  BInv'
  <1>1. UNCHANGED directVars
    BY DEF CodexStep
  <1>2. PICK s \in Calls : CallStep(s) \/ AgentStep(s) \/ LoseStart(s)
    BY DEF CodexStep
  <1>3. AInv'
    BY <1>2, NextAInv DEF BInv, AgentNext
  <1>4. \A t \in ExecCalls : t \in Calls
    BY DEF Calls
  <1>5. CASE \/ AgentAcknowledges(s) \/ StartTimesOut(s) \/ StartBreaks(s) \/ ContextHolds(s)
             \/ LoseStart(s) \/ AgentStep(s)
    <2>1. /\ UNCHANGED <<rowVars, expected>>
          /\ \A t \in Calls : callPc'[t] \in Undecided => callPc[t] \in Undecided
      BY <1>5, AgentWaits DEF BInv
    <2>2. IInv'
      BY <1>1, <2>1, StutterPreserves DEF BInv, vars
    <2>3. ExecClear'
      BY <1>4, <2>1 DEF BInv, ExecClear, rowVars, taskVars, workVars
    <2>4. QED
      BY <1>3, <2>2, <2>3 DEF BInv
  <1>6. CASE \/ BindRuntime(s) \/ LatchCompensation(s) \/ CompensationSucceeds(s)
             \/ CompensationUncertain(s)
    <2>1. /\ revision' = revision + 1 /\ UNCHANGED <<leaseVars, workVars, contextVars>>
          /\ phase' \in Phases /\ safety' \in SafetyStates
          /\ \A t \in Calls : callPc'[t] \in Undecided => callPc[t] \in Undecided
      BY <1>6, AgentWrites DEF BInv
    <2>2. IInv'
      BY <1>1, <2>1, OtherWritePreserves DEF BInv
    <2>3. ExecClear'
      <3>1. \A t \in Calls : callPc[t] \in Undecided => expected[t] =< revision
        BY DEF BInv, AInv, CallInv
      <3>2. revision \in Nat /\ \A t \in Calls : expected[t] \in Nat
        BY DEF BInv, AInv, AgentTypeOK, LeaseTypeOK
      <3>3. QED
        BY <1>4, <2>1, <3>1, <3>2 DEF ExecClear, contextVars
    <2>4. QED
      BY <1>3, <2>2, <2>3 DEF BInv
  <1>7. QED
    BY <1>2, <1>5, <1>6 DEF CallStep

LEMMA BeginPreserves ==
  ASSUME BInv, NEW s \in Calls, NEW p, Begin(s, p), UNCHANGED directVars
  PROVE  IInv' /\ ExecClear'
  <1>1. UNCHANGED rowVars
    BY DEF Begin
  <1>2. IInv'
    BY <1>1, StutterPreserves DEF BInv, vars
  <1>3. \A t \in Calls : t # s => callPc'[t] = callPc[t] /\ expected'[t] = expected[t]
    BY DEF Begin, MoveTo, BInv, AInv, AgentTypeOK
  <1>4. wsState # "RECONCILIATION_REQUIRED"
    BY DEF Begin, AgentSafetyClear
  <1>5. ExecClear'
    BY <1>1, <1>4 DEF ExecClear, rowVars, workVars
  <1>6. QED
    BY <1>2, <1>5

\* The requests on the shared rows: of the lease, a start, or a write that
\* is stale news to the direct side.
LEMMA SharedCases ==
  ASSUME LeaseTypeOK, AgentRequest
  PROVE  \/ LeaseRequest /\ UNCHANGED agentVars
         \/ /\ revision' = revision + 1 /\ UNCHANGED <<leaseVars, workVars>>
            /\ phase' \in Phases /\ safety' \in SafetyStates
            /\ UNCHANGED <<callPc, contextVars>>
         \/ StartCall
  <1>1. CASE PlanRequest /\ UNCHANGED <<runtimeVars, callPc, contextVars, handle, run>>
    BY <1>1, PlanPhasesAssumption
    DEF PlanRequest, CreatePlan, ApprovePlan, RejectPlan, PlanWrite, Bump, PlanPhases, LeaseTypeOK
  <1>2. CASE (\E p \in Phases : MemoryWrite(p)) /\ UNCHANGED agentVars
    BY <1>2 DEF MemoryWrite, Bump, LeaseTypeOK, agentVars, contextVars
  <1>3. CASE ReconcileSafety /\ UNCHANGED agentVars
    BY <1>3
    DEF ReconcileSafety, RecordSafety, Bump, LeaseTypeOK, SafetyStates, agentVars, contextVars
  <1>4. QED
    BY <1>1, <1>2, <1>3 DEF AgentRequest, LeaseRequest

LEMMA SharedPreserves ==
  ASSUME BInv, SharedRequest
  PROVE  BInv'
  <1>1. UNCHANGED directVars /\ AgentRequest /\ LeaseTypeOK
    BY DEF SharedRequest, BInv, AInv, AgentTypeOK
  <1>2. AInv'
    BY <1>1, NextAInv DEF BInv, AgentNext
  <1>3. CASE LeaseRequest /\ UNCHANGED agentVars
    <2>1. IInv'
      BY <1>1, <1>3, LeaseRequestPreserves DEF BInv
    <2>2. revision' = revision + 1 /\ UNCHANGED <<callPc, contextVars>>
      BY <1>1, <1>3, LeaseTypes DEF agentVars
    <2>3. QED
      BY <1>2, <2>1, <2>2, WritesKeepClear DEF BInv
  <1>4. CASE /\ revision' = revision + 1 /\ UNCHANGED <<leaseVars, workVars>>
             /\ phase' \in Phases /\ safety' \in SafetyStates
             /\ UNCHANGED <<callPc, contextVars>>
    <2>1. IInv'
      BY <1>1, <1>4, OtherWritePreserves DEF BInv
    <2>2. QED
      BY <1>2, <1>4, <2>1, WritesKeepClear DEF BInv
  <1>5. CASE StartCall
    BY <1>1, <1>2, <1>5, BeginPreserves DEF BInv, StartCall, StartPlan, StartExecution, Calls
  <1>6. QED
    BY <1>1, <1>3, <1>4, <1>5, SharedCases

\* A Codex run at work touches worktrees and no row.
LEMMA EditsTouchNoRow ==
  ASSUME NEW s \in ExecCalls, NEW w \in Workspaces, CodexEdits(s, w)
  PROVE  UNCHANGED <<vars, agentSystemVars>>
  BY DEF CodexEdits, vars, agentSystemVars

LEMMA RowsUnmoved ==
  ASSUME BInv, UNCHANGED <<vars, agentSystemVars>>
  PROVE  BInv'
  <1>1. IInv' /\ AInv'
    BY StutterPreserves, NextAInv DEF BInv
  <1>2. ExecClear'
    BY DEF vars, agentSystemVars, rowVars, taskVars, workVars, agentVars, contextVars, BInv, ExecClear
  <1>3. QED
    BY <1>1, <1>2 DEF BInv

LEMMA NextBInv ==
  ASSUME BInv, [BridgeNext]_bridgeVars
  PROVE  BInv'
  <1>1. CASE SharedRequest
    BY <1>1, SharedPreserves
  <1>2. CASE DirectStep \/ DirectRequest
    <2>1. IInv'
      BY <1>2, DirectKeepsDirect DEF BInv
    <2>2. LeaseTypeOK'
      BY <2>1 DEF IInv, TypeOK
    <2>3. QED
      BY <1>2, <2>1, <2>2, DirectKeepsAgent DEF BInv
  <1>3. CASE CodexStep
    BY <1>3, CodexPreserves
  <1>4. CASE UNCHANGED bridgeVars
    BY <1>4, RowsUnmoved DEF bridgeVars, vars, agentSystemVars
  <1>5. CASE \E s \in ExecCalls, w \in Workspaces : CodexEdits(s, w)
    BY <1>5, EditsTouchNoRow, RowsUnmoved
  <1>6. QED
    BY <1>1, <1>2, <1>3, <1>4, <1>5 DEF BridgeNext

LEMMA BInvAlways == BridgeSpec => []BInv
  BY InitBInv, NextBInv, PTL DEF BridgeSpec

\* With both writers on one task the invariants of both protocols hold:
\* neither coordinator breaks what the other relies on.
THEOREM BridgeInvariance == BridgeSpec => [](IInv /\ AInv)
  <1>1. BInv => IInv /\ AInv
    BY DEF BInv
  <1>2. QED
    BY <1>1, BInvAlways, PTL

-----------------------------------------------------------------------------
(* Each side as the other sees it.  A step of the bridge is a step of the   *)
(* direct protocol or a write like those it admits anyway, and a step of    *)
(* the agent protocol or one that moves neither the lease nor the fence.    *)

\* A revision-protected write to phase or fence, made by a start call, so
\* that the bound on requests does not apply to it.
OthersWrite ==
  /\ revision' = revision + 1
  /\ phase' \in Phases /\ safety' \in SafetyStates
  /\ UNCHANGED <<leaseVars, workVars, directVars>>

OthersWork == UNCHANGED <<leaseVars, safety, agentVars>>

LEMMA DirectView ==
  ASSUME BInv, [BridgeNext]_bridgeVars
  PROVE  [Next]_vars \/ OthersWrite
  <1>1. CASE SharedRequest
    <2>1. /\ UNCHANGED directVars /\ AgentRequest /\ LeaseTypeOK
          /\ revision < MaxRevision
      BY <1>1 DEF SharedRequest, AgentRequest, BInv, AInv, AgentTypeOK
    <2>2. CASE LeaseRequest
      BY <2>1, <2>2 DEF Next, Request
    <2>3. CASE StartCall
      BY <2>1, <2>3 DEF StartCall, StartPlan, StartExecution, Begin, vars
    <2>4. QED
      BY <2>1, <2>2, <2>3, SharedCases DEF OthersWrite
  <1>2. CASE DirectStep \/ DirectRequest
    BY <1>2 DEF DirectStep, DirectRequest, Next, Request
  <1>3. CASE CodexStep
    <2>1. PICK s \in Calls : CallStep(s) \/ AgentStep(s) \/ LoseStart(s)
      BY <1>3 DEF CodexStep
    <2>2. CASE \/ AgentAcknowledges(s) \/ StartTimesOut(s) \/ StartBreaks(s) \/ ContextHolds(s)
               \/ LoseStart(s) \/ AgentStep(s)
      BY <1>3, <2>2, AgentWaits DEF BInv, CodexStep, vars
    <2>3. CASE \/ BindRuntime(s) \/ LatchCompensation(s) \/ CompensationSucceeds(s)
               \/ CompensationUncertain(s)
      BY <1>3, <2>3, AgentWrites DEF BInv, CodexStep, OthersWrite
    <2>4. QED
      BY <2>1, <2>2, <2>3 DEF CallStep
  <1>4. CASE UNCHANGED bridgeVars
    BY <1>4 DEF bridgeVars, vars
  <1>5. CASE \E s \in ExecCalls, w \in Workspaces : CodexEdits(s, w)
    BY <1>5, EditsTouchNoRow
  <1>6. QED
    BY <1>1, <1>2, <1>3, <1>4, <1>5 DEF BridgeNext

\* The direct side moves neither the lease nor the fence.
LEMMA DirectIsWork ==
  ASSUME DirectRequest \/ DirectStep
  PROVE  OthersWork
  BY DEF OthersWork, DirectRequest, DirectStep, PatchStep, OpenStep, DevSpaceStep,
         DevSpaceApplies, DevSpaceDrops, Prepare, Send, Observe, Fail, Complete, AddEvidence,
         Lose, OpenBegin, DevSpaceOpens, OpenBinds, OpenRefused, rowVars

LEMMA AgentView ==
  ASSUME [BridgeNext]_bridgeVars
  PROVE  [AgentNext]_agentSystemVars \/ OthersWork
  <1>1. CASE SharedRequest
    BY <1>1 DEF SharedRequest, AgentNext
  <1>2. CASE CodexStep
    BY <1>2 DEF CodexStep, AgentNext
  <1>3. CASE UNCHANGED bridgeVars
    BY <1>3 DEF bridgeVars, agentSystemVars
  <1>4. CASE \E s \in ExecCalls, w \in Workspaces : CodexEdits(s, w)
    BY <1>4, EditsTouchNoRow
  <1>5. QED
    BY <1>1, <1>2, <1>3, <1>4, DirectIsWork DEF BridgeNext

\* The invariants of the direct protocol survive a Codex beside it.
THEOREM DirectInvariantsTogether ==
  BridgeSpec => [](/\ ModeAdmitsWriter /\ PreparedUnderLease
                   /\ OutstandingPatchFenced /\ SuccessIsExclusive)
  <1>1. IInv => ModeAdmitsWriter /\ PreparedUnderLease /\ OutstandingPatchFenced
                /\ SuccessIsExclusive
    BY OutstandingFenced DEF IInv
  <1>2. QED
    BY <1>1, BridgeInvariance, PTL

\* Codex does not move a frozen workspace either, nor the lease over it.
THEOREM FreezesTogether == BridgeSpec => ReconciliationFreezes
  <1>1. BInv /\ [BridgeNext]_bridgeVars
          => [wsState = "RECONCILIATION_REQUIRED" =>
                /\ UNCHANGED <<writer, epoch, mode, wsId, wsState>>
                /\ \A c \in Patches : opStatus'[c] \in {"PREPARED", "SUCCEEDED"}
                                        => opStatus'[c] = opStatus[c]]_vars
    <2> SUFFICES ASSUME BInv, [BridgeNext]_bridgeVars, wsState = "RECONCILIATION_REQUIRED",
                        vars' # vars
                 PROVE  UNCHANGED <<writer, epoch, mode, wsId, wsState>> /\ StatusesKept
      BY DEF StatusesKept
    <2>1. CASE Next
      BY <2>1, FreezeStep DEF BInv
    <2>2. CASE OthersWrite
      BY <2>2 DEF OthersWrite, StatusesKept, leaseVars, workVars, directVars, bindingVars
    <2>3. QED
      BY <2>1, <2>2, DirectView
  <1>2. QED
    BY <1>1, BInvAlways, PTL DEF BridgeSpec, ReconciliationFreezes

\* The writes of Codex runs, of plans and of compensations to phase, lease,
\* fence, binding and prepared or completed rows are versioned by the same
\* revision as the direct side's.  The mark for reconciliation is not: it
\* moves without the revision, and what excludes it while a start is current
\* is the writer (ExecClear).
THEOREM RevisionTogether == BridgeSpec => RevisionCoversDecisions
  <1>1. BInv /\ [BridgeNext]_bridgeVars
          => [ \/ /\ UNCHANGED <<phase, leaseVars, safety, wsId>>
                  /\ \A c \in Patches : opStatus'[c] \in {"PREPARED", "SUCCEEDED"}
                                          => opStatus'[c] = opStatus[c]
               \/ revision' = revision + 1]_vars
    BY DirectView, RevisionStep DEF BInv, OthersWrite, StatusesKept
  <1>2. QED
    BY <1>1, BInvAlways, PTL DEF BridgeSpec, RevisionCoversDecisions

\* A Codex run is bound in the context its call read, direct operations or
\* not.
THEOREM BindsTogether == BridgeSpec => BindsInItsContext
  <1>1. BInv /\ [BridgeNext]_bridgeVars
          => [\A s \in Calls : callPc[s] # "bound" /\ callPc'[s] = "bound" =>
                /\ safety = "NONE"
                /\ runtime = runtimeSeen[s]
                /\ handle[s] # "unknown"
                /\ s \in ExecCalls =>
                     writer = "CODEX" /\ epoch = leaseEpoch[s] /\ IsApproved(approvedPlan[s])
             ]_agentSystemVars
    <2> SUFFICES ASSUME BInv, [BridgeNext]_bridgeVars, agentSystemVars' # agentSystemVars,
                        NEW s \in Calls, callPc[s] # "bound", callPc'[s] = "bound"
                 PROVE  ContextKept(s) /\ handle[s] # "unknown"
      BY DEF ContextKept
    <2>1. ~OthersWork
      BY DEF OthersWork, agentVars
    <2>2. QED
      BY <2>1, AgentView, BindStep, BindKeepsContext DEF BInv
  <1>2. QED
    BY <1>1, BInvAlways, PTL DEF BridgeSpec, BindsInItsContext

\* The fence of an agent run stops writes on both sides.
THEOREM FencesTogether == BridgeSpec => FenceStopsWrites
  <1>1. BInv /\ [BridgeNext]_bridgeVars
          => [safety # "NONE" =>
                /\ UNCHANGED <<mode, writer, epoch, runtime>>
                /\ \A s \in Calls : run[s] = "none" => run'[s] = "none"]_agentSystemVars
    BY AgentView, FencedStep DEF BInv, OthersWork, leaseVars, agentVars, runtimeVars
  <1>2. QED
    BY <1>1, BInvAlways, PTL DEF BridgeSpec, FenceStopsWrites


-----------------------------------------------------------------------------
(* The fence across the two sides *)

LEMMA NextBridgeFence ==
  ASSUME Alone, BInv, FenceInv, [BridgeNext]_bridgeVars
  PROVE  FenceInv'
  <1>1. CASE OthersWork
    BY <1>1 DEF OthersWork, agentVars, FenceInv, UnboundRunFenced
  <1>2. QED
    BY <1>1, AgentView, NextFenceInv DEF BInv

\* While CODEX is the writer no direct operation is prepared.
LEMMA CodexAlone ==
  ASSUME IInv, writer = "CODEX"
  PROVE  NoPrepared
  BY DEF IInv, PreparedUnderLease, NoPrepared

\* Requests other than starts leave runs and rows of operations alone.
LEMMA QuietRequests ==
  ASSUME SharedRequest
  PROVE  /\ UNCHANGED <<runtime, opStatus, request>>
         /\ ~StartCall => UNCHANGED run
  <1> USE DEF WriterRequest, AcquireWriter, ReleaseWriter, HandoffWriter, Grant, RulesRequest,
              SetExecutionMode, SetHandoffPolicy, PlanRequest, CreatePlan, ApprovePlan,
              RejectPlan, PlanWrite, MemoryWrite, ReconcileSafety, RecordSafety, StartCall,
              StartPlan, StartExecution, Begin, rowVars, workVars, runtimeVars, agentVars
  <1>1. UNCHANGED request /\ AgentRequest
    BY DEF SharedRequest, directVars, devspaceVars
  <1>2. UNCHANGED <<runtime, opStatus>> /\ (~StartCall => UNCHANGED run)
    BY <1>1 DEF AgentRequest
  <1>3. QED
    BY <1>1, <1>2

\* Only a start sets a run going.
LEMMA StartedBy ==
  ASSUME AInv, BridgeNext, NEW s \in ExecCalls, ~MayRun(s), MayRun(s)'
  PROVE  StartExecution(s) /\ SharedRequest
  <1>1. s \in Calls /\ s \notin PlanCalls /\ run'[s] # run[s] /\ run' # run
    BY CallsAssumption DEF Calls, MayRun
  <1>2. ASSUME NEW t \in Calls, NEW p, Begin(t, p) PROVE t = s
    BY <1>1, <1>2 DEF Begin, AInv, AgentTypeOK
  <1>3. ASSUME NEW t \in Calls, CallStep(t) \/ LoseStart(t) PROVE UNCHANGED run
    BY <1>3
    DEF CallStep, LoseStart, AgentAcknowledges, StartTimesOut, StartBreaks, ContextHolds,
        BindRuntime, LatchCompensation, CompensationSucceeds, CompensationUncertain
  <1>4. ASSUME NEW t \in Calls, AgentStep(t) PROVE FALSE
    BY <1>1, <1>4
    DEF AgentStep, RunStarts, RunNeverStarts, RunFinishes, RunInterrupted, RunBecomes, AInv,
        AgentTypeOK, MayRun
  <1>5. StartCall /\ SharedRequest
    BY <1>1, <1>3, <1>4, QuietRequests
    DEF BridgeNext, DirectRequest, DirectStep, CodexStep, CodexEdits, agentVars
  <1>6. QED
    BY <1>1, <1>2, <1>5 DEF StartCall, StartPlan, StartExecution, Calls

\* Only BindRuntime gives the task another run.
LEMMA BoundBy ==
  ASSUME AInv, BridgeNext, NEW s \in ExecCalls, runtime # s, runtime' = s
  PROVE  BindRuntime(s)
  <1>1. runtime' # runtime
    OBVIOUS
  <1>2. ASSUME NEW t \in Calls, ~BindRuntime(t), CallStep(t) \/ AgentStep(t) \/ LoseStart(t)
        PROVE  UNCHANGED runtime
    BY <1>2
    DEF CallStep, LoseStart, AgentStep, AgentAcknowledges, StartTimesOut, StartBreaks,
        ContextHolds, LatchCompensation, CompensationSucceeds, CompensationUncertain, RunStarts,
        RunNeverStarts, RunFinishes, RunInterrupted, RunBecomes, runtimeVars
  <1>3. ASSUME NEW t \in Calls, BindRuntime(t) PROVE t = s
    BY <1>3 DEF BindRuntime, NamedAfter
  <1>4. CASE CodexStep
    BY <1>1, <1>2, <1>3, <1>4 DEF CodexStep
  <1>5. CASE DirectRequest \/ DirectStep
    BY <1>1, <1>5 DEF DirectRequest, DirectStep, agentVars, runtimeVars
  <1>6. ASSUME NEW t \in ExecCalls, NEW w \in Workspaces, CodexEdits(t, w) PROVE FALSE
    BY <1>1, <1>6 DEF CodexEdits, agentVars, runtimeVars
  <1>7. QED
    BY <1>1, <1>4, <1>5, <1>6, QuietRequests DEF BridgeNext

\* Only Prepare prepares an operation.
LEMMA PreparedBy ==
  ASSUME IInv, BridgeNext, NEW c \in Patches, opStatus[c] = "none", opStatus'[c] = "PREPARED"
  PROVE  safety = "NONE"
  <1>1. opStatus' # opStatus
    OBVIOUS
  <1>2. CASE CodexStep
    BY <1>1, <1>2
    DEF CodexStep, CallStep, LoseStart, AgentStep, AgentAcknowledges, StartTimesOut,
        StartBreaks, ContextHolds, BindRuntime, LatchCompensation, CompensationSucceeds,
        CompensationUncertain, RecordSafety, RunStarts, RunNeverStarts, RunFinishes,
        RunInterrupted, RunBecomes, rowVars, workVars
  <1>3. ASSUME NEW d \in Patches, Fail(d) \/ Complete(d) PROVE FALSE
    BY <1>3 DEF Fail, Complete, IInv, TypeOK, LeaseTypeOK
  <1>4. ASSUME NEW o \in Opens, OpenBinds(o) PROVE FALSE
    BY <1>1, <1>4 DEF OpenBinds
  <1>5. CASE QuietStep
    BY <1>1, <1>5, QuietSteps DEF rowVars, workVars
  <1>6. ASSUME NEW d \in Patches, Prepare(d) PROVE safety = "NONE"
    BY <1>6 DEF Prepare
  <1>7. ASSUME NEW s \in ExecCalls, NEW w \in Workspaces, CodexEdits(s, w) PROVE FALSE
    BY <1>1, <1>7 DEF CodexEdits, rowVars, workVars
  <1>8. QED
    BY <1>1, <1>2, <1>3, <1>4, <1>5, <1>6, <1>7, QuietRequests
    DEF BridgeNext, DirectRequest, DirectStep, PatchStep, OpenStep, QuietStep

-----------------------------------------------------------------------------
(* The fence and the runs, for starts that do not overlap and a fence     *)
(* nobody reconciles by hand                                              *)

LEMMA FenceAlways ==
  ASSUME Alone
  PROVE  BridgeSpec => []FenceInv
  <1>1. BridgeInit => FenceInv
    BY DEF BridgeInit, AgentInit, FenceInv, UnboundRunFenced, InFlight
  <1>2. BInv /\ FenceInv /\ [BridgeNext]_bridgeVars => FenceInv'
    BY NextBridgeFence
  <1>3. QED
    BY <1>1, <1>2, BInvAlways, PTL DEF BridgeSpec

\* Neither side starts on what the other has left open, for starts that do
\* not overlap and until the user reconciles (workspace.py,
\* agent_execution.py: each checks rows only).
THEOREM StartsExclusive ==
  ASSUME Alone
  PROVE  BridgeSpec => StartsAreExclusive
  <1>1. ASSUME BInv, BridgeNext, NEW s \in ExecCalls,
               (run[s] = "none" /\ run'[s] = "requested") \/ (runtime # s /\ runtime' = s)
        PROVE  NoPrepared /\ wsState # "RECONCILIATION_REQUIRED"
    <2>1. CASE StartExecution(s)
      BY <1>1, <2>1, CodexAlone DEF BInv, StartExecution, Begin, AgentSafetyClear
    <2>2. CASE BindRuntime(s)
      <3>1. s \in Calls
        BY DEF Calls
      <3>2. ContextKept(s) /\ callPc[s] \in Undecided /\ expected[s] = revision
        BY <1>1, <2>2, <3>1, BindKeepsContext DEF BInv, BindRuntime, Undecided
      <3>3. writer = "CODEX"
        BY <3>2 DEF ContextKept
      <3>4. QED
        BY <1>1, <3>2, <3>3, CodexAlone DEF BInv, ExecClear
    <2>3. QED
      BY <1>1, <2>1, <2>2, StartedBy, BoundBy DEF BInv, MayRun
  <1>2. ASSUME BInv, FenceInv, BridgeNext, NEW c \in Patches,
               opStatus[c] = "none" /\ opStatus'[c] = "PREPARED"
        PROVE  \A s \in Calls : callPc[s] \notin {"interrupting", "uncertain"}
    BY <1>2, PreparedBy DEF BInv, FenceInv, UnboundRunFenced
  <1>3. BInv /\ FenceInv /\ [BridgeNext]_bridgeVars =>
          [ /\ \A s \in ExecCalls :
                 (run[s] = "none" /\ run'[s] = "requested") \/ (runtime # s /\ runtime' = s)
                   => NoPrepared /\ wsState # "RECONCILIATION_REQUIRED"
            /\ \A c \in Patches :
                 opStatus[c] = "none" /\ opStatus'[c] = "PREPARED"
                   => \A s \in Calls : callPc[s] \notin {"interrupting", "uncertain"}
          ]_bridgeVars
    BY <1>1, <1>2
  <1>4. QED
    BY <1>3, BInvAlways, FenceAlways, PTL DEF BridgeSpec, StartsAreExclusive

\* No direct operation lifts the fence of a run that could not be bound.
THEOREM FencedTogether ==
  ASSUME Alone
  PROVE  BridgeSpec => []UnboundRunFenced
  <1>1. FenceInv => UnboundRunFenced
    BY DEF FenceInv
  <1>2. QED
    BY <1>1, FenceAlways, PTL

LEMMA NextBridgeRun ==
  ASSUME Alone, ~MayBreak, ~MayLoseStart, BInv, RunInv, [BridgeNext]_bridgeVars
  PROVE  RunInv'
  <1>1. CASE OthersWork
    BY <1>1 DEF OthersWork, agentVars, RunInv, MayRun
  <1>2. QED
    BY <1>1, AgentView, NextRunInv DEF BInv

\* No run that may still be working is forgotten beside direct operations.
THEOREM NothingForgottenTogether ==
  ASSUME Alone, ~MayBreak, ~MayLoseStart
  PROVE  BridgeSpec => []NoForgottenRun
  <1>1. BridgeInit => RunInv
    BY DEF BridgeInit, AgentInit, RunInv, MayRun
  <1>2. BInv /\ RunInv /\ [BridgeNext]_bridgeVars => RunInv'
    BY NextBridgeRun
  <1>3. BInv /\ RunInv /\ UnboundRunFenced => NoForgottenRun
    BY NothingLost DEF BInv
  <1>4. QED
    BY <1>1, <1>2, <1>3, BInvAlways, FencedTogether, PTL DEF BridgeSpec

-----------------------------------------------------------------------------
(* What the documented exclusion of the two writers takes.  The run         *)
(* bridge_single_writer shows NeverBothWriting violated: the lease is       *)
(* released or handed off under a working execution run.  That is the only  *)
(* way: with a writer kept while such a run may work, it holds.             *)

\* The guard that release_writer and handoff_writer do not have.
WriterKept == (\E s \in ExecCalls : MayRun(s)) => UNCHANGED writer

ExecHolds ==
  \A s \in ExecCalls : MayRun(s) =>
    /\ writer = "CODEX"
    /\ \A c \in Patches : request[c] # "inflight"

\* A patch is sent by ChatGPT as the writer.
LEMMA SentBy ==
  ASSUME IInv, BridgeNext, NEW c \in Patches, request[c] # "inflight", request'[c] = "inflight"
  PROVE  writer = "CHATGPT"
  <1>1. request' # request
    OBVIOUS
  <1>2. ASSUME NEW d \in Patches, DevSpaceStep(d) PROVE FALSE
    BY <1>2 DEF DevSpaceStep, DevSpaceApplies, DevSpaceDrops, IInv, TypeOK
  <1>3. ASSUME NEW d \in Patches, Send(d) PROVE writer = "CHATGPT"
    BY <1>3 DEF Send, IInv, CallAgrees, PreparedUnderLease
  <1>4. \E d \in Patches : Send(d) \/ DevSpaceStep(d)
    BY <1>1
    DEF BridgeNext, SharedRequest, CodexStep, CodexEdits, DirectRequest, DirectStep, PatchStep,
        OpenStep, Prepare, Observe, Fail, Complete, AddEvidence, Lose, OpenBegin, DevSpaceOpens, OpenBinds,
        OpenRefused, directVars, devspaceVars
  <1>5. QED
    BY <1>2, <1>3, <1>4

LEMMA NextExecHolds ==
  ASSUME BInv, ExecHolds, [BridgeNext]_bridgeVars, [WriterKept]_bridgeVars
  PROVE  ExecHolds'
  <1> SUFFICES ASSUME NEW s \in ExecCalls, MayRun(s)'
               PROVE  writer' = "CODEX" /\ \A c \in Patches : request'[c] # "inflight"
    BY DEF ExecHolds, MayRun
  <1>1. CASE UNCHANGED bridgeVars
    BY <1>1
    DEF ExecHolds, MayRun, bridgeVars, rowVars, leaseVars, agentVars, directVars, devspaceVars
  <1>2. CASE BridgeNext /\ WriterKept /\ MayRun(s)
    <2>1. writer' = writer /\ writer = "CODEX"
      BY <1>2 DEF WriterKept, ExecHolds
    <2>2. QED
      BY <1>2, <2>1, SentBy DEF BInv, ExecHolds
  <1>3. CASE BridgeNext /\ ~MayRun(s)
    <2>1. /\ writer = "CODEX" /\ wsState # "RECONCILIATION_REQUIRED"
          /\ UNCHANGED <<writer, request>>
      BY <1>3, StartedBy
      DEF BInv, StartExecution, Begin, AgentSafetyClear, SharedRequest, rowVars, leaseVars,
          WriterRequest, PlanRequest, directVars, devspaceVars
    <2>2. \A c \in Patches : request[c] # "inflight"
      BY <2>1, CodexAlone, OutstandingFenced DEF BInv, NoPrepared, OutstandingPatchFenced
    <2>3. QED
      BY <2>1, <2>2
  <1>4. QED
    BY <1>1, <1>2, <1>3

\* What a direct patch was prepared upon, as far as Codex is concerned, is
\* still there: no run has changed the worktree since.
EditsInv ==
  /\ edits \in [Workspaces -> Nat]
  /\ editsAt \in [Patches -> Nat]
  /\ \A c \in Patches : opStatus[c] = "PREPARED" => edits[opWs[c]] = editsAt[c]

LEMMA PrepareAgrees ==
  ASSUME IInv, EditsInv, DirectRequest
  PROVE  EditsInv'
  <1>1. UNCHANGED edits
    BY DEF DirectRequest
  <1>2. ASSUME NEW c \in Patches, Prepare(c), editsAt' = [editsAt EXCEPT ![c] = edits[wsId]]
        PROVE  EditsInv'
    <2>1. wsId \in Workspaces /\ edits[wsId] \in Nat
      BY <1>2 DEF Prepare, IInv, TypeOK, EditsInv
    <2>2. editsAt' \in [Patches -> Nat]
      BY <1>2, <2>1 DEF EditsInv
    <2>3. ASSUME NEW d \in Patches, opStatus'[d] = "PREPARED" PROVE d = c
      BY <1>2, <2>3 DEF Prepare, NoPrepared, IInv, TypeOK, LeaseTypeOK
    <2>4. opWs'[c] = wsId
      BY <1>2 DEF Prepare, IInv, TypeOK
    <2>5. editsAt'[c] = edits[wsId]
      BY <1>2 DEF EditsInv
    <2>6. QED
      BY <1>1, <2>2, <2>3, <2>4, <2>5 DEF EditsInv
  <1>3. ASSUME NEW o \in Opens, OpenBegin(o), UNCHANGED editsAt PROVE EditsInv'
    BY <1>1, <1>3 DEF OpenBegin, EditsInv, rowVars, workVars, patchVars
  <1>4. QED
    BY <1>2, <1>3 DEF DirectRequest

LEMMA StepAgrees ==
  ASSUME IInv, EditsInv, DirectStep
  PROVE  EditsInv'
  <1>1. UNCHANGED <<edits, editsAt, opWs>>
    BY DEF DirectStep, PatchStep, OpenStep, DevSpaceStep, DevSpaceApplies, DevSpaceDrops, Send,
           Observe, Fail, Complete, AddEvidence, Lose, DevSpaceOpens, OpenBinds, OpenRefused,
           patchVars, editVars
  <1>2. ASSUME NEW c \in Patches, opStatus'[c] = "PREPARED" PROVE opStatus[c] = "PREPARED"
    <2>1. CASE UNCHANGED opStatus
      BY <1>2, <2>1
    <2>2. ASSUME NEW d \in Patches, Fail(d) \/ Complete(d) PROVE opStatus[c] = "PREPARED"
      BY <1>2, <2>2 DEF Fail, Complete, IInv, TypeOK, LeaseTypeOK
    <2>3. QED
      BY <2>1, <2>2
      DEF DirectStep, PatchStep, OpenStep, DevSpaceStep, DevSpaceApplies, DevSpaceDrops, Send,
          Observe, AddEvidence, Lose, DevSpaceOpens, OpenBinds, OpenRefused, rowVars, workVars
  <1>3. QED
    BY <1>1, <1>2 DEF EditsInv

\* A run that works, works alone.
LEMMA EditsAlone ==
  ASSUME IInv, ExecHolds, NEW s \in ExecCalls, NEW w \in Workspaces, CodexEdits(s, w)
  PROVE  writer = "CODEX" /\ NoPrepared /\ \A c \in Patches : request[c] # "inflight"
  BY CodexAlone DEF CodexEdits, ExecHolds, MayRun

LEMMA NextEditsInv ==
  ASSUME BInv, ExecHolds, EditsInv, [BridgeNext]_bridgeVars
  PROVE  EditsInv'
  <1>1. CASE SharedRequest
    <2>1. UNCHANGED <<edits, editsAt, opWs, opStatus>>
      BY <1>1, QuietRequests DEF SharedRequest, editVars, directVars, patchVars
    <2>2. QED
      BY <2>1 DEF EditsInv
  <1>2. CASE CodexStep
    <2>1. UNCHANGED <<edits, editsAt, opWs>>
      BY <1>2 DEF CodexStep, editVars, directVars, patchVars
    <2>2. UNCHANGED opStatus
      BY <1>2
      DEF CodexStep, CallStep, LoseStart, AgentStep, AgentAcknowledges, StartTimesOut,
          StartBreaks, ContextHolds, BindRuntime, LatchCompensation, CompensationSucceeds,
          CompensationUncertain, RecordSafety, RunStarts, RunNeverStarts, RunFinishes,
          RunInterrupted, RunBecomes, rowVars, workVars
    <2>3. QED
      BY <2>1, <2>2 DEF EditsInv
  <1>3. ASSUME NEW s \in ExecCalls, NEW w \in Workspaces, CodexEdits(s, w) PROVE EditsInv'
    <2>1. UNCHANGED <<opStatus, editsAt>> /\ NoPrepared
      BY <1>3, EditsAlone DEF BInv, CodexEdits, rowVars, workVars
    <2>2. edits' \in [Workspaces -> Nat]
      BY <1>3 DEF CodexEdits, EditsInv
    <2>3. QED
      BY <2>1, <2>2 DEF EditsInv, NoPrepared
  <1>4. CASE UNCHANGED bridgeVars
    BY <1>4 DEF bridgeVars, rowVars, workVars, directVars, patchVars, editVars, EditsInv
  <1>5. QED
    BY <1>1, <1>2, <1>3, <1>4, PrepareAgrees, StepAgrees DEF BInv, BridgeNext

LEMMA ExecHoldsAlways == BridgeSpec /\ [][WriterKept]_bridgeVars => []ExecHolds
  <1>1. BridgeInit => ExecHolds
    BY DEF BridgeInit, AgentInit, ExecHolds, MayRun, Calls
  <1>2. BInv /\ ExecHolds /\ [BridgeNext]_bridgeVars /\ [WriterKept]_bridgeVars => ExecHolds'
    BY NextExecHolds
  <1>3. QED
    BY <1>1, <1>2, BInvAlways, PTL DEF BridgeSpec

\* Kept writers are enough for the exclusion the documentation promises
\* (docs/P6.5-execution-modes.md:81): no patch is on its way to the worktree
\* while an execution run works.
THEOREM ExclusionIfWriterKept ==
  BridgeSpec /\ [][WriterKept]_bridgeVars => []NeverBothWriting
  <1>1. ExecHolds => NeverBothWriting
    BY DEF ExecHolds, NeverBothWriting, MayRun
  <1>2. QED
    BY <1>1, ExecHoldsAlways, PTL

\* With kept writers a row says SUCCEEDED only when the worktree it describes
\* is the one that is there, and holds no change of a Codex run that was not
\* there when the patch was prepared (direct_workspace.py, steps 3 and 4 of
\* the two-phase protocol).  Without them it may: a run started before the
\* handoff edits on.
THEOREM SuccessAloneIfWriterKept ==
  BridgeSpec /\ [][WriterKept]_bridgeVars
    => [][\A c \in Patches : opStatus[c] = "PREPARED" /\ opStatus'[c] = "SUCCEEDED"
            => facts' = tree'[wsId'] /\ edits'[wsId'] = editsAt[c]]_bridgeVars
  <1>1. BridgeInit => EditsInv
    BY DEF BridgeInit, Init, LeaseInit, EditsInv
  <1>2. BInv /\ ExecHolds /\ EditsInv /\ [BridgeNext]_bridgeVars => EditsInv'
    BY NextEditsInv
  <1>3. BInv /\ EditsInv /\ [BridgeNext]_bridgeVars
          => [\A c \in Patches : opStatus[c] = "PREPARED" /\ opStatus'[c] = "SUCCEEDED"
                => facts' = tree'[wsId'] /\ edits'[wsId'] = editsAt[c]]_bridgeVars
    <2> SUFFICES ASSUME BInv, EditsInv, [BridgeNext]_bridgeVars, NEW c \in Patches,
                        opStatus[c] = "PREPARED", opStatus'[c] = "SUCCEEDED"
                 PROVE  facts' = tree'[wsId'] /\ edits'[wsId'] = editsAt[c]
      OBVIOUS
    <2>1. opStatus' # opStatus
      OBVIOUS
    <2>2. DirectStep
      <3>1. ~CodexStep
        BY <2>1
        DEF CodexStep, CallStep, LoseStart, AgentStep, AgentAcknowledges, StartTimesOut,
            StartBreaks, ContextHolds, BindRuntime, LatchCompensation, CompensationSucceeds,
            CompensationUncertain, RecordSafety, RunStarts, RunNeverStarts, RunFinishes,
            RunInterrupted, RunBecomes, rowVars, workVars
      <3>2. ~DirectRequest
        BY <2>1
        DEF DirectRequest, Prepare, OpenBegin, NoPrepared, rowVars, workVars
      <3>3. UNCHANGED bridgeVars => FALSE
        BY <2>1 DEF bridgeVars, rowVars, workVars
      <3>4. \A s \in ExecCalls, w \in Workspaces : ~CodexEdits(s, w)
        BY <2>1 DEF CodexEdits, rowVars, workVars
      <3>5. QED
        BY <2>1, <3>1, <3>2, <3>3, <3>4, QuietRequests DEF BridgeNext
    <2>3. facts' = tree'[wsId']
      BY <2>2, SuccessStep DEF BInv, DirectStep, Next
    <2>4. wsId' = wsId /\ wsId = opWs[c]
      <3>1. wsId = opWs[c]
        BY DEF BInv, IInv, PreparedUnderLease
      <3>2. UNCHANGED wsId
        BY <2>1, <2>2
        DEF DirectStep, PatchStep, OpenStep, DevSpaceStep, DevSpaceApplies, DevSpaceDrops, Send,
            Observe, Fail, Complete, AddEvidence, Lose, DevSpaceOpens, OpenBinds, OpenRefused,
            bindingVars
      <3>3. QED
        BY <3>1, <3>2
    <2>5. edits' = edits
      BY <2>2 DEF DirectStep, editVars
    <2>6. QED
      BY <2>3, <2>4, <2>5 DEF EditsInv
  <1>4. QED
    BY <1>1, <1>2, <1>3, BInvAlways, ExecHoldsAlways, PTL DEF BridgeSpec

\* With kept writers a Codex run changes a worktree only under its own lease,
\* with no direct operation prepared and no patch on its way: never inside a
\* session of the direct side, nor in the aftermath of one.
THEOREM EditsOutsideSessions ==
  BridgeSpec /\ [][WriterKept]_bridgeVars
    => [][edits' # edits =>
            writer = "CODEX" /\ NoPrepared /\ \A c \in Patches : request[c] # "inflight"]_bridgeVars
  <1>1. BInv /\ ExecHolds /\ [BridgeNext]_bridgeVars
          => [edits' # edits =>
                writer = "CODEX" /\ NoPrepared
                /\ \A c \in Patches : request[c] # "inflight"]_bridgeVars
    BY EditsAlone DEF BInv, BridgeNext, SharedRequest, DirectRequest, DirectStep, CodexStep, editVars
  <1>2. QED
    BY <1>1, BInvAlways, ExecHoldsAlways, PTL DEF BridgeSpec
=============================================================================
