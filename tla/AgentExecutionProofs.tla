------------------------ MODULE AgentExecutionProofs ------------------------
(***************************************************************************)
(* Proofs about AgentExecution, for any number of start calls and plans.   *)
(*                                                                         *)
(* The argument is optimistic concurrency control: everything a start call *)
(* has read is versioned by the task's revision, which never goes back, so *)
(* a revision that is still the expected one means a context that is still *)
(* the one the call read.                                                  *)
(***************************************************************************)
EXTENDS AgentExecution, TLAPS

Undecided == {"awaiting", "returned", "checked"}

\* What a call read before its await is still so.
ContextKept(s) ==
  /\ safety = "NONE"
  /\ runtime = runtimeSeen[s]
  /\ s \in ExecCalls => writer = "CODEX" /\ epoch = leaseEpoch[s] /\ IsApproved(approvedPlan[s])

\* The inductive invariant.
CallInv(s) ==
  /\ callPc[s] \in Undecided => expected[s] =< revision
  /\ callPc[s] \in Undecided /\ expected[s] = revision => ContextKept(s)
  /\ callPc[s] \in {"returned", "checked"} => handle[s] # "none"
  /\ callPc[s] = "checked" => handle[s] # "unknown"

AInv ==
  /\ AgentTypeOK
  /\ OneApprovedPlan
  /\ \A s \in Calls : CallInv(s)

LEMMA InitAInv ==
  ASSUME AgentInit
  PROVE  AInv
  <1> USE DEF AgentInit
  <1>1. LeaseTypeOK
    BY PhasesAssumption
    DEF LeaseInit, LeaseTypeOK, Modes, Policies, Writers, SafetyStates, WorkspaceStates, OpStates,
        NoRevision
  <1>2. PlanTypeOK /\ OneApprovedPlan
    BY DEF PlanInit, PlanTypeOK, PlanStates, OneApprovedPlan, IsApproved
  <1>3. AgentTypeOK
    BY <1>1, <1>2 DEF AgentTypeOK, CallPcs, RunStates, Handles
  <1>4. \A s \in Calls : CallInv(s)
    BY DEF CallInv, Undecided
  <1>5. QED
    BY <1>2, <1>3, <1>4 DEF AInv

\* A write by anybody else: the revision moves past every expectation.
LEMMA WritesPassCalls ==
  ASSUME AInv, revision' = revision + 1, UNCHANGED <<callPc, contextVars, handle>>
  PROVE  \A s \in Calls : CallInv(s)'
  <1>1. revision \in Nat /\ \A s \in Calls : expected[s] \in Nat
    BY DEF AInv, AgentTypeOK, LeaseTypeOK
  <1>2. QED
    BY <1>1 DEF AInv, CallInv, contextVars, Undecided

LEMMA LeaseTypes ==
  ASSUME LeaseTypeOK, LeaseRequest
  PROVE  LeaseTypeOK' /\ revision' = revision + 1
  BY DEF LeaseRequest, WriterRequest, RulesRequest, SetExecutionMode, SetHandoffPolicy,
         AcquireWriter, ReleaseWriter, HandoffWriter, Grant, Bump, LeaseTypeOK, Modes, Policies,
         Writers, NoRevision, workVars

LEMMA PlanPreserves ==
  ASSUME AInv, PlanRequest, UNCHANGED <<runtimeVars, callPc, contextVars, handle, run>>
  PROVE  AInv'
  <1> USE DEF PlanRequest, CreatePlan, ApprovePlan, RejectPlan, PlanWrite, Bump
  <1>1. LeaseTypeOK' /\ revision' = revision + 1
    BY PlanPhasesAssumption
    DEF AInv, AgentTypeOK, LeaseTypeOK, PlanPhases, leaseVars, workVars
  <1>2. PlanTypeOK' /\ OneApprovedPlan'
    <2>1. planStatus \in [Plans -> PlanStates] /\ OneApprovedPlan
      BY DEF AInv, AgentTypeOK, PlanTypeOK
    <2>2. CASE \E p \in Plans : CreatePlan(p) \/ RejectPlan(p)
      BY <2>1, <2>2 DEF PlanTypeOK, PlanStates, OneApprovedPlan, IsApproved
    <2>3. CASE \E p \in Plans : ApprovePlan(p)
      BY <2>1, <2>3 DEF PlanTypeOK, PlanStates, OneApprovedPlan, IsApproved
    <2>4. QED
      BY <2>2, <2>3
  <1>3. AgentTypeOK'
    BY <1>1, <1>2 DEF AInv, AgentTypeOK, runtimeVars, contextVars
  <1>4. QED
    BY <1>1, <1>2, <1>3, WritesPassCalls DEF AInv

\* Requests on the lease, the phase and the fence.
LEMMA RowWritePreserves ==
  ASSUME AInv, UNCHANGED agentVars,
         \/ LeaseRequest
         \/ \E p \in Phases : MemoryWrite(p)
         \/ ReconcileSafety
  PROVE  AInv'
  <1>1. LeaseTypeOK' /\ revision' = revision + 1
    <2>1. LeaseTypeOK
      BY DEF AInv, AgentTypeOK
    <2>2. CASE LeaseRequest
      BY <2>1, <2>2, LeaseTypes
    <2>3. CASE (\E p \in Phases : MemoryWrite(p)) \/ ReconcileSafety
      BY <2>1, <2>3 DEF MemoryWrite, ReconcileSafety, RecordSafety, Bump, LeaseTypeOK,
                        SafetyStates, leaseVars, workVars
    <2>4. QED
      BY <2>2, <2>3
  <1>2. AgentTypeOK' /\ OneApprovedPlan'
    BY <1>1 DEF AInv, AgentTypeOK, PlanTypeOK, OneApprovedPlan, IsApproved, agentVars,
                runtimeVars, contextVars
  <1>3. QED
    BY <1>1, <1>2, WritesPassCalls DEF AInv, agentVars

LEMMA StartPreserves ==
  ASSUME AInv, NEW s \in Calls, NEW p \in Plans \cup {NoPlan}, Begin(s, p),
         s \in ExecCalls => writer = "CODEX" /\ IsApproved(p)
  PROVE  AInv'
  <1> USE DEF Begin, MoveTo, rowVars, taskVars, leaseVars, workVars, runtimeVars
  <1>1. AgentTypeOK' /\ OneApprovedPlan'
    BY DEF AInv, AgentTypeOK, LeaseTypeOK, PlanTypeOK, OneApprovedPlan, IsApproved, CallPcs,
           RunStates
  <1>2. ASSUME NEW t \in Calls, t # s PROVE CallInv(t)'
    BY <1>2 DEF AInv, AgentTypeOK, CallInv, ContextKept, IsApproved
  <1>3. CallInv(s)'
    BY DEF AInv, AgentTypeOK, LeaseTypeOK, CallInv, ContextKept, IsApproved, AgentSafetyClear
  <1>4. QED
    BY <1>1, <1>2, <1>3 DEF AInv

\* Steps of a call or of the agent that write no row.
LEMMA WaitPreserves ==
  ASSUME AInv, NEW s \in Calls,
         \/ AgentAcknowledges(s) \/ StartTimesOut(s) \/ StartBreaks(s) \/ ContextHolds(s)
         \/ LoseStart(s) \/ AgentStep(s)
  PROVE  AInv'
  <1> USE DEF AgentAcknowledges, StartTimesOut, StartBreaks, ContextHolds, LoseStart, AgentStep,
              RunStarts, RunNeverStarts, RunFinishes, RunInterrupted, RunBecomes, MoveTo,
              rowVars, taskVars, leaseVars, workVars, runtimeVars, contextVars
  <1>1. AgentTypeOK'
    <2>1. /\ callPc' \in [Calls -> CallPcs] /\ run' \in [Calls -> RunStates]
          /\ handle' \in [Calls -> Handles]
      BY DEF AInv, AgentTypeOK, CallPcs, RunStates, Handles
    <2>2. QED
      BY <2>1 DEF AInv, AgentTypeOK, LeaseTypeOK, PlanTypeOK
  <1>2. OneApprovedPlan'
    BY DEF AInv, OneApprovedPlan, IsApproved
  <1>3. \A t \in Calls : ContextKept(t)' <=> ContextKept(t)
    BY DEF ContextKept, IsApproved
  <1>4. ASSUME NEW t \in Calls PROVE CallInv(t)'
    BY <1>3 DEF AInv, AgentTypeOK, CallInv, Undecided, Stale
  <1>5. QED
    BY <1>1, <1>2, <1>4 DEF AInv

\* The bind and the compensation advance the revision and end the call.
LEMMA OutcomePreserves ==
  ASSUME AInv, NEW s \in Calls,
         \/ BindRuntime(s) \/ LatchCompensation(s) \/ CompensationSucceeds(s)
         \/ CompensationUncertain(s)
  PROVE  AInv'
  <1> USE DEF BindRuntime, LatchCompensation, CompensationSucceeds, CompensationUncertain,
              RecordSafety, Bump, MoveTo, leaseVars, workVars, runtimeVars, contextVars
  <1>1. /\ revision' = revision + 1 /\ revision \in Nat
        /\ callPc' = [callPc EXCEPT ![s] = callPc'[s]]
        /\ callPc'[s] \in {"bound", "interrupting", "stale", "uncertain"}
        /\ UNCHANGED <<planStatus, expected, leaseEpoch, approvedPlan, runtimeSeen, handle, run>>
    BY DEF AInv, AgentTypeOK, LeaseTypeOK
  <1>2. LeaseTypeOK'
    BY PlanPhasesAssumption DEF AInv, AgentTypeOK, LeaseTypeOK, SafetyStates, PlanPhases
  <1>3. runtime' \in Calls \cup {NoCall} /\ runtimeActive' \in BOOLEAN
    BY DEF AInv, AgentTypeOK, NamedAfter
  <1>4. AgentTypeOK' /\ OneApprovedPlan'
    BY <1>1, <1>2, <1>3
    DEF AInv, AgentTypeOK, PlanTypeOK, OneApprovedPlan, IsApproved, CallPcs
  <1>5. ASSUME NEW t \in Calls PROVE CallInv(t)'
    <2>1. callPc'[t] \in Undecided => t # s /\ callPc'[t] = callPc[t] /\ expected[t] \in Nat
      BY <1>1 DEF AInv, AgentTypeOK, Undecided
    <2>2. CallInv(t)
      BY DEF AInv
    <2>3. QED
      BY <1>1, <2>1, <2>2 DEF CallInv, Undecided
  <1>6. QED
    BY <1>4, <1>5 DEF AInv

LEMMA NextAInv ==
  ASSUME AInv, [AgentNext]_agentSystemVars
  PROVE  AInv'
  <1>1. ASSUME AgentRequest PROVE AInv'
    <2>1. ASSUME StartCall PROVE AInv'
      BY <2>1, StartPreserves, CallsAssumption
      DEF StartCall, StartPlan, StartExecution, Calls
    <2>2. QED
      BY <1>1, <2>1, RowWritePreserves, PlanPreserves DEF AgentRequest, LeaseRequest
  <1>2. ASSUME NEW s \in Calls, CallStep(s) \/ AgentStep(s) \/ LoseStart(s) PROVE AInv'
    BY <1>2, WaitPreserves, OutcomePreserves DEF CallStep
  <1>3. CASE UNCHANGED agentSystemVars
    BY <1>3
    DEF agentSystemVars, rowVars, taskVars, leaseVars, workVars, agentVars, runtimeVars,
        contextVars, AInv, AgentTypeOK, LeaseTypeOK, PlanTypeOK, OneApprovedPlan, IsApproved,
        CallInv, ContextKept
  <1>4. QED
    BY <1>1, <1>2, <1>3 DEF AgentNext

\* The inductive invariant holds of every behaviour.
THEOREM AgentInvariance == AgentSpec => []AInv
  BY InitAInv, NextAInv, PTL DEF AgentSpec

\* Every variable keeps its type (agent_execution.py, codex_runtime.py).
THEOREM AgentTypeCorrect == AgentSpec => []AgentTypeOK
  <1>1. AInv => AgentTypeOK
    BY DEF AInv
  <1>2. QED
    BY <1>1, AgentInvariance, PTL

\* At most one plan is approved.
THEOREM PlanSafety == AgentSpec => []OneApprovedPlan
  <1>1. AInv => OneApprovedPlan
    BY DEF AInv
  <1>2. QED
    BY <1>1, AgentInvariance, PTL

-----------------------------------------------------------------------------
(* Action properties *)

\* bind_codex_runtime compares revisions only, and that is enough.
LEMMA BindKeepsContext ==
  ASSUME AInv, NEW s \in Calls, BindRuntime(s)
  PROVE  ContextKept(s) /\ handle[s] # "unknown"
  BY DEF AInv, AgentTypeOK, CallInv, Undecided, BindRuntime

\* Of all the steps only BindRuntime binds.
LEMMA BindStep ==
  ASSUME AInv, AgentNext, NEW s \in Calls, callPc[s] # "bound", callPc'[s] = "bound"
  PROVE  BindRuntime(s)
  <1>1. callPc' # callPc
    OBVIOUS
  <1>2. ASSUME AgentRequest PROVE FALSE
    <2>1. CASE UNCHANGED callPc
      BY <1>1, <2>1
    <2>2. ASSUME NEW t \in Calls, NEW p \in Plans \cup {NoPlan}, Begin(t, p) PROVE FALSE
      BY <2>2 DEF Begin, MoveTo, AInv, AgentTypeOK
    <2>3. QED
      BY <1>2, <2>1, <2>2
      DEF AgentRequest, StartCall, StartPlan, StartExecution, Calls, agentVars
  <1>3. ASSUME NEW t \in Calls, CallStep(t) \/ AgentStep(t) \/ LoseStart(t)
        PROVE  t = s /\ BindRuntime(t)
    BY <1>3
    DEF CallStep, AgentStep, LoseStart, AgentAcknowledges, StartTimesOut, StartBreaks,
        ContextHolds, BindRuntime, LatchCompensation, CompensationSucceeds,
        CompensationUncertain, RunStarts, RunNeverStarts, RunFinishes, RunInterrupted,
        RunBecomes, MoveTo, AInv, AgentTypeOK
  <1>4. QED
    BY <1>2, <1>3 DEF AgentNext

\* A run is bound in the context its call read, whatever happened while the
\* call was awaiting and between its check and its bind.
THEOREM BindSafety == AgentSpec => BindsInItsContext
  <1>1. AInv /\ [AgentNext]_agentSystemVars
          => [\A s \in Calls : callPc[s] # "bound" /\ callPc'[s] = "bound" =>
                /\ safety = "NONE"
                /\ runtime = runtimeSeen[s]
                /\ handle[s] # "unknown"
                /\ s \in ExecCalls =>
                     writer = "CODEX" /\ epoch = leaseEpoch[s] /\ IsApproved(approvedPlan[s])
             ]_agentSystemVars
    BY BindStep, BindKeepsContext DEF ContextKept
  <1>2. QED
    BY <1>1, AgentInvariance, PTL DEF AgentSpec, BindsInItsContext

LEMMA FencedStep ==
  ASSUME AInv, AgentNext, safety # "NONE"
  PROVE  /\ UNCHANGED <<mode, writer, epoch, runtime>>
         /\ \A s \in Calls : run[s] = "none" => run'[s] = "none"
  <1>1. CASE AgentRequest
    <2>1. ~StartCall
      BY DEF StartCall, StartPlan, StartExecution, Begin, AgentSafetyClear
    <2>2. CASE LeaseRequest /\ UNCHANGED agentVars
      BY <2>2 DEF LeaseRequest, WriterRequest, RulesRequest, SetExecutionMode, SetHandoffPolicy,
                  AcquireWriter, ReleaseWriter, HandoffWriter, TransitionSafe, agentVars,
                  runtimeVars
    <2>3. CASE PlanRequest /\ UNCHANGED <<runtimeVars, callPc, contextVars, handle, run>>
      BY <2>3 DEF PlanRequest, CreatePlan, ApprovePlan, RejectPlan, PlanWrite, leaseVars,
                  runtimeVars
    <2>4. CASE ((\E p \in Phases : MemoryWrite(p)) \/ ReconcileSafety) /\ UNCHANGED agentVars
      BY <2>4 DEF MemoryWrite, ReconcileSafety, RecordSafety, leaseVars, agentVars, runtimeVars
    <2>5. QED
      BY <1>1, <2>1, <2>2, <2>3, <2>4 DEF AgentRequest, LeaseRequest
  <1>2. ASSUME NEW s \in Calls, AgentStep(s) \/ LoseStart(s)
        PROVE  /\ UNCHANGED <<mode, writer, epoch, runtime>>
               /\ \A t \in Calls : run[t] = "none" => run'[t] = "none"
    BY <1>2 DEF AInv, AgentTypeOK, AgentStep, LoseStart, RunStarts, RunNeverStarts, RunFinishes,
                RunInterrupted, RunBecomes, rowVars, leaseVars, runtimeVars
  <1>3. ASSUME NEW s \in Calls, CallStep(s)
        PROVE  UNCHANGED <<mode, writer, epoch, runtime, run>>
    BY <1>3, BindKeepsContext
    DEF CallStep, AgentAcknowledges, StartTimesOut, StartBreaks, ContextHolds, ContextKept,
        LatchCompensation, CompensationSucceeds, CompensationUncertain, RecordSafety,
        rowVars, leaseVars, runtimeVars
  <1>4. QED
    BY <1>1, <1>2, <1>3 DEF AgentNext

\* While the fence is up the lease and the runtime stay and no run is
\* requested.
THEOREM FenceSafety == AgentSpec => FenceStopsWrites
  <1>1. AInv /\ [AgentNext]_agentSystemVars
          => [safety # "NONE" =>
                /\ UNCHANGED <<mode, writer, epoch, runtime>>
                /\ \A s \in Calls : run[s] = "none" => run'[s] = "none"]_agentSystemVars
    BY FencedStep
  <1>2. QED
    BY <1>1, AgentInvariance, PTL DEF AgentSpec, FenceStopsWrites

-----------------------------------------------------------------------------
(* The fence, where starts do not overlap and nobody reconciles: with      *)
(* overlapping starts it is not kept (run agent_overlap).                  *)

Alone == ~MayOverlap /\ ~MayReconcile

\* One call is in flight, none beside an uncertain one, whose fence stays up
\* because only a compensation could lift it.
FenceInv ==
  /\ \A s, t \in Calls : callPc[s] \in InFlight /\ callPc[t] \in InFlight => s = t
  /\ \A s, t \in Calls : callPc[s] = "uncertain" => callPc[t] \notin InFlight
  /\ UnboundRunFenced

\* Requests other than starts neither move a call nor lift the fence.
LEMMA RequestKeepsFence ==
  ASSUME Alone, AgentRequest, ~StartCall
  PROVE  UNCHANGED <<callPc, safety, handle, run>>
  BY DEF Alone, AgentRequest, WriterRequest, RulesRequest, SetExecutionMode, SetHandoffPolicy,
         AcquireWriter, ReleaseWriter, HandoffWriter, Grant, MemoryWrite, PlanRequest,
         CreatePlan, ApprovePlan, RejectPlan, PlanWrite, agentVars

LEMMA StartKeepsFence ==
  ASSUME ~MayOverlap, AInv, FenceInv, NEW s \in Calls, NEW p, Begin(s, p)
  PROVE  FenceInv'
  BY DEF AInv, AgentTypeOK, FenceInv, UnboundRunFenced, Begin, MoveTo, InFlight,
         AgentSafetyClear, rowVars

LEMMA CallKeepsFence ==
  ASSUME AInv, FenceInv, NEW s \in Calls, CallStep(s) \/ AgentStep(s) \/ LoseStart(s)
  PROVE  FenceInv'
  <1> USE DEF MoveTo, InFlight, FenceInv, UnboundRunFenced
  <1>1. callPc \in [Calls -> CallPcs]
    BY DEF AInv, AgentTypeOK
  <1>2. CASE /\ UNCHANGED safety
             /\ \/ UNCHANGED callPc
                \/ \E where \in CallPcs \ {"interrupting", "uncertain"} :
                     callPc[s] \in InFlight /\ MoveTo(s, where)
    BY <1>1, <1>2
  <1>3. CASE AgentStep(s) \/ LoseStart(s) \/ AgentAcknowledges(s) \/ StartTimesOut(s)
             \/ StartBreaks(s) \/ ContextHolds(s) \/ BindRuntime(s)
    BY <1>2, <1>3
    DEF AgentStep, LoseStart, AgentAcknowledges, StartTimesOut, StartBreaks, ContextHolds,
        BindRuntime, RunStarts, RunNeverStarts, RunFinishes, RunInterrupted, RunBecomes,
        CallPcs, rowVars
  <1>4. CASE LatchCompensation(s) \/ CompensationUncertain(s)
    BY <1>1, <1>4 DEF LatchCompensation, CompensationUncertain, RecordSafety
  <1>5. CASE CompensationSucceeds(s)
    BY <1>1, <1>5 DEF CompensationSucceeds, RecordSafety
  <1>6. QED
    BY <1>3, <1>4, <1>5 DEF CallStep

LEMMA NextFenceInv ==
  ASSUME Alone, AInv, FenceInv, [AgentNext]_agentSystemVars
  PROVE  FenceInv'
  <1>1. CASE AgentRequest /\ ~StartCall
    BY <1>1, RequestKeepsFence DEF FenceInv, UnboundRunFenced
  <1>2. CASE StartCall
    BY <1>2, StartKeepsFence DEF Alone, StartCall, StartPlan, StartExecution, Calls
  <1>3. CASE UNCHANGED agentSystemVars
    BY <1>3 DEF agentSystemVars, agentVars, rowVars, FenceInv, UnboundRunFenced
  <1>4. QED
    BY <1>1, <1>2, <1>3, CallKeepsFence DEF AgentNext

\* From the latch on a run that could not be bound is fenced, for calls that
\* do not overlap.
THEOREM FencedRuns ==
  ASSUME Alone
  PROVE  AgentSpec => []UnboundRunFenced
  <1>1. AgentInit => FenceInv
    BY DEF AgentInit, FenceInv, UnboundRunFenced, InFlight
  <1>2. AInv /\ FenceInv /\ [AgentNext]_agentSystemVars => FenceInv'
    BY NextFenceInv
  <1>3. FenceInv => UnboundRunFenced
    BY DEF FenceInv
  <1>4. QED
    BY <1>1, <1>2, <1>3, AgentInvariance, PTL DEF AgentSpec

\* Where no call breaks off or is lost, a call that came to an end without
\* binding its run or fencing it knows that the run is over.
RunInv ==
  \A s \in Calls :
    /\ callPc[s] \notin {"broken", "lost"}
    /\ callPc[s] \in {"idle", "stale"} => ~MayRun(s)

LEMMA StartKeepsRun ==
  ASSUME AInv, RunInv, NEW s \in Calls, NEW p, Begin(s, p)
  PROVE  RunInv'
  BY DEF RunInv, MayRun, MoveTo, Begin, AInv, AgentTypeOK

LEMMA CallKeepsRun ==
  ASSUME ~MayBreak, ~MayLoseStart, AInv, RunInv, NEW s \in Calls,
         CallStep(s) \/ AgentStep(s) \/ LoseStart(s)
  PROVE  RunInv'
  BY DEF RunInv, MayRun, MoveTo, AInv, AgentTypeOK, CallStep, LoseStart, AgentStep,
         AgentAcknowledges, StartTimesOut, StartBreaks, ContextHolds, BindRuntime,
         LatchCompensation, CompensationSucceeds, CompensationUncertain, RunStarts,
         RunNeverStarts, RunFinishes, RunInterrupted, RunBecomes

LEMMA NextRunInv ==
  ASSUME Alone, ~MayBreak, ~MayLoseStart, AInv, RunInv, [AgentNext]_agentSystemVars
  PROVE  RunInv'
  <1>1. CASE AgentRequest /\ ~StartCall
    BY <1>1, RequestKeepsFence DEF RunInv, MayRun
  <1>2. CASE StartCall
    BY <1>2, StartKeepsRun DEF StartCall, StartPlan, StartExecution, Calls
  <1>3. CASE UNCHANGED agentSystemVars
    BY <1>3 DEF agentSystemVars, agentVars, RunInv, MayRun
  <1>4. QED
    BY <1>1, <1>2, <1>3, CallKeepsRun DEF AgentNext

\* Where every run that ended unbound is fenced or over, none is forgotten.
LEMMA NothingLost ==
  ASSUME AInv, RunInv, UnboundRunFenced
  PROVE  NoForgottenRun
  BY DEF AInv, AgentTypeOK, CallPcs, InFlight, RunInv, UnboundRunFenced, NoForgottenRun

\* No run that may still be working is forgotten.
THEOREM NothingForgotten ==
  ASSUME Alone, ~MayBreak, ~MayLoseStart
  PROVE  AgentSpec => []NoForgottenRun
  <1>1. AgentInit => RunInv
    BY DEF AgentInit, RunInv, MayRun
  <1>2. AInv /\ RunInv /\ [AgentNext]_agentSystemVars => RunInv'
    BY NextRunInv
  <1>3. QED
    BY <1>1, <1>2, NothingLost, AgentInvariance, FencedRuns, PTL DEF AgentSpec
=============================================================================
