----------------------- MODULE DirectWorkspaceProofs -----------------------
(***************************************************************************)
(* Proofs about DirectWorkspace, for any number of calls, workspaces and   *)
(* phases, any bound on requests, and calls that may be lost or not.       *)
(***************************************************************************)
EXTENDS DirectWorkspace, TLAPS

-----------------------------------------------------------------------------
(* Every action preserves IInv: the lease transactions first, which leave  *)
(* the direct protocol's variables alone.                                  *)

LEMMA InitEstablishes == Init => IInv
  BY PhasesAssumption, WorkspaceAssumption
  DEF Init, LeaseInit, IInv, TypeOK, LeaseTypeOK, ModeAdmitsWriter, PreparedUnderLease,
      SuccessIsExclusive, CallAgrees, UnsettledRow, Unsettled, Modes, Policies, Writers,
      SafetyStates, WorkspaceStates, OpStates, PatchPcs, OpenPcs, RefreshPcs, Requests,
      NoRevision

\* With no operation prepared, writer, mode and policy may move freely as
\* long as the mode admits the writer.
LEMMA LeaseMoves ==
  ASSUME IInv, UNCHANGED directVars, UNCHANGED <<phase, safety, workVars>>,
         revision' = revision + 1,
         writer' \in Writers \cup {"NONE"}, mode' \in Modes, policy' \in Policies,
         epoch' \in Nat, acquiredRevision' \in Nat,
         NoPrepared \/ UNCHANGED <<mode, writer, epoch>>,
         ModeAdmitsWriter'
  PROVE  IInv'
  <1>1. TypeOK'
    BY DEF IInv, TypeOK, LeaseTypeOK, directVars, bindingVars, opVars, patchVars, openVars,
           refreshVars, devspaceVars, workVars
  <1>2. PreparedUnderLease'
    BY DEF IInv, PreparedUnderLease, NoPrepared, directVars, bindingVars, opVars, patchVars,
           workVars
  <1>3. SuccessIsExclusive' /\ \A c \in Patches : CallAgrees(c)' /\ UnsettledRow(c)'
    BY DEF IInv, SuccessIsExclusive, CallAgrees, UnsettledRow, Unsettled, directVars,
           bindingVars, opVars, patchVars, devspaceVars, workVars
  <1>4. QED
    BY <1>1, <1>2, <1>3
    DEF IInv, Unsettled, directVars, bindingVars, openVars, workVars

LEMMA LeaseRequestPreserves ==
  ASSUME IInv, LeaseRequest, UNCHANGED directVars
  PROVE  IInv'
  <1> USE DEF Bump
  <1>1. /\ writer \in Writers \cup {"NONE"} /\ mode \in Modes /\ policy \in Policies
        /\ epoch \in Nat /\ acquiredRevision \in Nat /\ revision \in Nat
        /\ ModeAdmitsWriter
    BY DEF IInv, TypeOK, LeaseTypeOK
  <1>2. ASSUME NEW m \in Modes, SetExecutionMode(m) PROVE IInv'
    <2>1. ModeAdmitsWriter'
      BY <1>1, <1>2 DEF SetExecutionMode, ModeAdmitsWriter, Modes, Writers
    <2>2. QED
      BY <1>1, <1>2, <2>1, LeaseMoves DEF SetExecutionMode, TransitionSafe
  <1>3. ASSUME NEW p \in Policies, SetHandoffPolicy(p) PROVE IInv'
    <2>1. ModeAdmitsWriter'
      BY <1>1, <1>3 DEF SetHandoffPolicy, ModeAdmitsWriter
    <2>2. QED
      BY <1>1, <1>3, <2>1, LeaseMoves DEF SetHandoffPolicy
  <1>4. ASSUME NEW w \in Writers, NEW a \in BOOLEAN,
               TransitionSafe, WriterAllowed(w, a), Grant(w)
        PROVE  IInv'
    <2>1. ModeAdmitsWriter'
      BY <1>4 DEF WriterAllowed, Grant, ModeAdmitsWriter
    <2>2. QED
      BY <1>1, <1>4, <2>1, LeaseMoves DEF Grant, TransitionSafe
  <1>5. CASE ReleaseWriter
    <2>1. ModeAdmitsWriter'
      BY <1>5 DEF ReleaseWriter, ModeAdmitsWriter
    <2>2. QED
      BY <1>1, <1>5, <2>1, LeaseMoves DEF ReleaseWriter, TransitionSafe, NoRevision
  <1>6. QED
    BY <1>2, <1>3, <1>4, <1>5 DEF LeaseRequest, WriterRequest, RulesRequest, AcquireWriter, HandoffWriter

\* A write that touches neither the lease nor the workspace rows.
LEMMA OtherWritePreserves ==
  ASSUME IInv, UNCHANGED <<leaseVars, workVars, directVars>>,
         revision' = revision + 1, phase' \in Phases, safety' \in SafetyStates
  PROVE  IInv'
  <1>1. TypeOK'
    BY DEF IInv, TypeOK, LeaseTypeOK, directVars, bindingVars, opVars, patchVars, openVars,
           refreshVars, devspaceVars, workVars, leaseVars
  <1>2. ModeAdmitsWriter' /\ PreparedUnderLease' /\ SuccessIsExclusive'
    BY DEF IInv, ModeAdmitsWriter, PreparedUnderLease, SuccessIsExclusive, directVars,
           bindingVars, opVars, patchVars, devspaceVars, workVars, leaseVars
  <1>3. \A c \in Patches : CallAgrees(c)' /\ UnsettledRow(c)'
    BY DEF IInv, CallAgrees, UnsettledRow, Unsettled, directVars,
           bindingVars, opVars, patchVars, devspaceVars, workVars
  <1>4. QED
    BY <1>1, <1>2, <1>3
    DEF IInv, Unsettled, directVars, bindingVars, openVars, workVars

-----------------------------------------------------------------------------
(* The steps of a patch call. *)

LEMMA PreparePreserves ==
  ASSUME IInv, NEW c \in Patches, Prepare(c)
  PROVE  IInv'
  <1> USE DEF Prepare, Bump
  <1>1. wsId \in Workspaces /\ wsId' = wsId /\ revision \in Nat /\ tree[wsId] \in Nat
    BY DEF IInv, TypeOK, LeaseTypeOK, bindingVars
  <1>2. TypeOK'
    BY <1>1 DEF IInv, TypeOK, LeaseTypeOK, OpStates, PatchPcs, openVars, refreshVars,
                devspaceVars, leaseVars, bindingVars
  <1>3. ModeAdmitsWriter' /\ PreparedUnderLease'
    BY DEF IInv, TypeOK, LeaseTypeOK, ModeAdmitsWriter, PreparedUnderLease, NoPrepared,
           leaseVars, bindingVars
  <1>4. SuccessIsExclusive'
    BY DEF IInv, TypeOK, LeaseTypeOK, SuccessIsExclusive, CallAgrees, devspaceVars
  <1>5. \A d \in Patches : CallAgrees(d)'
    BY <1>1 DEF IInv, TypeOK, LeaseTypeOK, CallAgrees, devspaceVars
  <1>6. \A d \in Patches : UnsettledRow(d)'
    BY <1>1 DEF IInv, TypeOK, LeaseTypeOK, CallAgrees, UnsettledRow, Unsettled, NoPrepared,
                devspaceVars, bindingVars
  <1>7. QED
    BY <1>2, <1>3, <1>4, <1>5, <1>6 DEF IInv, openVars, bindingVars

LEMMA SendPreserves ==
  ASSUME IInv, NEW c \in Patches, Send(c)
  PROVE  IInv'
  <1> USE DEF Send, rowVars, taskVars, workVars, leaseVars
  <1>1. TypeOK'
    BY DEF IInv, TypeOK, LeaseTypeOK, PatchPcs, Requests, bindingVars, opVars, openVars,
           refreshVars
  <1>2. ModeAdmitsWriter' /\ PreparedUnderLease'
    BY DEF IInv, ModeAdmitsWriter, PreparedUnderLease, bindingVars, opVars
  <1>3. SuccessIsExclusive'
    BY DEF IInv, TypeOK, LeaseTypeOK, SuccessIsExclusive, CallAgrees, opVars
  <1>4. \A d \in Patches : CallAgrees(d)' /\ UnsettledRow(d)'
    BY DEF IInv, TypeOK, LeaseTypeOK, CallAgrees, UnsettledRow, Unsettled, bindingVars
  <1>5. QED
    BY <1>1, <1>2, <1>3, <1>4 DEF IInv, Unsettled, openVars, bindingVars

LEMMA ObservePreserves ==
  ASSUME IInv, NEW c \in Patches, Observe(c)
  PROVE  IInv'
  <1> USE DEF Observe, rowVars, taskVars, workVars, leaseVars, devspaceVars
  <1>1. opStatus[c] = "PREPARED" /\ opWs[c] \in Workspaces
    BY DEF IInv, CallAgrees
  <1>2. tree[opWs[c]] = base[c] + 1 /\ tree[opWs[c]] \in Nat
    BY <1>1 DEF IInv, TypeOK, UnsettledRow, Unsettled
  <1>3. TypeOK'
    BY <1>2 DEF IInv, TypeOK, LeaseTypeOK, PatchPcs, bindingVars, opVars, openVars,
                refreshVars
  <1>4. ModeAdmitsWriter' /\ PreparedUnderLease'
    BY DEF IInv, ModeAdmitsWriter, PreparedUnderLease, bindingVars, opVars
  <1>5. SuccessIsExclusive'
    BY <1>1 DEF IInv, TypeOK, SuccessIsExclusive, opVars
  <1>6. \A d \in Patches : CallAgrees(d)' /\ UnsettledRow(d)'
    BY <1>1, <1>2 DEF IInv, TypeOK, CallAgrees, UnsettledRow, Unsettled, bindingVars
  <1>7. QED
    BY <1>3, <1>4, <1>5, <1>6 DEF IInv, Unsettled, openVars, bindingVars

LEMMA FailPreserves ==
  ASSUME IInv, NEW c \in Patches, Fail(c)
  PROVE  IInv'
  <1> USE DEF Fail, taskVars, leaseVars, bindingVars, devspaceVars
  <1>1. Unsettled(c) /\ wsId \in Workspaces
    BY DEF IInv, Unsettled, UnsettledRow, CallAgrees
  <1>2. TypeOK'
    BY DEF IInv, TypeOK, LeaseTypeOK, PatchPcs, OpStates, WorkspaceStates, opVars, openVars,
           refreshVars
  <1>3. ModeAdmitsWriter' /\ PreparedUnderLease'
    BY DEF IInv, TypeOK, LeaseTypeOK, ModeAdmitsWriter, PreparedUnderLease, opVars
  <1>4. SuccessIsExclusive'
    BY DEF IInv, TypeOK, LeaseTypeOK, SuccessIsExclusive, opVars
  <1>5. \A d \in Patches : CallAgrees(d)'
    BY DEF IInv, TypeOK, LeaseTypeOK, CallAgrees
  <1>6. \A d \in Patches : UnsettledRow(d)'
    BY <1>1 DEF IInv, TypeOK, LeaseTypeOK, UnsettledRow, Unsettled
  <1>7. Unsettled(c)'
    BY DEF IInv, TypeOK, LeaseTypeOK, Unsettled
  <1>8. wsId' # NoWorkspace
    BY <1>1, WorkspaceAssumption
  <1>9. QED
    BY <1>2, <1>3, <1>4, <1>5, <1>6, <1>7, <1>8 DEF IInv, openVars

LEMMA CompletePreserves ==
  ASSUME IInv, NEW c \in Patches, Complete(c)
  PROVE  IInv'
  <1> USE DEF Complete, leaseVars, devspaceVars
  <1>1. /\ Unsettled(c) /\ wsId \in Workspaces /\ request[c] = "applied"
        /\ seen[c] = base[c] + 1
    BY DEF IInv, Unsettled, UnsettledRow, CallAgrees
  <1>2. TypeOK'
    <2>1. /\ pc' \in [Patches -> PatchPcs] /\ facts' \in Nat
          /\ opStatus' \in [Patches -> OpStates] /\ wsState' \in WorkspaceStates
          /\ revision' \in Nat /\ opCompleted' \in [Patches -> Nat]
      BY DEF IInv, TypeOK, LeaseTypeOK, PatchPcs, OpStates, WorkspaceStates, Bump
    <2>2. QED
      BY <2>1 DEF IInv, TypeOK, LeaseTypeOK, openVars, refreshVars
  <1>3. ModeAdmitsWriter' /\ PreparedUnderLease'
    BY DEF IInv, TypeOK, LeaseTypeOK, ModeAdmitsWriter, PreparedUnderLease
  <1>4. SuccessIsExclusive'
    BY <1>1 DEF IInv, TypeOK, LeaseTypeOK, SuccessIsExclusive, Stable, Bump
  <1>5. \A d \in Patches : CallAgrees(d)'
    BY <1>1 DEF IInv, TypeOK, LeaseTypeOK, CallAgrees
  <1>6. \A d \in Patches : UnsettledRow(d)'
    BY <1>1 DEF IInv, TypeOK, LeaseTypeOK, UnsettledRow, Unsettled
  <1>7. /\ wsState' = "unbound" <=> wsId' = NoWorkspace
        /\ wsState' = "RECONCILIATION_REQUIRED" => Unsettled(c)'
    BY <1>1, WorkspaceAssumption DEF IInv, TypeOK, LeaseTypeOK, Unsettled, Stable
  <1>8. QED
    BY <1>2, <1>3, <1>4, <1>5, <1>6, <1>7 DEF IInv, openVars

\* Recording evidence and losing a call only move the call.
LEMMA CallEndsPreserves ==
  ASSUME IInv, NEW c \in Patches, AddEvidence(c) \/ Lose(c)
  PROVE  IInv'
  <1> USE DEF AddEvidence, Lose, rowVars, taskVars, workVars, leaseVars, bindingVars, opVars,
              devspaceVars
  <1>1. pc[c] \in {"prepared", "sent", "observed", "completed"}
        /\ pc' = [pc EXCEPT ![c] = pc'[c]] /\ pc'[c] \in {"done", "lost"}
    BY DEF IInv, TypeOK
  <1>2. TypeOK'
    BY <1>1 DEF IInv, TypeOK, LeaseTypeOK, PatchPcs, openVars, refreshVars
  <1>3. ModeAdmitsWriter' /\ PreparedUnderLease' /\ SuccessIsExclusive'
    BY DEF IInv, ModeAdmitsWriter, PreparedUnderLease, SuccessIsExclusive
  <1>4. \A d \in Patches : CallAgrees(d)' /\ UnsettledRow(d)'
    BY <1>1 DEF IInv, TypeOK, CallAgrees, UnsettledRow, Unsettled
  <1>5. QED
    BY <1>2, <1>3, <1>4 DEF IInv, Unsettled, openVars

-----------------------------------------------------------------------------
(* DevSpace, the open calls and the refresh calls. *)

\* A patch lands: its row is unsettled, for a success is already applied.
LEMMA DevSpaceStepPreserves ==
  ASSUME IInv, NEW c \in Patches, DevSpaceStep(c)
  PROVE  IInv'
  <1> USE DEF DevSpaceStep, DevSpaceApplies, DevSpaceDrops, rowVars, taskVars, workVars,
              leaseVars, bindingVars, opVars, patchVars
  <1>1. /\ request[c] = "inflight" /\ Unsettled(c) /\ opWs[c] \in Workspaces
        /\ pc[c] \notin {"idle", "prepared", "observed"}
    BY DEF IInv, TypeOK, LeaseTypeOK, OpStates, CallAgrees, Unsettled
  <1>2. TypeOK'
    BY <1>1 DEF IInv, TypeOK, LeaseTypeOK, Requests, openVars, refreshVars
  <1>3. ModeAdmitsWriter' /\ PreparedUnderLease'
    BY DEF IInv, ModeAdmitsWriter, PreparedUnderLease
  <1>4. SuccessIsExclusive'
    BY <1>1 DEF IInv, TypeOK, SuccessIsExclusive
  <1>5. \A d \in Patches : CallAgrees(d)'
    BY <1>1 DEF IInv, TypeOK, CallAgrees, Unsettled
  <1>6. \A d \in Patches : UnsettledRow(d)'
    BY <1>1 DEF IInv, TypeOK, UnsettledRow, Unsettled
  <1>7. QED
    BY <1>2, <1>3, <1>4, <1>5, <1>6 DEF IInv, Unsettled, openVars

LEMMA OpenStartsPreserves ==
  ASSUME IInv, NEW o \in Opens,
         OpenBegin(o) \/ (\E w \in Workspaces : DevSpaceOpens(o, w)) \/ OpenRefused(o)
  PROVE  IInv'
  <1> USE DEF OpenBegin, DevSpaceOpens, OpenRefused, rowVars, taskVars, workVars,
              leaseVars, bindingVars, opVars, patchVars, devspaceVars
  <1>1. TypeOK' /\ \A p \in Opens : openPc'[p] = "opened" => openWs'[p] \in Workspaces
    BY DEF IInv, TypeOK, LeaseTypeOK, OpenPcs, refreshVars
  <1>2. ModeAdmitsWriter' /\ PreparedUnderLease' /\ SuccessIsExclusive'
    BY DEF IInv, ModeAdmitsWriter, PreparedUnderLease, SuccessIsExclusive
  <1>3. \A d \in Patches : CallAgrees(d)' /\ UnsettledRow(d)'
    BY DEF IInv, CallAgrees, UnsettledRow, Unsettled
  <1>4. QED
    BY <1>1, <1>2, <1>3 DEF IInv, Unsettled

\* A binding is replaced only when no operation is unsettled.
LEMMA OpenBindsPreserves ==
  ASSUME IInv, NEW o \in Opens, OpenBinds(o)
  PROVE  IInv'
  <1> USE DEF OpenBinds, leaseVars, opVars, patchVars, devspaceVars
  <1>1. openWs[o] \in Workspaces /\ openWs[o] # NoWorkspace
    BY WorkspaceAssumption DEF IInv
  <1>2. wsId' # wsId => \A d \in Patches : ~Unsettled(d)
    BY DEF IInv, TypeOK, LeaseTypeOK, WorkspaceStates, BindRefused, UnsettledRow, Unsettled,
           NoPrepared, PreparedUnderLease, bindingVars
  <1>3. wsState # "RECONCILIATION_REQUIRED" /\ wsState' = "ACTIVE"
    BY DEF BindRefused
  <1>4. wsId' \in Workspaces /\ wsId' # NoWorkspace /\ (wsId' # wsId => wsId' = openWs[o])
    BY <1>1 DEF bindingVars
  <1>5. TypeOK'
    <2>1. revision' \in Nat /\ facts' \in Nat /\ wsState' \in WorkspaceStates
          /\ openPc' \in [Opens -> OpenPcs]
      BY <1>3 DEF IInv, TypeOK, LeaseTypeOK, WorkspaceStates, OpenPcs, Bump, bindingVars
    <2>2. QED
      BY <1>4, <2>1 DEF IInv, TypeOK, LeaseTypeOK, refreshVars
  <1>6. ModeAdmitsWriter' /\ PreparedUnderLease' /\ SuccessIsExclusive'
    BY <1>2, <1>3 DEF IInv, ModeAdmitsWriter, PreparedUnderLease, SuccessIsExclusive, Unsettled
  <1>7. \A d \in Patches : CallAgrees(d)'
    BY DEF IInv, CallAgrees
  <1>8. \A d \in Patches : UnsettledRow(d)'
    BY <1>2, <1>3 DEF IInv, UnsettledRow, Unsettled
  <1>9. \A p \in Opens : openPc'[p] = "opened" => openWs'[p] \in Workspaces
    BY DEF IInv, TypeOK
  <1>10. QED
    BY <1>3, <1>4, <1>5, <1>6, <1>7, <1>8, <1>9 DEF IInv

LEMMA RefreshPreserves ==
  ASSUME IInv, NEW f \in Refreshes, RefreshStep(f)
  PROVE  IInv'
  <1> USE DEF RefreshStep, RefreshRead, RefreshStore, rowVars, taskVars, workVars,
              leaseVars, opVars, patchVars, openVars, devspaceVars
  <1>1. TypeOK'
    <2>1. wsState # "unbound" => wsId \in Workspaces
      BY DEF IInv, TypeOK
    <2>2. /\ refreshPc' \in [Refreshes -> RefreshPcs]
          /\ refreshSeen' \in [Refreshes -> Nat] /\ facts' \in Nat /\ wsId' = wsId
      BY <2>1 DEF IInv, TypeOK, RefreshPcs, bindingVars
    <2>3. QED
      BY <2>2 DEF IInv, TypeOK, LeaseTypeOK
  <1>2. wsId' = wsId
    BY DEF bindingVars
  <1>3. ModeAdmitsWriter' /\ PreparedUnderLease' /\ SuccessIsExclusive'
    BY <1>2 DEF IInv, ModeAdmitsWriter, PreparedUnderLease, SuccessIsExclusive
  <1>4. \A d \in Patches : CallAgrees(d)' /\ UnsettledRow(d)'
    BY <1>2 DEF IInv, CallAgrees, UnsettledRow, Unsettled
  <1>5. QED
    BY <1>1, <1>2, <1>3, <1>4 DEF IInv, Unsettled

-----------------------------------------------------------------------------
LEMMA RequestPreserves ==
  ASSUME IInv, Request
  PROVE  IInv'
  <1>1. phase \in Phases /\ safety \in SafetyStates
    BY DEF IInv, TypeOK, LeaseTypeOK
  <1>2. CASE LeaseRequest /\ UNCHANGED directVars
    BY <1>2, LeaseRequestPreserves
  <1>3. ASSUME NEW p \in Phases, MemoryWrite(p), UNCHANGED directVars PROVE IInv'
    BY <1>1, <1>3, OtherWritePreserves DEF MemoryWrite, Bump
  <1>4. ASSUME NEW s \in SafetyStates, RecordSafety(s), UNCHANGED directVars PROVE IInv'
    BY <1>1, <1>4, OtherWritePreserves DEF RecordSafety, Bump
  <1>5. CASE ReconcileSafety /\ UNCHANGED directVars
    BY <1>4, <1>5 DEF ReconcileSafety, SafetyStates
  <1>6. ASSUME NEW c \in Patches, Prepare(c) PROVE IInv'
    BY <1>6, PreparePreserves
  <1>7. ASSUME NEW o \in Opens, OpenBegin(o) PROVE IInv'
    BY <1>7, OpenStartsPreserves
  <1>8. QED
    BY <1>2, <1>3, <1>4, <1>5, <1>6, <1>7 DEF Request

LEMMA StutterPreserves ==
  ASSUME IInv, UNCHANGED vars
  PROVE  IInv'
  BY DEF vars, rowVars, taskVars, leaseVars, workVars, directVars, bindingVars, opVars,
         patchVars, openVars, refreshVars, devspaceVars, IInv, TypeOK, LeaseTypeOK,
         ModeAdmitsWriter, PreparedUnderLease, SuccessIsExclusive, CallAgrees, UnsettledRow,
         Unsettled

LEMMA NextPreserves ==
  ASSUME IInv, [Next]_vars
  PROVE  IInv'
  <1>1. CASE Request
    BY <1>1, RequestPreserves
  <1>2. ASSUME NEW c \in Patches, PatchStep(c) \/ DevSpaceStep(c) \/ Lose(c) PROVE IInv'
    BY <1>2, SendPreserves, ObservePreserves, FailPreserves, CompletePreserves,
       CallEndsPreserves, DevSpaceStepPreserves DEF PatchStep
  <1>3. ASSUME NEW o \in Opens, OpenStep(o) PROVE IInv'
    BY <1>3, OpenStartsPreserves, OpenBindsPreserves DEF OpenStep
  <1>4. ASSUME NEW f \in Refreshes, RefreshStep(f) PROVE IInv'
    BY <1>4, RefreshPreserves
  <1>5. CASE UNCHANGED vars
    BY <1>5, StutterPreserves
  <1>6. QED
    BY <1>1, <1>2, <1>3, <1>4, <1>5 DEF Next

\* The inductive invariant holds of every behaviour.
THEOREM Invariance == Spec => []IInv
  <1>1. Init => IInv
    BY InitEstablishes
  <1>2. IInv /\ [Next]_vars => IInv'
    BY NextPreserves
  <1>3. QED
    BY <1>1, <1>2, PTL DEF Spec

\* Every variable keeps its type (memory/execution.py, memory/workspace.py).
THEOREM TypeCorrect == Spec => []TypeOK
  <1>1. IInv => TypeOK
    BY DEF IInv
  <1>2. QED
    BY <1>1, Invariance, PTL

\* The execution mode always admits the current writer.
THEOREM ModeSafety == Spec => []ModeAdmitsWriter
  <1>1. IInv => ModeAdmitsWriter
    BY DEF IInv
  <1>2. QED
    BY <1>1, Invariance, PTL

\* A prepared direct operation keeps its lease and its workspace.
THEOREM PreparedSafety == Spec => []PreparedUnderLease
  <1>1. IInv => PreparedUnderLease
    BY DEF IInv
  <1>2. QED
    BY <1>1, Invariance, PTL

LEMMA OutstandingFenced ==
  ASSUME IInv
  PROVE  OutstandingPatchFenced
  <1>1. SUFFICES ASSUME NEW c \in Patches, request[c] = "inflight"
                 PROVE  /\ opStatus[c] = "PREPARED" \/ wsState = "RECONCILIATION_REQUIRED"
                        /\ opWs[c] = wsId
    BY DEF OutstandingPatchFenced
  <1>2. Unsettled(c)
    BY <1>1 DEF IInv, TypeOK, LeaseTypeOK, OpStates, CallAgrees, Unsettled
  <1>3. QED
    BY <1>1, <1>2 DEF IInv, UnsettledRow, Unsettled

\* A patch that may still land is fenced, also when its call was lost.
THEOREM OutstandingSafety == Spec => []OutstandingPatchFenced
  BY OutstandingFenced, Invariance, PTL

\* Success is claimed only for a patch that ran alone.
THEOREM SuccessSafety == Spec => []SuccessIsExclusive
  <1>1. IInv => SuccessIsExclusive
    BY DEF IInv
  <1>2. QED
    BY <1>1, Invariance, PTL

-----------------------------------------------------------------------------
(* Action properties: each action of Next, from a state in IInv. *)

\* The steps that leave the lease, the fence, the binding and every row's
\* status alone, whatever they do to a call, a request or a worktree.
QuietStep ==
  \/ \E c \in Patches : Send(c) \/ Observe(c) \/ AddEvidence(c) \/ DevSpaceStep(c) \/ Lose(c)
  \/ \E o \in Opens : OpenBegin(o) \/ (\E w \in Workspaces : DevSpaceOpens(o, w)) \/ OpenRefused(o)
  \/ \E f \in Refreshes : RefreshStep(f)

LEMMA QuietSteps ==
  ASSUME QuietStep
  PROVE  UNCHANGED <<rowVars, wsId>>
  BY DEF QuietStep, Send, Observe, AddEvidence, DevSpaceStep, DevSpaceApplies, DevSpaceDrops,
         Lose, OpenBegin, DevSpaceOpens, OpenRefused, RefreshStep, RefreshRead, RefreshStore,
         bindingVars, devspaceVars

LEMMA NextCases ==
  ASSUME Next
  PROVE  \/ QuietStep
         \/ LeaseRequest /\ UNCHANGED directVars
         \/ (\E p \in Phases : MemoryWrite(p)) /\ UNCHANGED directVars
         \/ (\E s \in SafetyStates : RecordSafety(s)) /\ UNCHANGED directVars
         \/ \E c \in Patches : Prepare(c) \/ Fail(c) \/ Complete(c)
         \/ \E o \in Opens : OpenBinds(o)
  BY DEF Next, Request, ReconcileSafety, SafetyStates, PatchStep, OpenStep, QuietStep

\* Statuses that do not change, as the action properties compare them.
StatusesKept ==
  \A c \in Patches : opStatus'[c] \in {"PREPARED", "SUCCEEDED"} => opStatus'[c] = opStatus[c]

LEMMA FreezeStep ==
  ASSUME IInv, Next, wsState = "RECONCILIATION_REQUIRED"
  PROVE  UNCHANGED <<writer, epoch, mode, wsId, wsState>> /\ StatusesKept
  <1> USE DEF StatusesKept
  <1>1. CASE QuietStep
    BY <1>1, QuietSteps DEF rowVars, leaseVars, workVars
  <1>2. CASE LeaseRequest /\ UNCHANGED directVars
    BY <1>2 DEF LeaseRequest, WriterRequest, RulesRequest, SetExecutionMode, SetHandoffPolicy,
                AcquireWriter, ReleaseWriter, HandoffWriter, TransitionSafe, workVars,
                directVars, bindingVars
  <1>3. CASE (\E p \in Phases : MemoryWrite(p)) /\ UNCHANGED directVars
    BY <1>3 DEF MemoryWrite, leaseVars, workVars, directVars, bindingVars
  <1>4. CASE (\E s \in SafetyStates : RecordSafety(s)) /\ UNCHANGED directVars
    BY <1>4 DEF RecordSafety, leaseVars, workVars, directVars, bindingVars
  <1>5. ASSUME NEW c \in Patches, Prepare(c) \/ Fail(c) \/ Complete(c) PROVE FALSE
    BY <1>5 DEF IInv, PreparedUnderLease, Prepare, Fail, Complete
  <1>6. ASSUME NEW o \in Opens, OpenBinds(o) PROVE FALSE
    BY <1>6 DEF OpenBinds, BindRefused
  <1>7. QED
    BY <1>1, <1>2, <1>3, <1>4, <1>5, <1>6, NextCases

\* After an unknown outcome nothing moves the lease, the mode or the binding
\* and nothing is prepared or completed.
THEOREM FreezeSafety == Spec => ReconciliationFreezes
  <1>1. IInv /\ [Next]_vars
          => [wsState = "RECONCILIATION_REQUIRED" =>
                /\ UNCHANGED <<writer, epoch, mode, wsId, wsState>>
                /\ \A c \in Patches : opStatus'[c] \in {"PREPARED", "SUCCEEDED"}
                                        => opStatus'[c] = opStatus[c]]_vars
    BY FreezeStep DEF StatusesKept
  <1>2. QED
    BY <1>1, Invariance, PTL DEF Spec, ReconciliationFreezes

LEMMA RevisionStep ==
  ASSUME IInv, Next
  PROVE  \/ UNCHANGED <<phase, leaseVars, safety, wsId>> /\ StatusesKept
         \/ revision' = revision + 1
  <1> USE DEF StatusesKept, Bump
  <1>1. CASE QuietStep
    BY <1>1, QuietSteps DEF rowVars, taskVars, workVars
  <1>2. CASE LeaseRequest \/ (\E p \in Phases : MemoryWrite(p))
             \/ (\E s \in SafetyStates : RecordSafety(s))
    BY <1>2 DEF LeaseRequest, WriterRequest, RulesRequest, SetExecutionMode, SetHandoffPolicy,
                AcquireWriter, ReleaseWriter, HandoffWriter, Grant, MemoryWrite, RecordSafety
  <1>3. ASSUME NEW c \in Patches, Prepare(c) \/ Fail(c) \/ Complete(c)
        PROVE  \/ UNCHANGED <<phase, leaseVars, safety, wsId>> /\ StatusesKept
               \/ revision' = revision + 1
    BY <1>3 DEF IInv, TypeOK, LeaseTypeOK, Prepare, Fail, Complete, bindingVars, taskVars
  <1>4. ASSUME NEW o \in Opens, OpenBinds(o)
        PROVE  \/ UNCHANGED <<phase, leaseVars, safety, wsId>> /\ StatusesKept
               \/ revision' = revision + 1
    BY <1>4 DEF OpenBinds, bindingVars
  <1>5. QED
    BY <1>1, <1>2, <1>3, <1>4, NextCases

\* Whatever a stale decision could be about advances the revision.
THEOREM RevisionSafety == Spec => RevisionCoversDecisions
  <1>1. IInv /\ [Next]_vars
          => [ \/ /\ UNCHANGED <<phase, leaseVars, safety, wsId>>
                  /\ \A c \in Patches : opStatus'[c] \in {"PREPARED", "SUCCEEDED"}
                                          => opStatus'[c] = opStatus[c]
               \/ revision' = revision + 1]_vars
    BY RevisionStep DEF StatusesKept
  <1>2. QED
    BY <1>1, Invariance, PTL DEF Spec, RevisionCoversDecisions

LEMMA SuccessStep ==
  ASSUME IInv, Next, NEW c \in Patches,
         opStatus[c] = "PREPARED", opStatus'[c] = "SUCCEEDED"
  PROVE  facts' = tree'[wsId']
  <1>1. opStatus' # opStatus
    OBVIOUS
  <1>2. CASE QuietStep \/ LeaseRequest \/ (\E p \in Phases : MemoryWrite(p))
             \/ (\E s \in SafetyStates : RecordSafety(s)) \/ (\E o \in Opens : OpenBinds(o))
    BY <1>1, <1>2, QuietSteps
    DEF rowVars, workVars, LeaseRequest, WriterRequest, RulesRequest, SetExecutionMode,
        SetHandoffPolicy, AcquireWriter, ReleaseWriter, HandoffWriter, Grant, MemoryWrite,
        RecordSafety, OpenBinds
  <1>3. ASSUME NEW d \in Patches, Prepare(d) \/ Fail(d) PROVE FALSE
    BY <1>3 DEF IInv, TypeOK, LeaseTypeOK, Prepare, Fail
  <1>4. ASSUME NEW d \in Patches, Complete(d) PROVE facts' = tree'[wsId']
    <2>1. d = c
      BY <1>4 DEF IInv, TypeOK, LeaseTypeOK, Complete
    <2>2. seen[c] = tree[wsId]
      BY <1>4, <2>1 DEF Complete, IInv, CallAgrees, UnsettledRow, Unsettled
    <2>3. QED
      BY <1>4, <2>1, <2>2 DEF Complete, devspaceVars
  <1>5. QED
    BY <1>2, <1>3, <1>4, NextCases

\* A success is reported with the worktree as it is at that moment.
THEOREM ReportSafety == Spec => SuccessReportsWorktree
  <1>1. IInv /\ [Next]_vars
          => [\A c \in Patches : opStatus[c] = "PREPARED" /\ opStatus'[c] = "SUCCEEDED"
                                   => facts' = tree'[wsId']]_vars
    BY SuccessStep
  <1>2. QED
    BY <1>1, Invariance, PTL DEF Spec, SuccessReportsWorktree
=============================================================================
