---------------------- MODULE DirectWorkspaceRefinement ----------------------
(***************************************************************************)
(* The proof that DirectWorkspace implements WriterSession: every step of  *)
(* the rows, the calls and DevSpace is a step of a fenced lease with       *)
(* exclusive mutation sessions, or does not concern it.                    *)
(***************************************************************************)
EXTENDS DirectWorkspaceProofs

\* The refinement mapping of DirectWorkspace!Session, named part by part.
SessionState ==
  IF wsState = "RECONCILIATION_REQUIRED" THEN "frozen"
  ELSE IF NoPrepared THEN "closed" ELSE "open"

Landed == \E c \in Patches : Unsettled(c) /\ request[c] = "applied"

\* A session is closed exactly when no row is unsettled.
LEMMA ClosedSession ==
  ASSUME IInv
  PROVE  /\ SessionState = "closed" <=> \A c \in Patches : ~Unsettled(c)
         /\ SessionState = "closed" => ~Landed
  BY DEF IInv, SessionState, Landed, Unsettled, UnsettledRow, NoPrepared

\* Only the one unsettled row can have landed.
LEMMA LandedByTheOne ==
  ASSUME IInv, NEW c \in Patches, Unsettled(c)
  PROVE  Landed <=> request[c] = "applied"
  BY DEF IInv, Landed, UnsettledRow

\* While lease, rows, requests and worktrees stay, so does the session.
SessionKept == UNCHANGED <<writer, epoch, SessionState, Landed, tree>>

LEMMA RowsKept ==
  ASSUME UNCHANGED <<writer, epoch, wsState, opStatus, request, tree>>
  PROVE  SessionKept
  BY DEF SessionKept, SessionState, Landed, Unsettled, NoPrepared

\* The abstract step each lease request takes, if any.
LEMMA LeaseRequestMaps ==
  ASSUME IInv, LeaseRequest, UNCHANGED directVars
  PROVE  Session!Next \/ SessionKept
  <1> USE DEF directVars, devspaceVars, workVars
  <1>1. CASE RulesRequest
    BY <1>1, RowsKept DEF RulesRequest, SetExecutionMode, SetHandoffPolicy
  <1>2. CASE WriterRequest
    <2>1. UNCHANGED <<SessionState, Landed, tree>> /\ SessionState = "closed"
      BY <1>2 DEF WriterRequest, AcquireWriter, HandoffWriter, ReleaseWriter, Grant,
                  TransitionSafe, SessionState, Landed, Unsettled, NoPrepared
    <2>2. CASE ReleaseWriter
      BY <2>1, <2>2 DEF ReleaseWriter, Session!Next, Session!Release, SessionState, Landed
    <2>3. ASSUME NEW w \in Writers, Grant(w), writer # w
          PROVE  Session!Next
      BY <2>1, <2>3 DEF Grant, Writers, Session!Next, Session!Grant, SessionState, Landed
    <2>4. QED
      BY <1>2, <2>2, <2>3 DEF WriterRequest, AcquireWriter, HandoffWriter, Writers
  <1>3. QED
    BY <1>1, <1>2 DEF LeaseRequest

LEMMA PrepareMaps ==
  ASSUME IInv, NEW c \in Patches, Prepare(c)
  PROVE  Session!Next
  <1> USE DEF Prepare, devspaceVars, leaseVars
  <1>1. SessionState = "closed" /\ ~Landed
    BY ClosedSession DEF SessionState
  <1>2. SessionState' = "open"
    BY DEF IInv, TypeOK, LeaseTypeOK, SessionState, NoPrepared
  <1>3. ~Landed'
    BY <1>1 DEF IInv, TypeOK, LeaseTypeOK, Landed, Unsettled, CallAgrees
  <1>4. QED
    BY <1>1, <1>2, <1>3 DEF Session!Next, Session!Begin, SessionState, Landed

\* A failure freezes the session, whether or not its patch has landed.
LEMMA FailMaps ==
  ASSUME IInv, NEW c \in Patches, Fail(c)
  PROVE  Session!Next
  <1> USE DEF Fail, devspaceVars, leaseVars
  <1>1. SessionState = "open" /\ SessionState' = "frozen"
    BY DEF IInv, PreparedUnderLease, SessionState, NoPrepared
  <1>2. Landed' = Landed
    BY DEF IInv, TypeOK, LeaseTypeOK, Landed, Unsettled
  <1>3. QED
    BY <1>1, <1>2 DEF Session!Next, Session!Freeze, SessionState, Landed

LEMMA CompleteMaps ==
  ASSUME IInv, NEW c \in Patches, Complete(c)
  PROVE  Session!Next
  <1> USE DEF Complete, devspaceVars, leaseVars
  <1>1. SessionState = "open" /\ Unsettled(c) /\ request[c] = "applied" /\ Landed
    BY DEF IInv, PreparedUnderLease, SessionState, NoPrepared, CallAgrees, Landed, Unsettled
  <1>2. CASE Stable(c)
    <2>1. /\ opStatus' = [opStatus EXCEPT ![c] = "SUCCEEDED"] /\ wsState' = wsState
          /\ wsState # "RECONCILIATION_REQUIRED"
      BY <1>2 DEF Stable
    <2>2. \A d \in Patches : ~Unsettled(d)'
      BY <1>1, <2>1 DEF IInv, TypeOK, LeaseTypeOK, UnsettledRow, Unsettled
    <2>3. SessionState' = "closed" /\ ~Landed'
      BY <2>1, <2>2 DEF SessionState, Landed, NoPrepared, Unsettled
    <2>4. QED
      BY <1>1, <2>3 DEF Session!Next, Session!Settle, SessionState, Landed
  <1>3. CASE ~Stable(c)
    <2>1. SessionState' = "frozen"
      BY <1>3 DEF SessionState
    <2>2. Landed'
      BY <1>1, <1>3 DEF IInv, TypeOK, LeaseTypeOK, Landed, Unsettled
    <2>3. QED
      BY <1>1, <2>1, <2>2 DEF Session!Next, Session!Freeze, SessionState, Landed
  <1>4. QED
    BY <1>2, <1>3

\* A patch lands at most once in a session, and never in a closed one.
LEMMA DevSpaceMaps ==
  ASSUME IInv, NEW c \in Patches, DevSpaceStep(c)
  PROVE  Session!Next \/ SessionKept
  <1> USE DEF rowVars, leaseVars, workVars, bindingVars, opVars, patchVars
  <1>1. /\ request[c] = "inflight" /\ Unsettled(c) /\ opWs[c] \in Workspaces
        /\ UNCHANGED <<writer, epoch, wsState, opStatus>>
    BY DEF IInv, TypeOK, LeaseTypeOK, OpStates, CallAgrees, Unsettled, DevSpaceStep,
           DevSpaceApplies, DevSpaceDrops
  <1>2. UNCHANGED SessionState /\ SessionState # "closed" /\ ~Landed
    BY <1>1, ClosedSession, LandedByTheOne DEF SessionState, NoPrepared
  <1>3. CASE DevSpaceApplies(c)
    <2>1. Landed'
      BY <1>1, <1>3 DEF IInv, TypeOK, DevSpaceApplies, Landed, Unsettled
    <2>2. \E w \in Workspaces : tree' = [tree EXCEPT ![w] = @ + 1]
      BY <1>1, <1>3 DEF DevSpaceApplies
    <2>3. QED
      BY <1>1, <1>2, <2>1, <2>2 DEF Session!Next, Session!Mutate, SessionState, Landed
  <1>4. CASE DevSpaceDrops(c)
    <2>1. ~Landed'
      BY <1>1, <1>2, <1>4 DEF IInv, TypeOK, DevSpaceDrops, Landed, Unsettled
    <2>2. QED
      BY <1>1, <1>2, <1>4, <2>1 DEF DevSpaceDrops, SessionKept, Landed
  <1>5. QED
    BY <1>3, <1>4 DEF DevSpaceStep

\* Binding a workspace needs a closed session or keeps the one there is.
LEMMA OtherStepsMap ==
  ASSUME IInv,
         \/ \E c \in Patches : Send(c) \/ Observe(c) \/ AddEvidence(c) \/ Lose(c)
         \/ \E o \in Opens : OpenBegin(o) \/ OpenStep(o)
         \/ \E f \in Refreshes : RefreshStep(f)
  PROVE  SessionKept
  <1> USE DEF rowVars, leaseVars, workVars, bindingVars, opVars, patchVars, devspaceVars
  <1>1. ASSUME NEW c \in Patches, Send(c) PROVE SessionKept
    <2>1. request' = [request EXCEPT ![c] = "inflight"] /\ request[c] = "none"
          /\ UNCHANGED <<writer, epoch, wsState, opStatus, tree>>
      BY <1>1 DEF IInv, CallAgrees, Send
    <2>2. QED
      BY <2>1 DEF IInv, TypeOK, SessionKept, SessionState, Landed, Unsettled, NoPrepared
  <1>2. ASSUME NEW c \in Patches, Observe(c) \/ AddEvidence(c) \/ Lose(c) PROVE SessionKept
    BY <1>2, RowsKept DEF Observe, AddEvidence, Lose
  <1>3. ASSUME NEW o \in Opens, OpenBegin(o) \/ OpenStep(o) PROVE SessionKept
    <2>1. CASE OpenBinds(o)
      <3>1. /\ wsState # "RECONCILIATION_REQUIRED" /\ wsState' # "RECONCILIATION_REQUIRED"
            /\ UNCHANGED <<writer, epoch, opStatus, request, tree>>
        BY <2>1 DEF OpenBinds, BindRefused
      <3>2. QED
        BY <3>1 DEF SessionKept, SessionState, Landed, Unsettled, NoPrepared
    <2>2. QED
      BY <1>3, <2>1, RowsKept DEF OpenBegin, OpenStep, DevSpaceOpens, OpenRefused
  <1>4. ASSUME NEW f \in Refreshes, RefreshStep(f) PROVE SessionKept
    BY <1>4, RowsKept DEF RefreshStep, RefreshRead, RefreshStore
  <1>5. QED
    BY <1>1, <1>2, <1>3, <1>4

LEMMA StepMaps ==
  ASSUME IInv, [Next]_vars
  PROVE  Session!Next \/ SessionKept
  <1>1. ASSUME Request PROVE Session!Next \/ SessionKept
    <2>1. CASE /\ (\E p \in Phases : MemoryWrite(p)) \/ (\E s \in SafetyStates : RecordSafety(s))
               /\ UNCHANGED directVars
      BY <2>1, RowsKept DEF MemoryWrite, RecordSafety, leaseVars, workVars, directVars,
                            devspaceVars
    <2>2. QED
      BY <1>1, <2>1, LeaseRequestMaps, PrepareMaps, OtherStepsMap
      DEF Request, ReconcileSafety, SafetyStates
  <1>2. ASSUME NEW c \in Patches, PatchStep(c) \/ DevSpaceStep(c) \/ Lose(c)
        PROVE  Session!Next \/ SessionKept
    BY <1>2, FailMaps, CompleteMaps, DevSpaceMaps, OtherStepsMap DEF PatchStep
  <1>3. CASE UNCHANGED vars
    BY <1>3, RowsKept DEF vars, rowVars, leaseVars, workVars, directVars, devspaceVars
  <1>4. QED
    BY <1>1, <1>2, <1>3, OtherStepsMap DEF Next

\* The direct protocol implements a fenced lease with exclusive sessions:
\* the lease moves only between sessions, a session sees at most one
\* mutation, and an unknown outcome freezes it.
THEOREM Implementation == Spec => ImplementsWriterSession
  <1>1. Init => Session!Init
    BY DEF Init, LeaseInit, Session!Init, NoPrepared, Unsettled
  <1>2. IInv /\ [Next]_vars => [Session!Next]_Session!sessionVars
    BY StepMaps DEF SessionKept, SessionState, Landed, Session!sessionVars
  <1>3. QED
    BY <1>1, <1>2, Invariance, PTL DEF Spec, ImplementsWriterSession, Session!Spec
=============================================================================
