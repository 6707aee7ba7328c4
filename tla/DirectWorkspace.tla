--------------------------- MODULE DirectWorkspace ---------------------------
(***************************************************************************)
(* ChatGPT's direct edits: supervisor/direct_workspace.py over             *)
(* memory/workspace.py, against a DevSpace process that owns the worktrees.*)
(*                                                                         *)
(* A patch call prepares an operation row, sends the patch, reads back the *)
(* Git state and completes the row, each a step of its own because every   *)
(* await lets other calls and other MCP requests in.  A call may be lost   *)
(* at any step: its task is cancelled (CancelledError is no Exception, so  *)
(* no handler runs) or the process dies; DevSpace does not die with it and *)
(* may still apply a patch it has been sent.                               *)
(***************************************************************************)
EXTENDS ExecutionLease

CONSTANTS
  Opens,        \* calls of DirectWorkspaceCoordinator.open
  Refreshes,    \* calls of refresh_git_state
  Workspaces,   \* workspace ids DevSpace may hand out
  NoWorkspace,
  MayLose       \* may calls be lost (cancellation, crash)?

ASSUME WorkspaceAssumption ==
  /\ NoWorkspace \notin Workspaces
  /\ MayLose \in BOOLEAN

VARIABLES
  wsId,          \* task_workspace_state.workspace_id
  facts,         \* the worktree version its Git columns describe, 0 is clean
  opEpoch,       \* direct_workspace_operations.writer_epoch
  opPrepared,    \* .prepared_revision
  opCompleted,   \* .completed_revision
  evidence,      \* task_evidence of the call: "none", "diff", "reconciliation"
  pc,            \* where each patch call is
  opWs,          \* the workspace id the patch call was prepared with
  seen,          \* the worktree version the patch call read back
  base,          \* history: the worktree version when the call prepared
  openPc,        \* where each open call is
  openExpected,  \* its expected_revision
  openWs,        \* the workspace id DevSpace returned to it
  refreshPc,     \* where each refresh call is
  refreshSeen,   \* the version it read
  request,       \* external: what became of the patch request
  tree           \* external: patches each worktree has received

bindingVars == <<wsId, facts>>
opVars == <<opEpoch, opPrepared, opCompleted>>
patchVars == <<pc, opWs, seen, base, evidence>>
openVars == <<openPc, openExpected, openWs>>
refreshVars == <<refreshPc, refreshSeen>>
devspaceVars == <<request, tree>>
directVars == <<bindingVars, opVars, patchVars, openVars, refreshVars, devspaceVars>>
vars == <<rowVars, directVars>>

PatchPcs == {"idle", "prepared", "sent", "observed", "completed", "done", "failed", "lost"}
OpenPcs == {"idle", "opening", "opened", "bound", "failed"}
RefreshPcs == {"idle", "read", "done"}
Requests == {"none", "inflight", "applied", "dropped"}

TypeOK ==
  /\ LeaseTypeOK
  /\ wsId \in Workspaces \cup {NoWorkspace}
  /\ facts \in Nat
  /\ opEpoch \in [Patches -> Nat]
  /\ opPrepared \in [Patches -> Nat]
  /\ opCompleted \in [Patches -> Nat]
  /\ evidence \in [Patches -> {"none", "diff", "reconciliation"}]
  /\ pc \in [Patches -> PatchPcs]
  /\ opWs \in [Patches -> Workspaces \cup {NoWorkspace}]
  /\ seen \in [Patches -> Nat]
  /\ base \in [Patches -> Nat]
  /\ openPc \in [Opens -> OpenPcs]
  /\ openExpected \in [Opens -> Nat]
  /\ openWs \in [Opens -> Workspaces \cup {NoWorkspace}]
  /\ refreshPc \in [Refreshes -> RefreshPcs]
  /\ refreshSeen \in [Refreshes -> Nat]
  /\ request \in [Patches -> Requests]
  /\ tree \in [Workspaces -> Nat]

Init ==
  /\ LeaseInit
  /\ wsId = NoWorkspace
  /\ facts = 0
  /\ opEpoch = [c \in Patches |-> 0]
  /\ opPrepared = [c \in Patches |-> 0]
  /\ opCompleted = [c \in Patches |-> 0]
  /\ evidence = [c \in Patches |-> "none"]
  /\ pc = [c \in Patches |-> "idle"]
  /\ opWs = [c \in Patches |-> NoWorkspace]
  /\ seen = [c \in Patches |-> 0]
  /\ base = [c \in Patches |-> 0]
  /\ openPc = [o \in Opens |-> "idle"]
  /\ openExpected = [o \in Opens |-> 0]
  /\ openWs = [o \in Opens |-> NoWorkspace]
  /\ refreshPc = [f \in Refreshes |-> "idle"]
  /\ refreshSeen = [f \in Refreshes |-> 0]
  /\ request = [c \in Patches |-> "none"]
  /\ tree = [w \in Workspaces |-> 0]

-----------------------------------------------------------------------------
(* apply_patch *)

FaultyPrepareUnderFence(c) ==
  /\ pc[c] = "idle"
  /\ writer = "CHATGPT"
  /\ mode # "CODEX_SUPERVISED"
  /\ wsState = "ACTIVE"
  /\ NoPrepared
  /\ Bump
  /\ opStatus' = [opStatus EXCEPT ![c] = "PREPARED"]
  /\ opEpoch' = [opEpoch EXCEPT ![c] = epoch]
  /\ opPrepared' = [opPrepared EXCEPT ![c] = revision']
  /\ opWs' = [opWs EXCEPT ![c] = wsId]
  /\ base' = [base EXCEPT ![c] = tree[wsId]]
  /\ pc' = [pc EXCEPT ![c] = "prepared"]
  /\ UNCHANGED <<phase, leaseVars, safety, wsState, bindingVars, opCompleted,
                 seen, evidence, openVars, refreshVars, devspaceVars>>

\* prepare_direct_operation.  The task phase is not looked at.
Prepare(c) ==
  /\ pc[c] = "idle"
  /\ safety = "NONE"
  /\ writer = "CHATGPT"
  /\ mode # "CODEX_SUPERVISED"
  /\ wsState = "ACTIVE"
  /\ NoPrepared
  /\ Bump
  /\ opStatus' = [opStatus EXCEPT ![c] = "PREPARED"]
  /\ opEpoch' = [opEpoch EXCEPT ![c] = epoch]
  /\ opPrepared' = [opPrepared EXCEPT ![c] = revision']
  /\ opWs' = [opWs EXCEPT ![c] = wsId]
  /\ base' = [base EXCEPT ![c] = tree[wsId]]
  /\ pc' = [pc EXCEPT ![c] = "prepared"]
  /\ UNCHANGED <<phase, leaseVars, safety, wsState, bindingVars, opCompleted,
                 seen, evidence, openVars, refreshVars, devspaceVars>>

Send(c) ==
  /\ pc[c] = "prepared"
  /\ pc' = [pc EXCEPT ![c] = "sent"]
  /\ request' = [request EXCEPT ![c] = "inflight"]
  /\ UNCHANGED <<rowVars, bindingVars, opVars, opWs, seen, base, evidence,
                 openVars, refreshVars, tree>>

FaultyObserveEarly(c) ==
  /\ pc[c] = "sent"
  /\ seen' = [seen EXCEPT ![c] = tree[opWs[c]]]
  /\ pc' = [pc EXCEPT ![c] = "observed"]
  /\ UNCHANGED <<rowVars, bindingVars, opVars, opWs, base, evidence,
                 openVars, refreshVars, devspaceVars>>

\* The patch was acknowledged; git_state and show_changes read the worktree.
Observe(c) ==
  /\ pc[c] = "sent"
  /\ request[c] = "applied"
  /\ seen' = [seen EXCEPT ![c] = tree[opWs[c]]]
  /\ pc' = [pc EXCEPT ![c] = "observed"]
  /\ UNCHANGED <<rowVars, bindingVars, opVars, opWs, base, evidence,
                 openVars, refreshVars, devspaceVars>>

FaultyFailMarksRowOnly(c) ==
  /\ pc[c] \in {"prepared", "sent"}
  /\ opStatus' = [opStatus EXCEPT ![c] = "RECONCILIATION_REQUIRED"]
  /\ pc' = [pc EXCEPT ![c] = "failed"]
  /\ UNCHANGED <<taskVars, leaseVars, safety, wsState, bindingVars, opVars, opWs, seen,
                 base, evidence, openVars, refreshVars, devspaceVars>>

FaultyFailForgetsRow(c) ==
  /\ pc[c] \in {"prepared", "sent"}
  /\ pc' = [pc EXCEPT ![c] = "failed"]
  /\ UNCHANGED <<rowVars, bindingVars, opVars, opWs, seen, base, evidence, openVars,
                 refreshVars, devspaceVars>>

\* An exception of the adapter, before or after the patch went out:
\* mark_direct_operation_reconciliation_required.
Fail(c) ==
  /\ pc[c] \in {"prepared", "sent"}
  /\ opStatus[c] = "PREPARED"
  /\ opStatus' = [opStatus EXCEPT ![c] = "RECONCILIATION_REQUIRED"]
  /\ wsState' = "RECONCILIATION_REQUIRED"
  /\ pc' = [pc EXCEPT ![c] = "failed"]
  /\ UNCHANGED <<taskVars, leaseVars, safety, bindingVars, opVars, opWs, seen, base,
                 evidence, openVars, refreshVars, devspaceVars>>

FaultyStableIgnoresRevision(c) ==
  /\ writer = "CHATGPT"
  /\ epoch = opEpoch[c]
  /\ wsState = "ACTIVE"

\* Nothing the operation was prepared under has changed.
Stable(c) ==
  /\ revision = opPrepared[c]
  /\ writer = "CHATGPT"
  /\ epoch = opEpoch[c]
  /\ wsState = "ACTIVE"

\* complete_direct_operation
Complete(c) ==
  /\ pc[c] = "observed"
  /\ opStatus[c] = "PREPARED"
  /\ facts' = seen[c]
  /\ pc' = [pc EXCEPT ![c] = "completed"]
  /\ \/ /\ Stable(c)
        /\ Bump
        /\ opStatus' = [opStatus EXCEPT ![c] = "SUCCEEDED"]
        /\ opCompleted' = [opCompleted EXCEPT ![c] = revision']
        /\ UNCHANGED wsState
     \/ /\ ~Stable(c)
        /\ opStatus' = [opStatus EXCEPT ![c] = "RECONCILIATION_REQUIRED"]
        /\ wsState' = "RECONCILIATION_REQUIRED"
        /\ UNCHANGED <<revision, opCompleted>>
  /\ UNCHANGED <<phase, leaseVars, safety, wsId, opEpoch, opPrepared, opWs, seen, base,
                 evidence, openVars, refreshVars, devspaceVars>>

\* add_evidence, a transaction after the completion's.
AddEvidence(c) ==
  /\ pc[c] = "completed"
  /\ evidence' = [evidence EXCEPT ![c] =
       IF opStatus[c] = "SUCCEEDED" THEN "diff" ELSE "reconciliation"]
  /\ pc' = [pc EXCEPT ![c] = "done"]
  /\ UNCHANGED <<rowVars, bindingVars, opVars, opWs, seen, base, openVars, refreshVars,
                 devspaceVars>>

Lose(c) ==
  /\ MayLose
  /\ pc[c] \in {"prepared", "sent", "observed", "completed"}
  /\ pc' = [pc EXCEPT ![c] = "lost"]
  /\ UNCHANGED <<rowVars, bindingVars, opVars, opWs, seen, base, evidence, openVars,
                 refreshVars, devspaceVars>>

-----------------------------------------------------------------------------
(* DevSpace: a patch it was sent is applied or dropped, at any later time. *)

DevSpaceApplies(c) ==
  /\ request[c] = "inflight"
  /\ request' = [request EXCEPT ![c] = "applied"]
  /\ tree' = [tree EXCEPT ![opWs[c]] = @ + 1]
  /\ UNCHANGED <<rowVars, bindingVars, opVars, patchVars, openVars, refreshVars>>

DevSpaceDrops(c) ==
  /\ request[c] = "inflight"
  /\ request' = [request EXCEPT ![c] = "dropped"]
  /\ UNCHANGED <<rowVars, bindingVars, opVars, patchVars, openVars, refreshVars, tree>>

-----------------------------------------------------------------------------
(* open: a call that does not match the active binding asks DevSpace for a *)
(* workspace and then binds it at the revision it was called with.         *)

OpenBegin(o) ==
  /\ openPc[o] = "idle"
  /\ safety = "NONE"
  /\ wsState # "RECONCILIATION_REQUIRED"
  /\ openPc' = [openPc EXCEPT ![o] = "opening"]
  /\ openExpected' = [openExpected EXCEPT ![o] = revision]
  /\ UNCHANGED <<rowVars, bindingVars, opVars, patchVars, openWs, refreshVars, devspaceVars>>

DevSpaceOpens(o, w) ==
  /\ openPc[o] = "opening"
  /\ openPc' = [openPc EXCEPT ![o] = "opened"]
  /\ openWs' = [openWs EXCEPT ![o] = w]
  /\ UNCHANGED <<rowVars, bindingVars, opVars, patchVars, openExpected, refreshVars,
                 devspaceVars>>

FaultyBindAfterUnknown(o) ==
  \/ revision # openExpected[o]
  \/ /\ wsState = "ACTIVE"
     /\ openWs[o] # wsId
     /\ writer # "NONE" \/ ~NoPrepared

\* The guards of bind_workspace that raise; replacing a binding needs a
\* free lease and no prepared operation, a first binding needs neither.
BindRefused(o) ==
  \/ revision # openExpected[o]
  \/ wsState = "RECONCILIATION_REQUIRED"
  \/ /\ wsState = "ACTIVE"
     /\ openWs[o] # wsId
     /\ writer # "NONE" \/ ~NoPrepared

\* bind_workspace; the same workspace again is returned unchanged.
OpenBinds(o) ==
  /\ openPc[o] = "opened"
  /\ ~BindRefused(o)
  /\ openPc' = [openPc EXCEPT ![o] = "bound"]
  /\ \/ /\ wsState = "ACTIVE"
        /\ wsId = openWs[o]
        /\ UNCHANGED <<revision, wsState, bindingVars>>
     \/ /\ wsState = "unbound" \/ wsId # openWs[o]
        /\ Bump
        /\ wsState' = "ACTIVE"
        /\ wsId' = openWs[o]
        /\ facts' = 0
  /\ UNCHANGED <<phase, leaseVars, safety, opStatus, opVars, patchVars, openExpected, openWs,
                 refreshVars, devspaceVars>>

\* The workspace is given back; DevSpace has no close tool, so that is all.
OpenRefused(o) ==
  /\ openPc[o] = "opened"
  /\ BindRefused(o)
  /\ openPc' = [openPc EXCEPT ![o] = "failed"]
  /\ UNCHANGED <<rowVars, bindingVars, opVars, patchVars, openExpected, openWs, refreshVars,
                 devspaceVars>>

-----------------------------------------------------------------------------
(* refresh_git_state *)

RefreshRead(f) ==
  /\ refreshPc[f] = "idle"
  /\ wsState # "unbound"
  /\ refreshPc' = [refreshPc EXCEPT ![f] = "read"]
  /\ refreshSeen' = [refreshSeen EXCEPT ![f] = tree[wsId]]
  /\ UNCHANGED <<rowVars, bindingVars, opVars, patchVars, openVars, devspaceVars>>

\* update_workspace_derived writes onto whatever binding exists by now.
RefreshStore(f) ==
  /\ refreshPc[f] = "read"
  /\ refreshPc' = [refreshPc EXCEPT ![f] = "done"]
  /\ facts' = refreshSeen[f]
  /\ UNCHANGED <<rowVars, wsId, opVars, patchVars, openVars, refreshSeen, devspaceVars>>

-----------------------------------------------------------------------------
\* New work for the task: bounded, so that behaviours stay finite.
Request ==
  /\ revision < MaxRevision
  /\ \/ LeaseRequest /\ UNCHANGED directVars
     \/ (\E p \in Phases : MemoryWrite(p)) /\ UNCHANGED directVars
     \/ (\E s \in SafetyStates : RecordSafety(s)) /\ UNCHANGED directVars
     \/ ReconcileSafety /\ UNCHANGED directVars
     \/ \E c \in Patches : Prepare(c)
     \/ \E o \in Opens : OpenBegin(o)

PatchStep(c) == Send(c) \/ Observe(c) \/ Fail(c) \/ Complete(c) \/ AddEvidence(c)

OpenStep(o) ==
  \/ \E w \in Workspaces : DevSpaceOpens(o, w)
  \/ OpenBinds(o)
  \/ OpenRefused(o)

RefreshStep(f) == RefreshRead(f) \/ RefreshStore(f)

DevSpaceStep(c) == DevSpaceApplies(c) \/ DevSpaceDrops(c)

Next ==
  \/ Request
  \/ \E c \in Patches : PatchStep(c) \/ DevSpaceStep(c) \/ Lose(c)
  \/ \E o \in Opens : OpenStep(o)
  \/ \E f \in Refreshes : RefreshStep(f)

Spec == Init /\ [][Next]_vars

\* The event loop resumes a call whose await is over, and DevSpace answers
\* what it was sent.  No timeout is assumed: Fail while a request is in
\* flight may happen and need not.
Fairness ==
  \A c \in Patches :
    /\ WF_vars(PatchStep(c) /\ (pc[c] # "sent" \/ request[c] # "inflight"))
    /\ WF_vars(DevSpaceStep(c))

FairSpec == Spec /\ Fairness

-----------------------------------------------------------------------------
(* Properties *)

Unsettled(c) == opStatus[c] \in {"PREPARED", "RECONCILIATION_REQUIRED"}

\* The mode and the lease agree: DIRECT never has a Codex writer and
\* CODEX_SUPERVISED never a ChatGPT writer, although mode, policy, acquire
\* and handoff requests interleave (memory/execution.py).
ModeAdmitsWriter ==
  /\ mode = "DIRECT" => writer # "CODEX"
  /\ mode = "CODEX_SUPERVISED" => writer # "CHATGPT"

\* While an operation is PREPARED the lease it was prepared under is still
\* the lease, the binding is still its workspace and it is alone: nothing
\* between its awaits may pull the worktree away from it.
PreparedUnderLease ==
  \A c \in Patches : opStatus[c] = "PREPARED" =>
    /\ writer = "CHATGPT" /\ epoch = opEpoch[c]
    /\ mode # "CODEX_SUPERVISED"
    /\ wsState = "ACTIVE" /\ wsId = opWs[c]
    /\ \A d \in Patches \ {c} : opStatus[d] # "PREPARED"

\* A patch DevSpace may still apply, its caller alive or not, is covered by
\* a PREPARED row or a workspace in reconciliation, and can only land in
\* the bound workspace: no later write is admitted beside it.
OutstandingPatchFenced ==
  \A c \in Patches : request[c] = "inflight" =>
    /\ opStatus[c] = "PREPARED" \/ wsState = "RECONCILIATION_REQUIRED"
    /\ opWs[c] = wsId

\* A row says SUCCEEDED only when nothing was committed between its prepare
\* and its completion and the worktree it read back holds exactly its own
\* patch on top of what was there (steps 3 and 4 of the two-phase protocol).
SuccessIsExclusive ==
  \A c \in Patches : opStatus[c] = "SUCCEEDED" =>
    /\ opCompleted[c] = opPrepared[c] + 1
    /\ request[c] = "applied"
    /\ seen[c] = base[c] + 1

\* What the binding is told on success is the worktree as it is, not a
\* reading some other mutation has overtaken.
SuccessReportsWorktree ==
  [][\A c \in Patches : opStatus[c] = "PREPARED" /\ opStatus'[c] = "SUCCEEDED"
                          => facts' = tree'[wsId']]_vars

\* Nothing that follows an unknown outcome claims or moves the workspace:
\* lease, mode and binding stay put and no row is prepared or completed.
ReconciliationFreezes ==
  [][wsState = "RECONCILIATION_REQUIRED" =>
       /\ UNCHANGED <<writer, epoch, mode, wsId, wsState>>
       /\ \A c \in Patches : opStatus'[c] \in {"PREPARED", "SUCCEEDED"}
                               => opStatus'[c] = opStatus[c]]_vars

\* The revision versions what it is compared for: each change of phase,
\* lease, fence or binding, and each prepared or completed row, advances it
\* by one (MemoryStore._update_task).  The mark for reconciliation, which
\* starts read too, moves without it and is left out on purpose.
RevisionCoversDecisions ==
  [][ \/ /\ UNCHANGED <<phase, leaseVars, safety, wsId>>
         /\ \A c \in Patches : opStatus'[c] \in {"PREPARED", "SUCCEEDED"}
                                 => opStatus'[c] = opStatus[c]
      \/ revision' = revision + 1]_vars

\* A prepared operation is always resolved, with its evidence recorded when
\* it is a success (execution.py:105 tells the user to wait for that).
PreparedSettles ==
  \A c \in Patches :
    opStatus[c] = "PREPARED" ~>
      \/ opStatus[c] = "SUCCEEDED" /\ evidence[c] = "diff"
      \/ opStatus[c] = "RECONCILIATION_REQUIRED" /\ wsState = "RECONCILIATION_REQUIRED"

\* The inductive strengthening of the invariants above.
\* Where a call is tells what its row, its request and its readings are.
CallAgrees(c) ==
  /\ pc[c] = "idle" => opStatus[c] = "none"
  /\ pc[c] \in {"idle", "prepared"} => request[c] = "none"
  /\ pc[c] # "idle" => opStatus[c] # "none" /\ opWs[c] \in Workspaces
  /\ pc[c] \in {"prepared", "sent", "observed"} => opStatus[c] = "PREPARED"
  /\ pc[c] = "observed" => request[c] = "applied" /\ seen[c] = base[c] + 1
  /\ opStatus[c] = "SUCCEEDED" => request[c] = "applied"

\* An unsettled row is the only one, it names the bound workspace, and while
\* it is PREPARED that worktree holds its patch or nothing new.
UnsettledRow(c) ==
  Unsettled(c) =>
    /\ opWs[c] = wsId
    /\ \A d \in Patches \ {c} : ~Unsettled(d)
    /\ opStatus[c] = "RECONCILIATION_REQUIRED" <=> wsState = "RECONCILIATION_REQUIRED"
    /\ opStatus[c] = "PREPARED" =>
         tree[opWs[c]] = base[c] + (IF request[c] = "applied" THEN 1 ELSE 0)

\* The inductive invariant (checked here, proved in DirectWorkspaceProofs):
\* besides the invariants, the binding row exists iff it names a workspace,
\* and every call, row, request and worktree agree.
IInv ==
  /\ TypeOK
  /\ ModeAdmitsWriter
  /\ PreparedUnderLease
  /\ SuccessIsExclusive
  /\ wsState = "unbound" <=> wsId = NoWorkspace
  /\ wsState = "RECONCILIATION_REQUIRED" => \E c \in Patches : Unsettled(c)
  /\ \A o \in Opens : openPc[o] = "opened" => openWs[o] \in Workspaces
  /\ \A c \in Patches : CallAgrees(c) /\ UnsettledRow(c)

\* Refinement: rows, calls and DevSpace together implement a fenced lease
\* with exclusive mutation sessions (WriterSession).
Session == INSTANCE WriterSession WITH
  holder <- writer,
  token <- epoch,
  session <- IF wsState = "RECONCILIATION_REQUIRED" THEN "frozen"
             ELSE IF NoPrepared THEN "closed" ELSE "open",
  landed <- \E c \in Patches : Unsettled(c) /\ request[c] = "applied",
  tree <- tree

ImplementsWriterSession == Session!Spec
=============================================================================
