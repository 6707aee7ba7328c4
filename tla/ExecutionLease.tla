--------------------------- MODULE ExecutionLease ---------------------------
(***************************************************************************)
(* The rows of one supervised task that decide who may write, and the      *)
(* transactions of memory/execution.py, memory/agent_safety.py and         *)
(* memory/store.py on them.  Every row is keyed by task_id, so one task is *)
(* modelled.                                                               *)
(*                                                                         *)
(* One action is one MemoryStore._write transaction that commits.  A call  *)
(* whose expected_revision or expected_writer_epoch is not the current one *)
(* raises and rolls back, so a committed call is one made with the current *)
(* values; the callers that read them long before they commit are modelled *)
(* with the values they captured, in the modules that extend this one.     *)
(***************************************************************************)
EXTENDS Naturals

CONSTANTS
  Patches,      \* the apply_patch calls of a behaviour, one operation row each
  Phases,       \* the task phases an instance distinguishes
  MaxRevision   \* bound: no new request is made at this revision or above

TerminalPhases == {"accepted", "cancelled", "failed"}

ASSUME PhasesAssumption ==
  /\ "created" \in Phases
  /\ MaxRevision \in Nat

VARIABLES
  revision,           \* supervised_tasks.revision
  phase,              \* supervised_tasks.phase
  mode,               \* task_execution_state.execution_mode
  policy,             \* task_execution_state.handoff_policy
  writer,             \* task_execution_state.active_writer
  epoch,              \* task_execution_state.writer_epoch
  acquiredRevision,   \* task_execution_state.writer_acquired_revision
  safety,             \* task_agent_safety.state, "NONE" without a row
  wsState,            \* task_workspace_state.state, "unbound" without a row
  opStatus            \* direct_workspace_operations.status per call

leaseVars == <<mode, policy, writer, epoch, acquiredRevision>>
taskVars == <<revision, phase>>
workVars == <<wsState, opStatus>>
rowVars == <<taskVars, leaseVars, safety, workVars>>

Modes == {"DIRECT", "HYBRID", "CODEX_SUPERVISED"}
Policies == {"MANUAL_ONLY", "SUPERVISOR_ALLOWED"}
Writers == {"CHATGPT", "CODEX"}
NoRevision == 0   \* NULL: an acquisition always records a revision above 0
SafetyStates == {"NONE", "COMPENSATION_REQUIRED", "RECONCILIATION_REQUIRED"}
WorkspaceStates == {"unbound", "ACTIVE", "RECONCILIATION_REQUIRED"}
OpStates == {"none", "PREPARED", "SUCCEEDED", "RECONCILIATION_REQUIRED"}

LeaseTypeOK ==
  /\ revision \in Nat
  /\ phase \in Phases
  /\ mode \in Modes
  /\ policy \in Policies
  /\ writer \in Writers \cup {"NONE"}
  /\ epoch \in Nat
  /\ acquiredRevision \in Nat
  /\ safety \in SafetyStates
  /\ wsState \in WorkspaceStates
  /\ opStatus \in [Patches -> OpStates]

-----------------------------------------------------------------------------
\* A new task is HYBRID; one that predates the mode table was backfilled.
LeaseInit ==
  /\ revision = 0
  /\ phase = "created"
  /\ mode \in {"HYBRID", "CODEX_SUPERVISED"}
  /\ policy = "MANUAL_ONLY"
  /\ writer = "NONE"
  /\ epoch = 0
  /\ acquiredRevision = NoRevision
  /\ safety = "NONE"
  /\ wsState = "unbound"
  /\ opStatus = [c \in Patches |-> "none"]

\* MemoryStore._update_task: every canonical write advances the revision.
Bump == revision' = revision + 1

NoPrepared == \A c \in Patches : opStatus[c] # "PREPARED"

\* Faulty variants of the definition that follows; PROJECT.json "mutants"
\* names the property each one breaks.  Likewise for every Faulty operator.
FaultyTransitionDuringOperation ==
  /\ safety = "NONE"
  /\ wsState # "RECONCILIATION_REQUIRED"

FaultyTransitionAfterUnknown ==
  /\ safety = "NONE"
  /\ NoPrepared

\* _assert_workspace_transition_safe
TransitionSafe ==
  /\ safety = "NONE"
  /\ NoPrepared
  /\ wsState # "RECONCILIATION_REQUIRED"

\* _assert_writer_allowed; `authorized` is an actor USER or an explicit
\* user authorization passed by the caller.
WriterAllowed(w, authorized) ==
  /\ mode = "DIRECT" => w = "CHATGPT"
  /\ mode = "CODEX_SUPERVISED" => w = "CODEX"
  /\ (mode = "HYBRID" /\ w = "CODEX" /\ policy = "MANUAL_ONLY") => authorized

FaultyModeUnderWriter(m) ==
  /\ m # mode
  /\ TransitionSafe
  /\ mode' = m
  /\ Bump
  /\ UNCHANGED <<phase, policy, writer, epoch, acquiredRevision, safety, workVars>>

\* set_execution_mode: asking for the current mode returns early.
SetExecutionMode(m) ==
  /\ m # mode
  /\ TransitionSafe
  /\ ~(writer = "CHATGPT" /\ m = "CODEX_SUPERVISED")
  /\ ~(writer = "CODEX" /\ m = "DIRECT")
  /\ mode' = m
  /\ Bump
  /\ UNCHANGED <<phase, policy, writer, epoch, acquiredRevision, safety, workVars>>

\* set_handoff_policy, by the user: no transition check, and early return
\* for the current policy.
SetHandoffPolicy(p) ==
  /\ p # policy
  /\ policy' = p
  /\ Bump
  /\ UNCHANGED <<phase, mode, writer, epoch, acquiredRevision, safety, workVars>>

FaultyGrantKeepsEpoch(w) ==
  /\ writer' = w
  /\ Bump
  /\ acquiredRevision' = revision'
  /\ UNCHANGED <<phase, mode, policy, epoch, safety, workVars>>

\* The lease columns acquire_writer and handoff_writer both write.
Grant(w) ==
  /\ writer' = w
  /\ epoch' = epoch + 1
  /\ Bump
  /\ acquiredRevision' = revision'
  /\ UNCHANGED <<phase, mode, policy, safety, workVars>>

AcquireWriter(w, authorized) ==
  /\ phase \notin TerminalPhases
  /\ TransitionSafe
  /\ writer = "NONE"
  /\ WriterAllowed(w, authorized)
  /\ Grant(w)

FaultyReleaseRollsBack ==
  /\ TransitionSafe
  /\ writer' = "NONE"
  /\ epoch' = epoch - 1
  /\ acquiredRevision' = NoRevision
  /\ Bump
  /\ UNCHANGED <<phase, mode, policy, safety, workVars>>

\* release_writer: the epoch stays; neither the phase nor a running agent
\* is looked at.
ReleaseWriter ==
  /\ TransitionSafe
  /\ writer' = "NONE"
  /\ acquiredRevision' = NoRevision
  /\ Bump
  /\ UNCHANGED <<phase, mode, policy, epoch, safety, workVars>>

HandoffWriter(w, authorized) ==
  /\ phase \notin TerminalPhases
  /\ writer \in Writers \ {w}
  /\ TransitionSafe
  /\ WriterAllowed(w, authorized)
  /\ Grant(w)

\* record_event, update_intent, decisions, constraints and set_phase: a
\* revision-protected write that leaves the execution rows alone.
MemoryWrite(p) ==
  /\ phase' = p
  /\ Bump
  /\ UNCHANGED <<leaseVars, safety, workVars>>

FaultyRecordKeepsRevision(s) ==
  /\ safety' = s
  /\ UNCHANGED <<taskVars, leaseVars, workVars>>

\* agent_safety._record: an unconditional upsert at whatever revision is
\* current.
RecordSafety(s) ==
  /\ safety' = s
  /\ Bump
  /\ UNCHANGED <<phase, leaseVars, workVars>>

\* reconcile_agent_safety; without a row it rolls back, and on a row that is
\* already NONE it only advances the revision, as MemoryWrite does.
ReconcileSafety ==
  /\ safety # "NONE"
  /\ RecordSafety("NONE")

\* The requests a user or the supervisor may make of the lease: who writes,
\* and under which rules.
WriterRequest ==
  \/ \E w \in Writers, authorized \in BOOLEAN : AcquireWriter(w, authorized)
  \/ ReleaseWriter
  \/ \E w \in Writers, authorized \in BOOLEAN : HandoffWriter(w, authorized)

RulesRequest ==
  \/ \E m \in Modes : SetExecutionMode(m)
  \/ \E p \in Policies : SetHandoffPolicy(p)

LeaseRequest == WriterRequest \/ RulesRequest
=============================================================================
