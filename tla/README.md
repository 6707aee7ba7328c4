# Verification of codex-supervisor-bridge

TLA+ models of the bridge's control logic, checked by TLC on small instances
and, for the safety properties, proved with TLAPS for every instance.
Paths below are relative to `src/codex_supervisor_bridge/` of the repository.

## The system

The bridge lets ChatGPT supervise coding tasks.  A *task* is a set of rows in
one SQLite database; ChatGPT and the user act on it through MCP tools; the code
itself is written either by ChatGPT directly, through a DevSpace process that
owns Git worktrees, or by a Codex agent behind a remote control surface.

| component | state | operations | talks to |
|---|---|---|---|
| task store, `memory/store.py` | task row (revision, phase, versions), plans, decisions, constraints, events, evidence | revision-protected transactions | everything writes through `_write` and `_update_task` |
| execution lease, `memory/execution.py` | `task_execution_state` (mode, policy, writer, epoch) | set mode, set policy, acquire, release, hand off | reads the fence, operation and workspace rows |
| agent safety fence, `memory/agent_safety.py` | `task_agent_safety`, one row per task | latch, record outcome, reconcile | written by the agent coordinator, read by lease and direct work |
| workspace rows, `memory/workspace.py` | `task_workspace_state`, `direct_workspace_operations` | bind, refresh, prepare, complete, mark | lease, fence |
| direct coordinator, `supervisor/direct_workspace.py` | none of its own: what its awaiting calls hold | open, apply_patch, refresh, read, show_changes | DevSpace (external), workspace rows |
| plan gate, `memory/store.py` | `task_plans` | create, approve, reject | agent coordinators, hard replan |
| agent coordinator, `supervisor/agent_execution.py` | what its awaiting calls hold; `codex_runtime_state` | start_plan, start_execution, import_plan, compensation | an agent backend (external), fence, lease, plans |
| Codex coordinator, `integrations/codex_coordinator.py` | the same runtime row | start, import, execute, steer, interrupt, answer | Codex Control Plane (external) |
| hard replan, `memory/replans.py`, `supervisor/replans.py` | `hard_replans`, `work_snapshots` | begin, finalize, retry, classify, bind | interrupt, plans |
| checkpoints, `memory/checkpoint_*.py`, `supervisor/checkpoints.py` | `codex_checkpoints`, `checkpoint_reviews` | collect, review | runtime, phase |
| Kandev, `integrations/kandev_coordinator.py` | the task's Kandev id | provision | Kandev (external) |
| migrations, `db/migrations.py`, `db/schema.py` | `schema_meta`, the tables themselves | apply the scripts above the stored version | run by every process that opens the file |
| context pack, resolver, MCP surface | - | read, choose, expose | - |

**What is hard.**  Every external call is an `await`: between reading the rows
and writing the outcome, other MCP requests and other calls run.  The code
guards itself with an optimistic *revision*, a fencing *epoch*, an operation row
(`PREPARED`), a workspace state and a fence row, and each of these is checked in
some places and not in others.  Calls can be cancelled (`CancelledError` passes
every `except Exception`), the process can die, acknowledgements can be lost,
and the external side does not stop when a call does.  `PROJECT.json` lists the
hazards, each at its line.

**What should hold.**  One writer at a time, also across awaits; success is
claimed only for what happened alone and was read back; an unknown outcome
freezes the worktree until somebody reconciles; a remote run is bound only in
the context it was started in, and never forgotten while it may work; whatever
is prepared, latched or started comes to an end; a goal the user has overridden
is not worked on; the supervisor is shown what the agent did in the order it was
seen; a half-done upgrade is finished by the next start.

## Modules

| module | models |
|---|---|
| `ExecutionLease` | the rows of one task and the transactions on lease, fence and task row; no `Next` of its own |
| `DirectWorkspace` | direct edits: calls of `apply_patch`, `open` and `refresh_git_state` step by step, over `ExecutionLease`, with DevSpace |
| `WriterSession` | abstract: a fenced lease with exclusive mutation sessions; `DirectWorkspace` implements it |
| `PlanGate` | plan rows and their approval, over `ExecutionLease` |
| `AgentExecution` | start calls against a remote agent, the post-call check, the bind and the compensation protocol, over `PlanGate` |
| `Bridge` | both writers on one task: `DirectWorkspace` and `AgentExecution` over the same rows and in the same worktrees |
| `CodexControl` | the Codex coordinator: start, import, execute, steer, answer and interrupt with each await a step, over `PlanGate` and the Control Plane; no `Next` of its own |
| `HardReplan` | hard overrides, their interrupts and what follows, beside the calls of `CodexControl` on the same rows |
| `Checkpoints` | collections in flight, classification, deduplication and review, over `ExecutionLease` |
| `ReviewStack` | abstract: decision checkpoints are a stack of pending reviews; `Checkpoints` implements it |
| `Migrations` | the schema scripts, replayed after crashes by several processes |
| `Kandev` | Kandev provisioning by calls that live in the processes of `Migrations` |
| `DirectWorkspaceProofs` | theorems about `DirectWorkspace`: invariants and action properties |
| `DirectWorkspaceRefinement` | the proof that `DirectWorkspace` implements `WriterSession` |
| `AgentExecutionProofs` | theorems about `AgentExecution` |
| `BridgeProofs` | the theorems of both coordinators, beside each other; what keeps their writes apart |
| `HardReplanProofs` | theorems about `HardReplan` with `CodexControl` |
| `CheckpointsProofs`, `KandevProofs` | theorems about `Checkpoints`; about `Migrations` and `Kandev` |
| `MC*` | instances for TLC |

All rows are keyed by `task_id`, so one task is modelled (`Kandev` has several,
because the database file and the external ids are shared).  One action is one
committed `_write` transaction (SQLite `BEGIN IMMEDIATE` under a lock) together
with the synchronous code around it up to the next `await`.  A request with a
stale `expected_revision` or epoch raises and rolls back, so a request that
commits carries the current values; calls that hold a value across an await
carry it as a variable (`openExpected`, `opPrepared`, `opEpoch`, `expected`,
`leaseEpoch`, `approvedPlan`).

*DirectWorkspace.*  `pc[c]` follows a patch call: `Prepare` (transaction),
`Send`, `Observe` (patch acknowledged, Git state read), `Complete`
(transaction, with its stable and unstable branch), `AddEvidence`
(transaction); `Fail` is the `except Exception` branch.  `request[c]` is the
request as DevSpace has it and `tree[w]` counts the patches a worktree has
received; `facts` is the count the binding's Git columns describe.  `Lose` ends a
call at any await without running a handler.  `open` is `OpenBegin`,
`DevSpaceOpens`, `OpenBinds` or `OpenRefused`; DevSpace may hand out any
workspace id, a bound one included.  `base` is a history variable.

*AgentExecution.*  `callPc[s]`: `awaiting` the agent, `returned`, `checked`
(`_post_call_stale_reasons` found nothing), then `bound`; or `interrupting`
(latched, interrupt awaited), then `stale` (the run is over) or `uncertain`.
`run[s]` is the agent's side.  Between the check and the bind there is no
await; the two are separate actions because another process may commit there,
which is the `StaleRevisionError` the code catches.  `handle` says whether the
acknowledgement named thread and turn: an accepted start may name neither, and
its bind then leaves the identifiers of the run before it in the row
(`NamedAfter`).  The runtime row is the call whose run it
names; `runtimeActive` is whether `_active_runtime` knows its status, which the
agent chooses.  The agent is Local-Codex-Bridge: an interrupt without thread and
turn comes back unknown, and one that succeeds has stopped the run.

*Bridge.*  The two coordinators never call each other; they share the rows and
the worktrees.  An execution run has a workspace-write sandbox, so while it works
it changes a worktree whatever the rows say by then (`CodexEdits`; `edits[w]`
counts its changes, `editsAt[c]` is a history variable: how many there were when
operation `c` was prepared).  `SharedRequest` is every request of
`AgentExecution`: lease, mode and policy, plans, memory, starts, and the
reconciliation of the fence.

The fence binds `AgentExecutionCoordinator` and the lease and workspace
transactions only: `CodexCoordinator` never reads it, so `FenceStopsWrites` says
nothing of the calls of `CodexControl`.

*CodexControl.*  A call captures the revision it was asserted at, the intent, the
workflow and the approved plan (`call[c]`) and is `reading` (the plan is
fetched), `asked`, `answered`, or `undoing` (its bind was stale and the
compensating interrupt is awaited).  `soft_steer` may need a status first, for a
missing thread or turn: it is then `reading` too, and goes on or ends.  `Serve` is what the Control Plane does with
a request, `Refuse` that it declines; `Lose` is a lost answer, a failed
compensation, a cancellation or a crash.  A workflow is named by intent and plan
version, because that is what its `client_request_id` is made of: two starts
made at the same versions ask for the same workflow.  `abandoned` is a history
variable: workflows whose call was lost, or that a later start replaced in the
runtime row.

*HardReplan.*  `begin_hard_replan` is `BeginWithRemote` or `BeginAlone`, then
`InterruptRemote` (succeeds or is reported as failed, with or without effect)
and `Finalize` at the revision of the begin; `LoseAttempt` is cancellation or a
crash while the interrupt is awaited.  `RetryInterrupt`, `Classify` and the
three bindings follow.  The bindings have no caller in the product yet, so they
may happen at any moment.

*Checkpoints.*  `collect[c]` holds the revision and workflow a collection
captured, then what it saw; `Normalize` reads the latest checkpoint and
classifies, `Store` is `create_checkpoint` at the captured revision.  There is no
await between the two, but a collection of another process may store a heartbeat
there.  An
observation is abstracted to its status, whether there is work in it, and its
next step, which is what `Classify` and the fingerprint look at; the two
observation paths (`agent_backend`, `coordinator`) classify differently and both
are modelled.  `moment` is a history variable that numbers observations in the
order they were made.

*Migrations and Kandev.*  `process[p]` is where a process stands in its scripts.
Script 5 (execution modes) is taken statement by statement, since it is the one
whose statements depend on the data: table, backfill of the tasks there are,
trigger for those to come.  A crash (`Stop`) comes between any two.  Several
processes, of one build or of two, may open the file at once: `Start` refuses a
newer file and nothing else, as `apply_migrations` does, so an older process may
go on serving while a newer one migrates.  `Kandev` adds the calls: ask, answer,
bind, with lost answers and crashes between.

`Faulty...` operators are deliberate mistakes in the definition below them.
Each shows that a property can fail: `PROJECT.json` "mutants" pairs them.

## Runs

| run | instance | shows |
|---|---|---|
| `direct_safety` | 2 patches, 2 opens, 2 workspaces, one terminal and one other phase, new requests up to revision 6, calls may be lost | the safety properties of the direct protocol, the inductive invariant, the implementation of `WriterSession` |
| `direct_liveness` | 2 patches, 1 open, 1 refresh, up to revision 5, no losses | prepared operations settle |
| `direct_lost_call` | 1 patch, losses | finding: they do not when a call is lost |
| `agent_safety` | 2 plan starts and 1 execution start that overlap, 2 plans, from a task with an approved plan under a CODEX lease (revision 3), requests up to 6, everything allowed but mode, policy and phase requests | runs are bound only in their context; a fence stops writes; one plan is approved |
| `agent_fence` | 1 start of each kind, one at a time, 1 plan, up to revision 5, mode, policy and phase requests included, no breaks, losses or reconciliation | no run is forgotten; a bind holds in its context; starts resolve |
| `agent_overlap` | 2 plan starts at once | finding: one compensation lifts the other's fence |
| `bridge_safety` | 1 call of each kind, 1 change by a Codex run, from a task with an approved plan (revision 3), requests up to 8, calls may be lost | neither side starts on what the other left open |
| `bridge_single_writer` | the same without losses | finding: handoff ignores a working run |
| `control_replan` | 2 coordinator calls, 2 plans, 1 text, 2 replans, 2 awaited at once, from four reachable starts at revision 4, requests up to 6 | what a call captured is current when it commits; no workflow is silently orphaned; the latest override stands alone; an override is settled by its own interrupt and the interrupted workflow is quiet |
| `replan_unconfirmed` | the same without lost answers and cancellations | finding: a write during the interrupt leaves a failed one pending |
| `checkpoints` | 2 collections, 2 workflows, 4 observations, 3 moments, 2 heartbeat buckets, up to revision 4 | order of decision checkpoints, heartbeats that repeat the last of them, the bound workflow, reviews as a stack |
| `bridge_process` | 2 processes of builds 4 and 7 in any mixture, an old and a new task, up to revision 2 | migrations survive crashes; a process serves on its own schema at least; one Kandev task per task |

*Bounds.*  `MaxRevision` bounds **new requests**; what has begun may always
finish.  The longest interesting direct scenario is bind, acquire, prepare,
concurrent write, failure, and a second call that meets the leftovers, which
takes revision 5; two calls suffice because rows interact through "is there
another one" only (the proofs are for any number).  For starts that overlap,
lease, creation and approval of a plan are behind, and three more writes bind one
run, make another stale and latch its compensation; `agent_fence` makes the whole
way from a new task.  In the `Bridge` runs the plan run is bound too; five writes
are a binding, a lease, a start, a handoff and a prepared patch.
They leave the reconciliation of the fence out: it lifts the fence by decision of
the user, after which `StartsAreExclusive` promises nothing.
`control_replan` begins at a fresh task, at a task whose plan is approved under a
CODEX lease, at one whose interrupt failed and at one whose interrupt succeeded,
all reachable: each interesting race (an override or a rebind while a call is
awaited, then a settled interrupt) takes two or three writes from there.  In `checkpoints` three
observations are a slow one overtaken by a fast one, and one more to compare
with; in `bridge_process` two revisions are a goal change while Kandev is asked,
or a mode change before a replay.  The safety runs with interchangeable calls,
workspaces or plans use symmetry; liveness runs do not.
`CHECK_DEADLOCK FALSE`: with requests bounded the system may come to rest
(`bridge_process` never does, its processes may always start and stop).

*Fairness.*  `DirectWorkspace`: a call whose await is over is resumed (the event
loop does that), and DevSpace applies or drops what it was sent.  No timeout is
assumed, because the code sets none: failing while a request is in flight may
happen and need not.  `AgentExecution`: likewise, the agent starts or refuses
what it was sent and carries out an interrupt it can identify.  If the external
side never answers, a call waits for ever; that is an assumption, not a result.

*Findings.*  Each is a run whose property is a sentence of the repository that
TLC refutes; `PROJECT.json` quotes them.
1. A patch call lost between prepare and completion leaves its row `PREPARED`
   and the workspace `ACTIVE`; nothing settles it, and it blocks every lease,
   mode and workspace change.  (The abstract session stays *open*, so safety is
   kept: no later write is admitted.)
2. Overlapping compensations share one fence row, and the success of one lifts
   the fence of the other.
3. A handoff or release does not look at a run that was requested or works, so
   direct patches and an execution run can overlap.
4. `docs/P6-hard-replan.md:27` and `:98-103` say that an interrupt which cannot be
   confirmed fails closed: `INTERRUPT_FAILED`, the task `BLOCKED`.  A write that
   is committed while the interrupt is awaited (a release of the lease is enough)
   makes the settlement stale.  The override stays `INTERRUPT_PENDING` and the
   task `PAUSED`, and only another override gets it out of there: a retry accepts
   failed interrupts only.  A cancellation or a crash at that await ends the same
   way.

*Behaviours the models record without a verdict.*  No property states the
opposite; `PROJECT.json` lists them as hazards.
- A retried interrupt.  `docs/P6-hard-replan.md:103`, `:168` and `:171` speak of
  what a failed interrupt and its retry must hold back.  `retry_interrupt`
  compares neither goal nor plans nor runtime with those of the attempt that
  failed.  Its success marks a replan settled although a plan
  may have been approved since; `AttemptIsCurrent` and `SnapshotIsQuiet`
  therefore promise the full context for first attempts only.
- A start whose connection breaks after the request was sent is neither bound nor
  fenced; `NoForgottenRun` is claimed of starts that answer or time out.
- A process of an older build that still serves may create a task between the
  backfill and the trigger of script 5.  That task never gets a mode row, and
  `get_execution_state` raises for it.  Nothing in the repository keeps builds
  apart or speaks of it.
- `start_plan` replaces a working workflow in the runtime row, and the loser of
  two starts at the same versions interrupts the workflow they share.
- A snapshot seen before is a duplicate whatever happened since, so a gate that
  recurs unchanged is not reported again.

## Proofs

All theorems hold for any sets of calls, plans, workspaces, phases, workflows,
observations, processes and tasks and any bound on requests.  They rest on the
named assumptions of the modules (`PhasesAssumption`, `WorkspaceAssumption`,
`PlansAssumption`, `PlanPhasesAssumption`, `CallsAssumption`,
`ControlAssumption`, `ReplanAssumption`, `CheckpointsAssumption`,
`BinariesAssumption`, `OldTasksAssumption`, `EditsAssumption`), which only say that the constants
are what their comments say.  Where a theorem needs more it says so in its
`ASSUME` or as a hypothesis on the behaviour.

*Direct protocol* (`DirectWorkspaceProofs`, `DirectWorkspaceRefinement`), calls
lost or not:
- `Invariance`: `IInv` is an invariant; from it `TypeCorrect`, `ModeSafety`,
  `PreparedSafety`, `OutstandingSafety` and `SuccessSafety`;
- `FreezeSafety`, `RevisionSafety`, `ReportSafety`: the three action properties
  (`RevisionCoversDecisions` covers phase, lease, fence, binding and prepared or
  completed rows; the mark for reconciliation moves without the revision and is
  not in it);
- `Implementation`: the detailed protocol implements `WriterSession`.

`IInv` is what makes the properties inductive.  `PreparedUnderLease` and
`SuccessIsExclusive` do not carry themselves: one needs that an unsettled row is
the only one and names the bound workspace (else `open` could rebind), that its
worktree holds its patch or nothing new (else what is read back proves nothing),
and that the call's position, its row and its request agree (`CallAgrees`).  One
lemma per action shows that it preserves `IInv`; lease requests go through
`LeaseMoves`, which says which moves of the lease are harmless.  For the action
properties the steps that touch no row are dealt with once (`QuietSteps`).  In
the refinement the session is closed exactly when no row is unsettled
(`ClosedSession`) and only the one unsettled row can have landed
(`LandedByTheOne`), so a patch that reaches the worktree is the session's one
mutation, however late it comes.

*Agent starts* (`AgentExecutionProofs`), any number of overlapping calls:
- `AgentInvariance`: `AInv` is an invariant; from it `AgentTypeCorrect` and
  `PlanSafety`;
- `BindSafety`, `FenceSafety`: `BindsInItsContext` and `FenceStopsWrites`;
- `FencedRuns`: `UnboundRunFenced`, where starts do not overlap and nobody
  reconciles (`Alone`; the run `agent_overlap` shows that the first is needed);
- `NothingForgotten`: `NoForgottenRun`, where besides no start breaks off and
  none is lost.

The code compares nothing but the revision when it binds, so `AInv` says why
that is enough: a call's expected revision is never ahead of the task's, and
while they are equal everything the call read is still so (`ContextKept`).  Each
write by anybody else moves the revision past every expectation
(`WritesPassCalls`).  `FenceInv` adds that one call is in flight and none beside
an uncertain one, so that nobody can lift a fence that is not its own.

*Both writers* (`BridgeProofs`), beside each other on the same rows:
- `BridgeInvariance`: `IInv` and `AInv` hold together; from it
  `DirectInvariantsTogether` (`ModeAdmitsWriter`, `PreparedUnderLease`,
  `OutstandingPatchFenced`, `SuccessIsExclusive`);
- `FreezesTogether`, `RevisionTogether`: a frozen workspace stays frozen, and
  phase, lease, fence, binding and prepared or completed rows are versioned by
  one revision, with an execution coordinator that writes between any two steps
  of the direct one (again without the mark for reconciliation);
- `BindsTogether`, `FencesTogether`: those of the agent starts, the other way;
- `FencedTogether` and `NothingForgottenTogether`: `UnboundRunFenced` and
  `NoForgottenRun`, under the conditions they have alone;
- `StartsExclusive`: `StartsAreExclusive`, where starts do not overlap and nobody
  reconciles the fence;
- for the behaviours in which no step changes the writer while an execution run
  may be working: `ExclusionIfWriterKept` (`NeverBothWriting`),
  `SuccessAloneIfWriterKept` (a success describes the worktree as it is, with no
  change of a Codex run since the operation was prepared) and
  `EditsOutsideSessions` (a Codex run changes a worktree only under CODEX's
  lease, with no operation prepared and no patch on its way).

`SuccessReportsWorktree` and the refinement of `WriterSession` are theorems of the
direct side alone.  Their `tree` counts patches; beside a Codex run they would
not say that the worktree is what the session left, because the run edits it
too, under whatever lease.  What holds of the worktree with both at work is the
last group, and it needs the hypothesis.

Neither coordinator knows the other; what carries the proof is that each step
of one either leaves the other's rows alone or advances the revision.
`DirectView` and `AgentView` say what each sees of a step of the pair: a step of
its own, or one that keeps its rows and writes the rest like a request it
already allows for.  Every property of a part is then lifted without opening the
other part's actions again.  The one write that neither keeps the rows nor moves
the revision, the mark for reconciliation, needs a prepared row, hence CHATGPT
as writer, and then no execution start is current any more (`ExecClear`).

`bridge_single_writer` shows that a handoff under a working run breaks the
documented exclusion, and `ExclusionIfWriterKept` that nothing else does.  The
hypothesis `WriterKept` is the guard that `release_writer` and `handoff_writer`
lack; it is not claimed of the code.  The proof needs all of the rest: a run
starts only where no row is prepared (`CodexAlone`), a patch nobody answers for
leaves its row prepared or the workspace frozen (`OutstandingFenced`), and a
patch is sent only under CHATGPT's lease (`SentBy`).

*Coordinator and overrides* (`HardReplanProofs`): `TypeCorrect`,
`CapturedAlwaysCurrent`, `AttemptAlwaysCurrent`, `OutcomeAlwaysMatches`,
`AlwaysSettlesOwn`, `NeverSilentOrphan`, `SnapshotAlwaysQuiet`,
`LatestAlwaysStands`, one for each property of
`control_replan`, and `OneApprovedBesideReplans`: the plan gate of
`agent_safety` holds here too, where overrides retire and imports draft plans
between its decisions.  Five invariants, each using some before it:
- `Typed`: the types, and that calls name workflows the Control Plane has;
- `Locked`: revisions captured are never ahead, and an unchanged one means an
  unchanged context.  Every step has one of a few shapes (`StepShape`): rows
  unchanged, or the revision moved; a call ends, goes on with what it captured,
  or captures what is current;
- `Holding`: a workflow at work is in the runtime row, abandoned, or held by a
  start that was answered; other calls name the bound workflow or an abandoned
  one.  Hence a stale bind can let go only of what it then interrupts;
- `Settled`: right after an override is settled there is no plan to execute, so
  the interrupted workflow can be woken only by a call that is already stale;
- `Ordered`: a replan's target is at most the task's intent, so a new override
  targets more than any before it, and an open replan more than all others.

*Checkpoints* (`CheckpointsProofs`): `CheckpointTypeCorrect`,
`AlwaysInObservationOrder`, `AlwaysRepeatDecision`, `AlwaysNamesBoundRuntime`.
`Ordered` says that a collection whose captured revision is current will store
an observation later than every decision checkpoint there is, because storing
one of those would have moved the revision.  Heartbeats do not move it, which is
why nothing of the kind holds after a heartbeat, and why a heartbeat is compared
with the last decision checkpoint only: two collections that classify before
either stores do not see each other's heartbeat.  `ReviewIsStack`: `Checkpoints`
implements `ReviewStack`, the log being mapped to the numbers of the decision
checkpoints that wait for a review and of those that have one.  The log only
grows and only its newest waiting entry is decided, so every step raises the
next number, decides the greatest one, or changes neither set (`StackStep`).

*Migrations and Kandev* (`KandevProofs`): `RecordedAlwaysApplied`,
`AlwaysServesOnItsSchema`, `ModeAlwaysSurvives`; `KandevTypeCorrect`,
`AlwaysOneKandevTask`, `AlwaysBoundForPresentGoal`.  `Migrated` ties a process's
place in its scripts to the statements committed, whatever other processes
replay or record beside it.  `OneBuildServesModes` is conditional: while all live
processes are of one build (`OneBuild`, which no code enforces), a build with
execution modes finds the mode row of every task.  `Filled` carries it: between
the backfill and the trigger nobody serves, and once the trigger is there no task
is without its row.  Without `OneBuild` the claim is false.
`Provisioned` says that every Kandev id of a task is the same one and that an
unchanged revision means an unchanged goal.

*Only model-checked:* liveness (`PreparedSettles`, `EveryStartResolves`), which is
outside the prover's reach.  Every other property of a passing run is the
conclusion of a theorem.  `NeverBothWriting` and `FailedInterruptBlocks` are
refuted.

## Not modelled

- Text formats, search, summaries and context packs: no control decision reads
  them.
- Decisions, constraints and evidence rows other than a patch's: each is one
  `MemoryWrite`.
- The capability resolver: a pure choice over a health table that nothing in the
  product acts on yet.
- Argument validation and error mapping of the MCP tools.
- DevSpace's command tools and the command-session rows: no coordinator calls
  them.  `steer` of the agent backends likewise (`observe` is called by
  `CheckpointService.collect` and modelled there); the Control Plane variant of
  the backends, because what the remote side does with an interrupt
  that names no run is not visible in the repository.
- The optional full-text index of the schema.
- More than one task outside `Kandev`: no other row is shared.

What would come next: liveness of overrides and collections under fairness of
the Control Plane, which needs the retry of a pending replan the code does not
have; and the direct and Codex coordinators together with `HardReplan`, whose
rows `Bridge` leaves alone.
