------------------------------ MODULE HardReplan ------------------------------
(***************************************************************************)
(* supervisor/replans.py over memory/replans.py and                        *)
(* memory/replan_bindings.py: a hard override records the new goal and     *)
(* retires the plans in one transaction, awaits the interrupt of the       *)
(* workflow the runtime row named, and settles the replan at the revision  *)
(* its own transaction produced.  The coordinator's calls of CodexControl  *)
(* run beside it on the same rows.                                         *)
(***************************************************************************)
EXTENDS CodexControl, FiniteSets

CONSTANTS
  Replans,     \* replan_ids of a behaviour, each with its own snapshot
  MaxInFlight, \* bound: coordinator calls and interrupts awaited at once
  MaxWorkflows \* bound: no start asks for a new workflow beside so many

ReplanPhases == {"paused", "blocked", "replanning"}

ASSUME ReplanAssumption == ReplanPhases \subseteq Phases

VARIABLES
  replan,    \* hard_replans with what its work_snapshots row captured
  attempt    \* the interrupt of each replan that begin or retry awaits; once
             \* it has settled the replan, its revision is kept as history

replanVars == <<replan, attempt>>
allVars == <<rowVars, controlVars, replanVars>>

OpenStatuses ==
  {"INTERRUPT_PENDING", "SNAPSHOT_READY", "INTERRUPT_FAILED",
   "READY_TO_PLAN", "PLANNING", "PLAN_REVIEW"}
ReplanStatuses == OpenStatuses \cup {"none", "COMPLETED", "SUPERSEDED"}

ReplanTypeOK ==
  /\ LeaseTypeOK
  /\ PlanTypeOK
  /\ ControlTypeOK
  /\ replan \in [Replans -> [status : ReplanStatuses, target : Nat,
                             snapshot : WorkflowIds \cup {NoWorkflow}]]
  /\ attempt \in [Replans -> [pc : {"idle", "asked", "ok", "failed"},
                              rev : Nat, retry : BOOLEAN]]

NoAttempt == [pc |-> "idle", rev |-> 0, retry |-> FALSE]

ReplanInit ==
  /\ replan = [r \in Replans |-> [status |-> "none", target |-> 0,
                                  snapshot |-> NoWorkflow]]
  /\ attempt = [r \in Replans |-> NoAttempt]

SetReplan(r, s) == replan' = [replan EXCEPT ![r].status = s]

\* The plans begin_hard_replan retires.
Current(p) == planStatus[p] \in {"APPROVED", "DRAFT"}

FaultyRetireApprovedOnly ==
  planStatus' = [p \in Plans |-> IF IsApproved(p) THEN "SUPERSEDED" ELSE planStatus[p]]

RetirePlans ==
  planStatus' = [p \in Plans |-> IF Current(p) THEN "SUPERSEDED" ELSE planStatus[p]]

FaultySupersedeForgetsFailed(r, s) ==
  /\ replan[r].status = "none"
  /\ replan' = [q \in Replans |->
       IF q = r THEN [status |-> s, target |-> intent + 1,
                      snapshot |-> runtime]
       ELSE IF replan[q].status \in OpenStatuses \ {"INTERRUPT_FAILED"}
            THEN [replan[q] EXCEPT !.status = "SUPERSEDED"]
       ELSE replan[q]]
  /\ intent' = intent + 1
  /\ RetirePlans
  /\ phase' = "paused"
  /\ UNCHANGED <<leaseVars, safety, workVars, planVersion, planText, runtime, remote, call, abandoned>>

\* begin_hard_replan: every open replan gives way to the new one.
Supersede(r, s) ==
  /\ replan[r].status = "none"
  /\ replan' = [q \in Replans |->
       IF q = r THEN [status |-> s, target |-> intent + 1,
                      snapshot |-> runtime]
       ELSE IF replan[q].status \in OpenStatuses
            THEN [replan[q] EXCEPT !.status = "SUPERSEDED"]
       ELSE replan[q]]
  /\ intent' = intent + 1
  /\ RetirePlans
  /\ phase' = "paused"
  /\ UNCHANGED <<leaseVars, safety, workVars, planVersion, planText, runtime, remote, call, abandoned>>

Await(r, retry) ==
  attempt' = [attempt EXCEPT ![r] = [pc |-> "asked", rev |-> revision + 1, retry |-> retry]]

BeginWithRemote(r) ==
  /\ HasWorkflow
  /\ Supersede(r, "INTERRUPT_PENDING")
  /\ Bump
  /\ Await(r, FALSE)

\* Nothing to interrupt: finalize_interrupt follows without an await, so
\* only a crash comes between the two transactions.
BeginAlone(r) ==
  /\ ~HasWorkflow
  /\ \/ /\ Supersede(r, "SNAPSHOT_READY")
        /\ revision' = revision + 2
     \/ /\ MayFail
        /\ Supersede(r, "INTERRUPT_PENDING")
        /\ Bump
  /\ UNCHANGED attempt

FaultyErrorIsSuccess(r) ==
  /\ attempt[r].pc = "asked"
  /\ StopWorkflow(replan[r].snapshot) \/ UNCHANGED remote
  /\ attempt' = [attempt EXCEPT ![r].pc = "ok"]
  /\ UNCHANGED <<rowVars, taskDocVars, runtime, call, abandoned, replan>>

\* The remote interrupt: done, or reported as failed with or without effect.
InterruptRemote(r) ==
  /\ attempt[r].pc = "asked"
  /\ \/ /\ StopWorkflow(replan[r].snapshot)
        /\ attempt' = [attempt EXCEPT ![r].pc = "ok"]
     \/ /\ StopWorkflow(replan[r].snapshot) \/ UNCHANGED remote
        /\ attempt' = [attempt EXCEPT ![r].pc = "failed"]
  /\ UNCHANGED <<rowVars, taskDocVars, runtime, call, abandoned, replan>>

\* What finalize_interrupt writes.
Settle(r, s, newPhase) ==
  /\ SetReplan(r, s)
  /\ MemoryWrite(newPhase)
  /\ attempt' = [attempt EXCEPT ![r].pc = "idle"]

Forget(r) == attempt' = [attempt EXCEPT ![r] = NoAttempt]

FaultyFinalizeAnyRevision(r) ==
  /\ attempt[r].pc \in {"ok", "failed"}
  /\ \/ /\ replan[r].status = "INTERRUPT_PENDING" /\ attempt[r].pc = "ok"
        /\ Settle(r, "SNAPSHOT_READY", "paused")
     \/ /\ replan[r].status = "INTERRUPT_PENDING" /\ attempt[r].pc = "failed"
        /\ Settle(r, "INTERRUPT_FAILED", "blocked")
     \/ /\ replan[r].status # "INTERRUPT_PENDING"
        /\ Forget(r)
        /\ UNCHANGED <<rowVars, replan>>
  /\ UNCHANGED controlVars

\* finalize_interrupt at the revision of begin or retry: any write since
\* raises StaleRevisionError, and the replan stays INTERRUPT_PENDING.
Finalize(r) ==
  /\ attempt[r].pc \in {"ok", "failed"}
  /\ \/ /\ attempt[r].rev = revision /\ attempt[r].pc = "ok"
        /\ replan[r].status = "INTERRUPT_PENDING"
        /\ Settle(r, "SNAPSHOT_READY", "paused")
     \/ /\ attempt[r].rev = revision /\ attempt[r].pc = "failed"
        /\ replan[r].status = "INTERRUPT_PENDING"
        /\ Settle(r, "INTERRUPT_FAILED", "blocked")
     \/ /\ attempt[r].rev # revision \/ replan[r].status # "INTERRUPT_PENDING"
        /\ Forget(r)
        /\ UNCHANGED <<rowVars, replan>>
  /\ UNCHANGED controlVars

\* The caller is cancelled, or the process stops, while the interrupt is
\* awaited: `except Exception` does not see it.
LoseAttempt(r) ==
  /\ MayFail
  /\ attempt[r].pc # "idle"
  /\ Forget(r)
  /\ UNCHANGED <<rowVars, controlVars, replan>>

\* retry_interrupt asks again for the workflow of the snapshot, whatever the
\* runtime row names now.  Its branch without identifiers is never taken: a
\* replan without them cannot have failed.
RetryInterrupt(r) ==
  /\ replan[r].status = "INTERRUPT_FAILED"
  /\ SetReplan(r, "INTERRUPT_PENDING")
  /\ MemoryWrite("paused")
  /\ Await(r, TRUE)
  /\ UNCHANGED controlVars

\* classify_work_snapshot: the task, then its decision, advance the revision.
Classify(r) ==
  /\ replan[r].status = "SNAPSHOT_READY"
  /\ SetReplan(r, "READY_TO_PLAN")
  /\ phase' = "replanning"
  /\ revision' = revision + 2
  /\ Forget(r)
  /\ UNCHANGED <<leaseVars, safety, workVars, controlVars>>

\* The three bindings below assert no revision and advance none.  Nothing in
\* the product calls them yet; whoever does may do so at any moment.
BindReplanWorkflow(r) ==
  /\ replan[r].status = "READY_TO_PLAN"
  /\ SetReplan(r, "PLANNING")
  /\ UNCHANGED <<rowVars, controlVars, attempt>>

BindReplanPlanReview(r) ==
  /\ replan[r].status \in {"PLANNING", "READY_TO_PLAN"}
  /\ SetReplan(r, "PLAN_REVIEW")
  /\ UNCHANGED <<rowVars, controlVars, attempt>>

CompleteReplanOnExecution(r) ==
  /\ replan[r].status = "PLAN_REVIEW"
  /\ SetReplan(r, "COMPLETED")
  /\ UNCHANGED <<rowVars, controlVars, attempt>>

-----------------------------------------------------------------------------
ReplanRequest ==
  \E r \in Replans : BeginWithRemote(r) \/ BeginAlone(r) \/ RetryInterrupt(r) \/ Classify(r)

ReplanStep ==
  \E r \in Replans :
    \/ InterruptRemote(r) \/ Finalize(r) \/ LoseAttempt(r)
    \/ BindReplanWorkflow(r) \/ BindReplanPlanReview(r) \/ CompleteReplanOnExecution(r)

InFlight ==
  Cardinality({c \in Calls : call[c].pc # "idle"})
    + Cardinality({r \in Replans : attempt[r].pc # "idle"})

WorkflowBound(c) ==
  call'[c].op = "start" =>
    call'[c].wf \in DOMAIN remote \/ Cardinality(DOMAIN remote) < MaxWorkflows

\* The bounds: a request starts only below MaxRevision, MaxInFlight and
\* MaxWorkflows; a call in flight may still end beyond them.
ReplanNext ==
  \/ /\ revision < MaxRevision
     /\ \/ TaskRequest /\ UNCHANGED replanVars
        \/ /\ InFlight < MaxInFlight
           /\ \/ \E c \in Calls : CallRequest(c) /\ WorkflowBound(c) /\ UNCHANGED replanVars
              \/ ReplanRequest
  \/ ControlStep /\ UNCHANGED replanVars
  \/ ReplanStep

ReplanSpec ==
  LeaseInit /\ PlanInit /\ ControlInit /\ ReplanInit /\ [][ReplanNext]_allVars

-----------------------------------------------------------------------------
(* Properties *)

\* While begin waits for the Control Plane, an unchanged revision means that
\* nothing came between: the override is still the open one, its goal is the
\* task's, no plan has come back to be executed, and the runtime row still
\* names the workflow that is being interrupted.  For a retry only the
\* first holds: plans, goal and workflow may have changed since the failure.
AttemptIsCurrent ==
  \A r \in Replans : attempt[r].pc # "idle" /\ attempt[r].rev = revision =>
    /\ replan[r].status = "INTERRUPT_PENDING"
    /\ phase = "paused"
    /\ ~attempt[r].retry =>
         /\ replan[r].target = intent
         /\ \A p \in Plans : ~Current(p)
         /\ runtime = replan[r].snapshot

\* The latest override stands alone: while a replan is open, every other one
\* of the task is older, and no late answer, retry, review or execution of an
\* older goal opens it again or settles it beside the present one.  The code
\* repeats the list of open statuses at begin_hard_replan, active_hard_replan
\* and the unique index of the table.
LatestOverrideStands ==
  \A q, r \in Replans :
    /\ q # r
    /\ replan[q].status # "none"
    /\ replan[r].status \in OpenStatuses
    => replan[q].target < replan[r].target

\* "Codex interrupted": right after a replan has settled so, the interrupted
\* workflow works on only by a request that was on its way before, which is
\* stale and will be compensated, or by one that was lost.  A retry promises
\* less: a plan approved since the failure may be executed at once.
SnapshotIsQuiet ==
  \A r \in Replans :
    LET w == replan[r].snapshot
    IN /\ replan[r].status = "SNAPSHOT_READY"
       /\ attempt[r].rev + 1 = revision
       /\ ~attempt[r].retry
       /\ Active(w)
       => \/ w \in abandoned
          \/ \E c \in Calls : /\ call[c].wf = w
                              /\ call[c].pc \in HoldingStates
                              /\ call[c].rev < revision

\* A replan is settled by the answer to its own present attempt, and by the
\* first one only under its own goal and with no plan left to execute.
SettlesOwnAttempt ==
  [][\A r \in Replans :
       /\ replan[r].status = "INTERRUPT_PENDING"
       /\ replan'[r].status \in {"SNAPSHOT_READY", "INTERRUPT_FAILED"}
       => /\ attempt[r].rev = revision
          /\ attempt[r].retry \/ (/\ replan[r].target = intent
                                  /\ \A p \in Plans : ~Current(p))
    ]_allVars

\* "If the active turn cannot be confirmed interrupted, the task fails closed
\* in BLOCKED" (docs/P6-hard-replan.md:27): a begin or retry whose interrupt
\* failed leaves the replan INTERRUPT_FAILED and the task BLOCKED, unless
\* another override has retired that replan meanwhile.
FailedInterruptBlocks ==
  [][\A r \in Replans :
       /\ replan[r].status = "INTERRUPT_PENDING"
       /\ attempt[r].pc = "failed" /\ attempt'[r].pc = "idle"
       => replan'[r].status = "INTERRUPT_FAILED" /\ phase' = "blocked"]_allVars
=============================================================================
