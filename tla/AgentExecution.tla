--------------------------- MODULE AgentExecution ---------------------------
(***************************************************************************)
(* supervisor/agent_execution.py: starting a read-only plan run or an      *)
(* execution run on a remote agent, over memory/codex_runtime.py and       *)
(* memory/agent_safety.py.                                                 *)
(*                                                                         *)
(* A start call checks the local context, awaits the agent, checks the     *)
(* context again and binds the run; when the context moved meanwhile it    *)
(* latches the safety row, interrupts the run and records what came of     *)
(* that.  Between the second check and the bind no await lies, but another *)
(* process may commit: the code compensates for that case as well.  The    *)
(* agent is Local-Codex-Bridge as integrations/agent_backends.py uses it.  *)
(***************************************************************************)
EXTENDS PlanGate

CONSTANTS
  PlanCalls,      \* calls of start_plan
  ExecCalls,      \* calls of start_execution
  NoCall,
  MayOverlap,     \* may a start be requested while another is unfinished?
  MayBreak,       \* may a start fail otherwise than by a timeout?
  MayLoseStart,   \* may calls be lost (cancellation, crash)?
  MayReconcile,   \* may the user reconcile the safety row?
  MayReconfigure  \* may requests change mode, policy and phase?

Calls == PlanCalls \cup ExecCalls

ASSUME CallsAssumption ==
  /\ PlanCalls \cap ExecCalls = {}
  /\ NoCall \notin Calls
  /\ {MayOverlap, MayBreak, MayLoseStart, MayReconcile, MayReconfigure} \subseteq BOOLEAN

VARIABLES
  runtime,         \* codex_runtime_state: the call whose run it names
  runtimeActive,   \* is its remote_status one _active_runtime knows?
  callPc,          \* where each start call is
  expected,        \* its expected_revision
  leaseEpoch,      \* writer_epoch of the lease it was given
  approvedPlan,    \* the approved plan it read
  runtimeSeen,     \* the runtime identity it read
  handle,          \* what the agent's answer named, if there was one
  run              \* external: the agent's run for this call

runtimeVars == <<runtime, runtimeActive>>
contextVars == <<expected, leaseEpoch, approvedPlan, runtimeSeen>>
agentVars == <<planStatus, runtimeVars, callPc, contextVars, handle, run>>
agentSystemVars == <<rowVars, agentVars>>

CallPcs == {"idle", "awaiting", "returned", "checked", "interrupting", "bound", "stale",
            "uncertain", "broken", "lost"}
InFlight == {"awaiting", "returned", "checked", "interrupting"}
Handles == {"none", "known", "nameless", "unknown"}
RunStates == {"none", "requested", "running", "finished", "stopped", "dropped"}
MayRun(s) == run[s] \in {"requested", "running"}

AgentTypeOK ==
  /\ LeaseTypeOK
  /\ PlanTypeOK
  /\ runtime \in Calls \cup {NoCall}
  /\ runtimeActive \in BOOLEAN
  /\ callPc \in [Calls -> CallPcs]
  /\ expected \in [Calls -> Nat]
  /\ leaseEpoch \in [Calls -> Nat]
  /\ approvedPlan \in [Calls -> Plans \cup {NoPlan}]
  /\ runtimeSeen \in [Calls -> Calls \cup {NoCall}]
  /\ handle \in [Calls -> Handles]
  /\ run \in [Calls -> RunStates]

AgentInit ==
  /\ LeaseInit
  /\ PlanInit
  /\ runtime = NoCall
  /\ runtimeActive = FALSE
  /\ callPc = [s \in Calls |-> "idle"]
  /\ expected = [s \in Calls |-> 0]
  /\ leaseEpoch = [s \in Calls |-> 0]
  /\ approvedPlan = [s \in Calls |-> NoPlan]
  /\ runtimeSeen = [s \in Calls |-> NoCall]
  /\ handle = [s \in Calls |-> "none"]
  /\ run = [s \in Calls |-> "none"]

MoveTo(s, where) == callPc' = [callPc EXCEPT ![s] = where]

-----------------------------------------------------------------------------
(* The start calls *)

\* _assert_safety_clear: the safety row and the workspace binding.
AgentSafetyClear ==
  /\ safety = "NONE"
  /\ wsState # "RECONCILIATION_REQUIRED"

\* The context is read and the request goes out without an await between.
Begin(s, p) ==
  /\ callPc[s] = "idle"
  /\ MayOverlap \/ \A t \in Calls : callPc[t] \notin InFlight
  /\ AgentSafetyClear
  /\ expected' = [expected EXCEPT ![s] = revision]
  /\ leaseEpoch' = [leaseEpoch EXCEPT ![s] = epoch]
  /\ approvedPlan' = [approvedPlan EXCEPT ![s] = p]
  /\ runtimeSeen' = [runtimeSeen EXCEPT ![s] = runtime]
  /\ run' = [run EXCEPT ![s] = "requested"]
  /\ MoveTo(s, "awaiting")
  /\ UNCHANGED <<rowVars, planStatus, runtimeVars, handle>>

\* start_plan: neither the phase nor the writer is looked at.
StartPlan(s) ==
  /\ ~runtimeActive
  /\ Begin(s, NoPlan)

\* start_execution, with a lease token of the current revision and epoch,
\* and the plan id and content of the approved plan.
StartExecution(s) ==
  /\ writer = "CODEX"
  /\ runtime # NoCall
  /\ \E p \in Plans : IsApproved(p) /\ Begin(s, p)

\* _handle: the start was accepted; the answer names thread and turn or, as
\* nothing checks, lacks one of them.
AgentAcknowledges(s) ==
  /\ callPc[s] = "awaiting"
  /\ run[s] \in {"running", "finished"}
  /\ \E h \in {"known", "nameless"} : handle' = [handle EXCEPT ![s] = h]
  /\ MoveTo(s, "returned")
  /\ UNCHANGED <<rowVars, planStatus, runtimeVars, contextVars, run>>

\* _unknown_handle: the request was sent, its fate is not known.
StartTimesOut(s) ==
  /\ callPc[s] = "awaiting"
  /\ handle' = [handle EXCEPT ![s] = "unknown"]
  /\ MoveTo(s, "returned")
  /\ UNCHANGED <<rowVars, planStatus, runtimeVars, contextVars, run>>

\* LocalCodexBridgeUnavailableError is caught by neither layer: the request
\* may have been accepted before the connection broke.
StartBreaks(s) ==
  /\ MayBreak
  /\ callPc[s] = "awaiting"
  /\ MoveTo(s, "broken")
  /\ UNCHANGED <<rowVars, planStatus, runtimeVars, contextVars, handle, run>>

\* _post_call_stale_reasons: the reasons not to bind.
Stale(s) ==
  \/ revision # expected[s]
  \/ safety # "NONE"
  \/ runtime # runtimeSeen[s]
  \/ s \in ExecCalls /\ \/ writer # "CODEX"
                        \/ epoch # leaseEpoch[s]
                        \/ ~IsApproved(approvedPlan[s])
  \/ handle[s] = "unknown"

ContextHolds(s) ==
  /\ callPc[s] = "returned"
  /\ ~Stale(s)
  /\ MoveTo(s, "checked")
  /\ UNCHANGED <<rowVars, planStatus, runtimeVars, contextVars, handle, run>>

\* Identifiers the handle lacks are kept: after a nameless start the row may
\* still name the run before it.
NamedAfter(s) == {s} \cup IF handle[s] = "known" THEN {} ELSE {runtime} \ {NoCall}

FaultyBindAtAnyRevision(s) ==
  /\ callPc[s] = "checked"
  /\ Bump
  /\ phase' = IF s \in PlanCalls THEN "planning" ELSE "implementing"
  /\ runtime' \in NamedAfter(s)
  /\ runtimeActive' \in BOOLEAN
  /\ MoveTo(s, "bound")
  /\ UNCHANGED <<leaseVars, safety, workVars, planStatus, contextVars, handle, run>>

\* bind_codex_runtime: the revision is all it checks.
BindRuntime(s) ==
  /\ callPc[s] = "checked"
  /\ revision = expected[s]
  /\ Bump
  /\ phase' = IF s \in PlanCalls THEN "planning" ELSE "implementing"
  /\ runtime' \in NamedAfter(s)
  /\ runtimeActive' \in BOOLEAN
  /\ MoveTo(s, "bound")
  /\ UNCHANGED <<leaseVars, safety, workVars, planStatus, contextVars, handle, run>>

-----------------------------------------------------------------------------
(* _compensate_remote *)

FaultyInterruptUnlatched(s) ==
  /\ callPc[s] = "returned" /\ Stale(s)
  /\ MoveTo(s, "interrupting")
  /\ UNCHANGED <<rowVars, planStatus, runtimeVars, contextVars, handle, run>>

FaultyStaleBindPropagates(s) ==
  /\ callPc[s] = "returned" /\ Stale(s)
  /\ RecordSafety("COMPENSATION_REQUIRED")
  /\ MoveTo(s, "interrupting")
  /\ UNCHANGED <<planStatus, runtimeVars, contextVars, handle, run>>

\* latch_agent_compensation, before the interrupt is awaited.
LatchCompensation(s) ==
  /\ \/ callPc[s] = "returned" /\ Stale(s)
     \/ callPc[s] = "checked" /\ revision # expected[s]
  /\ RecordSafety("COMPENSATION_REQUIRED")
  /\ MoveTo(s, "interrupting")
  /\ UNCHANGED <<planStatus, runtimeVars, contextVars, handle, run>>

FaultySuccessWithoutHandle(s) ==
  /\ callPc[s] = "interrupting"
  /\ RecordSafety("NONE")
  /\ MoveTo(s, "stale")
  /\ UNCHANGED <<planStatus, runtimeVars, contextVars, handle, run>>

\* record_agent_compensation_succeeded: the agent says the run is over.
CompensationSucceeds(s) ==
  /\ callPc[s] = "interrupting"
  /\ handle[s] = "known"
  /\ run[s] \in {"finished", "stopped"}
  /\ RecordSafety("NONE")
  /\ MoveTo(s, "stale")
  /\ UNCHANGED <<planStatus, runtimeVars, contextVars, handle, run>>

\* record_agent_compensation_required: the interrupt raised, timed out or
\* had no thread and turn to name.
CompensationUncertain(s) ==
  /\ callPc[s] = "interrupting"
  /\ RecordSafety("RECONCILIATION_REQUIRED")
  /\ MoveTo(s, "uncertain")
  /\ UNCHANGED <<planStatus, runtimeVars, contextVars, handle, run>>

LoseStart(s) ==
  /\ MayLoseStart
  /\ callPc[s] \in InFlight
  /\ MoveTo(s, "lost")
  /\ UNCHANGED <<rowVars, planStatus, runtimeVars, contextVars, handle, run>>

-----------------------------------------------------------------------------
(* The agent: a request it was sent starts a run at any later time, or     *)
(* never; a run ends by itself or by the interrupt of its call.            *)

RunBecomes(s, from, to) ==
  /\ run[s] = from
  /\ run' = [run EXCEPT ![s] = to]
  /\ UNCHANGED <<rowVars, planStatus, runtimeVars, callPc, contextVars, handle>>

RunStarts(s) == RunBecomes(s, "requested", "running")
RunNeverStarts(s) == RunBecomes(s, "requested", "dropped")
RunFinishes(s) == RunBecomes(s, "running", "finished")

RunInterrupted(s) ==
  /\ callPc[s] = "interrupting"
  /\ handle[s] = "known"
  /\ RunBecomes(s, "running", "stopped")

AgentStep(s) == RunStarts(s) \/ RunNeverStarts(s) \/ RunFinishes(s) \/ RunInterrupted(s)

-----------------------------------------------------------------------------
StartCall ==
  \/ \E s \in PlanCalls : StartPlan(s)
  \/ \E s \in ExecCalls : StartExecution(s)

\* The rest of a start call: what its process does once it is resumed.
CallStep(s) ==
  \/ AgentAcknowledges(s)
  \/ StartTimesOut(s)
  \/ StartBreaks(s)
  \/ ContextHolds(s)
  \/ BindRuntime(s)
  \/ LatchCompensation(s)
  \/ CompensationSucceeds(s)
  \/ CompensationUncertain(s)

\* New requests, bounded by MaxRevision so that behaviours stay finite.
AgentRequest ==
  /\ revision < MaxRevision
  /\ \/ WriterRequest /\ UNCHANGED agentVars
     \/ MayReconfigure /\ RulesRequest /\ UNCHANGED agentVars
     \/ PlanRequest /\ UNCHANGED <<runtimeVars, callPc, contextVars, handle, run>>
     \/ \E p \in Phases :
          /\ MayReconfigure \/ p = phase
          /\ MemoryWrite(p)
          /\ UNCHANGED agentVars
     \/ MayReconcile /\ ReconcileSafety /\ UNCHANGED agentVars
     \/ StartCall

AgentNext ==
  \/ AgentRequest
  \/ \E s \in Calls : CallStep(s) \/ AgentStep(s) \/ LoseStart(s)

AgentSpec == AgentInit /\ [][AgentNext]_agentSystemVars

\* What the agent has been asked and not settled yet.
AgentOwes(s) ==
  \/ callPc[s] = "awaiting" /\ run[s] = "requested"
  \/ callPc[s] = "interrupting" /\ handle[s] = "known" /\ run[s] = "running"

\* The event loop resumes a call whose await is over, and the agent settles
\* what it is asked.  The code sets no timeout, so none is assumed: a call
\* may time out while the agent owes it an answer and need not.
AgentFairness ==
  \A s \in Calls :
    /\ WF_agentSystemVars(CallStep(s) /\ ~AgentOwes(s))
    /\ WF_agentSystemVars(RunStarts(s) \/ RunNeverStarts(s))
    /\ WF_agentSystemVars(RunInterrupted(s))

FairAgentSpec == AgentSpec /\ AgentFairness

-----------------------------------------------------------------------------
(* Properties *)

\* An execution run becomes the task's runtime only in the context its call
\* read before the await: same lease, same approved plan, same runtime and
\* no fence, although bind_codex_runtime compares nothing but the revision.
BindsInItsContext ==
  [][\A s \in Calls : callPc[s] # "bound" /\ callPc'[s] = "bound" =>
       /\ safety = "NONE"
       /\ runtime = runtimeSeen[s]
       /\ handle[s] # "unknown"
       /\ s \in ExecCalls =>
            writer = "CODEX" /\ epoch = leaseEpoch[s] /\ IsApproved(approvedPlan[s])
    ]_agentSystemVars

\* While the safety row is set the lease and the mode stay put, no run is
\* requested and none is bound, whichever call set it and whichever call
\* was between its check and its bind ("blocks all writes while interrupt
\* is in flight", test_agent_execution_race.py).  This is about the starts of
\* AgentExecutionCoordinator: CodexCoordinator never reads the fence.
FenceStopsWrites ==
  [][safety # "NONE" =>
       /\ UNCHANGED <<mode, writer, epoch, runtime>>
       /\ \A s \in Calls : run[s] = "none" => run'[s] = "none"]_agentSystemVars

\* From the latch on, before the interrupt is even awaited, the task stays
\* fenced unless the run is known to be over or somebody reconciles.
UnboundRunFenced ==
  \A s \in Calls : callPc[s] \in {"interrupting", "uncertain"} => safety # "NONE"

\* A run that may still be working belongs to a call in flight, to the
\* bound runtime's history, or is fenced: none is forgotten.
NoForgottenRun ==
  \A s \in Calls :
    MayRun(s) => callPc[s] \in InFlight \cup {"bound"} \/ safety # "NONE"

\* Every start comes to an end: its run is bound, known to be over, or
\* recorded as uncertain; no call waits on the agent for ever.
EveryStartResolves ==
  \A s \in Calls : callPc[s] = "awaiting" ~> callPc[s] \in {"bound", "stale", "uncertain"}
=============================================================================
