---------------------------- MODULE CodexControl ----------------------------
(***************************************************************************)
(* integrations/codex_coordinator.py: plan workflows of the Codex Control  *)
(* Plane started, imported, executed, steered, answered and interrupted    *)
(* for one task.  Each operation asserts the caller's revision, awaits the *)
(* Control Plane, and binds the outcome to the runtime row at the revision *)
(* it asserted.  Between the two every other request may commit; a bind    *)
(* that comes too late is compensated by an interrupt of what the call     *)
(* itself has just set going.                                              *)
(***************************************************************************)
EXTENDS PlanGate

CONSTANTS
  Calls,       \* coordinator calls that may be in flight at once
  Texts,       \* normalized plan texts
  NoText,
  NoWorkflow,
  MayFail      \* BOOLEAN: answers are lost, callers are cancelled

\* A workflow is named by what the client_request_id of its start holds:
\* the intent version and the version of the plan it is to produce.
WorkflowIds == Nat \X Nat

ASSUME ControlAssumption ==
  /\ NoWorkflow \notin WorkflowIds
  /\ NoText \notin Texts
  /\ "paused" \in Phases
  /\ MayFail \in BOOLEAN

VARIABLES
  intent,       \* supervised_tasks.intent_version
  planVersion,  \* supervised_tasks.plan_version
  planText,     \* task_plans.content, normalized
  runtime,      \* codex_runtime_state.workflow_id
  remote,       \* the Control Plane's workflows
  call,         \* the coordinator calls in flight
  abandoned     \* history: workflows the Bridge has lost its hold of

taskDocVars == <<intent, planVersion, planStatus, planText>>
controlVars == <<taskDocVars, runtime, remote, call, abandoned>>

WorkflowStates == {"planning", "planned", "executing", "interrupted", "finished"}
Operations == {"start", "import", "execute", "steer", "answer", "interrupt"}
CallStates == {"idle", "reading", "asked", "answered", "undoing"}

\* In these a call is about to change, or has changed, what a workflow does.
HoldingStates == {"asked", "answered", "undoing"}

Idle == [pc |-> "idle", op |-> "none", rev |-> 0, intent |-> 0,
         wf |-> NoWorkflow, plan |-> NoPlan, text |-> NoText]

CallType ==
  [pc : CallStates, op : Operations \cup {"none"}, rev : Nat, intent : Nat,
   wf : WorkflowIds \cup {NoWorkflow}, plan : Plans \cup {NoPlan},
   text : Texts \cup {NoText}]

ControlTypeOK ==
  /\ intent \in Nat
  /\ planVersion \in Nat
  /\ planText \in [Plans -> Texts \cup {NoText}]
  /\ runtime \in WorkflowIds \cup {NoWorkflow}
  /\ DOMAIN remote \subseteq WorkflowIds
  /\ \A w \in DOMAIN remote :
       remote[w] \in [status : WorkflowStates, text : Texts \cup {NoText}]
  /\ call \in [Calls -> CallType]
  /\ abandoned \subseteq WorkflowIds

ControlInit ==
  /\ intent = 1
  /\ planVersion = 0
  /\ planText = [p \in Plans |-> NoText]
  /\ runtime = NoWorkflow
  /\ remote = <<>>
  /\ call = [c \in Calls |-> Idle]
  /\ abandoned = {}

-----------------------------------------------------------------------------
(* Plan rows with their versions and texts *)

DraftPlan(p, t) ==
  /\ CreatePlan(p)
  /\ planVersion' = planVersion + 1
  /\ planText' = [planText EXCEPT ![p] = t]
  /\ UNCHANGED intent

DecidePlan ==
  /\ \E p \in Plans : ApprovePlan(p) \/ RejectPlan(p)
  /\ UNCHANGED <<intent, planVersion, planText>>

FaultyUpdateIntentKeepsRevision ==
  /\ intent' = intent + 1
  /\ UNCHANGED <<rowVars, planVersion, planStatus, planText>>

\* update_intent: the plans are left as they are.
UpdateIntent ==
  /\ intent' = intent + 1
  /\ MemoryWrite(phase)
  /\ UNCHANGED <<planVersion, planStatus, planText>>

-----------------------------------------------------------------------------
(* The coordinator *)

End(c) == call' = [call EXCEPT ![c] = Idle]
Move(c, state) == call' = [call EXCEPT ![c].pc = state]

\* The part before the first await.  A caller whose revision is not the
\* current one is refused there and changes nothing.
Open(c, o, w, p, state) ==
  /\ call[c].pc = "idle"
  /\ call' = [call EXCEPT ![c] =
       [pc |-> state, op |-> o, rev |-> revision, intent |-> intent,
        wf |-> w, plan |-> p, text |-> NoText]]
  /\ UNCHANGED <<rowVars, taskDocVars, runtime, remote, abandoned>>

HasWorkflow == runtime # NoWorkflow

\* start_plan: neither the phase, the writer nor the present workflow is
\* looked at.
StartPlan(c) == Open(c, "start", <<intent, planVersion + 1>>, NoPlan, "asked")

ImportLatestPlan(c) ==
  /\ HasWorkflow
  /\ Open(c, "import", runtime, NoPlan, "reading")

ExecuteApprovedPlan(c) ==
  /\ writer = "CODEX"
  /\ HasWorkflow
  /\ \E p \in Plans : IsApproved(p) /\ Open(c, "execute", runtime, p, "reading")

\* soft_steer asks for the status first when the row lacks thread or turn.
SoftSteer(c) ==
  /\ writer = "CODEX"
  /\ HasWorkflow
  /\ \E state \in {"reading", "asked"} : Open(c, "steer", runtime, NoPlan, state)

Interrupt(c) ==
  /\ HasWorkflow
  /\ Open(c, "interrupt", runtime, NoPlan, "asked")

\* answer_interaction asks for no writer lease.
AnswerInteraction(c) ==
  /\ HasWorkflow
  /\ Open(c, "answer", runtime, NoPlan, "asked")

\* The answer to get_workflow_status: only a valid plan is imported, only
\* one equal to the approved text is executed, and a turn to steer is named
\* or not.
ReadStatus(c) ==
  /\ call[c].pc = "reading"
  /\ LET t == remote[call[c].wf].text
         fits == t # NoText /\ (call[c].op = "execute" => t = planText[call[c].plan])
     IN \/ /\ fits \/ call[c].op = "steer"
           /\ call' = [call EXCEPT
                ![c].pc = IF call[c].op = "import" THEN "answered" ELSE "asked",
                ![c].text = IF call[c].op = "import" THEN t ELSE NoText]
        \/ /\ ~fits \/ call[c].op = "steer"
           /\ End(c)
  /\ UNCHANGED <<rowVars, taskDocVars, runtime, remote, abandoned>>

\* create_plan at the revision asserted before the status was awaited.
ImportPlan(c) ==
  /\ call[c].pc = "answered" /\ call[c].op = "import"
  /\ \/ /\ call[c].rev = revision
        /\ \E p \in Plans : DraftPlan(p, call[c].text)
     \/ /\ call[c].rev # revision
        /\ UNCHANGED <<rowVars, taskDocVars>>
  /\ End(c)
  /\ UNCHANGED <<runtime, remote, abandoned>>

BoundPhase(o) ==
  CASE o = "start" -> "planning"
    [] o = "execute" -> "implementing"
    [] o = "interrupt" -> "paused"
    [] OTHER -> phase

Rebind(c) ==
  /\ runtime' = call[c].wf
  /\ MemoryWrite(BoundPhase(call[c].op))
  /\ abandoned' = IF runtime \in {NoWorkflow, call[c].wf} THEN abandoned
                  ELSE abandoned \cup {runtime}
  /\ End(c)
  /\ UNCHANGED <<taskDocVars, remote>>

FaultyBindAnyRevision(c) ==
  /\ call[c].pc = "answered" /\ call[c].op # "import"
  /\ Rebind(c)

\* _bind_remote_transition: bind_codex_runtime on the revision asserted.  A
\* start gives the row another workflow whatever the present one is doing.
Bind(c) ==
  /\ call[c].pc = "answered" /\ call[c].op # "import"
  /\ call[c].rev = revision
  /\ Rebind(c)

FaultyStaleForgets(c) ==
  /\ call[c].pc = "answered" /\ call[c].op # "import"
  /\ call[c].rev # revision
  /\ End(c)
  /\ UNCHANGED <<rowVars, taskDocVars, runtime, remote, abandoned>>

\* The bind raised StaleRevisionError; an interrupt needs no compensation.
BindStale(c) ==
  /\ call[c].pc = "answered" /\ call[c].op # "import"
  /\ call[c].rev # revision
  /\ IF call[c].op = "interrupt" THEN End(c) ELSE Move(c, "undoing")
  /\ UNCHANGED <<rowVars, taskDocVars, runtime, remote, abandoned>>

-----------------------------------------------------------------------------
(* The Control Plane, as the coordinator relies on it *)

Active(w) == w \in DOMAIN remote /\ remote[w].status \in {"planning", "executing"}

SetWorkflow(w, s, t) ==
  remote' = [v \in DOMAIN remote \cup {w} |->
               IF v = w THEN [status |-> s, text |-> t] ELSE remote[v]]

StopWorkflow(w) ==
  IF Active(w) THEN SetWorkflow(w, "interrupted", remote[w].text) ELSE UNCHANGED remote

\* What a write does; a request already served under the same
\* client_request_id is answered and does nothing.
Serve(c) ==
  LET w == call[c].wf
  IN /\ call[c].pc = "asked"
     /\ \/ /\ call[c].op = "start" /\ w \notin DOMAIN remote
           /\ SetWorkflow(w, "planning", NoText)
        \/ /\ call[c].op = "start" /\ w \in DOMAIN remote
           /\ UNCHANGED remote
        \/ /\ call[c].op = "execute" /\ remote[w].status = "planned"
           /\ SetWorkflow(w, "executing", remote[w].text)
        \/ /\ call[c].op = "execute" /\ remote[w].status \in {"executing", "finished"}
           /\ UNCHANGED remote
        \/ /\ call[c].op = "steer" /\ Active(w)
           /\ UNCHANGED remote
        \/ /\ call[c].op = "answer"
           /\ UNCHANGED remote
        \/ /\ call[c].op = "interrupt"
           /\ StopWorkflow(w)
     /\ Move(c, "answered")
     /\ UNCHANGED <<rowVars, taskDocVars, runtime, abandoned>>

\* A tool or contract error: nothing was done and the caller is told.
Refuse(c) ==
  /\ call[c].pc = "asked"
  /\ End(c)
  /\ UNCHANGED <<rowVars, taskDocVars, runtime, remote, abandoned>>

\* The compensating interrupt of _interrupt_stale_remote succeeds.
Undo(c) ==
  /\ call[c].pc = "undoing"
  /\ StopWorkflow(call[c].wf)
  /\ End(c)
  /\ UNCHANGED <<rowVars, taskDocVars, runtime, abandoned>>

\* A lost answer, a failed compensation, a cancelled caller, a crash: the
\* call is gone and no row says what it had set going.  Only a start and an
\* execution set something going.
Lose(c) ==
  /\ MayFail
  /\ call[c].pc # "idle"
  /\ End(c)
  /\ abandoned' = IF call[c].op \in {"start", "execute"} /\ call[c].pc \in HoldingStates
                  THEN abandoned \cup {call[c].wf}
                  ELSE abandoned
  /\ UNCHANGED <<rowVars, taskDocVars, runtime, remote>>

\* A plan turn ends with a valid plan, a later message redrafts it, an
\* execution ends.
WorkflowStep(w) ==
  /\ \/ /\ remote[w].status \in {"planning", "planned"}
        /\ \E t \in Texts \ {remote[w].text} : SetWorkflow(w, "planned", t)
     \/ /\ remote[w].status = "executing"
        /\ SetWorkflow(w, "finished", remote[w].text)
  /\ UNCHANGED <<rowVars, taskDocVars, runtime, call, abandoned>>

-----------------------------------------------------------------------------
CallRequest(c) ==
  \/ StartPlan(c) \/ ImportLatestPlan(c) \/ ExecuteApprovedPlan(c)
  \/ SoftSteer(c) \/ Interrupt(c) \/ AnswerInteraction(c)

ControlStep ==
  \/ \E c \in Calls : \/ ReadStatus(c) \/ ImportPlan(c) \/ Bind(c) \/ BindStale(c)
                      \/ Serve(c) \/ Refuse(c) \/ Undo(c) \/ Lose(c)
  \/ \E w \in DOMAIN remote : WorkflowStep(w)

\* The requests that make a call in flight stale without awaiting anything.
TaskRequest ==
  /\ \/ WriterRequest /\ UNCHANGED taskDocVars
     \/ MemoryWrite(phase) /\ UNCHANGED taskDocVars
     \/ UpdateIntent
     \/ \E p \in Plans, t \in Texts : DraftPlan(p, t)
     \/ DecidePlan
  /\ UNCHANGED <<runtime, remote, call, abandoned>>

-----------------------------------------------------------------------------
(* Properties *)

\* The revision is a sound lock for everything a call captured before it
\* awaited: as long as the revision is the asserted one, the intent, the
\* approved plan, the writer and the workflow are those it saw, so what
\* bind_codex_runtime commits was decided on the present task.
CapturedIsCurrent ==
  \A c \in Calls : call[c].pc # "idle" /\ call[c].rev = revision =>
    /\ call[c].intent = intent
    /\ call[c].op = "execute" => writer = "CODEX" /\ IsApproved(call[c].plan)
    /\ call[c].op = "steer" => writer = "CODEX"
    /\ call[c].op # "start" => call[c].wf = runtime

Held(w) ==
  \/ runtime = w
  \/ \E c \in Calls : /\ call[c].op = "start"
                      /\ call[c].wf = w
                      /\ call[c].pc \in HoldingStates

\* No workflow keeps working that neither the runtime row nor a start in
\* flight names, unless the call that set it going was lost or a later start
\* took its place in the row: a stale bind alone never lets go of it
\* (docs/P4-codex-live-control.md, "Revision-race compensation").
NoSilentOrphan ==
  \A w \in DOMAIN remote : Active(w) => Held(w) \/ w \in abandoned

\* The execution bound to the task is one its present plan and writer allow,
\* and a plan is imported only into the intent it was read under.
OutcomeMatchesTask ==
  [][\A c \in Calls :
       call[c].pc = "answered" /\ call'[c].pc = "idle" /\ revision' # revision =>
         /\ call[c].intent = intent
         /\ call[c].op = "execute" =>
              /\ phase' = "implementing"
              /\ writer = "CODEX" /\ IsApproved(call[c].plan)
              /\ runtime' = runtime
    ]_<<rowVars, controlVars>>
=============================================================================
