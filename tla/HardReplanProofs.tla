-------------------------- MODULE HardReplanProofs --------------------------
(***************************************************************************)
(* Proofs about HardReplan and the CodexControl calls beside it, for any   *)
(* number of calls, plans, texts and replans.                              *)
(*                                                                         *)
(* The revision never goes back, and every write moves it past what the    *)
(* calls and attempts in flight have captured; a step that leaves it alone *)
(* leaves the rows they looked at alone.  Two more parts of the inductive  *)
(* invariant follow the workflows: who holds one that is at work, and what *)
(* an interrupted one may still be waiting for.                            *)
(***************************************************************************)
EXTENDS HardReplan, TLAPS

\* A call knows a workflow the Control Plane has, except a start that is
\* still to create its own.
Known ==
  /\ runtime # NoWorkflow => runtime \in DOMAIN remote
  /\ \A c \in Calls : call[c].pc # "idle" =>
       /\ call[c].wf \in WorkflowIds
       /\ call[c].op = "start" => call[c].pc # "reading"
       /\ call[c].op = "execute" => call[c].plan \in Plans
       /\ call[c].op # "start" \/ call[c].pc \in {"answered", "undoing"} =>
            call[c].wf \in DOMAIN remote

Typed == ReplanTypeOK /\ Known

-----------------------------------------------------------------------------
(* Types *)

LEMMA InitTyped ==
  ASSUME LeaseInit, PlanInit, ControlInit, ReplanInit
  PROVE  Typed
  <1>1. LeaseTypeOK /\ PlanTypeOK
    BY PhasesAssumption
    DEF LeaseInit, LeaseTypeOK, Modes, Policies, Writers, SafetyStates, WorkspaceStates, OpStates,
        NoRevision, PlanInit, PlanTypeOK, PlanStates
  <1>2. ControlTypeOK /\ Known
    <2>1. Idle \in CallType
      BY DEF Idle, CallType, CallStates
    <2>2. DOMAIN remote = {}
      BY DEF ControlInit
    <2>3. QED
      BY <2>1, <2>2 DEF ControlInit, ControlTypeOK, Known, Idle
  <1>3. QED
    BY <1>1, <1>2
    DEF Typed, ReplanTypeOK, ReplanInit, ReplanStatuses, OpenStatuses, NoAttempt

LEMMA WriterTypes ==
  ASSUME LeaseTypeOK, WriterRequest
  PROVE  LeaseTypeOK' /\ revision' = revision + 1
  BY DEF WriterRequest, AcquireWriter, ReleaseWriter, HandoffWriter, Grant, LeaseTypeOK, Bump,
         Writers, NoRevision, workVars

LEMMA MemoryTypes ==
  ASSUME LeaseTypeOK, NEW p \in Phases, MemoryWrite(p)
  PROVE  LeaseTypeOK' /\ revision' = revision + 1
  BY DEF MemoryWrite, Bump, LeaseTypeOK, leaseVars, workVars

LEMMA PlanTypes ==
  ASSUME LeaseTypeOK, PlanTypeOK, PlanRequest
  PROVE  LeaseTypeOK' /\ PlanTypeOK' /\ revision' = revision + 1
  <1>1. PlanPhases \subseteq Phases
    BY PlanPhasesAssumption
  <1>2. PICK p \in Plans : CreatePlan(p) \/ ApprovePlan(p) \/ RejectPlan(p)
    BY DEF PlanRequest
  <1>3. CASE CreatePlan(p)
    BY <1>1, <1>3
    DEF CreatePlan, PlanWrite, PlanPhases, PlanStates, Bump, LeaseTypeOK, PlanTypeOK, leaseVars, workVars
  <1>4. CASE ApprovePlan(p)
    BY <1>1, <1>4
    DEF ApprovePlan, PlanWrite, PlanPhases, PlanStates, Bump, LeaseTypeOK, PlanTypeOK, leaseVars, workVars
  <1>5. CASE RejectPlan(p)
    BY <1>1, <1>5
    DEF RejectPlan, PlanWrite, PlanPhases, PlanStates, Bump, LeaseTypeOK, PlanTypeOK, leaseVars, workVars
  <1>6. QED
    BY <1>2, <1>3, <1>4, <1>5

\* A request that awaits nothing advances the revision and leaves the calls,
\* the runtime row and the Control Plane alone.
LEMMA TaskRequestEffect ==
  ASSUME Typed, TaskRequest
  PROVE  /\ revision' = revision + 1
         /\ LeaseTypeOK' /\ PlanTypeOK' /\ ControlTypeOK'
         /\ UNCHANGED <<runtime, remote, call, abandoned>>
  <1>1. UNCHANGED <<runtime, remote, call, abandoned>>
    BY DEF TaskRequest
  <1>2. SUFFICES /\ revision' = revision + 1
                 /\ LeaseTypeOK' /\ PlanTypeOK'
                 /\ intent' \in Nat /\ planVersion' \in Nat
                 /\ planText' \in [Plans -> Texts \cup {NoText}]
    BY <1>1 DEF Typed, ReplanTypeOK, ControlTypeOK
  <1>3. LeaseTypeOK /\ PlanTypeOK /\ ControlTypeOK /\ phase \in Phases
    BY DEF Typed, ReplanTypeOK, LeaseTypeOK
  <1>4. CASE WriterRequest /\ UNCHANGED taskDocVars
    BY <1>3, <1>4, WriterTypes DEF taskDocVars, PlanTypeOK, ControlTypeOK
  <1>5. CASE MemoryWrite(phase) /\ UNCHANGED taskDocVars
    BY <1>3, <1>5, MemoryTypes DEF taskDocVars, PlanTypeOK, ControlTypeOK
  <1>6. CASE UpdateIntent
    BY <1>3, <1>6, MemoryTypes DEF UpdateIntent, PlanTypeOK, ControlTypeOK
  <1>7. CASE \E p \in Plans, t \in Texts : DraftPlan(p, t)
    <2>1. PICK p \in Plans, t \in Texts : DraftPlan(p, t)
      BY <1>7
    <2>2. PlanRequest
      BY <2>1 DEF DraftPlan, PlanRequest
    <2>3. QED
      BY <1>3, <2>1, <2>2, PlanTypes DEF DraftPlan, ControlTypeOK
  <1>8. CASE DecidePlan
    <2>1. PlanRequest
      BY <1>8 DEF DecidePlan, PlanRequest
    <2>2. QED
      BY <1>3, <1>8, <2>1, PlanTypes DEF DecidePlan, ControlTypeOK
  <1>9. QED
    BY <1>4, <1>5, <1>6, <1>7, <1>8 DEF TaskRequest

\* What a call has captured when it begins.
Begins(c, o, w, p, s) ==
  /\ Open(c, o, w, p, s)
  /\ o = "start" => s = "asked"
  /\ o # "start" => w = runtime /\ w \in DOMAIN remote
  /\ o = "execute" => writer = "CODEX" /\ p \in Plans /\ IsApproved(p)
  /\ o = "steer" => writer = "CODEX"

LEMMA CallRequestBegins ==
  ASSUME Typed, NEW c \in Calls, CallRequest(c)
  PROVE  \E o \in Operations, w \in WorkflowIds, p \in Plans \cup {NoPlan}, s \in {"reading", "asked"} :
           Begins(c, o, w, p, s)
  <1>1. /\ intent \in Nat /\ planVersion \in Nat
        /\ HasWorkflow => runtime \in DOMAIN remote /\ runtime \in WorkflowIds
    BY DEF Typed, ReplanTypeOK, ControlTypeOK, Known, HasWorkflow
  <1>2. CASE StartPlan(c)
    <2>1. <<intent, planVersion + 1>> \in WorkflowIds
      BY <1>1 DEF WorkflowIds
    <2>2. Begins(c, "start", <<intent, planVersion + 1>>, NoPlan, "asked")
      BY <1>2 DEF StartPlan, Begins
    <2>3. QED
      BY <2>1, <2>2 DEF Operations
  <1>3. CASE ImportLatestPlan(c)
    <2>1. Begins(c, "import", runtime, NoPlan, "reading")
      BY <1>1, <1>3 DEF ImportLatestPlan, Begins
    <2>2. QED
      BY <1>1, <1>3, <2>1 DEF Operations, ImportLatestPlan
  <1>4. CASE ExecuteApprovedPlan(c)
    <2>1. PICK p \in Plans : IsApproved(p) /\ Open(c, "execute", runtime, p, "reading")
      BY <1>4 DEF ExecuteApprovedPlan
    <2>2. Begins(c, "execute", runtime, p, "reading")
      BY <1>1, <1>4, <2>1 DEF ExecuteApprovedPlan, Begins
    <2>3. QED
      BY <1>1, <1>4, <2>2 DEF Operations, ExecuteApprovedPlan
  <1>5. CASE SoftSteer(c)
    <2>1. PICK s \in {"reading", "asked"} : Open(c, "steer", runtime, NoPlan, s)
      BY <1>5 DEF SoftSteer
    <2>2. Begins(c, "steer", runtime, NoPlan, s)
      BY <1>1, <1>5, <2>1 DEF SoftSteer, Begins
    <2>3. QED
      BY <1>1, <1>5, <2>2 DEF Operations, SoftSteer
  <1>6. CASE Interrupt(c)
    <2>1. Begins(c, "interrupt", runtime, NoPlan, "asked")
      BY <1>1, <1>6 DEF Interrupt, Begins
    <2>2. QED
      BY <1>1, <1>6, <2>1 DEF Operations, Interrupt
  <1>7. CASE AnswerInteraction(c)
    <2>1. Begins(c, "answer", runtime, NoPlan, "asked")
      BY <1>1, <1>7 DEF AnswerInteraction, Begins
    <2>2. QED
      BY <1>1, <1>7, <2>1 DEF Operations, AnswerInteraction
  <1>8. QED
    BY <1>2, <1>3, <1>4, <1>5, <1>6, <1>7 DEF CallRequest

LEMMA BeginsTyped ==
  ASSUME Typed, NEW c \in Calls, NEW o \in Operations, NEW w \in WorkflowIds,
         NEW p \in Plans \cup {NoPlan}, NEW s \in {"reading", "asked"},
         Begins(c, o, w, p, s), UNCHANGED replanVars
  PROVE  Typed'
  <1>1. /\ UNCHANGED <<rowVars, taskDocVars, runtime, remote, abandoned>>
        /\ call' = [call EXCEPT ![c] = [pc |-> s, op |-> o, rev |-> revision, intent |-> intent,
                                        wf |-> w, plan |-> p, text |-> NoText]]
    BY DEF Begins, Open
  <1>2. call' \in [Calls -> CallType]
    <2>1. call \in [Calls -> CallType] /\ revision \in Nat /\ intent \in Nat
      BY DEF Typed, ReplanTypeOK, ControlTypeOK, LeaseTypeOK
    <2>2. [pc |-> s, op |-> o, rev |-> revision, intent |-> intent,
           wf |-> w, plan |-> p, text |-> NoText] \in CallType
      BY <2>1 DEF CallType, CallStates
    <2>3. QED
      BY <1>1, <2>1, <2>2
  <1>3. ReplanTypeOK'
    BY <1>1, <1>2
    DEF Typed, ReplanTypeOK, ControlTypeOK, LeaseTypeOK, PlanTypeOK, rowVars, taskVars, leaseVars,
        workVars, taskDocVars, replanVars
  <1>4. Known'
    BY <1>1 DEF Typed, ReplanTypeOK, ControlTypeOK, Known, Begins
  <1>5. QED
    BY <1>3, <1>4 DEF Typed

RemoteTyped ==
  /\ DOMAIN remote \subseteq WorkflowIds
  /\ \A w \in DOMAIN remote :
       remote[w] \in [status : WorkflowStates, text : Texts \cup {NoText}]

LEMMA SetWorkflowTyped ==
  ASSUME RemoteTyped, NEW w \in WorkflowIds, NEW s \in WorkflowStates,
         NEW t \in Texts \cup {NoText}, SetWorkflow(w, s, t)
  PROVE  RemoteTyped' /\ DOMAIN remote' = DOMAIN remote \cup {w}
  <1>1. DOMAIN remote' = DOMAIN remote \cup {w}
    BY DEF SetWorkflow
  <1>2. \A v \in DOMAIN remote' :
          remote'[v] = IF v = w THEN [status |-> s, text |-> t] ELSE remote[v]
    BY DEF SetWorkflow
  <1>3. QED
    BY <1>1, <1>2 DEF RemoteTyped

LEMMA StopWorkflowTyped ==
  ASSUME RemoteTyped, NEW w, StopWorkflow(w)
  PROVE  RemoteTyped' /\ DOMAIN remote' = DOMAIN remote
  <1>1. CASE Active(w)
    <2>1. /\ w \in DOMAIN remote /\ w \in WorkflowIds
          /\ "interrupted" \in WorkflowStates
          /\ remote[w].text \in Texts \cup {NoText}
      BY <1>1 DEF Active, RemoteTyped, WorkflowStates
    <2>2. SetWorkflow(w, "interrupted", remote[w].text)
      BY <1>1 DEF StopWorkflow
    <2>3. QED
      BY <2>1, <2>2, SetWorkflowTyped
  <1>2. CASE ~Active(w)
    BY <1>2 DEF StopWorkflow, RemoteTyped
  <1>3. QED
    BY <1>1, <1>2

\* What the Control Plane does to its workflows when it serves a call.
LEMMA ServeTyped ==
  ASSUME Typed, NEW c \in Calls, Serve(c)
  PROVE  RemoteTyped' /\ DOMAIN remote' = DOMAIN remote \cup {call[c].wf}
  <1>1. RemoteTyped /\ call[c] \in CallType
    BY DEF Typed, ReplanTypeOK, ControlTypeOK, RemoteTyped
  <1>2. call[c].wf \in WorkflowIds /\ (call[c].op # "start" => call[c].wf \in DOMAIN remote)
    BY DEF Typed, Known, Serve
  <1>3. {"planning", "executing"} \subseteq WorkflowStates
    BY DEF WorkflowStates
  <1>4. CASE SetWorkflow(call[c].wf, "planning", NoText)
    BY <1>1, <1>2, <1>3, <1>4, SetWorkflowTyped
  <1>5. CASE call[c].op = "execute" /\ SetWorkflow(call[c].wf, "executing", remote[call[c].wf].text)
    <2>1. remote[call[c].wf].text \in Texts \cup {NoText}
      BY <1>1, <1>2, <1>5 DEF RemoteTyped
    <2>2. QED
      BY <1>1, <1>2, <1>3, <1>5, <2>1, SetWorkflowTyped
  <1>6. CASE call[c].wf \in DOMAIN remote /\ UNCHANGED remote
    BY <1>1, <1>6 DEF RemoteTyped
  <1>7. CASE call[c].op = "interrupt" /\ StopWorkflow(call[c].wf)
    BY <1>1, <1>2, <1>7, StopWorkflowTyped
  <1>8. QED
    BY <1>2, <1>4, <1>5, <1>6, <1>7 DEF Serve

LEMMA WorkflowStepTyped ==
  ASSUME RemoteTyped, NEW w \in DOMAIN remote, WorkflowStep(w)
  PROVE  RemoteTyped' /\ DOMAIN remote' = DOMAIN remote
  <1>1. /\ w \in WorkflowIds /\ remote[w].text \in Texts \cup {NoText}
        /\ {"planned", "finished"} \subseteq WorkflowStates
    BY DEF RemoteTyped, WorkflowStates
  <1>2. \E s \in {"planned", "finished"}, t \in Texts \cup {NoText} : SetWorkflow(w, s, t)
    BY <1>1 DEF WorkflowStep
  <1>3. QED
    BY <1>1, <1>2, SetWorkflowTyped

\* The call of a step and the calls beside it.
LEMMA EndTyped ==
  ASSUME Typed, NEW c \in Calls, End(c)
  PROVE  /\ call' \in [Calls -> CallType]
         /\ call'[c].pc = "idle"
         /\ \A d \in Calls \ {c} : call'[d] = call[d]
  <1>1. Idle \in CallType /\ Idle.pc = "idle"
    BY DEF Idle, CallType, CallStates
  <1>2. call \in [Calls -> CallType]
    BY DEF Typed, ReplanTypeOK, ControlTypeOK
  <1>3. QED
    BY <1>1, <1>2 DEF End

SameCapture(c) ==
  /\ call'[c].op = call[c].op
  /\ call'[c].rev = call[c].rev
  /\ call'[c].intent = call[c].intent
  /\ call'[c].wf = call[c].wf
  /\ call'[c].plan = call[c].plan

LEMMA MoveTyped ==
  ASSUME Typed, NEW c \in Calls, NEW s \in CallStates, Move(c, s)
  PROVE  /\ call' \in [Calls -> CallType]
         /\ call'[c].pc = s
         /\ SameCapture(c)
         /\ \A d \in Calls \ {c} : call'[d] = call[d]
  <1>1. call \in [Calls -> CallType]
    BY DEF Typed, ReplanTypeOK, ControlTypeOK
  <1>2. call' = [call EXCEPT ![c].pc = s]
    BY DEF Move
  <1>3. call' \in [Calls -> CallType]
    BY <1>1, <1>2 DEF CallType
  <1>4. call'[c].pc = s /\ SameCapture(c)
    BY <1>1, <1>2, Zenon DEF CallType, SameCapture
  <1>5. \A d \in Calls \ {c} : call'[d] = call[d]
    BY <1>1, <1>2, Zenon
  <1>6. QED
    BY <1>3, <1>4, <1>5

\* ReadStatus takes over a text, and otherwise moves or ends its call.
LEMMA ReadStatusTyped ==
  ASSUME Typed, NEW c \in Calls, ReadStatus(c)
  PROVE  /\ call' \in [Calls -> CallType]
         /\ call'[c].pc = "idle" \/ (call'[c].pc \in {"asked", "answered"} /\ SameCapture(c))
         /\ \A d \in Calls \ {c} : call'[d] = call[d]
  <1>1. /\ call \in [Calls -> CallType] /\ RemoteTyped
        /\ call[c].wf \in DOMAIN remote
    BY DEF Typed, ReplanTypeOK, ControlTypeOK, RemoteTyped, Known, ReadStatus
  <1>2. remote[call[c].wf].text \in Texts \cup {NoText}
    BY <1>1 DEF RemoteTyped
  <1>3. CASE End(c)
    BY <1>3, EndTyped
  <1>4. CASE call' = [call EXCEPT
               ![c].pc = IF call[c].op = "import" THEN "answered" ELSE "asked",
               ![c].text = IF call[c].op = "import" THEN remote[call[c].wf].text ELSE NoText]
    <2> DEFINE newPc == IF call[c].op = "import" THEN "answered" ELSE "asked"
               newText == IF call[c].op = "import" THEN remote[call[c].wf].text ELSE NoText
    <2>1. newPc \in {"asked", "answered"} /\ newPc \in CallStates
      BY DEF CallStates
    <2>2. newText \in Texts \cup {NoText}
      BY <1>2
    <2>3. call' = [call EXCEPT ![c].pc = newPc, ![c].text = newText]
      BY <1>4
    <2> HIDE DEF newPc, newText
    <2>4. call' \in [Calls -> CallType]
      <3>1. call[c] \in CallType
        BY <1>1
      <3>2. [call[c] EXCEPT !.pc = newPc] \in CallType
        BY <2>1, <3>1 DEF CallType
      <3>3. [[call[c] EXCEPT !.pc = newPc] EXCEPT !.text = newText] \in CallType
        BY <2>2, <3>2 DEF CallType
      <3>4. QED
        BY <1>1, <2>3, <3>3, Zenon
    <2>5. call'[c].pc = newPc /\ SameCapture(c)
      BY <1>1, <2>3, Zenon DEF CallType, SameCapture
    <2>6. \A d \in Calls \ {c} : call'[d] = call[d]
      BY <1>1, <2>3, Zenon
    <2>7. QED
      BY <2>1, <2>4, <2>5, <2>6
  <1>5. QED
    BY <1>3, <1>4 DEF ReadStatus

\* The rows of the task that ReplanTypeOK types.
RowsTyped ==
  /\ LeaseTypeOK
  /\ PlanTypeOK
  /\ intent \in Nat
  /\ planVersion \in Nat
  /\ planText \in [Plans -> Texts \cup {NoText}]

LEMMA RowsTypedIsTyped ==
  /\ ReplanTypeOK => RowsTyped /\ RemoteTyped
  /\ UNCHANGED <<rowVars, taskDocVars>> /\ RowsTyped => RowsTyped'
  /\ UNCHANGED <<rowVars, taskDocVars>> /\ ReplanTypeOK => RowsTyped'
  BY DEF ReplanTypeOK, ControlTypeOK, RowsTyped, RemoteTyped, LeaseTypeOK, PlanTypeOK, rowVars,
         taskVars, leaseVars, workVars, taskDocVars

\* One step of a call: what has to be shown of it.
LEMMA CallStepTyped ==
  ASSUME Typed, NEW c \in Calls, UNCHANGED replanVars,
         RowsTyped',
         RemoteTyped', DOMAIN remote \subseteq DOMAIN remote',
         runtime' \in {runtime, call[c].wf},
         runtime' # runtime => call[c].pc = "answered",
         abandoned' \subseteq WorkflowIds,
         call' \in [Calls -> CallType],
         \/ call'[c].pc = "idle"
         \/ /\ SameCapture(c)
            /\ call[c].pc # "idle"
            /\ call'[c].pc # "reading"
            /\ call'[c].pc \in {"answered", "undoing"} => call[c].wf \in DOMAIN remote',
         \A d \in Calls \ {c} : call'[d] = call[d]
  PROVE  Typed'
  <1>1. runtime' \in WorkflowIds \cup {NoWorkflow}
    BY DEF Typed, ReplanTypeOK, ControlTypeOK, CallType
  <1>2. ReplanTypeOK'
    BY <1>1 DEF Typed, ReplanTypeOK, RowsTyped, RemoteTyped, ControlTypeOK, replanVars
  <1>3. Known'
    BY <1>1 DEF Typed, Known, SameCapture
  <1>4. QED
    BY <1>2, <1>3 DEF Typed

LEMMA ControlStepTyped ==
  ASSUME Typed, ControlStep, UNCHANGED replanVars
  PROVE  Typed'
  <1>1. /\ RowsTyped /\ RemoteTyped
        /\ UNCHANGED <<rowVars, taskDocVars>> => RowsTyped'
        /\ UNCHANGED remote => RemoteTyped'
        /\ abandoned \subseteq WorkflowIds
        /\ phase \in Phases
    BY RowsTypedIsTyped
    DEF Typed, ReplanTypeOK, ControlTypeOK, RemoteTyped, LeaseTypeOK
  <1>2. ASSUME NEW c \in Calls, ReadStatus(c) PROVE Typed'
    <2>1. UNCHANGED <<rowVars, taskDocVars, runtime, remote, abandoned>> /\ call[c].pc = "reading"
      BY <1>2 DEF ReadStatus
    <2>2. call[c].wf \in DOMAIN remote
      BY <2>1 DEF Typed, Known
    <2>3. QED
      BY <1>1, <1>2, <2>1, <2>2, ReadStatusTyped, CallStepTyped
  <1>3. ASSUME NEW c \in Calls, ImportPlan(c) PROVE Typed'
    <2>1. UNCHANGED <<runtime, remote, abandoned>> /\ End(c)
      BY <1>3 DEF ImportPlan
    <2>2. RowsTyped'
      <3>1. CASE UNCHANGED <<rowVars, taskDocVars>>
        BY <1>1, <3>1
      <3>2. CASE \E p \in Plans : DraftPlan(p, call[c].text)
        <4>1. PICK p \in Plans : DraftPlan(p, call[c].text)
          BY <3>2
        <4>2. PlanRequest
          BY <4>1 DEF DraftPlan, PlanRequest
        <4>3. call[c].text \in Texts \cup {NoText}
          BY DEF Typed, ReplanTypeOK, ControlTypeOK, CallType
        <4>4. QED
          BY <1>1, <4>1, <4>2, <4>3, PlanTypes DEF DraftPlan, RowsTyped
      <3>3. QED
        BY <1>3, <3>1, <3>2 DEF ImportPlan
    <2>3. QED
      BY <1>1, <2>1, <2>2, EndTyped, CallStepTyped
  <1>4. ASSUME NEW c \in Calls, Bind(c) PROVE Typed'
    <2>1. /\ call[c].pc = "answered" /\ End(c)
          /\ UNCHANGED <<taskDocVars, remote>>
          /\ MemoryWrite(BoundPhase(call[c].op))
          /\ runtime' = call[c].wf
          /\ abandoned' \in {abandoned, abandoned \cup {runtime}}
          /\ runtime = NoWorkflow => abandoned' = abandoned
      BY <1>4 DEF Bind, Rebind
    <2>2. BoundPhase(call[c].op) \in Phases
      BY <1>1, PlanPhasesAssumption, ControlAssumption DEF BoundPhase, PlanPhases
    <2>3. LeaseTypeOK'
      BY <1>1, <2>1, <2>2, MemoryTypes DEF RowsTyped
    <2>4. RowsTyped'
      BY <1>1, <2>1, <2>3 DEF RowsTyped, taskDocVars, PlanTypeOK
    <2>5. abandoned' \subseteq WorkflowIds
      BY <1>1, <2>1 DEF Typed, ReplanTypeOK, ControlTypeOK
    <2>6. QED
      BY <1>1, <2>1, <2>4, <2>5, EndTyped, CallStepTyped
  <1>5. ASSUME NEW c \in Calls, BindStale(c) PROVE Typed'
    <2>1. /\ UNCHANGED <<rowVars, taskDocVars, runtime, remote, abandoned>>
          /\ call[c].pc = "answered"
          /\ End(c) \/ Move(c, "undoing")
      BY <1>5 DEF BindStale
    <2>2. call[c].wf \in DOMAIN remote /\ "undoing" \in CallStates
      BY <2>1 DEF Typed, Known, CallStates
    <2>3. QED
      BY <1>1, <2>1, <2>2, EndTyped, MoveTyped, CallStepTyped
  <1>6. ASSUME NEW c \in Calls, Serve(c) PROVE Typed'
    <2>1. /\ UNCHANGED <<rowVars, taskDocVars, runtime, abandoned>>
          /\ call[c].pc = "asked"
          /\ Move(c, "answered")
          /\ "answered" \in CallStates
      BY <1>6 DEF Serve, CallStates
    <2>2. RemoteTyped' /\ DOMAIN remote' = DOMAIN remote \cup {call[c].wf}
      BY <1>6, ServeTyped
    <2>3. QED
      BY <1>1, <2>1, <2>2, MoveTyped, CallStepTyped
  <1>7. ASSUME NEW c \in Calls, Refuse(c) PROVE Typed'
    BY <1>1, <1>7, EndTyped, CallStepTyped DEF Refuse
  <1>8. ASSUME NEW c \in Calls, Undo(c) PROVE Typed'
    <2>1. /\ UNCHANGED <<rowVars, taskDocVars, runtime, abandoned>>
          /\ StopWorkflow(call[c].wf) /\ End(c)
      BY <1>8 DEF Undo
    <2>2. RemoteTyped' /\ DOMAIN remote' = DOMAIN remote
      BY <1>1, <2>1, StopWorkflowTyped
    <2>3. QED
      BY <1>1, <2>1, <2>2, EndTyped, CallStepTyped
  <1>9. ASSUME NEW c \in Calls, Lose(c) PROVE Typed'
    <2>1. /\ UNCHANGED <<rowVars, taskDocVars, runtime, remote>>
          /\ End(c) /\ call[c].pc # "idle"
          /\ abandoned' \in {abandoned, abandoned \cup {call[c].wf}}
      BY <1>9 DEF Lose
    <2>2. call[c].wf \in WorkflowIds
      BY <2>1 DEF Typed, Known
    <2>3. QED
      BY <1>1, <2>1, <2>2, EndTyped, CallStepTyped
  <1>10. ASSUME NEW w \in DOMAIN remote, WorkflowStep(w) PROVE Typed'
    <2>1. UNCHANGED <<rowVars, taskDocVars, runtime, call, abandoned>>
      BY <1>10 DEF WorkflowStep
    <2>2. RemoteTyped' /\ DOMAIN remote' = DOMAIN remote
      BY <1>1, <1>10, WorkflowStepTyped
    <2>3. QED
      BY <1>1, <2>1, <2>2
      DEF Typed, ReplanTypeOK, ControlTypeOK, RowsTyped, RemoteTyped, Known, replanVars
  <1>11. QED
    BY <1>2, <1>3, <1>4, <1>5, <1>6, <1>7, <1>8, <1>9, <1>10 DEF ControlStep

\* A replan's own step: the rows it may write have their types, and nothing
\* that a call knows changes.
LEMMA ReplanRowsTyped ==
  ASSUME Typed, RowsTyped', RemoteTyped', DOMAIN remote' = DOMAIN remote,
         UNCHANGED <<runtime, call, abandoned>>,
         replan' \in [Replans -> [status : ReplanStatuses, target : Nat,
                                  snapshot : WorkflowIds \cup {NoWorkflow}]],
         attempt' \in [Replans -> [pc : {"idle", "asked", "ok", "failed"},
                                   rev : Nat, retry : BOOLEAN]]
  PROVE  Typed'
  <1>1. ReplanTypeOK'
    BY DEF Typed, ReplanTypeOK, RowsTyped, RemoteTyped, ControlTypeOK
  <1>2. Known'
    BY DEF Typed, Known
  <1>3. QED
    BY <1>1, <1>2 DEF Typed

ReplanRow == [status : ReplanStatuses, target : Nat, snapshot : WorkflowIds \cup {NoWorkflow}]
AttemptRow == [pc : {"idle", "asked", "ok", "failed"}, rev : Nat, retry : BOOLEAN]

LEMMA SetReplanTyped ==
  ASSUME Typed, NEW r \in Replans, NEW s \in ReplanStatuses, SetReplan(r, s)
  PROVE  /\ replan' \in [Replans -> ReplanRow]
         /\ replan'[r].status = s
         /\ replan'[r].target = replan[r].target /\ replan'[r].snapshot = replan[r].snapshot
         /\ \A q \in Replans \ {r} : replan'[q] = replan[q]
  <1>1. replan \in [Replans -> ReplanRow]
    BY DEF Typed, ReplanTypeOK, ReplanRow
  <1>2. QED
    BY <1>1 DEF SetReplan, ReplanRow

\* What an override writes.
LEMMA SupersedeEffect ==
  ASSUME Typed, NEW r \in Replans, NEW s \in ReplanStatuses, Supersede(r, s), revision' \in Nat
  PROVE  /\ RowsTyped'
         /\ UNCHANGED <<runtime, remote, call, abandoned, leaseVars, safety, workVars>>
         /\ replan' \in [Replans -> ReplanRow]
         /\ replan'[r] = [status |-> s, target |-> intent', snapshot |-> runtime]
         /\ \A q \in Replans \ {r} :
              \/ replan'[q] = replan[q] /\ replan[q].status \notin OpenStatuses
              \/ /\ replan'[q].status = "SUPERSEDED"
                 /\ replan'[q].snapshot = replan[q].snapshot
                 /\ replan'[q].target = replan[q].target
                 /\ replan[q].status \in OpenStatuses
         /\ phase' = "paused"
         /\ intent' = intent + 1
         /\ \A p \in Plans : ~Current(p)'
  <1>1. /\ replan \in [Replans -> ReplanRow] /\ intent \in Nat
        /\ runtime \in WorkflowIds \cup {NoWorkflow}
        /\ planStatus \in [Plans -> PlanStates]
        /\ LeaseTypeOK /\ planVersion \in Nat /\ planText \in [Plans -> Texts \cup {NoText}]
    BY DEF Typed, ReplanTypeOK, ControlTypeOK, PlanTypeOK, ReplanRow
  <1>2. UNCHANGED <<runtime, remote, call, abandoned, leaseVars, safety, workVars, planVersion, planText>>
        /\ phase' = "paused" /\ intent' = intent + 1 /\ RetirePlans
    BY DEF Supersede
  <1>3. planStatus' \in [Plans -> PlanStates] /\ \A p \in Plans : ~Current(p)'
    BY <1>1, <1>2 DEF RetirePlans, Current, PlanStates
  <1>4. "paused" \in Phases
    BY ControlAssumption
  <1>5. RowsTyped'
    BY <1>1, <1>2, <1>3, <1>4 DEF RowsTyped, LeaseTypeOK, PlanTypeOK, leaseVars, workVars
  <1>6. \A q \in Replans :
          /\ [status |-> s, target |-> intent + 1, snapshot |-> runtime] \in ReplanRow
          /\ [replan[q] EXCEPT !.status = "SUPERSEDED"] \in ReplanRow
          /\ [replan[q] EXCEPT !.status = "SUPERSEDED"].status = "SUPERSEDED"
          /\ [replan[q] EXCEPT !.status = "SUPERSEDED"].snapshot = replan[q].snapshot
          /\ [replan[q] EXCEPT !.status = "SUPERSEDED"].target = replan[q].target
    BY <1>1 DEF ReplanRow, ReplanStatuses
  <1>7. replan' = [q \in Replans |->
          IF q = r THEN [status |-> s, target |-> intent + 1, snapshot |-> runtime]
          ELSE IF replan[q].status \in OpenStatuses THEN [replan[q] EXCEPT !.status = "SUPERSEDED"]
          ELSE replan[q]]
    BY DEF Supersede
  <1>8. replan' \in [Replans -> ReplanRow]
    BY <1>1, <1>6, <1>7, Zenon
  <1>9. replan'[r] = [status |-> s, target |-> intent', snapshot |-> runtime]
    BY <1>2, <1>7, Zenon
  <1>10. \A q \in Replans \ {r} :
           \/ replan'[q] = replan[q] /\ replan[q].status \notin OpenStatuses
           \/ /\ replan'[q].status = "SUPERSEDED"
              /\ replan'[q].snapshot = replan[q].snapshot
              /\ replan'[q].target = replan[q].target
              /\ replan[q].status \in OpenStatuses
    BY <1>6, <1>7, Zenon
  <1>11. QED
    BY <1>2, <1>3, <1>5, <1>8, <1>9, <1>10

LEMMA AwaitEffect ==
  ASSUME Typed, NEW r \in Replans, NEW b \in BOOLEAN, Await(r, b)
  PROVE  /\ attempt' \in [Replans -> AttemptRow]
         /\ attempt'[r] = [pc |-> "asked", rev |-> revision + 1, retry |-> b]
         /\ \A q \in Replans \ {r} : attempt'[q] = attempt[q]
  <1>1. attempt \in [Replans -> AttemptRow] /\ revision + 1 \in Nat
    BY DEF Typed, ReplanTypeOK, LeaseTypeOK, AttemptRow
  <1>2. [pc |-> "asked", rev |-> revision + 1, retry |-> b] \in AttemptRow
    BY <1>1 DEF AttemptRow
  <1>3. QED
    BY <1>1, <1>2 DEF Await

LEMMA ForgetEffect ==
  ASSUME Typed, NEW r \in Replans, Forget(r)
  PROVE  /\ attempt' \in [Replans -> AttemptRow]
         /\ attempt'[r] = [pc |-> "idle", rev |-> 0, retry |-> FALSE]
         /\ \A q \in Replans \ {r} : attempt'[q] = attempt[q]
  <1>1. attempt \in [Replans -> AttemptRow]
    BY DEF Typed, ReplanTypeOK, AttemptRow
  <1>2. [pc |-> "idle", rev |-> 0, retry |-> FALSE] \in AttemptRow
    BY DEF AttemptRow
  <1>3. QED
    BY <1>1, <1>2 DEF Forget, NoAttempt

LEMMA AttemptMoved ==
  ASSUME Typed, NEW r \in Replans, NEW s \in {"idle", "asked", "ok", "failed"},
         attempt' = [attempt EXCEPT ![r].pc = s]
  PROVE  /\ attempt' \in [Replans -> AttemptRow]
         /\ attempt'[r].pc = s
         /\ attempt'[r].rev = attempt[r].rev /\ attempt'[r].retry = attempt[r].retry
         /\ \A q \in Replans \ {r} : attempt'[q] = attempt[q]
  <1>1. attempt \in [Replans -> AttemptRow]
    BY DEF Typed, ReplanTypeOK, AttemptRow
  <1>2. QED
    BY <1>1 DEF AttemptRow

\* The two overrides, as one.
LEMMA BeginEffect ==
  ASSUME Typed, NEW r \in Replans, BeginWithRemote(r) \/ BeginAlone(r)
  PROVE  /\ revision' \in {revision + 1, revision + 2}
         /\ \E s \in {"INTERRUPT_PENDING", "SNAPSHOT_READY"} :
              /\ Supersede(r, s)
              /\ s = "SNAPSHOT_READY" => revision' = revision + 2
         /\ \/ UNCHANGED attempt
            \/ /\ Await(r, FALSE) /\ revision' = revision + 1
               /\ Supersede(r, "INTERRUPT_PENDING")
  BY DEF BeginWithRemote, BeginAlone, Bump

LEMMA BeginTyped ==
  ASSUME Typed, NEW r \in Replans, BeginWithRemote(r) \/ BeginAlone(r)
  PROVE  Typed'
  <1>1. PICK s \in {"INTERRUPT_PENDING", "SNAPSHOT_READY"} : Supersede(r, s)
    BY BeginEffect
  <1>2. s \in ReplanStatuses /\ revision' \in Nat
    <2>1. revision \in Nat /\ revision' \in {revision + 1, revision + 2}
      BY BeginEffect DEF Typed, ReplanTypeOK, LeaseTypeOK
    <2>2. QED
      BY <2>1 DEF ReplanStatuses, OpenStatuses
  <1>3. /\ RowsTyped'
        /\ UNCHANGED <<runtime, remote, call, abandoned>>
        /\ replan' \in [Replans -> ReplanRow]
    BY <1>1, <1>2, SupersedeEffect
  <1>4. attempt' \in [Replans -> AttemptRow]
    <2>1. CASE UNCHANGED attempt
      BY <2>1 DEF Typed, ReplanTypeOK, AttemptRow
    <2>2. CASE Await(r, FALSE)
      BY <2>2, AwaitEffect
    <2>3. QED
      BY <2>1, <2>2, BeginEffect
  <1>5. RemoteTyped'
    BY <1>3 DEF Typed, ReplanTypeOK, ControlTypeOK, RemoteTyped
  <1>6. QED
    BY <1>3, <1>4, <1>5, ReplanRowsTyped DEF ReplanRow, AttemptRow

\* Every other action of a replan, by what it writes.
LEMMA SettlingTyped ==
  ASSUME Typed, NEW r \in Replans, UNCHANGED <<controlVars, leaseVars, safety, workVars>>,
         revision' \in Nat, phase' \in Phases,
         UNCHANGED replan \/ \E s \in ReplanStatuses : SetReplan(r, s),
         \/ UNCHANGED attempt \/ Forget(r)
         \/ \E b \in BOOLEAN : Await(r, b)
         \/ attempt' = [attempt EXCEPT ![r].pc = "idle"]
  PROVE  Typed'
  <1>1. UNCHANGED <<runtime, remote, call, abandoned>>
    BY DEF controlVars
  <1>2. RowsTyped' /\ RemoteTyped'
    BY DEF Typed, ReplanTypeOK, ControlTypeOK, RowsTyped, RemoteTyped, LeaseTypeOK, PlanTypeOK,
           controlVars, taskDocVars, leaseVars, workVars
  <1>3. replan' \in [Replans -> ReplanRow]
    <2>1. CASE UNCHANGED replan
      BY <2>1 DEF Typed, ReplanTypeOK, ReplanRow
    <2>2. CASE \E s \in ReplanStatuses : SetReplan(r, s)
      BY <2>2, SetReplanTyped
    <2>3. QED
      BY <2>1, <2>2
  <1>4. attempt' \in [Replans -> AttemptRow]
    <2>1. CASE UNCHANGED attempt
      BY <2>1 DEF Typed, ReplanTypeOK, AttemptRow
    <2>2. QED
      BY <2>1, ForgetEffect, AwaitEffect, AttemptMoved
  <1>5. QED
    BY <1>1, <1>2, <1>3, <1>4, ReplanRowsTyped DEF ReplanRow, AttemptRow

\* What InterruptRemote leaves alone, and what it answers.
LEMMA InterruptRemoteEffect ==
  ASSUME Typed, NEW r \in Replans, InterruptRemote(r)
  PROVE  /\ UNCHANGED <<rowVars, taskDocVars, runtime, call, abandoned, replan>>
         /\ attempt[r].pc = "asked"
         /\ StopWorkflow(replan[r].snapshot) \/ UNCHANGED remote
         /\ attempt'[r].pc = "ok" => StopWorkflow(replan[r].snapshot)
         /\ attempt'[r].pc \in {"ok", "failed"}
         /\ attempt'[r].rev = attempt[r].rev /\ attempt'[r].retry = attempt[r].retry
         /\ attempt' \in [Replans -> AttemptRow]
         /\ \A q \in Replans \ {r} : attempt'[q] = attempt[q]
  BY AttemptMoved DEF InterruptRemote

LEMMA ReplanActionTyped ==
  ASSUME Typed, ReplanRequest \/ ReplanStep
  PROVE  Typed'
  <1>1. /\ revision \in Nat /\ phase \in Phases
        /\ {"paused", "blocked", "replanning"} \subseteq Phases
    BY ReplanAssumption DEF Typed, ReplanTypeOK, LeaseTypeOK, ReplanPhases
  <1>2. {"SNAPSHOT_READY", "INTERRUPT_FAILED", "INTERRUPT_PENDING", "READY_TO_PLAN", "PLANNING",
         "PLAN_REVIEW", "COMPLETED"} \subseteq ReplanStatuses
    BY DEF ReplanStatuses, OpenStatuses
  <1>3. ASSUME NEW r \in Replans, BeginWithRemote(r) \/ BeginAlone(r) PROVE Typed'
    BY <1>3, BeginTyped
  <1>4. ASSUME NEW r \in Replans, RetryInterrupt(r) PROVE Typed'
    <2>1. /\ SetReplan(r, "INTERRUPT_PENDING")
          /\ MemoryWrite("paused")
          /\ \E b \in BOOLEAN : Await(r, b)
          /\ UNCHANGED controlVars
      BY <1>4, Zenon DEF RetryInterrupt
    <2>2. QED
      BY <1>1, <1>2, <2>1, SettlingTyped DEF MemoryWrite, Bump
  <1>5. ASSUME NEW r \in Replans, Classify(r) PROVE Typed'
    BY <1>1, <1>2, <1>5, SettlingTyped DEF Classify
  <1>6. ASSUME NEW r \in Replans, InterruptRemote(r) PROVE Typed'
    <2>1. /\ UNCHANGED <<rowVars, taskDocVars, runtime, call, abandoned, replan>>
          /\ StopWorkflow(replan[r].snapshot) \/ UNCHANGED remote
          /\ attempt' \in [Replans -> AttemptRow]
      BY <1>6, InterruptRemoteEffect
    <2>2. RowsTyped' /\ RemoteTyped
      BY <2>1, RowsTypedIsTyped DEF Typed
    <2>3. RemoteTyped' /\ DOMAIN remote' = DOMAIN remote
      BY <2>1, <2>2, StopWorkflowTyped DEF RemoteTyped
    <2>4. QED
      BY <2>1, <2>2, <2>3, ReplanRowsTyped DEF ReplanRow, AttemptRow, Typed, ReplanTypeOK
  <1>7. ASSUME NEW r \in Replans, Finalize(r) PROVE Typed'
    BY <1>1, <1>2, <1>7, SettlingTyped
    DEF Finalize, Settle, MemoryWrite, Bump, rowVars, taskVars
  <1>8. ASSUME NEW r \in Replans, LoseAttempt(r) PROVE Typed'
    BY <1>1, <1>8, SettlingTyped DEF LoseAttempt, rowVars, taskVars
  <1>9. ASSUME NEW r \in Replans,
               BindReplanWorkflow(r) \/ BindReplanPlanReview(r) \/ CompleteReplanOnExecution(r)
        PROVE  Typed'
    BY <1>1, <1>2, <1>9, SettlingTyped
    DEF BindReplanWorkflow, BindReplanPlanReview, CompleteReplanOnExecution, rowVars, taskVars
  <1>10. QED
    BY <1>3, <1>4, <1>5, <1>6, <1>7, <1>8, <1>9 DEF ReplanRequest, ReplanStep

\* A request that awaits nothing beside the replans.
LEMMA TaskRequestTyped ==
  ASSUME Typed, TaskRequest, UNCHANGED replanVars
  PROVE  Typed'
  BY TaskRequestEffect DEF Typed, ReplanTypeOK, Known, replanVars

LEMMA NextTyped == Typed /\ [ReplanNext]_allVars => Typed'
  <1> SUFFICES ASSUME Typed, [ReplanNext]_allVars PROVE Typed'
    OBVIOUS
  <1>1. CASE TaskRequest /\ UNCHANGED replanVars
    BY <1>1, TaskRequestTyped
  <1>2. ASSUME NEW c \in Calls, CallRequest(c), UNCHANGED replanVars PROVE Typed'
    <2>1. PICK o \in Operations, w \in WorkflowIds, p \in Plans \cup {NoPlan},
               s \in {"reading", "asked"} : Begins(c, o, w, p, s)
      BY <1>2, CallRequestBegins
    <2>2. QED
      BY <1>2, <2>1, BeginsTyped
  <1>3. CASE ReplanRequest \/ ReplanStep
    BY <1>3, ReplanActionTyped
  <1>4. CASE ControlStep /\ UNCHANGED replanVars
    BY <1>4, ControlStepTyped
  <1>5. CASE UNCHANGED allVars
    BY <1>5
    DEF allVars, rowVars, taskVars, leaseVars, workVars, controlVars, taskDocVars, replanVars, Typed,
        ReplanTypeOK, LeaseTypeOK, PlanTypeOK, ControlTypeOK, Known
  <1>6. QED
    BY <1>1, <1>2, <1>3, <1>4, <1>5 DEF ReplanNext

\* Every row of the replans, the calls, the plans and the workflows keeps its
\* type, whatever order requests, answers and losses come in.
THEOREM TypeCorrect == ReplanSpec => []ReplanTypeOK
  <1>1. LeaseInit /\ PlanInit /\ ControlInit /\ ReplanInit => Typed
    BY InitTyped
  <1>2. Typed => ReplanTypeOK
    BY DEF Typed
  <1>3. QED
    BY <1>1, <1>2, NextTyped, PTL DEF ReplanSpec

-----------------------------------------------------------------------------
(* The revision as a lock *)

\* The rows a call or an attempt has looked at.
LockedRows == <<phase, intent, planStatus, writer, runtime>>

RowShape ==
  /\ revision' \in Nat /\ revision' >= revision
  /\ revision' = revision => UNCHANGED LockedRows

\* A call ends, goes on with what it captured, or captures what is current.
CallShape(c) ==
  \/ call'[c].pc = "idle"
  \/ call[c].pc # "idle" /\ SameCapture(c)
  \/ /\ UNCHANGED <<revision, LockedRows>>
     /\ call'[c].rev = revision
     /\ call'[c].intent = intent
     /\ call'[c].op = "execute" => writer = "CODEX" /\ IsApproved(call'[c].plan)
     /\ call'[c].op = "steer" => writer = "CODEX"
     /\ call'[c].op # "start" => call'[c].wf = runtime

\* An attempt is over, goes on, or begins at the revision its transaction makes.
AttemptShape(r) ==
  \/ attempt'[r].pc = "idle" /\ attempt'[r].rev \in {0, attempt[r].rev}
  \/ /\ attempt[r].pc # "idle"
     /\ attempt'[r].rev = attempt[r].rev /\ attempt'[r].retry = attempt[r].retry
     /\ revision' = revision =>
          replan'[r] = replan[r] \/ replan[r].status # "INTERRUPT_PENDING"
  \/ /\ attempt'[r].rev = revision'
     /\ replan'[r].status = "INTERRUPT_PENDING"
     /\ phase' = "paused"
     /\ ~attempt'[r].retry =>
          /\ replan'[r].target = intent'
          /\ \A p \in Plans : ~Current(p)'
          /\ runtime' = replan'[r].snapshot

StepShape ==
  /\ RowShape
  /\ \A c \in Calls : CallShape(c)
  /\ \A r \in Replans : AttemptShape(r)

LEMMA QuietShapes ==
  /\ UNCHANGED call => \A c \in Calls : CallShape(c)
  /\ UNCHANGED <<rowVars, taskDocVars, runtime>> /\ Typed => RowShape
  /\ UNCHANGED replanVars => \A r \in Replans : AttemptShape(r)
  <1>1. UNCHANGED call => \A c \in Calls : CallShape(c)
    BY DEF CallShape, SameCapture
  <1>2. UNCHANGED <<rowVars, taskDocVars, runtime>> /\ Typed => RowShape
    BY DEF RowShape, LockedRows, rowVars, taskVars, leaseVars, taskDocVars, Typed, ReplanTypeOK, LeaseTypeOK
  <1>3. UNCHANGED replanVars => \A r \in Replans : AttemptShape(r)
    BY DEF AttemptShape, replanVars
  <1>4. QED
    BY <1>1, <1>2, <1>3

LEMMA AdvanceShape ==
  ASSUME Typed, revision' \in {revision + 1, revision + 2}
  PROVE  RowShape
  BY DEF Typed, ReplanTypeOK, LeaseTypeOK, RowShape

LEMMA TaskRequestShape ==
  ASSUME Typed, TaskRequest, UNCHANGED replanVars
  PROVE  StepShape
  BY TaskRequestEffect, QuietShapes, AdvanceShape DEF StepShape

LEMMA BeginsShape ==
  ASSUME Typed, NEW c \in Calls, CallRequest(c), UNCHANGED replanVars
  PROVE  StepShape
  <1>1. PICK o \in Operations, w \in WorkflowIds, p \in Plans \cup {NoPlan},
             s \in {"reading", "asked"} : Begins(c, o, w, p, s)
    BY CallRequestBegins
  <1>2. /\ UNCHANGED <<rowVars, taskDocVars, runtime, remote, abandoned>>
        /\ call' = [call EXCEPT ![c] = [pc |-> s, op |-> o, rev |-> revision, intent |-> intent,
                                        wf |-> w, plan |-> p, text |-> NoText]]
    BY <1>1 DEF Begins, Open
  <1>3. call \in [Calls -> CallType]
    BY DEF Typed, ReplanTypeOK, ControlTypeOK
  <1>4. UNCHANGED <<revision, LockedRows>>
    BY <1>2 DEF LockedRows, rowVars, taskVars, leaseVars, taskDocVars
  <1>5. CallShape(c)
    <2>1. call'[c] = [pc |-> s, op |-> o, rev |-> revision, intent |-> intent,
                      wf |-> w, plan |-> p, text |-> NoText]
      BY <1>2, <1>3
    <2>2. QED
      BY <1>1, <1>4, <2>1 DEF CallShape, Begins
  <1>6. \A d \in Calls \ {c} : CallShape(d)
    BY <1>2, <1>3 DEF CallShape, SameCapture
  <1>7. QED
    BY <1>2, <1>5, <1>6, QuietShapes DEF StepShape

\* What every step of a call does to that call and to the rows.
LEMMA CallActionShape ==
  ASSUME Typed, NEW c \in Calls,
         \/ ReadStatus(c) \/ ImportPlan(c) \/ Bind(c) \/ BindStale(c)
         \/ Serve(c) \/ Refuse(c) \/ Undo(c) \/ Lose(c)
  PROVE  /\ call'[c].pc = "idle" \/ (call[c].pc # "idle" /\ SameCapture(c))
         /\ \A d \in Calls \ {c} : call'[d] = call[d]
         /\ \/ UNCHANGED <<rowVars, taskDocVars, runtime>>
            \/ /\ ImportPlan(c) \/ Bind(c)
               /\ revision' = revision + 1
               /\ call[c].rev = revision /\ call[c].pc = "answered"
  <1>1. {"answered", "undoing"} \subseteq CallStates
    BY DEF CallStates
  <1>2. CASE ReadStatus(c)
    BY <1>2, ReadStatusTyped DEF ReadStatus
  <1>3. CASE ImportPlan(c)
    <2>1. End(c) /\ runtime' = runtime /\ call[c].pc = "answered"
      BY <1>3 DEF ImportPlan
    <2>2. \/ UNCHANGED <<rowVars, taskDocVars>>
          \/ call[c].rev = revision /\ revision' = revision + 1
      BY <1>3 DEF ImportPlan, DraftPlan, CreatePlan, PlanWrite, Bump
    <2>3. QED
      BY <1>3, <2>1, <2>2, EndTyped
  <1>4. CASE Bind(c)
    <2>1. End(c) /\ call[c].rev = revision /\ revision' = revision + 1 /\ call[c].pc = "answered"
      BY <1>4 DEF Bind, Rebind, MemoryWrite, Bump
    <2>2. QED
      BY <1>4, <2>1, EndTyped
  <1>5. CASE BindStale(c)
    <2>1. /\ UNCHANGED <<rowVars, taskDocVars, runtime>> /\ call[c].pc = "answered"
          /\ End(c) \/ Move(c, "undoing")
      BY <1>5 DEF BindStale
    <2>2. QED
      BY <1>1, <2>1, EndTyped, MoveTyped
  <1>6. CASE Serve(c)
    <2>1. /\ UNCHANGED <<rowVars, taskDocVars, runtime>> /\ call[c].pc = "asked"
          /\ Move(c, "answered")
      BY <1>6 DEF Serve
    <2>2. QED
      BY <1>1, <2>1, MoveTyped
  <1>7. CASE Refuse(c) \/ Undo(c) \/ Lose(c)
    <2>1. UNCHANGED <<rowVars, taskDocVars, runtime>> /\ End(c)
      BY <1>7 DEF Refuse, Undo, Lose
    <2>2. QED
      BY <2>1, EndTyped
  <1>8. QED
    BY <1>2, <1>3, <1>4, <1>5, <1>6, <1>7

LEMMA ControlStepShape ==
  ASSUME Typed, ControlStep, UNCHANGED replanVars
  PROVE  StepShape
  <1>1. ASSUME NEW c \in Calls,
               \/ ReadStatus(c) \/ ImportPlan(c) \/ Bind(c) \/ BindStale(c)
               \/ Serve(c) \/ Refuse(c) \/ Undo(c) \/ Lose(c)
        PROVE  StepShape
    <2>1. /\ call'[c].pc = "idle" \/ (call[c].pc # "idle" /\ SameCapture(c))
          /\ \A d \in Calls \ {c} : call'[d] = call[d]
      BY <1>1, CallActionShape
    <2>2. \A d \in Calls : CallShape(d)
      BY <2>1 DEF CallShape, SameCapture
    <2>3. RowShape
      <3>1. UNCHANGED <<rowVars, taskDocVars, runtime>> \/ revision' = revision + 1
        BY <1>1, CallActionShape
      <3>2. QED
        BY <3>1, QuietShapes, AdvanceShape
    <2>4. QED
      BY <2>2, <2>3, QuietShapes DEF StepShape
  <1>2. ASSUME NEW w \in DOMAIN remote, WorkflowStep(w) PROVE StepShape
    BY <1>2, QuietShapes DEF WorkflowStep, StepShape
  <1>3. QED
    BY <1>1, <1>2 DEF ControlStep

LEMMA BeginShape ==
  ASSUME Typed, NEW r \in Replans, BeginWithRemote(r) \/ BeginAlone(r)
  PROVE  StepShape
  <1>1. revision' \in {revision + 1, revision + 2} /\ revision \in Nat
    BY BeginEffect DEF Typed, ReplanTypeOK, LeaseTypeOK
  <1>2. UNCHANGED call
    BY BeginEffect DEF Supersede
  <1>3. RowShape /\ \A c \in Calls : CallShape(c)
    BY <1>1, <1>2, AdvanceShape, QuietShapes
  <1>4. revision' # revision
    BY <1>1
  <1>5. \A q \in Replans : attempt'[q] = attempt[q] => AttemptShape(q)
    BY <1>4 DEF AttemptShape
  <1>6. CASE UNCHANGED attempt
    BY <1>3, <1>5, <1>6 DEF StepShape
  <1>7. CASE Await(r, FALSE) /\ revision' = revision + 1 /\ Supersede(r, "INTERRUPT_PENDING")
    <2>1. /\ attempt'[r] = [pc |-> "asked", rev |-> revision + 1, retry |-> FALSE]
          /\ \A q \in Replans \ {r} : attempt'[q] = attempt[q]
      BY <1>7, AwaitEffect
    <2>2. "INTERRUPT_PENDING" \in ReplanStatuses /\ revision' \in Nat
      BY <1>1, <1>7 DEF ReplanStatuses, OpenStatuses
    <2>3. /\ replan'[r] = [status |-> "INTERRUPT_PENDING", target |-> intent', snapshot |-> runtime]
          /\ runtime' = runtime /\ phase' = "paused"
          /\ \A p \in Plans : ~Current(p)'
      BY <1>7, <2>2, SupersedeEffect
    <2>4. AttemptShape(r)
      <3>1. attempt'[r].rev = revision'
        BY <1>7, <2>1
      <3>2. /\ replan'[r].status = "INTERRUPT_PENDING"
            /\ replan'[r].target = intent' /\ runtime' = replan'[r].snapshot
        BY <2>3
      <3>3. QED
        BY <2>3, <3>1, <3>2, Zenon DEF AttemptShape
    <2>5. QED
      BY <1>3, <1>5, <2>1, <2>4 DEF StepShape
  <1>8. QED
    BY <1>6, <1>7, BeginEffect

LEMMA ReplanActionShape ==
  ASSUME Typed, ReplanRequest \/ ReplanStep
  PROVE  StepShape
  <1>1. revision \in Nat /\ \A s \in {"SNAPSHOT_READY", "INTERRUPT_FAILED", "INTERRUPT_PENDING",
          "READY_TO_PLAN", "PLANNING", "PLAN_REVIEW", "COMPLETED"} : s \in ReplanStatuses
    BY DEF ReplanStatuses, OpenStatuses, Typed, ReplanTypeOK, LeaseTypeOK
  <1>2. ASSUME NEW r \in Replans, BeginWithRemote(r) \/ BeginAlone(r) PROVE StepShape
    BY <1>2, BeginShape
  <1>3. ASSUME NEW r \in Replans, RetryInterrupt(r) PROVE StepShape
    <2>1. /\ SetReplan(r, "INTERRUPT_PENDING")
          /\ MemoryWrite("paused")
          /\ UNCHANGED controlVars
      BY <1>3, Zenon DEF RetryInterrupt
    <2>2. PICK b \in BOOLEAN : Await(r, b) /\ b = TRUE
      BY <1>3, Zenon DEF RetryInterrupt
    <2>3. /\ attempt'[r].rev = revision + 1 /\ attempt'[r].retry
          /\ \A q \in Replans \ {r} : attempt'[q] = attempt[q]
      <3>1. /\ attempt'[r] = [pc |-> "asked", rev |-> revision + 1, retry |-> b]
            /\ \A q \in Replans \ {r} : attempt'[q] = attempt[q]
        BY <2>2, AwaitEffect, Zenon
      <3>2. attempt'[r].retry = b
        BY <3>1, SMT
      <3>3. attempt'[r].retry
        BY <2>2, <3>2, Zenon
      <3>4. QED
        BY <3>1, <3>3
    <2>4. /\ phase' = "paused" /\ revision' = revision + 1 /\ UNCHANGED call
          /\ replan'[r].status = "INTERRUPT_PENDING"
      BY <1>1, <2>1, SetReplanTyped DEF MemoryWrite, Bump, controlVars
    <2>5. RowShape /\ \A c \in Calls : CallShape(c)
      BY <2>4, AdvanceShape, QuietShapes
    <2>6. \A q \in Replans : AttemptShape(q)
      BY <1>1, <2>3, <2>4 DEF AttemptShape
    <2>7. QED
      BY <2>5, <2>6 DEF StepShape
  <1>4. ASSUME NEW r \in Replans, Classify(r) PROVE StepShape
    <2>1. /\ revision' = revision + 2 /\ UNCHANGED call
          /\ attempt'[r].pc = "idle" /\ attempt'[r].rev = 0
          /\ \A q \in Replans \ {r} : attempt'[q] = attempt[q]
      BY <1>4, ForgetEffect DEF Classify, controlVars
    <2>2. RowShape /\ \A c \in Calls : CallShape(c)
      BY <2>1, AdvanceShape, QuietShapes
    <2>3. \A q \in Replans : AttemptShape(q)
      BY <1>1, <2>1 DEF AttemptShape
    <2>4. QED
      BY <2>2, <2>3 DEF StepShape
  <1>5. ASSUME NEW r \in Replans, InterruptRemote(r) PROVE StepShape
    <2>1. /\ UNCHANGED <<rowVars, taskDocVars, runtime, call, replan>>
          /\ attempt[r].pc = "asked"
          /\ attempt'[r].rev = attempt[r].rev /\ attempt'[r].retry = attempt[r].retry
          /\ \A q \in Replans \ {r} : attempt'[q] = attempt[q]
      BY <1>5, InterruptRemoteEffect
    <2>2. \A q \in Replans : AttemptShape(q)
      BY <2>1 DEF AttemptShape
    <2>3. QED
      BY <2>1, <2>2, QuietShapes DEF StepShape
  <1>6. ASSUME NEW r \in Replans, Finalize(r) PROVE StepShape
    <2>1. /\ attempt'[r].pc = "idle" /\ attempt'[r].rev \in {0, attempt[r].rev}
          /\ \A q \in Replans \ {r} : attempt'[q] = attempt[q]
      BY <1>6, ForgetEffect, AttemptMoved DEF Finalize, Settle
    <2>2. \A q \in Replans \ {r} : replan'[q] = replan[q]
      BY <1>1, <1>6, SetReplanTyped DEF Finalize, Settle
    <2>3. UNCHANGED controlVars /\ (UNCHANGED rowVars \/ revision' = revision + 1)
      BY <1>6 DEF Finalize, Settle, MemoryWrite, Bump
    <2>4. RowShape /\ UNCHANGED call
      BY <2>3, AdvanceShape, QuietShapes DEF controlVars
    <2>5. \A q \in Replans : AttemptShape(q)
      BY <2>1, <2>2 DEF AttemptShape
    <2>6. QED
      BY <2>4, <2>5, QuietShapes DEF StepShape
  <1>7. ASSUME NEW r \in Replans, LoseAttempt(r) PROVE StepShape
    <2>1. /\ attempt'[r].pc = "idle" /\ attempt'[r].rev = 0
          /\ \A q \in Replans \ {r} : attempt'[q] = attempt[q]
          /\ UNCHANGED <<rowVars, controlVars, replan>>
      BY <1>7, ForgetEffect DEF LoseAttempt
    <2>2. RowShape /\ UNCHANGED call
      BY <2>1, QuietShapes DEF controlVars
    <2>3. \A q \in Replans : AttemptShape(q)
      BY <2>1 DEF AttemptShape
    <2>4. QED
      BY <2>2, <2>3, QuietShapes DEF StepShape
  <1>8. ASSUME NEW r \in Replans,
               BindReplanWorkflow(r) \/ BindReplanPlanReview(r) \/ CompleteReplanOnExecution(r)
        PROVE  StepShape
    <2>1. /\ UNCHANGED <<rowVars, controlVars, attempt>>
          /\ replan[r].status # "INTERRUPT_PENDING"
          /\ \E s \in ReplanStatuses : SetReplan(r, s)
      BY <1>1, <1>8 DEF BindReplanWorkflow, BindReplanPlanReview, CompleteReplanOnExecution
    <2>2. \A q \in Replans \ {r} : replan'[q] = replan[q]
      BY <2>1, SetReplanTyped
    <2>3. RowShape /\ UNCHANGED call
      BY <2>1, QuietShapes DEF controlVars
    <2>4. \A q \in Replans : AttemptShape(q)
      BY <2>1, <2>2 DEF AttemptShape
    <2>5. QED
      BY <2>3, <2>4, QuietShapes DEF StepShape
  <1>9. QED
    BY <1>2, <1>3, <1>4, <1>5, <1>6, <1>7, <1>8 DEF ReplanRequest, ReplanStep

LEMMA NextShape == Typed /\ [ReplanNext]_allVars => StepShape
  <1> SUFFICES ASSUME Typed, [ReplanNext]_allVars PROVE StepShape
    OBVIOUS
  <1>1. CASE UNCHANGED allVars
    BY <1>1, QuietShapes DEF allVars, controlVars, StepShape
  <1>2. CASE ReplanNext
    BY <1>2, TaskRequestShape, BeginsShape, ControlStepShape, ReplanActionShape DEF ReplanNext
  <1>3. QED
    BY <1>1, <1>2

Locked ==
  /\ \A c \in Calls : call[c].pc # "idle" => call[c].rev <= revision
  /\ \A r \in Replans : attempt[r].rev <= revision
  /\ CapturedIsCurrent
  /\ AttemptIsCurrent

LEMMA InitLocked ==
  ASSUME LeaseInit, PlanInit, ControlInit, ReplanInit
  PROVE  Locked
  BY DEF LeaseInit, ControlInit, ReplanInit, Locked, CapturedIsCurrent, AttemptIsCurrent, Idle, NoAttempt

LEMMA CallLocked ==
  ASSUME Typed, Typed', Locked, RowShape, NEW c \in Calls, CallShape(c)
  PROVE  call'[c].pc # "idle" =>
           /\ call'[c].rev <= revision'
           /\ call'[c].rev = revision' =>
                /\ call'[c].intent = intent'
                /\ call'[c].op = "execute" => writer' = "CODEX" /\ IsApproved(call[c].plan)'
                /\ call'[c].op = "steer" => writer' = "CODEX"
                /\ call'[c].op # "start" => call'[c].wf = runtime'
  <1> SUFFICES ASSUME call'[c].pc # "idle"
               PROVE  /\ call'[c].rev <= revision'
                      /\ call'[c].rev = revision' =>
                           /\ call'[c].intent = intent'
                           /\ call'[c].op = "execute" => writer' = "CODEX" /\ IsApproved(call[c].plan)'
                           /\ call'[c].op = "steer" => writer' = "CODEX"
                           /\ call'[c].op # "start" => call'[c].wf = runtime'
    OBVIOUS
  <1>1. /\ revision \in Nat /\ revision' \in Nat /\ revision' >= revision
        /\ call[c].rev \in Nat
        /\ call[c].pc # "idle" => call[c].rev <= revision
    BY DEF Typed, ReplanTypeOK, LeaseTypeOK, ControlTypeOK, CallType, RowShape, Locked
  <1>2. CASE call[c].pc # "idle" /\ SameCapture(c)
    <2>1. call'[c].rev = call[c].rev
      BY <1>2 DEF SameCapture
    <2>2. CASE call[c].rev = revision /\ revision' = revision
      BY <1>2, <2>1, <2>2
      DEF RowShape, LockedRows, Locked, CapturedIsCurrent, SameCapture, IsApproved
    <2>3. QED
      BY <1>1, <1>2, <2>1, <2>2
  <1>3. CASE /\ UNCHANGED <<revision, LockedRows>>
             /\ call'[c].rev = revision
             /\ call'[c].intent = intent
             /\ call'[c].op = "execute" => writer = "CODEX" /\ IsApproved(call'[c].plan)
             /\ call'[c].op = "steer" => writer = "CODEX"
             /\ call'[c].op # "start" => call'[c].wf = runtime
    BY <1>1, <1>3 DEF LockedRows, IsApproved
  <1>4. QED
    BY <1>2, <1>3 DEF CallShape

LEMMA AttemptLocked ==
  ASSUME Typed, Typed', Locked, RowShape, NEW r \in Replans, AttemptShape(r)
  PROVE  /\ attempt'[r].rev <= revision'
         /\ attempt'[r].pc # "idle" /\ attempt'[r].rev = revision' =>
              /\ replan'[r].status = "INTERRUPT_PENDING"
              /\ phase' = "paused"
              /\ ~attempt'[r].retry =>
                   /\ replan'[r].target = intent'
                   /\ \A p \in Plans : ~Current(p)'
                   /\ runtime' = replan'[r].snapshot
  <1>1. /\ revision \in Nat /\ revision' \in Nat /\ revision' >= revision
        /\ attempt[r].rev \in Nat /\ attempt[r].rev <= revision
    BY DEF Typed, ReplanTypeOK, LeaseTypeOK, RowShape, Locked
  <1>2. CASE attempt'[r].pc = "idle" /\ attempt'[r].rev \in {0, attempt[r].rev}
    BY <1>1, <1>2
  <1>3. CASE /\ attempt[r].pc # "idle"
             /\ attempt'[r].rev = attempt[r].rev /\ attempt'[r].retry = attempt[r].retry
             /\ revision' = revision =>
                  replan'[r] = replan[r] \/ replan[r].status # "INTERRUPT_PENDING"
    <2>1. CASE attempt[r].rev = revision /\ revision' = revision
      <3>1. /\ replan[r].status = "INTERRUPT_PENDING" /\ phase = "paused"
            /\ ~attempt[r].retry => /\ replan[r].target = intent
                                    /\ \A p \in Plans : ~Current(p)
                                    /\ runtime = replan[r].snapshot
        BY <1>3, <2>1 DEF Locked, AttemptIsCurrent
      <3>2. replan'[r] = replan[r] /\ UNCHANGED LockedRows
        BY <1>3, <2>1, <3>1 DEF RowShape
      <3>3. QED
        BY <1>1, <1>3, <2>1, <3>1, <3>2 DEF LockedRows, Current
    <2>2. QED
      BY <1>1, <1>3, <2>1
  <1>4. CASE /\ attempt'[r].rev = revision'
             /\ replan'[r].status = "INTERRUPT_PENDING"
             /\ phase' = "paused"
             /\ ~attempt'[r].retry =>
                  /\ replan'[r].target = intent'
                  /\ \A p \in Plans : ~Current(p)'
                  /\ runtime' = replan'[r].snapshot
    BY <1>1, <1>4
  <1>5. QED
    BY <1>2, <1>3, <1>4 DEF AttemptShape

LEMMA NextLocked == Typed /\ Locked /\ [ReplanNext]_allVars => Locked'
  <1> SUFFICES ASSUME Typed, Locked, [ReplanNext]_allVars PROVE Locked'
    OBVIOUS
  <1>1. Typed' /\ StepShape
    BY NextTyped, NextShape
  <1>2. \A c \in Calls : CallShape(c)
    BY <1>1 DEF StepShape
  <1>3. \A r \in Replans : AttemptShape(r)
    BY <1>1 DEF StepShape
  <1>4. RowShape
    BY <1>1 DEF StepShape
  <1>5. CapturedIsCurrent' /\ \A c \in Calls : call'[c].pc # "idle" => call'[c].rev <= revision'
    BY <1>1, <1>2, <1>4, CallLocked DEF CapturedIsCurrent
  <1>6. AttemptIsCurrent' /\ \A r \in Replans : attempt'[r].rev <= revision'
    BY <1>1, <1>3, <1>4, AttemptLocked DEF AttemptIsCurrent
  <1>7. QED
    BY <1>5, <1>6 DEF Locked

LEMMA LockedAlways == ReplanSpec => [](Typed /\ Locked)
  <1>1. LeaseInit /\ PlanInit /\ ControlInit /\ ReplanInit => Typed /\ Locked
    BY InitTyped, InitLocked
  <1>2. QED
    BY <1>1, NextTyped, NextLocked, PTL DEF ReplanSpec

\* A coordinator call whose revision is still the task's has read nothing
\* stale: plan, writer, intent and workflow are as it saw them before it
\* awaited the Control Plane.
THEOREM CapturedAlwaysCurrent == ReplanSpec => []CapturedIsCurrent
  BY LockedAlways, PTL DEF Locked

\* The same for the interrupt that begin_hard_replan and retry_interrupt await.
THEOREM AttemptAlwaysCurrent == ReplanSpec => []AttemptIsCurrent
  BY LockedAlways, PTL DEF Locked

LEMMA OutcomeStep ==
  ASSUME Typed, Locked, [ReplanNext]_allVars, NEW c \in Calls,
         call[c].pc = "answered", call'[c].pc = "idle", revision' # revision
  PROVE  /\ call[c].intent = intent
         /\ call[c].op = "execute" =>
              /\ phase' = "implementing"
              /\ writer = "CODEX" /\ IsApproved(call[c].plan)
              /\ runtime' = runtime
  <1>1. call' # call
    OBVIOUS
  <1>2. ~(ReplanRequest \/ ReplanStep \/ TaskRequest)
    BY <1>1
    DEF ReplanRequest, ReplanStep, TaskRequest, BeginWithRemote, BeginAlone, Supersede, RetryInterrupt,
        Classify, InterruptRemote, Finalize, LoseAttempt, BindReplanWorkflow, BindReplanPlanReview,
        CompleteReplanOnExecution, controlVars
  <1>3. ASSUME NEW d \in Calls PROVE ~CallRequest(d)
    <2>1. SUFFICES ASSUME CallRequest(d) PROVE FALSE
      OBVIOUS
    <2>2. UNCHANGED rowVars
      BY <2>1, CallRequestBegins DEF Begins, Open
    <2>3. QED
      BY <2>2 DEF rowVars, taskVars
  <1>4. ControlStep
    BY <1>1, <1>2, <1>3 DEF ReplanNext, allVars, controlVars
  <1>5. ASSUME NEW w \in DOMAIN remote PROVE ~WorkflowStep(w)
    BY <1>1 DEF WorkflowStep
  <1>6. PICK d \in Calls : \/ ReadStatus(d) \/ ImportPlan(d) \/ Bind(d) \/ BindStale(d)
                           \/ Serve(d) \/ Refuse(d) \/ Undo(d) \/ Lose(d)
    BY <1>4, <1>5 DEF ControlStep
  <1>7. d = c
    BY <1>6, CallActionShape
  <1>8. ImportPlan(c) \/ Bind(c)
    BY <1>6, <1>7, CallActionShape DEF rowVars, taskVars
  <1>9. call[c].rev = revision
    BY <1>6, <1>7, CallActionShape DEF rowVars, taskVars
  <1>10. /\ call[c].intent = intent
         /\ call[c].op = "execute" => writer = "CODEX" /\ IsApproved(call[c].plan)
         /\ call[c].op # "start" => call[c].wf = runtime
    BY <1>9 DEF Locked, CapturedIsCurrent
  <1>11. call[c].op = "execute" => phase' = "implementing" /\ runtime' = call[c].wf
    BY <1>8 DEF ImportPlan, Bind, Rebind, BoundPhase, MemoryWrite
  <1>12. QED
    BY <1>10, <1>11

\* Whatever commits after a call has awaited the Control Plane is decided on
\* the present task: nothing a call does comes too late.
THEOREM OutcomeAlwaysMatches == ReplanSpec => OutcomeMatchesTask
  <1>1. Typed /\ Locked /\ [ReplanNext]_allVars =>
          [\A c \in Calls :
             call[c].pc = "answered" /\ call'[c].pc = "idle" /\ revision' # revision =>
               /\ call[c].intent = intent
               /\ call[c].op = "execute" =>
                    /\ phase' = "implementing"
                    /\ writer = "CODEX" /\ IsApproved(call[c].plan)
                    /\ runtime' = runtime]_<<rowVars, controlVars>>
    BY OutcomeStep
  <1>2. QED
    BY <1>1, LockedAlways, PTL DEF ReplanSpec, OutcomeMatchesTask

\* The steps that change the status of a replan whose interrupt is pending.
LEMMA PendingStep ==
  ASSUME Typed, [ReplanNext]_allVars, NEW r \in Replans,
         replan[r].status = "INTERRUPT_PENDING"
  PROVE  \/ Finalize(r)
         \/ /\ replan'[r].status = "SUPERSEDED"
            /\ attempt'[r] = attempt[r]
         \/ /\ replan'[r].status = "INTERRUPT_PENDING"
            /\ attempt[r].pc = "idle" => attempt'[r].pc = "idle"
  <1>1. CASE UNCHANGED replanVars
    BY <1>1 DEF replanVars
  <1>2. CASE ReplanRequest \/ ReplanStep
    <2>1. \A s \in {"INTERRUPT_PENDING", "SNAPSHOT_READY", "READY_TO_PLAN", "PLANNING",
            "PLAN_REVIEW", "COMPLETED", "INTERRUPT_FAILED"} : s \in ReplanStatuses
      BY DEF ReplanStatuses, OpenStatuses
    <2>2. revision \in Nat
      BY DEF Typed, ReplanTypeOK, LeaseTypeOK
    <2>3. ASSUME NEW q \in Replans, BeginWithRemote(q) \/ BeginAlone(q)
          PROVE  replan'[r].status = "SUPERSEDED" /\ attempt'[r] = attempt[r]
      <3>1. PICK s \in {"INTERRUPT_PENDING", "SNAPSHOT_READY"} : Supersede(q, s)
        BY <2>3, BeginEffect
      <3>2. r # q
        BY <3>1 DEF Supersede
      <3>3. revision' \in Nat
        <4>1. revision' \in {revision + 1, revision + 2}
          BY <2>3, BeginEffect, Zenon
        <4>2. QED
          BY <2>2, <4>1
      <3>4. replan'[r].status = "SUPERSEDED"
        BY <2>1, <3>1, <3>2, <3>3, SupersedeEffect DEF OpenStatuses
      <3>5. attempt'[r] = attempt[r]
        BY <2>3, <3>2, BeginEffect, AwaitEffect
      <3>6. QED
        BY <3>4, <3>5
    <2>4. ASSUME NEW q \in Replans, RetryInterrupt(q) \/ Classify(q)
          PROVE  replan'[r] = replan[r] /\ attempt'[r] = attempt[r]
      <3>1. /\ r # q
            /\ \E s \in ReplanStatuses : SetReplan(q, s)
            /\ Forget(q) \/ \E b \in BOOLEAN : Await(q, b)
        <4>1. r # q
          BY <2>4 DEF RetryInterrupt, Classify
        <4>2. \E s \in ReplanStatuses : SetReplan(q, s)
          BY <2>1, <2>4 DEF RetryInterrupt, Classify
        <4>3. Forget(q) \/ \E b \in BOOLEAN : Await(q, b)
          BY <2>4, Zenon DEF RetryInterrupt, Classify
        <4>4. QED
          BY <4>1, <4>2, <4>3
      <3>2. replan'[r] = replan[r]
        BY <3>1, SetReplanTyped
      <3>3. r \in Replans \ {q}
        BY <3>1
      <3>4. attempt'[r] = attempt[r]
        BY <3>1, <3>3, ForgetEffect, AwaitEffect, Zenon
      <3>5. QED
        BY <3>2, <3>4
    <2>5. ASSUME NEW q \in Replans, InterruptRemote(q)
          PROVE  replan'[r] = replan[r] /\ (attempt[r].pc = "idle" => attempt'[r].pc = "idle")
      BY <2>5, InterruptRemoteEffect
    <2>6. ASSUME NEW q \in Replans \ {r}, Finalize(q)
          PROVE  replan'[r] = replan[r] /\ attempt'[r] = attempt[r]
      BY <2>1, <2>6, SetReplanTyped, ForgetEffect, AttemptMoved DEF Finalize, Settle
    <2>7. ASSUME NEW q \in Replans, LoseAttempt(q)
          PROVE  replan'[r] = replan[r] /\ (attempt[r].pc = "idle" => attempt'[r].pc = "idle")
      BY <2>7, ForgetEffect DEF LoseAttempt
    <2>8. ASSUME NEW q \in Replans,
                 BindReplanWorkflow(q) \/ BindReplanPlanReview(q) \/ CompleteReplanOnExecution(q)
          PROVE  replan'[r] = replan[r] /\ attempt'[r] = attempt[r]
      <3>1. r # q /\ attempt' = attempt /\ \E s \in ReplanStatuses : SetReplan(q, s)
        BY <2>1, <2>8 DEF BindReplanWorkflow, BindReplanPlanReview, CompleteReplanOnExecution
      <3>2. QED
        BY <3>1, SetReplanTyped
    <2>9. QED
      BY <1>2, <2>3, <2>4, <2>5, <2>6, <2>7, <2>8 DEF ReplanRequest, ReplanStep
  <1>3. QED
    BY <1>1, <1>2 DEF ReplanNext, allVars

\* Only the answer to a replan's own present attempt settles it, under its own
\* goal and with no plan left.
THEOREM AlwaysSettlesOwn == ReplanSpec => SettlesOwnAttempt
  <1>1. Typed /\ Locked /\ [ReplanNext]_allVars =>
          [\A r \in Replans :
             /\ replan[r].status = "INTERRUPT_PENDING"
             /\ replan'[r].status \in {"SNAPSHOT_READY", "INTERRUPT_FAILED"}
             => /\ attempt[r].rev = revision
                /\ attempt[r].retry \/ (/\ replan[r].target = intent
                                        /\ \A p \in Plans : ~Current(p))]_allVars
    <2> SUFFICES ASSUME Typed, Locked, [ReplanNext]_allVars, NEW r \in Replans,
                        replan[r].status = "INTERRUPT_PENDING",
                        replan'[r].status \in {"SNAPSHOT_READY", "INTERRUPT_FAILED"}
                 PROVE  /\ attempt[r].rev = revision
                        /\ attempt[r].retry \/ (/\ replan[r].target = intent
                                                /\ \A p \in Plans : ~Current(p))
      OBVIOUS
    <2>1. Finalize(r)
      BY PendingStep
    <2>2. attempt[r].pc \in {"ok", "failed"} /\ attempt[r].rev = revision
      BY <2>1 DEF Finalize
    <2>3. QED
      BY <2>2 DEF Locked, AttemptIsCurrent
  <1>2. QED
    BY <1>1, LockedAlways, PTL DEF ReplanSpec, SettlesOwnAttempt

-----------------------------------------------------------------------------
(* Who holds a workflow *)

\* A call other than a start found its workflow in the runtime row.
FoundInRow(c) ==
  call[c].pc # "idle" /\ call[c].op # "start" =>
    call[c].wf = runtime \/ call[c].wf \in abandoned

StartHolds(c, w) ==
  call[c].op = "start" /\ call[c].wf = w /\ call[c].pc \in {"answered", "undoing"}

HeldOrGone(w) ==
  Active(w) => \/ runtime = w
               \/ w \in abandoned
               \/ \E c \in Calls : StartHolds(c, w)

Holding ==
  /\ \A c \in Calls : FoundInRow(c)
  /\ \A w \in WorkflowIds : HeldOrGone(w)

LEMMA InitHolding ==
  ASSUME ControlInit
  PROVE  Holding
  BY DEF ControlInit, Holding, FoundInRow, HeldOrGone, Active, Idle

\* No workflow begins to work.
Calmer == \A w : Active(w)' => Active(w)

LEMMA StopCalms ==
  ASSUME NEW w, StopWorkflow(w)
  PROVE  Calmer /\ ~Active(w)'
  <1>1. CASE Active(w)
    <2>1. remote' = [v \in DOMAIN remote \cup {w} |->
                       IF v = w THEN [status |-> "interrupted", text |-> remote[w].text]
                       ELSE remote[v]]
      BY <1>1 DEF StopWorkflow, SetWorkflow
    <2>2. QED
      BY <1>1, <2>1 DEF Active, Calmer
  <1>2. CASE ~Active(w)
    BY <1>2 DEF StopWorkflow, Active, Calmer
  <1>3. QED
    BY <1>1, <1>2

LEMMA WorkflowStepCalms ==
  ASSUME NEW w \in DOMAIN remote, WorkflowStep(w)
  PROVE  Calmer
  <1>1. PICK s, t : s \in {"planned", "finished"} /\ SetWorkflow(w, s, t)
    BY DEF WorkflowStep
  <1>2. QED
    BY <1>1 DEF SetWorkflow, Active, Calmer

LEMMA SameCalms == UNCHANGED remote => Calmer
  BY DEF Calmer, Active

\* Serving a call makes at most its own workflow work, and only a start that
\* creates it or an execution can do so.
LEMMA ServeWakesOwn ==
  ASSUME Typed, NEW c \in Calls, Serve(c)
  PROVE  /\ \A w : Active(w)' /\ ~Active(w) =>
              /\ w = call[c].wf
              /\ \/ call[c].op = "start" /\ w \notin DOMAIN remote
                 \/ call[c].op = "execute"
         /\ call[c].pc = "asked"
         /\ call'[c].pc = "answered" /\ SameCapture(c)
         /\ \A d \in Calls \ {c} : call'[d] = call[d]
         /\ UNCHANGED <<rowVars, taskDocVars, runtime, abandoned>>
  <1>1. /\ call[c].pc = "asked" /\ Move(c, "answered") /\ "answered" \in CallStates
        /\ UNCHANGED <<rowVars, taskDocVars, runtime, abandoned>>
    BY DEF Serve, CallStates
  <1>2. /\ call'[c].pc = "answered" /\ SameCapture(c)
        /\ \A d \in Calls \ {c} : call'[d] = call[d]
    BY <1>1, MoveTyped
  <1>3. ASSUME NEW s, NEW t, SetWorkflow(call[c].wf, s, t)
        PROVE  \A w : Active(w)' /\ ~Active(w) => w = call[c].wf
    BY <1>3 DEF SetWorkflow, Active
  <1>4. \A w : Active(w)' /\ ~Active(w) =>
          /\ w = call[c].wf
          /\ \/ call[c].op = "start" /\ w \notin DOMAIN remote
             \/ call[c].op = "execute"
    <2>1. CASE call[c].op = "start" /\ call[c].wf \notin DOMAIN remote
               /\ SetWorkflow(call[c].wf, "planning", NoText)
      BY <1>3, <2>1
    <2>2. CASE call[c].op = "execute"
               /\ SetWorkflow(call[c].wf, "executing", remote[call[c].wf].text)
      BY <1>3, <2>2
    <2>3. CASE UNCHANGED remote \/ StopWorkflow(call[c].wf)
      BY <2>3, SameCalms, StopCalms DEF Calmer
    <2>4. QED
      BY <2>1, <2>2, <2>3 DEF Serve
  <1>5. QED
    BY <1>1, <1>2, <1>4

\* What keeps Holding when nothing begins to work and the row stays.
LEMMA HoldingKept ==
  ASSUME Typed, Holding, Calmer, UNCHANGED runtime, abandoned \subseteq abandoned',
         \A c \in Calls :
           /\ \/ call'[c].pc = "idle" \/ (call[c].pc # "idle" /\ SameCapture(c))
              \/ call'[c].op = "start" \/ call'[c].wf = runtime
           /\ \A w \in WorkflowIds :
                StartHolds(c, w) => StartHolds(c, w)' \/ w \in abandoned' \/ ~Active(w)'
  PROVE  Holding'
  <1>1. \A c \in Calls : FoundInRow(c)'
    BY DEF Holding, FoundInRow, SameCapture
  <1>2. \A w \in WorkflowIds : HeldOrGone(w)'
    BY DEF Holding, HeldOrGone, Calmer
  <1>3. QED
    BY <1>1, <1>2 DEF Holding

LEMMA BeginsHolding ==
  ASSUME Typed, Holding, NEW c \in Calls, CallRequest(c)
  PROVE  Holding'
  <1>1. PICK o \in Operations, w \in WorkflowIds, p \in Plans \cup {NoPlan},
             s \in {"reading", "asked"} : Begins(c, o, w, p, s)
    BY CallRequestBegins
  <1>2. /\ UNCHANGED <<runtime, remote, abandoned>> /\ call[c].pc = "idle"
        /\ call' = [call EXCEPT ![c] = [pc |-> s, op |-> o, rev |-> revision, intent |-> intent,
                                        wf |-> w, plan |-> p, text |-> NoText]]
        /\ o # "start" => w = runtime
    BY <1>1 DEF Begins, Open
  <1>3. call \in [Calls -> CallType]
    BY DEF Typed, ReplanTypeOK, ControlTypeOK
  <1>4. call'[c].op = "start" \/ call'[c].wf = runtime
    BY <1>2, <1>3
  <1>5. \A d \in Calls \ {c} : call'[d] = call[d]
    BY <1>2, <1>3
  <1>6. \A d \in Calls, v \in WorkflowIds : StartHolds(d, v) => StartHolds(d, v)'
    BY <1>2, <1>5 DEF StartHolds
  <1>7. \A d \in Calls : \/ call'[d].pc = "idle" \/ (call[d].pc # "idle" /\ SameCapture(d))
                         \/ call'[d].op = "start" \/ call'[d].wf = runtime
    BY <1>4, <1>5 DEF SameCapture
  <1>8. QED
    BY <1>2, <1>6, <1>7, SameCalms, HoldingKept

LEMMA CallActionHolding ==
  ASSUME Typed, Holding, NEW c \in Calls,
         \/ ReadStatus(c) \/ ImportPlan(c) \/ BindStale(c) \/ Refuse(c) \/ Undo(c) \/ Lose(c)
  PROVE  Holding'
  <1>1. /\ call'[c].pc = "idle" \/ (call[c].pc # "idle" /\ SameCapture(c))
        /\ \A d \in Calls \ {c} : call'[d] = call[d]
    BY CallActionShape
  <1>2. \A d \in Calls : call'[d].pc = "idle" \/ (call[d].pc # "idle" /\ SameCapture(d))
    BY <1>1 DEF SameCapture
  <1>3. \A d \in Calls \ {c}, w \in WorkflowIds : StartHolds(d, w) => StartHolds(d, w)'
    BY <1>1 DEF StartHolds
  <1>4. UNCHANGED runtime /\ abandoned \subseteq abandoned'
    BY DEF ReadStatus, ImportPlan, BindStale, Refuse, Undo, Lose
  <1>5. Calmer
    <2>1. CASE Undo(c)
      BY <2>1, StopCalms DEF Undo
    <2>2. CASE UNCHANGED remote
      BY <2>2, SameCalms
    <2>3. QED
      BY <2>1, <2>2 DEF ReadStatus, ImportPlan, BindStale, Refuse, Lose
  <1>6. ASSUME NEW w \in WorkflowIds, StartHolds(c, w)
        PROVE  StartHolds(c, w)' \/ w \in abandoned' \/ ~Active(w)'
    <2>1. call[c].op = "start" /\ call[c].wf = w /\ call[c].pc \in {"answered", "undoing"}
      BY <1>6 DEF StartHolds
    <2>2. CASE BindStale(c)
      <3>1. Move(c, "undoing") /\ "undoing" \in CallStates
        BY <2>1, <2>2 DEF BindStale, CallStates
      <3>2. QED
        BY <2>1, <3>1, MoveTyped DEF StartHolds, SameCapture
    <2>3. CASE Undo(c)
      BY <2>1, <2>3, StopCalms DEF Undo
    <2>4. CASE Lose(c)
      BY <2>1, <2>4 DEF Lose, HoldingStates
    <2>5. QED
      BY <2>1, <2>2, <2>3, <2>4 DEF ReadStatus, ImportPlan, Refuse
  <1>7. QED
    BY <1>2, <1>3, <1>4, <1>5, <1>6, HoldingKept

LEMMA ServeHolding ==
  ASSUME Typed, Holding, NEW c \in Calls, Serve(c)
  PROVE  Holding'
  <1>1. /\ \A w : Active(w)' /\ ~Active(w) =>
             /\ w = call[c].wf
             /\ call[c].op = "start" \/ call[c].op = "execute"
        /\ call[c].pc = "asked"
        /\ call'[c].pc = "answered" /\ SameCapture(c)
        /\ \A d \in Calls \ {c} : call'[d] = call[d]
        /\ UNCHANGED <<runtime, abandoned>>
    BY ServeWakesOwn
  <1>2. \A d \in Calls : FoundInRow(d)'
    BY <1>1 DEF Holding, FoundInRow, SameCapture
  <1>3. \A d \in Calls, w \in WorkflowIds : StartHolds(d, w) => StartHolds(d, w)'
    BY <1>1 DEF StartHolds
  <1>4. ASSUME NEW w \in WorkflowIds PROVE HeldOrGone(w)'
    <2>1. CASE Active(w)
      BY <1>1, <1>3, <2>1 DEF Holding, HeldOrGone
    <2>2. CASE ~Active(w) /\ Active(w)' /\ call[c].op = "start"
      <3>1. StartHolds(c, w)'
        BY <1>1, <2>2 DEF StartHolds, SameCapture
      <3>2. QED
        BY <3>1 DEF HeldOrGone
    <2>3. CASE ~Active(w) /\ Active(w)' /\ call[c].op = "execute"
      BY <1>1, <2>3 DEF Holding, FoundInRow, HeldOrGone
    <2>4. QED
      BY <1>1, <2>1, <2>2, <2>3 DEF HeldOrGone
  <1>5. QED
    BY <1>2, <1>4 DEF Holding

LEMMA BindHolding ==
  ASSUME Typed, Holding, NEW c \in Calls, Bind(c)
  PROVE  Holding'
  <1>1. /\ call[c].pc = "answered"
        /\ runtime' = call[c].wf /\ UNCHANGED remote
        /\ abandoned' = IF runtime \in {NoWorkflow, call[c].wf} THEN abandoned
                        ELSE abandoned \cup {runtime}
        /\ call'[c].pc = "idle"
        /\ \A d \in Calls \ {c} : call'[d] = call[d]
    BY EndTyped DEF Bind, Rebind
  <1>2. \A d \in Calls : call[d].pc # "idle" => call[d].wf # NoWorkflow
    BY ControlAssumption DEF Typed, Known
  <1>3. \A d \in Calls : FoundInRow(d)'
    BY <1>1, <1>2 DEF Holding, FoundInRow
  <1>4. ASSUME NEW w \in WorkflowIds PROVE HeldOrGone(w)'
    <2>1. SUFFICES ASSUME Active(w)
                   PROVE  \/ runtime' = w \/ w \in abandoned'
                          \/ \E d \in Calls : StartHolds(d, w)'
      BY <1>1 DEF HeldOrGone, Active
    <2>2. CASE runtime = w
      BY <1>1, <2>2, ControlAssumption
    <2>3. CASE w \in abandoned
      BY <1>1, <2>3
    <2>4. CASE \E d \in Calls : StartHolds(d, w)
      BY <1>1, <2>4 DEF StartHolds
    <2>5. QED
      BY <2>1, <2>2, <2>3, <2>4 DEF Holding, HeldOrGone
  <1>5. QED
    BY <1>3, <1>4 DEF Holding

LEMMA NextHolding == Typed /\ Holding /\ [ReplanNext]_allVars => Holding'
  <1> SUFFICES ASSUME Typed, Holding, [ReplanNext]_allVars PROVE Holding'
    OBVIOUS
  <1>1. ASSUME UNCHANGED <<runtime, call, abandoned>>, Calmer PROVE Holding'
    BY <1>1, HoldingKept DEF SameCapture, StartHolds
  <1>2. CASE TaskRequest \/ UNCHANGED allVars
    BY <1>1, <1>2, SameCalms DEF TaskRequest, allVars, controlVars
  <1>3. ASSUME NEW c \in Calls, CallRequest(c) PROVE Holding'
    BY <1>3, BeginsHolding
  <1>4. CASE ControlStep
    <2>1. ASSUME NEW w \in DOMAIN remote, WorkflowStep(w) PROVE Holding'
      BY <1>1, <2>1, WorkflowStepCalms DEF WorkflowStep
    <2>2. QED
      BY <1>4, <2>1, CallActionHolding, ServeHolding, BindHolding DEF ControlStep
  <1>5. ASSUME NEW r \in Replans, InterruptRemote(r) PROVE Holding'
    <2>1. UNCHANGED <<runtime, call, abandoned>> /\ (StopWorkflow(replan[r].snapshot) \/ UNCHANGED remote)
      BY <1>5, InterruptRemoteEffect
    <2>2. QED
      BY <1>1, <2>1, StopCalms, SameCalms
  <1>6. CASE ReplanRequest
    BY <1>1, <1>6, SameCalms
    DEF ReplanRequest, BeginWithRemote, BeginAlone, Supersede, RetryInterrupt, Classify, controlVars
  <1>7. CASE ReplanStep
    BY <1>1, <1>5, <1>7, SameCalms
    DEF ReplanStep, Finalize, LoseAttempt, BindReplanWorkflow, BindReplanPlanReview,
        CompleteReplanOnExecution, controlVars
  <1>8. QED
    BY <1>2, <1>3, <1>4, <1>6, <1>7 DEF ReplanNext

\* Every workflow at work is the bound one or has its start in flight, unless
\* the call that set it going was lost or a later start took its place.
THEOREM NeverSilentOrphan == ReplanSpec => []NoSilentOrphan
  <1>1. LeaseInit /\ PlanInit /\ ControlInit /\ ReplanInit => Typed /\ Holding
    BY InitTyped, InitHolding
  <1>2. Typed /\ Holding => NoSilentOrphan
    BY DEF Typed, ReplanTypeOK, ControlTypeOK, Holding, HeldOrGone, StartHolds, NoSilentOrphan, Held,
           HoldingStates
  <1>3. QED
    BY <1>1, <1>2, NextTyped, NextHolding, PTL DEF ReplanSpec

-----------------------------------------------------------------------------
(* What an interrupted workflow may still be waiting for *)

SnapshotKnown ==
  \A r \in Replans : replan[r].snapshot # NoWorkflow => replan[r].snapshot \in DOMAIN remote

\* A settled replan belongs to an earlier revision, and nothing is awaited for it.
ReadyIsOlder ==
  \A r \in Replans :
    /\ replan[r].status = "SNAPSHOT_READY" => attempt[r].rev < revision
    /\ replan[r].status \in {"none", "SNAPSHOT_READY"} => attempt[r].pc = "idle"

\* An execution that came too late and is still to be compensated.
Compensating(c, w) ==
  /\ call[c].op = "execute" /\ call[c].wf = w
  /\ call[c].pc \in {"answered", "undoing"}
  /\ call[c].rev < revision

JustInterrupted(r) ==
  /\ ~attempt[r].retry
  /\ \/ /\ replan[r].status = "INTERRUPT_PENDING"
        /\ attempt[r].pc = "ok" /\ attempt[r].rev = revision
     \/ /\ replan[r].status = "SNAPSHOT_READY"
        /\ attempt[r].rev + 1 = revision

Excused(w) ==
  Active(w) => w \in abandoned \/ \E c \in Calls : Compensating(c, w)

Quiet(r) ==
  JustInterrupted(r) => (\A p \in Plans : ~Current(p)) /\ Excused(replan[r].snapshot)

Settled == SnapshotKnown /\ ReadyIsOlder /\ \A r \in Replans : Quiet(r)

LEMMA InitSettled ==
  ASSUME LeaseInit, ControlInit, ReplanInit
  PROVE  Settled
  BY DEF LeaseInit, ControlInit, ReplanInit, Settled, SnapshotKnown, ReadyIsOlder, Quiet,
         JustInterrupted, NoAttempt

LEMMA CallsKeepReplans ==
  ASSUME Typed, Settled, UNCHANGED replanVars, RowShape, DOMAIN remote \subseteq DOMAIN remote'
  PROVE  /\ SnapshotKnown' /\ ReadyIsOlder'
         /\ revision' = revision =>
              \A r \in Replans : /\ JustInterrupted(r)' => JustInterrupted(r)
                                 /\ \A p \in Plans : Current(p)' <=> Current(p)
         /\ revision' # revision /\ Locked => \A r \in Replans : ~JustInterrupted(r)'
  <1>1. SnapshotKnown'
    BY DEF Settled, SnapshotKnown, replanVars
  <1>2. /\ revision \in Nat /\ revision' \in Nat /\ revision' >= revision
        /\ \A r \in Replans : attempt[r].rev \in Nat
    BY DEF Typed, ReplanTypeOK, LeaseTypeOK, RowShape
  <1>3. ReadyIsOlder'
    BY <1>2 DEF Settled, ReadyIsOlder, replanVars
  <1>4. revision' = revision =>
          \A r \in Replans : /\ JustInterrupted(r)' => JustInterrupted(r)
                             /\ \A p \in Plans : Current(p)' <=> Current(p)
    BY DEF JustInterrupted, replanVars, RowShape, LockedRows, Current
  <1>5. ASSUME revision' # revision, Locked, NEW r \in Replans PROVE ~JustInterrupted(r)'
    <2>1. /\ attempt[r].rev <= revision
          /\ replan[r].status = "SNAPSHOT_READY" => attempt[r].rev < revision
          /\ attempt' = attempt /\ replan' = replan
      BY <1>5 DEF Locked, Settled, ReadyIsOlder, replanVars
    <2>2. QED
      BY <1>2, <1>5, <2>1 DEF JustInterrupted
  <1>6. QED
    BY <1>1, <1>3, <1>4, <1>5

LEMMA CompensatingKept ==
  ASSUME Typed, Locked, NEW c \in Calls,
         ReadStatus(c) \/ ImportPlan(c) \/ Bind(c) \/ BindStale(c) \/ Refuse(c) \/ Undo(c) \/ Lose(c),
         UNCHANGED revision,
         NEW w, Compensating(c, w)
  PROVE  Compensating(c, w)' \/ w \in abandoned' \/ ~Active(w)'
  <1>1. /\ call[c].op = "execute" /\ call[c].wf = w
        /\ call[c].pc \in {"answered", "undoing"}
        /\ call[c].rev < revision
    BY DEF Compensating
  <1>2. CASE BindStale(c)
    <2>1. Move(c, "undoing") /\ "undoing" \in CallStates
      BY <1>1, <1>2 DEF BindStale, CallStates
    <2>2. QED
      BY <1>1, <2>1, MoveTyped DEF Compensating, SameCapture
  <1>3. CASE Undo(c)
    BY <1>1, <1>3, StopCalms DEF Undo
  <1>4. CASE Lose(c)
    BY <1>1, <1>4 DEF Lose, HoldingStates
  <1>5. CASE Bind(c)
    <2>1. revision \in Nat /\ revision' = revision + 1
      BY <1>5 DEF Bind, Rebind, MemoryWrite, Bump, Typed, ReplanTypeOK, LeaseTypeOK
    <2>2. QED
      BY <2>1
  <1>6. QED
    BY <1>1, <1>2, <1>3, <1>4, <1>5 DEF ReadStatus, ImportPlan, Refuse

LEMMA CallActionSettled ==
  ASSUME Typed, Locked, Settled, UNCHANGED replanVars, NEW c \in Calls,
         ReadStatus(c) \/ ImportPlan(c) \/ Bind(c) \/ BindStale(c) \/ Refuse(c) \/ Undo(c) \/ Lose(c)
  PROVE  Settled'
  <1>1. RowShape
    <2>1. ControlStep
      BY DEF ControlStep
    <2>2. QED
      BY <2>1, ControlStepShape DEF StepShape
  <1>2. \A d \in Calls \ {c} : call'[d] = call[d]
    BY CallActionShape
  <1>3. DOMAIN remote' = DOMAIN remote /\ Calmer /\ abandoned \subseteq abandoned'
    <2>1. RemoteTyped
      BY RowsTypedIsTyped DEF Typed
    <2>2. CASE Undo(c)
      BY <2>1, <2>2, StopCalms, StopWorkflowTyped DEF Undo
    <2>3. CASE ReadStatus(c) \/ ImportPlan(c) \/ Bind(c) \/ BindStale(c) \/ Refuse(c) \/ Lose(c)
      BY <2>3, SameCalms DEF ReadStatus, ImportPlan, Bind, Rebind, BindStale, Refuse, Lose
    <2>4. QED
      BY <2>2, <2>3
  <1>4. SnapshotKnown' /\ ReadyIsOlder'
    BY <1>1, <1>3, CallsKeepReplans
  <1>5. CASE revision' # revision
    <2>1. \A r \in Replans : ~JustInterrupted(r)'
      BY <1>1, <1>3, <1>5, CallsKeepReplans
    <2>2. QED
      BY <1>4, <2>1 DEF Settled, Quiet
  <1>6. CASE revision' = revision
    <2>1. ASSUME NEW r \in Replans, JustInterrupted(r)'
          PROVE  (\A p \in Plans : ~Current(p)') /\ Excused(replan[r].snapshot)'
      <3>1. JustInterrupted(r) /\ \A p \in Plans : Current(p)' <=> Current(p)
        BY <1>1, <1>3, <1>6, <2>1, CallsKeepReplans
      <3>2. (\A p \in Plans : ~Current(p)) /\ Excused(replan[r].snapshot)
        BY <3>1 DEF Settled, Quiet
      <3>3. replan' = replan
        BY DEF replanVars
      <3>4. DEFINE w == replan[r].snapshot
      <3>5. \A d \in Calls \ {c} : Compensating(d, w) => Compensating(d, w)'
        BY <1>2, <1>6, <3>3 DEF Compensating
      <3>6. Compensating(c, w) => Compensating(c, w)' \/ w \in abandoned' \/ ~Active(w)'
        BY <1>6, <3>3, CompensatingKept
      <3>7. Excused(w)'
        BY <1>3, <1>6, <3>2, <3>3, <3>5, <3>6 DEF Calmer, Excused
      <3>8. QED
        BY <3>1, <3>2, <3>3, <3>7
    <2>2. QED
      BY <1>4, <2>1 DEF Settled, Quiet, replanVars
  <1>7. QED
    BY <1>5, <1>6

\* The steps that leave every call, and what it may be waiting for, alone.
LEMMA QuietKept ==
  ASSUME Typed, Locked, Settled, RowShape, UNCHANGED replanVars,
         DOMAIN remote \subseteq DOMAIN remote', Calmer, UNCHANGED abandoned,
         \A c \in Calls, w \in WorkflowIds :
           revision' = revision /\ Compensating(c, w) => Compensating(c, w)'
  PROVE  Settled'
  <1>1. SnapshotKnown' /\ ReadyIsOlder'
    BY CallsKeepReplans
  <1>2. CASE revision' # revision
    BY <1>1, <1>2, CallsKeepReplans DEF Settled, Quiet
  <1>3. CASE revision' = revision
    <2>1. ASSUME NEW r \in Replans, JustInterrupted(r)'
          PROVE  (\A p \in Plans : ~Current(p)') /\ Excused(replan[r].snapshot)'
      <3>1. JustInterrupted(r) /\ \A p \in Plans : Current(p)' <=> Current(p)
        BY <1>3, <2>1, CallsKeepReplans
      <3>2. (\A p \in Plans : ~Current(p)) /\ Excused(replan[r].snapshot)
        BY <3>1 DEF Settled, Quiet
      <3>3. replan' = replan
        BY DEF replanVars
      <3>4. Active(replan[r].snapshot)' => /\ Active(replan[r].snapshot)
                                           /\ replan[r].snapshot \in WorkflowIds
        BY <3>3 DEF Calmer, Active, Typed, ReplanTypeOK, ControlTypeOK
      <3>5. Excused(replan[r].snapshot)'
        BY <1>3, <3>2, <3>3, <3>4 DEF Excused
      <3>6. QED
        BY <3>1, <3>2, <3>5
    <2>2. QED
      BY <1>1, <2>1 DEF Settled, Quiet
  <1>4. QED
    BY <1>2, <1>3

LEMMA BeginsSettled ==
  ASSUME Typed, Locked, Settled, UNCHANGED replanVars, NEW c \in Calls, CallRequest(c)
  PROVE  Settled'
  <1>1. PICK o \in Operations, w \in WorkflowIds, p \in Plans \cup {NoPlan},
             s \in {"reading", "asked"} : Begins(c, o, w, p, s)
    BY CallRequestBegins
  <1>2. /\ UNCHANGED <<rowVars, taskDocVars, runtime, remote, abandoned>> /\ call[c].pc = "idle"
        /\ call' = [call EXCEPT ![c] = [pc |-> s, op |-> o, rev |-> revision, intent |-> intent,
                                        wf |-> w, plan |-> p, text |-> NoText]]
    BY <1>1 DEF Begins, Open
  <1>3. \A d \in Calls \ {c} : call'[d] = call[d]
    BY <1>2 DEF Typed, ReplanTypeOK, ControlTypeOK
  <1>4. \A d \in Calls, v \in WorkflowIds :
          revision' = revision /\ Compensating(d, v) => Compensating(d, v)'
    BY <1>2, <1>3 DEF Compensating
  <1>5. QED
    BY <1>2, <1>4, QuietShapes, SameCalms, QuietKept

LEMMA ServeSettled ==
  ASSUME Typed, Locked, Settled, UNCHANGED replanVars, NEW c \in Calls, Serve(c)
  PROVE  Settled'
  <1>1. /\ \A w : Active(w)' /\ ~Active(w) =>
             /\ w = call[c].wf
             /\ (call[c].op = "start" /\ w \notin DOMAIN remote) \/ call[c].op = "execute"
        /\ call[c].pc = "asked"
        /\ call'[c].pc = "answered" /\ SameCapture(c)
        /\ \A d \in Calls \ {c} : call'[d] = call[d]
        /\ UNCHANGED <<rowVars, taskDocVars, runtime, abandoned>>
    BY ServeWakesOwn
  <1>2. RowShape /\ UNCHANGED revision
    BY <1>1, QuietShapes DEF rowVars, taskVars
  <1>3. DOMAIN remote \subseteq DOMAIN remote'
    BY ServeTyped
  <1>4. SnapshotKnown' /\ ReadyIsOlder'
    BY <1>2, <1>3, CallsKeepReplans
  <1>5. ASSUME NEW r \in Replans, JustInterrupted(r)'
        PROVE  (\A p \in Plans : ~Current(p)') /\ Excused(replan[r].snapshot)'
    <2> DEFINE w == replan[r].snapshot
    <2>1. JustInterrupted(r) /\ \A p \in Plans : Current(p)' <=> Current(p)
      BY <1>2, <1>3, <1>5, CallsKeepReplans
    <2>2. (\A p \in Plans : ~Current(p)) /\ Excused(w)
      BY <2>1 DEF Settled, Quiet
    <2>3. replan' = replan
      BY DEF replanVars
    <2>4. CASE Active(w)
      <3>1. w \in abandoned \/ \E d \in Calls : Compensating(d, w)
        BY <2>2, <2>4 DEF Excused
      <3>2. \A d \in Calls : Compensating(d, w) => Compensating(d, w)'
        BY <1>1, <1>2, <2>3 DEF Compensating
      <3>3. QED
        BY <1>1, <2>1, <2>2, <2>3, <3>1, <3>2 DEF Excused
    <2>5. CASE ~Active(w) /\ Active(w)'
      <3>1. w = call[c].wf /\ (call[c].op = "execute" \/ w \notin DOMAIN remote)
        BY <1>1, <2>3, <2>5 DEF Active
      <3>2. w \in DOMAIN remote
        <4>1. call[c].wf # NoWorkflow
          BY <1>1, ControlAssumption DEF Typed, Known
        <4>2. QED
          BY <3>1, <4>1 DEF Settled, SnapshotKnown
      <3>3. call[c].op = "execute"
        BY <3>1, <3>2
      <3>4. call[c].rev < revision
        <4>1. ~IsApproved(call[c].plan)
          BY <1>1, <2>2, <3>3 DEF Current, IsApproved, Typed, Known
        <4>2. call[c].rev # revision
          BY <1>1, <3>3, <4>1 DEF Locked, CapturedIsCurrent
        <4>3. call[c].rev <= revision /\ call[c].rev \in Nat /\ revision \in Nat
          BY <1>1 DEF Locked, Typed, ReplanTypeOK, LeaseTypeOK, ControlTypeOK, CallType
        <4>4. QED
          BY <4>2, <4>3
      <3>5. Compensating(c, w)'
        BY <1>1, <1>2, <2>3, <3>1, <3>3, <3>4 DEF Compensating, SameCapture
      <3>6. QED
        BY <2>1, <2>2, <2>3, <3>5 DEF Excused
    <2>6. CASE ~Active(w)'
      BY <2>1, <2>2, <2>3, <2>6 DEF Excused
    <2>7. QED
      BY <2>4, <2>5, <2>6
  <1>6. QED
    BY <1>4, <1>5 DEF Settled, Quiet

\* The other replans of a step on one of them.
LEMMA OtherQuiet ==
  ASSUME Typed, Locked, Settled, RowShape, NEW q \in Replans,
         replan'[q] = replan[q], attempt'[q] = attempt[q],
         UNCHANGED <<call, abandoned>>, Calmer
  PROVE  Quiet(q)'
  <1>1. /\ revision \in Nat /\ revision' \in Nat /\ revision' >= revision
        /\ attempt[q].rev \in Nat /\ attempt[q].rev <= revision
        /\ replan[q].status = "SNAPSHOT_READY" => attempt[q].rev < revision
    BY DEF Typed, ReplanTypeOK, LeaseTypeOK, RowShape, Locked, Settled, ReadyIsOlder
  <1>2. CASE revision' # revision
    BY <1>1, <1>2 DEF Quiet, JustInterrupted
  <1>3. CASE revision' = revision
    <2>1. JustInterrupted(q)' => JustInterrupted(q)
      BY <1>3 DEF JustInterrupted
    <2>2. planStatus' = planStatus
      BY <1>3 DEF RowShape, LockedRows
    <2>3. \A d \in Calls : Compensating(d, replan[q].snapshot) => Compensating(d, replan[q].snapshot)'
      BY <1>3 DEF Compensating
    <2>4. Active(replan[q].snapshot)' => Active(replan[q].snapshot)
      BY DEF Calmer, Active
    <2>5. Excused(replan[q].snapshot) => Excused(replan[q].snapshot)'
      BY <2>3, <2>4 DEF Excused
    <2>6. QED
      BY <2>1, <2>2, <2>5 DEF Settled, Quiet, Current
  <1>4. QED
    BY <1>2, <1>3

LEMMA BeginSettled ==
  ASSUME Typed, Locked, Settled, NEW r \in Replans, BeginWithRemote(r) \/ BeginAlone(r)
  PROVE  Settled'
  <1>1. PICK s \in {"INTERRUPT_PENDING", "SNAPSHOT_READY"} :
          Supersede(r, s) /\ (s = "SNAPSHOT_READY" => revision' = revision + 2)
    BY BeginEffect, Zenon
  <1>2. revision' \in {revision + 1, revision + 2}
    BY BeginEffect, Zenon
  <1>3. /\ revision \in Nat /\ revision' > revision /\ revision' \in Nat
        /\ \A q \in Replans : attempt[q].rev \in Nat /\ attempt[q].rev <= revision
    BY <1>2 DEF Typed, ReplanTypeOK, LeaseTypeOK, Locked
  <1>4. s \in ReplanStatuses
    BY DEF ReplanStatuses, OpenStatuses
  <1>5. /\ replan'[r].status = s /\ replan'[r].snapshot = runtime
        /\ \A q \in Replans \ {r} :
             \/ replan'[q] = replan[q] /\ replan[q].status \notin OpenStatuses
             \/ /\ replan'[q].status = "SUPERSEDED"
                /\ replan'[q].snapshot = replan[q].snapshot
        /\ UNCHANGED <<runtime, remote>>
    <2>1. /\ replan'[r] = [status |-> s, target |-> intent', snapshot |-> runtime]
          /\ \A q \in Replans \ {r} :
               \/ replan'[q] = replan[q] /\ replan[q].status \notin OpenStatuses
               \/ /\ replan'[q].status = "SUPERSEDED"
                  /\ replan'[q].snapshot = replan[q].snapshot
          /\ UNCHANGED <<runtime, remote>>
      BY <1>1, <1>3, <1>4, SupersedeEffect, Zenon
    <2>2. replan'[r].status = s /\ replan'[r].snapshot = runtime
      BY <2>1
    <2>3. QED
      BY <2>1, <2>2
  <1>6. /\ attempt[r].pc = "idle"
        /\ \A q \in Replans \ {r} : attempt'[q] = attempt[q]
        /\ \/ attempt'[r] = attempt[r]
           \/ attempt'[r].pc = "asked" /\ replan'[r].status = "INTERRUPT_PENDING"
    <2>1. attempt[r].pc = "idle"
      BY <1>1 DEF Supersede, Settled, ReadyIsOlder
    <2>2. CASE UNCHANGED attempt
      BY <2>1, <2>2
    <2>3. CASE Await(r, FALSE) /\ Supersede(r, "INTERRUPT_PENDING")
      <3>1. /\ attempt'[r] = [pc |-> "asked", rev |-> revision + 1, retry |-> FALSE]
            /\ \A q \in Replans \ {r} : attempt'[q] = attempt[q]
        BY <2>3, AwaitEffect
      <3>2. "INTERRUPT_PENDING" \in ReplanStatuses
        BY DEF ReplanStatuses, OpenStatuses
      <3>3. replan'[r].status = "INTERRUPT_PENDING"
        <4>1. replan'[r] = [status |-> "INTERRUPT_PENDING", target |-> intent', snapshot |-> runtime]
          BY <1>3, <2>3, <3>2, SupersedeEffect, Zenon
        <4>2. QED
          BY <4>1
      <3>4. QED
        BY <2>1, <3>1, <3>3
    <2>4. QED
      BY <2>2, <2>3, BeginEffect, Zenon
  <1>7. SnapshotKnown'
    BY <1>5 DEF Typed, Known, Settled, SnapshotKnown
  <1>8. ReadyIsOlder'
    BY <1>3, <1>5, <1>6 DEF Settled, ReadyIsOlder, OpenStatuses
  <1>9. ASSUME NEW q \in Replans PROVE ~JustInterrupted(q)'
    <2>1. CASE q = r
      <3>1. CASE attempt'[r] = attempt[r]
        BY <1>1, <1>2, <1>3, <1>5, <1>6, <2>1, <3>1 DEF JustInterrupted
      <3>2. CASE attempt'[r].pc = "asked" /\ replan'[r].status = "INTERRUPT_PENDING"
        BY <2>1, <3>2 DEF JustInterrupted
      <3>3. QED
        BY <1>6, <3>1, <3>2
    <2>2. CASE q # r
      BY <1>5, <2>2 DEF JustInterrupted, OpenStatuses
    <2>3. QED
      BY <2>1, <2>2
  <1>10. QED
    BY <1>7, <1>8, <1>9 DEF Settled, Quiet

\* A step that sets the status of one replan and what it awaits.
LEMMA OneReplanSettled ==
  ASSUME Typed, Locked, Settled, RowShape, NEW r \in Replans,
         UNCHANGED <<call, abandoned>>, Calmer, DOMAIN remote \subseteq DOMAIN remote',
         \A q \in Replans \ {r} : replan'[q] = replan[q] /\ attempt'[q] = attempt[q],
         replan'[r].snapshot = replan[r].snapshot,
         replan'[r].status = "SNAPSHOT_READY" => attempt'[r].rev < revision',
         replan'[r].status \in {"none", "SNAPSHOT_READY"} => attempt'[r].pc = "idle",
         Quiet(r)'
  PROVE  Settled'
  <1>1. /\ revision \in Nat /\ revision' \in Nat /\ revision' >= revision
        /\ \A q \in Replans : attempt[q].rev \in Nat
    BY DEF Typed, ReplanTypeOK, LeaseTypeOK, RowShape
  <1>2. SnapshotKnown'
    BY DEF Settled, SnapshotKnown
  <1>3. ReadyIsOlder'
    BY <1>1 DEF Settled, ReadyIsOlder
  <1>4. \A q \in Replans : Quiet(q)'
    BY OtherQuiet
  <1>5. QED
    BY <1>2, <1>3, <1>4 DEF Settled

LEMMA ReplanActionSettled ==
  ASSUME Typed, Locked, Settled, ReplanRequest \/ ReplanStep
  PROVE  Settled'
  <1>1. RowShape
    BY ReplanActionShape DEF StepShape
  <1>2. /\ revision \in Nat
        /\ \A q \in Replans : attempt[q].rev \in Nat /\ attempt[q].rev <= revision
        /\ \A s \in {"SNAPSHOT_READY", "INTERRUPT_FAILED", "INTERRUPT_PENDING",
             "READY_TO_PLAN", "PLANNING", "PLAN_REVIEW", "COMPLETED"} : s \in ReplanStatuses
    BY DEF ReplanStatuses, OpenStatuses, Typed, ReplanTypeOK, LeaseTypeOK, Locked
  <1>3. \A q \in Replans :
          /\ replan[q].status = "SNAPSHOT_READY" => attempt[q].rev < revision
          /\ replan[q].status \in {"none", "SNAPSHOT_READY"} => attempt[q].pc = "idle"
    BY DEF Settled, ReadyIsOlder
  <1>4. ASSUME NEW r \in Replans, BeginWithRemote(r) \/ BeginAlone(r) PROVE Settled'
    BY <1>4, BeginSettled
  <1>5. ASSUME NEW r \in Replans, RetryInterrupt(r) PROVE Settled'
    <2>1. SetReplan(r, "INTERRUPT_PENDING") /\ (\E b \in BOOLEAN : Await(r, b)) /\ UNCHANGED controlVars
      BY <1>5, Zenon DEF RetryInterrupt
    <2>2. /\ replan'[r].status = "INTERRUPT_PENDING" /\ replan'[r].snapshot = replan[r].snapshot
          /\ \A q \in Replans \ {r} : replan'[q] = replan[q]
      BY <1>2, <2>1, SetReplanTyped
    <2>3. attempt'[r].pc = "asked" /\ \A q \in Replans \ {r} : attempt'[q] = attempt[q]
      <3>1. PICK b \in BOOLEAN : Await(r, b)
        BY <2>1, Zenon
      <3>2. /\ attempt'[r] = [pc |-> "asked", rev |-> revision + 1, retry |-> b]
            /\ \A q \in Replans \ {r} : attempt'[q] = attempt[q]
        BY <3>1, AwaitEffect, Zenon
      <3>3. QED
        BY <3>2
    <2>4. Quiet(r)'
      BY <2>2, <2>3 DEF Quiet, JustInterrupted
    <2>5. UNCHANGED <<call, abandoned, remote>>
      BY <2>1 DEF controlVars
    <2>6. QED
      BY <1>1, <2>2, <2>3, <2>4, <2>5, SameCalms, OneReplanSettled
  <1>6. ASSUME NEW r \in Replans, Classify(r) PROVE Settled'
    <2>1. SetReplan(r, "READY_TO_PLAN") /\ Forget(r) /\ UNCHANGED <<call, abandoned, remote>>
      BY <1>6 DEF Classify, controlVars
    <2>2. /\ replan'[r].status = "READY_TO_PLAN" /\ replan'[r].snapshot = replan[r].snapshot
          /\ \A q \in Replans \ {r} : replan'[q] = replan[q] /\ attempt'[q] = attempt[q]
      BY <1>2, <2>1, SetReplanTyped, ForgetEffect
    <2>3. Quiet(r)'
      BY <2>2 DEF Quiet, JustInterrupted
    <2>4. QED
      BY <1>1, <2>1, <2>2, <2>3, SameCalms, OneReplanSettled
  <1>7. ASSUME NEW r \in Replans, InterruptRemote(r) PROVE Settled'
    <2>1. /\ UNCHANGED <<rowVars, taskDocVars, runtime, call, abandoned, replan>>
          /\ attempt[r].pc = "asked"
          /\ StopWorkflow(replan[r].snapshot) \/ UNCHANGED remote
          /\ attempt'[r].pc = "ok" => StopWorkflow(replan[r].snapshot)
          /\ attempt'[r].rev = attempt[r].rev /\ attempt'[r].retry = attempt[r].retry
          /\ \A q \in Replans \ {r} : attempt'[q] = attempt[q]
      BY <1>7, InterruptRemoteEffect
    <2>2. Calmer /\ DOMAIN remote \subseteq DOMAIN remote'
      BY <2>1, StopCalms, SameCalms, StopWorkflowTyped, RowsTypedIsTyped DEF Typed
    <2>3. replan[r].status \notin {"none", "SNAPSHOT_READY"}
      BY <1>3, <2>1
    <2>4. ASSUME JustInterrupted(r)'
          PROVE  (\A p \in Plans : ~Current(p)') /\ Excused(replan[r].snapshot)'
      <3>1. /\ ~attempt[r].retry
            /\ replan[r].status = "INTERRUPT_PENDING"
            /\ attempt'[r].pc = "ok" /\ attempt[r].rev = revision
        BY <2>1, <2>3, <2>4 DEF JustInterrupted, rowVars, taskVars
      <3>2. \A p \in Plans : ~Current(p)
        BY <2>1, <3>1 DEF Locked, AttemptIsCurrent
      <3>3. ~Active(replan[r].snapshot)'
        BY <2>1, <3>1, StopCalms DEF Active
      <3>4. QED
        BY <2>1, <3>2, <3>3 DEF Current, taskDocVars, Excused
    <2>5. Quiet(r)'
      BY <2>4 DEF Quiet
    <2>6. QED
      BY <1>1, <2>1, <2>2, <2>3, <2>5, OneReplanSettled
  <1>8. ASSUME NEW r \in Replans, Finalize(r) PROVE Settled'
    <2>1. UNCHANGED <<call, abandoned, remote, planStatus>> /\ attempt[r].pc \in {"ok", "failed"}
      BY <1>8 DEF Finalize, controlVars, taskDocVars
    <2>2. CASE /\ attempt[r].rev = revision /\ attempt[r].pc = "ok"
               /\ replan[r].status = "INTERRUPT_PENDING"
               /\ Settle(r, "SNAPSHOT_READY", "paused")
      <3>1. /\ replan'[r].status = "SNAPSHOT_READY" /\ replan'[r].snapshot = replan[r].snapshot
            /\ \A q \in Replans \ {r} : replan'[q] = replan[q]
        BY <1>2, <2>2, SetReplanTyped DEF Settle
      <3>2. /\ attempt'[r].pc = "idle"
            /\ attempt'[r].rev = attempt[r].rev /\ attempt'[r].retry = attempt[r].retry
            /\ \A q \in Replans \ {r} : attempt'[q] = attempt[q]
        BY <2>2, AttemptMoved DEF Settle
      <3>3. revision' = revision + 1
        BY <2>2 DEF Settle, MemoryWrite, Bump
      <3>4. Quiet(r)'
        <4>1. JustInterrupted(r)' => JustInterrupted(r)
          BY <2>2, <3>2 DEF JustInterrupted
        <4>2. \A d \in Calls : call[d].rev \in Nat
          BY DEF Typed, ReplanTypeOK, ControlTypeOK, CallType
        <4>3. \A d \in Calls :
                Compensating(d, replan[r].snapshot) => Compensating(d, replan[r].snapshot)'
          BY <1>2, <2>1, <3>1, <3>3, <4>2 DEF Compensating
        <4>4. Active(replan[r].snapshot)' <=> Active(replan[r].snapshot)
          BY <2>1, <3>1 DEF Active
        <4>5. QED
          BY <2>1, <3>1, <4>1, <4>3, <4>4 DEF Settled, Quiet, Excused, Current
      <3>5. QED
        BY <1>1, <1>2, <2>1, <2>2, <3>1, <3>2, <3>3, <3>4, SameCalms, OneReplanSettled
    <2>3. CASE /\ replan[r].status = "INTERRUPT_PENDING"
               /\ Settle(r, "INTERRUPT_FAILED", "blocked")
      <3>1. /\ replan'[r].status = "INTERRUPT_FAILED" /\ replan'[r].snapshot = replan[r].snapshot
            /\ \A q \in Replans \ {r} : replan'[q] = replan[q]
        BY <1>2, <2>3, SetReplanTyped DEF Settle
      <3>2. \A q \in Replans \ {r} : attempt'[q] = attempt[q]
        BY <2>3, AttemptMoved DEF Settle
      <3>3. Quiet(r)'
        BY <3>1 DEF Quiet, JustInterrupted
      <3>4. QED
        BY <1>1, <2>1, <3>1, <3>2, <3>3, SameCalms, OneReplanSettled
    <2>4. CASE Forget(r) /\ UNCHANGED <<rowVars, replan>>
      <3>1. /\ attempt'[r].pc = "idle"
            /\ \A q \in Replans \ {r} : attempt'[q] = attempt[q]
        BY <2>4, ForgetEffect
      <3>2. replan[r].status # "SNAPSHOT_READY"
        BY <1>3, <2>1
      <3>3. Quiet(r)'
        BY <2>4, <3>1, <3>2 DEF Quiet, JustInterrupted
      <3>4. QED
        BY <1>1, <2>1, <2>4, <3>1, <3>2, <3>3, SameCalms, OneReplanSettled
    <2>5. QED
      BY <1>8, <2>2, <2>3, <2>4 DEF Finalize
  <1>9. ASSUME NEW r \in Replans, LoseAttempt(r) PROVE Settled'
    <2>1. /\ UNCHANGED <<call, abandoned, remote, replan>> /\ attempt[r].pc # "idle"
          /\ attempt'[r].pc = "idle"
          /\ \A q \in Replans \ {r} : attempt'[q] = attempt[q]
      BY <1>9, ForgetEffect DEF LoseAttempt, controlVars
    <2>2. replan[r].status # "SNAPSHOT_READY"
      BY <1>3, <2>1
    <2>3. Quiet(r)'
      BY <2>1, <2>2 DEF Quiet, JustInterrupted
    <2>4. QED
      BY <1>1, <2>1, <2>2, <2>3, SameCalms, OneReplanSettled
  <1>10. ASSUME NEW r \in Replans,
                BindReplanWorkflow(r) \/ BindReplanPlanReview(r) \/ CompleteReplanOnExecution(r)
         PROVE  Settled'
    <2>1. /\ UNCHANGED <<call, abandoned, remote, attempt>>
          /\ \E s \in ReplanStatuses \ {"none", "INTERRUPT_PENDING", "SNAPSHOT_READY"} : SetReplan(r, s)
      BY <1>2, <1>10
      DEF BindReplanWorkflow, BindReplanPlanReview, CompleteReplanOnExecution, controlVars
    <2>2. /\ replan'[r].status \notin {"none", "INTERRUPT_PENDING", "SNAPSHOT_READY"}
          /\ replan'[r].snapshot = replan[r].snapshot
          /\ \A q \in Replans \ {r} : replan'[q] = replan[q]
      BY <2>1, SetReplanTyped
    <2>3. Quiet(r)'
      BY <2>2 DEF Quiet, JustInterrupted
    <2>4. QED
      BY <1>1, <2>1, <2>2, <2>3, SameCalms, OneReplanSettled
  <1>11. QED
    BY <1>4, <1>5, <1>6, <1>7, <1>8, <1>9, <1>10 DEF ReplanRequest, ReplanStep

LEMMA NextSettled == Typed /\ Locked /\ Settled /\ [ReplanNext]_allVars => Settled'
  <1> SUFFICES ASSUME Typed, Locked, Settled, [ReplanNext]_allVars PROVE Settled'
    OBVIOUS
  <1>1. RowShape
    BY NextShape DEF StepShape
  <1>2. ASSUME UNCHANGED <<call, abandoned, replanVars>>, Calmer, DOMAIN remote \subseteq DOMAIN remote'
        PROVE  Settled'
    <2>1. \A c \in Calls, w \in WorkflowIds :
            revision' = revision /\ Compensating(c, w) => Compensating(c, w)'
      BY <1>2 DEF Compensating
    <2>2. QED
      BY <1>1, <1>2, <2>1, QuietKept
  <1>3. CASE (TaskRequest /\ UNCHANGED replanVars) \/ UNCHANGED allVars
    <2>1. UNCHANGED <<call, abandoned, replanVars, remote>>
      BY <1>3 DEF TaskRequest, allVars, controlVars
    <2>2. QED
      BY <1>2, <2>1, SameCalms
  <1>4. ASSUME NEW c \in Calls, CallRequest(c), UNCHANGED replanVars PROVE Settled'
    BY <1>4, BeginsSettled
  <1>5. CASE ControlStep /\ UNCHANGED replanVars
    <2>1. ASSUME NEW w \in DOMAIN remote, WorkflowStep(w) PROVE Settled'
      <3>1. Calmer /\ DOMAIN remote' = DOMAIN remote
        BY <2>1, WorkflowStepCalms, WorkflowStepTyped, RowsTypedIsTyped DEF Typed
      <3>2. QED
        BY <1>2, <1>5, <2>1, <3>1 DEF WorkflowStep
    <2>2. QED
      BY <1>5, <2>1, CallActionSettled, ServeSettled DEF ControlStep
  <1>6. CASE ReplanRequest \/ ReplanStep
    BY <1>6, ReplanActionSettled
  <1>7. QED
    BY <1>3, <1>4, <1>5, <1>6 DEF ReplanNext

\* Right after a first interrupt has settled its replan, the interrupted
\* workflow works on only by an execution that was on its way before and is
\* still to be compensated, or by one that was lost.
THEOREM SnapshotAlwaysQuiet == ReplanSpec => []SnapshotIsQuiet
  <1>1. LeaseInit /\ PlanInit /\ ControlInit /\ ReplanInit => Typed /\ Locked /\ Settled
    BY InitTyped, InitLocked, InitSettled
  <1>2. Settled => SnapshotIsQuiet
    BY DEF Settled, Quiet, JustInterrupted, Excused, Compensating, SnapshotIsQuiet, HoldingStates
  <1>3. QED
    BY <1>1, <1>2, NextTyped, NextLocked, NextSettled, PTL DEF ReplanSpec

-----------------------------------------------------------------------------
(* The latest override *)

\* An override targets the intent it creates, and the intent never goes back.
Ordered ==
  /\ \A r \in Replans : replan[r].status # "none" => replan[r].target <= intent
  /\ LatestOverrideStands

LEMMA InitOrdered == ReplanInit => Ordered
  BY DEF ReplanInit, Ordered, LatestOverrideStands, OpenStatuses

\* A replan that was begun stays so with its target, and one that is open was.
ReplansAge ==
  \A r \in Replans :
    /\ replan'[r].target = replan[r].target
    /\ replan'[r].status # "none" => replan[r].status # "none"
    /\ replan'[r].status \in OpenStatuses => replan[r].status \in OpenStatuses

LEMMA OrderKept ==
  ASSUME Typed, Typed', Ordered, ReplansAge, intent' \in {intent, intent + 1}
  PROVE  Ordered'
  <1>1. /\ intent \in Nat /\ intent' \in Nat
        /\ \A r \in Replans : replan[r].target \in Nat
    BY DEF Typed, ReplanTypeOK, ControlTypeOK
  <1>2. \A r \in Replans : replan'[r].status # "none" => replan'[r].target <= intent'
    BY <1>1 DEF Ordered, ReplansAge
  <1>3. LatestOverrideStands'
    BY DEF Ordered, ReplansAge, LatestOverrideStands
  <1>4. QED
    BY <1>2, <1>3 DEF Ordered

LEMMA SetReplanAges ==
  ASSUME Typed, NEW r \in Replans, NEW s \in ReplanStatuses \ {"none"},
         SetReplan(r, s), replan[r].status \in OpenStatuses
  PROVE  ReplansAge
  <1>1. /\ replan'[r].target = replan[r].target
        /\ \A q \in Replans \ {r} : replan'[q] = replan[q]
    BY SetReplanTyped
  <1>2. replan[r].status # "none"
    BY DEF OpenStatuses
  <1>3. QED
    BY <1>1, <1>2 DEF ReplansAge

LEMMA SupersedeOrders ==
  ASSUME Typed, Typed', Ordered, NEW r \in Replans, BeginWithRemote(r) \/ BeginAlone(r)
  PROVE  Ordered'
  <1>1. PICK s \in {"INTERRUPT_PENDING", "SNAPSHOT_READY"} : Supersede(r, s)
    BY BeginEffect
  <1>2. s \in ReplanStatuses /\ revision' \in Nat
    BY DEF ReplanStatuses, OpenStatuses, Typed, ReplanTypeOK, LeaseTypeOK
  <1>3. /\ replan'[r] = [status |-> s, target |-> intent', snapshot |-> runtime]
        /\ intent' = intent + 1
        /\ \A q \in Replans \ {r} :
             \/ replan'[q] = replan[q] /\ replan[q].status \notin OpenStatuses
             \/ /\ replan'[q].status = "SUPERSEDED"
                /\ replan'[q].target = replan[q].target
                /\ replan[q].status \in OpenStatuses
    BY <1>1, <1>2, SupersedeEffect
  <1>4. intent \in Nat /\ \A q \in Replans : replan[q].target \in Nat
    BY DEF Typed, ReplanTypeOK, ControlTypeOK
  <1>5. \A q \in Replans \ {r} :
          /\ replan'[q].status # "none" => replan'[q].target <= intent
          /\ replan'[q].status \notin OpenStatuses
    BY <1>3 DEF Ordered, OpenStatuses
  <1>6. replan'[r].target = intent + 1
    BY <1>3
  <1>7. \A q \in Replans : replan'[q].status # "none" => replan'[q].target <= intent'
    BY <1>3, <1>4, <1>5, <1>6 DEF Typed, ReplanTypeOK
  <1>8. LatestOverrideStands'
    BY <1>4, <1>5, <1>6 DEF LatestOverrideStands, Typed, ReplanTypeOK
  <1>9. QED
    BY <1>7, <1>8 DEF Ordered

LEMMA NextOrdered == Typed /\ Ordered /\ [ReplanNext]_allVars => Ordered'
  <1> SUFFICES ASSUME Typed, Ordered, [ReplanNext]_allVars PROVE Ordered'
    OBVIOUS
  <1>1. Typed'
    BY NextTyped
  <1>2. ASSUME UNCHANGED replanVars, intent' \in {intent, intent + 1} PROVE Ordered'
    <2>1. ReplansAge
      BY <1>2 DEF ReplansAge, replanVars
    <2>2. QED
      BY <1>1, <1>2, <2>1, OrderKept
  <1>3. CASE TaskRequest /\ UNCHANGED replanVars
    <2>1. intent' \in {intent, intent + 1}
      BY <1>3 DEF TaskRequest, taskDocVars, UpdateIntent, DraftPlan, DecidePlan
    <2>2. QED
      BY <1>2, <1>3, <2>1
  <1>4. CASE UNCHANGED replanVars /\ ((\E c \in Calls : CallRequest(c)) \/ ControlStep \/ UNCHANGED allVars)
    <2>1. intent' = intent
      BY <1>4
      DEF CallRequest, StartPlan, ImportLatestPlan, ExecuteApprovedPlan, SoftSteer, Interrupt,
          AnswerInteraction, Open, ControlStep, ReadStatus, ImportPlan, DraftPlan, Bind, Rebind, BindStale,
          Serve, Refuse, Undo, Lose, WorkflowStep, taskDocVars, allVars, controlVars
    <2>2. QED
      BY <1>2, <1>4, <2>1
  <1>5. ASSUME NEW r \in Replans, BeginWithRemote(r) \/ BeginAlone(r) PROVE Ordered'
    BY <1>1, <1>5, SupersedeOrders
  <1>6. ASSUME NEW r \in Replans,
               \/ RetryInterrupt(r) \/ Classify(r) \/ Finalize(r) \/ InterruptRemote(r) \/ LoseAttempt(r)
               \/ BindReplanWorkflow(r) \/ BindReplanPlanReview(r) \/ CompleteReplanOnExecution(r)
        PROVE  Ordered'
    <2>1. intent' = intent
      BY <1>6
      DEF RetryInterrupt, Classify, Finalize, InterruptRemote, LoseAttempt, BindReplanWorkflow,
          BindReplanPlanReview, CompleteReplanOnExecution, controlVars, taskDocVars
    <2>2. \/ UNCHANGED replan
          \/ /\ replan[r].status \in OpenStatuses
             /\ \E s \in ReplanStatuses \ {"none"} : SetReplan(r, s)
      BY <1>6
      DEF RetryInterrupt, Classify, Finalize, Settle, InterruptRemote, LoseAttempt, BindReplanWorkflow,
          BindReplanPlanReview, CompleteReplanOnExecution, OpenStatuses, ReplanStatuses
    <2>3. ReplansAge
      BY <2>2, SetReplanAges DEF ReplansAge
    <2>4. QED
      BY <1>1, <2>1, <2>3, OrderKept
  <1>7. CASE UNCHANGED allVars
    BY <1>2, <1>7 DEF allVars, controlVars, taskDocVars
  <1>8. ASSUME NEW c \in Calls, CallRequest(c), UNCHANGED replanVars PROVE Ordered'
    BY <1>4, <1>8
  <1>9. CASE ReplanRequest \/ ReplanStep
    BY <1>5, <1>6, <1>9 DEF ReplanRequest, ReplanStep
  <1>10. QED
    BY <1>3, <1>4, <1>7, <1>8, <1>9 DEF ReplanNext

\* However overrides, late answers, retries, reviews and completions follow on
\* each other, an open replan is the newest of its task and the only open one.
THEOREM LatestAlwaysStands == ReplanSpec => []LatestOverrideStands
  <1>1. LeaseInit /\ PlanInit /\ ControlInit /\ ReplanInit => Typed /\ Ordered
    BY InitTyped, InitOrdered
  <1>2. Ordered => LatestOverrideStands
    BY DEF Ordered
  <1>3. QED
    BY <1>1, <1>2, NextTyped, NextOrdered, PTL DEF ReplanSpec

-----------------------------------------------------------------------------
(* The plan gate beside overrides and imports *)

\* What a write may do to the plan rows: retire all that are current, or one
\* decision of the gate.
PlansDecided ==
  \/ UNCHANGED planStatus
  \/ RetirePlans
  \/ \E p \in Plans : CreatePlan(p) \/ ApprovePlan(p) \/ RejectPlan(p)

LEMMA NextDecides ==
  ASSUME [ReplanNext]_allVars
  PROVE  PlansDecided
  <1>1. CASE TaskRequest
    BY <1>1 DEF TaskRequest, taskDocVars, UpdateIntent, DraftPlan, DecidePlan, PlansDecided
  <1>2. ASSUME NEW c \in Calls, CallRequest(c) PROVE PlansDecided
    BY <1>2
    DEF CallRequest, StartPlan, ImportLatestPlan, ExecuteApprovedPlan, SoftSteer, Interrupt,
        AnswerInteraction, Open, taskDocVars, PlansDecided
  <1>3. CASE ControlStep
    BY <1>3
    DEF ControlStep, ReadStatus, ImportPlan, DraftPlan, Bind, Rebind, BindStale, Serve, Refuse, Undo,
        Lose, WorkflowStep, taskDocVars, PlansDecided
  <1>4. ASSUME NEW r \in Replans, BeginWithRemote(r) \/ BeginAlone(r) PROVE PlansDecided
    BY <1>4 DEF BeginWithRemote, BeginAlone, Supersede, PlansDecided
  <1>5. ASSUME NEW r \in Replans,
               \/ RetryInterrupt(r) \/ Classify(r) \/ Finalize(r) \/ InterruptRemote(r) \/ LoseAttempt(r)
               \/ BindReplanWorkflow(r) \/ BindReplanPlanReview(r) \/ CompleteReplanOnExecution(r)
        PROVE  PlansDecided
    BY <1>5
    DEF RetryInterrupt, Classify, Finalize, InterruptRemote, LoseAttempt, BindReplanWorkflow,
        BindReplanPlanReview, CompleteReplanOnExecution, controlVars, taskDocVars, PlansDecided
  <1>6. CASE ReplanRequest \/ ReplanStep
    BY <1>4, <1>5, <1>6 DEF ReplanRequest, ReplanStep
  <1>7. CASE UNCHANGED allVars
    BY <1>7 DEF allVars, controlVars, taskDocVars, PlansDecided
  <1>8. QED
    BY <1>1, <1>2, <1>3, <1>6, <1>7 DEF ReplanNext

LEMMA DecidedKeepsOne ==
  ASSUME PlanTypeOK, OneApprovedPlan, PlansDecided
  PROVE  OneApprovedPlan'
  <1>1. CASE UNCHANGED planStatus \/ RetirePlans
    BY <1>1 DEF OneApprovedPlan, IsApproved, RetirePlans, Current
  <1>2. ASSUME NEW p \in Plans, CreatePlan(p) \/ RejectPlan(p) PROVE OneApprovedPlan'
    <2>1. \A q \in Plans : planStatus'[q] = "APPROVED" => planStatus[q] = "APPROVED"
      BY <1>2 DEF CreatePlan, RejectPlan, PlanTypeOK
    <2>2. QED
      BY <2>1 DEF OneApprovedPlan, IsApproved
  <1>3. ASSUME NEW p \in Plans, ApprovePlan(p) PROVE OneApprovedPlan'
    <2>1. \A q \in Plans : planStatus'[q] = "APPROVED" => q = p
      BY <1>3 DEF ApprovePlan, IsApproved
    <2>2. QED
      BY <2>1 DEF OneApprovedPlan, IsApproved
  <1>4. QED
    BY <1>1, <1>2, <1>3 DEF PlansDecided

\* An import in flight and an override may race with a decision of the plan
\* gate, and still the task never has two approved plans to execute.
THEOREM OneApprovedBesideReplans == ReplanSpec => []OneApprovedPlan
  <1>1. PlanInit => OneApprovedPlan
    BY DEF PlanInit, OneApprovedPlan, IsApproved
  <1>2. Typed /\ OneApprovedPlan /\ [ReplanNext]_allVars => OneApprovedPlan'
    BY NextDecides, DecidedKeepsOne DEF Typed, ReplanTypeOK
  <1>3. LeaseInit /\ PlanInit /\ ControlInit /\ ReplanInit => Typed
    BY InitTyped
  <1>4. QED
    BY <1>1, <1>2, <1>3, NextTyped, PTL DEF ReplanSpec
=============================================================================
