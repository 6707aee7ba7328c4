-------------------------------- MODULE Kandev --------------------------------
(***************************************************************************)
(* integrations/kandev_coordinator.py and memory/kandev_binding.py: a task *)
(* gets its Kandev task by a create that is idempotent in its external_id, *)
(* awaited and then bound at the revision the caller asserted.  The calls  *)
(* run in the processes of Migrations and die with them.                   *)
(***************************************************************************)
EXTENDS Migrations

CONSTANTS
  NoKandev,
  MaxRevision   \* bound: no request on a task at this revision or above

VARIABLES
  task,      \* per task: revision, intent_version, external_kandev_task_id
  kandev,    \* Kandev's tasks: external_id, and the supervisor task behind it
  provision  \* the provisioning call each process has in flight

kandevVars == <<task, kandev, provision>>
processVars == <<dbVars, process, kandevVars>>

\* external_id_for: one per supervisor task, the same for every attempt.  A
\* Kandev task is known by its external_id and, for an id of its own, a number.
ExternalIds == Tasks \X Nat

NoCall == [pc |-> "idle", task |-> NoKandev, rev |-> 0, intent |-> 0, id |-> NoKandev]

KandevTypeOK ==
  /\ MigrationTypeOK
  /\ task \in [Tasks -> [rev : Nat, intent : Nat, bound : ExternalIds \cup {NoKandev}]]
  /\ kandev \subseteq ExternalIds
  /\ provision \in [Processes -> [pc : {"idle", "asked", "answered"},
                                  task : Tasks \cup {NoKandev}, rev : Nat, intent : Nat,
                                  id : ExternalIds \cup {NoKandev}]]

KandevInit ==
  /\ MigrationInit
  /\ task = [t \in Tasks |-> [rev |-> 0, intent |-> 1, bound |-> NoKandev]]
  /\ kandev = {}
  /\ provision = [p \in Processes |-> NoCall]

\* provision_task: a bound task returns at once, and asks Kandev nothing.
ProvisionTask(p, t) ==
  /\ Serving(p)
  /\ provision[p].pc = "idle"
  /\ modeRow[t] # NoTask
  /\ task[t].bound = NoKandev
  /\ provision' = [provision EXCEPT ![p] =
       [pc |-> "asked", task |-> t, rev |-> task[t].rev, intent |-> task[t].intent,
        id |-> NoKandev]]
  /\ UNCHANGED <<dbVars, process, task, kandev>>

FaultyIdPerAttempt(p) ==
  /\ provision[p].pc = "asked"
  /\ LET id == <<provision[p].task, provision[p].rev>>
     IN /\ kandev' = kandev \cup {id}
        /\ \/ provision' = [provision EXCEPT ![p].pc = "answered", ![p].id = id]
           \/ provision' = [provision EXCEPT ![p] = NoCall]
  /\ UNCHANGED <<dbVars, process, task>>

\* create_task_kandev creates or reuses by external_id; the answer may be
\* lost, or be one no id can be extracted from.
CreateRemote(p) ==
  /\ provision[p].pc = "asked"
  /\ LET id == <<provision[p].task, 0>>
     IN /\ kandev' = kandev \cup {id}
        /\ \/ provision' = [provision EXCEPT ![p].pc = "answered", ![p].id = id]
           \/ provision' = [provision EXCEPT ![p] = NoCall]
  /\ UNCHANGED <<dbVars, process, task>>

CreateFails(p) ==
  /\ provision[p].pc = "asked"
  /\ provision' = [provision EXCEPT ![p] = NoCall]
  /\ UNCHANGED <<dbVars, process, task, kandev>>

FaultyBindAnyRevision(p) ==
  LET t == provision[p].task
  IN /\ provision[p].pc = "answered"
     /\ IF task[t].bound = NoKandev
        THEN task' = [task EXCEPT ![t].bound = provision[p].id, ![t].rev = @ + 1]
        ELSE UNCHANGED task
     /\ provision' = [provision EXCEPT ![p] = NoCall]
     /\ UNCHANGED <<dbVars, process, kandev>>

FaultyBindsOwnId(p) ==
  LET t == provision[p].task
  IN /\ provision[p].pc = "answered"
     /\ IF task[t].rev = provision[p].rev /\ task[t].bound = NoKandev
        THEN task' = [task EXCEPT ![t].bound = t, ![t].rev = @ + 1]
        ELSE UNCHANGED task
     /\ provision' = [provision EXCEPT ![p] = NoCall]
     /\ UNCHANGED <<dbVars, process, kandev>>

\* bind_kandev_task: STALE_CONTEXT when the task moved on meanwhile, a no-op
\* when it is bound already; the Kandev task stays for the next attempt.
BindKandevTask(p) ==
  LET t == provision[p].task
  IN /\ provision[p].pc = "answered"
     /\ IF task[t].rev = provision[p].rev /\ task[t].bound = NoKandev
        THEN task' = [task EXCEPT ![t].bound = provision[p].id, ![t].rev = @ + 1]
        ELSE UNCHANGED task
     /\ provision' = [provision EXCEPT ![p] = NoCall]
     /\ UNCHANGED <<dbVars, process, kandev>>

\* update_intent by any serving process.
UpdateGoal(p, t) ==
  /\ Serving(p)
  /\ modeRow[t] # NoTask
  /\ task' = [task EXCEPT ![t].rev = @ + 1, ![t].intent = @ + 1]
  /\ UNCHANGED <<dbVars, process, kandev, provision>>

\* A process takes its call with it.
StopProcess(p) ==
  /\ Stop(p)
  /\ provision' = [provision EXCEPT ![p] = NoCall]
  /\ UNCHANGED <<task, kandev>>

-----------------------------------------------------------------------------
\* A mode request is a write on the task like any other.
ChangeMode(p, t) ==
  /\ \E m \in Modes : SetMode(p, t, m)
  /\ task' = [task EXCEPT ![t].rev = @ + 1]
  /\ UNCHANGED <<kandev, provision>>

TaskRequest(p, t) ==
  \/ ProvisionTask(p, t)
  \/ UpdateGoal(p, t)
  \/ ChangeMode(p, t)

DatabaseStep(p) ==
  /\ UNCHANGED kandevVars
  /\ \/ \E b \in Binaries : Start(p, b)
     \/ MigrationStep(p)
     \/ \E t \in Tasks : CreateTask(p, t)

KandevNext ==
  \E p \in Processes :
    \/ DatabaseStep(p)
    \/ StopProcess(p)
    \/ \E t \in Tasks : task[t].rev < MaxRevision /\ TaskRequest(p, t)
    \/ CreateRemote(p) \/ CreateFails(p) \/ BindKandevTask(p)

KandevSpec == KandevInit /\ [][KandevNext]_processVars

-----------------------------------------------------------------------------
(* Properties *)

\* However many attempts were lost, stale or made by another process, a
\* supervisor task has one Kandev task at most, and it is the bound one.
OneKandevTask ==
  /\ \A i, j \in kandev : i[1] = j[1] => i = j
  /\ \A t \in Tasks : task[t].bound # NoKandev =>
       task[t].bound \in kandev /\ task[t].bound[1] = t

\* The binding is made while the goal is the one the call was made for.
BoundForPresentGoal ==
  [][\A t \in Tasks : task[t].bound # task'[t].bound =>
       \E p \in Processes :
         /\ provision[p].pc = "answered"
         /\ provision[p].task = t
         /\ provision[p].intent = task[t].intent
         /\ provision[p].id = task'[t].bound
    ]_processVars
=============================================================================
