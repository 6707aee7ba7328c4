------------------------------ MODULE Checkpoints ------------------------------
(***************************************************************************)
(* Observations of the running agent turned into checkpoints, and their    *)
(* review: supervisor/checkpoints.py over memory/checkpoint_store.py and   *)
(* memory/checkpoint_reviews.py.  A collection captures the task's         *)
(* revision and runtime, awaits the agent, classifies what it saw against  *)
(* the latest checkpoint and stores it at the captured revision; several   *)
(* may be in flight, of one Bridge process or of two.  A heartbeat leaves  *)
(* the revision alone, so it does not make the others stale.               *)
(***************************************************************************)
EXTENDS ExecutionLease, Sequences

CONSTANTS
  Collectors,    \* collections that may be in flight at once
  Observations,  \* what observing the agent may show
  Workflows,     \* workflow_ids
  NoWorkflow,
  MaxMoments,    \* bound: observations of a behaviour
  MaxBucket      \* bound: 180-second heartbeat buckets that pass

ReviewPhases == {"implementing", "supervisor_review", "final_review"}
Paths == {"agent", "control"}
Statuses == {"running", "completed", "blocked", "UNKNOWN"}

\* `work`: an item, file, validation or the like; `next`: the recommended
\* next action, which for an agent snapshot is its first next step.
ObservationType == [status : Statuses, work : BOOLEAN, next : {"none", "report"}]

\* Without a runtime row there is nothing to observe: every field is empty.
Nothing == [status |-> "none", work |-> FALSE, next |-> "none"]

ASSUME CheckpointsAssumption ==
  /\ ReviewPhases \subseteq Phases
  /\ Observations \subseteq ObservationType
  /\ NoWorkflow \notin Workflows

VARIABLES
  path,      \* whether the service was given an agent_backend or a coordinator
  runtime,   \* codex_runtime_state.workflow_id
  log,       \* codex_checkpoints by sequence, with whether they are reviewed
  collect,   \* the collections in flight
  moment,    \* history: numbers the observations in the order they were made
  bucket     \* the heartbeat bucket of now

checkpointVars == <<path, runtime, log, collect, moment, bucket>>
vars == <<rowVars, checkpointVars>>

Types == {"HEARTBEAT", "PROGRESS", "GATE"}
Idle ==
  [pc |-> "idle", rev |-> 0, wf |-> NoWorkflow, seen |-> 0, shown |-> Nothing,
   type |-> "none", bucket |-> 0]

Entries ==
  [type : Types, shown : ObservationType \cup {Nothing}, bucket : Nat, seen : Nat,
   wf : Workflows \cup {NoWorkflow}, reviewed : BOOLEAN]

CheckpointTypeOK ==
  /\ LeaseTypeOK
  /\ path \in Paths
  /\ runtime \in Workflows \cup {NoWorkflow}
  /\ log \in Seq(Entries)
  /\ collect \in [Collectors -> [pc : {"idle", "observing", "observed", "classified"},
                                 rev : Nat, wf : Workflows \cup {NoWorkflow}, seen : Nat,
                                 shown : ObservationType \cup {Nothing},
                                 type : Types \cup {"none"}, bucket : Nat]]
  /\ moment \in Nat
  /\ bucket \in Nat

CheckpointInit ==
  /\ LeaseInit
  /\ path \in Paths
  /\ runtime = NoWorkflow
  /\ log = <<>>
  /\ collect = [c \in Collectors |-> Idle]
  /\ moment = 0
  /\ bucket = 0

-----------------------------------------------------------------------------
(* Classification *)

\* UNKNOWN is a gate of normalize_agent_snapshot alone.
IsGate(o) == o.status = "blocked" \/ (path = "agent" /\ o.status = "UNKNOWN")

StatusChanged(o, previous) == o.status \notin {"none", previous.status}
NextChanged(o, previous) == o.next \notin {"none", previous.next}

\* `known` tells whether there is a previous checkpoint to compare with.  The
\* control path counts a terminal status as work, and a next action only
\* when it changed; the agent path counts any next step.
IsMaterial(o, known, previous) ==
  \/ o.work
  \/ known /\ StatusChanged(o, previous)
  \/ path = "control" /\ o.status = "completed"
  \/ path = "control" /\ known /\ NextChanged(o, previous)
  \/ path = "agent" /\ o.next # "none"

FaultyPreviousIsFirst(o) ==
  IF IsGate(o) THEN "GATE"
  ELSE IF IsMaterial(o, log # <<>>, log[1].shown) THEN "PROGRESS"
  ELSE "HEARTBEAT"

\* The previous checkpoint is the latest one, read after the observation.
Classify(o) ==
  IF IsGate(o) THEN "GATE"
  ELSE IF IsMaterial(o, log # <<>>, log[Len(log)].shown) THEN "PROGRESS"
  ELSE "HEARTBEAT"

Reviewable(e) == e.type # "HEARTBEAT"

\* What normalize_..._snapshot makes of an observation.  The fingerprint is a
\* hash of the type and of what was shown, and for a heartbeat of the bucket it
\* was classified in; neither the runtime nor the intent is in it.
Classified(r) ==
  [r EXCEPT !.pc = "classified", !.type = Classify(r.shown),
            !.bucket = IF Classify(r.shown) = "HEARTBEAT" THEN bucket ELSE 0]

Entry(r) ==
  [type |-> r.type, shown |-> r.shown, bucket |-> r.bucket, seen |-> r.seen, wf |-> r.wf,
   reviewed |-> FALSE]

SameFingerprint(e, f) == e.type = f.type /\ e.shown = f.shown /\ e.bucket = f.bucket

IsDuplicate(e) == \E k \in 1..Len(log) : SameFingerprint(e, log[k])

FaultyStoreKeepsRevision(e) ==
  IF IsDuplicate(e)
  THEN UNCHANGED <<rowVars, log>>
  ELSE /\ log' = Append(log, e)
       /\ phase' = IF Reviewable(e) THEN "supervisor_review" ELSE phase
       /\ UNCHANGED <<revision, leaseVars, safety, workVars>>

\* create_checkpoint: a fingerprint that any earlier checkpoint has, be it
\* long reviewed, is answered with that checkpoint and changes nothing.
Create(e) ==
  IF IsDuplicate(e)
  THEN UNCHANGED <<rowVars, log>>
  ELSE /\ log' = Append(log, e)
       /\ IF Reviewable(e) THEN MemoryWrite("supervisor_review") ELSE UNCHANGED rowVars

-----------------------------------------------------------------------------
(* Collection *)

\* No runtime, no await.  Classified and stored at once: nothing is compared
\* with the latest checkpoint, and a runtime bound between the two by another
\* process makes the collection stale.
CollectNothing(c) ==
  /\ runtime = NoWorkflow
  /\ collect[c].pc = "idle"
  /\ moment' = moment + 1
  /\ Create(Entry(Classified([Idle EXCEPT !.seen = moment + 1])))
  /\ UNCHANGED <<path, runtime, collect, bucket>>

Collect(c) ==
  /\ runtime # NoWorkflow
  /\ collect[c].pc = "idle"
  /\ collect' = [collect EXCEPT ![c] =
       [Idle EXCEPT !.pc = "observing", !.rev = revision, !.wf = runtime]]
  /\ UNCHANGED <<rowVars, path, runtime, log, moment, bucket>>

\* The agent answers for the workflow it was asked about.
Observe(c) ==
  /\ collect[c].pc = "observing"
  /\ moment' = moment + 1
  /\ \E o \in Observations :
       collect' = [collect EXCEPT ![c].pc = "observed", ![c].seen = moment + 1,
                                  ![c].shown = o]
  /\ UNCHANGED <<rowVars, path, runtime, log, bucket>>

\* The backend raises, or the caller is cancelled: nothing is stored.
Fail(c) ==
  /\ collect[c].pc # "idle"
  /\ collect' = [collect EXCEPT ![c] = Idle]
  /\ UNCHANGED <<rowVars, path, runtime, log, moment, bucket>>

\* The latest checkpoint is read and compared with before the transaction.
Normalize(c) ==
  /\ collect[c].pc = "observed"
  /\ collect' = [collect EXCEPT ![c] = Classified(collect[c])]
  /\ UNCHANGED <<rowVars, path, runtime, log, moment, bucket>>

FaultyStoreAnyRevision(c) ==
  /\ collect[c].pc = "classified"
  /\ Create(Entry(collect[c]))
  /\ collect' = [collect EXCEPT ![c] = Idle]
  /\ UNCHANGED <<path, runtime, moment, bucket>>

\* create_checkpoint at the captured revision; any write since the capture
\* makes it StaleRevisionError, which ends like a failed observation.
Store(c) ==
  /\ collect[c].pc = "classified"
  /\ collect[c].rev = revision
  /\ Create(Entry(collect[c]))
  /\ collect' = [collect EXCEPT ![c] = Idle]
  /\ UNCHANGED <<path, runtime, moment, bucket>>

-----------------------------------------------------------------------------
(* Review *)

Unreviewed(k) == Reviewable(log[k]) /\ ~log[k].reviewed

Decisions == {"CONTINUE", "STEER", "INTERRUPT", "REPLAN", "ACCEPT"}

FaultyAcceptEndsTask(d) ==
  CASE d \in {"CONTINUE", "STEER"} -> "implementing"
    [] d \in {"INTERRUPT", "REPLAN"} -> "supervisor_review"
    [] d = "ACCEPT" -> "accepted"

ReviewedPhase(d) ==
  CASE d \in {"CONTINUE", "STEER"} -> "implementing"
    [] d \in {"INTERRUPT", "REPLAN"} -> "supervisor_review"
    [] d = "ACCEPT" -> "final_review"

FaultyReviewAny(k, d) ==
  /\ Unreviewed(k)
  /\ log' = [log EXCEPT ![k].reviewed = TRUE]
  /\ MemoryWrite(ReviewedPhase(d))
  /\ UNCHANGED <<path, runtime, collect, moment, bucket>>

\* review_checkpoint: the present phase is not looked at, a heartbeat is
\* never reviewed, and older checkpoints wait for the newer ones.
Review(k, d) ==
  /\ Unreviewed(k)
  /\ \A l \in 1..Len(log) : Unreviewed(l) => l <= k
  /\ log' = [log EXCEPT ![k].reviewed = TRUE]
  /\ MemoryWrite(ReviewedPhase(d))
  /\ UNCHANGED <<path, runtime, collect, moment, bucket>>

-----------------------------------------------------------------------------
\* bind_codex_runtime by a coordinator.
BindRuntime(w) ==
  /\ runtime' = w
  /\ MemoryWrite("implementing")
  /\ UNCHANGED <<path, log, collect, moment, bucket>>

RecordEvent ==
  /\ MemoryWrite(phase)
  /\ UNCHANGED checkpointVars

Tick ==
  /\ bucket < MaxBucket
  /\ bucket' = bucket + 1
  /\ UNCHANGED <<rowVars, path, runtime, log, collect, moment>>

\* The bounds: requests start below MaxRevision, collections below
\* MaxMoments as well.
Request ==
  \/ \E w \in Workflows : BindRuntime(w)
  \/ RecordEvent
  \/ \E k \in 1..Len(log), d \in Decisions : Review(k, d)
  \/ /\ moment < MaxMoments
     /\ \E c \in Collectors : CollectNothing(c) \/ Collect(c)

CheckpointNext ==
  \/ revision < MaxRevision /\ Request
  \/ \E c \in Collectors : Observe(c) \/ Normalize(c) \/ Store(c) \/ Fail(c)
  \/ Tick

CheckpointSpec == CheckpointInit /\ [][CheckpointNext]_vars

-----------------------------------------------------------------------------
(* Properties *)

\* What is stored after a decision checkpoint was observed after it: no
\* late answer of a slower collection is put in front of the supervisor as
\* news.  Nothing of the kind holds after a heartbeat.
ReviewableInObservationOrder ==
  \A k, l \in 1..Len(log) :
    k < l /\ Reviewable(log[k]) => log[k].seen < log[l].seen

\* The status the supervisor decided on last is the status every heartbeat
\* after it shows: a change of status is never filed as a heartbeat, although
\* what a collection compares with may be replaced before it stores.  Only the
\* status is compared; and before the first decision checkpoint two
\* collections may both find an empty log and file different statuses.
HeartbeatsRepeatDecision ==
  \A l, k \in 1..Len(log) :
    /\ l < k
    /\ Reviewable(log[l])
    /\ \A i \in (l + 1)..k : ~Reviewable(log[i])
    /\ log[k].shown.status # "none"
    => log[k].shown.status = log[l].shown.status

\* A checkpoint names the workflow the task is bound to when it is stored,
\* although that was read before the agent was awaited.
CheckpointNamesBoundRuntime ==
  [][Len(log') > Len(log) => log'[Len(log')].wf = runtime]_vars

\* Review is a stack of decision checkpoints: a new one lies on top of all
\* that wait, and only the top is decided.
Stack == INSTANCE ReviewStack WITH
  pending <- {k \in 1..Len(log) : Unreviewed(k)},
  decided <- {k \in 1..Len(log) : log[k].reviewed}

ReviewsNewestFirst == Stack!StackSpec
=============================================================================
