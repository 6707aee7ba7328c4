--------------------------- MODULE CheckpointsProofs ---------------------------
(***************************************************************************)
(* Proofs about Checkpoints, for any number of collections, observations   *)
(* and workflows.                                                          *)
(*                                                                         *)
(* A collection that may still store has its capture's revision, so no     *)
(* decision checkpoint was stored since it began: every one there is was   *)
(* observed before it will be, and the status a classified heartbeat shows *)
(* is still the one decided on last, though other heartbeats were stored   *)
(* meanwhile.                                                              *)
(***************************************************************************)
EXTENDS Checkpoints, TLAPS

CollectRow ==
  [pc : {"idle", "observing", "observed", "classified"}, rev : Nat,
   wf : Workflows \cup {NoWorkflow}, seen : Nat, shown : ObservationType \cup {Nothing},
   type : Types \cup {"none"}, bucket : Nat]

-----------------------------------------------------------------------------
(* The log *)

LEMMA Appended ==
  ASSUME log \in Seq(Entries), NEW e \in Entries, log' = Append(log, e)
  PROVE  /\ log' \in Seq(Entries)
         /\ Len(log) \in Nat /\ Len(log') = Len(log) + 1
         /\ log'[Len(log) + 1] = e
         /\ \A k \in 1..Len(log) : log'[k] = log[k]
  OBVIOUS

LEMMA MemoryTypes ==
  ASSUME LeaseTypeOK, NEW p \in Phases, MemoryWrite(p)
  PROVE  LeaseTypeOK' /\ revision' = revision + 1
  BY DEF MemoryWrite, Bump, LeaseTypeOK, leaseVars, workVars

\* A new checkpoint, or the answer that there is one already.
LEMMA CreateEffect ==
  ASSUME LeaseTypeOK, log \in Seq(Entries), NEW e \in Entries, Create(e)
  PROVE  /\ LeaseTypeOK'
         /\ \/ UNCHANGED <<revision, log>>
            \/ /\ log' = Append(log, e)
               /\ Reviewable(e) => revision' = revision + 1
               /\ ~Reviewable(e) => revision' = revision
  <1>1. "supervisor_review" \in Phases
    BY CheckpointsAssumption DEF ReviewPhases
  <1>2. CASE UNCHANGED <<rowVars, log>>
    BY <1>2 DEF rowVars, taskVars, leaseVars, workVars, LeaseTypeOK
  <1>3. CASE log' = Append(log, e) /\ Reviewable(e) /\ MemoryWrite("supervisor_review")
    BY <1>1, <1>3, MemoryTypes
  <1>4. CASE log' = Append(log, e) /\ ~Reviewable(e) /\ UNCHANGED rowVars
    BY <1>4 DEF rowVars, taskVars, leaseVars, workVars, LeaseTypeOK
  <1>5. QED
    BY <1>2, <1>3, <1>4 DEF Create

\* What an observation is classified as and stored as.
LEMMA ClassifiedTyped ==
  ASSUME NEW r \in CollectRow, bucket \in Nat
  PROVE  /\ Classified(r) \in CollectRow
         /\ Classified(r).pc = "classified" /\ Classified(r).type = Classify(r.shown)
         /\ Classified(r).type \in Types
         /\ Classified(r).rev = r.rev /\ Classified(r).wf = r.wf
         /\ Classified(r).seen = r.seen /\ Classified(r).shown = r.shown
  <1> DEFINE t == Classify(r.shown)
             n == IF t = "HEARTBEAT" THEN bucket ELSE 0
  <1>1. t \in Types /\ n \in Nat
    BY DEF Classify, Types
  <1>2. Classified(r) = [[[r EXCEPT !.pc = "classified"] EXCEPT !.type = t] EXCEPT !.bucket = n]
    BY Zenon DEF Classified
  <1> HIDE DEF t, n
  <1>3. [r EXCEPT !.pc = "classified"] \in CollectRow
    BY DEF CollectRow
  <1>4. [[r EXCEPT !.pc = "classified"] EXCEPT !.type = t] \in CollectRow
    BY <1>1, <1>3 DEF CollectRow
  <1>5. Classified(r) \in CollectRow
    BY <1>1, <1>2, <1>4 DEF CollectRow
  <1>6. /\ Classified(r).pc = "classified" /\ Classified(r).type = t
        /\ Classified(r).rev = r.rev /\ Classified(r).wf = r.wf
        /\ Classified(r).seen = r.seen /\ Classified(r).shown = r.shown
    BY <1>2 DEF CollectRow
  <1>7. QED
    BY <1>1, <1>5, <1>6 DEF t

LEMMA EntryTyped ==
  ASSUME NEW r \in CollectRow, r.type \in Types
  PROVE  /\ Entry(r) \in Entries /\ ~Entry(r).reviewed
         /\ Entry(r).seen = r.seen /\ Entry(r).wf = r.wf
         /\ Entry(r).shown = r.shown /\ Entry(r).type = r.type
  BY DEF Entry, Entries, CollectRow

\* What a heartbeat says of the checkpoint before it.
LEMMA HeartbeatSays ==
  ASSUME NEW o, Classify(o) = "HEARTBEAT", log # <<>>
  PROVE  o.status \in {"none", log[Len(log)].shown.status}
  BY DEF Classify, IsMaterial, StatusChanged

LEMMA ReviewEffect ==
  ASSUME LeaseTypeOK, log \in Seq(Entries), NEW k \in 1..Len(log), NEW d \in Decisions, Review(k, d)
  PROVE  /\ LeaseTypeOK' /\ revision' = revision + 1
         /\ log' \in Seq(Entries) /\ Len(log') = Len(log)
         /\ \A l \in 1..Len(log) :
              /\ log'[l].type = log[l].type /\ log'[l].shown = log[l].shown
              /\ log'[l].seen = log[l].seen
  <1>1. ReviewedPhase(d) \in Phases
    BY CheckpointsAssumption DEF ReviewPhases, ReviewedPhase, Decisions
  <1>2. LeaseTypeOK' /\ revision' = revision + 1
    BY <1>1, MemoryTypes DEF Review
  <1>3. log' = [log EXCEPT ![k].reviewed = TRUE]
    BY DEF Review
  <1>4. log \in [1..Len(log) -> Entries] /\ log[k] \in Entries /\ Len(log) \in Nat
    OBVIOUS
  <1>5. [log[k] EXCEPT !.reviewed = TRUE] \in Entries
    BY <1>4 DEF Entries
  <1>6. log' \in [1..Len(log) -> Entries]
    BY <1>3, <1>4, <1>5, Zenon
  <1>7. log' \in Seq(Entries) /\ Len(log') = Len(log)
    BY <1>4, <1>6
  <1>8. \A l \in 1..Len(log) :
          /\ log'[l].type = log[l].type /\ log'[l].shown = log[l].shown
          /\ log'[l].seen = log[l].seen
    BY <1>3, <1>4, Zenon DEF Entries
  <1>9. QED
    BY <1>2, <1>7, <1>8

-----------------------------------------------------------------------------
(* The inductive invariant *)

LaterThanLog(n) == \A k \in 1..Len(log) : Reviewable(log[k]) => log[k].seen < n

LastDecision(l) == Reviewable(log[l]) /\ \A i \in (l + 1)..Len(log) : ~Reviewable(log[i])

\* A heartbeat to be stored shows the status decided on last.
NoNews(type, status) ==
  type = "HEARTBEAT" /\ status # "none" =>
    \A l \in 1..Len(log) : LastDecision(l) => status = log[l].shown.status

Answered(c) == collect[c].pc \in {"observed", "classified"}

CollectOK(c) ==
  collect[c].pc # "idle" =>
    /\ collect[c].rev <= revision
    /\ Answered(c) => collect[c].seen <= moment
    /\ collect[c].pc = "classified" => collect[c].type \in Types
    /\ collect[c].rev = revision =>
         /\ collect[c].wf = runtime
         /\ Answered(c) => LaterThanLog(collect[c].seen)
         /\ collect[c].pc = "classified" => NoNews(collect[c].type, collect[c].shown.status)

LogOK ==
  /\ \A k \in 1..Len(log) : log[k].seen <= moment
  /\ ReviewableInObservationOrder
  /\ HeartbeatsRepeatDecision

Ordered ==
  /\ CheckpointTypeOK
  /\ LogOK
  /\ \A c \in Collectors : CollectOK(c)

LEMMA InitOrdered == CheckpointInit => Ordered
  <1> SUFFICES ASSUME CheckpointInit PROVE Ordered
    OBVIOUS
  <1>1. LeaseTypeOK
    BY PhasesAssumption
    DEF CheckpointInit, LeaseInit, LeaseTypeOK, Modes, Policies, Writers, SafetyStates,
        WorkspaceStates, OpStates, NoRevision
  <1>2. Idle \in CollectRow /\ Idle.pc = "idle"
    BY DEF Idle, CollectRow
  <1>3. collect \in [Collectors -> CollectRow] /\ \A c \in Collectors : CollectOK(c)
    BY <1>2 DEF CheckpointInit, CollectOK
  <1>4. log = <<>> /\ log \in Seq(Entries) /\ Len(log) = 0
    BY DEF CheckpointInit
  <1>5. LogOK
    BY <1>4 DEF LogOK, ReviewableInObservationOrder, HeartbeatsRepeatDecision
  <1>6. QED
    BY <1>1, <1>3, <1>4, <1>5 DEF Ordered, CheckpointTypeOK, CheckpointInit, CollectRow

\* Storing an observation that is later than every decision checkpoint.
LEMMA CreateOrdered ==
  ASSUME Ordered, NEW e \in Entries, Create(e),
         LaterThanLog(e.seen), NoNews(e.type, e.shown.status), e.seen <= moment',
         moment' \in Nat, moment' >= moment, UNCHANGED runtime
  PROVE  /\ LeaseTypeOK' /\ log' \in Seq(Entries) /\ LogOK'
         /\ \A c \in Collectors : collect'[c] = collect[c] => CollectOK(c)'
         /\ Len(log') # Len(log) => log'[Len(log')].wf = e.wf
  <1>1. /\ LeaseTypeOK /\ log \in Seq(Entries) /\ bucket \in Nat /\ Len(log) \in Nat
        /\ revision \in Nat /\ moment \in Nat
    BY DEF Ordered, CheckpointTypeOK, LeaseTypeOK
  <1>2. e.seen \in Nat
    BY DEF Entries
  <1>3. /\ LeaseTypeOK'
        /\ \/ UNCHANGED <<revision, log>>
           \/ /\ log' = Append(log, e)
              /\ Reviewable(e) => revision' = revision + 1
              /\ ~Reviewable(e) => revision' = revision
    BY <1>1, CreateEffect
  <1>4. \A k \in 1..Len(log) : log[k] \in Entries /\ log[k].seen \in Nat
    <2>1. \A f \in Entries : f.seen \in Nat
      BY DEF Entries
    <2>2. \A k \in 1..Len(log) : log[k] \in Entries
      BY <1>1
    <2>3. QED
      BY <2>1, <2>2
  <1>5. \A c \in Collectors : collect[c].rev \in Nat /\ collect[c].seen \in Nat
    BY DEF Ordered, CheckpointTypeOK
  <1>6. CASE UNCHANGED <<revision, log>>
    <2>1. LogOK'
      BY <1>1, <1>4, <1>6
      DEF Ordered, LogOK, ReviewableInObservationOrder, HeartbeatsRepeatDecision, Reviewable
    <2>2. \A c \in Collectors : collect'[c] = collect[c] => CollectOK(c)'
      BY <1>1, <1>5, <1>6
      DEF Ordered, CollectOK, Answered, LaterThanLog, NoNews, LastDecision, Reviewable
    <2>3. QED
      BY <1>1, <1>3, <1>6, <2>1, <2>2
  <1>7. CASE /\ log' = Append(log, e)
             /\ Reviewable(e) => revision' = revision + 1
             /\ ~Reviewable(e) => revision' = revision
    <2>1. /\ log' \in Seq(Entries) /\ Len(log') = Len(log) + 1
          /\ log'[Len(log) + 1] = e
          /\ \A k \in 1..Len(log) : log'[k] = log[k]
      BY <1>1, <1>2, <1>7, Appended
    <2>2. \A k \in 1..Len(log') : k \in 1..Len(log) \/ k = Len(log) + 1
      BY <1>1, <2>1
    <2>3. \A k \in 1..Len(log') : log'[k].seen <= moment'
      BY <1>1, <1>2, <1>4, <2>1, <2>2 DEF Ordered, LogOK
    <2>4. ReviewableInObservationOrder'
      <3> SUFFICES ASSUME NEW k \in 1..Len(log'), NEW l \in 1..Len(log'), k < l,
                          Reviewable(log'[k])
                   PROVE  log'[k].seen < log'[l].seen
        BY DEF ReviewableInObservationOrder, Reviewable
      <3>1. k \in 1..Len(log) /\ log'[k] = log[k]
        BY <1>1, <2>1, <2>2
      <3>2. CASE l = Len(log) + 1
        BY <1>2, <2>1, <3>1, <3>2 DEF LaterThanLog
      <3>3. CASE l \in 1..Len(log)
        BY <2>1, <3>1, <3>3 DEF Ordered, LogOK, ReviewableInObservationOrder
      <3>4. QED
        BY <2>2, <3>2, <3>3
    <2>5. HeartbeatsRepeatDecision'
      <3> SUFFICES ASSUME NEW l \in 1..Len(log'), NEW k \in 1..Len(log'), l < k,
                          Reviewable(log'[l]), \A i \in (l + 1)..k : ~Reviewable(log'[i]),
                          log'[k].shown.status # "none"
                   PROVE  log'[k].shown.status = log'[l].shown.status
        BY DEF HeartbeatsRepeatDecision, Reviewable
      <3>1. l \in 1..Len(log) /\ log'[l] = log[l]
        BY <1>1, <2>1, <2>2
      <3>2. CASE k = Len(log) + 1
        <4>1. \A i \in (l + 1)..Len(log) : i \in (l + 1)..k /\ i \in 1..Len(log)
          BY <1>1, <3>1, <3>2
        <4>2. \A i \in (l + 1)..Len(log) : ~Reviewable(log[i])
          BY <2>1, <4>1
        <4>3. LastDecision(l)
          BY <3>1, <4>2 DEF LastDecision
        <4>4. k \in (l + 1)..k /\ log'[k] = e
          BY <1>1, <2>1, <3>1, <3>2
        <4>5. e.type = "HEARTBEAT" /\ e.shown.status # "none"
          BY <4>4 DEF Reviewable
        <4>6. QED
          BY <3>1, <4>3, <4>4, <4>5 DEF NoNews
      <3>3. CASE k \in 1..Len(log)
        <4>1. \A i \in (l + 1)..k : i \in 1..Len(log)
          BY <1>1, <3>1, <3>3
        <4>2. log'[k] = log[k] /\ \A i \in (l + 1)..k : ~Reviewable(log[i])
          BY <2>1, <3>3, <4>1
        <4>3. QED
          BY <3>1, <3>3, <4>2 DEF Ordered, LogOK, HeartbeatsRepeatDecision
      <3>4. QED
        BY <2>2, <3>2, <3>3
    <2>6. ASSUME NEW c \in Collectors, collect'[c] = collect[c] PROVE CollectOK(c)'
      <3>1. CASE Reviewable(e)
        BY <1>1, <1>5, <1>7, <2>6, <3>1 DEF Ordered, CollectOK, Answered
      <3>2. CASE ~Reviewable(e)
        <4>1. LaterThanLog(collect[c].seen) => LaterThanLog(collect[c].seen)'
          BY <2>1, <2>2, <2>6, <3>2 DEF LaterThanLog, Reviewable
        <4>2. NoNews(collect[c].type, collect[c].shown.status)
                => NoNews(collect[c].type, collect[c].shown.status)'
          <5>1. ASSUME NEW l \in 1..Len(log'), LastDecision(l)'
                PROVE  l \in 1..Len(log) /\ LastDecision(l) /\ log'[l] = log[l]
            <6>1. Reviewable(log'[l])
              BY <5>1 DEF LastDecision, Reviewable
            <6>2. l \in 1..Len(log) /\ log'[l] = log[l]
              BY <2>1, <2>2, <3>2, <6>1
            <6>3. \A i \in (l + 1)..Len(log) : i \in (l + 1)..Len(log') /\ log'[i] = log[i]
              BY <1>1, <2>1, <6>2
            <6>4. \A i \in (l + 1)..Len(log') : ~Reviewable(log'[i])
              BY <5>1 DEF LastDecision, Reviewable
            <6>5. \A i \in (l + 1)..Len(log) : ~Reviewable(log[i])
              BY <6>3, <6>4
            <6>6. QED
              BY <6>1, <6>2, <6>5 DEF LastDecision
          <5>2. QED
            BY <2>6, <5>1 DEF NoNews
        <4>3. QED
          BY <1>1, <1>5, <1>7, <2>6, <3>2, <4>1, <4>2 DEF Ordered, CollectOK, Answered
      <3>3. QED
        BY <3>1, <3>2
    <2>7. QED
      BY <1>2, <1>3, <2>1, <2>3, <2>4, <2>5, <2>6 DEF LogOK
  <1>8. QED
    BY <1>3, <1>6, <1>7

\* A write that stores no checkpoint: what was captured before it is stale.
LEMMA WriteOrdered ==
  ASSUME Ordered, LeaseTypeOK', revision' = revision + 1, UNCHANGED <<collect, moment>>,
         log' \in Seq(Entries), Len(log') = Len(log),
         \A l \in 1..Len(log) :
           /\ log'[l].type = log[l].type /\ log'[l].shown = log[l].shown
           /\ log'[l].seen = log[l].seen,
         path' \in Paths, runtime' \in Workflows \cup {NoWorkflow}, bucket' \in Nat
  PROVE  Ordered'
  <1>1. /\ revision \in Nat /\ Len(log) \in Nat
        /\ \A c \in Collectors : collect[c].rev \in Nat
    BY DEF Ordered, CheckpointTypeOK, LeaseTypeOK
  <1>2. \A c \in Collectors : CollectOK(c)'
    BY <1>1 DEF Ordered, CollectOK, Answered
  <1>3. /\ (\A k \in 1..Len(log) : log[k].seen <= moment)'
        /\ ReviewableInObservationOrder'
    BY DEF Ordered, LogOK, ReviewableInObservationOrder, Reviewable
  <1>4. HeartbeatsRepeatDecision'
    <2>1. \A l, k \in 1..Len(log) : \A i \in (l + 1)..k : i \in 1..Len(log)
      BY <1>1
    <2>2. \A l \in 1..Len(log) : Reviewable(log'[l]) = Reviewable(log[l])
      BY DEF Reviewable
    <2>3. QED
      <3> SUFFICES ASSUME NEW l \in 1..Len(log'), NEW k \in 1..Len(log'), l < k,
                          Reviewable(log'[l]), \A i \in (l + 1)..k : ~Reviewable(log'[i]),
                          log'[k].shown.status # "none"
                   PROVE  log'[k].shown.status = log'[l].shown.status
        BY DEF HeartbeatsRepeatDecision, Reviewable
      <3>1. l \in 1..Len(log) /\ k \in 1..Len(log)
        OBVIOUS
      <3>2. Reviewable(log[l]) /\ \A i \in (l + 1)..k : ~Reviewable(log[i])
        BY <2>1, <2>2, <3>1
      <3>3. QED
        BY <3>1, <3>2 DEF Ordered, LogOK, HeartbeatsRepeatDecision
  <1>5. CheckpointTypeOK'
    BY DEF Ordered, CheckpointTypeOK
  <1>6. QED
    BY <1>2, <1>3, <1>4, <1>5 DEF Ordered, LogOK

LEMMA CollectNothingOrdered ==
  ASSUME Ordered, NEW c \in Collectors, CollectNothing(c)
  PROVE  /\ Ordered'
         /\ Len(log') # Len(log) => log'[Len(log')].wf = runtime
  <1> DEFINE n == moment + 1
             i == [Idle EXCEPT !.seen = n]
             e == Entry(Classified(i))
  <1>1. /\ Create(e) /\ moment' = n
        /\ runtime = NoWorkflow
        /\ UNCHANGED <<path, runtime, collect, bucket>>
    BY DEF CollectNothing
  <1>2. moment \in Nat /\ log \in Seq(Entries)
    BY DEF Ordered, CheckpointTypeOK
  <1>3. \A k \in 1..Len(log) : log[k].seen \in Nat /\ log[k].seen <= moment
    <2>1. \A f \in Entries : f.seen \in Nat
      BY DEF Entries
    <2>2. \A k \in 1..Len(log) : log[k] \in Entries
      BY <1>2
    <2>3. QED
      BY <2>1, <2>2 DEF Ordered, LogOK
  <1>4. LaterThanLog(moment + 1)
    BY <1>2, <1>3 DEF LaterThanLog
  <1>5. bucket \in Nat /\ n \in Nat /\ moment' \in Nat /\ moment' >= moment /\ n <= moment'
    BY <1>1, <1>2 DEF Ordered, CheckpointTypeOK
  <1> HIDE DEF n
  <1>6. i \in CollectRow /\ i.seen = n /\ i.shown = Nothing /\ i.wf = NoWorkflow
    BY <1>5 DEF Idle, CollectRow
  <1> HIDE DEF i
  <1>7. /\ Classified(i) \in CollectRow /\ Classified(i).type \in Types
        /\ Classified(i).seen = n /\ Classified(i).shown = Nothing
        /\ Classified(i).wf = NoWorkflow
    BY <1>5, <1>6, ClassifiedTyped
  <1>8. e \in Entries /\ e.seen = n /\ e.shown = Nothing /\ e.wf = NoWorkflow
    BY <1>7, EntryTyped
  <1> HIDE DEF e
  <1>9. NoNews(e.type, e.shown.status)
    BY <1>8 DEF NoNews, Nothing
  <1>10. LaterThanLog(e.seen)
    BY <1>4, <1>8 DEF n
  <1>11. /\ LeaseTypeOK' /\ log' \in Seq(Entries) /\ LogOK'
         /\ \A d \in Collectors : collect'[d] = collect[d] => CollectOK(d)'
         /\ Len(log') # Len(log) => log'[Len(log')].wf = NoWorkflow
    BY <1>1, <1>5, <1>8, <1>9, <1>10, CreateOrdered
  <1>12. CheckpointTypeOK'
    BY <1>1, <1>5, <1>11 DEF Ordered, CheckpointTypeOK
  <1>13. QED
    BY <1>1, <1>11, <1>12 DEF Ordered

\* A step of one collection that stores nothing and leaves the rows alone.
LEMMA CollectionOrdered ==
  ASSUME Ordered, NEW c \in Collectors, UNCHANGED <<rowVars, path, runtime, log, bucket>>,
         moment' \in Nat, moment' >= moment,
         collect' \in [Collectors -> CollectRow],
         \A d \in Collectors \ {c} : collect'[d] = collect[d],
         CollectOK(c)'
  PROVE  Ordered'
  <1>1. LeaseTypeOK' /\ UNCHANGED <<revision, runtime, log>>
    BY DEF Ordered, CheckpointTypeOK, LeaseTypeOK, rowVars, taskVars, leaseVars, workVars
  <1>2. moment \in Nat /\ \A d \in Collectors : collect[d].seen \in Nat
    BY DEF Ordered, CheckpointTypeOK
  <1>3. \A d \in Collectors : CollectOK(d)'
    BY <1>1, <1>2 DEF Ordered, CollectOK, Answered, LaterThanLog, NoNews, LastDecision, Reviewable
  <1>4. \A k \in 1..Len(log) : log[k].seen \in Nat /\ log[k].seen <= moment
    <2>1. \A f \in Entries : f.seen \in Nat
      BY DEF Entries
    <2>2. \A k \in 1..Len(log) : log[k] \in Entries
      BY DEF Ordered, CheckpointTypeOK
    <2>3. QED
      BY <2>1, <2>2 DEF Ordered, LogOK
  <1>5. LogOK'
    BY <1>1, <1>2, <1>4
    DEF Ordered, LogOK, ReviewableInObservationOrder, HeartbeatsRepeatDecision, Reviewable
  <1>6. CheckpointTypeOK'
    BY <1>1 DEF Ordered, CheckpointTypeOK, CollectRow
  <1>7. QED
    BY <1>3, <1>5, <1>6 DEF Ordered

LEMMA CollectOrdered ==
  ASSUME Ordered, NEW c \in Collectors, Collect(c)
  PROVE  Ordered'
  <1> DEFINE r == [Idle EXCEPT !.pc = "observing", !.rev = revision, !.wf = runtime]
  <1>1. /\ collect' = [collect EXCEPT ![c] = r]
        /\ UNCHANGED <<rowVars, path, runtime, log, moment, bucket>>
    BY DEF Collect
  <1>2. /\ collect \in [Collectors -> CollectRow] /\ revision \in Nat /\ moment \in Nat
        /\ runtime \in Workflows \cup {NoWorkflow}
    BY DEF Ordered, CheckpointTypeOK, CollectRow, LeaseTypeOK
  <1>3. r = [[[Idle EXCEPT !.pc = "observing"] EXCEPT !.rev = revision] EXCEPT !.wf = runtime]
    BY Zenon
  <1> HIDE DEF r
  <1>4. r \in CollectRow /\ r.pc = "observing" /\ r.rev = revision /\ r.wf = runtime
    <2>1. [Idle EXCEPT !.pc = "observing"] \in CollectRow
      BY DEF Idle, CollectRow
    <2>2. [[Idle EXCEPT !.pc = "observing"] EXCEPT !.rev = revision] \in CollectRow
      BY <1>2, <2>1 DEF CollectRow
    <2>3. QED
      BY <1>2, <1>3, <2>1, <2>2 DEF CollectRow
  <1>5. /\ collect' \in [Collectors -> CollectRow] /\ collect'[c] = r
        /\ \A d \in Collectors \ {c} : collect'[d] = collect[d]
    BY <1>1, <1>2, <1>4, Zenon
  <1>6. collect'[c].pc = "observing" /\ collect'[c].rev = revision /\ collect'[c].wf = runtime
    BY <1>4, <1>5
  <1>7. CollectOK(c)'
    BY <1>1, <1>2, <1>6 DEF CollectOK, Answered, rowVars, taskVars
  <1>8. QED
    BY <1>1, <1>2, <1>5, <1>7, CollectionOrdered

LEMMA ObserveOrdered ==
  ASSUME Ordered, NEW c \in Collectors, Observe(c)
  PROVE  Ordered'
  <1>1. PICK o \in Observations :
          collect' = [collect EXCEPT ![c].pc = "observed", ![c].seen = moment + 1, ![c].shown = o]
    BY DEF Observe
  <1>2. /\ collect[c].pc = "observing" /\ moment' = moment + 1
        /\ UNCHANGED <<rowVars, path, runtime, log, bucket>>
    BY DEF Observe
  <1>3. /\ collect \in [Collectors -> CollectRow] /\ collect[c] \in CollectRow
        /\ moment \in Nat /\ log \in Seq(Entries)
    BY DEF Ordered, CheckpointTypeOK, CollectRow
  <1>4. o \in ObservationType \cup {Nothing}
    BY CheckpointsAssumption
  <1> DEFINE n == moment + 1
  <1>5. n \in Nat /\ collect' = [collect EXCEPT ![c].pc = "observed", ![c].seen = n, ![c].shown = o]
    BY <1>1, <1>3
  <1> HIDE DEF n
  <1>6. [[[collect[c] EXCEPT !.pc = "observed"] EXCEPT !.seen = n] EXCEPT !.shown = o] \in CollectRow
    <2>1. [collect[c] EXCEPT !.pc = "observed"] \in CollectRow
      BY <1>3 DEF CollectRow
    <2>2. [[collect[c] EXCEPT !.pc = "observed"] EXCEPT !.seen = n] \in CollectRow
      BY <1>5, <2>1 DEF CollectRow
    <2>3. QED
      BY <1>4, <2>2 DEF CollectRow
  <1>7. collect' \in [Collectors -> CollectRow]
    BY <1>3, <1>5, <1>6, Zenon
  <1>8. /\ collect'[c].pc = "observed" /\ collect'[c].seen = n
        /\ collect'[c].rev = collect[c].rev /\ collect'[c].wf = collect[c].wf
        /\ \A d \in Collectors \ {c} : collect'[d] = collect[d]
    BY <1>3, <1>5, Zenon DEF CollectRow
  <1>9. \A k \in 1..Len(log) : log[k].seen \in Nat /\ log[k].seen <= moment
    <2>1. \A f \in Entries : f.seen \in Nat
      BY DEF Entries
    <2>2. \A k \in 1..Len(log) : log[k] \in Entries
      BY <1>3
    <2>3. QED
      BY <2>1, <2>2 DEF Ordered, LogOK
  <1>10. LaterThanLog(n)
    BY <1>3, <1>9 DEF LaterThanLog, n
  <1>11. LaterThanLog(collect[c].seen)'
    BY <1>2, <1>8, <1>10 DEF LaterThanLog, Reviewable
  <1>12. CollectOK(c)'
    BY <1>2, <1>3, <1>8, <1>11 DEF Ordered, CollectOK, Answered, rowVars, taskVars, n
  <1>13. QED
    BY <1>2, <1>3, <1>7, <1>8, <1>12, CollectionOrdered

LEMMA NormalizeOrdered ==
  ASSUME Ordered, NEW c \in Collectors, Normalize(c)
  PROVE  Ordered'
  <1> DEFINE r == Classified(collect[c])
  <1>1. /\ collect[c].pc = "observed"
        /\ collect' = [collect EXCEPT ![c] = r]
        /\ UNCHANGED <<rowVars, path, runtime, log, moment, bucket>>
    BY DEF Normalize
  <1>2. /\ collect \in [Collectors -> CollectRow] /\ collect[c] \in CollectRow
        /\ moment \in Nat /\ bucket \in Nat /\ Len(log) \in Nat
    BY DEF Ordered, CheckpointTypeOK, CollectRow
  <1>3. /\ r \in CollectRow /\ r.pc = "classified" /\ r.type = Classify(collect[c].shown)
        /\ r.type \in Types /\ r.rev = collect[c].rev /\ r.wf = collect[c].wf
        /\ r.seen = collect[c].seen /\ r.shown = collect[c].shown
    BY <1>2, ClassifiedTyped
  <1> HIDE DEF r
  <1>4. /\ collect' \in [Collectors -> CollectRow] /\ collect'[c] = r
        /\ \A d \in Collectors \ {c} : collect'[d] = collect[d]
    BY <1>1, <1>2, <1>3, Zenon
  <1>5. NoNews(r.type, r.shown.status)
    <2> SUFFICES ASSUME r.type = "HEARTBEAT", r.shown.status # "none",
                        NEW l \in 1..Len(log), LastDecision(l)
                 PROVE  r.shown.status = log[l].shown.status
      BY DEF NoNews
    <2>1. log # <<>> /\ l <= Len(log) /\ Len(log) \in 1..Len(log)
      BY <1>2
    <2>2. r.shown.status = log[Len(log)].shown.status
      BY <1>3, <2>1, HeartbeatSays
    <2>3. CASE l = Len(log)
      BY <2>2, <2>3
    <2>4. CASE l < Len(log)
      BY <2>1, <2>2, <2>4 DEF LastDecision, Ordered, LogOK, HeartbeatsRepeatDecision
    <2>5. QED
      BY <1>2, <2>1, <2>3, <2>4
  <1>6. NoNews(collect[c].type, collect[c].shown.status)'
    BY <1>1, <1>4, <1>5 DEF NoNews, LastDecision, Reviewable
  <1>7. LaterThanLog(collect[c].seen) => LaterThanLog(collect[c].seen)'
    BY <1>1, <1>3, <1>4 DEF LaterThanLog, Reviewable
  <1>8. CollectOK(c)'
    BY <1>1, <1>3, <1>4, <1>6, <1>7 DEF Ordered, CollectOK, Answered, rowVars, taskVars
  <1>9. QED
    BY <1>1, <1>2, <1>4, <1>8, CollectionOrdered

LEMMA Ended ==
  ASSUME Ordered, NEW c \in Collectors, collect' = [collect EXCEPT ![c] = Idle]
  PROVE  /\ collect' \in [Collectors -> CollectRow]
         /\ CollectOK(c)'
         /\ \A d \in Collectors \ {c} : collect'[d] = collect[d]
  <1>1. Idle \in CollectRow /\ Idle.pc = "idle"
    BY DEF Idle, CollectRow, Types
  <1>2. collect \in [Collectors -> CollectRow]
    BY DEF Ordered, CheckpointTypeOK, CollectRow
  <1>3. QED
    BY <1>1, <1>2 DEF CollectOK

LEMMA StoreOrdered ==
  ASSUME Ordered, NEW c \in Collectors, Store(c)
  PROVE  /\ Ordered'
         /\ Len(log') # Len(log) => log'[Len(log')].wf = runtime
  <1> DEFINE e == Entry(collect[c])
  <1>1. /\ collect[c].pc = "classified" /\ collect[c].rev = revision
        /\ Create(e)
        /\ collect' = [collect EXCEPT ![c] = Idle]
        /\ UNCHANGED <<path, runtime, moment, bucket>>
    BY DEF Store
  <1>2. /\ collect[c] \in CollectRow /\ moment' \in Nat /\ moment' >= moment
    BY <1>1 DEF Ordered, CheckpointTypeOK, CollectRow
  <1>3. /\ collect[c].wf = runtime /\ LaterThanLog(collect[c].seen) /\ collect[c].seen <= moment
        /\ collect[c].type \in Types /\ NoNews(collect[c].type, collect[c].shown.status)
    BY <1>1 DEF Ordered, CollectOK, Answered
  <1>4. /\ LeaseTypeOK' /\ log' \in Seq(Entries) /\ LogOK'
        /\ \A d \in Collectors : collect'[d] = collect[d] => CollectOK(d)'
        /\ Len(log') # Len(log) => log'[Len(log')].wf = collect[c].wf
    <2>1. /\ e \in Entries /\ e.seen = collect[c].seen /\ e.wf = collect[c].wf
          /\ e.shown = collect[c].shown /\ e.type = collect[c].type
      BY <1>2, <1>3, EntryTyped
    <2> HIDE DEF e
    <2>2. /\ e.seen <= moment' /\ UNCHANGED runtime
          /\ LaterThanLog(e.seen) /\ NoNews(e.type, e.shown.status)
      BY <1>1, <1>3, <2>1
    <2>3. /\ LeaseTypeOK' /\ log' \in Seq(Entries) /\ LogOK'
          /\ \A d \in Collectors : collect'[d] = collect[d] => CollectOK(d)'
          /\ Len(log') # Len(log) => log'[Len(log')].wf = e.wf
      BY <1>1, <1>2, <2>1, <2>2, CreateOrdered
    <2>4. QED
      BY <2>1, <2>3
  <1>5. /\ collect' \in [Collectors -> CollectRow]
        /\ CollectOK(c)'
        /\ \A d \in Collectors \ {c} : collect'[d] = collect[d]
    BY <1>1, Ended
  <1>6. CheckpointTypeOK'
    BY <1>1, <1>4, <1>5 DEF Ordered, CheckpointTypeOK, CollectRow
  <1>7. QED
    BY <1>3, <1>4, <1>5, <1>6 DEF Ordered

LEMMA FailOrdered ==
  ASSUME Ordered, NEW c \in Collectors, Fail(c)
  PROVE  Ordered'
  <1>1. /\ collect' = [collect EXCEPT ![c] = Idle]
        /\ UNCHANGED <<rowVars, path, runtime, log, moment, bucket>>
    BY DEF Fail
  <1>2. moment' \in Nat /\ moment' >= moment
    BY <1>1 DEF Ordered, CheckpointTypeOK
  <1>3. /\ collect' \in [Collectors -> CollectRow]
        /\ CollectOK(c)'
        /\ \A d \in Collectors \ {c} : collect'[d] = collect[d]
    BY <1>1, Ended
  <1>4. QED
    BY <1>1, <1>2, <1>3, CollectionOrdered

LEMMA NextOrdered ==
  ASSUME Ordered, [CheckpointNext]_vars
  PROVE  /\ Ordered'
         /\ Len(log') > Len(log) => log'[Len(log')].wf = runtime
  <1>1. /\ LeaseTypeOK /\ log \in Seq(Entries) /\ path \in Paths /\ bucket \in Nat /\ moment \in Nat
        /\ runtime \in Workflows \cup {NoWorkflow} /\ phase \in Phases /\ Len(log) \in Nat
    BY DEF Ordered, CheckpointTypeOK, LeaseTypeOK
  <1>2. CASE UNCHANGED vars
    BY <1>2
    DEF vars, checkpointVars, rowVars, taskVars, leaseVars, workVars, Ordered, CheckpointTypeOK,
        LeaseTypeOK, LogOK, ReviewableInObservationOrder, HeartbeatsRepeatDecision, CollectOK,
        Answered, LaterThanLog, NoNews, LastDecision, Reviewable
  <1>3. ASSUME NEW w \in Workflows, BindRuntime(w)
        PROVE  Ordered' /\ Len(log') = Len(log)
    <2>1. "implementing" \in Phases
      BY CheckpointsAssumption DEF ReviewPhases
    <2>2. /\ LeaseTypeOK' /\ revision' = revision + 1 /\ runtime' = w
          /\ UNCHANGED <<path, log, collect, moment, bucket>>
      BY <1>1, <1>3, <2>1, MemoryTypes DEF BindRuntime
    <2>3. QED
      BY <1>1, <2>2, WriteOrdered
  <1>4. CASE RecordEvent
    <2>1. LeaseTypeOK' /\ revision' = revision + 1 /\ UNCHANGED checkpointVars
      BY <1>1, <1>4, MemoryTypes DEF RecordEvent
    <2>2. UNCHANGED <<path, runtime, log, collect, moment, bucket>>
      BY <2>1 DEF checkpointVars
    <2>3. QED
      BY <1>1, <2>1, <2>2, WriteOrdered
  <1>5. ASSUME NEW k \in 1..Len(log), NEW d \in Decisions, Review(k, d)
        PROVE  Ordered' /\ Len(log') = Len(log)
    <2>1. /\ LeaseTypeOK' /\ revision' = revision + 1
          /\ log' \in Seq(Entries) /\ Len(log') = Len(log)
          /\ \A l \in 1..Len(log) :
               /\ log'[l].type = log[l].type /\ log'[l].shown = log[l].shown
               /\ log'[l].seen = log[l].seen
      BY <1>1, <1>5, ReviewEffect
    <2>2. UNCHANGED <<path, runtime, collect, moment, bucket>>
      BY <1>5 DEF Review
    <2>3. QED
      BY <1>1, <2>1, <2>2, WriteOrdered
  <1>6. ASSUME NEW c \in Collectors, Collect(c) \/ Observe(c) \/ Normalize(c) \/ Fail(c)
        PROVE  Ordered' /\ Len(log') = Len(log)
    <2>1. log' = log
      BY <1>6 DEF Collect, Observe, Normalize, Fail
    <2>2. QED
      BY <1>6, <2>1, CollectOrdered, ObserveOrdered, NormalizeOrdered, FailOrdered
  <1>7. CASE Tick
    <2>1. bucket' = bucket + 1 /\ UNCHANGED <<rowVars, path, runtime, log, collect, moment>>
      BY <1>7 DEF Tick
    <2>2. QED
      BY <1>1, <2>1
      DEF rowVars, taskVars, leaseVars, workVars, Ordered, CheckpointTypeOK, LeaseTypeOK, LogOK,
          ReviewableInObservationOrder, HeartbeatsRepeatDecision, CollectOK, Answered,
          LaterThanLog, NoNews, LastDecision, Reviewable
  <1>8. ASSUME NEW c \in Collectors, CollectNothing(c) \/ Store(c)
        PROVE  Ordered' /\ (Len(log') # Len(log) => log'[Len(log')].wf = runtime)
    BY <1>8, CollectNothingOrdered, StoreOrdered
  <1>9. \/ UNCHANGED vars \/ RecordEvent \/ Tick
        \/ \E w \in Workflows : BindRuntime(w)
        \/ \E k \in 1..Len(log), d \in Decisions : Review(k, d)
        \/ \E c \in Collectors : Collect(c) \/ Observe(c) \/ Normalize(c) \/ Fail(c)
        \/ \E c \in Collectors : CollectNothing(c) \/ Store(c)
    BY DEF CheckpointNext, Request
  <1>10. CASE UNCHANGED vars \/ RecordEvent \/ Tick
    <2>1. log' = log
      BY <1>10 DEF vars, checkpointVars, RecordEvent, Tick
    <2>2. Ordered'
      BY <1>2, <1>4, <1>7, <1>10
    <2>3. QED
      BY <1>1, <2>1, <2>2
  <1>11. Len(log') > Len(log) => Len(log') # Len(log)
    BY <1>1
  <1>12. QED
    BY <1>3, <1>5, <1>6, <1>8, <1>9, <1>10, <1>11

LEMMA OrderedAlways == CheckpointSpec => []Ordered
  BY InitOrdered, NextOrdered, PTL DEF CheckpointSpec

\* The rows of the task, the log and the collections keep their types.
THEOREM CheckpointTypeCorrect == CheckpointSpec => []CheckpointTypeOK
  BY OrderedAlways, PTL DEF Ordered

\* No late answer of a slower collection is stored after a newer decision
\* checkpoint.
THEOREM AlwaysInObservationOrder == CheckpointSpec => []ReviewableInObservationOrder
  BY OrderedAlways, PTL DEF Ordered, LogOK

\* Every heartbeat shows the status of the last decision checkpoint before it,
\* whatever was stored while the agent was awaited or after the comparison.
THEOREM AlwaysRepeatDecision == CheckpointSpec => []HeartbeatsRepeatDecision
  BY OrderedAlways, PTL DEF Ordered, LogOK

\* A checkpoint names the workflow that is bound when it is stored.
THEOREM AlwaysNamesBoundRuntime == CheckpointSpec => CheckpointNamesBoundRuntime
  <1>1. Ordered /\ [CheckpointNext]_vars =>
          [Len(log') > Len(log) => log'[Len(log')].wf = runtime]_vars
    BY NextOrdered
  <1>2. QED
    BY <1>1, OrderedAlways, PTL DEF CheckpointSpec, CheckpointNamesBoundRuntime

-----------------------------------------------------------------------------
(* Refinement of ReviewStack.  The mapping reads the log alone, so a step   *)
(* is judged by what it does to the log.                                    *)

Waiting == {k \in 1..Len(log) : Unreviewed(k)}
Reviewed == {k \in 1..Len(log) : log[k].reviewed}

StackKept == UNCHANGED <<Waiting, Reviewed>>

LEMMA LogKept ==
  ASSUME UNCHANGED log
  PROVE  StackKept
  BY DEF StackKept, Waiting, Reviewed, Unreviewed, Reviewable

\* A checkpoint is stored above everything in the log; a heartbeat is never
\* for review.
LEMMA CreateMaps ==
  ASSUME LeaseTypeOK, log \in Seq(Entries), NEW e \in Entries, ~e.reviewed, Create(e)
  PROVE  Stack!Raise \/ StackKept
  <1>1. CASE UNCHANGED log
    BY <1>1, LogKept
  <1>2. CASE log' = Append(log, e)
    <2> DEFINE n == Len(log) + 1
    <2>1. /\ Len(log) \in Nat /\ Len(log') = n /\ log'[n] = e
          /\ \A k \in 1..Len(log) : log'[k] = log[k]
      BY <1>2, Appended
    <2>2. \A k : k \in 1..Len(log') <=> k \in 1..Len(log) \/ k = n
      BY <2>1
    <2>3. \A k \in Waiting \cup Reviewed : k < n
      BY <2>1 DEF Waiting, Reviewed
    <2>4. n \notin Waiting
      BY <2>1 DEF Waiting
    <2> HIDE DEF n
    <2>5. Reviewed' = Reviewed
      BY <2>1, <2>2 DEF Reviewed
    <2>6. CASE Reviewable(e)
      <3>1. Waiting' = Waiting \cup {n}
        BY <2>1, <2>2, <2>6 DEF Waiting, Unreviewed, Reviewable
      <3>2. n \in Waiting' \ Waiting
        BY <2>4, <3>1
      <3>3. Stack!Raise
        BY <2>3, <2>5, <3>1, <3>2 DEF Stack!Raise, Waiting, Reviewed
      <3>4. QED
        BY <3>3
    <2>7. CASE ~Reviewable(e)
      <3>1. Waiting' = Waiting
        BY <2>1, <2>2, <2>7 DEF Waiting, Unreviewed, Reviewable
      <3>2. QED
        BY <2>5, <3>1 DEF StackKept
    <2>8. QED
      BY <2>6, <2>7
  <1>3. QED
    BY <1>1, <1>2, CreateEffect

\* A review moves the top of the stack, and no other checkpoint.
LEMMA ReviewMaps ==
  ASSUME log \in Seq(Entries), NEW k \in 1..Len(log), NEW d, Review(k, d)
  PROVE  Stack!Decide
  <1>1. /\ Unreviewed(k) /\ \A l \in 1..Len(log) : Unreviewed(l) => l <= k
        /\ log' = [log EXCEPT ![k].reviewed = TRUE]
    BY DEF Review
  <1>2. log \in [1..Len(log) -> Entries] /\ Len(log) \in Nat
    OBVIOUS
  <1>3. /\ log'[k].type = log[k].type /\ log'[k].reviewed
        /\ \A l \in 1..Len(log) : l # k => log'[l] = log[l]
    BY <1>1, <1>2, Zenon DEF Entries
  <1>4. Len(log') = Len(log)
    BY <1>1, <1>2
  <1>5. /\ \A l \in 1..Len(log) : l # k => (Unreviewed(l)' <=> Unreviewed(l))
        /\ ~Unreviewed(k)'
    BY <1>3, Zenon DEF Unreviewed, Reviewable
  <1>6. Waiting' = Waiting \ {k}
    BY <1>4, <1>5, Zenon DEF Waiting
  <1>7. Reviewed' = Reviewed \cup {k}
    BY <1>3, <1>4, Zenon DEF Reviewed
  <1>8. k \in Waiting /\ \A l \in Waiting : l <= k
    BY <1>1 DEF Waiting
  <1>9. QED
    BY <1>6, <1>7, <1>8 DEF Stack!Decide, Waiting, Reviewed

LEMMA StackStep ==
  ASSUME Ordered, [CheckpointNext]_vars
  PROVE  Stack!StackNext \/ StackKept
  <1>1. LeaseTypeOK /\ log \in Seq(Entries) /\ moment \in Nat /\ bucket \in Nat
    BY DEF Ordered, CheckpointTypeOK
  <1>2. ASSUME NEW r \in CollectRow, r.type \in Types, Create(Entry(r))
        PROVE  Stack!Raise \/ StackKept
    <2> DEFINE e == Entry(r)
    <2>1. e \in Entries /\ ~e.reviewed /\ Create(e)
      BY <1>2, EntryTyped
    <2> HIDE DEF e
    <2>2. QED
      BY <1>1, <2>1, CreateMaps
  <1>3. ASSUME NEW c \in Collectors, CollectNothing(c) PROVE Stack!Raise \/ StackKept
    <2> DEFINE n == moment + 1
               i == [Idle EXCEPT !.seen = n]
    <2>1. Create(Entry(Classified(i))) /\ n \in Nat
      BY <1>1, <1>3 DEF CollectNothing
    <2> HIDE DEF n
    <2>2. i \in CollectRow
      BY <2>1 DEF Idle, CollectRow
    <2> HIDE DEF i
    <2>3. Classified(i) \in CollectRow /\ Classified(i).type \in Types
      BY <1>1, <2>2, ClassifiedTyped
    <2>4. QED
      BY <1>2, <2>1, <2>3
  <1>4. ASSUME NEW c \in Collectors, Store(c) PROVE Stack!Raise \/ StackKept
    <2>1. collect[c] \in CollectRow /\ collect[c].type \in Types
      BY <1>4 DEF Store, Ordered, CheckpointTypeOK, CollectRow, CollectOK
    <2>2. QED
      BY <1>2, <1>4, <2>1 DEF Store
  <1>5. ASSUME NEW k \in 1..Len(log), NEW d \in Decisions, Review(k, d) PROVE Stack!Decide
    BY <1>1, <1>5, ReviewMaps
  <1>6. ASSUME UNCHANGED log PROVE StackKept
    BY <1>6, LogKept
  <1>7. \/ UNCHANGED log
        \/ \E c \in Collectors : CollectNothing(c) \/ Store(c)
        \/ \E k \in 1..Len(log), d \in Decisions : Review(k, d)
    BY DEF CheckpointNext, Request, BindRuntime, RecordEvent, Collect, Observe, Normalize, Fail, Tick,
           vars,
           checkpointVars
  <1>8. QED
    BY <1>3, <1>4, <1>5, <1>6, <1>7 DEF Stack!StackNext

\* The log and its reviews implement the stack: heartbeats and duplicates
\* do not show in it, and no decision passes over a newer checkpoint
\* (memory/checkpoint_reviews.py).
THEOREM ReviewIsStack == CheckpointSpec => ReviewsNewestFirst
  <1>1. CheckpointInit => Stack!StackInit
    BY DEF CheckpointInit, Stack!StackInit
  <1>2. Ordered /\ [CheckpointNext]_vars => [Stack!StackNext]_Stack!stackVars
    BY StackStep DEF StackKept, Waiting, Reviewed, Stack!stackVars
  <1>3. QED
    BY <1>1, <1>2, OrderedAlways, PTL DEF CheckpointSpec, ReviewsNewestFirst, Stack!StackSpec
=============================================================================
