----------------------------- MODULE KandevProofs -----------------------------
(***************************************************************************)
(* Proofs about Migrations and Kandev, for any number of processes, builds *)
(* and tasks.                                                              *)
(*                                                                         *)
(* Where a migrating process stands in its scripts tells which statements  *)
(* are committed, whatever the processes beside it do.                     *)
(*                                                                         *)
(* That every task has its mode row is a matter of deployment: a process   *)
(* of an older build that serves while script 5 runs may create a task     *)
(* after the backfill and before the trigger.  It is proved from the       *)
(* assumption that the processes are of one build at any time.             *)
(***************************************************************************)
EXTENDS Kandev, TLAPS

ProcessRow ==
  [pc : {"off", "migrating", "serving"}, binary : Binaries \cup {0}, next : Nat, statement : Nat]
TaskRow == [rev : Nat, intent : Nat, bound : ExternalIds \cup {NoKandev}]
CallRow ==
  [pc : {"idle", "asked", "answered"}, task : Tasks \cup {NoKandev}, rev : Nat, intent : Nat,
   id : ExternalIds \cup {NoKandev}]

LEMMA ScriptsWithin ==
  ASSUME NEW m \in Nat, NEW S
  PROVE  ScriptsUpTo(m) \subseteq S <=> \A u \in 1..m : \A n \in 1..Statements(u) : <<u, n>> \in S
  BY DEF ScriptsUpTo

LEMMA StatementsPositive == \A v : Statements(v) \in {1, 3} /\ Statements(ModeVersion) = 3
  BY DEF Statements, ModeVersion

-----------------------------------------------------------------------------
(* The process of a step, and those beside it *)

LEMMA ProcessNumbers ==
  ASSUME MigrationTypeOK, NEW p \in Processes
  PROVE  process[p].binary \in Nat /\ process[p].next \in Nat /\ process[p].statement \in Nat
  <1>1. process[p] \in ProcessRow
    BY DEF MigrationTypeOK, ProcessRow
  <1>2. process[p].binary \in Binaries \cup {0}
    BY <1>1 DEF ProcessRow
  <1>3. process[p].binary \in Nat
    <2>1. \A b \in Binaries : b \in Nat
      BY BinariesAssumption
    <2>2. 0 \in Nat
      OBVIOUS
    <2>3. QED
      BY <1>2, <2>1, <2>2, Zenon
  <1>4. process[p].next \in Nat /\ process[p].statement \in Nat
    BY <1>1 DEF ProcessRow
  <1>5. QED
    BY <1>3, <1>4

SameBuild(p) ==
  process'[p].binary = process[p].binary /\ process'[p].pc = process[p].pc

OthersSame(p) == \A q \in Processes \ {p} : process'[q] = process[q]

LEMMA StartEffect ==
  ASSUME MigrationTypeOK, NEW p \in Processes, NEW b \in Binaries, Start(p, b)
  PROVE  /\ process' \in [Processes -> ProcessRow]
         /\ process'[p].pc = "migrating" /\ process'[p].binary = b
         /\ process'[p].next = recorded + 1 /\ process'[p].statement = 1
         /\ OthersSame(p)
  <1>1. process \in [Processes -> ProcessRow] /\ recorded + 1 \in Nat
    BY DEF MigrationTypeOK, ProcessRow
  <1>2. [pc |-> "migrating", binary |-> b, next |-> recorded + 1, statement |-> 1] \in ProcessRow
    BY <1>1 DEF ProcessRow
  <1>3. process' = [process EXCEPT ![p] =
          [pc |-> "migrating", binary |-> b, next |-> recorded + 1, statement |-> 1]]
    BY DEF Start
  <1>4. QED
    BY <1>1, <1>2, <1>3 DEF OthersSame

LEMMA RunEffect ==
  ASSUME MigrationTypeOK, NEW p \in Processes, RunStatement(p)
  PROVE  /\ process' \in [Processes -> ProcessRow]
         /\ SameBuild(p) /\ process'[p].next = process[p].next
         /\ process'[p].statement = process[p].statement + 1
         /\ OthersSame(p)
  <1>1. process \in [Processes -> ProcessRow]
    BY DEF MigrationTypeOK, ProcessRow
  <1>2. process' = [process EXCEPT ![p].statement = process[p].statement + 1]
    BY DEF RunStatement
  <1>3. process[p].statement + 1 \in Nat
    BY <1>1 DEF ProcessRow
  <1>4. QED
    BY <1>1, <1>2, <1>3 DEF ProcessRow, SameBuild, OthersSame

LEMMA RecordEffect ==
  ASSUME MigrationTypeOK, NEW p \in Processes, RecordVersion(p)
  PROVE  /\ process' \in [Processes -> ProcessRow]
         /\ SameBuild(p) /\ process'[p].next = process[p].next + 1
         /\ process'[p].statement = 1
         /\ OthersSame(p)
  <1>1. process \in [Processes -> ProcessRow] /\ process[p] \in ProcessRow
    BY DEF MigrationTypeOK, ProcessRow
  <1> DEFINE n == process[p].next + 1
  <1>2. n \in Nat /\ 1 \in Nat
    BY <1>1 DEF ProcessRow
  <1>3. process' = [process EXCEPT ![p].next = n, ![p].statement = 1]
    BY DEF RecordVersion
  <1> HIDE DEF n
  <1>4. [[process[p] EXCEPT !.next = n] EXCEPT !.statement = 1] \in ProcessRow
    <2>1. [process[p] EXCEPT !.next = n] \in ProcessRow
      BY <1>1, <1>2 DEF ProcessRow
    <2>2. QED
      BY <1>2, <2>1 DEF ProcessRow
  <1>5. process' \in [Processes -> ProcessRow]
    BY <1>1, <1>3, <1>4, Zenon
  <1>6. /\ process'[p].next = n /\ process'[p].statement = 1
        /\ SameBuild(p) /\ OthersSame(p)
    BY <1>1, <1>3, Zenon DEF ProcessRow, SameBuild, OthersSame
  <1>7. QED
    BY <1>5, <1>6 DEF n

LEMMA ServeEffect ==
  ASSUME MigrationTypeOK, NEW p \in Processes, Serve(p)
  PROVE  /\ process' \in [Processes -> ProcessRow]
         /\ process'[p].pc = "serving" /\ process'[p].binary = process[p].binary
         /\ OthersSame(p)
  <1>1. process \in [Processes -> ProcessRow] /\ process[p] \in ProcessRow
    BY DEF MigrationTypeOK, ProcessRow
  <1>2. process' = [process EXCEPT ![p].pc = "serving", ![p].next = 0, ![p].statement = 0]
    BY DEF Serve
  <1>3. [[[process[p] EXCEPT !.pc = "serving"] EXCEPT !.next = 0] EXCEPT !.statement = 0]
          \in ProcessRow
    <2>1. [process[p] EXCEPT !.pc = "serving"] \in ProcessRow
      BY <1>1 DEF ProcessRow
    <2>2. [[process[p] EXCEPT !.pc = "serving"] EXCEPT !.next = 0] \in ProcessRow
      BY <2>1 DEF ProcessRow
    <2>3. QED
      BY <2>2 DEF ProcessRow
  <1>4. process' \in [Processes -> ProcessRow]
    BY <1>1, <1>2, <1>3, Zenon
  <1>5. /\ process'[p].pc = "serving" /\ process'[p].binary = process[p].binary
        /\ OthersSame(p)
    BY <1>1, <1>2, Zenon DEF ProcessRow, OthersSame
  <1>6. QED
    BY <1>4, <1>5

LEMMA StopEffect ==
  ASSUME MigrationTypeOK, NEW p \in Processes, Stop(p)
  PROVE  /\ process' \in [Processes -> ProcessRow]
         /\ process'[p].pc = "off"
         /\ OthersSame(p)
  <1>1. process \in [Processes -> ProcessRow] /\ Off \in ProcessRow
    BY DEF MigrationTypeOK, ProcessRow, Off
  <1>2. QED
    BY <1>1 DEF Stop, Off, OthersSame

-----------------------------------------------------------------------------
(* Migrations *)

Done(v, n) == <<v, n>> \in applied

Migrating(p) ==
  /\ process[p].next >= 1 /\ process[p].statement >= 1
  /\ \A u \in 1..(process[p].next - 1) : \A n \in 1..Statements(u) : Done(u, n)
  /\ \A n \in 1..(process[p].statement - 1) : Done(process[p].next, n)
  /\ process[p].next = ModeVersion /\ process[p].statement >= 2 =>
       process[p].binary >= ModeVersion

ProcessOK(p) ==
  /\ process[p].pc = "migrating" => Migrating(p)
  /\ Serving(p) => \A u \in 1..process[p].binary : \A n \in 1..Statements(u) : Done(u, n)

Migrated ==
  /\ MigrationTypeOK
  /\ \A p \in Processes : ProcessOK(p)
  /\ \A u \in 1..recorded : \A n \in 1..Statements(u) : Done(u, n)

LEMMA InitMigrated == MigrationInit => Migrated
  <1> SUFFICES ASSUME MigrationInit PROVE Migrated
    OBVIOUS
  <1>1. recorded \in {0, 4}
    BY DEF MigrationInit
  <1>2. process \in [Processes -> ProcessRow] /\ \A p \in Processes : process[p].pc = "off"
    BY DEF MigrationInit, Off, ProcessRow
  <1>3. \A u \in 1..recorded : \A n \in 1..Statements(u) : Done(u, n)
    BY <1>1, ScriptsWithin DEF MigrationInit, Done
  <1>4. applied \subseteq Nat \X (1..3)
    BY <1>1, StatementsPositive DEF MigrationInit, ScriptsUpTo
  <1>5. modeRow \in [Tasks -> Modes \cup {NoTask, NoRow}]
    BY DEF MigrationInit
  <1>6. QED
    BY <1>1, <1>2, <1>3, <1>4, <1>5
    DEF Migrated, MigrationTypeOK, ProcessRow, ProcessOK, Serving

\* The processes beside the one that steps keep what is known of them, as
\* statements are only added.
LEMMA OthersMigrated ==
  ASSUME Migrated, NEW p \in Processes, OthersSame(p), applied \subseteq applied'
  PROVE  \A q \in Processes \ {p} : ProcessOK(q)'
  BY DEF Migrated, OthersSame, ProcessOK, Migrating, Done, Serving

LEMMA StartMigrated ==
  ASSUME Migrated, NEW p \in Processes, NEW b \in Binaries, Start(p, b)
  PROVE  Migrated'
  <1>1. /\ process' \in [Processes -> ProcessRow]
        /\ process'[p].pc = "migrating" /\ process'[p].binary = b
        /\ process'[p].next = recorded + 1 /\ process'[p].statement = 1
        /\ OthersSame(p)
    BY StartEffect DEF Migrated
  <1>2. UNCHANGED <<recorded, applied, modeRow>> /\ recorded \in Nat
    BY DEF Start, dbVars, Migrated, MigrationTypeOK
  <1>3. \A q \in Processes \ {p} : ProcessOK(q)'
    BY <1>1, <1>2, OthersMigrated
  <1>4. ProcessOK(p)'
    BY <1>1, <1>2 DEF ProcessOK, Migrating, Migrated, Done, Serving
  <1>5. QED
    BY <1>1, <1>2, <1>3, <1>4 DEF Migrated, MigrationTypeOK, ProcessRow, Done

LEMMA RunMigrated ==
  ASSUME Migrated, NEW p \in Processes, RunStatement(p)
  PROVE  Migrated'
  <1> DEFINE v == process[p].next
             n == process[p].statement
  <1>1. /\ process' \in [Processes -> ProcessRow]
        /\ SameBuild(p) /\ process'[p].next = v /\ process'[p].statement = n + 1
        /\ OthersSame(p)
    BY RunEffect DEF Migrated
  <1>2. /\ process[p].pc = "migrating" /\ v <= process[p].binary /\ n <= Statements(v)
        /\ applied' = applied \cup {<<v, n>>}
        /\ recorded' = recorded
        /\ Effect(v, n)
    BY DEF RunStatement
  <1>3. /\ v \in Nat /\ n \in Nat /\ process[p].binary \in Nat
        /\ Migrating(p) /\ v >= 1 /\ n >= 1
    <2>1. process[p].binary \in Nat /\ v \in Nat /\ n \in Nat
      BY ProcessNumbers DEF Migrated
    <2>2. Migrating(p)
      BY <1>2 DEF Migrated, ProcessOK
    <2>3. QED
      BY <2>1, <2>2 DEF Migrating
  <1>4. n \in 1..3 /\ Statements(ModeVersion) = 3
    BY <1>2, <1>3, StatementsPositive
  <1>5. modeRow' \in [Tasks -> Modes \cup {NoTask, NoRow}]
    BY <1>2 DEF Migrated, MigrationTypeOK, Effect, Modes
  <1>6. \A q \in Processes \ {p} : ProcessOK(q)'
    BY <1>1, <1>2, OthersMigrated
  <1>7. ProcessOK(p)'
    <2>1. \A u \in 1..(v - 1) : \A k \in 1..Statements(u) : Done(u, k)'
      BY <1>2, <1>3 DEF Migrating, Done
    <2>2. ASSUME NEW k \in 1..n PROVE Done(v, k)'
      <3>1. k = n \/ k \in 1..(n - 1)
        BY <1>3
      <3>2. QED
        BY <1>1, <1>2, <1>3, <3>1 DEF Migrating, Done
    <2>3. QED
      BY <1>1, <1>2, <1>3, <2>1, <2>2 DEF ProcessOK, Migrating, SameBuild, Serving
  <1>8. applied' \subseteq Nat \X (1..3)
    BY <1>2, <1>3, <1>4 DEF Migrated, MigrationTypeOK
  <1>9. \A u \in 1..recorded' : \A k \in 1..Statements(u) : Done(u, k)'
    BY <1>2 DEF Migrated, Done
  <1>10. QED
    BY <1>1, <1>2, <1>5, <1>6, <1>7, <1>8, <1>9
    DEF Migrated, MigrationTypeOK, ProcessRow

LEMMA RecordMigrated ==
  ASSUME Migrated, NEW p \in Processes, RecordVersion(p)
  PROVE  Migrated'
  <1> DEFINE v == process[p].next
  <1>1. /\ process' \in [Processes -> ProcessRow]
        /\ SameBuild(p) /\ process'[p].next = v + 1 /\ process'[p].statement = 1
        /\ OthersSame(p)
    BY RecordEffect DEF Migrated
  <1>2. /\ process[p].pc = "migrating" /\ process[p].statement > Statements(v)
        /\ recorded' = v /\ UNCHANGED <<applied, modeRow>>
    BY DEF RecordVersion
  <1>3. /\ v \in Nat /\ process[p].statement \in Nat /\ Migrating(p) /\ v >= 1
    BY <1>2, ProcessNumbers DEF Migrated, ProcessOK, Migrating
  <1>4. Statements(v) \in {1, 3}
    BY StatementsPositive
  <1>5. ASSUME NEW u \in 1..v, NEW k \in 1..Statements(u) PROVE Done(u, k)'
    <2>1. CASE u = v
      <3>1. k \in 1..(process[p].statement - 1)
        BY <1>2, <1>3, <1>4, <2>1
      <3>2. QED
        BY <1>2, <1>3, <2>1, <3>1 DEF Migrating, Done
    <2>2. CASE u # v
      <3>1. u \in 1..(v - 1)
        BY <1>3, <2>2
      <3>2. QED
        BY <1>2, <1>3, <3>1 DEF Migrating, Done
    <2>3. QED
      BY <2>1, <2>2
  <1>6. \A q \in Processes \ {p} : ProcessOK(q)'
    BY <1>1, <1>2, OthersMigrated
  <1>7. ProcessOK(p)'
    BY <1>1, <1>2, <1>3, <1>5 DEF ProcessOK, Migrating, SameBuild, Serving
  <1>8. QED
    BY <1>1, <1>2, <1>3, <1>5, <1>6, <1>7 DEF Migrated, MigrationTypeOK, ProcessRow, Done

LEMMA ServeMigrated ==
  ASSUME Migrated, NEW p \in Processes, Serve(p)
  PROVE  Migrated'
  <1>1. /\ process' \in [Processes -> ProcessRow]
        /\ process'[p].pc = "serving" /\ process'[p].binary = process[p].binary
        /\ OthersSame(p)
    BY ServeEffect DEF Migrated
  <1>2. /\ process[p].pc = "migrating" /\ process[p].next > process[p].binary
        /\ UNCHANGED <<recorded, applied, modeRow>>
    BY DEF Serve, dbVars
  <1>3. /\ process[p].next \in Nat /\ process[p].binary \in Nat /\ Migrating(p)
    BY <1>2, ProcessNumbers DEF Migrated, ProcessOK
  <1>4. \A u \in 1..process[p].binary : \A n \in 1..Statements(u) : Done(u, n)
    BY <1>2, <1>3 DEF Migrating
  <1>5. \A q \in Processes \ {p} : ProcessOK(q)'
    BY <1>1, <1>2, OthersMigrated
  <1>6. ProcessOK(p)'
    BY <1>1, <1>2, <1>4 DEF ProcessOK, Serving, Done
  <1>7. QED
    BY <1>1, <1>2, <1>5, <1>6 DEF Migrated, MigrationTypeOK, ProcessRow, Done

LEMMA StopMigrated ==
  ASSUME Migrated, NEW p \in Processes, Stop(p)
  PROVE  Migrated'
  <1>1. /\ process' \in [Processes -> ProcessRow]
        /\ process'[p].pc = "off" /\ OthersSame(p)
    BY StopEffect DEF Migrated
  <1>2. UNCHANGED <<recorded, applied, modeRow>>
    BY DEF Stop, dbVars
  <1>3. \A q \in Processes \ {p} : ProcessOK(q)'
    BY <1>1, <1>2, OthersMigrated
  <1>4. ProcessOK(p)'
    BY <1>1 DEF ProcessOK, Serving
  <1>5. QED
    BY <1>1, <1>2, <1>3, <1>4 DEF Migrated, MigrationTypeOK, ProcessRow, Done

LEMMA ModeRowsMigrated ==
  ASSUME Migrated, NEW p \in Processes, NEW t \in Tasks,
         CreateTask(p, t) \/ \E m \in Modes : SetMode(p, t, m)
  PROVE  Migrated'
  <1>1. UNCHANGED <<recorded, applied, process>>
    BY DEF CreateTask, SetMode
  <1>2. modeRow' \in [Tasks -> Modes \cup {NoTask, NoRow}]
    BY DEF CreateTask, SetMode, Migrated, MigrationTypeOK, Modes
  <1>3. QED
    BY <1>1, <1>2 DEF Migrated, MigrationTypeOK, ProcessOK, Migrating, Serving, Done

LEMMA NextMigrated == Migrated /\ [KandevNext]_processVars => Migrated'
  <1> SUFFICES ASSUME Migrated, [KandevNext]_processVars PROVE Migrated'
    OBVIOUS
  <1>1. ASSUME UNCHANGED <<dbVars, process>> PROVE Migrated'
    BY <1>1
    DEF dbVars, Migrated, MigrationTypeOK, ProcessOK, Migrating, Serving, Done
  <1>2. ASSUME NEW p \in Processes, DatabaseStep(p) PROVE Migrated'
    BY <1>2, StartMigrated, RunMigrated, RecordMigrated, ServeMigrated, ModeRowsMigrated
    DEF DatabaseStep, MigrationStep
  <1>3. ASSUME NEW p \in Processes, StopProcess(p) PROVE Migrated'
    BY <1>3, StopMigrated DEF StopProcess
  <1>4. ASSUME NEW p \in Processes, NEW t \in Tasks, TaskRequest(p, t) PROVE Migrated'
    BY <1>1, <1>4, ModeRowsMigrated DEF TaskRequest, ProvisionTask, UpdateGoal, ChangeMode
  <1>5. ASSUME NEW p \in Processes, CreateRemote(p) \/ CreateFails(p) \/ BindKandevTask(p)
        PROVE  Migrated'
    BY <1>1, <1>5 DEF CreateRemote, CreateFails, BindKandevTask
  <1>6. CASE UNCHANGED processVars
    BY <1>1, <1>6 DEF processVars
  <1>7. QED
    BY <1>2, <1>3, <1>4, <1>5, <1>6 DEF KandevNext

LEMMA MigratedAlways == KandevSpec => []Migrated
  <1>1. KandevInit => Migrated
    BY InitMigrated DEF KandevInit
  <1>2. QED
    BY <1>1, NextMigrated, PTL DEF KandevSpec

\* The recorded version never promises a statement that is not committed,
\* whichever process crashed or stored an older version last.
THEOREM RecordedAlwaysApplied == KandevSpec => []RecordedIsApplied
  <1>1. Migrated => RecordedIsApplied
    BY ScriptsWithin DEF Migrated, MigrationTypeOK, RecordedIsApplied, Done
  <1>2. QED
    BY <1>1, MigratedAlways, PTL

\* A process serves on a complete schema of its build, whoever crashed or set
\* the recorded version back meanwhile.
THEOREM AlwaysServesOnItsSchema == KandevSpec => []ServesOnItsSchema
  <1>1. Migrated => ServesOnItsSchema
    <2> SUFFICES ASSUME Migrated, NEW p \in Processes, Serving(p)
                 PROVE  ScriptsUpTo(process[p].binary) \subseteq applied
      BY DEF ServesOnItsSchema
    <2>1. process[p].binary \in Nat
      BY ProcessNumbers DEF Migrated
    <2>2. QED
      BY <2>1, ScriptsWithin DEF Migrated, ProcessOK, Done
  <1>2. QED
    BY <1>1, MigratedAlways, PTL

-----------------------------------------------------------------------------
(* Tasks without a mode row *)

TriggerThere == Done(ModeVersion, Trigger)
NobodyWithout == \A t \in Tasks : modeRow[t] # NoRow

\* What a mixed deployment breaks: nothing in the code keeps a process of an
\* older build from serving while a newer one migrates.
OneBuild ==
  \A p, q \in Processes : process[p].pc # "off" /\ process[q].pc # "off" =>
    process[p].binary = process[q].binary

\* From the backfill on, no task is without its row.
Filled ==
  /\ \A p \in Processes :
       process[p].pc = "migrating" /\ process[p].next = ModeVersion
       /\ process[p].statement >= 3 => NobodyWithout
  /\ TriggerThere => NobodyWithout

LEMMA InitFilled == KandevInit => Filled
  <1> SUFFICES ASSUME KandevInit PROVE Filled
    OBVIOUS
  <1>1. recorded \in {0, 4} /\ applied = ScriptsUpTo(recorded)
    BY DEF KandevInit, MigrationInit
  <1>2. ~TriggerThere
    BY <1>1 DEF ScriptsUpTo, TriggerThere, Done, ModeVersion
  <1>3. \A p \in Processes : process[p].pc = "off"
    BY DEF KandevInit, MigrationInit, Off
  <1>4. QED
    BY <1>2, <1>3 DEF Filled

\* No process beside the one that steps gets further in its scripts.
LEMMA OthersFilled ==
  ASSUME Filled, NEW p \in Processes, OthersSame(p), NobodyWithout => NobodyWithout'
  PROVE  \A q \in Processes \ {p} :
           process'[q].pc = "migrating" /\ process'[q].next = ModeVersion
           /\ process'[q].statement >= 3 => NobodyWithout'
  BY DEF Filled, OthersSame

LEMMA MigrationFilled ==
  ASSUME Migrated, Filled, NEW p \in Processes,
         \/ \E b \in Binaries : Start(p, b)
         \/ RecordVersion(p)
         \/ Serve(p)
         \/ Stop(p)
  PROVE  Filled'
  <1>1. UNCHANGED <<applied, modeRow>>
    BY DEF Start, RecordVersion, Serve, Stop, dbVars
  <1>2. /\ OthersSame(p)
        /\ process'[p].pc # "migrating" \/ process'[p].statement = 1
    BY StartEffect, RecordEffect, ServeEffect, StopEffect DEF Migrated
  <1>3. NobodyWithout' = NobodyWithout /\ TriggerThere' = TriggerThere
    BY <1>1 DEF NobodyWithout, TriggerThere, Done
  <1>4. QED
    BY <1>2, <1>3, OthersFilled DEF Filled

LEMMA RunFilled ==
  ASSUME Migrated, Filled, NEW p \in Processes, RunStatement(p)
  PROVE  Filled'
  <1> DEFINE v == process[p].next
             n == process[p].statement
  <1>1. /\ process'[p].next = v /\ process'[p].statement = n + 1
        /\ OthersSame(p)
    BY RunEffect DEF Migrated
  <1>2. /\ process[p].pc = "migrating"
        /\ applied' = applied \cup {<<v, n>>}
        /\ Effect(v, n)
    BY DEF RunStatement
  <1>3. v \in Nat /\ n \in Nat
    BY ProcessNumbers DEF Migrated
  <1>4. NobodyWithout => NobodyWithout'
    BY <1>2 DEF Effect, NobodyWithout, NoRow
  <1>5. v = ModeVersion /\ n = Backfill => NobodyWithout'
    BY <1>2 DEF Effect, NobodyWithout, NoRow
  <1>6. v = ModeVersion /\ n >= 3 => NobodyWithout
    BY <1>2 DEF Filled
  <1>7. v = ModeVersion /\ n + 1 >= 3 => NobodyWithout'
    BY <1>3, <1>4, <1>5, <1>6 DEF Backfill
  <1>8. TriggerThere' => TriggerThere \/ (v = ModeVersion /\ n = 3)
    BY <1>2 DEF TriggerThere, Done, Trigger
  <1>9. TriggerThere' => NobodyWithout'
    BY <1>4, <1>6, <1>8 DEF Filled
  <1>10. QED
    BY <1>1, <1>4, <1>7, <1>9, OthersFilled DEF Filled

\* Only a process of a build without the mode table can leave a new task
\* without its row, and then no process beside it is past the backfill.
LEMMA ModeRowsFilled ==
  ASSUME Migrated, Filled, OneBuild, NEW p \in Processes, NEW t \in Tasks,
         CreateTask(p, t) \/ \E m \in Modes : SetMode(p, t, m)
  PROVE  Filled'
  <1>1. UNCHANGED <<applied, process>> /\ Serving(p)
    BY DEF CreateTask, SetMode
  <1>2. TriggerThere' = TriggerThere
    BY <1>1 DEF TriggerThere, Done
  <1>3. CASE NobodyWithout => NobodyWithout'
    BY <1>1, <1>2, <1>3 DEF Filled
  <1>4. CASE ~(NobodyWithout => NobodyWithout')
    <2>1. ~TriggerThere
      BY <1>4 DEF CreateTask, SetMode, NobodyWithout, TriggerThere, Done, Modes, NoRow, Migrated,
                  MigrationTypeOK
    <2>2. ~(process[p].binary >= ModeVersion)
      <3>1. SUFFICES ASSUME process[p].binary >= ModeVersion PROVE FALSE
        OBVIOUS
      <3>2. ModeVersion \in 1..process[p].binary /\ Trigger \in 1..Statements(ModeVersion)
        BY <3>1, ProcessNumbers, StatementsPositive DEF Migrated, ModeVersion, Trigger
      <3>3. QED
        BY <1>1, <2>1, <3>2 DEF Migrated, ProcessOK, TriggerThere
    <2>3. ASSUME NEW q \in Processes, process[q].pc = "migrating",
                 process[q].next = ModeVersion, process[q].statement >= 3
          PROVE  FALSE
      <3>1. process[q].statement >= 2
        BY <2>3, ProcessNumbers DEF Migrated
      <3>2. process[q].binary >= ModeVersion
        BY <2>3, <3>1 DEF Migrated, ProcessOK, Migrating
      <3>3. process[q].binary = process[p].binary
        BY <1>1, <2>3 DEF OneBuild, Serving
      <3>4. QED
        BY <2>2, <3>2, <3>3
    <2>4. QED
      BY <1>1, <1>2, <2>1, <2>3 DEF Filled
  <1>5. QED
    BY <1>3, <1>4

LEMMA NextFilled == Migrated /\ OneBuild /\ Filled /\ [KandevNext]_processVars => Filled'
  <1> SUFFICES ASSUME Migrated, OneBuild, Filled, [KandevNext]_processVars PROVE Filled'
    OBVIOUS
  <1>1. ASSUME UNCHANGED <<dbVars, process>> PROVE Filled'
    BY <1>1 DEF dbVars, Filled, NobodyWithout, TriggerThere, Done
  <1>2. ASSUME NEW p \in Processes, DatabaseStep(p) PROVE Filled'
    BY <1>2, MigrationFilled, RunFilled, ModeRowsFilled DEF DatabaseStep, MigrationStep
  <1>3. ASSUME NEW p \in Processes, StopProcess(p) PROVE Filled'
    BY <1>3, MigrationFilled DEF StopProcess
  <1>4. ASSUME NEW p \in Processes, NEW t \in Tasks, TaskRequest(p, t) PROVE Filled'
    BY <1>1, <1>4, ModeRowsFilled DEF TaskRequest, ProvisionTask, UpdateGoal, ChangeMode
  <1>5. ASSUME NEW p \in Processes, CreateRemote(p) \/ CreateFails(p) \/ BindKandevTask(p)
        PROVE  Filled'
    BY <1>1, <1>5 DEF CreateRemote, CreateFails, BindKandevTask
  <1>6. CASE UNCHANGED processVars
    BY <1>1, <1>6 DEF processVars
  <1>7. QED
    BY <1>2, <1>3, <1>4, <1>5, <1>6 DEF KandevNext

\* As long as the processes are of one build at any time, through upgrades,
\* downgrades and crashes between any two statements, a build with execution
\* modes finds the mode row of every task.  The code does not enforce the
\* assumption, and without it the claim is false: see OneBuild.
THEOREM OneBuildServesModes ==
  KandevSpec /\ []OneBuild =>
    [](\A p \in Processes : Serving(p) /\ process[p].binary >= ModeVersion => NobodyWithout)
  <1>1. Migrated /\ Filled =>
          \A p \in Processes : Serving(p) /\ process[p].binary >= ModeVersion => NobodyWithout
    <2> SUFFICES ASSUME Migrated, Filled, NEW p \in Processes,
                        Serving(p), process[p].binary >= ModeVersion
                 PROVE  NobodyWithout
      OBVIOUS
    <2>1. ModeVersion \in 1..process[p].binary /\ Trigger \in 1..Statements(ModeVersion)
      BY ProcessNumbers, StatementsPositive DEF Migrated, ModeVersion, Trigger
    <2>2. TriggerThere
      BY <2>1 DEF Migrated, ProcessOK, TriggerThere
    <2>3. QED
      BY <2>2 DEF Filled
  <1>2. KandevSpec => KandevInit /\ [][KandevNext]_processVars
    BY DEF KandevSpec
  <1>3. QED
    BY <1>1, <1>2, InitFilled, NextFilled, MigratedAlways, PTL

-----------------------------------------------------------------------------
\* A stored mode is never touched by a migration, however often it is replayed.
THEOREM ModeAlwaysSurvives == KandevSpec => ModeSurvivesReplay
  <1>1. Migrated /\ [KandevNext]_processVars =>
          [\A t \in Tasks : modeRow[t] \in Modes /\ modeRow'[t] # modeRow[t] =>
             (\E p \in Processes : Serving(p)) /\ UNCHANGED <<process, applied>>]_<<dbVars, process>>
    <2> SUFFICES ASSUME Migrated, [KandevNext]_processVars, NEW t \in Tasks,
                        modeRow[t] \in Modes, modeRow'[t] # modeRow[t]
                 PROVE  (\E p \in Processes : Serving(p)) /\ UNCHANGED <<process, applied>>
      OBVIOUS
    <2>1. modeRow \in [Tasks -> Modes \cup {NoTask, NoRow}] /\ modeRow' # modeRow
      BY DEF Migrated, MigrationTypeOK
    <2>2. ASSUME NEW p \in Processes PROVE ~RunStatement(p)
      BY <2>1 DEF RunStatement, Effect, Modes, NoRow
    <2>3. ASSUME NEW p \in Processes, NEW u \in Tasks,
                 CreateTask(p, u) \/ \E m \in Modes : SetMode(p, u, m)
          PROVE  Serving(p) /\ UNCHANGED <<process, applied>>
      BY <2>3 DEF CreateTask, SetMode
    <2>4. QED
      BY <2>1, <2>2, <2>3
      DEF KandevNext, processVars, dbVars, DatabaseStep, MigrationStep, Start, RecordVersion, Serve,
          StopProcess, Stop, TaskRequest, ProvisionTask, UpdateGoal, ChangeMode, CreateRemote,
          CreateFails, BindKandevTask
  <1>2. QED
    BY <1>1, MigratedAlways, PTL DEF KandevSpec, ModeSurvivesReplay

-----------------------------------------------------------------------------
(* Provisioning *)

CallOK(p) ==
  /\ provision[p].pc # "idle" =>
       /\ provision[p].task \in Tasks
       /\ provision[p].rev <= task[provision[p].task].rev
       /\ provision[p].rev = task[provision[p].task].rev =>
            provision[p].intent = task[provision[p].task].intent
  /\ provision[p].pc = "answered" =>
       provision[p].id = <<provision[p].task, 0>> /\ provision[p].id \in kandev

BoundOK(t) == task[t].bound # NoKandev => task[t].bound = <<t, 0>> /\ task[t].bound \in kandev

RowsOK ==
  /\ task \in [Tasks -> TaskRow]
  /\ provision \in [Processes -> CallRow]
  /\ kandev \subseteq Tasks \X {0}

Provisioned ==
  /\ RowsOK
  /\ \A p \in Processes : CallOK(p)
  /\ \A t \in Tasks : BoundOK(t)

LEMMA InitProvisioned == KandevInit => Provisioned
  <1> SUFFICES ASSUME KandevInit PROVE Provisioned
    OBVIOUS
  <1>1. RowsOK
    BY DEF KandevInit, RowsOK, TaskRow, CallRow, NoCall
  <1>2. \A p \in Processes : CallOK(p)
    BY DEF KandevInit, CallOK, NoCall
  <1>3. \A t \in Tasks : BoundOK(t)
    BY DEF KandevInit, BoundOK
  <1>4. QED
    BY <1>1, <1>2, <1>3 DEF Provisioned

\* A call that ends.
LEMMA CallEnds ==
  ASSUME RowsOK, NEW p \in Processes, provision' = [provision EXCEPT ![p] = NoCall]
  PROVE  /\ provision' \in [Processes -> CallRow]
         /\ provision'[p].pc = "idle"
         /\ \A q \in Processes \ {p} : provision'[q] = provision[q]
  <1>1. NoCall \in CallRow /\ NoCall.pc = "idle"
    BY DEF NoCall, CallRow
  <1>2. QED
    BY <1>1 DEF RowsOK

LEMMA AskProvisioned ==
  ASSUME Provisioned, NEW p \in Processes, NEW t \in Tasks, ProvisionTask(p, t)
  PROVE  Provisioned'
  <1>1. /\ provision' = [provision EXCEPT ![p] =
             [pc |-> "asked", task |-> t, rev |-> task[t].rev, intent |-> task[t].intent,
              id |-> NoKandev]]
        /\ UNCHANGED <<task, kandev>>
    BY DEF ProvisionTask
  <1>2. task[t] \in TaskRow /\ provision \in [Processes -> CallRow]
    BY DEF Provisioned, RowsOK
  <1>3. [pc |-> "asked", task |-> t, rev |-> task[t].rev, intent |-> task[t].intent,
         id |-> NoKandev] \in CallRow
    BY <1>2 DEF TaskRow, CallRow
  <1>4. RowsOK'
    BY <1>1, <1>2, <1>3 DEF Provisioned, RowsOK
  <1>5. CallOK(p)'
    BY <1>1, <1>2 DEF CallOK, TaskRow
  <1>6. \A q \in Processes \ {p} : CallOK(q)'
    BY <1>1, <1>2 DEF Provisioned, CallOK
  <1>7. QED
    BY <1>1, <1>4, <1>5, <1>6 DEF Provisioned, BoundOK

LEMMA CreateProvisioned ==
  ASSUME Provisioned, NEW p \in Processes, CreateRemote(p)
  PROVE  Provisioned'
  <1> DEFINE id == <<provision[p].task, 0>>
  <1>1. /\ provision[p].pc = "asked"
        /\ kandev' = kandev \cup {id}
        /\ \/ provision' = [provision EXCEPT ![p].pc = "answered", ![p].id = id]
           \/ provision' = [provision EXCEPT ![p] = NoCall]
        /\ task' = task
    BY DEF CreateRemote
  <1>2. provision[p].task \in Tasks
    BY <1>1 DEF Provisioned, CallOK
  <1>3. id \in ExternalIds /\ id \in Tasks \X {0} /\ id \in kandev'
    BY <1>1, <1>2 DEF ExternalIds
  <1>4. \A t \in Tasks : BoundOK(t)'
    BY <1>1 DEF Provisioned, BoundOK
  <1>5. \A q \in Processes : provision'[q] = provision[q] => CallOK(q)'
    BY <1>1 DEF Provisioned, CallOK
  <1>6. CASE provision' = [provision EXCEPT ![p] = NoCall]
    <2>1. /\ provision' \in [Processes -> CallRow]
          /\ provision'[p].pc = "idle"
          /\ \A q \in Processes \ {p} : provision'[q] = provision[q]
      BY <1>6, CallEnds DEF Provisioned
    <2>2. \A q \in Processes : CallOK(q)'
      BY <1>5, <2>1 DEF CallOK
    <2>3. RowsOK'
      BY <1>1, <1>3, <2>1 DEF Provisioned, RowsOK
    <2>4. QED
      BY <1>4, <2>2, <2>3 DEF Provisioned
  <1>7. CASE provision' = [provision EXCEPT ![p].pc = "answered", ![p].id = id]
    <2>1. provision \in [Processes -> CallRow] /\ provision[p] \in CallRow
      BY DEF Provisioned, RowsOK
    <2> HIDE DEF id
    <2>2. [[provision[p] EXCEPT !.pc = "answered"] EXCEPT !.id = id] \in CallRow
      <3>1. [provision[p] EXCEPT !.pc = "answered"] \in CallRow
        BY <2>1 DEF CallRow
      <3>2. QED
        BY <1>3, <3>1 DEF CallRow
    <2>3. provision' \in [Processes -> CallRow]
      BY <1>7, <2>1, <2>2, Zenon
    <2>4. /\ provision'[p].pc = "answered" /\ provision'[p].id = id
          /\ provision'[p].task = provision[p].task
          /\ provision'[p].rev = provision[p].rev /\ provision'[p].intent = provision[p].intent
          /\ \A q \in Processes \ {p} : provision'[q] = provision[q]
      BY <1>7, <2>1, Zenon DEF CallRow
    <2>5. CallOK(p)'
      BY <1>1, <1>3, <2>4 DEF Provisioned, CallOK, id
    <2>6. RowsOK'
      BY <1>1, <1>3, <2>3 DEF Provisioned, RowsOK
    <2>7. QED
      BY <1>4, <1>5, <2>4, <2>5, <2>6 DEF Provisioned
  <1>8. QED
    BY <1>1, <1>6, <1>7

\* A write on a task: its revision grows, and whatever was asked for it before
\* is stale.
LEMMA WriteProvisioned ==
  ASSUME Provisioned, UNCHANGED <<kandev, provision>>, NEW t \in Tasks,
         task' \in [Tasks -> TaskRow],
         task'[t].rev = task[t].rev + 1, task'[t].bound = task[t].bound,
         \A u \in Tasks \ {t} : task'[u] = task[u]
  PROVE  Provisioned'
  <1>1. task[t].rev \in Nat /\ \A p \in Processes : provision[p].rev \in Nat
    BY DEF Provisioned, RowsOK, TaskRow, CallRow
  <1>2. \A p \in Processes : CallOK(p)'
    BY <1>1 DEF Provisioned, CallOK
  <1>3. \A u \in Tasks : BoundOK(u)'
    BY DEF Provisioned, BoundOK
  <1>4. QED
    BY <1>2, <1>3 DEF Provisioned, RowsOK

LEMMA GoalWritten ==
  ASSUME RowsOK, NEW t \in Tasks,
         task' = [task EXCEPT ![t].rev = task[t].rev + 1, ![t].intent = task[t].intent + 1]
  PROVE  /\ task' \in [Tasks -> TaskRow]
         /\ task'[t].rev = task[t].rev + 1 /\ task'[t].bound = task[t].bound
         /\ \A u \in Tasks \ {t} : task'[u] = task[u]
  <1>1. task \in [Tasks -> TaskRow] /\ task[t] \in TaskRow
    BY DEF RowsOK
  <1> DEFINE r == task[t].rev + 1
             i == task[t].intent + 1
  <1>2. r \in Nat /\ i \in Nat
    BY <1>1 DEF TaskRow
  <1>3. task' = [task EXCEPT ![t].rev = r, ![t].intent = i]
    OBVIOUS
  <1> HIDE DEF r, i
  <1>4. [[task[t] EXCEPT !.rev = r] EXCEPT !.intent = i] \in TaskRow
    <2>1. [task[t] EXCEPT !.rev = r] \in TaskRow
      BY <1>1, <1>2 DEF TaskRow
    <2>2. QED
      BY <1>2, <2>1 DEF TaskRow
  <1>5. task' \in [Tasks -> TaskRow]
    BY <1>1, <1>3, <1>4, Zenon
  <1>6. /\ task'[t].rev = r /\ task'[t].bound = task[t].bound
        /\ \A u \in Tasks \ {t} : task'[u] = task[u]
    BY <1>1, <1>3, Zenon DEF TaskRow
  <1>7. QED
    BY <1>5, <1>6 DEF r

\* What a bind does, and to whom.
LEMMA BindEffect ==
  ASSUME Provisioned, NEW p \in Processes, BindKandevTask(p)
  PROVE  /\ provision[p].pc = "answered" /\ provision[p].task \in Tasks
         /\ provision' = [provision EXCEPT ![p] = NoCall] /\ kandev' = kandev
         /\ \/ task' = task
            \/ /\ task[provision[p].task].rev = provision[p].rev
               /\ task' \in [Tasks -> TaskRow]
               /\ task'[provision[p].task].bound = provision[p].id
               /\ task'[provision[p].task].rev = task[provision[p].task].rev + 1
               /\ task'[provision[p].task].intent = task[provision[p].task].intent
               /\ \A u \in Tasks \ {provision[p].task} : task'[u] = task[u]
  <1> DEFINE t == provision[p].task
             i == provision[p].id
             r == task[t].rev + 1
  <1>1. provision[p].pc = "answered" /\ t \in Tasks
    BY DEF BindKandevTask, Provisioned, CallOK
  <1>2. provision' = [provision EXCEPT ![p] = NoCall] /\ kandev' = kandev
    BY DEF BindKandevTask
  <1>3. CASE task' = task
    BY <1>1, <1>2, <1>3
  <1>4. CASE task[t].rev = provision[p].rev
             /\ task' = [task EXCEPT ![t].bound = i, ![t].rev = r]
    <2>1. task \in [Tasks -> TaskRow] /\ task[t] \in TaskRow /\ provision[p] \in CallRow
      BY <1>1 DEF Provisioned, RowsOK
    <2>2. i \in ExternalIds \cup {NoKandev} /\ r \in Nat
      BY <2>1 DEF TaskRow, CallRow
    <2> HIDE DEF t, i, r
    <2>3. [[task[t] EXCEPT !.bound = i] EXCEPT !.rev = r] \in TaskRow
      <3>1. [task[t] EXCEPT !.bound = i] \in TaskRow
        BY <2>1, <2>2 DEF TaskRow
      <3>2. QED
        BY <2>2, <3>1 DEF TaskRow
    <2>4. task' \in [Tasks -> TaskRow]
      BY <1>4, <2>1, <2>3, Zenon
    <2>5. /\ task'[t].bound = i /\ task'[t].rev = r /\ task'[t].intent = task[t].intent
          /\ \A u \in Tasks \ {t} : task'[u] = task[u]
      BY <1>1, <1>4, <2>1, Zenon DEF TaskRow
    <2>6. QED
      BY <1>1, <1>2, <1>4, <2>4, <2>5 DEF t, i, r
  <1>5. QED
    BY <1>3, <1>4 DEF BindKandevTask

LEMMA BindProvisioned ==
  ASSUME Provisioned, NEW p \in Processes, BindKandevTask(p)
  PROVE  Provisioned'
  <1> DEFINE t == provision[p].task
  <1>1. /\ provision[p].pc = "answered" /\ t \in Tasks
        /\ provision' = [provision EXCEPT ![p] = NoCall] /\ kandev' = kandev
    BY BindEffect
  <1>2. /\ provision' \in [Processes -> CallRow]
        /\ provision'[p].pc = "idle"
        /\ \A q \in Processes \ {p} : provision'[q] = provision[q]
    BY <1>1, CallEnds DEF Provisioned
  <1>3. CASE task' = task
    BY <1>1, <1>2, <1>3 DEF Provisioned, RowsOK, CallOK, BoundOK
  <1>4. CASE /\ task' \in [Tasks -> TaskRow]
             /\ task'[provision[p].task].bound = provision[p].id
             /\ task'[provision[p].task].rev = task[provision[p].task].rev + 1
             /\ \A u \in Tasks \ {provision[p].task} : task'[u] = task[u]
    <2>1. provision[p].id = <<provision[p].task, 0>> /\ provision[p].id \in kandev
      BY <1>1 DEF Provisioned, CallOK
    <2>2. \A u \in Tasks : BoundOK(u)'
      BY <1>1, <1>4, <2>1 DEF Provisioned, BoundOK
    <2>3. /\ task[provision[p].task].rev \in Nat
          /\ \A q \in Processes : provision[q].rev \in Nat
      BY <1>1 DEF Provisioned, RowsOK, TaskRow, CallRow
    <2>4. \A q \in Processes : CallOK(q)'
      BY <1>1, <1>2, <1>4, <2>3 DEF Provisioned, CallOK
    <2>5. QED
      BY <1>1, <1>2, <1>4, <2>2, <2>4 DEF Provisioned, RowsOK
  <1>5. QED
    BY <1>3, <1>4, BindEffect

LEMMA NextProvisioned == Provisioned /\ [KandevNext]_processVars => Provisioned'
  <1> SUFFICES ASSUME Provisioned, [KandevNext]_processVars PROVE Provisioned'
    OBVIOUS
  <1>1. CASE UNCHANGED kandevVars
    BY <1>1 DEF kandevVars, Provisioned, RowsOK, CallOK, BoundOK
  <1>2. ASSUME NEW p \in Processes, provision' = [provision EXCEPT ![p] = NoCall],
               UNCHANGED <<task, kandev>>
        PROVE  Provisioned'
    BY <1>2, CallEnds DEF Provisioned, RowsOK, CallOK, BoundOK
  <1>3. ASSUME NEW p \in Processes, StopProcess(p) \/ CreateFails(p) PROVE Provisioned'
    BY <1>2, <1>3 DEF StopProcess, CreateFails
  <1>4. ASSUME NEW p \in Processes, NEW t \in Tasks, UpdateGoal(p, t) PROVE Provisioned'
    BY <1>4, GoalWritten, WriteProvisioned DEF UpdateGoal, Provisioned
  <1>5. ASSUME NEW p \in Processes, NEW t \in Tasks, ChangeMode(p, t) PROVE Provisioned'
    <2>1. task' = [task EXCEPT ![t].rev = task[t].rev + 1] /\ UNCHANGED <<kandev, provision>>
      BY <1>5 DEF ChangeMode
    <2>2. task \in [Tasks -> TaskRow] /\ task[t].rev + 1 \in Nat
      BY DEF Provisioned, RowsOK, TaskRow
    <2>3. /\ task' \in [Tasks -> TaskRow]
          /\ task'[t].rev = task[t].rev + 1 /\ task'[t].bound = task[t].bound
          /\ \A u \in Tasks \ {t} : task'[u] = task[u]
      BY <2>1, <2>2 DEF TaskRow
    <2>4. QED
      BY <2>1, <2>3, WriteProvisioned
  <1>6. CASE UNCHANGED processVars
    BY <1>1, <1>6 DEF processVars
  <1>7. QED
    BY <1>1, <1>3, <1>4, <1>5, <1>6, AskProvisioned, CreateProvisioned, BindProvisioned
    DEF KandevNext, DatabaseStep, TaskRequest

LEMMA ProvisionedAlways == KandevSpec => []Provisioned
  BY InitProvisioned, NextProvisioned, PTL DEF KandevSpec

\* The rows of the schema, the processes and the provisioning keep their types.
THEOREM KandevTypeCorrect == KandevSpec => []KandevTypeOK
  <1>1. Migrated /\ Provisioned => KandevTypeOK
    BY DEF Migrated, Provisioned, RowsOK, KandevTypeOK, ExternalIds, TaskRow, CallRow
  <1>2. QED
    BY <1>1, MigratedAlways, ProvisionedAlways, PTL

\* A supervisor task never has two Kandev tasks, and is bound to its own.
THEOREM AlwaysOneKandevTask == KandevSpec => []OneKandevTask
  <1>1. Provisioned => OneKandevTask
    BY DEF Provisioned, RowsOK, BoundOK, OneKandevTask
  <1>2. QED
    BY <1>1, ProvisionedAlways, PTL

\* A binding is made under the goal its call was made for, whatever was
\* written while Kandev was awaited.
THEOREM AlwaysBoundForPresentGoal == KandevSpec => BoundForPresentGoal
  <1>1. Provisioned /\ [KandevNext]_processVars =>
          [\A t \in Tasks : task[t].bound # task'[t].bound =>
             \E p \in Processes :
               /\ provision[p].pc = "answered"
               /\ provision[p].task = t
               /\ provision[p].intent = task[t].intent
               /\ provision[p].id = task'[t].bound]_processVars
    <2> SUFFICES ASSUME Provisioned, [KandevNext]_processVars, NEW t \in Tasks,
                        task[t].bound # task'[t].bound
                 PROVE  \E p \in Processes :
                          /\ provision[p].pc = "answered"
                          /\ provision[p].task = t
                          /\ provision[p].intent = task[t].intent
                          /\ provision[p].id = task'[t].bound
      OBVIOUS
    <2>1. task' # task
      OBVIOUS
    <2>2. ASSUME NEW p \in Processes, NEW u \in Tasks PROVE ~UpdateGoal(p, u)
      <3>1. SUFFICES ASSUME UpdateGoal(p, u) PROVE FALSE
        OBVIOUS
      <3>2. task' = [task EXCEPT ![u].rev = task[u].rev + 1, ![u].intent = task[u].intent + 1]
        BY <3>1 DEF UpdateGoal
      <3>3. task'[u].bound = task[u].bound /\ \A w \in Tasks \ {u} : task'[w] = task[w]
        BY <3>2, GoalWritten DEF Provisioned
      <3>4. QED
        BY <3>3
    <2>3. ASSUME NEW p \in Processes, NEW u \in Tasks PROVE ~ChangeMode(p, u)
      BY DEF ChangeMode, Provisioned, RowsOK, TaskRow
    <2>4. PICK p \in Processes : BindKandevTask(p)
      BY <2>1, <2>2, <2>3
      DEF KandevNext, processVars, kandevVars, DatabaseStep, StopProcess, TaskRequest, ProvisionTask,
          CreateRemote, CreateFails
    <2>5. /\ provision[p].pc = "answered"
          /\ provision[p].rev = task[provision[p].task].rev
          /\ provision[p].id = task'[provision[p].task].bound
          /\ \A u \in Tasks \ {provision[p].task} : task'[u] = task[u]
      BY <2>1, <2>4, BindEffect
    <2>6. provision[p].task = t
      BY <2>5
    <2>7. provision[p].intent = task[t].intent
      BY <2>5, <2>6 DEF Provisioned, CallOK
    <2>8. QED
      BY <2>5, <2>6, <2>7
  <1>2. QED
    BY <1>1, ProvisionedAlways, PTL DEF KandevSpec, BoundForPresentGoal
=============================================================================
