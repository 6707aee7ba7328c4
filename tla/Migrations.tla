------------------------------ MODULE Migrations ------------------------------
(***************************************************************************)
(* The database file of the Bridge and the processes that open it: the     *)
(* schema steps of db/migrations.py and db/schema.py, replayed after a     *)
(* crash, and the tasks created once a process serves.  executescript      *)
(* commits statement by statement, and the version is stored after the     *)
(* script, so a crash may leave a script half done or done and unrecorded. *)
(***************************************************************************)
EXTENDS Naturals, FiniteSets

CONSTANTS
  Processes,     \* Bridge processes on the one database file
  Binaries,      \* the SCHEMA_VERSION of each build that may be started
  Tasks,         \* task_ids
  OldTasks       \* the tasks of a database written by the build of version 4

ModeVersion == 5   \* the script with task_execution_state

ASSUME BinariesAssumption == Binaries \subseteq Nat
ASSUME OldTasksAssumption == OldTasks \subseteq Tasks

VARIABLES
  recorded,    \* schema_meta.schema_version, 0 without a row
  applied,     \* the statements <<version, number>> committed so far
  modeRow,     \* per task: no task, no mode row, or its execution_mode
  process      \* what each process is doing

dbVars == <<recorded, applied, modeRow>>

Modes == {"HYBRID", "CODEX_SUPERVISED", "DIRECT"}
NoTask == "no task"
NoRow == "no row"

\* Script 5 creates the table, fills it for the tasks there are, and adds the
\* trigger for those to come; the table of handoffs that follows changes no
\* other and is counted with the trigger.  The other scripts are IF NOT EXISTS
\* throughout and count as one statement each.
Table == 1
Backfill == 2
Trigger == 3
Statements(v) == IF v = ModeVersion THEN 3 ELSE 1

Off == [pc |-> "off", binary |-> 0, next |-> 0, statement |-> 0]

MigrationTypeOK ==
  /\ recorded \in Nat
  /\ applied \subseteq Nat \X (1..3)
  /\ modeRow \in [Tasks -> Modes \cup {NoTask, NoRow}]
  /\ process \in [Processes -> [pc : {"off", "migrating", "serving"},
                                binary : Binaries \cup {0}, next : Nat, statement : Nat]]

ScriptsUpTo(v) == UNION {{u} \X (1..Statements(u)) : u \in 1..v}

MigrationInit ==
  /\ \/ recorded = 0 /\ modeRow = [t \in Tasks |-> NoTask]
     \/ recorded = 4 /\ modeRow = [t \in Tasks |-> IF t \in OldTasks THEN NoRow ELSE NoTask]
  /\ applied = ScriptsUpTo(recorded)
  /\ process = [p \in Processes |-> Off]

Serving(p) == process[p].pc = "serving"

-----------------------------------------------------------------------------
(* apply_migrations *)

FaultyTableMeansDone(p, b) ==
  /\ process[p].pc = "off"
  /\ recorded <= b
  /\ process' = [process EXCEPT ![p] =
       [pc |-> "migrating", binary |-> b, statement |-> 1,
        next |-> IF recorded + 1 = ModeVersion /\ <<ModeVersion, Table>> \in applied
                 THEN ModeVersion + 1 ELSE recorded + 1]]
  /\ UNCHANGED dbVars

\* A newer database is refused, and nothing else: several processes may open
\* the file at once, and one of an older build may still be serving.
Start(p, b) ==
  /\ process[p].pc = "off"
  /\ recorded <= b
  /\ process' = [process EXCEPT ![p] =
       [pc |-> "migrating", binary |-> b, next |-> recorded + 1, statement |-> 1]]
  /\ UNCHANGED dbVars

FaultyBackfillReplaces(v, n) ==
  modeRow' = IF v = ModeVersion /\ n = Backfill
             THEN [t \in Tasks |-> IF modeRow[t] # NoTask THEN "CODEX_SUPERVISED" ELSE NoTask]
             ELSE modeRow

\* INSERT OR IGNORE: a task that has a mode keeps it.
Effect(v, n) ==
  modeRow' = IF v = ModeVersion /\ n = Backfill
             THEN [t \in Tasks |-> IF modeRow[t] = NoRow THEN "CODEX_SUPERVISED" ELSE modeRow[t]]
             ELSE modeRow

\* The next statement of the script, committed on its own.
RunStatement(p) ==
  LET v == process[p].next
      n == process[p].statement
  IN /\ process[p].pc = "migrating"
     /\ v <= process[p].binary
     /\ n <= Statements(v)
     /\ applied' = applied \cup {<<v, n>>}
     /\ Effect(v, n)
     /\ process' = [process EXCEPT ![p].statement = n + 1]
     /\ UNCHANGED recorded

FaultyRecordFirst(p) ==
  /\ process[p].pc = "migrating"
  /\ process[p].next <= process[p].binary
  /\ recorded' = process[p].next
  /\ process' = IF process[p].statement > Statements(process[p].next)
                THEN [process EXCEPT ![p].next = @ + 1, ![p].statement = 1]
                ELSE process
  /\ UNCHANGED <<applied, modeRow>>

\* The version is stored unconditionally: a second process that read an
\* older one sets it back for a while.
RecordVersion(p) ==
  /\ process[p].pc = "migrating"
  /\ process[p].next <= process[p].binary
  /\ process[p].statement > Statements(process[p].next)
  /\ recorded' = process[p].next
  /\ process' = [process EXCEPT ![p].next = @ + 1, ![p].statement = 1]
  /\ UNCHANGED <<applied, modeRow>>

Serve(p) ==
  /\ process[p].pc = "migrating"
  /\ process[p].next > process[p].binary
  /\ process' = [process EXCEPT ![p].pc = "serving", ![p].next = 0, ![p].statement = 0]
  /\ UNCHANGED dbVars

\* A crash, or an orderly stop.
Stop(p) ==
  /\ process[p].pc # "off"
  /\ process' = [process EXCEPT ![p] = Off]
  /\ UNCHANGED dbVars

-----------------------------------------------------------------------------
(* What a serving process does to the mode rows *)

\* create_task names no mode: the row comes from the trigger, if there is one.
CreateTask(p, t) ==
  /\ Serving(p)
  /\ modeRow[t] = NoTask
  /\ modeRow' = [modeRow EXCEPT ![t] =
       IF <<ModeVersion, Trigger>> \in applied THEN "HYBRID" ELSE NoRow]
  /\ UNCHANGED <<recorded, applied, process>>

\* set_execution_mode, of a build that knows the table; who may set which
\* mode is ExecutionLease's.
SetMode(p, t, m) ==
  /\ Serving(p)
  /\ process[p].binary >= ModeVersion
  /\ modeRow[t] \in Modes \ {m}
  /\ modeRow' = [modeRow EXCEPT ![t] = m]
  /\ UNCHANGED <<recorded, applied, process>>

MigrationStep(p) == RunStatement(p) \/ RecordVersion(p) \/ Serve(p)

-----------------------------------------------------------------------------
(* Properties *)

\* The recorded version promises every statement up to it, whatever crashed
\* on the way and whichever process stored it last.
RecordedIsApplied == ScriptsUpTo(recorded) \subseteq applied

\* A process serves on the schema of its own build at least: what it skipped
\* on the recorded version's word is there, although others crash half-way
\* through a script or set that version back beside it.
ServesOnItsSchema ==
  \A p \in Processes : Serving(p) => ScriptsUpTo(process[p].binary) \subseteq applied

\* A mode once stored changes by a request to a serving process only: a
\* script that runs again after a crash leaves it alone.
ModeSurvivesReplay ==
  [][\A t \in Tasks : modeRow[t] \in Modes /\ modeRow'[t] # modeRow[t] =>
       (\E p \in Processes : Serving(p)) /\ UNCHANGED <<process, applied>>
    ]_<<dbVars, process>>
=============================================================================
