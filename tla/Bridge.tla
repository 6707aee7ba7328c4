------------------------------- MODULE Bridge -------------------------------
(***************************************************************************)
(* One task worked on by both writers: ChatGPT's direct edits              *)
(* (DirectWorkspace) and Codex runs (AgentExecution) over the same rows    *)
(* and in the same worktrees.  The two never call each other; all they     *)
(* share is the lease, the fence and the workspace row.                    *)
(***************************************************************************)
EXTENDS DirectWorkspace, AgentExecution

CONSTANT MaxEdits   \* bound: changes a Codex run makes to one worktree

ASSUME EditsAssumption == MaxEdits \in Nat

VARIABLES
  edits,     \* external: changes Codex runs have made to each worktree
  editsAt    \* history: of those, how many a patch call prepared upon

editVars == <<edits, editsAt>>
bridgeVars == <<rowVars, directVars, agentVars, editVars>>

BridgeTypeOK ==
  /\ TypeOK
  /\ AgentTypeOK
  /\ edits \in [Workspaces -> Nat]
  /\ editsAt \in [Patches -> Nat]

BridgeInit ==
  /\ Init
  /\ AgentInit
  /\ edits = [w \in Workspaces |-> 0]
  /\ editsAt = [c \in Patches |-> 0]

\* An execution run is given a workspace-write sandbox: while it works it
\* changes worktrees, whatever the task's rows say by then.
CodexEdits(s, w) ==
  /\ run[s] = "running"
  /\ edits[w] < MaxEdits
  /\ edits' = [edits EXCEPT ![w] = @ + 1]
  /\ UNCHANGED <<rowVars, directVars, agentVars, editsAt>>

\* The requests on the shared rows: lease, rules, plan, memory, the fence's
\* reconciliation and the starts.
SharedRequest == AgentRequest /\ UNCHANGED <<directVars, editVars>>

DirectRequest ==
  /\ revision < MaxRevision
  /\ UNCHANGED <<agentVars, edits>>
  /\ \/ \E c \in Patches : Prepare(c) /\ editsAt' = [editsAt EXCEPT ![c] = edits[wsId]]
     \/ (\E o \in Opens : OpenBegin(o)) /\ UNCHANGED editsAt

DirectStep ==
  /\ UNCHANGED <<agentVars, editVars>>
  /\ \/ \E c \in Patches : PatchStep(c) \/ DevSpaceStep(c) \/ Lose(c)
     \/ \E o \in Opens : OpenStep(o)

CodexStep ==
  /\ UNCHANGED <<directVars, editVars>>
  /\ \E s \in Calls : CallStep(s) \/ AgentStep(s) \/ LoseStart(s)

BridgeNext ==
  \/ SharedRequest
  \/ DirectRequest
  \/ DirectStep
  \/ CodexStep
  \/ \E s \in ExecCalls, w \in Workspaces : CodexEdits(s, w)

BridgeSpec == BridgeInit /\ [][BridgeNext]_bridgeVars

-----------------------------------------------------------------------------
(* Properties *)

\* Neither side starts on what the other has left open: no execution is
\* requested or bound while a direct operation is prepared or the worktree
\* awaits reconciliation, and no direct operation is prepared under the
\* fence of a Codex run whose fate is unknown.
StartsAreExclusive ==
  [][ /\ \A s \in ExecCalls :
           (run[s] = "none" /\ run'[s] = "requested") \/ (runtime # s /\ runtime' = s)
             => NoPrepared /\ wsState # "RECONCILIATION_REQUIRED"
      /\ \A c \in Patches :
           opStatus[c] = "none" /\ opStatus'[c] = "PREPARED"
             => \A s \in Calls : callPc[s] \notin {"interrupting", "uncertain"}
    ]_bridgeVars

\* Direct edits and Codex never mutate the worktree at the same time
\* (docs/P6.5-execution-modes.md:81): while an execution run works, no
\* patch is on its way to the worktree.
NeverBothWriting ==
  ~ \E c \in Patches, s \in ExecCalls : request[c] = "inflight" /\ run[s] = "running"
=============================================================================
