--------------------------- MODULE WriterSession ---------------------------
(***************************************************************************)
(* What the writer lease and the two-phase direct protocol promise         *)
(* together, without revisions, modes, policies, calls or crashes: a       *)
(* worktree changes only inside a session of its holder, at most once per  *)
(* session, and the lease does not move while a session is unsettled.      *)
(* A session whose outcome is unknown is frozen, and stays so.             *)
(***************************************************************************)
EXTENDS Naturals

CONSTANT Workspaces

VARIABLES
  holder,     \* who may write: "NONE", "CHATGPT" or "CODEX"
  token,      \* fencing number of the newest grant
  session,    \* "closed", "open" or "frozen"
  landed,     \* has the session's one mutation reached its worktree?
  tree        \* mutations each worktree has received

sessionVars == <<holder, token, session, landed, tree>>

Init ==
  /\ holder = "NONE"
  /\ token = 0
  /\ session = "closed"
  /\ landed = FALSE
  /\ tree = [w \in Workspaces |-> 0]

\* Acquire and handoff: every grant has a token of its own.
Grant ==
  /\ session = "closed"
  /\ holder' \in {"CHATGPT", "CODEX"} \ {holder}
  /\ token' = token + 1
  /\ UNCHANGED <<session, landed, tree>>

Release ==
  /\ session = "closed"
  /\ holder' = "NONE"
  /\ UNCHANGED <<token, session, landed, tree>>

Begin ==
  /\ session = "closed"
  /\ holder = "CHATGPT"
  /\ session' = "open"
  /\ UNCHANGED <<holder, token, landed, tree>>

\* The worktree changes, perhaps long after the session was frozen.
Mutate ==
  /\ session # "closed"
  /\ ~landed
  /\ landed' = TRUE
  /\ \E w \in Workspaces : tree' = [tree EXCEPT ![w] = @ + 1]
  /\ UNCHANGED <<holder, token, session>>

\* Success is claimed only for a mutation that has reached the worktree.
Settle ==
  /\ session = "open"
  /\ landed
  /\ session' = "closed"
  /\ landed' = FALSE
  /\ UNCHANGED <<holder, token, tree>>

Freeze ==
  /\ session = "open"
  /\ session' = "frozen"
  /\ UNCHANGED <<holder, token, landed, tree>>

Next == Grant \/ Release \/ Begin \/ Mutate \/ Settle \/ Freeze

Spec == Init /\ [][Next]_sessionVars
=============================================================================
