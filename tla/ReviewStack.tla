------------------------------ MODULE ReviewStack ------------------------------
(***************************************************************************)
(* What checkpoint review promises (docs/P5-checkpoints.md, "Revision      *)
(* semantics"): decision checkpoints pile up unreviewed, each enters once, *)
(* and only the latest one can be decided.                                 *)
(***************************************************************************)
EXTENDS Naturals

VARIABLES
  pending,   \* sequence numbers awaiting review, a stack by their order
  decided    \* sequence numbers already reviewed

stackVars == <<pending, decided>>

StackInit == pending = {} /\ decided = {}

\* Sequence numbers only grow; heartbeats take some of them.
Raise ==
  \E n \in pending' \ pending :
    /\ \A k \in pending \cup decided : k < n
    /\ pending' = pending \cup {n}
    /\ UNCHANGED decided

Decide ==
  \E n \in pending :
    /\ \A k \in pending : k <= n
    /\ pending' = pending \ {n}
    /\ decided' = decided \cup {n}

StackNext == Raise \/ Decide

StackSpec == StackInit /\ [][StackNext]_stackVars
=============================================================================
