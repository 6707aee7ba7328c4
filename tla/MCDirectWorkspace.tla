-------------------------- MODULE MCDirectWorkspace --------------------------
(***************************************************************************)
(* DirectWorkspace for TLC: two patch calls, so that one can meet what the *)
(* other left behind, an open call that may replace the binding, and a     *)
(* refresh that may store an old reading.                                  *)
(***************************************************************************)
EXTENDS DirectWorkspace, TLC

CONSTANTS p1, p2, o1, o2, f1, w1, w2

TwoPatches == {p1, p2}
OnePatch == {p1}
TwoOpens == {o1, o2}
OneOpen == {o1}
OneRefresh == {f1}
NoRefresh == {}
TwoWorkspaces == {w1, w2}
OneWorkspace == {w1}

\* Calls and workspaces are interchangeable; used by the safety run only.
Symmetry ==
  Permutations(TwoPatches) \cup Permutations(TwoOpens) \cup Permutations(TwoWorkspaces)

\* One phase that admits a writer and one that does not.
TwoPhases == {"created", "accepted"}
OnePhase == {"created"}
=============================================================================
