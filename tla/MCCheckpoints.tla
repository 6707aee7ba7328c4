---------------------------- MODULE MCCheckpoints ----------------------------
(***************************************************************************)
(* Checkpoints for TLC: two collections at once, with observations that    *)
(* are a gate on both paths, a gate on one of them, news and no news.      *)
(***************************************************************************)
EXTENDS Checkpoints, TLC

CONSTANTS c1, c2, w1, w2

NoPatch == {}
TwoCollectors == {c1, c2}
TwoWorkflows == {w1, w2}
CollectPhases == {"created"} \cup ReviewPhases

Quiet == [status |-> "running", work |-> FALSE, next |-> "none"]
FewObservations ==
  {Quiet, [Quiet EXCEPT !.next = "report"], [Quiet EXCEPT !.status = "UNKNOWN"],
   [Quiet EXCEPT !.status = "blocked", !.work = TRUE]}

\* Nothing here looks at the execution mode.
MCInit == CheckpointInit /\ mode = "HYBRID"

MCSpec == MCInit /\ [][CheckpointNext]_vars

Symmetry == Permutations(TwoCollectors) \cup Permutations(TwoWorkflows)
=============================================================================
