------------------------------- MODULE MCKandev -------------------------------
(***************************************************************************)
(* Kandev for TLC: two processes, a task of the old database and one of    *)
(* the new, and the builds before and after the execution modes.           *)
(***************************************************************************)
EXTENDS Kandev, TLC

CONSTANTS p1, p2, t1, t2

TwoProcesses == {p1, p2}
TwoTasks == {t1, t2}
OneOldTask == {t1}
TwoBinaries == {4, 7}

Symmetry == Permutations(TwoProcesses)
=============================================================================
