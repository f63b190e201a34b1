---------------------------- MODULE MCScheduler ----------------------------
(* Model values for Scheduler.  Threads and tasks are interchangeable, so  *)
(* the runs that check only invariants use symmetry over both (never with  *)
(* a liveness property, where symmetry reduction is unsound).              *)
EXTENDS Scheduler, TLC

CONSTANTS th1, th2, ta1, ta2, ta3, v1, v2

MCThreads == {th1, th2}
MCTasks == {ta1, ta2, ta3}
MCTwoTasks == {ta1, ta2}
MCVals == {v1, v2}
MCOneVal == {v1}

Symmetry == Permutations(MCThreads) \cup Permutations(MCTasks)
=============================================================================
