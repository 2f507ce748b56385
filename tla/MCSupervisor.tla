---------------------------- MODULE MCSupervisor ----------------------------
(* Small supervisors for TLC: versions sort in release order.        *)
EXTENDS SupervisorRefinement, TLC

CONSTANTS r1, r2, t1, t2

\* One rollout of one release.
MCShipsOne == r1 :> 1
\* Two rollouts of two releases.
MCShipsTwo == r1 :> 1 @@ r2 :> 2

MCTasks == {t1, t2}
MCSymmetry == Permutations(MCTasks)
============================================================================
