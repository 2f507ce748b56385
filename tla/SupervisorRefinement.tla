------------------------ MODULE SupervisorRefinement ------------------------
(***************************************************************************)
(* The supervisor implements SelfUpdate.  The window is the trial; while   *)
(* it is open the home is what a rollback would return to, and otherwise   *)
(* the version state.json calls current.                                   *)
(***************************************************************************)
EXTENDS Supervisor

Promise == INSTANCE SelfUpdate WITH
  Releases  <- Versions,
  MaxStarts <- MaxRestarts,
  home      <- IF window = 0 THEN current ELSE lkg,
  trial     <- window,
  lived     <- window # 0 /\ outlived,
  starts    <- restarts

\* "Failure inside the grace window rolls back to last_known_good": whatever the
\* order of staging results, exits, launches that fail and overlapping updates,
\* a host leaves its version only for one that outlived a trial, and a trial
\* that fails leads back to the version it started from.
ImplementsSelfUpdate == Promise!SelfUpdateSpec
============================================================================
