----------------------------- MODULE SelfUpdate -----------------------------
(***************************************************************************)
(* What the supervisor promises of a host's releases, without state.json,  *)
(* tasks, processes or IPC: the host has a home version, a release is put  *)
(* on trial, and the trial ends with the release as the new home when it   *)
(* outlived the grace window and with the old home when it did not.  Only  *)
(* a supervisor that is restarted forgets that a trial was open.           *)
(***************************************************************************)
EXTENDS Naturals

CONSTANTS Releases, MaxStarts

VARIABLES home, trial, lived, starts

promiseVars == <<home, trial, lived, starts>>

PromiseInit == home = 0 /\ trial = 0 /\ lived = FALSE /\ starts = 0

Try(v) ==
  /\ trial = 0 /\ trial' = v /\ lived' = FALSE
  /\ UNCHANGED <<home, starts>>

Live ==
  /\ trial # 0 /\ lived' = TRUE
  /\ UNCHANGED <<home, trial, starts>>

Keep ==
  /\ trial # 0 /\ lived
  /\ home' = trial /\ trial' = 0 /\ lived' = FALSE
  /\ UNCHANGED starts

Revert ==
  /\ trial # 0 /\ ~lived
  /\ trial' = 0 /\ lived' = FALSE
  /\ UNCHANGED <<home, starts>>

Forget ==
  /\ starts < MaxStarts /\ starts' = starts + 1
  /\ home' = IF trial = 0 THEN home ELSE trial
  /\ trial' = 0 /\ lived' = FALSE

PromiseNext == (\E v \in Releases : Try(v)) \/ Live \/ Keep \/ Revert \/ Forget

SelfUpdateSpec == PromiseInit /\ [][PromiseNext]_promiseVars
============================================================================
