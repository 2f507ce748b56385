---------------------------- MODULE MCProbeSync ----------------------------
(* Small instances of ProbeSync for TLC.                                    *)
EXTENDS ProbeSync, TLC

CONSTANTS a1, a2, p1, p2, c1, c2
============================================================================
