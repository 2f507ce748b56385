----------------------------- MODULE MCTerminal -----------------------------
(* Small instances of Terminal for TLC.                                     *)
EXTENDS Terminal, TLC

CONSTANTS s1, s2, u1, u2

MCOwner     == [s \in Sessions |-> u1]
MCSymmetry  == Permutations(Sessions)
============================================================================
