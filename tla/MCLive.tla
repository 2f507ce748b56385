------------------------------- MODULE MCLive -------------------------------
(* Small instances of Terminal, Identity and Releases for TLC, without       *)
(* symmetry, for their liveness.  The three share no variable: one component *)
(* runs while the others rest, in a first state where they owe nothing.      *)
EXTENDS Terminal, Identity, Releases, TLC

CONSTANTS s1, u1, h1, h2, a1, g1, g2, g3, linux, mac

VARIABLE component

MCOwner    == [s \in Sessions |-> u1]
MCTargetOf == g1 :> linux @@ g2 :> mac @@ g3 :> NoTarget

liveVars == <<vars, identityVars, releasesVars, component>>

LiveInit ==
  /\ Init /\ IdentityInit /\ ReleasesInit
  /\ component \in {"terminal", "identity", "releases"}

LiveNext ==
  /\ UNCHANGED component
  /\ \/ component = "terminal" /\ Next /\ UNCHANGED <<identityVars, releasesVars>>
     \/ component = "identity" /\ IdentityNext /\ UNCHANGED <<vars, releasesVars>>
     \/ component = "releases" /\ ReleasesNext /\ UNCHANGED <<vars, identityVars>>

LiveFairSpec ==
  /\ LiveInit /\ [][LiveNext]_liveVars
  /\ TerminalFairness /\ IdentityFairness
  /\ WF_releasesVars(component = "releases" /\ PollStep)

\* The type invariants of Identity and Releases: a row of servers never has a join
\* token and a server token at once, and the two rows of the release cache agree.
LiveTypeOK == IdentityTypeOK /\ ReleasesTypeOK
============================================================================
