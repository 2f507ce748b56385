----------------------------- MODULE MCRollout -----------------------------
(* Small instances of Rollout for TLC.                                      *)
EXTENDS Rollout, TLC

CONSTANTS a1, a2, r1, old, new

\* Every rollout ships the new release.
MCTarget == [r \in Rollouts |-> new]

\* release.yml publishes tags of the form vX.Y.Z ...
MCTagV == [v \in Releases |-> <<"v", v>>]
\* ... while a fork may tag with the bare version.
MCTagBare == [v \in Releases |-> <<v>>]
\* monitor_common::VERSION is CARGO_PKG_VERSION: never prefixed.
MCReported == [v \in Releases |-> <<v>>]

Symmetry == Permutations(Agents)
============================================================================
