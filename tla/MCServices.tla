----------------------------- MODULE MCServices -----------------------------
(* Small instances of Recordings, Metrics and Results for TLC, without       *)
(* symmetry, for the liveness of Recordings.  The three share no variable:   *)
(* one component runs while the others rest, and Recordings at rest enables  *)
(* no step that the fairness names.                                          *)
EXTENDS Recordings, Metrics, Results, TLC

CONSTANTS f1, f2, p1, p2

VARIABLE component

MCKeep == [g \in Tier |-> CASE g = "raw" -> 6 [] g = "m1" -> 8 [] OTHER -> 10]

servicesVars == <<recordingsVars, metricsVars, resultsVars, component>>

ServicesInit ==
  /\ RecordingsInit /\ MetricsInit /\ ResultsInit
  /\ component \in {"recordings", "metrics", "results"}

ServicesNext ==
  /\ UNCHANGED component
  /\ \/ component = "recordings" /\ RecordingsNext /\ UNCHANGED <<metricsVars, resultsVars>>
     \/ component = "metrics" /\ MetricsNext /\ UNCHANGED <<recordingsVars, resultsVars>>
     \/ component = "results" /\ ResultsNext /\ UNCHANGED <<recordingsVars, metricsVars>>

ServicesFairSpec ==
  ServicesInit /\ [][ServicesNext]_servicesVars /\ RecordingsFairness

\* The type invariants of the three: no channel, queue or buffer holds more than
\* it can, a row covers samples of its own series only, and no probe_results row
\* outlives its probe, whichever statement is under way when it is deleted.
ServicesTypeOK == RecordingsTypeOK /\ MetricsTypeOK /\ ResultsTypeOK
============================================================================
