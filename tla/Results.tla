------------------------------ MODULE Results ------------------------------
(***************************************************************************)
(* The path of one agent's probe results: the executions its loops start,  *)
(* the bounded channel they report into, the stream loop's batches, the    *)
(* panel's one INSERT per batch, the roll-up task and the deletion of a    *)
(* probe, which a foreign key ties to every row of it.                     *)
(*                                                                         *)
(* A result is its probe and the time it was made; whether it was a        *)
(* success is not modelled.  Which loops run is ProbeSync's matter; they   *)
(* follow the tables at any distance, so any probe may be executing.       *)
(***************************************************************************)
EXTENDS Tiers, Sequences, FiniteSets, SequencesExt

CONSTANTS
  Probes,
  Permits,     \* the scheduler's semaphore, scaled down
  QueueCap,    \* the results channel, scaled down
  BatchMax,    \* PROBE_FLUSH_MAX, scaled down
  BatchesCap,  \* the stream's upstream channel, scaled down
  KeepResults, \* how long each tier is kept
  MaxResults,  \* bound: executions
  MaxBreaks,   \* bound: streams that end and statements that fail
  MaxClock     \* bound: time

Times == 0 .. MaxClock

ASSUME ResultsAssumption ==
  /\ {Permits, QueueCap, BatchMax, BatchesCap} \subseteq Nat \ {0}
  /\ {MaxResults, MaxBreaks, MaxClock} \subseteq Nat
  /\ KeepResults \in [Tier -> Nat] /\ KeepResults["raw"] >= RawWindow + Minute

VARIABLES
  clock,     \* the time
  gone,      \* probes deleted from the panel's table; ids are not reused
  running,   \* executions under way, a permit each: the probe and a number
  queue,     \* the results channel
  batches,   \* ProbeBatch frames on their way to the inbound loop
  rows,      \* probe_results, by probe and granularity
  stmt,      \* statements the running tick is through with
  insert,    \* what the running statement has read and is about to write
  executed,  \* history: executions so far
  reported,  \* history: results the channel has taken
  breaks,    \* history: streams that ended and statements that failed
  unstored   \* history: results that a break, or a batch that failed, has lost

onAgent     == <<running, queue>>
inTask      == <<stmt, insert>>
resultsHist == <<executed, reported, breaks, unstored>>
resultsVars == <<clock, gone, onAgent, batches, rows, inTask, resultsHist>>

Result == Probes \X Times
NoProbeRows == [g \in Tier |-> NoRows(Times)]
NoInsert == [p \in {} |-> NoRows(Times)]

ResultsInit ==
  /\ clock = 0 /\ gone = {} /\ running = {}
  /\ queue = <<>> /\ batches = <<>> /\ rows = [p \in Probes |-> NoProbeRows]
  /\ stmt = 0 /\ insert = NoInsert
  /\ executed = 0 /\ reported = {} /\ breaks = 0 /\ unstored = {}

Elapse ==
  /\ clock < MaxClock /\ clock' = clock + 1
  /\ UNCHANGED <<gone, onAgent, batches, rows, inTask, resultsHist>>

----------------------------------------------------------------------------
(* The agent.                                                              *)

\* A tick of a loop: a permit, and a task for the execution, which goes on when
\* the loop is aborted.
StartProbe(p) ==
  /\ Cardinality(running) < Permits
  /\ executed < MaxResults /\ executed' = executed + 1
  /\ running' = running \cup {<<p, executed'>>}
  /\ UNCHANGED <<clock, gone, queue, batches, rows, inTask, reported, breaks, unstored>>

\* try_send: dropped when the channel is full.
Reported(r) == IF Len(queue) < QueueCap THEN Append(queue, r) ELSE queue

\* Not at the time of another result of the probe, whose row would be the same.
FinishProbe(p) ==
  /\ \E e \in running : e[1] = p /\ running' = running \ {e}
  /\ <<p, clock>> \notin reported
  /\ queue' = Reported(<<p, clock>>) /\ reported' = reported \cup ToSet(queue')
  /\ UNCHANGED <<clock, gone, batches, rows, inTask, executed, breaks, unstored>>

Taken == SubSeq(queue, 1, Min({BatchMax, Len(queue)}))

\* Mutant: what does not fit the batch is thrown away.
Left_None == <<>>

\* What try_recv has not taken.
Left == SubSeq(queue, Len(Taken) + 1, Len(queue))

\* flush_probes waits for room in the stream's channel.
FlushProbes ==
  /\ queue # <<>> /\ Len(batches) < BatchesCap
  /\ batches' = Append(batches, ToSet(Taken)) /\ queue' = Left
  /\ UNCHANGED <<clock, gone, running, rows, inTask, resultsHist>>

Break == breaks < MaxBreaks /\ breaks' = breaks + 1

\* A new connection has a new scheduler: the old channel is closed, with or
\* without a last batch, and what still executes has nobody to report to.  The
\* inbound loop receives some of the batches.
NewStream ==
  /\ Break
  /\ LET last == IF queue = <<>> THEN <<>> ELSE <<ToSet(Taken)>>
         on   == batches \o last
     IN \E n \in 0 .. Len(on) :
          /\ batches' = SubSeq(on, 1, n)
          /\ unstored' = unstored \cup ((ToSet(queue) \cup UNION ToSet(batches))
                                          \ UNION ToSet(batches'))
  /\ running' = {} /\ queue' = <<>>
  /\ UNCHANGED <<clock, gone, rows, inTask, executed, reported>>

----------------------------------------------------------------------------
(* The panel's inbound loop, and the endpoint that deletes a probe.        *)

Stored(p, batch) ==
  [rows[p] EXCEPT !["raw"] = [t \in Times |-> IF <<p, t>> \in batch THEN {t} ELSE @[t]]]

\* One INSERT for the batch: a result of a probe that is gone fails all of it.
IngestResults ==
  /\ batches # <<>> /\ batches' = Tail(batches)
  /\ LET batch == Head(batches)
         fails == \E r \in batch : r[1] \in gone
     IN /\ rows' = IF fails THEN rows ELSE [p \in Probes |-> Stored(p, batch)]
        /\ unstored' = IF fails THEN unstored \cup batch ELSE unstored
  /\ UNCHANGED <<clock, gone, onAgent, inTask, executed, reported, breaks>>

InsertFails ==
  /\ batches # <<>> /\ batches' = Tail(batches) /\ Break
  /\ unstored' = unstored \cup Head(batches)
  /\ UNCHANGED <<clock, gone, onAgent, rows, inTask, executed, reported>>

\* ON DELETE CASCADE.
Cascade(p) == [rows EXCEPT ![p] = NoProbeRows]

DropProbe(p) ==
  /\ p \notin gone /\ gone' = gone \cup {p} /\ rows' = Cascade(p)
  /\ UNCHANGED <<clock, onAgent, batches, inTask, resultsHist>>

----------------------------------------------------------------------------
(* The roll-up task: tick_once, one statement at a time.  A statement      *)
(* reads a snapshot and writes under the foreign key.                      *)

Statement == <<"m1", "m5", "h1", "prune">>[stmt + 1]

\* What the statement for a tier reads, and the length of its buckets.
Plan ==
  [m1 |-> [of |-> "raw", from |-> MinutesFrom(clock), to |-> MinutesTo(clock), length |-> Minute],
   m5 |-> [of |-> "m1", from |-> FivesFrom(clock), to |-> MaxClock + 1, length |-> Five],
   h1 |-> [of |-> "m5", from |-> HoursFrom(clock), to |-> MaxClock + 1, length |-> Hour]]

InWindow(p, plan) ==
  \E t \in Times : rows[p][plan.of][t] # {} /\ t >= plan.from /\ t < plan.to

Aggregated(p, g) ==
  LET plan == Plan[g]
  IN Rolled(rows[p][g], rows[p][plan.of], plan.from, plan.to, plan.length)

\* The SELECT of the statement: the probes it has rows to write for.
RollRead ==
  /\ Statement # "prune" /\ insert = NoInsert
  /\ LET read == {p \in Probes : InWindow(p, Plan[Statement])}
     IN IF read = {}
        THEN stmt' = stmt + 1 /\ UNCHANGED insert
        ELSE insert' = [p \in read |-> Aggregated(p, Statement)] /\ UNCHANGED stmt
  /\ UNCHANGED <<clock, gone, onAgent, batches, rows, resultsHist>>

\* Mutant: nothing ties the rows of a tier to their probe.
Orphans_None == FALSE

\* Whether the foreign key refuses what the statement writes.
Orphans == \E p \in DOMAIN insert : p \in gone

\* Its INSERT; a statement that fails ends the tick, and the next starts anew.
RollWrite ==
  /\ insert # NoInsert /\ insert' = NoInsert
  /\ IF Orphans
     THEN stmt' = 0 /\ UNCHANGED rows
     ELSE /\ stmt' = stmt + 1
          /\ rows' = [p \in Probes |->
               IF p \in DOMAIN insert THEN [rows[p] EXCEPT ![Statement] = insert[p]] ELSE rows[p]]
  /\ UNCHANGED <<clock, gone, onAgent, batches, resultsHist>>

PruneResults ==
  /\ Statement = "prune" /\ stmt' = 0
  /\ rows' = [p \in Probes |-> [g \in Tier |-> Pruned(rows[p][g], clock - KeepResults[g])]]
  /\ UNCHANGED <<clock, gone, onAgent, batches, insert, resultsHist>>

\* The panel's process ends, and its streams with it.
PanelEnds ==
  /\ Break /\ stmt' = 0 /\ insert' = NoInsert
  /\ unstored' = unstored \cup ToSet(queue) \cup UNION ToSet(batches)
  /\ batches' = <<>> /\ running' = {} /\ queue' = <<>>
  /\ UNCHANGED <<clock, gone, rows, executed, reported>>

----------------------------------------------------------------------------
ResultsNext ==
  \/ Elapse
  \/ \E p \in Probes :
       StartProbe(p) \/ FinishProbe(p) \/ DropProbe(p)
  \/ FlushProbes \/ NewStream \/ IngestResults \/ InsertFails
  \/ RollRead \/ RollWrite \/ PruneResults \/ PanelEnds

ResultsSpec == ResultsInit /\ [][ResultsNext]_resultsVars

----------------------------------------------------------------------------
(* Properties.                                                             *)

\* Every variable keeps its type and every bound; no row outlives its probe,
\* whichever statement is under way when the probe is deleted.
ResultsTypeOK ==
  /\ clock \in Times /\ gone \subseteq Probes
  /\ running \subseteq Probes \X (1 .. executed) /\ Cardinality(running) <= Permits
  /\ queue \in Seq(Result) /\ Len(queue) <= QueueCap
  /\ batches \in Seq(SUBSET Result) /\ \A b \in ToSet(batches) : Cardinality(b) <= BatchMax
  /\ rows \in [Probes -> [Tier -> [Times -> SUBSET Times]]]
  /\ \A p \in gone : rows[p] = NoProbeRows
  /\ stmt \in 0 .. 3 /\ DOMAIN insert \subseteq Probes
  /\ executed \in 0 .. MaxResults /\ breaks \in 0 .. MaxBreaks
  /\ unstored \subseteq reported /\ reported \subseteq Result

\* "the upstream batcher is responsible for flow control": over any number of
\* batches, streams and restarts, a result the channel has taken is in the table
\* for as long as it is kept, unless its stream ended, its INSERT failed, or its
\* batch held a result of a deleted probe.
ReportedIsStored ==
  \A r \in reported \ unstored :
    \/ r \in ToSet(queue) \cup UNION ToSet(batches)
    \/ rows[r[1]]["raw"][r[2]] = {r[2]}
    \/ r[1] \in gone \/ r[2] < clock - KeepResults["raw"]

\* A row of a minute never loses a result it was computed from, however ticks,
\* late batches and deletions fall; only the deletion of its probe removes it.
ResultMinutesOnlyGrow ==
  [][\A p \in Probes \ gone' :
       OnlyGrows(rows[p]["m1"], rows'[p]["m1"], clock - KeepResults["m1"])]_resultsVars
============================================================================
