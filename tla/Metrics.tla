------------------------------ MODULE Metrics ------------------------------
(***************************************************************************)
(* The path of one server's samples: the agent's stream loop takes them    *)
(* into a bounded buffer and flushes them in batches, the panel's inbound  *)
(* loop inserts a batch, and the roll-up task aggregates raw rows into     *)
(* minutes, five minutes and hours and prunes every tier.                  *)
(*                                                                         *)
(* A sample is the time it was taken; the two clocks agree.  A minute, five *)
(* minutes and an hour are lengths in units of that time.                  *)
(***************************************************************************)
EXTENDS Tiers, Sequences, FiniteSets, SequencesExt

CONSTANTS
  Keep,                \* how long each tier is kept
  BufferCap,           \* BUFFER_CAP, scaled down
  UpCap,               \* the stream's upstream channel, scaled down
  TickGap,             \* bound: longest time between two roll-ups of the minutes
  MaxSamples,          \* bound: samples taken
  MaxDrops,            \* bound: streams and processes that end
  MaxNow               \* bound: time

Time == 0 .. MaxNow

ASSUME MetricsAssumption ==
  /\ {BufferCap, UpCap, TickGap} \subseteq Nat \ {0} /\ TickGap <= RawWindow
  /\ {MaxSamples, MaxDrops, MaxNow} \subseteq Nat
  /\ Keep \in [Tier -> Nat] /\ Keep["raw"] >= RawWindow + Minute

VARIABLES
  now,     \* the time
  link,    \* the agent's stream is up
  buffer,  \* the agent's samples of the streams so far
  flight,  \* batches between the agent's channel and the panel's inbound loops
  table,   \* metric_snapshots, by granularity
  job,     \* statements the running tick is through with
  rolled,  \* history: when raw rows were last rolled up
  taken,   \* history: samples taken so far
  timely,  \* history: samples inserted early enough for every gap between ticks
  fresh,   \* history: samples the running tick has read from the raw tier
  drops    \* history: streams and processes that ended

agent       == <<link, buffer, flight>>
rollup      == <<table, job, rolled, fresh>>
metricsVars == <<now, agent, rollup, taken, timely, drops>>

MetricsInit ==
  /\ now = 0 /\ link = FALSE /\ buffer = <<>> /\ flight = {}
  /\ table = [g \in Tier |-> NoRows(Time)]
  /\ job = 0 /\ rolled = 0 /\ fresh = {} /\ taken = 0 /\ timely = {} /\ drops = 0

\* A tick is at most TickGap late: the panel is not down for longer.
Pass ==
  /\ now < MaxNow /\ now - rolled < TickGap
  /\ now' = now + 1
  /\ UNCHANGED <<agent, rollup, taken, timely, drops>>

----------------------------------------------------------------------------
(* The agent's stream loop.                                                *)

Connect ==
  /\ ~link /\ link' = TRUE
  /\ UNCHANGED <<now, buffer, flight, rollup, taken, timely, drops>>

\* push_back, and pop_front when that is over the cap.
Buffered(b, t) ==
  IF Len(b) < BufferCap THEN Append(b, t) ELSE Tail(Append(b, t))

Known == ToSet(buffer) \cup UNION flight \cup UNION {table["raw"][t] : t \in Time}

\* Samples are taken only while a stream is up.
Sample ==
  /\ link /\ taken < MaxSamples /\ now \notin Known
  /\ buffer' = Buffered(buffer, now) /\ taken' = taken + 1
  /\ UNCHANGED <<now, link, flight, rollup, timely, drops>>

\* flush_metrics drains the buffer and waits for room in the channel.
Flush ==
  /\ link /\ buffer # <<>> /\ Cardinality(flight) < UpCap
  /\ flight' = flight \cup {ToSet(buffer)} /\ buffer' = <<>>
  /\ UNCHANGED <<now, link, rollup, taken, timely, drops>>

\* The stream ends, with or without a last flush into a channel that may be gone;
\* any of the batches on their way go with it.
Disconnect ==
  /\ link /\ drops < MaxDrops
  /\ link' = FALSE /\ drops' = drops + 1
  /\ \/ (\E kept \in SUBSET flight : flight' = kept) /\ UNCHANGED buffer
     \/ /\ buffer # <<>> /\ buffer' = <<>>
        /\ \E kept \in SUBSET (flight \cup {ToSet(buffer)}) : flight' = kept
  /\ UNCHANGED <<now, rollup, taken, timely>>

\* The agent's process ends, and its buffer with it.
AgentRestart ==
  /\ drops < MaxDrops
  /\ link' = FALSE /\ buffer' = <<>> /\ drops' = drops + 1
  /\ \E kept \in SUBSET flight : flight' = kept
  /\ UNCHANGED <<now, rollup, taken, timely>>

----------------------------------------------------------------------------
(* The panel's inbound loop.                                               *)

\* Every gap between two ticks leaves one that still reads a sample inserted now.
InTime(t) == now + TickGap < Bucket(t, Minute) + RawWindow + Minute

\* ingest_batch: one INSERT, ON CONFLICT DO NOTHING.
Ingest(batch) ==
  /\ batch \in flight /\ flight' = flight \ {batch}
  /\ table' = [table EXCEPT !["raw"] = [t \in Time |-> IF t \in batch THEN {t} ELSE @[t]]]
  /\ timely' = timely \cup {t \in batch : InTime(t)}
  /\ UNCHANGED <<now, link, buffer, job, rolled, fresh, taken, drops>>

\* The INSERT fails: the batch is dropped with a warning.
IngestFails(batch) ==
  /\ batch \in flight /\ flight' = flight \ {batch}
  /\ UNCHANGED <<now, link, buffer, rollup, taken, timely, drops>>

----------------------------------------------------------------------------
(* The roll-up task: tick_once, one statement at a time.                   *)

\* Mutant: the coarse tiers first.
Statements_Reversed == <<"h1", "m5", "m1", "prune">>

\* The order of tick_once.
Statements == <<"m1", "m5", "h1", "prune">>

\* The task is at statement s.  Ticks are a minute apart at least.
Runs(s) ==
  /\ Statements[job + 1] = s
  /\ job = 0 => now - rolled >= Minute
  /\ job' = (job + 1) % Len(Statements)

RollRawToM1 ==
  /\ Runs("m1")
  /\ table' = [table EXCEPT !["m1"] =
       Rolled(@, table["raw"], MinutesFrom(now), MinutesTo(now), Minute)]
  /\ rolled' = now
  /\ fresh' = {t \in Time : table["raw"][t] # {} /\ InMinutes(t, now)}
  /\ UNCHANGED <<now, agent, taken, timely, drops>>

RollM1ToM5 ==
  /\ Runs("m5")
  /\ table' = [table EXCEPT !["m5"] =
       Rolled(@, table["m1"], FivesFrom(now), MaxNow + 1, Five)]
  /\ UNCHANGED <<now, agent, rolled, fresh, taken, timely, drops>>

RollM5ToH1 ==
  /\ Runs("h1")
  /\ table' = [table EXCEPT !["h1"] =
       Rolled(@, table["m5"], HoursFrom(now), MaxNow + 1, Hour)]
  /\ UNCHANGED <<now, agent, rolled, fresh, taken, timely, drops>>

\* The oldest row of a tier that prune leaves.
Oldest(g) == now - Keep[g]

Prune ==
  /\ Runs("prune")
  /\ table' = [g \in Tier |-> Pruned(table[g], Oldest(g))]
  /\ fresh' = {}
  /\ UNCHANGED <<now, agent, rolled, taken, timely, drops>>

\* A statement fails, and the tick with it: the next one starts from the top.
TickFails ==
  /\ job # 0 /\ job' = 0 /\ fresh' = {}
  /\ UNCHANGED <<now, agent, table, rolled, taken, timely, drops>>

\* The panel's process ends: streams and the tick with it.
PanelRestart ==
  /\ drops < MaxDrops /\ drops' = drops + 1
  /\ link' = FALSE /\ flight' = {} /\ job' = 0 /\ fresh' = {}
  /\ UNCHANGED <<now, buffer, table, rolled, taken, timely>>

----------------------------------------------------------------------------
MetricsNext ==
  \/ Pass \/ Connect \/ Sample \/ Flush \/ Disconnect \/ AgentRestart
  \/ \E batch \in flight : Ingest(batch) \/ IngestFails(batch)
  \/ RollRawToM1 \/ RollM1ToM5 \/ RollM5ToH1 \/ Prune \/ TickFails
  \/ PanelRestart

MetricsSpec == MetricsInit /\ [][MetricsNext]_metricsVars

----------------------------------------------------------------------------
(* Properties.                                                             *)

\* Every variable keeps its type, the buffer stays under its cap, and a row
\* covers samples of its own bucket only.
MetricsTypeOK ==
  /\ now \in Time /\ link \in BOOLEAN
  /\ buffer \in Seq(Time) /\ Len(buffer) <= BufferCap
  /\ flight \subseteq SUBSET Time
  /\ table \in [Tier -> [Time -> SUBSET Time]]
  /\ job \in 0 .. 3
  /\ rolled \in Time /\ {timely, fresh} \subseteq SUBSET Time
  /\ taken \in 0 .. MaxSamples /\ drops \in 0 .. MaxDrops

\* A late tick, a failed one or a restart drops no minute: as long as no two
\* roll-ups are more than TickGap apart, a sample that was inserted in time is
\* part of its minute's row once the window has passed it by, for as long as
\* the row is kept.
MinutesAreWhole ==
  \A t \in timely :
    now >= Bucket(t, Minute) + RawWindow + Minute =>
      \/ Covers(table["m1"], t, Minute)
      \/ Bucket(t, Minute) < Oldest("m1")

\* "Aggregate the three tiers in order so m5 can read freshly-written m1": when
\* the three statements of a tick are through, what it read from the raw tier
\* has reached the hour, unless a window has left its row behind.
FreshReachesHours ==
  job = 3 =>
    \A t \in fresh :
      \/ Covers(table["h1"], t, Hour)
      \/ Bucket(t, Minute) < FivesFrom(now)
      \/ Bucket(t, Five) < HoursFrom(now)

\* "a second pass over the same bucket [is] a no-op on the already-aggregated row
\* and a refinement on still-growing ones", for the minutes: a row of a minute
\* never loses a sample it was computed from, however the passes fall.
MinuteRowsOnlyGrow ==
  [][OnlyGrows(table["m1"], table'["m1"], Oldest("m1"))]_metricsVars

\* The same sentence, for the rows of five minutes.
FiveMinuteRowsOnlyGrow ==
  [][OnlyGrows(table["m5"], table'["m5"], Oldest("m5"))]_metricsVars
============================================================================
