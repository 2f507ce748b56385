--------------------------- MODULE RollupsProofs ---------------------------
(***************************************************************************)
(* What the roll-ups of metric_snapshots and probe_results promise for any *)
(* lengths of buckets, windows and retentions, any number of samples,      *)
(* probes and channels' sizes: types and bounds, that what was in time is  *)
(* in its minute, that a tick carries what it read from the raw tier to    *)
(* the hour, that no minute loses a sample, that a reported result is      *)
(* stored.                                                                 *)
(***************************************************************************)
EXTENDS MCServices, RecordingsProofs, FiniteSetTheorems

----------------------------------------------------------------------------
(* Buckets.                                                                *)

LEMMA Lengths ==
  /\ Minute \in Nat /\ Minute > 0 /\ Five \in Nat /\ Five > 0 /\ Hour \in Nat /\ Hour > 0
  /\ Five % Minute = 0 /\ Hour % Five = 0
  /\ RawWindow \in Nat /\ FiveWindow \in Nat /\ HourWindow \in Nat
BY TiersAssumption

LEMMA Between2 ==
  ASSUME NEW L \in Nat, L > 0, NEW i \in Int, NEW j \in Int, L * i < L * j
  PROVE  L * i + L <= L * j
OBVIOUS

LEMMA BucketFacts ==
  ASSUME NEW t \in Int, NEW L \in Nat, L > 0
  PROVE  /\ Bucket(t, L) \in Int /\ Bucket(t, L) <= t /\ t < Bucket(t, L) + L
         /\ Bucket(t, L) = L * (t \div L)
         /\ t \div L \in Int
BY DEF Bucket

LEMMA BucketIs ==
  ASSUME NEW t \in Int, NEW L \in Nat, L > 0, NEW k \in Int, L * k <= t, t < L * k + L
  PROVE  Bucket(t, L) = L * k
<1>1. /\ Bucket(t, L) = L * (t \div L) /\ t \div L \in Int
      /\ Bucket(t, L) <= t /\ t < Bucket(t, L) + L
  BY BucketFacts
<1>2. ~(L * k < L * (t \div L))
  BY <1>1, Between2
<1>3. ~(L * (t \div L) < L * k)
  BY <1>1, Between2
<1> QED
  BY <1>1, <1>2, <1>3

LEMMA SameBucket ==
  ASSUME NEW t \in Int, NEW u \in Int, NEW L \in Nat, L > 0
  PROVE  Bucket(u, L) = Bucket(t, L) <=> (Bucket(t, L) <= u /\ u < Bucket(t, L) + L)
BY BucketFacts, BucketIs

LEMMA BucketGap ==
  ASSUME NEW t \in Int, NEW u \in Int, NEW L \in Nat, L > 0, Bucket(t, L) < Bucket(u, L)
  PROVE  Bucket(t, L) + L <= Bucket(u, L)
BY BucketFacts, Between2

LEMMA BucketOrder ==
  ASSUME NEW t \in Int, NEW u \in Int, NEW L \in Nat, L > 0, t <= u
  PROVE  Bucket(t, L) <= Bucket(u, L)
<1>1. /\ Bucket(t, L) \in Int /\ Bucket(u, L) \in Int
      /\ Bucket(t, L) <= t /\ u < Bucket(u, L) + L
  BY BucketFacts
<1>2. ~(Bucket(u, L) < Bucket(t, L))
  BY <1>1, BucketGap
<1> QED
  BY <1>1, <1>2

LEMMA BucketTime ==
  ASSUME NEW N \in Nat, NEW t \in 0 .. N, NEW L \in Nat, L > 0
  PROVE  Bucket(t, L) \in 0 .. N
<1>1. L * 0 = 0 /\ Bucket(0, L) = L * 0
  BY BucketIs
<1>2. Bucket(0, L) <= Bucket(t, L)
  BY BucketOrder
<1> QED
  BY <1>1, <1>2, BucketFacts

\* Every coarse bucket is made of whole finer ones.
LEMMA Nested ==
  ASSUME NEW t \in Int, NEW M \in Nat, M > 0, NEW F \in Nat, F > 0, F % M = 0
  PROVE  Bucket(Bucket(t, M), F) = Bucket(t, F)
<1> DEFINE m == Bucket(t, M)
           f == Bucket(t, F)
           q == F \div M
           k == t \div F
<1>1. /\ m \in Int /\ m <= t /\ t < m + M
      /\ f \in Int /\ f <= t /\ t < f + F /\ f = F * k /\ k \in Int
  BY BucketFacts
<1>2. q \in Int /\ F = M * q
  OBVIOUS
<1> HIDE DEF q, k, m, f
<1>3. f = M * (q * k) /\ q * k \in Int
  BY <1>1, <1>2
<1>4. f < f + M /\ f >= M * (q * k)
  BY <1>1, <1>3
<1>5. Bucket(f, M) = f
  BY <1>1, <1>3, BucketIs
<1>6. f <= m
  BY <1>1, <1>5, BucketOrder DEF m
<1>7. f <= m /\ m < f + F
  BY <1>1, <1>6
<1> QED
  BY <1>1, <1>7, SameBucket DEF m, f

----------------------------------------------------------------------------
(* What a statement leaves in a row.                                       *)

LEMMA RolledRow ==
  ASSUME NEW N \in Nat,
         NEW tier \in [0 .. N -> SUBSET (0 .. N)], NEW source \in [0 .. N -> SUBSET (0 .. N)],
         NEW from \in Int, NEW to \in Int, NEW length \in Nat, length > 0
  PROVE  LET next == Rolled(tier, source, from, to, length) IN
         /\ next \in [0 .. N -> SUBSET (0 .. N)]
         /\ \A b \in 0 .. N :
              /\ \A t \in 0 .. N :
                   t >= from /\ t < to /\ Bucket(t, length) = b => source[t] \subseteq next[b]
              /\ \/ next[b] = tier[b]
                 \/ /\ \A s \in next[b] : \E t \in 0 .. N :
                        t >= from /\ t < to /\ Bucket(t, length) = b /\ s \in source[t]
                    /\ \E t \in 0 .. N : t >= from /\ t < to /\ Bucket(t, length) = b
<1> DEFINE read(b)  == {t \in DOMAIN source : t >= from /\ t < to /\ Bucket(t, length) = b}
           group(b) == UNION {source[t] : t \in read(b)}
           next     == Rolled(tier, source, from, to, length)
<1>1. next = [b \in 0 .. N |-> IF group(b) = {} THEN tier[b] ELSE group(b)]
  BY DEF Rolled
<1>2. \A b \in 0 .. N : group(b) \subseteq 0 .. N
  OBVIOUS
<1>3. next \in [0 .. N -> SUBSET (0 .. N)]
  <2> HIDE DEF group, next
  <2> QED
    BY <1>1, <1>2
<1>4. ASSUME NEW b \in 0 .. N, NEW t \in 0 .. N, t >= from, t < to, Bucket(t, length) = b
      PROVE  source[t] \subseteq next[b]
  <2>1. source[t] \subseteq group(b)
    BY <1>4
  <2> HIDE DEF group, next
  <2> QED
    BY <1>1, <2>1
<1>5. ASSUME NEW b \in 0 .. N, next[b] # tier[b]
      PROVE  /\ \A s \in next[b] : \E t \in 0 .. N :
                  t >= from /\ t < to /\ Bucket(t, length) = b /\ s \in source[t]
             /\ \E t \in 0 .. N : t >= from /\ t < to /\ Bucket(t, length) = b
  <2>1. next[b] = group(b) /\ group(b) # {}
    <3> HIDE DEF group, next
    <3> QED
      BY <1>1, <1>5
  <2>2. \A s \in group(b) : \E t \in read(b) : s \in source[t]
    OBVIOUS
  <2>3. \A s \in group(b) : \E t \in 0 .. N :
          t >= from /\ t < to /\ Bucket(t, length) = b /\ s \in source[t]
    BY <2>2
  <2> HIDE DEF group, read, next
  <2> QED
    BY <2>1, <2>3
<1> HIDE DEF next
<1> QED
  BY <1>3, <1>4, <1>5 DEF next

----------------------------------------------------------------------------
(* The minutes of one series.                                              *)

\* A raw row is its own sample; a row of a minute is computed from samples of that
\* minute, which are still in the raw tier if they are not older than the oldest
\* row that is kept there.
OwnTimes(raw) == \A t \in DOMAIN raw : raw[t] \subseteq {t}
Rooted(raw, m1, oldest) ==
  \A b \in DOMAIN m1 : \A s \in m1[b] :
    Bucket(s, Minute) = b /\ (s < oldest \/ raw[s] = {s})

\* The window of the minutes is whole minutes, none of them older than the raw rows.
LEMMA WholeMinutes ==
  ASSUME NEW s \in Int, NEW t \in Int, NEW time \in Int,
         InMinutes(t, time), Bucket(s, Minute) = Bucket(t, Minute)
  PROVE  InMinutes(s, time) /\ time - RawWindow - Minute < s
<1> DEFINE from == Bucket(time - RawWindow, Minute)
           to   == Bucket(time, Minute)
           b    == Bucket(t, Minute)
<1>1. from <= t /\ t < to
  BY DEF InMinutes, MinutesFrom, MinutesTo
<1>2. /\ b \in Int /\ b <= t /\ b <= s /\ s < b + Minute
      /\ from \in Int /\ time - RawWindow < from + Minute /\ to \in Int
  <2>1. b \in Int /\ b <= t
    BY Lengths, BucketFacts
  <2>2. b <= s /\ s < b + Minute
    <3>1. Bucket(s, Minute) <= s /\ s < Bucket(s, Minute) + Minute
      BY Lengths, BucketFacts
    <3> QED
      BY <3>1
  <2>3. from \in Int /\ time - RawWindow < from + Minute /\ to \in Int
    <3>1. time - RawWindow \in Int
      BY Lengths
    <3>2. from \in Int /\ time - RawWindow < from + Minute
      BY <3>1, Lengths, BucketFacts
    <3>3. to \in Int
      BY Lengths, BucketFacts
    <3> QED
      BY <3>2, <3>3
  <2> QED
    BY <2>1, <2>2, <2>3
<1>3. from <= b
  <2>1. from <= time - RawWindow
    BY Lengths, BucketFacts
  <2>2. ~(b < from)
    <3>1. b < from => b + Minute <= from
      BY Lengths, BucketGap
    <3>2. t < b + Minute
      BY Lengths, BucketFacts
    <3> QED
      BY <1>1, <1>2, <3>1, <3>2, Lengths
  <2> QED
    BY <1>2, <2>2
<1>4. b + Minute <= to
  <2>1. b < to
    BY <1>1, <1>2
  <2> QED
    BY <2>1, Lengths, BucketGap
<1> HIDE DEF from, to, b
<1>5. from <= s /\ s < to /\ time - RawWindow - Minute < s
  BY <1>2, <1>3, <1>4, Lengths
<1> QED
  BY <1>5 DEF InMinutes, MinutesFrom, MinutesTo, from, to

\* The statement for the minutes takes nothing back, and what it writes is rooted.
LEMMA MinutesRoll ==
  ASSUME NEW N \in Nat,
         NEW raw \in [0 .. N -> SUBSET (0 .. N)], NEW m1 \in [0 .. N -> SUBSET (0 .. N)],
         NEW time \in Nat, NEW oldest \in Int, oldest <= time - RawWindow - Minute,
         OwnTimes(raw), Rooted(raw, m1, oldest),
         NEW next, next = Rolled(m1, raw, MinutesFrom(time), MinutesTo(time), Minute)
  PROVE  /\ next \in [0 .. N -> SUBSET (0 .. N)]
         /\ Rooted(raw, next, oldest)
         /\ \A b \in 0 .. N : m1[b] \subseteq next[b]
         /\ \A t \in 0 .. N : raw[t] # {} /\ InMinutes(t, time) => Covers(next, t, Minute)
<1>1. MinutesFrom(time) \in Int /\ MinutesTo(time) \in Int
  BY Lengths, BucketFacts DEF MinutesFrom, MinutesTo
<1>2. /\ next \in [0 .. N -> SUBSET (0 .. N)]
      /\ \A b \in 0 .. N :
           /\ \A t \in 0 .. N : InMinutes(t, time) /\ Bucket(t, Minute) = b => raw[t] \subseteq next[b]
           /\ \/ next[b] = m1[b]
              \/ /\ \A s \in next[b] : \E t \in 0 .. N :
                     InMinutes(t, time) /\ Bucket(t, Minute) = b /\ s \in raw[t]
                 /\ \E t \in 0 .. N : InMinutes(t, time) /\ Bucket(t, Minute) = b
  <2> DEFINE from == MinutesFrom(time)
             to   == MinutesTo(time)
  <2>1. \A t \in 0 .. N : InMinutes(t, time) <=> t >= from /\ t < to
    BY DEF InMinutes
  <2>2. next = Rolled(m1, raw, from, to, Minute) /\ from \in Int /\ to \in Int
    BY <1>1
  <2> HIDE DEF from, to
  <2>3. /\ next \in [0 .. N -> SUBSET (0 .. N)]
        /\ \A b \in 0 .. N :
             /\ \A t \in 0 .. N :
                  t >= from /\ t < to /\ Bucket(t, Minute) = b => raw[t] \subseteq next[b]
             /\ \/ next[b] = m1[b]
                \/ /\ \A s \in next[b] : \E t \in 0 .. N :
                       t >= from /\ t < to /\ Bucket(t, Minute) = b /\ s \in raw[t]
                   /\ \E t \in 0 .. N : t >= from /\ t < to /\ Bucket(t, Minute) = b
    BY <2>2, Lengths, RolledRow
  <2> QED
    BY <2>1, <2>3
<1>3. ASSUME NEW b \in 0 .. N, NEW s \in m1[b] PROVE s \in next[b]
  <2>1. CASE next[b] = m1[b]
    BY <2>1
  <2>2. ASSUME NEW t \in 0 .. N, InMinutes(t, time), Bucket(t, Minute) = b PROVE s \in next[b]
    <3>1. s \in 0 .. N /\ Bucket(s, Minute) = b /\ (s < oldest \/ raw[s] = {s})
      BY DEF Rooted
    <3>2. InMinutes(s, time) /\ time - RawWindow - Minute < s
      BY <2>2, <3>1, WholeMinutes
    <3>3. raw[s] = {s}
      BY <3>1, <3>2, Lengths
    <3> QED
      BY <1>2, <3>1, <3>2, <3>3
  <2> QED
    BY <1>2, <2>1, <2>2
<1>4. Rooted(raw, next, oldest)
  <2> SUFFICES ASSUME NEW b \in 0 .. N, NEW s \in next[b]
               PROVE  Bucket(s, Minute) = b /\ (s < oldest \/ raw[s] = {s})
    BY <1>2 DEF Rooted
  <2>1. CASE next[b] = m1[b]
    BY <2>1 DEF Rooted
  <2>2. ASSUME NEW t \in 0 .. N, Bucket(t, Minute) = b, s \in raw[t]
        PROVE  Bucket(s, Minute) = b /\ raw[s] = {s}
    BY <2>2 DEF OwnTimes
  <2> QED
    BY <1>2, <2>1, <2>2
<1>5. ASSUME NEW t \in 0 .. N, raw[t] # {}, InMinutes(t, time) PROVE Covers(next, t, Minute)
  <2>1. raw[t] = {t} /\ Bucket(t, Minute) \in 0 .. N
    BY <1>5, Lengths, BucketTime DEF OwnTimes
  <2> QED
    BY <1>2, <1>5, <2>1 DEF Covers
<1> QED
  BY <1>2, <1>3, <1>4, <1>5

LEMMA WindowsAreTimes ==
  ASSUME NEW t \in Int
  PROVE  /\ MinutesFrom(t) \in Int /\ MinutesTo(t) \in Int
         /\ FivesFrom(t) \in Int /\ HoursFrom(t) \in Int
<1>1. t - RawWindow \in Int
  BY Lengths
<1> QED
  BY <1>1, Lengths, BucketFacts DEF MinutesFrom, MinutesTo, FivesFrom, HoursFrom

LEMMA RolledRows ==
  ASSUME NEW N \in Nat,
         NEW tier \in [0 .. N -> SUBSET (0 .. N)], NEW source \in [0 .. N -> SUBSET (0 .. N)],
         NEW from \in Int, NEW to \in Int, NEW length \in Nat, length > 0
  PROVE  Rolled(tier, source, from, to, length) \in [0 .. N -> SUBSET (0 .. N)]
BY RolledRow

----------------------------------------------------------------------------
(* Metrics: types.                                                         *)

LEMMA MetricsBounds ==
  /\ BufferCap \in Nat /\ BufferCap > 0 /\ UpCap \in Nat
  /\ TickGap \in Nat /\ TickGap > 0 /\ TickGap <= RawWindow
  /\ MaxSamples \in Nat /\ MaxDrops \in Nat /\ MaxNow \in Nat
  /\ Keep \in [Tier -> Nat] /\ Keep["raw"] >= RawWindow + Minute
  /\ Time = 0 .. MaxNow
  /\ \A g \in Tier : Keep[g] \in Nat
BY MetricsAssumption DEF Time

TableOK == table \in [Tier -> [Time -> SUBSET Time]]

LEMMA IngestTable ==
  ASSUME TableOK, NEW batch, Ingest(batch)
  PROVE  /\ TableOK'
         /\ \A t \in Time : table'["raw"][t] = IF t \in batch THEN {t} ELSE table["raw"][t]
         /\ \A g \in {"m1", "m5", "h1"} : table'[g] = table[g]
<1> DEFINE raw == [t \in Time |-> IF t \in batch THEN {t} ELSE table["raw"][t]]
<1>1. /\ raw \in [Time -> SUBSET Time]
      /\ \A t \in Time : raw[t] = IF t \in batch THEN {t} ELSE table["raw"][t]
  BY DEF TableOK, Tier
<1>2. table' = [table EXCEPT !["raw"] = raw]
  BY DEF Ingest
<1> HIDE DEF raw
<1> QED
  BY <1>1, <1>2 DEF TableOK, Tier

LEMMA RolledTier ==
  ASSUME TableOK, NEW g \in Tier, NEW of \in Tier, NEW from \in Int, NEW to \in Int,
         NEW length \in Nat, length > 0
  PROVE  Rolled(table[g], table[of], from, to, length) \in [Time -> SUBSET Time]
<1>1. /\ table[g] \in [0 .. MaxNow -> SUBSET (0 .. MaxNow)]
      /\ table[of] \in [0 .. MaxNow -> SUBSET (0 .. MaxNow)]
  BY MetricsBounds DEF TableOK
<1> QED
  BY <1>1, MetricsBounds, RolledRow

LEMMA MinutesTable ==
  ASSUME TableOK, now \in Time, RollRawToM1
  PROVE  /\ TableOK'
         /\ table'["m1"] = Rolled(table["m1"], table["raw"], MinutesFrom(now), MinutesTo(now), Minute)
         /\ \A k \in {"raw", "m5", "h1"} : table'[k] = table[k]
<1> DEFINE next == Rolled(table["m1"], table["raw"], MinutesFrom(now), MinutesTo(now), Minute)
<1>1. now \in Int /\ MaxNow + 1 \in Int
  BY MetricsBounds
<1>2. next \in [Time -> SUBSET Time]
  BY <1>1, Lengths, WindowsAreTimes, RolledTier DEF Tier
<1>3. table' = [table EXCEPT !["m1"] = next]
  BY DEF RollRawToM1
<1> HIDE DEF next
<1>4. /\ TableOK' /\ table'["m1"] = next
      /\ \A k \in Tier \ {"m1"} : table'[k] = table[k]
  BY <1>2, <1>3 DEF TableOK, Tier
<1> QED
  BY <1>4 DEF next, Tier

LEMMA FivesTable ==
  ASSUME TableOK, now \in Time, RollM1ToM5
  PROVE  /\ TableOK'
         /\ table'["m5"] = Rolled(table["m5"], table["m1"], FivesFrom(now), MaxNow + 1, Five)
         /\ \A k \in {"raw", "m1", "h1"} : table'[k] = table[k]
<1> DEFINE next == Rolled(table["m5"], table["m1"], FivesFrom(now), MaxNow + 1, Five)
<1>1. now \in Int /\ MaxNow + 1 \in Int
  BY MetricsBounds
<1>2. next \in [Time -> SUBSET Time]
  BY <1>1, Lengths, WindowsAreTimes, RolledTier DEF Tier
<1>3. table' = [table EXCEPT !["m5"] = next]
  BY DEF RollM1ToM5
<1> HIDE DEF next
<1>4. /\ TableOK' /\ table'["m5"] = next
      /\ \A k \in Tier \ {"m5"} : table'[k] = table[k]
  BY <1>2, <1>3 DEF TableOK, Tier
<1> QED
  BY <1>4 DEF next, Tier

LEMMA HoursTable ==
  ASSUME TableOK, now \in Time, RollM5ToH1
  PROVE  /\ TableOK'
         /\ table'["h1"] = Rolled(table["h1"], table["m5"], HoursFrom(now), MaxNow + 1, Hour)
         /\ \A k \in {"raw", "m1", "m5"} : table'[k] = table[k]
<1> DEFINE next == Rolled(table["h1"], table["m5"], HoursFrom(now), MaxNow + 1, Hour)
<1>1. now \in Int /\ MaxNow + 1 \in Int
  BY MetricsBounds
<1>2. next \in [Time -> SUBSET Time]
  BY <1>1, Lengths, WindowsAreTimes, RolledTier DEF Tier
<1>3. table' = [table EXCEPT !["h1"] = next]
  BY DEF RollM5ToH1
<1> HIDE DEF next
<1>4. /\ TableOK' /\ table'["h1"] = next
      /\ \A k \in Tier \ {"h1"} : table'[k] = table[k]
  BY <1>2, <1>3 DEF TableOK, Tier
<1> QED
  BY <1>4 DEF next, Tier

LEMMA PruneTable ==
  ASSUME TableOK, Prune
  PROVE  /\ TableOK'
         /\ \A g \in Tier, b \in Time :
              table'[g][b] = IF b < Oldest(g) THEN {} ELSE table[g][b]
<1>1. table' = [g \in Tier |-> Pruned(table[g], Oldest(g))]
  BY DEF Prune
<1>2. ASSUME NEW g \in Tier
      PROVE  /\ Pruned(table[g], Oldest(g)) \in [Time -> SUBSET Time]
             /\ \A b \in Time :
                  Pruned(table[g], Oldest(g))[b] = IF b < Oldest(g) THEN {} ELSE table[g][b]
  <2>1. table[g] \in [Time -> SUBSET Time]
    BY DEF TableOK
  <2> QED
    BY <2>1 DEF Pruned
<1> QED
  BY <1>1, <1>2 DEF TableOK

\* A sample more in a buffer that drops its oldest one over the cap.
LEMMA BufferedFacts ==
  ASSUME NEW S, NEW b \in Seq(S), NEW t \in S, Len(b) <= BufferCap
  PROVE  Buffered(b, t) \in Seq(S) /\ Len(Buffered(b, t)) <= BufferCap
<1>1. Append(b, t) \in Seq(S) /\ Len(Append(b, t)) = Len(b) + 1 /\ Append(b, t) # <<>>
  OBVIOUS
<1> DEFINE a == Append(b, t)
<1> HIDE DEF a
<1>2. a \in Seq(S) /\ a # <<>> => Tail(a) \in Seq(S) /\ Len(Tail(a)) = Len(a) - 1
  OBVIOUS
<1> QED
  BY <1>1, <1>2, MetricsBounds DEF a, Buffered

\* The parts of MetricsTypeOK, the two histories by themselves.
MetricsTypes ==
  /\ now \in Time /\ link \in BOOLEAN
  /\ buffer \in Seq(Time) /\ Len(buffer) <= BufferCap
  /\ flight \subseteq SUBSET Time
  /\ TableOK
  /\ job \in 0 .. 3
  /\ rolled \in Time /\ timely \subseteq Time /\ fresh \subseteq Time
  /\ taken \in 0 .. MaxSamples /\ drops \in 0 .. MaxDrops

LEMMA MetricsTypesOK == MetricsTypes <=> MetricsTypeOK
BY DEF MetricsTypes, MetricsTypeOK, TableOK

LEMMA InitMetricsTypes == MetricsInit => MetricsTypes
<1> SUFFICES ASSUME MetricsInit PROVE MetricsTypes
  OBVIOUS
<1>1. NoRows(Time) \in [Time -> SUBSET Time] /\ 0 \in Time
  BY MetricsBounds DEF NoRows
<1> QED
  BY <1>1, MetricsBounds DEF MetricsInit, MetricsTypes, TableOK

LEMMA NextMetricsTypes ==
  ASSUME MetricsTypes, [MetricsNext]_metricsVars
  PROVE  MetricsTypes'
<1>0. /\ MaxDrops \in Nat /\ MaxSamples \in Nat /\ MaxNow \in Nat /\ BufferCap \in Nat
      /\ Time = 0 .. MaxNow /\ <<>> \in Seq(Time) /\ Len(<<>>) <= BufferCap
  BY MetricsBounds
<1>1. CASE UNCHANGED metricsVars
  BY <1>1 DEF metricsVars, agent, rollup, MetricsTypes, TableOK
<1>2. CASE Pass
  BY <1>0, <1>2 DEF Pass, agent, rollup, MetricsTypes, TableOK
<1>3. CASE Connect
  BY <1>3 DEF Connect, rollup, MetricsTypes, TableOK
<1>4. CASE Sample
  <2>1. Buffered(buffer, now) \in Seq(Time) /\ Len(Buffered(buffer, now)) <= BufferCap
    BY BufferedFacts DEF MetricsTypes
  <2> QED
    BY <1>0, <1>4, <2>1 DEF Sample, rollup, MetricsTypes, TableOK
<1>5. ToSet(buffer) \in SUBSET Time
  BY DEF MetricsTypes, ToSet
<1>6. CASE Flush
  <2>1. buffer' \in Seq(Time) /\ Len(buffer') <= BufferCap /\ flight' \subseteq SUBSET Time
    BY <1>0, <1>5, <1>6 DEF Flush, MetricsTypes
  <2> QED
    BY <1>0, <1>6, <2>1 DEF Flush, rollup, MetricsTypes, TableOK
<1>7. CASE Disconnect
  <2>1. buffer' \in Seq(Time) /\ Len(buffer') <= BufferCap /\ flight' \subseteq SUBSET Time
    <3>1. CASE UNCHANGED buffer /\ \E kept \in SUBSET flight : flight' = kept
      BY <3>1 DEF MetricsTypes
    <3>2. CASE /\ buffer' = <<>>
               /\ \E kept \in SUBSET (flight \cup {ToSet(buffer)}) : flight' = kept
      BY <1>0, <1>5, <3>2 DEF MetricsTypes
    <3> QED
      BY <1>7, <3>1, <3>2 DEF Disconnect
  <2>2. link' = FALSE /\ drops' \in 0 .. MaxDrops /\ UNCHANGED <<now, rollup, taken, timely>>
    BY <1>0, <1>7 DEF Disconnect, MetricsTypes
  <2> QED
    BY <1>0, <2>1, <2>2 DEF rollup, MetricsTypes, TableOK
<1>8. CASE AgentRestart
  <2>1. buffer' \in Seq(Time) /\ Len(buffer') <= BufferCap /\ flight' \subseteq SUBSET Time
    BY <1>0, <1>8 DEF AgentRestart, MetricsTypes
  <2>2. link' = FALSE /\ drops' \in 0 .. MaxDrops /\ UNCHANGED <<now, rollup, taken, timely>>
    BY <1>0, <1>8 DEF AgentRestart, MetricsTypes
  <2> QED
    BY <1>0, <2>1, <2>2 DEF rollup, MetricsTypes, TableOK
<1>9. ASSUME NEW batch \in flight, Ingest(batch) PROVE MetricsTypes'
  <2>1. TableOK' /\ batch \subseteq Time
    BY <1>9, IngestTable DEF MetricsTypes
  <2> QED
    <3>1. flight' \subseteq SUBSET Time /\ timely' \subseteq Time
      BY <1>9, <2>1 DEF Ingest, MetricsTypes
    <3>2. UNCHANGED <<now, link, buffer, job, rolled, fresh, taken, drops>>
      BY <1>9 DEF Ingest
    <3> QED
      BY <2>1, <3>1, <3>2 DEF MetricsTypes
<1>10. ASSUME NEW batch \in flight, IngestFails(batch) PROVE MetricsTypes'
  BY <1>10 DEF IngestFails, rollup, MetricsTypes, TableOK
<1>11. job \in 0 .. 3 => (job + 1) % Len(Statements) \in 0 .. 3
  BY DEF Statements
<1>12. CASE RollRawToM1
  <2>1. TableOK'
    BY <1>12, MinutesTable DEF MetricsTypes
  <2> QED
    BY <1>11, <1>12, <2>1 DEF RollRawToM1, Runs, agent, MetricsTypes, TableOK
<1>13. CASE RollM1ToM5
  <2>1. TableOK'
    BY <1>13, FivesTable DEF MetricsTypes
  <2> QED
    BY <1>11, <1>13, <2>1 DEF RollM1ToM5, Runs, agent, MetricsTypes, TableOK
<1>14. CASE RollM5ToH1
  <2>1. TableOK'
    BY <1>14, HoursTable DEF MetricsTypes
  <2> QED
    BY <1>11, <1>14, <2>1 DEF RollM5ToH1, Runs, agent, MetricsTypes, TableOK
<1>15. CASE Prune
  <2>1. TableOK'
    BY <1>15, PruneTable DEF MetricsTypes
  <2> QED
    BY <1>11, <1>15, <2>1 DEF Prune, Runs, agent, MetricsTypes, TableOK
<1>16. CASE TickFails
  BY <1>16 DEF TickFails, agent, MetricsTypes, TableOK
<1>17. CASE PanelRestart
  <2>1. link' = FALSE /\ flight' = {} /\ fresh' = {} /\ job' \in 0 .. 3
    BY <1>17 DEF PanelRestart
  <2>3. drops' \in 0 .. MaxDrops
    BY <1>0, <1>17 DEF PanelRestart, MetricsTypes
  <2>2. UNCHANGED <<now, buffer, table, rolled, taken, timely>>
    BY <1>17 DEF PanelRestart
  <2> QED
    BY <2>1, <2>2, <2>3 DEF MetricsTypes, TableOK
<1> QED
  BY <1>1, <1>2, <1>3, <1>4, <1>6, <1>7, <1>8, <1>9, <1>10, <1>12, <1>13, <1>14, <1>15,
     <1>16, <1>17 DEF MetricsNext

\* Every variable keeps its type and every bound: the buffer of samples, the stream's
\* channel and the tables' times, whatever the network and the roll-up task do.
THEOREM MetricsTypeCorrect == MetricsSpec => []MetricsTypeOK
<1>1. MetricsInit => MetricsTypes
  BY InitMetricsTypes
<1>2. MetricsTypes /\ [MetricsNext]_metricsVars => MetricsTypes'
  BY NextMetricsTypes
<1> QED
  BY <1>1, <1>2, MetricsTypesOK, PTL DEF MetricsSpec

----------------------------------------------------------------------------
(* Metrics: the minutes.                                                   *)

MinutesRooted == OwnTimes(table["raw"]) /\ Rooted(table["raw"], table["m1"], Oldest("raw"))

\* The last roll-up is at most a gap ago.
Punctual == rolled <= now /\ now <= rolled + TickGap

\* A sample that was in time is in the raw tier until that is pruned, and is
\* covered, or the next roll-up, however late, still reads its minute.
Inserted == \A t \in timely : table["raw"][t] = {t} \/ t < Oldest("raw")
Due ==
  \A t \in timely :
    \/ rolled + TickGap < Bucket(t, Minute) + RawWindow + Minute
    \/ Covers(table["m1"], t, Minute)
    \/ Bucket(t, Minute) < Oldest("m1")

MinutesKept == MinutesRooted /\ Punctual /\ Inserted /\ Due

MinutesGrow == OnlyGrows(table["m1"], table'["m1"], Oldest("m1"))

\* A minute that is over and not yet behind the window is read.
LEMMA StillRead ==
  ASSUME NEW t \in Int, NEW time \in Int,
         Bucket(t, Minute) + Minute <= time, time < Bucket(t, Minute) + RawWindow + Minute
  PROVE  InMinutes(t, time)
<1> DEFINE b    == Bucket(t, Minute)
           from == Bucket(time - RawWindow, Minute)
           to   == Bucket(time, Minute)
<1>1. time - RawWindow \in Int
  BY Lengths
<1>2. b \in Int /\ b <= t /\ t < b + Minute
  BY Lengths, BucketFacts
<1>3. from \in Int /\ from <= time - RawWindow
  BY <1>1, Lengths, BucketFacts
<1>4. to \in Int /\ to <= time /\ time < to + Minute
  BY Lengths, BucketFacts
<1>5. ~(b < from)
  <2>1. b < from => b + Minute <= from
    BY <1>1, Lengths, BucketGap
  <2> QED
    BY <1>2, <1>3, <2>1, Lengths
<1>6. b + Minute <= to
  <2>1. ~(to <= b)
    BY <1>2, <1>4, Lengths
  <2>2. b < to => b + Minute <= to
    BY Lengths, BucketGap
  <2> QED
    BY <1>2, <1>4, <2>1, <2>2
<1> HIDE DEF b, from, to
<1>7. from <= t /\ t < to
  BY <1>2, <1>3, <1>4, <1>5, <1>6, Lengths
<1> QED
  BY <1>7 DEF InMinutes, MinutesFrom, MinutesTo, from, to

\* Numbers and rows the steps below are about.
LEMMA MinutesAre ==
  ASSUME MetricsTypes
  PROVE  /\ now \in Nat /\ rolled \in Nat /\ Time = 0 .. MaxNow /\ MaxNow \in Nat
         /\ table["raw"] \in [Time -> SUBSET Time] /\ table["m1"] \in [Time -> SUBSET Time]
         /\ \A t \in Time : t \in Nat /\ Bucket(t, Minute) \in Time
         /\ timely \subseteq Time
         /\ Oldest("raw") \in Int /\ Oldest("m1") \in Int
         /\ Oldest("raw") <= now - RawWindow - Minute
<1>1. /\ Time = 0 .. MaxNow /\ MaxNow \in Nat /\ now \in Time /\ rolled \in Time
      /\ timely \subseteq Time /\ TableOK
  BY MetricsBounds DEF MetricsTypes
<1>2. table["raw"] \in [Time -> SUBSET Time] /\ table["m1"] \in [Time -> SUBSET Time]
  BY <1>1 DEF TableOK, Tier
<1>3. now \in Nat /\ rolled \in Nat
  BY <1>1
<1>4. ASSUME NEW t \in Time PROVE t \in Nat /\ Bucket(t, Minute) \in Time
  BY <1>1, Lengths, BucketTime
<1>5. /\ Oldest("raw") \in Int /\ Oldest("m1") \in Int
      /\ Oldest("raw") <= now - RawWindow - Minute
  <2>1. Keep["raw"] \in Nat /\ Keep["m1"] \in Nat /\ Keep["raw"] >= RawWindow + Minute
    BY MetricsBounds DEF Tier
  <2> QED
    BY <1>3, <2>1, Lengths DEF Oldest
<1> QED
  BY <1>1, <1>2, <1>3, <1>4, <1>5

LEMMA InitMinutesKept == MetricsInit => MinutesKept
<1> SUFFICES ASSUME MetricsInit PROVE MinutesKept
  OBVIOUS
<1>1. table["raw"] = [t \in Time |-> {}] /\ table["m1"] = [t \in Time |-> {}]
  BY DEF MetricsInit, NoRows, Tier
<1>2. OwnTimes(table["raw"]) /\ Rooted(table["raw"], table["m1"], Oldest("raw"))
  BY <1>1 DEF OwnTimes, Rooted
<1>3. Punctual
  BY MetricsBounds DEF MetricsInit, Punctual
<1>4. Inserted /\ Due
  BY DEF MetricsInit, Inserted, Due
<1> QED
  BY <1>2, <1>3, <1>4 DEF MinutesKept, MinutesRooted

\* A step that leaves the two tiers alone, while time may pass.
LEMMA QuietMinutes ==
  ASSUME MetricsTypes, MinutesKept, MetricsTypes',
         table'["raw"] = table["raw"], table'["m1"] = table["m1"],
         rolled' = rolled, timely' = timely, now <= now', now' <= rolled + TickGap
  PROVE  MinutesKept' /\ MinutesGrow
<1>1. /\ now \in Nat /\ now' \in Nat /\ rolled \in Nat /\ timely \subseteq Nat
      /\ Oldest("raw") \in Int /\ Oldest("m1") \in Int
      /\ \A t \in timely : Bucket(t, Minute) \in Nat
  <2>1. now' \in Nat
    BY MetricsBounds DEF MetricsTypes
  <2> QED
    BY <2>1, MinutesAre
<1>2. /\ Oldest("raw")' \in Int /\ Oldest("raw") <= Oldest("raw")'
      /\ Oldest("m1")' \in Int /\ Oldest("m1") <= Oldest("m1")'
  BY <1>1, MetricsBounds DEF Oldest, Tier
<1>3. DOMAIN table["m1"] = Time /\ table["m1"] \in [Time -> SUBSET Time] /\ Time \subseteq Nat
  BY MinutesAre
<1>4. MinutesRooted'
  <2>1. OwnTimes(table'["raw"])
    BY DEF MinutesKept, MinutesRooted
  <2>2. ASSUME NEW b \in Time, NEW s \in table["m1"][b]
        PROVE  Bucket(s, Minute) = b /\ (s < Oldest("raw")' \/ table["raw"][s] = {s})
    <3>1. s \in Nat
      BY <1>3
    <3>2. Bucket(s, Minute) = b /\ (s < Oldest("raw") \/ table["raw"][s] = {s})
      BY <1>3 DEF MinutesKept, MinutesRooted, Rooted
    <3> QED
      BY <1>1, <1>2, <3>1, <3>2
  <2>3. Rooted(table'["raw"], table'["m1"], Oldest("raw")')
    BY <1>3, <2>2 DEF Rooted
  <2> QED
    BY <2>1, <2>3 DEF MinutesRooted
<1>5. Punctual'
  BY <1>1 DEF MinutesKept, Punctual
<1>6. Inserted'
  BY <1>1, <1>2 DEF MinutesKept, Inserted
<1>7. Due'
  BY <1>1, <1>2 DEF MinutesKept, Due
<1>8. MinutesGrow
  BY DEF MinutesGrow, OnlyGrows
<1> QED
  BY <1>4, <1>5, <1>6, <1>7, <1>8 DEF MinutesKept

LEMMA IngestMinutes ==
  ASSUME MetricsTypes, MinutesKept, MetricsTypes', NEW batch \in flight, Ingest(batch)
  PROVE  MinutesKept' /\ MinutesGrow
<1>1. /\ now \in Nat /\ rolled \in Nat /\ timely \subseteq Nat /\ Time \subseteq Nat
      /\ \A t \in Time : Bucket(t, Minute) \in Nat
      /\ timely' \subseteq Time /\ table["m1"] \in [Time -> SUBSET Time]
      /\ table["raw"] \in [Time -> SUBSET Time] /\ table'["raw"] \in [Time -> SUBSET Time]
      /\ batch \subseteq Time
  <2>1. /\ timely' \subseteq Time /\ batch \subseteq Time
        /\ table'["raw"] \in [Time -> SUBSET Time]
    BY DEF MetricsTypes, TableOK, Tier
  <2> QED
    BY <2>1, MinutesAre
<1>2. /\ \A t \in Time : table'["raw"][t] = IF t \in batch THEN {t} ELSE table["raw"][t]
      /\ table'["m1"] = table["m1"]
  BY IngestTable DEF MetricsTypes
<1>3. /\ now' = now /\ rolled' = rolled
      /\ timely' = timely \cup {t \in batch : InTime(t)}
      /\ Oldest("raw")' = Oldest("raw") /\ Oldest("m1")' = Oldest("m1")
  BY DEF Ingest, Oldest
<1>4. MinutesRooted'
  <2>1. OwnTimes(table'["raw"])
    BY <1>1, <1>2 DEF MinutesKept, MinutesRooted, OwnTimes
  <2>2. Rooted(table'["raw"], table'["m1"], Oldest("raw"))
    BY <1>1, <1>2 DEF MinutesKept, MinutesRooted, Rooted
  <2> QED
    BY <1>3, <2>1, <2>2 DEF MinutesRooted
<1>5. Punctual'
  BY <1>3 DEF MinutesKept, Punctual
<1>6. Inserted'
  BY <1>1, <1>2, <1>3 DEF MinutesKept, Inserted
<1>7. Due'
  <2> SUFFICES ASSUME NEW t \in timely'
               PROVE  \/ rolled + TickGap < Bucket(t, Minute) + RawWindow + Minute
                      \/ Covers(table["m1"], t, Minute)
                      \/ Bucket(t, Minute) < Oldest("m1")
    BY <1>2, <1>3 DEF Due
  <2>1. CASE t \in timely
    BY <2>1 DEF MinutesKept, Due
  <2>2. CASE InTime(t)
    <3>1. now + TickGap < Bucket(t, Minute) + RawWindow + Minute /\ rolled <= now
      BY <2>2 DEF InTime, MinutesKept, Punctual
    <3> QED
      BY <1>1, <3>1, Lengths, MetricsBounds
  <2> QED
    BY <1>3, <2>1, <2>2
<1>8. MinutesGrow
  BY <1>2 DEF MinutesGrow, OnlyGrows
<1> QED
  BY <1>4, <1>5, <1>6, <1>7, <1>8 DEF MinutesKept

\* What the statement for the minutes reads it covers, and it takes nothing back.
LEMMA RollReads ==
  ASSUME MetricsTypes, MinutesKept, RollRawToM1
  PROVE  /\ Rooted(table["raw"], table'["m1"], Oldest("raw"))
         /\ \A b \in 0 .. MaxNow : table["m1"][b] \subseteq table'["m1"][b]
         /\ \A t \in 0 .. MaxNow :
              table["raw"][t] # {} /\ InMinutes(t, now) => Covers(table'["m1"], t, Minute)
<1>1. /\ MaxNow \in Nat /\ now \in Nat
      /\ table["raw"] \in [0 .. MaxNow -> SUBSET (0 .. MaxNow)]
      /\ table["m1"] \in [0 .. MaxNow -> SUBSET (0 .. MaxNow)]
      /\ Oldest("raw") \in Int /\ Oldest("raw") <= now - RawWindow - Minute
  BY MinutesAre
<1>2. table'["m1"] = Rolled(table["m1"], table["raw"], MinutesFrom(now), MinutesTo(now), Minute)
  BY MinutesTable DEF MetricsTypes
<1>3. OwnTimes(table["raw"]) /\ Rooted(table["raw"], table["m1"], Oldest("raw"))
  BY DEF MinutesKept, MinutesRooted
<1>4. Rooted(table["raw"], table'["m1"], Oldest("raw"))
  BY <1>1, <1>2, <1>3, Lengths, MinutesRoll
<1>5. \A b \in 0 .. MaxNow : table["m1"][b] \subseteq table'["m1"][b]
  BY <1>1, <1>2, <1>3, Lengths, MinutesRoll
<1>6. \A t \in 0 .. MaxNow :
        table["raw"][t] # {} /\ InMinutes(t, now) => Covers(table'["m1"], t, Minute)
  BY <1>1, <1>2, <1>3, Lengths, MinutesRoll
<1> QED
  BY <1>4, <1>5, <1>6

LEMMA RollMinutes ==
  ASSUME MetricsTypes, MinutesKept, MetricsTypes', RollRawToM1
  PROVE  MinutesKept' /\ MinutesGrow
<1>1. /\ now \in Nat /\ rolled \in Nat /\ timely \subseteq Time /\ Time = 0 .. MaxNow
      /\ MaxNow \in Nat /\ Oldest("raw") \in Int /\ Oldest("m1") \in Int
      /\ Oldest("raw") <= now - RawWindow - Minute
      /\ \A t \in Time : t \in Nat /\ Bucket(t, Minute) \in Time
      /\ table["raw"] \in [0 .. MaxNow -> SUBSET (0 .. MaxNow)]
      /\ table["m1"] \in [0 .. MaxNow -> SUBSET (0 .. MaxNow)]
  BY MinutesAre
<1>2. table'["raw"] = table["raw"]
  BY MinutesTable DEF MetricsTypes
<1>3. /\ now' = now /\ rolled' = now /\ timely' = timely
      /\ Oldest("raw")' = Oldest("raw") /\ Oldest("m1")' = Oldest("m1")
  BY DEF RollRawToM1, Oldest
<1>4. OwnTimes(table["raw"]) /\ Rooted(table["raw"], table["m1"], Oldest("raw"))
  BY DEF MinutesKept, MinutesRooted
<1>5. /\ Rooted(table["raw"], table'["m1"], Oldest("raw"))
      /\ \A b \in 0 .. MaxNow : table["m1"][b] \subseteq table'["m1"][b]
      /\ \A t \in 0 .. MaxNow :
           table["raw"][t] # {} /\ InMinutes(t, now) => Covers(table'["m1"], t, Minute)
  BY RollReads
<1>6. MinutesRooted'
  BY <1>2, <1>3, <1>4, <1>5 DEF MinutesRooted
<1>7. Punctual'
  BY <1>1, <1>3, MetricsBounds DEF Punctual
<1>8. Inserted'
  BY <1>2, <1>3 DEF MinutesKept, Inserted
<1>9. Due'
  <2> SUFFICES ASSUME NEW t \in timely
               PROVE  \/ now + TickGap < Bucket(t, Minute) + RawWindow + Minute
                      \/ Covers(table'["m1"], t, Minute)
                      \/ Bucket(t, Minute) < Oldest("m1")
    BY <1>3 DEF Due
  <2>1. t \in Time /\ t \in Nat /\ Bucket(t, Minute) \in Time /\ Bucket(t, Minute) \in Nat
    BY <1>1
  <2>2. CASE Covers(table["m1"], t, Minute)
    BY <1>1, <1>5, <2>1, <2>2 DEF Covers
  <2>3. CASE now < Bucket(t, Minute) + Minute
    BY <1>1, <2>1, <2>3, Lengths, MetricsBounds
  <2>4. CASE /\ rolled + TickGap < Bucket(t, Minute) + RawWindow + Minute
             /\ Bucket(t, Minute) + Minute <= now
    <3>1. now < Bucket(t, Minute) + RawWindow + Minute
      BY <1>1, <2>1, <2>4, Lengths, MetricsBounds DEF MinutesKept, Punctual
    <3>2. InMinutes(t, now)
      BY <1>1, <2>1, <2>4, <3>1, StillRead
    <3>3. now - RawWindow - Minute < t
      BY <1>1, <2>1, <3>2, WholeMinutes
    <3>4. table["raw"][t] = {t}
      <4>1. RawWindow \in Nat /\ Minute \in Nat
        BY Lengths
      <4>2. ~(t < Oldest("raw"))
        BY <1>1, <2>1, <3>3, <4>1
      <4> QED
        BY <4>2 DEF MinutesKept, Inserted
    <3> QED
      BY <1>1, <1>5, <2>1, <3>2, <3>4
  <2>5. CASE Bucket(t, Minute) < Oldest("m1")
    BY <2>5
  <2> QED
    BY <1>1, <2>1, <2>2, <2>3, <2>4, <2>5, Lengths DEF MinutesKept, Due
<1>10. MinutesGrow
  BY <1>1, <1>5 DEF MinutesGrow, OnlyGrows
<1> QED
  BY <1>6, <1>7, <1>8, <1>9, <1>10 DEF MinutesKept

LEMMA PruneMinutes ==
  ASSUME MetricsTypes, MinutesKept, MetricsTypes', Prune
  PROVE  MinutesKept' /\ MinutesGrow
<1>1. /\ now \in Nat /\ rolled \in Nat /\ timely \subseteq Time
      /\ Oldest("raw") \in Int /\ Oldest("m1") \in Int
      /\ \A t \in Time : t \in Nat /\ Bucket(t, Minute) \in Time
      /\ table["raw"] \in [Time -> SUBSET Time] /\ table["m1"] \in [Time -> SUBSET Time]
      /\ table'["raw"] \in [Time -> SUBSET Time] /\ table'["m1"] \in [Time -> SUBSET Time]
  BY MinutesAre DEF MetricsTypes, TableOK, Tier
<1>2. /\ \A t \in Time : table'["raw"][t] = IF t < Oldest("raw") THEN {} ELSE table["raw"][t]
      /\ \A b \in Time : table'["m1"][b] = IF b < Oldest("m1") THEN {} ELSE table["m1"][b]
  BY PruneTable DEF MetricsTypes, Tier
<1>3. /\ now' = now /\ rolled' = rolled /\ timely' = timely
      /\ Oldest("raw")' = Oldest("raw") /\ Oldest("m1")' = Oldest("m1")
  BY DEF Prune, Oldest
<1>4. MinutesRooted'
  <2>1. OwnTimes(table'["raw"])
    BY <1>1, <1>2 DEF MinutesKept, MinutesRooted, OwnTimes
  <2>2. Rooted(table'["raw"], table'["m1"], Oldest("raw"))
    BY <1>1, <1>2 DEF MinutesKept, MinutesRooted, Rooted
  <2> QED
    BY <1>3, <2>1, <2>2 DEF MinutesRooted
<1>5. Punctual'
  BY <1>3 DEF MinutesKept, Punctual
<1>6. Inserted'
  BY <1>1, <1>2, <1>3 DEF MinutesKept, Inserted
<1>7. Due'
  BY <1>1, <1>2, <1>3 DEF MinutesKept, Due, Covers
<1>8. MinutesGrow
  <2>1. ASSUME NEW b \in Time, b >= Oldest("m1") PROVE table["m1"][b] \subseteq table'["m1"][b]
    <3>1. ~(b < Oldest("m1"))
      BY <1>1, <2>1
    <3> QED
      BY <1>2, <3>1
  <2> QED
    BY <1>1, <2>1 DEF MinutesGrow, OnlyGrows
<1> QED
  BY <1>4, <1>5, <1>6, <1>7, <1>8 DEF MinutesKept

\* Which steps leave the raw tier and the minutes alone, and how the clock moves.
LEMMA StillMinutes ==
  ASSUME MetricsTypes,
         \/ Pass \/ Connect \/ Sample \/ Flush \/ Disconnect \/ AgentRestart
         \/ \E batch \in flight : IngestFails(batch)
         \/ RollM1ToM5 \/ RollM5ToH1 \/ TickFails \/ PanelRestart
         \/ UNCHANGED metricsVars
  PROVE  /\ table'["raw"] = table["raw"] /\ table'["m1"] = table["m1"]
         /\ rolled' = rolled /\ timely' = timely
         /\ now' = now \/ (now' = now + 1 /\ now - rolled < TickGap)
<1>1. CASE Pass
  BY <1>1 DEF Pass, rollup
<1>2. CASE Connect
  BY <1>2 DEF Connect, rollup
<1>3. CASE Sample
  BY <1>3 DEF Sample, rollup
<1>4. CASE Flush
  BY <1>4 DEF Flush, rollup
<1>5. CASE Disconnect
  BY <1>5 DEF Disconnect, rollup
<1>6. CASE AgentRestart
  BY <1>6 DEF AgentRestart, rollup
<1>7. ASSUME NEW batch \in flight, IngestFails(batch)
      PROVE  UNCHANGED <<table, rolled, timely, now>>
  BY <1>7 DEF IngestFails, rollup
<1>8. CASE RollM1ToM5
  <2>1. table'["raw"] = table["raw"] /\ table'["m1"] = table["m1"]
    BY <1>8, FivesTable DEF MetricsTypes
  <2> QED
    BY <1>8, <2>1 DEF RollM1ToM5
<1>9. CASE RollM5ToH1
  <2>1. table'["raw"] = table["raw"] /\ table'["m1"] = table["m1"]
    BY <1>9, HoursTable DEF MetricsTypes
  <2> QED
    BY <1>9, <2>1 DEF RollM5ToH1
<1>10. CASE TickFails
  BY <1>10 DEF TickFails
<1>11. CASE PanelRestart
  BY <1>11 DEF PanelRestart
<1>12. CASE UNCHANGED metricsVars
  BY <1>12 DEF metricsVars, rollup
<1> QED
  BY <1>1, <1>2, <1>3, <1>4, <1>5, <1>6, <1>7, <1>8, <1>9, <1>10, <1>11, <1>12

LEMMA NextMinutesKept ==
  ASSUME MetricsTypes, MinutesKept, [MetricsNext]_metricsVars
  PROVE  MinutesKept' /\ MinutesGrow
<1>1. MetricsTypes'
  BY NextMetricsTypes
<1>2. CASE \E batch \in flight : Ingest(batch)
  BY <1>1, <1>2, IngestMinutes
<1>3. CASE RollRawToM1
  BY <1>1, <1>3, RollMinutes
<1>4. CASE Prune
  BY <1>1, <1>4, PruneMinutes
<1>5. CASE \/ Pass \/ Connect \/ Sample \/ Flush \/ Disconnect \/ AgentRestart
           \/ \E batch \in flight : IngestFails(batch)
           \/ RollM1ToM5 \/ RollM5ToH1 \/ TickFails \/ PanelRestart
           \/ UNCHANGED metricsVars
  <2>1. /\ table'["raw"] = table["raw"] /\ table'["m1"] = table["m1"]
        /\ rolled' = rolled /\ timely' = timely
        /\ now' = now \/ (now' = now + 1 /\ now - rolled < TickGap)
    BY <1>5, StillMinutes
  <2>2. /\ now \in Nat /\ rolled \in Nat /\ TickGap \in Nat
        /\ rolled <= now /\ now <= rolled + TickGap
    BY MinutesAre, MetricsBounds DEF MinutesKept, Punctual
  <2>3. now <= now' /\ now' <= rolled + TickGap
    BY <2>1, <2>2
  <2> QED
    BY <1>1, <2>1, <2>3, QuietMinutes
<1> QED
  BY <1>2, <1>3, <1>4, <1>5 DEF MetricsNext

LEMMA KeptIsWhole ==
  ASSUME MetricsTypes, MinutesKept
  PROVE  MinutesAreWhole
<1> SUFFICES ASSUME NEW t \in timely, now >= Bucket(t, Minute) + RawWindow + Minute
             PROVE  \/ Covers(table["m1"], t, Minute)
                    \/ Bucket(t, Minute) < Oldest("m1")
  BY DEF MinutesAreWhole
<1>1. /\ now \in Nat /\ rolled \in Nat /\ Bucket(t, Minute) \in Nat
      /\ RawWindow \in Nat /\ Minute \in Nat /\ TickGap \in Nat
  BY MinutesAre, Lengths, MetricsBounds
<1>2. now <= rolled + TickGap
  BY DEF MinutesKept, Punctual
<1> QED
  BY <1>1, <1>2 DEF MinutesKept, Due

\* A sample that was in time is in the row of its minute once that minute can be
\* complete, until that row is pruned: the windows of the ticks overlap enough.
THEOREM WholeMinutesKept == MetricsSpec => []MinutesAreWhole
<1>1. MetricsInit => MetricsTypes /\ MinutesKept
  BY InitMetricsTypes, InitMinutesKept
<1>2. MetricsTypes /\ MinutesKept /\ [MetricsNext]_metricsVars => MetricsTypes' /\ MinutesKept'
  BY NextMetricsTypes, NextMinutesKept
<1>3. MetricsTypes /\ MinutesKept => MinutesAreWhole
  BY KeptIsWhole
<1> QED
  BY <1>1, <1>2, <1>3, PTL DEF MetricsSpec

\* No roll-up of metrics takes a sample from the row of a minute that is kept: the
\* windows are whole minutes and reach no further back than the raw rows do.
THEOREM MinutesOnlyGrow == MetricsSpec => MinuteRowsOnlyGrow
<1>1. MetricsInit => MetricsTypes /\ MinutesKept
  BY InitMetricsTypes, InitMinutesKept
<1>2. MetricsTypes /\ MinutesKept /\ [MetricsNext]_metricsVars => MetricsTypes' /\ MinutesKept'
  BY NextMetricsTypes, NextMinutesKept
<1>3. MetricsTypes /\ MinutesKept /\ [MetricsNext]_metricsVars
        => [MinutesGrow]_metricsVars
  BY NextMinutesKept
<1> QED
  BY <1>1, <1>2, <1>3, PTL DEF MetricsSpec, MinuteRowsOnlyGrow, MinutesGrow

----------------------------------------------------------------------------
(* Metrics: from the raw tier to the hour in one tick.                     *)

\* How far what the running tick has read has come.
Risen ==
  /\ job = 1 => \A t \in fresh : Covers(table["m1"], t, Minute)
  /\ job = 2 => \A t \in fresh :
                  Covers(table["m5"], t, Five) \/ Bucket(t, Minute) < FivesFrom(now)
  /\ FreshReachesHours

LEMMA FreshAre ==
  ASSUME MetricsTypes
  PROVE  /\ now \in Nat /\ MaxNow \in Nat /\ Time = 0 .. MaxNow /\ fresh \subseteq Time
         /\ \A t \in Time : /\ t \in Nat
                            /\ Bucket(t, Minute) \in 0 .. MaxNow
                            /\ Bucket(t, Five) \in 0 .. MaxNow
                            /\ Bucket(t, Hour) \in 0 .. MaxNow
         /\ \A g \in Tier : table[g] \in [0 .. MaxNow -> SUBSET (0 .. MaxNow)]
<1>1. /\ Time = 0 .. MaxNow /\ MaxNow \in Nat /\ now \in Time /\ fresh \subseteq Time /\ TableOK
  BY MetricsBounds DEF MetricsTypes
<1>2. now \in Nat /\ Time \subseteq Nat
  BY <1>1
<1>3. ASSUME NEW t \in Time
      PROVE  /\ Bucket(t, Minute) \in 0 .. MaxNow /\ Bucket(t, Five) \in 0 .. MaxNow
             /\ Bucket(t, Hour) \in 0 .. MaxNow
  BY <1>1, Lengths, BucketTime
<1>4. \A g \in Tier : table[g] \in [0 .. MaxNow -> SUBSET (0 .. MaxNow)]
  BY <1>1 DEF TableOK
<1> QED
  BY <1>1, <1>2, <1>3, <1>4

\* The statement that makes coarse rows of finer ones carries a covered sample on,
\* unless its finer row has left the window.
LEMMA CoarserCovers ==
  ASSUME NEW N \in Nat,
         NEW tier \in [0 .. N -> SUBSET (0 .. N)], NEW source \in [0 .. N -> SUBSET (0 .. N)],
         NEW from \in Int, NEW fine \in Nat, fine > 0, NEW length \in Nat, length > 0,
         NEW next, next = Rolled(tier, source, from, N + 1, length),
         NEW t \in 0 .. N, Bucket(Bucket(t, fine), length) = Bucket(t, length),
         Covers(source, t, fine), Bucket(t, fine) >= from
  PROVE  Covers(next, t, length)
<1> DEFINE u == Bucket(t, fine)
           b == Bucket(t, length)
<1>1. u \in 0 .. N /\ b \in 0 .. N /\ t \in source[u]
  BY BucketTime DEF Covers
<1>2. Bucket(u, length) = b
  OBVIOUS
<1> HIDE DEF u, b
<1>3. u >= from /\ u < N + 1 /\ N + 1 \in Int
  BY <1>1 DEF u
<1>4. source[u] \subseteq next[b]
  BY <1>1, <1>2, <1>3, RolledRow
<1> QED
  BY <1>1, <1>4 DEF Covers, b

LEMMA RunsAt ==
  ASSUME job \in 0 .. 3, NEW s, Runs(s)
  PROVE  /\ s = "m1" => job = 0 /\ job' = 1
         /\ s = "m5" => job = 1 /\ job' = 2
         /\ s = "h1" => job = 2 /\ job' = 3
         /\ s = "prune" => job' = 0
<1>1. CASE job = 0
  BY <1>1 DEF Runs, Statements
<1>2. CASE job = 1
  BY <1>2 DEF Runs, Statements
<1>3. CASE job = 2
  BY <1>3 DEF Runs, Statements
<1>4. CASE job = 3
  BY <1>4 DEF Runs, Statements
<1> QED
  BY <1>1, <1>2, <1>3, <1>4

LEMMA WindowsMove ==
  ASSUME NEW t \in Int, NEW u \in Int, t <= u
  PROVE  /\ FivesFrom(t) \in Int /\ FivesFrom(u) \in Int /\ FivesFrom(t) <= FivesFrom(u)
         /\ HoursFrom(t) \in Int /\ HoursFrom(u) \in Int /\ HoursFrom(t) <= HoursFrom(u)
<1>1. FiveWindow \in Nat /\ HourWindow \in Nat
  BY Lengths
<1> QED
  BY <1>1 DEF FivesFrom, HoursFrom

\* Steps of a tick that waits: time passes, batches arrive.
LEMMA WaitingRises ==
  ASSUME MetricsTypes, MetricsTypes', Risen,
         UNCHANGED <<job, fresh>>, now <= now',
         \A g \in {"m1", "m5", "h1"} : table'[g] = table[g]
  PROVE  Risen'
<1>1. /\ now \in Nat /\ now' \in Nat /\ fresh \subseteq Time
      /\ \A t \in Time : Bucket(t, Minute) \in Int /\ Bucket(t, Five) \in Int
  <2>1. now' \in Nat
    BY MetricsBounds DEF MetricsTypes
  <2>2. now \in Nat /\ fresh \subseteq Time
    BY FreshAre
  <2>3. ASSUME NEW t \in Time PROVE Bucket(t, Minute) \in Int /\ Bucket(t, Five) \in Int
    BY FreshAre
  <2> QED
    BY <2>1, <2>2, <2>3
<1>2. /\ FivesFrom(now) \in Int /\ FivesFrom(now') \in Int /\ FivesFrom(now) <= FivesFrom(now')
      /\ HoursFrom(now) \in Int /\ HoursFrom(now') \in Int /\ HoursFrom(now) <= HoursFrom(now')
  BY <1>1, WindowsMove
<1>3. job' = 1 => \A t \in fresh' : Covers(table'["m1"], t, Minute)
  BY DEF Risen
<1>4. ASSUME job' = 2, NEW t \in fresh'
      PROVE  Covers(table'["m5"], t, Five) \/ Bucket(t, Minute) < FivesFrom(now')
  <2>1. Covers(table["m5"], t, Five) \/ Bucket(t, Minute) < FivesFrom(now)
    BY <1>4 DEF Risen
  <2> QED
    BY <1>1, <1>2, <2>1
<1>5. ASSUME job' = 3, NEW t \in fresh'
      PROVE  \/ Covers(table'["h1"], t, Hour)
             \/ Bucket(t, Minute) < FivesFrom(now')
             \/ Bucket(t, Five) < HoursFrom(now')
  <2>1. \/ Covers(table["h1"], t, Hour)
        \/ Bucket(t, Minute) < FivesFrom(now)
        \/ Bucket(t, Five) < HoursFrom(now)
    BY <1>5 DEF Risen, FreshReachesHours
  <2> QED
    BY <1>1, <1>2, <2>1
<1> QED
  BY <1>3, <1>4, <1>5 DEF Risen, FreshReachesHours

LEMMA StatementsRise ==
  ASSUME MetricsTypes, MinutesKept, Risen, RollRawToM1 \/ RollM1ToM5 \/ RollM5ToH1
  PROVE  Risen'
<1>1. /\ now \in Nat /\ MaxNow \in Nat /\ Time = 0 .. MaxNow /\ fresh \subseteq Time /\ job \in 0 .. 3
      /\ \A t \in Time : Bucket(t, Minute) \in Int /\ Bucket(t, Five) \in Int
      /\ FivesFrom(now) \in Int /\ HoursFrom(now) \in Int
  <2>1. now \in Nat /\ MaxNow \in Nat /\ Time = 0 .. MaxNow /\ fresh \subseteq Time
    BY FreshAre
  <2>2. ASSUME NEW t \in Time PROVE Bucket(t, Minute) \in Int /\ Bucket(t, Five) \in Int
    BY FreshAre
  <2> QED
    <3>1. FivesFrom(now) \in Int /\ HoursFrom(now) \in Int
      <4>1. now \in Int
        BY <2>1
      <4> QED
        BY <4>1, WindowsAreTimes
    <3>2. job \in 0 .. 3
      BY DEF MetricsTypes
    <3> QED
      BY <2>1, <2>2, <3>1, <3>2
<1>2. CASE RollRawToM1
  <2>1. job' = 1 /\ fresh' = {t \in Time : table["raw"][t] # {} /\ InMinutes(t, now)}
    BY <1>1, <1>2, RunsAt DEF RollRawToM1
  <2>2. \A t \in fresh' : Covers(table'["m1"], t, Minute)
    BY <1>1, <1>2, <2>1, RollReads
  <2> QED
    BY <2>1, <2>2 DEF Risen, FreshReachesHours
<1>3. CASE RollM1ToM5
  <2>1. job = 1 /\ job' = 2 /\ fresh' = fresh /\ now' = now
    BY <1>1, <1>3, RunsAt DEF RollM1ToM5
  <2>2. table'["m5"] = Rolled(table["m5"], table["m1"], FivesFrom(now), MaxNow + 1, Five)
    BY <1>3, FivesTable DEF MetricsTypes
  <2>3. /\ table["m5"] \in [0 .. MaxNow -> SUBSET (0 .. MaxNow)]
        /\ table["m1"] \in [0 .. MaxNow -> SUBSET (0 .. MaxNow)]
    BY FreshAre DEF Tier
  <2>4. ASSUME NEW t \in fresh, ~(Bucket(t, Minute) < FivesFrom(now))
        PROVE  Covers(table'["m5"], t, Five)
    <3>1. t \in 0 .. MaxNow /\ Covers(table["m1"], t, Minute) /\ Bucket(t, Minute) >= FivesFrom(now)
      BY <1>1, <2>1, <2>4 DEF Risen
    <3>2. Bucket(Bucket(t, Minute), Five) = Bucket(t, Five)
      BY <3>1, Lengths, Nested
    <3>3. Minute \in Nat /\ Minute > 0 /\ Five \in Nat /\ Five > 0
      BY Lengths
    <3> QED
      BY <1>1, <2>2, <2>3, <3>1, <3>2, <3>3, CoarserCovers
  <2> QED
    BY <2>1, <2>4 DEF Risen, FreshReachesHours
<1>4. CASE RollM5ToH1
  <2>1. job = 2 /\ job' = 3 /\ fresh' = fresh /\ now' = now
    BY <1>1, <1>4, RunsAt DEF RollM5ToH1
  <2>2. table'["h1"] = Rolled(table["h1"], table["m5"], HoursFrom(now), MaxNow + 1, Hour)
    BY <1>4, HoursTable DEF MetricsTypes
  <2>3. /\ table["h1"] \in [0 .. MaxNow -> SUBSET (0 .. MaxNow)]
        /\ table["m5"] \in [0 .. MaxNow -> SUBSET (0 .. MaxNow)]
    BY FreshAre DEF Tier
  <2>4. ASSUME NEW t \in fresh, ~(Bucket(t, Minute) < FivesFrom(now)),
               ~(Bucket(t, Five) < HoursFrom(now))
        PROVE  Covers(table'["h1"], t, Hour)
    <3>1. t \in 0 .. MaxNow /\ Covers(table["m5"], t, Five) /\ Bucket(t, Five) >= HoursFrom(now)
      BY <1>1, <2>1, <2>4 DEF Risen
    <3>2. Bucket(Bucket(t, Five), Hour) = Bucket(t, Hour)
      BY <3>1, Lengths, Nested
    <3>3. Five \in Nat /\ Five > 0 /\ Hour \in Nat /\ Hour > 0
      BY Lengths
    <3> QED
      BY <1>1, <2>2, <2>3, <3>1, <3>2, <3>3, CoarserCovers
  <2> QED
    BY <2>1, <2>4 DEF Risen, FreshReachesHours
<1> QED
  BY <1>2, <1>3, <1>4

LEMMA NextRisen ==
  ASSUME MetricsTypes, MinutesKept, Risen, [MetricsNext]_metricsVars
  PROVE  Risen'
<1>1. MetricsTypes' /\ job \in 0 .. 3 /\ now \in Nat
  BY NextMetricsTypes, FreshAre DEF MetricsTypes
<1>2. CASE RollRawToM1 \/ RollM1ToM5 \/ RollM5ToH1
  BY <1>2, StatementsRise
<1>3. CASE Prune \/ TickFails \/ PanelRestart
  <2>1. job' = 0
    BY <1>1, <1>3, RunsAt DEF Prune, TickFails, PanelRestart
  <2> QED
    BY <2>1 DEF Risen, FreshReachesHours
<1>4. ASSUME NEW batch \in flight, Ingest(batch) PROVE Risen'
  <2>1. \A g \in {"m1", "m5", "h1"} : table'[g] = table[g]
    BY <1>4, IngestTable DEF MetricsTypes
  <2>2. UNCHANGED <<job, fresh>> /\ now <= now'
    BY <1>1, <1>4 DEF Ingest
  <2> QED
    BY <1>1, <2>1, <2>2, WaitingRises
<1>5. CASE Pass
  <2>1. UNCHANGED <<job, fresh, table>> /\ now <= now'
    BY <1>1, <1>5 DEF Pass, rollup
  <2> QED
    BY <1>1, <2>1, WaitingRises
<1>6. ASSUME \/ Connect \/ Sample \/ Flush \/ Disconnect \/ AgentRestart
             \/ \E batch \in flight : IngestFails(batch)
             \/ UNCHANGED metricsVars
      PROVE  Risen'
  <2>1. UNCHANGED <<job, fresh, table, now>>
    BY <1>6 DEF Connect, Sample, Flush, Disconnect, AgentRestart, IngestFails, metricsVars, rollup
  <2>2. UNCHANGED <<job, fresh, table>> /\ now <= now'
    BY <1>1, <2>1
  <2> QED
    BY <1>1, <2>2, WaitingRises
<1> QED
  BY <1>2, <1>3, <1>4, <1>5, <1>6 DEF MetricsNext

\* One tick carries what it read from the raw tier through the five minutes to the
\* hour: each statement's window contains what the one before it has written.
THEOREM FreshRises == MetricsSpec => []FreshReachesHours
<1>1. MetricsInit => MetricsTypes /\ MinutesKept /\ Risen
  <2>1. MetricsInit => Risen
    BY DEF MetricsInit, Risen, FreshReachesHours
  <2> QED
    BY <2>1, InitMetricsTypes, InitMinutesKept
<1>2. MetricsTypes /\ MinutesKept /\ Risen /\ [MetricsNext]_metricsVars
        => MetricsTypes' /\ MinutesKept' /\ Risen'
  BY NextMetricsTypes, NextMinutesKept, NextRisen
<1>3. Risen => FreshReachesHours
  BY DEF Risen
<1> QED
  BY <1>1, <1>2, <1>3, PTL DEF MetricsSpec

----------------------------------------------------------------------------
(* Results: queues and batches.                                            *)

LEMMA AppendSet ==
  ASSUME NEW S, NEW q \in Seq(S), NEW x
  PROVE  ToSet(Append(q, x)) = ToSet(q) \cup {x}
<1>1. /\ DOMAIN Append(q, x) = DOMAIN q \cup {Len(q) + 1}
      /\ Append(q, x)[Len(q) + 1] = x
      /\ \A i \in DOMAIN q : Append(q, x)[i] = q[i]
  OBVIOUS
<1> DEFINE a == Append(q, x)
<1> HIDE DEF a
<1> QED
  BY <1>1 DEF ToSet, a

LEMMA TailSet ==
  ASSUME NEW S, NEW q \in Seq(S), q # <<>>
  PROVE  ToSet(q) = {Head(q)} \cup ToSet(Tail(q))
<1>1. /\ Len(q) \in Nat /\ Len(q) > 0 /\ DOMAIN q = 1 .. Len(q) /\ Head(q) = q[1]
      /\ DOMAIN Tail(q) = 1 .. Len(q) - 1
      /\ \A i \in 1 .. Len(q) - 1 : Tail(q)[i] = q[i + 1]
  OBVIOUS
<1> DEFINE t == Tail(q)
           n == Len(q)
<1> HIDE DEF t, n
<1>2. \A i \in 1 .. n : i = 1 \/ (i - 1 \in 1 .. n - 1 /\ i = (i - 1) + 1)
  BY <1>1 DEF n
<1>3. \A i \in 1 .. n - 1 : i + 1 \in 1 .. n
  BY <1>1 DEF n
<1>4. 1 \in 1 .. n
  BY <1>1 DEF n
<1>5. ToSet(q) = {q[i] : i \in 1 .. n} /\ ToSet(t) = {t[i] : i \in 1 .. n - 1}
  BY <1>1 DEF ToSet, t, n
<1>6. \A i \in 1 .. n - 1 : t[i] = q[i + 1]
  BY <1>1 DEF t, n
<1>7. {q[i] : i \in 1 .. n} \subseteq {q[1]} \cup {t[i] : i \in 1 .. n - 1}
  BY <1>2, <1>6
<1>8. {q[1]} \cup {t[i] : i \in 1 .. n - 1} \subseteq {q[i] : i \in 1 .. n}
  BY <1>3, <1>4, <1>6
<1> QED
  BY <1>1, <1>5, <1>7, <1>8 DEF t

LEMMA SplitSet ==
  ASSUME NEW S, NEW q \in Seq(S), NEW n \in 0 .. Len(q)
  PROVE  /\ SubSeq(q, 1, n) \in Seq(S) /\ SubSeq(q, n + 1, Len(q)) \in Seq(S)
         /\ Len(SubSeq(q, 1, n)) = n /\ Len(SubSeq(q, n + 1, Len(q))) = Len(q) - n
         /\ ToSet(q) = ToSet(SubSeq(q, 1, n)) \cup ToSet(SubSeq(q, n + 1, Len(q)))
<1> DEFINE a == SubSeq(q, 1, n)
           b == SubSeq(q, n + 1, Len(q))
           m == Len(q)
<1>1. /\ a \in Seq(S) /\ b \in Seq(S) /\ Len(a) = n /\ Len(b) = m - n
      /\ m \in Nat /\ n \in 0 .. m
      /\ DOMAIN q = 1 .. m /\ DOMAIN a = 1 .. n /\ DOMAIN b = 1 .. m - n
      /\ \A i \in 1 .. n : a[i] = q[i]
      /\ \A i \in 1 .. m - n : b[i] = q[i + n]
  OBVIOUS
<1> HIDE DEF a, b, m
<1>2. /\ \A i \in 1 .. m : i \in 1 .. n \/ (i - n \in 1 .. m - n /\ i = (i - n) + n)
      /\ \A i \in 1 .. n : i \in 1 .. m
      /\ \A i \in 1 .. m - n : i + n \in 1 .. m
  BY <1>1
<1>3. {q[i] : i \in 1 .. m} \subseteq {a[i] : i \in 1 .. n} \cup {b[i] : i \in 1 .. m - n}
  <2> SUFFICES ASSUME NEW i \in 1 .. m
               PROVE  q[i] \in {a[j] : j \in 1 .. n} \cup {b[j] : j \in 1 .. m - n}
    OBVIOUS
  <2>1. CASE i \in 1 .. n
    BY <1>1, <2>1
  <2>2. CASE i - n \in 1 .. m - n /\ i = (i - n) + n
    <3> DEFINE k == i - n
    <3>1. k \in 1 .. m - n /\ i = k + n
      BY <2>2
    <3> HIDE DEF k
    <3>2. b[k] = q[k + n]
      BY <1>1, <3>1
    <3> QED
      BY <3>1, <3>2
  <2> QED
    BY <1>2, <2>1, <2>2
<1>4. {a[i] : i \in 1 .. n} \cup {b[i] : i \in 1 .. m - n} \subseteq {q[i] : i \in 1 .. m}
  <2>1. \A i \in 1 .. n : a[i] \in {q[j] : j \in 1 .. m}
    BY <1>1, <1>2
  <2>2. \A i \in 1 .. m - n : b[i] \in {q[j] : j \in 1 .. m}
    BY <1>1, <1>2
  <2> QED
    BY <2>1, <2>2
<1>5. ToSet(q) = ToSet(a) \cup ToSet(b)
  BY <1>1, <1>3, <1>4 DEF ToSet
<1> QED
  BY <1>1, <1>5 DEF a, b, m

LEMMA ConcatSet ==
  ASSUME NEW S, NEW p \in Seq(S), NEW q \in Seq(S)
  PROVE  p \o q \in Seq(S) /\ ToSet(p \o q) = ToSet(p) \cup ToSet(q)
<1> DEFINE c == p \o q
           m == Len(p)
           n == Len(q)
<1>1. /\ c \in Seq(S) /\ m \in Nat /\ n \in Nat
      /\ DOMAIN p = 1 .. m /\ DOMAIN q = 1 .. n /\ DOMAIN c = 1 .. m + n
      /\ \A i \in 1 .. m : c[i] = p[i]
      /\ \A i \in 1 .. n : c[i + m] = q[i]
  OBVIOUS
<1> HIDE DEF c, m, n
<1>2. /\ \A i \in 1 .. m + n : i \in 1 .. m \/ (i - m \in 1 .. n /\ i = (i - m) + m)
      /\ \A i \in 1 .. m : i \in 1 .. m + n
      /\ \A i \in 1 .. n : i + m \in 1 .. m + n
  BY <1>1
<1>3. {c[i] : i \in 1 .. m + n} \subseteq {p[i] : i \in 1 .. m} \cup {q[i] : i \in 1 .. n}
  BY <1>1, <1>2
<1>4. {p[i] : i \in 1 .. m} \cup {q[i] : i \in 1 .. n} \subseteq {c[i] : i \in 1 .. m + n}
  BY <1>1, <1>2
<1>5. ToSet(c) = ToSet(p) \cup ToSet(q)
  BY <1>1, <1>3, <1>4 DEF ToSet
<1> QED
  BY <1>1, <1>5 DEF c

\* A batch made of the first results of a queue is no larger than they are.
LEMMA SetOfSequence ==
  ASSUME NEW S, NEW q \in Seq(S)
  PROVE  ToSet(q) \subseteq S /\ IsFiniteSet(ToSet(q)) /\ Cardinality(ToSet(q)) <= Len(q)
<1>1. Len(q) \in Nat /\ DOMAIN q = 1 .. Len(q) /\ q \in [1 .. Len(q) -> S]
  OBVIOUS
<1>2. ToSet(q) \subseteq S
  BY <1>1 DEF ToSet
<1>3. q \in Surjection(1 .. Len(q), ToSet(q))
  BY <1>1 DEF ToSet, Surjection
<1>4. IsFiniteSet(1 .. Len(q))
  BY <1>1, FS_Interval
<1>5. IsFiniteSet(ToSet(q))
  BY <1>3, <1>4, FS_Surjection
<1>6. Cardinality(ToSet(q)) <= Len(q)
  BY <1>1, <1>3, FS_SurjCardinalityBound DEF ExistsSurjection
<1> QED
  BY <1>2, <1>5, <1>6

----------------------------------------------------------------------------
(* Results: types.                                                         *)

LEMMA ResultsBounds ==
  /\ Permits \in Nat /\ Permits > 0 /\ QueueCap \in Nat /\ QueueCap > 0
  /\ BatchMax \in Nat /\ BatchMax > 0 /\ BatchesCap \in Nat
  /\ MaxResults \in Nat /\ MaxBreaks \in Nat /\ MaxClock \in Nat
  /\ Times = 0 .. MaxClock
  /\ \A g \in Tier : KeepResults[g] \in Nat
  /\ KeepResults["raw"] >= RawWindow + Minute
BY ResultsAssumption DEF Times

\* The parts of ResultsTypeOK; what a statement is about to write are rows too, and
\* what travels has been reported.
ClockOK   == clock \in Times /\ gone \subseteq Probes
RunningOK ==
  /\ running \subseteq Probes \X (1 .. executed) /\ executed \in 0 .. MaxResults
  /\ IsFiniteSet(running) /\ Cardinality(running) <= Permits
QueuesOK ==
  /\ queue \in Seq(Result) /\ Len(queue) <= QueueCap
  /\ batches \in Seq(SUBSET Result)
  /\ \A b \in ToSet(batches) : Cardinality(b) <= BatchMax
RowsOK ==
  /\ rows \in [Probes -> [Tier -> [Times -> SUBSET Times]]]
  /\ \A p \in gone : rows[p] = NoProbeRows
StatementOK ==
  /\ stmt \in 0 .. 3 /\ DOMAIN insert \subseteq Probes
  /\ \A p \in DOMAIN insert : insert[p] \in [Times -> SUBSET Times]
  /\ insert # NoInsert => stmt # 3
HistoriesOK ==
  /\ breaks \in 0 .. MaxBreaks /\ unstored \subseteq reported /\ reported \subseteq Result
  /\ ToSet(queue) \subseteq reported /\ ToSet(batches) \subseteq SUBSET reported

ResultsTypes == ClockOK /\ RunningOK /\ QueuesOK /\ RowsOK /\ StatementOK /\ HistoriesOK

LEMMA ResultsTypesOK == ResultsTypes => ResultsTypeOK
BY DEF ResultsTypes, ClockOK, RunningOK, QueuesOK, RowsOK, StatementOK, HistoriesOK, ResultsTypeOK

LEMMA NoRowsAre ==
  /\ NoProbeRows \in [Tier -> [Times -> SUBSET Times]]
  /\ \A g \in Tier, t \in Times : NoProbeRows[g][t] = {}
BY DEF NoProbeRows, NoRows

LEMMA InitResultsTypes == ResultsInit => ResultsTypes
<1> SUFFICES ASSUME ResultsInit PROVE ResultsTypes
  OBVIOUS
<1>1. ClockOK
  BY ResultsBounds DEF ResultsInit, ClockOK
<1>2. RunningOK
  BY ResultsBounds, FS_EmptySet DEF ResultsInit, RunningOK
<1>3. ToSet(<<>>) = {} /\ Len(<<>>) = 0 /\ <<>> \in Seq(Result) /\ <<>> \in Seq(SUBSET Result)
  BY DEF ToSet
<1>4. QueuesOK
  BY <1>3, ResultsBounds DEF ResultsInit, QueuesOK
<1>5. RowsOK
  BY NoRowsAre DEF ResultsInit, RowsOK
<1>6. StatementOK
  BY DEF ResultsInit, StatementOK, NoInsert
<1>7. HistoriesOK
  BY <1>3, ResultsBounds DEF ResultsInit, HistoriesOK
<1> QED
  BY <1>1, <1>2, <1>4, <1>5, <1>6, <1>7 DEF ResultsTypes

LEMMA NextClock ==
  ASSUME ResultsTypes, [ResultsNext]_resultsVars
  PROVE  ClockOK'
<1>1. clock \in Times /\ gone \subseteq Probes /\ Times = 0 .. MaxClock /\ MaxClock \in Nat
  BY ResultsBounds DEF ResultsTypes, ClockOK
<1>2. CASE Elapse
  BY <1>1, <1>2 DEF Elapse, ClockOK
<1>3. ASSUME NEW p \in Probes, DropProbe(p) PROVE ClockOK'
  BY <1>1, <1>3 DEF DropProbe, ClockOK
<1>4. CASE UNCHANGED <<clock, gone>>
  BY <1>1, <1>4 DEF ClockOK
<1> QED
  BY <1>2, <1>3, <1>4 DEF ResultsNext, resultsVars, StartProbe, FinishProbe, FlushProbes, NewStream,
     IngestResults, InsertFails, RollRead, RollWrite, PruneResults, PanelEnds

LEMMA NextRunning ==
  ASSUME ResultsTypes, [ResultsNext]_resultsVars
  PROVE  RunningOK'
<1>1. /\ running \subseteq Probes \X (1 .. executed) /\ executed \in 0 .. MaxResults
      /\ IsFiniteSet(running) /\ Cardinality(running) <= Permits /\ Cardinality(running) \in Nat
      /\ Permits \in Nat /\ MaxResults \in Nat
  BY ResultsBounds, FS_CardinalityType DEF ResultsTypes, RunningOK
<1>2. ASSUME NEW p \in Probes, StartProbe(p) PROVE RunningOK'
  <2>1. /\ Cardinality(running) < Permits /\ executed' = executed + 1 /\ executed' \in 0 .. MaxResults
        /\ running' = running \cup {<<p, executed'>>}
    BY <1>1, <1>2 DEF StartProbe
  <2>2. IsFiniteSet(running') /\ Cardinality(running') <= Permits
    BY <1>1, <2>1, FS_AddElement
  <2>3. running' \subseteq Probes \X (1 .. executed')
    <3>1. 1 .. executed \subseteq 1 .. executed' /\ executed' \in 1 .. executed'
      BY <1>1, <2>1
    <3> QED
      BY <1>1, <2>1, <3>1
  <2> QED
    BY <2>1, <2>2, <2>3 DEF RunningOK
<1>3. ASSUME NEW p \in Probes, FinishProbe(p) PROVE RunningOK'
  <2> PICK e \in running : running' = running \ {e}
    BY <1>3 DEF FinishProbe
  <2>1. executed' = executed
    BY <1>3 DEF FinishProbe
  <2>2. IsFiniteSet(running') /\ Cardinality(running') <= Permits
    <3>1. IsFiniteSet(running \ {e}) /\ Cardinality(running \ {e}) = Cardinality(running) - 1
      BY <1>1, FS_RemoveElement
    <3> QED
      BY <1>1, <3>1
  <2> QED
    BY <1>1, <2>1, <2>2 DEF RunningOK
<1>4. CASE NewStream \/ PanelEnds
  <2>1. running' = {} /\ executed' = executed
    BY <1>4 DEF NewStream, PanelEnds
  <2> QED
    BY <1>1, <2>1, FS_EmptySet DEF RunningOK
<1>5. CASE UNCHANGED <<running, executed>>
  BY <1>1, <1>5 DEF RunningOK
<1> QED
  BY <1>2, <1>3, <1>4, <1>5 DEF ResultsNext, resultsVars, Elapse, DropProbe, FlushProbes,
     IngestResults, InsertFails, RollRead, RollWrite, PruneResults, onAgent, resultsHist

\* The next batch, and what stays in the channel.
LEMMA TakenAre ==
  ASSUME ResultsTypes
  PROVE  /\ Left \in Seq(Result) /\ Len(Left) <= Len(queue)
         /\ ToSet(queue) = ToSet(Taken) \cup ToSet(Left)
         /\ ToSet(Taken) \in SUBSET Result /\ Cardinality(ToSet(Taken)) <= BatchMax
<1> DEFINE n == Min({BatchMax, Len(queue)})
<1>1. queue \in Seq(Result) /\ Len(queue) \in Nat /\ BatchMax \in Nat
  BY ResultsBounds DEF ResultsTypes, QueuesOK
<1>2. n \in {BatchMax, Len(queue)} /\ n <= BatchMax /\ n <= Len(queue)
  BY <1>1 DEF Min
<1> HIDE DEF n
<1>3. n \in 0 .. Len(queue)
  BY <1>1, <1>2
<1>4. Taken = SubSeq(queue, 1, n)
  BY DEF Taken, n
<1>5. Taken \in Seq(Result) /\ Len(Taken) = n
  BY <1>1, <1>3, <1>4, SplitSet
<1>6. Left = SubSeq(queue, n + 1, Len(queue))
  BY <1>5 DEF Left
<1>7. /\ Left \in Seq(Result) /\ Len(Left) = Len(queue) - n
      /\ ToSet(queue) = ToSet(Taken) \cup ToSet(Left)
  BY <1>1, <1>3, <1>4, <1>6, SplitSet
<1>8. ToSet(Taken) \subseteq Result /\ Cardinality(ToSet(Taken)) <= n /\ IsFiniteSet(ToSet(Taken))
  BY <1>5, SetOfSequence
<1>9. Cardinality(ToSet(Taken)) \in Nat
  BY <1>8, FS_CardinalityType
<1> QED
  BY <1>1, <1>2, <1>3, <1>7, <1>8, <1>9

\* A new stream keeps some of the batches, and perhaps a last one.
LEMMA StreamBatches ==
  ASSUME ResultsTypes, NewStream
  PROVE  /\ queue' = <<>> /\ batches' \in Seq(SUBSET Result)
         /\ ToSet(batches') \subseteq ToSet(batches) \cup {ToSet(Taken)}
         /\ UNION ToSet(batches') \subseteq ToSet(queue) \cup UNION ToSet(batches)
         /\ unstored' = unstored \cup ((ToSet(queue) \cup UNION ToSet(batches))
                                         \ UNION ToSet(batches'))
<1> DEFINE last == IF queue = <<>> THEN <<>> ELSE <<ToSet(Taken)>>
           on   == batches \o last
<1> PICK n \in 0 .. Len(on) :
      /\ batches' = SubSeq(on, 1, n)
      /\ unstored' = unstored \cup ((ToSet(queue) \cup UNION ToSet(batches)) \ UNION ToSet(batches'))
  BY DEF NewStream
<1>1. /\ batches \in Seq(SUBSET Result) /\ ToSet(Taken) \in SUBSET Result
      /\ ToSet(Taken) \subseteq ToSet(queue)
  BY TakenAre DEF ResultsTypes, QueuesOK
<1>2. last \in Seq(SUBSET Result) /\ ToSet(last) \subseteq {ToSet(Taken)}
  <2>1. <<>> \in Seq(SUBSET Result) /\ ToSet(<<>>) = {}
    BY DEF ToSet
  <2>2. <<ToSet(Taken)>> \in Seq(SUBSET Result) /\ ToSet(<<ToSet(Taken)>>) = {ToSet(Taken)}
    <3> DEFINE x == ToSet(Taken)
    <3>1. x \in SUBSET Result
      BY <1>1
    <3> HIDE DEF x
    <3>2. <<x>> \in Seq(SUBSET Result) /\ ToSet(<<x>>) = {x}
      BY <3>1 DEF ToSet
    <3> QED
      BY <3>2 DEF x
  <2> QED
    BY <2>1, <2>2
<1> HIDE DEF last
<1>3. on \in Seq(SUBSET Result) /\ ToSet(on) = ToSet(batches) \cup ToSet(last)
  BY <1>1, <1>2, ConcatSet
<1> HIDE DEF on
<1>4. batches' \in Seq(SUBSET Result) /\ ToSet(batches') \subseteq ToSet(on)
  BY <1>3, SplitSet
<1>5. ToSet(batches') \subseteq ToSet(batches) \cup {ToSet(Taken)}
  BY <1>2, <1>3, <1>4
<1>6. UNION ToSet(batches') \subseteq ToSet(queue) \cup UNION ToSet(batches)
  BY <1>1, <1>5
<1>7. queue' = <<>>
  BY DEF NewStream
<1> QED
  BY <1>4, <1>5, <1>6, <1>7

LEMMA NextQueues ==
  ASSUME ResultsTypes, [ResultsNext]_resultsVars
  PROVE  QueuesOK'
<1>1. /\ queue \in Seq(Result) /\ Len(queue) <= QueueCap /\ QueueCap \in Nat
      /\ batches \in Seq(SUBSET Result) /\ Len(queue) \in Nat
      /\ \A b \in ToSet(batches) : Cardinality(b) <= BatchMax
  BY ResultsBounds DEF ResultsTypes, QueuesOK
<1>2. /\ Left \in Seq(Result) /\ Len(Left) <= Len(queue) /\ Len(Left) \in Nat
      /\ ToSet(Taken) \in SUBSET Result /\ Cardinality(ToSet(Taken)) <= BatchMax
  BY TakenAre
<1>3. <<>> \in Seq(Result) /\ Len(<<>>) <= QueueCap /\ <<>> \in Seq(SUBSET Result) /\ ToSet(<<>>) = {}
  BY <1>1 DEF ToSet
<1>4. ASSUME NEW p \in Probes, FinishProbe(p) PROVE QueuesOK'
  <2>1. <<p, clock>> \in Result
    BY DEF ResultsTypes, ClockOK, Result
  <2>2. queue' \in Seq(Result) /\ Len(queue') <= QueueCap
    <3>1. queue' = Reported(<<p, clock>>)
      BY <1>4 DEF FinishProbe
    <3>2. CASE Len(queue) < QueueCap
      <4>1. Append(queue, <<p, clock>>) \in Seq(Result) /\ Len(Append(queue, <<p, clock>>)) = Len(queue) + 1
        BY <1>1, <2>1, AppendFacts
      <4> QED
        BY <1>1, <3>1, <3>2, <4>1 DEF Reported
    <3>3. CASE ~(Len(queue) < QueueCap)
      BY <1>1, <3>1, <3>3 DEF Reported
    <3> QED
      BY <3>2, <3>3
  <2>3. batches' = batches
    BY <1>4 DEF FinishProbe
  <2> QED
    BY <1>1, <2>2, <2>3 DEF QueuesOK
<1>5. CASE FlushProbes
  <2>1. batches' = Append(batches, ToSet(Taken)) /\ queue' = Left
    BY <1>5 DEF FlushProbes
  <2>2. batches' \in Seq(SUBSET Result) /\ ToSet(batches') = ToSet(batches) \cup {ToSet(Taken)}
    BY <1>1, <1>2, <2>1, AppendFacts, AppendSet
  <2>3. Len(queue') <= QueueCap
    BY <1>1, <1>2, <2>1
  <2> QED
    BY <1>1, <1>2, <2>1, <2>2, <2>3 DEF QueuesOK
<1>6. CASE NewStream
  <2>1. /\ queue' = <<>> /\ batches' \in Seq(SUBSET Result)
        /\ ToSet(batches') \subseteq ToSet(batches) \cup {ToSet(Taken)}
    BY <1>6, StreamBatches
  <2> QED
    BY <1>1, <1>2, <1>3, <2>1 DEF QueuesOK
<1>7. CASE IngestResults \/ InsertFails
  <2>1. batches # <<>> /\ batches' = Tail(batches) /\ queue' = queue
    BY <1>7 DEF IngestResults, InsertFails, onAgent
  <2>2. batches' \in Seq(SUBSET Result) /\ ToSet(batches') \subseteq ToSet(batches)
    BY <1>1, <2>1, TailFacts, TailSet
  <2> QED
    BY <1>1, <2>1, <2>2 DEF QueuesOK
<1>8. CASE PanelEnds
  <2>1. queue' = <<>> /\ batches' = <<>>
    BY <1>8 DEF PanelEnds
  <2> QED
    BY <1>3, <2>1 DEF QueuesOK
<1>9. CASE UNCHANGED <<queue, batches>>
  BY <1>1, <1>9 DEF QueuesOK
<1> QED
  BY <1>4, <1>5, <1>6, <1>7, <1>8, <1>9 DEF ResultsNext, resultsVars, Elapse, StartProbe, DropProbe,
     RollRead, RollWrite, PruneResults, onAgent

LEMMA NextHistories ==
  ASSUME ResultsTypes, [ResultsNext]_resultsVars
  PROVE  HistoriesOK'
<1>1. /\ breaks \in 0 .. MaxBreaks /\ unstored \subseteq reported /\ reported \subseteq Result
      /\ ToSet(queue) \subseteq reported /\ ToSet(batches) \subseteq SUBSET reported
      /\ MaxBreaks \in Nat
  BY ResultsBounds DEF ResultsTypes, HistoriesOK
<1>2. batches \in Seq(SUBSET Result) /\ ToSet(<<>>) = {}
  BY DEF ResultsTypes, QueuesOK, ToSet
<1>3. ToSet(queue) = ToSet(Taken) \cup ToSet(Left)
  BY TakenAre
<1>4. ASSUME NEW p \in Probes, FinishProbe(p) PROVE HistoriesOK'
  <2>1. queue' \in Seq(Result)
    BY NextQueues DEF QueuesOK
  <2>2. ToSet(queue') \subseteq Result
    BY <2>1, SetOfSequence
  <2>3. reported' = reported \cup ToSet(queue') /\ UNCHANGED <<batches, breaks, unstored>>
    BY <1>4 DEF FinishProbe
  <2> QED
    BY <1>1, <2>2, <2>3 DEF HistoriesOK
<1>5. CASE FlushProbes
  <2>1. /\ batches' = Append(batches, ToSet(Taken)) /\ queue' = Left
        /\ UNCHANGED <<breaks, unstored, reported>>
    BY <1>5 DEF FlushProbes, resultsHist
  <2>2. ToSet(batches') = ToSet(batches) \cup {ToSet(Taken)}
    BY <1>2, <2>1, AppendSet
  <2>3. ToSet(Taken) \in SUBSET reported /\ ToSet(queue') \subseteq reported
    BY <1>1, <1>3, <2>1
  <2> QED
    BY <1>1, <2>1, <2>2, <2>3 DEF HistoriesOK
<1>6. CASE NewStream
  <2>1. /\ queue' = <<>>
        /\ ToSet(batches') \subseteq ToSet(batches) \cup {ToSet(Taken)}
        /\ unstored' \subseteq unstored \cup ToSet(queue) \cup UNION ToSet(batches)
    BY <1>6, StreamBatches
  <2>2. reported' = reported /\ breaks' \in 0 .. MaxBreaks
    BY <1>1, <1>6 DEF NewStream, Break
  <2>3. ToSet(Taken) \in SUBSET reported /\ UNION ToSet(batches) \subseteq reported
    BY <1>1, <1>3
  <2>4. ToSet(queue') \subseteq reported /\ ToSet(batches') \subseteq SUBSET reported
    BY <1>1, <1>2, <2>1, <2>3
  <2>5. unstored' \subseteq reported
    BY <1>1, <2>1, <2>3
  <2> QED
    BY <1>1, <2>2, <2>4, <2>5 DEF HistoriesOK
<1>7. CASE IngestResults \/ InsertFails
  <2>1. /\ batches # <<>> /\ batches' = Tail(batches) /\ queue' = queue /\ reported' = reported
        /\ unstored' \subseteq unstored \cup Head(batches)
    BY <1>7 DEF IngestResults, InsertFails, onAgent
  <2>2. breaks' \in 0 .. MaxBreaks
    BY <1>1, <1>7 DEF IngestResults, InsertFails, Break
  <2>3. ToSet(batches) = {Head(batches)} \cup ToSet(batches')
    BY <1>2, <2>1, TailSet
  <2>4. Head(batches) \subseteq reported /\ ToSet(batches') \subseteq SUBSET reported
    BY <1>1, <2>3
  <2> QED
    BY <1>1, <2>1, <2>2, <2>4 DEF HistoriesOK
<1>8. CASE PanelEnds
  <2>1. /\ queue' = <<>> /\ batches' = <<>> /\ reported' = reported
        /\ unstored' = unstored \cup ToSet(queue) \cup UNION ToSet(batches)
    BY <1>8 DEF PanelEnds
  <2>2. breaks' \in 0 .. MaxBreaks
    BY <1>1, <1>8 DEF PanelEnds, Break
  <2>3. unstored' \subseteq reported
    BY <1>1, <2>1
  <2> QED
    BY <1>1, <1>2, <2>1, <2>2, <2>3 DEF HistoriesOK
<1>9. CASE UNCHANGED <<queue, batches, breaks, reported, unstored>>
  BY <1>1, <1>9 DEF HistoriesOK
<1> QED
  BY <1>4, <1>5, <1>6, <1>7, <1>8, <1>9 DEF ResultsNext, resultsVars, Elapse, StartProbe, DropProbe,
     RollRead, RollWrite, PruneResults, onAgent, resultsHist

\* What a batch leaves in the raw tier, and what pruning leaves in any.
LEMMA IngestRows ==
  ASSUME ResultsTypes, IngestResults
  PROVE  LET batch == Head(batches) IN
         /\ rows' \in [Probes -> [Tier -> [Times -> SUBSET Times]]]
         /\ \A p \in Probes :
              /\ \A g \in {"m1", "m5", "h1"} : rows'[p][g] = rows[p][g]
              /\ \/ rows'[p] = rows[p]
                 \/ /\ p \notin gone
                    /\ \A t \in Times :
                         rows'[p]["raw"][t] = IF <<p, t>> \in batch THEN {t} ELSE rows[p]["raw"][t]
         /\ \/ /\ unstored' = unstored
               /\ \A p \in Probes, t \in Times : <<p, t>> \in batch => rows'[p]["raw"][t] = {t}
            \/ unstored' = unstored \cup batch /\ rows' = rows
<1> DEFINE batch == Head(batches)
           fails == \E r \in batch : r[1] \in gone
<1>1. rows \in [Probes -> [Tier -> [Times -> SUBSET Times]]]
  BY DEF ResultsTypes, RowsOK
<1>2. /\ fails => rows' = rows /\ unstored' = unstored \cup batch
      /\ ~fails => rows' = [p \in Probes |-> Stored(p, batch)] /\ unstored' = unstored
  BY DEF IngestResults
<1>3. ASSUME NEW p \in Probes
      PROVE  /\ Stored(p, batch) \in [Tier -> [Times -> SUBSET Times]]
             /\ \A g \in {"m1", "m5", "h1"} : Stored(p, batch)[g] = rows[p][g]
             /\ \A t \in Times :
                  Stored(p, batch)["raw"][t] = IF <<p, t>> \in batch THEN {t} ELSE rows[p]["raw"][t]
  <2> DEFINE raw == [t \in Times |-> IF <<p, t>> \in batch THEN {t} ELSE rows[p]["raw"][t]]
  <2> HIDE DEF batch, fails
  <2>1. rows[p] \in [Tier -> [Times -> SUBSET Times]]
    BY <1>1
  <2>2. /\ raw \in [Times -> SUBSET Times]
        /\ \A t \in Times : raw[t] = IF <<p, t>> \in batch THEN {t} ELSE rows[p]["raw"][t]
    BY <2>1 DEF Tier
  <2>3. Stored(p, batch) = [rows[p] EXCEPT !["raw"] = raw]
    BY DEF Stored
  <2> HIDE DEF raw
  <2> QED
    BY <2>1, <2>2, <2>3 DEF Tier
<1> HIDE DEF batch
<1>4. CASE fails
  BY <1>1, <1>2, <1>4 DEF batch
<1>5. CASE ~fails
  <2>1. rows' = [p \in Probes |-> Stored(p, batch)] /\ unstored' = unstored
    BY <1>2, <1>5
  <2>2. \A p \in Probes, t \in Times : <<p, t>> \in batch => p \notin gone
    BY <1>5
  <2> HIDE DEF fails
  <2>3. rows' \in [Probes -> [Tier -> [Times -> SUBSET Times]]]
    BY <1>3, <2>1
  <2>4. \A p \in Probes :
          /\ \A g \in {"m1", "m5", "h1"} : rows'[p][g] = rows[p][g]
          /\ \A t \in Times :
               rows'[p]["raw"][t] = IF <<p, t>> \in batch THEN {t} ELSE rows[p]["raw"][t]
    BY <1>3, <2>1
  <2>5. ASSUME NEW p \in Probes, p \in gone PROVE rows'[p] = rows[p]
    <3>1. \A t \in Times : <<p, t>> \notin batch
      BY <2>2, <2>5
    <3>2. \A t \in Times : rows'[p]["raw"][t] = rows[p]["raw"][t]
      BY <2>4, <3>1
    <3>3. rows'[p] \in [Tier -> [Times -> SUBSET Times]] /\ rows[p] \in [Tier -> [Times -> SUBSET Times]]
      BY <1>1, <2>3
    <3>4. rows'[p]["raw"] = rows[p]["raw"]
      BY <3>2, <3>3 DEF Tier
    <3>5. \A g \in Tier : rows'[p][g] = rows[p][g]
      BY <2>4, <3>4 DEF Tier
    <3> QED
      BY <3>3, <3>5
  <2> QED
    BY <2>1, <2>3, <2>4, <2>5 DEF batch
<1> QED
  BY <1>4, <1>5

LEMMA PruneRows ==
  ASSUME ResultsTypes, PruneResults
  PROVE  /\ rows' \in [Probes -> [Tier -> [Times -> SUBSET Times]]]
         /\ \A p \in Probes, g \in Tier, t \in Times :
              rows'[p][g][t] = IF t < clock - KeepResults[g] THEN {} ELSE rows[p][g][t]
<1>1. rows \in [Probes -> [Tier -> [Times -> SUBSET Times]]]
  BY DEF ResultsTypes, RowsOK
<1>2. rows' = [p \in Probes |-> [g \in Tier |-> Pruned(rows[p][g], clock - KeepResults[g])]]
  BY DEF PruneResults
<1>3. ASSUME NEW p \in Probes, NEW g \in Tier
      PROVE  /\ Pruned(rows[p][g], clock - KeepResults[g]) \in [Times -> SUBSET Times]
             /\ \A t \in Times :
                  Pruned(rows[p][g], clock - KeepResults[g])[t]
                    = IF t < clock - KeepResults[g] THEN {} ELSE rows[p][g][t]
  <2>1. rows[p][g] \in [Times -> SUBSET Times]
    BY <1>1
  <2> DEFINE before == clock - KeepResults[g]
  <2> HIDE DEF before
  <2>2. /\ Pruned(rows[p][g], before) \in [Times -> SUBSET Times]
        /\ \A t \in Times : Pruned(rows[p][g], before)[t] = IF t < before THEN {} ELSE rows[p][g][t]
    BY <2>1 DEF Pruned
  <2> QED
    BY <2>2 DEF before
<1> QED
  BY <1>2, <1>3

\* What the number of a statement stands for.
LEMMA StatementIs ==
  ASSUME stmt \in 0 .. 3
  PROVE  /\ stmt = 0 => Statement = "m1"
         /\ stmt = 1 => Statement = "m5"
         /\ stmt = 2 => Statement = "h1"
         /\ stmt = 3 => Statement = "prune"
         /\ Statement # "prune" => stmt + 1 \in 0 .. 3 /\ stmt # 3
         /\ stmt # 3 => Statement \in {"m1", "m5", "h1"} /\ Statement \in Tier /\ Statement # "raw"
         /\ Statement = "m1" => stmt = 0
<1> DEFINE s == <<"m1", "m5", "h1", "prune">>
<1>1. s[1] = "m1" /\ s[2] = "m5" /\ s[3] = "h1" /\ s[4] = "prune"
  OBVIOUS
<1>2. Statement = s[stmt + 1]
  BY DEF Statement
<1> HIDE DEF s
<1>3. stmt = 0 => Statement = "m1"
  BY <1>1, <1>2
<1>4. stmt = 1 => Statement = "m5"
  BY <1>1, <1>2
<1>5. stmt = 2 => Statement = "h1"
  BY <1>1, <1>2
<1>6. stmt = 3 => Statement = "prune"
  BY <1>1, <1>2
<1>7. stmt = 0 \/ stmt = 1 \/ stmt = 2 \/ stmt = 3
  OBVIOUS
<1> QED
  BY <1>3, <1>4, <1>5, <1>6, <1>7 DEF Tier

\* What a statement computes for a probe are rows; for the minutes, by its window.
LEMMA AggregatedRows ==
  ASSUME ResultsTypes, NEW p \in Probes, NEW g \in {"m1", "m5", "h1"}
  PROVE  /\ Aggregated(p, g) \in [Times -> SUBSET Times]
         /\ Aggregated(p, "m1")
              = Rolled(rows[p]["m1"], rows[p]["raw"], MinutesFrom(clock), MinutesTo(clock), Minute)
<1>1. /\ rows[p] \in [Tier -> [Times -> SUBSET Times]] /\ clock \in Int
      /\ Times = 0 .. MaxClock /\ MaxClock \in Nat
  BY ResultsBounds DEF ResultsTypes, RowsOK, ClockOK
<1> DEFINE m == rows[p]["m1"]
           f == rows[p]["m5"]
           h == rows[p]["h1"]
           r == rows[p]["raw"]
           x == MaxClock + 1
<1>2. /\ Aggregated(p, "m1") = Rolled(m, r, MinutesFrom(clock), MinutesTo(clock), Minute)
      /\ Aggregated(p, "m5") = Rolled(f, m, FivesFrom(clock), x, Five)
      /\ Aggregated(p, "h1") = Rolled(h, f, HoursFrom(clock), x, Hour)
  <2> DEFINE a == [of |-> "raw", from |-> MinutesFrom(clock), to |-> MinutesTo(clock), length |-> Minute]
             b == [of |-> "m1", from |-> FivesFrom(clock), to |-> x, length |-> Five]
             c == [of |-> "m5", from |-> HoursFrom(clock), to |-> x, length |-> Hour]
  <2>1. a.of = "raw" /\ a.from = MinutesFrom(clock) /\ a.to = MinutesTo(clock) /\ a.length = Minute
    OBVIOUS
  <2>2. b.of = "m1" /\ b.from = FivesFrom(clock) /\ b.to = x /\ b.length = Five
    OBVIOUS
  <2>3. c.of = "m5" /\ c.from = HoursFrom(clock) /\ c.to = x /\ c.length = Hour
    OBVIOUS
  <2>4. Plan = [m1 |-> a, m5 |-> b, h1 |-> c]
    BY DEF Plan
  <2> HIDE DEF a, b, c
  <2>5. Plan["m1"] = a /\ Plan["m5"] = b /\ Plan["h1"] = c
    BY <2>4
  <2>6. \A k \in {"m1", "m5", "h1"} :
          Aggregated(p, k) = Rolled(rows[p][k], rows[p][Plan[k].of], Plan[k].from, Plan[k].to, Plan[k].length)
    BY DEF Aggregated
  <2>7. Aggregated(p, "m1") = Rolled(m, r, MinutesFrom(clock), MinutesTo(clock), Minute)
    BY <2>1, <2>5, <2>6
  <2>8. Aggregated(p, "m5") = Rolled(f, m, FivesFrom(clock), x, Five)
    BY <2>2, <2>5, <2>6
  <2>9. Aggregated(p, "h1") = Rolled(h, f, HoursFrom(clock), x, Hour)
    BY <2>3, <2>5, <2>6
  <2> QED
    BY <2>7, <2>8, <2>9
<1>3. /\ m \in [0 .. MaxClock -> SUBSET (0 .. MaxClock)]
      /\ f \in [0 .. MaxClock -> SUBSET (0 .. MaxClock)]
      /\ h \in [0 .. MaxClock -> SUBSET (0 .. MaxClock)]
      /\ r \in [0 .. MaxClock -> SUBSET (0 .. MaxClock)]
  BY <1>1 DEF Tier
<1>4. /\ MinutesFrom(clock) \in Int /\ MinutesTo(clock) \in Int
      /\ FivesFrom(clock) \in Int /\ HoursFrom(clock) \in Int
  BY <1>1, WindowsAreTimes
<1>8. x \in Int
  BY <1>1
<1> HIDE DEF m, f, h, r, x
<1>5. Aggregated(p, "m1") \in [0 .. MaxClock -> SUBSET (0 .. MaxClock)]
  <2>1. Minute \in Nat /\ Minute > 0 /\ MaxClock \in Nat
    BY <1>1, Lengths
  <2>2. Rolled(m, r, MinutesFrom(clock), MinutesTo(clock), Minute) \in [0 .. MaxClock -> SUBSET (0 .. MaxClock)]
    BY <1>3, <1>4, <1>8, <2>1, RolledRows
  <2> QED
    BY <1>2, <2>2
<1>6. Aggregated(p, "m5") \in [0 .. MaxClock -> SUBSET (0 .. MaxClock)]
  <2>1. Five \in Nat /\ Five > 0 /\ MaxClock \in Nat
    BY <1>1, Lengths
  <2>2. Rolled(f, m, FivesFrom(clock), x, Five) \in [0 .. MaxClock -> SUBSET (0 .. MaxClock)]
    BY <1>3, <1>4, <1>8, <2>1, RolledRows
  <2> QED
    BY <1>2, <2>2
<1>7. Aggregated(p, "h1") \in [0 .. MaxClock -> SUBSET (0 .. MaxClock)]
  <2>1. Hour \in Nat /\ Hour > 0 /\ MaxClock \in Nat
    BY <1>1, Lengths
  <2>2. Rolled(h, f, HoursFrom(clock), x, Hour) \in [0 .. MaxClock -> SUBSET (0 .. MaxClock)]
    BY <1>3, <1>4, <1>8, <2>1, RolledRows
  <2> QED
    BY <1>2, <2>2
<1> QED
  BY <1>1, <1>2, <1>5, <1>6, <1>7 DEF m, r

\* A statement writes one tier of the probes it has rows for, or nothing.
LEMMA WriteRows ==
  ASSUME ResultsTypes, RollWrite
  PROVE  /\ rows' \in [Probes -> [Tier -> [Times -> SUBSET Times]]]
         /\ insert' = NoInsert /\ stmt' \in 0 .. 3 /\ gone' = gone /\ clock' = clock
         /\ \/ rows' = rows
            \/ /\ DOMAIN insert \cap gone = {} /\ Statement \in Tier /\ Statement # "raw"
               /\ \A p \in Probes :
                    /\ \A g \in Tier \ {Statement} : rows'[p][g] = rows[p][g]
                    /\ rows'[p][Statement] = IF p \in DOMAIN insert THEN insert[p] ELSE rows[p][Statement]
<1>1. /\ rows \in [Probes -> [Tier -> [Times -> SUBSET Times]]]
      /\ stmt \in 0 .. 3 /\ DOMAIN insert \subseteq Probes
      /\ \A p \in DOMAIN insert : insert[p] \in [Times -> SUBSET Times]
      /\ stmt # 3
  BY DEF ResultsTypes, RowsOK, StatementOK, RollWrite
<1>2. insert' = NoInsert /\ gone' = gone /\ clock' = clock
  BY DEF RollWrite
<1>3. Statement \in Tier /\ Statement # "raw" /\ stmt + 1 \in 0 .. 3
  BY <1>1, StatementIs
<1>4. CASE Orphans
  BY <1>1, <1>2, <1>4 DEF RollWrite
<1>5. CASE ~Orphans
  <2>1. DOMAIN insert \cap gone = {}
    BY <1>5 DEF Orphans
  <2> DEFINE g0 == Statement
  <2>2. /\ stmt' = stmt + 1
        /\ rows' = [p \in Probes |->
             IF p \in DOMAIN insert THEN [rows[p] EXCEPT ![g0] = insert[p]] ELSE rows[p]]
    BY <1>5 DEF RollWrite
  <2> HIDE DEF g0
  <2>3. g0 \in Tier
    BY <1>3 DEF g0
  <2>4. ASSUME NEW p \in Probes
        PROVE  /\ rows'[p] \in [Tier -> [Times -> SUBSET Times]]
               /\ \A g \in Tier \ {g0} : rows'[p][g] = rows[p][g]
               /\ rows'[p][g0] = IF p \in DOMAIN insert THEN insert[p] ELSE rows[p][g0]
    <3>1. rows[p] \in [Tier -> [Times -> SUBSET Times]]
      BY <1>1
    <3>2. CASE p \in DOMAIN insert
      <4>1. rows'[p] = [rows[p] EXCEPT ![g0] = insert[p]] /\ insert[p] \in [Times -> SUBSET Times]
        BY <1>1, <2>2, <3>2
      <4> QED
        BY <2>3, <3>1, <3>2, <4>1
    <3>3. CASE p \notin DOMAIN insert
      BY <2>2, <2>3, <3>1, <3>3
    <3> QED
      BY <3>2, <3>3
  <2>5. rows' \in [Probes -> [Tier -> [Times -> SUBSET Times]]]
    <3>1. \E f : rows' = [p \in Probes |-> f[p]]
      <4> DEFINE f == [p \in Probes |->
             IF p \in DOMAIN insert THEN [rows[p] EXCEPT ![g0] = insert[p]] ELSE rows[p]]
      <4>1. rows' = f /\ f = [p \in Probes |-> f[p]]
        BY <2>2
      <4> QED
        BY <4>1
    <3> QED
      BY <2>4, <3>1
  <2> QED
    BY <1>2, <1>3, <2>1, <2>2, <2>4, <2>5 DEF g0
<1> QED
  BY <1>4, <1>5

LEMMA DropRows ==
  ASSUME ResultsTypes, NEW q \in Probes, DropProbe(q)
  PROVE  /\ rows' \in [Probes -> [Tier -> [Times -> SUBSET Times]]]
         /\ rows'[q] = NoProbeRows /\ \A p \in Probes \ {q} : rows'[p] = rows[p]
<1>1. rows \in [Probes -> [Tier -> [Times -> SUBSET Times]]] /\ rows' = [rows EXCEPT ![q] = NoProbeRows]
  BY DEF ResultsTypes, RowsOK, DropProbe, Cascade
<1>2. NoProbeRows \in [Tier -> [Times -> SUBSET Times]]
  BY NoRowsAre
<1> QED
  BY <1>1, <1>2

LEMMA NextRows ==
  ASSUME ResultsTypes, [ResultsNext]_resultsVars
  PROVE  RowsOK'
<1>1. /\ rows \in [Probes -> [Tier -> [Times -> SUBSET Times]]] /\ gone \subseteq Probes
      /\ \A p \in gone : rows[p] = NoProbeRows
      /\ DOMAIN insert \subseteq Probes
  BY DEF ResultsTypes, RowsOK, ClockOK, StatementOK
<1>2. ASSUME NEW q \in Probes, DropProbe(q) PROVE RowsOK'
  <2>1. gone' = gone \cup {q}
    BY <1>2 DEF DropProbe
  <2> QED
    BY <1>1, <1>2, <2>1, DropRows DEF RowsOK
<1>3. CASE IngestResults
  <2>1. /\ rows' \in [Probes -> [Tier -> [Times -> SUBSET Times]]] /\ gone' = gone
        /\ \A p \in Probes : p \in gone => rows'[p] = rows[p]
    BY <1>3, IngestRows DEF IngestResults
  <2> QED
    BY <1>1, <2>1 DEF RowsOK
<1>4. CASE RollWrite
  <2>1. /\ rows' \in [Probes -> [Tier -> [Times -> SUBSET Times]]] /\ gone' = gone
    BY <1>4, WriteRows
  <2>2. ASSUME NEW p \in gone PROVE rows'[p] = rows[p]
    <3>1. p \in Probes /\ rows'[p] \in [Tier -> [Times -> SUBSET Times]]
                       /\ rows[p] \in [Tier -> [Times -> SUBSET Times]]
      BY <1>1, <2>1
    <3>2. rows' = rows \/ \A g \in Tier : rows'[p][g] = rows[p][g]
      BY <1>4, <3>1, WriteRows
    <3> QED
      BY <3>1, <3>2
  <2> QED
    BY <1>1, <2>1, <2>2 DEF RowsOK
<1>5. CASE PruneResults
  <2>1. /\ rows' \in [Probes -> [Tier -> [Times -> SUBSET Times]]] /\ gone' = gone
    BY <1>5, PruneRows DEF PruneResults
  <2>2. ASSUME NEW p \in gone PROVE rows'[p] = NoProbeRows
    <3>1. p \in Probes /\ rows'[p] \in [Tier -> [Times -> SUBSET Times]]
          /\ NoProbeRows \in [Tier -> [Times -> SUBSET Times]]
      BY <1>1, <2>1, NoRowsAre
    <3>2. ASSUME NEW g \in Tier, NEW t \in Times PROVE rows'[p][g][t] = NoProbeRows[g][t]
      <4>1. rows[p][g][t] = {} /\ NoProbeRows[g][t] = {}
        BY <1>1, NoRowsAre
      <4> QED
        BY <1>5, <3>1, <4>1, PruneRows
    <3>3. ASSUME NEW g \in Tier PROVE rows'[p][g] = NoProbeRows[g]
      BY <3>1, <3>2
    <3> QED
      BY <3>1, <3>3
  <2> QED
    BY <2>1, <2>2 DEF RowsOK
<1>6. CASE UNCHANGED <<rows, gone>>
  BY <1>1, <1>6 DEF RowsOK
<1> QED
  BY <1>2, <1>3, <1>4, <1>5, <1>6 DEF ResultsNext, resultsVars, Elapse, StartProbe, FinishProbe,
     FlushProbes, NewStream, InsertFails, RollRead, PanelEnds

LEMMA ReadInsert ==
  ASSUME ResultsTypes, RollRead
  PROVE  /\ stmt # 3 /\ Statement \in {"m1", "m5", "h1"} /\ stmt' \in 0 .. 3
         /\ \/ insert' = insert /\ insert = NoInsert
            \/ /\ stmt' = stmt /\ DOMAIN insert' \subseteq Probes
               /\ \A p \in DOMAIN insert' : insert'[p] = Aggregated(p, Statement)
<1>1. stmt \in 0 .. 3 /\ Statement # "prune" /\ insert = NoInsert
  BY DEF ResultsTypes, StatementOK, RollRead
<1>2. stmt # 3 /\ stmt + 1 \in 0 .. 3 /\ Statement \in {"m1", "m5", "h1"}
  BY <1>1, StatementIs
<1> DEFINE read == {p \in Probes : InWindow(p, Plan[Statement])}
<1>3. \/ stmt' = stmt + 1 /\ insert' = insert
      \/ insert' = [p \in read |-> Aggregated(p, Statement)] /\ stmt' = stmt
  BY DEF RollRead
<1>4. read \subseteq Probes
  OBVIOUS
<1> HIDE DEF read
<1> QED
  BY <1>1, <1>2, <1>3, <1>4

LEMMA NextStatement ==
  ASSUME ResultsTypes, [ResultsNext]_resultsVars
  PROVE  StatementOK'
<1>1. /\ stmt \in 0 .. 3 /\ DOMAIN insert \subseteq Probes
      /\ \A p \in DOMAIN insert : insert[p] \in [Times -> SUBSET Times]
      /\ insert # NoInsert => stmt # 3
  BY DEF ResultsTypes, StatementOK
<1>2. DOMAIN NoInsert = {}
  BY DEF NoInsert
<1>3. CASE RollRead
  <2>1. \/ insert' = insert /\ insert = NoInsert
        \/ /\ stmt' = stmt /\ DOMAIN insert' \subseteq Probes
           /\ \A p \in DOMAIN insert' : insert'[p] = Aggregated(p, Statement)
    BY <1>3, ReadInsert
  <2>2. stmt # 3 /\ Statement \in {"m1", "m5", "h1"} /\ stmt' \in 0 .. 3
    BY <1>3, ReadInsert
  <2>3. \A p \in Probes : Aggregated(p, Statement) \in [Times -> SUBSET Times]
    BY <2>2, AggregatedRows
  <2> QED
    BY <1>1, <1>2, <2>1, <2>2, <2>3 DEF StatementOK
<1>4. CASE RollWrite
  <2>1. insert' = NoInsert /\ stmt' \in 0 .. 3
    BY <1>4, WriteRows
  <2> QED
    BY <1>2, <2>1 DEF StatementOK
<1>5. CASE PruneResults \/ PanelEnds
  <2>1. stmt' = 0 /\ (insert' = insert \/ insert' = NoInsert)
    BY <1>5 DEF PruneResults, PanelEnds
  <2> QED
    BY <1>1, <1>2, <2>1 DEF StatementOK
<1>6. CASE UNCHANGED inTask
  BY <1>1, <1>6 DEF StatementOK, inTask
<1> QED
  BY <1>3, <1>4, <1>5, <1>6 DEF ResultsNext, resultsVars, Elapse, StartProbe, FinishProbe, DropProbe,
     FlushProbes, NewStream, IngestResults, InsertFails

LEMMA NextResultsTypes == ResultsTypes /\ [ResultsNext]_resultsVars => ResultsTypes'
<1> SUFFICES ASSUME ResultsTypes, [ResultsNext]_resultsVars PROVE ResultsTypes'
  OBVIOUS
<1> QED
  BY NextClock, NextRunning, NextQueues, NextRows, NextStatement, NextHistories DEF ResultsTypes

\* Every variable keeps its type and every bound, and no row outlives its probe: the
\* foreign key refuses whatever a statement has read before the deletion.
THEOREM ResultsTypeCorrect == ResultsSpec => []ResultsTypeOK
<1>1. ResultsInit => ResultsTypes
  BY InitResultsTypes
<1>2. ResultsTypes /\ [ResultsNext]_resultsVars => ResultsTypes'
  BY NextResultsTypes
<1> QED
  BY <1>1, <1>2, ResultsTypesOK, PTL DEF ResultsSpec

----------------------------------------------------------------------------
(* Results: what the channel has taken is stored.                          *)

LEMMA NextReported ==
  ASSUME ResultsTypes, ReportedIsStored, [ResultsNext]_resultsVars
  PROVE  ReportedIsStored'
<1> DEFINE Held(r)   == r \in ToSet(queue) \cup UNION ToSet(batches)
           Kept(r)   == rows[r[1]]["raw"][r[2]] = {r[2]}
           Over(r)   == r[1] \in gone \/ r[2] < clock - KeepResults["raw"]
<1>1. /\ \A r \in Result : r[1] \in Probes /\ r[2] \in Times /\ r = <<r[1], r[2]>>
      /\ reported \subseteq Result /\ reported' \subseteq Result
      /\ queue \in Seq(Result) /\ batches \in Seq(SUBSET Result) /\ ToSet(<<>>) = {}
      /\ clock \in Nat /\ Times \subseteq Nat /\ KeepResults["raw"] \in Nat
  <2>1. reported' \subseteq Result
    BY NextHistories DEF HistoriesOK
  <2> QED
    BY <2>1, ResultsBounds DEF ResultsTypes, ClockOK, QueuesOK, HistoriesOK, Result, Tier, ToSet
<1>2. \A r \in reported \ unstored : Held(r) \/ Kept(r) \/ Over(r)
  BY DEF ReportedIsStored
<1>3. ASSUME \A r \in reported' \ unstored' : Held(r)' \/ Kept(r)' \/ Over(r)'
      PROVE  ReportedIsStored'
  BY <1>3 DEF ReportedIsStored
<1>4. ASSUME NEW p \in Probes, FinishProbe(p) PROVE ReportedIsStored'
  <2>1. /\ queue' = Reported(<<p, clock>>) /\ reported' = reported \cup ToSet(queue')
        /\ UNCHANGED <<clock, gone, batches, rows, unstored>>
    BY <1>4 DEF FinishProbe
  <2>2. ToSet(queue) \subseteq ToSet(queue')
    BY <1>1, <2>1, AppendSet DEF Reported
  <2> QED
    BY <1>2, <1>3, <2>1, <2>2
<1>5. CASE FlushProbes
  <2>1. /\ batches' = Append(batches, ToSet(Taken)) /\ queue' = Left
        /\ UNCHANGED <<clock, gone, rows, reported, unstored>>
    BY <1>5 DEF FlushProbes, resultsHist
  <2>2. /\ ToSet(batches') = ToSet(batches) \cup {ToSet(Taken)}
        /\ ToSet(queue) = ToSet(Taken) \cup ToSet(queue')
    BY <1>1, <2>1, AppendSet, TakenAre
  <2> QED
    BY <1>2, <1>3, <2>1, <2>2
<1>6. CASE NewStream
  <2>1. /\ unstored' = unstored \cup ((ToSet(queue) \cup UNION ToSet(batches)) \ UNION ToSet(batches'))
        /\ UNCHANGED <<clock, gone, rows, reported>>
    BY <1>6, StreamBatches DEF NewStream
  <2> QED
    BY <1>2, <1>3, <2>1
<1>7. CASE IngestResults
  <2>1. /\ batches # <<>> /\ batches' = Tail(batches)
        /\ UNCHANGED <<clock, gone, queue, reported>>
    BY <1>7 DEF IngestResults, onAgent
  <2>2. ToSet(batches) = {Head(batches)} \cup ToSet(batches')
    BY <1>1, <2>1, TailSet
  <2>3. \A r \in Result :
          \/ r \in Head(batches) /\ (Kept(r)' \/ r \in unstored')
          \/ r \notin Head(batches) /\ (Kept(r) => Kept(r)')
    <3> SUFFICES ASSUME NEW r \in Result
                 PROVE  \/ r \in Head(batches) /\ (Kept(r)' \/ r \in unstored')
                        \/ r \notin Head(batches) /\ (Kept(r) => Kept(r)')
      OBVIOUS
    <3> PICK p \in Probes, t \in Times : r = <<p, t>> /\ p = r[1] /\ t = r[2]
      BY <1>1
    <3>1. rows'[p] = rows[p]
            \/ rows'[p]["raw"][t] = IF <<p, t>> \in Head(batches) THEN {t} ELSE rows[p]["raw"][t]
      BY <1>7, IngestRows
    <3>2. <<p, t>> \in Head(batches) => rows'[p]["raw"][t] = {t} \/ <<p, t>> \in unstored'
      BY <1>7, IngestRows
    <3> QED
      BY <3>1, <3>2
  <2>4. \A r \in Result : Kept(r) => Kept(r)' \/ r \in unstored'
    BY <2>3
  <2>5. unstored \subseteq unstored'
    BY <1>7 DEF IngestResults
  <2> HIDE DEF Kept
  <2> QED
    BY <1>1, <1>2, <1>3, <2>1, <2>2, <2>3, <2>4, <2>5
<1>8. CASE InsertFails
  <2>1. /\ batches # <<>> /\ batches' = Tail(batches) /\ unstored' = unstored \cup Head(batches)
        /\ UNCHANGED <<clock, gone, queue, rows, reported>>
    BY <1>8 DEF InsertFails, onAgent
  <2>2. ToSet(batches) = {Head(batches)} \cup ToSet(batches')
    BY <1>1, <2>1, TailSet
  <2> QED
    BY <1>2, <1>3, <2>1, <2>2
<1>9. ASSUME NEW q \in Probes, DropProbe(q) PROVE ReportedIsStored'
  <2>1. /\ gone' = gone \cup {q} /\ UNCHANGED <<clock, queue, batches, reported, unstored>>
    BY <1>9 DEF DropProbe, onAgent, resultsHist
  <2>2. \A p \in Probes \ {q} : rows'[p] = rows[p]
    BY <1>9, DropRows
  <2>3. \A r \in Result : Kept(r) => Kept(r)' \/ Over(r)'
    BY <1>1, <2>1, <2>2
  <2>4. \A r \in Result : /\ Held(r) => Held(r)'
                          /\ Over(r) => Over(r)'
    BY <2>1
  <2> HIDE DEF Kept, Held, Over
  <2> QED
    BY <1>1, <1>2, <1>3, <2>1, <2>3, <2>4
<1>10. CASE RollWrite
  <2>1. UNCHANGED <<clock, gone, queue, batches, reported, unstored>>
    BY <1>10 DEF RollWrite, onAgent, resultsHist
  <2>2. \A p \in Probes : rows'[p]["raw"] = rows[p]["raw"]
    BY <1>10, WriteRows DEF Tier
  <2>3. \A r \in Result : Kept(r) => Kept(r)'
    BY <1>1, <2>2
  <2>4. \A r \in Result : /\ Held(r) => Held(r)'
                          /\ Over(r) => Over(r)'
    BY <2>1
  <2> HIDE DEF Kept, Held, Over
  <2> QED
    BY <1>1, <1>2, <1>3, <2>1, <2>3, <2>4
<1>11. CASE PruneResults
  <2>1. UNCHANGED <<clock, gone, queue, batches, reported, unstored>>
    BY <1>11 DEF PruneResults, onAgent, resultsHist
  <2>2. \A p \in Probes, t \in Times :
          rows'[p]["raw"][t] = rows[p]["raw"][t] \/ t < clock - KeepResults["raw"]
    BY <1>11, PruneRows DEF Tier
  <2>3. \A r \in Result : Kept(r) => Kept(r)' \/ Over(r)'
    BY <1>1, <2>1, <2>2
  <2>4. \A r \in Result : /\ Held(r) => Held(r)'
                          /\ Over(r) => Over(r)'
    BY <2>1
  <2> HIDE DEF Kept, Held, Over
  <2> QED
    BY <1>1, <1>2, <1>3, <2>1, <2>3, <2>4
<1>12. CASE PanelEnds
  <2>1. /\ unstored' = unstored \cup ToSet(queue) \cup UNION ToSet(batches)
        /\ UNCHANGED <<clock, gone, rows, reported>>
    BY <1>12 DEF PanelEnds
  <2> QED
    BY <1>2, <1>3, <2>1
<1>13. CASE Elapse
  <2>1. clock' = clock + 1 /\ UNCHANGED <<gone, queue, batches, rows, reported, unstored>>
    BY <1>13 DEF Elapse, onAgent, resultsHist
  <2>2. \A r \in Result : Over(r) => Over(r)'
    BY <1>1, <2>1
  <2>3. \A r \in Result : /\ Held(r) => Held(r)'
                          /\ Kept(r) => Kept(r)'
    BY <2>1
  <2> HIDE DEF Kept, Held, Over
  <2> QED
    BY <1>1, <1>2, <1>3, <2>1, <2>2, <2>3
<1>14. CASE UNCHANGED <<clock, gone, queue, batches, rows, reported, unstored>>
  BY <1>2, <1>3, <1>14
<1> QED
  BY <1>4, <1>5, <1>6, <1>7, <1>8, <1>9, <1>10, <1>11, <1>12, <1>13, <1>14
  DEF ResultsNext, resultsVars, StartProbe, RollRead, onAgent, resultsHist

\* A result the channel has taken is on its way, stored, pruned, deleted with its
\* probe, or counted as lost to a break or to a batch that failed.
THEOREM ReportedStored == ResultsSpec => []ReportedIsStored
<1>1. ResultsInit => ResultsTypes /\ ReportedIsStored
  BY InitResultsTypes DEF ResultsInit, ReportedIsStored
<1>2. ResultsTypes /\ ReportedIsStored /\ [ResultsNext]_resultsVars
        => ResultsTypes' /\ ReportedIsStored'
  BY NextResultsTypes, NextReported
<1> QED
  BY <1>1, <1>2, PTL DEF ResultsSpec

----------------------------------------------------------------------------
(* Results: the minutes.                                                   *)

\* The rows of every probe are what their samples make them, and what the statement
\* for the minutes has read takes nothing back from the rows it will replace.
Lasting == clock - KeepResults["raw"]
RowsRooted ==
  \A p \in Probes : OwnTimes(rows[p]["raw"]) /\ Rooted(rows[p]["raw"], rows[p]["m1"], Lasting)
WritesMore ==
  stmt = 0 => \A p \in DOMAIN insert \ gone :
    /\ Rooted(rows[p]["raw"], insert[p], Lasting)
    /\ \A b \in Times : rows[p]["m1"][b] \subseteq insert[p][b]
ResultMinutes == RowsRooted /\ WritesMore

ResultMinutesGrow ==
  \A p \in Probes \ gone' :
    OnlyGrows(rows[p]["m1"], rows'[p]["m1"], clock - KeepResults["m1"])

\* Raw rows that come, come again, or are deleted once they are old, and minutes
\* that are left alone or deleted, stay what they are.
LEMMA StillRooted ==
  ASSUME NEW N \in Nat,
         NEW raw \in [0 .. N -> SUBSET (0 .. N)], NEW next \in [0 .. N -> SUBSET (0 .. N)],
         NEW m1 \in [0 .. N -> SUBSET (0 .. N)], NEW after \in [0 .. N -> SUBSET (0 .. N)],
         NEW oldest \in Int, NEW later \in Int, oldest <= later,
         \A t \in 0 .. N : next[t] = raw[t] \/ next[t] = {t} \/ (t < later /\ next[t] = {}),
         \A b \in 0 .. N : after[b] \subseteq m1[b]
  PROVE  /\ OwnTimes(raw) => OwnTimes(next)
         /\ Rooted(raw, m1, oldest) => Rooted(next, after, later)
<1>1. OwnTimes(raw) => OwnTimes(next)
  BY DEF OwnTimes
<1>2. ASSUME Rooted(raw, m1, oldest), NEW b \in 0 .. N, NEW s \in after[b]
      PROVE  Bucket(s, Minute) = b /\ (s < later \/ next[s] = {s})
  <2>1. s \in 0 .. N /\ s \in m1[b]
    OBVIOUS
  <2>2. Bucket(s, Minute) = b /\ (s < oldest \/ raw[s] = {s})
    BY <1>2, <2>1 DEF Rooted
  <2>3. s < oldest => s < later
    BY <2>1
  <2> QED
    BY <2>1, <2>2, <2>3
<1> QED
  BY <1>1, <1>2 DEF Rooted

LEMMA SeriesAre ==
  ASSUME ResultsTypes
  PROVE  /\ Times = 0 .. MaxClock /\ MaxClock \in Nat /\ clock \in Nat
         /\ Lasting \in Int /\ Lasting <= clock - RawWindow - Minute
         /\ \A p \in Probes : /\ rows[p]["raw"] \in [0 .. MaxClock -> SUBSET (0 .. MaxClock)]
                              /\ rows[p]["m1"] \in [0 .. MaxClock -> SUBSET (0 .. MaxClock)]
         /\ \A p \in DOMAIN insert : /\ p \in Probes
                                     /\ insert[p] \in [0 .. MaxClock -> SUBSET (0 .. MaxClock)]
<1>1. /\ rows \in [Probes -> [Tier -> [Times -> SUBSET Times]]] /\ clock \in Times
      /\ DOMAIN insert \subseteq Probes
      /\ \A p \in DOMAIN insert : insert[p] \in [Times -> SUBSET Times]
  BY DEF ResultsTypes, RowsOK, ClockOK, StatementOK
<1>2. Times = 0 .. MaxClock /\ MaxClock \in Nat
  BY ResultsBounds
<1>3. Lasting \in Int /\ Lasting <= clock - RawWindow - Minute
  <2>1. /\ KeepResults["raw"] \in Nat /\ KeepResults["raw"] >= RawWindow + Minute
    BY ResultsBounds DEF Tier
  <2> QED
    BY <1>1, <1>2, <2>1, Lengths DEF Lasting
<1> QED
  BY <1>1, <1>2, <1>3 DEF Tier

LEMMA InitResultMinutes == ResultsInit => ResultMinutes
<1> SUFFICES ASSUME ResultsInit PROVE ResultMinutes
  OBVIOUS
<1>1. \A p \in Probes : rows[p] = NoProbeRows
  BY DEF ResultsInit
<1>2. /\ NoProbeRows["raw"] \in [Times -> SUBSET Times] /\ NoProbeRows["m1"] \in [Times -> SUBSET Times]
      /\ \A t \in Times : NoProbeRows["raw"][t] = {} /\ NoProbeRows["m1"][t] = {}
  BY NoRowsAre DEF Tier
<1>3. RowsRooted
  BY <1>1, <1>2 DEF RowsRooted, OwnTimes, Rooted
<1>4. WritesMore
  BY DEF ResultsInit, WritesMore, NoInsert
<1> QED
  BY <1>3, <1>4 DEF ResultMinutes

\* Steps that read or write nothing of the minutes: what is inserted, if anything is,
\* was there before, and no probe comes back.
LEMMA QuietResults ==
  ASSUME ResultsTypes, ResultMinutes, ResultsTypes', clock <= clock', gone \subseteq gone',
         \A p \in Probes \ gone' :
           /\ rows'[p]["m1"] = rows[p]["m1"]
           /\ \A t \in Times : \/ rows'[p]["raw"][t] = rows[p]["raw"][t]
                               \/ rows'[p]["raw"][t] = {t},
         insert' # insert => insert' = NoInsert,
         insert' = insert => stmt' = stmt \/ insert = NoInsert
  PROVE  ResultMinutes' /\ ResultMinutesGrow
<1>1. /\ Times = 0 .. MaxClock /\ MaxClock \in Nat /\ Lasting \in Int
      /\ \A p \in Probes : /\ rows[p]["raw"] \in [0 .. MaxClock -> SUBSET (0 .. MaxClock)]
                           /\ rows[p]["m1"] \in [0 .. MaxClock -> SUBSET (0 .. MaxClock)]
      /\ \A p \in DOMAIN insert : /\ p \in Probes
                                  /\ insert[p] \in [0 .. MaxClock -> SUBSET (0 .. MaxClock)]
  BY SeriesAre
<1>2. \A p \in Probes : /\ rows'[p]["raw"] \in [0 .. MaxClock -> SUBSET (0 .. MaxClock)]
                        /\ rows'[p]["m1"] \in [0 .. MaxClock -> SUBSET (0 .. MaxClock)]
  <2>1. rows' \in [Probes -> [Tier -> [Times -> SUBSET Times]]]
    BY DEF ResultsTypes, RowsOK
  <2>2. "raw" \in Tier /\ "m1" \in Tier
    BY DEF Tier
  <2> QED
    BY <1>1, <2>1, <2>2
<1>3. Lasting' \in Int /\ Lasting <= Lasting'
  <2>1. clock \in Nat /\ clock' \in Nat /\ KeepResults["raw"] \in Nat
    BY ResultsBounds DEF ResultsTypes, ClockOK, Tier
  <2> QED
    BY <2>1 DEF Lasting
<1>4. ASSUME NEW p \in Probes \ gone', NEW m1 \in [0 .. MaxClock -> SUBSET (0 .. MaxClock)],
             Rooted(rows[p]["raw"], m1, Lasting)
      PROVE  Rooted(rows'[p]["raw"], m1, Lasting')
  <2> DEFINE raw  == rows[p]["raw"]
             next == rows'[p]["raw"]
             old  == Lasting
             new  == Lasting'
  <2>1. /\ raw \in [0 .. MaxClock -> SUBSET (0 .. MaxClock)]
        /\ next \in [0 .. MaxClock -> SUBSET (0 .. MaxClock)]
        /\ old \in Int /\ new \in Int /\ old <= new /\ MaxClock \in Nat
        /\ \A t \in 0 .. MaxClock : next[t] = raw[t] \/ next[t] = {t}
        /\ Rooted(raw, m1, old)
    BY <1>1, <1>2, <1>3, <1>4
  <2> HIDE DEF raw, next, old, new
  <2>2. Rooted(next, m1, new)
    BY <2>1, StillRooted
  <2> QED
    BY <2>2 DEF next, new
<1>5. ASSUME NEW p \in Probes, p \notin gone'
      PROVE  OwnTimes(rows'[p]["raw"]) /\ Rooted(rows'[p]["raw"], rows'[p]["m1"], Lasting')
  <2>1. OwnTimes(rows[p]["raw"]) /\ Rooted(rows[p]["raw"], rows[p]["m1"], Lasting)
    BY DEF ResultMinutes, RowsRooted
  <2>2. OwnTimes(rows'[p]["raw"])
    BY <1>1, <1>2, <1>5, <2>1 DEF OwnTimes
  <2> QED
    BY <1>1, <1>4, <1>5, <2>1, <2>2
<1>6. ASSUME NEW p \in Probes, p \in gone'
      PROVE  OwnTimes(rows'[p]["raw"]) /\ Rooted(rows'[p]["raw"], rows'[p]["m1"], Lasting')
  <2>1. rows'[p] = NoProbeRows
    BY <1>6 DEF ResultsTypes, RowsOK
  <2> QED
    BY <1>1, <2>1, NoRowsAre DEF OwnTimes, Rooted, Tier
<1>7. WritesMore'
  <2>1. CASE insert' = NoInsert
    BY <2>1 DEF WritesMore, NoInsert
  <2>2. CASE insert' = insert /\ stmt' = stmt
    <3> SUFFICES ASSUME stmt = 0, NEW p \in DOMAIN insert \ gone'
                 PROVE  /\ Rooted(rows'[p]["raw"], insert[p], Lasting')
                        /\ \A b \in Times : rows'[p]["m1"][b] \subseteq insert[p][b]
      BY <2>2 DEF WritesMore
    <3>1. /\ Rooted(rows[p]["raw"], insert[p], Lasting)
          /\ \A b \in Times : rows[p]["m1"][b] \subseteq insert[p][b]
      BY DEF ResultMinutes, WritesMore
    <3> QED
      BY <1>1, <1>4, <3>1
  <2> QED
    BY <2>1, <2>2
<1>8. RowsRooted'
  BY <1>5, <1>6 DEF RowsRooted
<1>9. ResultMinutesGrow
  BY DEF ResultMinutesGrow, OnlyGrows
<1> QED
  BY <1>7, <1>8, <1>9 DEF ResultMinutes

\* What the statement for the minutes reads.
LEMMA ReadMinutes ==
  ASSUME ResultsTypes, ResultMinutes, ResultsTypes', RollRead
  PROVE  ResultMinutes' /\ ResultMinutesGrow
<1>1. UNCHANGED <<clock, gone, rows>>
  BY DEF RollRead
<1>2. CASE insert' = insert /\ insert = NoInsert
  <2>1. clock \in Nat /\ rows \in [Probes -> [Tier -> [Times -> SUBSET Times]]]
    BY SeriesAre DEF ResultsTypes, RowsOK
  <2>2. clock <= clock'
    BY <1>1, <2>1
  <2> QED
    BY <1>1, <1>2, <2>2, QuietResults
<1>3. CASE /\ stmt' = stmt /\ DOMAIN insert' \subseteq Probes
           /\ \A p \in DOMAIN insert' : insert'[p] = Aggregated(p, Statement)
  <2>1. RowsRooted'
    BY <1>1 DEF ResultMinutes, RowsRooted, Lasting
  <2>2. ResultMinutesGrow
    BY <1>1 DEF ResultMinutesGrow, OnlyGrows
  <2>3. ASSUME stmt = 0, NEW p \in DOMAIN insert'
        PROVE  /\ Rooted(rows[p]["raw"], insert'[p], Lasting)
               /\ \A b \in Times : rows[p]["m1"][b] \subseteq insert'[p][b]
    <3>1. p \in Probes /\ Statement = "m1"
      BY <1>3, <2>3, StatementIs
    <3> DEFINE raw  == rows[p]["raw"]
               m1   == rows[p]["m1"]
               next == insert'[p]
               old  == Lasting
    <3>2. next = Rolled(m1, raw, MinutesFrom(clock), MinutesTo(clock), Minute)
      BY <1>3, <3>1, AggregatedRows
    <3>3. /\ Times = 0 .. MaxClock /\ MaxClock \in Nat /\ clock \in Nat /\ old \in Int
          /\ old <= clock - RawWindow - Minute
          /\ raw \in [0 .. MaxClock -> SUBSET (0 .. MaxClock)]
          /\ m1 \in [0 .. MaxClock -> SUBSET (0 .. MaxClock)]
      BY <3>1, SeriesAre
    <3>4. OwnTimes(raw) /\ Rooted(raw, m1, old)
      BY <3>1 DEF ResultMinutes, RowsRooted
    <3> HIDE DEF raw, m1, next, old
    <3>5. Rooted(raw, next, old)
      BY <3>2, <3>3, <3>4, Lengths, MinutesRoll
    <3>6. \A b \in 0 .. MaxClock : m1[b] \subseteq next[b]
      BY <3>2, <3>3, <3>4, Lengths, MinutesRoll
    <3> QED
      BY <3>3, <3>5, <3>6 DEF raw, m1, next, old
  <2>4. WritesMore'
    BY <1>1, <1>3, <2>3 DEF WritesMore, Lasting
  <2> QED
    BY <2>1, <2>2, <2>4 DEF ResultMinutes
<1> QED
  BY <1>2, <1>3, ReadInsert

\* What it writes.
LEMMA WriteMinutes ==
  ASSUME ResultsTypes, ResultMinutes, ResultsTypes', RollWrite
  PROVE  ResultMinutes' /\ ResultMinutesGrow
<1>1. insert' = NoInsert /\ gone' = gone /\ clock' = clock
  BY WriteRows
<1>2. WritesMore'
  BY <1>1 DEF WritesMore, NoInsert
<1>3. CASE rows' = rows
  <2>1. RowsRooted'
    BY <1>1, <1>3 DEF ResultMinutes, RowsRooted, Lasting
  <2>2. ResultMinutesGrow
    BY <1>3 DEF ResultMinutesGrow, OnlyGrows
  <2> QED
    BY <1>2, <2>1, <2>2 DEF ResultMinutes
<1>4. CASE /\ DOMAIN insert \cap gone = {} /\ Statement \in Tier /\ Statement # "raw"
           /\ \A p \in Probes :
                /\ \A g \in Tier \ {Statement} : rows'[p][g] = rows[p][g]
                /\ rows'[p][Statement] = IF p \in DOMAIN insert THEN insert[p] ELSE rows[p][Statement]
  <2>1. stmt \in 0 .. 3 /\ (Statement = "m1" => stmt = 0)
    BY StatementIs DEF ResultsTypes, StatementOK
  <2>2. ASSUME NEW p \in Probes
        PROVE  /\ rows'[p]["raw"] = rows[p]["raw"]
               /\ \/ rows'[p]["m1"] = rows[p]["m1"]
                  \/ stmt = 0 /\ p \in DOMAIN insert \ gone /\ rows'[p]["m1"] = insert[p]
    BY <1>4, <2>1 DEF Tier
  <2>3. ASSUME NEW p \in Probes
        PROVE  /\ OwnTimes(rows[p]["raw"]) /\ Rooted(rows[p]["raw"], rows'[p]["m1"], Lasting)
               /\ \A b \in Times : rows[p]["m1"][b] \subseteq rows'[p]["m1"][b]
    BY <2>2 DEF ResultMinutes, RowsRooted, WritesMore
  <2>4. RowsRooted'
    BY <1>1, <2>2, <2>3 DEF RowsRooted, Lasting
  <2>5. ResultMinutesGrow
    BY <2>3, SeriesAre DEF ResultMinutesGrow, OnlyGrows
  <2> QED
    BY <1>2, <2>4, <2>5 DEF ResultMinutes
<1> QED
  BY <1>3, <1>4, WriteRows

LEMMA PruneResultMinutes ==
  ASSUME ResultsTypes, ResultMinutes, ResultsTypes', PruneResults
  PROVE  ResultMinutes' /\ ResultMinutesGrow
<1>1. /\ Times = 0 .. MaxClock /\ MaxClock \in Nat /\ clock \in Nat /\ Lasting \in Int
      /\ \A p \in Probes : /\ rows[p]["raw"] \in [0 .. MaxClock -> SUBSET (0 .. MaxClock)]
                           /\ rows[p]["m1"] \in [0 .. MaxClock -> SUBSET (0 .. MaxClock)]
  BY SeriesAre
<1>2. \A p \in Probes : /\ rows'[p]["raw"] \in [0 .. MaxClock -> SUBSET (0 .. MaxClock)]
                        /\ rows'[p]["m1"] \in [0 .. MaxClock -> SUBSET (0 .. MaxClock)]
  <2>1. rows' \in [Probes -> [Tier -> [Times -> SUBSET Times]]]
    BY DEF ResultsTypes, RowsOK
  <2>2. "raw" \in Tier /\ "m1" \in Tier
    BY DEF Tier
  <2> QED
    BY <1>1, <2>1, <2>2
<1>3. UNCHANGED <<clock, gone, insert>>
  BY DEF PruneResults
<1>4. insert = NoInsert
  <2>1. stmt = 3
    BY StatementIs DEF ResultsTypes, StatementOK, PruneResults
  <2> QED
    BY <2>1 DEF ResultsTypes, StatementOK
<1>5. WritesMore'
  BY <1>3, <1>4 DEF WritesMore, NoInsert
<1>6. ASSUME NEW p \in Probes, NEW t \in 0 .. MaxClock
      PROVE  /\ rows'[p]["raw"][t] = IF t < Lasting THEN {} ELSE rows[p]["raw"][t]
             /\ rows'[p]["m1"][t] = IF t < clock - KeepResults["m1"] THEN {} ELSE rows[p]["m1"][t]
  BY <1>1, PruneRows DEF Lasting, Tier
<1>7. ASSUME NEW p \in Probes
      PROVE  OwnTimes(rows'[p]["raw"]) /\ Rooted(rows'[p]["raw"], rows'[p]["m1"], Lasting)
  <2> DEFINE raw   == rows[p]["raw"]
             next  == rows'[p]["raw"]
             m1    == rows[p]["m1"]
             after == rows'[p]["m1"]
             old   == Lasting
  <2>1. /\ raw \in [0 .. MaxClock -> SUBSET (0 .. MaxClock)]
        /\ next \in [0 .. MaxClock -> SUBSET (0 .. MaxClock)]
        /\ m1 \in [0 .. MaxClock -> SUBSET (0 .. MaxClock)]
        /\ after \in [0 .. MaxClock -> SUBSET (0 .. MaxClock)]
        /\ old \in Int /\ old <= old /\ MaxClock \in Nat
    BY <1>1, <1>2
  <2>2. /\ \A t \in 0 .. MaxClock : next[t] = raw[t] \/ (t < old /\ next[t] = {})
        /\ \A b \in 0 .. MaxClock : after[b] \subseteq m1[b]
    BY <1>6
  <2>3. OwnTimes(raw) /\ Rooted(raw, m1, old)
    BY DEF ResultMinutes, RowsRooted
  <2> HIDE DEF raw, next, m1, after, old
  <2>4. OwnTimes(next) /\ Rooted(next, after, old)
    BY <2>1, <2>2, <2>3, StillRooted
  <2> QED
    BY <2>4 DEF next, after, old
<1>8. RowsRooted'
  BY <1>3, <1>7 DEF RowsRooted, Lasting
<1>9. ResultMinutesGrow
  <2>1. KeepResults["m1"] \in Nat
    BY ResultsBounds DEF Tier
  <2>2. ASSUME NEW p \in Probes, NEW b \in 0 .. MaxClock, b >= clock - KeepResults["m1"]
        PROVE  rows'[p]["m1"][b] = rows[p]["m1"][b]
    <3>1. ~(b < clock - KeepResults["m1"])
      BY <1>1, <2>1, <2>2
    <3> QED
      BY <1>6, <3>1
  <2> QED
    BY <1>1, <2>2 DEF ResultMinutesGrow, OnlyGrows
<1> QED
  BY <1>5, <1>8, <1>9 DEF ResultMinutes

LEMMA NextResultMinutes ==
  ASSUME ResultsTypes, ResultMinutes, [ResultsNext]_resultsVars
  PROVE  ResultMinutes' /\ ResultMinutesGrow
<1>1. ResultsTypes'
  BY NextResultsTypes
<1>2. clock \in Nat /\ rows \in [Probes -> [Tier -> [Times -> SUBSET Times]]]
  BY ResultsBounds DEF ResultsTypes, ClockOK, RowsOK
<1>3. CASE Elapse
  <2>1. clock' = clock + 1 /\ UNCHANGED <<gone, rows, stmt, insert>>
    BY <1>3 DEF Elapse, inTask
  <2> QED
    BY <1>1, <1>2, <2>1, QuietResults
<1>4. CASE IngestResults
  <2>1. UNCHANGED <<clock, gone, stmt, insert>>
    BY <1>4 DEF IngestResults, inTask
  <2>2. ASSUME NEW p \in Probes
        PROVE  /\ rows'[p]["m1"] = rows[p]["m1"]
               /\ \A t \in Times : \/ rows'[p]["raw"][t] = rows[p]["raw"][t]
                                   \/ rows'[p]["raw"][t] = {t}
    BY <1>4, IngestRows
  <2> QED
    BY <1>1, <1>2, <2>1, <2>2, QuietResults
<1>5. ASSUME NEW q \in Probes, DropProbe(q) PROVE ResultMinutes' /\ ResultMinutesGrow
  <2>1. gone' = gone \cup {q} /\ UNCHANGED <<clock, stmt, insert>>
    BY <1>5 DEF DropProbe, inTask
  <2>2. \A p \in Probes \ gone' : rows'[p] = rows[p]
    BY <1>5, <2>1, DropRows
  <2> QED
    BY <1>1, <1>2, <2>1, <2>2, QuietResults
<1>6. CASE PanelEnds
  <2>1. insert' = NoInsert /\ UNCHANGED <<clock, gone, rows>>
    BY <1>6 DEF PanelEnds
  <2>2. insert' = insert => insert = NoInsert
    BY <2>1
  <2> QED
    BY <1>1, <1>2, <2>1, <2>2, QuietResults
<1>7. CASE UNCHANGED <<clock, gone, rows, stmt, insert>>
  BY <1>1, <1>2, <1>7, QuietResults
<1>8. CASE RollRead
  BY <1>1, <1>8, ReadMinutes
<1>9. CASE RollWrite
  BY <1>1, <1>9, WriteMinutes
<1>10. CASE PruneResults
  BY <1>1, <1>10, PruneResultMinutes
<1> QED
  BY <1>3, <1>4, <1>5, <1>6, <1>7, <1>8, <1>9, <1>10 DEF ResultsNext, resultsVars, StartProbe,
     FinishProbe, FlushProbes, NewStream, InsertFails, inTask

\* No statement takes a result from the row of a minute that is kept, although it
\* writes what it read before batches were stored and probes deleted.
THEOREM ResultMinutesKept == ResultsSpec => ResultMinutesOnlyGrow
<1>1. ResultsInit => ResultsTypes /\ ResultMinutes
  BY InitResultsTypes, InitResultMinutes
<1>2. ResultsTypes /\ ResultMinutes /\ [ResultsNext]_resultsVars => ResultsTypes' /\ ResultMinutes'
  BY NextResultsTypes, NextResultMinutes
<1>3. ResultsTypes /\ ResultMinutes /\ [ResultsNext]_resultsVars
        => [ResultMinutesGrow]_resultsVars
  BY NextResultMinutes
<1> QED
  BY <1>1, <1>2, <1>3, PTL DEF ResultsSpec, ResultMinutesOnlyGrow, ResultMinutesGrow
----------------------------------------------------------------------------
(* The three components side by side, as the run checks them.              *)

\* Each component of the composition does what its own specification says.
LEMMA ServicesAreTheirs ==
  ServicesFairSpec => RecordingsSpec /\ MetricsSpec /\ ResultsSpec
<1>1. ServicesInit => RecordingsInit /\ MetricsInit /\ ResultsInit
  BY DEF ServicesInit
<1>2. [ServicesNext]_servicesVars => [RecordingsNext]_recordingsVars
  BY DEF ServicesNext, servicesVars
<1>3. [ServicesNext]_servicesVars => [MetricsNext]_metricsVars
  BY DEF ServicesNext, servicesVars
<1>4. [ServicesNext]_servicesVars => [ResultsNext]_resultsVars
  BY DEF ServicesNext, servicesVars
<1> QED
  BY <1>1, <1>2, <1>3, <1>4, PTL DEF ServicesFairSpec, RecordingsSpec, MetricsSpec, ResultsSpec

\* The types and bounds of downloads, metrics and probe results, in one run.
THEOREM ServicesTypeCorrect == ServicesFairSpec => []ServicesTypeOK
<1>1. RecordingsTypeOK /\ MetricsTypeOK /\ ResultsTypeOK => ServicesTypeOK
  BY DEF ServicesTypeOK
<1> QED
  BY <1>1, ServicesAreTheirs, RecordingsTypeCorrect, MetricsTypeCorrect, ResultsTypeCorrect, PTL
============================================================================
