------------------------------- MODULE Tiers -------------------------------
(***************************************************************************)
(* The roll-up SQL, of one form for metric_snapshots and probe_results.  A *)
(* tier of one series maps the start of a bucket to the samples its row    *)
(* was computed from; the empty set is no row.  What the row's columns hold *)
(* (averages, maxima, percentiles) is a function of those samples.         *)
(***************************************************************************)
EXTENDS Integers

CONSTANTS
  Minute, Five, Hour,  \* lengths of the three buckets, scaled
  RawWindow,           \* 5 minutes: how far back the minutes are computed
  FiveWindow,          \* 30 minutes: the five minutes
  HourWindow           \* 6 hours: the hours

ASSUME TiersAssumption ==
  /\ {Minute, Five, Hour} \subseteq Nat \ {0} /\ Five % Minute = 0 /\ Hour % Five = 0
  /\ {RawWindow, FiveWindow, HourWindow} \subseteq Nat

Tier == {"raw", "m1", "m5", "h1"}

\* date_trunc, and the rounding down to five minutes.
Bucket(t, length) == t - (t % length)

\* Which row of a tier covers sample t: none, or the one of its bucket.
Covers(tier, t, length) == t \in tier[Bucket(t, length)]

NoRows(times) == [t \in times |-> {}]

----------------------------------------------------------------------------
(* The windows of the three statements.                                    *)

\* Mutant: the window is not cut to whole minutes.
MinutesFrom_Uncut(t) == t - RawWindow

\* Mutant: the last two minutes, as the comment above the statement has it.
MinutesFrom_Short(t) == Bucket(t - Minute, Minute)

\* date_trunc('minute', NOW() - INTERVAL '5 minutes').
MinutesFrom(t) == Bucket(t - RawWindow, Minute)

\* date_trunc('minute', NOW()).
MinutesTo(t) == Bucket(t, Minute)

InMinutes(t, time) == t >= MinutesFrom(time) /\ t < MinutesTo(time)

\* NOW() - INTERVAL '30 minutes' and NOW() - INTERVAL '6 hours', with no end.
FivesFrom(t) == t - FiveWindow
HoursFrom(t) == t - HourWindow

----------------------------------------------------------------------------
(* The statements.                                                         *)

\* INSERT ... SELECT ... WHERE ts >= from AND ts < to GROUP BY bucket
\* ON CONFLICT DO UPDATE SET every column = EXCLUDED: a bucket that has a row in
\* the window is computed anew from the rows in the window, any other is left.
Rolled(tier, source, from, to, length) ==
  LET read(b) == {t \in DOMAIN source : t >= from /\ t < to /\ Bucket(t, length) = b}
      group(b) == UNION {source[t] : t \in read(b)}
  IN [b \in DOMAIN tier |-> IF group(b) = {} THEN tier[b] ELSE group(b)]

\* DELETE ... WHERE ts < before.
Pruned(tier, before) == [b \in DOMAIN tier |-> IF b < before THEN {} ELSE tier[b]]

\* No row that stays has lost a sample it was computed from.
OnlyGrows(tier, next, before) ==
  \A b \in DOMAIN tier : b >= before => tier[b] \subseteq next[b]
============================================================================
