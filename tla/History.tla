--------------------------------- MODULE History ---------------------------------
(***************************************************************************)
(* What is kept of what was measured (retention.py): raw samples, folded   *)
(* into five-minute buckets, then into hourly ones, then gone; and the     *)
(* charts that add all three up (snmp_history.py).                         *)
(*                                                                         *)
(* One series stands for a target's checks and for each of a device's SNMP *)
(* histories: the same statements, in the same transaction, on the same    *)
(* settings.  A moment is a number; Five and Hour are the widths of the    *)
(* buckets in it.                                                          *)
(*                                                                         *)
(* Times are compared as the texts SQLite has.  The nightly cutoffs reach  *)
(* it as "05:00:00+00:00".  What the ORM stored reads "05:00:00.000000",   *)
(* which is not less; what the fold stored, with SQL's datetime(), reads   *)
(* "05:00:00", which is.                                                   *)
(***************************************************************************)
EXTENDS Integers, FiniteSets, FiniteSetsExt

CONSTANTS
  Five, Hour,                     \* the widths of the buckets
  RawKept, FiveKept, HourlyKept,  \* the retention settings
  MaxMoment,                        \* the clock (bound)
  MaxGaps,                        \* samples that are missing (bound)
  MaxNights                       \* runs of retention (bound)

\* Both widths are in the code; nothing changes the settings, which keep raw
\* samples 7 days and five-minute buckets 90.
ASSUME HistoryAssumption ==
  /\ Five \in Nat \ {0} /\ Hour \in Nat \ {0} /\ Hour % Five = 0
  /\ RawKept \in Nat /\ FiveKept \in Nat /\ RawKept <= FiveKept /\ HourlyKept \in Nat
  /\ MaxMoment \in Nat /\ MaxGaps \in Nat /\ MaxNights \in Nat

VARIABLES
  time,
  raw,     \* when the raw samples are of
  five,    \* five-minute buckets: start -> how many samples
  hourly,  \* hourly buckets
  space,   \* hourly samples of storage space
  log      \* what happened, for the properties

hvars == <<time, raw, five, hourly, space, log>>

\* A day is two hours here.
Day == 2 * Hour

OrmBefore(t, cutoff) == t < cutoff
SqlBefore(t, cutoff) == t <= cutoff

\* _BUCKET: the start of the bucket, as SQL's integer division has it.
Bucket(t, width) == width * (t \div width)

\* _floor, for the cutoffs.  Mutant: the cutoff is not aligned.
FloorUnaligned(t, width) == t
Floor(t, width)          == t - (t % width)

HistoryTypeOK ==
  /\ time \in 0 .. MaxMoment /\ raw \subseteq 0 .. MaxMoment
  /\ DOMAIN five \subseteq {t \in 0 .. MaxMoment : t % Five = 0}
  /\ DOMAIN hourly \subseteq {t \in 0 .. MaxMoment : t % Hour = 0}
  /\ space \subseteq {t \in 0 .. MaxMoment : t % Hour = 0}
  /\ log \in [taken : SUBSET (0 .. MaxMoment), gaps : 0 .. MaxGaps, nights : 0 .. MaxNights,
              split : SUBSET Int, expired : Int]

Empty == [t \in {} |-> 0]

HistoryInit ==
  /\ time = 0 /\ raw = {0} /\ five = Empty /\ hourly = Empty /\ space = {0}
  /\ log = [taken |-> {0}, gaps |-> 0, nights |-> 0, split |-> {}, expired |-> -1]

-----------------------------------------------------------------------------
(* A moment goes by, with a sample or, paused or switched off, without. *)

Sampled(is) ==
  /\ time < MaxMoment /\ time' = time + 1
  /\ log.gaps + (IF is THEN 0 ELSE 1) <= MaxGaps
  /\ raw' = IF is THEN raw \cup {time'} ELSE raw
  /\ space' = IF is /\ time' % Hour = 0 THEN space \cup {time'} ELSE space
  /\ log' = [log EXCEPT !.taken = IF is THEN @ \cup {time'} ELSE @,
                        !.gaps  = IF is THEN @ ELSE @ + 1]
  /\ UNCHANGED <<five, hourly>>

-----------------------------------------------------------------------------
(* The night (run_retention): one transaction, fold before delete. *)

\* INSERT OR IGNORE: a bucket that is there keeps what it has.
Inserted(buckets, more) ==
  [b \in DOMAIN buckets \cup DOMAIN more |-> IF b \in DOMAIN buckets THEN buckets[b] ELSE more[b]]

Without(buckets, starts) == [b \in DOMAIN buckets \ starts |-> buckets[b]]

\* _fold_raw_into_buckets and the SNMP folds of raw samples.
FoldedRaw(old) ==
  Inserted(five, [b \in {Bucket(t, Five) : t \in old} |->
                    Cardinality({t \in old : Bucket(t, Five) = b})])

\* _fold_buckets_into_wider and the SNMP folds of buckets.
FoldedWider(narrow, ripe) ==
  Inserted(hourly, [h \in {Bucket(b, Hour) : b \in ripe} |->
                      SumFunctionOnSet(narrow, {b \in ripe : Bucket(b, Hour) = h})])

\* _storage_retention: the first sample of each day stays.
Thinned(cutoff, gone) ==
  {t \in space : /\ ~OrmBefore(t, gone)
                 /\ \/ ~OrmBefore(t, cutoff)
                    \/ \A s \in space : Bucket(s, Day) = Bucket(t, Day) => t <= s}

RunRetention ==
  LET rawCutoff    == Floor(time - RawKept, Five)
      fiveCutoff   == Floor(time - FiveKept, Hour)
      hourlyCutoff == Floor(time - HourlyKept, Hour)
      old    == {t \in raw : OrmBefore(t, rawCutoff)}
      narrow == FoldedRaw(old)
      ripe   == {b \in DOMAIN narrow : SqlBefore(b, fiveCutoff)}
      wide   == FoldedWider(narrow, ripe)
      done   == {h \in DOMAIN wide : SqlBefore(h, hourlyCutoff)}
  IN /\ log.nights < MaxNights
     /\ raw' = raw \ old
     /\ five' = Without(narrow, ripe)
     /\ hourly' = Without(wide, done)
     /\ space' = Thinned(Floor(time - FiveKept, Day), hourlyCutoff)
     /\ log' = [log EXCEPT !.nights = @ + 1,
                           !.split = IF fiveCutoff \in ripe THEN @ \cup {fiveCutoff} ELSE @,
                           !.expired = Max({@, hourlyCutoff})]
     /\ UNCHANGED time

HistoryNext == RunRetention \/ \E is \in BOOLEAN : Sampled(is)

-----------------------------------------------------------------------------
(* A chart: buckets of one width from an aligned start, each the sum of    *)
(* what the three tables have of it (snmp_history.Window, _Acc, and the    *)
(* histories).  The start is compared as "05:00:00.000000".                *)

Index(t, start, width) == (t - start) \div width

\* What the rolled-up buckets have of the ith.
Rolled(buckets, start, width, i) ==
  SumFunctionOnSet(buckets, {b \in DOMAIN buckets : b > start /\ Index(b, start, width) = i})

Shown(start, width, i) ==
  Cardinality({t \in raw : t >= start /\ Index(t, start, width) = i})
    + Rolled(five, start, width, i) + Rolled(hourly, start, width, i)

TakenIn(from, width) == Cardinality({t \in log.taken : t >= from /\ t < from + width})

Hours == {h \in 0 .. time : h % Hour = 0 /\ h > log.expired}

HistorySpec == HistoryInit /\ [][HistoryNext]_hvars

-----------------------------------------------------------------------------

\* Every sample is counted once, and once only, until its hour expires: on a
\* chart of hours, each shows what was taken in it, in whatever tables that
\* is now (retention._floor: "Cutoffs are aligned to this, so no bucket ever
\* straddles one").  Except an hour that began at the cutoff of some night:
\* see NoSampleIsLost.
HistoryAddsUp ==
  \A h \in Hours \ log.split : Shown(h - Hour, Hour, 1) = TakenIn(h, Hour)

\* The same of every hour (tests/test_retention.py:
\* test_no_sample_is_lost_across_two_nights).  Not so in the code: the bucket
\* that begins at the cutoff is less than the cutoff, as text, so the hour is
\* folded with that one bucket, and the rest of it is ignored and deleted the
\* night after.
NoSampleIsLost ==
  \A h \in Hours : Shown(h - Hour, Hour, 1) = TakenIn(h, Hour)
===============================================================================
