------------------------------ MODULE Availability ------------------------------
(***************************************************************************)
(* How much of a stretch of time a target was up (availability.py), from   *)
(* its outages, the maintenance windows and the checks there are, against  *)
(* the same counted minute by minute.                                      *)
(*                                                                         *)
(* One target that is checked every minute, and the windows that cover it. *)
(* A window is on for `lasts` minutes from `starts`, once or every week.   *)
(***************************************************************************)
EXTENDS Integers, FiniteSets, FiniteSetsExt

CONSTANTS
  LastDay,     \* the clock (bound)
  Week,        \* minutes in a week
  Width, Wide, \* minutes in a bucket of the check history, and in a wider one
  Latest,      \* minutes whose checks are kept one by one
  Folding,     \* minutes whose buckets are kept narrow
  Longest,     \* minutes a window may last
  Windows,     \* the maintenance windows there may be
  MaxWindows,  \* how many of them cover the target (bound)
  MaxOutages,  \* (bound)
  MaxUnwatched \* minutes without a check (bound)

Window == [starts : Nat, lasts : 1 .. Longest, weekly : BOOLEAN]

ASSUME AvailabilityAssumption ==
  /\ LastDay \in Nat /\ Week \in Nat \ {0} /\ Latest \in Nat /\ Folding \in Nat
  /\ Width \in Nat \ {0} /\ Wide \in Nat \ {0} /\ Wide % Width = 0
  /\ Longest \in Nat /\ Windows \subseteq Window
  /\ MaxWindows \in Nat /\ MaxOutages \in Nat /\ MaxUnwatched \in Nat

VARIABLES
  today,     \* the minute it is
  windows,   \* MaintenanceWindow
  outages,   \* Incident: the minutes of each, from when it opened
  checks     \* CheckResult: the minutes there was a check

avars == <<today, windows, outages, checks>>

Still  == LastDay + 1
Outage == [opened : 0 .. LastDay, closed : 0 .. Still, explained : BOOLEAN]
IsOpen(o) == o.closed = Still

AvailabilityTypeOK ==
  /\ today \in 0 .. LastDay
  /\ windows \subseteq Windows /\ outages \subseteq Outage /\ checks \subseteq 0 .. LastDay

AvailabilityInit ==
  /\ today = 0 /\ outages = {} /\ checks = {}
  /\ windows \in UNION {kSubset(n, Windows) : n \in 0 .. MaxWindows}

Closed(at) == {IF IsOpen(o) THEN [o EXCEPT !.closed = at] ELSE o : o \in outages}

\* A minute goes by, and a check finds the target up, or down of itself or
\* because of what it depends on ...
Check(finds) ==
  /\ today < LastDay /\ today' = today + 1
  /\ checks' = checks \cup {today}
  /\ outages' =
       IF finds = "up" THEN Closed(today)
       ELSE IF \E o \in outages : IsOpen(o) THEN outages
       ELSE outages \cup {[opened |-> today, closed |-> Still, explained |-> finds = "explained"]}
  /\ Cardinality(outages') <= MaxOutages
  /\ UNCHANGED windows

\* ... or nobody checks: SPARK is switched off, or the target paused, which
\* ends its outage.
Unwatched(paused) ==
  /\ today < LastDay /\ today' = today + 1
  /\ today + 1 - Cardinality(checks) <= MaxUnwatched
  /\ outages' = IF paused THEN Closed(today) ELSE outages
  /\ UNCHANGED <<windows, checks>>

AvailabilityNext ==
  \/ \E finds \in {"up", "down", "explained"} : Check(finds)
  \/ \E paused \in BOOLEAN : Unwatched(paused)

AvailabilitySpec == AvailabilityInit /\ [][AvailabilityNext]_avars

-----------------------------------------------------------------------------
(* Windows (maintenance.py). *)

Lesser(a, b)  == IF a < b THEN a ELSE b
Greater(a, b) == IF a > b THEN a ELSE b

\* _index, _occurrence: the last begun by then; before the first, -1.
IndexAt(w, t)    == IF t < w.starts THEN -1 ELSE (t - w.starts) \div Week
Occurrence(w, i) == [start |-> w.starts + i * Week, end |-> w.starts + i * Week + w.lasts]

Occurrences(w, from, to) ==
  IF ~w.weekly THEN {Occurrence(w, 0)}
  ELSE {Occurrence(w, i) : i \in Greater(0, IndexAt(w, from)) .. IndexAt(w, to)}

\* Mutant: pieces are not merged.
SpansUnmerged(from, to) ==
  {s \in UNION {Occurrences(w, from, to) : w \in windows} : s.end > from /\ s.start < to}

\* spans_over: every stretch under a window, merged.  Each begins where a
\* piece begins outside the others, and reaches as far as pieces touch.
SpansOver(from, to) ==
  LET pieces  == SpansUnmerged(from, to)
      Starts  == {s.start : s \in {p \in pieces : ~\E q \in pieces : q.start < p.start /\ p.start <= q.end}}
      Reach(b) == Max({s.end : s \in {p \in pieces : /\ p.start >= b
                                                     /\ \A c \in Starts : c > b => p.start < c}})
  IN {[start |-> b, end |-> Reach(b)] : b \in Starts}

-----------------------------------------------------------------------------
(* The figures. *)

\* _overlap: of two stretches.
Overlap(a, b, c, d) == Greater(0, Lesser(b, d) - Greater(a, c))

Until(o) == Lesser(o.closed, today)

\* _add: an outage's share of a range, sorted.
Inside(o, start, end) == Overlap(o.opened, Until(o), start, end)

Planned(o, start, end) ==
  SumFunction([h \in SpansOver(o.opened, Until(o)) |->
                 Overlap(Greater(o.opened, h.start), Lesser(Until(o), h.end), start, end)])

Whole(o) ==
  Until(o) - o.opened
    - SumFunction([h \in SpansOver(o.opened, Until(o)) |-> Overlap(o.opened, Until(o), h.start, h.end)])

\* What the nightly fold leaves of the checks (retention.py), as if it had just
\* run: the latest one by one, a bucket for those before, and a wider one for
\* those buckets that are older still.  A bucket that begins at the cutoff is
\* folded too, without the rest of its wider one (History).
StartOf(t, width) == width * (t \div width)

RawFrom    == StartOf(today - Latest, Width)
NarrowFrom == StartOf(today - Folding, Wide)
Buckets    == {StartOf(t, Width) : t \in {c \in checks : c < RawFrom}}
Narrow     == {b \in Buckets : b > NarrowFrom}
Wider      == {StartOf(b, Wide) : b \in Buckets \ Narrow}

\* Compared as text, and SQL wrote a bucket's start without a fraction of a
\* second: the bucket that begins when the range does comes before it, and so
\* does the one that begins when the range ends.
BegunIn(buckets, start, end) == {b \in buckets : b > start /\ b <= end}

\* _watched: what there are checks for, a bucket whole if there is one.
Watched(start, end) ==
  Lesser(Cardinality({t \in checks : t >= RawFrom /\ t >= start /\ t < end})
           + Width * Cardinality(BegunIn(Narrow, start, end))
           + Wide * Cardinality(BegunIn(Wider, start, end)),
         end - start)

\* targets, and what Availability makes of the sums.
Figures(start, end) ==
  LET touch == {o \in outages : Inside(o, start, end) > 0}
      own   == {o \in touch : ~o.explained}
      late  == {o \in own : Inside(o, start, end) > Planned(o, start, end)}
      unreachable == SumFunction([o \in touch \ own |-> Inside(o, start, end)])
      planned     == SumFunction([o \in own |-> Planned(o, start, end)])
  IN [down        |-> SumFunction([o \in late |-> Inside(o, start, end) - Planned(o, start, end)]),
      unreachable |-> unreachable,
      planned     |-> planned,
      outages     |-> Cardinality(late),
      longest     |-> Max({0} \cup {Whole(o) : o \in late}),
      judged      |-> Greater(0, Watched(start, end) - unreachable - planned)]

-----------------------------------------------------------------------------
(* The same, minute by minute. *)

Under(t)   == \E w \in windows : /\ t >= w.starts
                                 /\ (IF w.weekly THEN (t - w.starts) % Week ELSE t - w.starts) < w.lasts
DownAt(o)  == {t \in 0 .. today - 1 : o.opened <= t /\ t < o.closed}
Late(o)    == {t \in DownAt(o) : ~Under(t)}

\* Of any range, what is down, planned and unreachable is what was so minute
\* by minute of the target's outages, whether anything checked it or not,
\* however outages and windows overlap and begin and end outside it; and an
\* outage lasted all of what was not planned.  If the range was checked
\* throughout, what is judged is the rest of it (availability.py: "Up is the
\* share of watched time that was not down, leaving out what was unreachable or
\* planned") as long as those checks are kept one by one, and of older ones
\* falls short of it by one bucket at most.
AvailabilityIsTrue ==
  \A start, end \in 0 .. today : start < end =>
    LET range == start .. end - 1
        own   == {o \in outages : ~o.explained}
        late  == {o \in own : Late(o) \cap range # {}}
        away  == (UNION {DownAt(o) : o \in outages \ own}) \cap range
        kept  == {t \in UNION {DownAt(o) : o \in own} : Under(t)} \cap range
        rest  == Cardinality(range \ (away \cup kept))
        found == Figures(start, end)
    IN /\ found.down        = Cardinality((UNION {Late(o) : o \in own}) \cap range)
       /\ found.planned     = Cardinality(kept)
       /\ found.unreachable = Cardinality(away)
       /\ found.outages     = Cardinality(late)
       /\ found.longest     = Max({0} \cup {Cardinality(Late(o)) : o \in late})
       /\ range \subseteq checks =>
            /\ found.judged <= rest /\ found.judged >= rest - Wide
            /\ start >= RawFrom => found.judged = rest
===============================================================================
