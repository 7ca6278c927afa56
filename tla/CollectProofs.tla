----------------------------- MODULE CollectProofs ----------------------------
(***************************************************************************)
(* Theorems about SNMP polling and the trap and syslog receiver, for any   *)
(* sizes, steps and paces; about what APIs answer, which has no sizes; and *)
(* about history and availability, for any widths, settings and windows.   *)
(*                                                                         *)
(* A rate is the difference of two counts.  That it is the line's needs    *)
(* what the counts were counted from: the last reading is the counter less *)
(* what has moved since, unless the device restarted; and a restart shows  *)
(* in the time it says it has been up by more than the time between two    *)
(* readings can hide, or the reading is marked blind.                      *)
(*                                                                         *)
(* History and availability are sums.  A sum over parts no two of which    *)
(* have anything in common is how much there is in all of them together    *)
(* (SumCounts), so that each comes down to what the parts are.             *)
(***************************************************************************)
EXTENDS Snmp, History, Receiver, Integrations, Availability,
        WellFoundedInduction, FiniteSetTheorems, SequenceTheorems, TLAPS

\* What 32 bits hold grows by no more than what is counted, and falls short of
\* it by a whole wrap when it fell.
LEMMA WrapsOnce ==
  ASSUME NEW b \in Nat, NEW f \in Nat
  PROVE  /\ b % Wrap \in 0 .. Wrap - 1 /\ (b + f) % Wrap \in 0 .. Wrap - 1
         /\ ((b + f) % Wrap) - (b % Wrap) <= f
         /\ (b + f) % Wrap < b % Wrap => ((b + f) % Wrap) - (b % Wrap) + Wrap <= f
<1> DEFINE q == b \div Wrap
           r == b % Wrap
           p == (b + f) \div Wrap
           s == (b + f) % Wrap
<1>1. Wrap \in Nat /\ Wrap > 0
  BY SnmpAssumption
<1>2. q \in Int /\ r \in 0 .. Wrap - 1 /\ b = Wrap * q + r
  BY <1>1
<1>3. p \in Int /\ s \in 0 .. Wrap - 1 /\ b + f = Wrap * p + s
  BY <1>1
<1> HIDE DEF q, r, p, s
<1>4. f = Wrap * (p - q) + (s - r)
  BY <1>1, <1>2, <1>3
<1>5. p - q >= 0
  <2> SUFFICES ASSUME p - q <= -1 PROVE FALSE
    BY <1>2, <1>3
  <2>1. Wrap * (p - q) <= - Wrap
    BY <1>1, <1>2, <1>3
  <2> QED
    BY <1>1, <1>2, <1>3, <1>4, <2>1
<1>6. Wrap * (p - q) >= 0
  BY <1>1, <1>2, <1>3, <1>5
<1>7. ASSUME s < r PROVE Wrap * (p - q) >= Wrap
  <2>1. p - q # 0
    BY <1>1, <1>2, <1>3, <1>4, <1>7
  <2>2. p - q >= 1
    BY <1>2, <1>3, <1>5, <2>1
  <2> QED
    BY <1>1, <1>2, <1>3, <2>2
<1>8. s - r <= f /\ (s < r => s - r + Wrap <= f)
  <2>1. Wrap * (p - q) \in Int
    BY <1>1, <1>2, <1>3
  <2> DEFINE w == Wrap * (p - q)
  <2>2. w \in Int /\ f = w + (s - r) /\ w >= 0 /\ (s < r => w >= Wrap)
    BY <1>4, <1>6, <1>7, <2>1
  <2> HIDE DEF w
  <2> QED
    BY <1>1, <1>2, <1>3, <2>2
<1> QED
  BY <1>2, <1>3, <1>8 DEF r, s

-----------------------------------------------------------------------------
(* The rows keep their form. *)

\* The width of the counters the device has.
CounterBits == IF wide THEN 64 ELSE 32

\* What the constants are.
LEMMA ConstantsType ==
  /\ NoRow \in [there : BOOLEAN, enabled : BOOLEAN, profile : Profiles]
  /\ \A n \in Paces : n \in Nat /\ MaxGap(n) \in Nat /\ Slack(MaxGap(n)) \in Nat
  /\ NoAnswer \in Answer
  /\ NoMetric \in [there : BOOLEAN, oid : Oids \cup {None}, shows : Oids \cup {None}]
<1>1. (CHOOSE p \in Profiles : TRUE) \in Profiles
  BY SnmpAssumption
<1> QED
  BY <1>1, SnmpAssumption
  DEF NoRow, MaxGap, Slack, Larger, NoAnswer, Answer, NoMetric

\* What was moved is known, or it is not.
LEMMA DeltaType ==
  ASSUME NEW was \in [there : BOOLEAN, bits : {32, 64}, octets : Nat, at : Nat],
         NEW said \in Answer, NEW rebooted
  PROVE  InterfaceRates(was, said, clock, rebooted) \in Nat \cup {-1}
BY SnmpAssumption DEF InterfaceRates, CounterDelta, Answer

\* A poll's answer is of the present: the clock does not move while it is out,
\* and a restart meanwhile blinds.
PollIsCurrent ==
  poll.on =>
    /\ poll.said.pace \in Paces
    /\ poll.said.ok => poll.said.flow = flow
    /\ poll.said.ok /\ ~past.blind => /\ poll.said.uptime = box.up
                                      /\ poll.said.bits = CounterBits
                                      /\ poll.said.octets = Counter

TInv == SnmpTypeOK /\ PollIsCurrent

\* No request, test or metric touches the box or the readings.
SideStep ==
  UNCHANGED <<about, clock, box, wide, flow, polled, reading, sample, past.blind, past.reset>>

RequestStep ==
  \/ \E q \in Requests : \/ \E p \in Profiles : AddDevice(q, p)
                         \/ RemoveDevice(q) \/ SetPolling(q)
                         \/ \E n \in Paces : SetPace(q, n)
                         \/ ReadList(q) \/ SetJobs(q)
  \/ RestartSpark

EditStep ==
  \/ \E p \in Profiles : SaveProfile(p) \/ DeleteProfile(p) \/ SetDeviceProfile(p)
  \/ BeginTest \/ EndTest
  \/ \E o \in Oids : AddMetric(o) \/ EditMetric(o)
  \/ \E lines \in SUBSET Oids : ImportMetrics(lines)
  \/ DeleteMetric

\* Requests change the row, the interval, the jobs and themselves.
LEMMA RequestsAside ==
  ASSUME TInv, RequestStep
  PROVE  TInv' /\ SideStep /\ (poll' = poll \/ ~poll'.on)
<1> USE DEF TInv
<1>1. ASSUME NEW q \in Requests, NEW n \in Paces \cup {0}, Saves(q, n),
             /\ row' \in [there : BOOLEAN, enabled : BOOLEAN, profile : Profiles]
             /\ pace' \in Paces /\ profiles' = profiles
             /\ tested' \in {tested, None} /\ metric' \in {metric, NoMetric}
      PROVE  TInv' /\ SideStep /\ poll' = poll
  <2>1. /\ UNCHANGED <<about, clock, box, wide, flow, right, job, poll, polled, reading, sample, test>>
        /\ request' \in [Requests -> [phase : {"idle", "saved", "read"}, wanted : BOOLEAN,
                                      pace : Paces \cup {0}]]
        /\ past' \in [crossed : BOOLEAN, blind : BOOLEAN, reset : BOOLEAN]
        /\ past'.blind = past.blind /\ past'.reset = past.reset
    <3>1. PICK x \in BOOLEAN : past' = [past EXCEPT !.crossed = x]
      BY <1>1, Zenon DEF Saves
    <3>2. past' \in [crossed : BOOLEAN, blind : BOOLEAN, reset : BOOLEAN]
          /\ past'.blind = past.blind /\ past'.reset = past.reset
      BY <3>1 DEF SnmpTypeOK
    <3>3. request' \in [Requests -> [phase : {"idle", "saved", "read"}, wanted : BOOLEAN,
                                      pace : Paces \cup {0}]]
      <4> DEFINE R == [phase : {"idle", "saved", "read"}, wanted : BOOLEAN, pace : Paces \cup {0}]
                 v == [[request[q] EXCEPT !.phase = "saved"] EXCEPT !.pace = n]
      <4>1. request \in [Requests -> R] /\ request' = [request EXCEPT ![q] = v]
        BY <1>1 DEF Saves, SnmpTypeOK
      <4>2. v \in R
        BY <4>1
      <4> HIDE DEF R, v
      <4>3. request' \in [Requests -> R]
        BY <4>1, <4>2
      <4> QED
        BY <4>3 DEF R
    <3> QED
      BY <1>1, <3>2, <3>3 DEF Saves, world, data
  <2>2. SnmpTypeOK'
    BY <1>1, <2>1, ConstantsType DEF SnmpTypeOK
  <2>3. PollIsCurrent'
    BY <2>1 DEF PollIsCurrent, CounterBits, Counter
  <2> QED
    BY <2>1, <2>2, <2>3 DEF SideStep
<1>2. ASSUME NEW q \in Requests, NEW p \in Profiles, AddDevice(q, p)
      PROVE  TInv' /\ SideStep /\ poll' = poll
  BY <1>1, <1>2 DEF AddDevice, SnmpTypeOK
<1>3. ASSUME NEW q \in Requests, RemoveDevice(q) PROVE TInv' /\ SideStep /\ poll' = poll
  BY <1>1, <1>3, ConstantsType DEF RemoveDevice, Cleared, SnmpTypeOK
<1>4. ASSUME NEW q \in Requests, SetPolling(q) PROVE TInv' /\ SideStep /\ poll' = poll
  BY <1>1, <1>4 DEF SetPolling, SnmpTypeOK
<1>5. ASSUME NEW q \in Requests, NEW n \in Paces, SetPace(q, n)
      PROVE  TInv' /\ SideStep /\ poll' = poll
  BY <1>1, <1>5 DEF SetPace, SnmpTypeOK
<1>6. ASSUME NEW q \in Requests, ReadList(q) \/ SetJobs(q)
      PROVE  TInv' /\ SideStep /\ poll' = poll
  <2>1. /\ UNCHANGED <<about, clock, box, wide, flow, right, profiles, row, pace, poll, polled,
                       reading, sample, test, tested, metric, past>>
        /\ request' \in [Requests -> [phase : {"idle", "saved", "read"}, wanted : BOOLEAN,
                                      pace : Paces \cup {0}]]
        /\ job' \in [on : BOOLEAN, pace : Paces \cup {0}]
    <3>1. CASE ReadList(q)
      BY <3>1 DEF ReadList, world, data, extras, SnmpTypeOK
    <3>2. CASE SetJobs(q)
      BY <3>2 DEF SetJobs, Synced, NoJob, Idle, world, data, extras, SnmpTypeOK
    <3> QED
      BY <1>6, <3>1, <3>2
  <2> QED
    BY <2>1 DEF SnmpTypeOK, PollIsCurrent, CounterBits, Counter, SideStep
<1>7. ASSUME RestartSpark PROVE TInv' /\ SideStep /\ ~poll'.on
  <2>1. /\ UNCHANGED <<about, clock, box, wide, flow, right, profiles, row, pace, polled,
                       reading, sample, tested, metric>>
        /\ request' \in [Requests -> [phase : {"idle", "saved", "read"}, wanted : BOOLEAN,
                                      pace : Paces \cup {0}]]
        /\ job' \in [on : BOOLEAN, pace : Paces \cup {0}]
        /\ poll' = NoPoll /\ test' = None
        /\ past' = [past EXCEPT !.crossed = FALSE]
    BY <1>7 DEF RestartSpark, Synced, NoJob, Idle, world, SnmpTypeOK
  <2>2. NoPoll \in [on : BOOLEAN, said : Answer] /\ ~NoPoll.on
    BY ConstantsType DEF NoPoll
  <2>3. /\ past' \in [crossed : BOOLEAN, blind : BOOLEAN, reset : BOOLEAN]
        /\ past'.blind = past.blind /\ past'.reset = past.reset
    BY <2>1 DEF SnmpTypeOK
  <2> QED
    BY <2>1, <2>2, <2>3 DEF SnmpTypeOK, PollIsCurrent, SideStep
<1> QED
  BY <1>2, <1>3, <1>4, <1>5, <1>6, <1>7 DEF RequestStep

\* Credentials, tests and metrics change themselves and the profile of the row.
LEMMA EditsAside ==
  ASSUME TInv, EditStep
  PROVE  /\ TInv' /\ SideStep /\ UNCHANGED <<pace, job, request, poll, past>>
         /\ row'.there = row.there /\ row'.enabled = row.enabled
<1>1. UNCHANGED <<about, clock, box, wide, flow, pace, job, request, poll, polled, reading,
                  sample, past>>
  BY DEF EditStep, SaveProfile, DeleteProfile, SetDeviceProfile, BeginTest, EndTest, AddMetric,
         EditMetric, ImportMetrics, DeleteMetric, Edits, data
<1>2. /\ profiles' \subseteq Profiles /\ right' \subseteq Profiles
      /\ row' \in [there : BOOLEAN, enabled : BOOLEAN, profile : Profiles]
      /\ row'.there = row.there /\ row'.enabled = row.enabled
  <2>1. /\ profiles \subseteq Profiles /\ right \subseteq Profiles
        /\ row \in [there : BOOLEAN, enabled : BOOLEAN, profile : Profiles]
    BY DEF TInv, SnmpTypeOK
  <2>2. ASSUME NEW p \in Profiles, SaveProfile(p)
        PROVE  profiles' \subseteq Profiles /\ right' \subseteq Profiles /\ row' = row
    BY <2>1, <2>2 DEF SaveProfile, extras
  <2>3. ASSUME NEW p \in Profiles, DeleteProfile(p)
        PROVE  profiles' \subseteq Profiles /\ right' \subseteq Profiles /\ row' = row
    BY <2>1, <2>3 DEF DeleteProfile, extras
  <2>4. ASSUME NEW p \in Profiles, SetDeviceProfile(p)
        PROVE  UNCHANGED <<profiles, right>> /\ row' = [row EXCEPT !.profile = p]
    BY <2>4 DEF SetDeviceProfile
  <2>5. \/ BeginTest \/ EndTest \/ DeleteMetric
        \/ \E oid \in Oids : AddMetric(oid) \/ EditMetric(oid)
        \/ \E lines \in SUBSET Oids : ImportMetrics(lines)
        => UNCHANGED <<profiles, right, row>>
    BY DEF BeginTest, EndTest, AddMetric, EditMetric, ImportMetrics, DeleteMetric
  <2> QED
    BY <2>1, <2>2, <2>3, <2>4, <2>5 DEF EditStep
<1>3. test' \in Profiles \cup {None} /\ tested' \in Profiles \cup {None}
  <2>1. /\ test \in Profiles \cup {None} /\ tested \in Profiles \cup {None}
        /\ row.profile \in Profiles
    BY DEF TInv, SnmpTypeOK
  <2>2. BeginTest => test' = row.profile /\ tested' = tested
    BY DEF BeginTest
  <2>3. EndTest => test' = None /\ tested' \in {test, tested}
    BY DEF EndTest
  <2>4. (\E p \in Profiles : SetDeviceProfile(p)) => tested' = None /\ test' = test
    BY DEF SetDeviceProfile
  <2>5. \/ \E p \in Profiles : SaveProfile(p) \/ DeleteProfile(p)
        \/ \E oid \in Oids : AddMetric(oid) \/ EditMetric(oid)
        \/ \E lines \in SUBSET Oids : ImportMetrics(lines)
        \/ DeleteMetric
        => UNCHANGED <<test, tested>>
    BY DEF SaveProfile, DeleteProfile, AddMetric, EditMetric, ImportMetrics, DeleteMetric, extras
  <2> QED
    BY <2>1, <2>2, <2>3, <2>4, <2>5 DEF EditStep
<1>4. metric' \in [there : BOOLEAN, oid : Oids \cup {None}, shows : Oids \cup {None}]
  <2>1. metric \in [there : BOOLEAN, oid : Oids \cup {None}, shows : Oids \cup {None}]
    BY DEF TInv, SnmpTypeOK
  <2>2. \A o \in Oids : [there |-> TRUE, oid |-> o, shows |-> None]
                          \in [there : BOOLEAN, oid : Oids \cup {None}, shows : Oids \cup {None}]
    OBVIOUS
  <2>3. ASSUME NEW o \in Oids, EditMetric(o)
        PROVE  metric' \in [there : BOOLEAN, oid : Oids \cup {None}, shows : Oids \cup {None}]
    BY <2>1, <2>3 DEF EditMetric
  <2>4. ASSUME NEW o \in Oids, AddMetric(o)
        PROVE  metric' \in [there : BOOLEAN, oid : Oids \cup {None}, shows : Oids \cup {None}]
    BY <2>2, <2>4 DEF AddMetric
  <2>5. ASSUME NEW lines \in SUBSET Oids, ImportMetrics(lines)
        PROVE  metric' \in [there : BOOLEAN, oid : Oids \cup {None}, shows : Oids \cup {None}]
    BY <2>2, <2>5 DEF ImportMetrics
  <2>6. CASE DeleteMetric
    BY <2>6, ConstantsType DEF DeleteMetric
  <2>7. CASE UNCHANGED metric
    BY <2>1, <2>7
  <2> QED
    BY <2>3, <2>4, <2>5, <2>6, <2>7
    DEF EditStep, SaveProfile, DeleteProfile, SetDeviceProfile, BeginTest, EndTest, extras
<1> QED
  BY <1>1, <1>2, <1>3, <1>4 DEF TInv, SnmpTypeOK, PollIsCurrent, CounterBits, Counter, SideStep

\* What people do leaves the box and its readings alone, and the other way round.
BoxStep == Tick \/ Restart \/ SwapCounters

\* The device counts, restarts, or changes the width of its counters.
LEMMA BoxKeepsType ==
  ASSUME TInv, BoxStep
  PROVE  TInv' /\ UNCHANGED <<profiles, row, pace, job, request, polled, reading, sample>>
<1> USE DEF TInv
<1>1. UNCHANGED <<about, right, profiles, row, pace, job, request, poll, polled, reading, sample,
                  test, tested, metric>>
  BY DEF BoxStep, Tick, Restart, SwapCounters, config, data, extras
<1>2. CASE Tick
  <2>1. PICK n \in 0 .. Speed : /\ box' = [box EXCEPT !.octets = @ + n, !.up = @ + 1]
                                /\ flow' = flow + n
    BY <1>2 DEF Tick
  <2>2. /\ UNCHANGED <<wide, past>> /\ ~poll.on
        /\ clock' = clock + 1 /\ clock < MaxTime
    BY <1>2 DEF Tick
  <2>3. n \in Nat
    BY SnmpAssumption
  <2>4. box' \in [octets : Nat, up : Nat, restarts : 0 .. MaxRestarts]
    <3>1. /\ box \in [octets : Nat, up : Nat, restarts : 0 .. MaxRestarts]
          /\ box' = [octets |-> box.octets + n, up |-> box.up + 1, restarts |-> box.restarts]
      BY <2>1 DEF SnmpTypeOK
    <3> QED
      BY <2>3, <3>1
  <2>5. clock' \in 0 .. MaxTime /\ flow' \in Nat
    BY <2>1, <2>2, <2>3, SnmpAssumption DEF SnmpTypeOK
  <2> QED
    BY <1>1, <2>2, <2>4, <2>5 DEF SnmpTypeOK, PollIsCurrent
<1>3. CASE Restart
  <2>1. PICK counters \in BOOLEAN :
          /\ box' = [box EXCEPT !.up = 0, !.restarts = @ + 1,
                                !.octets = IF counters THEN 0 ELSE @]
          /\ past' = [past EXCEPT
                        !.blind = @ \/ poll.on \/ \E n \in Paces : box.up <= Slack(MaxGap(n)),
                        !.reset = counters \/ @]
    BY <1>3, Zenon DEF Restart
  <2>2. UNCHANGED <<clock, wide, flow>> /\ box.restarts < MaxRestarts
    BY <1>3 DEF Restart
  <2>3. box' \in [octets : Nat, up : Nat, restarts : 0 .. MaxRestarts]
    <3>1. /\ box \in [octets : Nat, up : Nat, restarts : 0 .. MaxRestarts]
          /\ box' = [octets |-> IF counters THEN 0 ELSE box.octets, up |-> 0,
                     restarts |-> box.restarts + 1]
      BY <2>1 DEF SnmpTypeOK
    <3>2. box.restarts + 1 \in 0 .. MaxRestarts
      BY <2>2, <3>1, SnmpAssumption
    <3> QED
      BY <3>1, <3>2
  <2>4. past' \in [crossed : BOOLEAN, blind : BOOLEAN, reset : BOOLEAN]
    <3>1. PICK x, y \in BOOLEAN : past' = [past EXCEPT !.blind = x, !.reset = y]
      BY <2>1, Zenon
    <3> QED
      BY <3>1 DEF SnmpTypeOK
  <2>5. poll.on => past'.blind
    BY <2>1, Zenon DEF SnmpTypeOK
  <2> QED
    BY <1>1, <2>2, <2>3, <2>4, <2>5 DEF SnmpTypeOK, PollIsCurrent
<1>4. CASE SwapCounters
  <2>1. /\ UNCHANGED <<clock, flow, past>> /\ wide' = ~wide /\ ~poll.on
        /\ box.restarts < MaxRestarts /\ box' = [box EXCEPT !.restarts = @ + 1]
    BY <1>4 DEF SwapCounters
  <2>2. box' \in [octets : Nat, up : Nat, restarts : 0 .. MaxRestarts] /\ wide' \in BOOLEAN
    BY <2>1, SnmpAssumption DEF SnmpTypeOK
  <2> QED
    BY <1>1, <2>1, <2>2 DEF SnmpTypeOK, PollIsCurrent
<1> QED
  BY <1>1, <1>2, <1>3, <1>4 DEF BoxStep

\* The counter is read within its width.
LEMMA CounterType == ASSUME SnmpTypeOK PROVE Counter \in Nat /\ CounterBits \in {32, 64}
<1>1. box.octets \in Nat /\ Wrap \in Nat \ {0}
  BY SnmpAssumption DEF SnmpTypeOK
<1>2. box.octets % Wrap \in Nat
  BY <1>1
<1> QED
  BY <1>1, <1>2 DEF Counter, CounterBits

\* A poll goes out.
LEMMA BeginPollKeepsType ==
  ASSUME TInv, BeginPoll
  PROVE  /\ TInv' /\ SideStep /\ UNCHANGED <<profiles, row, pace, job, request, past>>
<1> USE DEF TInv
<1>1. UNCHANGED <<about, clock, box, wide, flow, right, profiles, row, pace, job, request, polled,
                  reading, sample, test, tested, metric, past>>
  BY DEF BeginPoll, world, config, extras
<1>2. PICK ok, has \in BOOLEAN :
         poll' = [on |-> TRUE, said |-> IF ok THEN Answered(has) ELSE [NoAnswer EXCEPT !.pace = pace]]
  BY DEF BeginPoll
<1>3. Answered(has) \in Answer /\ [NoAnswer EXCEPT !.pace = pace] \in Answer
  <2>1. pace \in Nat /\ metric.oid \in Oids \cup {None} /\ box.up \in Nat /\ flow \in Nat
    BY ConstantsType DEF SnmpTypeOK
  <2> QED
    BY <2>1, CounterType DEF Answered, Answer, NoAnswer
<1>4. poll' \in [on : BOOLEAN, said : Answer] /\ poll'.said.pace = pace
  BY <1>2, <1>3 DEF Answered, NoAnswer
<1>5. poll'.said.ok => poll'.said = Answered(has)
  BY <1>2 DEF NoAnswer
<1>6. PollIsCurrent'
  BY <1>1, <1>4, <1>5 DEF SnmpTypeOK, PollIsCurrent, Answered, CounterBits, Counter
<1> QED
  BY <1>1, <1>4, <1>6 DEF SnmpTypeOK, SideStep

\* What a poll that is recorded makes of what it was told.
Recorded ==
  LET said     == poll.said
      rebooted == DetectReboot(said, clock)
      moved    == InterfaceRates(reading, said, clock, rebooted)
  IN /\ polled' = [there |-> TRUE, uptime |-> said.uptime, at |-> clock]
     /\ IF said.has
        THEN /\ reading' = [there |-> TRUE, bits |-> said.bits, octets |-> said.octets, at |-> clock]
             /\ sample' = IF moved < 0 THEN NoSample ELSE [moved |-> moved, real |-> said.flow]
             /\ flow' = 0
             /\ ~past'.reset /\ (past'.blind <=> past.blind)
        ELSE /\ UNCHANGED <<reading, sample, flow>>
             /\ (past'.reset <=> past.reset) /\ (past'.blind <=> past.blind \/ past.reset)
     /\ past' \in [crossed : BOOLEAN, blind : BOOLEAN, reset : BOOLEAN]
     /\ past'.crossed = past.crossed

\* A poll's two remarks about the past change together; what was crossed stays.
LEMMA PastUpdate ==
  ASSUME NEW old \in [crossed : BOOLEAN, blind : BOOLEAN, reset : BOOLEAN],
         NEW x \in BOOLEAN, NEW y \in BOOLEAN, NEW new,
         new = [old EXCEPT !.reset = x, !.blind = y]
  PROVE  /\ new \in [crossed : BOOLEAN, blind : BOOLEAN, reset : BOOLEAN]
         /\ new.crossed = old.crossed /\ new.reset = x /\ new.blind = y
OBVIOUS

\* What recording a poll does: nothing but the metric, or a whole reading.
LEMMA RecordsPoll ==
  ASSUME TInv, RecordPoll
  PROVE  /\ poll.on /\ poll' = NoPoll
         /\ UNCHANGED <<about, clock, box, wide, right, profiles, row, pace, job, request, test, tested>>
         /\ metric' \in [there : BOOLEAN, oid : Oids \cup {None}, shows : Oids \cup {None}]
         /\ UNCHANGED <<polled, reading, sample, flow, past>> \/ (poll.said.ok /\ Recorded)
<1> USE DEF TInv
<1>1. /\ poll.on /\ poll' = NoPoll /\ poll.said \in Answer
      /\ UNCHANGED <<about, clock, box, wide, right, profiles, row, pace, job, request, test, tested>>
  BY DEF RecordPoll, config, SnmpTypeOK
<1>2. CASE ~row.there \/ ~poll.said.ok
  BY <1>1, <1>2 DEF RecordPoll, SnmpTypeOK
<1>3. CASE row.there /\ poll.said.ok
  <2> DEFINE said     == poll.said
             rebooted == DetectReboot(said, clock)
             moved    == InterfaceRates(reading, said, clock, rebooted)
  <2>1. /\ polled' = [there |-> TRUE, uptime |-> said.uptime, at |-> clock]
        /\ reading' = IF said.has THEN [there |-> TRUE, bits |-> said.bits,
                                        octets |-> said.octets, at |-> clock]
                      ELSE reading
        /\ sample' = IF ~said.has THEN sample
                     ELSE IF moved < 0 THEN NoSample
                     ELSE [moved |-> moved, real |-> said.flow]
        /\ flow' = IF said.has THEN flow - said.flow ELSE flow
        /\ metric' = Kept(said)
        /\ past' = [past EXCEPT !.reset = @ /\ ~said.has,
                                !.blind = @ \/ (past.reset /\ ~said.has)]
    BY <1>3, Zenon DEF RecordPoll
  <2>2. metric' \in [there : BOOLEAN, oid : Oids \cup {None}, shows : Oids \cup {None}]
    BY <1>1, <2>1 DEF Kept, Answer, SnmpTypeOK
  <2>3. said.flow = flow /\ flow \in Nat
    BY <1>1, <1>3 DEF PollIsCurrent, SnmpTypeOK
  <2>4. past.reset \in BOOLEAN /\ past.blind \in BOOLEAN /\ said.has \in BOOLEAN
    BY <1>1 DEF Answer, SnmpTypeOK
  <2> DEFINE x == past.reset /\ ~said.has
             y == past.blind \/ (past.reset /\ ~said.has)
  <2>5. /\ past' \in [crossed : BOOLEAN, blind : BOOLEAN, reset : BOOLEAN]
        /\ past'.crossed = past.crossed /\ past'.reset = x /\ past'.blind = y
    <3>1. x \in BOOLEAN /\ y \in BOOLEAN /\ past' = [past EXCEPT !.reset = x, !.blind = y]
      BY <2>1, Zenon
    <3> HIDE DEF x, y
    <3> QED
      BY <3>1, PastUpdate DEF SnmpTypeOK
  <2>6. Recorded
    <3> HIDE DEF moved
    <3>1. said.has => flow' = 0
      BY <2>1, <2>3
    <3> QED
      BY <2>1, <2>5, <3>1 DEF Recorded, moved
  <2> QED
    BY <1>1, <1>3, <2>2, <2>6
<1> QED
  BY <1>2, <1>3

\* What is recorded keeps its form.
LEMMA RecordKeepsType == ASSUME TInv, RecordPoll PROVE TInv'
<1> USE DEF TInv
<1>1. poll' \in [on : BOOLEAN, said : Answer] /\ ~poll'.on
  <2>1. NoPoll \in [on : BOOLEAN, said : Answer] /\ ~NoPoll.on
    BY ConstantsType DEF NoPoll
  <2> QED
    BY <2>1, RecordsPoll
<1>2. ASSUME Recorded
      PROVE  /\ polled' \in [there : BOOLEAN, uptime : Nat, at : Nat]
             /\ reading' \in [there : BOOLEAN, bits : {32, 64}, octets : Nat, at : Nat]
             /\ sample' \in [moved : Nat, real : Nat]
             /\ flow' \in Nat
             /\ past' \in [crossed : BOOLEAN, blind : BOOLEAN, reset : BOOLEAN]
  <2>1. poll.said \in Answer /\ clock \in Nat
    BY DEF SnmpTypeOK
  <2> DEFINE moved == InterfaceRates(reading, poll.said, clock, DetectReboot(poll.said, clock))
  <2>2. moved \in Nat \cup {-1}
    BY <2>1, DeltaType DEF SnmpTypeOK
  <2> HIDE DEF moved
  <2>3. /\ polled' \in [there : BOOLEAN, uptime : Nat, at : Nat]
        /\ reading' \in [there : BOOLEAN, bits : {32, 64}, octets : Nat, at : Nat]
        /\ flow' \in Nat
    <3>1. /\ poll.said.uptime \in Nat /\ poll.said.bits \in {32, 64} /\ poll.said.octets \in Nat
      BY <2>1 DEF Answer
    <3>2. /\ polled' = [there |-> TRUE, uptime |-> poll.said.uptime, at |-> clock]
          /\ \/ reading' = reading
             \/ reading' = [there |-> TRUE, bits |-> poll.said.bits,
                            octets |-> poll.said.octets, at |-> clock]
          /\ flow' \in {flow, 0}
      BY <1>2 DEF Recorded
    <3>3. polled' \in [there : BOOLEAN, uptime : Nat, at : Nat]
      BY <2>1, <3>1, <3>2
    <3>4. reading' \in [there : BOOLEAN, bits : {32, 64}, octets : Nat, at : Nat]
      <4>1. [there |-> TRUE, bits |-> poll.said.bits, octets |-> poll.said.octets, at |-> clock]
              \in [there : BOOLEAN, bits : {32, 64}, octets : Nat, at : Nat]
        BY <2>1, <3>1
      <4>2. reading \in [there : BOOLEAN, bits : {32, 64}, octets : Nat, at : Nat]
        BY DEF SnmpTypeOK
      <4> QED
        BY <3>2, <4>1, <4>2, Zenon
    <3>5. flow' \in Nat
      BY <3>2 DEF SnmpTypeOK
    <3> QED
      BY <3>3, <3>4, <3>5
  <2>4. sample' \in [moved : Nat, real : Nat]
    <3>1. sample' \in {sample, NoSample, [moved |-> moved, real |-> poll.said.flow]}
          /\ (sample' = [moved |-> moved, real |-> poll.said.flow] => ~(moved < 0) \/ sample' \in {sample, NoSample})
      BY <1>2 DEF Recorded, moved
    <3> QED
      BY <2>1, <2>2, <3>1 DEF Answer, NoSample, SnmpTypeOK
  <2>5. past' \in [crossed : BOOLEAN, blind : BOOLEAN, reset : BOOLEAN]
    BY <1>2 DEF Recorded
  <2> QED
    BY <2>3, <2>4, <2>5
<1> QED
  BY <1>1, <1>2, RecordsPoll DEF SnmpTypeOK, PollIsCurrent

\* It starts well formed.
LEMMA InitTypes == SnmpInit => TInv
<1> SUFFICES ASSUME SnmpInit PROVE TInv
  OBVIOUS
<1>1. NoPoll \in [on : BOOLEAN, said : Answer] /\ ~NoPoll.on
  BY ConstantsType DEF NoPoll
<1>2. row \in [there : BOOLEAN, enabled : BOOLEAN, profile : Profiles]
  BY ConstantsType DEF SnmpInit
<1>3. job \in [on : BOOLEAN, pace : Paces \cup {0}] /\ pace \in Paces
  <2>1. pace \in Paces /\ (job = NoJob \/ job = [on |-> TRUE, pace |-> pace])
    BY Zenon DEF SnmpInit
  <2>2. NoJob \in [on : BOOLEAN, pace : Paces \cup {0}]
    BY DEF NoJob
  <2>3. [on |-> TRUE, pace |-> pace] \in [on : BOOLEAN, pace : Paces \cup {0}]
    BY <2>1
  <2> QED
    BY <2>1, <2>2, <2>3, Zenon
<1>4. /\ clock \in 0 .. MaxTime
      /\ box \in [octets : Nat, up : Nat, restarts : 0 .. MaxRestarts]
      /\ wide \in BOOLEAN /\ flow \in Nat
  BY SnmpAssumption DEF SnmpInit
<1>5. request \in [Requests -> [phase : {"idle", "saved", "read"}, wanted : BOOLEAN,
                                pace : Paces \cup {0}]]
  BY DEF SnmpInit, Idle
<1>6. /\ polled \in [there : BOOLEAN, uptime : Nat, at : Nat]
      /\ reading \in [there : BOOLEAN, bits : {32, 64}, octets : Nat, at : Nat]
      /\ sample \in [moved : Nat, real : Nat]
      /\ past \in [crossed : BOOLEAN, blind : BOOLEAN, reset : BOOLEAN]
  BY DEF SnmpInit, NoPolled, NoReading, NoSample
<1>7. /\ about \in {"rates", "jobs", "results"} /\ right \subseteq Profiles /\ profiles \subseteq Profiles
      /\ test \in Profiles \cup {None} /\ tested \in Profiles \cup {None}
      /\ metric \in [there : BOOLEAN, oid : Oids \cup {None}, shows : Oids \cup {None}]
      /\ poll = NoPoll
  BY ConstantsType DEF SnmpInit
<1> QED
  BY <1>1, <1>2, <1>3, <1>4, <1>5, <1>6, <1>7 DEF TInv, SnmpTypeOK, PollIsCurrent

-----------------------------------------------------------------------------
(* No spike. *)

\* Readings and answers are of the past, in order.
PollsInOrder ==
  /\ polled.at <= clock /\ reading.at <= polled.at
  /\ reading.there => polled.there

\* A device is up for no longer than since it said so; and when its counters
\* were reset since the last reading, by more than any slack less.
RestartsShow ==
  ~past.blind /\ polled.there =>
    /\ box.up <= polled.uptime + (clock - polled.at)
    /\ past.reset => \A n \in Paces :
         box.up + Slack(MaxGap(n)) < polled.uptime + (clock - polled.at)

\* The last reading is what the counter was before what has moved since.
BaselineHolds ==
  ~past.blind /\ ~past.reset /\ reading.there =>
    /\ flow <= box.octets
    /\ reading.octets = IF reading.bits = 64 THEN box.octets - flow
                        ELSE (box.octets - flow) % Wrap

\* What the rates rest on.
RInv == TInv /\ PollsInOrder /\ RestartsShow /\ BaselineHolds /\ RateIsReal

\* What is stored of a poll, after a reading that holds, did move.
LEMMA WhatMoved ==
  ASSUME RInv, poll.on, poll.said.ok, poll.said.has, ~past.blind,
         NEW moved, moved = InterfaceRates(reading, poll.said, clock, DetectReboot(poll.said, clock)),
         ~(moved < 0)
  PROVE  moved <= poll.said.flow
<1> USE DEF RInv
<1> DEFINE said    == poll.said
           minutes == clock - reading.at
           since   == clock - polled.at
<1>1. /\ said \in Answer /\ said.pace \in Paces /\ said.flow = flow /\ said.uptime = box.up
      /\ said.bits = CounterBits /\ said.octets = Counter
  BY DEF TInv, PollIsCurrent, SnmpTypeOK
<1>2. /\ reading.there /\ ~DetectReboot(said, clock) /\ said.bits = reading.bits
      /\ minutes > 0 /\ minutes <= MaxGap(said.pace)
      /\ moved = CounterDelta(reading.octets, said.octets, said.bits)
  <2>1. clock \in Nat /\ reading.at \in Nat /\ MaxGap(said.pace) \in Nat
    BY <1>1, ConstantsType DEF TInv, SnmpTypeOK
  <2>2. moved # -1
    OBVIOUS
  <2> QED
    BY <2>1, <2>2 DEF InterfaceRates
<1>3. ~past.reset
  <2> SUFFICES ASSUME past.reset PROVE FALSE
    OBVIOUS
  <2>1. /\ polled.there /\ polled.at \in Nat /\ reading.at \in Nat /\ clock \in Nat
        /\ polled.uptime \in Nat /\ box.up \in Nat
        /\ polled.at <= clock /\ reading.at <= polled.at
    BY <1>2 DEF PollsInOrder, TInv, SnmpTypeOK
  <2>2. box.up + Slack(MaxGap(said.pace)) < polled.uptime + since
    BY <1>1, <2>1 DEF RestartsShow
  <2>3. ~(box.up < polled.uptime + since - Slack(since))
    BY <1>1, <1>2, <2>1 DEF DetectReboot
  <2>4. Slack(since) <= Slack(MaxGap(said.pace)) /\ Slack(since) \in Int
    <3>1. since \in Nat /\ MaxGap(said.pace) \in Nat /\ since <= MaxGap(said.pace)
      BY <1>1, <1>2, <2>1, ConstantsType
    <3> HIDE DEF since
    <3> QED
      BY <3>1 DEF Slack
  <2>5. Slack(MaxGap(said.pace)) \in Nat
    BY <1>1, ConstantsType
  <2> HIDE DEF since
  <2>6. since \in Int
    BY <2>1 DEF since
  <2> QED
    BY <2>1, <2>2, <2>3, <2>4, <2>5, <2>6
<1>4. /\ flow <= box.octets /\ flow \in Nat /\ box.octets \in Nat
      /\ reading.octets = IF reading.bits = 64 THEN box.octets - flow
                          ELSE (box.octets - flow) % Wrap
  BY <1>2, <1>3 DEF BaselineHolds, TInv, SnmpTypeOK
<1>5. CASE said.bits = 64
  BY <1>1, <1>2, <1>4, <1>5 DEF CounterBits, Counter, CounterDelta
<1>6. CASE said.bits = 32
  <2> DEFINE b == box.octets - flow
  <2>1. b \in Nat /\ b + flow = box.octets
    BY <1>4
  <2>2. reading.octets = b % Wrap /\ said.octets = (b + flow) % Wrap
    BY <1>1, <1>2, <1>4, <1>6, <2>1 DEF CounterBits, Counter
  <2> HIDE DEF b
  <2>3. /\ reading.octets \in 0 .. Wrap - 1 /\ said.octets \in 0 .. Wrap - 1
        /\ said.octets - reading.octets <= flow
        /\ said.octets < reading.octets => said.octets - reading.octets + Wrap <= flow
    BY <1>4, <2>1, <2>2, WrapsOnce
  <2> HIDE DEF said
  <2> QED
    BY <1>1, <1>2, <1>4, <1>6, <2>3, SnmpAssumption DEF CounterDelta, said
<1> QED
  BY <1>1, <1>5, <1>6 DEF CounterBits

\* A poll that is recorded stores what moved, and counts from there.
LEMMA RecordKeepsRates == ASSUME RInv, RecordPoll PROVE RInv'
<1> USE DEF RInv
<1>1. TInv'
  BY RecordKeepsType
<1>2. poll.on /\ UNCHANGED <<clock, box, wide>>
  BY RecordsPoll
<1>3. CASE UNCHANGED <<polled, reading, sample, flow, past>>
  BY <1>1, <1>2, <1>3 DEF PollsInOrder, RestartsShow, BaselineHolds, RateIsReal
<1>4. CASE poll.said.ok /\ Recorded
  <2> DEFINE said == poll.said
             moved == InterfaceRates(reading, said, clock, DetectReboot(said, clock))
  <2>1. polled' = [there |-> TRUE, uptime |-> said.uptime, at |-> clock]
    BY <1>4 DEF Recorded
  <2>2. clock \in Nat /\ reading.at \in Nat /\ polled.at \in Nat /\ box.up \in Nat /\ box.octets \in Nat
    BY DEF TInv, SnmpTypeOK
  <2>3. CASE said.has
    <3>1. /\ reading' = [there |-> TRUE, bits |-> said.bits, octets |-> said.octets, at |-> clock]
          /\ sample' = IF moved < 0 THEN NoSample ELSE [moved |-> moved, real |-> said.flow]
          /\ flow' = 0 /\ ~past'.reset /\ (past'.blind <=> past.blind)
      BY <1>4, <2>3 DEF Recorded
    <3>2. PollsInOrder'
      BY <1>2, <2>1, <2>2, <3>1 DEF PollsInOrder
    <3>3. ~past.blind => said.uptime = box.up /\ said.bits = CounterBits /\ said.octets = Counter
      BY <1>2, <1>4 DEF TInv, PollIsCurrent
    <3>4. RestartsShow'
      BY <1>2, <2>1, <2>2, <3>1, <3>3 DEF RestartsShow
    <3>5. BaselineHolds'
      BY <1>2, <2>2, <3>1, <3>3 DEF BaselineHolds, CounterBits, Counter
    <3>6. RateIsReal'
      <4> SUFFICES ASSUME ~past.blind PROVE sample'.moved <= sample'.real
        BY <3>1 DEF RateIsReal
      <4> HIDE DEF moved
      <4>1. CASE moved < 0
        BY <3>1, <4>1 DEF NoSample
      <4>2. CASE ~(moved < 0)
        <5>1. moved <= said.flow
          BY <1>2, <1>4, <2>3, <4>2, WhatMoved DEF moved
        <5> QED
          BY <3>1, <4>2, <5>1
      <4> QED
        BY <4>1, <4>2
    <3> QED
      BY <1>1, <3>2, <3>4, <3>5, <3>6
  <2>4. CASE ~said.has
    <3>1. /\ UNCHANGED <<reading, sample, flow>>
          /\ (past'.reset <=> past.reset) /\ (past'.blind <=> past.blind \/ past.reset)
      BY <1>4, <2>4 DEF Recorded
    <3>2. PollsInOrder'
      BY <1>2, <2>1, <2>2, <3>1 DEF PollsInOrder
    <3>3. ~past.blind => said.uptime = box.up
      BY <1>2, <1>4 DEF TInv, PollIsCurrent
    <3>4. RestartsShow'
      BY <1>2, <2>1, <2>2, <3>1, <3>3 DEF RestartsShow
    <3>5. BaselineHolds' /\ RateIsReal'
      BY <1>2, <3>1 DEF BaselineHolds, RateIsReal
    <3> QED
      BY <1>1, <3>2, <3>4, <3>5
  <2> QED
    BY <2>3, <2>4
<1> QED
  BY <1>3, <1>4, RecordsPoll

\* What the device does moves the counter and what it was counted from alike.
LEMMA BoxKeepsRates == ASSUME RInv, BoxStep PROVE RInv'
<1> USE DEF RInv
<1>1. TInv' /\ UNCHANGED <<polled, reading, sample>>
  BY BoxKeepsType
<1>2. /\ clock \in Nat /\ reading.at \in Nat /\ polled.at \in Nat /\ polled.uptime \in Nat
      /\ box \in [octets : Nat, up : Nat, restarts : 0 .. MaxRestarts] /\ flow \in Nat
      /\ past \in [crossed : BOOLEAN, blind : BOOLEAN, reset : BOOLEAN]
  BY DEF TInv, SnmpTypeOK
<1>3. \A n \in Paces : Slack(MaxGap(n)) \in Nat
  BY ConstantsType
<1>4. CASE Tick
  <2>1. PICK n \in 0 .. Speed : /\ box' = [box EXCEPT !.octets = @ + n, !.up = @ + 1]
                                /\ flow' = flow + n
    BY <1>4 DEF Tick
  <2>2. UNCHANGED <<past>> /\ clock' = clock + 1 /\ n \in Nat
    BY <1>4, SnmpAssumption DEF Tick
  <2>3. box'.octets = box.octets + n /\ box'.up = box.up + 1
    BY <1>2, <2>1
  <2>4. PollsInOrder' /\ RateIsReal'
    BY <1>1, <1>2, <2>2 DEF PollsInOrder, RateIsReal
  <2>5. RestartsShow'
    BY <1>1, <1>2, <1>3, <2>2, <2>3 DEF RestartsShow
  <2>6. BaselineHolds'
    <3>1. box'.octets - flow' = box.octets - flow /\ (flow <= box.octets => flow' <= box'.octets)
      BY <1>2, <2>1, <2>2, <2>3
    <3> QED
      BY <1>1, <2>2, <3>1 DEF BaselineHolds
  <2> QED
    BY <1>1, <2>4, <2>5, <2>6
<1>5. CASE Restart
  <2>1. PICK counters \in BOOLEAN :
          /\ box' = [box EXCEPT !.up = 0, !.restarts = @ + 1,
                                !.octets = IF counters THEN 0 ELSE @]
          /\ past' = [past EXCEPT
                        !.blind = @ \/ poll.on \/ \E n \in Paces : box.up <= Slack(MaxGap(n)),
                        !.reset = counters \/ @]
    BY <1>5, Zenon DEF Restart
  <2>2. UNCHANGED <<clock, wide, flow>>
    BY <1>5 DEF Restart
  <2>3. box'.up = 0 /\ (~counters => box'.octets = box.octets)
    BY <1>2, <2>1
  <2> DEFINE x == counters \/ past.reset
             y == past.blind \/ poll.on \/ \E n \in Paces : box.up <= Slack(MaxGap(n))
  <2>4. past'.reset = x /\ past'.blind = y
    <3>1. x \in BOOLEAN /\ y \in BOOLEAN /\ past' = [past EXCEPT !.reset = x, !.blind = y]
      <4>1. past' = [past EXCEPT !.blind = y, !.reset = x]
        BY <2>1, Zenon
      <4>2. x \in BOOLEAN /\ y \in BOOLEAN
        BY <1>2
      <4> HIDE DEF x, y
      <4> QED
        BY <1>2, <4>1, <4>2
    <3> HIDE DEF x, y
    <3> QED
      BY <1>2, <3>1, PastUpdate
  <2>5. PollsInOrder'
    BY <1>1, <2>2 DEF PollsInOrder
  <2>6. ~past'.blind => ~past.blind /\ \A n \in Paces : Slack(MaxGap(n)) < box.up
    <3>1. ~past'.blind => ~past.blind /\ \A n \in Paces : ~(box.up <= Slack(MaxGap(n)))
      BY <2>4, Zenon
    <3>2. box.up \in Nat
      BY <1>2
    <3> HIDE DEF x, y
    <3> QED
      BY <1>3, <3>1, <3>2
  <2>7. RestartsShow'
    BY <1>1, <1>2, <1>3, <2>2, <2>3, <2>6 DEF RestartsShow
  <2>8. ~past'.reset => ~past.reset /\ ~counters
    BY <2>4
  <2>9. BaselineHolds' /\ RateIsReal'
    BY <1>1, <2>2, <2>3, <2>6, <2>8 DEF BaselineHolds, RateIsReal
  <2> QED
    BY <1>1, <2>5, <2>7, <2>9
<1>6. CASE SwapCounters
  <2>1. UNCHANGED <<clock, flow, past>> /\ box' = [box EXCEPT !.restarts = @ + 1]
    BY <1>6 DEF SwapCounters
  <2>2. box'.up = box.up /\ box'.octets = box.octets
    BY <1>2, <2>1
  <2> QED
    BY <1>1, <2>1, <2>2 DEF PollsInOrder, RestartsShow, BaselineHolds, RateIsReal
<1> QED
  BY <1>4, <1>5, <1>6 DEF BoxStep

\* Nothing else touches the counter or the readings.
LEMMA SideKeepsRates == ASSUME RInv, SideStep, TInv' PROVE RInv'
BY DEF SideStep, RInv, PollsInOrder, RestartsShow, BaselineHolds, RateIsReal

\* Every step keeps them.
LEMMA StepKeepsRates == RInv /\ [SnmpNext]_svars => RInv'
<1> SUFFICES ASSUME RInv, [SnmpNext]_svars PROVE RInv'
  OBVIOUS
<1>1. CASE UNCHANGED svars
  BY <1>1, SideKeepsRates
  DEF svars, world, config, data, extras, SideStep, RInv, TInv, SnmpTypeOK, PollIsCurrent, CounterBits, Counter
<1> QED
  BY <1>1, BoxKeepsRates, BeginPollKeepsType, RecordKeepsRates, RequestsAside, EditsAside, SideKeepsRates
  DEF SnmpNext, BoxStep, RequestStep, EditStep, RInv

\* Nothing has been read at first.
LEMMA InitRates == SnmpInit => RInv
<1>1. SnmpInit => PollsInOrder /\ RestartsShow /\ BaselineHolds /\ RateIsReal
  BY DEF SnmpInit, PollsInOrder, RestartsShow, BaselineHolds, RateIsReal, NoPolled, NoReading, NoSample
<1> QED
  BY <1>1, InitTypes DEF RInv

\* The rows of SNMP polling keep their form.
THEOREM SnmpTypeCorrect == SnmpSpec => []SnmpTypeOK
<1>1. RInv => SnmpTypeOK
  BY DEF RInv, TInv
<1> QED
  BY InitRates, StepKeepsRates, <1>1, PTL DEF SnmpSpec

\* What is stored as traffic did move, for any width of the counter, speed of
\* the line and set of intervals.
THEOREM RatesAreReal == SnmpSpec => []RateIsReal
<1>1. RInv => RateIsReal
  BY DEF RInv
<1> QED
  BY InitRates, StepKeepsRates, <1>1, PTL DEF SnmpSpec

-----------------------------------------------------------------------------
(* The jobs. *)

\* The device is on the list and not paused.
Polled == row.there /\ row.enabled

\* Unless requests crossed, what a request has still to write is what stands,
\* and once none is at work the job is what stands.
JobsAreDue ==
  ~past.crossed =>
    /\ \A q \in Requests :
         /\ request[q].phase = "idle" => request[q] = Idle
         /\ request[q].phase = "saved" => request[q].pace \in {0, pace}
         /\ request[q].phase = "read" => /\ request[q].wanted = Polled
                                         /\ request[q].pace = pace
    /\ (\A q \in Requests : request[q].phase = "idle") =>
         IF Polled THEN job = [on |-> TRUE, pace |-> pace] ELSE ~job.on

JInv == TInv /\ JobsAreDue

\* A request that saves crosses none only if no other has read the list, or
\* saved an interval, before.
LEMMA SavesKeepsJobs ==
  ASSUME JInv, NEW q \in Requests, NEW n, Saves(q, n), n \in {0, pace'},
         pace' = pace \/ n = pace'
  PROVE  JobsAreDue'
<1> SUFFICES ASSUME ~past'.crossed PROVE JobsAreDue'
  BY DEF JobsAreDue
<1>1. /\ request[q].phase = "idle"
      /\ request' = [request EXCEPT ![q] = [[request[q] EXCEPT !.phase = "saved"] EXCEPT !.pace = n]]
      /\ ~past.crossed
      /\ \A r \in Requests : request[r].phase # "read" /\ request[r].pace = 0
  <2>1. past' = [past EXCEPT !.crossed = @ \/ \E r \in Requests : \/ request[r].phase = "read"
                                                                 \/ request[r].pace # 0]
    BY DEF Saves
  <2> DEFINE x == past.crossed \/ \E r \in Requests : request[r].phase = "read" \/ request[r].pace # 0
  <2>2. past' = [past EXCEPT !.crossed = x]
    BY <2>1, Zenon
  <2>3. past'.crossed = x
    <3> HIDE DEF x
    <3> QED
      BY <2>2 DEF JInv, TInv, SnmpTypeOK
  <2>4. ~x
    BY <2>3, Zenon
  <2> QED
    BY <2>4 DEF Saves
<1>2. request \in [Requests -> [phase : {"idle", "saved", "read"}, wanted : BOOLEAN,
                                pace : Paces \cup {0}]]
  BY DEF JInv, TInv, SnmpTypeOK
<1>3. request'[q].phase = "saved" /\ request'[q].pace = n
  BY <1>1, <1>2
<1>4. \A r \in Requests : r # q => request'[r] = request[r]
  BY <1>1, <1>2
<1>5. \A r \in Requests : request[r].phase = "idle" => request[r] = Idle
  BY <1>1 DEF JInv, JobsAreDue
<1> QED
  BY <1>1, <1>3, <1>4, <1>5 DEF JobsAreDue

\* Every request leaves the jobs as they are due.
LEMMA RequestKeepsJobs == ASSUME JInv, RequestStep PROVE JobsAreDue'
<1>1. request \in [Requests -> [phase : {"idle", "saved", "read"}, wanted : BOOLEAN,
                                pace : Paces \cup {0}]]
  BY DEF JInv, TInv, SnmpTypeOK
<1>2. ASSUME NEW q \in Requests, NEW p \in Profiles, AddDevice(q, p) PROVE JobsAreDue'
  BY <1>2, SavesKeepsJobs DEF AddDevice
<1>3. ASSUME NEW q \in Requests, RemoveDevice(q) \/ SetPolling(q) PROVE JobsAreDue'
  BY <1>3, SavesKeepsJobs DEF RemoveDevice, SetPolling, Cleared
<1>4. ASSUME NEW q \in Requests, NEW n \in Paces, SetPace(q, n) PROVE JobsAreDue'
  BY <1>4, SavesKeepsJobs DEF SetPace
<1>5. ASSUME NEW q \in Requests, ReadList(q) PROVE JobsAreDue'
  <2>1. /\ request[q].phase = "saved" /\ UNCHANGED <<row, pace, job, past>>
        /\ request' = [request EXCEPT ![q] =
             [phase |-> "read", wanted |-> Polled,
              pace |-> IF request[q].pace # 0 THEN request[q].pace ELSE pace]]
    BY <1>5 DEF ReadList, Polled
  <2>2. \A r \in Requests : r # q => request'[r] = request[r]
    BY <1>1, <2>1
  <2>3. /\ request'[q].phase = "read" /\ request'[q].wanted = Polled
        /\ request'[q].pace = IF request[q].pace # 0 THEN request[q].pace ELSE pace
    BY <1>1, <2>1
  <2> QED
    BY <2>1, <2>2, <2>3 DEF JInv, JobsAreDue, Polled
<1>6. ASSUME NEW q \in Requests, SetJobs(q) PROVE JobsAreDue'
  <2>1. /\ request[q].phase = "read" /\ UNCHANGED <<row, pace, past>>
        /\ job' = Synced(request[q].wanted, request[q].pace)
        /\ request' = [request EXCEPT ![q] = Idle]
    BY <1>6 DEF SetJobs
  <2>2. request'[q] = Idle /\ \A r \in Requests : r # q => request'[r] = request[r]
    BY <1>1, <2>1
  <2>3. ~past.crossed => request[q].wanted = Polled /\ request[q].pace = pace
    BY <2>1 DEF JInv, JobsAreDue
  <2>4. ~past.crossed => IF Polled THEN job' = [on |-> TRUE, pace |-> pace] ELSE ~job'.on
    BY <2>1, <2>3 DEF Synced, NoJob
  <2>5. SUFFICES ASSUME ~past.crossed PROVE JobsAreDue'
    BY <2>1 DEF JobsAreDue
  <2>6. ASSUME NEW r \in Requests
        PROVE  /\ request'[r].phase = "idle" => request'[r] = Idle
               /\ request'[r].phase = "saved" => request'[r].pace \in {0, pace}
               /\ request'[r].phase = "read" => request'[r].wanted = Polled /\ request'[r].pace = pace
    <3>1. CASE r = q
      BY <2>2, <3>1 DEF Idle
    <3>2. CASE r # q
      BY <2>2, <2>5, <3>2 DEF JInv, JobsAreDue
    <3> QED
      BY <3>1, <3>2
  <2> QED
    BY <2>1, <2>4, <2>5, <2>6 DEF JobsAreDue, Polled
<1>7. CASE RestartSpark
  <2>1. /\ UNCHANGED <<row, pace>> /\ job' = Synced(Polled, pace)
        /\ request' = [q \in Requests |-> Idle]
    BY <1>7 DEF RestartSpark, Polled
  <2>2. IF Polled THEN job' = [on |-> TRUE, pace |-> pace] ELSE ~job'.on
    BY <2>1 DEF Synced, NoJob
  <2> QED
    BY <2>1, <2>2 DEF JobsAreDue, Polled, Idle
<1> QED
  BY <1>2, <1>3, <1>4, <1>5, <1>6, <1>7 DEF RequestStep

\* Nothing else touches the list, the interval or the jobs.
LEMMA StepKeepsJobs == JInv /\ [SnmpNext]_svars => JInv'
<1> SUFFICES ASSUME JInv, [SnmpNext]_svars PROVE JInv'
  OBVIOUS
<1> USE DEF JInv
<1>1. ASSUME UNCHANGED <<pace, job, request>>, row'.there = row.there, row'.enabled = row.enabled,
             past'.crossed = past.crossed
      PROVE  JobsAreDue'
  BY <1>1 DEF JobsAreDue, Polled
<1>2. CASE UNCHANGED svars
  BY <1>1, <1>2 DEF svars, world, config, data, extras, TInv, SnmpTypeOK, PollIsCurrent, CounterBits, Counter
<1>3. CASE BoxStep
  <2>1. past'.crossed = past.crossed
    BY <1>3 DEF BoxStep, Tick, Restart, SwapCounters, TInv, SnmpTypeOK
  <2> QED
    BY <1>1, <1>3, <2>1, BoxKeepsType
<1>4. CASE BeginPoll
  BY <1>1, <1>4, BeginPollKeepsType
<1>5. CASE RecordPoll
  <2>1. past'.crossed = past.crossed
    BY <1>5, RecordsPoll DEF Recorded
  <2> QED
    BY <1>1, <1>5, <2>1, RecordsPoll, RecordKeepsType
<1>6. CASE RequestStep
  BY <1>6, RequestsAside, RequestKeepsJobs
<1>7. CASE EditStep
  BY <1>1, <1>7, EditsAside
<1> QED
  BY <1>2, <1>3, <1>4, <1>5, <1>6, <1>7 DEF SnmpNext, BoxStep, RequestStep, EditStep

\* When no request is at work, and none crossed another, a device is polled if
\* and only if it is on the list and not paused, at the interval that is set.
THEOREM JobsFollow == SnmpSpec => []JobsFollowTheList
<1>1. SnmpInit => JInv
  <2> SUFFICES ASSUME SnmpInit PROVE JobsAreDue
    BY InitTypes DEF JInv
  <2>1. \A q \in Requests : request[q] = Idle
    BY DEF SnmpInit
  <2>2. IF Polled THEN job = [on |-> TRUE, pace |-> pace] ELSE ~job.on
    <3>1. CASE about = "jobs"
      <4>1. row = NoRow /\ job = NoJob
        BY <3>1, Zenon DEF SnmpInit
      <4> QED
        BY <4>1 DEF Polled, NoRow, NoJob
    <3>2. CASE about # "jobs"
      <4>1. row = [NoRow EXCEPT !.there = TRUE, !.enabled = TRUE] /\ job = [on |-> TRUE, pace |-> pace]
        BY <3>2, Zenon DEF SnmpInit
      <4> QED
        BY <4>1 DEF Polled, NoRow
    <3> QED
      BY <3>1, <3>2
  <2> QED
    BY <2>1, <2>2 DEF JobsAreDue, Idle
<1>2. JInv => JobsFollowTheList
  BY DEF JInv, JobsAreDue, JobsFollowTheList, Polled
<1> QED
  BY <1>1, <1>2, StepKeepsJobs, PTL DEF SnmpSpec

-----------------------------------------------------------------------------
(* The receiver. *)

\* The minutes of the run.
Times == 0 .. MaxMinute

\* Among some numbers there is a least one.
LEMMA LeastExists ==
  ASSUME NEW B, B \subseteq Nat, B # {} PROVE \E m \in B : \A n \in B : m <= n
<1> DEFINE R == OpToRel(<, Nat)
<1>1. PICK m \in B : \A n \in B : ~ (<<n, m>> \in R)
  <2>1. IsWellFoundedOn(R, Nat)
    BY NatLessThanWellFounded
  <2> HIDE DEF R
  <2> QED
    BY <2>1, WFMin
<1>2. R = {ss \in Nat \X Nat : ss[1] < ss[2]}
  BY Zenon DEF OpToRel
<1> HIDE DEF R
<1>3. \A n \in B : m <= n
  <2> SUFFICES ASSUME NEW n \in B PROVE m <= n
    OBVIOUS
  <2>1. m \in Nat /\ n \in Nat
    OBVIOUS
  <2>2. <<n, m>> \in Nat \X Nat => ~(n < m)
    BY <1>1, <1>2
  <2> QED
    BY <2>1, <2>2
<1> QED
  BY <1>3

\* The first and the last of some times are among them.
LEMMA EndsAreMembers ==
  ASSUME NEW T, T \subseteq Times, T # {} PROVE FirstOf(T) \in T /\ LastOf(T) \in T
<1> USE ReceiverAssumption DEF Times
<1>1. PICK f \in T : \A t \in T : f <= t
  <2>1. T \subseteq Nat
    OBVIOUS
  <2> QED
    BY <2>1, LeastExists
<1>2. PICK l \in T : \A t \in T : t <= l
  <2> DEFINE B == {MaxMinute - t : t \in T}
  <2>1. \A t \in T : MaxMinute - t \in Nat
    OBVIOUS
  <2>2. PICK m \in B : \A n \in B : m <= n
    <3>1. B \subseteq Nat /\ B # {}
      BY <2>1
    <3> HIDE DEF B
    <3> QED
      BY <3>1, LeastExists
  <2>3. PICK l \in T : m = MaxMinute - l
    BY <2>2
  <2>4. \A t \in T : MaxMinute - l <= MaxMinute - t
    BY <2>2, <2>3
  <2> HIDE DEF B
  <2>5. \A t \in T : t <= l
    BY <2>3, <2>4
  <2> QED
    BY <2>3, <2>5
<1>3. FirstOf(T) \in T
  BY <1>1, Zenon DEF FirstOf
<1>4. LastOf(T) \in T
  BY <1>2, Zenon DEF LastOf
<1> QED
  BY <1>3, <1>4

\* Some places of a sequence are a number.
LEMMA PlacesAreCounted ==
  ASSUME NEW d \in Seq(Datagram), NEW S, S \subseteq DOMAIN d PROVE Cardinality(S) \in Nat
<1>1. IsFiniteSet(DOMAIN d)
  <2>1. DOMAIN d = 1 .. Len(d) /\ Len(d) \in Nat
    OBVIOUS
  <2> QED
    BY <2>1, FS_Interval
<1> QED
  BY <1>1, FS_Subset, FS_CardinalityType

\* Places that are apart are no more than there are.
LEMMA PlacesApart ==
  ASSUME NEW d \in Seq(Datagram), NEW S, NEW T, S \subseteq DOMAIN d, T \subseteq DOMAIN d,
         S \cap T = {}
  PROVE  Cardinality(S) + Cardinality(T) <= Len(d)
<1>1. DOMAIN d = 1 .. Len(d) /\ Len(d) \in Nat
  OBVIOUS
<1>2. IsFiniteSet(DOMAIN d) /\ Cardinality(DOMAIN d) = Len(d)
  <2>1. 1 \in Int /\ Len(d) \in Int /\ (IF 1 > Len(d) THEN 0 ELSE Len(d) - 1 + 1) = Len(d)
    BY <1>1
  <2> QED
    BY <1>1, <2>1, FS_Interval
<1>3. IsFiniteSet(S) /\ IsFiniteSet(T)
  BY <1>2, FS_Subset
<1>4. /\ IsFiniteSet(S \cup T)
      /\ Cardinality(S \cup T) = Cardinality(S) + Cardinality(T) - Cardinality(S \cap T)
  BY <1>3, FS_Union
<1>5. Cardinality(S \cap T) = 0
  BY FS_EmptySet
<1>6. Cardinality(S \cup T) <= Cardinality(DOMAIN d)
  <2>1. S \cup T \subseteq DOMAIN d
    OBVIOUS
  <2> QED
    BY <1>2, <2>1, FS_Subset
<1>7. Cardinality(S) \in Nat /\ Cardinality(T) \in Nat
  BY <1>3, FS_CardinalityType
<1> QED
  BY <1>1, <1>2, <1>4, <1>5, <1>6, <1>7

\* What was matched last is what the state says; and an end that is being
\* written is one that was quiet, unless something crossed it.
QuietIsKnown ==
  /\ state.there => state.at = seen.matched
  /\ closing.on /\ closing.quiet /\ ~seen.crossed => minute - seen.matched >= QuietFor

KInv == ReceiverTypeOK /\ QuietIsKnown

\* The forms of the receiver's rows.
SeenType == [matched : -1 .. MaxMinute, fed : 0 .. MaxReceived, crossed : BOOLEAN]
StateType == [there : BOOLEAN, since : 0 .. MaxMinute, at : 0 .. MaxMinute, polls : Nat,
              notified : BOOLEAN]

CountsType == [received : Nat, stored : Nat, unknown : Nat, limited : Nat, unreadable : Nat]

\* What storing a batch writes.
LEMMA TakeWrites ==
  ASSUME KInv, EndTake
  PROVE  /\ batch' = NoBatch /\ UNCHANGED <<minute, device, rule, recent, queue, known, closing>>
         /\ counts' \in CountsType
         /\ \/ UNCHANGED <<state, incident, told, seen>>
            \/ /\ state' \in StateType /\ incident' \in BOOLEAN /\ told' \in {told, "start"}
               /\ state'.there /\ seen'.matched = state'.at /\ (seen'.crossed <=> seen.crossed \/ closing.on)
               /\ seen' \in SeenType
<1> DEFINE IsUnread(d)  == d.from = "device" /\ d.kind = "unreadable"
           IsKnown(d)   == d.from = "device" /\ batch.knows
           IsStored(d)  == IsKnown(d) /\ d.kind # "unreadable"
           IsMatch(d)   == IsStored(d) /\ Matches(d, batch.rule)
           stored  == Within(batch.has, IsStored)
           matched == {batch.has[i].at : i \in {j \in DOMAIN batch.has : IsMatch(batch.has[j])}}
           unread  == IF batch.knows THEN Within(batch.has, IsUnread) ELSE 0
           read    == [counts EXCEPT !.unknown = @ + Len(batch.has) - stored - unread,
                                     !.unreadable = @ + unread]
           n       == Within(batch.has, IsMatch)
<1>1. /\ batch' = NoBatch /\ UNCHANGED <<minute, device, rule, recent, queue, known, closing>>
      /\ \/ /\ counts' = [read EXCEPT !.stored = @ + stored]
            /\ IF matched = {} THEN UNCHANGED <<state, incident, told, seen>>
               ELSE \E quiet \in BOOLEAN :
                      /\ state' = Fired(n, matched, quiet)
                      /\ incident' = (incident \/ ~state.there)
                      /\ told' = IF ~state.there /\ ~quiet THEN "start" ELSE told
                      /\ seen' = [seen EXCEPT !.matched = LastOf(matched),
                                              !.crossed = @ \/ closing.on]
         \/ counts' = read /\ UNCHANGED <<state, incident, told, seen>>
  BY Zenon DEF EndTake
<1>2. batch.has \in Seq(Datagram)
  BY DEF KInv, ReceiverTypeOK
<1>3. n \in Nat /\ stored \in Nat /\ unread \in Nat /\ stored + unread <= Len(batch.has)
  <2> DEFINE A == {i \in DOMAIN batch.has : IsStored(batch.has[i])}
             B == {i \in DOMAIN batch.has : IsUnread(batch.has[i])}
             C == {i \in DOMAIN batch.has : IsMatch(batch.has[i])}
  <2>1. stored = Cardinality(A) /\ n = Cardinality(C) /\ unread = IF batch.knows THEN Cardinality(B) ELSE 0
    BY DEF Within
  <2>2. A \subseteq DOMAIN batch.has /\ B \subseteq DOMAIN batch.has /\ C \subseteq DOMAIN batch.has
        /\ A \cap B = {}
    OBVIOUS
  <2> HIDE DEF A, B, C, stored, n, unread
  <2>3. Cardinality(A) \in Nat /\ Cardinality(B) \in Nat /\ Cardinality(C) \in Nat
        /\ Cardinality(A) + Cardinality(B) <= Len(batch.has)
    BY <1>2, <2>2, PlacesAreCounted, PlacesApart
  <2>4. Len(batch.has) \in Nat
    BY <1>2
  <2> QED
    BY <2>1, <2>3, <2>4
<1>4. matched \subseteq Times
  <2>1. \A i \in DOMAIN batch.has : batch.has[i].at \in Times
    <3>1. \A i \in DOMAIN batch.has : batch.has[i] \in Datagram
      BY <1>2
    <3> QED
      BY <3>1 DEF Datagram, Times
  <2> QED
    BY <2>1
<1> HIDE DEF stored, unread, n, matched
<1>5. read \in CountsType /\ [read EXCEPT !.stored = @ + stored] \in CountsType
  <2>1. counts \in CountsType /\ Len(batch.has) \in Nat
    <3>1. counts \in CountsType
      BY Zenon DEF KInv, ReceiverTypeOK, CountsType
    <3> QED
      BY <1>2, <3>1
  <2>2. /\ counts.unknown + Len(batch.has) - stored - unread \in Nat
        /\ counts.unreadable + unread \in Nat
    <3>1. counts.unknown \in Nat /\ counts.unreadable \in Nat
      BY <2>1 DEF CountsType
    <3> HIDE DEF read
    <3> QED
      BY <1>3, <2>1, <3>1
  <2>3. read \in CountsType
    BY <2>1, <2>2 DEF CountsType
  <2> HIDE DEF read
  <2>4. read.stored + stored \in Nat
    BY <1>3, <2>3 DEF CountsType
  <2> QED
    BY <2>3, <2>4 DEF CountsType
<1> HIDE DEF read
<1>6. counts' \in CountsType
  BY <1>1, <1>5
<1>7. ASSUME NEW quiet \in BOOLEAN, matched # {}, state' = Fired(n, matched, quiet)
      PROVE  state' \in StateType /\ state'.there /\ state'.at = LastOf(matched)
  <2>1. FirstOf(matched) \in Times /\ LastOf(matched) \in Times
    BY <1>4, <1>7, EndsAreMembers
  <2>2. state \in StateType
    BY DEF KInv, ReceiverTypeOK, StateType
  <2>3. CASE state.there
    <3>1. state' = [state EXCEPT !.polls = @ + n, !.at = LastOf(matched)]
      BY <1>7, <2>3 DEF Fired
    <3> DEFINE l == LastOf(matched)
    <3>2. l \in 0 .. MaxMinute
      BY <2>1 DEF Times
    <3> HIDE DEF l
    <3>3. state' = [there |-> TRUE, since |-> state.since, at |-> l, polls |-> state.polls + n,
                    notified |-> state.notified]
      BY <2>2, <2>3, <3>1 DEF StateType, l
    <3>4. state' \in StateType
      BY <1>3, <2>2, <3>2, <3>3 DEF StateType
    <3> QED
      BY <3>3, <3>4 DEF l
  <2>4. CASE ~state.there
    BY <1>3, <1>7, <2>1, <2>4 DEF Fired, StateType, Times
  <2> QED
    BY <2>3, <2>4
<1>8. CASE UNCHANGED <<state, incident, told, seen>>
  BY <1>1, <1>6, <1>8
<1>9. ASSUME matched # {}, NEW quiet \in BOOLEAN,
             /\ state' = Fired(n, matched, quiet)
             /\ incident' = (incident \/ ~state.there)
             /\ told' = IF ~state.there /\ ~quiet THEN "start" ELSE told
             /\ seen' = [seen EXCEPT !.matched = LastOf(matched), !.crossed = @ \/ closing.on]
      PROVE  /\ state' \in StateType /\ incident' \in BOOLEAN /\ told' \in {told, "start"}
             /\ state'.there /\ seen'.matched = state'.at /\ (seen'.crossed <=> seen.crossed \/ closing.on)
             /\ seen' \in SeenType
  <2>1. state' \in StateType /\ state'.there /\ state'.at = LastOf(matched)
    BY <1>7, <1>9
  <2>2. incident' \in BOOLEAN
    BY <1>9
  <2>3. told' \in {told, "start"}
    BY <1>9
  <2> DEFINE x == seen.crossed \/ closing.on
  <2>4. x \in BOOLEAN /\ seen' = [seen EXCEPT !.matched = LastOf(matched), !.crossed = x]
    BY <1>9, Zenon
  <2>5. seen \in SeenType /\ LastOf(matched) \in -1 .. MaxMinute
    <3>1. LastOf(matched) \in Times
      BY <1>4, <1>9, EndsAreMembers
    <3>2. LastOf(matched) \in -1 .. MaxMinute
      BY <3>1, ReceiverAssumption DEF Times
    <3>3. seen \in SeenType
      BY DEF KInv, ReceiverTypeOK, SeenType
    <3> QED
      BY <3>2, <3>3
  <2> HIDE DEF x
  <2>6. seen' \in SeenType /\ seen'.matched = LastOf(matched) /\ seen'.crossed = x
    BY <2>4, <2>5 DEF SeenType
  <2> QED
    BY <2>1, <2>2, <2>3, <2>6 DEF x
<1> QED
  BY <1>1, <1>6, <1>8, <1>9

\* The step of QuietIsTrue.
QuietStep == told' = "quiet" /\ told # "quiet" /\ ~seen.crossed => minute - seen.matched >= QuietFor

\* A batch that is stored puts off the end, or crosses one that is being written.
LEMMA TakeIsKnown == ASSUME KInv, EndTake PROVE KInv' /\ QuietStep
<1>1. /\ batch' = NoBatch /\ UNCHANGED <<minute, device, rule, recent, queue, known, closing>>
      /\ counts' \in CountsType
  BY TakeWrites
<1>2. NoBatch \in [on : BOOLEAN, has : Seq(Datagram), rule : BOOLEAN, knows : BOOLEAN]
  BY DEF NoBatch
<1>3. CASE UNCHANGED <<state, incident, told, seen>>
  BY <1>1, <1>2, <1>3 DEF KInv, ReceiverTypeOK, QuietIsKnown, QuietStep, CountsType
<1>4. CASE /\ state' \in StateType /\ incident' \in BOOLEAN /\ told' \in {told, "start"}
           /\ state'.there /\ seen'.matched = state'.at /\ (seen'.crossed <=> seen.crossed \/ closing.on)
           /\ seen' \in SeenType
  <2>1. ReceiverTypeOK'
    <3>1. /\ minute' \in 0 .. MaxMinute
          /\ device' \in [is : {"there", "elsewhere", "gone"}, changes : 0 .. MaxChanges]
          /\ rule' \in [there : BOOLEAN, enabled : BOOLEAN]
          /\ recent' \in [Senders -> 0 .. Share]
          /\ queue' \in Seq(Datagram) /\ Len(queue') <= QueueSize
          /\ known' \in [device : BOOLEAN, at : 0 .. MaxMinute, read : BOOLEAN]
          /\ closing' \in [on : BOOLEAN, quiet : BOOLEAN]
      BY <1>1, Zenon DEF KInv, ReceiverTypeOK
    <3>2. batch' \in [on : BOOLEAN, has : Seq(Datagram), rule : BOOLEAN, knows : BOOLEAN]
      BY <1>1, <1>2, Zenon
    <3>3. told' \in {"nothing", "start", "quiet"}
      <4>1. told \in {"nothing", "start", "quiet"}
        BY DEF KInv, ReceiverTypeOK
      <4> QED
        BY <1>4, <4>1
    <3> QED
      BY <1>1, <1>4, <3>1, <3>2, <3>3, Zenon DEF ReceiverTypeOK, CountsType, StateType, SeenType
  <2>2. QuietIsKnown'
    BY <1>1, <1>4 DEF QuietIsKnown
  <2> QED
    BY <1>4, <2>1, <2>2 DEF KInv, QuietStep
<1> QED
  BY <1>3, <1>4, TakeWrites

\* Time only makes the quiet longer.
LEMMA MinuteIsKnown == ASSUME KInv, Minute PROVE KInv' /\ QuietStep
<1>1. /\ minute' = minute + 1 /\ minute < MaxMinute /\ recent' = [s \in Senders |-> 0]
      /\ UNCHANGED <<device, rule, queue, known, batch, closing, state, incident, counts, told, seen>>
  BY DEF Minute
<1>2. minute' \in 0 .. MaxMinute /\ recent' \in [Senders -> 0 .. Share]
  BY <1>1, ReceiverAssumption DEF KInv, ReceiverTypeOK
<1>3. minute \in Int /\ seen.matched \in Int /\ QuietFor \in Int
  BY ReceiverAssumption DEF KInv, ReceiverTypeOK
<1>4. QuietIsKnown'
  BY <1>1, <1>3 DEF KInv, QuietIsKnown
<1> QED
  BY <1>1, <1>2, <1>4 DEF KInv, ReceiverTypeOK, QuietStep

\* What arrives waits.
LEMMA FeedIsKnown == ASSUME KInv, NEW s \in Senders, NEW k \in Kinds, Feed(s, k) PROVE KInv' /\ QuietStep
<1>1. /\ UNCHANGED <<minute, device, rule, known, batch, closing, state, incident, told>>
      /\ seen.fed < MaxReceived /\ seen' = [seen EXCEPT !.fed = @ + 1]
  BY DEF Feed
<1>2. /\ seen' \in SeenType /\ seen'.matched = seen.matched /\ seen'.crossed = seen.crossed
  <2>1. seen \in SeenType
    BY Zenon DEF KInv, ReceiverTypeOK, SeenType
  <2>2. seen.fed + 1 \in 0 .. MaxReceived
    BY <1>1, <2>1, ReceiverAssumption DEF SeenType
  <2> QED
    BY <1>1, <2>1, <2>2 DEF SeenType
<1>3. recent' \in [Senders -> 0 .. Share]
  <2>1. recent \in [Senders -> 0 .. Share]
    BY DEF KInv, ReceiverTypeOK
  <2>2. CASE recent' = recent
    BY <2>1, <2>2
  <2>3. CASE recent[s] < Share /\ recent' = [recent EXCEPT ![s] = @ + 1]
    BY <2>1, <2>3, ReceiverAssumption
  <2> QED
    BY <2>2, <2>3 DEF Feed
<1>4. queue' \in Seq(Datagram) /\ Len(queue') <= QueueSize
  <2>1. queue \in Seq(Datagram) /\ Len(queue) <= QueueSize /\ minute \in 0 .. MaxMinute
    BY DEF KInv, ReceiverTypeOK
  <2> DEFINE d == [from |-> s, kind |-> k, at |-> minute]
  <2>2. d \in Datagram
    BY <2>1 DEF Datagram
  <2>3. \/ queue' = queue
        \/ Len(queue) < QueueSize /\ queue' = Append(queue, d)
    BY DEF Feed
  <2> HIDE DEF d
  <2>4. Len(queue) \in Nat /\ QueueSize \in Nat
    BY <2>1, ReceiverAssumption
  <2> QED
    BY <2>1, <2>2, <2>3, <2>4, AppendProperties
<1>5. counts' \in CountsType
  <2>1. counts \in CountsType
    BY DEF KInv, ReceiverTypeOK, CountsType
  <2>2. counts' = [counts EXCEPT !.received = @ + 1,
                                 !.limited = IF Refused(s) THEN @ + 1 ELSE @]
    BY DEF Feed
  <2> DEFINE x == IF Refused(s) THEN counts.limited + 1 ELSE counts.limited
  <2>3. x \in Nat
    BY <2>1 DEF CountsType
  <2>4. counts' = [counts EXCEPT !.received = @ + 1, !.limited = x]
    BY <2>2, Zenon
  <2> HIDE DEF x
  <2>5. counts' = [received |-> counts.received + 1, stored |-> counts.stored,
                   unknown |-> counts.unknown, limited |-> x, unreadable |-> counts.unreadable]
    BY <2>1, <2>4 DEF CountsType
  <2> QED
    BY <2>1, <2>3, <2>5 DEF CountsType
<1> QED
  BY <1>1, <1>2, <1>3, <1>4, <1>5
  DEF KInv, ReceiverTypeOK, QuietIsKnown, QuietStep, CountsType, SeenType

\* A batch that is begun has matched nothing yet.
LEMMA BeginTakeIsKnown == ASSUME KInv, BeginTake PROVE KInv' /\ QuietStep
<1> DEFINE n == Smaller(Batch, Len(queue))
<1>1. /\ UNCHANGED <<minute, device, rule, recent, closing, state, incident, counts, told, seen>>
      /\ known' = IF Fresh THEN known ELSE [device |-> device.is = "there", at |-> minute, read |-> TRUE]
      /\ batch' = [on |-> TRUE, has |-> SubSeq(queue, 1, n),
                   rule |-> rule.there /\ rule.enabled, knows |-> known'.device]
      /\ queue' = SubSeq(queue, n + 1, Len(queue))
  BY DEF BeginTake
<1>2. known' \in [device : BOOLEAN, at : 0 .. MaxMinute, read : BOOLEAN]
  <2>1. /\ known \in [device : BOOLEAN, at : 0 .. MaxMinute, read : BOOLEAN]
        /\ minute \in 0 .. MaxMinute
    BY Zenon DEF KInv, ReceiverTypeOK
  <2>2. (device.is = "there") \in BOOLEAN
    OBVIOUS
  <2>3. known' = known \/ known' = [device |-> device.is = "there", at |-> minute, read |-> TRUE]
    BY <1>1, Zenon
  <2>4. [device |-> device.is = "there", at |-> minute, read |-> TRUE]
          \in [device : BOOLEAN, at : 0 .. MaxMinute, read : BOOLEAN]
    BY <2>1, <2>2
  <2> QED
    BY <2>1, <2>3, <2>4, Zenon
<1>3. queue \in Seq(Datagram) /\ Len(queue) \in Nat /\ Len(queue) <= QueueSize /\ n \in Nat
      /\ n <= Len(queue)
  <2>1. queue \in Seq(Datagram) /\ Len(queue) <= QueueSize
    BY Zenon DEF KInv, ReceiverTypeOK
  <2>2. Len(queue) \in Nat
    BY <2>1
  <2> QED
    BY <2>1, <2>2, ReceiverAssumption DEF Smaller
<1> HIDE DEF n
<1>4. SubSeq(queue, 1, n) \in Seq(Datagram)
  BY <1>3
<1>5. SubSeq(queue, n + 1, Len(queue)) \in Seq(Datagram)
      /\ Len(SubSeq(queue, n + 1, Len(queue))) <= QueueSize
  BY <1>3, ReceiverAssumption
<1>6. batch' \in [on : BOOLEAN, has : Seq(Datagram), rule : BOOLEAN, knows : BOOLEAN]
  <2>1. (rule.there /\ rule.enabled) \in BOOLEAN /\ known'.device \in BOOLEAN
    BY <1>2
  <2> QED
    BY <1>1, <1>4, <2>1
<1>7. queue' \in Seq(Datagram) /\ Len(queue') <= QueueSize
  BY <1>1, <1>5, Zenon
<1>8. ReceiverTypeOK'
  <2>1. /\ minute' \in 0 .. MaxMinute
        /\ device' \in [is : {"there", "elsewhere", "gone"}, changes : 0 .. MaxChanges]
        /\ rule' \in [there : BOOLEAN, enabled : BOOLEAN]
        /\ recent' \in [Senders -> 0 .. Share]
        /\ closing' \in [on : BOOLEAN, quiet : BOOLEAN]
    BY <1>1, Zenon DEF KInv, ReceiverTypeOK
  <2>2. /\ state' \in StateType /\ incident' \in BOOLEAN /\ counts' \in CountsType
        /\ told' \in {"nothing", "start", "quiet"} /\ seen' \in SeenType
    <3>1. /\ state \in StateType /\ incident \in BOOLEAN /\ counts \in CountsType
          /\ told \in {"nothing", "start", "quiet"} /\ seen \in SeenType
      BY Zenon DEF KInv, ReceiverTypeOK, StateType, CountsType, SeenType
    <3> QED
      BY <1>1, <3>1, Zenon
  <2> QED
    BY <1>2, <1>6, <1>7, <2>1, <2>2, Zenon DEF ReceiverTypeOK, StateType, CountsType, SeenType
<1>9. QuietIsKnown'
  BY <1>1, Zenon DEF KInv, QuietIsKnown
<1>10. QuietStep
  BY <1>1, Zenon DEF QuietStep
<1> QED
  BY <1>8, <1>9, <1>10, Zenon DEF KInv

\* An end is begun where it was quiet, and said only then.
LEMMA ClosingIsKnown == ASSUME KInv, BeginClose \/ EndClose PROVE KInv' /\ QuietStep
<1>1. CASE BeginClose
  <2>1. /\ UNCHANGED <<minute, device, rule, recent, queue, known, batch, state, incident, counts, told>>
        /\ state.there /\ (~rule.there \/ minute - state.at >= QuietFor)
        /\ closing' = [on |-> TRUE, quiet |-> rule.there]
        /\ seen' = [seen EXCEPT !.crossed = FALSE]
    BY <1>1 DEF BeginClose
  <2>2. seen' \in SeenType /\ seen'.matched = seen.matched
    BY <2>1 DEF KInv, ReceiverTypeOK, SeenType
  <2>3. closing' \in [on : BOOLEAN, quiet : BOOLEAN] /\ closing'.quiet = rule.there
    BY <2>1 DEF KInv, ReceiverTypeOK
  <2>4. QuietIsKnown'
    BY <2>1, <2>2, <2>3 DEF KInv, QuietIsKnown
  <2> QED
    BY <2>1, <2>2, <2>3, <2>4 DEF KInv, ReceiverTypeOK, SeenType, QuietStep
<1>2. CASE EndClose
  <2>1. /\ closing.on /\ closing' = [on |-> FALSE, quiet |-> FALSE]
        /\ UNCHANGED <<minute, device, rule, recent, queue, known, batch, counts, seen>>
        /\ \/ /\ state' = NoState /\ incident' = FALSE
              /\ \/ told' = told
                 \/ closing.quiet /\ told' = "quiet"
           \/ UNCHANGED <<state, incident, told>>
    BY <1>2 DEF EndClose
  <2>2. NoState \in StateType /\ ~NoState.there
    BY ReceiverAssumption DEF NoState, StateType
  <2>3. ReceiverTypeOK'
    <3>1. closing' \in [on : BOOLEAN, quiet : BOOLEAN]
      BY <2>1
    <3>2. state' \in StateType
      BY <2>1, <2>2, Zenon DEF KInv, ReceiverTypeOK, StateType
    <3>3. incident' \in BOOLEAN
      BY <2>1, Zenon DEF KInv, ReceiverTypeOK
    <3>4. told' \in {"nothing", "start", "quiet"}
      <4>1. told \in {"nothing", "start", "quiet"}
        BY Zenon DEF KInv, ReceiverTypeOK
      <4> QED
        BY <2>1, <4>1
    <3>5. /\ minute' \in 0 .. MaxMinute
          /\ device' \in [is : {"there", "elsewhere", "gone"}, changes : 0 .. MaxChanges]
          /\ rule' \in [there : BOOLEAN, enabled : BOOLEAN]
          /\ recent' \in [Senders -> 0 .. Share]
          /\ queue' \in Seq(Datagram) /\ Len(queue') <= QueueSize
          /\ known' \in [device : BOOLEAN, at : 0 .. MaxMinute, read : BOOLEAN]
          /\ batch' \in [on : BOOLEAN, has : Seq(Datagram), rule : BOOLEAN, knows : BOOLEAN]
      BY <2>1, Zenon DEF KInv, ReceiverTypeOK
    <3>6. counts' \in CountsType /\ seen' \in SeenType
      BY <2>1, Zenon DEF KInv, ReceiverTypeOK, CountsType, SeenType
    <3> QED
      BY <3>1, <3>2, <3>3, <3>4, <3>5, <3>6, Zenon DEF ReceiverTypeOK, StateType, CountsType, SeenType
  <2>4. QuietIsKnown'
    <3>1. ~closing'.on
      BY <2>1
    <3>2. state' = state \/ ~state'.there
      BY <2>1, <2>2, Zenon
    <3>3. seen' = seen
      BY <2>1, Zenon
    <3> QED
      BY <3>1, <3>2, <3>3, Zenon DEF KInv, QuietIsKnown
  <2>5. QuietStep
    <3>1. CASE told' = told
      BY <3>1, Zenon DEF QuietStep
    <3>2. CASE told' # told
      <4>1. closing.on /\ closing.quiet
        BY <2>1, <3>2
      <4> QED
        BY <4>1, Zenon DEF KInv, QuietIsKnown, QuietStep
    <3> QED
      BY <3>1, <3>2, Zenon
  <2> QED
    BY <2>3, <2>4, <2>5, Zenon DEF KInv
<1> QED
  BY <1>1, <1>2

\* Changes of the device and the rule, and a restart, say nothing.
LEMMA ChangesAreKnown ==
  ASSUME KInv, ChangeDevice \/ AddRule \/ ToggleRule \/ DeleteRule \/ RestartReceiver
  PROVE  KInv' /\ QuietStep
<1>1. /\ UNCHANGED <<minute, state, told, seen>>
      /\ closing' = closing \/ ~closing'.on
  BY DEF ChangeDevice, Changes, ChangeRule, AddRule, ToggleRule, DeleteRule, RestartReceiver
<1>2. device' \in [is : {"there", "elsewhere", "gone"}, changes : 0 .. MaxChanges]
  <2>1. device \in [is : {"there", "elsewhere", "gone"}, changes : 0 .. MaxChanges]
    BY DEF KInv, ReceiverTypeOK
  <2>2. device.changes < MaxChanges
    BY DEF ChangeDevice, Changes, ChangeRule, AddRule, ToggleRule, DeleteRule, RestartReceiver
  <2>3. device.changes + 1 \in 0 .. MaxChanges
    BY <2>1, <2>2, ReceiverAssumption
  <2>4. \/ \E to \in {"there", "elsewhere", "gone"} : device' = [is |-> to, changes |-> device.changes + 1]
        \/ device' = [device EXCEPT !.changes = @ + 1]
    BY DEF ChangeDevice, ChangeRule, AddRule, ToggleRule, DeleteRule, RestartReceiver
  <2> QED
    BY <2>1, <2>3, <2>4
<1>3. rule' \in [there : BOOLEAN, enabled : BOOLEAN]
  <2>1. rule \in [there : BOOLEAN, enabled : BOOLEAN]
    BY DEF KInv, ReceiverTypeOK
  <2>2. \/ rule' \in {rule, [there |-> TRUE, enabled |-> TRUE], [there |-> FALSE, enabled |-> FALSE]}
        \/ rule' = [rule EXCEPT !.enabled = ~@]
    <3>1. ChangeDevice \/ RestartReceiver => rule' = rule
      BY DEF ChangeDevice, RestartReceiver
    <3>2. AddRule => rule' = [there |-> TRUE, enabled |-> TRUE]
      BY DEF AddRule, ChangeRule
    <3>3. ToggleRule => rule' = [rule EXCEPT !.enabled = ~@]
      BY Zenon DEF ToggleRule, ChangeRule
    <3>4. DeleteRule => rule' = [there |-> FALSE, enabled |-> FALSE]
      BY DEF DeleteRule, ChangeRule
    <3> QED
      BY <3>1, <3>2, <3>3, <3>4, Zenon
  <2> DEFINE x == ~rule.enabled
  <2>3. CASE rule' = [rule EXCEPT !.enabled = ~@]
    <3>1. x \in BOOLEAN /\ rule' = [rule EXCEPT !.enabled = x]
      BY <2>3, Zenon
    <3> HIDE DEF x
    <3>2. rule' = [there |-> rule.there, enabled |-> x]
      BY <2>1, <3>1
    <3>3. rule.there \in BOOLEAN
      BY <2>1
    <3> QED
      BY <3>1, <3>2, <3>3, Zenon
  <2>4. CASE rule' \in {rule, [there |-> TRUE, enabled |-> TRUE], [there |-> FALSE, enabled |-> FALSE]}
    <3>1. /\ [there |-> TRUE, enabled |-> TRUE] \in [there : BOOLEAN, enabled : BOOLEAN]
          /\ [there |-> FALSE, enabled |-> FALSE] \in [there : BOOLEAN, enabled : BOOLEAN]
      OBVIOUS
    <3> QED
      BY <2>1, <2>4, <3>1, Zenon
  <2> QED
    BY <2>2, <2>3, <2>4, Zenon
<1>4. /\ recent' \in [Senders -> 0 .. Share] /\ incident' \in BOOLEAN
      /\ counts' \in CountsType
      /\ known' \in [device : BOOLEAN, at : 0 .. MaxMinute, read : BOOLEAN]
      /\ closing' \in [on : BOOLEAN, quiet : BOOLEAN]
  <2>1. CASE RestartReceiver
    BY <2>1, ReceiverAssumption DEF RestartReceiver, KInv, ReceiverTypeOK, NoCounts, CountsType
  <2>2. CASE ChangeDevice \/ AddRule \/ ToggleRule \/ DeleteRule
    <3>1. UNCHANGED <<recent, counts, known, closing>> /\ incident' \in BOOLEAN
      BY <2>2 DEF ChangeDevice, Changes, ChangeRule, AddRule, ToggleRule, DeleteRule, KInv, ReceiverTypeOK
    <3> QED
      BY <3>1 DEF KInv, ReceiverTypeOK, CountsType
  <2> QED
    BY <2>1, <2>2
<1>5. /\ queue' \in Seq(Datagram) /\ Len(queue') <= QueueSize
      /\ batch' \in [on : BOOLEAN, has : Seq(Datagram), rule : BOOLEAN, knows : BOOLEAN]
  <2>1. CASE RestartReceiver
    BY <2>1, ReceiverAssumption DEF RestartReceiver, NoBatch
  <2>2. CASE UNCHANGED <<queue, batch>>
    BY <2>2 DEF KInv, ReceiverTypeOK
  <2> QED
    BY <2>1, <2>2 DEF ChangeDevice, Changes, ChangeRule, AddRule, ToggleRule, DeleteRule
<1> QED
  BY <1>1, <1>2, <1>3, <1>4, <1>5 DEF KInv, ReceiverTypeOK, QuietIsKnown, QuietStep, CountsType

\* Every step keeps it.
LEMMA StepIsKnown == ASSUME KInv, [ReceiverNext]_rvars PROVE KInv' /\ QuietStep
<1>1. CASE UNCHANGED rvars
  BY <1>1 DEF rvars, KInv, ReceiverTypeOK, QuietIsKnown, QuietStep
<1> QED
  BY <1>1, MinuteIsKnown, FeedIsKnown, BeginTakeIsKnown, TakeIsKnown, ClosingIsKnown, ChangesAreKnown
  DEF ReceiverNext

\* Nothing is told at first.
LEMMA InitIsKnown == ReceiverInit => KInv
<1> SUFFICES ASSUME ReceiverInit PROVE KInv
  OBVIOUS
<1>1. ReceiverTypeOK
  <2>1. /\ minute \in 0 .. MaxMinute
        /\ device \in [is : {"there", "elsewhere", "gone"}, changes : 0 .. MaxChanges]
        /\ rule \in [there : BOOLEAN, enabled : BOOLEAN]
        /\ recent \in [Senders -> 0 .. Share]
        /\ known \in [device : BOOLEAN, at : 0 .. MaxMinute, read : BOOLEAN]
        /\ closing \in [on : BOOLEAN, quiet : BOOLEAN]
    BY ReceiverAssumption DEF ReceiverInit
  <2>2. queue \in Seq(Datagram) /\ Len(queue) <= QueueSize
    BY ReceiverAssumption DEF ReceiverInit
  <2>3. batch \in [on : BOOLEAN, has : Seq(Datagram), rule : BOOLEAN, knows : BOOLEAN]
    BY DEF ReceiverInit, NoBatch
  <2>4. state \in StateType
    BY ReceiverAssumption DEF ReceiverInit, NoState, StateType
  <2>5. counts \in CountsType
    BY DEF ReceiverInit, NoCounts, CountsType
  <2>6. seen \in SeenType
    BY ReceiverAssumption DEF ReceiverInit, SeenType
  <2>7. incident \in BOOLEAN /\ told \in {"nothing", "start", "quiet"}
    BY DEF ReceiverInit
  <2> QED
    BY <2>1, <2>2, <2>3, <2>4, <2>5, <2>6, <2>7, Zenon DEF ReceiverTypeOK, StateType, CountsType, SeenType
<1>2. QuietIsKnown
  BY DEF ReceiverInit, QuietIsKnown, NoState
<1> QED
  BY <1>1, <1>2 DEF KInv

\* The rows of the receiver keep their form: the queue never grows past its
\* size, nor a sender past its share (receiver.py Receiver.feed).
THEOREM ReceiverTypeCorrect == ReceiverSpec => []ReceiverTypeOK
<1>1. KInv => ReceiverTypeOK
  BY DEF KInv
<1>2. KInv /\ [ReceiverNext]_rvars => KInv'
  BY StepIsKnown
<1> QED
  BY InitIsKnown, <1>1, <1>2, PTL DEF ReceiverSpec

\* "None for N minutes" is said only when none was stored and matched, through
\* any batches, restarts and changes (receiver.py housekeeping, expire).
THEOREM QuietIsSaidTruly == ReceiverSpec => QuietIsTrue
<1>1. KInv /\ [ReceiverNext]_rvars => KInv' /\ [QuietStep]_rvars
  BY StepIsKnown
<1>2. [QuietStep]_rvars =>
        [told' = "quiet" /\ told # "quiet" /\ ~seen.crossed => minute - seen.matched >= QuietFor]_rvars
  BY DEF QuietStep
<1> QED
  BY InitIsKnown, <1>1, <1>2, PTL DEF ReceiverSpec, QuietIsTrue

-----------------------------------------------------------------------------
(* What APIs and SNMP answer, and what is made of it.                       *)
(*                                                                          *)
(* A check judges the row it read.  As long as nothing was changed          *)
(* meanwhile that is the row there is, and what is stored of the thing is   *)
(* the last the box said of it.                                             *)

\* A check in flight has the row there is, or something crossed it.
RowsInHand ==
  ~crossed => \A by \in By : check[by].on => cred.there /\ check[by].row = cred

\* The scheduler asks a box only with its certificate trusted.
AsksTheTrusted ==
  IsApi /\ check["job"].on => check["job"].row.cert

\* What is stored of the thing is what the box said last, if it said anything.
StoredIsHeard ==
  ~crossed => cred.reads \in {NoRead, "silent"} \/ heard = cred.reads

\* Only what can be said of the thing is stored of it.
StoredIsSaid ==
  /\ cred.reads \in Says(thing) \cup {NoRead}
  /\ \A by \in By : check[by].row.reads \in Says(thing) \cup {NoRead}

WInv ==
  IntegrationsTypeOK /\ StoredIsSaid /\ RowsInHand /\ AsksTheTrusted /\ StoredIsHeard /\ AlertIsWatched

\* What ends an alert, said of the thing.
AllClear(said) == said \in {"good", "gone"} \/ (thing = "storage" /\ said = "inactive")

\* An alert of the thing goes out only at the box's word.
ClearedStep ==
  alarm.fired /\ ~alarm'.fired /\ check' # check /\ ~crossed => AllClear(heard')

\* A rule's state is one whatever the reading; one that stands, stands through
\* a bad one.
LEMMA SteppedIs ==
  ASSUME NEW a \in AlarmOf, NEW said, NEW needs \in {1, 2}, NEW gap \in BOOLEAN
  PROVE  /\ Stepped(a, said, needs, gap) \in AlarmOf
         /\ a.fired /\ said \in {"bad", "band"} => Stepped(a, said, needs, gap).fired
         /\ Stepped(a, said, needs, gap).fired => a.fired \/ said = "bad"
<1> DEFINE was == IF gap /\ ~a.fired THEN NoAlarm ELSE a
<1>1. was \in AlarmOf /\ (a.fired => was = a) /\ (was.fired <=> a.fired)
  BY DEF AlarmOf, NoAlarm
<1> HIDE DEF was
<1> DEFINE n == IF was.polls < needs THEN was.polls + 1 ELSE needs
<1>2. n \in 0 .. 2
  BY <1>1 DEF AlarmOf
<1>3. Stepped(a, said, needs, gap) =
        CASE said = "bad"             -> [polls |-> n, fired |-> was.fired \/ n >= needs]
          [] said = "band" /\ a.fired -> a
          [] OTHER                    -> NoAlarm
  BY DEF Stepped, was
<1> HIDE DEF n
<1>5. CASE said = "bad"
  <2> DEFINE f == was.fired \/ n >= needs
  <2>1. Stepped(a, said, needs, gap) = [polls |-> n, fired |-> f]
    BY <1>3, <1>5
  <2>2. f \in BOOLEAN /\ (a.fired => f)
    BY <1>1, Zenon
  <2> HIDE DEF f
  <2> QED
    BY <1>2, <1>5, <2>1, <2>2 DEF AlarmOf
<1>6. CASE said = "band" /\ a.fired
  BY <1>3, <1>6
<1>7. CASE said # "bad" /\ ~(said = "band" /\ a.fired)
  BY <1>3, <1>7 DEF NoAlarm, AlarmOf
<1> QED
  BY <1>5, <1>6, <1>7

\* What is judged of a row keeps its form; an alert that stands goes out only
\* if the row says so, or is of a guest nobody watches; and none begins of such
\* a guest.
LEMMA JudgedIs ==
  ASSUME IntegrationsTypeOK, NEW entry \in Credential, NEW gap \in BOOLEAN, NEW reply,
         reply \in Said => entry.reads = reply,
         entry.reads \in Says(thing) \cup {NoRead}
  PROVE  /\ Judged(entry, reply, gap) \in AlarmOf
         /\ alarm.fired /\ ~Judged(entry, reply, gap).fired =>
              AllClear(entry.reads) \/ (thing = "guest" /\ ~entry.options.watched)
         /\ thing = "guest" /\ ~entry.options.watched => ~Judged(entry, reply, gap).fired
<1>1. /\ alarm \in AlarmOf /\ NoAlarm \in AlarmOf /\ ~NoAlarm.fired
      /\ entry.options.watched \in BOOLEAN /\ thing \in Things
  BY DEF IntegrationsTypeOK, AlarmOf, NoAlarm, Credential
<1> DEFINE S(said, needs) == Stepped(alarm, said, needs, gap)
<1>2. ASSUME NEW said, NEW needs \in {1, 2}
      PROVE  /\ S(said, needs) \in AlarmOf
             /\ alarm.fired /\ said \in {"bad", "band"} => S(said, needs).fired
  BY <1>1, SteppedIs
<1> HIDE DEF S
<1>3. CASE entry.reads = NoRead /\ (thing # "guest" \/ entry.options.watched)
  BY <1>1, <1>3 DEF Judged
<1>4. CASE thing = "guest" /\ (entry.reads # NoRead \/ ~entry.options.watched)
  <2>1. Judged(entry, reply, gap) = JudgedGuest(entry.reads, entry.options.watched, gap)
    BY <1>4 DEF Judged, IsApi, OnNode
  <2>3. JudgedGuest(entry.reads, entry.options.watched, gap)
          = IF entry.options.watched
            THEN S(IF Dropped(entry.reads) THEN "bad" ELSE entry.reads, 2) ELSE NoAlarm
    BY DEF JudgedGuest, S
  <2>2. entry.options.watched => entry.reads \in {"bad", "good", "gone"}
    BY <1>1, <1>4 DEF Says, OnNode
  <2> QED
    BY <1>1, <1>2, <1>4, <2>1, <2>2, <2>3 DEF AllClear, Dropped
<1>5. CASE thing \in OnNode /\ entry.reads # NoRead
  <2>1. Judged(entry, reply, gap) =
          IF entry.reads \in {"gone", "silent", "inactive"}
          THEN IF reply \in {"gone", "inactive"} THEN NoAlarm ELSE alarm
          ELSE S(entry.reads, IF thing = "storage" THEN 2 ELSE 1)
    BY <1>5 DEF Judged, JudgedOnNode, Dropped, S, IsApi, OnNode
  <2>2. /\ entry.reads \in {"bad", "band", "good", "gone", "silent", "inactive"}
        /\ entry.reads = "inactive" => thing = "storage"
    BY <1>5 DEF Says, OnNode
  <2>3. CASE entry.reads \in {"gone", "silent", "inactive"}
    <3>1. reply \in {"gone", "inactive"} => entry.reads = reply
      BY DEF Said
    <3> QED
      BY <1>1, <1>5, <2>1, <2>2, <2>3, <3>1 DEF AllClear, OnNode
  <2>4. CASE entry.reads \in {"bad", "band", "good"}
    <3> DEFINE needs == IF thing = "storage" THEN 2 ELSE 1
    <3>1. needs \in {1, 2}
      OBVIOUS
    <3>2. Judged(entry, reply, gap) = S(entry.reads, needs)
      BY <2>1, <2>4
    <3> HIDE DEF needs
    <3> QED
      BY <1>1, <1>2, <1>5, <2>4, <3>1, <3>2 DEF AllClear, OnNode
  <2> QED
    BY <2>2, <2>3, <2>4
<1>6. CASE thing \in {"space", "trend"} /\ entry.reads # NoRead
  <2>1. Judged(entry, reply, gap) \in {alarm, S(entry.reads, 2)}
    BY <1>6 DEF Judged, JudgedSpace, Dropped, S, IsApi, OnNode
  <2>2. entry.reads \in {"bad", "good", "gone", "band"}
    BY <1>6 DEF Says, OnNode
  <2> QED
    BY <1>1, <1>2, <1>6, <2>1, <2>2 DEF AllClear
<1>7. CASE thing \in {"drive", "notice"} /\ entry.reads # NoRead
  <2>1. \/ Judged(entry, reply, gap) = NoAlarm /\ Dropped(entry.reads)
        \/ Judged(entry, reply, gap) = S(entry.reads, 1)
    BY <1>7 DEF Judged, JudgedByTrueNas, S, IsApi, OnNode
  <2>2. entry.reads \in {"bad", "good", "gone"}
    BY <1>7 DEF Says, OnNode
  <2> QED
    BY <1>1, <1>2, <1>7, <2>1, <2>2 DEF AllClear, Dropped
<1> QED
  BY <1>1, <1>3, <1>4, <1>5, <1>6, <1>7 DEF Things, OnNode

-----------------------------------------------------------------------------

\* An answer changes a row no further than its certificate's state and what it
\* says of the thing.
LEMMA TestedIs ==
  ASSUME NEW entry \in Credential, NEW reply \in Said \cup {"failed", "stranger", "unanswered"}
  PROVE  /\ Tested(entry, reply) \in Credential
         /\ Tested(entry, reply).there = entry.there /\ Tested(entry, reply).cert = entry.cert
         /\ Tested(entry, reply).options = entry.options
         /\ reply \in Said => Tested(entry, reply).reads = reply
         /\ reply \notin Said => Tested(entry, reply).reads = entry.reads
  BY DEF Tested, Credential, Said

\* A guest's name is kept or not; whether it is watched stays.
LEMMA NamedIs ==
  ASSUME NEW was \in Credential, NEW entry \in Credential
  PROVE  /\ Named(was, entry) \in Credential
         /\ Named(was, entry).there = entry.there /\ Named(was, entry).cert = entry.cert
         /\ Named(was, entry).reads = entry.reads
         /\ Named(was, entry).options.watched = entry.options.watched
<1> DEFINE n == /\ entry.options.watched
                /\ entry.options.named \/ entry.reads # "gone" \/ was.reads \notin {NoRead, "gone"}
<1>1. Named(was, entry) = IF thing # "guest" \/ entry.reads = NoRead THEN entry
                        ELSE [entry EXCEPT !.options = [entry.options EXCEPT !.named = n]]
  BY DEF Named
<1>2. n \in BOOLEAN
  BY Zenon
<1> HIDE DEF n
<1> QED
  BY <1>1, <1>2 DEF Credential

\* What is written over the row that was read: the answer, and all else as it
\* was.
LEMMA WrittenIs ==
  ASSUME cred \in Credential, NEW was \in Credential, NEW entry \in Credential, NEW worked \in BOOLEAN
  PROVE  /\ Written(was, entry, worked) \in Credential
         /\ Written(was, entry, worked).there = cred.there
         /\ Written(was, entry, worked).reads = IF worked THEN entry.reads ELSE cred.reads
         /\ entry.cert = was.cert => Written(was, entry, worked).cert = cred.cert
         /\ entry.cert # was.cert => Written(was, entry, worked).cert = entry.cert
         /\ was = cred => Written(was, entry, worked).options = entry.options
         /\ entry.options = was.options => Written(was, entry, worked).options = cred.options
<1> DEFINE cert    == IF entry.cert # was.cert THEN entry.cert ELSE cred.cert
           pending == IF entry.pending # was.pending THEN entry.pending ELSE cred.pending
           reads   == IF worked THEN entry.reads ELSE cred.reads
           options == IF entry.options # was.options THEN entry.options ELSE cred.options
           new     == [cred EXCEPT !.cert = cert, !.pending = pending, !.reads = reads,
                                   !.options = options]
<1>1. cert \in BOOLEAN /\ pending \in BOOLEAN /\ reads \in Said \cup {NoRead}
      /\ options \in [watched : BOOLEAN, named : BOOLEAN]
  BY DEF Credential
<1>2. Written(was, entry, worked) = new
  BY Zenon DEF Written
<1>3. /\ entry.cert = was.cert => cert = cred.cert
      /\ entry.cert # was.cert => cert = entry.cert
      /\ was = cred => options = entry.options
      /\ entry.options = was.options => options = cred.options
      /\ reads = IF worked THEN entry.reads ELSE cred.reads
  BY Zenon
<1> HIDE DEF cert, pending, reads, options
<1>4. new \in Credential
  BY <1>1 DEF Credential
<1>5. new.there = cred.there /\ new.cert = cert /\ new.reads = reads /\ new.options = options
  BY DEF Credential
<1> HIDE DEF new
<1> QED
  BY <1>2, <1>3, <1>4, <1>5

\* What can be answered.
LEMMA RepliesAre ==
  ASSUME NEW entry \in Credential, NEW reply \in Replies(entry)
  PROVE  /\ reply \in Says(thing) \cup {"failed", "stranger", "unanswered"}
         /\ reply \in Said \cup {"failed", "stranger", "unanswered"}
         /\ reply \in Said => reply \in Says(thing)
         /\ ~IsApi => reply \notin {"failed", "stranger"}
  BY DEF Replies, Says, Said

-----------------------------------------------------------------------------

\* A check begins with the row there is in hand.
LEMMA BeginsWatched ==
  ASSUME WInv, BeginJob \/ BeginPageTest \/ BeginRefresh \/ BeginTrust
  PROVE  WInv' /\ ClearedStep
<1>1. PICK by \in By, trusts \in BOOLEAN : Begin(by, trusts) /\ (IsApi /\ by = "job" => cred.cert)
  BY DEF BeginJob, BeginPageTest, BeginRefresh, BeginTrust, By
<1>2. /\ cred.there /\ check' = [check EXCEPT ![by] = [on |-> TRUE, trusts |-> trusts, row |-> cred]]
      /\ UNCHANGED <<thing, cred, api, alarm, heard, crossed>>
  BY <1>1 DEF Begin
<1>3. IntegrationsTypeOK'
  BY <1>2 DEF WInv, IntegrationsTypeOK
<1>4. StoredIsSaid'
  BY <1>2 DEF WInv, IntegrationsTypeOK, StoredIsSaid, Says
<1>5. RowsInHand'
  BY <1>2 DEF WInv, IntegrationsTypeOK, RowsInHand
<1>6. AsksTheTrusted'
  BY <1>1, <1>2 DEF WInv, IntegrationsTypeOK, AsksTheTrusted, IsApi
<1>7. StoredIsHeard' /\ AlertIsWatched'
  BY <1>2 DEF WInv, StoredIsHeard, AlertIsWatched, IsApi
<1>8. ClearedStep
  BY <1>2 DEF ClearedStep
<1> QED
  BY <1>3, <1>4, <1>5, <1>6, <1>7, <1>8 DEF WInv

\* What the end of a check leaves of the checks: the other, if there is one,
\* and it was crossed.
LEMMA EndsKeeps ==
  ASSUME IntegrationsTypeOK, StoredIsSaid, AsksTheTrusted, NEW by \in By, Ends(by), UNCHANGED thing
  PROVE  /\ check' \in [By -> [on : BOOLEAN, trusts : BOOLEAN, row : Credential]]
         /\ \A other \in By : check'[other].row.reads \in Says(thing)' \cup {NoRead}
         /\ AsksTheTrusted'
         /\ \A other \in By : check'[other].on => other # by /\ check[other].on /\ check'[other] = check[other]
<1>1. check' = [check EXCEPT ![by] = NoCheck] /\ thing' = thing
  BY DEF Ends
<1>2. NoCheck \in [on : BOOLEAN, trusts : BOOLEAN, row : Credential] /\ ~NoCheck.on /\ NoCheck.row.reads = NoRead
  BY DEF NoCheck, NoCred, Credential, Unseen, Enough
<1>3. check \in [By -> [on : BOOLEAN, trusts : BOOLEAN, row : Credential]]
  BY DEF IntegrationsTypeOK
<1> QED
  BY <1>1, <1>2, <1>3 DEF StoredIsSaid, AsksTheTrusted, IsApi, Says

\* ... so that what it wrote crosses nothing that is not marked.
LEMMA HearsCrosses ==
  ASSUME IntegrationsTypeOK, NEW by \in By, NEW reply, Ends(by), Hears(by, reply)
  PROVE  /\ crossed' \in BOOLEAN /\ (~crossed' => ~crossed)
         /\ ~crossed' => \A other \in By : ~check'[other].on
<1>1. check' = [check EXCEPT ![by] = NoCheck]
  BY DEF Ends
<1>2. check'[by] = NoCheck /\ \A other \in By \ {by} : check'[other] = check[other]
  BY <1>1 DEF IntegrationsTypeOK
<1>3. ~NoCheck.on
  BY DEF NoCheck
<1>4. crossed' = (crossed \/ \E other \in By \ {by} : check[other].on)
  BY DEF Hears
<1>5. crossed' \in BOOLEAN
  BY <1>4, Zenon
<1> QED
  BY <1>2, <1>3, <1>4, <1>5

\* Nothing came of a check.
LEMMA UnwrittenWatched ==
  ASSUME WInv, NEW by \in By, EndUnwritten(by) PROVE WInv' /\ ClearedStep
<1>1. Ends(by) /\ UNCHANGED <<thing, cred, api, alarm, heard, crossed>>
  BY DEF EndUnwritten
<1>2. /\ check' \in [By -> [on : BOOLEAN, trusts : BOOLEAN, row : Credential]]
      /\ \A other \in By : check'[other].row.reads \in Says(thing)' \cup {NoRead}
      /\ AsksTheTrusted'
      /\ \A other \in By : check'[other].on => check[other].on /\ check'[other] = check[other]
  BY <1>1, EndsKeeps DEF WInv
<1>3. IntegrationsTypeOK' /\ StoredIsSaid'
  BY <1>1, <1>2 DEF WInv, IntegrationsTypeOK, StoredIsSaid, Says
<1>4. RowsInHand'
  BY <1>1, <1>2 DEF WInv, RowsInHand
<1>5. StoredIsHeard' /\ AlertIsWatched' /\ ClearedStep
  BY <1>1 DEF WInv, StoredIsHeard, AlertIsWatched, IsApi, ClearedStep
<1> QED
  BY <1>2, <1>3, <1>4, <1>5 DEF WInv

\* The scheduler's check: what it judges is what was answered, or what was
\* there before, of the row that is there.
LEMMA JobWatched ==
  ASSUME WInv, EndJob PROVE WInv' /\ ClearedStep
<1> DEFINE was == check["job"].row
<1>1. PICK reply \in Replies(was), gap \in BOOLEAN :
        LET after  == Tested(was, reply)
            worked == Worked(reply)
        IN /\ cred' = Written(was, IF worked THEN Named(was, after) ELSE after, worked)
           /\ api' = Stepped(api, IF worked THEN "good" ELSE "bad", 2, gap)
           /\ alarm' = IF worked THEN Judged(after, reply, gap) ELSE alarm
           /\ Hears("job", reply)
  BY DEF EndJob
<1> DEFINE after  == Tested(was, reply)
           worked == Worked(reply)
           entry    == IF worked THEN Named(was, after) ELSE after
<1>2. /\ IsApi /\ cred.there /\ Ends("job") /\ "job" \in By /\ check["job"].on
      /\ cred' = Written(was, entry, worked)
      /\ api' = Stepped(api, IF worked THEN "good" ELSE "bad", 2, gap)
      /\ alarm' = IF worked THEN Judged(after, reply, gap) ELSE alarm
      /\ Hears("job", reply) /\ thing' = thing
  BY <1>1 DEF EndJob, Ends, Hears, By
<1>3. /\ was \in Credential /\ was.cert /\ cred \in Credential /\ api \in AlarmOf /\ alarm \in AlarmOf
      /\ was.reads \in Says(thing) \cup {NoRead} /\ cred.reads \in Says(thing) \cup {NoRead}
      /\ (~crossed => was = cred)
  BY <1>2 DEF WInv, IntegrationsTypeOK, StoredIsSaid, AsksTheTrusted, RowsInHand, By
<1> HIDE DEF was
<1>4. /\ reply \in Said \cup {"failed", "stranger", "unanswered"}
      /\ (reply \in Said => reply \in Says(thing))
      /\ worked \in BOOLEAN /\ (reply \in Said \cup {"unanswered"} <=> worked)
  BY <1>3, RepliesAre DEF Worked, Said
<1>5. /\ after \in Credential
      /\ after.there = was.there /\ after.cert = was.cert
      /\ after.options = was.options
      /\ (reply \in Said => after.reads = reply)
      /\ (reply \notin Said => after.reads = was.reads)
  BY <1>3, <1>4, TestedIs
<1> HIDE DEF after
<1>6. after.reads \in Says(thing) \cup {NoRead}
  BY <1>3, <1>4, <1>5
<1>7. /\ Judged(after, reply, gap) \in AlarmOf
      /\ (alarm.fired /\ ~Judged(after, reply, gap).fired =>
            AllClear(after.reads) \/ (thing = "guest" /\ ~after.options.watched))
      /\ (thing = "guest" /\ ~after.options.watched => ~Judged(after, reply, gap).fired)
  BY <1>5, <1>6, JudgedIs DEF WInv
<1>8. /\ entry \in Credential /\ entry.cert = was.cert /\ entry.options.watched = was.options.watched
      /\ entry.reads = after.reads
  <2> DEFINE n == Named(was, after)
  <2>1. /\ n \in Credential /\ n.cert = after.cert /\ n.options.watched = after.options.watched
        /\ n.reads = after.reads
    BY <1>3, <1>5, NamedIs, Zenon
  <2> HIDE DEF n, worked
  <2>2. entry = IF worked THEN n ELSE after
    BY DEF n
  <2> QED
    BY <1>5, <2>1, <2>2
<1> HIDE DEF entry, worked
<1>9. /\ cred' \in Credential /\ cred'.there = cred.there
      /\ cred'.reads = IF worked THEN entry.reads ELSE cred.reads
      /\ cred'.cert = cred.cert
      /\ (was = cred => cred'.options = entry.options)
  <2> DEFINE w == Written(was, entry, worked)
  <2>0. cred \in Credential /\ was \in Credential /\ entry \in Credential /\ worked \in BOOLEAN
    BY <1>3, <1>4, <1>8
  <2>1. /\ w \in Credential /\ w.there = cred.there
        /\ w.reads = IF worked THEN entry.reads ELSE cred.reads
        /\ (entry.cert = was.cert => w.cert = cred.cert)
        /\ (was = cred => w.options = entry.options)
    BY <2>0, WrittenIs, ZenonT(90)
  <2> HIDE DEF w
  <2>2. cred' = w
    BY <1>2, Zenon DEF w
  <2> QED
    BY <1>8, <2>1, <2>2
<1>10. /\ api' \in AlarmOf /\ alarm' \in AlarmOf
  BY <1>2, <1>3, <1>4, <1>7, SteppedIs
<1>11. /\ heard' = IF reply \in Said \ {"silent"} THEN reply ELSE heard
       /\ crossed' \in BOOLEAN /\ (~crossed' => ~crossed)
       /\ (~crossed' => \A other \in By : ~check'[other].on)
  BY <1>2, HearsCrosses DEF Hears, WInv
<1>12. /\ check' \in [By -> [on : BOOLEAN, trusts : BOOLEAN, row : Credential]]
       /\ \A other \in By : check'[other].row.reads \in Says(thing)' \cup {NoRead}
       /\ AsksTheTrusted'
  BY <1>2, EndsKeeps DEF WInv
<1>13. IntegrationsTypeOK'
  BY <1>2, <1>9, <1>10, <1>11, <1>12 DEF WInv, IntegrationsTypeOK
<1>14. StoredIsSaid'
  BY <1>2, <1>3, <1>6, <1>8, <1>9, <1>12 DEF StoredIsSaid, Says
<1>15. RowsInHand'
  BY <1>11 DEF RowsInHand
<1>16. StoredIsHeard'
  BY <1>3, <1>4, <1>5, <1>8, <1>9, <1>11 DEF WInv, StoredIsHeard
<1>17. AlertIsWatched'
  BY <1>2, <1>3, <1>5, <1>7, <1>8, <1>9, <1>11 DEF WInv, AlertIsWatched, IsApi
<1>18. ClearedStep
  <2> SUFFICES ASSUME alarm.fired, ~alarm'.fired, ~crossed PROVE AllClear(heard')
    BY DEF ClearedStep
  <2>1. worked /\ was = cred /\ (thing = "guest" => cred.options.watched)
    BY <1>2, <1>3 DEF WInv, AlertIsWatched
  <2>2. AllClear(after.reads)
    BY <1>2, <1>5, <1>7, <2>1
  <2> QED
    BY <1>3, <1>5, <1>11, <2>1, <2>2 DEF WInv, StoredIsHeard, Said, NoRead, AllClear
<1> QED
  BY <1>12, <1>13, <1>14, <1>15, <1>16, <1>17, <1>18 DEF WInv

\* A page's Test writes and does not judge.
LEMMA PageWatched ==
  ASSUME WInv, EndPage PROVE WInv' /\ ClearedStep
<1> DEFINE was  == check["page"].row
           held == IF check["page"].trusts THEN [was EXCEPT !.cert = TRUE, !.pending = FALSE] ELSE was
<1>1. PICK reply \in Replies(held) :
        /\ cred' = Written(was, Tested(held, reply), Worked(reply))
        /\ Hears("page", reply)
  BY DEF EndPage
<1> DEFINE entry    == Tested(held, reply)
           worked == Worked(reply)
<1>2. /\ cred.there /\ Ends("page") /\ "page" \in By /\ check["page"].on
      /\ cred' = Written(was, entry, worked)
      /\ api' = api /\ alarm' = alarm /\ thing' = thing
      /\ Hears("page", reply)
  BY <1>1 DEF EndPage, Ends, Hears, By
<1>3. /\ was \in Credential /\ cred \in Credential /\ check["page"].trusts \in BOOLEAN
      /\ was.reads \in Says(thing) \cup {NoRead} /\ cred.reads \in Says(thing) \cup {NoRead}
      /\ (~crossed => was = cred)
  BY <1>2 DEF WInv, IntegrationsTypeOK, StoredIsSaid, RowsInHand, By
<1> HIDE DEF was
<1>4. /\ held \in Credential /\ held.reads = was.reads /\ held.options = was.options
      /\ held.there = was.there /\ (held.cert = was.cert \/ held.cert)
  BY <1>3 DEF Credential
<1> HIDE DEF held
<1>5. /\ reply \in Said \cup {"failed", "stranger", "unanswered"}
      /\ (reply \in Said => reply \in Says(thing))
      /\ worked \in BOOLEAN /\ (reply \in Said \cup {"unanswered"} <=> worked)
  BY <1>4, RepliesAre DEF Worked, Said
<1>6. /\ entry \in Credential /\ entry.cert = held.cert /\ entry.options = held.options
      /\ (reply \in Said => entry.reads = reply)
      /\ (reply \notin Said => entry.reads = held.reads)
  BY <1>4, <1>5, TestedIs
<1> HIDE DEF entry, worked
<1>7. /\ cred' \in Credential /\ cred'.there = cred.there
      /\ cred'.reads = IF worked THEN entry.reads ELSE cred.reads
      /\ (cred.cert => cred'.cert)
      /\ cred'.options = cred.options
  <2> DEFINE w == Written(was, entry, worked)
  <2>1. cred \in Credential /\ was \in Credential /\ entry \in Credential /\ worked \in BOOLEAN
    BY <1>3, <1>5, <1>6
  <2>2. /\ w \in Credential /\ w.there = cred.there
        /\ w.reads = IF worked THEN entry.reads ELSE cred.reads
        /\ (entry.cert = was.cert => w.cert = cred.cert)
        /\ (entry.cert # was.cert => w.cert = entry.cert)
        /\ (entry.options = was.options => w.options = cred.options)
    BY <2>1, WrittenIs, ZenonT(90)
  <2> HIDE DEF w
  <2>3. cred' = w
    BY <1>2, Zenon DEF w
  <2> QED
    BY <1>4, <1>6, <2>2, <2>3
<1>8. /\ heard' = IF reply \in Said \ {"silent"} THEN reply ELSE heard
      /\ crossed' \in BOOLEAN /\ (~crossed' => ~crossed)
      /\ (~crossed' => \A other \in By : ~check'[other].on)
  BY <1>2, HearsCrosses DEF Hears, WInv
<1>9. /\ check' \in [By -> [on : BOOLEAN, trusts : BOOLEAN, row : Credential]]
      /\ \A other \in By : check'[other].row.reads \in Says(thing)' \cup {NoRead}
      /\ AsksTheTrusted'
  BY <1>2, EndsKeeps DEF WInv
<1>10. IntegrationsTypeOK'
  BY <1>2, <1>5, <1>7, <1>8, <1>9 DEF WInv, IntegrationsTypeOK
<1>11. StoredIsSaid'
  BY <1>2, <1>3, <1>4, <1>5, <1>6, <1>7, <1>9 DEF StoredIsSaid, Says
<1>12. RowsInHand'
  BY <1>8 DEF RowsInHand
<1>13. StoredIsHeard'
  BY <1>3, <1>4, <1>5, <1>6, <1>7, <1>8 DEF WInv, StoredIsHeard
<1>14. AlertIsWatched'
  BY <1>2, <1>7, <1>8 DEF WInv, AlertIsWatched, IsApi
<1>15. ClearedStep
  BY <1>2 DEF ClearedStep
<1> QED
  BY <1>9, <1>10, <1>11, <1>12, <1>13, <1>14, <1>15 DEF WInv

\* A reading over SNMP is stored in, and judged of, the row that is there.
LEMMA RefreshWatched ==
  ASSUME WInv, EndRefresh PROVE WInv' /\ ClearedStep
<1>1. PICK reply \in Replies(cred), gap \in BOOLEAN, due \in BOOLEAN :
        /\ cred' = SpaceSampled(Tested(cred, reply), due, reply)
        /\ alarm' = Judged(cred', reply, gap)
        /\ Hears("job", reply)
  BY DEF EndRefresh
<1>2. /\ ~IsApi /\ cred.there /\ Ends("job") /\ "job" \in By /\ api' = api /\ thing' = thing
  BY <1>1 DEF EndRefresh, Hears, By
<1>3. cred \in Credential /\ cred.reads \in Says(thing) \cup {NoRead} /\ alarm \in AlarmOf /\ api \in AlarmOf
  BY DEF WInv, IntegrationsTypeOK, StoredIsSaid
<1>4. /\ reply \in Said \cup {"failed", "stranger", "unanswered"}
      /\ (reply \in Said => reply \in Says(thing))
  BY <1>3, RepliesAre
<1> DEFINE entry == Tested(cred, reply)
<1>5. /\ entry \in Credential /\ entry.there = cred.there
      /\ (reply \in Said => entry.reads = reply)
      /\ (reply \notin Said => entry.reads = cred.reads)
  BY <1>3, <1>4, TestedIs
<1> HIDE DEF entry
<1>6. cred' \in Credential /\ cred'.reads = entry.reads
  <2>1. cred' = SpaceSampled(entry, due, reply)
    BY <1>1 DEF entry
  <2> QED
    BY <1>5, <2>1 DEF SpaceSampled, Credential, Enough
<1>7. cred'.reads \in Says(thing) \cup {NoRead}
  BY <1>3, <1>4, <1>5, <1>6
<1>8. /\ alarm' \in AlarmOf
      /\ (alarm.fired /\ ~alarm'.fired => AllClear(cred'.reads))
  <2>1. thing # "guest"
    BY <1>2 DEF IsApi
  <2>2. IntegrationsTypeOK
    BY DEF WInv
  <2> QED
    BY <1>1, <1>5, <1>6, <1>7, <2>1, <2>2, JudgedIs
<1>9. /\ heard' = IF reply \in Said \ {"silent"} THEN reply ELSE heard
      /\ crossed' \in BOOLEAN /\ (~crossed' => ~crossed)
      /\ (~crossed' => \A other \in By : ~check'[other].on)
  BY <1>1, <1>2, HearsCrosses DEF Hears, WInv
<1>10. /\ check' \in [By -> [on : BOOLEAN, trusts : BOOLEAN, row : Credential]]
       /\ \A other \in By : check'[other].row.reads \in Says(thing)' \cup {NoRead}
       /\ AsksTheTrusted'
  BY <1>2, EndsKeeps DEF WInv
<1>11. IntegrationsTypeOK'
  BY <1>2, <1>4, <1>6, <1>8, <1>9, <1>10 DEF WInv, IntegrationsTypeOK
<1>12. StoredIsSaid'
  BY <1>2, <1>7, <1>10 DEF StoredIsSaid, Says
<1>13. RowsInHand'
  BY <1>9 DEF RowsInHand
<1>14. StoredIsHeard'
  BY <1>4, <1>5, <1>6, <1>9 DEF WInv, StoredIsHeard
<1>15. AlertIsWatched'
  BY <1>2 DEF AlertIsWatched, IsApi
<1>16. ClearedStep
  BY <1>3, <1>4, <1>5, <1>6, <1>8, <1>9 DEF ClearedStep, WInv, StoredIsHeard, Said, NoRead, AllClear
<1> QED
  BY <1>10, <1>11, <1>12, <1>13, <1>14, <1>15, <1>16 DEF WInv

\* A request leaves the checks their rows, and says when one crosses it.
LEMMA RequestsWatched ==
  ASSUME WInv, \/ AddCredential \/ EditCredential \/ DeleteCredential
               \/ \E on \in BOOLEAN : Watch(on)
  PROVE  WInv' /\ ClearedStep
<1> USE DEF WInv
<1>1. /\ NoCred \in Credential /\ ~NoCred.there /\ NoCred.reads = NoRead
      /\ NoAlarm \in AlarmOf /\ ~NoAlarm.fired /\ Forget(alarm) \in AlarmOf
      /\ (IsApi => Forget(alarm) = NoAlarm)
  BY DEF NoCred, Credential, Unseen, Enough, NoAlarm, AlarmOf, Forget, IntegrationsTypeOK
<1>2. InFlight \in BOOLEAN /\ (~InFlight => \A by \in By : ~check[by].on)
  <2>1. InFlight \in BOOLEAN
    BY Zenon DEF InFlight
  <2> QED
    BY <2>1 DEF InFlight
<1>3. CASE AddCredential
  <2>1. PICK pending \in BOOLEAN :
          cred' = [NoCred EXCEPT !.there = TRUE, !.pending = pending, !.cert = ~IsApi]
    BY <1>3, Zenon DEF AddCredential
  <2>2. ~cred.there /\ heard' = NoRead /\ UNCHANGED <<thing, check, api, alarm, crossed>>
    BY <1>3, Zenon DEF AddCredential
  <2>3. cred' \in Credential /\ cred'.reads = NoRead
    <3> DEFINE c == ~IsApi
    <3>1. c \in BOOLEAN
      BY Zenon
    <3>2. cred' = [NoCred EXCEPT !.there = TRUE, !.pending = pending, !.cert = c]
      BY <2>1
    <3> HIDE DEF c
    <3> QED
      BY <1>1, <3>1, <3>2 DEF Credential
  <2>4. IntegrationsTypeOK'
    BY <2>2, <2>3 DEF IntegrationsTypeOK, Said
  <2>5. StoredIsSaid' /\ AsksTheTrusted'
    BY <2>2, <2>3 DEF StoredIsSaid, AsksTheTrusted, Says, IsApi
  <2>6. RowsInHand'
    BY <2>2 DEF RowsInHand
  <2>7. StoredIsHeard' /\ AlertIsWatched' /\ ClearedStep
    BY <2>2, <2>3 DEF StoredIsHeard, AlertIsWatched, IsApi, ClearedStep
  <2> QED
    BY <2>4, <2>5, <2>6, <2>7
<1>4. CASE EditCredential
  <2>1. /\ cred' = [NoCred EXCEPT !.there = TRUE, !.options = cred.options]
        /\ IsApi /\ api' = NoAlarm /\ alarm' = Forget(alarm) /\ heard' = NoRead /\ crossed' = InFlight
        /\ UNCHANGED <<thing, check>>
    BY <1>4 DEF EditCredential
  <2>2. cred' \in Credential /\ cred'.reads = NoRead
    BY <1>1, <2>1 DEF Credential, IntegrationsTypeOK
  <2>3. IntegrationsTypeOK'
    BY <1>1, <1>2, <2>1, <2>2 DEF IntegrationsTypeOK, Said
  <2>4. StoredIsSaid' /\ AsksTheTrusted'
    BY <2>1, <2>2 DEF StoredIsSaid, AsksTheTrusted, Says, IsApi
  <2>5. RowsInHand'
    BY <1>2, <2>1 DEF RowsInHand
  <2>6. StoredIsHeard' /\ AlertIsWatched' /\ ClearedStep
    BY <1>1, <2>1, <2>2 DEF StoredIsHeard, AlertIsWatched, IsApi, ClearedStep
  <2> QED
    BY <2>3, <2>4, <2>5, <2>6
<1>5. CASE DeleteCredential
  <2>1. /\ cred' = NoCred /\ api' = NoAlarm /\ alarm' = Forget(alarm) /\ heard' = NoRead /\ crossed' = InFlight
        /\ UNCHANGED <<thing, check>>
    BY <1>5 DEF DeleteCredential
  <2>2. IntegrationsTypeOK'
    BY <1>1, <1>2, <2>1 DEF IntegrationsTypeOK, Said
  <2>3. StoredIsSaid' /\ AsksTheTrusted'
    BY <1>1, <2>1 DEF StoredIsSaid, AsksTheTrusted, Says, IsApi
  <2>4. RowsInHand'
    BY <1>2, <2>1 DEF RowsInHand
  <2>5. StoredIsHeard' /\ AlertIsWatched' /\ ClearedStep
    BY <1>1, <2>1 DEF StoredIsHeard, AlertIsWatched, IsApi, ClearedStep
  <2> QED
    BY <2>2, <2>3, <2>4, <2>5
<1>6. ASSUME NEW on \in BOOLEAN, Watch(on) PROVE WInv' /\ ClearedStep
  <2>1. /\ cred' = [cred EXCEPT !.options = [watched |-> on, named |-> on /\ @.named]]
        /\ alarm' = IF on THEN alarm ELSE NoAlarm
        /\ crossed' = (crossed \/ InFlight)
        /\ UNCHANGED <<thing, check, api, heard>>
    BY <1>6 DEF Watch
  <2>2. /\ cred' \in Credential /\ cred'.reads = cred.reads /\ cred'.cert = cred.cert
        /\ cred'.there = cred.there /\ cred'.options.watched = on
    <3> DEFINE n == on /\ cred.options.named
    <3>1. n \in BOOLEAN
      BY Zenon
    <3>2. cred' = [cred EXCEPT !.options = [watched |-> on, named |-> n]]
      BY <2>1
    <3> HIDE DEF n
    <3> QED
      BY <3>1, <3>2 DEF IntegrationsTypeOK, Credential
  <2>3. crossed' \in BOOLEAN /\ (~crossed' => ~crossed /\ ~InFlight)
    BY <1>2, <2>1 DEF IntegrationsTypeOK
  <2>4. IntegrationsTypeOK'
    BY <1>1, <2>1, <2>2, <2>3 DEF IntegrationsTypeOK
  <2>5. StoredIsSaid' /\ AsksTheTrusted'
    BY <2>1, <2>2 DEF StoredIsSaid, AsksTheTrusted, Says, IsApi
  <2>6. RowsInHand'
    BY <1>2, <2>1, <2>3 DEF RowsInHand
  <2>7. StoredIsHeard' /\ AlertIsWatched' /\ ClearedStep
    BY <1>1, <2>1, <2>2, <2>3 DEF StoredIsHeard, AlertIsWatched, IsApi, ClearedStep
  <2> QED
    BY <2>4, <2>5, <2>6, <2>7
<1> QED
  BY <1>3, <1>4, <1>5, <1>6

\* Every step keeps it.
LEMMA StepIsWatched == ASSUME WInv, [IntegrationsNext]_ivars PROVE WInv' /\ [ClearedStep]_ivars
<1>1. CASE UNCHANGED ivars
  BY <1>1 DEF ivars, WInv, IntegrationsTypeOK, StoredIsSaid, RowsInHand, AsksTheTrusted, StoredIsHeard,
              AlertIsWatched, IsApi, Says
<1> QED
  BY <1>1, BeginsWatched, JobWatched, PageWatched, RefreshWatched, UnwrittenWatched, RequestsWatched
  DEF IntegrationsNext

\* There is no credential at first, and no alert.
LEMMA InitIsWatched == IntegrationsInit => WInv
<1> SUFFICES ASSUME IntegrationsInit PROVE WInv
  OBVIOUS
<1>1. /\ NoCred \in Credential /\ NoCred.reads = NoRead /\ NoAlarm \in AlarmOf /\ ~NoAlarm.fired
      /\ NoCheck = [on |-> FALSE, trusts |-> FALSE, row |-> NoCred]
  BY DEF NoCred, Credential, Unseen, Enough, NoAlarm, AlarmOf, NoCheck
<1>2. /\ thing \in Things /\ cred = NoCred /\ check = [by \in By |-> NoCheck]
      /\ api = NoAlarm /\ alarm = NoAlarm /\ heard = NoRead /\ crossed = FALSE
  BY DEF IntegrationsInit
<1>3. IntegrationsTypeOK
  BY <1>1, <1>2 DEF IntegrationsTypeOK
<1>4. StoredIsSaid /\ RowsInHand /\ AsksTheTrusted /\ StoredIsHeard /\ AlertIsWatched
  BY <1>1, <1>2 DEF StoredIsSaid, RowsInHand, AsksTheTrusted, StoredIsHeard, AlertIsWatched, By
<1> QED
  BY <1>3, <1>4 DEF WInv

\* The rows of a credential, its checks and its alerts keep their form.
THEOREM IntegrationsTypeCorrect == IntegrationsSpec => []IntegrationsTypeOK
<1>1. WInv => IntegrationsTypeOK
  BY DEF WInv
<1>2. WInv /\ [IntegrationsNext]_ivars => WInv'
  BY StepIsWatched
<1> QED
  BY InitIsWatched, <1>1, <1>2, PTL DEF IntegrationsSpec

\* No alert stands about what nothing looks at any more, whatever people change
\* between checks (credentials.update, delete, watch).
THEOREM AlertsAreWatched == IntegrationsSpec => []AlertIsWatched
<1>1. WInv => AlertIsWatched
  BY DEF WInv
<1>2. WInv /\ [IntegrationsNext]_ivars => WInv'
  BY StepIsWatched
<1> QED
  BY InitIsWatched, <1>1, <1>2, PTL DEF IntegrationsSpec

\* A check takes an alert back only at the box's word, over checks that fail,
\* answers that leave the thing out, and pages that test in between
\* (truenas_health.py, proxmox_health.py, storage.py evaluate).
THEOREM AllClearIsHeard == IntegrationsSpec => ClearedIsHeard
<1>1. WInv /\ [IntegrationsNext]_ivars => WInv' /\ [ClearedStep]_ivars
  BY StepIsWatched
<1>2. [ClearedStep]_ivars =>
        [alarm.fired /\ ~alarm'.fired /\ check' # check /\ ~crossed =>
           heard' \in {"good", "gone"} \/ (thing = "storage" /\ heard' = "inactive")]_ivars
  <2>1. AllClear(heard') <=>
          heard' \in {"good", "gone"} \/ (thing = "storage" /\ heard' = "inactive")
    BY DEF AllClear
  <2> QED
    BY <2>1, Zenon DEF ClearedStep
<1> QED
  BY InitIsWatched, <1>1, <1>2, PTL DEF IntegrationsSpec, ClearedIsHeard

-----------------------------------------------------------------------------
(***************************************************************************)
(* History: every sample is counted once.                                  *)
(***************************************************************************)

\* The sum of what the parts of a set count is what their union counts, in
\* whatever order they are added.
Partial(f, S, sums) ==
  sums = [s \in SUBSET S |->
            IF s = {} THEN 0
            ELSE LET x == CHOOSE x \in s : TRUE IN f[x] + sums[s \ {x}]]

Apart(S, parts, f) ==
  /\ IsFiniteSet(S)
  /\ \A x \in S : IsFiniteSet(parts[x]) /\ f[x] = Cardinality(parts[x])
  /\ \A x, y \in S : x # y => parts[x] \cap parts[y] = {}

Together(parts, s) == UNION {parts[x] : x \in s}

\* One more part adds its size.
LEMMA TogetherAdds ==
  ASSUME NEW S, NEW parts, NEW f, Apart(S, parts, f), NEW s \in SUBSET S, NEW x \in s,
         IsFiniteSet(Together(parts, s \ {x}))
  PROVE  /\ IsFiniteSet(Together(parts, s))
         /\ Cardinality(Together(parts, s)) = f[x] + Cardinality(Together(parts, s \ {x}))
<1> DEFINE A == parts[x]
           B == Together(parts, s \ {x})
<1>1. Together(parts, s) = A \cup B
  BY DEF Together
<1>2. A \cap B = {} /\ IsFiniteSet(A) /\ f[x] = Cardinality(A)
  BY DEF Together, Apart
<1> HIDE DEF A, B
<1>3. IsFiniteSet(B)
  BY DEF B
<1>4. IsFiniteSet(A \cup B) /\ Cardinality(A \cup B) = Cardinality(A) + Cardinality(B) - Cardinality(A \cap B)
  BY <1>2, <1>3, FS_Union
<1>5. Cardinality(A \cap B) = 0 /\ Cardinality(A) \in Nat /\ Cardinality(B) \in Nat
  BY <1>2, <1>3, FS_EmptySet, FS_CardinalityType
<1> QED
  BY <1>1, <1>2, <1>4, <1>5 DEF B

\* The union of finitely many finite sets is finite.
LEMMA TogetherFinite ==
  ASSUME NEW S, NEW parts, NEW f, Apart(S, parts, f)
  PROVE  \A s \in SUBSET S : IsFiniteSet(Together(parts, s))
<1> DEFINE B == {Cardinality(s) : s \in {t \in SUBSET S : ~IsFiniteSet(Together(parts, t))}}
<1> SUFFICES ASSUME B # {} PROVE FALSE
  OBVIOUS
<1>1. B \subseteq Nat
  BY FS_Subset, FS_CardinalityType DEF Apart
<1>2. PICK n \in B : \A k \in B : n <= k
  <2> HIDE DEF B
  <2> QED
    BY <1>1, LeastExists
<1>3. PICK s \in SUBSET S : ~IsFiniteSet(Together(parts, s)) /\ Cardinality(s) = n
  OBVIOUS
<1>4. s # {}
  <2>1. Together(parts, {}) = {}
    BY DEF Together
  <2> QED
    BY <1>3, <2>1, FS_EmptySet
<1>5. PICK x \in s : TRUE
  BY <1>4
<1>6. IsFiniteSet(s) /\ Cardinality(s \ {x}) = n - 1 /\ n \in Nat
  BY <1>1, <1>3, <1>5, FS_Subset, FS_RemoveElement DEF Apart
<1>7. n - 1 \notin B
  <2> HIDE DEF B
  <2> QED
    BY <1>2, <1>6
<1>8. IsFiniteSet(Together(parts, s \ {x}))
  BY <1>6, <1>7
<1> QED
  BY <1>3, <1>5, <1>8, TogetherAdds

\* There are partial sums, and they are these.
LEMMA SumsAre ==
  ASSUME NEW S, NEW parts, NEW f, Apart(S, parts, f)
  PROVE  /\ \E sums : Partial(f, S, sums)
         /\ \A sums : Partial(f, S, sums) => sums[S] = Cardinality(Together(parts, S))
<1> DEFINE size(s) == Cardinality(Together(parts, s))
           first(s) == CHOOSE x \in s : TRUE
<1>1. \A s \in SUBSET S : size(s) \in Nat
  BY TogetherFinite, FS_CardinalityType
<1>2. size({}) = 0
  <2>1. Together(parts, {}) = {}
    BY DEF Together
  <2> QED
    BY <2>1, FS_EmptySet
<1>3. \A s \in SUBSET S : s # {} => first(s) \in s /\ size(s) = f[first(s)] + size(s \ {first(s)})
  <2> SUFFICES ASSUME NEW s \in SUBSET S, s # {}
               PROVE  first(s) \in s /\ size(s) = f[first(s)] + size(s \ {first(s)})
    OBVIOUS
  <2>1. first(s) \in s
    OBVIOUS
  <2> HIDE DEF first
  <2> QED
    BY <2>1, TogetherFinite, TogetherAdds
<1>4. \A sums : Partial(f, S, sums) <=>
        sums = [s \in SUBSET S |-> IF s = {} THEN 0 ELSE f[first(s)] + sums[s \ {first(s)}]]
  BY Zenon DEF Partial
<1> HIDE DEF first, size
<1>5. \E sums : Partial(f, S, sums)
  <2> DEFINE sums == [s \in SUBSET S |-> size(s)]
  <2>1. \A s \in SUBSET S : s # {} => sums[s \ {first(s)}] = size(s \ {first(s)})
    OBVIOUS
  <2>2. \A s \in SUBSET S : size(s) = IF s = {} THEN 0 ELSE f[first(s)] + sums[s \ {first(s)}]
    BY <1>2, <1>3, <2>1
  <2> DEFINE made == [s \in SUBSET S |-> IF s = {} THEN 0 ELSE f[first(s)] + sums[s \ {first(s)}]]
  <2>3. sums = made
    BY <2>2
  <2> HIDE DEF sums
  <2> QED
    BY <1>4, <2>3
<1>6. ASSUME NEW sums, Partial(f, S, sums) PROVE sums[S] = size(S)
  <2> DEFINE B == {Cardinality(s) : s \in {t \in SUBSET S : sums[t] # size(t)}}
  <2>1. sums = [s \in SUBSET S |-> IF s = {} THEN 0 ELSE f[first(s)] + sums[s \ {first(s)}]]
    BY <1>4, <1>6
  <2> SUFFICES ASSUME B # {} PROVE FALSE
    OBVIOUS
  <2>2. B \subseteq Nat
    BY FS_Subset, FS_CardinalityType DEF Apart
  <2>3. PICK n \in B : \A k \in B : n <= k
    <3> HIDE DEF B
    <3> QED
      BY <2>2, LeastExists
  <2>4. PICK s \in SUBSET S : sums[s] # size(s) /\ Cardinality(s) = n
    OBVIOUS
  <2>5. sums[s] = IF s = {} THEN 0 ELSE f[first(s)] + sums[s \ {first(s)}]
    BY <2>1
  <2>6. s # {}
    BY <1>2, <2>4, <2>5
  <2>7. first(s) \in s
    BY <1>3, <2>6
  <2>8. Cardinality(s \ {first(s)}) = n - 1 /\ n \in Nat
    BY <2>2, <2>4, <2>7, FS_Subset, FS_RemoveElement DEF Apart
  <2>9. n - 1 \notin B
    <3> HIDE DEF B
    <3> QED
      BY <2>3, <2>8
  <2>10. sums[s \ {first(s)}] = size(s \ {first(s)})
    BY <2>8, <2>9
  <2> QED
    BY <1>3, <2>4, <2>5, <2>6, <2>10
<1> QED
  BY <1>5, <1>6 DEF size

LEMMA SumCounts ==
  ASSUME NEW S, NEW parts, NEW f, Apart(S, parts, f)
  PROVE  SumFunctionOnSet(f, S) = Cardinality(Together(parts, S))
<1> DEFINE sums == CHOOSE sums : Partial(f, S, sums)
<1>1. SumFunctionOnSet(f, S) = sums[S]
  BY Zenon DEF SumFunctionOnSet, FoldFunctionOnSet, MapThenFoldSet, Partial
<1>2. Partial(f, S, sums)
  BY SumsAre
<1> HIDE DEF sums
<1> QED
  BY <1>1, <1>2, SumsAre

-----------------------------------------------------------------------------
(* Buckets. *)

IsWidth(w) == w \in Nat \ {0}

\* More of the same width is further.
LEMMA Multiples ==
  ASSUME NEW w, IsWidth(w), NEW a \in Int, NEW b \in Int
  PROVE  /\ w * a \in Int /\ w * b \in Int
         /\ a < b => w * a + w <= w * b
         /\ w * a < w * b => a < b
<1>1. w \in Int /\ w > 0
  BY DEF IsWidth
<1>2. ASSUME a < b PROVE w * a + w <= w * b
  <2>1. w * b = w * a + w * (b - a)
    BY <1>1
  <2>2. w * (b - a) >= w
    BY <1>1, <1>2
  <2> QED
    BY <1>1, <2>1, <2>2
<1>3. ASSUME b <= a PROVE w * b <= w * a
  <2>1. w * a = w * b + w * (a - b)
    BY <1>1
  <2>2. w * (a - b) >= 0
    BY <1>1, <1>3
  <2> QED
    BY <1>1, <2>1, <2>2
<1> QED
  BY <1>1, <1>2, <1>3

LEMMA Divides ==
  ASSUME NEW w, IsWidth(w), NEW n \in Int
  PROVE  n \div w \in Int /\ n % w \in 0 .. w - 1 /\ n = w * (n \div w) + (n % w)
<1> DEFINE q == n \div w
           r == n % w
<1>1. q \in Int /\ r \in 0 .. w - 1 /\ n = w * q + r
  BY DEF IsWidth
<1> QED
  BY <1>1

\* A moment is in the bucket that starts where Bucket says, and in no other.
Starts(b, w) == b \in Int /\ \E k \in Int : b = w * k

LEMMA BucketIs ==
  ASSUME NEW w, IsWidth(w), NEW t \in Int
  PROVE  Starts(Bucket(t, w), w) /\ Bucket(t, w) <= t /\ t < Bucket(t, w) + w
<1> DEFINE q == t \div w
           r == t % w
<1>1. q \in Int /\ r \in 0 .. w - 1 /\ t = w * q + r
  BY Divides
<1>2. Bucket(t, w) = w * q
  BY DEF Bucket
<1> HIDE DEF q, r
<1>3. w * q \in Int
  BY <1>1, Multiples
<1> QED
  BY <1>1, <1>2, <1>3 DEF Starts, IsWidth

\* Two buckets of a width are a width apart.
LEMMA StartsApart ==
  ASSUME NEW w, IsWidth(w), NEW a, Starts(a, w), NEW b, Starts(b, w), a < b
  PROVE  a + w <= b
<1>1. PICK j \in Int : a = w * j
  BY DEF Starts
<1>2. PICK k \in Int : b = w * k
  BY DEF Starts
<1> QED
  BY <1>1, <1>2, Multiples

LEMMA BucketOf ==
  ASSUME NEW w, IsWidth(w), NEW t \in Int, NEW b, Starts(b, w)
  PROVE  /\ (b <= t /\ t < b + w) <=> Bucket(t, w) = b
         /\ t < b <=> Bucket(t, w) + w <= b
         /\ t < b <=> Bucket(t, w) < b
<1> DEFINE a == Bucket(t, w)
<1>1. Starts(a, w) /\ a <= t /\ t < a + w
  BY BucketIs
<1> HIDE DEF a
<1>2. a < b => a + w <= b
  BY <1>1, StartsApart
<1>3. b < a => b + w <= a
  BY <1>1, StartsApart
<1>4. a \in Int /\ b \in Int /\ w \in Nat /\ w > 0
  BY <1>1 DEF Starts, IsWidth
<1> QED
  BY <1>1, <1>2, <1>3, <1>4 DEF a

\* _floor gives the start of a bucket, not later.
LEMMA FloorIs ==
  ASSUME NEW w, IsWidth(w), NEW t \in Int
  PROVE  Starts(Floor(t, w), w) /\ Floor(t, w) <= t /\ t < Floor(t, w) + w
<1> DEFINE q == t \div w
           r == t % w
<1>1. q \in Int /\ r \in 0 .. w - 1 /\ t = w * q + r
  BY DEF IsWidth
<1>2. w * q \in Int
  BY <1>1, Multiples
<1>3. Floor(t, w) = w * q
  <2> HIDE DEF q
  <2>1. Floor(t, w) = t - r
    BY DEF Floor
  <2> HIDE DEF r
  <2> QED
    BY <1>1, <1>2, <2>1
<1> HIDE DEF q, r
<1> QED
  BY <1>1, <1>2, <1>3 DEF Starts, IsWidth

LEMMA ZeroStarts == ASSUME NEW w, IsWidth(w) PROVE Starts(0, w)
<1>1. w * 0 = 0
  BY DEF IsWidth
<1> QED
  BY <1>1 DEF Starts

LEMMA StartsMod ==
  ASSUME NEW w, IsWidth(w), NEW t \in Int
  PROVE  t % w = 0 <=> Starts(t, w)
<1> DEFINE q == t \div w
           r == t % w
<1>1. q \in Int /\ r \in 0 .. w - 1 /\ t = w * q + r
  BY DEF IsWidth
<1> HIDE DEF q, r
<1>2. w * q \in Int /\ Starts(w * q, w)
  BY <1>1, Multiples DEF Starts
<1>3. ASSUME r = 0 PROVE Starts(t, w)
  BY <1>1, <1>2, <1>3
<1>4. ASSUME Starts(t, w) PROVE r = 0
  <2>1. t < w * q + w /\ w * q <= t
    BY <1>1, <1>2 DEF IsWidth
  <2>2. w * q < t => w * q + w <= t
    BY <1>2, <1>4, StartsApart
  <2> QED
    BY <1>1, <1>2, <2>1, <2>2 DEF IsWidth
<1> QED
  BY <1>3, <1>4 DEF r

LEMMA Widths == IsWidth(Five) /\ IsWidth(Hour)
BY HistoryAssumption DEF IsWidth

\* An hour is whole five-minute buckets.
LEMMA HourStartsFive == ASSUME NEW h, Starts(h, Hour) PROVE Starts(h, Five)
<1>1. PICK k \in Int : h = Hour * k
  BY DEF Starts
<1> DEFINE q == Hour \div Five
           r == Hour % Five
<1>2. q \in Int /\ Hour = Five * q + r /\ r = 0
  BY HistoryAssumption
<1> HIDE DEF q, r
<1>3. Hour = Five * q
  <2>1. Five * q \in Int
    BY <1>2, Widths, Multiples
  <2> QED
    BY <1>2, <2>1
<1>4. h = Five * (q * k)
  BY <1>1, <1>2, <1>3, HistoryAssumption
<1>5. q * k \in Int
  BY <1>1, <1>2
<1> QED
  BY <1>4, <1>5 DEF Starts

LEMMA HourOfFive ==
  ASSUME NEW t \in Int
  PROVE  Bucket(Bucket(t, Five), Hour) = Bucket(t, Hour)
<1> DEFINE b == Bucket(t, Five)
           h == Bucket(t, Hour)
<1>1. Starts(b, Five) /\ b <= t /\ t < b + Five
  BY Widths, BucketIs
<1>2. Starts(h, Hour) /\ h <= t /\ t < h + Hour
  BY Widths, BucketIs
<1>3. Starts(h, Five) /\ Starts(h + Hour, Five)
  <2>1. Starts(h + Hour, Hour)
    <3>1. PICK k \in Int : h = Hour * k
      BY <1>2 DEF Starts
    <3>2. h + Hour = Hour * (k + 1)
      BY <3>1, HistoryAssumption
    <3>3. h + Hour \in Int
      BY <1>2, HistoryAssumption DEF Starts
    <3> QED
      BY <3>2, <3>3 DEF Starts
  <2> QED
    BY <1>2, <2>1, HourStartsFive
<1> HIDE DEF b, h
<1>4. h <= b
  <2> SUFFICES ASSUME b < h PROVE FALSE
    BY <1>1, <1>2 DEF Starts
  <2>1. b + Five <= h
    BY <1>1, <1>3, Widths, StartsApart
  <2> QED
    BY <1>1, <1>2, <2>1, HistoryAssumption DEF Starts
<1>5. b < h + Hour
  BY <1>1, <1>2, HistoryAssumption DEF Starts
<1>6. b \in Int
  BY <1>1 DEF Starts
<1> QED
  BY <1>2, <1>4, <1>5, <1>6, Widths, BucketOf DEF b, h

-----------------------------------------------------------------------------
(* The inductive invariant. *)

InFive(b) == {t \in log.taken : Bucket(t, Five) = b}
InHour(h) == {t \in log.taken : Bucket(t, Hour) = h}

\* The hours of which the charts are to show everything.
Due(h) == h > log.expired /\ h \notin log.split

\* A five-minute bucket's samples are raw all of them or none; and they are
\* folded when it is over.
RawIsWhole ==
  /\ raw \subseteq log.taken
  /\ \A t \in raw, s \in log.taken : Bucket(s, Five) = Bucket(t, Five) => s \in raw
  /\ \A s \in log.taken \ raw : Bucket(s, Five) + Five <= time

\* What a five-minute bucket says is what was taken in it.
FivesCount ==
  \A b \in DOMAIN five :
    /\ b \in Int /\ b + Five <= time
    /\ five[b] = Cardinality(InFive(b))
    /\ \A t \in raw : Bucket(t, Five) # b

\* So does an hour, and nothing else says it again.
HoursCount ==
  \A h \in DOMAIN hourly : Due(h) =>
    /\ h \in Int /\ h + Hour <= time
    /\ hourly[h] = Cardinality(InHour(h))
    /\ \A t \in raw : Bucket(t, Hour) # h
    /\ \A b \in DOMAIN five : Bucket(b, Hour) # h

\* Nothing that was taken is nowhere.
NothingIsLost ==
  \A t \in log.taken : Due(Bucket(t, Hour)) =>
    \/ t \in raw
    \/ Bucket(t, Five) \in DOMAIN five
    \/ Bucket(t, Hour) \in DOMAIN hourly

HInv ==
  /\ HistoryTypeOK /\ log.taken \subseteq 0 .. time
  /\ RawIsWhole /\ FivesCount /\ HoursCount /\ NothingIsLost

-----------------------------------------------------------------------------
(* A night. *)

\* Of two cutoffs, the later.
LEMMA LaterIs ==
  ASSUME NEW a \in Int, NEW b \in Int
  PROVE  Max({a, b}) \in {a, b} /\ a <= Max({a, b}) /\ b <= Max({a, b})
<1>1. \E x \in {a, b} : \A y \in {a, b} : x >= y
  BY Z3
<1>2. Max({a, b}) = CHOOSE x \in {a, b} : \A y \in {a, b} : x >= y
  BY Zenon DEF Max
<1>3. Max({a, b}) \in {a, b} /\ \A y \in {a, b} : Max({a, b}) >= y
  BY <1>1, <1>2, Zenon
<1> QED
  BY <1>3

LEMMA TakenFinite ==
  ASSUME HInv
  PROVE  /\ IsFiniteSet(log.taken) /\ log.taken \subseteq Nat /\ time \in Nat
         /\ \A b : IsFiniteSet(InFive(b)) /\ IsFiniteSet(InHour(b))
<1>1. time \in Nat /\ log.taken \subseteq 0 .. time
  BY HistoryAssumption DEF HInv, HistoryTypeOK
<1>2. IsFiniteSet(0 .. time)
  BY <1>1, FS_Interval
<1> QED
  BY <1>1, <1>2, FS_Subset DEF InFive, InHour

\* What a night leaves, given what it cuts off: everything before a start of a
\* five-minute bucket is folded, then what is up to a start of an hour.
LEMMA NightKeeps == ASSUME HInv, RunRetention PROVE HInv'
<1> DEFINE rc     == Floor(time - RawKept, Five)
           fc     == Floor(time - FiveKept, Hour)
           hc     == Floor(time - HourlyKept, Hour)
           old    == {t \in raw : OrmBefore(t, rc)}
           narrow == FoldedRaw(old)
           ripe   == {b \in DOMAIN narrow : SqlBefore(b, fc)}
           wider   == FoldedWider(narrow, ripe)
           done   == {h \in DOMAIN wider : SqlBefore(h, hc)}
<1>1. /\ log.nights < MaxNights /\ time' = time
      /\ raw' = raw \ old /\ five' = Without(narrow, ripe) /\ hourly' = Without(wider, done)
      /\ space' = Thinned(Floor(time - FiveKept, Day), hc)
      /\ log' = [log EXCEPT !.nights = @ + 1,
                            !.split = IF fc \in ripe THEN @ \cup {fc} ELSE @,
                            !.expired = Max({@, hc})]
  BY Zenon DEF RunRetention
<1>2. time \in Nat /\ log.taken \subseteq 0 .. time /\ raw \subseteq 0 .. time
  BY TakenFinite DEF HInv, RawIsWhole
<1>3. /\ Starts(rc, Five) /\ rc \in Int /\ rc <= time
      /\ Starts(fc, Hour) /\ Starts(fc, Five) /\ fc \in Int /\ fc <= rc
      /\ hc \in Int
  <2>1. Starts(rc, Five) /\ rc <= time - RawKept /\ time - RawKept < rc + Five
    BY <1>2, Widths, FloorIs, HistoryAssumption
  <2>2. Starts(fc, Hour) /\ fc <= time - FiveKept /\ Starts(fc, Five)
    BY <1>2, Widths, FloorIs, HourStartsFive, HistoryAssumption
  <2>3. Starts(hc, Hour)
    BY <1>2, Widths, FloorIs, HistoryAssumption
  <2> HIDE DEF rc, fc, hc
  <2>4. rc \in Int /\ fc \in Int /\ hc \in Int
    BY <2>1, <2>2, <2>3 DEF Starts
  <2>5. rc < fc => rc + Five <= fc
    BY <2>1, <2>2, Widths, StartsApart
  <2> QED
    BY <1>2, <2>1, <2>2, <2>4, <2>5, HistoryAssumption
<1> HIDE DEF rc, fc, hc
<1>4. old = {t \in raw : t < rc} /\ raw' = {t \in raw : t >= rc}
  BY <1>1, <1>2, <1>3 DEF OrmBefore
<1>5. /\ DOMAIN narrow = DOMAIN five \cup {Bucket(t, Five) : t \in old}
      /\ \A b \in DOMAIN narrow : narrow[b] = IF b \in DOMAIN five THEN five[b]
                                              ELSE Cardinality({t \in old : Bucket(t, Five) = b})
  BY DEF FoldedRaw, Inserted
<1>6. /\ DOMAIN wider = DOMAIN hourly \cup {Bucket(b, Hour) : b \in ripe}
      /\ \A h \in DOMAIN wider :
           wider[h] = IF h \in DOMAIN hourly THEN hourly[h]
                      ELSE SumFunctionOnSet(narrow, {b \in ripe : Bucket(b, Hour) = h})
  BY Zenon DEF FoldedWider, Inserted
<1> HIDE DEF old, narrow, wider
<1>7. \A b \in DOMAIN five : b \in 0 .. MaxMoment /\ Starts(b, Five)
  <2>1. \A b \in DOMAIN five : b \in 0 .. MaxMoment /\ b % Five = 0
    BY DEF HInv, HistoryTypeOK
  <2> QED
    BY <2>1, Widths, StartsMod
<1>8. \A t \in log.taken : t \in Nat /\ t \in 0 .. MaxMoment
  BY <1>2, HistoryAssumption DEF HInv, HistoryTypeOK
<1>9. \A t \in log.taken : /\ Starts(Bucket(t, Five), Five) /\ Bucket(t, Five) \in 0 .. t
                           /\ t < Bucket(t, Five) + Five
  <2> SUFFICES ASSUME NEW t \in log.taken
               PROVE  /\ Starts(Bucket(t, Five), Five) /\ Bucket(t, Five) \in 0 .. t
                      /\ t < Bucket(t, Five) + Five
    OBVIOUS
  <2>1. t \in Int /\ t >= 0
    BY <1>8
  <2>2. Starts(Bucket(t, Five), Five) /\ Bucket(t, Five) <= t /\ t < Bucket(t, Five) + Five
    BY <2>1, Widths, BucketIs
  <2>3. Bucket(t, Five) >= 0
    <3>1. Starts(0, Five)
      BY Widths, ZeroStarts
    <3> QED
      BY <2>1, <2>2, <3>1, Widths, BucketOf DEF Starts
  <2> QED
    BY <2>1, <2>2, <2>3 DEF Starts
<1>10. \A t \in raw, s \in log.taken : Bucket(s, Five) = Bucket(t, Five) => (s < rc <=> t < rc)
  BY <1>2, <1>3, <1>8, Widths, BucketOf DEF HInv, RawIsWhole
<1>11. RawIsWhole'
  <2>1. raw' \subseteq log'.taken /\ log'.taken = log.taken
    BY <1>1, <1>4 DEF HInv, HistoryTypeOK, RawIsWhole
  <2>2. \A t \in raw', s \in log.taken : Bucket(s, Five) = Bucket(t, Five) => s \in raw'
    BY <1>3, <1>4, <1>8, <1>10 DEF HInv, RawIsWhole
  <2>3. \A s \in log.taken \ raw' : Bucket(s, Five) + Five <= time
    <3> SUFFICES ASSUME NEW s \in log.taken \ raw' PROVE Bucket(s, Five) + Five <= time
      OBVIOUS
    <3>1. CASE s \notin raw
      BY <3>1 DEF HInv, RawIsWhole
    <3>2. CASE s \in raw
      <4>1. s < rc /\ s \in Int
        BY <1>3, <1>4, <1>8, <3>2
      <4>2. Bucket(s, Five) + Five <= rc
        BY <1>3, <4>1, Widths, BucketOf
      <4>3. Bucket(s, Five) \in Int
        BY <1>9
      <4> QED
        BY <1>2, <1>3, <4>2, <4>3, HistoryAssumption
    <3> QED
      BY <3>1, <3>2
  <2> QED
    BY <1>1, <2>1, <2>2, <2>3 DEF RawIsWhole, Bucket
\* What is in a bucket now, and what there is.
<1>12. \A b \in DOMAIN narrow :
         /\ b \in 0 .. MaxMoment /\ Starts(b, Five) /\ b + Five <= time
         /\ narrow[b] = Cardinality(InFive(b))
         /\ \A t \in raw' : Bucket(t, Five) # b
  <2> SUFFICES ASSUME NEW b \in DOMAIN narrow
               PROVE  /\ b \in 0 .. MaxMoment /\ Starts(b, Five) /\ b + Five <= time
                      /\ narrow[b] = Cardinality(InFive(b))
                      /\ \A t \in raw' : Bucket(t, Five) # b
    OBVIOUS
  <2>1. CASE b \in DOMAIN five
    BY <1>4, <1>5, <1>7, <2>1 DEF HInv, FivesCount
  <2>2. CASE b \notin DOMAIN five
    <3>1. PICK t \in old : b = Bucket(t, Five)
      BY <1>5, <2>2
    <3>2. t \in raw /\ t < rc /\ t \in log.taken
      BY <1>4, <3>1 DEF HInv, RawIsWhole
    <3>3. b \in 0 .. MaxMoment /\ Starts(b, Five)
      BY <1>8, <1>9, <3>1, <3>2, HistoryAssumption
    <3>4. b + Five <= rc
      BY <1>3, <1>8, <3>1, <3>2, Widths, BucketOf
    <3>5. {u \in old : Bucket(u, Five) = b} = InFive(b)
      <4>1. \A u \in log.taken : Bucket(u, Five) = b => u \in old
        BY <1>4, <1>10, <3>1, <3>2 DEF HInv, RawIsWhole
      <4>2. old \subseteq log.taken
        BY <1>4 DEF HInv, RawIsWhole
      <4> QED
        BY <4>1, <4>2 DEF InFive
    <3>6. \A u \in raw' : Bucket(u, Five) # b
      BY <1>3, <1>4, <1>8, <1>10, <3>1, <3>2 DEF HInv, RawIsWhole
    <3>7. b + Five <= time
      BY <1>2, <1>3, <3>3, <3>4, HistoryAssumption
    <3> QED
      BY <1>5, <2>2, <3>3, <3>5, <3>6, <3>7
  <2> QED
    BY <2>1, <2>2
<1>13. log'.taken = log.taken /\ (\A b : InFive(b)' = InFive(b)) /\ (\A h : InHour(h)' = InHour(h))
  BY <1>1 DEF HInv, HistoryTypeOK, InFive, InHour, Bucket
<1>14. \A b : b \in DOMAIN five' <=> b \in DOMAIN narrow /\ b > fc
  BY <1>1, <1>3, <1>12 DEF Without, SqlBefore
<1>15. \A b \in DOMAIN five' : five'[b] = narrow[b]
  BY <1>1, <1>14 DEF Without
<1>16. FivesCount'
  BY <1>1, <1>12, <1>13, <1>14, <1>15 DEF FivesCount, Bucket
<1>17. /\ log'.expired \in Int /\ log'.expired >= log.expired /\ log'.expired >= hc
       /\ log'.split = IF fc \in ripe THEN log.split \cup {fc} ELSE log.split
  <2>1. log'.expired = Max({log.expired, hc}) /\ log.expired \in Int
    BY <1>1 DEF HInv, HistoryTypeOK
  <2>2. /\ Max({log.expired, hc}) \in {log.expired, hc}
        /\ log.expired <= Max({log.expired, hc}) /\ hc <= Max({log.expired, hc})
    BY <1>3, <2>1, LaterIs
  <2>3. log'.split = IF fc \in ripe THEN log.split \cup {fc} ELSE log.split
    <3> HIDE DEF ripe
    <3> QED
      BY <1>1 DEF HInv, HistoryTypeOK
  <2> QED
    BY <1>3, <2>1, <2>2, <2>3
<1>18. \A h \in Int : Due(h)' => Due(h) /\ h > hc /\ (h = fc => fc \notin ripe)
  BY <1>3, <1>17 DEF Due, HInv, HistoryTypeOK
\* Nothing is lost by the first fold, and what is folded into hours is whole.
<1>19. \A t \in log.taken : Due(Bucket(t, Hour)) =>
         t \in raw' \/ Bucket(t, Five) \in DOMAIN narrow \/ Bucket(t, Hour) \in DOMAIN hourly
  <2>1. \A t \in raw : t \in raw' \/ t \in old
    BY <1>1
  <2> QED
    BY <1>5, <2>1 DEF HInv, NothingIsLost
<1>20. \A t \in log.taken : /\ Starts(Bucket(t, Hour), Hour) /\ Bucket(t, Hour) \in Int
                            /\ Bucket(Bucket(t, Five), Hour) = Bucket(t, Hour)
  BY <1>8, Widths, BucketIs, HourOfFive DEF Starts
<1>21. \A b \in DOMAIN narrow : /\ Starts(Bucket(b, Hour), Hour) /\ Bucket(b, Hour) \in Int
                                /\ Bucket(b, Hour) <= b /\ b < Bucket(b, Hour) + Hour
                                /\ \A h : Starts(h, Hour) => (b < h <=> Bucket(b, Hour) < h)
  <2> SUFFICES ASSUME NEW b \in DOMAIN narrow
               PROVE  /\ Starts(Bucket(b, Hour), Hour) /\ Bucket(b, Hour) \in Int
                      /\ Bucket(b, Hour) <= b /\ b < Bucket(b, Hour) + Hour
                      /\ \A h : Starts(h, Hour) => (b < h <=> Bucket(b, Hour) < h)
    OBVIOUS
  <2>1. b \in Int
    BY <1>12
  <2>2. /\ Starts(Bucket(b, Hour), Hour)
        /\ Bucket(b, Hour) <= b /\ b < Bucket(b, Hour) + Hour
    BY <2>1, Widths, BucketIs, Zenon
  <2>3. Bucket(b, Hour) \in Int
    BY <2>2, HistoryAssumption DEF Starts
  <2>4. \A h : Starts(h, Hour) => (b < h <=> Bucket(b, Hour) < h)
    BY <2>1, Widths, BucketOf, Zenon
  <2> QED
    BY <2>2, <2>3, <2>4, Zenon
<1>22. ASSUME NEW h \in DOMAIN wider, h \notin DOMAIN hourly, Due(h)'
       PROVE  /\ h \in Int /\ Starts(h, Hour) /\ h >= 0 /\ h < fc /\ h + Hour <= fc /\ Due(h)
              /\ wider[h] = Cardinality(InHour(h))
  <2> DEFINE R == {b \in ripe : Bucket(b, Hour) = h}
             parts == [b \in R |-> InFive(b)]
  <2>1. PICK b \in ripe : h = Bucket(b, Hour)
    BY <1>6, <1>22
  <2>2. b \in DOMAIN narrow /\ b <= fc /\ h \in Int /\ Starts(h, Hour) /\ h <= b
    BY <1>3, <1>12, <1>21, <2>1 DEF SqlBefore
  <2>3. Due(h) /\ (h = fc => fc \notin ripe)
    BY <1>18, <1>22, <2>2
  <2>4. h < fc
    BY <1>3, <1>12, <2>1, <2>2, <2>3
  <2>5. h + Hour <= fc
    BY <1>3, <2>2, <2>4, Widths, StartsApart
  <2>6. h >= 0
    <3>1. Starts(0, Hour)
      BY Widths, ZeroStarts
    <3> QED
      BY <1>12, <1>21, <2>1, <2>2, <3>1
  <2>7. \A x \in R : x \in DOMAIN narrow /\ x <= fc
    BY <1>3, <1>12 DEF SqlBefore
  <2>8. wider[h] = SumFunctionOnSet(narrow, R)
    BY <1>6, <1>22
  <2>9. ASSUME NEW t \in log.taken, Bucket(t, Hour) = h PROVE Bucket(t, Five) \in R
    <3>1. t < h + Hour
      BY <1>8, <2>2, <2>9, Widths, BucketOf
    <3>2. t \in Nat /\ t < fc /\ t < rc
      BY <1>3, <1>8, <2>2, <2>5, <3>1, HistoryAssumption
    <3>3. t \notin raw'
      BY <1>3, <1>4, <3>2
    <3>4. Bucket(t, Five) \in DOMAIN narrow
      BY <1>19, <1>22, <2>3, <2>9, <3>3
    <3>5. Bucket(t, Five) <= fc
      BY <1>3, <1>9, <3>2
    <3> QED
      BY <1>3, <1>12, <1>20, <2>9, <3>4, <3>5 DEF SqlBefore
  <2> HIDE DEF R
  <2>10. Together(parts, R) = InHour(h)
    <3>1. \A t \in InHour(h) : t \in InFive(Bucket(t, Five)) /\ Bucket(t, Five) \in R
      BY <2>9 DEF InHour, InFive
    <3>2. \A x \in R : \A t \in InFive(x) : t \in log.taken /\ Bucket(t, Hour) = h
      BY <1>20 DEF InFive, R
    <3> QED
      BY <3>1, <3>2 DEF Together, InHour
  <2>11. Apart(R, parts, narrow)
    <3>1. IsFiniteSet(R)
      <4>1. R \subseteq 0 .. MaxMoment
        BY <1>12, <2>7
      <4>2. IsFiniteSet(0 .. MaxMoment)
        BY HistoryAssumption, FS_Interval
      <4> QED
        BY <4>1, <4>2, FS_Subset
    <3>2. \A x \in R : IsFiniteSet(parts[x]) /\ narrow[x] = Cardinality(parts[x])
      BY <1>12, <2>7, TakenFinite
    <3>3. \A x, y \in R : x # y => parts[x] \cap parts[y] = {}
      BY DEF InFive
    <3> QED
      BY <3>1, <3>2, <3>3 DEF Apart
  <2>12. SumFunctionOnSet(narrow, R) = Cardinality(Together(parts, R))
    <3> HIDE DEF parts
    <3> QED
      BY <2>11, SumCounts
  <2> QED
    BY <2>2, <2>3, <2>4, <2>5, <2>6, <2>8, <2>10, <2>12
<1>23. \A h : h \in DOMAIN hourly' <=> h \in DOMAIN wider /\ h \notin done
  BY <1>1 DEF Without
<1>24. \A h \in DOMAIN hourly' : hourly'[h] = wider[h]
  BY <1>1, <1>23 DEF Without
<1>25. \A h \in DOMAIN hourly : h \in Int /\ Starts(h, Hour)
  <2>1. \A h \in DOMAIN hourly : h \in 0 .. MaxMoment /\ h % Hour = 0
    BY DEF HInv, HistoryTypeOK
  <2> QED
    BY <2>1, Widths, StartsMod
<1>26. HoursCount'
  <2> SUFFICES ASSUME NEW h \in DOMAIN hourly', Due(h)'
               PROVE  /\ h \in Int /\ h + Hour <= time'
                      /\ hourly'[h] = Cardinality(InHour(h))'
                      /\ \A t \in raw' : Bucket(t, Hour) # h
                      /\ \A b \in DOMAIN five' : Bucket(b, Hour) # h
    BY DEF HoursCount, Bucket
  <2>1. h \in DOMAIN wider /\ hourly'[h] = wider[h]
    BY <1>23, <1>24
  <2>2. CASE h \in DOMAIN hourly
    <3>1. h \in Int /\ Due(h)
      BY <1>18, <1>25, <2>2
    <3>2. /\ h + Hour <= time /\ wider[h] = Cardinality(InHour(h))
          /\ \A t \in raw : Bucket(t, Hour) # h
          /\ \A b \in DOMAIN five : Bucket(b, Hour) # h
      BY <1>6, <2>1, <2>2, <3>1 DEF HInv, HoursCount
    <3>3. \A t \in raw' : t \in raw
      BY <1>4
    <3>4. ASSUME NEW b \in DOMAIN five' PROVE Bucket(b, Hour) # h
      <4>1. b \in DOMAIN five \/ \E t \in old : b = Bucket(t, Five)
        BY <1>5, <1>14
      <4>2. \A t \in old : t \in raw /\ t \in log.taken
        BY <1>4 DEF HInv, RawIsWhole
      <4> QED
        BY <1>20, <3>2, <4>1, <4>2
    <3> QED
      BY <1>1, <1>13, <2>1, <3>1, <3>2, <3>3, <3>4
  <2>3. CASE h \notin DOMAIN hourly
    <3>1. /\ h \in Int /\ Starts(h, Hour) /\ h < fc /\ h + Hour <= fc
          /\ wider[h] = Cardinality(InHour(h))
      BY <1>22, <2>1, <2>3
    <3>2. \A t \in raw' : Bucket(t, Hour) # h
      <4> SUFFICES ASSUME NEW t \in raw', Bucket(t, Hour) = h PROVE FALSE
        OBVIOUS
      <4>1. t \in log.taken /\ t >= rc
        BY <1>4 DEF HInv, RawIsWhole
      <4>2. t < h + Hour
        BY <1>8, <3>1, <4>1, Widths, BucketOf
      <4> QED
        BY <1>3, <1>8, <3>1, <4>1, <4>2, HistoryAssumption
    <3>3. \A b \in DOMAIN five' : Bucket(b, Hour) # h
      <4> SUFFICES ASSUME NEW b \in DOMAIN five', Bucket(b, Hour) = h PROVE FALSE
        OBVIOUS
      <4>1. b \in DOMAIN narrow /\ b > fc
        BY <1>14
      <4> QED
        BY <1>3, <1>12, <1>21, <3>1, <4>1
    <3>4. h + Hour <= time
      BY <1>2, <1>3, <3>1, HistoryAssumption
    <3> QED
      BY <1>1, <1>13, <2>1, <3>1, <3>2, <3>3, <3>4
  <2> QED
    BY <2>2, <2>3
<1>27. NothingIsLost'
  <2> SUFFICES ASSUME NEW t \in log.taken, Due(Bucket(t, Hour))'
               PROVE  t \in raw' \/ Bucket(t, Five) \in DOMAIN five' \/ Bucket(t, Hour) \in DOMAIN hourly'
    BY <1>13 DEF NothingIsLost, Bucket
  <2> DEFINE h == Bucket(t, Hour)
             b == Bucket(t, Five)
  <2>1. h \in Int /\ Starts(h, Hour) /\ Bucket(b, Hour) = h
    BY <1>20
  <2>2. Due(h) /\ h > hc
    <3>1. Due(h)'
      BY DEF Bucket
    <3> HIDE DEF h
    <3> QED
      BY <1>18, <2>1, <3>1
  <2>3. t \in raw' \/ b \in DOMAIN narrow \/ h \in DOMAIN hourly
    BY <1>19, <2>2
  <2> HIDE DEF h, b
  <2>4. h \in DOMAIN wider => h \in DOMAIN hourly'
    BY <1>3, <1>23, <2>1, <2>2 DEF SqlBefore
  <2>5. CASE b \in DOMAIN narrow /\ ~(b > fc)
    <3>1. b \in ripe
      BY <1>3, <1>12, <2>5 DEF SqlBefore
    <3> QED
      BY <1>6, <2>1, <2>4, <3>1 DEF h
  <2>6. CASE b \in DOMAIN narrow /\ b > fc
    BY <1>14, <2>6 DEF b
  <2>7. CASE h \in DOMAIN hourly
    BY <1>6, <2>4, <2>7 DEF h
  <2> QED
    BY <2>3, <2>5, <2>6, <2>7
<1>28. HistoryTypeOK'
  <2>1. time' \in 0 .. MaxMoment /\ raw' \subseteq 0 .. MaxMoment
    BY <1>1 DEF HInv, HistoryTypeOK
  <2>2. DOMAIN five' \subseteq {t \in 0 .. MaxMoment : t % Five = 0}
    BY <1>12, <1>14, Widths, StartsMod
  <2>3. space' \subseteq {t \in 0 .. MaxMoment : t % Hour = 0}
    BY <1>1 DEF Thinned, HInv, HistoryTypeOK
  <2>4. DOMAIN hourly' \subseteq {t \in 0 .. MaxMoment : t % Hour = 0}
    <3> SUFFICES ASSUME NEW h \in DOMAIN hourly', h \notin DOMAIN hourly
                 PROVE  h \in 0 .. MaxMoment /\ h % Hour = 0
      BY DEF HInv, HistoryTypeOK
    <3>1. PICK b \in ripe : h = Bucket(b, Hour)
      BY <1>6, <1>23
    <3>2. b \in DOMAIN narrow /\ b \in 0 .. MaxMoment
      BY <1>12, <3>1
    <3>3. Starts(h, Hour) /\ h \in Int /\ h <= b /\ h >= 0
      <4>1. Starts(0, Hour)
        BY Widths, ZeroStarts
      <4> QED
        BY <1>21, <3>1, <3>2, <4>1
    <3> QED
      BY <3>2, <3>3, Widths, StartsMod, HistoryAssumption
  <2>5. log' \in [taken : SUBSET (0 .. MaxMoment), gaps : 0 .. MaxGaps, nights : 0 .. MaxNights,
                  split : SUBSET Int, expired : Int]
    <3> HIDE DEF ripe
    <3>1. log.nights + 1 \in 0 .. MaxNights
      BY <1>1, HistoryAssumption DEF HInv, HistoryTypeOK
    <3>2. log' = [taken |-> log.taken, gaps |-> log.gaps, nights |-> log.nights + 1,
                  split |-> log'.split, expired |-> log'.expired]
      BY <1>1 DEF HInv, HistoryTypeOK
    <3>3. log'.split \subseteq Int
      BY <1>3, <1>17 DEF HInv, HistoryTypeOK
    <3> QED
      BY <1>17, <3>1, <3>2, <3>3 DEF HInv, HistoryTypeOK
  <2> QED
    BY <2>1, <2>2, <2>3, <2>4, <2>5 DEF HistoryTypeOK
<1> QED
  BY <1>1, <1>2, <1>11, <1>13, <1>16, <1>26, <1>27, <1>28 DEF HInv

-----------------------------------------------------------------------------
(* A moment. *)

LEMMA MomentKeeps == ASSUME HInv, NEW is \in BOOLEAN, Sampled(is) PROVE HInv'
<1> DEFINE now == time + 1
<1>1. /\ time < MaxMoment /\ time' = now /\ log.gaps + (IF is THEN 0 ELSE 1) <= MaxGaps
      /\ raw' = IF is THEN raw \cup {now} ELSE raw
      /\ log'.taken = IF is THEN log.taken \cup {now} ELSE log.taken
      /\ five' = five /\ hourly' = hourly
      /\ log'.expired = log.expired /\ log'.split = log.split
  BY DEF Sampled, HInv, HistoryTypeOK
<1>2. time \in Nat /\ log.taken \subseteq 0 .. time /\ raw \subseteq log.taken /\ now \in Nat
      /\ now \notin log.taken
  BY TakenFinite DEF HInv, RawIsWhole
<1>3. \A t \in log.taken : t \in Nat
  BY <1>2
<1>4. HistoryTypeOK'
  <2>1. time' \in 0 .. MaxMoment /\ raw' \subseteq 0 .. MaxMoment
    BY <1>1, <1>2, HistoryAssumption DEF HInv, HistoryTypeOK
  <2>2. space' \subseteq {t \in 0 .. MaxMoment : t % Hour = 0}
    BY <2>1 DEF Sampled, HInv, HistoryTypeOK
  <2>3. log' \in [taken : SUBSET (0 .. MaxMoment), gaps : 0 .. MaxGaps, nights : 0 .. MaxNights,
                  split : SUBSET Int, expired : Int]
    <3>1. log' = [taken |-> IF is THEN log.taken \cup {now} ELSE log.taken,
                  gaps |-> IF is THEN log.gaps ELSE log.gaps + 1, nights |-> log.nights,
                  split |-> log.split, expired |-> log.expired]
      BY DEF Sampled, HInv, HistoryTypeOK
    <3>2. (IF is THEN log.gaps ELSE log.gaps + 1) \in 0 .. MaxGaps
      BY <1>1, HistoryAssumption DEF HInv, HistoryTypeOK
    <3>3. (IF is THEN log.taken \cup {now} ELSE log.taken) \subseteq 0 .. MaxMoment
      BY <1>1, <2>1 DEF HInv, HistoryTypeOK
    <3> QED
      BY <3>1, <3>2, <3>3 DEF HInv, HistoryTypeOK
  <2> QED
    BY <1>1, <2>1, <2>2, <2>3 DEF HistoryTypeOK, HInv
\* A bucket that is over gets no more.
<1>5. ASSUME NEW w, IsWidth(w), NEW b, Starts(b, w), b + w <= time
      PROVE  Bucket(now, w) # b
  <2>1. b \in Int /\ w \in Nat /\ now \in Int /\ ~(now < b + w)
    BY <1>2, <1>5 DEF Starts, IsWidth
  <2>2. Bucket(now, w) = b => now < b + w
    BY <1>5, <2>1, BucketOf
  <2> QED
    BY <2>1, <2>2
<1>6. \A b \in DOMAIN five : Starts(b, Five)
  <2>1. \A b \in DOMAIN five : b \in 0 .. MaxMoment /\ b % Five = 0
    BY DEF HInv, HistoryTypeOK
  <2> QED
    BY <2>1, Widths, StartsMod
<1>7. \A h \in DOMAIN hourly : Starts(h, Hour)
  <2>1. \A h \in DOMAIN hourly : h \in 0 .. MaxMoment /\ h % Hour = 0
    BY DEF HInv, HistoryTypeOK
  <2> QED
    BY <2>1, Widths, StartsMod
<1>8. RawIsWhole'
  <2>1. raw' \subseteq log'.taken
    BY <1>1, <1>2
  <2>2. \A s \in log.taken \ raw : Bucket(now, Five) # Bucket(s, Five)
    <3> SUFFICES ASSUME NEW s \in log.taken \ raw PROVE Bucket(now, Five) # Bucket(s, Five)
      OBVIOUS
    <3>1. Starts(Bucket(s, Five), Five) /\ Bucket(s, Five) + Five <= time
      BY <1>3, Widths, BucketIs DEF HInv, RawIsWhole
    <3> QED
      BY <1>5, <3>1, Widths
  <2>3. \A t \in raw', s \in log'.taken : Bucket(s, Five) = Bucket(t, Five) => s \in raw'
    BY <1>1, <1>2, <2>2 DEF HInv, RawIsWhole
  <2>4. \A s \in log'.taken \ raw' : Bucket(s, Five) + Five <= time'
    <3> SUFFICES ASSUME NEW s \in log'.taken \ raw' PROVE Bucket(s, Five) + Five <= time'
      OBVIOUS
    <3>1. s \in log.taken \ raw
      BY <1>1
    <3>2. Bucket(s, Five) + Five <= time
      BY <3>1 DEF HInv, RawIsWhole
    <3>3. Bucket(s, Five) \in Int
      BY <1>3, <3>1, Widths, BucketIs DEF Starts
    <3> QED
      BY <1>1, <1>2, <3>2, <3>3, HistoryAssumption
  <2> QED
    BY <2>1, <2>3, <2>4 DEF RawIsWhole, Bucket
<1>9. FivesCount'
  <2> SUFFICES ASSUME NEW b \in DOMAIN five
               PROVE  /\ b \in Int /\ b + Five <= time'
                      /\ five[b] = Cardinality(InFive(b)')
                      /\ \A t \in raw' : Bucket(t, Five) # b
    BY <1>1 DEF FivesCount, Bucket
  <2>1. /\ b \in Int /\ b + Five <= time /\ five[b] = Cardinality(InFive(b))
        /\ \A t \in raw : Bucket(t, Five) # b
    BY DEF HInv, FivesCount
  <2>2. Bucket(now, Five) # b
    BY <1>5, <1>6, <2>1, Widths
  <2>3. InFive(b)' = InFive(b)
    BY <1>1, <2>2 DEF InFive, Bucket
  <2> QED
    BY <1>1, <1>2, <2>1, <2>2, <2>3, HistoryAssumption
<1>10. HoursCount'
  <2> SUFFICES ASSUME NEW h \in DOMAIN hourly, Due(h)
               PROVE  /\ h \in Int /\ h + Hour <= time'
                      /\ hourly[h] = Cardinality(InHour(h)')
                      /\ \A t \in raw' : Bucket(t, Hour) # h
                      /\ \A b \in DOMAIN five : Bucket(b, Hour) # h
    BY <1>1 DEF HoursCount, Bucket, Due
  <2>1. /\ h \in Int /\ h + Hour <= time /\ hourly[h] = Cardinality(InHour(h))
        /\ \A t \in raw : Bucket(t, Hour) # h
        /\ \A b \in DOMAIN five : Bucket(b, Hour) # h
    BY DEF HInv, HoursCount
  <2>2. Bucket(now, Hour) # h
    BY <1>5, <1>7, <2>1, Widths
  <2>3. InHour(h)' = InHour(h)
    BY <1>1, <2>2 DEF InHour, Bucket
  <2> QED
    BY <1>1, <1>2, <2>1, <2>2, <2>3, HistoryAssumption
<1>11. NothingIsLost'
  BY <1>1 DEF HInv, NothingIsLost, Due, Bucket
<1>12. log'.taken \subseteq 0 .. time'
  BY <1>1, <1>2
<1> QED
  BY <1>4, <1>8, <1>9, <1>10, <1>11, <1>12 DEF HInv

LEMMA HistoryStarts == HistoryInit => HInv
<1> SUFFICES ASSUME HistoryInit PROVE HInv
  OBVIOUS
<1>1. 0 \in 0 .. MaxMoment /\ 0 \in 0 .. MaxGaps /\ 0 \in 0 .. MaxNights /\ 0 % Hour = 0
  BY HistoryAssumption
<1>2. DOMAIN five = {} /\ DOMAIN hourly = {} /\ raw = {0} /\ time = 0 /\ log.taken = {0}
  BY DEF HistoryInit, Empty
<1>3. HistoryTypeOK
  BY <1>1, <1>2 DEF HistoryInit, HistoryTypeOK
<1> QED
  BY <1>2, <1>3 DEF HInv, RawIsWhole, FivesCount, HoursCount, NothingIsLost

LEMMA HistoryKeeps == HInv /\ [HistoryNext]_hvars => HInv'
<1> SUFFICES ASSUME HInv, [HistoryNext]_hvars PROVE HInv'
  OBVIOUS
<1>1. CASE RunRetention
  BY <1>1, NightKeeps
<1>2. ASSUME NEW is \in BOOLEAN, Sampled(is) PROVE HInv'
  BY <1>2, MomentKeeps
<1>3. CASE UNCHANGED hvars
  BY <1>3 DEF hvars, HInv, HistoryTypeOK, RawIsWhole, FivesCount, HoursCount, NothingIsLost, Due,
              InFive, InHour, Bucket
<1> QED
  BY <1>1, <1>2, <1>3 DEF HistoryNext

-----------------------------------------------------------------------------
(* What the charts show. *)

LEMMA ChartsAddUp == HInv => HistoryAddsUp
<1> SUFFICES ASSUME HInv, NEW h \in Hours \ log.split
             PROVE  Shown(h - Hour, Hour, 1) = TakenIn(h, Hour)
  BY DEF HistoryAddsUp
<1>1. h \in Nat /\ Starts(h, Hour) /\ Due(h)
  <2>1. h \in 0 .. time /\ h % Hour = 0 /\ h > log.expired /\ h \notin log.split /\ time \in Nat
    BY TakenFinite DEF Hours
  <2> QED
    BY <2>1, Widths, StartsMod DEF Due
<1> DEFINE start == h - Hour
\* The buckets of that index are those of the hour.
<1>2. ASSUME NEW t \in Int
      PROVE  /\ Index(t, start, Hour) = 1 <=> Bucket(t, Hour) = h
             /\ Bucket(t, Hour) = h => t > start /\ t >= start
  <2> DEFINE q == (t - start) \div Hour
             r == (t - start) % Hour
  <2>1. q \in Int /\ r \in 0 .. Hour - 1 /\ t - start = Hour * q + r
    <3>1. t - start \in Int
      BY <1>1, HistoryAssumption
    <3> HIDE DEF start
    <3> QED
      BY <3>1, Widths, Divides
  <2>2. Index(t, start, Hour) = q
    BY DEF Index
  <2> HIDE DEF q, r
  <2>3. q = 1 <=> (h <= t /\ t < h + Hour)
    <3>1. Hour * 1 = Hour /\ Hour * q \in Int /\ Hour \in Nat /\ Hour > 0
      BY <2>1, Widths, Multiples DEF IsWidth
    <3>2. q > 1 => Hour * 1 + Hour <= Hour * q
      BY <2>1, Widths, Multiples
    <3>3. q < 1 => Hour * q + Hour <= Hour * 1
      BY <2>1, Widths, Multiples
    <3> DEFINE p == Hour * q
    <3>4. t - start = p + r
      BY <2>1
    <3>5. q = 1 => p = Hour
      BY <3>1
    <3>6. p \in Int /\ (q > 1 => Hour + Hour <= p) /\ (q < 1 => p + Hour <= Hour)
      BY <3>1, <3>2, <3>3
    <3> HIDE DEF p
    <3>7. t - h = p + r - Hour
      BY <1>1, <2>1, <3>1, <3>4, <3>6
    <3> QED
      BY <1>1, <2>1, <3>1, <3>5, <3>6, <3>7
  <2>4. (h <= t /\ t < h + Hour) <=> Bucket(t, Hour) = h
    BY <1>1, Widths, BucketOf
  <2> QED
    BY <1>1, <2>2, <2>3, <2>4, HistoryAssumption
<1>3. \A t \in log.taken : t \in Int
  BY TakenFinite
<1>4. \A b \in DOMAIN five : b \in Nat
  BY DEF HInv, HistoryTypeOK
<1>5. \A b \in DOMAIN hourly : b \in Nat /\ Starts(b, Hour)
  <2>1. \A b \in DOMAIN hourly : b \in 0 .. MaxMoment /\ b % Hour = 0
    BY DEF HInv, HistoryTypeOK
  <2> QED
    BY <2>1, Widths, StartsMod
<1> DEFINE R == {t \in raw : Bucket(t, Hour) = h}
           F == {b \in DOMAIN five : Bucket(b, Hour) = h}
           H == DOMAIN hourly \cap {h}
<1>6. Shown(start, Hour, 1) = Cardinality(R) + SumFunctionOnSet(five, F) + SumFunctionOnSet(hourly, H)
  <2>1. {t \in raw : t >= start /\ Index(t, start, Hour) = 1} = R
    BY <1>2, <1>3 DEF HInv, RawIsWhole
  <2>2. {b \in DOMAIN five : b > start /\ Index(b, start, Hour) = 1} = F
    BY <1>2, <1>4
  <2>3. {b \in DOMAIN hourly : b > start /\ Index(b, start, Hour) = 1} = H
    <3>1. \A b \in DOMAIN hourly : Bucket(b, Hour) = h <=> b = h
      <4> SUFFICES ASSUME NEW b \in DOMAIN hourly PROVE Bucket(b, Hour) = h <=> b = h
        OBVIOUS
      <4>1. Bucket(b, Hour) = b
        <5>1. b \in Int /\ Starts(b, Hour) /\ b <= b /\ b < b + Hour
          BY <1>5, HistoryAssumption
        <5> QED
          BY <5>1, Widths, BucketOf
      <4> QED
        BY <4>1
    <3> QED
      BY <1>2, <1>5, <3>1
  <2> HIDE DEF R, F, H, start
  <2> QED
    BY <2>1, <2>2, <2>3 DEF Shown, Rolled
<1>7. TakenIn(h, Hour) = Cardinality(InHour(h))
  <2>1. {t \in log.taken : t >= h /\ t < h + Hour} = InHour(h)
    BY <1>1, <1>3, Widths, BucketOf DEF InHour
  <2> QED
    BY <2>1 DEF TakenIn
<1> DEFINE fives == [b \in F |-> InFive(b)]
           hours == [b \in H |-> InHour(b)]
<1>8. Apart(F, fives, five)
  <2>1. IsFiniteSet(F)
    <3>1. F \subseteq 0 .. MaxMoment
      BY DEF HInv, HistoryTypeOK
    <3>2. IsFiniteSet(0 .. MaxMoment)
      BY HistoryAssumption, FS_Interval
    <3> QED
      BY <3>1, <3>2, FS_Subset
  <2>2. \A x \in F : IsFiniteSet(fives[x]) /\ five[x] = Cardinality(fives[x])
    BY TakenFinite DEF HInv, FivesCount
  <2>3. \A x, y \in F : x # y => fives[x] \cap fives[y] = {}
    BY DEF InFive
  <2> QED
    BY <2>1, <2>2, <2>3 DEF Apart
<1>9. Apart(H, hours, hourly)
  <2>1. IsFiniteSet(H)
    BY FS_Singleton, FS_Subset
  <2>2. \A x \in H : x = h /\ IsFiniteSet(hours[x]) /\ hourly[x] = Cardinality(hours[x])
    BY <1>1, TakenFinite DEF HInv, HoursCount
  <2>3. \A x, y \in H : x = y
    OBVIOUS
  <2> HIDE DEF H
  <2> QED
    BY <2>1, <2>2, <2>3 DEF Apart
<1>10. /\ SumFunctionOnSet(five, F) = Cardinality(Together(fives, F))
       /\ SumFunctionOnSet(hourly, H) = Cardinality(Together(hours, H))
  <2> HIDE DEF fives, hours, F, H
  <2> QED
    BY <1>8, <1>9, SumCounts
<1>11. CASE h \in DOMAIN hourly
  <2>1. R = {} /\ F = {} /\ H = {h}
    BY <1>1, <1>11 DEF HInv, HoursCount
  <2>2. Together(fives, F) = {} /\ Together(hours, H) = InHour(h)
    BY <2>1 DEF Together
  <2>3. Cardinality(InHour(h)) \in Nat
    BY TakenFinite, FS_CardinalityType
  <2>4. Cardinality(R) = 0 /\ SumFunctionOnSet(five, F) = 0
    BY <1>10, <2>1, <2>2, FS_EmptySet
  <2>5. SumFunctionOnSet(hourly, H) = Cardinality(InHour(h))
    BY <1>10, <2>2
  <2> HIDE DEF R, F, H
  <2> QED
    BY <1>6, <1>7, <2>3, <2>4, <2>5
<1>12. CASE h \notin DOMAIN hourly
  <2> DEFINE U == Together(fives, F)
  <2>1. InHour(h) = R \cup U
    <3>1. \A t \in InHour(h) : t \in R \/ Bucket(t, Five) \in F
      BY <1>1, <1>3, <1>12, HourOfFive DEF HInv, NothingIsLost, InHour
    <3>2. \A t \in InHour(h) : Bucket(t, Five) \in F => t \in U
      BY DEF Together, InFive, InHour
    <3>3. \A t \in U : t \in log.taken /\ Bucket(t, Hour) = h
      BY <1>3, HourOfFive DEF Together, InFive
    <3>4. R \subseteq InHour(h)
      BY DEF InHour, HInv, RawIsWhole
    <3> HIDE DEF U, R, F
    <3> QED
      BY <3>1, <3>2, <3>3, <3>4 DEF InHour
  <2>2. R \cap U = {}
    BY DEF Together, InFive, HInv, FivesCount
  <2>3. H = {} /\ Together(hours, H) = {}
    BY <1>12 DEF Together
  <2> HIDE DEF R, U, H
  <2>4. IsFiniteSet(R) /\ IsFiniteSet(U)
    BY <2>1, TakenFinite, FS_Subset
  <2>5. Cardinality(InHour(h)) = Cardinality(R) + Cardinality(U) - Cardinality({})
    BY <2>1, <2>2, <2>4, FS_Union
  <2>6. Cardinality(R) \in Nat /\ Cardinality(U) \in Nat
    BY <2>4, FS_CardinalityType
  <2>7. SumFunctionOnSet(five, F) = Cardinality(U) /\ SumFunctionOnSet(hourly, H) = 0
    BY <1>10, <2>3, FS_EmptySet DEF U
  <2>8. Cardinality({}) = 0
    BY FS_EmptySet
  <2> QED
    BY <1>6, <1>7, <2>5, <2>6, <2>7, <2>8
<1> QED
  BY <1>11, <1>12

\* Every sample is counted once and once only on the charts until its hour
\* expires (retention._floor), but for an hour that began at the cutoff of a
\* night.
THEOREM EverySampleCountsOnce == HistorySpec => []HistoryAddsUp
<1>1. HInv /\ [HistoryNext]_hvars => HInv'
  BY HistoryKeeps
<1>2. HInv => HistoryAddsUp
  BY ChartsAddUp
<1> QED
  BY HistoryStarts, <1>1, <1>2, PTL DEF HistorySpec

\* Buckets start where buckets of their width do, and nothing is kept of a
\* moment that is yet to come.
THEOREM HistoryTypeCorrect == HistorySpec => []HistoryTypeOK
<1>1. HInv /\ [HistoryNext]_hvars => HInv'
  BY HistoryKeeps
<1>2. HInv => HistoryTypeOK
  BY DEF HInv
<1> QED
  BY HistoryStarts, <1>1, <1>2, PTL DEF HistorySpec

-----------------------------------------------------------------------------
(***************************************************************************)
(* Availability: outages do not overlap.                                   *)
(***************************************************************************)

\* An outage is over before the next one begins, so that only the last one
\* can be open.
OutagesApart ==
  /\ \A o \in outages : o.opened < today /\ o.opened < o.closed /\ (o.closed <= today \/ IsOpen(o))
  /\ \A o, p \in outages : o # p => o.closed <= p.opened \/ p.closed <= o.opened

AInv == AvailabilityTypeOK /\ OutagesApart

LEMMA ClosedKeeps ==
  ASSUME AInv, today < LastDay
  PROVE  /\ Closed(today) \subseteq Outage
         /\ \A o \in Closed(today) : o.opened < today /\ o.opened < o.closed /\ o.closed <= today
         /\ \A o, p \in Closed(today) : o # p => o.closed <= p.opened \/ p.closed <= o.opened
<1> DEFINE ended(o) == IF IsOpen(o) THEN [o EXCEPT !.closed = today] ELSE o
<1>1. today \in Nat /\ LastDay \in Nat /\ today < Still
  BY AvailabilityAssumption DEF AInv, AvailabilityTypeOK, Still
<1>2. \A o \in outages : /\ ended(o) \in Outage /\ ended(o).opened = o.opened
                         /\ ended(o).closed <= today /\ ended(o).closed <= o.closed
                         /\ o.opened < today /\ o.opened < ended(o).closed
  <2> SUFFICES ASSUME NEW o \in outages
               PROVE  /\ ended(o) \in Outage /\ ended(o).opened = o.opened
                      /\ ended(o).closed <= today /\ ended(o).closed <= o.closed
                      /\ o.opened < today /\ o.opened < ended(o).closed
    OBVIOUS
  <2>1. o \in Outage /\ o.opened < today /\ o.opened < o.closed /\ (o.closed <= today \/ IsOpen(o))
    BY DEF AInv, OutagesApart, AvailabilityTypeOK
  <2>2. CASE IsOpen(o)
    BY <1>1, <2>1, <2>2 DEF Outage, IsOpen, Still
  <2>3. CASE ~IsOpen(o)
    BY <1>1, <2>1, <2>3 DEF Outage
  <2> QED
    BY <2>2, <2>3
<1>3. \A o, p \in outages : o # p => o.closed <= p.opened \/ p.closed <= o.opened
  BY DEF AInv, OutagesApart
<1>4. \A o \in outages : o.opened \in Int /\ o.closed \in Int /\ ended(o).closed \in Int
  BY <1>2, AvailabilityAssumption DEF AInv, AvailabilityTypeOK, Outage, Still
<1>5. Closed(today) = {ended(o) : o \in outages}
  BY DEF Closed
<1> HIDE DEF ended
<1>6. \A o, p \in outages : ended(o) # ended(p) =>
        ended(o).closed <= ended(p).opened \/ ended(p).closed <= ended(o).opened
  <2> SUFFICES ASSUME NEW o \in outages, NEW p \in outages, ended(o) # ended(p)
               PROVE  ended(o).closed <= ended(p).opened \/ ended(p).closed <= ended(o).opened
    OBVIOUS
  <2>1. o.closed <= p.opened \/ p.closed <= o.opened
    BY <1>3
  <2> QED
    BY <1>2, <1>4, <2>1
<1> QED
  BY <1>2, <1>5, <1>6

LEMMA AvailabilityStarts == AvailabilityInit => AInv
<1> SUFFICES ASSUME AvailabilityInit PROVE AInv
  OBVIOUS
<1>1. windows \subseteq Windows
  BY DEF AvailabilityInit, kSubset
<1>2. today \in 0 .. LastDay
  BY AvailabilityAssumption DEF AvailabilityInit
<1> QED
  BY <1>1, <1>2 DEF AvailabilityInit, AInv, AvailabilityTypeOK, OutagesApart

LEMMA AvailabilityKeeps == AInv /\ [AvailabilityNext]_avars => AInv'
<1> SUFFICES ASSUME AInv, [AvailabilityNext]_avars PROVE AInv'
  OBVIOUS
<1>1. today \in 0 .. LastDay /\ LastDay \in Nat
  BY AvailabilityAssumption DEF AInv, AvailabilityTypeOK
\* Whatever ends now, the clock goes on.
<1>2. ASSUME today < LastDay, today' = today + 1, windows' = windows, checks' \subseteq 0 .. LastDay,
             \/ outages' = Closed(today)
             \/ outages' = outages
             \/ \E e \in BOOLEAN :
                  /\ outages' = outages \cup {[opened |-> today, closed |-> Still, explained |-> e]}
                  /\ ~\E o \in outages : IsOpen(o)
      PROVE  AInv'
  <2>1. today' \in 0 .. LastDay /\ windows' \subseteq Windows /\ checks' \subseteq 0 .. LastDay
    BY <1>1, <1>2 DEF AInv, AvailabilityTypeOK
  <2>2. CASE outages' = Closed(today)
    <3>1. /\ outages' \subseteq Outage
          /\ \A o \in outages' : o.opened < today /\ o.opened < o.closed /\ o.closed <= today
          /\ \A o, p \in outages' : o # p => o.closed <= p.opened \/ p.closed <= o.opened
      BY <1>2, <2>2, ClosedKeeps
    <3>2. \A o \in outages' : o.opened \in Int /\ o.closed \in Int
      BY <3>1, <1>1 DEF Outage, Still
    <3>3. \A o \in outages' : o.opened < today' /\ o.closed <= today'
      BY <1>1, <1>2, <3>1, <3>2
    <3> QED
      BY <2>1, <3>1, <3>3 DEF AInv, AvailabilityTypeOK, OutagesApart
  <2>3. \A o \in outages : /\ o \in Outage /\ o.opened < today /\ o.opened < o.closed
                           /\ o.closed <= today \/ IsOpen(o)
    BY DEF AInv, OutagesApart, AvailabilityTypeOK
  <2>4. \A o \in outages : o.opened \in Int /\ o.closed \in Int
    BY <2>3, <1>1 DEF Outage, Still
  <2>5. \A o \in outages : /\ o.opened < today' /\ o.opened < o.closed
                           /\ o.closed <= today' \/ IsOpen(o)
    BY <1>1, <1>2, <2>3, <2>4
  <2>6. \A o, p \in outages : o # p => o.closed <= p.opened \/ p.closed <= o.opened
    BY DEF AInv, OutagesApart
  <2>7. CASE outages' = outages
    BY <2>1, <2>5, <2>6, <2>7, <2>3 DEF AInv, AvailabilityTypeOK, OutagesApart, IsOpen
  <2>8. ASSUME NEW e \in BOOLEAN, ~\E o \in outages : IsOpen(o),
               outages' = outages \cup {[opened |-> today, closed |-> Still, explained |-> e]}
        PROVE  AInv'
    <3> DEFINE n == [opened |-> today, closed |-> Still, explained |-> e]
    <3>1. n \in Outage /\ n.opened = today /\ n.closed = Still /\ today < Still /\ today < today'
      BY <1>1, <1>2 DEF Outage, Still
    <3>2. IsOpen(n)
      BY <3>1 DEF IsOpen
    <3> HIDE DEF n
    <3>3. outages' = outages \cup {n}
      BY <2>8 DEF n
    <3>4. \A o \in outages : o.closed <= n.opened
      BY <2>3, <2>8, <3>1
    <3>5. \A o, p \in outages' : o # p => o.closed <= p.opened \/ p.closed <= o.opened
      BY <2>6, <3>3, <3>4
    <3>6. \A o \in outages' : o \in Outage /\ o.opened < today' /\ o.opened < o.closed
                              /\ (o.closed <= today' \/ IsOpen(o))
      BY <2>3, <2>5, <3>1, <3>2, <3>3
    <3> QED
      BY <2>1, <3>5, <3>6 DEF AInv, AvailabilityTypeOK, OutagesApart, IsOpen
  <2> QED
    BY <1>2, <2>2, <2>7, <2>8
<1>3. ASSUME NEW finds \in {"up", "down", "explained"}, Check(finds) PROVE AInv'
  <2>1. /\ today < LastDay /\ today' = today + 1 /\ windows' = windows /\ checks' = checks \cup {today}
        /\ outages' =
             IF finds = "up" THEN Closed(today)
             ELSE IF \E o \in outages : IsOpen(o) THEN outages
             ELSE outages \cup {[opened |-> today, closed |-> Still, explained |-> finds = "explained"]}
    BY <1>3 DEF Check
  <2>2. checks' \subseteq 0 .. LastDay
    BY <1>1, <2>1 DEF AInv, AvailabilityTypeOK
  <2>3. (finds = "explained") \in BOOLEAN
    OBVIOUS
  <2>4. \/ outages' = Closed(today)
        \/ outages' = outages
        \/ \E e \in BOOLEAN :
             /\ outages' = outages \cup {[opened |-> today, closed |-> Still, explained |-> e]}
             /\ ~\E o \in outages : IsOpen(o)
    BY <2>1, <2>3, Zenon
  <2> QED
    BY <1>2, <2>1, <2>2, <2>4
<1>4. ASSUME NEW paused \in BOOLEAN, Unwatched(paused) PROVE AInv'
  <2>1. /\ today < LastDay /\ today' = today + 1 /\ windows' = windows /\ checks' = checks
        /\ outages' = IF paused THEN Closed(today) ELSE outages
    BY <1>4 DEF Unwatched
  <2>2. checks' \subseteq 0 .. LastDay
    BY <2>1 DEF AInv, AvailabilityTypeOK
  <2> QED
    BY <1>2, <2>1, <2>2
<1>5. CASE UNCHANGED avars
  BY <1>5 DEF avars, AInv, AvailabilityTypeOK, OutagesApart, IsOpen
<1> QED
  BY <1>3, <1>4, <1>5 DEF AvailabilityNext

-----------------------------------------------------------------------------
(* Pieces and what they merge into.  This is SpansOver, of any pieces.     *)

Pieces(P, far) == /\ far \in Nat
                  /\ \A p \in P : /\ p.start \in Nat /\ p.end \in Nat
                                  /\ p.start < p.end /\ p.end <= far

Begins(P)     == {s.start : s \in {p \in P : ~\E q \in P : q.start < p.start /\ p.start <= q.end}}
Group(P, b)   == {p \in P : p.start >= b /\ \A c \in Begins(P) : c > b => p.start < c}
ReachOf(P, b) == Max({s.end : s \in Group(P, b)})
Merged(P)     == {[start |-> b, end |-> ReachOf(P, b)] : b \in Begins(P)}

LEMMA SpansAreMerged ==
  ASSUME NEW from, NEW to PROVE SpansOver(from, to) = Merged(SpansUnmerged(from, to))
BY Zenon DEF SpansOver, Merged, ReachOf, Group, Begins

\* Among bounded numbers there is a greatest one.
LEMMA GreatestExists ==
  ASSUME NEW far \in Nat, NEW S, S \subseteq 0 .. far, S # {}
  PROVE  \E m \in S : \A n \in S : n <= m
<1> DEFINE B == {far - n : n \in S}
<1>1. B \subseteq Nat /\ B # {}
  <2>1. \A n \in S : far - n \in Nat
    OBVIOUS
  <2> QED
    BY <2>1
<1>2. PICK k \in B : \A l \in B : k <= l
  <2> HIDE DEF B
  <2> QED
    BY <1>1, LeastExists
<1>3. PICK m \in S : k = far - m
  BY <1>2
<1>4. \A n \in S : far - m <= far - n
  BY <1>2, <1>3
<1>5. \A n \in S : n <= m
  <2> SUFFICES ASSUME NEW n \in S PROVE n <= m
    OBVIOUS
  <2>1. n \in 0 .. far /\ m \in 0 .. far /\ far - m <= far - n
    BY <1>4
  <2> QED
    BY <2>1
<1> QED
  BY <1>5

LEMMA MaxIs ==
  ASSUME NEW far \in Nat, NEW S, S \subseteq 0 .. far, S # {}
  PROVE  Max(S) \in S /\ \A n \in S : n <= Max(S)
<1>1. \E m \in S : \A n \in S : m >= n
  BY GreatestExists
<1> QED
  BY <1>1 DEF Max

\* A group has a piece that begins where it does, and reaches as far as one
\* of its pieces does.
LEMMA GroupReaches ==
  ASSUME NEW P, NEW far, Pieces(P, far), NEW b \in Begins(P)
  PROVE  /\ b \in Nat /\ ReachOf(P, b) \in Nat /\ ReachOf(P, b) <= far /\ b < ReachOf(P, b)
         /\ \E p \in Group(P, b) : p.end = ReachOf(P, b)
         /\ \A p \in Group(P, b) : p.end <= ReachOf(P, b)
<1> DEFINE ends == {s.end : s \in Group(P, b)}
<1>1. PICK s \in P : s.start = b
  BY DEF Begins
<1>2. s \in Group(P, b)
  <2>1. \A c \in Begins(P) : c \in Nat
    BY DEF Begins, Pieces
  <2> QED
    BY <1>1, <2>1 DEF Group, Pieces
<1>3. ends \subseteq 0 .. far /\ ends # {} /\ far \in Nat
  BY <1>2 DEF Group, Pieces
<1>4. Max(ends) \in ends /\ \A n \in ends : n <= Max(ends)
  <2> HIDE DEF ends
  <2> QED
    BY <1>3, MaxIs
<1>5. ReachOf(P, b) = Max(ends)
  BY DEF ReachOf
<1>6. s.end <= ReachOf(P, b) /\ b < s.end /\ b \in Nat /\ s.end \in Nat
  BY <1>1, <1>2, <1>4, <1>5 DEF Pieces
<1>7. ReachOf(P, b) \in ends /\ \A p \in Group(P, b) : p.end <= ReachOf(P, b)
  BY <1>4, <1>5
<1>8. \E p \in Group(P, b) : p.end = ReachOf(P, b)
  BY <1>7
<1>9. ReachOf(P, b) \in 0 .. far
  BY <1>3, <1>7
<1> QED
  BY <1>3, <1>6, <1>7, <1>8, <1>9

\* Where one begins, the one before is over.
LEMMA GroupsApart ==
  ASSUME NEW P, NEW far, Pieces(P, far), NEW b \in Begins(P), NEW c \in Begins(P), b < c
  PROVE  ReachOf(P, b) < c
<1>1. PICK p \in Group(P, b) : p.end = ReachOf(P, b)
  BY GroupReaches
<1>2. p \in P /\ p.start < c
  BY <1>1 DEF Group
<1>3. PICK s \in P : s.start = c /\ ~\E q \in P : q.start < s.start /\ s.start <= q.end
  BY DEF Begins
<1>4. ~(c <= p.end)
  BY <1>2, <1>3
<1>5. c \in Nat /\ p.end \in Nat
  BY <1>2, <1>3 DEF Pieces
<1> QED
  BY <1>1, <1>4, <1>5

\* They are the same minutes.
LEMMA MergedCovers ==
  ASSUME NEW P, NEW far, Pieces(P, far), NEW t \in Nat
  PROVE  (\E p \in P : p.start <= t /\ t < p.end)
           <=> (\E b \in Begins(P) : b <= t /\ t < ReachOf(P, b))
<1>1. ASSUME NEW p \in P, p.start <= t, t < p.end
      PROVE  \E b \in Begins(P) : b <= t /\ t < ReachOf(P, b)
  <2> DEFINE firsts == {s.start : s \in P}
             before == {b \in Begins(P) : b <= p.start}
  <2>1. p.start \in 0 .. far /\ far \in Nat /\ \A b \in Begins(P) : b \in Nat
    BY DEF Pieces, Begins
  <2>2. before # {}
    <3>1. firsts \subseteq Nat /\ firsts # {}
      BY DEF Pieces
    <3>2. PICK m \in firsts : \A n \in firsts : m <= n
      <4> HIDE DEF firsts
      <4> QED
        BY <3>1, LeastExists
    <3>3. PICK s \in P : s.start = m
      BY <3>2
    <3>4. ~\E q \in P : q.start < s.start /\ s.start <= q.end
      <4>1. \A q \in P : s.start <= q.start /\ q.start \in Nat /\ s.start \in Nat
        BY <3>2, <3>3 DEF Pieces
      <4> QED
        BY <4>1
    <3>5. s.start \in Begins(P)
      BY <3>4 DEF Begins
    <3>6. s.start <= p.start
      BY <3>2, <3>3
    <3> QED
      BY <3>5, <3>6
  <2>3. before \subseteq 0 .. far
    BY <2>1
  <2>4. PICK b \in before : \A c \in before : c <= b
    <3> HIDE DEF before
    <3> QED
      BY <2>1, <2>2, <2>3, GreatestExists
  <2>5. b \in Begins(P) /\ b <= p.start /\ b \in Nat
    BY <2>1, <2>4
  <2>6. \A c \in Begins(P) : c > b => p.start < c
    <3> SUFFICES ASSUME NEW c \in Begins(P), c > b, ~(p.start < c) PROVE FALSE
      OBVIOUS
    <3>1. c \in before
      BY <2>1
    <3> QED
      BY <2>1, <2>4, <2>5, <3>1
  <2>7. p \in Group(P, b)
    BY <2>1, <2>5, <2>6 DEF Group
  <2>8. p.end <= ReachOf(P, b) /\ ReachOf(P, b) \in Nat /\ p.end \in Nat /\ p.start \in Nat
    BY <2>5, <2>7, GroupReaches DEF Pieces
  <2> QED
    BY <1>1, <2>5, <2>8
<1>2. ASSUME NEW b \in Begins(P), b <= t, t < ReachOf(P, b), ~\E p \in P : p.start <= t /\ t < p.end
      PROVE  FALSE
  <2>1. PICK last \in Group(P, b) : last.end = ReachOf(P, b)
    BY GroupReaches
  <2> DEFINE later == {p.start : p \in {q \in Group(P, b) : q.start > t}}
  <2>2. \A p \in Group(P, b) : p \in P /\ p.start \in Nat /\ p.end \in Nat
    BY DEF Group, Pieces
  <2>3. last.start > t
    BY <1>2, <2>1, <2>2
  <2>4. later \subseteq Nat /\ later # {}
    BY <2>1, <2>2, <2>3
  <2>5. PICK s \in later : \A n \in later : s <= n
    <3> HIDE DEF later
    <3> QED
      BY <2>4, LeastExists
  <2>6. PICK p \in Group(P, b) : p.start = s /\ s > t
    BY <2>5
  <2>7. p \in P /\ s \in Nat /\ b \in Nat /\ \A c \in Begins(P) : c > b => s < c
    BY <2>2, <2>6, GroupReaches DEF Group
  <2>8. s \notin Begins(P)
    BY <1>2, <2>6, <2>7
  <2>9. PICK q \in P : q.start < s /\ s <= q.end
    BY <2>6, <2>7, <2>8 DEF Begins
  <2>10. q.start \in Nat /\ q.end \in Nat
    BY DEF Pieces
  <2>11. q.start > t
    BY <1>2, <2>6, <2>7, <2>9, <2>10
  <2>12. \A c \in Begins(P) : c > b => q.start < c
    <3>1. \A c \in Begins(P) : c \in Nat
      BY DEF Begins, Pieces
    <3> QED
      BY <2>7, <2>9, <2>10, <3>1
  <2>13. q \in Group(P, b)
    BY <1>2, <2>7, <2>10, <2>11, <2>12 DEF Group
  <2>14. s <= q.start
    BY <2>5, <2>11, <2>13
  <2> QED
    BY <2>7, <2>9, <2>10, <2>14
<1> QED
  BY <1>1, <1>2

\* There are finitely many of them, which do not overlap.
LEMMA MergedFinite ==
  ASSUME NEW P, NEW far, Pieces(P, far)
  PROVE  IsFiniteSet(Merged(P))
<1> DEFINE f == [b \in Begins(P) |-> [start |-> b, end |-> ReachOf(P, b)]]
<1>1. Begins(P) \subseteq 0 .. far /\ far \in Nat
  BY DEF Begins, Pieces
<1>2. IsFiniteSet(Begins(P))
  <2>1. IsFiniteSet(0 .. far)
    BY <1>1, FS_Interval
  <2> QED
    BY <1>1, <2>1, FS_Subset
<1>3. f \in Surjection(Begins(P), Merged(P))
  BY DEF Surjection, Merged
<1> QED
  BY <1>2, <1>3, FS_Surjection

LEMMA MergedApart ==
  ASSUME NEW P, NEW far, Pieces(P, far)
  PROVE  /\ \A h \in Merged(P) : h.start \in Nat /\ h.end \in Nat /\ h.start < h.end
         /\ \A h, k \in Merged(P) : h # k => h.end <= k.start \/ k.end <= h.start
         /\ \A t \in Nat : (\E p \in P : p.start <= t /\ t < p.end)
                             <=> (\E h \in Merged(P) : h.start <= t /\ t < h.end)
<1>1. \A h \in Merged(P) : h.start \in Begins(P) /\ h.end = ReachOf(P, h.start)
                           /\ h = [start |-> h.start, end |-> ReachOf(P, h.start)]
  BY DEF Merged
<1>2. \A h \in Merged(P) : h.start \in Nat /\ h.end \in Nat /\ h.start < h.end
  BY <1>1, GroupReaches
<1>3. ASSUME NEW h \in Merged(P), NEW k \in Merged(P), h # k
      PROVE  h.end <= k.start \/ k.end <= h.start
  <2>1. h.start # k.start
    BY <1>1, <1>3
  <2>2. h.start < k.start \/ k.start < h.start
    BY <1>2, <2>1
  <2>3. h.start < k.start => h.end < k.start
    BY <1>1, GroupsApart
  <2>4. k.start < h.start => k.end < h.start
    BY <1>1, GroupsApart
  <2> QED
    BY <1>2, <2>2, <2>3, <2>4
<1>4. ASSUME NEW t \in Nat
      PROVE  (\E b \in Begins(P) : b <= t /\ t < ReachOf(P, b))
               <=> (\E h \in Merged(P) : h.start <= t /\ t < h.end)
  <2>1. ASSUME NEW b \in Begins(P), b <= t, t < ReachOf(P, b)
        PROVE  \E h \in Merged(P) : h.start <= t /\ t < h.end
    <3>1. [start |-> b, end |-> ReachOf(P, b)] \in Merged(P)
      BY DEF Merged
    <3> QED
      BY <2>1, <3>1
  <2>2. ASSUME NEW h \in Merged(P), h.start <= t, t < h.end
        PROVE  \E b \in Begins(P) : b <= t /\ t < ReachOf(P, b)
    BY <1>1, <2>2
  <2> QED
    BY <2>1, <2>2
<1> QED
  BY <1>2, <1>3, <1>4, MergedCovers

-----------------------------------------------------------------------------
(* The minutes under a window are those of its occurrences.                *)

LEMMA WeekIs == IsWidth(Week) /\ Week \in Nat
BY AvailabilityAssumption DEF IsWidth

LEMMA DivMod ==
  ASSUME NEW w, IsWidth(w), NEW n \in Nat
  PROVE  /\ n \div w \in Nat /\ n % w \in 0 .. w - 1
         /\ n = (n \div w) * w + (n % w)
<1> DEFINE q == n \div w
           r == n % w
<1>1. w \in Nat /\ w > 0
  BY DEF IsWidth
<1>2. q \in Int /\ r \in 0 .. w - 1 /\ n = w * q + r
  BY Divides
<1>3. q >= 0
  BY <1>1
<1> HIDE DEF q, r
<1>4. q * w = w * q /\ q \in Nat
  BY <1>1, <1>2, <1>3
<1>5. n = q * w + r
  BY <1>2, <1>4
<1> QED
  BY <1>2, <1>4, <1>5 DEF q, r

LEMMA WeeksGrow ==
  ASSUME NEW a \in Int, NEW b \in Int
  PROVE  /\ a * Week \in Int /\ b * Week \in Int
         /\ a < b => a * Week + Week <= b * Week
         /\ a <= b => a * Week <= b * Week
         /\ a >= 0 => a * Week >= 0
<1>1. a * Week = Week * a /\ b * Week = Week * b /\ Week * 0 = 0
  BY WeekIs
<1>2. /\ Week * a \in Int /\ Week * b \in Int
      /\ a < b => Week * a + Week <= Week * b
      /\ 0 < a => Week * 0 + Week <= Week * a
  BY WeekIs, Multiples
<1> DEFINE x == Week * a
           y == Week * b
           z == Week * 0
<1>3. x \in Int /\ y \in Int /\ z = 0 /\ (a < b => x + Week <= y) /\ (0 < a => z + Week <= x)
  BY <1>1, <1>2
<1>4. (a = b => x = y) /\ (a = 0 => x = z)
  OBVIOUS
<1> HIDE DEF x, y, z
<1>5. /\ a < b => x + Week <= y
      /\ a <= b => x <= y
      /\ a >= 0 => x >= 0
  BY <1>3, <1>4, WeekIs
<1> QED
  BY <1>1, <1>3, <1>5 DEF x, y

LEMMA WindowIs ==
  ASSUME AvailabilityTypeOK, NEW w \in windows
  PROVE  w.starts \in Nat /\ w.lasts \in 1 .. Longest /\ w.weekly \in BOOLEAN /\ Longest \in Nat
BY AvailabilityAssumption DEF AvailabilityTypeOK, Window

\* The last occurrence begun by then.
LEMMA IndexIs ==
  ASSUME AvailabilityTypeOK, NEW w \in windows, NEW t \in Nat
  PROVE  /\ IndexAt(w, t) \in Int
         /\ t >= w.starts => /\ IndexAt(w, t) \in Nat
                             /\ IndexAt(w, t) = (t - w.starts) \div Week
                             /\ (t - w.starts) % Week = t - (w.starts + IndexAt(w, t) * Week)
                             /\ (t - w.starts) % Week \in 0 .. Week - 1
<1>1. w.starts \in Nat
  BY WindowIs
<1>2. CASE t < w.starts
  BY <1>1, <1>2 DEF IndexAt
<1>3. CASE ~(t < w.starts)
  <2>1. t - w.starts \in Nat /\ IndexAt(w, t) = (t - w.starts) \div Week
    BY <1>1, <1>3 DEF IndexAt
  <2> DEFINE n == t - w.starts
             i == IndexAt(w, t)
             d == i * Week
  <2>2. i \in Nat /\ n % Week \in 0 .. Week - 1 /\ n = d + (n % Week)
    BY <2>1, WeekIs, DivMod
  <2>3. n % Week = t - (w.starts + d)
    <3> DEFINE r == n % Week
    <3>1. d \in Int /\ r \in 0 .. Week - 1 /\ t - w.starts = d + r
      BY <2>2, WeeksGrow
    <3> HIDE DEF d, i, r
    <3>2. r = t - (w.starts + d)
      BY <1>1, <3>1, WeekIs
    <3> QED
      BY <3>2 DEF r
  <2> QED
    BY <2>1, <2>2, <2>3
<1> QED
  BY <1>2, <1>3

LEMMA IndexGrows ==
  ASSUME AvailabilityTypeOK, NEW w \in windows, NEW s \in Nat, NEW t \in Nat, s <= t
  PROVE  IndexAt(w, s) <= IndexAt(w, t)
<1>1. w.starts \in Nat
  BY WindowIs
<1>2. CASE s < w.starts
  <2>1. IndexAt(w, s) = -1
    BY <1>2 DEF IndexAt
  <2>2. IndexAt(w, t) >= -1
    <3>1. CASE t < w.starts
      BY <3>1 DEF IndexAt
    <3>2. CASE t >= w.starts
      BY <3>2, IndexIs
    <3> QED
      BY <1>1, <3>1, <3>2
  <2> QED
    BY <2>1, <2>2, IndexIs
<1>3. CASE s >= w.starts
  <2> DEFINE i == IndexAt(w, s)
             j == IndexAt(w, t)
             x == i * Week
             y == j * Week
  <2>1. /\ i \in Nat /\ j \in Nat
        /\ (s - w.starts) % Week = s - (w.starts + x) /\ (s - w.starts) % Week \in 0 .. Week - 1
        /\ (t - w.starts) % Week = t - (w.starts + y) /\ (t - w.starts) % Week \in 0 .. Week - 1
    BY <1>1, <1>3, IndexIs
  <2>2. j < i => y + Week <= x
    BY <2>1, WeeksGrow
  <2>3. x \in Int /\ y \in Int
    BY <2>1, WeeksGrow
  <2> HIDE DEF i, j, x, y
  <2>4. s - (w.starts + x) >= 0 /\ t - (w.starts + y) <= Week - 1
    BY <2>1, WeekIs
  <2>5. ~(j < i)
    BY <1>1, <2>2, <2>3, <2>4, WeekIs
  <2> QED
    BY <2>1, <2>5 DEF i, j
<1> QED
  BY <1>1, <1>2, <1>3

\* An occurrence is there for its number.
LEMMA OccurrenceIs ==
  ASSUME AvailabilityTypeOK, NEW w \in windows, NEW i \in Nat
  PROVE  /\ Occurrence(w, i).start = w.starts + i * Week
         /\ Occurrence(w, i).end = Occurrence(w, i).start + w.lasts
         /\ Occurrence(w, i).start \in Nat /\ Occurrence(w, i).end \in Nat
         /\ Occurrence(w, i).start < Occurrence(w, i).end
         /\ w.starts <= Occurrence(w, i).start
         /\ Occurrence(w, 0).start = w.starts
<1>1. i * Week \in Int /\ i * Week >= 0 /\ 0 * Week = 0
  BY WeeksGrow, WeekIs
<1> DEFINE d == i * Week
<1>2. Occurrence(w, i) = [start |-> w.starts + d, end |-> w.starts + d + w.lasts]
  BY DEF Occurrence
<1>3. Occurrence(w, 0).start = w.starts
  BY <1>1, WindowIs DEF Occurrence
<1> HIDE DEF d
<1> QED
  BY <1>1, <1>2, <1>3, WindowIs DEF d

LEMMA OccurrencesAre ==
  ASSUME AvailabilityTypeOK, NEW w \in windows, NEW from \in Nat, NEW to \in Nat,
         NEW p \in Occurrences(w, from, to)
  PROVE  \E i \in Nat : p = Occurrence(w, i) /\ (~w.weekly => i = 0)
<1>1. CASE ~w.weekly
  BY <1>1 DEF Occurrences
<1>2. CASE w.weekly
  <2>1. PICK i \in Greater(0, IndexAt(w, from)) .. IndexAt(w, to) : p = Occurrence(w, i)
    BY <1>2 DEF Occurrences
  <2>2. i \in Nat
    BY IndexIs DEF Greater
  <2> QED
    BY <1>2, <2>1, <2>2
<1> QED
  BY <1>1, <1>2

LEMMA PiecesAre ==
  ASSUME AvailabilityTypeOK, NEW from \in Nat, NEW to \in Nat
  PROVE  Pieces(SpansUnmerged(from, to), to + Longest)
<1> SUFFICES ASSUME NEW p \in SpansUnmerged(from, to)
             PROVE  p.start \in Nat /\ p.end \in Nat /\ p.start < p.end /\ p.end <= to + Longest
  BY AvailabilityAssumption DEF Pieces
<1>1. PICK w \in windows : p \in Occurrences(w, from, to) /\ p.start < to
  BY DEF SpansUnmerged
<1>2. PICK i \in Nat : p = Occurrence(w, i)
  BY <1>1, OccurrencesAre
<1>3. /\ p.start \in Nat /\ p.end \in Nat /\ p.start < p.end /\ p.end = p.start + w.lasts
  BY <1>2, OccurrenceIs
<1> QED
  BY <1>1, <1>3, WindowIs

LEMMA PiecesCover ==
  ASSUME AvailabilityTypeOK, NEW from \in Nat, NEW to \in Nat, NEW t \in from .. to - 1
  PROVE  (\E p \in SpansUnmerged(from, to) : p.start <= t /\ t < p.end) <=> Under(t)
<1>1. t \in Nat /\ from <= t /\ t < to
  OBVIOUS
<1>2. ASSUME NEW p \in SpansUnmerged(from, to), p.start <= t, t < p.end
      PROVE  Under(t)
  <2>1. PICK w \in windows : p \in Occurrences(w, from, to)
    BY DEF SpansUnmerged
  <2>2. PICK i \in Nat : p = Occurrence(w, i) /\ (~w.weekly => i = 0)
    BY <2>1, OccurrencesAre
  <2>3. /\ p.start = w.starts + i * Week /\ p.end = p.start + w.lasts /\ p.start \in Nat
        /\ w.starts <= p.start /\ (~w.weekly => p.start = w.starts)
    BY <2>2, OccurrenceIs
  <2>4. w.starts \in Nat /\ w.lasts \in Nat
    BY WindowIs
  <2>5. t >= w.starts
    BY <1>1, <1>2, <2>3, <2>4
  <2>6. CASE ~w.weekly
    <3>1. t - w.starts < w.lasts
      BY <1>1, <1>2, <2>3, <2>4, <2>6
    <3> QED
      BY <2>5, <2>6, <3>1 DEF Under
  <2>7. CASE w.weekly
    <3> DEFINE j == IndexAt(w, t)
               x == i * Week
               y == j * Week
               r == (t - w.starts) % Week
    <3>1. j \in Nat /\ r = t - (w.starts + y) /\ r \in 0 .. Week - 1
      BY <1>1, <2>5, IndexIs
    <3>2. x \in Int /\ y \in Int /\ (j < i => y + Week <= x) /\ (i <= j => x <= y)
      BY <3>1, WeeksGrow
    <3>3. p.start = w.starts + x
      BY <2>3
    <3> HIDE DEF x, y, r, j
    <3>4. ~(j < i)
      BY <1>1, <1>2, <2>4, <3>1, <3>2, <3>3, WeekIs
    <3>5. r < w.lasts
      BY <1>1, <1>2, <2>3, <2>4, <3>1, <3>2, <3>3, <3>4
    <3> QED
      BY <2>5, <2>7, <3>5 DEF Under, r
  <2> QED
    BY <2>6, <2>7, WindowIs
<1>3. ASSUME Under(t)
      PROVE  \E p \in SpansUnmerged(from, to) : p.start <= t /\ t < p.end
  <2>1. PICK w \in windows : /\ t >= w.starts
                             /\ (IF w.weekly THEN (t - w.starts) % Week ELSE t - w.starts) < w.lasts
    BY <1>3 DEF Under
  <2>2. w.starts \in Nat /\ w.lasts \in Nat /\ w.weekly \in BOOLEAN
    BY WindowIs
  <2>3. PICK i \in Nat : Occurrence(w, i) \in Occurrences(w, from, to)
                         /\ Occurrence(w, i).start <= t /\ t < Occurrence(w, i).end
    <3>1. CASE ~w.weekly
      <4>1. Occurrence(w, 0) \in Occurrences(w, from, to)
        BY <3>1 DEF Occurrences
      <4>2. Occurrence(w, 0).start = w.starts /\ Occurrence(w, 0).end = w.starts + w.lasts
        BY OccurrenceIs
      <4>3. t - w.starts < w.lasts
        BY <2>1, <3>1
      <4> QED
        BY <1>1, <2>1, <2>2, <4>1, <4>2, <4>3
    <3>2. CASE w.weekly
      <4> DEFINE i == IndexAt(w, t)
                 r == (t - w.starts) % Week
      <4>1. i \in Nat /\ r = t - (w.starts + i * Week) /\ r \in 0 .. Week - 1
        BY <1>1, <2>1, IndexIs
      <4>2. IndexAt(w, from) \in Int /\ IndexAt(w, to) \in Int
            /\ IndexAt(w, from) <= i /\ i <= IndexAt(w, to)
        BY <1>1, IndexIs, IndexGrows
      <4>3. i \in Greater(0, IndexAt(w, from)) .. IndexAt(w, to)
        <5> HIDE DEF i
        <5> QED
          BY <4>1, <4>2 DEF Greater
      <4>4. Occurrence(w, i) \in Occurrences(w, from, to)
        BY <3>2, <4>3 DEF Occurrences
      <4>5. /\ Occurrence(w, i).start = w.starts + i * Week /\ Occurrence(w, i).start \in Nat
            /\ Occurrence(w, i).end = Occurrence(w, i).start + w.lasts
        BY <4>1, OccurrenceIs
      <4>6. r < w.lasts
        BY <2>1, <3>2
      <4>7. r = t - Occurrence(w, i).start
        BY <4>1, <4>5
      <4> HIDE DEF i, r
      <4>8. Occurrence(w, i).start <= t /\ t < Occurrence(w, i).end
        BY <1>1, <2>2, <4>1, <4>5, <4>6, <4>7, WeekIs
      <4> QED
        BY <4>1, <4>4, <4>8
    <3> QED
      BY <2>2, <3>1, <3>2
  <2> DEFINE p == Occurrence(w, i)
  <2>4. p.start \in Nat /\ p.end \in Nat
    BY OccurrenceIs
  <2>5. p.end > from /\ p.start < to
    <3> HIDE DEF p
    <3> QED
      BY <1>1, <2>3, <2>4 DEF p
  <2>6. p \in SpansUnmerged(from, to)
    BY <2>3, <2>5 DEF SpansUnmerged
  <2> QED
    BY <2>3, <2>6
<1> QED
  BY <1>2, <1>3

\* What a minute is under, of the spans there are.
LEMMA SpansAre ==
  ASSUME AvailabilityTypeOK, NEW from \in Nat, NEW to \in Nat
  PROVE  /\ IsFiniteSet(SpansOver(from, to))
         /\ \A h \in SpansOver(from, to) : h.start \in Nat /\ h.end \in Nat /\ h.start < h.end
         /\ \A h, k \in SpansOver(from, to) : h # k => h.end <= k.start \/ k.end <= h.start
         /\ \A t \in from .. to - 1 :
              (\E h \in SpansOver(from, to) : h.start <= t /\ t < h.end) <=> Under(t)
<1> DEFINE P == SpansUnmerged(from, to)
           far == to + Longest
<1>1. Pieces(P, far)
  BY PiecesAre
<1>2. SpansOver(from, to) = Merged(P)
  BY SpansAreMerged
<1>3. \A t \in from .. to - 1 : t \in Nat
  OBVIOUS
<1>4. \A t \in from .. to - 1 : (\E p \in P : p.start <= t /\ t < p.end) <=> Under(t)
  BY PiecesCover
<1> HIDE DEF P, far
<1>5. /\ \A h \in Merged(P) : h.start \in Nat /\ h.end \in Nat /\ h.start < h.end
      /\ \A h, k \in Merged(P) : h # k => h.end <= k.start \/ k.end <= h.start
      /\ \A t \in Nat : (\E p \in P : p.start <= t /\ t < p.end)
                          <=> (\E h \in Merged(P) : h.start <= t /\ t < h.end)
  BY <1>1, MergedApart
<1>6. IsFiniteSet(Merged(P))
  BY <1>1, MergedFinite
<1> QED
  BY <1>2, <1>3, <1>4, <1>5, <1>6

-----------------------------------------------------------------------------
(* Stretches, and the minutes in them.                                     *)

LEMMA OverlapCounts ==
  ASSUME NEW a \in Int, NEW b \in Int, NEW c \in Int, NEW d \in Int
  PROVE  /\ IsFiniteSet((a .. b - 1) \cap (c .. d - 1))
         /\ Overlap(a, b, c, d) = Cardinality((a .. b - 1) \cap (c .. d - 1))
<1> DEFINE x == Greater(a, c)
           y == Lesser(b, d)
<1>1. x \in Int /\ y \in Int
  BY DEF Greater, Lesser
<1>2. (a .. b - 1) \cap (c .. d - 1) = x .. y - 1
  BY DEF Greater, Lesser
<1>3. Overlap(a, b, c, d) = Greater(0, y - x)
  BY DEF Overlap
<1> HIDE DEF x, y
<1>4. IsFiniteSet(x .. y - 1) /\ Cardinality(x .. y - 1) = IF x > y - 1 THEN 0 ELSE (y - 1) - x + 1
  BY <1>1, FS_Interval
<1>5. Greater(0, y - x) = IF x > y - 1 THEN 0 ELSE (y - 1) - x + 1
  BY <1>1 DEF Greater
<1> QED
  BY <1>2, <1>3, <1>4, <1>5

LEMMA OutageIs ==
  ASSUME AInv, NEW o \in outages
  PROVE  /\ o.opened \in Nat /\ Until(o) \in Nat /\ o.opened < Until(o) /\ Until(o) <= today
         /\ DownAt(o) = o.opened .. Until(o) - 1
         /\ IsFiniteSet(DownAt(o)) /\ Cardinality(DownAt(o)) = Until(o) - o.opened
         /\ \A t \in DownAt(o) : t \in Nat
<1>1. o.opened \in Nat /\ o.closed \in Nat /\ today \in Nat /\ o.opened < today /\ o.opened < o.closed
  BY AvailabilityAssumption DEF AInv, AvailabilityTypeOK, OutagesApart, Outage, Still
<1>2. Until(o) \in Nat /\ o.opened < Until(o) /\ Until(o) <= today
  BY <1>1 DEF Until, Lesser
<1>3. DownAt(o) = o.opened .. Until(o) - 1
  BY <1>1 DEF DownAt, Until, Lesser
<1> DEFINE a == o.opened
           b == Until(o) - 1
<1>4. a \in Int /\ b \in Int /\ ~(a > b) /\ (b - a) + 1 = Until(o) - o.opened
  BY <1>1, <1>2
<1>5. IsFiniteSet(a .. b) /\ Cardinality(a .. b) = IF a > b THEN 0 ELSE b - a + 1
  BY <1>4, FS_Interval
<1> QED
  BY <1>1, <1>2, <1>3, <1>4, <1>5

\* No minute is of two outages; and there are finitely many of them, as they
\* open at different minutes.
LEMMA OutagesAre ==
  ASSUME AInv
  PROVE  /\ IsFiniteSet(outages)
         /\ \A o, p \in outages : o # p => DownAt(o) \cap DownAt(p) = {}
<1>1. \A o \in outages : /\ o.opened \in 0 .. LastDay /\ o.closed \in Nat /\ o.opened < o.closed
                         /\ \A t \in DownAt(o) : t \in Nat /\ o.opened <= t /\ t < o.closed
  BY AvailabilityAssumption DEF AInv, AvailabilityTypeOK, OutagesApart, Outage, Still, DownAt
<1>2. \A o, p \in outages : o # p => o.closed <= p.opened \/ p.closed <= o.opened
  BY DEF AInv, OutagesApart
<1>3. \A o, p \in outages : o # p => DownAt(o) \cap DownAt(p) = {}
  <2> SUFFICES ASSUME NEW o \in outages, NEW p \in outages, o # p, NEW t \in DownAt(o) \cap DownAt(p)
               PROVE  FALSE
    OBVIOUS
  <2> QED
    BY <1>1, <1>2
<1> DEFINE f == [o \in outages |-> o.opened]
<1>4. f \in Injection(outages, 0 .. LastDay)
  <2>1. f \in [outages -> 0 .. LastDay]
    BY <1>1
  <2>2. \A o, p \in outages : f[o] = f[p] => o = p
    BY <1>1, <1>2
  <2> HIDE DEF f
  <2> QED
    BY <2>1, <2>2, Zenon DEF Injection, IsInjective
<1>5. IsFiniteSet(0 .. LastDay)
  BY AvailabilityAssumption, FS_Interval
<1>6. IsFiniteSet(outages)
  <2> HIDE DEF f
  <2> QED
    BY <1>4, <1>5, FS_Injection
<1> QED
  BY <1>3, <1>6

-----------------------------------------------------------------------------
(* An outage's share of a range.                                           *)

KeptIn(o, range) == {t \in DownAt(o) \cap range : Under(t)}

LEMMA SharesFinite ==
  ASSUME AInv, NEW o \in outages, NEW range
  PROVE  /\ IsFiniteSet(DownAt(o) \cap range) /\ IsFiniteSet(KeptIn(o, range))
         /\ IsFiniteSet(Late(o) \cap range) /\ IsFiniteSet(Late(o))
         /\ DownAt(o) \cap range = KeptIn(o, range) \cup (Late(o) \cap range)
         /\ KeptIn(o, range) \cap (Late(o) \cap range) = {}
         /\ Cardinality(DownAt(o) \cap range)
              = Cardinality(KeptIn(o, range)) + Cardinality(Late(o) \cap range)
<1> DEFINE D == DownAt(o) \cap range
           K == KeptIn(o, range)
           N == Late(o) \cap range
<1>1. /\ D = K \cup N /\ K \cap N = {} /\ Late(o) \subseteq DownAt(o)
      /\ K \subseteq DownAt(o) /\ N \subseteq DownAt(o) /\ D \subseteq DownAt(o)
  BY DEF KeptIn, Late
<1> HIDE DEF D, K, N
<1>2. IsFiniteSet(DownAt(o))
  BY OutageIs
<1>3. IsFiniteSet(D) /\ IsFiniteSet(K) /\ IsFiniteSet(N) /\ IsFiniteSet(Late(o))
  BY <1>1, <1>2, FS_Subset
<1>4. Cardinality(D) = Cardinality(K) + Cardinality(N) - Cardinality(K \cap N)
  BY <1>1, <1>3, FS_Union
<1>5. Cardinality(K \cap N) = 0 /\ Cardinality(K) \in Nat /\ Cardinality(N) \in Nat
  BY <1>1, <1>3, FS_EmptySet, FS_CardinalityType
<1>6. Cardinality(D) = Cardinality(K) + Cardinality(N)
  BY <1>4, <1>5
<1> QED
  BY <1>1, <1>3, <1>6 DEF D, K, N

LEMMA InsideCounts ==
  ASSUME AInv, NEW o \in outages, NEW start \in Nat, NEW end \in Nat
  PROVE  Inside(o, start, end) = Cardinality(DownAt(o) \cap (start .. end - 1))
<1>1. o.opened \in Int /\ Until(o) \in Int /\ DownAt(o) = o.opened .. Until(o) - 1
  BY OutageIs
<1>2. Overlap(o.opened, Until(o), start, end)
        = Cardinality((o.opened .. Until(o) - 1) \cap (start .. end - 1))
  <2> DEFINE a == o.opened
             b == Until(o)
  <2>1. a \in Int /\ b \in Int /\ start \in Int /\ end \in Int
    BY <1>1
  <2> HIDE DEF a, b
  <2>2. Overlap(a, b, start, end) = Cardinality((a .. b - 1) \cap (start .. end - 1))
    BY <2>1, OverlapCounts
  <2> QED
    BY <2>2 DEF a, b
<1> QED
  BY <1>1, <1>2 DEF Inside

\* What is under a window is what its spans have of it, added up.
LEMMA SpansCount ==
  ASSUME AInv, NEW o \in outages, NEW range, NEW f,
         \A h \in SpansOver(o.opened, Until(o)) :
           f[h] = Cardinality({t \in DownAt(o) \cap range : h.start <= t /\ t < h.end})
  PROVE  SumFunctionOnSet(f, SpansOver(o.opened, Until(o))) = Cardinality(KeptIn(o, range))
<1> DEFINE S == SpansOver(o.opened, Until(o))
           parts == [h \in S |-> {t \in DownAt(o) \cap range : h.start <= t /\ t < h.end}]
<1>1. /\ o.opened \in Nat /\ Until(o) \in Nat /\ DownAt(o) = o.opened .. Until(o) - 1
      /\ \A t \in DownAt(o) : t \in Nat
  BY OutageIs
<1>2. AvailabilityTypeOK
  BY DEF AInv
<1>3. /\ IsFiniteSet(S)
      /\ \A h \in S : h.start \in Nat /\ h.end \in Nat /\ h.start < h.end
      /\ \A h, k \in S : h # k => h.end <= k.start \/ k.end <= h.start
      /\ \A t \in DownAt(o) : (\E h \in S : h.start <= t /\ t < h.end) <=> Under(t)
  BY <1>1, <1>2, SpansAre
<1>4. IsFiniteSet(DownAt(o) \cap range)
  BY SharesFinite
<1> HIDE DEF S
<1>5. \A h \in S : IsFiniteSet(parts[h]) /\ f[h] = Cardinality(parts[h])
  <2>1. \A h \in S : parts[h] \subseteq DownAt(o) \cap range
    OBVIOUS
  <2>2. \A h \in S : f[h] = Cardinality(parts[h])
    BY DEF S
  <2> HIDE DEF parts
  <2> QED
    BY <1>4, <2>1, <2>2, FS_Subset
<1>6. \A h, k \in S : h # k => parts[h] \cap parts[k] = {}
  <2> SUFFICES ASSUME NEW h \in S, NEW k \in S, h # k, NEW t \in parts[h] \cap parts[k] PROVE FALSE
    OBVIOUS
  <2>1. t \in Nat /\ h.start <= t /\ t < h.end /\ k.start <= t /\ t < k.end
    BY <1>1
  <2> QED
    BY <1>3, <2>1
<1>7. Apart(S, parts, f)
  BY <1>3, <1>5, <1>6 DEF Apart
<1>8. Together(parts, S) = KeptIn(o, range)
  BY <1>3 DEF Together, KeptIn
<1> HIDE DEF parts
<1>9. SumFunctionOnSet(f, S) = Cardinality(Together(parts, S))
  BY <1>7, SumCounts
<1> QED
  BY <1>8, <1>9 DEF S

LEMMA PlannedCounts ==
  ASSUME AInv, NEW o \in outages, NEW start \in Nat, NEW end \in Nat
  PROVE  Planned(o, start, end) = Cardinality(KeptIn(o, start .. end - 1))
<1> DEFINE S == SpansOver(o.opened, Until(o))
           f == [h \in S |-> Overlap(Greater(o.opened, h.start), Lesser(Until(o), h.end), start, end)]
<1>1. o.opened \in Nat /\ Until(o) \in Nat /\ DownAt(o) = o.opened .. Until(o) - 1 /\ AvailabilityTypeOK
  BY OutageIs DEF AInv
<1>2. ASSUME NEW h \in S
      PROVE  f[h] = Cardinality({t \in DownAt(o) \cap (start .. end - 1) : h.start <= t /\ t < h.end})
  <2>1. h.start \in Nat /\ h.end \in Nat
    BY <1>1, SpansAre
  <2> DEFINE a == Greater(o.opened, h.start)
             b == Lesser(Until(o), h.end)
  <2>2. a \in Int /\ b \in Int
    BY <1>1, <2>1 DEF Greater, Lesser
  <2>3. {t \in DownAt(o) \cap (start .. end - 1) : h.start <= t /\ t < h.end}
          = (a .. b - 1) \cap (start .. end - 1)
    BY <1>1, <2>1 DEF Greater, Lesser
  <2>4. f[h] = Overlap(a, b, start, end)
    OBVIOUS
  <2> HIDE DEF a, b, f
  <2>5. Overlap(a, b, start, end) = Cardinality((a .. b - 1) \cap (start .. end - 1))
    BY <2>2, OverlapCounts
  <2> QED
    BY <2>3, <2>4, <2>5
<1>3. Planned(o, start, end) = SumFunctionOnSet(f, S)
  BY Zenon DEF Planned, SumFunction
<1> HIDE DEF f
<1> QED
  BY <1>2, <1>3, SpansCount

LEMMA WholeCounts ==
  ASSUME AInv, NEW o \in outages PROVE Whole(o) = Cardinality(Late(o))
<1> DEFINE S == SpansOver(o.opened, Until(o))
           f == [h \in S |-> Overlap(o.opened, Until(o), h.start, h.end)]
<1>1. o.opened \in Nat /\ Until(o) \in Nat /\ DownAt(o) = o.opened .. Until(o) - 1 /\ AvailabilityTypeOK
      /\ Cardinality(DownAt(o)) = Until(o) - o.opened
  BY OutageIs DEF AInv
<1>2. ASSUME NEW h \in S
      PROVE  f[h] = Cardinality({t \in DownAt(o) \cap DownAt(o) : h.start <= t /\ t < h.end})
  <2>1. h.start \in Nat /\ h.end \in Nat
    BY <1>1, SpansAre
  <2>2. Overlap(o.opened, Until(o), h.start, h.end)
          = Cardinality((o.opened .. Until(o) - 1) \cap (h.start .. h.end - 1))
    <3> DEFINE a == o.opened
               b == Until(o)
               c == h.start
               d == h.end
    <3>1. a \in Int /\ b \in Int /\ c \in Int /\ d \in Int
      BY <1>1, <2>1
    <3> HIDE DEF a, b, c, d
    <3>2. Overlap(a, b, c, d) = Cardinality((a .. b - 1) \cap (c .. d - 1))
      BY <3>1, OverlapCounts
    <3> QED
      BY <3>2 DEF a, b, c, d
  <2>3. {t \in DownAt(o) \cap DownAt(o) : h.start <= t /\ t < h.end}
          = (o.opened .. Until(o) - 1) \cap (h.start .. h.end - 1)
    BY <1>1, <2>1
  <2> QED
    BY <2>2, <2>3
<1>3. Whole(o) = (Until(o) - o.opened) - SumFunctionOnSet(f, S)
  BY Zenon DEF Whole, SumFunction
<1>4. SumFunctionOnSet(f, S) = Cardinality(KeptIn(o, DownAt(o)))
  <2> HIDE DEF f
  <2> QED
    BY <1>2, SpansCount
<1>5. Cardinality(DownAt(o)) = Cardinality(KeptIn(o, DownAt(o))) + Cardinality(Late(o))
  <2>1. DownAt(o) \cap DownAt(o) = DownAt(o) /\ Late(o) \cap DownAt(o) = Late(o)
    BY DEF Late
  <2> QED
    BY <2>1, SharesFinite
<1>6. Cardinality(KeptIn(o, DownAt(o))) \in Nat /\ Cardinality(Late(o)) \in Nat
  BY SharesFinite, FS_CardinalityType
<1> QED
  BY <1>1, <1>3, <1>4, <1>5, <1>6

-----------------------------------------------------------------------------
(* All of a range that was checked is watched, but for a bucket.           *)

LEMMA StartOfIs ==
  ASSUME NEW w, IsWidth(w), NEW t \in Int
  PROVE  /\ Starts(StartOf(t, w), w) /\ StartOf(t, w) \in Int
         /\ StartOf(t, w) <= t /\ t < StartOf(t, w) + w
<1>1. StartOf(t, w) = Bucket(t, w)
  BY DEF StartOf, Bucket
<1> QED
  BY <1>1, BucketIs DEF Starts

LEMMA WideIs ==
  /\ IsWidth(Width) /\ IsWidth(Wide) /\ Width \in Nat /\ Wide \in Nat /\ Width <= Wide
  /\ \A b : Starts(b, Wide) => Starts(b, Width)
<1>1. IsWidth(Width) /\ IsWidth(Wide) /\ Width \in Nat /\ Wide \in Nat /\ Wide % Width = 0
  BY AvailabilityAssumption DEF IsWidth
<1>2. PICK n \in Int : Wide = Width * n
  <2>1. Starts(Wide, Width)
    BY <1>1, StartsMod
  <2> QED
    BY <2>1 DEF Starts
<1>3. n > 0
  BY <1>1, <1>2 DEF IsWidth
<1>4. Width <= Wide
  <2>1. 0 < n => Width * 0 + Width <= Width * n
    BY <1>1, Multiples
  <2>2. Width * 0 = 0
    BY <1>1
  <2> QED
    BY <1>1, <1>2, <1>3, <2>1, <2>2
<1>5. ASSUME NEW b, Starts(b, Wide) PROVE Starts(b, Width)
  <2>1. PICK k \in Int : b = Wide * k
    BY <1>5 DEF Starts
  <2>2. n * k \in Int /\ b = Width * (n * k) /\ b \in Int
    BY <1>1, <1>2, <1>5, <2>1 DEF Starts
  <2> QED
    BY <2>2 DEF Starts
<1> QED
  BY <1>1, <1>4, <1>5

\* Stretches of a length hold no more than they are long.
LEMMA SpreadIs ==
  ASSUME NEW w \in Nat \ {0}, NEW B, IsFiniteSet(B), B \subseteq Int, NEW X, X \subseteq Int,
         \A x \in X : \E b \in B : b <= x /\ x < b + w
  PROVE  IsFiniteSet(X) /\ Cardinality(X) <= w * Cardinality(B)
<1> DEFINE I == 0 .. w - 1
           U == {b[1] + b[2] : b \in B \X I}
           g == [b \in B \X I |-> b[1] + b[2]]
<1>1. g \in Surjection(B \X I, U)
  BY DEF Surjection
<1>2. IsFiniteSet(I) /\ Cardinality(I) = w
  <2> DEFINE last == w - 1
  <2>1. last \in Int /\ ~(0 > last) /\ last - 0 + 1 = w
    OBVIOUS
  <2>2. IsFiniteSet(0 .. last) /\ Cardinality(0 .. last) = IF 0 > last THEN 0 ELSE last - 0 + 1
    BY <2>1, FS_Interval
  <2> QED
    BY <2>1, <2>2
<1>3. X \subseteq U
  <2> SUFFICES ASSUME NEW x \in X PROVE x \in U
    OBVIOUS
  <2>1. PICK b \in B : b <= x /\ x < b + w
    OBVIOUS
  <2>2. x \in Int /\ b \in Int
    OBVIOUS
  <2> DEFINE r == x - b
  <2>3. r \in I /\ b + r = x
    BY <2>1, <2>2
  <2> HIDE DEF r, I
  <2>4. <<b, r>> \in B \X I /\ <<b, r>>[1] + <<b, r>>[2] = x
    BY <2>3
  <2> QED
    BY <2>4
<1> HIDE DEF I, g, U
<1>4. IsFiniteSet(B \X I) /\ Cardinality(B \X I) = Cardinality(B) * Cardinality(I)
  BY <1>2, FS_Product
<1>5. IsFiniteSet(U) /\ Cardinality(U) <= Cardinality(B \X I)
  BY <1>1, <1>4, FS_Surjection
<1>6. IsFiniteSet(X) /\ Cardinality(X) <= Cardinality(U)
  BY <1>3, <1>5, FS_Subset
<1>7. Cardinality(B) \in Nat /\ Cardinality(U) \in Nat /\ Cardinality(X) \in Nat
  BY <1>5, <1>6, FS_CardinalityType
<1>8. Cardinality(B) * w = w * Cardinality(B) /\ w * Cardinality(B) \in Nat
  BY <1>7
<1> QED
  BY <1>2, <1>4, <1>5, <1>6, <1>7, <1>8

LEMMA IntervalIs ==
  ASSUME NEW a \in Int, NEW n \in Nat \ {0}
  PROVE  IsFiniteSet(a .. a + n - 1) /\ Cardinality(a .. a + n - 1) = n
<1> DEFINE last == a + n - 1
<1>1. last \in Int /\ ~(a > last) /\ last - a + 1 = n
  OBVIOUS
<1>2. IsFiniteSet(a .. last) /\ Cardinality(a .. last) = IF a > last THEN 0 ELSE last - a + 1
  BY <1>1, FS_Interval
<1> QED
  BY <1>1, <1>2

LEMMA UnionAtMost ==
  ASSUME NEW A, NEW B, IsFiniteSet(A), IsFiniteSet(B)
  PROVE  /\ IsFiniteSet(A \cup B) /\ Cardinality(A \cup B) \in Nat
         /\ Cardinality(A) \in Nat /\ Cardinality(B) \in Nat
         /\ Cardinality(A \cup B) <= Cardinality(A) + Cardinality(B)
<1>1. /\ IsFiniteSet(A \cup B)
      /\ Cardinality(A \cup B) = Cardinality(A) + Cardinality(B) - Cardinality(A \cap B)
  BY FS_Union
<1>2. IsFiniteSet(A \cap B)
  BY FS_Subset
<1>3. /\ Cardinality(A \cup B) \in Nat /\ Cardinality(A) \in Nat /\ Cardinality(B) \in Nat
      /\ Cardinality(A \cap B) \in Nat
  BY <1>1, <1>2, FS_CardinalityType
<1> QED
  BY <1>1, <1>3

\* A minute of the range is in a bucket that begins in it, or in the one, narrow
\* or wide, the range begins in.
LEMMA MinutesAreInBuckets ==
  ASSUME AInv, NEW start \in Nat, NEW end \in Nat, start .. end - 1 \subseteq checks,
         NEW t \in start .. end - 1, t < RawFrom
  PROVE  \/ \E b \in BegunIn(Narrow, start, end) : b <= t /\ t < b + Width
         \/ \E b \in BegunIn(Wider, start, end) : b <= t /\ t < b + Wide
         \/ t \in start .. start + Wide - 1
<1> DEFINE b == StartOf(t, Width)
           h == StartOf(b, Wide)
<1>1. t \in Int /\ start <= t /\ t < end /\ t \in checks
  OBVIOUS
<1>2. b \in Int /\ Starts(b, Width) /\ b <= t /\ t < b + Width
  BY <1>1, WideIs, StartOfIs
<1>3. b \in Buckets
  BY <1>1 DEF Buckets
<1> HIDE DEF b
<1>4. h \in Int /\ Starts(h, Width) /\ h <= b /\ b < h + Wide /\ Starts(h, Wide)
  BY <1>2, WideIs, StartOfIs
<1>5. b \notin Narrow => h \in Wider
  BY <1>3 DEF Wider
<1>6. t < h + Wide
  <2>1. PICK k \in Int : h = Wide * k
    BY <1>4 DEF Starts
  <2>2. Starts(Wide * (k + 1), Wide) /\ Wide * (k + 1) = h + Wide
    <3>1. Wide * (k + 1) = Wide * k + Wide /\ Wide * (k + 1) \in Int
      BY WideIs
    <3> QED
      BY <2>1, <3>1 DEF Starts
  <2>3. Starts(h + Wide, Width)
    BY <2>2, WideIs
  <2>4. b + Width <= h + Wide
    BY <1>2, <1>4, <2>3, WideIs, StartsApart
  <2> QED
    BY <1>1, <1>2, <1>4, <2>4, WideIs
<1> HIDE DEF h
<1>7. CASE b \in Narrow /\ b > start
  <2>1. b \in BegunIn(Narrow, start, end)
    BY <1>1, <1>2, <1>7 DEF BegunIn
  <2> QED
    BY <1>2, <2>1
<1>8. CASE b \notin Narrow /\ h > start
  <2>1. h \in BegunIn(Wider, start, end)
    BY <1>1, <1>2, <1>4, <1>5, <1>8 DEF BegunIn
  <2> QED
    BY <1>1, <1>2, <1>4, <1>6, <2>1
<1>9. CASE b <= start \/ h <= start
  <2>1. t < start + Wide
    BY <1>1, <1>2, <1>4, <1>6, <1>9, WideIs
  <2> QED
    BY <1>1, <2>1, WideIs
<1> QED
  BY <1>2, <1>4, <1>7, <1>8, <1>9

LEMMA WatchedIs ==
  ASSUME AInv, NEW start \in Nat, NEW end \in Nat, start < end, start .. end - 1 \subseteq checks
  PROVE  /\ Watched(start, end) \in Int /\ Watched(start, end) <= end - start
         /\ Watched(start, end) >= end - start - Wide
         /\ start >= RawFrom => Watched(start, end) = end - start
<1> DEFINE range == start .. end - 1
           rows  == {t \in checks : t >= RawFrom /\ t >= start /\ t < end}
           N     == BegunIn(Narrow, start, end)
           H     == BegunIn(Wider, start, end)
           inN   == {t \in range : \E b \in N : b <= t /\ t < b + Width}
           inH   == {t \in range : \E b \in H : b <= t /\ t < b + Wide}
           lost  == start .. start + Wide - 1
<1>1. Watched(start, end)
        = Lesser(Cardinality(rows) + Width * Cardinality(N) + Wide * Cardinality(H), end - start)
  BY Zenon DEF Watched
<1>2. RawFrom \in Int /\ \A t \in checks : t \in Int
  BY AvailabilityAssumption, WideIs, StartOfIs DEF AInv, AvailabilityTypeOK, RawFrom
<1>3. IsFiniteSet(range) /\ Cardinality(range) = end - start
  <2>1. end - start \in Nat \ {0} /\ start + (end - start) - 1 = end - 1
    OBVIOUS
  <2> QED
    BY <2>1, IntervalIs
<1>4. \A b \in Buckets : b \in Int
  BY <1>2, WideIs, StartOfIs DEF Buckets
<1>5. N \subseteq start .. end /\ H \subseteq start .. end
  <2>1. \A b \in Narrow \cup Wider : b \in Int
    BY <1>4, WideIs, StartOfIs DEF Narrow, Wider
  <2> QED
    BY <2>1 DEF BegunIn
<1>6. IsFiniteSet(N) /\ IsFiniteSet(H) /\ N \subseteq Int /\ H \subseteq Int
  <2>1. IsFiniteSet(start .. end)
    BY FS_Interval
  <2> QED
    BY <1>5, <2>1, FS_Subset
<1>7. range \subseteq rows \cup (inN \cup (inH \cup lost))
  <2> SUFFICES ASSUME NEW t \in range, t \notin rows PROVE t \in inN \cup (inH \cup lost)
    OBVIOUS
  <2>1. t < RawFrom
    BY <1>2
  <2> QED
    BY <2>1, MinutesAreInBuckets
<1>8. start >= RawFrom => rows = range
  BY <1>2
<1>9. rows \subseteq range
  BY <1>2
<1> HIDE DEF rows, N, H
<1>10. IsFiniteSet(inN) /\ Cardinality(inN) <= Width * Cardinality(N)
  <2>1. \A t \in inN : t \in Int /\ \E b \in N : b <= t /\ t < b + Width
    OBVIOUS
  <2> HIDE DEF inN
  <2> QED
    BY <1>6, <2>1, WideIs, SpreadIs DEF IsWidth
<1>11. IsFiniteSet(inH) /\ Cardinality(inH) <= Wide * Cardinality(H)
  <2>1. \A t \in inH : t \in Int /\ \E b \in H : b <= t /\ t < b + Wide
    OBVIOUS
  <2> HIDE DEF inH
  <2> QED
    BY <1>6, <2>1, WideIs, SpreadIs DEF IsWidth
<1>12. IsFiniteSet(lost) /\ Cardinality(lost) = Wide
  BY WideIs, IntervalIs DEF IsWidth
<1> HIDE DEF range, inN, inH, lost
<1>13. IsFiniteSet(rows)
  BY <1>3, <1>9, FS_Subset
<1> DEFINE X == inH \cup lost
           Y == inN \cup X
<1>14. /\ IsFiniteSet(X) /\ Cardinality(X) \in Nat
       /\ Cardinality(X) <= Cardinality(inH) + Cardinality(lost)
       /\ Cardinality(inH) \in Nat
  BY <1>11, <1>12, UnionAtMost
<1>15. /\ IsFiniteSet(Y) /\ Cardinality(Y) \in Nat
       /\ Cardinality(Y) <= Cardinality(inN) + Cardinality(X) /\ Cardinality(inN) \in Nat
  <2> HIDE DEF X
  <2> QED
    BY <1>10, <1>14, UnionAtMost
<1>16. range \subseteq rows \cup Y
  BY <1>7
<1> HIDE DEF X, Y
<1>17. /\ IsFiniteSet(rows \cup Y) /\ Cardinality(rows \cup Y) \in Nat
       /\ Cardinality(rows \cup Y) <= Cardinality(rows) + Cardinality(Y)
       /\ Cardinality(rows) \in Nat
  BY <1>13, <1>15, UnionAtMost
<1>18. Cardinality(range) <= Cardinality(rows \cup Y)
  BY <1>16, <1>17, FS_Subset
<1>19. Cardinality(N) \in Nat /\ Cardinality(H) \in Nat
  BY <1>6, FS_CardinalityType
<1> DEFINE m == Width * Cardinality(N)
           n == Wide * Cardinality(H)
           c == Cardinality(rows)
<1>20. m \in Nat /\ n \in Nat /\ Cardinality(inN) <= m /\ Cardinality(inH) <= n
  BY <1>10, <1>11, <1>19, WideIs
<1>21. c \in Nat /\ Watched(start, end) = Lesser(c + m + n, end - start)
  BY <1>1, <1>17
<1> HIDE DEF m, n
<1>22. end - start <= c + m + n + Wide
  BY <1>3, <1>12, <1>14, <1>15, <1>17, <1>18, <1>20, WideIs
<1>23. start >= RawFrom => c = end - start
  BY <1>3, <1>8
<1> HIDE DEF c
<1> QED
  BY <1>20, <1>21, <1>22, <1>23, WideIs DEF Lesser

-----------------------------------------------------------------------------
(* The figures are sums over outages, no minute of which is another's.     *)

Own            == {o \in outages : ~o.explained}
Touched(range) == {o \in outages : DownAt(o) \cap range # {}}
LateIn(range)  == {o \in Own : Late(o) \cap range # {}}

LEMMA SharesAddUp ==
  ASSUME AInv, NEW S, S \subseteq outages, NEW parts, NEW f,
         \A o \in S : parts[o] \subseteq DownAt(o) /\ f[o] = Cardinality(parts[o])
  PROVE  /\ SumFunctionOnSet(f, S) = Cardinality(Together(parts, S))
         /\ IsFiniteSet(Together(parts, S))
<1>1. IsFiniteSet(S)
  BY OutagesAre, FS_Subset
<1>2. \A o \in S : IsFiniteSet(parts[o])
  BY OutageIs, FS_Subset
<1>3. \A o, p \in S : o # p => parts[o] \cap parts[p] = {}
  BY OutagesAre
<1>4. Apart(S, parts, f)
  BY <1>1, <1>2, <1>3 DEF Apart
<1> QED
  BY <1>4, SumCounts, TogetherFinite

LEMMA TouchedIs ==
  ASSUME AInv, NEW start \in Nat, NEW end \in Nat
  PROVE  /\ {o \in outages : Inside(o, start, end) > 0} = Touched(start .. end - 1)
         /\ {o \in {p \in Touched(start .. end - 1) : ~p.explained} :
               Inside(o, start, end) > Planned(o, start, end)} = LateIn(start .. end - 1)
         /\ \A o \in outages : Inside(o, start, end) - Planned(o, start, end)
                                 = Cardinality(Late(o) \cap (start .. end - 1))
<1> DEFINE R == start .. end - 1
<1>1. ASSUME NEW o \in outages
      PROVE  /\ Inside(o, start, end) > 0 <=> DownAt(o) \cap R # {}
             /\ Inside(o, start, end) > Planned(o, start, end) <=> Late(o) \cap R # {}
             /\ Inside(o, start, end) - Planned(o, start, end) = Cardinality(Late(o) \cap R)
             /\ Late(o) \cap R # {} => DownAt(o) \cap R # {}
  <2>1. Inside(o, start, end) = Cardinality(DownAt(o) \cap R)
    BY InsideCounts
  <2>2. Planned(o, start, end) = Cardinality(KeptIn(o, R))
    BY PlannedCounts
  <2> HIDE DEF R
  <2>3. /\ IsFiniteSet(DownAt(o) \cap R) /\ IsFiniteSet(KeptIn(o, R)) /\ IsFiniteSet(Late(o) \cap R)
        /\ Cardinality(DownAt(o) \cap R) = Cardinality(KeptIn(o, R)) + Cardinality(Late(o) \cap R)
    BY SharesFinite
  <2>4. /\ Cardinality(DownAt(o) \cap R) \in Nat /\ Cardinality(KeptIn(o, R)) \in Nat
        /\ Cardinality(Late(o) \cap R) \in Nat
        /\ Cardinality(DownAt(o) \cap R) = 0 <=> DownAt(o) \cap R = {}
        /\ Cardinality(Late(o) \cap R) = 0 <=> Late(o) \cap R = {}
    BY <2>3, FS_CardinalityType, FS_EmptySet
  <2>5. Late(o) \cap R # {} => DownAt(o) \cap R # {}
    BY DEF Late
  <2> QED
    BY <2>1, <2>2, <2>3, <2>4, <2>5
<1> HIDE DEF R
<1>2. {o \in outages : Inside(o, start, end) > 0} = Touched(R)
  BY <1>1 DEF Touched
<1>3. {o \in {p \in Touched(R) : ~p.explained} :
         Inside(o, start, end) > Planned(o, start, end)} = LateIn(R)
  BY <1>1 DEF Touched, LateIn, Own
<1> QED
  BY <1>1, <1>2, <1>3 DEF R

\* What was unreachable, planned and down of it, minute by minute.
Away(range)      == (UNION {DownAt(o) : o \in outages \ Own}) \cap range
UnderKept(range) == {t \in UNION {DownAt(o) : o \in Own} : Under(t)} \cap range
Lost(range)      == (UNION {Late(o) : o \in Own}) \cap range

\* Figures, with its parts by their names here.
LEMMA FiguresAre ==
  ASSUME AInv, NEW start \in Nat, NEW end \in Nat
  PROVE  LET R     == start .. end - 1
             own   == {o \in Touched(R) : ~o.explained}
             found == Figures(start, end)
         IN /\ found.unreachable = SumFunctionOnSet([o \in Touched(R) \ own |-> Inside(o, start, end)],
                                                    Touched(R) \ own)
            /\ found.planned = SumFunctionOnSet([o \in own |-> Planned(o, start, end)], own)
            /\ found.down = SumFunctionOnSet(
                 [o \in LateIn(R) |-> Inside(o, start, end) - Planned(o, start, end)], LateIn(R))
            /\ found.outages = Cardinality(LateIn(R))
            /\ found.longest = Max({0} \cup {Whole(o) : o \in LateIn(R)})
            /\ found.judged = Greater(0, Watched(start, end) - found.unreachable - found.planned)
<1> DEFINE touch == {o \in outages : Inside(o, start, end) > 0}
           own   == {o \in touch : ~o.explained}
           late  == {o \in own : Inside(o, start, end) > Planned(o, start, end)}
           R     == start .. end - 1
<1>1. touch = Touched(R) /\ late = LateIn(R)
  BY TouchedIs
<1>2. Figures(start, end) =
        [down        |-> SumFunctionOnSet([o \in late |->
                                             Inside(o, start, end) - Planned(o, start, end)], late),
         unreachable |-> SumFunctionOnSet([o \in touch \ own |-> Inside(o, start, end)], touch \ own),
         planned     |-> SumFunctionOnSet([o \in own |-> Planned(o, start, end)], own),
         outages     |-> Cardinality(late),
         longest     |-> Max({0} \cup {Whole(o) : o \in late}),
         judged      |-> Greater(0, Watched(start, end)
                           - SumFunctionOnSet([o \in touch \ own |-> Inside(o, start, end)], touch \ own)
                           - SumFunctionOnSet([o \in own |-> Planned(o, start, end)], own))]
  BY Zenon DEF Figures, SumFunction
<1> HIDE DEF late, touch, R
<1> QED
  BY <1>1, <1>2 DEF R

LEMMA FiguresAreTrue ==
  ASSUME AInv, NEW start \in 0 .. today, NEW end \in 0 .. today, start < end
  PROVE  LET R     == start .. end - 1
             found == Figures(start, end)
         IN /\ found.down = Cardinality(Lost(R))
            /\ found.planned = Cardinality(UnderKept(R))
            /\ found.unreachable = Cardinality(Away(R))
            /\ found.outages = Cardinality(LateIn(R))
            /\ found.longest = Max({0} \cup {Cardinality(Late(o)) : o \in LateIn(R)})
            /\ R \subseteq checks =>
                 LET rest == Cardinality(R \ (Away(R) \cup UnderKept(R)))
                 IN /\ found.judged <= rest /\ found.judged >= rest - Wide
                    /\ start >= RawFrom => found.judged = rest
<1> DEFINE R      == start .. end - 1
           own    == {o \in Touched(R) : ~o.explained}
           found  == Figures(start, end)
           inside == [o \in Touched(R) \ own |-> Inside(o, start, end)]
           held   == [o \in own |-> Planned(o, start, end)]
           down   == [o \in LateIn(R) |-> Inside(o, start, end) - Planned(o, start, end)]
<1>1. start \in Nat /\ end \in Nat
  BY AvailabilityAssumption DEF AInv, AvailabilityTypeOK
<1>2. /\ found.unreachable = SumFunctionOnSet(inside, Touched(R) \ own)
      /\ found.planned = SumFunctionOnSet(held, own)
      /\ found.down = SumFunctionOnSet(down, LateIn(R))
      /\ found.outages = Cardinality(LateIn(R))
      /\ found.longest = Max({0} \cup {Whole(o) : o \in LateIn(R)})
      /\ found.judged = Greater(0, Watched(start, end) - found.unreachable - found.planned)
  <2> HIDE DEF inside, held, down
  <2>1. /\ inside = [o \in Touched(R) \ own |-> Inside(o, start, end)]
        /\ held = [o \in own |-> Planned(o, start, end)]
        /\ down = [o \in LateIn(R) |-> Inside(o, start, end) - Planned(o, start, end)]
    BY Zenon DEF inside, held, down
  <2> QED
    BY <1>1, <2>1, FiguresAre, ZenonT(60)
<1>3. /\ \A o \in outages : Inside(o, start, end) = Cardinality(DownAt(o) \cap R)
      /\ \A o \in outages : Planned(o, start, end) = Cardinality(KeptIn(o, R))
      /\ \A o \in outages : Inside(o, start, end) - Planned(o, start, end) = Cardinality(Late(o) \cap R)
  <2>1. \A o \in outages : Inside(o, start, end) = Cardinality(DownAt(o) \cap R)
    BY <1>1, InsideCounts, Zenon
  <2>2. \A o \in outages : Planned(o, start, end) = Cardinality(KeptIn(o, R))
    BY <1>1, PlannedCounts, Zenon
  <2>3. \A o \in outages : Inside(o, start, end) - Planned(o, start, end) = Cardinality(Late(o) \cap R)
    BY <1>1, TouchedIs, Zenon
  <2> QED
    BY <2>1, <2>2, <2>3, Zenon
<1> HIDE DEF found
<1> USE DEF R
<1> DEFINE insideParts == [o \in Touched(R) \ own |-> DownAt(o) \cap R]
           heldParts   == [o \in own |-> KeptIn(o, R)]
           downParts   == [o \in LateIn(R) |-> Late(o) \cap R]
<1> HIDE DEF R
<1>4. found.unreachable = Cardinality(Away(R)) /\ IsFiniteSet(Away(R))
  <2> DEFINE S == Touched(R) \ own
  <2>1. /\ S \subseteq outages
        /\ \A o \in S : insideParts[o] \subseteq DownAt(o) /\ inside[o] = Cardinality(insideParts[o])
    BY <1>3 DEF Touched
  <2>2. Together(insideParts, S) = Away(R)
    <3>1. \A t : t \in Together(insideParts, S) <=> \E o \in S : t \in DownAt(o) \cap R
      BY DEF Together
    <3>2. \A t : t \in Away(R) <=> \E o \in outages \ Own : t \in DownAt(o) \cap R
      BY DEF Away
    <3>3. \A o, t : o \in outages \ Own /\ t \in DownAt(o) \cap R => o \in S
      BY DEF Touched, Own
    <3>4. S \subseteq outages \ Own
      BY DEF Touched, Own
    <3> HIDE DEF S, insideParts
    <3>5. \A t : t \in Together(insideParts, S) <=> t \in Away(R)
      BY <3>1, <3>2, <3>3, <3>4
    <3> QED
      BY <3>5
  <2> HIDE DEF insideParts, inside, S
  <2>3. /\ SumFunctionOnSet(inside, S) = Cardinality(Together(insideParts, S))
        /\ IsFiniteSet(Together(insideParts, S))
    BY <2>1, SharesAddUp
  <2> QED
    BY <1>2, <2>2, <2>3 DEF S
<1>5. found.planned = Cardinality(UnderKept(R)) /\ IsFiniteSet(UnderKept(R))
  <2>1. /\ own \subseteq outages
        /\ \A o \in own : heldParts[o] \subseteq DownAt(o) /\ held[o] = Cardinality(heldParts[o])
    BY <1>3 DEF Touched, KeptIn
  <2>2. Together(heldParts, own) = UnderKept(R)
    <3>1. \A t : t \in Together(heldParts, own) <=> \E o \in own : t \in KeptIn(o, R)
      BY DEF Together
    <3>2. \A t : t \in UnderKept(R) <=> \E o \in Own : t \in KeptIn(o, R)
      BY DEF UnderKept, KeptIn
    <3>3. \A o, t : o \in Own /\ t \in KeptIn(o, R) => o \in own
      BY DEF Touched, Own, KeptIn
    <3>4. own \subseteq Own
      BY DEF Touched, Own
    <3> HIDE DEF own, heldParts
    <3>5. \A t : t \in Together(heldParts, own) <=> t \in UnderKept(R)
      BY <3>1, <3>2, <3>3, <3>4
    <3> QED
      BY <3>5
  <2> HIDE DEF heldParts, held, own
  <2>3. /\ SumFunctionOnSet(held, own) = Cardinality(Together(heldParts, own))
        /\ IsFiniteSet(Together(heldParts, own))
    BY <2>1, SharesAddUp
  <2> QED
    BY <1>2, <2>2, <2>3
<1>6. found.down = Cardinality(Lost(R))
  <2>1. LateIn(R) \subseteq outages
        /\ \A o \in LateIn(R) : downParts[o] \subseteq DownAt(o) /\ down[o] = Cardinality(downParts[o])
    BY <1>3 DEF LateIn, Own, Late
  <2>2. Together(downParts, LateIn(R)) = Lost(R)
    <3>1. \A t : t \in Together(downParts, LateIn(R)) <=> \E o \in LateIn(R) : t \in Late(o) \cap R
      BY DEF Together
    <3>2. \A t : t \in Lost(R) <=> \E o \in Own : t \in Late(o) \cap R
      BY DEF Lost
    <3>3. \A o, t : o \in Own /\ t \in Late(o) \cap R => o \in LateIn(R)
      BY DEF LateIn
    <3>4. LateIn(R) \subseteq Own
      BY DEF LateIn
    <3> HIDE DEF downParts
    <3>5. \A t : t \in Together(downParts, LateIn(R)) <=> t \in Lost(R)
      BY <3>1, <3>2, <3>3, <3>4
    <3> QED
      BY <3>5
  <2> HIDE DEF downParts, down
  <2>3. SumFunctionOnSet(down, LateIn(R)) = Cardinality(Together(downParts, LateIn(R)))
    BY <2>1, SharesAddUp
  <2> QED
    BY <1>2, <2>2, <2>3
<1>7. found.longest = Max({0} \cup {Cardinality(Late(o)) : o \in LateIn(R)})
  <2>1. \A o \in LateIn(R) : Whole(o) = Cardinality(Late(o))
    BY WholeCounts DEF LateIn, Own
  <2>2. {Whole(o) : o \in LateIn(R)} = {Cardinality(Late(o)) : o \in LateIn(R)}
    BY <2>1
  <2> QED
    BY <1>2, <2>2
<1>8. ASSUME R \subseteq checks
      PROVE  LET rest == Cardinality(R \ (Away(R) \cup UnderKept(R)))
             IN /\ found.judged <= rest /\ found.judged >= rest - Wide
                /\ start >= RawFrom => found.judged = rest
  <2> DEFINE A == Away(R)
             K == UnderKept(R)
             rest == R \ (A \cup K)
             watched == Watched(start, end)
  <2>1. /\ watched \in Int /\ watched <= end - start /\ watched >= end - start - Wide
        /\ start >= RawFrom => watched = end - start
    BY <1>1, <1>8, WatchedIs DEF R
  <2>2. IsFiniteSet(R) /\ Cardinality(R) = end - start
    <3> DEFINE last == end - 1
    <3>1. start \in Int /\ last \in Int /\ ~(start > last) /\ last - start + 1 = end - start
      BY <1>1
    <3>2. IsFiniteSet(start .. last)
          /\ Cardinality(start .. last) = IF start > last THEN 0 ELSE last - start + 1
      BY <3>1, FS_Interval
    <3> QED
      BY <3>1, <3>2 DEF R
  <2>3. A \cap K = {}
    <3> SUFFICES ASSUME NEW t \in A \cap K PROVE FALSE
      OBVIOUS
    <3>1. PICK o \in outages \ Own : t \in DownAt(o)
      BY DEF Away
    <3>2. PICK p \in Own : t \in DownAt(p)
      BY DEF UnderKept
    <3> QED
      BY <3>1, <3>2, OutagesAre DEF Own
  <2>4. A \subseteq R /\ K \subseteq R
    BY DEF Away, UnderKept
  <2>5. R = rest \cup (A \cup K) /\ rest \cap (A \cup K) = {}
    BY <2>4
  <2>6. IsFiniteSet(A) /\ IsFiniteSet(K)
    BY <1>4, <1>5
  <2> HIDE DEF A, K
  <2>7. IsFiniteSet(rest) /\ IsFiniteSet(A \cup K)
    BY <2>2, <2>5, <2>6, FS_Subset, FS_Union
  <2> HIDE DEF rest
  <2>8. /\ Cardinality(R) = Cardinality(rest) + Cardinality(A \cup K) - Cardinality({})
        /\ Cardinality(A \cup K) = Cardinality(A) + Cardinality(K) - Cardinality({})
    BY <2>3, <2>5, <2>6, <2>7, FS_Union
  <2>9. /\ Cardinality({}) = 0 /\ Cardinality(rest) \in Nat
        /\ Cardinality(A) \in Nat /\ Cardinality(K) \in Nat
    BY <2>6, <2>7, FS_EmptySet, FS_CardinalityType
  <2>10. found.judged = Greater(0, watched - Cardinality(A) - Cardinality(K))
    BY <1>2, <1>4, <1>5 DEF A, K
  <2> HIDE DEF watched
  <2>11. (end - start) - Cardinality(A) - Cardinality(K) = Cardinality(rest)
    BY <1>1, <2>2, <2>8, <2>9
  <2>12. /\ found.judged <= Cardinality(rest) /\ found.judged >= Cardinality(rest) - Wide
         /\ start >= RawFrom => found.judged = Cardinality(rest)
    BY <1>1, <2>1, <2>9, <2>10, <2>11, WideIs DEF Greater
  <2> QED
    BY <2>12 DEF rest, A, K
<1> QED
  BY <1>2, <1>4, <1>5, <1>6, <1>7, <1>8 DEF R, found

LEMMA FiguresHold == AInv => AvailabilityIsTrue
<1> SUFFICES ASSUME AInv, NEW start \in 0 .. today, NEW end \in 0 .. today, start < end
             PROVE  LET range == start .. end - 1
                        own   == {o \in outages : ~o.explained}
                        late  == {o \in own : Late(o) \cap range # {}}
                        away  == (UNION {DownAt(o) : o \in outages \ own}) \cap range
                        kept  == {t \in UNION {DownAt(o) : o \in own} : Under(t)} \cap range
                        rest  == Cardinality(range \ (away \cup kept))
                        found == Figures(start, end)
                    IN /\ found.down        = Cardinality((UNION {Late(o) : o \in own}) \cap range)
                       /\ found.planned     = Cardinality(kept)
                       /\ found.unreachable = Cardinality(away)
                       /\ found.outages     = Cardinality(late)
                       /\ found.longest     = Max({0} \cup {Cardinality(Late(o)) : o \in late})
                       /\ range \subseteq checks =>
                            /\ found.judged <= rest /\ found.judged >= rest - Wide
                            /\ start >= RawFrom => found.judged = rest
  BY Zenon DEF AvailabilityIsTrue
<1> QED
  BY FiguresAreTrue, Zenon DEF Lost, UnderKept, Away, LateIn, Own

\* Of any range, what is down, planned and unreachable is what was so minute
\* by minute, and what is judged of a range checked throughout is the rest of
\* it, or of checks folded already falls short by a bucket at most, whatever
\* windows and outages there are (availability.targets).
THEOREM AvailabilityIsRight == AvailabilitySpec => []AvailabilityIsTrue
<1>1. AInv /\ [AvailabilityNext]_avars => AInv'
  BY AvailabilityKeeps
<1>2. AInv => AvailabilityIsTrue
  BY FiguresHold
<1> QED
  BY AvailabilityStarts, <1>1, <1>2, PTL DEF AvailabilitySpec

\* Outages are of the minutes there have been, and of one target no two
\* overlap (state.apply_outcome opens none while one is open).
THEOREM OutagesDoNotOverlap == AvailabilitySpec => [](AvailabilityTypeOK /\ OutagesApart)
<1>1. AInv /\ [AvailabilityNext]_avars => AInv'
  BY AvailabilityKeeps
<1>2. AInv => AvailabilityTypeOK /\ OutagesApart
  BY DEF AInv
<1> QED
  BY AvailabilityStarts, <1>1, <1>2, PTL DEF AvailabilitySpec
=================================================================================
