---------------------------------- MODULE Snmp ----------------------------------
(***************************************************************************)
(* Polling a device over SNMP: the list of what is polled and its jobs     *)
(* (snmp_config.py, web/routes_settings.py, scheduler.sync_snmp_jobs), one *)
(* poll and the rates made of two counter readings (snmp_poll.py), the     *)
(* Test button, and custom metrics (custom_metrics.py).                    *)
(*                                                                         *)
(* One device, one interface, one custom metric.  A unit of time is a      *)
(* minute.  Requests commit, read the list, and then set the jobs; a poll *)
(* and a test spend seconds on the network with the database let go.       *)
(***************************************************************************)
EXTENDS Integers, FiniteSets

CONSTANTS
  Profiles,    \* SNMP credentials
  Oids,        \* what the custom metric may read
  Paces,       \* polling intervals
  Requests,    \* web requests
  Wrap,        \* a 32-bit counter counts modulo this
  Speed,       \* the most that moves in a unit of time
  MaxTime,     \* the clock (bound)
  MaxRestarts  \* restarts of the device (bound)

ASSUME SnmpAssumption ==
  /\ Profiles # {} /\ "none" \notin Profiles
  /\ Paces \subseteq Nat \ {0}
  /\ Wrap \in Nat \ {0} /\ Speed \in Nat
  /\ MaxTime \in Nat /\ MaxRestarts \in Nat

VARIABLES
  about,     \* what goes on in a behaviour: "rates", "jobs" or "results"
  clock,
  box,       \* the device: octets since it counts, since when it is up
  wide,      \* it answers with 64-bit counters
  flow,      \* octets moved since the reading that is the baseline
  profiles,  \* the credentials there are
  right,     \* those the device accepts
  row,       \* its row on the SNMP list
  pace,      \* the interval that is set
  job,       \* the scheduler's job
  request,   \* request[q]: a request that sets the jobs
  poll,      \* the poll in flight
  polled,    \* SnmpPoll: its uptime at the last answer
  reading,   \* SnmpInterface: the last counter reading
  sample,    \* the rate on the interface, and what really moved
  test,      \* the Test in flight
  tested,    \* the profile the shown test result is of
  metric,    \* the custom metric
  past       \* what happened, for the properties

world  == <<about, clock, box, wide, flow, right>>
config == <<profiles, row, pace, job, request>>
data   == <<poll, polled, reading, sample>>
extras == <<test, tested, metric>>
svars  == <<world, config, data, extras, past>>

None == "none"
Larger(a, b) == IF a > b THEN a ELSE b

NoRow     == [there |-> FALSE, enabled |-> FALSE, profile |-> CHOOSE p \in Profiles : TRUE]
NoJob     == [on |-> FALSE, pace |-> 0]
NoPolled  == [there |-> FALSE, uptime |-> 0, at |-> 0]
NoReading == [there |-> FALSE, bits |-> 32, octets |-> 0, at |-> 0]
NoSample  == [moved |-> 0, real |-> 0]
NoMetric  == [there |-> FALSE, oid |-> None, shows |-> None]

\* What the network half of a poll brings back.
Answer   == [ok : BOOLEAN, has : BOOLEAN, bits : {32, 64}, octets : Nat, uptime : Nat,
             flow : Nat, oid : Oids \cup {None}, pace : Nat]
NoAnswer == [ok |-> FALSE, has |-> FALSE, bits |-> 32, octets |-> 0, uptime |-> 0, flow |-> 0,
             oid |-> None, pace |-> 0]
NoPoll   == [on |-> FALSE, said |-> NoAnswer]
Idle     == [phase |-> "idle", wanted |-> FALSE, pace |-> 0]

SnmpTypeOK ==
  /\ about \in {"rates", "jobs", "results"} /\ clock \in 0 .. MaxTime
  /\ box \in [octets : Nat, up : Nat, restarts : 0 .. MaxRestarts]
  /\ wide \in BOOLEAN /\ flow \in Nat
  /\ right \subseteq Profiles /\ profiles \subseteq Profiles
  /\ row \in [there : BOOLEAN, enabled : BOOLEAN, profile : Profiles]
  /\ pace \in Paces /\ job \in [on : BOOLEAN, pace : Paces \cup {0}]
  /\ request \in [Requests -> [phase : {"idle", "saved", "read"}, wanted : BOOLEAN,
                               pace : Paces \cup {0}]]
  /\ poll \in [on : BOOLEAN, said : Answer]
  /\ polled \in [there : BOOLEAN, uptime : Nat, at : Nat]
  /\ reading \in [there : BOOLEAN, bits : {32, 64}, octets : Nat, at : Nat]
  /\ sample \in [moved : Nat, real : Nat]
  /\ test \in Profiles \cup {None} /\ tested \in Profiles \cup {None}
  /\ metric \in [there : BOOLEAN, oid : Oids \cup {None}, shows : Oids \cup {None}]
  /\ past \in [crossed : BOOLEAN, blind : BOOLEAN, reset : BOOLEAN]

SnmpInit ==
  /\ about \in {"rates", "jobs", "results"} /\ clock = 0
  /\ box = [octets |-> 1, up |-> 4, restarts |-> 0] /\ wide \in BOOLEAN /\ flow = 0
  /\ right \in SUBSET Profiles /\ profiles = Profiles
  /\ (about # "results" => right = Profiles) /\ (about # "rates" => wide)
  /\ pace \in Paces
  /\ IF about = "jobs" THEN row = NoRow /\ job = NoJob
     ELSE /\ row = [NoRow EXCEPT !.there = TRUE, !.enabled = TRUE]
          /\ job = [on |-> TRUE, pace |-> pace]
  /\ request = [q \in Requests |-> Idle]
  /\ poll = NoPoll /\ polled = NoPolled /\ reading = NoReading /\ sample = NoSample
  /\ test = None /\ tested = None /\ metric = NoMetric
  /\ past = [crossed |-> FALSE, blind |-> FALSE, reset |-> FALSE]

-----------------------------------------------------------------------------
(* The device. *)

\* detect_reboot's slack; its 30 seconds are none of a minute.
Slack(minutes) == minutes \div 10

\* Readings further apart are not compared.
MaxGap(interval) == Larger(3 * interval, 3)

Tick ==
  /\ about = "rates" /\ clock < MaxTime /\ clock' = clock + 1
  /\ ~poll.on                          \* a poll takes less than this (bound)
  /\ \E n \in 0 .. Speed :
       /\ box' = [box EXCEPT !.octets = @ + n, !.up = @ + 1]
       /\ flow' = flow + n
  /\ UNCHANGED <<about, wide, right, config, data, extras, past>>

\* The device restarts, or (as far as SNMP can tell) its SNMP agent does; or
\* it answers 64-bit counters from now on, or no longer.  A restart within the
\* slack of the last one cannot be told from none (the longer the time between
\* readings, the longer the slack), nor one while a poll reads first the uptime
\* and then the counters.
Restart ==
  /\ about = "rates" /\ box.restarts < MaxRestarts
  /\ \E counters \in BOOLEAN :
       /\ box' = [box EXCEPT !.up = 0, !.restarts = @ + 1,
                             !.octets = IF counters THEN 0 ELSE @]
       /\ past' = [past EXCEPT !.blind = @ \/ poll.on \/ \E n \in Paces : box.up <= Slack(MaxGap(n)),
                               !.reset = counters \/ @]
  /\ UNCHANGED <<about, clock, wide, flow, right, config, data, extras>>

SwapCounters ==
  /\ about = "rates" /\ ~poll.on /\ wide' = ~wide /\ box.restarts < MaxRestarts
  /\ box' = [box EXCEPT !.restarts = @ + 1]
  /\ UNCHANGED <<about, clock, flow, right, config, data, extras, past>>

-----------------------------------------------------------------------------
(* Counter arithmetic (snmp_poll.py). *)

\* counter_delta; -1 for what cannot be known.
CounterDelta(previous, current, bits) ==
  IF current >= previous THEN current - previous
  ELSE IF bits = 32 /\ previous < Wrap THEN current - previous + Wrap ELSE -1

\* Mutants: a reboot, or a change of width, is not looked at.
InterfaceRatesThroughReboots(was, said, now, rebooted) ==
  LET minutes == now - was.at
      moved   == CounterDelta(was.octets, said.octets, said.bits)
  IN IF \/ ~was.there \/ said.bits # was.bits
        \/ minutes <= 0 \/ minutes > MaxGap(said.pace)
        \/ said.bits = 32 /\ moved > Speed * minutes
     THEN -1 ELSE moved

\* interface_rates: what moved between two readings, or -1 if they cannot be
\* trusted.
InterfaceRates(was, said, now, rebooted) ==
  LET minutes == now - was.at
      moved   == CounterDelta(was.octets, said.octets, said.bits)
  IN IF \/ ~was.there \/ rebooted \/ said.bits # was.bits
        \/ minutes <= 0 \/ minutes > MaxGap(said.pace)
        \/ said.bits = 32 /\ moved > Speed * minutes
     THEN -1 ELSE moved

\* detect_reboot: its uptime grew by less than the time that went by.
DetectReboot(said, now) ==
  LET since == now - polled.at
  IN polled.there /\ said.uptime < polled.uptime + since - Slack(since)

-----------------------------------------------------------------------------
(* One poll (snmp_poll._poll). *)

\* collect_interfaces: the 64-bit counters if the device has them.
Counter == IF wide THEN box.octets ELSE box.octets % Wrap

\* collect_health, and what comes with it.  The interface may be missing.
Answered(has) ==
  [ok |-> TRUE, has |-> has, bits |-> IF wide THEN 64 ELSE 32, octets |-> Counter,
   uptime |-> box.up, flow |-> flow, oid |-> metric.oid, pace |-> pace]

\* It reads its row and the interval, and asks; nothing may answer.
BeginPoll ==
  /\ job.on /\ ~poll.on /\ about # "jobs"
  /\ row.there /\ row.enabled
  /\ \E ok, has \in BOOLEAN :
       /\ ok => row.profile \in right
       /\ has => ok /\ about = "rates"
       /\ poll' = [on |-> TRUE, said |->
            IF ok THEN Answered(has) ELSE [NoAnswer EXCEPT !.pace = pace]]
  /\ UNCHANGED <<world, config, polled, reading, sample, extras, past>>

\* custom_metrics.record: what was read is the metric's, by its number.
Kept(said) ==
  IF metric.there /\ said.oid # None THEN [metric EXCEPT !.shows = said.oid] ELSE metric

\* record_poll, unless the device has left the list.
RecordPoll ==
  /\ poll.on /\ poll' = NoPoll
  /\ IF ~row.there \/ ~poll.said.ok
     THEN UNCHANGED <<polled, reading, sample, flow, metric, past>>
     ELSE LET said     == poll.said
              rebooted == DetectReboot(said, clock)
              moved    == InterfaceRates(reading, said, clock, rebooted)
          IN /\ polled' = [there |-> TRUE, uptime |-> said.uptime, at |-> clock]
             /\ reading' = IF said.has THEN [there |-> TRUE, bits |-> said.bits,
                                             octets |-> said.octets, at |-> clock]
                           ELSE reading
             /\ sample' = IF ~said.has THEN sample
                          ELSE IF moved < 0 THEN NoSample
                          ELSE [moved |-> moved, real |-> said.flow]
             /\ flow' = IF said.has THEN flow - said.flow ELSE flow
             /\ metric' = Kept(said)
             /\ past' = [past EXCEPT !.reset = @ /\ ~said.has,
                                     !.blind = @ \/ (past.reset /\ ~said.has)]
  /\ UNCHANGED <<about, clock, box, wide, right, config, test, tested>>

-----------------------------------------------------------------------------
(* The list and its jobs. *)

\* sync_snmp_jobs: a job for what is wanted; one whose interval is the same is
\* left alone.  Mutant: so is any that runs.
SyncedOnce(wanted, every) ==
  IF ~wanted THEN NoJob ELSE IF job.on THEN job ELSE [on |-> TRUE, pace |-> every]
Synced(wanted, every) ==
  IF ~wanted THEN NoJob ELSE [on |-> TRUE, pace |-> every]

\* A request commits what it saves; one that saved the interval keeps it ...
Saves(q, every) ==
  /\ about # "rates" /\ request[q].phase = "idle"
  /\ about = "results" => \A r \in Requests : request[r].phase = "idle"
  /\ request' = [request EXCEPT ![q].phase = "saved", ![q].pace = every]
  /\ past' = [past EXCEPT !.crossed = @ \/ \E r \in Requests : \/ request[r].phase = "read"
                                                             \/ request[r].pace # 0]
  /\ UNCHANGED <<world, job, data, test>>

\* Off the list, with what hangs off the row.
Cleared ==
  /\ row' = NoRow /\ tested' = None /\ metric' = NoMetric
  /\ UNCHANGED <<profiles, pace>>

AddDevice(q, p) ==
  /\ Saves(q, 0) /\ ~row.there /\ p \in profiles
  /\ row' = [there |-> TRUE, enabled |-> TRUE, profile |-> p]
  /\ UNCHANGED <<profiles, pace, tested, metric>>

RemoveDevice(q) == Saves(q, 0) /\ row.there /\ Cleared

SetPolling(q) ==
  /\ Saves(q, 0) /\ row.there
  /\ row' = [row EXCEPT !.enabled = ~@]
  /\ UNCHANGED <<profiles, pace, tested, metric>>

SetPace(q, n) ==
  /\ Saves(q, n) /\ pace' = n
  /\ UNCHANGED <<profiles, row, tested, metric>>

\* ... reads the list (apply_snmp_schedule) ...
ReadList(q) ==
  /\ request[q].phase = "saved"
  /\ request' = [request EXCEPT ![q] = [phase |-> "read", wanted |-> row.there /\ row.enabled,
                                        pace |-> IF @.pace # 0 THEN @.pace ELSE pace]]
  /\ UNCHANGED <<world, profiles, row, pace, job, data, extras, past>>

\* ... and sets the jobs.
SetJobs(q) ==
  /\ request[q].phase = "read"
  /\ job' = Synced(request[q].wanted, request[q].pace)
  /\ request' = [request EXCEPT ![q] = Idle]
  /\ UNCHANGED <<world, profiles, row, pace, data, extras, past>>

\* SPARK restarts: what was in flight is lost, the jobs are set from the list.
RestartSpark ==
  /\ about # "rates"
  /\ job' = Synced(row.there /\ row.enabled, pace)
  /\ request' = [q \in Requests |-> Idle] /\ poll' = NoPoll /\ test' = None
  /\ past' = [past EXCEPT !.crossed = FALSE]
  /\ UNCHANGED <<world, profiles, row, pace, polled, reading, sample, tested, metric>>

-----------------------------------------------------------------------------
(* Credentials, the Test button and custom metrics: no job changes. *)

Edits == about = "results" /\ UNCHANGED <<about, clock, box, wide, flow, pace, job, request, data, past>>

\* save_profile: another secret, or one that was deleted is made again.
SaveProfile(p) ==
  /\ Edits /\ profiles' = profiles \cup {p}
  /\ right' \in {right \cup {p}, right \ {p}}
  /\ UNCHANGED <<row, extras>>

\* delete_profile refuses one that is used, as the database would.
DeleteProfile(p) ==
  /\ Edits /\ p \in profiles /\ ~(row.there /\ row.profile = p)
  /\ profiles' = profiles \ {p}
  /\ UNCHANGED <<right, row, extras>>

\* set_device_profile: the result shown was for the old credentials.
SetDeviceProfile(p) ==
  /\ Edits /\ row.there /\ p \in profiles /\ p # row.profile
  /\ row' = [row EXCEPT !.profile = p] /\ tested' = None
  /\ UNCHANGED <<right, profiles, test, metric>>

\* probe_device reads, commits, asks ...
BeginTest ==
  /\ Edits /\ row.there /\ test = None
  /\ test' = row.profile
  /\ UNCHANGED <<right, profiles, row, tested, metric>>

\* ... and writes the row it read, if it is there.
EndTest ==
  /\ Edits /\ test # None
  /\ test' = None
  /\ tested' = IF row.there THEN test ELSE tested
  /\ UNCHANGED <<right, profiles, row, metric>>

\* add_custom_metric: one OID is read once on a device.
AddMetric(oid) ==
  /\ Edits /\ row.there /\ ~metric.there
  /\ metric' = [there |-> TRUE, oid |-> oid, shows |-> None]
  /\ UNCHANGED <<right, profiles, row, test, tested>>

\* import_custom_extend: of the lines an extend printed, those that are named,
\* all of them or none.
ImportMetrics(lines) ==
  /\ Edits /\ row.there /\ lines # {} /\ ~metric.there
  /\ \E oid \in lines : metric' = [there |-> TRUE, oid |-> oid, shows |-> None]
  /\ UNCHANGED <<right, profiles, row, test, tested>>

\* edit_custom_metric: what another OID reads is not this one's.
EditMetric(oid) ==
  /\ Edits /\ metric.there
  /\ metric' = [metric EXCEPT !.oid = oid, !.shows = IF oid = metric.oid THEN @ ELSE None]
  /\ UNCHANGED <<right, profiles, row, test, tested>>

DeleteMetric ==
  /\ Edits /\ metric.there /\ metric' = NoMetric
  /\ UNCHANGED <<right, profiles, row, test, tested>>

SnmpNext ==
  \/ Tick \/ Restart \/ SwapCounters
  \/ BeginPoll \/ RecordPoll
  \/ \E q \in Requests : \/ \E p \in Profiles : AddDevice(q, p)
                         \/ RemoveDevice(q) \/ SetPolling(q)
                         \/ \E n \in Paces : SetPace(q, n)
                         \/ ReadList(q) \/ SetJobs(q)
  \/ RestartSpark
  \/ \E p \in Profiles : SaveProfile(p) \/ DeleteProfile(p) \/ SetDeviceProfile(p)
  \/ BeginTest \/ EndTest
  \/ \E o \in Oids : AddMetric(o) \/ EditMetric(o)
  \/ \E lines \in SUBSET Oids : ImportMetrics(lines)
  \/ DeleteMetric

SnmpSpec == SnmpInit /\ [][SnmpNext]_svars

-----------------------------------------------------------------------------

\* What is stored as moved did move: no wrap, restart, gap between polls or
\* change of width is taken for traffic (snmp_poll.interface_rates: "a missing
\* minute on a chart is honest, a spike ... is not").  Not so, in the code,
\* when the device restarts again within the slack detect_reboot allows, or
\* its interface is missing from the first answer after a restart.
RateIsReal == ~past.blind => sample.moved <= sample.real

\* When no request is at work, what is on the list and not paused has its job
\* at the interval that is set, and nothing else has one: unless a request had
\* read the list when another changed it (scheduler.sync_snmp_jobs: "Make the
\* SNMP poll jobs match the enabled devices on the SNMP list").
JobsFollowTheList ==
  (~past.crossed /\ \A q \in Requests : request[q].phase = "idle") =>
    IF row.there /\ row.enabled THEN job = [on |-> TRUE, pace |-> pace] ELSE ~job.on
===============================================================================
