# SPARK in TLA+

SPARK watches a home network: it checks targets on a schedule, polls devices
over SNMP, reads the APIs of storage and virtualization servers, finds what is
on the network, keeps a record of it all and sends alerts to Discord, ntfy,
email or a webhook. It is one Python process (asyncio, APScheduler) over one
SQLite database. This directory models the parts of it where the order of
events decides what a person is told or shown, checks them with TLC and proves
the most important results with TLAPS. Paths below are relative to
`src/spark/src/spark/` unless they say otherwise.

## 1. Inventory

| Component | State it keeps | Operations | What is hard | Modules |
|---|---|---|---|---|
| **Check engine** `engine/` | `target` rows (status, two counters), `check_result`, `incident` | one check: read, probe, apply, commit | the row is seconds old when it is written back; two checks of one target; crashes | `TargetMonitor` |
| **Targets** `web/routes_targets.py`, `web/routes_heartbeat.py` | `target` rows | create, edit, pause, resume, delete, check now, ping | all of them run beside checks; the scheduler is told after the commit (before it, for a delete) | `TargetMonitor` |
| **Scheduler** `scheduler.py` | jobs, in memory | add, replace, remove a job; `sync_jobs`, `sync_snmp_jobs` | agrees with the database only if every request finishes | `TargetMonitor`, `Snmp` |
| **Alert decisions** `alerts.py` (first half), `snmp_alerts.py`, `internet.py`, `suppressions.py` | `notification` rows under a dedupe key; `alert_state`, `alert_incident` | one per kind of event, each in the transaction of the change it reports | a recovery must match an outage that was told; keys outlive what they name | `TargetMonitor`, `Alarms` |
| **Maintenance windows** `maintenance.py` | windows, `finished_until` | add, end, remove, the job each minute | what was held back must be told once, when the last window over it ends | `Alarms` |
| **Outbox** `alerts.py` (second half), `channels.py` | `delivery` rows, `notification.status`; a plan in memory | route, plan, send, record; Test; settings | two transactions with the network between them; retries, rate limits, quiet hours, lost records | `Outbox` |
| **Device hierarchy** `hierarchy.py`, `merge.py`, `topology.py` | `device.parent_device_id`, `map_auto`, dismissals, the mode | place by hand, accept, automatic pass, take back, wipe, merge, remove | no loops; a person's choice must win over the automatic mode | `Topology`, `ServiceMap` |
| **Discovery and identity** `discovery/`, `identity.py`, `merge.py`, `snmp_discover.py`, `onboarding.py` | devices, extra addresses, exclusions, services, the wizard's wish | sweep, scan, Find SNMP, fill in a MAC, merge, remove, ignore | addresses move, MACs come late, and every job writes what it saw seconds ago | `Inventory` |
| **SNMP polling** `snmp_poll.py`, `snmp_config.py`, `custom_metrics.py` | the list, profiles, baselines, jobs, results | poll, test, edit the list, the profiles and the metrics | wraps, restarts and gaps look alike; answers come back to rows that changed | `Snmp` |
| **History** `retention.py`, `snmp_history.py` | samples, five-minute and hourly buckets | fold and delete each night; charts | bucket boundaries, compared as text | `History` |
| **Availability** `availability.py` | none: outages, windows, checks | a share of a stretch of time | overlaps, weekly windows, stretches nobody watched | `Availability` |
| **Receiver** `receiver.py` | a queue of 2000, shares per sender, addresses remembered, event incidents | receive, store, match, expire | limits; what is remembered is a minute old; a silence and a new event at once | `Receiver` |
| **Integrations** `credentials.py`, `truenas_health.py`, `proxmox_health.py`, `storage.py` | credentials and what they watch, readings, `alert_state` | check, test, trust, edit, delete, watch | a check judges a row it read before the network; parts that do not answer | `Integrations` |
| **Sign-in** `auth.py`, `web/routes_auth.py` | the account, sessions, attempts | set up, sign in and out, change and reset the password, end sessions, the timeout | a slow hash between a test and its record | `SignIn` |
| **Start, migrations, backups** `db.py`, `main.py`, `backup.py`, `cli.py`, `config.py`, `subnets.py` | the files of the data directory | start, migrate, back up, restore | a crash between any two files or statements | `Startup` |
| **Internet monitor** `internet.py` | samples, one incident | a look each minute | who explains whom: the gateway or the line | `Alarms` |
| Events to pages, probes, protocols, UniFi, Docker, Hermes, pages | | | input and output, forms, rendering: little state that several actors share | (section 7) |

How they interact. A check, a poll, a look at the internet or a trap each run in
one transaction that also writes the alert they decide on (`alerts.enqueue`).
The dispatcher reads those rows 15 seconds later at most and is the only part
that talks to the channels. The web pages change the same rows in transactions
of their own and then call the scheduler. Hierarchy and maintenance windows are
read by every decision ("is this explained by something above?", "is this to be
held back?"). Whatever talks to the network reads what it needs in one
transaction, lets the database go, and writes in another.

What makes each component correct, in short: hysteresis counts exactly the
results in a row; a target has at most one outage open and one on record
whenever it is down; an alert is told once while its trouble stands, and a
recovery follows only what was told; what a window held back is told when it
ends, once; every alert is delivered or given up, and is sent twice only if the
record of it was lost; the map has no loops and the automatic mode leaves a
person's places alone; a device is one row; a rate is of what moved; every
sample is counted once until it expires; an alert clears because the box said
so; nobody is signed in by a password that was changed; and the data is whole
after any crash.

## 2. Modules

Each module's header says what it is a model of; each action names its function.
Here is what the state stands for and what is left out.

### TargetMonitor

`TargetMonitor.tla` is the check engine with everything that acts on a target.
One action is one database transaction or one call on the scheduler. SQLite has
a single writer which takes its lock at the first write; in `apply_outcome` this
comes before the open incident is looked up, so from there to the commit a check
is one step. The read at the start of `run_target` holds nothing, and the probe
takes seconds: `flight[r]` keeps the row as it was read, and `WriteBack` writes
only the columns that differ from it, as SQLAlchemy does. This gap is where most
of the interesting behaviour comes from.

| TLA+ | Code |
|---|---|
| `row`, `live` | the `target` table: `enabled`, `status`, `consecutive_failures`, `consecutive_successes`, the thresholds, `depends_on_target_id` |
| `streak` | the newest run of equal verdicts in `check_result`; nothing in the code reads it, properties compare the counters with it |
| `incident` | the `incident` table: open, or closed with a `resolution`; `suppressed_by_dependency` |
| `queued`, `refused` | `notification.dedupe_key` values; the ones `enqueue` found taken |
| `flight` | checks between the read and the commit |
| `job`, `follow` | APScheduler's jobs; requests between their commit and their call on the scheduler (a delete: between its call and its commit) |
| `StartScheduled`, `StartByHand` | `run_target` from a job (`max_instances` 1), from Check now and after creating or resuming, and `_ping` |
| `FinishQuietly`, `OpenOutage`, `ContinueOutage`, `Recover`, `LoseRun` | `check_target`: `apply_outcome` and `on_target_transition`, commit or rollback |
| `Create`, `Edit`, `Pause`, `Resume`, `Unwatch`/`Delete`/`FailDelete`, `RemoveDevice`, `FollowUp` | the requests |
| `Restart` | the process ends at any moment and starts again; `sync_jobs` |

Abstracted: times (a check may start whenever its job exists), the detail texts,
why an alert is not to be told (`tell` stands for alerts switched off, a mute, a
`muted_until`, a maintenance window; `Alarms` tells them apart), and the map
(`Above` is a constant). A heartbeat that waits for its first ping records
nothing, which is a check that is lost (`LoseRun`).

### Alarm and Alarms

`Alarm.tla` is what an alarm promises, whatever raises it: bad news once while
the trouble stands, good news only to someone who was told the bad.
`Alarms.tla` is everything in SPARK that can alert about a device, and
everything that keeps it quiet, and is shown to be that alarm (`RefinesAlarm`).

| TLA+ | Code |
|---|---|
| `alarm[a]` | `alert_state` (a streak, or fired; `notified`) and `alert_incident`; for an outage, the target and its incident |
| `news`, `held`, `explained` | the last message queued; what a window, and nothing else, kept back; outages flagged `suppressed_by_dependency` |
| `window[w]` | `maintenance_window`: to come, on, over; `pending` is an end beyond `finished_until` |
| `muted`, `off`, `alerting` | `muted_until`, suppressions, the switch |
| `Poll`, `Forget`, `Answer`, `Unanswered`, `GoesDown`, `ComesBack`, `RecordInternet` | `snmp_alerts._step` and its callers; `forget`; `on_snmp_poll`; `on_target_transition`; `internet.record` |
| `Finish`, `EndWindowNow`, `RemoveWindow` | `maintenance.finish`, `end_now`, `remove`, with `_leftovers` |

The reading that a rule judges, whether its hold time is over and how a rule is
set are choices of each step. Alarms are watched in pairs (`Monitored`), because
they meet only through the device's windows and through "something above is
down". Time is the order of ends, begins and looks.

### Outbox

`Outbox.tla` is `alerts._dispatch` with `channels.messages`: `Plan` is the first
transaction (`_route`, the plan, `_summarise`), `Send` one message, `Record` the
second transaction, `LoseAnswers` the process dying (or the second transaction
failing) between the two. `Enqueue`, `SendTest`, the settings, the quiet hours
and time (`BecomeDue`, `RetryAfterOver`) may come between any two of these. The
job has `max_instances` 1, so there is one dispatch at a time.

`told`, `arrived`, `again` and `unsure` are history: which Retry-After is
running, and what really arrived. `arrived` may disagree with the answer,
because a message can get through and its answer be lost.

Abstracted: wording; `[:50]`, `[:200]` and `limit(1000)` (a bound of two alerts
never meets them); alerts from before channels existed, which carry their
attempts over; changes of what a channel gets. `next_attempt_at` is three
values: due, backing off, or waiting for a Retry-After. It is computed from the
time the answers are recorded, so it lies beyond the end of the Retry-After,
which runs from the answer.

### Topology and ServiceMap

`Topology.tla` is the pure half of the map: the walks of `hierarchy.py` over a
function of parents, and `topology.infer`: the uplink of each switch, the
deepest switch that sees a device downstream, "behind" one piece of
infrastructure, LLDP, and `_without_loops`. Ports and MACs are numbers; `via` and
the words for a place are left out.

`ServiceMap.tla` puts it to work. The network is a tree of machines that is
plugged differently over time (`Replug`); a switch is read when the scheduler
gets to it (`ReadMachine`, `topology.store`), and `read[m]` keeps the cabling it
saw then, so `discover` joins reports of different ages.

| TLA+ | Code |
|---|---|
| `rows`, `mac`, `ignored`, `role`, `parent` | the `device` table |
| `auto` | the `map_auto` table; a row may hold no parent, after `SET NULL` |
| `snmp`, `read` | `snmp_device.device_id`; `snmp_neighbour` of each polled machine |
| `dismissed`, `mode` | the settings `map_dismissed` and `map` |
| `Discover`, `Suggested` | `discover`, `Discovery.suggestions` |
| `Pass`, `OneByOne`, `AutomaticPass` | `apply_automatic`: one device after the other, the top of the found map first (`accept_all` likewise) |
| `Place`, `Accept`, `AcceptAll`, `NotRight`, `SetMode`, `Wipe`, `Ignore`, `RemoveDevice`, `Merge` | the requests |

A bridge is taken to have learned every MAC behind each of its ports when it is
read; MACs that aged out are not modelled. A machine answers whole or not at all.
Requests and passes are one step each: places of two requests that overlap are
not checked against each other by the code either (a hazard without a property).
The limit of 1000 dismissed pairs is left out. A removed device is not found
again, and ids are not reused. Of a merge and of a removal only what they do to
the map is here; what they do to devices is in `Inventory`.

### Inventory

`Inventory.tla` is the `device` and `device_address` tables and everything that
writes them. The network is a box, or nothing, at each address; an address is on
a subnet SPARK sits on, where ARP shows a MAC, or across a router, where a device
is known by its address alone until a router's table says more. A sweep is
`BeginSweep` (it asks, and has its answers), `BeginRecord` (its second
transaction reads the device of the first answer) and `Record` (from the first
write, which takes the lock, to the commit; or `FailSweep`). `StoreReport` and
`FillInMacs` are `identity.py`; `BeginScan`/`RecordScan` the port scan;
`PostForm`, `SaveForm`, `Finish`, `DropCredential` the wizard. Names,
manufacturers and what a merge does to targets and services are left out.
`Doings` picks which of these meet in one behaviour.

Find SNMP is two things that can disagree, and `search` holds both: the setting
that says it runs (`running`, written by `mark_started` with the request or the
sweep), and its job (`job`), which only the scheduler's memory knows of and which
`RunFind` turns into a search, `EndFind` and `FailFind` end, `MissFind` drops
(the scheduler's `misfire_grace_time`) and `Restart` loses. `FindIsStale` is the
ten minutes after which the setting is not believed; that a search itself takes
less than those is assumed. `wish` marks the search that is the wizard's, and
`log.fate` notes a wish that was `refused` or `lost`, which the code does not.

### Snmp, History, Receiver, Integrations, Availability

These five share no state that matters to what is claimed of them, and
`MCCollect` checks them in one run, one at a time (`part`).

`Snmp.tla`: a device with one counter, which restarts, wraps and changes its
width, its row on the list, its job, its profile and one custom metric. A poll
reads (`BeginPoll`) and records (`RecordPoll`); `flow` is what really moved since
the reading that is the baseline. A request that changes the list commits
(`AddDevice` and the like), reads it back (`ReadList`) and sets the jobs
(`SetJobs`), and requests cross between these.

`History.tla`: the moments samples are of, and how many of them each bucket
holds. `RunRetention` is the nightly transaction in its order; one series stands
for a target's checks and each SNMP history, which use the same statements. What
is less than what is decided as SQLite does it, on text (`OrmBefore`,
`SqlBefore`).

`Receiver.tla`: `Feed` is a datagram as it arrives, `BeginTake`/`EndTake` a batch
(read, then write whole or not at all), `BeginClose`/`EndClose` the housekeeping.
A device may give up its address, be removed (which closes its incident) or come
back; a rule may be switched or deleted; SPARK may restart.

`Integrations.tla`: one credential, and one thing it watches, of each kind there
is (a drive and a notice of TrueNAS, a guest and a pool of Proxmox, the space and
the trend of a pool over SNMP). A check, or a page's Test, keeps the row it read
while it is on the network and then writes, and judges what came back. A storage
may also be listed as `inactive`, which is neither judged nor kept.

`Availability.tla`: outages, windows and checks as sets of minutes and spans (the
windows are at most `MaxWindows` of `Windows`, each lasting up to `Longest`);
`Figures` is what `availability.py` makes of a stretch of time, and the property
compares it with a count minute by minute. The checks are read at the three widths
the code keeps them in: one by one (`Latest` minutes), in buckets of `Width`, and
in wider ones of `Wide` beyond `Folding`; `BegunIn` compares a bucket's start with
a range's ends as SQLite does, on text. The nightly fold is taken to have just
run, and the hourly buckets' own deletion after two years is left out.

### SignIn

`SignIn.tla`: the account, its sessions and browsers, each with at most one
request in the air. A request that hashes is two steps: what it read before, and
what it writes after. A page that counts as activity writes first
(`BeginPage`: autoflush sends the session's UPDATE with the next query) and holds
the database's one write lock until it ends. A sign-in whose hash is of older
parameters (`dated`) verifies and hashes again, each on another thread, and writes
that hash of the password it read (`Rehashed`) over whatever is there by then. Only
password mode is modelled; that is how SPARK is set up unless a proxy signs people
in.

### Startup

`Startup.tla`: the files of the data directory (`spark.db`, its log, the key) and
what is in the database: which parts of the schema (`parts`), the version it is
stamped with, the copy of `spark.yaml`'s subnets, the key its secrets are sealed
with, and whether it holds two administrators (`twins`), as one of before version
`OneAdmin` may: migration 20 then stops every start, until a person deletes one
(`DeleteTwin`). The log matters because SQLite replays it into whatever database
it lies beside. Each statement that
SQLite keeps at once is a step: creating a table and adding a column, before the
first row is written. `CrashServer` and `CrashRestore` come between any two.

### Instances and proofs

`MCTargetMonitor`, `MCOutbox`, `MCServiceMap`, `MCAlarms`, `MCSignIn`,
`MCInventory` and `MCCollect` hold the definitions the `.cfg` files give the
constants, and the views. `MCServer` puts `Startup` beside the outbox of a server
that is up: they share no state, and as in `MCCollect` a behaviour is about one of
them (`part`). `TargetMonitorProofs`,
`OutboxProofs`, `AlarmsProofs`, `SignInProofs`, `StartupProofs`,
`InventoryProofs`, `ServiceMapProofs` and `CollectProofs` (of `Snmp`, `History`,
`Receiver`, `Integrations` and `Availability`) hold the theorems (section 4).


## 3. What is checked

| Run | Question | Properties |
|---|---|---|
| `TargetSchedule` | one target on its schedule, thresholds 1 and 2 edited at any time, pauses, restarts, fair scheduling | `TypeOK`, `JobsMatchDatabase`, `DownIsEarned`, `RecoveryIsEarned`, `OutageIsDeclared`, `RecoveryIsDeclared` |
| `TargetRaces` | two checks of one target in flight, racing pauses, resumes, deletes and restarts | `OneOpenIncident`, `DownIsRecorded`, `EndedStaysEnded` |
| `TargetDependencies` | two targets, the second below the first on the map, either may depend on the other | `AlertsMatchIncidents`, `NoAlertRefused` |
| `Server` | a new installation or one of any of three schema versions, the older ones with one administrator or two, two restores, one backup kept, two crashes, fair; and the outbox of a server that is up: two alerts on one channel that combines, everything may fail, one loss of a dispatch's answers, fair | `SchemaIsWhole`, `OldDataIsKept`, `ComesUp`, `SentOnceIfRecorded`, `SettledStaysSettled`, `EveryAlertSettles` |
| `OutboxChannels` | two channels, one that combines and one that does not, which take different alerts; one loss of a dispatch's answers | `FateIsTold` |
| `MapAutomatic` | a gateway, two switches, an access point and a phone, replugged once among three cablings and read one by one; two changes by a person, automatic mode among them | `ReportIsTrue`, `NoLoops`, `PassFollows` |
| `Alarms` | a gateway and a device below it, whose rules, silences, outages and internet check are watched in pairs under a one-off and a weekly window | `HeldHasItsWindow`, `ToldIsOnThePage`, `RefinesAlarm`, `NothingSaidWhileHeld`, `LeftoversAreTold` |
| `SignIn` | two browsers, three session tokens, two passwords, two timeouts | `OneAdministrator`, `SessionsAreCurrent`, `EndedStaysEnded` |
| `Inventory` | a router and another box on two addresses, one of them across a router, up to three device rows; what meets in a behaviour is one of seven scopes, one of them the wizard's forms and wish for Find SNMP, with two sweeps, searches pressed for, and restarts | `OneRowPerMac`, `NoTwins`, `MergedIsRecorded`, `FindIsNeitherLostNorRepeated` |
| `Collect` | polling, history, device events, APIs, availability: one of them in each behaviour | `RateIsReal`, `JobsFollowTheList`, `HistoryAddsUp`, `QuietIsTrue`, `AlertIsWatched`, `ClearedIsHeard`, `AvailabilityIsTrue` |
| `HistoryLost`, `SignInRehash` | statements of the repository that the code does not keep (section 5) | `NoSampleIsLost`, `ChangedPasswordStays` |

What the properties say that is not plain from their names:

- `AlertsMatchIncidents`: an alert queued about a target is about an outage that
  nothing else explains, and a recovery is about one that was told and ended by
  recovering. `RefinesAlarm` says the like of everything that can alert.
- `HeldHasItsWindow` and `LeftoversAreTold` together: what a window keeps back is
  never without a window that will tell it, and is told again and again.
- `NothingSaidWhileHeld`: no message about a device is queued while it is muted,
  under a window, or alerting is off, by whatever step. It names two exceptions
  the code has (section 5).
- `SessionsAreCurrent`: every session that is good was signed in with the
  password in force, but for one whose sign-in was verifying while the password
  changed, and those that such a sign-in left behind when it put the older
  password back.
- `EndedStaysEnded` (SignIn): a session that ended does not come back, whoever
  cleans up and whatever the timeout is set to, but for one that a page is
  recording the use of at that moment.
- `OldDataIsKept`: a database SPARK was up on is in place or set aside, and as
  long as no restore died, with its own log and key.
- `ComesUp`: again and again SPARK is up, however often it dies, but for a first
  start that died while it made the tables, a restore that died, and two
  administrators that wait for a person to choose. `SchemaIsWhole`: it is up on
  the whole schema only, which holds one administrator.
- `NoTwins`: no box has two rows on one address; exempt is what two overlapping
  sweeps make of a box whose MAC neither saw. `MergedIsRecorded`: the next sweep
  records a merged device's addresses with that device.
- `FindIsNeitherLostNorRepeated`: the wish for Find SNMP is in its setting until a
  sweep has recorded, then with the one search there is, and then that search has
  ended; or it was refused or lost, which is noted (exempt: forms that cross).
- `RateIsReal`: a rate stored is one that could have moved since the reading
  before, through wraps, restarts, changes of width and gaps.
- `HistoryAddsUp`: for each hour that has not expired, a chart shows as many
  samples as were taken, in whatever table they are by now.
- `AlertIsWatched`: an alert that stands is about something that is still looked
  at, by a credential that still is. `ClearedIsHeard`: one clears only when the
  box said the trouble is over, or it is no longer there; or it is a storage that
  is not active.
- `AvailabilityIsTrue`: of any range, the figures count each minute of an outage
  once, as down, planned or unreachable, whether anybody watched or not and however
  outages and windows overlap. Of a range that was checked throughout, all the rest
  is judged while its checks are kept one by one; of older ones, the rest but for
  one wide bucket at most, which the comparison of text leaves out at the start
  and takes in at the end.

**Bounds, and why they are enough.** `Targets` and `IncidentIds` bound ids; three
incidents of one target in `TargetSchedule` leave room for an outage, its end,
and another twice over, after which the module stops opening incidents (the
state is kept by then, not lost: checks that find nothing new go on). `Cap`
equals the largest threshold: a counter beyond it makes no difference to any
test. Thresholds 1 and 2 separate "at once" from "in a row"; more only lengthen
the run. Two runs in flight are the smallest race, and a third check would be a
second one by hand. Two targets are the smallest dependency. In the outbox two
alerts with `BatchAt` 2 reach a burst, a digest and single messages,
`MaxAttempts` 2 has one retry and one giving up, and one lost dispatch is enough
for a message to come twice. On the map, three cablings (a chain, the switches
swapped, both switches on the gateway) and one change between them give every
mixture of old and new tables that two switches can have; LLDP is spoken by one
switch and the access point only, so that it agrees with some tables and
contradicts others. The places a person chooses turn the map upside down (the
gateway below a switch, the upper switch below the lower), because those are the
ones automatic mode can collide with. The merge in `MapAutomatic` is of a
duplicate that nothing is connected to; merges of devices above and below each
other break `NoLoops` (section 5), so it is claimed without them.
`PassFollows` is claimed for maps a person has no say in: a place set by hand is
not moved, and may stand in the way of others.

In `Alarms`, two devices, one below the other, and two windows, one that takes in
what is below and one that comes back, give every overlap of two windows over a
device; the pairs are those that look at each other. `SignIn` has one more token
than browsers, so that a session can outlive its cookie; two browsers are the
smallest race. `Startup` has three schema versions (one migration to run, and
two), a restore of a restored installation, and a crash in each of them; of two
backups only the newer is kept, so that the older one has to go. In
`Inventory` the three rows are two boxes and a twin; six scopes, each with the
sweeps, cover the pairs of operations that write the same rows. The seventh, the
wizard's, is given one of the two networks: its wish meets sweeps, forms, searches
and restarts, not devices. In `Collect`: a
counter that wraps at 3 with at most 1 moved in a unit of time keeps a wrap and a
restart apart for two units and not for three, as the code's limit of one wrap
does; five-minute buckets are two moments and hours four, the settings are such
that each fold has something to do on each of three nights; a queue of two,
batches of two and a share of two meet each limit with three datagrams; two weeks
of three minutes give every overlap of two outages with two windows of those in
`FewWindows`, once or weekly, shorter than a week and longer than a minute, and with the checks
of one minute kept one by one and narrow buckets for two, a range of five minutes
has checks of each of the three widths.

`ManualChecks` and `Overlap` are assumptions a run makes, not bounds:
`DownIsEarned`, `RecoveryIsEarned` and `JobsMatchDatabase` are claimed for checks
on the schedule and a person who waits for one page before the next click. With
a Check now beside the schedule, two checks count from the same row and one
count is lost, or a count from before a success is written after it; the code
has this behaviour, and `state.py`'s "consecutive" is then only nearly true. The
invariants of `TargetRaces` are checked, and proved, without that assumption.
Where a property of another module exempts a race (`crossed`, `overtaken`,
`split`, `late`), the variable is raised by exactly the steps of that race, and
section 5 says what the code does in it.

**Views and symmetry.** The views drop history variables that no guard reads and
no property of that run mentions; `Collect` drops what the receiver counts, which
only a page shows. `RunSymmetry` and `Symmetric` are used without liveness.

**Deadlock.** `MapAutomatic` and the runs of `MCCollect` do not check it: their clocks
and changes are bounded, and the behaviour ends where the bound does.

**Fairness.** `TargetMonitor`: requests call the scheduler in the end (the code
does it without waiting for anything); the scheduler keeps firing its jobs
(weak); a check that could commit its result again and again does so (strong: a
restart or a locked database may undo any one check, and neither goes on for
ever). `Outbox`: the dispatch job keeps running, also outside the quiet hours
(strong, as they come and go); messages are answered or time out (every client
has a timeout); records are written; waits and quiet hours end. `Alarms`: the job
that looks for ended windows keeps running. `Startup`: a server that stopped is
started again (`restart: unless-stopped` in the compose file), a restore that
began is carried on, and there are only so many crashes. Nothing a person does is
assumed to happen.


## 4. What is proved

The proofs are checked by TLAPS, for all values of the constants that satisfy the
assumptions of the module they are about: `ConstantsAssumption`, or
`SnmpAssumption`, `HistoryAssumption`, `ReceiverAssumption`,
`AvailabilityAssumption`, `StartupAssumption`, `TopologyAssumption` and `ServiceMapAssumption` (ids are
numbers, sets that are counted are finite, thresholds, intervals and limits are
positive, a machine on the SNMP list is a device, an hour is a whole number of
five-minute buckets, raw samples are kept no longer than those). TLC evaluates the same assumptions in every run. Each proof module `EXTENDS` its module, shows that
`Init` gives an inductive invariant and that every action keeps it, one lemma per
action and one step per conjunct that the action touches, and draws the theorems
from it.

| Module | Theorems | Inductive invariant |
|---|---|---|
| `TargetMonitorProofs` | `TypeCorrect`, `OneOutageAtATime` (`OneOpenIncident`), `DownHasItsRecord` (`DownIsRecorded`), `HistoryIsKept` (`EndedStaysEnded`) | `TypeOK`, `OneOpenIncident`, `DownIsRecorded` |
| | `AlertsAreBorneOut` (`AlertsMatchIncidents`), `AlertsGetThrough` (`NoAlertRefused`) | those, the two, `DeletesAllowed` |
| | `JobsAreRight` (`JobsMatchDatabase`) | those of the first row, `JobsFollow` |
| | `DownHasItsFailures` (`DownIsEarned`), `RecoveryHasItsSuccesses` (`RecoveryIsEarned`) | those of the first row, `CountsAreCovered`, `FlightIsAlone` |
| `OutboxProofs` | `TypeCorrect`, `SentOnce` (`SentOnceIfRecorded`), `TriesAreLeft`, `SettledIsKept` (`SettledStaysSettled`) | those, `Recorded`, `Heard`, `PlanIsOpen`, `IdleIsEmpty`, `Unsaid` |
| | `FateIsAlwaysTold` (`FateIsTold`) | those, `NoteIsSummary` |
| `AlarmsProofs` | `TypeCorrect`, `AlarmsRefineAlarm` (`RefinesAlarm`), `HeldIsNotForgotten` (`HeldHasItsWindow`), `PageAgrees` (`ToldIsOnThePage`), `QuietIsKept` (`NothingSaidWhileHeld`) | those, `ToldStands`, `OutagesStand`, `HeldIsLeft`, `AbsentIsDone` |
| `ServiceMapProofs` | `MapTypeCorrect`, `MapHasNoLoops` (`NoLoops`) | `TypeOK`, `Grounded` |
| | `OnePassFollows` (`PassFollows`) | `TypeOK` |
| `InventoryProofs` | `InventoryTypeCorrect`, `OneRowForAMac` (`OneRowPerMac`), `NoTwinsAreMade` (`NoTwins`), `FindIsDoneOnce` (`FindIsNeitherLostNorRepeated`), `MergedStaysMerged` (`MergedIsRecorded`) | those, `HitsKnown`, `JobRuns` |
| `CollectProofs` | `SnmpTypeCorrect`, `RatesAreReal` (`RateIsReal`) | those, `PollIsCurrent`, `PollsInOrder`, `RestartsShow`, `BaselineHolds` |
| | `JobsFollow` (`JobsFollowTheList`) | `TInv`, `JobsAreDue` |
| | `HistoryTypeCorrect`, `EverySampleCountsOnce` (`HistoryAddsUp`) | `HistoryTypeOK`, `RawIsWhole`, `FivesCount`, `HoursCount`, `NothingIsLost` |
| | `OutagesDoNotOverlap`, `AvailabilityIsRight` (`AvailabilityIsTrue`) | `AvailabilityTypeOK`, `OutagesApart` |
| | `ReceiverTypeCorrect`, `QuietIsSaidTruly` (`QuietIsTrue`) | `ReceiverTypeOK`, `QuietIsKnown` |
| | `IntegrationsTypeCorrect`, `AlertsAreWatched` (`AlertIsWatched`), `AllClearIsHeard` (`ClearedIsHeard`) | those, `RowsInHand`, `AsksTheTrusted`, `StoredIsHeard`, `StoredIsSaid` |
| `SignInProofs` | `TypeCorrect`, `OneAdministratorOnly` (`OneAdministrator`), `SessionsOfThePassword` (`SessionsAreCurrent`), `EndedIsKept` (`EndedStaysEnded`) | those, `CurrentRows`, `NobodyYet`, `AttemptsLeft` |
| `StartupProofs` | `TypeCorrect`, `SchemaWhole` (`SchemaIsWhole`), `OldDataStays` (`OldDataIsKept`) | `StartupTypeOK`, `LockTells`, `StageIsDone`, `DbIsSound`, `RestoreIsAt`, `AllIntact`, `ServedIsThere` |

Some theorems have a hypothesis beside the specification, and it stands in their
statement: it is what the code needs, and section 5 says what happens without
it. `Removable = {}` (nothing is deleted): `AlertsGetThrough`,
`DownHasItsFailures` and `RecoveryHasItsSuccesses`; `AlertsMatchIncidents` says it
itself. Checks on
the schedule only (`~ManualChecks`): the last two. Requests that do not overlap,
and deletes whose commit does not fail (`~Overlap`, `NoFailedDelete`):
`JobsAreRight`. No merge whose kept device is below the other (`MergesUp`):
`MapHasNoLoops`. What the reports put on top hangs off nothing (`TopsAreFree`), and
no chain they give is as long as `MaxDepth` (`ChainsAreShort`): `OnePassFollows`.
Both hold in every state of `MapAutomatic` that `PassFollows` speaks of. Without
the first, a pass leaves the top where it was, as it gives places and takes none
away; without the second, devices beyond `MaxDepth` count as equally deep, and go
in the order of their ids.

**Targets.** A check decides from a row that may be stale, so that a target is
down with no incident is excluded only because every step that writes "down"
either finds an open incident or opens one, and every step that closes incidents
writes another status in the same transaction; that a second incident is not
opened rests on `OpenOf(t) = {}` being read under the write lock. `WriteBack`
writes the status only if the check changes it: a check that read "down" and
still concludes "down" writes nothing, so a pause that came in between keeps its
status, and `DownIsRecorded` survives although the check is stale.
`AlertsMatchIncidents` needs one more fact, that nothing is deleted
(`Removable = {}`): ids of deleted incidents come back (section 5). That jobs match
the database is not inductive while a request is between its commit and its call:
`JobsFollow` says what each half-done request has still to do, and that it is just
what the job lacks. That a target is called down on failures in a row rests on two
facts about counters: they never run ahead of the results on record
(`CountsAreCovered`), and the row a check holds still has the counters it read, or
zeros (`FlightIsAlone`); the second needs a check to be alone with its target.

**Outbox.** The second transaction of a dispatch writes what the first one
planned, seconds later, without reading the rows again. That it never rewrites
what was settled rests on what the dispatch holds in between: its plan and its
answers name open deliveries only (`PlanIsOpen`, `Heard`), no message is in both,
and between dispatches both are empty (`IdleIsEmpty`). `Recorded` is the heart of
`SentOnce`: what arrived has its answer in hand or its record made, or it is
`unsure`, which only `LoseAnswers` makes it. An alert's own status is written by
`_summarise` on each path that moves a delivery, and by no other; `NoteIsSummary`
is what that keeps.

**Alarms.** That `Alarms` implements `Alarm` is shown per alarm: each action is
one of the moves of `Moves` for every row (it fires, is told of, ends, or stays as
it is, with what is said). This needs `ToldStands` only. That what is held is not
forgotten needs more: `finish` looks for what to tell by asking for incidents
that were not told and are not explained, so `HeldIsLeft` says that everything
held is found by that question, and `OutagesStand` that an outage with no
incident is never held.

**The map.** That parents make no loop is stated without walking: every nonempty
set of devices has one that hangs off none of the others (`Grounded`). A walk
that cannot leave a set would visit more devices than there are, so `can_parent`'s
walk, which gives up after as many steps, sees every device above; and hanging a
device below one that is not below it keeps the map grounded. From there it is
kept one placing after another, in whatever order (`OneByOne`), and by a removal,
which takes links away. A merge joins two devices; that keeps it if the kept one
is not below the other.

That a pass follows the reports rests on the order of it. The places that are
found make no loop, because `WithoutLoops` drops what never ends
(`FoundIsGrounded`); of two of them the upper is less deep (`AboveIsLess`), and
`InOrder` takes each once, the less deep first (`OrderIs`). So when a device's turn
comes, what is above its new place is already where it was found
(`PlacedFollows`): the device, which is not among that, cannot be above it, and
`can_parent` has nothing to refuse. Taken in another order it can, which is the
mutant of the run.

**Devices.** A sweep writes its answers one after the other, each against the rows
the one before left, and the proofs carry what is true of one over all of them by
induction over the addresses. Only the first was matched before the transaction
held the write lock; what it matched is one row, of that MAC or bare at that
address (`HitsKnown`). If that still holds no twin is made; if another sweep
changed it meanwhile, the step is `overtaken`. Where the wizard's wish is rests on
the setting and the job of a search (`JobRuns`): one with a job says that it runs,
so neither a sweep nor a button takes the place of the one that is the wizard's.

**Rates.** A rate is the difference of two readings. `BaselineHolds` says what the
last reading is: the counter less what has moved since, in as many bits as it had,
unless the device restarted; `RestartsShow`, that a restart shows in the uptime by
more than the slack of any interval can hide, or the reading is marked `blind`.
A modulus hides whole wraps only (`WrapsOnce`), so the difference the code stores
is never more than what moved.

**History.** That a chart adds up is a statement about sums over sets of buckets.
`SumCounts` turns it into one about sets: if a bucket's number is the size of a
set, and the sets of different buckets are apart, the sum is the size of their
union (shown with the least number of buckets for which it would fail). What
remains is where a sample is: nothing that was taken and has not expired is
nowhere (`NothingIsLost`); the raw samples of a five-minute bucket are there all
or not at all (`RawIsWhole`), so that none is counted raw and folded; a row of
either table says what was taken in its bucket (`FivesCount`, `HoursCount`), and
an hour that has a row has nothing left elsewhere that a chart would add to it.
The nightly transaction keeps this because each of its cutoffs is the start of
a bucket of the table it fills. The exception is the hour the text comparison
splits, which the invariant names as the property does.

**Availability.** The code merges the occurrences of all windows into stretches
before it counts. `MergedCovers` and `MergedApart` say that the stretches are apart
and cover the same minutes as the windows did: each group ends where a gap
begins, and the first piece after the gap starts the next. `OccurrencesAre` says
that the occurrences are those a window has minute by minute, weekly ones
included. Outages of one target do not overlap (`OutagesApart`, the only fact that
depends on how the state came about). Each figure is then a sum over stretches
that are apart, which is the number of their minutes (`SumCounts` again). For what
is judged, `MinutesAreInBuckets` takes each minute of a range that was checked
throughout to the one bucket it is counted in, and `WatchedIs` adds up: nothing is
missing but the bucket the range begins with, and nothing of it is counted beyond
the range's length.

**Jobs of polling, device events.** `JobsAreDue` follows each request from its
commit to its call, as `JobsFollow` does for targets. `QuietIsKnown`: what is
stored of a rule's last match is the last match, and what housekeeping is about to
write was so when it read, unless an event crossed it.

**APIs.** A check judges the row it read. As long as nothing crossed it that is the
row there is (`RowsInHand`), and what is stored of the thing is what the box said
last (`StoredIsHeard`), so an answer that leaves the thing out is judged on the
box's last word. The one way out that is not the box's word, a storage that is
not active, stands in the statement of `AllClearIsHeard`.

**Sign-in.** Three requests hash a password between what they read and what they
write. Across that gap only facts about rows hold: a row that is there was opened
with the password in force, or `late` (`CurrentRows`); before the set-up no
session is open and no other request can be in the air (`NobodyYet`).

**Start and restore.** The lock keeps the server and `spark-restore` apart
(`LockTells`), so each is followed from stage to stage (`StageIsDone`,
`RestoreIsAt`). A restore takes the files apart: `AllIntact` follows what it has
taken out as one folder (`Leaving`), whichever of its files are still in place,
and what comes in as another (`Arriving`). A database's version stands for parts
it has (`DbIsSound`), even one whose first start was cut short, because the
version is written after the last table. `SchemaIsWhole` and `OldDataIsKept`
follow from these at once.

**Only model-checked.** Liveness under fairness and `ENABLED` are beyond the
prover's reach: `ComesUp`, `EveryAlertSettles`, `LeftoversAreTold`,
`OutageIsDeclared`, `RecoveryIsDeclared`. `ReportIsTrue` compares two walks, one over
the cabling and one over what is inferred from every table, through four rules
of which later ones override earlier ones; it is checked on the cablings of
`MapAutomatic`, and its hypotheses for cablings in general (which ties the counts
of `Deepest` may have, who speaks LLDP) are not worked out.

## 5. Where the code and its words differ

**With a run.** `HistoryLost`: `NoSampleIsLost` does not hold. The nightly fold
compares `bucket_start` with a cutoff as text (`retention.py:113`). SQL wrote
five-minute buckets as `2026-01-01 05:00:00`; the cutoff reaches SQLite as
`2026-01-01 05:00:00+00:00`, which is longer and so greater. The five-minute
bucket that begins exactly at the cutoff is folded into its hour by itself; the
next night the other eleven meet an hourly bucket that is there, are ignored by
`INSERT OR IGNORE`, and deleted. `retention.py:51` says that cutoffs are aligned
so that this cannot happen; the test at `spark/tests/test_retention.py:255`
covers the first fold only, whose rows the ORM wrote. `HistoryAddsUp` makes the
claim that does hold, of everything but that hour.

`SignInRehash`: `ChangedPasswordStays` does not hold. A sign-in whose hash is of
older parameters hashes the password it verified again and writes that by id
(`auth.py:336`); a change or reset of the password that commits meanwhile is
undone, although `auth.py:296` tells the administrator that the old password no
longer works. Only a release that changes the parameters can bring it about.

The rest was met while modelling. The models contain the behaviour; where it
breaks a property, the property or its run exempts it by name.

*Targets and alerts.*

- A pause loses against a check in flight: `run_target` looks at `enabled` before
  the probe only, so a check that read the target first commits DOWN and a new
  incident after the pause. The paused target is shown as down with an outage
  that grows, which `engine/state.py:190` says pausing prevents, and hides what
  depends on it (`alerts.py:350` and `engine/state.py:223` look at the status).
- A dedupe key outlives its incident: deleting the target with the newest
  incident lets SQLite give the id out again, and the next outage's key
  `incident:<id>:down` is taken.
- A rate limit is kept per delivery, not per channel: only what was due in the
  dispatch that met the 429 waits.
- "Is back up" can overtake an "is down" that backs off. `sync_jobs` says it is
  "called at startup and after any change to targets" and is called at startup
  only. A delete whose commit fails leaves the target without its job.

*Maintenance and the internet.*

- Taking away a window that is on tells what it held after asking `covering`,
  which names one window; what another window also covers is told then, although
  `maintenance.py:20` says the last one decides. A weekly window whose last end
  is dealt with a week late does the same. These are the two exceptions of
  `NothingSaidWhileHeld`.
- Removing a window that is over but not dealt with loses what it held
  (`maintenance.py:232`).
- An internet alarm that the gateway's target explained is not told when the
  gateway recovers and the line stays down. What a window held about a device
  that is moved out of its reach meanwhile is not told at its end.

*The map.*

- A merge can make a loop: `merge.apply` moves everything connected to the other
  device onto the kept one, the kept one included. `hierarchy.py:8` says cycles
  cannot be saved; walks stop at the repeat.
- "Not right" does not always take back: a placed device whose role is unset is
  still a suggestion, for its role; the answer is noted and the device stays.
- A place a person accepts, or sets back to what automatic mode had given, is
  automatic's again, although `topology.py:37` says it is never touched. A device
  a person took off the map is placed again when the device it was under is
  removed, because both columns are then NULL. An LLDP neighbour is matched by
  name to ignored devices, which `topology.py:354` says are never there.

*Sign-in, start and restore.*

- A sign-in that is verifying while the password changes is let in afterwards
  (`late`), and a session that times out while a page is recording its use comes
  back.
- With two administrators, which versions before migration 20 could make, every
  start ends at that migration (`db.py:373`) until one is deleted by hand. This is
  meant, and `ComesUp` names it.
- `db.py:546` looks for the user table alone: a first start that dies between that
  table and the last one leaves a database that no later start completes
  (`CutShort`).
- A restore cut short between two files leaves the new ones beside the old
  (`disturbed`); `cli.py:361` prints "Nothing was changed." also then. A server
  started during a restore only warns (`main.py:156`); the model does not start
  one.

*Devices.*

- Two sweeps that overlap can each make a row for a box whose MAC neither saw
  (`discovery/store.py:83`).
- A device without a MAC that is kept in a merge with one that has its MAC, at an
  address SPARK is attached to, has its primary address moved by the next sweep,
  and its own comes back as a new device.
- The sweep takes the wizard's wish out of its setting, and only then asks for a
  search, which is refused while one runs (`discovery/runner.py:112`);
  `web/routes_welcome.py:405` says that Find SNMP, if asked for, runs once the scan
  has found something to ask. The setting of a search that a restart cut off
  refuses it too, for ten minutes. A search that was granted is lost if SPARK
  restarts before it ends. `FindIsNeitherLostNorRepeated` counts these.
- The first run's `LINK_FLAG` stays when a credential is edited in Settings. The
  wizard's form reads and writes its state whole, so two at once lose or repeat
  Find SNMP (`crossed`).

*Polling and history.*

- An interface missing from the first answer after a restart makes the reset of
  its 32-bit counter look like a wrap; a second restart within the 30 seconds of
  slack, or between reading the uptime and the counters, is not noticed.
- A Test in flight while the profile changes writes what the old credentials gave
  (`snmp_config.py:316`); a metric whose OID changes during a poll shows the old
  OID's value; two requests that cross between reading the list and setting the
  jobs leave jobs unlike the list.
- A chart that begins exactly at a bucket leaves that bucket out, by the same
  comparison of text (`snmp_history.py:180`). Retention takes the clock to move
  forward.
- `availability.py:143` compares a bucket's start, `2026-01-01 05:00:00`, with a
  range's, which is bound with `.000000` and so greater: the bucket that a range
  begins with is left out, and one that begins when it ends is taken in. This
  month begins with a bucket. `_watched` says it is of all checks in the range;
  `AvailabilityIsTrue` says what is true of them.
- An outage that stays open while SPARK is off counts as down, all of it;
  `availability.py:16` says that such time is neither up nor down, and lines 7 and
  8 that an open outage counts up to now. `AvailabilityIsTrue` takes the latter.
- A bucket with one sample counts as watched whole.

*Device events and APIs.*

- An address remembered for a minute may name a device that was removed since: the
  whole batch of up to 200 is lost, uncounted. A rule's id used again before the
  job that expires incidents continues the old rule's. An event stored while that
  job runs is answered by "quiet".
- A storage that is listed and not active is passed over before it is put among
  those seen (`proxmox_health.py:202`), so its "is full" alert is dropped as of one
  no longer listed, and sent again when it is active; line 14 says it stands until
  the storage is 5 under. `ClearedIsHeard` names the case.
- A check that judges a row edited meanwhile lets an alert about the old box fire
  and stand (`credentials.py:194`; `crossed`). A row deleted meanwhile loses the
  rest of the round. `add` writes before it awaits the network, and holds the
  write lock so long.
- A Proxmox check writes the credential's options whole, and may undo a watch
  chosen while it ran. A part that was not answered keeps its last reading, which
  is judged again, so that "two checks in a row" (`proxmox_health.py:7`) can be
  met by one answer, although line 20 says such a part is not decided on.
- The trend's two reads are of the same hourly samples. Alerts of pools and drives
  that are no longer listed are not dropped by `storage.py`.

## 6. What is left to do

In this order.

1. **ServiceMap**, its second half: requests that overlap, ageing MAC tables,
   removed devices found again (with `Inventory`).
2. **Alerting end to end**: `TargetMonitor` and `Alarms` composed with `Outbox` on
   the `notification` table, against an abstract "decided, then delivered or given
   up".
3. **Proofs**: `ReportIsTrue`, from what a bridge learns on a tree.
4. What a merge does to targets, services and credentials; the watching of guests
   during a Proxmox check; the limiter of heartbeats.

## 7. Not modelled, and why

- Protocols, parsers and encoders (SNMP, ASN.1, SMTP, HTTP, TLS, syslog): input
  and output, with unit tests of their own. A probe, a walk or an API is any of
  its outcomes.
- Pages, forms and drawing (`diagram.py`, `servicemap.py`, templates): they render
  state. The requests that change what a module keeps are actions of it.
- Live events to open pages (`events.py`): a lost event costs one late refresh.
- `agents.py`: nothing in the program calls it.
- UniFi, Docker and Hermes: they show what they read and alert nobody.
- Sign-in by a proxy's header, and the archive format and passphrases of backups:
  each is one decision over its input.
- Wall-clock arithmetic (time zones, daylight saving, jitter, misfire grace):
  times are an order of events, except in `History` and `Availability`, where the
  arithmetic is the matter.
