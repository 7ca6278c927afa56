---------------------------- MODULE TargetMonitor ----------------------------
(***************************************************************************)
(* Target checks: hysteresis, incidents, and the alerts they decide.       *)
(*                                                                         *)
(* A check reads the target's row, asks the network (seconds), and writes  *)
(* what it concluded in one transaction, from the row as it read it        *)
(* (engine/runner.py, engine/state.py, alerts.on_target_transition).       *)
(* Meanwhile people create, edit, pause, resume and delete the target, or  *)
(* press "Check now" (web/routes_targets.py), a heartbeat is pinged        *)
(* (web/routes_heartbeat.py), and the process may be killed and restarted. *)
(*                                                                         *)
(* One action is one database transaction, or one call on the scheduler.   *)
(* SQLite has a single writer and takes its lock at the first write, which *)
(* in apply_outcome comes before the open incident is looked up: from that *)
(* write to the commit nobody else writes.  The read before the network    *)
(* call holds nothing, so what it read may be stale by then.  SQLAlchemy   *)
(* writes back only the columns that differ from what was loaded.          *)
(***************************************************************************)
EXTENDS Naturals

CONSTANTS
  Targets,        \* ids a target row may have (bound)
  IncidentIds,    \* ids an incident row may have (bound)
  Runs,           \* checks that can be in flight at once (bound)
  Thresholds,     \* values failure_threshold and recovery_threshold take
  Cap,            \* counters saturate here; no threshold is larger
  Above,          \* Above[t]: targets of the devices above t's on the service map
  ManualChecks,   \* whether checks also run outside the schedule (run_now, a ping)
  Overlap,        \* whether requests about one target overlap
  Removable       \* targets that may be deleted

NoTarget == 0

ASSUME ConstantsAssumption ==
  /\ Targets \subseteq Nat \ {NoTarget}
  /\ IncidentIds \subseteq Nat \ {0}
  /\ Cap \in Nat \ {0}
  /\ Thresholds \subseteq 0..Cap
  /\ Above \in [Targets -> SUBSET Targets]
  /\ ManualChecks \in BOOLEAN
  /\ Overlap \in BOOLEAN
  /\ Removable \subseteq Targets

VARIABLES
  live,      \* ids in the target table
  row,       \* the target table
  streak,    \* the newest run of equal verdicts in the check_result table
  incident,  \* the incident table; state "none" is an id with no row
  queued,    \* dedupe keys in the notification table: <<incident id, kind>>
  refused,   \* keys enqueue() was asked for and found already there
  flight,    \* checks between reading the row and writing the outcome
  job,       \* targets the scheduler has a job for
  follow     \* requests half done: a call on the scheduler, or a delete, to come

vars == <<live, row, streak, incident, queued, refused, flight, job, follow>>

Status   == {"unknown", "up", "degraded", "down", "paused"}
Observed == {"up", "degraded", "down"}
Closed   == {"recovered", "paused", "superseded"}
Kinds    == {"down", "up"}
Calls    == {"schedule", "unschedule"}
Verbs    == Calls \cup {"delete"}

Row == [enabled   : BOOLEAN,
        status    : Status,
        fails     : 0..Cap,
        succs     : 0..Cap,
        failAt    : Nat,
        recoverAt : Nat,
        dependsOn : Targets \cup {NoTarget}]

NoRow == [enabled |-> FALSE, status |-> "unknown", fails |-> 0, succs |-> 0,
          failAt |-> 0, recoverAt |-> 0, dependsOn |-> NoTarget]

Flight == [target : Targets \cup {NoTarget}, by : {"schedule", "hand"}, row : Row]
Idle   == [target |-> NoTarget, by |-> "schedule", row |-> NoRow]

Incident == [state      : {"none", "open"} \cup Closed,
             target     : Targets \cup {NoTarget},
             suppressed : BOOLEAN]
NoIncident == [state |-> "none", target |-> NoTarget, suppressed |-> FALSE]

Tail0 == [down |-> 0, up |-> 0]

TypeOK ==
  /\ live \subseteq Targets
  /\ row \in [Targets -> Row]
  /\ streak \in [Targets -> [down : 0..Cap, up : 0..Cap]]
  /\ incident \in [IncidentIds -> Incident]
  /\ queued \subseteq IncidentIds \X Kinds
  /\ refused \subseteq IncidentIds \X Kinds
  /\ flight \in [Runs -> Flight]
  /\ job \subseteq Targets
  /\ follow \subseteq Targets \X Verbs

Init ==
  /\ live = {}
  /\ row = [t \in Targets |-> NoRow]
  /\ streak = [t \in Targets |-> Tail0]
  /\ incident = [i \in IncidentIds |-> NoIncident]
  /\ queued = {}
  /\ refused = {}
  /\ flight = [r \in Runs |-> Idle]
  /\ job = {}
  /\ follow = {}

-----------------------------------------------------------------------------
(* The state machine of one target, as a function of the row a check read. *)

Bump(n) == IF n < Cap THEN n + 1 ELSE Cap

\* max(1, threshold): a stored threshold of zero counts as one.
Needed(n) == IF n < 1 THEN 1 ELSE n

\* A mutant: one good answer ends an outage.
NextStatusAtOnce(s, obs) ==
  IF obs = "down"
  THEN IF s.status # "down" /\ Bump(s.fails) >= Needed(s.failAt) THEN "down" ELSE s.status
  ELSE obs

NextStatus(s, obs) ==
  IF obs = "down"
  THEN IF s.status # "down" /\ Bump(s.fails) >= Needed(s.failAt)
       THEN "down" ELSE s.status
  ELSE IF s.status = "down" /\ Bump(s.succs) < Needed(s.recoverAt)
       THEN "down" ELSE obs

WentDown(s, obs)  == s.status # "down" /\ NextStatus(s, obs) = "down"
Recovered(s, obs) == s.status = "down" /\ NextStatus(s, obs) # "down"

\* Mutants: a success leaves the failures counted; a success takes one failure
\* off; successes are never counted.
WriteBackKeepsFailures(s, obs, current) ==
  [current EXCEPT
     !.fails  = IF obs = "down" THEN Bump(s.fails) ELSE @,
     !.succs  = IF obs # "down" THEN Bump(s.succs) ELSE IF s.succs # 0 THEN 0 ELSE @,
     !.status = IF NextStatus(s, obs) # s.status THEN NextStatus(s, obs) ELSE @]
WriteBackTakesOneOff(s, obs, current) ==
  [current EXCEPT
     !.fails  = IF obs = "down" THEN Bump(s.fails) ELSE IF s.fails # 0 THEN @ - 1 ELSE @,
     !.succs  = IF obs # "down" THEN Bump(s.succs) ELSE IF s.succs # 0 THEN 0 ELSE @,
     !.status = IF NextStatus(s, obs) # s.status THEN NextStatus(s, obs) ELSE @]
WriteBackNoSuccesses(s, obs, current) ==
  [current EXCEPT
     !.fails  = IF obs = "down" THEN Bump(s.fails) ELSE IF s.fails # 0 THEN 0 ELSE @,
     !.status = IF NextStatus(s, obs) # s.status THEN NextStatus(s, obs) ELSE @]

\* The UPDATE a check sends: only the columns that differ from what it read.
WriteBack(s, obs, current) ==
  [current EXCEPT
     !.fails  = IF obs = "down" THEN Bump(s.fails) ELSE IF s.fails # 0 THEN 0 ELSE @,
     !.succs  = IF obs # "down" THEN Bump(s.succs) ELSE IF s.succs # 0 THEN 0 ELSE @,
     !.status = IF NextStatus(s, obs) # s.status THEN NextStatus(s, obs) ELSE @]

-----------------------------------------------------------------------------
(* Incidents and alerts. *)

OpenOf(t) == {i \in IncidentIds : incident[i].state = "open" /\ incident[i].target = t}

Newest(S) == CHOOSE i \in S : \A j \in S : j <= i

\* SQLite gives a new row one more than the largest id in the table, so the
\* id of a deleted row comes back when it was the largest.
IsNextRowId(n, used) ==
  /\ \A m \in used : m < n
  /\ n = 1 \/ n - 1 \in used

IncidentRows == {i \in IncidentIds : incident[i].state # "none"}

\* A mutant: closes every incident of the target, ended or not.
CloseAllIncidents(t, resolution) ==
  [i \in IncidentIds |->
     IF incident[i].target # t THEN incident[i]
     ELSE [incident[i] EXCEPT !.state = resolution]]

CloseOpenIncidents(t, resolution) ==
  [i \in IncidentIds |->
     IF i \notin OpenOf(t) THEN incident[i]
     ELSE [incident[i] EXCEPT !.state = IF i = Newest(OpenOf(t)) THEN resolution
                                        ELSE "superseded"]]

DependencyIsDown(t, parent) ==
  \/ parent \in live /\ row[parent].status = "down"
  \/ \E u \in Above[t] \cap live : row[u].enabled /\ row[u].status = "down"

\* A mutant: the key names the target, not the outage.
EnqueueByTarget(key) ==
  LET k == <<incident'[key[1]].target, key[2]>>
  IN IF k \in queued
     THEN refused' = refused \cup {k} /\ UNCHANGED queued
     ELSE queued' = queued \cup {k} /\ UNCHANGED refused

\* enqueue(): a key already in the table is not queued again.
Enqueue(key) ==
  IF key \in queued
  THEN refused' = refused \cup {key} /\ UNCHANGED queued
  ELSE queued' = queued \cup {key} /\ UNCHANGED refused

NoAlert == UNCHANGED <<queued, refused>>

-----------------------------------------------------------------------------
(* Checks. *)

Start(r, t, by) ==
  /\ flight[r] = Idle
  /\ t \in live
  /\ row[t].enabled
  /\ flight' = [flight EXCEPT ![r] = [target |-> t, by |-> by, row |-> row[t]]]
  /\ UNCHANGED <<live, row, streak, incident, queued, refused, job, follow>>

\* The scheduler starts a job's check unless one of its own is still running
\* (max_instances is 1).  The first free run is taken: runs are alike.
StartScheduled(r, t) ==
  /\ t \in job
  /\ \A q \in Runs : ~(flight[q].target = t /\ flight[q].by = "schedule")
  /\ Start(r, t, "schedule")

\* "Check now", the check after creating or resuming, or a heartbeat's ping.
StartByHand(r, t) == ManualChecks /\ Start(r, t, "hand")

\* What every finished check writes: a check_result row and the counters.
Record(r, obs) ==
  LET t == flight[r].target
  IN /\ t \in live
     /\ row' = [row EXCEPT ![t] = WriteBack(flight[r].row, obs, @)]
     /\ streak' = [streak EXCEPT ![t] = IF obs = "down"
                                        THEN [down |-> Bump(@.down), up |-> 0]
                                        ELSE [down |-> 0, up |-> Bump(@.up)]]
     /\ flight' = [flight EXCEPT ![r] = Idle]
     /\ UNCHANGED <<live, job, follow>>

\* No hard transition: counters, or a soft move between up and degraded.
FinishQuietly(r, obs) ==
  /\ Record(r, obs)
  /\ ~WentDown(flight[r].row, obs)
  /\ ~Recovered(flight[r].row, obs)
  /\ UNCHANGED incident
  /\ NoAlert

\* Mutants: a second incident is opened beside an open one; an outage its
\* dependency explains is announced too.
OpenOutageAgain(r, tell) ==
  LET t          == flight[r].target
      suppressed == DependencyIsDown(t, flight[r].row.dependsOn)
  IN /\ Record(r, "down")
     /\ WentDown(flight[r].row, "down")
     /\ \E i \in IncidentIds :
          /\ IsNextRowId(i, IncidentRows)
          /\ incident' = [incident EXCEPT ![i] =
                            [state |-> "open", target |-> t, suppressed |-> suppressed]]
          /\ IF tell /\ ~suppressed THEN Enqueue(<<i, "down">>) ELSE NoAlert
OpenOutageTellsAll(r, tell) ==
  LET t          == flight[r].target
      suppressed == DependencyIsDown(t, flight[r].row.dependsOn)
  IN /\ Record(r, "down")
     /\ WentDown(flight[r].row, "down")
     /\ OpenOf(t) = {}
     /\ \E i \in IncidentIds :
          /\ IsNextRowId(i, IncidentRows)
          /\ incident' = [incident EXCEPT ![i] =
                            [state |-> "open", target |-> t, suppressed |-> suppressed]]
          /\ IF tell THEN Enqueue(<<i, "down">>) ELSE NoAlert

\* tell: alerting is on and the target is neither muted nor under maintenance.
OpenOutage(r, tell) ==
  LET t          == flight[r].target
      suppressed == DependencyIsDown(t, flight[r].row.dependsOn)
  IN /\ Record(r, "down")
     /\ WentDown(flight[r].row, "down")
     /\ OpenOf(t) = {}
     /\ \E i \in IncidentIds :
          /\ IsNextRowId(i, IncidentRows)
          /\ incident' = [incident EXCEPT ![i] =
                            [state |-> "open", target |-> t, suppressed |-> suppressed]]
          /\ IF tell /\ ~suppressed THEN Enqueue(<<i, "down">>) ELSE NoAlert

\* An incident still open is continued, not doubled, and not announced again.
ContinueOutage(r) ==
  /\ Record(r, "down")
  /\ WentDown(flight[r].row, "down")
  /\ OpenOf(flight[r].target) # {}
  /\ UNCHANGED incident
  /\ NoAlert

\* tell: as above, and recoveries are sent.
Recover(r, obs, tell) ==
  LET t    == flight[r].target
      last == Newest(OpenOf(t))
  IN /\ Record(r, obs)
     /\ Recovered(flight[r].row, obs)
     /\ incident' = CloseOpenIncidents(t, "recovered")
     /\ IF tell /\ OpenOf(t) # {} /\ ~incident[last].suppressed /\ <<last, "down">> \in queued
        THEN Enqueue(<<last, "up">>) ELSE NoAlert

Finish(r) ==
  \/ \E obs \in Observed : FinishQuietly(r, obs)
  \/ \E tell \in BOOLEAN : OpenOutage(r, tell)
  \/ ContinueOutage(r)
  \/ \E obs \in Observed \ {"down"}, tell \in BOOLEAN : Recover(r, obs, tell)

\* The write failed (the row is gone, the database stayed locked): run_target
\* rolls back, logs, and swallows it.
LoseRun(r) ==
  /\ flight[r] # Idle
  /\ flight' = [flight EXCEPT ![r] = Idle]
  /\ UNCHANGED <<live, row, streak, incident, queued, refused, job, follow>>

-----------------------------------------------------------------------------
(* Requests from the web pages. *)

Quiescent(t) == \A v \in Verbs : <<t, v>> \notin follow

\* A person waits for the page before the next click, unless requests overlap.
MayAsk(t) == t \in live /\ (Overlap \/ Quiescent(t))

Create(t, failAt, recoverAt, parent) ==
  /\ t \notin live
  /\ IsNextRowId(t, live)
  /\ Overlap \/ Quiescent(t)
  /\ parent \in live \cup {NoTarget}
  /\ live' = live \cup {t}
  /\ row' = [row EXCEPT ![t] =
               [enabled |-> TRUE, status |-> "unknown", fails |-> 0, succs |-> 0,
                failAt |-> failAt, recoverAt |-> recoverAt, dependsOn |-> parent]]
  /\ follow' = follow \cup {<<t, "schedule">>}
  /\ UNCHANGED <<streak, incident, queued, refused, flight, job>>

Edit(t, failAt, recoverAt, parent) ==
  /\ MayAsk(t)
  /\ parent \in (live \ {t}) \cup {NoTarget}
  /\ row' = [row EXCEPT ![t] = [@ EXCEPT !.failAt = failAt, !.recoverAt = recoverAt,
                                         !.dependsOn = parent]]
  /\ follow' = IF row[t].enabled THEN follow \cup {<<t, "schedule">>} ELSE follow
  /\ UNCHANGED <<live, streak, incident, queued, refused, flight, job>>

\* A mutant: the status is left as it was.
PauseKeepsStatus(t) ==
  /\ MayAsk(t)
  /\ row[t].enabled
  /\ row' = [row EXCEPT ![t].enabled = FALSE]
  /\ incident' = CloseOpenIncidents(t, "paused")
  /\ follow' = follow \cup {<<t, "unschedule">>}
  /\ UNCHANGED <<live, streak, queued, refused, flight, job>>

Pause(t) ==
  /\ MayAsk(t)
  /\ row[t].enabled
  /\ row' = [row EXCEPT ![t].enabled = FALSE, ![t].status = "paused"]
  /\ incident' = CloseOpenIncidents(t, "paused")
  /\ follow' = follow \cup {<<t, "unschedule">>}
  /\ UNCHANGED <<live, streak, queued, refused, flight, job>>

Resume(t) ==
  /\ MayAsk(t)
  /\ ~row[t].enabled
  /\ row' = [row EXCEPT ![t] = [@ EXCEPT !.enabled = TRUE, !.status = "unknown",
                                         !.fails = 0, !.succs = 0]]
  /\ follow' = follow \cup {<<t, "schedule">>}
  /\ UNCHANGED <<live, streak, incident, queued, refused, flight, job>>

\* The request's call on the scheduler, after its commit has returned.
FollowUp(t, call) ==
  /\ <<t, call>> \in follow
  /\ follow' = follow \ {<<t, call>>}
  /\ job' = IF call = "schedule" THEN job \cup {t} ELSE job \ {t}
  /\ UNCHANGED <<live, row, streak, incident, queued, refused, flight>>

\* Results and incidents go with the target (ON DELETE CASCADE), "depends on"
\* is cleared (SET NULL); the alerts already queued stay.
Cascade(t) ==
  /\ live' = live \ {t}
  /\ row' = [u \in Targets |-> IF u = t THEN NoRow
                               ELSE IF row[u].dependsOn = t
                                    THEN [row[u] EXCEPT !.dependsOn = NoTarget] ELSE row[u]]
  /\ streak' = [streak EXCEPT ![t] = Tail0]
  /\ incident' = [i \in IncidentIds |->
                    IF incident[i].target = t THEN NoIncident ELSE incident[i]]
  /\ UNCHANGED <<queued, refused, flight>>

\* Deleting a target takes its job first and commits after; the commit may
\* fail, and then the target stays without its job.
Unwatch(t) ==
  /\ t \in Removable
  /\ MayAsk(t)
  /\ job' = job \ {t}
  /\ follow' = follow \cup {<<t, "delete">>}
  /\ UNCHANGED <<live, row, streak, incident, queued, refused, flight>>

Delete(t) ==
  /\ <<t, "delete">> \in follow
  /\ t \in live
  /\ Cascade(t)
  /\ follow' = follow \ {<<t, "delete">>}
  /\ UNCHANGED job

FailDelete(t) ==
  /\ <<t, "delete">> \in follow
  /\ follow' = follow \ {<<t, "delete">>}
  /\ UNCHANGED <<live, row, streak, incident, queued, refused, flight, job>>

\* Removing its device deletes the target with it, and takes the job after.
RemoveDevice(t) ==
  /\ t \in Removable
  /\ MayAsk(t)
  /\ Cascade(t)
  /\ follow' = follow \cup {<<t, "unschedule">>}
  /\ UNCHANGED job

-----------------------------------------------------------------------------
(* The process is killed and started again: what was in memory is gone,     *)
(* and sync_jobs makes the scheduler match the database.                    *)

\* Mutants: every target gets a job, paused or not; none does.
RestartSchedulesAll ==
  /\ flight' = [r \in Runs |-> Idle]
  /\ follow' = {}
  /\ job' = live
  /\ UNCHANGED <<live, row, streak, incident, queued, refused>>
RestartForgetsJobs ==
  /\ flight' = [r \in Runs |-> Idle]
  /\ follow' = {}
  /\ job' = {}
  /\ UNCHANGED <<live, row, streak, incident, queued, refused>>

Restart ==
  /\ flight' = [r \in Runs |-> Idle]
  /\ follow' = {}
  /\ job' = {t \in live : row[t].enabled}
  /\ UNCHANGED <<live, row, streak, incident, queued, refused>>

CheckStep(r) ==
  \/ \E t \in Targets : StartScheduled(r, t) \/ StartByHand(r, t)
  \/ Finish(r)
  \/ LoseRun(r)

RequestStep(t) ==
  \/ \E f, u \in Thresholds, p \in Targets \cup {NoTarget} :
       Create(t, f, u, p) \/ Edit(t, f, u, p)
  \/ Pause(t)
  \/ Resume(t)
  \/ \E c \in Calls : FollowUp(t, c)
  \/ Unwatch(t)
  \/ Delete(t)
  \/ FailDelete(t)
  \/ RemoveDevice(t)

Next ==
  \/ \E r \in Runs : CheckStep(r)
  \/ \E t \in Targets : RequestStep(t)
  \/ Restart

Spec == Init /\ [][Next]_vars

(* Requests finish; the scheduler keeps firing its jobs; and a check whose  *)
(* outcome could be written again and again is written at last (neither     *)
(* crashes nor a locked database go on for ever).                           *)
Fairness ==
  /\ \A t \in Targets, c \in Calls : WF_vars(FollowUp(t, c))
  /\ \A t \in Targets : WF_vars(\E r \in Runs : StartScheduled(r, t))
  /\ \A r \in Runs : SF_vars(Finish(r))

FairSpec == Spec /\ Fairness
-----------------------------------------------------------------------------
(* Properties. *)

\* At most one outage of a target is going on: whatever checks, pauses and
\* deletions interleave, apply_outcome continues the open incident rather
\* than opening a second one (state.py _open_incident).
OneOpenIncident ==
  \A i, j \in IncidentIds :
    /\ incident[i].state = "open"
    /\ incident[j].state = "open"
    /\ incident[i].target = incident[j].target
    => i = j

\* A target shown as down has an outage on record: no pause, recovery or
\* delete that runs beside a check leaves "down" with nothing open.
DownIsRecorded ==
  \A t \in live : row[t].status = "down" => OpenOf(t) # {}

\* An alert says something the incident table bears out: what was announced
\* was not explained by a dependency, and "back up" is said only of an outage
\* announced before and ended by recovering, not by a pause.  For targets
\* that are never deleted.
AlertsMatchIncidents ==
  Removable = {} =>
    \A i \in IncidentIds, k \in Kinds : <<i, k>> \in queued =>
      /\ incident[i].state # "none"
      /\ ~incident[i].suppressed
      /\ k = "up" => <<i, "down">> \in queued /\ incident[i].state = "recovered"

\* Every alert decided on is queued: the dedupe key of a new outage, or of
\* its recovery, is never one that is taken already (alerts.enqueue).
NoAlertRefused == refused = {}

\* Hysteresis, against the check_result table rather than the counters: a
\* target goes down only when the results recorded last are at least as many
\* failures in a row as its threshold asked when the check began.
DownIsEarned ==
  [][\A t \in Targets :
       row[t].status # "down" /\ row'[t].status = "down" =>
         \E r \in Runs : /\ flight[r].target = t
                         /\ flight'[r] = Idle
                         /\ streak'[t].down >= Needed(flight[r].row.failAt)]_vars

\* ... and is called up (or degraded) again only after as many good results.
RecoveryIsEarned ==
  [][\A t \in Targets :
       row[t].status = "down" /\ row'[t].status \in {"up", "degraded"} =>
         \E r \in Runs : /\ flight[r].target = t
                         /\ flight'[r] = Idle
                         /\ streak'[t].up >= Needed(flight[r].row.recoverAt)]_vars

\* History is not rewritten: an incident that has ended keeps its resolution,
\* target and flag, or goes away with its target.
EndedStaysEnded ==
  [][\A i \in IncidentIds :
       incident[i].state \in Closed =>
         incident'[i] = incident[i] \/ (incident'[i] = NoIncident /\ live' # live)]_vars

\* With no request half done, the scheduler has a job for exactly the enabled
\* targets.
JobsMatchDatabase ==
  follow = {} => job = {t \in live : row[t].enabled}

\* A target that stays enabled and of which nothing but failures is recorded
\* is declared down, and stays so.
OutageIsDeclared ==
  \A t \in Targets :
    <>[](t \in live /\ row[t].enabled /\ streak[t].up = 0) => <>[](row[t].status = "down")

\* ... and one of which nothing but successes is recorded is not left down.
RecoveryIsDeclared ==
  \A t \in Targets :
    <>[](t \in live /\ row[t].enabled /\ streak[t].down = 0)
      => <>[](row[t].status \in {"up", "degraded"})
=============================================================================
