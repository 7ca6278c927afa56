------------------------- MODULE TargetMonitorProofs -------------------------
(***************************************************************************)
(* Theorems about target checks, for any number of targets, incidents,     *)
(* concurrent checks and any thresholds.                                   *)
(*                                                                         *)
(* The inductive invariant is the type invariant with OneOpenIncident and  *)
(* DownIsRecorded: "down" is written only by a check that found, or opened,*)
(* an incident in the same transaction, and whatever closes the incident   *)
(* writes another status with it.  Further properties add what they need   *)
(* to it: which alerts are queued, what half-done requests still owe the   *)
(* scheduler, and what the counters count.                                 *)
(***************************************************************************)
EXTENDS TargetMonitor, TLAPS

-----------------------------------------------------------------------------
(* What the operators of one check return. *)

\* Counting one more never passes the bound of the counters.
LEMMA BumpType ==
  ASSUME NEW n \in 0..Cap PROVE Bump(n) \in 0..Cap
BY ConstantsAssumption DEF Bump

\* The state machine only ever yields a status the column can hold.
LEMMA NextStatusType ==
  ASSUME NEW s \in Row, NEW obs \in Observed PROVE NextStatus(s, obs) \in Status
BY DEF NextStatus, Row, Observed, Status

\* A check leaves a well-formed row.
LEMMA WriteBackType ==
  ASSUME NEW s \in Row, NEW obs \in Observed, NEW c \in Row
  PROVE  WriteBack(s, obs, c) \in Row
<1>1. /\ Bump(s.fails) \in 0..Cap
      /\ Bump(s.succs) \in 0..Cap
  BY BumpType DEF Row
<1>2. NextStatus(s, obs) \in Status
  BY NextStatusType
<1>3. 0 \in 0..Cap
  BY ConstantsAssumption
<1> QED
  BY <1>1, <1>2, <1>3 DEF WriteBack, Row

\* A check leaves its target down only if it decided so itself, or found it
\* down and did not see it recover.
LEMMA WriteBackDown ==
  ASSUME NEW s \in Row, NEW obs \in Observed, NEW c \in Row,
         WriteBack(s, obs, c).status = "down"
  PROVE  WentDown(s, obs) \/ (c.status = "down" /\ ~Recovered(s, obs))
<1>1. WriteBack(s, obs, c).status
        = IF NextStatus(s, obs) # s.status THEN NextStatus(s, obs) ELSE c.status
  BY DEF WriteBack, Row
<1> QED
  BY <1>1 DEF WentDown, Recovered

\* Closing a target's open incidents leaves none open, and touches no other.
LEMMA ClosingCloses ==
  ASSUME NEW t \in Targets, NEW resolution \in Closed,
         incident \in [IncidentIds -> Incident]
  PROVE  /\ CloseOpenIncidents(t, resolution) \in [IncidentIds -> Incident]
         /\ \A i \in IncidentIds :
              /\ i \notin OpenOf(t) => CloseOpenIncidents(t, resolution)[i] = incident[i]
              /\ i \in OpenOf(t) =>
                   /\ CloseOpenIncidents(t, resolution)[i].state \in Closed
                   /\ CloseOpenIncidents(t, resolution)[i].target = t
<1> DEFINE C == CloseOpenIncidents(t, resolution)
<1>1. \A i \in IncidentIds : i \notin OpenOf(t) => C[i] = incident[i]
  BY DEF CloseOpenIncidents
<1>2. ASSUME NEW i \in OpenOf(t)
      PROVE  /\ C[i] \in Incident
             /\ C[i].state \in Closed
             /\ C[i].target = t
  <2>1. i \in IncidentIds /\ incident[i] \in Incident /\ incident[i].target = t
    BY <1>2 DEF OpenOf
  <2>2. C[i] = [incident[i] EXCEPT !.state = IF i = Newest(OpenOf(t)) THEN resolution
                                             ELSE "superseded"]
    BY <1>2, <2>1 DEF CloseOpenIncidents
  <2>3. (IF i = Newest(OpenOf(t)) THEN resolution ELSE "superseded") \in Closed
    BY DEF Closed
  <2> QED
    BY <2>1, <2>2, <2>3 DEF Incident
<1>3. \A i \in IncidentIds : C[i] \in Incident
  BY <1>1, <1>2
<1>4. C = [i \in IncidentIds |-> C[i]]
  BY DEF CloseOpenIncidents
<1> HIDE DEF C
<1>5. C \in [IncidentIds -> Incident]
  BY <1>3, <1>4
<1> QED
  BY <1>1, <1>2, <1>5 DEF C

-----------------------------------------------------------------------------
(* The inductive invariant, one lemma per group of actions. *)

IInv == TypeOK /\ OneOpenIncident /\ DownIsRecorded

\* No target, nothing down, nothing open.
LEMMA InitIInv == Init => IInv
<1> SUFFICES ASSUME Init PROVE IInv
  OBVIOUS
<1>1. NoRow \in Row /\ Idle \in Flight /\ NoIncident \in Incident /\ 0 \in 0..Cap
  BY ConstantsAssumption
  DEF NoRow, Row, Idle, Flight, NoIncident, Incident, NoTarget, Status
<1>2. TypeOK
  BY <1>1 DEF Init, TypeOK, Tail0
<1>3. OneOpenIncident
  BY DEF Init, OneOpenIncident, NoIncident
<1>4. DownIsRecorded
  BY DEF Init, DownIsRecorded
<1> QED
  BY <1>2, <1>3, <1>4 DEF IInv

\* The id of a new row is not the id of a row in the table.
LEMMA NewRowId ==
  ASSUME NEW used, NEW n \in Nat, IsNextRowId(n, used) PROVE n \notin used
BY DEF IsNextRowId

\* enqueue() writes only keys of its kind.
LEMMA AlertTables ==
  ASSUME TypeOK, NEW i \in IncidentIds, NEW k \in Kinds,
         Enqueue(<<i, k>>) \/ NoAlert
  PROVE  /\ queued' \subseteq IncidentIds \X Kinds
         /\ refused' \subseteq IncidentIds \X Kinds
BY DEF TypeOK, Enqueue, NoAlert

\* A check reads a row and keeps it; nothing is written.
LEMMA StartIInv ==
  ASSUME IInv, NEW r \in Runs, NEW t \in Targets, NEW by \in {"schedule", "hand"},
         Start(r, t, by)
  PROVE  IInv'
<1>1. [target |-> t, by |-> by, row |-> row[t]] \in Flight
  BY DEF IInv, TypeOK, Flight
<1>2. TypeOK'
  BY <1>1 DEF IInv, TypeOK, Start
<1>3. OneOpenIncident'
  BY DEF IInv, OneOpenIncident, Start
<1>4. DownIsRecorded'
  BY DEF IInv, DownIsRecorded, OpenOf, Start
<1> QED
  BY <1>2, <1>3, <1>4 DEF IInv

\* What Record alone says: types, and when its target's row may say "down".
LEMMA RecordFacts ==
  ASSUME IInv, NEW r \in Runs, NEW obs \in Observed, Record(r, obs)
  PROVE  /\ flight[r].target \in live
         /\ live' = live /\ job' = job /\ follow' = follow
         /\ row' \in [Targets -> Row]
         /\ streak' \in [Targets -> [down : 0..Cap, up : 0..Cap]]
         /\ flight' \in [Runs -> Flight]
         /\ \A t \in live : t # flight[r].target => row'[t] = row[t]
         /\ row'[flight[r].target].status = "down" =>
              \/ WentDown(flight[r].row, obs)
              \/ /\ row[flight[r].target].status = "down"
                 /\ ~Recovered(flight[r].row, obs)
<1> DEFINE t == flight[r].target
           s == flight[r].row
<1>1. /\ t \in live /\ t \in Targets /\ s \in Row /\ row[t] \in Row
      /\ row' = [row EXCEPT ![t] = WriteBack(s, obs, row[t])]
      /\ flight' = [flight EXCEPT ![r] = Idle]
      /\ UNCHANGED <<live, job, follow>>
  BY DEF IInv, TypeOK, Flight, Record
<1>2. WriteBack(s, obs, row[t]) \in Row
  BY <1>1, WriteBackType
<1>3. row' \in [Targets -> Row]
  BY <1>1, <1>2 DEF IInv, TypeOK
<1>4. Idle \in Flight
  BY ConstantsAssumption DEF Idle, Flight, NoRow, Row, NoTarget, Status
<1>5. flight' \in [Runs -> Flight]
  BY <1>1, <1>4 DEF IInv, TypeOK
<1>6. streak' \in [Targets -> [down : 0..Cap, up : 0..Cap]]
  <2>1. streak[t] \in [down : 0..Cap, up : 0..Cap]
    BY <1>1 DEF IInv, TypeOK
  <2>2. Bump(streak[t].down) \in 0..Cap /\ Bump(streak[t].up) \in 0..Cap /\ 0 \in 0..Cap
    BY <2>1, BumpType, ConstantsAssumption
  <2>3. streak' = [streak EXCEPT ![t] = IF obs = "down"
                                        THEN [down |-> Bump(streak[t].down), up |-> 0]
                                        ELSE [down |-> 0, up |-> Bump(streak[t].up)]]
    BY DEF Record
  <2> QED
    BY <1>1, <2>2, <2>3 DEF IInv, TypeOK
<1>7. row'[t] = WriteBack(s, obs, row[t])
  BY <1>1 DEF IInv, TypeOK
<1>8. row'[t].status = "down" =>
        WentDown(s, obs) \/ (row[t].status = "down" /\ ~Recovered(s, obs))
  BY <1>1, <1>7, WriteBackDown
<1>9. \A u \in live : u # t => row'[u] = row[u]
  BY <1>1 DEF IInv, TypeOK
<1> QED
  BY <1>1, <1>3, <1>5, <1>6, <1>8, <1>9

\* A check that announces nothing leaves its target's word as it was, or
\* changes it between up and degraded.
LEMMA FinishQuietlyIInv ==
  ASSUME IInv, NEW r \in Runs, NEW obs \in Observed, FinishQuietly(r, obs)
  PROVE  IInv'
<1>1. Record(r, obs) /\ ~WentDown(flight[r].row, obs) /\ UNCHANGED <<incident, queued, refused>>
  BY DEF FinishQuietly, NoAlert
<1>2. TypeOK'
  BY <1>1, RecordFacts DEF IInv, TypeOK
<1>3. OneOpenIncident'
  BY <1>1 DEF IInv, OneOpenIncident
<1>4. DownIsRecorded'
  <2> SUFFICES ASSUME NEW u \in live', row'[u].status = "down"
               PROVE  OpenOf(u)' # {}
    BY DEF DownIsRecorded
  <2>1. u \in live /\ row[u].status = "down"
    BY <1>1, RecordFacts
  <2> QED
    BY <1>1, <2>1 DEF IInv, DownIsRecorded, OpenOf
<1> QED
  BY <1>2, <1>3, <1>4 DEF IInv

\* The incident an outage opens is a new row, and the only one open for its
\* target, because the table is read under the write lock.
LEMMA OpenOutageIInv ==
  ASSUME IInv, NEW r \in Runs, NEW tell \in BOOLEAN, OpenOutage(r, tell)
  PROVE  IInv'
<1> DEFINE t == flight[r].target
           suppressed == DependencyIsDown(t, flight[r].row.dependsOn)
<1>1. /\ Record(r, "down")
      /\ OpenOf(t) = {}
  BY DEF OpenOutage
<1>2. PICK i \in IncidentIds :
        /\ IsNextRowId(i, IncidentRows)
        /\ incident' = [incident EXCEPT ![i] =
                          [state |-> "open", target |-> t, suppressed |-> suppressed]]
        /\ IF tell /\ ~suppressed THEN Enqueue(<<i, "down">>) ELSE NoAlert
  BY DEF OpenOutage
<1>3. t \in live /\ t \in Targets /\ "down" \in Observed /\ "down" \in Kinds
  BY <1>1, RecordFacts DEF IInv, TypeOK, Observed, Kinds
<1>4. suppressed \in BOOLEAN
  BY DEF DependencyIsDown
<1>5. [state |-> "open", target |-> t, suppressed |-> suppressed] \in Incident
  BY <1>3, <1>4 DEF Incident
<1>6. incident' \in [IncidentIds -> Incident]
  BY <1>2, <1>5 DEF IInv, TypeOK
<1>7. TypeOK'
  <2>1. queued' \subseteq IncidentIds \X Kinds /\ refused' \subseteq IncidentIds \X Kinds
    BY <1>2, <1>3, AlertTables DEF IInv
  <2> QED
    BY <1>1, <1>3, <1>6, <2>1, RecordFacts DEF IInv, TypeOK
<1>8. incident'[i].state = "open" /\ incident'[i].target = t
  BY <1>2 DEF IInv, TypeOK
<1>9. \A j \in IncidentIds : j # i => incident'[j] = incident[j]
  BY <1>2 DEF IInv, TypeOK
<1>10. OneOpenIncident'
  <2> SUFFICES ASSUME NEW j \in IncidentIds, NEW k \in IncidentIds,
                      incident'[j].state = "open", incident'[k].state = "open",
                      incident'[j].target = incident'[k].target
               PROVE  j = k
    BY DEF OneOpenIncident
  <2>1. \A m \in IncidentIds : incident[m].state = "open" => incident[m].target # t
    BY <1>1 DEF OpenOf
  <2> QED
    BY <1>8, <1>9, <2>1 DEF IInv, OneOpenIncident
<1>11. DownIsRecorded'
  <2> SUFFICES ASSUME NEW u \in live', row'[u].status = "down"
               PROVE  OpenOf(u)' # {}
    BY DEF DownIsRecorded
  <2>1. CASE u = t
    BY <1>8, <2>1 DEF OpenOf
  <2>2. CASE u # t
    <3>1. u \in live /\ row[u].status = "down"
      BY <1>1, <1>3, <2>2, RecordFacts
    <3>2. PICK j \in IncidentIds : incident[j].state = "open" /\ incident[j].target = u
      BY <3>1 DEF IInv, DownIsRecorded, OpenOf
    <3>3. j # i
      <4>1. i \notin IncidentRows
        BY <1>2, NewRowId, ConstantsAssumption
      <4> QED
        BY <3>2, <4>1 DEF IncidentRows
    <3>4. incident'[j].state = "open" /\ incident'[j].target = u
      BY <1>9, <3>2, <3>3
    <3> QED
      BY <3>4 DEF OpenOf
  <2> QED
    BY <2>1, <2>2
<1> QED
  BY <1>7, <1>10, <1>11 DEF IInv

\* An outage found already open is the record of this one.
LEMMA ContinueOutageIInv ==
  ASSUME IInv, NEW r \in Runs, ContinueOutage(r)
  PROVE  IInv'
<1>1. /\ Record(r, "down") /\ "down" \in Observed
      /\ OpenOf(flight[r].target) # {}
      /\ UNCHANGED <<incident, queued, refused>>
  BY DEF ContinueOutage, NoAlert, Observed
<1>2. TypeOK'
  BY <1>1, RecordFacts DEF IInv, TypeOK
<1>3. OneOpenIncident'
  BY <1>1 DEF IInv, OneOpenIncident
<1>4. DownIsRecorded'
  <2> SUFFICES ASSUME NEW u \in live', row'[u].status = "down"
               PROVE  OpenOf(u)' # {}
    BY DEF DownIsRecorded
  <2>1. u = flight[r].target \/ (u \in live /\ row[u].status = "down")
    BY <1>1, RecordFacts
  <2>2. OpenOf(u) # {}
    BY <1>1, <2>1 DEF IInv, DownIsRecorded
  <2> QED
    BY <1>1, <2>2 DEF OpenOf
<1> QED
  BY <1>2, <1>3, <1>4 DEF IInv

\* A recovery closes what was open and writes another status with it.
LEMMA RecoverIInv ==
  ASSUME IInv, NEW r \in Runs, NEW obs \in Observed \ {"down"}, NEW tell \in BOOLEAN,
         Recover(r, obs, tell)
  PROVE  IInv'
<1> DEFINE t == flight[r].target
           last == Newest(OpenOf(t))
<1>1. /\ Record(r, obs) /\ obs \in Observed
      /\ Recovered(flight[r].row, obs)
      /\ incident' = CloseOpenIncidents(t, "recovered")
      /\ \/ OpenOf(t) # {} /\ <<last, "down">> \in queued /\ Enqueue(<<last, "up">>)
         \/ NoAlert
  BY DEF Recover
<1>2. t \in live /\ t \in Targets
  BY <1>1, RecordFacts DEF IInv, TypeOK
<1>3. "recovered" \in Closed /\ "open" \notin Closed /\ "up" \in Kinds
  BY DEF Closed, Kinds
<1>4. incident' \in [IncidentIds -> Incident]
  BY <1>1, <1>2, <1>3, ClosingCloses DEF IInv, TypeOK
<1>5. TypeOK'
  <2>1. queued' \subseteq IncidentIds \X Kinds /\ refused' \subseteq IncidentIds \X Kinds
    <3>1. CASE NoAlert
      BY <3>1 DEF NoAlert, IInv, TypeOK
    <3>2. CASE <<last, "down">> \in queued /\ Enqueue(<<last, "up">>)
      <4>1. last \in IncidentIds
        BY <3>2 DEF IInv, TypeOK
      <4> QED
        BY <1>3, <3>2, <4>1, AlertTables DEF IInv
    <3> QED
      BY <1>1, <3>1, <3>2
  <2> QED
    BY <1>1, <1>4, <2>1, RecordFacts DEF IInv, TypeOK
<1>6. \A j \in IncidentIds : incident'[j].state = "open" =>
        incident'[j] = incident[j] /\ incident[j].target # t
  BY <1>1, <1>2, <1>3, ClosingCloses DEF IInv, TypeOK, OpenOf
<1>7. OneOpenIncident'
  BY <1>6 DEF IInv, OneOpenIncident
<1>8. DownIsRecorded'
  <2> SUFFICES ASSUME NEW u \in live', row'[u].status = "down"
               PROVE  OpenOf(u)' # {}
    BY DEF DownIsRecorded
  <2>1. u # t
    BY <1>1, RecordFacts DEF WentDown, Recovered
  <2>2. u \in live /\ row[u].status = "down"
    BY <1>1, <1>2, <2>1, RecordFacts
  <2>3. PICK j \in IncidentIds : incident[j].state = "open" /\ incident[j].target = u
    BY <2>2 DEF IInv, DownIsRecorded, OpenOf
  <2>4. incident'[j] = incident[j]
    BY <1>1, <1>2, <1>3, <2>1, <2>3, ClosingCloses DEF OpenOf, IInv, TypeOK
  <2> QED
    BY <2>3, <2>4 DEF OpenOf
<1> QED
  BY <1>5, <1>7, <1>8 DEF IInv

\* Pausing closes what is open and writes "paused" in the same transaction.
LEMMA PauseIInv ==
  ASSUME IInv, NEW t \in Targets, Pause(t) PROVE IInv'
<1>1. /\ t \in live
      /\ row' = [row EXCEPT ![t].enabled = FALSE, ![t].status = "paused"]
      /\ incident' = CloseOpenIncidents(t, "paused")
      /\ follow' = follow \cup {<<t, "unschedule">>}
      /\ UNCHANGED <<live, streak, queued, refused, flight, job>>
  BY DEF Pause, MayAsk
<1>2. "paused" \in Closed /\ "open" \notin Closed /\ "paused" \in Status
  BY DEF Closed, Status
<1>3. incident' \in [IncidentIds -> Incident]
  BY <1>1, <1>2, ClosingCloses DEF IInv, TypeOK
<1>4. row' \in [Targets -> Row]
  <2>1. row \in [Targets -> Row]
    BY Zenon DEF IInv, TypeOK
  <2>2. [row[t] EXCEPT !.enabled = FALSE, !.status = "paused"] \in Row
    <3>1. row[t] \in Row
      BY <2>1
    <3> QED
      BY <1>2, <3>1 DEF Row
  <2>3. row' = [row EXCEPT ![t] = [row[t] EXCEPT !.enabled = FALSE, !.status = "paused"]]
    BY <1>1, <2>1
  <2> QED
    BY <2>1, <2>2, <2>3
<1>5. TypeOK'
  BY <1>1, <1>3, <1>4 DEF IInv, TypeOK, Verbs, Calls
<1>6. \A j \in IncidentIds : incident'[j].state = "open" =>
        incident'[j] = incident[j] /\ incident[j].target # t
  BY <1>1, <1>2, ClosingCloses DEF IInv, TypeOK, OpenOf
<1>7. OneOpenIncident'
  BY <1>6 DEF IInv, OneOpenIncident
<1>8. DownIsRecorded'
  <2> SUFFICES ASSUME NEW u \in live', row'[u].status = "down"
               PROVE  OpenOf(u)' # {}
    BY DEF DownIsRecorded
  <2>1. u \in live /\ u # t /\ row[u].status = "down"
    BY <1>1 DEF IInv, TypeOK, Row
  <2>2. PICK j \in IncidentIds : incident[j].state = "open" /\ incident[j].target = u
    BY <2>1 DEF IInv, DownIsRecorded, OpenOf
  <2>3. incident'[j] = incident[j]
    BY <1>1, <1>2, <2>1, <2>2, ClosingCloses DEF OpenOf, IInv, TypeOK
  <2> QED
    BY <2>2, <2>3 DEF OpenOf
<1> QED
  BY <1>5, <1>7, <1>8 DEF IInv

\* Deleting a target takes its incidents, and only its.
LEMMA CascadeIInv ==
  ASSUME IInv, NEW t \in Targets, Cascade(t),
         job' \subseteq Targets, follow' \subseteq Targets \X Verbs
  PROVE  IInv'
<1>1. /\ live' = live \ {t}
      /\ row' = [u \in Targets |-> IF u = t THEN NoRow
                                   ELSE IF row[u].dependsOn = t
                                        THEN [row[u] EXCEPT !.dependsOn = NoTarget] ELSE row[u]]
      /\ streak' = [streak EXCEPT ![t] = Tail0]
      /\ incident' = [i \in IncidentIds |->
                        IF incident[i].target = t THEN NoIncident ELSE incident[i]]
      /\ UNCHANGED <<queued, refused, flight>>
  BY DEF Cascade
<1>2. NoRow \in Row /\ NoIncident \in Incident /\ Tail0 \in [down : 0..Cap, up : 0..Cap]
  BY ConstantsAssumption DEF NoRow, Row, NoIncident, Incident, Tail0, NoTarget, Status
<1>3. row' \in [Targets -> Row]
  <2>1. ASSUME NEW u \in Targets PROVE row'[u] \in Row
    <3>1. row[u] \in Row /\ [row[u] EXCEPT !.dependsOn = NoTarget] \in Row
      BY DEF IInv, TypeOK, Row
    <3> QED
      BY <1>1, <1>2, <3>1
  <2> QED
    BY <1>1, <2>1
<1>4. incident' \in [IncidentIds -> Incident]
  BY <1>1, <1>2 DEF IInv, TypeOK
<1>5. TypeOK'
  BY <1>1, <1>2, <1>3, <1>4 DEF IInv, TypeOK
<1>6. \A j \in IncidentIds : incident'[j].state = "open" => incident'[j] = incident[j]
  BY <1>1 DEF NoIncident
<1>7. OneOpenIncident'
  BY <1>6 DEF IInv, OneOpenIncident
<1>8. DownIsRecorded'
  <2> SUFFICES ASSUME NEW u \in live', row'[u].status = "down"
               PROVE  OpenOf(u)' # {}
    BY DEF DownIsRecorded
  <2>1. u \in live /\ u # t /\ u \in Targets
    BY <1>1 DEF IInv, TypeOK
  <2>2. row[u].status = "down"
    BY <1>1, <2>1 DEF IInv, TypeOK, Row
  <2>3. PICK j \in IncidentIds : incident[j].state = "open" /\ incident[j].target = u
    BY <2>1, <2>2 DEF IInv, DownIsRecorded, OpenOf
  <2>4. incident'[j] = incident[j]
    BY <1>1, <2>1, <2>3
  <2> QED
    BY <2>3, <2>4 DEF OpenOf
<1> QED
  BY <1>5, <1>7, <1>8 DEF IInv

\* Creating and editing never write "down" and touch no incident.
LEMMA SaveIInv ==
  ASSUME IInv, NEW t \in Targets, NEW f \in Thresholds, NEW u \in Thresholds,
         NEW p \in Targets \cup {NoTarget},
         Create(t, f, u, p) \/ Edit(t, f, u, p)
  PROVE  IInv'
<1>1. 0 \in 0..Cap /\ f \in Nat /\ u \in Nat /\ "unknown" \in Status
  BY ConstantsAssumption DEF Status
<1>2. row' \in [Targets -> Row]
  <2>1. CASE Create(t, f, u, p)
    <3>1. [enabled |-> TRUE, status |-> "unknown", fails |-> 0, succs |-> 0,
           failAt |-> f, recoverAt |-> u, dependsOn |-> p] \in Row
      BY <1>1 DEF Row
    <3> QED
      BY <2>1, <3>1 DEF Create, IInv, TypeOK
  <2>2. CASE Edit(t, f, u, p)
    <3>1. [row[t] EXCEPT !.failAt = f, !.recoverAt = u, !.dependsOn = p] \in Row
      <4>1. row[t] \in Row
        BY DEF IInv, TypeOK
      <4> QED
        BY <1>1, <4>1 DEF Row
    <3> QED
      BY <2>2, <3>1 DEF Edit, IInv, TypeOK
  <2> QED
    BY <2>1, <2>2
<1>3. live' \subseteq Targets /\ follow' \subseteq Targets \X Verbs
  BY DEF Create, Edit, IInv, TypeOK, Verbs, Calls
<1>4. UNCHANGED <<streak, incident, queued, refused, flight, job>>
  BY DEF Create, Edit
<1>5. TypeOK'
  BY <1>2, <1>3, <1>4 DEF IInv, TypeOK
<1>6. OneOpenIncident'
  BY <1>4 DEF IInv, OneOpenIncident
<1>7. ASSUME NEW w \in live', row'[w].status = "down"
      PROVE  w \in live /\ row[w].status = "down"
  <2>1. CASE Create(t, f, u, p)
    BY <1>7, <2>1 DEF Create, IInv, TypeOK
  <2>2. CASE Edit(t, f, u, p)
    BY <1>7, <2>2 DEF Edit, IInv, TypeOK, Row
  <2> QED
    BY <2>1, <2>2
<1>8. DownIsRecorded'
  BY <1>4, <1>7 DEF IInv, DownIsRecorded, OpenOf
<1> QED
  BY <1>5, <1>6, <1>8 DEF IInv

\* Resuming starts over from "unknown".
LEMMA ResumeIInv ==
  ASSUME IInv, NEW t \in Targets, Resume(t) PROVE IInv'
<1> DEFINE new == [row[t] EXCEPT !.enabled = TRUE, !.status = "unknown",
                                 !.fails = 0, !.succs = 0]
<1>1. /\ row' = [row EXCEPT ![t] = new]
      /\ follow' = follow \cup {<<t, "schedule">>}
      /\ UNCHANGED <<live, streak, incident, queued, refused, flight, job>>
  BY DEF Resume
<1>2. new \in Row /\ new.status = "unknown"
  <2>1. row[t] \in Row /\ 0 \in 0..Cap /\ "unknown" \in Status
    BY ConstantsAssumption DEF IInv, TypeOK, Status
  <2> DEFINE enabled == [row[t] EXCEPT !.enabled = TRUE, !.status = "unknown"]
  <2>2. enabled \in Row /\ enabled.status = "unknown"
    BY <2>1 DEF Row
  <2>3. new = [enabled EXCEPT !.fails = 0, !.succs = 0]
    OBVIOUS
  <2> HIDE DEF new, enabled
  <2> QED
    BY <2>1, <2>2, <2>3 DEF Row
<1> HIDE DEF new
<1>3. TypeOK'
  BY <1>1, <1>2 DEF IInv, TypeOK, Verbs, Calls
<1>4. OneOpenIncident'
  BY <1>1 DEF IInv, OneOpenIncident
<1>5. DownIsRecorded'
  BY <1>1, <1>2 DEF IInv, TypeOK, DownIsRecorded, OpenOf
<1> QED
  BY <1>3, <1>4, <1>5 DEF IInv

\* A restart, a lost check and a call on the scheduler change no table.
LEMMA MemoryIInv ==
  ASSUME IInv, UNCHANGED <<live, row, streak, incident, queued, refused>>,
         flight' \in [Runs -> Flight], job' \subseteq Targets,
         follow' \subseteq Targets \X Verbs
  PROVE  IInv'
<1>1. TypeOK'
  BY DEF IInv, TypeOK
<1>2. OneOpenIncident'
  BY DEF IInv, OneOpenIncident
<1>3. DownIsRecorded'
  BY DEF IInv, DownIsRecorded, OpenOf
<1> QED
  BY <1>1, <1>2, <1>3 DEF IInv

\* Every step of a check keeps the invariant,
LEMMA CheckStepIInv ==
  ASSUME IInv, NEW r \in Runs, CheckStep(r) PROVE IInv'
<1>1. ASSUME NEW t \in Targets, StartScheduled(r, t) PROVE IInv'
  BY <1>1, StartIInv DEF StartScheduled
<1>2. ASSUME NEW t \in Targets, StartByHand(r, t) PROVE IInv'
  BY <1>2, StartIInv DEF StartByHand
<1>3. ASSUME Finish(r) PROVE IInv'
  BY <1>3, FinishQuietlyIInv, OpenOutageIInv, ContinueOutageIInv, RecoverIInv DEF Finish
<1>4. ASSUME LoseRun(r) PROVE IInv'
  <2>1. Idle \in Flight
    BY ConstantsAssumption DEF Idle, Flight, NoRow, Row, NoTarget, Status
  <2> QED
    BY <1>4, <2>1, MemoryIInv DEF LoseRun, IInv, TypeOK
<1> QED
  BY <1>1, <1>2, <1>3, <1>4 DEF CheckStep

\* ... and every step of a request,
LEMMA RequestStepIInv ==
  ASSUME IInv, NEW t \in Targets, RequestStep(t) PROVE IInv'
<1>1. ASSUME NEW f \in Thresholds, NEW u \in Thresholds, NEW p \in Targets \cup {NoTarget},
             Create(t, f, u, p) \/ Edit(t, f, u, p)
      PROVE  IInv'
  BY <1>1, SaveIInv
<1>2. ASSUME Pause(t) PROVE IInv'
  BY <1>2, PauseIInv
<1>3. ASSUME Resume(t) PROVE IInv'
  BY <1>3, ResumeIInv
<1>4. ASSUME NEW c \in Calls, FollowUp(t, c) PROVE IInv'
  BY <1>4, MemoryIInv DEF FollowUp, IInv, TypeOK
<1>5. ASSUME Unwatch(t) PROVE IInv'
  BY <1>5, MemoryIInv DEF Unwatch, IInv, TypeOK, Verbs
<1>6. ASSUME Delete(t) PROVE IInv'
  BY <1>6, CascadeIInv DEF Delete, IInv, TypeOK
<1>7. ASSUME FailDelete(t) PROVE IInv'
  BY <1>7, MemoryIInv DEF FailDelete, IInv, TypeOK
<1>8. ASSUME RemoveDevice(t) PROVE IInv'
  BY <1>8, CascadeIInv DEF RemoveDevice, IInv, TypeOK, Verbs, Calls
<1> QED
  BY <1>1, <1>2, <1>3, <1>4, <1>5, <1>6, <1>7, <1>8 DEF RequestStep

\* ... and so every step.
LEMMA StepIInv == IInv /\ [Next]_vars => IInv'
<1> SUFFICES ASSUME IInv, [Next]_vars PROVE IInv'
  OBVIOUS
<1>1. CASE \E r \in Runs : CheckStep(r)
  BY <1>1, CheckStepIInv
<1>2. CASE \E t \in Targets : RequestStep(t)
  BY <1>2, RequestStepIInv
<1>3. CASE Restart
  <2>1. Idle \in Flight
    BY ConstantsAssumption DEF Idle, Flight, NoRow, Row, NoTarget, Status
  <2> QED
    BY <1>3, <2>1, MemoryIInv DEF Restart, IInv, TypeOK
<1>4. CASE UNCHANGED vars
  BY <1>4, MemoryIInv DEF vars, IInv, TypeOK
<1> QED
  BY <1>1, <1>2, <1>3, <1>4 DEF Next

-----------------------------------------------------------------------------
(* The theorems. *)

\* What every reachable state satisfies.
THEOREM Invariance == Spec => []IInv
<1> QED
  BY InitIInv, StepIInv, PTL DEF Spec

\* Every table, counter and in-flight check keeps its type: no check writes a
\* status or a count the columns could not hold.
THEOREM TypeCorrect == Spec => []TypeOK
<1>1. IInv => TypeOK
  BY DEF IInv
<1> QED
  BY Invariance, <1>1, PTL

\* apply_outcome never opens a second incident beside an open one, whatever
\* checks, pauses, deletions and restarts run beside it.
THEOREM OneOutageAtATime == Spec => []OneOpenIncident
<1>1. IInv => OneOpenIncident
  BY DEF IInv
<1> QED
  BY Invariance, <1>1, PTL

\* A target shown as down always has its outage on record.
THEOREM DownHasItsRecord == Spec => []DownIsRecorded
<1>1. IInv => DownIsRecorded
  BY DEF IInv
<1> QED
  BY Invariance, <1>1, PTL

-----------------------------------------------------------------------------
(* History. *)

EndedStep ==
  \A i \in IncidentIds :
    incident[i].state \in Closed =>
      incident'[i] = incident[i] \/ (incident'[i] = NoIncident /\ live' # live)

\* An ended incident is not open, so closing what is open passes it by.
LEMMA ClosingKeepsEnded ==
  ASSUME IInv, NEW t \in Targets, NEW resolution \in Closed,
         incident' = CloseOpenIncidents(t, resolution)
  PROVE  EndedStep
BY ClosingCloses DEF IInv, TypeOK, EndedStep, OpenOf, Closed

\* A cascade takes incidents only together with their target.
LEMMA CascadeKeepsEnded ==
  ASSUME IInv, NEW t \in live, Cascade(t) PROVE EndedStep
BY DEF IInv, TypeOK, Cascade, EndedStep

\* A check rewrites no incident that has ended,
LEMMA CheckKeepsEnded ==
  ASSUME IInv, NEW r \in Runs, CheckStep(r) PROVE EndedStep
<1>1. ASSUME NEW t \in Targets, StartScheduled(r, t) \/ StartByHand(r, t) PROVE EndedStep
  BY <1>1 DEF StartScheduled, StartByHand, Start, EndedStep
<1>2. ASSUME NEW obs \in Observed, FinishQuietly(r, obs) PROVE EndedStep
  BY <1>2 DEF FinishQuietly, EndedStep
<1>3. ASSUME NEW tell \in BOOLEAN, OpenOutage(r, tell) PROVE EndedStep
  <2>1. PICK i \in IncidentIds :
          /\ IsNextRowId(i, IncidentRows)
          /\ incident' = [incident EXCEPT ![i] =
                            [state |-> "open", target |-> flight[r].target,
                             suppressed |-> DependencyIsDown(flight[r].target,
                                                             flight[r].row.dependsOn)]]
    BY <1>3 DEF OpenOutage
  <2>2. i \notin IncidentRows
    BY <2>1, NewRowId, ConstantsAssumption
  <2> QED
    BY <2>1, <2>2 DEF IInv, TypeOK, EndedStep, IncidentRows, Closed
<1>4. ASSUME ContinueOutage(r) PROVE EndedStep
  BY <1>4 DEF ContinueOutage, EndedStep
<1>5. ASSUME NEW obs \in Observed \ {"down"}, NEW tell \in BOOLEAN, Recover(r, obs, tell)
      PROVE  EndedStep
  <2>1. flight[r].target \in Targets
    BY <1>5, RecordFacts DEF Recover, IInv, TypeOK
  <2>2. incident' = CloseOpenIncidents(flight[r].target, "recovered") /\ "recovered" \in Closed
    BY <1>5 DEF Recover, Closed
  <2> QED
    BY <2>1, <2>2, ClosingKeepsEnded
<1>6. ASSUME LoseRun(r) PROVE EndedStep
  BY <1>6 DEF LoseRun, EndedStep
<1> QED
  BY <1>1, <1>2, <1>3, <1>4, <1>5, <1>6 DEF CheckStep, Finish

\* ... and no other step does.
LEMMA StepKeepsEnded == IInv /\ [Next]_vars => EndedStep
<1> SUFFICES ASSUME IInv, [Next]_vars PROVE EndedStep
  OBVIOUS
<1>1. CASE \E r \in Runs : CheckStep(r)
  BY <1>1, CheckKeepsEnded
<1>2. ASSUME NEW t \in Targets, RequestStep(t) PROVE EndedStep
  <2>1. CASE UNCHANGED incident
    BY <2>1 DEF EndedStep
  <2>2. CASE Pause(t)
    <3>1. incident' = CloseOpenIncidents(t, "paused") /\ "paused" \in Closed
      BY <2>2 DEF Pause, Closed
    <3> QED
      BY <3>1, ClosingKeepsEnded
  <2>3. CASE Delete(t) \/ RemoveDevice(t)
    <3>1. t \in live /\ Cascade(t)
      BY <2>3 DEF Delete, RemoveDevice, MayAsk
    <3> QED
      BY <3>1, CascadeKeepsEnded
  <2> QED
    BY <1>2, <2>1, <2>2, <2>3
    DEF RequestStep, Create, Edit, Resume, FollowUp, Unwatch, FailDelete
<1>3. CASE Restart \/ UNCHANGED vars
  BY <1>3 DEF Restart, vars, EndedStep
<1> QED
  BY <1>1, <1>2, <1>3 DEF Next

\* History is not rewritten by anything that happens later to the target.
THEOREM HistoryIsKept == Spec => EndedStaysEnded
<1>1. IInv /\ [Next]_vars => [EndedStep]_vars
  BY StepKeepsEnded
<1> QED
  BY Invariance, <1>1, PTL DEF Spec, EndedStaysEnded, EndedStep

-----------------------------------------------------------------------------
(* What the alerts say, of targets that are never deleted. *)

DeletesAllowed == \A t \in Targets : <<t, "delete">> \in follow => t \in Removable

AInv == IInv /\ AlertsMatchIncidents /\ DeletesAllowed

\* A delete is half done only for a target that may be deleted.
LEMMA StepKeepsDeletes ==
  ASSUME IInv, DeletesAllowed, [Next]_vars PROVE DeletesAllowed'
<1>1. ASSUME NEW t \in Targets, <<t, "delete">> \in follow' PROVE t \in Removable
  <2>1. CASE <<t, "delete">> \in follow
    BY <2>1 DEF DeletesAllowed
  <2>2. CASE <<t, "delete">> \notin follow
    <3>1. ASSUME NEW r \in Runs, CheckStep(r) PROVE follow' = follow
      <4>1. ASSUME NEW obs \in Observed, Record(r, obs) PROVE follow' = follow
        BY <4>1 DEF Record
      <4> QED
        BY <3>1, <4>1
        DEF CheckStep, StartScheduled, StartByHand, Start, LoseRun, Finish,
            FinishQuietly, OpenOutage, ContinueOutage, Recover, Observed
    <3>2. ASSUME NEW u \in Targets, RequestStep(u) PROVE t \in Removable
      <4>1. ASSUME NEW f, NEW g, NEW p, Create(u, f, g, p) \/ Edit(u, f, g, p) PROVE FALSE
        BY <1>1, <2>2, <4>1 DEF Create, Edit
      <4>2. CASE Pause(u) \/ Resume(u) \/ RemoveDevice(u)
        BY <1>1, <2>2, <4>2 DEF Pause, Resume, RemoveDevice
      <4>3. ASSUME NEW c \in Calls, FollowUp(u, c) PROVE FALSE
        BY <1>1, <2>2, <4>3 DEF FollowUp
      <4>4. CASE Delete(u) \/ FailDelete(u)
        BY <1>1, <2>2, <4>4 DEF Delete, FailDelete
      <4>5. CASE Unwatch(u)
        BY <1>1, <2>2, <4>5 DEF Unwatch
      <4> QED
        BY <3>2, <4>1, <4>2, <4>3, <4>4, <4>5 DEF RequestStep
    <3> QED
      BY <1>1, <2>2, <3>1, <3>2 DEF Next, Restart, vars
  <2> QED
    BY <2>1, <2>2
<1> QED
  BY <1>1 DEF DeletesAllowed

\* Closing a target's newest open incident gives it the resolution asked for.
LEMMA NewestGetsResolution ==
  ASSUME NEW t \in Targets, NEW resolution \in Closed, NEW i \in IncidentIds,
         incident \in [IncidentIds -> Incident], i \in OpenOf(t), i = Newest(OpenOf(t))
  PROVE  /\ CloseOpenIncidents(t, resolution)[i].state = resolution
         /\ CloseOpenIncidents(t, resolution)[i].suppressed = incident[i].suppressed
<1>1. CloseOpenIncidents(t, resolution)[i]
        = [incident[i] EXCEPT !.state = IF i = Newest(OpenOf(t)) THEN resolution
                                        ELSE "superseded"]
  BY DEF CloseOpenIncidents
<1>2. incident[i] \in Incident
  OBVIOUS
<1> QED
  BY <1>1, <1>2 DEF Incident

\* With one open incident at most, the newest is that one.
LEMMA NewestIsOpen ==
  ASSUME IInv, NEW t, OpenOf(t) # {} PROVE Newest(OpenOf(t)) \in OpenOf(t)
<1>1. PICK i \in IncidentIds : i \in OpenOf(t)
  BY DEF OpenOf
<1>2. \A j \in OpenOf(t) : j = i
  BY <1>1 DEF IInv, OneOpenIncident, OpenOf
<1>3. i <= i
  BY ConstantsAssumption
<1>4. \E m \in OpenOf(t) : \A j \in OpenOf(t) : j <= m
  BY <1>1, <1>2, <1>3
<1> QED
  BY <1>4 DEF Newest

\* ... and closing never changes what an alert already said of the incident.
LEMMA ClosingKeepsAlerts ==
  ASSUME AInv, Removable = {}, NEW t \in Targets, NEW resolution \in Closed,
         incident' = CloseOpenIncidents(t, resolution)
  PROVE  \A i \in IncidentIds, k \in Kinds : <<i, k>> \in queued =>
           /\ incident'[i].state # "none"
           /\ ~incident'[i].suppressed
           /\ k = "up" => <<i, "down">> \in queued /\ incident'[i].state = "recovered"
<1> SUFFICES ASSUME NEW i \in IncidentIds, NEW k \in Kinds, <<i, k>> \in queued
             PROVE  /\ incident'[i].state # "none"
                    /\ ~incident'[i].suppressed
                    /\ k = "up" => /\ <<i, "down">> \in queued
                                   /\ incident'[i].state = "recovered"
  OBVIOUS
<1>1. /\ incident[i].state # "none"
      /\ ~incident[i].suppressed
      /\ k = "up" => <<i, "down">> \in queued /\ incident[i].state = "recovered"
  BY DEF AInv, AlertsMatchIncidents
<1>2. CASE i \notin OpenOf(t)
  BY <1>1, <1>2, ClosingCloses DEF AInv, IInv, TypeOK
<1>3. CASE i \in OpenOf(t)
  <2>1. incident[i].state = "open"
    BY <1>3 DEF OpenOf
  <2>2. incident'[i] = [incident[i] EXCEPT !.state = IF i = Newest(OpenOf(t)) THEN resolution
                                                     ELSE "superseded"]
    BY <1>3 DEF CloseOpenIncidents
  <2>3. incident'[i].suppressed = incident[i].suppressed
    BY <2>2 DEF AInv, IInv, TypeOK, Incident
  <2>4. incident'[i].state # "none"
    BY <1>3, ClosingCloses DEF AInv, IInv, TypeOK, Closed
  <2> QED
    BY <1>1, <2>1, <2>3, <2>4
<1> QED
  BY <1>2, <1>3

\* What a check queues is borne out by the incident it wrote,
LEMMA CheckKeepsAlerts ==
  ASSUME AInv, Removable = {}, NEW r \in Runs, CheckStep(r) PROVE AlertsMatchIncidents'
<1> USE DEF AInv
<1>1. CASE UNCHANGED <<incident, queued>>
  BY <1>1 DEF AlertsMatchIncidents
<1>2. ASSUME NEW tell \in BOOLEAN, OpenOutage(r, tell) PROVE AlertsMatchIncidents'
  <2> DEFINE t == flight[r].target
             suppressed == DependencyIsDown(t, flight[r].row.dependsOn)
  <2>1. PICK i \in IncidentIds :
          /\ IsNextRowId(i, IncidentRows)
          /\ incident' = [incident EXCEPT ![i] =
                            [state |-> "open", target |-> t, suppressed |-> suppressed]]
          /\ IF tell /\ ~suppressed THEN Enqueue(<<i, "down">>) ELSE NoAlert
    BY <1>2 DEF OpenOutage
  <2>2. incident[i].state = "none"
    BY <2>1, NewRowId, ConstantsAssumption DEF IncidentRows
  <2>3. \A k \in Kinds : <<i, k>> \notin queued
    BY <2>2 DEF AlertsMatchIncidents
  <2>4. /\ incident'[i].state = "open"
        /\ incident'[i].suppressed = suppressed
        /\ \A j \in IncidentIds : j # i => incident'[j] = incident[j]
    BY <2>1 DEF IInv, TypeOK
  <2> HIDE DEF t, suppressed
  <2>5. queued' = queued \/ (~suppressed /\ queued' = queued \cup {<<i, "down">>})
    BY <2>1 DEF Enqueue, NoAlert
  <2> SUFFICES ASSUME NEW j \in IncidentIds, NEW k \in Kinds, <<j, k>> \in queued'
               PROVE  /\ incident'[j].state # "none"
                      /\ ~incident'[j].suppressed
                      /\ k = "up" => /\ <<j, "down">> \in queued'
                                     /\ incident'[j].state = "recovered"
    BY DEF AlertsMatchIncidents
  <2>6. CASE j = i
    BY <2>3, <2>4, <2>5, <2>6
  <2>7. CASE j # i
    <3>1. <<j, k>> \in queued
      BY <2>5, <2>7
    <3> QED
      BY <2>4, <2>5, <2>7, <3>1 DEF AlertsMatchIncidents
  <2> QED
    BY <2>6, <2>7
<1>3. ASSUME NEW obs \in Observed \ {"down"}, NEW tell \in BOOLEAN, Recover(r, obs, tell)
      PROVE  AlertsMatchIncidents'
  <2> DEFINE t == flight[r].target
             last == Newest(OpenOf(t))
  <2>1. t \in Targets
    BY <1>3, RecordFacts DEF Recover, IInv, TypeOK
  <2>2. "recovered" \in Closed /\ "up" \in Kinds /\ "down" \in Kinds /\ "up" # "down"
    BY DEF Closed, Kinds
  <2>3. incident' = CloseOpenIncidents(t, "recovered")
    BY <1>3 DEF Recover
  <2>4. CASE NoAlert
    <3> QED
      BY <2>1, <2>2, <2>3, <2>4, ClosingKeepsAlerts DEF NoAlert, AlertsMatchIncidents
  <2>5. CASE /\ OpenOf(t) # {} /\ ~incident[last].suppressed
             /\ <<last, "down">> \in queued /\ Enqueue(<<last, "up">>)
    <3>1. last \in OpenOf(t) /\ last \in IncidentIds
      BY <2>5, NewestIsOpen DEF OpenOf
    <3>2. incident'[last].state = "recovered" /\ ~incident'[last].suppressed
      BY <2>1, <2>2, <2>3, <2>5, <3>1, NewestGetsResolution DEF IInv, TypeOK
    <3> HIDE DEF t, last
    <3>3. queued' = queued \cup {<<last, "up">>}
      BY <2>5 DEF Enqueue
    <3> SUFFICES ASSUME NEW j \in IncidentIds, NEW k \in Kinds, <<j, k>> \in queued'
                 PROVE  /\ incident'[j].state # "none"
                        /\ ~incident'[j].suppressed
                        /\ k = "up" => /\ <<j, "down">> \in queued'
                                       /\ incident'[j].state = "recovered"
      BY DEF AlertsMatchIncidents
    <3>4. CASE <<j, k>> \in queued
      BY <2>1, <2>2, <2>3, <3>3, <3>4, ClosingKeepsAlerts
    <3>5. CASE j = last /\ k = "up"
      BY <2>5, <3>2, <3>3, <3>5
    <3> QED
      BY <3>3, <3>4, <3>5
  <2> QED
    BY <1>3, <2>4, <2>5 DEF Recover
<1> QED
  BY <1>1, <1>2, <1>3
  DEF CheckStep, Finish, FinishQuietly, ContinueOutage, LoseRun, StartScheduled, StartByHand,
      Start, NoAlert

\* ... and no other step takes that back.
LEMMA StepKeepsAlerts == AInv /\ [Next]_vars => AInv'
<1> SUFFICES ASSUME AInv, [Next]_vars PROVE AlertsMatchIncidents'
  BY StepIInv, StepKeepsDeletes DEF AInv
<1>1. CASE Removable # {}
  BY <1>1 DEF AlertsMatchIncidents
<1>2. CASE Removable = {}
  <2>1. CASE UNCHANGED <<incident, queued>>
    BY <2>1 DEF AInv, AlertsMatchIncidents
  <2>2. CASE \E r \in Runs : CheckStep(r)
    BY <1>2, <2>2, CheckKeepsAlerts
  <2>3. ASSUME NEW t \in Targets, RequestStep(t) PROVE AlertsMatchIncidents'
    <3>1. CASE Pause(t)
      <4>1. incident' = CloseOpenIncidents(t, "paused") /\ queued' = queued
            /\ "paused" \in Closed
        BY <3>1 DEF Pause, Closed
      <4> QED
        BY <1>2, <4>1, ClosingKeepsAlerts DEF AlertsMatchIncidents
    <3>2. CASE Delete(t)
      <4>1. t \in Removable
        BY <3>2 DEF Delete, AInv, DeletesAllowed
      <4> QED
        BY <1>2, <4>1
    <3> QED
      BY <1>2, <2>1, <2>3, <3>1, <3>2
      DEF RequestStep, Create, Edit, Resume, FollowUp, Unwatch, FailDelete, RemoveDevice
  <2> QED
    BY <2>1, <2>2, <2>3 DEF Next, Restart, vars
<1> QED
  BY <1>1, <1>2

\* Only outages no dependency explains are announced, and only announced ones
\* that recovered are called off (alerts.on_target_transition).
THEOREM AlertsAreBorneOut == Spec => []AlertsMatchIncidents
<1>1. Init => AInv
  BY InitIInv DEF AInv, Init, AlertsMatchIncidents, DeletesAllowed
<1>2. AInv => AlertsMatchIncidents
  BY DEF AInv
<1> QED
  BY <1>1, <1>2, StepKeepsAlerts, PTL DEF Spec

-----------------------------------------------------------------------------
(* No alert is taken for one that was sent before. *)

\* A new outage has a new id, and an outage is announced as over only once.
LEMMA StepRefusesNone ==
  ASSUME AInv, Removable = {}, NoAlertRefused, [Next]_vars PROVE NoAlertRefused'
<1>1. ASSUME NEW r \in Runs, NEW tell \in BOOLEAN, OpenOutage(r, tell) PROVE UNCHANGED refused
  <2>1. PICK i \in IncidentIds :
          /\ IsNextRowId(i, IncidentRows)
          /\ Enqueue(<<i, "down">>) \/ NoAlert
    BY <1>1 DEF OpenOutage
  <2>2. incident[i].state = "none"
    BY <2>1, NewRowId, ConstantsAssumption DEF IncidentRows
  <2>3. <<i, "down">> \notin queued
    BY <2>2 DEF AInv, AlertsMatchIncidents, Kinds
  <2> QED
    BY <2>1, <2>3 DEF Enqueue, NoAlert
<1>2. ASSUME NEW r \in Runs, NEW obs \in Observed \ {"down"}, NEW tell \in BOOLEAN,
             Recover(r, obs, tell)
      PROVE  UNCHANGED refused
  <2> DEFINE last == Newest(OpenOf(flight[r].target))
  <2>1. CASE OpenOf(flight[r].target) # {} /\ Enqueue(<<last, "up">>)
    <3>1. last \in IncidentIds /\ incident[last].state = "open"
      BY <2>1, NewestIsOpen DEF AInv, OpenOf
    <3>2. <<last, "up">> \notin queued
      BY <3>1 DEF AInv, AlertsMatchIncidents, Kinds
    <3> QED
      BY <2>1, <3>2 DEF Enqueue
  <2> QED
    BY <1>2, <2>1 DEF Recover, NoAlert
<1>3. ASSUME NEW r \in Runs, CheckStep(r) PROVE UNCHANGED refused
  BY <1>1, <1>2, <1>3
  DEF CheckStep, Finish, FinishQuietly, ContinueOutage, LoseRun, StartScheduled, StartByHand,
      Start, NoAlert
<1>4. ASSUME NEW t \in Targets, RequestStep(t) PROVE UNCHANGED refused
  BY <1>4 DEF RequestStep, Create, Edit, Pause, Resume, FollowUp, Unwatch, Delete, FailDelete,
              RemoveDevice, Cascade
<1>5. UNCHANGED refused
  BY <1>3, <1>4 DEF Next, Restart, vars
<1> QED
  BY <1>5 DEF NoAlertRefused

\* Of targets that are never deleted, the key of a new alert is never one that
\* is taken: an outage has one announcement and one all-clear (alerts.enqueue).
THEOREM AlertsGetThrough == Removable = {} => (Spec => []NoAlertRefused)
<1> SUFFICES ASSUME Removable = {} PROVE Spec => []NoAlertRefused
  OBVIOUS
<1>1. Init => AInv /\ NoAlertRefused
  BY InitIInv DEF AInv, Init, AlertsMatchIncidents, DeletesAllowed, NoAlertRefused
<1>2. AInv /\ NoAlertRefused /\ [Next]_vars => (AInv /\ NoAlertRefused)'
  BY StepKeepsAlerts, StepRefusesNone
<1> QED
  BY <1>1, <1>2, PTL DEF Spec

-----------------------------------------------------------------------------
(* The scheduler's jobs, when requests about a target do not overlap and no *)
(* delete fails.                                                            *)

\* No step is a delete that fails.
NoFailedDelete == \A t \in Targets : ~FailDelete(t)

\* The targets that should have a job.
Watched(t) == t \in live /\ row[t].enabled

\* What a half-done request has still to do is what the job lacks.
JobsFollow ==
  \A t \in Targets :
    /\ Quiescent(t) => (t \in job <=> Watched(t))
    /\ <<t, "schedule">> \in follow   => Watched(t)
    /\ <<t, "unschedule">> \in follow => ~Watched(t)
    /\ <<t, "delete">> \in follow     => t \in live /\ t \notin job
    /\ \A v, w \in Verbs : <<t, v>> \in follow /\ <<t, w>> \in follow => v = w

JInv == IInv /\ JobsFollow

\* A check never pauses nor resumes.
LEMMA CheckKeepsJobs ==
  ASSUME IInv, NEW r \in Runs, CheckStep(r)
  PROVE  /\ UNCHANGED <<live, job, follow>>
         /\ \A t \in Targets : row'[t].enabled = row[t].enabled
<1>1. ASSUME NEW obs \in Observed, Record(r, obs)
      PROVE  /\ UNCHANGED <<live, job, follow>>
             /\ \A t \in Targets : row'[t].enabled = row[t].enabled
  <2> DEFINE u == flight[r].target
             was == row[u]
  <2>1. u \in Targets /\ was \in Row /\ row' = [row EXCEPT ![u] = WriteBack(flight[r].row, obs, was)]
    BY <1>1 DEF Record, IInv, TypeOK
  <2>2. WriteBack(flight[r].row, obs, was).enabled = was.enabled
    BY <2>1 DEF WriteBack, Row
  <2> QED
    BY <1>1, <2>1, <2>2 DEF Record, IInv, TypeOK
<1>2. (\E obs \in Observed : Record(r, obs)) \/ UNCHANGED <<live, row, job, follow>>
  BY DEF CheckStep, Finish, FinishQuietly, OpenOutage, ContinueOutage, Recover, LoseRun,
         StartScheduled, StartByHand, Start, Observed
<1> QED
  BY <1>1, <1>2

\* A request about one target leaves the others' jobs and requests alone.
LEMMA RequestIsOwn ==
  ASSUME IInv, NEW t \in Targets, RequestStep(t), NEW u \in Targets, u # t
  PROVE  /\ u \in live' <=> u \in live
         /\ u \in job' <=> u \in job
         /\ \A v \in Verbs : <<u, v>> \in follow' <=> <<u, v>> \in follow
         /\ row'[u].enabled = row[u].enabled
<1>1. ASSUME Cascade(t) PROVE row'[u].enabled = row[u].enabled /\ (u \in live' <=> u \in live)
  BY <1>1 DEF Cascade, IInv, TypeOK, Row
<1>2. CASE \E f, g \in Thresholds, p \in Targets \cup {NoTarget} : Create(t, f, g, p) \/ Edit(t, f, g, p)
  BY <1>2 DEF Create, Edit, IInv, TypeOK
<1>3. CASE Pause(t) \/ Resume(t)
  BY <1>3 DEF Pause, Resume, IInv, TypeOK
<1>4. CASE \E c \in Calls : FollowUp(t, c)
  BY <1>4 DEF FollowUp
<1>5. CASE Unwatch(t) \/ FailDelete(t)
  BY <1>5 DEF Unwatch, FailDelete
<1>6. CASE Delete(t) \/ RemoveDevice(t)
  BY <1>1, <1>6 DEF Delete, RemoveDevice, Cascade
<1> QED
  BY <1>2, <1>3, <1>4, <1>5, <1>6 DEF RequestStep

\* Every request leaves its own target as JobsFollow says.
LEMMA RequestKeepsJobs ==
  ASSUME ~Overlap, JInv, NEW t \in Targets, RequestStep(t), ~FailDelete(t)
  PROVE  JobsFollow'
<1> DEFINE Holds(u) ==
      /\ Quiescent(u) => (u \in job <=> Watched(u))
      /\ <<u, "schedule">> \in follow   => Watched(u)
      /\ <<u, "unschedule">> \in follow => ~Watched(u)
      /\ <<u, "delete">> \in follow     => u \in live /\ u \notin job
      /\ \A v, w \in Verbs : <<u, v>> \in follow /\ <<u, w>> \in follow => v = w
<1>1. \A u \in Targets : Holds(u)
  BY DEF JInv, JobsFollow
<1>2. ASSUME NEW u \in Targets, u # t PROVE Holds(u)'
  <2>1. Verbs = {"schedule", "unschedule", "delete"}
    BY DEF Verbs, Calls
  <2>2. /\ u \in live' <=> u \in live
        /\ u \in job' <=> u \in job
        /\ \A v \in Verbs : <<u, v>> \in follow' <=> <<u, v>> \in follow
        /\ row'[u].enabled = row[u].enabled
    BY <1>2, RequestIsOwn DEF JInv
  <2> QED
    BY <1>1, <2>1, <2>2 DEF Quiescent, Watched
<1>3. Holds(t)'
  <2> USE DEF Quiescent, Watched, Verbs, Calls
  <2>1. Holds(t)
    BY <1>1
  <2>3. CASE \E f, g \in Thresholds, p \in Targets \cup {NoTarget} : Create(t, f, g, p)
    BY <2>1, <2>3 DEF Create, JInv, IInv, TypeOK
  <2>4. CASE \E f, g \in Thresholds, p \in Targets \cup {NoTarget} : Edit(t, f, g, p)
    BY <2>1, <2>4 DEF Edit, MayAsk, JInv, IInv, TypeOK, Row
  <2>5. CASE Pause(t)
    BY <2>1, <2>5 DEF Pause, MayAsk, JInv, IInv, TypeOK, Row
  <2>6. CASE Resume(t)
    BY <2>1, <2>6 DEF Resume, MayAsk, JInv, IInv, TypeOK, Row
  <2>7. ASSUME NEW c \in Calls, FollowUp(t, c) PROVE Holds(t)'
    BY <2>1, <2>7 DEF FollowUp
  <2>8. CASE Unwatch(t)
    BY <2>1, <2>8 DEF Unwatch, MayAsk
  <2>9. CASE Delete(t)
    BY <2>1, <2>9 DEF Delete, Cascade
  <2>10. CASE RemoveDevice(t)
    BY <2>1, <2>10 DEF RemoveDevice, MayAsk, Cascade
  <2> QED
    BY <2>3, <2>4, <2>5, <2>6, <2>7, <2>8, <2>9, <2>10 DEF RequestStep
<1>4. \A u \in Targets : Holds(u)'
  BY <1>2, <1>3
<1> QED
  BY <1>4 DEF JobsFollow

\* ... and so does every step, a restart among them.
LEMMA StepKeepsJobs ==
  ASSUME ~Overlap, JInv, [Next]_vars, [NoFailedDelete]_vars PROVE JInv'
<1>1. IInv'
  BY StepIInv DEF JInv
<1>2. ASSUME UNCHANGED <<live, job, follow>>, \A t \in Targets : row'[t].enabled = row[t].enabled
      PROVE  JobsFollow'
  BY <1>2 DEF JInv, JobsFollow, Quiescent, Watched
<1>3. CASE \E r \in Runs : CheckStep(r)
  BY <1>1, <1>2, <1>3, CheckKeepsJobs DEF JInv
<1>4. ASSUME NEW t \in Targets, RequestStep(t), ~UNCHANGED vars PROVE JInv'
  BY <1>1, <1>4, RequestKeepsJobs DEF JInv, NoFailedDelete
<1>5. CASE Restart
  BY <1>1, <1>5 DEF Restart, JInv, JobsFollow, Quiescent, Watched, IInv, TypeOK
<1>6. CASE UNCHANGED vars
  BY <1>1, <1>2, <1>6 DEF vars, JInv
<1> QED
  BY <1>3, <1>4, <1>5, <1>6 DEF Next

\* If people wait for the page before their next click and no delete fails,
\* the scheduler has a job for exactly the enabled targets whenever no request
\* is half done, through any checks, restarts and removals.
THEOREM JobsAreRight ==
  ~Overlap => (Spec /\ [][NoFailedDelete]_vars => []JobsMatchDatabase)
<1> SUFFICES ASSUME ~Overlap
             PROVE  Spec /\ [][NoFailedDelete]_vars => []JobsMatchDatabase
  OBVIOUS
<1>1. Init => JInv
  BY InitIInv DEF JInv, Init, JobsFollow, Watched, Quiescent
<1>2. JInv /\ [Next]_vars /\ [NoFailedDelete]_vars => JInv'
  BY StepKeepsJobs
<1>3. JInv => JobsMatchDatabase
  BY DEF JInv, JobsFollow, JobsMatchDatabase, Quiescent, Watched, IInv, TypeOK
<1> QED
  BY <1>1, <1>2, <1>3, PTL DEF Spec

-----------------------------------------------------------------------------
(* What the counters count, of targets that are checked on schedule only    *)
(* and never deleted.                                                       *)

\* The counters of a row never run ahead of the results on record.
CountsAreCovered ==
  \A t \in Targets : row[t].fails <= streak[t].down /\ row[t].succs <= streak[t].up

\* A check is the only one of its target; and since it read the row nothing
\* was counted, though the target may have been paused or resumed.
FlightIsAlone ==
  \A r \in Runs : flight[r].target # NoTarget =>
    LET t == flight[r].target
        s == flight[r].row
    IN /\ flight[r].by = "schedule" /\ t \in live
       /\ \A q \in Runs : flight[q].target = t => q = r
       /\ row[t].fails \in {s.fails, 0} /\ row[t].succs \in {s.succs, 0}
       /\ row[t].status \in {s.status, "paused", "unknown"}
       /\ s.fails <= streak[t].down /\ s.succs <= streak[t].up

EInv == IInv /\ DeletesAllowed /\ CountsAreCovered /\ FlightIsAlone

\* A saturating counter keeps the order.
LEMMA BumpOrder ==
  ASSUME NEW m \in 0..Cap, NEW n \in 0..Cap, m <= n
  PROVE  Bump(m) <= Bump(n) /\ Bump(m) \in Nat /\ Bump(n) \in Nat
BY ConstantsAssumption DEF Bump

\* What a result that is written does to the counters, and what it takes for
\* it to change the word.
LEMMA RecordCounts ==
  ASSUME EInv, NEW r \in Runs, NEW obs \in Observed, Record(r, obs)
  PROVE  LET t == flight[r].target
             s == flight[r].row
         IN /\ row'[t].fails <= streak'[t].down /\ row'[t].succs <= streak'[t].up
            /\ row[t].status # "down" /\ row'[t].status = "down"
                 => streak'[t].down >= Needed(s.failAt)
            /\ row[t].status = "down" /\ row'[t].status \in {"up", "degraded"}
                 => streak'[t].up >= Needed(s.recoverAt)
<1> DEFINE t == flight[r].target
           s == flight[r].row
           c == row[t]
           k == streak[t]
<1>1. /\ t \in Targets /\ t # NoTarget /\ s \in Row /\ c \in Row
      /\ k \in [down : 0..Cap, up : 0..Cap]
  BY ConstantsAssumption DEF Record, EInv, IInv, TypeOK, Flight
<1>2. /\ c.fails \in {s.fails, 0} /\ c.succs \in {s.succs, 0}
      /\ c.status \in {s.status, "paused", "unknown"}
      /\ s.fails <= k.down /\ s.succs <= k.up
  BY <1>1 DEF EInv, FlightIsAlone
<1>3. row'[t] = WriteBack(s, obs, c)
  BY <1>1 DEF Record, EInv, IInv, TypeOK
<1>4. streak'[t] = IF obs = "down" THEN [down |-> Bump(k.down), up |-> 0]
                                   ELSE [down |-> 0, up |-> Bump(k.up)]
  BY <1>1 DEF Record, EInv, IInv, TypeOK
<1> HIDE DEF t, s, c, k
<1>5. /\ Bump(s.fails) <= Bump(k.down) /\ Bump(s.succs) <= Bump(k.up)
      /\ Bump(s.fails) \in Nat /\ Bump(s.succs) \in Nat
      /\ Bump(k.down) \in Nat /\ Bump(k.up) \in Nat
  BY <1>1, <1>2, BumpOrder DEF Row
<1>6. row'[t].fails = IF obs = "down" THEN Bump(s.fails) ELSE IF s.fails # 0 THEN 0 ELSE c.fails
  BY <1>1, <1>3 DEF WriteBack, Row
<1>7. row'[t].succs = IF obs # "down" THEN Bump(s.succs) ELSE IF s.succs # 0 THEN 0 ELSE c.succs
  BY <1>1, <1>3 DEF WriteBack, Row
<1>8. row'[t].status = IF NextStatus(s, obs) # s.status THEN NextStatus(s, obs) ELSE c.status
  BY <1>1, <1>3 DEF WriteBack, Row
<1>9. row'[t].fails <= streak'[t].down /\ row'[t].succs <= streak'[t].up
  BY <1>1, <1>2, <1>4, <1>5, <1>6, <1>7 DEF Row
<1>10. ASSUME c.status # "down", row'[t].status = "down"
       PROVE  streak'[t].down >= Needed(s.failAt)
  <2>1. obs = "down" /\ Bump(s.fails) >= Needed(s.failAt)
    BY <1>2, <1>8, <1>10 DEF NextStatus
  <2>2. Needed(s.failAt) \in Nat
    BY <1>1 DEF Needed, Row
  <2> QED
    BY <1>4, <1>5, <2>1, <2>2
<1>11. ASSUME c.status = "down", row'[t].status \in {"up", "degraded"}
       PROVE  streak'[t].up >= Needed(s.recoverAt)
  <2>1. s.status = "down"
    BY <1>2, <1>11
  <2>2. obs # "down" /\ ~(Bump(s.succs) < Needed(s.recoverAt))
    BY <1>8, <1>11, <2>1 DEF NextStatus
  <2>3. Needed(s.recoverAt) \in Nat
    BY <1>1 DEF Needed, Row
  <2> QED
    BY <1>4, <1>5, <2>2, <2>3
<1> QED
  BY <1>9, <1>10, <1>11 DEF t, s, c

\* A written result changes its own target, and its run is free.
LEMMA RecordElsewhere ==
  ASSUME IInv, NEW r \in Runs, NEW obs \in Observed, Record(r, obs)
  PROVE  /\ \A u \in Targets : u # flight[r].target => row'[u] = row[u] /\ streak'[u] = streak[u]
         /\ flight'[r] = Idle
         /\ \A q \in Runs : q # r => flight'[q] = flight[q]
         /\ live' = live
BY DEF Record, IInv, TypeOK

\* Checks keep both: only the one check of a target counts.
LEMMA CheckKeepsCounts ==
  ASSUME ~ManualChecks, EInv, NEW r \in Runs, CheckStep(r)
  PROVE  CountsAreCovered' /\ FlightIsAlone'
<1>1. ASSUME NEW obs \in Observed, Record(r, obs) PROVE CountsAreCovered' /\ FlightIsAlone'
  <2>1. CountsAreCovered'
    BY <1>1, RecordCounts, RecordElsewhere DEF EInv, CountsAreCovered
  <2>2. FlightIsAlone'
    <3> SUFFICES ASSUME NEW q \in Runs, flight'[q].target # NoTarget
                 PROVE  LET t == flight'[q].target
                            s == flight'[q].row
                        IN /\ flight'[q].by = "schedule" /\ t \in live'
                           /\ \A p \in Runs : flight'[p].target = t => p = q
                           /\ row'[t].fails \in {s.fails, 0} /\ row'[t].succs \in {s.succs, 0}
                           /\ row'[t].status \in {s.status, "paused", "unknown"}
                           /\ s.fails <= streak'[t].down /\ s.succs <= streak'[t].up
      BY DEF FlightIsAlone
    <3>1. q # r /\ flight'[q] = flight[q]
      BY <1>1, RecordElsewhere DEF EInv, Idle
    <3>2. flight[q].target # flight[r].target /\ flight[q].target \in Targets
      BY <3>1, ConstantsAssumption DEF EInv, FlightIsAlone, IInv, TypeOK, Flight
    <3>3. /\ row'[flight[q].target] = row[flight[q].target]
          /\ streak'[flight[q].target] = streak[flight[q].target]
      BY <1>1, <3>2, RecordElsewhere DEF EInv
    <3>4. \A p \in Runs : flight'[p].target = flight[q].target => p = q
      BY <1>1, <3>1, RecordElsewhere DEF EInv, FlightIsAlone, Idle
    <3>5. live' = live
      BY <1>1, RecordElsewhere DEF EInv
    <3> QED
      BY <3>1, <3>3, <3>4, <3>5 DEF EInv, FlightIsAlone
  <2> QED
    BY <2>1, <2>2
<1>2. ASSUME NEW t \in Targets, StartScheduled(r, t) PROVE CountsAreCovered' /\ FlightIsAlone'
  <2>1. /\ flight' = [flight EXCEPT ![r] = [target |-> t, by |-> "schedule", row |-> row[t]]]
        /\ UNCHANGED <<live, row, streak>>
        /\ t \in live /\ flight[r] = Idle
        /\ \A q \in Runs : ~(flight[q].target = t /\ flight[q].by = "schedule")
    BY <1>2 DEF StartScheduled, Start
  <2>2. t # NoTarget
    BY ConstantsAssumption
  <2>3. \A q \in Runs : flight[q].target # t
    BY <2>1, <2>2 DEF EInv, FlightIsAlone
  <2>4. /\ flight'[r] = [target |-> t, by |-> "schedule", row |-> row[t]]
        /\ \A q \in Runs : q # r => flight'[q] = flight[q]
    BY <2>1 DEF EInv, IInv, TypeOK
  <2>5. row[t].fails <= streak[t].down /\ row[t].succs <= streak[t].up
    BY DEF EInv, CountsAreCovered
  <2> QED
    BY <2>1, <2>3, <2>4, <2>5 DEF EInv, CountsAreCovered, FlightIsAlone
<1>3. CASE LoseRun(r)
  <2>1. /\ flight'[r] = Idle /\ \A q \in Runs : q # r => flight'[q] = flight[q]
        /\ UNCHANGED <<live, row, streak>>
    BY <1>3 DEF LoseRun, EInv, IInv, TypeOK
  <2> QED
    BY <2>1 DEF EInv, CountsAreCovered, FlightIsAlone, Idle
<1> QED
  BY <1>1, <1>2, <1>3
  DEF CheckStep, StartByHand, Finish, FinishQuietly, OpenOutage, ContinueOutage, Recover, Observed

\* Requests keep both, and only ever pause a word or forget it.
LEMMA RequestKeepsCounts ==
  ASSUME Removable = {}, EInv, NEW t \in Targets, RequestStep(t)
  PROVE  /\ CountsAreCovered' /\ FlightIsAlone'
         /\ \A u \in Targets : row'[u].status \in {row[u].status, "paused", "unknown"}
<1>1. UNCHANGED <<streak, flight>> /\ live \subseteq live'
  BY DEF RequestStep, Create, Edit, Pause, Resume, FollowUp, Unwatch, Delete, FailDelete,
         RemoveDevice, EInv, DeletesAllowed
<1>2. ASSUME NEW u \in Targets
      PROVE  \/ t = u /\ t \notin live /\ row'[u].fails = 0 /\ row'[u].succs = 0 /\ row'[u].status = "unknown"
             \/ /\ row'[u].fails \in {row[u].fails, 0} /\ row'[u].succs \in {row[u].succs, 0}
                /\ row'[u].status \in {row[u].status, "paused", "unknown"}
  <2>1. row[u] \in Row /\ row[t] \in Row
    BY DEF EInv, IInv, TypeOK
  <2>2. CASE \E f, g \in Thresholds, p \in Targets \cup {NoTarget} : Create(t, f, g, p)
    BY <2>1, <2>2 DEF Create, EInv, IInv, TypeOK
  <2>3. CASE \E f, g \in Thresholds, p \in Targets \cup {NoTarget} : Edit(t, f, g, p)
    BY <2>1, <2>3 DEF Edit, EInv, IInv, TypeOK, Row
  <2>4. CASE Pause(t)
    BY <2>1, <2>4 DEF Pause, EInv, IInv, TypeOK, Row
  <2>5. CASE Resume(t)
    <3>1. row' = [row EXCEPT ![t] = [row[t] EXCEPT !.enabled = TRUE, !.status = "unknown",
                                                   !.fails = 0, !.succs = 0]]
      BY <2>5 DEF Resume
    <3>2. CASE u = t
      BY <2>1, <3>1, <3>2 DEF EInv, IInv, TypeOK, Row
    <3>3. CASE u # t
      BY <2>1, <3>1, <3>3 DEF EInv, IInv, TypeOK
    <3> QED
      BY <3>2, <3>3
  <2>6. CASE UNCHANGED row
    BY <2>1, <2>6
  <2> QED
    BY <2>2, <2>3, <2>4, <2>5, <2>6
    DEF RequestStep, FollowUp, Unwatch, Delete, FailDelete, RemoveDevice, EInv, DeletesAllowed
<1>3. \A u \in Targets : /\ row[u] \in Row /\ streak[u] \in [down : 0..Cap, up : 0..Cap]
  BY DEF EInv, IInv, TypeOK
<1>4. CountsAreCovered'
  <2> SUFFICES ASSUME NEW u \in Targets
               PROVE  row'[u].fails <= streak'[u].down /\ row'[u].succs <= streak'[u].up
    BY DEF CountsAreCovered
  <2>1. row[u].fails <= streak[u].down /\ row[u].succs <= streak[u].up
    BY DEF EInv, CountsAreCovered
  <2>2. streak'[u] = streak[u] /\ 0 <= streak[u].down /\ 0 <= streak[u].up
    BY <1>1, <1>3
  <2> QED
    BY <1>2, <2>1, <2>2
<1>5. FlightIsAlone'
  <2> SUFFICES ASSUME NEW r \in Runs, flight[r].target # NoTarget
               PROVE  LET u == flight[r].target
                          s == flight[r].row
                      IN /\ flight[r].by = "schedule" /\ u \in live'
                         /\ \A q \in Runs : flight[q].target = u => q = r
                         /\ row'[u].fails \in {s.fails, 0} /\ row'[u].succs \in {s.succs, 0}
                         /\ row'[u].status \in {s.status, "paused", "unknown"}
                         /\ s.fails <= streak[u].down /\ s.succs <= streak[u].up
    BY <1>1 DEF FlightIsAlone
  <2> DEFINE u == flight[r].target
             s == flight[r].row
  <2>1. /\ flight[r].by = "schedule" /\ u \in live /\ u \in Targets
        /\ \A q \in Runs : flight[q].target = u => q = r
        /\ row[u].fails \in {s.fails, 0} /\ row[u].succs \in {s.succs, 0}
        /\ row[u].status \in {s.status, "paused", "unknown"}
        /\ s.fails <= streak[u].down /\ s.succs <= streak[u].up
    BY DEF EInv, FlightIsAlone, IInv, TypeOK
  <2>2. /\ row'[u].fails \in {row[u].fails, 0} /\ row'[u].succs \in {row[u].succs, 0}
        /\ row'[u].status \in {row[u].status, "paused", "unknown"}
    BY <1>2, <2>1
  <2> QED
    BY <1>1, <2>1, <2>2
<1>6. \A u \in Targets : row'[u].status \in {row[u].status, "paused", "unknown"}
  BY <1>2
<1> QED
  BY <1>4, <1>5, <1>6

\* Every step keeps the invariant.
LEMMA StepKeepsCounts ==
  ASSUME ~ManualChecks, Removable = {}, EInv, [Next]_vars PROVE EInv'
<1>1. IInv' /\ DeletesAllowed'
  BY StepIInv, StepKeepsDeletes DEF EInv
<1>2. ASSUME UNCHANGED <<live, row, streak>>, \A r \in Runs : flight'[r] \in {flight[r], Idle}
      PROVE  CountsAreCovered' /\ FlightIsAlone'
  BY <1>2 DEF EInv, CountsAreCovered, FlightIsAlone, Idle
<1>3. CASE Restart
  BY <1>1, <1>2, <1>3 DEF Restart, EInv
<1>4. CASE UNCHANGED vars
  BY <1>1, <1>2, <1>4 DEF vars, EInv
<1> QED
  BY <1>1, <1>3, <1>4, CheckKeepsCounts, RequestKeepsCounts DEF Next, EInv

\* Only a result that is written makes a word bad or good.
LEMMA WordsAreWritten ==
  ASSUME Removable = {}, EInv, [Next]_vars, NEW t \in Targets,
         row'[t].status # row[t].status, row'[t].status \notin {"paused", "unknown"}
  PROVE  \E r \in Runs, obs \in Observed : Record(r, obs) /\ flight[r].target = t
<1>1. \E r \in Runs : CheckStep(r)
  BY RequestKeepsCounts DEF Next, Restart, vars
<1>2. PICK r \in Runs, obs \in Observed : Record(r, obs)
  BY <1>1 DEF CheckStep, Finish, FinishQuietly, OpenOutage, ContinueOutage, Recover, LoseRun,
              StartScheduled, StartByHand, Start, Observed
<1>3. flight[r].target = t
  BY <1>2, RecordElsewhere DEF EInv
<1> QED
  BY <1>2, <1>3

\* What it takes to call a target down, or good again.
EarnedStep ==
  \A t \in Targets :
    /\ row[t].status # "down" /\ row'[t].status = "down" =>
         \E r \in Runs : /\ flight[r].target = t
                         /\ flight'[r] = Idle
                         /\ streak'[t].down >= Needed(flight[r].row.failAt)
    /\ row[t].status = "down" /\ row'[t].status \in {"up", "degraded"} =>
         \E r \in Runs : /\ flight[r].target = t
                         /\ flight'[r] = Idle
                         /\ streak'[t].up >= Needed(flight[r].row.recoverAt)

\* Every change of word is earned.
LEMMA StepIsEarned ==
  ASSUME Removable = {}, EInv, [Next]_vars PROVE EarnedStep
<1> SUFFICES ASSUME NEW t \in Targets,
                    row'[t].status # row[t].status, row'[t].status \notin {"paused", "unknown"}
             PROVE  \E r \in Runs :
                      /\ flight[r].target = t
                      /\ flight'[r] = Idle
                      /\ row[t].status # "down" /\ row'[t].status = "down"
                           => streak'[t].down >= Needed(flight[r].row.failAt)
                      /\ row[t].status = "down" /\ row'[t].status \in {"up", "degraded"}
                           => streak'[t].up >= Needed(flight[r].row.recoverAt)
  BY DEF EarnedStep
<1>1. PICK r \in Runs, obs \in Observed : Record(r, obs) /\ flight[r].target = t
  BY WordsAreWritten
<1>2. flight'[r] = Idle
  BY <1>1, RecordElsewhere DEF EInv
<1> QED
  BY <1>1, <1>2, RecordCounts

\* It holds to begin with.
LEMMA InitCounts == Init => EInv
<1> SUFFICES ASSUME Init PROVE EInv
  OBVIOUS
<1>1. IInv /\ DeletesAllowed
  BY InitIInv DEF Init, DeletesAllowed
<1>2. CountsAreCovered /\ FlightIsAlone
  BY DEF Init, CountsAreCovered, FlightIsAlone, NoRow, Tail0, Idle
<1> QED
  BY <1>1, <1>2 DEF EInv

\* ... in every behaviour.
LEMMA WordsAreEarned ==
  ~ManualChecks /\ Removable = {} => (Spec => [][EarnedStep]_vars)
<1> SUFFICES ASSUME ~ManualChecks, Removable = {} PROVE Spec => [][EarnedStep]_vars
  OBVIOUS
<1>1. EInv /\ [Next]_vars => EInv'
  BY StepKeepsCounts
<1>2. EInv /\ [Next]_vars => [EarnedStep]_vars
  BY StepIsEarned
<1> QED
  BY InitCounts, <1>1, <1>2, PTL DEF Spec

\* With checks on the schedule only, and targets that stay, a target is called
\* down only after as many failures on record, one after the other, as its
\* threshold asked; whatever is edited, paused and resumed meanwhile.
THEOREM DownHasItsFailures ==
  ~ManualChecks /\ Removable = {} => (Spec => DownIsEarned)
<1>1. [EarnedStep]_vars =>
        [\A t \in Targets : row[t].status # "down" /\ row'[t].status = "down" =>
           \E r \in Runs : /\ flight[r].target = t
                           /\ flight'[r] = Idle
                           /\ streak'[t].down >= Needed(flight[r].row.failAt)]_vars
  BY DEF EarnedStep
<1> QED
  BY WordsAreEarned, <1>1, PTL DEF DownIsEarned

\* ... and called good again only after as many good results.
THEOREM RecoveryHasItsSuccesses ==
  ~ManualChecks /\ Removable = {} => (Spec => RecoveryIsEarned)
<1>1. [EarnedStep]_vars =>
        [\A t \in Targets : row[t].status = "down" /\ row'[t].status \in {"up", "degraded"} =>
           \E r \in Runs : /\ flight[r].target = t
                           /\ flight'[r] = Idle
                           /\ streak'[t].up >= Needed(flight[r].row.recoverAt)]_vars
  BY DEF EarnedStep
<1> QED
  BY WordsAreEarned, <1>1, PTL DEF RecoveryIsEarned
=============================================================================
