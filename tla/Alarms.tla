--------------------------------- MODULE Alarms --------------------------------
(***************************************************************************)
(* Everything that alerts about a device, and what keeps it quiet:         *)
(* threshold rules and their incidents (snmp_alerts.py, and storage,       *)
(* credentials, TrueNAS, Proxmox and custom metrics through its step),     *)
(* SNMP silence and target outages (alerts.py), the internet check         *)
(* (internet.py), against the mute list, suppressions (suppressions.py),   *)
(* the alerting switch and maintenance windows (maintenance.py).           *)
(*                                                                         *)
(* Each alarm decides in the transaction of the poll or check that saw it; *)
(* windows begin and end by the clock; a job looks every minute for the    *)
(* ends that nobody has dealt with and tells what they held back.          *)
(***************************************************************************)
EXTENDS Naturals, FiniteSets

CONSTANTS
  Devices,       \* devices
  Below,         \* Below[d]: the devices under d on the map
  Alarms,        \* the things that can alert
  Kind,          \* Kind[a]: "rule", "internet", "silence" or "outage"
  Owner,         \* Owner[a]: the device it is about; the gateway for internet
  AtOnce,        \* rules that fire at the first reading over their line
  Monitored,     \* the sets of alarms that are watched together (bound)
  Windows,       \* maintenance windows, numbered in the order of their ids
  Weekly,        \* those that come back every week
  WindowDevice,  \* WindowDevice[w]: the device a window is set on
  WithBelow      \* windows that take in what is below their device

ASSUME ConstantsAssumption ==
  /\ Below \in [Devices -> SUBSET Devices]
  /\ Kind \in [Alarms -> {"rule", "internet", "silence", "outage"}]
  /\ Owner \in [Alarms -> Devices]
  /\ AtOnce \subseteq Alarms
  /\ Monitored \subseteq SUBSET Alarms
  /\ Windows \subseteq Nat
  /\ Weekly \subseteq Windows /\ WithBelow \subseteq Windows
  /\ WindowDevice \in [Windows -> Devices]

VARIABLES
  watched,     \* the alarms watched in this behaviour
  alarm,       \* alarm[a]: alert_state and alert_incident (incident, target)
  explained,   \* outages opened while something above was down
  news,        \* news[a]: the last message queued about a; "twice" if it had been told
  held,        \* alarms whose bad news a window, and nothing else, kept back
  window,      \* the maintenance_window table
  muted,       \* devices on the mute list
  off,         \* alarms a suppression switches off
  alerting,    \* whether alerting is switched on
  internetOn,  \* whether the internet checks are switched on
  checking     \* whether an internet check that read that is in the air

settings == <<muted, off, alerting>>
net      == <<internetOn, checking>>
vars     == <<watched, alarm, explained, news, held, window, settings, net>>

Phases == {"absent", "before", "on", "after"}

AlarmRow  == [state : {"none", "streak", "fired"}, told : BOOLEAN, incident : BOOLEAN]
Quiet     == [state |-> "none", told |-> FALSE, incident |-> FALSE]
WindowRow == [phase : Phases, pending : BOOLEAN]
NoWindow  == [phase |-> "absent", pending |-> FALSE]

TypeOK ==
  /\ watched \in SUBSET Alarms
  /\ alarm \in [Alarms -> AlarmRow]
  /\ explained \subseteq Alarms
  /\ news \in [Alarms -> {"none", "bad", "twice", "ok"}]
  /\ held \subseteq Alarms
  /\ window \in [Windows -> WindowRow]
  /\ muted \subseteq Devices /\ off \subseteq Alarms
  /\ alerting \in BOOLEAN /\ internetOn \in BOOLEAN /\ checking \in BOOLEAN

Init ==
  /\ watched \in Monitored
  /\ alarm = [a \in Alarms |-> Quiet]
  /\ explained = {}
  /\ news = [a \in Alarms |-> "none"]
  /\ held = {}
  /\ window = [w \in Windows |-> NoWindow]
  /\ muted = {} /\ off = {}
  /\ alerting = TRUE /\ internetOn = TRUE /\ checking = FALSE

-----------------------------------------------------------------------------
(* Who is quiet. *)

Covers(w) == {WindowDevice[w]} \cup (IF w \in WithBelow THEN Below[WindowDevice[w]] ELSE {})

Least(S) == CHOOSE w \in S : \A v \in S : w <= v

\* covering: the one window a device is said to be under, of the windows on
\* now: its own first, then one above, each in the order of the table.
Covering(W, d) ==
  LET on  == {w \in W : window[w].phase = "on" /\ d \in Covers(w)}
      own == {w \in on : WindowDevice[w] = d}
  IN IF own # {} THEN {Least(own)} ELSE IF on # {} THEN {Least(on)} ELSE {}

UnderWindow(d) == \E w \in Windows : window[w].phase = "on" /\ d \in Covers(w)

\* is_quiet, and the switch.
Sending(d) == alerting /\ d \notin muted /\ ~UnderWindow(d)

\* A window, and nothing else, is what keeps bad news back.
HeldBack(d) == alerting /\ d \notin muted /\ UnderWindow(d)

Down(d) == \E a \in watched : Kind[a] = "outage" /\ Owner[a] = d /\ alarm[a].state = "fired"

UpstreamDown(d) == \E e \in Devices : d \in Below[e] /\ Down(e)

-----------------------------------------------------------------------------
(* Threshold rules. *)

Bad(a) == IF alarm[a].told THEN "twice" ELSE "bad"

\* What became of alarm a: its row, and the message about it, if any.
Becomes(a, row, message) ==
  /\ alarm' = [alarm EXCEPT ![a] = row]
  /\ news' = [news EXCEPT ![a] = CASE message = "none" -> @
                                   [] message = "bad"  -> Bad(a)
                                   [] message = "ok"   -> "ok"]

\* _step: the streak of one rule after one reading.  long: over the line for
\* the whole of its time, on enough readings and without a gap between them
\* (after a gap the streak starts again).
Step(a, reading, long) ==
  LET state == alarm[a].state
  IN CASE reading = "over" /\ state = "none" -> IF a \in AtOnce THEN "fired" ELSE "streak"
       [] reading = "over" /\ state = "streak" -> IF long THEN "fired" ELSE "streak"
       [] reading # "under" /\ state = "fired" -> "fired"
       [] OTHER -> "none"

\* A mutant: a recovery is sent whoever was told.
ReadForgetsTold(a, reading, long, ruleOn, recoveries, silent) ==
  LET was   == alarm[a]
      state == Step(a, reading, long)
      on    == ruleOn /\ a \notin off
      fires == state = "fired" /\ was.state # "fired"
      tells == fires /\ on /\ Sending(Owner[a]) /\ ~silent
  IN /\ Becomes(a, [state    |-> state,
                    told     |-> state = "fired" /\ (was.told \/ tells),
                    incident |-> state = "fired" /\ (was.incident \/ on)],
                CASE tells -> "bad"
                  [] state = "none" /\ was.state = "fired" /\ recoveries /\ Sending(Owner[a]) -> "ok"
                  [] OTHER -> "none")
     /\ held' = IF state # "fired" THEN held \ {a}
                ELSE IF fires /\ on /\ HeldBack(Owner[a]) THEN held \cup {a} ELSE held

\* One reading of one rule, with what the caller does with its outcome.  An
\* incident is kept while it stands and the rule is on; a message goes out if
\* it may, and good news only if the bad went out.  silent: what the internet
\* check leaves to the gateway's own alert.
Read(a, reading, long, ruleOn, recoveries, silent) ==
  LET was    == alarm[a]
      state  == Step(a, reading, long)
      on     == ruleOn /\ a \notin off
      fires  == state = "fired" /\ was.state # "fired"
      clears == state # "fired" /\ was.state = "fired"
      tells  == fires /\ on /\ Sending(Owner[a]) /\ ~silent
  IN /\ Becomes(a, [state    |-> state,
                    told     |-> state = "fired" /\ (was.told \/ tells),
                    incident |-> state = "fired" /\ (was.incident \/ on)],
                CASE tells -> "bad"
                  [] clears /\ was.told /\ recoveries /\ Sending(Owner[a]) -> "ok"
                  [] OTHER -> "none")
     /\ held' = IF state # "fired" THEN held \ {a}
                ELSE IF fires /\ on /\ HeldBack(Owner[a]) THEN held \cup {a} ELSE held

\* evaluate: one poll's value of one rule, with the settings as they are
\* then.  A value that was not reported decides nothing.
Poll(a) ==
  /\ a \in watched /\ Kind[a] = "rule"
  /\ \E reading \in {"over", "band", "under"}, long, ruleOn, recoveries \in BOOLEAN :
       Read(a, reading, long, ruleOn, recoveries, FALSE)
  /\ UNCHANGED <<watched, explained, window, settings, net>>

\* A mutant: the incident outlives the rule's state.
ForgottenKeepsIncident(a) == [Quiet EXCEPT !.incident = alarm[a].incident]

Forgotten(a) == Quiet

\* forget, drop: what it was about is no longer watched (a port unstarred or
\* its slower speed accepted, a guest, drive, pool or credential gone).
Forget(a) ==
  /\ a \in watched /\ Kind[a] = "rule"
  /\ Becomes(a, Forgotten(a), "none")
  /\ held' = held \ {a}
  /\ UNCHANGED <<watched, explained, window, settings, net>>

-----------------------------------------------------------------------------
(* SNMP silence and outages. *)

\* on_snmp_poll, answered: the incident closes, whatever the settings; good
\* news only if this silence's "down" was queued.
Answer(a) ==
  /\ a \in watched /\ Kind[a] = "silence"
  /\ alarm[a].state = "fired"
  /\ \E notify, recoveries \in BOOLEAN :
       Becomes(a, Quiet,
               IF notify /\ recoveries /\ a \notin off /\ alarm[a].told /\ Sending(Owner[a])
               THEN "ok" ELSE "none")
  /\ held' = held \ {a}
  /\ UNCHANGED <<watched, explained, window, settings, net>>

\* ... and unanswered.  long: silent beyond the threshold.  A silence that is
\* explained, by the device's own target or by something above it, is not
\* told, and looked at again at the next poll.
Unanswered(a) ==
  /\ a \in watched /\ Kind[a] = "silence"
  /\ \E notify, long \in BOOLEAN :
       LET d     == Owner[a]
           says  == notify /\ long /\ a \notin off /\ ~Down(d) /\ ~UpstreamDown(d)
           tells == says /\ Sending(d) /\ ~alarm[a].told
       IN /\ Becomes(a, [state    |-> "fired",
                         told     |-> alarm[a].told \/ tells,
                         incident |-> alarm[a].incident \/ says],
                     IF tells THEN "bad" ELSE "none")
          /\ held' = IF says /\ ~alarm[a].told /\ HeldBack(d) THEN held \cup {a}
                     ELSE IF tells THEN held \ {a} ELSE held
  /\ UNCHANGED <<watched, explained, window, settings, net>>

\* on_target_transition: a target went down ...
GoesDown(a) ==
  /\ a \in watched /\ Kind[a] = "outage"
  /\ alarm[a].state = "none"
  /\ LET d    == Owner[a]
         tells == ~UpstreamDown(d) /\ Sending(d)
     IN /\ Becomes(a, [state |-> "fired", told |-> tells, incident |-> TRUE],
                   IF tells THEN "bad" ELSE "none")
        /\ explained' = IF UpstreamDown(d) THEN explained \cup {a} ELSE explained
        /\ held' = IF ~UpstreamDown(d) /\ HeldBack(d) THEN held \cup {a} ELSE held
  /\ UNCHANGED <<watched, window, settings, net>>

\* ... and came back.
ComesBack(a) ==
  /\ a \in watched /\ Kind[a] = "outage"
  /\ alarm[a].state = "fired"
  /\ \E recoveries \in BOOLEAN :
       Becomes(a, Quiet,
               IF recoveries /\ a \notin explained /\ alarm[a].told /\ Sending(Owner[a])
               THEN "ok" ELSE "none")
  /\ explained' = explained \ {a}
  /\ held' = held \ {a}
  /\ UNCHANGED <<watched, window, settings, net>>

-----------------------------------------------------------------------------
(* The internet. *)

\* run reads whether the checks are on, and spends seconds asking the world.
CheckInternet ==
  /\ \E a \in watched : Kind[a] = "internet"
  /\ internetOn /\ ~checking
  /\ checking' = TRUE
  /\ UNCHANGED <<watched, alarm, explained, news, held, window, settings, internetOn>>

\* record: what it found, whatever the switch says by now.  It needs two
\* checks in a row.  When the gateway does not answer either and a target of
\* the gateway is down, that target's message is the one sent.
RecordInternet(a) ==
  /\ a \in watched /\ Kind[a] = "internet"
  /\ checking
  /\ \E reading \in {"over", "under"}, gap, gatewayOk, ruleOn, recoveries \in BOOLEAN :
       Read(a, reading, ~gap, ruleOn, recoveries, ~gatewayOk /\ Down(Owner[a]))
  /\ checking' = FALSE
  /\ UNCHANGED <<watched, explained, window, settings, internetOn>>

\* The check fails, or SPARK stops meanwhile: nothing is recorded.
LoseInternetCheck ==
  /\ checking
  /\ checking' = FALSE
  /\ UNCHANGED <<watched, alarm, explained, news, held, window, settings, internetOn>>

SwitchInternet(a) ==
  /\ a \in watched /\ Kind[a] = "internet"
  /\ internetOn' = ~internetOn
  /\ IF internetOn
     THEN Becomes(a, Forgotten(a), "none") /\ held' = held \ {a}
     ELSE UNCHANGED <<alarm, news, held>>
  /\ UNCHANGED <<watched, explained, window, settings, checking>>

-----------------------------------------------------------------------------
(* Maintenance windows. *)

\* add: one that is to come, or has begun; a weekly one may be between two
\* of its weeks, and then begins with the next.
AddWindow(w) ==
  /\ window[w].phase = "absent"
  /\ \E phase \in {"before", "on"} \cup (IF w \in Weekly THEN {"after"} ELSE {}) :
       window' = [window EXCEPT ![w] = [phase |-> phase, pending |-> FALSE]]
  /\ UNCHANGED <<watched, alarm, explained, news, held, settings, net>>

\* The clock.  An end is pending until it is dealt with (finished_until).
WindowBegins(w) ==
  /\ window[w].phase \in {"before"} \cup (IF w \in Weekly THEN {"after"} ELSE {})
  /\ window' = [window EXCEPT ![w].phase = "on"]
  /\ UNCHANGED <<watched, alarm, explained, news, held, settings, net>>

WindowEnds(w) ==
  /\ window[w].phase = "on"
  /\ window' = [window EXCEPT ![w] = [phase |-> "after", pending |-> TRUE]]
  /\ UNCHANGED <<watched, alarm, explained, news, held, settings, net>>

\* Mutants: what another window still covers is told; a window that is taken
\* away counts itself as another.
TellableUnderAnother(W, on, a) ==
  /\ alerting /\ Owner[a] \notin muted
  /\ \E w \in W : Owner[a] \in Covers(w)

TellableUnderNone(W, on, a) ==
  /\ alerting /\ Owner[a] \notin muted
  /\ \E w \in W : Owner[a] \in Covers(w) /\ Covering(on, Owner[a]) = {}

\* _leftovers: the devices a window covered, not muted, and not under another.
Tellable(W, on, a) ==
  /\ alerting /\ Owner[a] \notin muted
  /\ \E w \in W : Owner[a] \in Covers(w) /\ Covering(on, Owner[a]) \subseteq {w}

LeftFor(a) ==
  /\ ~alarm[a].told /\ a \notin off
  /\ IF Kind[a] = "outage" THEN alarm[a].state = "fired" /\ a \notin explained
     ELSE alarm[a].incident /\ alarm[a].state = "fired"

\* The leftovers of the windows W, with the windows on taken as being on.
\* What they cover and do not tell (muted, alerting off) is not told later.
Leftovers(W, on) ==
  LET telling == {a \in watched : Tellable(W, on, a) /\ LeftFor(a)}
      excused == {a \in held : /\ \E w \in W : Owner[a] \in Covers(w)
                               /\ ~alerting \/ Owner[a] \in muted \/ a \in off}
  IN /\ alarm' = [a \in Alarms |-> IF a \in telling THEN [alarm[a] EXCEPT !.told = TRUE]
                                   ELSE alarm[a]]
     /\ news' = [a \in Alarms |-> IF a \in telling THEN Bad(a) ELSE news[a]]
     /\ held' = held \ (telling \cup excused)

\* A mutant: the ends of weekly windows are not looked for.
PendingOneOff == {w \in Windows \ Weekly : window[w].pending}

Pending == {w \in Windows : window[w].pending}

\* finish, every minute: every end since it last looked.
Finish ==
  /\ Pending # {}
  /\ Leftovers(Pending, Windows)
  /\ window' = [w \in Windows |-> [window[w] EXCEPT !.pending = FALSE]]
  /\ UNCHANGED <<watched, explained, settings, net>>

\* end_now: a one-off window that is on ends, and finish runs at once.
EndWindowNow(w) ==
  /\ w \notin Weekly
  /\ window[w].phase = "on"
  /\ Leftovers(Pending \cup {w}, Windows \ {w})
  /\ window' = [v \in Windows |-> [phase   |-> IF v = w THEN "after" ELSE window[v].phase,
                                   pending |-> FALSE]]
  /\ UNCHANGED <<watched, explained, settings, net>>

\* remove: one that is on is ended first, while it is still in the table.  One
\* whose end nobody has dealt with yet goes with what it held.
RemoveWindow(w) ==
  /\ window[w].phase # "absent"
  /\ IF window[w].phase = "on" THEN Leftovers({w}, Windows)
     ELSE /\ held' = IF window[w].pending THEN {a \in held : Owner[a] \notin Covers(w)} ELSE held
          /\ UNCHANGED <<alarm, news>>
  /\ window' = [window EXCEPT ![w] = NoWindow]
  /\ UNCHANGED <<watched, explained, settings, net>>

-----------------------------------------------------------------------------
(* People. *)

Mute(d) ==
  /\ muted' = IF d \in muted THEN muted \ {d} ELSE muted \cup {d}
  /\ UNCHANGED <<watched, alarm, explained, news, held, window, off, alerting, net>>

SwitchAlerting ==
  /\ alerting' = ~alerting
  /\ UNCHANGED <<watched, alarm, explained, news, held, window, muted, off, net>>

\* reset: a rule starts afresh.  Of a silence only the incident closes: its
\* message stays queued, and it is the same silence.
Reset(a) ==
  Becomes(a, IF Kind[a] = "rule" THEN Forgotten(a) ELSE [alarm[a] EXCEPT !.incident = FALSE],
          "none")

\* save, remove: off, or its own line, or neither; each begins with a reset.
Suppress(a, isOff) ==
  /\ a \in watched /\ Kind[a] \in {"rule", "silence"}
  /\ isOff \/ a \in off
  /\ off' = IF isOff THEN off \cup {a} ELSE off \ {a}
  /\ Reset(a)
  /\ held' = held \ {a}
  /\ UNCHANGED <<watched, explained, window, muted, alerting, net>>

Next ==
  \/ \E a \in Alarms : \/ Poll(a) \/ Forget(a)
                       \/ Answer(a) \/ Unanswered(a)
                       \/ GoesDown(a) \/ ComesBack(a)
                       \/ RecordInternet(a) \/ SwitchInternet(a)
                       \/ \E isOff \in BOOLEAN : Suppress(a, isOff)
  \/ CheckInternet \/ LoseInternetCheck
  \/ \E w \in Windows : \/ AddWindow(w) \/ WindowBegins(w) \/ WindowEnds(w)
                        \/ EndWindowNow(w) \/ RemoveWindow(w)
  \/ Finish
  \/ \E d \in Devices : Mute(d)
  \/ SwitchAlerting

\* The job runs every minute; nobody else need do anything.
Spec == Init /\ [][Next]_vars /\ WF_vars(Finish)
-----------------------------------------------------------------------------
(* Properties. *)

\* Every alarm, whatever raises it and whatever mutes, windows and
\* suppressions do meanwhile, is the alarm of Alarm.tla: bad news once while it
\* stands, good news only to who was told the bad (alerts.py, snmp_alerts.py:
\* "a recovery is sent only if the alert was").
AbstractAlarm == INSTANCE Alarm WITH
  standing <- {a \in Alarms : alarm[a].state = "fired"},
  told     <- {a \in Alarms : alarm[a].told},
  news     <- news
RefinesAlarm == AbstractAlarm!Spec

Says(a) == news'[a] # news[a] \/ (alarm'[a].told /\ ~alarm[a].told)

\* While a device is muted, alerting is off or a window covers the device, no
\* message about it is queued, by its own checks or by the end of another
\* window.  The two exceptions: a window taken away while it is on, and a
\* weekly one whose last end is dealt with a week late, tell what they held
\* without looking at every other window (covering names one).
NothingSaidWhileHeld ==
  [][\A a \in Alarms : Says(a) =>
       /\ alerting /\ Owner[a] \notin muted
       /\ \/ ~UnderWindow(Owner[a])'
          \/ \E w \in Windows : /\ window[w].phase = "on"
                                /\ window'[w].phase = "absent" \/ window[w].pending]_vars

\* What a window keeps back still has a window that will tell it: one that is
\* on, or whose end has not been dealt with (maintenance.py: "the one thing a
\* monitor that went quiet for the window must not miss").
HeldHasItsWindow ==
  \A a \in held : /\ alarm[a].state = "fired" /\ ~alarm[a].told
                  /\ \E w \in Windows : /\ Owner[a] \in Covers(w)
                                        /\ window[w].phase = "on" \/ window[w].pending

\* The page and the messages agree: what was told is an open incident, and no
\* incident outlives the state of its rule, through suppressions, rules
\* switched off and on, and things that are no longer watched.
ToldIsOnThePage ==
  \A a \in Alarms :
    /\ alarm[a].incident => alarm[a].state = "fired"
    /\ alarm[a].told /\ Kind[a] # "silence" => alarm[a].incident

\* Again and again there comes a time when everything held is told, or over,
\* or under a window: nothing waits for ever for a window that is gone.
LeftoversAreTold == []<>(\A a \in held : UnderWindow(Owner[a]))
===============================================================================
