----------------------------- MODULE AlarmsProofs -----------------------------
(***************************************************************************)
(* Theorems about the alarms, for any devices, alarms, windows and tree.   *)
(*                                                                         *)
(* The core is the refinement: each alarm, whatever raises it, only makes  *)
(* the moves of Alarm.tla.  It needs no more than that an alarm of which   *)
(* somebody was told still stands; the windows need the rest.              *)
(***************************************************************************)
EXTENDS Alarms, WellFoundedInduction, TLAPS

-----------------------------------------------------------------------------
(* The inductive invariant. *)

\* An alarm of which somebody was told stands.
ToldStands == \A a \in Alarms : alarm[a].told => alarm[a].state = "fired"

\* An outage that stands is on the page, and only outages that stand are
\* explained.
OutagesStand ==
  /\ \A a \in Alarms : Kind[a] = "outage" /\ alarm[a].state = "fired" => alarm[a].incident
  /\ \A a \in explained : Kind[a] = "outage" /\ alarm[a].state = "fired"

\* What is held is what the leftovers look for.
HeldIsLeft ==
  \A a \in held : /\ a \in watched /\ a \notin explained
                  /\ alarm[a].incident

\* A window that is not in the table has no end to deal with.
AbsentIsDone == \A w \in Windows : window[w].phase = "absent" => ~window[w].pending

IInv ==
  /\ TypeOK /\ ToldStands /\ ToldIsOnThePage /\ HeldHasItsWindow
  /\ OutagesStand /\ HeldIsLeft /\ AbsentIsDone

-----------------------------------------------------------------------------
(* One alarm, one step. *)

\* What a step may do to a row and the last message about it.
Moves(was, is, said, says) ==
  \/ was.state # "fired" /\ is.state = "fired" /\ says = (IF is.told THEN "bad" ELSE said)
  \/ was.state = "fired" /\ ~was.told /\ is.state = "fired" /\ is.told /\ says = "bad"
  \/ /\ was.state = "fired" /\ is.state # "fired" /\ ~is.told
     /\ says = said \/ (was.told /\ says = "ok")
  \/ /\ (was.state = "fired") <=> (is.state = "fired")
     /\ is.told <=> was.told
     /\ says = said

EachMoves == \A a \in Alarms : Moves(alarm[a], alarm'[a], news[a], news'[a])

\* A row that moves is an alarm that moves.
LEMMA MovesRefine == EachMoves => AbstractAlarm!Next
<1> SUFFICES ASSUME EachMoves, NEW a \in Alarms
             PROVE  \/ AbstractAlarm!Raise(a) \/ AbstractAlarm!Tell(a)
                    \/ AbstractAlarm!Clear(a) \/ AbstractAlarm!Rest(a)
  BY DEF AbstractAlarm!Next
<1>1. Moves(alarm[a], alarm'[a], news[a], news'[a])
  BY DEF EachMoves
<1> QED
  BY <1>1 DEF Moves, AbstractAlarm!Raise, AbstractAlarm!Tell, AbstractAlarm!Clear,
              AbstractAlarm!Rest

\* What NothingSaidWhileHeld says of one step.
QuietKept ==
  \A a \in Alarms : Says(a) =>
    /\ alerting /\ Owner[a] \notin muted
    /\ \/ ~UnderWindow(Owner[a])'
       \/ \E w \in Windows : /\ window[w].phase = "on"
                             /\ window'[w].phase = "absent" \/ window[w].pending

\* What every step is shown to do.
Good == IInv' /\ EachMoves /\ QuietKept

\* A row and the message it gives rise to: told of trouble that begins, or
\* later, or of its end, or nothing.
RowMoves(was, is, message) ==
  \/ was.state # "fired" /\ is.state = "fired" /\ message = (IF is.told THEN "bad" ELSE "none")
  \/ was.state = "fired" /\ ~was.told /\ is.state = "fired" /\ is.told /\ message = "bad"
  \/ /\ was.state = "fired" /\ is.state # "fired" /\ ~is.told
     /\ message = "none" \/ (was.told /\ message = "ok")
  \/ /\ (was.state = "fired") <=> (is.state = "fired")
     /\ is.told <=> was.told
     /\ message = "none"

\* A row that the page and the leftovers can rely on.
RowAgrees(a, row) ==
  /\ row.incident => row.state = "fired"
  /\ row.told /\ Kind[a] # "silence" => row.incident
  /\ Kind[a] = "outage" /\ row.state = "fired" => row.incident
  /\ a \in explained' => Kind[a] = "outage" /\ row.state = "fired"
  /\ a \in held' => /\ row.state = "fired" /\ ~row.told /\ row.incident
                    /\ a \in watched /\ a \notin explained'
                    /\ a \in held \/ UnderWindow(Owner[a])

\* Everything an alarm's own reading leaves alone.
OthersStay(a) ==
  /\ \A b \in Alarms \ {a} : /\ b \in held' => b \in held
                             /\ b \in explained' <=> b \in explained
  /\ UNCHANGED <<watched, window>>
  /\ held' \subseteq Alarms /\ explained' \subseteq Alarms
  /\ muted' \subseteq Devices /\ off' \subseteq Alarms
  /\ alerting' \in BOOLEAN /\ internetOn' \in BOOLEAN /\ checking' \in BOOLEAN

\* One alarm moves, by its own reading.
LEMMA OneAlarm ==
  ASSUME IInv, NEW a \in Alarms, NEW row \in AlarmRow, NEW message \in {"none", "bad", "ok"},
         Becomes(a, row, message), RowMoves(alarm[a], row, message), RowAgrees(a, row),
         OthersStay(a), message # "none" => Sending(Owner[a])
  PROVE  Good
<1>1. /\ alarm \in [Alarms -> AlarmRow]
      /\ news \in [Alarms -> {"none", "bad", "twice", "ok"}]
      /\ held \subseteq Alarms /\ explained \subseteq Alarms
  BY DEF IInv, TypeOK
<1>2. /\ alarm' \in [Alarms -> AlarmRow]
      /\ alarm'[a] = row
      /\ \A b \in Alarms \ {a} : alarm'[b] = alarm[b]
  BY <1>1 DEF Becomes
<1>3. /\ news' \in [Alarms -> {"none", "bad", "twice", "ok"}]
      /\ news'[a] = (IF message = "bad" THEN Bad(a) ELSE IF message = "ok" THEN "ok" ELSE news[a])
      /\ \A b \in Alarms \ {a} : news'[b] = news[b]
  BY <1>1 DEF Becomes, Bad
<1>4. EachMoves
  <2>1. Moves(alarm[a], alarm'[a], news[a], news'[a])
    BY <1>2, <1>3 DEF RowMoves, Moves, Bad, IInv, ToldStands
  <2>2. ASSUME NEW b \in Alarms \ {a} PROVE Moves(alarm[b], alarm'[b], news[b], news'[b])
    BY <1>2, <1>3 DEF Moves
  <2> QED
    BY <2>1, <2>2 DEF EachMoves
<1>5. TypeOK'
  BY <1>2, <1>3 DEF IInv, TypeOK, OthersStay
<1>6. ToldStands'
  BY <1>2 DEF IInv, ToldStands, RowMoves
<1>7. ToldIsOnThePage'
  BY <1>2 DEF IInv, ToldIsOnThePage, RowAgrees
<1>8. OutagesStand'
  BY <1>1, <1>2 DEF IInv, OutagesStand, RowAgrees, OthersStay
<1>9. HeldIsLeft'
  BY <1>1, <1>2 DEF IInv, HeldIsLeft, RowAgrees, OthersStay
<1>10. HeldHasItsWindow'
  <2> SUFFICES ASSUME NEW b \in held'
               PROVE  /\ alarm'[b].state = "fired" /\ ~alarm'[b].told
                      /\ \E w \in Windows : /\ Owner[b] \in Covers(w)
                                            /\ window'[w].phase = "on" \/ window'[w].pending
    BY DEF HeldHasItsWindow
  <2>1. CASE b \in held
    BY <1>1, <1>2, <2>1 DEF IInv, HeldHasItsWindow, RowAgrees, OthersStay
  <2>2. CASE b \notin held
    <3>1. b = a
      BY <2>2 DEF OthersStay
    <3> QED
      BY <1>2, <2>2, <3>1 DEF RowAgrees, OthersStay, UnderWindow
  <2> QED
    BY <2>1, <2>2
<1>11. AbsentIsDone'
  BY DEF IInv, AbsentIsDone, OthersStay
<1>12. QuietKept
  <2> SUFFICES ASSUME NEW b \in Alarms, Says(b)
               PROVE  alerting /\ Owner[b] \notin muted /\ ~UnderWindow(Owner[b])'
    BY DEF QuietKept
  <2>1. b = a /\ message # "none"
    BY <1>2, <1>3 DEF Says, RowMoves
  <2>2. Sending(Owner[b])
    BY <2>1
  <2> QED
    BY <2>2 DEF Sending, UnderWindow, OthersStay
<1> QED
  BY <1>4, <1>5, <1>6, <1>7, <1>8, <1>9, <1>10, <1>11, <1>12 DEF Good, IInv

-----------------------------------------------------------------------------
(* Threshold rules and the internet. *)

\* A streak is no trouble yet.
LEMMA StepType ==
  ASSUME NEW a, NEW reading, NEW long PROVE Step(a, reading, long) \in {"none", "streak", "fired"}
BY DEF Step

\* A reading tells trouble as it begins, and its end only after the telling.
LEMMA ReadIsGood ==
  ASSUME IInv, NEW a \in watched, Kind[a] # "outage", Kind[a] # "silence",
         NEW reading, NEW long, NEW ruleOn \in BOOLEAN, NEW recoveries \in BOOLEAN, NEW silent,
         Read(a, reading, long, ruleOn, recoveries, silent),
         UNCHANGED <<watched, explained, window, settings, internetOn>>,
         checking' \in BOOLEAN
  PROVE  Good
<1> DEFINE was    == alarm[a]
           state  == Step(a, reading, long)
           ison   == ruleOn /\ a \notin off
           fires  == state = "fired" /\ was.state # "fired"
           clears == state # "fired" /\ was.state = "fired"
           tells  == fires /\ ison /\ Sending(Owner[a]) /\ ~silent
           row    == [state    |-> state,
                      told     |-> state = "fired" /\ (was.told \/ tells),
                      incident |-> state = "fired" /\ (was.incident \/ ison)]
           message == CASE tells -> "bad"
                        [] clears /\ was.told /\ recoveries /\ Sending(Owner[a]) -> "ok"
                        [] OTHER -> "none"
<1>1. /\ Becomes(a, row, message)
      /\ held' = IF state # "fired" THEN held \ {a}
                 ELSE IF fires /\ ison /\ HeldBack(Owner[a]) THEN held \cup {a} ELSE held
  BY DEF Read
<1>2. /\ a \in Alarms /\ was \in AlarmRow /\ held \subseteq Alarms /\ explained \subseteq Alarms
      /\ muted \subseteq Devices /\ off \subseteq Alarms /\ alerting \in BOOLEAN
      /\ internetOn \in BOOLEAN
      /\ a \notin explained
  BY DEF IInv, TypeOK, OutagesStand
<1>3. state \in {"none", "streak", "fired"}
  BY StepType
<1>4. /\ was.told => was.state = "fired"
      /\ was.incident => was.state = "fired"
      /\ was.told => was.incident
      /\ a \in held => was.state = "fired" /\ ~was.told /\ was.incident /\ a \notin explained
  BY <1>2 DEF IInv, ToldStands, ToldIsOnThePage, HeldHasItsWindow, HeldIsLeft
<1> HIDE DEF was, state
<1>5. row \in AlarmRow /\ row.state = state /\ message \in {"none", "bad", "ok"}
      /\ row.told = (state = "fired" /\ (was.told \/ tells))
      /\ row.incident = (state = "fired" /\ (was.incident \/ ison))
  BY <1>3 DEF AlarmRow
<1>6. RowMoves(was, row, message)
  <2>1. CASE fires
    BY <1>4, <1>5, <2>1 DEF RowMoves
  <2>2. CASE clears
    BY <1>4, <1>5, <2>2 DEF RowMoves
  <2>3. CASE ~fires /\ ~clears
    BY <1>4, <1>5, <2>3 DEF RowMoves
  <2> QED
    BY <2>1, <2>2, <2>3
<1>7. message # "none" => Sending(Owner[a])
  OBVIOUS
<1>8. Sending(Owner[a]) => ~HeldBack(Owner[a])
  BY DEF Sending, HeldBack
<1> HIDE DEF row, message
<1>9. RowAgrees(a, row)
  BY <1>1, <1>2, <1>4, <1>5, <1>8 DEF RowAgrees, HeldBack
<1>10. OthersStay(a)
  BY <1>1, <1>2 DEF OthersStay, settings
<1> QED
  BY <1>1, <1>2, <1>5, <1>6, <1>7, <1>9, <1>10, OneAlarm DEF was

LEMMA PollIsGood == ASSUME IInv, NEW a \in Alarms, Poll(a) PROVE Good
<1>1. PICK reading \in {"over", "band", "under"}, long \in BOOLEAN, ruleOn \in BOOLEAN,
           recoveries \in BOOLEAN : Read(a, reading, long, ruleOn, recoveries, FALSE)
  BY DEF Poll
<1>2. checking' \in BOOLEAN
  BY DEF Poll, net, IInv, TypeOK
<1>3. /\ a \in watched /\ Kind[a] = "rule"
      /\ UNCHANGED <<watched, explained, window, settings, internetOn>>
  BY Zenon DEF Poll, net
<1>4. Kind[a] # "outage" /\ Kind[a] # "silence"
  BY <1>3
<1>5. FALSE \in BOOLEAN
  OBVIOUS
<1> QED
  BY <1>1, <1>2, <1>3, <1>4, <1>5, ReadIsGood, Zenon

LEMMA RecordInternetIsGood == ASSUME IInv, NEW a \in Alarms, RecordInternet(a) PROVE Good
<1>1. PICK reading \in {"over", "under"}, gap \in BOOLEAN, gatewayOk \in BOOLEAN,
           ruleOn \in BOOLEAN, recoveries \in BOOLEAN :
             Read(a, reading, ~gap, ruleOn, recoveries, ~gatewayOk /\ Down(Owner[a]))
  BY DEF RecordInternet
<1>2. checking' \in BOOLEAN
  BY DEF RecordInternet
<1> QED
  BY <1>1, <1>2, ReadIsGood DEF RecordInternet

\* A rule that starts afresh says nothing, and leaves nothing behind.
LEMMA ForgottenIsGood ==
  ASSUME IInv, NEW a \in watched, Kind[a] # "outage", Becomes(a, Quiet, "none"),
         held' = held \ {a}, UNCHANGED <<watched, explained, window>>,
         muted' \subseteq Devices, off' \subseteq Alarms, alerting' \in BOOLEAN,
         internetOn' \in BOOLEAN, checking' \in BOOLEAN
  PROVE  Good
<1>1. a \in Alarms /\ held \subseteq Alarms /\ explained \subseteq Alarms /\ a \notin explained
  BY DEF IInv, TypeOK, OutagesStand
<1>2. Quiet \in AlarmRow
  BY DEF Quiet, AlarmRow
<1>3. RowMoves(alarm[a], Quiet, "none")
  BY <1>1 DEF RowMoves, Quiet, IInv, ToldStands
<1>4. RowAgrees(a, Quiet) /\ OthersStay(a)
  BY <1>1 DEF RowAgrees, OthersStay, Quiet
<1> QED
  BY <1>1, <1>2, <1>3, <1>4, OneAlarm

LEMMA ForgetIsGood == ASSUME IInv, NEW a \in Alarms, Forget(a) PROVE Good
BY ForgottenIsGood DEF Forget, Forgotten, settings, net, IInv, TypeOK

\* Steps that move no alarm: settings, checks in the air.
LEMMA NoAlarmMoves ==
  ASSUME IInv, UNCHANGED <<watched, alarm, explained, news, held, window>>,
         muted' \subseteq Devices, off' \subseteq Alarms, alerting' \in BOOLEAN,
         internetOn' \in BOOLEAN, checking' \in BOOLEAN
  PROVE  Good
<1>1. TypeOK' /\ ToldStands' /\ ToldIsOnThePage' /\ OutagesStand' /\ HeldIsLeft'
  BY DEF IInv, TypeOK, ToldStands, ToldIsOnThePage, OutagesStand, HeldIsLeft
<1>2. HeldHasItsWindow' /\ AbsentIsDone'
  BY DEF IInv, HeldHasItsWindow, AbsentIsDone
<1>3. EachMoves /\ QuietKept
  BY DEF EachMoves, Moves, QuietKept, Says
<1> QED
  BY <1>1, <1>2, <1>3 DEF Good, IInv

LEMMA SettingsAreGood ==
  ASSUME IInv,
         \/ \E a \in Alarms : SwitchInternet(a)
         \/ CheckInternet \/ LoseInternetCheck
         \/ \E d \in Devices : Mute(d)
         \/ SwitchAlerting
         \/ UNCHANGED vars
  PROVE  Good
<1>1. /\ muted \subseteq Devices /\ off \subseteq Alarms /\ alerting \in BOOLEAN
      /\ internetOn \in BOOLEAN /\ checking \in BOOLEAN
  BY DEF IInv, TypeOK
<1>2. ASSUME NEW a \in Alarms, SwitchInternet(a) PROVE Good
  <2>1. CASE internetOn
    BY <1>1, <1>2, <2>1, ForgottenIsGood DEF SwitchInternet, Forgotten, settings
  <2>2. CASE ~internetOn
    BY <1>1, <1>2, <2>2, NoAlarmMoves DEF SwitchInternet, settings
  <2> QED
    BY <2>1, <2>2
<1>3. CASE CheckInternet \/ LoseInternetCheck
  BY <1>1, <1>3, NoAlarmMoves DEF CheckInternet, LoseInternetCheck, settings
<1>4. ASSUME NEW d \in Devices, Mute(d) PROVE Good
  <2>1. muted' \subseteq Devices
    BY <1>1, <1>4 DEF Mute
  <2> QED
    BY <1>1, <1>4, <2>1, NoAlarmMoves DEF Mute, net
<1>5. CASE SwitchAlerting
  BY <1>1, <1>5, NoAlarmMoves DEF SwitchAlerting, net
<1>6. CASE UNCHANGED vars
  BY <1>1, <1>6, NoAlarmMoves DEF vars, settings, net
<1> QED
  BY <1>2, <1>3, <1>4, <1>5, <1>6

\* save, remove of a suppression.
LEMMA SuppressIsGood ==
  ASSUME IInv, NEW a \in Alarms, NEW isOff \in BOOLEAN, Suppress(a, isOff) PROVE Good
<1>1. /\ held \subseteq Alarms /\ explained \subseteq Alarms /\ off' \subseteq Alarms
      /\ muted' \subseteq Devices /\ alerting' \in BOOLEAN /\ internetOn' \in BOOLEAN
      /\ checking' \in BOOLEAN /\ UNCHANGED <<watched, explained, window>>
      /\ held' = held \ {a} /\ a \in watched
  BY DEF Suppress, net, IInv, TypeOK
<1>2. CASE Kind[a] = "rule"
  BY <1>1, <1>2, ForgottenIsGood DEF Suppress, Reset, Forgotten
<1>3. CASE Kind[a] = "silence"
  <2> DEFINE row == [alarm[a] EXCEPT !.incident = FALSE]
  <2>1. alarm[a] \in AlarmRow /\ a \notin explained
    BY <1>3 DEF IInv, TypeOK, OutagesStand
  <2>2. /\ row \in AlarmRow /\ row.state = alarm[a].state /\ row.told = alarm[a].told
        /\ ~row.incident
    BY <2>1 DEF AlarmRow
  <2>3. Becomes(a, row, "none")
    BY <1>3 DEF Suppress, Reset
  <2> HIDE DEF row
  <2>4. RowMoves(alarm[a], row, "none") /\ RowAgrees(a, row) /\ OthersStay(a)
    BY <1>1, <1>3, <2>1, <2>2 DEF RowMoves, RowAgrees, OthersStay
  <2> QED
    BY <2>2, <2>3, <2>4, OneAlarm
<1> QED
  BY <1>2, <1>3 DEF Suppress

-----------------------------------------------------------------------------
(* SNMP silence and outages. *)

LEMMA QuietRow ==
  ASSUME IInv, NEW a \in Alarms, alarm[a].state = "fired",
         NEW message \in {"none", "ok"}, message = "ok" => alarm[a].told
  PROVE  Quiet \in AlarmRow /\ RowMoves(alarm[a], Quiet, message)
BY DEF Quiet, AlarmRow, RowMoves

\* The device answers again.
LEMMA AnswerIsGood == ASSUME IInv, NEW a \in Alarms, Answer(a) PROVE Good
<1>1. PICK message \in {"none", "ok"} :
        /\ Becomes(a, Quiet, message)
        /\ message = "ok" => alarm[a].told /\ Sending(Owner[a])
  BY DEF Answer
<1>2. /\ held \subseteq Alarms /\ explained \subseteq Alarms /\ a \notin explained
      /\ muted \subseteq Devices /\ off \subseteq Alarms /\ alerting \in BOOLEAN
      /\ internetOn \in BOOLEAN /\ checking \in BOOLEAN
  BY DEF Answer, IInv, TypeOK, OutagesStand
<1>3. RowAgrees(a, Quiet) /\ OthersStay(a)
  BY <1>2 DEF Answer, RowAgrees, OthersStay, Quiet, settings, net
<1>4. Quiet \in AlarmRow /\ RowMoves(alarm[a], Quiet, message)
  BY <1>1, QuietRow DEF Answer
<1> QED
  BY <1>1, <1>3, <1>4, OneAlarm

\* The device does not answer.
LEMMA UnansweredIsGood == ASSUME IInv, NEW a \in Alarms, Unanswered(a) PROVE Good
<1> DEFINE d == Owner[a]
<1>1. PICK notify \in BOOLEAN, long \in BOOLEAN :
        LET says  == notify /\ long /\ a \notin off /\ ~Down(d) /\ ~UpstreamDown(d)
            tells == says /\ Sending(d) /\ ~alarm[a].told
        IN /\ Becomes(a, [state    |-> "fired",
                          told     |-> alarm[a].told \/ tells,
                          incident |-> alarm[a].incident \/ says],
                      IF tells THEN "bad" ELSE "none")
           /\ held' = IF says /\ ~alarm[a].told /\ HeldBack(d) THEN held \cup {a}
                      ELSE IF tells THEN held \ {a} ELSE held
  BY DEF Unanswered
<1> DEFINE says    == notify /\ long /\ a \notin off /\ ~Down(d) /\ ~UpstreamDown(d)
           tells   == says /\ Sending(d) /\ ~alarm[a].told
           row     == [state    |-> "fired",
                       told     |-> alarm[a].told \/ tells,
                       incident |-> alarm[a].incident \/ says]
           message == IF tells THEN "bad" ELSE "none"
<1>2. /\ Becomes(a, row, message)
      /\ held' = IF says /\ ~alarm[a].told /\ HeldBack(d) THEN held \cup {a}
                 ELSE IF tells THEN held \ {a} ELSE held
  BY <1>1
<1>3. /\ alarm[a] \in AlarmRow /\ held \subseteq Alarms /\ explained \subseteq Alarms
      /\ a \notin explained /\ a \in watched /\ Kind[a] = "silence"
      /\ muted \subseteq Devices /\ off \subseteq Alarms /\ alerting \in BOOLEAN
      /\ internetOn \in BOOLEAN /\ checking \in BOOLEAN
      /\ UNCHANGED <<watched, explained, window, muted, off, alerting, internetOn, checking>>
  BY DEF Unanswered, settings, net, IInv, TypeOK, OutagesStand
<1>4. /\ alarm[a].told => alarm[a].state = "fired"
      /\ a \in held => alarm[a].state = "fired" /\ ~alarm[a].told /\ alarm[a].incident
  BY DEF IInv, ToldStands, HeldHasItsWindow, HeldIsLeft
<1>5. HeldBack(d) => ~Sending(d) /\ UnderWindow(d)
  BY DEF Sending, HeldBack
<1>6. says \in BOOLEAN /\ tells \in BOOLEAN /\ (tells => Sending(d) /\ ~alarm[a].told)
  BY DEF Down, UpstreamDown
<1> HIDE DEF says, tells
<1>7. /\ row \in AlarmRow /\ row.state = "fired"
      /\ row.told <=> alarm[a].told \/ tells
      /\ row.incident <=> alarm[a].incident \/ says
  BY <1>3, <1>6 DEF AlarmRow
<1>8. message \in {"none", "bad"} /\ (message = "bad" <=> tells)
  OBVIOUS
<1> HIDE DEF row, message
<1>9. RowMoves(alarm[a], row, message)
  BY <1>4, <1>6, <1>7, <1>8 DEF RowMoves
<1>10. RowAgrees(a, row)
  BY <1>2, <1>3, <1>4, <1>5, <1>6, <1>7 DEF RowAgrees
<1>11. OthersStay(a)
  BY <1>2, <1>3 DEF OthersStay
<1> QED
  BY <1>2, <1>6, <1>7, <1>8, <1>9, <1>10, <1>11, OneAlarm

\* A target goes down.
LEMMA GoesDownIsGood == ASSUME IInv, NEW a \in Alarms, GoesDown(a) PROVE Good
<1> DEFINE d       == Owner[a]
           tells   == ~UpstreamDown(d) /\ Sending(d)
           row     == [state |-> "fired", told |-> tells, incident |-> TRUE]
           message == IF tells THEN "bad" ELSE "none"
<1>1. /\ Becomes(a, row, message)
      /\ explained' = IF UpstreamDown(d) THEN explained \cup {a} ELSE explained
      /\ held' = IF ~UpstreamDown(d) /\ HeldBack(d) THEN held \cup {a} ELSE held
  BY DEF GoesDown
<1>2. /\ alarm[a] \in AlarmRow /\ held \subseteq Alarms /\ explained \subseteq Alarms
      /\ alarm[a].state = "none" /\ a \notin explained /\ a \notin held /\ ~alarm[a].told
      /\ a \in watched /\ Kind[a] = "outage"
      /\ muted \subseteq Devices /\ off \subseteq Alarms /\ alerting \in BOOLEAN
      /\ internetOn \in BOOLEAN /\ checking \in BOOLEAN
      /\ UNCHANGED <<watched, window, muted, off, alerting, internetOn, checking>>
  BY DEF GoesDown, settings, net, IInv, TypeOK, OutagesStand, HeldHasItsWindow, ToldStands
<1>3. HeldBack(d) => ~Sending(d) /\ UnderWindow(d)
  BY DEF Sending, HeldBack
<1>4. tells \in BOOLEAN /\ (tells => Sending(d))
  BY DEF Sending, UpstreamDown
<1>5. ~UpstreamDown(d) /\ HeldBack(d) => ~tells
  BY <1>3
<1> HIDE DEF tells
<1>6. row \in AlarmRow /\ row.state = "fired" /\ row.incident /\ (row.told <=> tells)
  BY <1>4 DEF AlarmRow
<1>7. message \in {"none", "bad"} /\ (message = "bad" <=> tells)
  OBVIOUS
<1> HIDE DEF row, message
<1>8. RowMoves(alarm[a], row, message)
  BY <1>2, <1>6, <1>7 DEF RowMoves
<1>9. RowAgrees(a, row)
  BY <1>1, <1>2, <1>3, <1>5, <1>6 DEF RowAgrees
<1>10. OthersStay(a)
  BY <1>1, <1>2 DEF OthersStay
<1> QED
  BY <1>1, <1>4, <1>6, <1>7, <1>8, <1>9, <1>10, OneAlarm

\* ... and comes back.
LEMMA ComesBackIsGood == ASSUME IInv, NEW a \in Alarms, ComesBack(a) PROVE Good
<1>1. PICK message \in {"none", "ok"} :
        /\ Becomes(a, Quiet, message)
        /\ message = "ok" => alarm[a].told /\ Sending(Owner[a])
  BY DEF ComesBack
<1>2. /\ held \subseteq Alarms /\ explained \subseteq Alarms
      /\ muted \subseteq Devices /\ off \subseteq Alarms /\ alerting \in BOOLEAN
      /\ internetOn \in BOOLEAN /\ checking \in BOOLEAN
  BY DEF IInv, TypeOK
<1>3. RowAgrees(a, Quiet) /\ OthersStay(a)
  BY <1>2 DEF ComesBack, RowAgrees, OthersStay, Quiet, settings, net
<1>4. Quiet \in AlarmRow /\ RowMoves(alarm[a], Quiet, message)
  BY <1>1, QuietRow DEF ComesBack
<1> QED
  BY <1>1, <1>3, <1>4, OneAlarm

-----------------------------------------------------------------------------
(* Maintenance windows. *)

\* The least of some windows is one of them.
LEMMA LeastIsMember ==
  ASSUME NEW S, S \subseteq Windows, S # {} PROVE Least(S) \in S
<1>1. S \subseteq Nat
  BY ConstantsAssumption
<1> DEFINE R == OpToRel(<, Nat)
<1>2. PICK a \in S : \A b \in S : ~ (<<b, a>> \in R)
  <2>1. IsWellFoundedOn(R, Nat)
    BY NatLessThanWellFounded
  <2> HIDE DEF R
  <2> QED
    BY <1>1, <2>1, WFMin
<1>3. ASSUME NEW b \in S PROVE a <= b
  <2>1. R = {ss \in Nat \X Nat : ss[1] < ss[2]}
    BY Zenon DEF OpToRel
  <2> HIDE DEF R
  <2>2. a \in Nat /\ b \in Nat
    BY <1>1
  <2>3. b < a => <<b, a>> \in R
    BY <2>1, <2>2
  <2>4. <<b, a>> \notin R
    BY <1>2
  <2> QED
    BY <2>2, <2>3, <2>4
<1> QED
  BY <1>3 DEF Least

\* The window a device is said to be under is one that is on and covers it;
\* there is one whenever there is any.
LEMMA CoveringFacts ==
  ASSUME NEW W, W \subseteq Windows, NEW d
  PROVE  /\ \A w \in Covering(W, d) : w \in W /\ window[w].phase = "on" /\ d \in Covers(w)
         /\ \A w \in W : window[w].phase = "on" /\ d \in Covers(w) => Covering(W, d) # {}
<1> DEFINE on  == {w \in W : window[w].phase = "on" /\ d \in Covers(w)}
           own == {w \in on : WindowDevice[w] = d}
<1>1. on \subseteq Windows /\ own \subseteq on
  OBVIOUS
<1>2. Covering(W, d) = IF own # {} THEN {Least(own)} ELSE IF on # {} THEN {Least(on)} ELSE {}
  BY DEF Covering
<1>3. \A w \in Covering(W, d) : w \in on
  <2>1. own # {} => Least(own) \in own
    BY <1>1, LeastIsMember
  <2>2. on # {} => Least(on) \in on
    BY <1>1, LeastIsMember
  <2> HIDE DEF on, own
  <2> QED
    BY <1>1, <1>2, <2>1, <2>2
<1>4. on # {} => Covering(W, d) # {}
  BY <1>2
<1> QED
  BY <1>3, <1>4

\* The leftovers tell what is held, once, and leave held only what they may not
\* tell; the windows are another matter.
LEMMA LeftoversFacts ==
  ASSUME IInv, NEW W, NEW on, Leftovers(W, on), UNCHANGED <<watched, explained>>
  PROVE  /\ alarm' \in [Alarms -> AlarmRow]
         /\ news' \in [Alarms -> {"none", "bad", "twice", "ok"}]
         /\ held' \subseteq held
         /\ EachMoves
         /\ ToldStands' /\ ToldIsOnThePage' /\ OutagesStand' /\ HeldIsLeft'
         /\ \A a \in held' : /\ alarm'[a].state = "fired" /\ ~alarm'[a].told
                             /\ \A w \in W : Owner[a] \in Covers(w) => ~(Covering(on, Owner[a]) \subseteq {w})
         /\ \A a \in Alarms : Says(a) =>
              /\ alerting /\ Owner[a] \notin muted
              /\ \E w \in W : Owner[a] \in Covers(w) /\ Covering(on, Owner[a]) \subseteq {w}
<1> DEFINE telling == {a \in watched : Tellable(W, on, a) /\ LeftFor(a)}
           excused == {a \in held : /\ \E w \in W : Owner[a] \in Covers(w)
                                    /\ ~alerting \/ Owner[a] \in muted \/ a \in off}
<1>1. /\ alarm' = [a \in Alarms |-> IF a \in telling THEN [alarm[a] EXCEPT !.told = TRUE]
                                    ELSE alarm[a]]
      /\ news' = [a \in Alarms |-> IF a \in telling THEN Bad(a) ELSE news[a]]
      /\ held' = held \ (telling \cup excused)
  BY DEF Leftovers
<1>2. /\ alarm \in [Alarms -> AlarmRow] /\ news \in [Alarms -> {"none", "bad", "twice", "ok"}]
      /\ watched \subseteq Alarms /\ held \subseteq Alarms /\ explained \subseteq Alarms
  BY DEF IInv, TypeOK
<1>3. \A a \in telling : /\ a \in Alarms /\ ~alarm[a].told /\ alarm[a].state = "fired"
                         /\ alarm[a].incident
                         /\ Tellable(W, on, a)
  BY <1>2 DEF LeftFor, IInv, OutagesStand
<1>4. \A a \in held : /\ a \in Alarms /\ a \in watched /\ a \notin explained
                      /\ alarm[a].state = "fired" /\ ~alarm[a].told /\ alarm[a].incident
  BY <1>2 DEF IInv, HeldHasItsWindow, HeldIsLeft
<1>5. \A a \in held' : \A w \in W : Owner[a] \in Covers(w) => ~(Covering(on, Owner[a]) \subseteq {w})
  <2> SUFFICES ASSUME NEW a \in held', NEW w \in W, Owner[a] \in Covers(w),
                      Covering(on, Owner[a]) \subseteq {w}
               PROVE  FALSE
    OBVIOUS
  <2>1. a \in held /\ a \notin telling /\ a \notin excused
    BY <1>1
  <2>2. alerting /\ Owner[a] \notin muted /\ a \notin off
    BY <2>1
  <2>3. Tellable(W, on, a)
    BY <2>2 DEF Tellable
  <2>4. LeftFor(a)
    BY <1>4, <2>1, <2>2 DEF LeftFor
  <2> QED
    BY <1>4, <2>1, <2>3, <2>4
<1> HIDE DEF telling, excused
<1>6. \A a \in Alarms :
        /\ a \in telling => alarm'[a] = [alarm[a] EXCEPT !.told = TRUE] /\ news'[a] = "bad"
        /\ a \notin telling => alarm'[a] = alarm[a] /\ news'[a] = news[a]
  BY <1>1, <1>3 DEF Bad
<1>7. \A a \in Alarms : a \in telling =>
        /\ alarm'[a] \in AlarmRow /\ alarm'[a].state = "fired" /\ alarm'[a].told
        /\ alarm'[a].incident
  <2> SUFFICES ASSUME NEW a \in Alarms, a \in telling
               PROVE  /\ alarm'[a] \in AlarmRow /\ alarm'[a].state = "fired"
                      /\ alarm'[a].told /\ alarm'[a].incident
    OBVIOUS
  <2>1. alarm[a] \in AlarmRow /\ alarm'[a] = [alarm[a] EXCEPT !.told = TRUE]
    BY <1>2, <1>6
  <2>2. alarm[a].state = "fired" /\ alarm[a].incident
    BY <1>3
  <2> QED
    BY <2>1, <2>2 DEF AlarmRow
<1>8. /\ alarm' \in [Alarms -> AlarmRow] /\ news' \in [Alarms -> {"none", "bad", "twice", "ok"}]
  <2>1. \A a \in Alarms : alarm'[a] \in AlarmRow /\ news'[a] \in {"none", "bad", "twice", "ok"}
    BY <1>2, <1>6, <1>7
  <2>2. alarm' = [a \in Alarms |-> alarm'[a]] /\ news' = [a \in Alarms |-> news'[a]]
    BY <1>1
  <2> QED
    BY <2>1, <2>2
<1>9. EachMoves
  BY <1>3, <1>6, <1>7 DEF EachMoves, Moves
<1>10. held' \subseteq held /\ \A a \in held' : a \notin telling
  BY <1>1
<1>11. ToldStands' /\ ToldIsOnThePage'
  <2> SUFFICES ASSUME NEW a \in Alarms
               PROVE  /\ alarm'[a].told => alarm'[a].state = "fired"
                      /\ alarm'[a].incident => alarm'[a].state = "fired"
                      /\ alarm'[a].told /\ Kind[a] # "silence" => alarm'[a].incident
    BY DEF ToldStands, ToldIsOnThePage
  <2>1. CASE a \in telling
    BY <1>7, <2>1
  <2>2. CASE a \notin telling
    BY <1>6, <2>2 DEF IInv, ToldStands, ToldIsOnThePage
  <2> QED
    BY <2>1, <2>2
<1>12. OutagesStand'
  <2>1. ASSUME NEW a \in Alarms, Kind[a] = "outage", alarm'[a].state = "fired"
        PROVE  alarm'[a].incident
    <3>1. CASE a \in telling
      BY <1>7, <3>1, Zenon
    <3>2. CASE a \notin telling
      BY <1>6, <2>1, <3>2, Zenon DEF IInv, OutagesStand
    <3> QED
      BY <3>1, <3>2, Zenon
  <2>2. ASSUME NEW a \in explained'
        PROVE  Kind[a] = "outage" /\ alarm'[a].state = "fired"
    <3>1. a \in explained /\ a \in Alarms
      BY <1>2, Zenon
    <3>2. Kind[a] = "outage" /\ alarm[a].state = "fired"
      BY <3>1, Zenon DEF IInv, OutagesStand
    <3>3. CASE a \in telling
      BY <1>7, <3>1, <3>2, <3>3, Zenon
    <3>4. CASE a \notin telling
      BY <1>6, <3>1, <3>2, <3>4, Zenon
    <3> QED
      BY <3>3, <3>4, Zenon
  <2> QED
    BY <2>1, <2>2, Zenon DEF OutagesStand
<1>13. HeldIsLeft'
  BY <1>2, <1>6, <1>10 DEF IInv, HeldIsLeft
<1>14. \A a \in held' : alarm'[a].state = "fired" /\ ~alarm'[a].told
  BY <1>4, <1>6, <1>10
<1>15. \A a \in Alarms : Says(a) =>
         /\ alerting /\ Owner[a] \notin muted
         /\ \E w \in W : Owner[a] \in Covers(w) /\ Covering(on, Owner[a]) \subseteq {w}
  BY <1>3, <1>6 DEF Says, Tellable
<1> QED
  BY <1>5, <1>8, <1>9, <1>10, <1>11, <1>12, <1>13, <1>14, <1>15

\* Only the clock and the table move, and no window that held something goes.
LEMMA WindowsOnly ==
  ASSUME IInv, UNCHANGED <<watched, alarm, explained, news, held, settings, net>>,
         window' \in [Windows -> WindowRow],
         \A w \in Windows : window[w].phase = "on" \/ window[w].pending =>
                              window'[w].phase = "on" \/ window'[w].pending,
         AbsentIsDone'
  PROVE  Good
<1>1. TypeOK' /\ ToldStands' /\ ToldIsOnThePage' /\ OutagesStand' /\ HeldIsLeft'
  BY DEF IInv, TypeOK, ToldStands, ToldIsOnThePage, OutagesStand, HeldIsLeft, settings, net
<1>2. HeldHasItsWindow'
  BY DEF IInv, HeldHasItsWindow
<1>3. EachMoves /\ QuietKept
  BY DEF EachMoves, Moves, QuietKept, Says
<1> QED
  BY <1>1, <1>2, <1>3 DEF Good, IInv

LEMMA ClockIsGood ==
  ASSUME IInv, NEW w \in Windows, AddWindow(w) \/ WindowBegins(w) \/ WindowEnds(w)
  PROVE  Good
<1>1. window \in [Windows -> WindowRow]
  BY DEF IInv, TypeOK
<1>2. PICK r \in WindowRow :
        /\ window' = [window EXCEPT ![w] = r]
        /\ r.phase # "absent"
        /\ window[w].phase = "on" \/ window[w].pending => r.phase = "on" \/ r.pending
  <2>1. CASE AddWindow(w)
    <3>1. PICK phase \in {"before", "on", "after"} :
            window' = [window EXCEPT ![w] = [phase |-> phase, pending |-> FALSE]]
      BY <2>1 DEF AddWindow
    <3>2. [phase |-> phase, pending |-> FALSE] \in WindowRow
      BY DEF WindowRow, Phases
    <3>3. window[w].phase # "on" /\ ~window[w].pending
      BY <2>1 DEF AddWindow, IInv, AbsentIsDone
    <3> QED
      BY <3>1, <3>2, <3>3
  <2>2. CASE WindowBegins(w)
    <3>1. window' = [window EXCEPT ![w] = [window[w] EXCEPT !.phase = "on"]]
      BY <2>2 DEF WindowBegins
    <3>2. /\ [window[w] EXCEPT !.phase = "on"] \in WindowRow
          /\ [window[w] EXCEPT !.phase = "on"].phase = "on"
      BY <1>1 DEF WindowRow, Phases
    <3> QED
      BY <3>1, <3>2
  <2>3. CASE WindowEnds(w)
    <3>1. [phase |-> "after", pending |-> TRUE] \in WindowRow
      BY DEF WindowRow, Phases
    <3> QED
      BY <2>3, <3>1 DEF WindowEnds
  <2> QED
    BY <2>1, <2>2, <2>3
<1>3. /\ window' \in [Windows -> WindowRow]
      /\ window'[w] = r
      /\ \A v \in Windows \ {w} : window'[v] = window[v]
  BY <1>1, <1>2
<1>4. AbsentIsDone'
  BY <1>2, <1>3 DEF IInv, AbsentIsDone
<1>5. \A v \in Windows : window[v].phase = "on" \/ window[v].pending =>
                           window'[v].phase = "on" \/ window'[v].pending
  BY <1>2, <1>3
<1> QED
  BY <1>3, <1>4, <1>5, WindowsOnly DEF AddWindow, WindowBegins, WindowEnds

\* What the leftovers do not settle is under a window that stays: an end that
\* is dealt with is among W, and of the windows that count as on only the one
\* whose leftovers are told may go.
LEMMA LeftoversKeepWindows ==
  ASSUME IInv, NEW W, W \subseteq Windows, NEW on, on \subseteq Windows,
         Leftovers(W, on), UNCHANGED <<watched, explained, settings, net>>,
         window' \in [Windows -> WindowRow], AbsentIsDone',
         Pending \subseteq W \/ \A w \in Windows \ W : window'[w] = window[w],
         \A w \in Windows : window[w].phase = "on" =>
            w \in W \/ window'[w].phase = "on",
         \A w \in on : window[w].phase = "on" =>
            window'[w].phase = "on" \/ W = {w}
  PROVE  IInv' /\ EachMoves
<1>1. /\ alarm' \in [Alarms -> AlarmRow]
      /\ news' \in [Alarms -> {"none", "bad", "twice", "ok"}]
      /\ held' \subseteq held
      /\ EachMoves
      /\ ToldStands' /\ ToldIsOnThePage' /\ OutagesStand' /\ HeldIsLeft'
      /\ \A a \in held' : /\ alarm'[a].state = "fired" /\ ~alarm'[a].told
                          /\ \A w \in W : Owner[a] \in Covers(w) => ~(Covering(on, Owner[a]) \subseteq {w})
  BY LeftoversFacts
<1>2. TypeOK'
  BY <1>1 DEF IInv, TypeOK, settings, net
<1>3. HeldHasItsWindow'
  <2> SUFFICES ASSUME NEW a \in held'
               PROVE  \E w \in Windows : /\ Owner[a] \in Covers(w)
                                         /\ window'[w].phase = "on" \/ window'[w].pending
    BY <1>1 DEF HeldHasItsWindow
  <2>1. PICK w \in Windows : /\ Owner[a] \in Covers(w)
                             /\ window[w].phase = "on" \/ window[w].pending
    BY <1>1 DEF IInv, HeldHasItsWindow
  <2>2. CASE w \in W
    <3>1. PICK v \in Covering(on, Owner[a]) : v # w
      BY <1>1, <2>1, <2>2
    <3>2. v \in on /\ window[v].phase = "on" /\ Owner[a] \in Covers(v)
      BY <3>1, CoveringFacts
    <3> QED
      BY <2>2, <3>1, <3>2
  <2>3. CASE w \notin W
    <3>1. window[w].phase = "on" => window'[w].phase = "on"
      BY <2>3
    <3>2. window[w].pending => window'[w] = window[w]
      BY <2>3 DEF Pending
    <3> QED
      BY <2>1, <3>1, <3>2
  <2> QED
    BY <2>2, <2>3
<1> QED
  BY <1>1, <1>2, <1>3 DEF IInv

\* What leftovers say of an alarm, a window of theirs says it.
LEMMA LeftoversSay ==
  ASSUME IInv, NEW W, NEW on, Leftovers(W, on), UNCHANGED <<watched, explained, settings, net>>,
         NEW a \in Alarms, Says(a)
  PROVE  /\ alerting /\ Owner[a] \notin muted
         /\ \E w \in W : Owner[a] \in Covers(w) /\ Covering(on, Owner[a]) \subseteq {w}
<1>1. \A b \in Alarms : Says(b) =>
         /\ alerting /\ Owner[b] \notin muted
         /\ \E w \in W : Owner[b] \in Covers(w) /\ Covering(on, Owner[b]) \subseteq {w}
  BY LeftoversFacts
<1> QED
  BY <1>1, Zenon

\* The job of every minute.
LEMMA FinishIsGood == ASSUME IInv, Finish PROVE Good
<1>1. /\ Leftovers(Pending, Windows) /\ Pending \subseteq Windows
      /\ window' = [w \in Windows |-> [window[w] EXCEPT !.pending = FALSE]]
      /\ UNCHANGED <<watched, explained, settings, net>>
  BY DEF Finish, Pending
<1>2. window \in [Windows -> WindowRow]
  BY DEF IInv, TypeOK
<1>3. /\ window' \in [Windows -> WindowRow]
      /\ \A w \in Windows : window'[w].phase = window[w].phase /\ ~window'[w].pending
  BY <1>1, <1>2 DEF WindowRow
<1>4. AbsentIsDone'
  BY <1>3 DEF AbsentIsDone
<1>5. IInv' /\ EachMoves
  <2>1. /\ Windows \subseteq Windows /\ Pending \subseteq Pending
        /\ \A w \in Windows : window[w].phase = "on" =>
              w \in Pending \/ window'[w].phase = "on"
        /\ \A w \in Windows : window[w].phase = "on" =>
              window'[w].phase = "on" \/ Pending = {w}
    BY <1>3
  <2> QED
    BY <1>1, <1>3, <1>4, <2>1, LeftoversKeepWindows, Zenon
<1>6. QuietKept
  <2> SUFFICES ASSUME NEW a \in Alarms, Says(a)
               PROVE  /\ alerting /\ Owner[a] \notin muted
                      /\ \/ ~UnderWindow(Owner[a])'
                         \/ \E w \in Windows : window[w].phase = "on" /\ window[w].pending
    BY DEF QuietKept
  <2>1. /\ alerting /\ Owner[a] \notin muted
        /\ \E w \in Pending : Owner[a] \in Covers(w) /\ Covering(Windows, Owner[a]) \subseteq {w}
    BY <1>1, LeftoversSay, Zenon
  <2>2. CASE Covering(Windows, Owner[a]) = {}
    BY <1>3, <2>1, <2>2, CoveringFacts DEF UnderWindow, Covers
  <2>3. CASE Covering(Windows, Owner[a]) # {}
    <3>1. PICK w \in Pending : w \in Covering(Windows, Owner[a])
      BY <2>1, <2>3
    <3> QED
      BY <2>1, <3>1, CoveringFacts DEF Pending
  <2> QED
    BY <2>2, <2>3
<1> QED
  BY <1>5, <1>6 DEF Good

\* A window somebody ends at once.
LEMMA EndNowIsGood == ASSUME IInv, NEW w \in Windows, EndWindowNow(w) PROVE Good
<1> DEFINE W  == Pending \cup {w}
           on == Windows \ {w}
<1>1. /\ Leftovers(W, on) /\ W \subseteq Windows /\ on \subseteq Windows
      /\ window' = [v \in Windows |-> [phase   |-> IF v = w THEN "after" ELSE window[v].phase,
                                       pending |-> FALSE]]
      /\ UNCHANGED <<watched, explained, settings, net>>
  BY DEF EndWindowNow, Pending
<1>2. window \in [Windows -> WindowRow]
  BY DEF IInv, TypeOK
<1>3. /\ window' \in [Windows -> WindowRow]
      /\ window'[w].phase = "after" /\ ~window'[w].pending
      /\ \A v \in on : window'[v].phase = window[v].phase /\ ~window'[v].pending
  BY <1>1, <1>2 DEF WindowRow, Phases
<1>4. AbsentIsDone'
  BY <1>3 DEF AbsentIsDone
<1>5. IInv' /\ EachMoves
  <2>1. Pending \subseteq W /\ w \in W /\ w \notin on /\ \A v \in Windows : v = w \/ v \in on
    OBVIOUS
  <2> HIDE DEF W, on
  <2> QED
    BY <1>1, <1>3, <1>4, <2>1, LeftoversKeepWindows
<1>6. QuietKept
  <2> SUFFICES ASSUME NEW a \in Alarms, Says(a)
               PROVE  /\ alerting /\ Owner[a] \notin muted
                      /\ \/ ~UnderWindow(Owner[a])'
                         \/ \E v \in Windows : window[v].phase = "on" /\ window[v].pending
    BY DEF QuietKept
  <2>1. /\ alerting /\ Owner[a] \notin muted
        /\ \E v \in W : Owner[a] \in Covers(v) /\ Covering(on, Owner[a]) \subseteq {v}
    BY <1>1, LeftoversSay
  <2>2. CASE Covering(on, Owner[a]) = {}
    <3>1. \A v \in on : ~(window[v].phase = "on" /\ Owner[a] \in Covers(v))
      <4>1. \A v \in on : window[v].phase = "on" /\ Owner[a] \in Covers(v)
                             => Covering(on, Owner[a]) # {}
        BY <1>1, CoveringFacts, Zenon
      <4> QED
        BY <2>2, <4>1, Zenon
    <3> QED
      BY <1>3, <2>1, <3>1 DEF UnderWindow, Covers
  <2>3. CASE Covering(on, Owner[a]) # {}
    <3>1. PICK v \in W : v \in Covering(on, Owner[a])
      BY <2>1, <2>3
    <3>2. v \in on /\ window[v].phase = "on"
      BY <1>1, <3>1, CoveringFacts
    <3>3. v \in Pending
      BY <3>1, <3>2
    <3> QED
      BY <2>1, <3>2, <3>3 DEF Pending
  <2> QED
    BY <2>2, <2>3
<1> QED
  BY <1>5, <1>6 DEF Good

\* A window taken away.
LEMMA RemoveIsGood == ASSUME IInv, NEW w \in Windows, RemoveWindow(w) PROVE Good
<1>1. /\ window' = [window EXCEPT ![w] = NoWindow]
      /\ UNCHANGED <<watched, explained, settings, net>>
  BY DEF RemoveWindow
<1>2. window \in [Windows -> WindowRow] /\ NoWindow \in WindowRow
  BY DEF IInv, TypeOK, NoWindow, WindowRow, Phases
<1>3. /\ window' \in [Windows -> WindowRow]
      /\ window'[w].phase = "absent" /\ ~window'[w].pending
      /\ \A v \in Windows \ {w} : window'[v] = window[v]
  BY <1>1, <1>2 DEF NoWindow
<1>4. AbsentIsDone'
  BY <1>3 DEF IInv, AbsentIsDone
<1>5. CASE window[w].phase = "on"
  <2>1. Leftovers({w}, Windows)
    BY <1>5 DEF RemoveWindow
  <2>2. IInv' /\ EachMoves
    BY <1>1, <1>3, <1>4, <2>1, LeftoversKeepWindows
  <2>3. \A a \in Alarms : Says(a) => alerting /\ Owner[a] \notin muted
    BY <1>1, <2>1, LeftoversFacts
  <2>4. QuietKept
    BY <1>3, <1>5, <2>3 DEF QuietKept
  <2> QED
    BY <2>2, <2>4 DEF Good
<1>6. CASE window[w].phase # "on"
  <2>1. /\ held' \subseteq held /\ UNCHANGED <<alarm, news>>
        /\ \A a \in held' : window[w].pending => Owner[a] \notin Covers(w)
    BY <1>6 DEF RemoveWindow
  <2>2. TypeOK' /\ ToldStands' /\ ToldIsOnThePage' /\ OutagesStand' /\ HeldIsLeft'
    BY <1>1, <1>3, <2>1
    DEF IInv, TypeOK, ToldStands, ToldIsOnThePage, OutagesStand, HeldIsLeft, settings, net
  <2>3. HeldHasItsWindow'
    <3> SUFFICES ASSUME NEW a \in held'
                 PROVE  /\ alarm'[a].state = "fired" /\ ~alarm'[a].told
                        /\ \E v \in Windows : /\ Owner[a] \in Covers(v)
                                              /\ window'[v].phase = "on" \/ window'[v].pending
      BY DEF HeldHasItsWindow
    <3>1. PICK v \in Windows : /\ Owner[a] \in Covers(v)
                               /\ window[v].phase = "on" \/ window[v].pending
      BY <2>1 DEF IInv, HeldHasItsWindow
    <3>2. v # w
      BY <1>6, <2>1, <3>1
    <3> QED
      BY <1>3, <2>1, <3>1, <3>2 DEF IInv, HeldHasItsWindow
  <2>4. EachMoves /\ QuietKept
    BY <2>1 DEF EachMoves, Moves, QuietKept, Says
  <2> QED
    BY <1>4, <2>2, <2>3, <2>4 DEF Good, IInv
<1> QED
  BY <1>5, <1>6

-----------------------------------------------------------------------------
(* The specification. *)

LEMMA InitIInv == Init => IInv
<1> SUFFICES ASSUME Init PROVE IInv
  OBVIOUS
<1>1. Quiet \in AlarmRow /\ NoWindow \in WindowRow
  BY DEF Quiet, AlarmRow, NoWindow, WindowRow, Phases
<1>2. TypeOK
  BY <1>1, ConstantsAssumption, Zenon DEF Init, TypeOK
<1>3. /\ \A a \in Alarms : alarm[a] = Quiet
      /\ \A w \in Windows : window[w] = NoWindow
      /\ held = {} /\ explained = {}
  BY DEF Init
<1>4. ToldStands /\ ToldIsOnThePage /\ HeldHasItsWindow
  BY <1>3 DEF ToldStands, ToldIsOnThePage, HeldHasItsWindow, Quiet
<1>5. OutagesStand /\ HeldIsLeft /\ AbsentIsDone
  BY <1>3 DEF OutagesStand, HeldIsLeft, AbsentIsDone, Quiet, NoWindow
<1> QED
  BY <1>2, <1>4, <1>5 DEF IInv

LEMMA StepIsGood == IInv /\ [Next]_vars => Good
<1> SUFFICES ASSUME IInv, [Next]_vars PROVE Good
  OBVIOUS
<1>1. ASSUME NEW a \in Alarms,
             Poll(a) \/ Forget(a) \/ Answer(a) \/ Unanswered(a) \/ GoesDown(a) \/ ComesBack(a)
      PROVE  Good
  BY <1>1, PollIsGood, ForgetIsGood, AnswerIsGood, UnansweredIsGood, GoesDownIsGood, ComesBackIsGood
<1>2. ASSUME NEW a \in Alarms, RecordInternet(a) PROVE Good
  BY <1>2, RecordInternetIsGood
<1>3. ASSUME NEW a \in Alarms, NEW isOff \in BOOLEAN, Suppress(a, isOff) PROVE Good
  BY <1>3, SuppressIsGood
<1>4. ASSUME NEW w \in Windows, AddWindow(w) \/ WindowBegins(w) \/ WindowEnds(w) PROVE Good
  BY <1>4, ClockIsGood
<1>5. ASSUME NEW w \in Windows, EndWindowNow(w) \/ RemoveWindow(w) PROVE Good
  BY <1>5, EndNowIsGood, RemoveIsGood
<1>6. CASE Finish
  BY <1>6, FinishIsGood
<1> QED
  BY <1>1, <1>2, <1>3, <1>4, <1>5, <1>6, SettingsAreGood DEF Next

THEOREM Invariance == Spec => []IInv
<1>1. IInv /\ [Next]_vars => IInv'
  BY StepIsGood DEF Good
<1> QED
  BY InitIInv, <1>1, PTL DEF Spec

\* The tables keep their form (models.py AlertState, AlertIncident,
\* MaintenanceWindow).
THEOREM TypeCorrect == Spec => []TypeOK
<1>1. IInv => TypeOK
  BY DEF IInv
<1> QED
  BY Invariance, <1>1, PTL

\* Every alarm is the alarm of Alarm.tla: told once while it stands, and its
\* end only to who was told (snmp_alerts.py, alerts.py, internet.py).
THEOREM AlarmsRefineAlarm == Spec => RefinesAlarm
<1>1. Init => AbstractAlarm!Init
  BY DEF Init, AbstractAlarm!Init, Quiet
<1>2. IInv /\ [Next]_vars => [AbstractAlarm!Next]_AbstractAlarm!vars
  BY StepIsGood, MovesRefine DEF Good
<1> QED
  BY Invariance, <1>1, <1>2, PTL DEF Spec, RefinesAlarm, AbstractAlarm!Spec

\* What a window keeps back has a window that will tell it (maintenance.py).
THEOREM HeldIsNotForgotten == Spec => []HeldHasItsWindow
<1>1. IInv => HeldHasItsWindow
  BY DEF IInv
<1> QED
  BY Invariance, <1>1, PTL

\* The page and the messages agree (suppressions.py, snmp_alerts.py).
THEOREM PageAgrees == Spec => []ToldIsOnThePage
<1>1. IInv => ToldIsOnThePage
  BY DEF IInv
<1> QED
  BY Invariance, <1>1, PTL

\* Nothing is said while a device is muted or under a window, but for the two
\* cases where maintenance.py asks about one window only.
THEOREM QuietIsKept == Spec => NothingSaidWhileHeld
<1>1. IInv /\ [Next]_vars => [QuietKept]_vars
  BY StepIsGood DEF Good
<1> QED
  BY Invariance, <1>1, PTL DEF Spec, NothingSaidWhileHeld, QuietKept

=============================================================================
