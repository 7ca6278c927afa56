--------------------------------- MODULE Alarm ---------------------------------
(***************************************************************************)
(* What an alarm promises, whatever raises it: an outage, a device that    *)
(* stops answering SNMP, a threshold rule, the internet.  Bad news is told *)
(* at most once while it stands, and good news only to someone who was     *)
(* told the bad.  Several alarms may move in one step.                     *)
(***************************************************************************)
CONSTANT Alarms

VARIABLES
  standing,   \* the alarms whose trouble stands
  told,       \* the standing ones of which somebody was told
  news        \* news[a]: the last message about a

vars == <<standing, told, news>>

Init ==
  /\ standing = {} /\ told = {}
  /\ news = [a \in Alarms |-> "none"]

\* Trouble begins, and is told at once or not yet.
Raise(a) ==
  /\ a \notin standing
  /\ a \in standing'
  /\ news'[a] = IF a \in told' THEN "bad" ELSE news[a]

\* It is told later.
Tell(a) ==
  /\ a \in standing \ told
  /\ a \in standing' \cap told'
  /\ news'[a] = "bad"

\* It ends, silently or not.
Clear(a) ==
  /\ a \in standing
  /\ a \notin standing' \cup told'
  /\ \/ news'[a] = news[a]
     \/ a \in told /\ news'[a] = "ok"

Rest(a) ==
  /\ a \in standing' <=> a \in standing
  /\ a \in told' <=> a \in told
  /\ news'[a] = news[a]

Next == \A a \in Alarms : Raise(a) \/ Tell(a) \/ Clear(a) \/ Rest(a)

Spec == Init /\ [][Next]_vars
===============================================================================
