-------------------------------- MODULE MCCollect --------------------------------
(***************************************************************************)
(* What is collected, and what is made of it: SNMP polling, history, device *)
(* events, what APIs answer, availability.  They share no state that        *)
(* matters here, so one run checks them one at a time.                      *)
(***************************************************************************)
EXTENDS Snmp, History, Receiver, Integrations, Availability

FewWindows == [starts : 0 .. Week - 1, lasts : 1 .. Longest, weekly : BOOLEAN]

VARIABLE part

vars == <<part, svars, hvars, rvars, ivars, avars>>

Init ==
  /\ part \in {"snmp", "history", "events", "apis", "figures"}
  /\ SnmpInit /\ HistoryInit /\ ReceiverInit /\ IntegrationsInit /\ AvailabilityInit
  /\ part # "snmp" => about = "jobs" /\ pace = CHOOSE n \in Paces : TRUE
  /\ part # "apis" => thing = "drive"
  /\ part # "figures" => windows = {}

Next ==
  \/ part = "snmp"    /\ SnmpNext     /\ UNCHANGED <<part, hvars, rvars, ivars, avars>>
  \/ part = "history" /\ HistoryNext  /\ UNCHANGED <<part, svars, rvars, ivars, avars>>
  \/ part = "events"  /\ ReceiverNext /\ UNCHANGED <<part, svars, hvars, ivars, avars>>
  \/ part = "apis"    /\ IntegrationsNext /\ UNCHANGED <<part, svars, hvars, rvars, avars>>
  \/ part = "figures" /\ AvailabilityNext /\ UNCHANGED <<part, svars, hvars, rvars, ivars>>

Spec == Init /\ [][Next]_vars

\* Nothing is decided, and nothing is said below, of what the receiver counts.
WithoutCounts ==
  <<part, svars, hvars, ivars, avars, minute, device, rule, recent, queue, known, batch, closing,
    state, incident, told, seen>>

TypeOK ==
  SnmpTypeOK /\ HistoryTypeOK /\ ReceiverTypeOK /\ IntegrationsTypeOK /\ AvailabilityTypeOK
===============================================================================
