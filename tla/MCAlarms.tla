-------------------------------- MODULE MCAlarms -------------------------------
(* An instance of Alarms for TLC: a gateway and a device below it. *)
EXTENDS Alarms

\* Two alarms at a time: they meet only in the windows, the mute list, and in
\* what an outage explains.
TheAlarms    == {"cpu", "drive", "net", "snmp", "box", "router"}
TheKinds     == [a \in TheAlarms |->
                   CASE a \in {"cpu", "drive"} -> "rule" [] a = "net" -> "internet"
                     [] a = "snmp" -> "silence" [] OTHER -> "outage"]
TheOwners    == [a \in TheAlarms |-> IF a \in {"net", "router"} THEN "gw" ELSE "nas"]
ThePairs     == {{"cpu"}, {"drive"}, {"snmp", "box"}, {"snmp", "router"}, {"net", "router"},
                 {"box", "router"}}
TheTree      == [d \in Devices |-> IF d = "gw" THEN {"nas"} ELSE {}]
TheWindows   == [w \in Windows |-> IF w = 1 THEN "gw" ELSE "nas"]
===============================================================================
