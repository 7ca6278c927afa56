----------------------------- MODULE MCServiceMap -----------------------------
(* Instances of ServiceMap for TLC. *)
EXTENDS ServiceMap

\* Machine 1 is the gateway; 2 and 3 are switches, 4 an access point, 5 a
\* phone.  Plugged one behind the other; with the switches swapped and the
\* phone beside the access point; and with both switches on the gateway.
Chain   == <<0, 1, 2, 3, 4>>
Swapped == <<0, 3, 1, 2, 3>>
Flat    == <<0, 1, 1, 2, 4>>
Few     == {Chain, Swapped, Flat}

\* A person may turn the switches over, hang the gateway below one, take
\* the phone off the map, and place the duplicate of it.
SomeHands == {<<1, 3>>, <<2, 3>>, <<5, 0>>, <<6, 4>>}
\* Device 6 is the phone found twice, first without its MAC.
Duplicate == {<<6, 5>>}

OneDeviceEach == [d \in Devices |-> IF d <= 5 THEN d ELSE 0]
NoNames == [d \in Devices |-> 0]

===============================================================================
