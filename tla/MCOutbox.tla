------------------------------- MODULE MCOutbox -------------------------------
(* Instances of Outbox for TLC. *)
EXTENDS Outbox

\* Every channel takes every alert.
AllWanted == [c \in Channels |-> Alerts]

\* The second channel takes only the first alert.
SecondTakesFirst == [c \in Channels |-> IF c = 2 THEN {1} ELSE Alerts]

\* No guard reads how often a message arrived: a run whose properties do not
\* read it either need not tell states apart by it.  (The last part is TRUE, and
\* has TLC work out that part of a state before it is put away.)
WithoutArrivals ==
  <<note, delivery, settings, flight, told, losses, history \in {history}>>
===============================================================================
