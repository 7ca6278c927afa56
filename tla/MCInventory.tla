------------------------------ MODULE MCInventory ------------------------------
(* Instances of Inventory for TLC. *)
EXTENDS Inventory

\* The router on a subnet SPARK sits on and another box across it; or the
\* second box only.
Networks == { <<"router", "box">>, <<"none", "box">> }

\* What goes on beside the sweeps.
Doings ==
  {{"merge", "snmp"}, {"merge", "overlap"}, {"remove", "overlap", "move"},
   {"remove", "ports", "exclude", "move"}, {"search", "snmp", "move"}, {"search", "ignore"},
   {"wizard", "search", "restart", "overlap"}}

\* What the wizard asks for does not depend on the network: one box is enough.
MCInit == Init /\ ("wizard" \in scope => at = <<"none", "box">>)

MCSpec == MCInit /\ [][Next]_vars
===============================================================================
