------------------------------ MODULE ServiceMap ------------------------------
(***************************************************************************)
(* Where every device sits on the service map: what the switches last      *)
(* reported (topology.py store, discover), what automatic mode makes of it *)
(* (apply_automatic), and what a person says: placing, accepting, "not     *)
(* right", wiping, merging and removing (routes_device_page.py,            *)
(* routes_map.py, merge.py).                                               *)
(*                                                                         *)
(* The network is a tree of machines that is plugged differently over      *)
(* time; a polled machine keeps in the database what it saw when it was    *)
(* last read, so the reports are of different ages.  A port is named by    *)
(* the machine plugged into it.                                            *)
(***************************************************************************)
EXTENDS Topology, SequencesExt

CONSTANTS
  Machines,    \* the machines; machine m has the MAC m
  Cablings,    \* ways they may be plugged: machine -> the one above, None on top
  MacOf,       \* MacOf[d]: the MAC device d is first known by, or None
  Polled,      \* machines on the SNMP list
  Bridges,     \* those of them that answer with a MAC table
  Talkers,     \* machines that speak LLDP
  NameOf,      \* NameOf[d]: the machine that gives d's name over LLDP, or None
  ManyOwn,     \* machines holding several addresses of their own, or {}
  Roles,       \* roles a person may set
  Hands,       \* <<device, parent>> a person may choose
  Merges,      \* <<kept device, other device>> a person may merge
  MaxMoves,    \* times the network is plugged differently (bound)
  MaxHands     \* times a person changes the map (bound)

\* "access_point" stands for every role others can be behind, "other" for the
\* rest.
MapRoles == {"unknown", "gateway", "switch", "access_point", "other"}
Infra    == {"gateway", "switch", "access_point"}

ASSUME ServiceMapAssumption ==
  /\ Machines \subseteq Nat \ {None} /\ IsFiniteSet(Machines)
  /\ Cablings \subseteq [Machines -> Machines \cup {None}]
  /\ MacOf \in [Devices -> Machines \cup {None}]
  /\ \A m \in Polled : \E d \in Devices : MacOf[d] = m
  /\ Bridges \subseteq Polled /\ Polled \subseteq Machines /\ Talkers \subseteq Machines
  /\ ManyOwn \subseteq Polled
  /\ NameOf \in [Devices -> Machines \cup {None}]
  /\ Roles \subseteq MapRoles
  /\ Hands \subseteq Devices \X (Devices \cup {None})
  /\ Merges \subseteq Devices \X Devices
  /\ MaxMoves \in Nat /\ MaxHands \in Nat

VARIABLES
  cable,      \* how the machines are plugged now
  read,       \* polled machine -> the cabling when it was last read, or NotRead
  rows,       \* the devices there are
  mac,        \* device.mac
  ignored,    \* device.ignored
  role,       \* device.role
  parent,     \* device.parent_device_id
  auto,       \* map_auto: device -> where automatic mode put it
  snmp,       \* polled machine -> the device its SNMP row is on, or None
  dismissed,  \* the <<device, parent>> pairs answered "not right"
  mode,       \* the map mode
  moves,      \* times the network was plugged differently
  hands       \* times a person changed the map

network == <<cable, read, moves>>
device  == <<rows, mac, ignored, snmp>>
place   == <<parent, auto, role>>
vars    == <<network, device, place, dismissed, mode, hands>>

NotRead == [m \in {} |-> None]

TypeOK ==
  /\ cable \in Cablings
  /\ read \in [Polled -> Cablings \cup {NotRead}]
  /\ rows \subseteq Devices /\ ignored \subseteq rows
  /\ mac \in [Devices -> Machines \cup {None}]
  /\ role \in [Devices -> MapRoles]
  /\ parent \in [Devices -> rows \cup {None}]
  /\ DOMAIN auto \subseteq rows /\ \A d \in DOMAIN auto : auto[d] \in rows \cup {None}
  /\ snmp \in [Polled -> rows \cup {None}]
  /\ dismissed \subseteq Devices \X (Devices \cup {None})
  /\ mode \in {"manual", "automatic"}
  /\ moves \in 0..MaxMoves /\ hands \in 0..MaxHands

Init ==
  /\ cable \in Cablings
  /\ read = [m \in Polled |-> NotRead]
  /\ rows = Devices /\ ignored = {}
  /\ mac = MacOf
  /\ role = [d \in Devices |-> "unknown"]
  /\ parent = [d \in Devices |-> None]
  /\ auto = [d \in {} |-> None]
  /\ snmp = [m \in Polled |-> CHOOSE d \in Devices : MacOf[d] = m]
  /\ dismissed = {}
  /\ mode = "manual"
  /\ moves = 0 /\ hands = 0

-----------------------------------------------------------------------------
(* What a machine sees of the network, and what is made of it. *)

\* The machines at or below m.
Under(c, m) ==
  {n \in Machines :
     LET up[k \in 0..Cardinality(Machines)] ==
           IF k = 0 THEN n ELSE LET at == up[k - 1] IN IF at = None THEN None ELSE c[at]
     IN  \E k \in DOMAIN up : up[k] = m}

\* A bridge learns each MAC on the port it comes in by.
Fdb(c, m) ==
  [p \in {n \in Machines : c[n] = m} \cup ({c[m]} \ {None}) |->
     IF p = c[m] THEN Machines \ Under(c, m) ELSE Under(c, p)]

\* The MAC tables of each way of plugging the network.
Learned == [c \in Cablings |-> [m \in Bridges |-> Fdb(c, m)]]

Heard(c, m) ==
  {<<n, n>> : n \in {n \in Talkers : m \in Talkers /\ (c[n] = m \/ c[m] = n)}}

\* The MACs a device is known by: its own, and those its own report gives.
Macs ==
  [d \in Devices |->
     IF d \in rows \ ignored
     THEN ({mac[d]} \ {None}) \cup {m \in Bridges : snmp[m] = d /\ read[m] # NotRead}
     ELSE {}]

\* The device a MAC seen by LLDP belongs to; the highest answers for it.
ByMac(m) == Max({d \in Devices : m \in Macs[d]} \cup {None})
\* A name two devices share matches neither.
ByName(m) == LET S == {d \in rows : NameOf[d] = m}
             IN  IF Cardinality(S) = 1 THEN CHOOSE d \in S : TRUE ELSE None
Neighbour(m) == IF ByMac(m) # None THEN ByMac(m) ELSE ByName(m)

Reports(d) == {m \in Polled : snmp[m] = d /\ d \notin ignored /\ read[m] # NotRead}

\* _root: a gateway by role, one on the SNMP list first; else the device that
\* holds the most addresses of its own.
Root(roles) ==
  LET gateways == {d \in rows \ ignored : roles[d] = "gateway"}
      polled   == {d \in gateways : \E m \in Polled : snmp[m] = d}
      byAddresses == {snmp[m] : m \in {n \in ManyOwn : read[n] # NotRead}} \ ({None} \cup ignored)
  IN  IF polled # {} THEN Min(polled)
      ELSE IF gateways # {} THEN Min(gateways)
      ELSE IF Cardinality(byAddresses) = 1 THEN CHOOSE d \in byAddresses : TRUE
      ELSE None

\* The switch reports in force, joined with the devices.
Net(parents, roles) ==
  [macs    |-> Macs,
   tables  |-> [d \in {snmp[m] : m \in Bridges} \cap {e \in rows : Reports(e) # {}} |->
                  LET m == CHOOSE m \in Reports(d) : TRUE IN Learned[read[m]][m]],
   lldp    |-> [d \in {e \in rows : Reports(e) # {}} |->
                  LET m == CHOOSE m \in Reports(d) : TRUE
                  IN  {<<h[1], Neighbour(h[2])>> : h \in {g \in Heard(read[m], m) : Neighbour(g[2]) # None}}],
   infra   |-> {d \in rows : roles[d] \in Infra} \cup ({snmp[m] : m \in Polled} \ {None}),
   root    |-> Root(roles),
   parents |-> parents]

\* discover: each found place, with the role it suggests.
Discover(parents, roles) ==
  LET net   == Net(parents, roles)
      links == Infer(net)
  IN  [d \in DOMAIN links |->
         [parent |-> links[d].parent,
          role   |-> IF d = net.root THEN "gateway"
                     ELSE IF d \in DOMAIN net.tables THEN "switch" ELSE "unknown"]]

\* Discovery.suggestions: a parent where there is none, a role where it is
\* not set, and nothing answered "not right".
Suggested(found) ==
  {d \in DOMAIN found :
     /\ <<d, found[d].parent>> \notin dismissed
     /\ \/ found[d].parent # None /\ parent[d] = None
        \/ found[d].role # "unknown" /\ role[d] = "unknown"}

-----------------------------------------------------------------------------
(* Automatic mode's pass, and what a person accepts, on a map [parent, auto, *)
(* role].                                                                    *)

\* One device of the pass.  It is placed when it has no parent and was never
\* placed automatically, moved when it still is where automatic put it.
Placed(map, d, found) ==
  LET p     == found[d].parent
      fresh == d \notin DOMAIN map.auto /\ map.parent[d] = None
      own   == d \in DOMAIN map.auto /\ map.parent[d] = map.auto[d]
      goes  == /\ p # None /\ p # map.parent[d]
               /\ fresh \/ own
               /\ CanParent(map.parent, d, p)
      named == found[d].role # "unknown" /\ map.role[d] = "unknown"
  IN  [parent |-> IF goes THEN [map.parent EXCEPT ![d] = p] ELSE map.parent,
       auto   |-> IF goes THEN [e \in DOMAIN map.auto \cup {d} |-> IF e = d THEN p ELSE map.auto[e]]
                          ELSE map.auto,
       role   |-> IF named THEN [map.role EXCEPT ![d] = found[d].role] ELSE map.role]

\* A place a person accepts: refused whole if the parent would make a loop.
Accepted(map, d, found) ==
  LET p      == found[d].parent
      placed == p # None /\ map.parent[d] = None
      named  == found[d].role # "unknown" /\ map.role[d] = "unknown"
  IN  IF placed /\ ~CanParent(map.parent, d, p) THEN map
      ELSE [parent |-> IF placed THEN [map.parent EXCEPT ![d] = p] ELSE map.parent,
            auto   |-> map.auto,
            role   |-> IF named THEN [map.role EXCEPT ![d] = found[d].role] ELSE map.role]

\* A mutant: in the order of the device ids.
InIdOrder(found) == SetToSortSeq(DOMAIN found, <)

\* The top of the map first: a device's place is how many come before it.
InOrder(found) ==
  LET depths == {<<Depth(found, d), d>> : d \in DOMAIN found}
      before(x, y) == x[1] < y[1] \/ (x[1] = y[1] /\ x[2] < y[2])
      rank(x) == Cardinality({y \in depths : before(y, x)})
  IN  [i \in 1..Cardinality(depths) |-> (CHOOSE x \in depths : rank(x) = i - 1)[2]]

\* One device of the pass, or of "accept all".
Settled(how, map, d, found) ==
  IF how = "automatic" THEN Placed(map, d, found) ELSE Accepted(map, d, found)

\* The chosen ones of the devices that were found, one after the other.
OneByOne(how, map, found, chosen) ==
  LET order == InOrder(found)
      after[n \in 0..Cardinality(Devices)] ==
        IF n = 0 THEN map
        ELSE IF n \in DOMAIN order /\ order[n] \in chosen
             THEN Settled(how, after[n - 1], order[n], found)
        ELSE after[n - 1]
  IN  after[Cardinality(Devices)]

\* apply_automatic: whatever was not answered "not right".
Pass(map, rejected) ==
  LET found == Discover(map.parent, map.role)
  IN  OneByOne("automatic", map, found, {d \in DOMAIN found : <<d, found[d].parent>> \notin rejected})

Map == [parent |-> parent, auto |-> auto, role |-> role]

Becomes(map) == parent' = map.parent /\ auto' = map.auto /\ role' = map.role

-----------------------------------------------------------------------------
(* The network, and what the scheduler does about it. *)

Replug(c) ==
  /\ c # cable /\ moves < MaxMoves
  /\ cable' = c /\ moves' = moves + 1
  /\ UNCHANGED <<read, device, place, dismissed, mode, hands>>

\* refresh_one: a machine that answers replaces what it said before.  One
\* that does not changes nothing.
ReadMachine(m) ==
  /\ snmp[m] # None
  /\ read' = [read EXCEPT ![m] = cable]
  /\ UNCHANGED <<cable, moves, device, place, dismissed, mode, hands>>

\* apply_automatic, after every round of reads.
AutomaticPass ==
  /\ mode = "automatic"
  /\ Becomes(Pass(Map, dismissed))
  /\ UNCHANGED <<network, device, dismissed, mode, hands>>

-----------------------------------------------------------------------------
(* A person. *)

ByHand == hands < MaxHands /\ hands' = hands + 1

\* set_mode: switching to automatic applies the map now.
SetMode(m) ==
  /\ ByHand
  /\ mode' = m
  /\ Becomes(IF m = "automatic" THEN Pass(Map, dismissed) ELSE Map)
  /\ UNCHANGED <<network, device, dismissed>>

\* place_device
Place(d, r, p) ==
  /\ ByHand /\ d \in rows
  /\ p # None => p \in rows \ ignored /\ CanParent(parent, d, p)
  /\ role' = [role EXCEPT ![d] = r]
  /\ parent' = [parent EXCEPT ![d] = p]
  /\ UNCHANGED <<network, device, auto, dismissed, mode>>

\* accept
Accept(d) ==
  LET found == Discover(parent, role)
  IN  /\ ByHand
      /\ d \in Suggested(found)
      /\ Becomes(Accepted(Map, d, found))
      /\ UNCHANGED <<network, device, dismissed, mode>>

\* accept_all: the top of the map first.
AcceptAll ==
  LET found == Discover(parent, role)
  IN  /\ ByHand
      /\ Becomes(OneByOne("accepted", Map, found, Suggested(found)))
      /\ UNCHANGED <<network, device, dismissed, mode>>

\* placed_automatically: is the place a device has automatic's?
PlacedAutomatically(d) ==
  d \in DOMAIN auto /\ parent[d] # None /\ parent[d] = auto[d]

\* dismiss_suggestion: what is suggested is not suggested again; what is not,
\* and automatic mode already placed there, is taken back off.
NotRight(d) ==
  LET found == Discover(parent, role)
  IN  /\ ByHand
      /\ d \in DOMAIN found
      /\ dismissed' = dismissed \cup {<<d, found[d].parent>>}
      /\ \/ d \in Suggested(found) /\ UNCHANGED place
         \/ /\ d \notin Suggested(found)
            /\ PlacedAutomatically(d) /\ parent[d] = found[d].parent
            /\ parent' = [parent EXCEPT ![d] = None]
            /\ auto' = [e \in DOMAIN auto \ {d} |-> auto[e]]
            /\ role' = role
      /\ UNCHANGED <<network, device, mode>>

\* ignore_device: a toggle.
Ignore(d) ==
  /\ ByHand /\ d \in rows
  /\ ignored' = IF d \in ignored THEN ignored \ {d} ELSE ignored \cup {d}
  /\ UNCHANGED <<network, rows, mac, snmp, place, dismissed, mode>>

\* wipe: every role, parent and "not right" answer; automatic mode rebuilds
\* the map at once.
Wipe ==
  LET empty == [parent |-> [d \in Devices |-> None], auto |-> [d \in {} |-> None],
                role |-> [d \in Devices |-> "unknown"]]
  IN  /\ ByHand
      /\ dismissed' = {}
      /\ Becomes(IF mode = "automatic" THEN Pass(empty, {}) ELSE empty)
      /\ UNCHANGED <<network, device, mode>>

\* The row d goes: its map_auto and SNMP rows with it, what pointed at it is
\* left with nothing.
Gone(d, map) ==
  [parent |-> [e \in Devices |-> IF e = d \/ map.parent[e] = d THEN None ELSE map.parent[e]],
   auto   |-> [e \in DOMAIN map.auto \ {d} |-> IF map.auto[e] = d THEN None ELSE map.auto[e]],
   role   |-> [map.role EXCEPT ![d] = "unknown"]]

\* remove_device
RemoveDevice(d) ==
  /\ ByHand /\ d \in rows
  /\ rows' = rows \ {d} /\ ignored' = ignored \ {d}
  /\ mac' = [mac EXCEPT ![d] = None]
  /\ snmp' = [m \in Polled |-> IF snmp[m] = d THEN None ELSE snmp[m]]
  /\ read' = [m \in Polled |-> IF snmp[m] = d THEN NotRead ELSE read[m]]
  /\ Becomes(Gone(d, Map))
  /\ UNCHANGED <<cable, moves, dismissed, mode>>

\* merge.plan refuses two known MACs that differ, and two polled devices.
CanMerge(keep, other) ==
  /\ keep # other /\ {keep, other} \subseteq rows
  /\ mac[keep] = None \/ mac[other] = None \/ mac[keep] = mac[other]
  /\ {keep, other} \ {snmp[m] : m \in Polled} # {}

\* merge.apply: what hung off the other device hangs off the kept one.
Merge(keep, other) ==
  LET onto == [parent |-> [d \in Devices |-> IF parent[d] = other THEN keep ELSE parent[d]],
               auto   |-> [d \in DOMAIN auto |-> IF auto[d] = other THEN keep ELSE auto[d]],
               role   |-> [role EXCEPT ![keep] = IF @ = "unknown" THEN role[other] ELSE @]]
  IN  /\ ByHand
      /\ CanMerge(keep, other)
      /\ Becomes(Gone(other, onto))
      /\ rows' = rows \ {other} /\ ignored' = ignored \ {other}
      /\ mac' = [mac EXCEPT ![keep] = IF @ = None THEN mac[other] ELSE @, ![other] = None]
      /\ snmp' = [m \in Polled |-> IF snmp[m] = other THEN keep ELSE snmp[m]]
      /\ UNCHANGED <<network, dismissed, mode>>

Next ==
  \/ \E c \in Cablings : Replug(c)
  \/ \E m \in Polled : ReadMachine(m)
  \/ AutomaticPass
  \/ \E m \in {"manual", "automatic"} : SetMode(m)
  \/ \E h \in Hands, r \in Roles : Place(h[1], r, h[2])
  \/ \E d \in Devices : Accept(d) \/ NotRight(d) \/ Ignore(d) \/ RemoveDevice(d)
  \/ AcceptAll
  \/ Wipe
  \/ \E h \in Merges : Merge(h[1], h[2])

Spec == Init /\ [][Next]_vars

-----------------------------------------------------------------------------
(* Properties. *)

\* The cabling as the devices' parents.
RowOf(m)  == Max({d \in rows : mac[d] = m} \cup {None})
Wiring(d) == IF mac[d] = None \/ cable[mac[d]] = None THEN None ELSE RowOf(cable[mac[d]])

\* Every switch was read since the network was last plugged differently, the
\* device on top is the one taken for the gateway, and whatever has something
\* below it is on the map: a switch, or the one device behind a switch's port.
ReportsAreCurrent ==
  /\ \A m \in Polled : snmp[m] # None /\ snmp[m] \notin ignored /\ read[m] = cable
  /\ Root(role) # None /\ mac[Root(role)] # None /\ cable[mac[Root(role)]] = None
  /\ \A m \in Machines : RowOf(m) # None /\ RowOf(m) \notin ignored

\* Reports that are all current place a device on what it is plugged into,
\* when that is a switch that answers or the gateway (topology.py rules 2-4).
ReportIsTrue ==
  LET found == Discover(parent, role)
  IN  ReportsAreCurrent =>
        \A d \in DOMAIN found :
          mac[d] # None /\ cable[mac[d]] # None
          /\ (cable[mac[d]] \in Bridges \/ cable[cable[mac[d]]] = None)
            => found[d].parent = Wiring(d)

\* Nobody's declared chain of parents comes back to itself (hierarchy.py
\* can_parent), whatever automatic mode and a person do in turn.
NoLoops == Loops(parent) = {}

\* Nothing on the map was set or cleared by a person.
AllAutomatic ==
  /\ \A d \in rows : parent[d] # None => PlacedAutomatically(d)
  /\ \A d \in DOMAIN auto : PlacedAutomatically(d)

\* One pass brings the whole map up to date, as long as no person has a say
\* in it: whatever each device was on before, it ends up where the reports
\* now put it, because the top of the map goes first (apply_automatic: moved
\* if SNMP now sees it elsewhere).
PassFollows ==
  LET found == Discover(parent, role)
      after == Pass(Map, dismissed)
  IN  AllAutomatic /\ dismissed = {} =>
        \A d \in DOMAIN found : after.parent[d] = found[d].parent

===============================================================================
