------------------------------- MODULE Topology -------------------------------
(***************************************************************************)
(* Where each device is plugged in, worked out from what switches report   *)
(* (topology.py infer), and the walks over declared parents (hierarchy.py).*)
(*                                                                         *)
(* A net is a record: macs (the MACs each device is known by), tables      *)
(* (switch -> port -> MACs learned there), lldp (switch -> the set of      *)
(* <<port, neighbour>> it hears), infra (devices others can be behind),    *)
(* root, and the parents the map has now.  Devices and ports are positive  *)
(* numbers; None stands for the code's None.                               *)
(***************************************************************************)
EXTENDS Naturals, FiniteSets, FiniteSetsExt

CONSTANTS
  Devices,   \* device ids
  MaxDepth   \* hierarchy.MAX_DEPTH, 32 in the code

None == 0

ASSUME TopologyAssumption ==
  /\ Devices \subseteq Nat \ {None} /\ IsFiniteSet(Devices)
  /\ MaxDepth \in Nat

-----------------------------------------------------------------------------
(* Declared parents: a function from devices to devices or None. *)

\* climb[n] is the device n steps above d, None past the top.
Climb(parents, d) ==
  LET climb[n \in 0..Cardinality(Devices)] ==
        IF n = 0 THEN d
        ELSE LET at == climb[n - 1] IN IF at = None THEN None ELSE parents[at]
  IN  climb

\* ancestors: nearest first in the code, here as a set.  The walk stops at a
\* repeat and at MaxDepth.
Ancestors(parents, d) ==
  {Climb(parents, d)[n] : n \in 1..Min({MaxDepth, Cardinality(Devices)})} \ {None, d}

\* descendants: no depth limit.
Descendants(parents, d) ==
  {e \in Devices \ {d} :
     \E n \in 1..Cardinality(Devices) : Climb(parents, e)[n] = d}

\* A mutant: only the device itself is refused.
CanParentNotSelf(parents, d, p) == p # d

CanParent(parents, d, p) == p # d /\ p \notin Descendants(parents, d)

Loops(parents) ==
  {d \in Devices : \E n \in 1..Cardinality(Devices) : Climb(parents, d)[n] = d}

-----------------------------------------------------------------------------
(* infer, the part read from the MAC tables. *)

\* The switches that know which way is up, with the port they learned the
\* gateway's MAC on; None for the gateway itself, all of whose ports lead
\* down.  A switch that never saw the gateway is not used.
Uplinks(net) ==
  LET gateway(s, p) == Cardinality(net.tables[s][p] \cap net.macs[net.root])
      best(s) == Max({gateway(s, p) : p \in DOMAIN net.tables[s]} \cup {0})
  IN  [s \in {t \in DOMAIN net.tables : t = net.root \/ best(t) > 0} |->
         IF s = net.root THEN None
         ELSE Min({p \in DOMAIN net.tables[s] : gateway(s, p) = best(s)})]

\* The downstream ports on which a switch sees a device.
SeenOn(net, up, s, d) ==
  {p \in DOMAIN net.tables[s] \ {up[s]} : net.tables[s][p] \cap net.macs[d] # {}}

\* A mutant: a device is on the switch nearest the gateway.
DeepestHighest(sees, candidates) ==
  LET score(c) == Cardinality({o \in candidates \ {c} : <<o, c>> \in sees})
  IN  {c \in candidates : \A o \in candidates : score(c) <= score(o)}

\* The candidates the most other candidates see downstream; sees is the
\* relation between a switch and what it sees there.
Deepest(sees, candidates) ==
  LET score(c) == Cardinality({o \in candidates \ {c} : <<o, c>> \in sees})
  IN  {c \in candidates : \A o \in candidates : score(o) <= score(c)}

Link(device, parent, port, source) ==
  [device |-> device, parent |-> parent, port |-> port, source |-> source]

\* Each device on the deepest switch that sees it; a switch no other sees
\* below it, and what is seen on uplinks only, on the gateway.
MacLinks(net, up) ==
  LET known == {d \in Devices : net.macs[d] # {}} \ {net.root}
      sees  == {sd \in (DOMAIN up) \X Devices :
                  sd[1] # sd[2] /\ SeenOn(net, up, sd[1], sd[2]) # {}}
      seers(d)    == {s \in DOMAIN up : <<s, d>> \in sees}
      switches(d) == Deepest(sees, seers(d))
      seenUp      == UNION {net.tables[s][up[s]] : s \in DOMAIN up \ {net.root}}
      placed  == {d \in known : Cardinality(switches(d)) = 1}
      switch(d) == CHOOSE s \in switches(d) : TRUE
      unseen  == {d \in known : seers(d) = {}}
      onTop   == unseen \cap DOMAIN up
      onWayUp == {d \in unseen \ onTop : net.macs[d] \cap seenUp # {}}
  IN  {Link(d, switch(d), Min(SeenOn(net, up, switch(d), d)), "mac") : d \in placed}
      \cup {Link(d, net.root, up[d], "top") : d \in onTop}
      \cup {Link(d, net.root, None, "uplink") : d \in onWayUp}
      \cup {Link(net.root, None, None, "root")}

\* Several devices on one port of a switch: behind the one piece of
\* infrastructure among them that is not itself placed below another.
Behind(net, links) ==
  LET group(l) == IF l.source # "mac" THEN {}
                  ELSE {k.device : k \in {k \in links : /\ k.source = "mac"
                                                       /\ <<k.parent, k.port>> = <<l.parent, l.port>>}}
      front(l) == {d \in group(l) \cap net.infra : net.parents[d] \notin group(l)}
  IN  {IF Cardinality(front(l)) = 1 /\ l.device \notin front(l)
       THEN Link(l.device, CHOOSE d \in front(l) : TRUE, l.port, "behind")
       ELSE l : l \in links}

-----------------------------------------------------------------------------
(* LLDP overrides the tables, and what still loops is dropped. *)

\* A neighbour heard on a downstream port is below; one heard on the uplink,
\* or the gateway on any port, is above.  Both ends usually report a link:
\* the parent's side is kept, the lowest switch first.
LldpLinks(net, up) ==
  LET rows == {r \in UNION {{<<s, h[1], h[2]>> : h \in net.lldp[s]} : s \in DOMAIN net.lldp} :
                 r[3] # r[1]}
      isDown(r) == \/ r[1] = net.root
                   \/ r[1] \in DOMAIN up /\ r[2] # up[r[1]] /\ r[3] # net.root
      isUp(r)   == /\ ~isDown(r)
                   /\ r[3] = net.root \/ (r[1] \in DOMAIN up /\ r[2] = up[r[1]])
      first(S)  == CHOOSE r \in S : \A q \in S : r[1] < q[1] \/ (r[1] = q[1] /\ r[2] <= q[2])
      down(d) == {r \in rows : isDown(r) /\ r[3] = d}
      above(d) == {r \in rows : isUp(r) /\ r[1] = d}
  IN  {IF down(d) # {}
       THEN Link(d, first(down(d))[1], first(down(d))[2], "lldp")
       ELSE Link(d, first(above(d))[3], first(above(d))[2], "lldp")
       : d \in {e \in Devices \ {net.root} : down(e) \cup above(e) # {}}}

\* _without_loops: a device whose chain of discovered parents never ends is
\* dropped, and so is what hangs off such a chain.
WithoutLoops(links) ==
  LET found   == {l.device : l \in links}
      of(d)   == CHOOSE l \in links : l.device = d
      parents == [d \in Devices |-> IF d \in found THEN of(d).parent ELSE None]
      ends(d) == Climb(parents, d)[Cardinality(Devices)] = None
  IN  [d \in {e \in found : ends(e)} |-> of(d)]

Infer(net) ==
  IF net.root = None
  THEN [d \in {} |-> Link(None, None, None, "root")]
  ELSE LET up    == Uplinks(net)
           heard == LldpLinks(net, up)
           seen  == Behind(net, MacLinks(net, up))
       IN  WithoutLoops(heard \cup {l \in seen : \A h \in heard : h.device # l.device})

\* _depth: how far below the top of the found map a device is.
Depth(links, d) ==
  LET parents == [e \in Devices |-> IF e \in DOMAIN links THEN links[e].parent ELSE None]
  IN  Cardinality(Ancestors(parents, d))
===============================================================================
