------------------------------- MODULE Inventory -------------------------------
(***************************************************************************)
(* The devices SPARK knows: what a sweep of the network makes of what      *)
(* answers (discovery/), MACs learned from a router over SNMP              *)
(* (identity.py), merging, removing and ignoring by hand, port scans, Find *)
(* SNMP (snmp_discover.py), and what the first-run wizard leaves for the   *)
(* first sweep (onboarding.py, web/routes_welcome.py).                     *)
(*                                                                         *)
(* Sweeps, scans and searches read what they need, spend seconds on the    *)
(* network with the database let go, and write in a second transaction.    *)
(* A scheduled sweep and one started by hand are two jobs.  A restart loses *)
(* all that is not in the database.                                        *)
(***************************************************************************)
EXTENDS Naturals, FiniteSets

CONSTANTS
  Boxes,      \* what is on the network; each has a MAC
  Router,     \* the box that answers SNMP
  Serving,    \* the boxes that listen on the port that is scanned
  Addresses,  \* 1 .. n, in the order they are swept
  Attached,   \* addresses on subnets SPARK sits on, where ARP shows the MAC
  MaxId,      \* device rows (bound)
  Sweeps,     \* the jobs that sweep
  Scopes,     \* what goes on in a behaviour, beside sweeps (bound)
  Settings,   \* the networks one starts from (bound)
  MaxMoves    \* changes of the network (bound)

ASSUME ConstantsAssumption ==
  /\ Router \in Boxes /\ Serving \subseteq Boxes
  /\ IsFiniteSet(Addresses) /\ 1 \in Addresses /\ Addresses = 1 .. Cardinality(Addresses)
  /\ Attached \subseteq Addresses
  /\ MaxId \in Nat /\ MaxMoves \in Nat
  /\ "none" \notin Boxes /\ Settings \subseteq [Addresses -> Boxes \cup {"none"}]

VARIABLES
  scope,     \* what goes on in this behaviour
  at,        \* at[a]: the box at address a
  moves,     \* changes of the network so far
  device,    \* device[d]: the row with id d
  extra,     \* extra[a]: the device a is an extra address of, or 0
  excluded,  \* addresses nothing is sent to
  sweep,     \* sweep[s]: a sweep
  polled,    \* the device on the SNMP list, or 0 (one row: bound)
  report,    \* what it said of its own addresses and its ARP table
  refresh,   \* the reading of them
  service,   \* service[d]: the row of the scanned port
  scan,      \* the port scan
  wizard,    \* the onboarding setting
  form,      \* a wizard form that was posted and has read the setting
  link,      \* the credential the wizard made
  search,    \* Find SNMP: its setting, and its job
  log        \* what happened, for the properties

network == <<scope, at, moves>>
rows    == <<device, extra, excluded>>
snmp    == <<polled, report, refresh>>
ports   == <<service, scan>>
guide   == <<wizard, form, link, search, log>>
vars    == <<network, rows, sweep, snmp, ports, guide>>

Ids  == 1 .. MaxId
None == "none"
Macs == Boxes \cup {None}

DeviceRow == [there : BOOLEAN, mac : Macs, ip : Addresses, ignored : BOOLEAN]
NoDevice  == [there |-> FALSE, mac |-> None, ip |-> 1, ignored |-> FALSE]

\* A credential: its address, the device it belongs to, and whether it is
\* still to be linked.
Link   == [there : BOOLEAN, host : Addresses, device : Ids \cup {0}, flag : BOOLEAN]
NoLink == [there |-> FALSE, host |-> 1, device |-> 0, flag |-> FALSE]

\* What a sweep saw at an address: nothing, something, or a MAC.
Silent == "silent"
Seen   == [Addresses -> Macs \cup {Silent}]
Sweep  == [phase : {"idle", "swept", "recording"}, seen : Seen, hit : SUBSET Ids, was : DeviceRow]
Rested == [phase |-> "idle", seen |-> [a \in Addresses |-> Silent], hit |-> {}, was |-> NoDevice]

Report   == [own : SUBSET Addresses, arp : [Addresses -> Macs]]
NoReport == [own |-> {}, arp |-> [a \in Addresses |-> None]]

TypeOK ==
  /\ scope \in Scopes
  /\ at \in [Addresses -> Macs] /\ moves \in 0 .. MaxMoves
  /\ device \in [Ids -> DeviceRow] /\ extra \in [Addresses -> Ids \cup {0}]
  /\ excluded \subseteq Addresses
  /\ sweep \in [Sweeps -> Sweep]
  /\ polled \in Ids \cup {0} /\ report \in Report
  /\ refresh \in [phase : {"idle", "asked", "read"}, heard : BOOLEAN, said : Report]
  /\ service \in [Ids -> {"none", "open", "closed"}]
  /\ scan \in [on : BOOLEAN, asked : SUBSET Ids, open : SUBSET Ids]
  /\ wizard \in [done : BOOLEAN, find : BOOLEAN]
  /\ form \in [on : BOOLEAN, read : [done : BOOLEAN, find : BOOLEAN]]
  /\ link \in Link
  /\ search \in [running : BOOLEAN, job : {"none", "queued", "asking"}, wish : BOOLEAN,
                 heard : SUBSET Ids, found : SUBSET Ids]
  /\ log \in [asked : 0 .. 1, ran : 0 .. 2, fate : {"none", "refused", "lost"},
              crossed : BOOLEAN, overtaken : BOOLEAN]

Init ==
  /\ scope \in Scopes
  /\ at \in Settings /\ moves = 0
  /\ device = [d \in Ids |-> NoDevice] /\ extra = [a \in Addresses |-> 0]
  /\ excluded = {}
  /\ sweep = [s \in Sweeps |-> Rested]
  /\ polled = 0 /\ report = NoReport
  /\ refresh = [phase |-> "idle", heard |-> FALSE, said |-> NoReport]
  /\ service = [d \in Ids |-> "none"]
  /\ scan = [on |-> FALSE, asked |-> {}, open |-> {}]
  /\ wizard = [done |-> FALSE, find |-> FALSE]
  /\ form = [on |-> FALSE, read |-> wizard]
  /\ link = NoLink
  /\ search = [running |-> FALSE, job |-> "none", wish |-> FALSE, heard |-> {}, found |-> {}]
  /\ log = [asked |-> 0, ran |-> 0, fate |-> "none", crossed |-> FALSE, overtaken |-> FALSE]

\* A lease runs out, a cable is pulled: an address changes hands.
Move ==
  /\ "move" \in scope /\ moves < MaxMoves /\ moves' = moves + 1
  /\ \E a \in Addresses, m \in Macs : at' = [at EXCEPT ![a] = m]
  /\ UNCHANGED <<scope, rows, sweep, snmp, ports, guide>>

-----------------------------------------------------------------------------
(* Which device an answer is (store.py). *)

There(table) == {d \in Ids : table[d].there}
Least(S)     == CHOOSE d \in S : \A e \in S : d <= e

\* A new row's id: one more than the largest there is.
NewId(table) == CHOOSE d \in 1 .. MaxId + 1 :
                  /\ \A e \in There(table) : e < d
                  /\ d = 1 \/ d - 1 \in There(table)

\* The table with this row.
Put(table, d, row) == [e \in DOMAIN table \cup {d} |-> IF e = d THEN row ELSE table[e]]

\* A mutant: a row is found by its MAC only.
MatchedByMac(table, a, m) ==
  {d \in There(table) : /\ m # None /\ table[d].mac \in {m, None}
                        /\ (table[d].mac = m \/ table[d].ip = a)}

\* _match: the rows an answer may be, of which the first is taken.
Matched(table, a, m) ==
  LET byMac == {d \in There(table) : m # None /\ table[d].mac = m}
      here  == {d \in There(table) : table[d].ip = a}
      bare  == {d \in here : table[d].mac = None}
  IN IF m = None THEN here ELSE IF byMac # {} THEN byMac ELSE bare

\* A mutant: extra addresses are not looked at.
RecordedAnew(table, others, a, m, hit, was) ==
  LET d == IF hit = {} THEN NewId(table) ELSE Least(hit)
  IN [table  |-> Put(table, d, [there |-> TRUE, mac |-> IF was.mac = None THEN m ELSE was.mac,
                                ip |-> a, ignored |-> was.ignored]),
      others |-> IF others[a] # d /\ (hit = {} \/ was.ip # a) THEN [others EXCEPT ![a] = 0]
                 ELSE others]

\* record: one answer, given the rows it matched and the first of them as it
\* was read; only what then changes is written.  Without a MAC, and known as an
\* extra address, it is that device, whose own address stays.
Recorded(table, others, a, m, hit, was) ==
  LET d == Least(hit)
      n == NewId(table)
  IN CASE hit = {} /\ m = None /\ others[a] # 0 -> [table |-> table, others |-> others]
       [] hit = {} /\ (m # None \/ others[a] = 0) ->
            [table  |-> Put(table, n, [there |-> TRUE, mac |-> m, ip |-> a, ignored |-> FALSE]),
             others |-> [others EXCEPT ![a] = 0]]
       [] OTHER ->
            [table  |-> [table EXCEPT ![d].mac = IF was.mac = None /\ m # None THEN m ELSE @,
                                      ![d].ip  = IF was.ip # a THEN a ELSE @],
             others |-> IF others[a] # d /\ was.ip # a THEN [others EXCEPT ![a] = 0] ELSE others]

\* The first address at which a sweep saw anything.
FirstSeen(s) == Least({a \in Addresses : sweep[s].seen[a] # Silent})

\* One answer of record_all, after the ones before it.  What the first one
\* matches was read before the transaction had the write lock.
Answered(s, before, n) ==
  LET m     == sweep[s].seen[n]
      first == n = FirstSeen(s)
      hit   == IF first THEN sweep[s].hit ELSE Matched(before.table, n, m)
      was   == IF first THEN sweep[s].was
               ELSE IF hit = {} THEN NoDevice ELSE before.table[Least(hit)]
  IN IF m = Silent THEN before ELSE Recorded(before.table, before.others, n, m, hit, was)

\* record_all: one answer after the other.
AllRecorded(s) ==
  LET after[n \in 0 .. Cardinality(Addresses)] ==
        IF n = 0 THEN [table |-> device, others |-> extra] ELSE Answered(s, after[n - 1], n)
  IN after[Cardinality(Addresses)]

\* What it matched is gone, or its MAC has a row by now: the database refuses.
Refused(s) ==
  LET a == FirstSeen(s)
      m == sweep[s].seen[a]
  IN sweep[s].seen # Rested.seen /\
       \/ ~sweep[s].hit \subseteq There(device)
       \/ /\ m # None /\ (sweep[s].hit = {} \/ sweep[s].was.mac = None)
          /\ \E d \in There(device) \ sweep[s].hit : device[d].mac = m

-----------------------------------------------------------------------------
(* A sweep (runner.py, sweep.py). *)

\* hosts_in, ping_sweep: whom to ask, of whom some answer.
Reachable == {a \in Addresses \ excluded : at[a] # None}

\* sweep_subnet, sweep_all: of those that answered, ARP resolved some.
Observed(answering, resolved) ==
  [a \in Addresses |-> IF a \notin answering THEN Silent
                       ELSE IF a \in resolved THEN at[a] ELSE None]

\* run_sweep reads the subnets and what is excluded, and asks.  (The sweep a
\* person starts is there in the behaviours that are about two of them.)
BeginSweep(s) ==
  /\ sweep[s].phase = "idle" /\ (s = "now" => "overlap" \in scope)
  /\ \E answering \in SUBSET Reachable : \E resolved \in SUBSET (answering \cap Attached) :
       sweep' = [sweep EXCEPT ![s] = [Rested EXCEPT !.phase = "swept",
                                                    !.seen = Observed(answering, resolved)]]
  /\ UNCHANGED <<network, rows, snmp, ports, guide>>

\* ... and the second transaction begins with a look at the first answer.
BeginRecord(s) ==
  /\ sweep[s].phase = "swept"
  /\ LET a   == FirstSeen(s)
         hit == IF sweep[s].seen = Rested.seen THEN {} ELSE Matched(device, a, sweep[s].seen[a])
     IN sweep' = [sweep EXCEPT ![s].phase = "recording",
                               ![s].hit = IF hit = {} THEN {} ELSE {Least(hit)},
                               ![s].was = IF hit = {} THEN @ ELSE device[Least(hit)]]
  /\ UNCHANGED <<network, rows, snmp, ports, guide>>

\* _device_at: the devices at the credential's address that are not ignored.
DevicesAt(table, others, a) ==
  {d \in There(table) : ~table[d].ignored /\ (table[d].ip = a \/ others[a] = d)}

\* link_credentials: the one device there, if there is one.
Linked(table, others) ==
  LET here == DevicesAt(table, others, link.host)
  IN IF link.there /\ link.flag /\ link.device = 0 /\ Cardinality(here) = 1
     THEN [link EXCEPT !.device = Least(here), !.flag = FALSE] ELSE link

\* A mutant: what was asked for is not taken out of the setting.
TakenUpAgain == wizard

\* after_sweep: Find SNMP was asked for, once.
TakenUp == [wizard EXCEPT !.find = FALSE]

\* mark_started, the commit, and trigger_snmp_discovery: the setting says that
\* a search runs, and its job is queued, which only the scheduler knows of.
\* wish: it is the one the wizard asked for.
Marked(wish) == [search EXCEPT !.running = TRUE, !.job = "queued", !.wish = wish]

\* run_sweep's second transaction, with after_sweep and mark_started: what the
\* wizard asked for is taken out of its setting first, and not searched for if
\* a search is running.
Record(s) ==
  /\ sweep[s].phase = "recording" /\ ~Refused(s)
  /\ LET all == AllRecorded(s)
         a   == FirstSeen(s)
     IN /\ DOMAIN all.table = Ids
        /\ device' = all.table /\ extra' = all.others
        /\ link' = Linked(all.table, all.others)
        /\ wizard' = TakenUp
        /\ search' = IF wizard.find /\ ~search.running THEN Marked(TRUE) ELSE search
        /\ log' = [log EXCEPT
             !.fate = IF wizard.find /\ search.running THEN "refused" ELSE @,
             !.overtaken = @ \/ (sweep[s].seen # Rested.seen /\
                                    IF sweep[s].hit = {}
                                    THEN Matched(device, a, sweep[s].seen[a]) # {}
                                    ELSE device[Least(sweep[s].hit)] # sweep[s].was)]
  /\ sweep' = [sweep EXCEPT ![s] = Rested]
  /\ UNCHANGED <<network, excluded, snmp, ports, form>>

\* Anything goes wrong: nothing is recorded.
FailSweep(s) ==
  /\ sweep[s].phase # "idle"
  /\ sweep' = [sweep EXCEPT ![s] = Rested]
  /\ UNCHANGED <<network, rows, snmp, ports, guide>>

\* SPARK is restarted: what was under way is not, and the setting says of a
\* search that it runs.
Restart ==
  /\ "restart" \in scope
  /\ sweep' = [s \in Sweeps |-> Rested]
  /\ refresh' = [phase |-> "idle", heard |-> FALSE, said |-> NoReport]
  /\ scan' = [on |-> FALSE, asked |-> {}, open |-> {}]
  /\ form' = [on |-> FALSE, read |-> [done |-> FALSE, find |-> FALSE]]
  /\ search' = [search EXCEPT !.job = "none", !.wish = FALSE, !.heard = {}]
  /\ log' = [log EXCEPT !.fate = IF search.wish THEN "lost" ELSE @]
  /\ UNCHANGED <<network, rows, polled, report, service, wizard, link>>

-----------------------------------------------------------------------------
(* People and their devices (routes_device_page.py, merge.py). *)

Hand(table, others) ==
  /\ device' = table /\ extra' = others
  /\ UNCHANGED <<network, excluded, sweep, refresh, scan, wizard, form, search, log>>

\* plan: not two MACs.  (Nor two devices polled: there is one here.)
MayMerge(k, o) ==
  /\ {k, o} \subseteq There(device) /\ k # o
  /\ device[k].mac = None \/ device[o].mac = None

\* What is tied to a device that is merged into k.
Kept(d, k, o) == IF d = o THEN k ELSE d

\* apply: o's addresses, SNMP polling, credential and service become k's; its
\* MAC fills in what k lacks; moved: k is at o's address now.
Merge(k, o, moved) ==
  /\ "merge" \in scope
  /\ MayMerge(k, o) /\ (moved => device[k].ip # device[o].ip)
  /\ LET ip     == device[o].ip
         others == [a \in Addresses |-> Kept(extra[a], k, o)]
         mac    == IF device[k].mac = None THEN device[o].mac ELSE device[k].mac
         home   == IF moved THEN ip ELSE device[k].ip
         one    == [device[k] EXCEPT !.mac = mac, !.ip = home]
     IN Hand([device EXCEPT ![o] = NoDevice, ![k] = one],
             IF ip = device[k].ip THEN others
             ELSE [others EXCEPT ![ip] = IF moved THEN 0 ELSE k])
  /\ polled' = Kept(polled, k, o)
  /\ link' = [link EXCEPT !.device = Kept(@, k, o)]
  /\ service' = [service EXCEPT ![k] = IF @ = "none" THEN service[o] ELSE @, ![o] = "none"]
  /\ UNCHANGED report

\* remove_device, with what the database takes along; a credential on it stays.
RemoveDevice(d) ==
  /\ "remove" \in scope /\ d \in There(device)
  /\ Hand([device EXCEPT ![d] = NoDevice], [a \in Addresses |-> IF extra[a] = d THEN 0 ELSE extra[a]])
  /\ polled' = IF polled = d THEN 0 ELSE polled
  /\ report' = IF polled = d THEN NoReport ELSE report
  /\ link' = [link EXCEPT !.device = IF @ = d THEN 0 ELSE @]
  /\ service' = [service EXCEPT ![d] = "none"]

\* remove_address, and ignore_device.
RemoveAddress(a) ==
  /\ "merge" \in scope /\ extra[a] # 0
  /\ Hand(device, [extra EXCEPT ![a] = 0])
  /\ UNCHANGED <<polled, report, link, service>>

IgnoreDevice(d) ==
  /\ "ignore" \in scope /\ d \in There(device)
  /\ Hand([device EXCEPT ![d].ignored = ~@], extra)
  /\ UNCHANGED <<polled, report, link, service>>

\* exclusions.add, exclusions.remove.
Exclude(a) ==
  /\ "exclude" \in scope
  /\ excluded' = IF a \in excluded THEN excluded \ {a} ELSE excluded \cup {a}
  /\ UNCHANGED <<network, device, extra, sweep, snmp, ports, guide>>

-----------------------------------------------------------------------------
(* MACs from the router's ARP table (identity.py). *)

\* snmp_config: on the SNMP list, and off it with what it said.
AddToSnmp(d) ==
  /\ "snmp" \in scope /\ polled = 0 /\ d \in There(device)
  /\ polled' = d
  /\ UNCHANGED <<network, rows, sweep, report, refresh, ports, guide>>

RemoveFromSnmp ==
  /\ polled # 0
  /\ polled' = 0 /\ report' = NoReport
  /\ UNCHANGED <<network, rows, sweep, refresh, ports, guide>>

\* refresh_one: the device is asked at its address; only the router answers.
AskRouter ==
  /\ polled # 0 /\ refresh.phase = "idle"
  /\ LET heard == at[device[polled].ip] = Router
         own   == {a \in Addresses : at[a] = Router}
     IN refresh' = [phase |-> "asked", heard |-> heard,
                    said |-> IF ~heard THEN NoReport
                             ELSE [own |-> own,
                                   arp |-> [a \in Addresses |-> IF a \in own THEN None ELSE at[a]]]]
  /\ UNCHANGED <<network, rows, sweep, polled, report, ports, guide>>

\* store, unless the device has left the list: an answer replaces what it said
\* before, silence keeps it.
StoreReport ==
  /\ refresh.phase = "asked"
  /\ report' = IF polled # 0 /\ refresh.heard THEN refresh.said ELSE report
  /\ refresh' = [refresh EXCEPT !.phase = "read", !.said = NoReport]
  /\ UNCHANGED <<network, rows, sweep, polled, ports, guide>>

Wanting(m) == {d \in There(device) : /\ device[d].mac = None
                                     /\ device[d].ip \notin report.own
                                     /\ report.arp[device[d].ip] = m}

\* A mutant: whether a device has the MAC already is not looked at.
MayFillAnyway(m) == Cardinality(Wanting(m)) = 1

\* One device wants the MAC, and none has it.
MayFill(m) == Cardinality(Wanting(m)) = 1 /\ \A d \in There(device) : device[d].mac # m

\* fill_in_macs.
FillInMacs ==
  /\ refresh.phase = "read"
  /\ refresh' = [refresh EXCEPT !.phase = "idle"]
  /\ device' = [d \in Ids |->
       LET m == report.arp[device[d].ip]
       IN IF m # None /\ d \in Wanting(m) /\ MayFill(m) THEN [device[d] EXCEPT !.mac = m]
          ELSE device[d]]
  /\ UNCHANGED <<network, extra, excluded, sweep, polled, report, ports, guide>>

-----------------------------------------------------------------------------
(* Port scans (runner.py, ports.py, services.py). *)

\* scan_hosts: which of them listen on the port.
Listening(asked) == {d \in asked : at[device[d].ip] \in Serving}

\* run_port_scan reads the devices and asks them, unless the port is one the
\* network answers for itself (find_interception): then nothing is covered.
BeginScan ==
  /\ "ports" \in scope /\ ~scan.on
  /\ LET asked == {d \in There(device) : ~device[d].ignored /\ device[d].ip \notin excluded}
     IN scan' \in {[on |-> TRUE, asked |-> asked, open |-> Listening(asked)],
                   [on |-> TRUE, asked |-> {}, open |-> {}]}
  /\ UNCHANGED <<network, rows, sweep, snmp, service, guide>>

\* record_services, by the ids that were read.  A service of a device that is
\* gone is refused by the database, and the whole scan with it.
RecordScan ==
  /\ scan.on
  /\ scan' = [scan EXCEPT !.on = FALSE, !.asked = {}, !.open = {}]
  /\ service' = IF ~scan.open \subseteq There(device) THEN service
                ELSE [d \in Ids |-> IF d \in scan.open THEN "open"
                                    ELSE IF d \in scan.asked /\ service[d] = "open" THEN "closed"
                                    ELSE service[d]]
  /\ UNCHANGED <<network, rows, sweep, snmp, guide>>

-----------------------------------------------------------------------------
(* The wizard and Find SNMP. *)

\* A form of the wizard that takes its time (a credential is tested over the
\* network) has read the onboarding setting ...
PostForm ==
  /\ "wizard" \in scope /\ ~form.on
  /\ form' = [on |-> TRUE, read |-> wizard]
  /\ UNCHANGED <<network, rows, sweep, snmp, ports, wizard, link, search, log>>

\* ... and saves it whole, its own step added (mark, set_chosen); an
\* integration it was given comes without a device, to be linked.
SaveForm ==
  /\ form.on
  /\ form' = [on |-> FALSE, read |-> [done |-> FALSE, find |-> FALSE]]
  /\ wizard' = form.read
  /\ \/ link' = link
     \/ /\ ~link.there
        /\ \E a \in Addresses : link' = [there |-> TRUE, host |-> a, device |-> 0, flag |-> TRUE]
  /\ log' = [log EXCEPT !.crossed = @ \/ wizard # form.read]
  /\ UNCHANGED <<network, rows, sweep, snmp, ports, search>>

\* finish: done, and Find SNMP asked for or not (once: bound).
Finish ==
  /\ "wizard" \in scope /\ log.asked = 0
  /\ \E find \in BOOLEAN :
       /\ wizard' = [done |-> TRUE, find |-> find]
       /\ log' = [log EXCEPT !.asked = IF find THEN 1 ELSE 0]
  /\ UNCHANGED <<network, rows, sweep, snmp, ports, form, link, search>>

\* The credential is deleted again.
DropCredential ==
  /\ link.there
  /\ link' = NoLink
  /\ UNCHANGED <<network, rows, sweep, snmp, ports, wizard, form, search, log>>

\* Find SNMP pressed, if none is running.
PressFind ==
  /\ "search" \in scope /\ ~search.running
  /\ search' = Marked(FALSE)
  /\ UNCHANGED <<network, rows, sweep, snmp, ports, wizard, form, link, log>>

\* _run: every device that is not on the list, nor ignored, nor excluded, is
\* asked; what the last search found is forgotten.
RunFind ==
  /\ search.job = "queued"
  /\ search' = [search EXCEPT !.running = TRUE, !.job = "asking", !.found = {},
                  !.heard = {d \in There(device) : /\ ~device[d].ignored /\ d # polled
                                                   /\ device[d].ip \notin excluded
                                                   /\ at[device[d].ip] = Router}]
  /\ UNCHANGED <<network, rows, sweep, snmp, ports, wizard, form, link, log>>

SearchOver(found) ==
  [running |-> FALSE, job |-> "none", wish |-> FALSE, heard |-> {}, found |-> found]

EndFind ==
  /\ search.job = "asking"
  /\ search' = SearchOver(search.heard)
  /\ log' = [log EXCEPT !.ran = IF search.wish /\ @ < 2 THEN @ + 1 ELSE @]
  /\ UNCHANGED <<network, rows, sweep, snmp, ports, wizard, form, link>>

\* run_discovery, when anything goes wrong.
FailFind ==
  /\ search.job # "none"
  /\ search' = SearchOver({})
  /\ log' = [log EXCEPT !.fate = IF search.wish THEN "lost" ELSE @]
  /\ UNCHANGED <<network, rows, sweep, snmp, ports, wizard, form, link>>

\* The scheduler was too busy to start it in time: nobody says so.
MissFind ==
  /\ "restart" \in scope /\ search.job = "queued"
  /\ search' = [search EXCEPT !.job = "none", !.wish = FALSE]
  /\ log' = [log EXCEPT !.fate = IF search.wish THEN "lost" ELSE @]
  /\ UNCHANGED <<network, rows, sweep, snmp, ports, wizard, form, link>>

\* is_running: after ten minutes the setting is not believed.
FindIsStale ==
  /\ search.running /\ search.job = "none"
  /\ search' = [search EXCEPT !.running = FALSE]
  /\ UNCHANGED <<network, rows, sweep, snmp, ports, wizard, form, link, log>>

\* add_all_found, of what is still there, not ignored and not listed (waiting).
AddFound(d) ==
  /\ d \in search.found /\ polled = 0
  /\ d \in There(device) /\ ~device[d].ignored
  /\ polled' = d
  /\ UNCHANGED <<network, rows, sweep, report, refresh, ports, guide>>

Next ==
  \/ Move
  \/ \E s \in Sweeps : BeginSweep(s) \/ BeginRecord(s) \/ Record(s) \/ FailSweep(s)
  \/ \E k, o \in Ids, moved \in BOOLEAN : Merge(k, o, moved)
  \/ \E d \in Ids : RemoveDevice(d) \/ IgnoreDevice(d) \/ AddToSnmp(d) \/ AddFound(d)
  \/ \E a \in Addresses : RemoveAddress(a) \/ Exclude(a)
  \/ RemoveFromSnmp \/ AskRouter \/ StoreReport \/ FillInMacs
  \/ BeginScan \/ RecordScan
  \/ PostForm \/ SaveForm \/ Finish \/ DropCredential
  \/ PressFind \/ RunFind \/ EndFind \/ FailFind \/ MissFind \/ FindIsStale
  \/ Restart

Spec == Init /\ [][Next]_vars

-----------------------------------------------------------------------------

\* No two devices have one MAC: a MAC learned from the router, a merge and a
\* sweep's own adopting of a row never write one that another row has, which
\* the database would refuse (identity.fill_in_macs, merge.apply, store.record).
OneRowPerMac ==
  \A d, e \in There(device) : device[d].mac # None /\ device[d].mac = device[e].mac => d = e

\* Nor are two devices without a MAC at one address (store._match: "creating a
\* second one would split its history in half"), unless what a sweep looked at
\* changed before it wrote, which two sweeps at a time can bring about.
NoTwins ==
  ~log.overtaken => \A d, e \in There(device) :
    device[d].mac = None /\ device[e].mac = None /\ device[d].ip = device[e].ip => d = e

\* What answers without a MAC at an extra address is never made a device of
\* its own by a sweep (models.DeviceAddress: "records it against that device
\* instead of creating it again").
MergedIsRecorded ==
  [][\A s \in Sweeps, a \in Addresses :
       Record(s) /\ extra[a] # 0 /\ sweep[s].seen[a] \in {None, Silent}
                 /\ (\A d \in There(device) : device[d].ip # a)
         => extra'[a] = extra[a] /\ \A d \in There(device') : device'[d].ip # a]_vars

\* What finishing the wizard asks of the first sweep is neither lost nor done
\* twice (after_sweep: "once"): until a sweep has recorded it is in the
\* setting, then the one search there is is for it, and then that search has
\* ended; unless a form of the wizard that was slow wrote over it.  It is not
\* searched for if another search was running, and lost with its job when that
\* fails or SPARK restarts: the code keeps no note of it, and log.fate does.
FindIsNeitherLostNorRepeated ==
  ~log.crossed =>
    log.asked = log.ran + (IF wizard.find THEN 1 ELSE 0) + (IF search.wish THEN 1 ELSE 0)
                  + (IF log.fate # "none" THEN 1 ELSE 0)
===============================================================================
