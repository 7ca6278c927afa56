--------------------------------- MODULE Receiver --------------------------------
(***************************************************************************)
(* The trap and syslog receiver (receiver.py) and its rules                *)
(* (web/routes_device_events.py): datagrams are queued as they arrive, a   *)
(* task stores them in batches and matches them to the rules, and a job    *)
(* closes what has gone quiet.                                             *)
(*                                                                         *)
(* One device among others, one rule for any device, and one stranger.     *)
(* Storing a batch, and closing, each read first and write later; what     *)
(* they read can change in between.                                        *)
(***************************************************************************)
EXTENDS Integers, Sequences, FiniteSets

CONSTANTS
  Share,       \* datagrams a sender may send in a minute
  QueueSize,   \* of what waits to be stored
  Batch,       \* stored in one transaction
  QuietFor,    \* minutes without a match that close an incident
  CacheFor,    \* minutes the addresses are remembered
  MaxMinute,   \* the clock (bound)
  MaxReceived, \* datagrams that arrive in all (bound)
  MaxChanges   \* changes of the device and the rule (bound)

ASSUME ReceiverAssumption ==
  /\ Share \in Nat /\ QueueSize \in Nat /\ Batch \in Nat \ {0}
  /\ QuietFor \in Nat /\ CacheFor \in Nat
  /\ MaxMinute \in Nat /\ MaxReceived \in Nat /\ MaxChanges \in Nat

VARIABLES
  minute,
  device,    \* is: at its address; elsewhere (moved, or ignored); or gone
  rule,      \* there, enabled
  recent,    \* datagrams a sender sent this minute
  queue,
  known,     \* the addresses remembered, and when they were read
  batch,     \* the batch being stored
  closing,   \* the housekeeping at work
  state,     \* AlertState of the rule for the device
  incident,  \* its open incident
  counts,    \* Counts
  told,      \* the last thing said of it
  seen       \* what happened, for the properties

rvars == <<minute, device, rule, recent, queue, known, batch, closing, state, incident, counts,
           told, seen>>

Senders == {"device", "stranger"}

\* What parse_syslog and parse_trap make of a datagram, and what it is to the
\* rule.
Kinds   == {"match", "other", "unreadable"}

NoBatch  == [on |-> FALSE, has |-> <<>>, rule |-> FALSE, knows |-> FALSE]
NoState  == [there |-> FALSE, since |-> 0, at |-> 0, polls |-> 0, notified |-> FALSE]
NoCounts == [received |-> 0, stored |-> 0, unknown |-> 0, limited |-> 0, unreadable |-> 0]
Datagram == [from : Senders, kind : Kinds, at : 0 .. MaxMinute]

ReceiverTypeOK ==
  /\ minute \in 0 .. MaxMinute
  /\ device \in [is : {"there", "elsewhere", "gone"}, changes : 0 .. MaxChanges]
  /\ rule \in [there : BOOLEAN, enabled : BOOLEAN]
  /\ recent \in [Senders -> 0 .. Share]
  /\ queue \in Seq(Datagram) /\ Len(queue) <= QueueSize
  /\ known \in [device : BOOLEAN, at : 0 .. MaxMinute, read : BOOLEAN]
  /\ batch \in [on : BOOLEAN, has : Seq(Datagram), rule : BOOLEAN, knows : BOOLEAN]
  /\ closing \in [on : BOOLEAN, quiet : BOOLEAN]
  /\ state \in [there : BOOLEAN, since : 0 .. MaxMinute, at : 0 .. MaxMinute, polls : Nat,
                notified : BOOLEAN]
  /\ incident \in BOOLEAN
  /\ counts \in [received : Nat, stored : Nat, unknown : Nat, limited : Nat, unreadable : Nat]
  /\ told \in {"nothing", "start", "quiet"}
  /\ seen \in [matched : -1 .. MaxMinute, fed : 0 .. MaxReceived, crossed : BOOLEAN]

ReceiverInit ==
  /\ minute = 0 /\ device = [is |-> "there", changes |-> 0]
  /\ rule = [there |-> TRUE, enabled |-> TRUE]
  /\ recent = [s \in Senders |-> 0] /\ queue = <<>>
  /\ known = [device |-> FALSE, at |-> 0, read |-> FALSE]
  /\ batch = NoBatch /\ closing = [on |-> FALSE, quiet |-> FALSE]
  /\ state = NoState /\ incident = FALSE /\ counts = NoCounts /\ told = "nothing"
  /\ seen = [matched |-> -1, fed |-> 0, crossed |-> FALSE]

Minute ==
  /\ minute < MaxMinute /\ minute' = minute + 1
  /\ recent' = [s \in Senders |-> 0]
  /\ UNCHANGED <<device, rule, queue, known, batch, closing, state, incident, counts, told, seen>>

-----------------------------------------------------------------------------
(* What arrives (Receiver.feed): within its sender's share, and if there   *)
(* is room.                                                                *)

Refused(from) == recent[from] >= Share \/ Len(queue) >= QueueSize

Feed(from, kind) ==
  LET room == recent[from] < Share
      gets == room /\ Len(queue) < QueueSize
  IN /\ seen.fed < MaxReceived /\ seen' = [seen EXCEPT !.fed = @ + 1]
     /\ from = "stranger" => kind = "other"      \* what it is, is not looked at
     /\ recent' = IF room THEN [recent EXCEPT ![from] = @ + 1] ELSE recent
     /\ queue' = IF gets THEN Append(queue, [from |-> from, kind |-> kind, at |-> minute]) ELSE queue
     /\ counts' = [counts EXCEPT !.received = @ + 1, !.limited = IF Refused(from) THEN @ + 1 ELSE @]
     /\ UNCHANGED <<minute, device, rule, known, batch, closing, state, incident, told>>

-----------------------------------------------------------------------------
(* Storing (Receiver._consume, take). *)

Smaller(a, b) == IF a < b THEN a ELSE b

\* _known: the addresses, read again once a minute has gone by.
Fresh == known.read /\ minute - known.at < CacheFor

\* A batch is taken off the queue; the addresses and the rules are read.
BeginTake ==
  /\ ~batch.on /\ queue # <<>>
  /\ known' = IF Fresh THEN known ELSE [device |-> device.is = "there", at |-> minute, read |-> TRUE]
  /\ LET n == Smaller(Batch, Len(queue))
     IN /\ batch' = [on |-> TRUE, has |-> SubSeq(queue, 1, n),
                     rule |-> rule.there /\ rule.enabled, knows |-> known'.device]
        /\ queue' = SubSeq(queue, n + 1, Len(queue))
  /\ UNCHANGED <<minute, device, rule, recent, closing, state, incident, counts, told, seen>>

\* matches: of what is read as the rule's, by a rule that is on.
Matches(d, on) == on /\ d.kind = "match"

Within(datagrams, Is(_)) == Cardinality({i \in DOMAIN datagrams : Is(datagrams[i])})

FirstOf(times)  == CHOOSE t \in times : \A u \in times : t <= u
LastOf(times)   == CHOOSE t \in times : \A u \in times : u <= t

\* _fire, for each of n matches, which arrived at these times: the first opens
\* an incident and is told, the rest are counted.  Mutant: they do not put off
\* the end.
FiredOnce(n, times, quiet) ==
  IF state.there THEN [state EXCEPT !.polls = @ + n]
  ELSE [there |-> TRUE, since |-> FirstOf(times), at |-> FirstOf(times), polls |-> n,
        notified |-> ~quiet]

Fired(n, times, quiet) ==
  IF state.there THEN [state EXCEPT !.polls = @ + n, !.at = LastOf(times)]
  ELSE [there |-> TRUE, since |-> FirstOf(times), at |-> LastOf(times), polls |-> n,
        notified |-> ~quiet]

\* The batch is written whole, or not at all: a device whose row is gone fails
\* it, and so does a database that is busy.  The incident is opened with the
\* state; a state that is there is only counted on.
EndTake ==
  /\ batch.on /\ batch' = NoBatch
  /\ LET IsUnread(d)  == d.from = "device" /\ d.kind = "unreadable"
         IsKnown(d)   == d.from = "device" /\ batch.knows
         IsStored(d)  == IsKnown(d) /\ d.kind # "unreadable"
         IsMatch(d)   == IsStored(d) /\ Matches(d, batch.rule)
         stored  == Within(batch.has, IsStored)
         matched == {batch.has[i].at : i \in {j \in DOMAIN batch.has : IsMatch(batch.has[j])}}
         unread  == IF batch.knows THEN Within(batch.has, IsUnread) ELSE 0
         read    == [counts EXCEPT !.unknown = @ + Len(batch.has) - stored - unread,
                                   !.unreadable = @ + unread]
     IN \/ /\ stored = 0 \/ device.is # "gone"
           /\ counts' = [read EXCEPT !.stored = @ + stored]
           /\ IF matched = {} THEN UNCHANGED <<state, incident, told, seen>>
              ELSE \E quiet \in BOOLEAN :
                     /\ state' = Fired(Within(batch.has, IsMatch), matched, quiet)
                     /\ incident' = (incident \/ ~state.there)
                     /\ told' = IF ~state.there /\ ~quiet THEN "start" ELSE told
                     /\ seen' = [seen EXCEPT !.matched = LastOf(matched),
                                             !.crossed = @ \/ closing.on]
        \/ /\ stored > 0
           /\ counts' = read /\ UNCHANGED <<state, incident, told, seen>>
  /\ UNCHANGED <<minute, device, rule, recent, queue, known, closing>>

-----------------------------------------------------------------------------
(* Closing what is quiet (housekeeping, expire). *)

\* It reads what stands ...
BeginClose ==
  /\ ~closing.on /\ state.there
  /\ ~rule.there \/ minute - state.at >= QuietFor
  /\ closing' = [on |-> TRUE, quiet |-> rule.there]
  /\ seen' = [seen EXCEPT !.crossed = FALSE]
  /\ UNCHANGED <<minute, device, rule, recent, queue, known, batch, state, incident, counts, told>>

\* ... and closes it, saying so if the start was told; or the database is
\* busy, and the next minute tries again.
EndClose ==
  /\ closing.on /\ closing' = [on |-> FALSE, quiet |-> FALSE]
  /\ \/ /\ state' = NoState /\ incident' = FALSE
        /\ \/ told' = told
           \/ closing.quiet /\ device.is # "gone" /\ state.notified /\ told' = "quiet"
     \/ UNCHANGED <<state, incident, told>>
  /\ UNCHANGED <<minute, device, rule, recent, queue, known, batch, counts, seen>>

-----------------------------------------------------------------------------
(* The device, and the rule. *)

Changes == device.changes < MaxChanges /\ UNCHANGED <<minute, recent, queue, batch, closing, counts>>

\* The device moves or is ignored, comes back, or is removed, which closes its
\* incidents (remove_device); one that is removed is found again as new, and
\* SQLite may give it the same id.
ChangeDevice ==
  /\ Changes
  /\ \E to \in {"there", "elsewhere", "gone"} \ {device.is} :
       /\ device.is = "gone" => to = "there"
       /\ device' = [is |-> to, changes |-> device.changes + 1]
       /\ incident' = (incident /\ to # "gone")
  /\ UNCHANGED <<rule, known, state, told, seen>>

ChangeRule(to) ==
  /\ Changes
  /\ rule' = to
  /\ device' = [device EXCEPT !.changes = @ + 1]
  /\ UNCHANGED <<known, state, incident, told, seen>>

AddRule    == ~rule.there /\ ChangeRule([there |-> TRUE, enabled |-> TRUE])
ToggleRule == rule.there /\ ChangeRule([rule EXCEPT !.enabled = ~@])
DeleteRule == rule.there /\ ChangeRule([there |-> FALSE, enabled |-> FALSE])

\* SPARK restarts: the queue, the counts and what was remembered are gone.
RestartReceiver ==
  /\ device.changes < MaxChanges /\ device' = [device EXCEPT !.changes = @ + 1]
  /\ recent' = [s \in Senders |-> 0] /\ queue' = <<>> /\ counts' = NoCounts
  /\ known' = [device |-> FALSE, at |-> 0, read |-> FALSE]
  /\ batch' = NoBatch /\ closing' = [on |-> FALSE, quiet |-> FALSE]
  /\ UNCHANGED <<minute, rule, state, incident, told, seen>>

ReceiverNext ==
  \/ Minute
  \/ \E s \in Senders, k \in Kinds : Feed(s, k)
  \/ BeginTake \/ EndTake
  \/ BeginClose \/ EndClose
  \/ ChangeDevice \/ AddRule \/ ToggleRule \/ DeleteRule
  \/ RestartReceiver

ReceiverSpec == ReceiverInit /\ [][ReceiverNext]_rvars

-----------------------------------------------------------------------------

\* "None for N minutes since" is said only when none was (expire): whatever
\* was stored and matched, through batches, restarts and changes of the rule,
\* puts off the end; unless it was stored while the end was being written.
QuietIsTrue ==
  [][told' = "quiet" /\ told # "quiet" /\ ~seen.crossed => minute - seen.matched >= QuietFor]_rvars
===============================================================================
