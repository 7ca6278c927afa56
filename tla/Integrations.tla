------------------------------ MODULE Integrations ------------------------------
(***************************************************************************)
(* What is read over an API or SNMP and judged against rules: credentials  *)
(* of TrueNAS and Proxmox (credentials.py, web/routes_credentials.py), and *)
(* what truenas_health.py, proxmox_health.py and storage.py make of an     *)
(* answer.                                                                 *)
(*                                                                         *)
(* One credential and one thing it watches.  A check spends its time on    *)
(* the network with the row it read in hand; requests change the row       *)
(* meanwhile.  What is sent of an alert is Alarms.                         *)
(***************************************************************************)
EXTENDS Integers

VARIABLES
  thing,     \* what is watched, hence by which rule
  cred,      \* the ApiCredential (over SNMP, the device's row on the list)
  check,     \* check[by]: one in flight: the scheduler's, or a page's Test
  api,       \* AlertState of the API itself
  alarm,     \* AlertState of the thing
  heard,     \* what the box last said of the thing
  crossed    \* a check ended, or may end, over a row changed meanwhile

ivars == <<thing, cred, check, api, alarm, heard, crossed>>

\* A drive and a notice of TrueNAS; a guest, a pool (or a drive, or whether a
\* storage is active) and the space of a storage of Proxmox, not shared between
\* nodes; the space of a pool over SNMP, and how fast it fills.
Things == {"drive", "notice", "guest", "pool", "storage", "space", "trend"}
OnNode == {"pool", "storage"}

\* An answer about it: "band" is under the line but not by the margin;
\* "inactive", listed with no space to judge; "gone", not listed; "silent", not
\* listed by a node that did not answer, or a drive that does not say.
Said == {"bad", "band", "good", "inactive", "gone", "silent"}
Says(t) == {"bad", "good", "gone"}
             \cup (IF t \in {"storage", "space", "trend"} THEN {"band"} ELSE {})
             \cup (IF t \in OnNode THEN {"silent"} ELSE {})
             \cup (IF t = "storage" THEN {"inactive"} ELSE {})

By       == {"job", "page"}
NoAlarm  == [polls |-> 0, fired |-> FALSE]
NoRead   == "none"
Unseen   == [watched |-> FALSE, named |-> FALSE]
Enough   == 3     \* samples a trend is made of
NoCred   == [there |-> FALSE, cert |-> FALSE, pending |-> FALSE, reads |-> NoRead,
             samples |-> 0, options |-> Unseen]
NoCheck  == [on |-> FALSE, trusts |-> FALSE, row |-> NoCred]
IsApi    == thing \notin {"space", "trend"}

Credential == [there : BOOLEAN, cert : BOOLEAN, pending : BOOLEAN, reads : Said \cup {NoRead},
               samples : 0 .. Enough, options : [watched : BOOLEAN, named : BOOLEAN]]
AlarmOf     == [polls : 0 .. 2, fired : BOOLEAN]

IntegrationsTypeOK ==
  /\ thing \in Things /\ cred \in Credential
  /\ check \in [By -> [on : BOOLEAN, trusts : BOOLEAN, row : Credential]]
  /\ api \in AlarmOf /\ alarm \in AlarmOf
  /\ heard \in Said \cup {NoRead} /\ crossed \in BOOLEAN

IntegrationsInit ==
  /\ thing \in Things /\ cred = NoCred
  /\ check = [by \in By |-> NoCheck]
  /\ api = NoAlarm /\ alarm = NoAlarm
  /\ heard = NoRead /\ crossed = FALSE

InFlight == \E by \in By : check[by].on

-----------------------------------------------------------------------------
(* One rule, one reading (snmp_alerts.step). *)

\* gap: the reading before was too long ago for the two to be in a row.
Stepped(a, said, needs, gap) ==
  LET was == IF gap /\ ~a.fired THEN NoAlarm ELSE a
      n   == IF was.polls < needs THEN was.polls + 1 ELSE needs
  IN CASE said = "bad"              -> [polls |-> n, fired |-> was.fired \/ n >= needs]
       [] said = "band" /\ a.fired  -> a
       [] OTHER                     -> NoAlarm

\* _gone: dropped quietly, if its node answered.  Mutant: whichever did.
DroppedUnheard(said) == said \in {"gone", "inactive", "silent"}
Dropped(said)        == said \in {"gone", "inactive"}

\* truenas_health.evaluate: a drive not listed is dropped, a notice not listed
\* has been cleared.
JudgedByTrueNas(said, gap) ==
  IF thing = "drive" /\ Dropped(said) THEN NoAlarm ELSE Stepped(alarm, said, 1, gap)

\* proxmox_health.evaluate, guests: one that is not listed is not running, and
\* one that is not watched has no alert.
JudgedGuest(said, watched, gap) ==
  IF watched THEN Stepped(alarm, IF Dropped(said) THEN "bad" ELSE said, 2, gap) ELSE NoAlarm

\* ... pools, storages and drives.  One the readings do not hold is dropped if
\* its node has answered just now; so is the space of one that is not active.
JudgedOnNode(said, reply, gap) ==
  IF said \in {"gone", "silent", "inactive"}
  THEN IF Dropped(reply) THEN NoAlarm ELSE alarm
  ELSE Stepped(alarm, said, IF thing = "storage" THEN 2 ELSE 1, gap)

\* trend: a line through its samples, once there are some of two days.
HasTrend(row) == row.samples >= Enough

\* storage.evaluate: what is not among the rows is not looked at.
JudgedSpace(row, gap) ==
  IF Dropped(row.reads) \/ (thing = "trend" /\ ~HasTrend(row)) THEN alarm
  ELSE Stepped(alarm, row.reads, 2, gap)

\* Each on the readings as they stand, answered just now or not.
Judged(row, reply, gap) ==
  CASE thing = "guest" /\ (row.reads # NoRead \/ ~row.options.watched)
                                             -> JudgedGuest(row.reads, row.options.watched, gap)
    [] thing = "guest" /\ row.reads = NoRead /\ row.options.watched
                                             -> alarm
    [] thing # "guest" /\ row.reads = NoRead -> alarm
    [] thing \in OnNode /\ row.reads # NoRead -> JudgedOnNode(row.reads, reply, gap)
    [] ~IsApi /\ row.reads # NoRead          -> JudgedSpace(row, gap)
    [] OTHER                                 -> JudgedByTrueNas(row.reads, gap)

-----------------------------------------------------------------------------
(* A check: what it reads, asks and writes. *)

\* credentials.test: the row it holds, after the answer.
Tested(row, reply) ==
  CASE reply = "failed"     -> row
    [] reply = "stranger"   -> [row EXCEPT !.pending = TRUE]
    [] reply = "unanswered" -> [row EXCEPT !.pending = FALSE]
    [] OTHER                -> [row EXCEPT !.pending = FALSE, !.reads = reply]

\* The guest's name, as last listed, is kept beside which are watched, in one
\* column.
Named(was, row) ==
  IF thing # "guest" \/ row.reads = NoRead THEN row
  ELSE [row EXCEPT !.options.named =
         row.options.watched /\ (@ \/ row.reads # "gone" \/ was.reads \notin {NoRead, "gone"})]

\* Only the columns that changed are written; readings always do.
Written(was, row, worked) ==
  [cred EXCEPT !.cert    = IF row.cert # was.cert THEN row.cert ELSE @,
               !.pending = IF row.pending # was.pending THEN row.pending ELSE @,
               !.reads   = IF worked THEN row.reads ELSE @,
               !.options = IF row.options # was.options THEN row.options ELSE @]

Begin(by, trusts) ==
  /\ cred.there /\ ~check[by].on
  /\ check' = [check EXCEPT ![by] = [on |-> TRUE, trusts |-> trusts, row |-> cred]]
  /\ UNCHANGED <<thing, cred, api, alarm, heard, crossed>>

\* The scheduler asks only what is trusted (check_all), a page whatever it
\* shows (test_credential), and SNMP what its last poll reached (refresh).
BeginJob      == IsApi /\ cred.cert /\ Begin("job", FALSE)
BeginPageTest == IsApi /\ Begin("page", FALSE)
BeginRefresh  == ~IsApi /\ Begin("job", FALSE)

\* trust: the certificate that was shown, and then a Test.
BeginTrust == cred.pending /\ Begin("page", TRUE)

\* With no certificate trusted, nothing is asked but the certificate.
Replies(row) ==
  IF ~IsApi THEN Says(thing) \cup {"unanswered"}
  ELSE {"failed", "stranger"} \cup (IF row.cert THEN Says(thing) \cup {"unanswered"} ELSE {})

Ends(by) ==
  /\ check[by].on
  /\ check' = [check EXCEPT ![by] = NoCheck]

\* The row is gone, the database busy, or SPARK stopped: nothing is written.
EndUnwritten(by) ==
  /\ Ends(by)
  /\ UNCHANGED <<thing, cred, api, alarm, heard, crossed>>

Hears(by, reply) ==
  /\ heard' = IF reply \in Said \ {"silent"} THEN reply ELSE heard
  /\ crossed' = (crossed \/ \E other \in By \ {by} : check[other].on)
  /\ UNCHANGED thing

Worked(reply) == reply \notin {"failed", "stranger"}

\* check_one: the answer is written and judged.
EndJob ==
  /\ IsApi /\ cred.there /\ Ends("job")
  /\ LET was == check["job"].row
     IN \E reply \in Replies(was), gap \in BOOLEAN :
          LET after  == Tested(was, reply)
              worked == Worked(reply)
          IN /\ cred' = Written(was, IF worked THEN Named(was, after) ELSE after, worked)
             /\ api' = Stepped(api, IF worked THEN "good" ELSE "bad", 2, gap)
             /\ alarm' = IF worked THEN Judged(after, reply, gap) ELSE alarm
             /\ Hears("job", reply)

\* A page's Test, of what is to be trusted or not: written and not judged.
EndPage ==
  /\ cred.there /\ Ends("page")
  /\ LET was  == check["page"].row
         held == IF check["page"].trusts THEN [was EXCEPT !.cert = TRUE, !.pending = FALSE] ELSE was
     IN \E reply \in Replies(held) :
          /\ cred' = Written(was, Tested(held, reply), Worked(reply))
          /\ Hears("page", reply)
  /\ UNCHANGED <<api, alarm>>

\* _sample: of the space that was answered, once an hour.
SpaceSampled(row, due, reply) ==
  IF due /\ thing = "trend" /\ reply \in {"bad", "band", "good"} /\ row.samples < Enough
  THEN [row EXCEPT !.samples = @ + 1] ELSE row

\* refresh_one: what was answered is stored, and what is stored is judged.
EndRefresh ==
  /\ ~IsApi /\ cred.there /\ Ends("job")
  /\ \E reply \in Replies(cred), gap, due \in BOOLEAN :
       /\ cred' = SpaceSampled(Tested(cred, reply), due, reply)
       /\ alarm' = Judged(cred', reply, gap)
       /\ Hears("job", reply)
  /\ UNCHANGED api

-----------------------------------------------------------------------------
(* What people do to it. *)

\* credentials.add and the Test it goes straight to, in one transaction; or
\* the device's row on the SNMP list.
AddCredential ==
  /\ ~cred.there
  /\ \E pending \in BOOLEAN :
       /\ pending => IsApi
       /\ cred' = [NoCred EXCEPT !.there = TRUE, !.pending = pending, !.cert = ~IsApi]
  /\ heard' = NoRead
  /\ UNCHANGED <<thing, check, api, alarm, crossed>>

\* Mutant: the API's own alert, and not its things'.
ForgetApiAlone(was) == was

\* forget_alert: the API's alert and its things'; nothing is forgotten of what
\* SNMP reads.
Forget(was) == IF IsApi THEN NoAlarm ELSE was

\* credentials.update: another address or key, and nothing is trusted or known
\* of it.
EditCredential ==
  /\ IsApi /\ cred.there
  /\ cred' = [NoCred EXCEPT !.there = TRUE, !.options = cred.options]
  /\ api' = NoAlarm /\ alarm' = Forget(alarm)
  /\ heard' = NoRead /\ crossed' = InFlight
  /\ UNCHANGED <<thing, check>>

\* delete_credential, or off the SNMP list.
DeleteCredential ==
  /\ cred.there /\ cred' = NoCred
  /\ api' = NoAlarm /\ alarm' = Forget(alarm)
  /\ heard' = NoRead /\ crossed' = InFlight
  /\ UNCHANGED <<thing, check>>

\* watch: a guest alerts, or does not and has no alert.
Watch(on) ==
  /\ thing = "guest" /\ cred.there
  /\ cred' = [cred EXCEPT !.options = [watched |-> on, named |-> on /\ @.named]]
  /\ alarm' = IF on THEN alarm ELSE NoAlarm
  /\ crossed' = (crossed \/ InFlight)
  /\ UNCHANGED <<thing, check, api, heard>>

IntegrationsNext ==
  \/ BeginJob \/ BeginPageTest \/ BeginRefresh \/ BeginTrust
  \/ EndJob \/ EndPage \/ EndRefresh \/ \E by \in By : EndUnwritten(by)
  \/ AddCredential \/ EditCredential \/ DeleteCredential
  \/ \E on \in BOOLEAN : Watch(on)

IntegrationsSpec == IntegrationsInit /\ [][IntegrationsNext]_ivars

-----------------------------------------------------------------------------

\* An alert stands only while something checks what it is about: the credential
\* is there and its certificate trusted, the guest watched.  Otherwise it
\* "would otherwise stand for ever" (credentials.update); so it may, in the
\* code, when a check ends after the row it read has changed.
AlertIsWatched ==
  (IsApi /\ ~crossed) =>
    /\ api.fired \/ alarm.fired => cred.there /\ cred.cert
    /\ alarm.fired /\ thing = "guest" => cred.options.watched

\* A check ends an alert only when the last the box said of the thing was that
\* it is well, or gone (proxmox_health.py: "a failed read is not the
\* all-clear.  Nor is a node that did not answer taken to have lost its
\* drives"), across checks that fail and pages that test in between; or that
\* the storage is not active.
ClearedIsHeard ==
  [][alarm.fired /\ ~alarm'.fired /\ check' # check /\ ~crossed =>
       heard' \in {"good", "gone"} \/ (thing = "storage" /\ heard' = "inactive")]_ivars
===============================================================================
