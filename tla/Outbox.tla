-------------------------------- MODULE Outbox --------------------------------
(***************************************************************************)
(* The alert outbox: from a queued alert to a message on each channel      *)
(* (alerts.py dispatch, channels.py).                                      *)
(*                                                                         *)
(* Every 15 seconds one dispatch routes the new alerts (one delivery row   *)
(* per channel that takes them) and plans what is due, in one transaction; *)
(* sends the messages one by one, holding no database connection; and      *)
(* records the answers in a second transaction.  The process may die, or   *)
(* the second transaction fail, between a message and its record; alerts   *)
(* are queued and settings saved meanwhile.                                *)
(***************************************************************************)
EXTENDS Naturals, FiniteSets

CONSTANTS
  Alerts,         \* notification ids (bound)
  Channels,       \* channels, numbered in the order of channels.KINDS
  Combining,      \* those that take digests and bursts as one message
  Wants,          \* Wants[c]: the alerts channel c is set to take
  MaxAttempts,    \* tries of one delivery; 5 in the code
  BatchAt,        \* alerts due together that make a burst; 4 in the code
  MaxLosses       \* times the answers of a dispatch are lost (bound)

ASSUME ConstantsAssumption ==
  /\ Alerts \subseteq Nat \ {0} /\ IsFiniteSet(Alerts)
  /\ Channels \subseteq Nat \ {0} /\ IsFiniteSet(Channels)
  /\ Combining \subseteq Channels
  /\ Wants \in [Channels -> SUBSET Alerts]
  /\ MaxAttempts \in Nat \ {0}
  /\ BatchAt \in Nat \ {0}
  /\ MaxLosses \in Nat

VARIABLES
  note,       \* notification.status; "none" is an id with no row
  delivery,   \* the delivery table
  on,         \* whether alerting is switched on
  active,     \* the channels set up and ready to send
  quiet,      \* whether the quiet hours are on
  busy,       \* whether a dispatch is between its two transactions
  due,        \* the deliveries it planned that were due
  left,       \* what it has planned and not sent yet
  answer,     \* the answers it has had
  told,       \* channels whose Retry-After is still running
  arrived,    \* deliveries whose message has arrived
  again,      \* ... and has arrived more than once
  unsure,     \* deliveries that arrived and of which no record was made
  losses      \* how often the answers of a dispatch were lost

settings == <<on, active, quiet>>
flight   == <<busy, due, left, answer>>
history  == <<arrived, again, unsure, losses>>
vars     == <<note, delivery, settings, flight, told, history>>

Slots   == Alerts \X Channels
Open    == {"pending", "held"}
Settled == {"sent", "failed", "dropped"}

Delivery   == [status   : {"none"} \cup Open \cup Settled,
               attempts : 0..MaxAttempts,
               wait     : {"due", "backoff", "told"}]
NoDelivery == [status |-> "none", attempts |-> 0, wait |-> "due"]

Answers == {"ok", "retry", "permanent", "told"}

Unplanned == [held |-> {}, items |-> {}]

TypeOK ==
  /\ note \in [Alerts -> {"none"} \cup Open \cup Settled]
  /\ delivery \in [Slots -> Delivery]
  /\ on \in BOOLEAN /\ active \subseteq Channels /\ quiet \in BOOLEAN
  /\ busy \in BOOLEAN
  /\ due \in [Channels -> SUBSET Alerts]
  /\ left \in [Channels -> [held : SUBSET Alerts, items : SUBSET Alerts]]
  /\ answer \in [Slots -> {"none"} \cup Answers]
  /\ told \subseteq Channels
  /\ arrived \subseteq Slots /\ again \subseteq Slots /\ unsure \subseteq Slots
  /\ losses \in 0..MaxLosses

Init ==
  /\ note = [a \in Alerts |-> "none"]
  /\ delivery = [s \in Slots |-> NoDelivery]
  /\ on = TRUE /\ active \in SUBSET Channels /\ quiet = FALSE
  /\ busy = FALSE
  /\ due = [c \in Channels |-> {}]
  /\ left = [c \in Channels |-> Unplanned]
  /\ answer = [s \in Slots |-> "none"]
  /\ told = {}
  /\ arrived = {} /\ again = {} /\ unsure = {}
  /\ losses = 0

-----------------------------------------------------------------------------
(* An alert's own status follows its deliveries. *)

\* A mutant: what waits comes before what was sent.
SummaryPendingFirst(statuses) ==
  IF "pending" \in statuses THEN "pending"
  ELSE IF "sent" \in statuses THEN "sent"
  ELSE IF "held" \in statuses THEN "held"
  ELSE IF "failed" \in statuses THEN "failed"
  ELSE "dropped"

\* _summarise: sent once any channel has it, else waiting, held, failed or
\* dropped.
Summary(statuses) ==
  IF "sent" \in statuses THEN "sent"
  ELSE IF "pending" \in statuses THEN "pending"
  ELSE IF "held" \in statuses THEN "held"
  ELSE IF "failed" \in statuses THEN "failed"
  ELSE "dropped"

Routed(table, a) == {c \in Channels : table[a, c].status # "none"}

\* The alerts in S take the status their deliveries give them.
Summarised(table, S) ==
  [a \in Alerts |->
     IF a \in S /\ Routed(table, a) # {}
     THEN Summary({table[a, c].status : c \in Routed(table, a)})
     ELSE note[a]]

-----------------------------------------------------------------------------
(* The first transaction: route, and plan. *)

Takers(a) == IF on THEN {c \in active : a \in Wants[c]} ELSE {}

\* Alerts queued and not yet given a delivery.
Unrouted == {a \in Alerts : note[a] \in Open /\ Routed(delivery, a) = {}}

AfterRouting ==
  [s \in Slots |->
     IF s[1] \in Unrouted /\ s[2] \in Takers(s[1])
     THEN [NoDelivery EXCEPT !.status = note[s[1]]]
     ELSE delivery[s]]

\* Mutants: what failed is due again; the digest takes what is due, too.
DueOnFailedToo(c) == {a \in Alerts : /\ AfterRouting[a, c].status \in {"pending", "failed"}
                                     /\ AfterRouting[a, c].wait = "due"}
HeldOnAllOpen(c) == {a \in Alerts : AfterRouting[a, c].status \in Open}

DueOn(c) == {a \in Alerts : /\ AfterRouting[a, c].status = "pending"
                            /\ AfterRouting[a, c].wait = "due"}
HeldOn(c) == {a \in Alerts : AfterRouting[a, c].status = "held"}

MaySend(c) == on /\ c \in active

\* Nothing goes out of a channel that is gone, or while alerting is off; in
\* quiet hours what is due is held.
AfterPlanning ==
  [s \in Slots |->
     LET a == s[1]
         c == s[2]
     IN IF ~MaySend(c) /\ a \in DueOn(c) \cup HeldOn(c)
        THEN [AfterRouting[s] EXCEPT !.status = "dropped"]
        ELSE IF MaySend(c) /\ quiet /\ a \in DueOn(c)
        THEN [AfterRouting[s] EXCEPT !.status = "held"]
        ELSE AfterRouting[s]]

Planned == {c \in Channels : MaySend(c) /\ ~quiet /\ DueOn(c) \cup HeldOn(c) # {}}

Plan ==
  LET dropped == {a \in Unrouted : Takers(a) = {}}
      changed == {a \in Alerts : \E c \in Channels : AfterPlanning[a, c] # AfterRouting[a, c]}
  IN /\ ~busy
     /\ delivery' = AfterPlanning
     /\ note' = [a \in Alerts |-> IF a \in dropped THEN "dropped"
                                  ELSE Summarised(AfterPlanning, changed)[a]]
     /\ busy' = (Planned # {})
     /\ due' = [c \in Channels |-> IF c \in Planned THEN DueOn(c) ELSE {}]
     /\ left' = [c \in Channels |->
                   IF c \in Planned THEN [held |-> HeldOn(c), items |-> DueOn(c)]
                   ELSE Unplanned]
     /\ UNCHANGED <<settings, answer, told, history>>

-----------------------------------------------------------------------------
(* Sending: one message at a time, channel after channel. *)

First(S) == CHOOSE a \in S : \A b \in S : a <= b

\* On a combining channel, first one digest of what was held, then a burst as
\* one message; otherwise alert by alert, oldest first.
NextMessage(c) ==
  LET held  == left[c].held # {}
      S     == IF held THEN left[c].held ELSE left[c].items
      whole == c \in Combining /\ (held \/ Cardinality(S) >= BatchAt)
  IN IF whole THEN S ELSE {First(S)}

IsNext(c) ==
  /\ left[c] # Unplanned
  /\ \A b \in Channels : b < c => left[b] = Unplanned

\* A rate limit (429) ends the channel's turn.
AfterMessage(c, kind) ==
  IF kind = "told" THEN Unplanned
  ELSE IF left[c].held # {} THEN [left[c] EXCEPT !.held = @ \ NextMessage(c)]
  ELSE [left[c] EXCEPT !.items = @ \ NextMessage(c)]

\* arrives: whether the message gets through, whatever the answer says.  An
\* answer lost on the way back is a failure to be retried.
Send(c, kind, arrives) ==
  LET m == {<<a, c>> : a \in NextMessage(c)}
  IN /\ busy
     /\ IsNext(c)
     /\ kind = "ok" => arrives
     /\ kind \in {"permanent", "told"} => ~arrives
     /\ answer' = [s \in Slots |-> IF s \in m THEN kind ELSE answer[s]]
     /\ left' = [left EXCEPT ![c] = AfterMessage(c, kind)]
     /\ told' = IF kind = "told" THEN told \cup {c} ELSE told
     /\ arrived' = IF arrives THEN arrived \cup m ELSE arrived
     /\ again' = IF arrives THEN again \cup (m \cap arrived) ELSE again
     /\ unsure' = IF arrives /\ kind # "ok" THEN unsure \cup m ELSE unsure
     /\ UNCHANGED <<note, delivery, settings, busy, due, losses>>

-----------------------------------------------------------------------------
(* The second transaction: record. *)

Answered == {s \in Slots : answer[s] # "none"}

\* What was due on a channel that said to wait, and was not tried.
NotTried == {s \in Slots : /\ s[1] \in due[s[2]]
                           /\ s \notin Answered
                           /\ \E a \in Alerts : answer[a, s[2]] = "told"}

\* A mutant: tries are not counted.
AfterAnswerForgets(d, kind) ==
  [status   |-> CASE kind = "ok" -> "sent"
                  [] kind = "permanent" -> "failed"
                  [] OTHER -> "pending",
   attempts |-> 1,
   wait     |-> IF kind = "told" THEN "told" ELSE "backoff"]

\* A held delivery whose digest failed retries on its own, as pending.
AfterAnswer(d, kind) ==
  LET tries == d.attempts + 1
  IN [status   |-> CASE kind = "ok" -> "sent"
                     [] kind = "permanent" \/ (kind # "ok" /\ tries >= MaxAttempts) -> "failed"
                     [] OTHER -> "pending",
      attempts |-> tries,
      wait     |-> CASE kind = "told"  -> "told"
                     [] kind = "retry" -> "backoff"
                     [] OTHER -> d.wait]

AfterRecord ==
  [s \in Slots |->
     IF s \in Answered THEN AfterAnswer(delivery[s], answer[s])
     ELSE IF s \in NotTried THEN [delivery[s] EXCEPT !.wait = "told"]
     ELSE delivery[s]]

Record ==
  /\ busy
  /\ \A c \in Channels : left[c] = Unplanned
  /\ delivery' = AfterRecord
  /\ note' = Summarised(AfterRecord,
                        {s[1] : s \in Answered} \cup UNION {due[c] : c \in Channels})
  /\ busy' = FALSE
  /\ due' = [c \in Channels |-> {}]
  /\ answer' = [s \in Slots |-> "none"]
  /\ UNCHANGED <<settings, left, told, arrived, again, unsure, losses>>

\* The process dies during a dispatch, or its second transaction fails (and
\* dispatch swallows that): what was sent has no record.
LoseAnswers ==
  /\ busy
  /\ losses < MaxLosses
  /\ losses' = losses + 1
  /\ unsure' = unsure \cup {s \in Slots : answer[s] = "ok"}
  /\ busy' = FALSE
  /\ due' = [c \in Channels |-> {}]
  /\ left' = [c \in Channels |-> Unplanned]
  /\ answer' = [s \in Slots |-> "none"]
  /\ UNCHANGED <<note, delivery, settings, told, arrived, again>>

-----------------------------------------------------------------------------
(* Time, people, and the alerts others queue. *)

\* Ids are given out in order.
IsNextId(a) == \A b \in Alerts : note[b] = "none" <=> b >= a

Enqueue(a) ==
  /\ IsNextId(a)
  /\ note' = [note EXCEPT ![a] = "pending"]
  /\ UNCHANGED <<delivery, settings, flight, told, history>>

\* A Test button: sent at once, and logged as it went, past the dispatcher.
SendTest(a, c, ok) ==
  /\ IsNextId(a)
  /\ c \in active
  /\ note' = [note EXCEPT ![a] = IF ok THEN "sent" ELSE "failed"]
  /\ delivery' = [delivery EXCEPT ![<<a, c>>] =
                    [status |-> IF ok THEN "sent" ELSE "failed", attempts |-> 1,
                     wait |-> "due"]]
  /\ arrived' = IF ok THEN arrived \cup {<<a, c>>} ELSE arrived
  /\ UNCHANGED <<settings, flight, told, again, unsure, losses>>

\* next_attempt_at comes.  It was set when the answers were recorded, so after
\* a 429 it lies beyond the Retry-After.
BecomeDue(s) ==
  /\ delivery[s].status = "pending"
  /\ \/ delivery[s].wait = "backoff"
     \/ delivery[s].wait = "told" /\ s[2] \notin told
  /\ delivery' = [delivery EXCEPT ![s].wait = "due"]
  /\ UNCHANGED <<note, settings, flight, told, history>>

RetryAfterOver(c) ==
  /\ c \in told
  /\ told' = told \ {c}
  /\ UNCHANGED <<note, delivery, settings, flight, arrived, again, unsure, losses>>

SwitchAlerting ==
  /\ on' = ~on
  /\ UNCHANGED <<note, delivery, active, quiet, flight, told, history>>

SetUpChannel(c) ==
  /\ active' = active \cup {c}
  /\ c \notin active
  /\ UNCHANGED <<note, delivery, on, quiet, flight, told, history>>

RemoveChannel(c) ==
  /\ c \in active
  /\ active' = active \ {c}
  /\ UNCHANGED <<note, delivery, on, quiet, flight, told, history>>

QuietHoursBegin ==
  /\ ~quiet
  /\ quiet' = TRUE
  /\ UNCHANGED <<note, delivery, on, active, flight, told, history>>

QuietHoursEnd ==
  /\ quiet
  /\ quiet' = FALSE
  /\ UNCHANGED <<note, delivery, on, active, flight, told, history>>

SendSome == \E c \in Channels, kind \in Answers, arrives \in BOOLEAN : Send(c, kind, arrives)

Next ==
  \/ Plan
  \/ SendSome
  \/ Record
  \/ LoseAnswers
  \/ \E a \in Alerts : Enqueue(a)
  \/ \E a \in Alerts, c \in Channels, ok \in BOOLEAN : SendTest(a, c, ok)
  \/ \E s \in Slots : BecomeDue(s)
  \/ \E c \in Channels : RetryAfterOver(c) \/ SetUpChannel(c) \/ RemoveChannel(c)
  \/ SwitchAlerting
  \/ QuietHoursBegin
  \/ QuietHoursEnd

Spec == Init /\ [][Next]_vars

(* The scheduler goes on dispatching, outside the quiet hours too (a dispatch  *)
(* takes seconds, they end every day); messages get some answer or time out;   *)
(* waits end.  Nobody needs to queue, save or switch anything.                 *)
Fairness ==
  /\ SF_vars(~quiet /\ Plan)
  /\ WF_vars(SendSome)
  /\ WF_vars(Record)
  /\ \A s \in Slots : SF_vars(BecomeDue(s))
  /\ \A c \in Channels : WF_vars(RetryAfterOver(c))
  /\ WF_vars(QuietHoursEnd)

FairSpec == Spec /\ Fairness
-----------------------------------------------------------------------------
(* Properties. *)

\* What the page says of an alert is what its deliveries say: sent as soon as
\* one channel has it, waiting while one may still get it, and never given up
\* while a delivery is open, although only the rows a dispatch touched are
\* summarised.
FateIsTold ==
  \A a \in Alerts : Routed(delivery, a) # {} =>
    LET fates == {delivery[a, c].status : c \in Channels} \ {"none"}
    IN /\ note[a] = "sent"    <=> "sent" \in fates
       /\ note[a] = "pending" <=> "pending" \in fates /\ "sent" \notin fates
       /\ note[a] = "held"    <=> "held" \in fates /\ fates \cap {"sent", "pending"} = {}
       /\ note[a] = "dropped" <=> fates = {"dropped"}

\* A message goes out once, unless its answer or the record of it was lost:
\* then, and only then, it may go out again.  What is recorded as sent arrived.
SentOnceIfRecorded ==
  /\ again \subseteq unsure
  /\ \A s \in Slots : delivery[s].status = "sent" => s \in arrived

\* While a delivery is open it has tries left, and none is given more than
\* its share, counted over quiet hours, digests and rate limits.
OpenHasTriesLeft ==
  \A s \in Slots : delivery[s].status \in Open => delivery[s].attempts < MaxAttempts

\* What is settled stays settled: no later dispatch sends or rewrites it.
SettledStaysSettled ==
  [][\A s \in Slots : delivery[s].status \in Settled =>
       delivery'[s] = delivery[s] /\ (s \in again' => s \in again)]_vars

\* Every alert queued is settled in the end: sent, dropped, or given up.
EveryAlertSettles ==
  \A a \in Alerts :
    (note[a] # "none") ~>
      (note[a] \in Settled /\ \A c \in Channels : delivery[a, c].status \notin Open)

=============================================================================
