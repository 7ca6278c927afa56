----------------------------- MODULE OutboxProofs -----------------------------
(***************************************************************************)
(* Theorems about the outbox, for any number of alerts, channels, tries    *)
(* and lost answers.                                                       *)
(*                                                                         *)
(* The second transaction writes what the first one planned, seconds later *)
(* and without reading the rows again.  That it never rewrites what was    *)
(* settled rests on what the dispatch holds in between: the plan and the   *)
(* answers name open deliveries only, and no message is in both.           *)
(***************************************************************************)
EXTENDS Outbox, WellFoundedInduction, TLAPS

-----------------------------------------------------------------------------
(* The inductive invariant. *)

\* A message that arrived has its answer in hand or its record made, or the
\* program no longer knows of it.
Recorded == \A s \in arrived \ unsure : answer[s] = "ok" \/ delivery[s].status = "sent"

\* An answer is about a delivery that is still open; "ok" means it arrived.
Heard ==
  \A s \in Slots : /\ answer[s] = "ok" => s \in arrived
                   /\ answer[s] # "none" => delivery[s].status \in Open

\* The plan of a dispatch names open deliveries without an answer.
PlanIsOpen ==
  \A s \in Slots :
    /\ s[1] \in left[s[2]].held  => delivery[s].status = "held" /\ answer[s] = "none"
    /\ s[1] \in left[s[2]].items => delivery[s].status = "pending" /\ answer[s] = "none"
    /\ s[1] \in due[s[2]]        => delivery[s].status = "pending"

\* Between dispatches nothing is planned and nothing has been answered.
IdleIsEmpty ==
  ~busy => \A s \in Slots :
    /\ answer[s] = "none"
    /\ s[1] \notin left[s[2]].held /\ s[1] \notin left[s[2]].items /\ s[1] \notin due[s[2]]

\* An id not given out yet has no delivery.
Unsaid == \A s \in Slots : note[s[1]] = "none" => delivery[s].status = "none"

IInv ==
  /\ TypeOK /\ SentOnceIfRecorded /\ OpenHasTriesLeft
  /\ Recorded /\ Heard /\ PlanIsOpen /\ IdleIsEmpty /\ Unsaid

-----------------------------------------------------------------------------
(* What the operators return. *)

\* A slot is its alert and its channel.
LEMMA SlotIsPair ==
  ASSUME NEW s \in Slots
  PROVE  s[1] \in Alerts /\ s[2] \in Channels /\ s = <<s[1], s[2]>>
BY DEF Slots

\* The oldest of a set of alerts is one of them.
LEMMA FirstIsMember ==
  ASSUME NEW S, S \subseteq Alerts, S # {} PROVE First(S) \in S
<1>1. S \subseteq Nat
  BY ConstantsAssumption
<1> DEFINE R == OpToRel(<, Nat)
<1>2. PICK a \in S : \A b \in S : ~ (<<b, a>> \in R)
  <2>1. IsWellFoundedOn(R, Nat)
    BY NatLessThanWellFounded
  <2> HIDE DEF R
  <2> QED
    BY <1>1, <2>1, WFMin
<1>3. \A b \in S : a <= b
  <2>1. R = {ss \in Nat \X Nat : ss[1] < ss[2]}
    BY Zenon DEF OpToRel
  <2> HIDE DEF R
  <2> SUFFICES ASSUME NEW b \in S PROVE a <= b
    OBVIOUS
  <2>2. a \in Nat /\ b \in Nat
    BY <1>1
  <2>3. b < a => <<b, a>> \in R
    BY <2>1, <2>2
  <2>4. <<b, a>> \notin R
    BY <1>2
  <2> QED
    BY <2>2, <2>3, <2>4
<1> QED
  BY <1>3 DEF First

\* The next message carries deliveries that were left to send.
LEMMA MessageIsLeft ==
  ASSUME TypeOK, NEW c \in Channels, left[c] # Unplanned
  PROVE  /\ left[c].held # {} => NextMessage(c) \subseteq left[c].held
         /\ left[c].held = {} => NextMessage(c) \subseteq left[c].items
<1>1. /\ left[c] \in [held : SUBSET Alerts, items : SUBSET Alerts]
      /\ left[c] = [held |-> left[c].held, items |-> left[c].items]
  BY DEF TypeOK
<1>2. left[c].held = {} => left[c].items # {}
  BY <1>1 DEF Unplanned
<1>3. CASE left[c].held # {}
  BY <1>1, <1>3, FirstIsMember DEF NextMessage
<1>4. CASE left[c].held = {}
  BY <1>1, <1>2, <1>4, FirstIsMember DEF NextMessage
<1> QED
  BY <1>3, <1>4

\* An alert with deliveries takes a status a row can hold.
LEMMA SummaryType ==
  ASSUME NEW S PROVE Summary(S) \in Open \cup Settled
BY DEF Summary, Open, Settled

\* ... and one without keeps what it has.
LEMMA SummarisedType ==
  ASSUME TypeOK, NEW table, NEW S
  PROVE  /\ Summarised(table, S) \in [Alerts -> {"none"} \cup Open \cup Settled]
         /\ \A a \in Alerts : Summarised(table, S)[a] = "none" => note[a] = "none"
<1>1. "none" \notin Open \cup Settled
  BY DEF Open, Settled
<1>2. \A a \in Alerts : \/ Summarised(table, S)[a] \in Open \cup Settled
                        \/ Summarised(table, S)[a] = note[a]
  BY SummaryType DEF Summarised
<1>3. \A a \in Alerts : note[a] \in {"none"} \cup Open \cup Settled
  BY DEF TypeOK
<1>4. Summarised(table, S) = [a \in Alerts |-> Summarised(table, S)[a]]
  BY DEF Summarised
<1> QED
  BY <1>1, <1>2, <1>3, <1>4

-----------------------------------------------------------------------------
(* The first transaction. *)

\* Routing only adds deliveries that were not there, pending or held, of alerts
\* that were queued.
LEMMA RoutingAdds ==
  ASSUME IInv, NEW s \in Slots
  PROVE  \/ AfterRouting[s] = delivery[s]
         \/ /\ delivery[s].status = "none"
            /\ note[s[1]] \in Open
            /\ AfterRouting[s] = [NoDelivery EXCEPT !.status = note[s[1]]]
<1>1. s[1] \in Alerts /\ s[2] \in Channels /\ s = <<s[1], s[2]>>
  BY SlotIsPair
<1>2. CASE s[1] \in Unrouted /\ s[2] \in Takers(s[1])
  <2>1. note[s[1]] \in Open /\ Routed(delivery, s[1]) = {}
    BY <1>2 DEF Unrouted
  <2>2. delivery[s].status = "none"
    BY <1>1, <2>1 DEF Routed
  <2> QED
    BY <1>2, <2>1, <2>2 DEF AfterRouting
<1>3. CASE ~(s[1] \in Unrouted /\ s[2] \in Takers(s[1]))
  BY <1>3 DEF AfterRouting
<1> QED
  BY <1>2, <1>3

\* What that means for a row.
LEMMA RoutingFacts ==
  ASSUME IInv, NEW s \in Slots
  PROVE  /\ AfterRouting[s] \in Delivery
         /\ delivery[s].status \in Settled => AfterRouting[s] = delivery[s]
         /\ AfterRouting[s].status = "sent" => delivery[s].status = "sent"
         /\ AfterRouting[s].status \in Open => AfterRouting[s].attempts < MaxAttempts
         /\ note[s[1]] = "none" => AfterRouting[s].status = "none"
<1>1. delivery[s] \in Delivery /\ NoDelivery \in Delivery /\ MaxAttempts \in Nat \ {0}
  BY ConstantsAssumption DEF IInv, TypeOK, Delivery, NoDelivery
<1>2. CASE AfterRouting[s] = delivery[s]
  BY <1>1, <1>2 DEF IInv, OpenHasTriesLeft, Unsaid
<1>3. CASE /\ delivery[s].status = "none"
           /\ note[s[1]] \in Open
           /\ AfterRouting[s] = [NoDelivery EXCEPT !.status = note[s[1]]]
  <2>1. /\ AfterRouting[s].status = note[s[1]] /\ AfterRouting[s].attempts = 0
        /\ AfterRouting[s] \in Delivery
    BY <1>1, <1>3 DEF NoDelivery, Delivery
  <2> QED
    BY <1>1, <1>3, <2>1 DEF Open, Settled
<1> QED
  BY <1>2, <1>3, RoutingAdds

\* Planning drops or holds what was open, and leaves the rest.
LEMMA PlanningMoves ==
  ASSUME IInv, NEW s \in Slots
  PROVE  \/ AfterPlanning[s] = AfterRouting[s]
         \/ /\ AfterRouting[s].status \in Open
            /\ s[2] \notin Planned
            /\ \/ AfterPlanning[s] = [AfterRouting[s] EXCEPT !.status = "dropped"]
               \/ AfterPlanning[s] = [AfterRouting[s] EXCEPT !.status = "held"]
<1>1. s[1] \in Alerts /\ s[2] \in Channels /\ s = <<s[1], s[2]>>
  BY SlotIsPair
<1>2. s[1] \in DueOn(s[2]) \cup HeldOn(s[2]) => AfterRouting[s].status \in Open
  BY <1>1 DEF DueOn, HeldOn, Open
<1> QED
  BY <1>2 DEF AfterPlanning, Planned

\* ... and what routing and planning together mean for it.
LEMMA PlanningFacts ==
  ASSUME IInv, NEW s \in Slots
  PROVE  /\ AfterPlanning[s] \in Delivery
         /\ delivery[s].status \in Settled => AfterPlanning[s] = delivery[s]
         /\ AfterPlanning[s].status = "sent" => delivery[s].status = "sent"
         /\ AfterPlanning[s].status \in Open => AfterPlanning[s].attempts < MaxAttempts
         /\ note[s[1]] = "none" => AfterPlanning[s].status = "none"
<1>1. CASE AfterPlanning[s] = AfterRouting[s]
  BY <1>1, RoutingFacts
<1>2. CASE /\ AfterRouting[s].status \in Open
           /\ \/ AfterPlanning[s] = [AfterRouting[s] EXCEPT !.status = "dropped"]
              \/ AfterPlanning[s] = [AfterRouting[s] EXCEPT !.status = "held"]
  <2>1. AfterRouting[s] \in Delivery
    BY RoutingFacts
  <2>2. /\ AfterPlanning[s] \in Delivery
        /\ AfterPlanning[s].status \in {"dropped", "held"}
        /\ AfterPlanning[s].attempts = AfterRouting[s].attempts
    BY <1>2, <2>1 DEF Delivery, Open, Settled
  <2> QED
    BY <1>2, <2>2, RoutingFacts DEF Open, Settled
<1> QED
  BY <1>1, <1>2, PlanningMoves

\* What a dispatch plans to send is open, and as planned once it commits.
LEMMA PlannedIsOpen ==
  ASSUME IInv, NEW s \in Slots, s[2] \in Planned
  PROVE  /\ s[1] \in HeldOn(s[2]) => AfterPlanning[s].status = "held"
         /\ s[1] \in DueOn(s[2])  => AfterPlanning[s].status = "pending"
<1>1. s[1] \in Alerts /\ s[2] \in Channels /\ s = <<s[1], s[2]>>
  BY SlotIsPair
<1>2. AfterPlanning[s] = AfterRouting[s]
  BY PlanningMoves
<1> QED
  BY <1>1, <1>2 DEF HeldOn, DueOn

\* The first transaction keeps the invariant.
LEMMA PlanIInv == ASSUME IInv, Plan PROVE IInv'
<1>1. /\ ~busy /\ delivery' = AfterPlanning
      /\ UNCHANGED <<on, active, quiet, answer, told, arrived, again, unsure, losses>>
  BY DEF Plan, settings, history
<1>2. \A s \in Slots : answer[s] = "none"
  BY <1>1 DEF IInv, IdleIsEmpty
<1>3. note' \in [Alerts -> {"none"} \cup Open \cup Settled]
      /\ \A a \in Alerts : note'[a] = "none" => note[a] = "none"
  <2> DEFINE dropped == {a \in Unrouted : Takers(a) = {}}
             changed == {a \in Alerts : \E c \in Channels :
                                          AfterPlanning[a, c] # AfterRouting[a, c]}
             table   == Summarised(AfterPlanning, changed)
  <2>1. note' = [a \in Alerts |-> IF a \in dropped THEN "dropped" ELSE table[a]]
    BY DEF Plan
  <2>2. /\ table \in [Alerts -> {"none"} \cup Open \cup Settled]
        /\ \A a \in Alerts : table[a] = "none" => note[a] = "none"
    BY SummarisedType DEF IInv
  <2> HIDE DEF dropped, table
  <2>3. \A a \in Alerts : note'[a] = "dropped" \/ note'[a] = table[a]
    BY <2>1
  <2> QED
    BY <2>1, <2>2, <2>3 DEF Settled
<1>4. \A c \in Channels : DueOn(c) \subseteq Alerts /\ HeldOn(c) \subseteq Alerts
  BY DEF DueOn, HeldOn
<1>5. /\ due' \in [Channels -> SUBSET Alerts]
      /\ left' \in [Channels -> [held : SUBSET Alerts, items : SUBSET Alerts]]
      /\ \A c \in Channels :
           /\ c \in Planned => due'[c] = DueOn(c) /\ left'[c].held = HeldOn(c)
                               /\ left'[c].items = DueOn(c)
           /\ c \notin Planned => due'[c] = {} /\ left'[c].held = {} /\ left'[c].items = {}
  BY <1>4 DEF Plan, Unplanned
<1>6. busy' = (Planned # {}) /\ Planned \subseteq Channels
  BY DEF Plan, Planned
<1>7. delivery' \in [Slots -> Delivery]
  <2>1. AfterPlanning = [s \in Slots |-> AfterPlanning[s]]
    BY DEF AfterPlanning
  <2> QED
    BY <1>1, <2>1, PlanningFacts
<1>8. TypeOK'
  BY <1>1, <1>3, <1>5, <1>6, <1>7 DEF IInv, TypeOK
<1>9. SentOnceIfRecorded'
  BY <1>1, PlanningFacts DEF IInv, SentOnceIfRecorded
<1>10. OpenHasTriesLeft'
  BY <1>1, PlanningFacts DEF OpenHasTriesLeft
<1>11. Recorded'
  <2>1. \A s \in arrived \ unsure : s \in Slots /\ delivery[s].status = "sent"
    BY <1>2 DEF IInv, Recorded, TypeOK
  <2> QED
    BY <1>1, <2>1, PlanningFacts DEF Recorded, Settled
<1>12. Heard'
  BY <1>1, <1>2 DEF Heard
<1>13. PlanIsOpen'
  <2> SUFFICES ASSUME NEW s \in Slots
               PROVE  /\ s[1] \in left'[s[2]].held  => delivery'[s].status = "held"
                      /\ s[1] \in left'[s[2]].items => delivery'[s].status = "pending"
                      /\ s[1] \in due'[s[2]]        => delivery'[s].status = "pending"
    BY <1>1, <1>2 DEF PlanIsOpen
  <2>1. s[2] \in Channels
    BY SlotIsPair
  <2> QED
    BY <1>1, <1>5, <2>1, PlannedIsOpen
<1>14. IdleIsEmpty'
  <2>1. \A s \in Slots : s[2] \in Channels
    BY SlotIsPair
  <2> QED
    BY <1>1, <1>2, <1>5, <1>6, <2>1 DEF IdleIsEmpty
<1>15. Unsaid'
  <2>1. \A s \in Slots : s[1] \in Alerts
    BY SlotIsPair
  <2> QED
    BY <1>1, <1>3, <2>1, PlanningFacts DEF Unsaid
<1> QED
  BY <1>8, <1>9, <1>10, <1>11, <1>12, <1>13, <1>14, <1>15 DEF IInv

-----------------------------------------------------------------------------
(* Sending. *)

\* A message carries open deliveries without an answer, so those of them that
\* had arrived are ones the program lost the record of.
LEMMA MessageFacts ==
  ASSUME IInv, NEW c \in Channels, left[c] # Unplanned
  PROVE  \A a \in NextMessage(c) :
           /\ <<a, c>> \in Slots
           /\ delivery[<<a, c>>].status \in Open
           /\ answer[<<a, c>>] = "none"
           /\ <<a, c>> \in arrived => <<a, c>> \in unsure
<1> SUFFICES ASSUME NEW a \in NextMessage(c)
             PROVE  /\ <<a, c>> \in Slots
                    /\ delivery[<<a, c>>].status \in Open
                    /\ answer[<<a, c>>] = "none"
                    /\ <<a, c>> \in arrived => <<a, c>> \in unsure
  OBVIOUS
<1>1. a \in left[c].held \/ a \in left[c].items
  BY MessageIsLeft DEF IInv
<1>2. left[c].held \subseteq Alerts /\ left[c].items \subseteq Alerts
  BY DEF IInv, TypeOK
<1>3. <<a, c>> \in Slots /\ <<a, c>>[1] = a /\ <<a, c>>[2] = c
  BY <1>1, <1>2 DEF Slots
<1>4. delivery[<<a, c>>].status \in Open /\ answer[<<a, c>>] = "none"
  BY <1>1, <1>3 DEF IInv, PlanIsOpen, Open
<1>5. delivery[<<a, c>>].status # "sent" /\ answer[<<a, c>>] # "ok"
  BY <1>4 DEF Open
<1> QED
  BY <1>3, <1>4, <1>5 DEF IInv, Recorded

\* What stays to be sent was planned, and is not in the message.
LEMMA LeftAfterMessage ==
  ASSUME IInv, NEW c \in Channels, NEW kind \in Answers, left[c] # Unplanned
  PROVE  /\ AfterMessage(c, kind) \in [held : SUBSET Alerts, items : SUBSET Alerts]
         /\ AfterMessage(c, kind).held  \subseteq left[c].held \ NextMessage(c)
         /\ AfterMessage(c, kind).items \subseteq left[c].items \ NextMessage(c)
<1>1. left[c] \in [held : SUBSET Alerts, items : SUBSET Alerts]
  BY DEF IInv, TypeOK
<1>2. left[c].held \cap left[c].items = {}
  <2> SUFFICES ASSUME NEW a \in left[c].held \cap left[c].items PROVE FALSE
    OBVIOUS
  <2>1. <<a, c>> \in Slots /\ <<a, c>>[1] = a /\ <<a, c>>[2] = c
    BY <1>1 DEF Slots
  <2> QED
    BY <2>1 DEF IInv, PlanIsOpen
<1>3. CASE kind = "told"
  BY <1>3 DEF AfterMessage, Unplanned
<1>4. CASE kind # "told" /\ left[c].held # {}
  <2>1. AfterMessage(c, kind) = [left[c] EXCEPT !.held = left[c].held \ NextMessage(c)]
    BY <1>4 DEF AfterMessage
  <2>2. NextMessage(c) \subseteq left[c].held
    BY <1>4, MessageIsLeft DEF IInv
  <2> QED
    BY <1>1, <1>2, <2>1, <2>2
<1>5. CASE kind # "told" /\ left[c].held = {}
  <2>1. AfterMessage(c, kind) = [left[c] EXCEPT !.items = left[c].items \ NextMessage(c)]
    BY <1>5 DEF AfterMessage
  <2> QED
    BY <1>1, <1>5, <2>1
<1> QED
  BY <1>3, <1>4, <1>5

\* Sending a message keeps the invariant.
LEMMA SendIInv ==
  ASSUME IInv, NEW c \in Channels, NEW kind \in Answers, NEW arrives \in BOOLEAN,
         Send(c, kind, arrives)
  PROVE  IInv'
<1> DEFINE m == {<<a, c>> : a \in NextMessage(c)}
<1>1. /\ busy /\ left[c] # Unplanned
      /\ kind = "ok" => arrives
      /\ UNCHANGED <<note, delivery, on, active, quiet, busy, due, losses>>
  BY DEF Send, IsNext, settings
<1>2. /\ answer' = [s \in Slots |-> IF s \in m THEN kind ELSE answer[s]]
      /\ left' = [left EXCEPT ![c] = AfterMessage(c, kind)]
      /\ told' = IF kind = "told" THEN told \cup {c} ELSE told
      /\ arrived' = IF arrives THEN arrived \cup m ELSE arrived
      /\ again' = IF arrives THEN again \cup (m \cap arrived) ELSE again
      /\ unsure' = IF arrives /\ kind # "ok" THEN unsure \cup m ELSE unsure
  BY DEF Send
<1>3. \A s \in m : /\ s \in Slots /\ delivery[s].status \in Open /\ answer[s] = "none"
                   /\ s \in arrived => s \in unsure
                   /\ s[2] = c /\ s[1] \in NextMessage(c)
  <2> SUFFICES ASSUME NEW a \in NextMessage(c)
               PROVE  /\ <<a, c>> \in Slots /\ delivery[<<a, c>>].status \in Open
                      /\ answer[<<a, c>>] = "none"
                      /\ <<a, c>> \in arrived => <<a, c>> \in unsure
    OBVIOUS
  <2> QED
    BY <1>1, MessageFacts
<1>4. /\ left'[c] = AfterMessage(c, kind)
      /\ \A b \in Channels : b # c => left'[b] = left[b]
      /\ left' \in [Channels -> [held : SUBSET Alerts, items : SUBSET Alerts]]
  BY <1>1, <1>2, LeftAfterMessage DEF IInv, TypeOK
<1>5. \A s \in Slots :
        /\ s[2] \in Channels
        /\ s[1] \in left'[s[2]].held  => s[1] \in left[s[2]].held /\ s \notin m
        /\ s[1] \in left'[s[2]].items => s[1] \in left[s[2]].items /\ s \notin m
  <2> SUFFICES ASSUME NEW s \in Slots
               PROVE  /\ s[2] \in Channels
                      /\ s[1] \in left'[s[2]].held  => s[1] \in left[s[2]].held /\ s \notin m
                      /\ s[1] \in left'[s[2]].items => s[1] \in left[s[2]].items /\ s \notin m
    OBVIOUS
  <2>1. s[2] \in Channels
    BY SlotIsPair
  <2> HIDE DEF m
  <2>2. CASE s[2] = c
    BY <1>1, <1>3, <1>4, <2>1, <2>2, LeftAfterMessage
  <2>3. CASE s[2] # c
    BY <1>3, <1>4, <2>1, <2>3
  <2> QED
    BY <2>2, <2>3
<1> HIDE DEF m
<1>6. m \subseteq Slots /\ kind # "none"
  BY <1>3 DEF Answers
<1>7. TypeOK'
  BY <1>1, <1>2, <1>4, <1>6 DEF IInv, TypeOK
<1>8. SentOnceIfRecorded'
  BY <1>1, <1>2, <1>3 DEF IInv, SentOnceIfRecorded
<1>9. OpenHasTriesLeft'
  BY <1>1 DEF IInv, OpenHasTriesLeft
<1>10. Recorded'
  <2> SUFFICES ASSUME NEW s \in arrived' \ unsure'
               PROVE  answer'[s] = "ok" \/ delivery'[s].status = "sent"
    BY DEF Recorded
  <2>1. s \in Slots
    BY <1>2, <1>6 DEF IInv, TypeOK
  <2>2. CASE s \in m
    BY <1>2, <1>3, <2>1, <2>2
  <2>3. CASE s \notin m
    BY <1>1, <1>2, <2>1, <2>3 DEF IInv, Recorded
  <2> QED
    BY <2>2, <2>3
<1>11. Heard'
  <2> SUFFICES ASSUME NEW s \in Slots
               PROVE  /\ answer'[s] = "ok" => s \in arrived'
                      /\ answer'[s] # "none" => delivery'[s].status \in Open
    BY DEF Heard
  <2>1. CASE s \in m
    BY <1>1, <1>2, <1>3, <2>1
  <2>2. CASE s \notin m
    BY <1>1, <1>2, <2>2 DEF IInv, Heard
  <2> QED
    BY <2>1, <2>2
<1>12. PlanIsOpen'
  BY <1>1, <1>2, <1>5 DEF IInv, PlanIsOpen
<1>13. IdleIsEmpty'
  BY <1>1 DEF IdleIsEmpty
<1>14. Unsaid'
  BY <1>1 DEF IInv, Unsaid
<1> QED
  BY <1>7, <1>8, <1>9, <1>10, <1>11, <1>12, <1>13, <1>14 DEF IInv

-----------------------------------------------------------------------------
(* The second transaction. *)

\* An answer counts one try more, and leaves a delivery open only while it has
\* tries left.
LEMMA AnswerFacts ==
  ASSUME NEW d \in Delivery, NEW kind \in Answers, d.attempts < MaxAttempts
  PROVE  /\ AfterAnswer(d, kind) \in Delivery
         /\ AfterAnswer(d, kind).status = "sent" <=> kind = "ok"
         /\ AfterAnswer(d, kind).status \in Open => AfterAnswer(d, kind).attempts < MaxAttempts
         /\ AfterAnswer(d, kind).status # "none"
<1> DEFINE tries == d.attempts + 1
           e     == AfterAnswer(d, kind)
<1>1. tries \in 0..MaxAttempts /\ d.wait \in {"due", "backoff", "told"}
  BY ConstantsAssumption DEF Delivery
<1>2. e.attempts = tries
  BY DEF AfterAnswer
<1>3. CASE kind = "ok"
  <2>1. e = [status |-> "sent", attempts |-> tries, wait |-> d.wait]
    BY <1>3 DEF AfterAnswer
  <2> QED
    BY <1>1, <1>3, <2>1 DEF Delivery, Open, Settled
<1>4. CASE kind = "permanent"
  <2>1. e = [status |-> "failed", attempts |-> tries, wait |-> d.wait]
    BY <1>4 DEF AfterAnswer
  <2> QED
    BY <1>1, <1>4, <2>1 DEF Delivery, Open, Settled
<1>5. CASE kind \in {"retry", "told"}
  <2>1. /\ e.status = IF tries >= MaxAttempts THEN "failed" ELSE "pending"
        /\ e.wait \in {"told", "backoff"}
        /\ e = [status |-> e.status, attempts |-> e.attempts, wait |-> e.wait]
    BY <1>5 DEF AfterAnswer
  <2> QED
    BY <1>1, <1>2, <1>5, <2>1, ConstantsAssumption DEF Delivery, Open, Settled
<1> QED
  BY <1>3, <1>4, <1>5 DEF Answers

\* What is recorded: answered deliveries were open, and so were those that were
\* not tried; the others stay as they are.
LEMMA RecordFacts ==
  ASSUME IInv, NEW s \in Slots
  PROVE  /\ AfterRecord[s] \in Delivery
         /\ delivery[s].status \in Settled => AfterRecord[s] = delivery[s]
         /\ AfterRecord[s].status = "sent" => delivery[s].status = "sent" \/ answer[s] = "ok"
         /\ answer[s] = "ok" => AfterRecord[s].status = "sent"
         /\ AfterRecord[s].status \in Open => AfterRecord[s].attempts < MaxAttempts
         /\ delivery[s].status = "none" => AfterRecord[s].status = "none"
<1>1. /\ delivery[s] \in Delivery /\ answer[s] \in {"none"} \cup Answers
      /\ delivery[s].status \in Open => delivery[s].attempts < MaxAttempts
      /\ answer[s] # "none" => delivery[s].status \in Open
      /\ s[1] \in due[s[2]] => delivery[s].status = "pending"
  BY DEF IInv, TypeOK, OpenHasTriesLeft, Heard, PlanIsOpen
<1>2. Open \cap Settled = {} /\ "none" \notin Open /\ "pending" \in Open /\ "sent" \in Settled
  BY DEF Open, Settled
<1>3. CASE s \in Answered
  <2>1. answer[s] # "none" /\ AfterRecord[s] = AfterAnswer(delivery[s], answer[s])
    BY <1>3 DEF Answered, AfterRecord
  <2> QED
    BY <1>1, <1>2, <2>1, AnswerFacts
<1>4. CASE s \notin Answered /\ s \in NotTried
  <2>1. /\ answer[s] = "none" /\ delivery[s].status = "pending"
        /\ AfterRecord[s] = [delivery[s] EXCEPT !.wait = "told"]
    BY <1>1, <1>4 DEF Answered, NotTried, AfterRecord
  <2> QED
    BY <1>1, <1>2, <2>1 DEF Delivery, Answers
<1>5. CASE s \notin Answered /\ s \notin NotTried
  <2>1. answer[s] = "none" /\ AfterRecord[s] = delivery[s]
    BY <1>5 DEF Answered, AfterRecord
  <2> QED
    BY <1>1, <1>2, <2>1 DEF Answers
<1> QED
  BY <1>3, <1>4, <1>5

\* Recording the answers keeps the invariant.
LEMMA RecordIInv == ASSUME IInv, Record PROVE IInv'
<1>1. /\ delivery' = AfterRecord
      /\ busy' = FALSE
      /\ due' = [c \in Channels |-> {}]
      /\ answer' = [s \in Slots |-> "none"]
      /\ UNCHANGED <<on, active, quiet, left, told, arrived, again, unsure, losses>>
  BY DEF Record, settings
<1>2. \A s \in Slots : /\ s[1] \in Alerts /\ due'[s[2]] = {}
                       /\ left'[s[2]].held = {} /\ left'[s[2]].items = {}
  BY <1>1, SlotIsPair DEF Record, Unplanned
<1>3. /\ note' \in [Alerts -> {"none"} \cup Open \cup Settled]
      /\ \A a \in Alerts : note'[a] = "none" => note[a] = "none"
  BY SummarisedType DEF Record, IInv
<1>4. delivery' \in [Slots -> Delivery]
  <2>1. AfterRecord = [s \in Slots |-> AfterRecord[s]]
    BY DEF AfterRecord
  <2> QED
    BY <1>1, <2>1, RecordFacts
<1>5. TypeOK'
  BY <1>1, <1>3, <1>4 DEF IInv, TypeOK
<1>6. SentOnceIfRecorded'
  BY <1>1, RecordFacts DEF IInv, SentOnceIfRecorded, Heard
<1>7. OpenHasTriesLeft'
  BY <1>1, RecordFacts DEF OpenHasTriesLeft
<1>8. Recorded'
  <2>1. \A s \in arrived \ unsure : s \in Slots
    BY DEF IInv, TypeOK
  <2> QED
    BY <1>1, <2>1, RecordFacts DEF IInv, Recorded, Settled
<1>9. Heard'
  BY <1>1 DEF Heard
<1>10. PlanIsOpen'
  BY <1>2 DEF PlanIsOpen
<1>11. IdleIsEmpty'
  BY <1>1, <1>2 DEF IdleIsEmpty
<1>12. Unsaid'
  BY <1>1, <1>2, <1>3, RecordFacts DEF IInv, Unsaid
<1> QED
  BY <1>5, <1>6, <1>7, <1>8, <1>9, <1>10, <1>11, <1>12 DEF IInv

\* Losing the answers keeps it: what had arrived is now unsure.
LEMMA LoseAnswersIInv == ASSUME IInv, LoseAnswers PROVE IInv'
<1>1. /\ losses < MaxLosses /\ losses' = losses + 1
      /\ unsure' = unsure \cup {s \in Slots : answer[s] = "ok"}
      /\ busy' = FALSE
      /\ due' = [c \in Channels |-> {}]
      /\ left' = [c \in Channels |-> Unplanned]
      /\ answer' = [s \in Slots |-> "none"]
      /\ UNCHANGED <<note, delivery, on, active, quiet, told, arrived, again>>
  BY DEF LoseAnswers, settings
<1>2. \A s \in Slots : due'[s[2]] = {} /\ left'[s[2]].held = {} /\ left'[s[2]].items = {}
  BY <1>1, SlotIsPair DEF Unplanned
<1>3. TypeOK'
  <2>1. Unplanned \in [held : SUBSET Alerts, items : SUBSET Alerts]
    BY DEF Unplanned
  <2>2. losses' \in 0..MaxLosses
    BY <1>1, ConstantsAssumption DEF IInv, TypeOK
  <2> QED
    BY <1>1, <2>1, <2>2 DEF IInv, TypeOK
<1>4. SentOnceIfRecorded' /\ OpenHasTriesLeft' /\ Unsaid'
  BY <1>1 DEF IInv, SentOnceIfRecorded, OpenHasTriesLeft, Unsaid
<1>5. Recorded'
  BY <1>1 DEF IInv, Recorded, TypeOK
<1>6. Heard' /\ PlanIsOpen' /\ IdleIsEmpty'
  BY <1>1, <1>2 DEF Heard, PlanIsOpen, IdleIsEmpty
<1> QED
  BY <1>3, <1>4, <1>5, <1>6 DEF IInv

-----------------------------------------------------------------------------
(* The other steps, and the invariant of the specification. *)

\* A Test message is about an alert nothing was known of.
LEMMA TestIInv ==
  ASSUME IInv, NEW a \in Alerts, NEW c \in Channels, NEW ok \in BOOLEAN, SendTest(a, c, ok)
  PROVE  IInv' /\ \A s \in Slots : delivery[s].status # "none" => delivery'[s] = delivery[s]
<1> DEFINE t == <<a, c>>
           d == [status |-> IF ok THEN "sent" ELSE "failed", attempts |-> 1, wait |-> "due"]
<1>1. /\ note' = [note EXCEPT ![a] = IF ok THEN "sent" ELSE "failed"]
      /\ delivery' = [delivery EXCEPT ![t] = d]
      /\ arrived' = IF ok THEN arrived \cup {t} ELSE arrived
      /\ UNCHANGED <<on, active, quiet, busy, due, left, answer, told, again, unsure, losses>>
  BY DEF SendTest, settings, flight
<1>2. t \in Slots /\ t[1] = a /\ t[2] = c
  BY DEF Slots
<1>3. note[a] = "none" /\ delivery[t].status = "none"
  <2>1. note[a] = "none"
    BY ConstantsAssumption DEF SendTest, IsNextId
  <2> QED
    BY <1>2, <2>1 DEF IInv, Unsaid
<1>4. d \in Delivery /\ d.status = (IF ok THEN "sent" ELSE "failed")
  BY ConstantsAssumption DEF Delivery, Settled
<1> HIDE DEF t, d
<1>5. delivery'[t] = d /\ \A s \in Slots : s # t => delivery'[s] = delivery[s]
  BY <1>1, <1>2 DEF IInv, TypeOK
<1>6. answer[t] = "none" /\ a \notin left[c].held /\ a \notin left[c].items /\ a \notin due[c]
  BY <1>2, <1>3 DEF IInv, Heard, PlanIsOpen, Open
<1>7. TypeOK'
  BY <1>1, <1>2, <1>4 DEF IInv, TypeOK, Settled
<1>8. SentOnceIfRecorded'
  BY <1>1, <1>4, <1>5 DEF IInv, SentOnceIfRecorded
<1>9. OpenHasTriesLeft'
  BY <1>4, <1>5 DEF IInv, OpenHasTriesLeft, Open
<1>10. Recorded'
  <2>1. arrived \subseteq Slots
    BY DEF IInv, TypeOK
  <2>2. \A s \in arrived \ unsure : s # t => answer'[s] = "ok" \/ delivery'[s].status = "sent"
    BY <1>1, <1>5, <2>1 DEF IInv, Recorded
  <2>3. t \in arrived \ unsure => answer[t] = "ok" \/ delivery[t].status = "sent"
    BY DEF IInv, Recorded
  <2> QED
    BY <1>1, <1>3, <1>4, <1>5, <1>6, <2>2, <2>3 DEF Recorded
<1>11. Heard'
  BY <1>1, <1>5, <1>6 DEF IInv, Heard
<1>12. PlanIsOpen'
  BY <1>1, <1>2, <1>5, <1>6 DEF IInv, PlanIsOpen
<1>13. IdleIsEmpty'
  BY <1>1 DEF IInv, IdleIsEmpty
<1>14. Unsaid'
  <2> SUFFICES ASSUME NEW s \in Slots, note'[s[1]] = "none"
               PROVE  delivery'[s].status = "none"
    BY DEF Unsaid
  <2>1. s[1] \in Alerts
    BY SlotIsPair
  <2>2. s[1] # a /\ note[s[1]] = "none"
    BY <1>1, <2>1 DEF IInv, TypeOK
  <2> QED
    BY <1>2, <1>5, <2>2 DEF IInv, Unsaid
<1> QED
  BY <1>3, <1>5, <1>7, <1>8, <1>9, <1>10, <1>11, <1>12, <1>13, <1>14 DEF IInv

\* A wait that ends changes nothing but itself.
LEMMA BecomeDueIInv ==
  ASSUME IInv, NEW s \in Slots, BecomeDue(s)
  PROVE  IInv' /\ \A r \in Slots : delivery[r].status \in Settled => delivery'[r] = delivery[r]
<1>1. /\ delivery[s].status = "pending"
      /\ delivery' = [delivery EXCEPT ![s] = [delivery[s] EXCEPT !.wait = "due"]]
      /\ UNCHANGED <<note, on, active, quiet, busy, due, left, answer, told, arrived, again,
                     unsure, losses>>
  BY DEF BecomeDue, settings, flight, history
<1>2. /\ delivery' \in [Slots -> Delivery]
      /\ \A r \in Slots : /\ delivery'[r].status = delivery[r].status
                          /\ delivery'[r].attempts = delivery[r].attempts
                          /\ r # s => delivery'[r] = delivery[r]
  <2>1. delivery \in [Slots -> Delivery]
    BY DEF IInv, TypeOK
  <2> QED
    BY <1>1, <2>1 DEF Delivery
<1>3. TypeOK'
  BY <1>1, <1>2 DEF IInv, TypeOK
<1>4. SentOnceIfRecorded' /\ OpenHasTriesLeft' /\ Unsaid'
  BY <1>1, <1>2 DEF IInv, SentOnceIfRecorded, OpenHasTriesLeft, Unsaid
<1>5. Recorded'
  <2>1. arrived \subseteq Slots
    BY DEF IInv, TypeOK
  <2> QED
    BY <1>1, <1>2, <2>1 DEF IInv, Recorded
<1>6. Heard' /\ PlanIsOpen' /\ IdleIsEmpty'
  BY <1>1, <1>2 DEF IInv, Heard, PlanIsOpen, IdleIsEmpty
<1> QED
  BY <1>1, <1>2, <1>3, <1>4, <1>5, <1>6 DEF IInv, Settled

\* An alert queued, and what people and the clock do, leave the deliveries alone.
AsideStep ==
  \/ \E a \in Alerts : Enqueue(a)
  \/ \E c \in Channels : RetryAfterOver(c) \/ SetUpChannel(c) \/ RemoveChannel(c)
  \/ SwitchAlerting
  \/ QuietHoursBegin
  \/ QuietHoursEnd
  \/ UNCHANGED vars

\* They keep the invariant.
LEMMA AsideIInv ==
  ASSUME IInv, AsideStep
  PROVE  IInv' /\ UNCHANGED <<delivery, again>>
<1>1. UNCHANGED <<delivery, busy, due, left, answer, arrived, again, unsure, losses>>
  BY DEF AsideStep, Enqueue, RetryAfterOver, SetUpChannel, RemoveChannel, SwitchAlerting,
         QuietHoursBegin, QuietHoursEnd, vars, flight, history
<1>2. /\ note' \in [Alerts -> {"none"} \cup Open \cup Settled]
      /\ \A a \in Alerts : note'[a] = "none" => note[a] = "none"
  <2>1. ASSUME NEW a \in Alerts, Enqueue(a)
        PROVE  /\ note' \in [Alerts -> {"none"} \cup Open \cup Settled]
               /\ \A b \in Alerts : note'[b] = "none" => note[b] = "none"
    BY <2>1 DEF Enqueue, IInv, TypeOK, Open
  <2> QED
    BY <2>1 DEF AsideStep, RetryAfterOver, SetUpChannel, RemoveChannel, SwitchAlerting,
                QuietHoursBegin, QuietHoursEnd, vars, IInv, TypeOK
<1>3. /\ on' \in BOOLEAN /\ active' \subseteq Channels /\ quiet' \in BOOLEAN
      /\ told' \subseteq Channels
  BY DEF AsideStep, Enqueue, RetryAfterOver, SetUpChannel, RemoveChannel, SwitchAlerting,
         QuietHoursBegin, QuietHoursEnd, vars, settings, IInv, TypeOK
<1>4. TypeOK'
  BY <1>1, <1>2, <1>3 DEF IInv, TypeOK
<1>5. SentOnceIfRecorded' /\ OpenHasTriesLeft'
  BY <1>1 DEF IInv, SentOnceIfRecorded, OpenHasTriesLeft
<1>6. Recorded' /\ Heard' /\ PlanIsOpen' /\ IdleIsEmpty'
  BY <1>1 DEF IInv, Recorded, Heard, PlanIsOpen, IdleIsEmpty
<1>7. Unsaid'
  <2>1. \A s \in Slots : s[1] \in Alerts
    BY SlotIsPair
  <2> QED
    BY <1>1, <1>2, <2>1 DEF IInv, Unsaid
<1> QED
  BY <1>1, <1>4, <1>5, <1>6, <1>7 DEF IInv

\* It holds of the empty outbox.
LEMMA InitIInv == Init => IInv
<1> SUFFICES ASSUME Init PROVE IInv
  OBVIOUS
<1>1. NoDelivery \in Delivery /\ Unplanned \in [held : SUBSET Alerts, items : SUBSET Alerts]
  BY ConstantsAssumption DEF NoDelivery, Delivery, Unplanned
<1>2. TypeOK
  <2>1. losses \in 0..MaxLosses
    BY ConstantsAssumption DEF Init
  <2>2. on \in BOOLEAN /\ quiet \in BOOLEAN /\ busy \in BOOLEAN
    BY DEF Init
  <2> QED
    BY <1>1, <2>1, <2>2, Zenon DEF Init, TypeOK
<1>3. \A s \in Slots : /\ delivery[s].status = "none" /\ answer[s] = "none"
                       /\ left[s[2]].held = {} /\ left[s[2]].items = {} /\ due[s[2]] = {}
  BY SlotIsPair DEF Init, NoDelivery, Unplanned
<1>4. SentOnceIfRecorded /\ OpenHasTriesLeft /\ Recorded
  BY <1>3 DEF Init, SentOnceIfRecorded, OpenHasTriesLeft, Recorded, Open
<1>5. Heard /\ PlanIsOpen /\ IdleIsEmpty /\ Unsaid
  BY <1>3 DEF Heard, PlanIsOpen, IdleIsEmpty, Unsaid
<1> QED
  BY <1>2, <1>4, <1>5 DEF IInv

\* The invariant, one step per kind of action.
LEMMA StepIInv == IInv /\ [Next]_vars => IInv'
<1> SUFFICES ASSUME IInv, [Next]_vars PROVE IInv'
  OBVIOUS
<1>1. CASE Plan
  BY <1>1, PlanIInv
<1>2. CASE SendSome
  BY <1>2, SendIInv DEF SendSome
<1>3. CASE Record
  BY <1>3, RecordIInv
<1>4. CASE LoseAnswers
  BY <1>4, LoseAnswersIInv
<1>5. CASE \E a \in Alerts, c \in Channels, ok \in BOOLEAN : SendTest(a, c, ok)
  BY <1>5, TestIInv
<1>6. CASE \E s \in Slots : BecomeDue(s)
  BY <1>6, BecomeDueIInv
<1>7. CASE AsideStep
  BY <1>7, AsideIInv
<1> QED
  BY <1>1, <1>2, <1>3, <1>4, <1>5, <1>6, <1>7 DEF Next, AsideStep

\* ... and in every reachable state.
THEOREM Invariance == Spec => []IInv
BY InitIInv, StepIInv, PTL DEF Spec

-----------------------------------------------------------------------------
(* What a reader may rely on. *)

\* The rows of the outbox keep their form: no delivery is tried more often than
\* MAX_ATTEMPTS (alerts.py _dispatch).
THEOREM TypeCorrect == Spec => []TypeOK
<1>1. IInv => TypeOK
  BY DEF IInv
<1> QED
  BY Invariance, <1>1, PTL

\* A message goes out once unless its answer or the record of it was lost, and
\* what is recorded as sent arrived (alerts.py dispatch, between its two
\* transactions).
THEOREM SentOnce == Spec => []SentOnceIfRecorded
<1>1. IInv => SentOnceIfRecorded
  BY DEF IInv
<1> QED
  BY Invariance, <1>1, PTL

\* An open delivery has tries left, whatever digests, bursts and rate limits
\* did to it (alerts.py _dispatch, the second transaction).
THEOREM TriesAreLeft == Spec => []OpenHasTriesLeft
<1>1. IInv => OpenHasTriesLeft
  BY DEF IInv
<1> QED
  BY Invariance, <1>1, PTL

SettledKept ==
  \A s \in Slots : delivery[s].status \in Settled =>
    delivery'[s] = delivery[s] /\ (s \in again' => s \in again)

\* One step per kind of action: only open deliveries are written.
LEMMA StepKeepsSettled == IInv /\ [Next]_vars => SettledKept
<1> SUFFICES ASSUME IInv, [Next]_vars PROVE SettledKept
  OBVIOUS
<1>1. Open \cap Settled = {} /\ "none" \notin Settled
  BY DEF Open, Settled
<1>2. CASE Plan
  BY <1>2, PlanningFacts DEF Plan, history, SettledKept
<1>3. ASSUME NEW c \in Channels, NEW kind \in Answers, NEW arrives \in BOOLEAN,
             Send(c, kind, arrives)
      PROVE  SettledKept
  <2> DEFINE m == {<<a, c>> : a \in NextMessage(c)}
  <2>1. delivery' = delivery /\ again' \subseteq again \cup m
    BY <1>3 DEF Send
  <2>2. \A a \in NextMessage(c) : delivery[<<a, c>>].status \in Open
    BY <1>3, MessageFacts DEF Send, IsNext
  <2>3. \A s \in m : delivery[s].status \in Open
    BY <2>2
  <2> HIDE DEF m
  <2> QED
    BY <1>1, <2>1, <2>3 DEF SettledKept
<1>4. CASE Record
  BY <1>4, RecordFacts DEF Record, SettledKept
<1>5. CASE LoseAnswers
  BY <1>5 DEF LoseAnswers, SettledKept
<1>6. ASSUME NEW a \in Alerts, NEW c \in Channels, NEW ok \in BOOLEAN, SendTest(a, c, ok)
      PROVE  SettledKept
  BY <1>1, <1>6, TestIInv DEF SendTest, SettledKept
<1>7. ASSUME NEW s \in Slots, BecomeDue(s) PROVE SettledKept
  BY <1>7, BecomeDueIInv DEF BecomeDue, history, SettledKept
<1>8. CASE AsideStep
  BY <1>8, AsideIInv DEF SettledKept
<1> QED
  BY <1>2, <1>3, <1>4, <1>5, <1>6, <1>7, <1>8 DEF Next, SendSome, AsideStep

\* No later dispatch sends or rewrites what was settled, although it writes what
\* it planned without reading the rows again (alerts.py _dispatch).
THEOREM SettledIsKept == Spec => SettledStaysSettled
<1>1. IInv /\ [Next]_vars => [SettledKept]_vars
  BY StepKeepsSettled
<1> QED
  BY Invariance, <1>1, PTL DEF Spec, SettledStaysSettled, SettledKept

-----------------------------------------------------------------------------
(* What the page says of an alert. *)

\* The statuses of the deliveries of an alert.
Fates(table, a) == {table[a, c].status : c \in Routed(table, a)}

\* An alert with deliveries has the status they give it.
NoteIsSummary ==
  \A a \in Alerts : Routed(delivery, a) # {} => note[a] = Summary(Fates(delivery, a))

\* Alike deliveries, alike summaries.
LEMMA SameFates ==
  ASSUME NEW a \in Alerts, NEW old, NEW new,
         \A c \in Channels : new[a, c].status = old[a, c].status
  PROVE  Routed(new, a) = Routed(old, a) /\ Fates(new, a) = Fates(old, a)
BY DEF Routed, Fates

\* Deliveries that share one status give it to their alert.
LEMMA OneFate ==
  ASSUME NEW a \in Alerts, NEW table, NEW x \in Open \cup Settled,
         \A c \in Routed(table, a) : table[a, c].status = x, Routed(table, a) # {}
  PROVE  Summary(Fates(table, a)) = x
<1>1. Fates(table, a) = {x}
  BY DEF Fates
<1> QED
  BY <1>1 DEF Summary, Open, Settled

\* A step that leaves statuses alone, and notes of alerts with deliveries too.
LEMMA AsideKeepsNotes ==
  ASSUME IInv, NoteIsSummary, NEW a \in Alerts,
         \A c \in Channels : delivery'[a, c].status = delivery[a, c].status,
         Routed(delivery, a) # {} => note'[a] = note[a]
  PROVE  Routed(delivery', a) # {} => note'[a] = Summary(Fates(delivery', a))
BY SameFates DEF NoteIsSummary

\* The first transaction drops the alerts nobody takes, gives the newly routed
\* their own status, and summarises the rows it moved.
LEMMA PlanKeepsNotes ==
  ASSUME IInv, NoteIsSummary, Plan PROVE NoteIsSummary'
<1> DEFINE dropped == {a \in Unrouted : Takers(a) = {}}
           changed == {a \in Alerts : \E c \in Channels :
                                        AfterPlanning[a, c] # AfterRouting[a, c]}
<1>1. /\ delivery' = AfterPlanning
      /\ note' = [a \in Alerts |-> IF a \in dropped THEN "dropped"
                                   ELSE Summarised(AfterPlanning, changed)[a]]
  BY DEF Plan
<1> SUFFICES ASSUME NEW a \in Alerts, Routed(AfterPlanning, a) # {}
             PROVE  note'[a] = Summary(Fates(AfterPlanning, a))
  BY <1>1 DEF NoteIsSummary
<1>2. \A c \in Channels : <<a, c>> \in Slots
  BY DEF Slots
<1>3. ASSUME a \in dropped PROVE FALSE
  <2>1. \A c \in Channels : AfterRouting[a, c] = delivery[a, c] /\ delivery[a, c].status = "none"
    BY <1>2, <1>3 DEF AfterRouting, Unrouted, Routed
  <2>2. \A c \in Channels : AfterPlanning[a, c].status = "none"
    BY <1>2, <2>1, PlanningMoves DEF Open
  <2> QED
    BY <2>2 DEF Routed
<1>4. CASE a \in changed
  BY <1>1, <1>3, <1>4 DEF Summarised, Fates
<1>5. CASE a \notin changed
  <2>1. \A c \in Channels : AfterPlanning[a, c] = AfterRouting[a, c]
    BY <1>5
  <2>2. note'[a] = note[a]
    BY <1>1, <1>3, <1>5 DEF Summarised
  <2>3. CASE a \in Unrouted
    <3>1. note[a] \in Open /\ \A c \in Channels : delivery[a, c].status = "none"
      BY <2>3 DEF Unrouted, Routed
    <3>2. \A c \in Routed(AfterPlanning, a) : AfterPlanning[a, c].status = note[a]
      <4> SUFFICES ASSUME NEW c \in Channels, AfterPlanning[a, c].status # "none"
                   PROVE  AfterPlanning[a, c].status = note[a]
        BY DEF Routed
      <4> DEFINE s == <<a, c>>
      <4>1. s \in Slots /\ s[1] = a /\ AfterPlanning[s] = AfterRouting[s]
        BY <1>2, <2>1
      <4>2. AfterRouting[s] = delivery[s] => AfterRouting[s].status = "none"
        BY <3>1
      <4> HIDE DEF s
      <4>3. AfterRouting[s] = [NoDelivery EXCEPT !.status = note[a]]
        BY <4>1, <4>2, RoutingAdds DEF s
      <4>4. AfterRouting[s].status = note[a]
        BY <4>3 DEF NoDelivery
      <4> QED
        BY <4>1, <4>4 DEF s
    <3> QED
      BY <2>2, <3>1, <3>2, OneFate
  <2>4. CASE a \notin Unrouted
    <3>1. \A c \in Channels : AfterPlanning[a, c] = delivery[a, c]
      BY <1>2, <2>1, <2>4 DEF AfterRouting
    <3> QED
      BY <2>2, <3>1, SameFates DEF NoteIsSummary
  <2> QED
    BY <2>3, <2>4
<1> QED
  BY <1>4, <1>5

\* The second transaction summarises every row it writes.
LEMMA RecordKeepsNotes ==
  ASSUME IInv, NoteIsSummary, Record PROVE NoteIsSummary'
<1> DEFINE S == {s[1] : s \in Answered} \cup UNION {due[c] : c \in Channels}
<1>1. delivery' = AfterRecord /\ note' = Summarised(AfterRecord, S)
  BY DEF Record
<1> SUFFICES ASSUME NEW a \in Alerts, Routed(AfterRecord, a) # {}
             PROVE  note'[a] = Summary(Fates(AfterRecord, a))
  BY <1>1 DEF NoteIsSummary
<1>2. CASE a \in S
  BY <1>1, <1>2 DEF Summarised, Fates
<1>3. CASE a \notin S
  <2>1. ASSUME NEW c \in Channels PROVE AfterRecord[a, c] = delivery[a, c]
    <3>1. <<a, c>> \in Slots /\ <<a, c>> \notin Answered /\ a \notin due[c]
      BY <1>3 DEF Slots
    <3>2. <<a, c>> \notin NotTried
      BY <3>1 DEF NotTried
    <3> QED
      BY <3>1, <3>2 DEF AfterRecord
  <2>2. note'[a] = note[a]
    BY <1>1, <1>3 DEF Summarised
  <2> QED
    BY <2>1, <2>2, SameFates DEF NoteIsSummary
<1> QED
  BY <1>2, <1>3

\* A test is logged as it went.
LEMMA TestKeepsNotes ==
  ASSUME IInv, NoteIsSummary, NEW a \in Alerts, NEW c \in Channels, NEW ok \in BOOLEAN,
         SendTest(a, c, ok)
  PROVE  NoteIsSummary'
<1> DEFINE x == IF ok THEN "sent" ELSE "failed"
<1>1. /\ note' = [note EXCEPT ![a] = x]
      /\ delivery' = [delivery EXCEPT ![<<a, c>>] =
                        [status |-> x, attempts |-> 1, wait |-> "due"]]
  BY DEF SendTest
<1>2. note[a] = "none"
  BY ConstantsAssumption DEF SendTest, IsNextId
<1>3. \A d \in Channels : <<a, d>> \in Slots /\ delivery[a, d].status = "none"
  BY <1>2 DEF IInv, Unsaid, Slots
<1>4. /\ delivery'[a, c].status = x
      /\ \A d \in Channels : d # c => delivery'[a, d] = delivery[a, d]
      /\ note'[a] = x
  BY <1>1, <1>3 DEF IInv, TypeOK
<1>5. Routed(delivery', a) # {} => note'[a] = Summary(Fates(delivery', a))
  <2>1. x \in Open \cup Settled
    BY DEF Settled
  <2>2. \A d \in Routed(delivery', a) : delivery'[a, d].status = x
    BY <1>3, <1>4 DEF Routed
  <2> QED
    BY <1>4, <2>1, <2>2, OneFate
<1>6. ASSUME NEW b \in Alerts, b # a
      PROVE  Routed(delivery', b) # {} => note'[b] = Summary(Fates(delivery', b))
  <2>1. note'[b] = note[b] /\ \A d \in Channels : delivery'[b, d] = delivery[b, d]
    BY <1>1, <1>6 DEF IInv, TypeOK, Slots
  <2> QED
    BY <2>1, AsideKeepsNotes
<1> QED
  BY <1>5, <1>6 DEF NoteIsSummary

\* Every step keeps the summaries.
LEMMA StepKeepsNotes == IInv /\ NoteIsSummary /\ [Next]_vars => NoteIsSummary'
<1> SUFFICES ASSUME IInv, NoteIsSummary, [Next]_vars PROVE NoteIsSummary'
  OBVIOUS
<1>1. CASE Plan
  BY <1>1, PlanKeepsNotes
<1>2. CASE SendSome \/ LoseAnswers
  <2>1. UNCHANGED <<note, delivery>>
    BY <1>2 DEF SendSome, Send, LoseAnswers
  <2> QED
    BY <2>1, AsideKeepsNotes DEF NoteIsSummary
<1>3. CASE Record
  BY <1>3, RecordKeepsNotes
<1>4. CASE \E a \in Alerts, c \in Channels, ok \in BOOLEAN : SendTest(a, c, ok)
  BY <1>4, TestKeepsNotes
<1>5. ASSUME NEW s \in Slots, BecomeDue(s) PROVE NoteIsSummary'
  <2>1. /\ note' = note
        /\ \A r \in Slots : delivery'[r].status = delivery[r].status
    BY <1>5 DEF BecomeDue, IInv, TypeOK, Delivery
  <2>2. \A a \in Alerts, c \in Channels : <<a, c>> \in Slots
    BY DEF Slots
  <2> QED
    BY <2>1, <2>2, AsideKeepsNotes DEF NoteIsSummary
<1>6. CASE AsideStep
  <2>1. delivery' = delivery
    BY <1>6, AsideIInv
  <2>2. ASSUME NEW a \in Alerts, NEW b \in Alerts, Enqueue(b), Routed(delivery, a) # {}
        PROVE  note'[a] = note[a]
    <3>1. note[b] = "none" /\ note' = [note EXCEPT ![b] = "pending"]
      BY <2>2, ConstantsAssumption DEF Enqueue, IsNextId
    <3>2. Routed(delivery, b) = {}
      BY <3>1 DEF IInv, Unsaid, Routed, Slots
    <3> QED
      BY <2>2, <3>1, <3>2 DEF IInv, TypeOK
  <2>3. \A a \in Alerts : Routed(delivery, a) # {} => note'[a] = note[a]
    BY <1>6, <2>2 DEF AsideStep, RetryAfterOver, SetUpChannel, RemoveChannel, SwitchAlerting,
                      QuietHoursBegin, QuietHoursEnd, vars
  <2> QED
    BY <2>1, <2>3, AsideKeepsNotes DEF NoteIsSummary
<1> QED
  BY <1>1, <1>2, <1>3, <1>4, <1>5, <1>6 DEF Next, AsideStep

\* What the page says of an alert is what its deliveries say, although only
\* the alerts a dispatch touched are summarised (alerts.py _summarise).
THEOREM FateIsAlwaysTold == Spec => []FateIsTold
<1>1. Init => NoteIsSummary
  <2> SUFFICES ASSUME Init, NEW a \in Alerts PROVE Routed(delivery, a) = {}
    BY DEF NoteIsSummary
  <2>1. \A s \in Slots : delivery[s].status = "none"
    BY DEF Init, NoDelivery
  <2> QED
    BY <2>1 DEF Routed, Slots
<1>2. IInv /\ NoteIsSummary => FateIsTold
  <2> SUFFICES ASSUME IInv, NoteIsSummary, NEW a \in Alerts, Routed(delivery, a) # {}
               PROVE  LET fates == {delivery[a, c].status : c \in Channels} \ {"none"}
                      IN /\ note[a] = "sent"    <=> "sent" \in fates
                         /\ note[a] = "pending" <=> "pending" \in fates /\ "sent" \notin fates
                         /\ note[a] = "held"    <=> /\ "held" \in fates
                                                    /\ fates \cap {"sent", "pending"} = {}
                         /\ note[a] = "dropped" <=> fates = {"dropped"}
    BY DEF FateIsTold
  <2> DEFINE F == Fates(delivery, a)
  <2>1. {delivery[a, c].status : c \in Channels} \ {"none"} = F
    BY DEF Fates, Routed
  <2>2. note[a] = Summary(F)
    BY DEF NoteIsSummary
  <2>3. \A c \in Channels : delivery[a, c].status \in {"none"} \cup Open \cup Settled
    BY DEF IInv, TypeOK, Delivery, Slots
  <2>4. F \subseteq Open \cup Settled /\ F # {}
    BY <2>3 DEF Fates, Routed
  <2> HIDE DEF F
  <2>5. /\ note[a] = "sent"    <=> "sent" \in F
        /\ note[a] = "pending" <=> "pending" \in F /\ "sent" \notin F
        /\ note[a] = "held"    <=> "held" \in F /\ F \cap {"sent", "pending"} = {}
        /\ note[a] = "dropped" <=> F = {"dropped"}
    BY <2>2, <2>4 DEF Summary, Open, Settled
  <2> QED
    BY <2>1, <2>5
<1>3. IInv /\ NoteIsSummary /\ [Next]_vars => NoteIsSummary'
  BY StepKeepsNotes
<1> QED
  BY Invariance, <1>1, <1>2, <1>3, PTL DEF Spec
=============================================================================
