---------------------------- MODULE InventoryProofs ----------------------------
(***************************************************************************)
(* Theorems about the devices SPARK knows, for any network, any number of  *)
(* sweeps and any number of addresses.                                     *)
(*                                                                         *)
(* A sweep writes its answers one after the other, each against the rows   *)
(* the ones before it left: what is true of one answer is carried over all *)
(* of them by induction over the addresses.  The first answer was matched  *)
(* before the transaction had the write lock, so what it matched is part   *)
(* of the invariant: one row, of that MAC or bare at that address.         *)
(***************************************************************************)
EXTENDS Inventory, WellFoundedInduction, FiniteSetTheorems, TLAPS

-----------------------------------------------------------------------------
(* One answer. *)

\* A table as a transaction has it: a row beyond the bound may have been added.
Filed(table) ==
  /\ Ids \subseteq DOMAIN table /\ table = [d \in DOMAIN table |-> table[d]]
  /\ \A d \in Ids : table[d] \in DeviceRow

\* Whose extra address each is.
Owned == [Addresses -> Ids \cup {0}]

\* What OneRowPerMac and NoTwins say, of any table.
Apart(table) == \A d, e \in There(table) : table[d].mac # None /\ table[d].mac = table[e].mac => d = e

Single(table) == \A d, e \in There(table) :
  table[d].mac = None /\ table[e].mac = None /\ table[d].ip = table[e].ip => d = e

\* The row an answer is taken to be of has its MAC, or is bare and at its
\* address; an answer without a MAC is of what is at its address.
Meets(row, a, m) ==
  IF m = None THEN row.ip = a ELSE row.mac = m \/ (row.mac = None /\ row.ip = a)

\* Among some ids there is a least one.
LEMMA LeastIs ==
  ASSUME NEW S, S \subseteq Nat, S # {} PROVE Least(S) \in S /\ \A n \in S : Least(S) <= n
<1> DEFINE R == OpToRel(<, Nat)
<1>1. PICK m \in S : \A n \in S : ~ (<<n, m>> \in R)
  <2>1. IsWellFoundedOn(R, Nat)
    BY NatLessThanWellFounded
  <2> HIDE DEF R
  <2> QED
    BY <2>1, WFMin
<1>2. R = {ss \in Nat \X Nat : ss[1] < ss[2]}
  BY Zenon DEF OpToRel
<1> HIDE DEF R
<1>3. \A n \in S : m <= n
  <2> SUFFICES ASSUME NEW n \in S PROVE m <= n
    OBVIOUS
  <2>1. m \in Nat /\ n \in Nat
    OBVIOUS
  <2>2. <<n, m>> \in Nat \X Nat => ~(n < m)
    BY <1>1, <1>2
  <2> QED
    BY <2>1, <2>2
<1> QED
  BY <1>3, Zenon DEF Least

\* A row that is written at once in two places.
LEMMA TwoFields ==
  ASSUME NEW row \in DeviceRow, NEW mac \in Macs, NEW ip \in Addresses,
         NEW new, new = [row EXCEPT !.mac = mac, !.ip = ip]
  PROVE  new = [there |-> row.there, mac |-> mac, ip |-> ip, ignored |-> row.ignored]
BY DEF DeviceRow

\* The row of a device that was not known.
NewRow(a, m) == [there |-> TRUE, mac |-> m, ip |-> a, ignored |-> FALSE]

\* A row that was seen again.
Renewed(row, a, m, was) ==
  [there   |-> row.there,
   mac     |-> IF was.mac = None /\ m # None THEN m ELSE row.mac,
   ip      |-> IF was.ip # a THEN a ELSE row.ip,
   ignored |-> row.ignored]

\* The three things that may become of an answer.
Passed(t, o, a, m, hit, r) == hit = {} /\ m = None /\ o[a] # 0 /\ r = [table |-> t, others |-> o]

Added(t, o, a, m, hit, r) ==
  /\ hit = {} /\ (m # None \/ o[a] = 0)
  /\ r = [table |-> Put(t, NewId(t), NewRow(a, m)), others |-> [o EXCEPT ![a] = 0]]

Updated(t, o, a, m, hit, was, r) ==
  /\ hit # {} /\ Least(hit) \in hit
  /\ r.table = Put(t, Least(hit), Renewed(t[Least(hit)], a, m, was))
  /\ r.others = IF o[a] # Least(hit) /\ was.ip # a THEN [o EXCEPT ![a] = 0] ELSE o

\* The three things that become of an answer: nothing, a new row, or what is
\* new about the row it is of.
LEMMA RecordedForms ==
  ASSUME NEW t, Filed(t), NEW o \in Owned, NEW a \in Addresses, NEW m \in Macs,
         NEW hit \in SUBSET Ids, NEW was \in DeviceRow,
         NEW r, r = Recorded(t, o, a, m, hit, was)
  PROVE  \/ Passed(t, o, a, m, hit, r)
         \/ Added(t, o, a, m, hit, r)
         \/ Updated(t, o, a, m, hit, was, r)
<1>1. CASE hit = {} /\ m = None /\ o[a] # 0
  BY <1>1 DEF Recorded, Passed
<1>2. CASE hit = {} /\ (m # None \/ o[a] = 0)
  BY <1>2 DEF Recorded, Added, NewRow
<1>3. CASE hit # {}
  <2> DEFINE d == Least(hit)
             M == IF was.mac = None /\ m # None THEN m ELSE t[d].mac
             I == IF was.ip # a THEN a ELSE t[d].ip
             row == Renewed(t[d], a, m, was)
  <2>1. d \in hit
    <3>1. hit \subseteq Nat
      BY ConstantsAssumption DEF Ids
    <3> QED
      BY <1>3, <3>1, LeastIs
  <2>2. /\ r.table = [t EXCEPT ![d].mac = IF was.mac = None /\ m # None THEN m ELSE @,
                               ![d].ip  = IF was.ip # a THEN a ELSE @]
        /\ r.others = IF o[a] # d /\ was.ip # a THEN [o EXCEPT ![a] = 0] ELSE o
    BY <1>3 DEF Recorded
  <2>3. d \in Ids /\ t[d] \in DeviceRow /\ d \in DOMAIN t /\ t = [e \in DOMAIN t |-> t[e]]
    BY <2>1 DEF Filed
  <2>4. r.table = [t EXCEPT ![d] = [t[d] EXCEPT !.mac = M, !.ip = I]]
    <3>1. r.table = [t EXCEPT ![d].mac = M, ![d].ip = I]
      BY <2>2, <2>3
    <3> HIDE DEF d, M, I
    <3> QED
      BY <2>3, <3>1
  <2>5. [t[d] EXCEPT !.mac = M, !.ip = I] = row
    <3>1. row = [there |-> t[d].there, mac |-> M, ip |-> I, ignored |-> t[d].ignored]
      BY DEF Renewed
    <3>2. t[d] \in DeviceRow /\ M \in Macs /\ I \in Addresses
      BY <2>3 DEF DeviceRow
    <3> HIDE DEF d, M, I, row
    <3> QED
      BY <3>1, <3>2, TwoFields
  <2> HIDE DEF M, I, row, d
  <2>6. r.table = Put(t, d, row)
    BY <2>3, <2>4, <2>5 DEF Put
  <2> QED
    BY <1>3, <2>1, <2>2, <2>6 DEF d, row, Updated
<1> QED
  BY <1>1, <1>2, <1>3

\* The rows that are written have their form.
LEMMA RowsKept ==
  ASSUME NEW a \in Addresses, NEW m \in Macs
  PROVE  /\ NewRow(a, m) \in DeviceRow
         /\ \A row \in DeviceRow, was \in DeviceRow : Renewed(row, a, m, was) \in DeviceRow
<1>1. NewRow(a, m) \in DeviceRow
  BY DEF NewRow, DeviceRow
<1>2. ASSUME NEW row \in DeviceRow, NEW was \in DeviceRow PROVE Renewed(row, a, m, was) \in DeviceRow
  <2> DEFINE M == IF was.mac = None /\ m # None THEN m ELSE row.mac
             I == IF was.ip # a THEN a ELSE row.ip
  <2>1. M \in Macs /\ I \in Addresses
    BY DEF DeviceRow
  <2>2. Renewed(row, a, m, was) = [there |-> row.there, mac |-> M, ip |-> I, ignored |-> row.ignored]
    BY DEF Renewed
  <2> HIDE DEF M, I
  <2> QED
    BY <2>1, <2>2 DEF DeviceRow
<1> QED
  BY <1>1, <1>2

\* A table that has got a row.
LEMMA PutFiled ==
  ASSUME NEW t, Filed(t), NEW d, NEW row, d \in Ids => row \in DeviceRow
  PROVE  /\ Filed(Put(t, d, row))
         /\ \A e \in Ids : Put(t, d, row)[e] = IF e = d THEN row ELSE t[e]
         /\ \A e \in There(Put(t, d, row)) : e # d => e \in There(t)
BY DEF Filed, Put, There

\* The form of the rows is kept.
LEMMA RecordedKeepsType ==
  ASSUME NEW t, Filed(t), NEW o \in Owned, NEW a \in Addresses, NEW m \in Macs,
         NEW hit \in SUBSET Ids, NEW was \in DeviceRow,
         NEW r, r = Recorded(t, o, a, m, hit, was)
  PROVE  Filed(r.table) /\ r.others \in Owned
<1>1. CASE Passed(t, o, a, m, hit, r)
  BY <1>1 DEF Passed
<1>2. CASE Added(t, o, a, m, hit, r)
  <2>1. r = [table |-> Put(t, NewId(t), NewRow(a, m)), others |-> [o EXCEPT ![a] = 0]]
    BY <1>2 DEF Added
  <2>2. Filed(r.table)
    BY <2>1, RowsKept, PutFiled
  <2> QED
    BY <2>1, <2>2 DEF Owned
<1>3. CASE Updated(t, o, a, m, hit, was, r)
  <2>1. /\ Least(hit) \in hit
        /\ r.table = Put(t, Least(hit), Renewed(t[Least(hit)], a, m, was))
        /\ r.others = IF o[a] # Least(hit) /\ was.ip # a THEN [o EXCEPT ![a] = 0] ELSE o
    BY <1>3 DEF Updated
  <2>2. Least(hit) \in Ids /\ t[Least(hit)] \in DeviceRow
    BY <2>1 DEF Filed
  <2>3. Filed(r.table)
    BY <2>1, <2>2, RowsKept, PutFiled
  <2> QED
    BY <2>1, <2>3 DEF Owned
<1> QED
  BY <1>1, <1>2, <1>3, RecordedForms

\* None but the row that is written has the MAC it gets.
Unclaimed(t, m, hit, was) ==
  m # None /\ (hit = {} \/ was.mac = None) =>
    \A e \in There(t) : t[e].mac = m => hit # {} /\ e = Least(hit)

\* No second row gets a MAC, if none but the row that is written has it.
LEMMA RecordedApart ==
  ASSUME NEW t, Filed(t), NEW o \in Owned, NEW a \in Addresses, NEW m \in Macs,
         NEW hit \in SUBSET Ids, NEW was \in DeviceRow,
         NEW r, r = Recorded(t, o, a, m, hit, was), Apart(t), Unclaimed(t, m, hit, was)
  PROVE  Apart(r.table)
<1> USE DEF Unclaimed
<1>1. ASSUME NEW n, NEW row, n \in Ids => row \in DeviceRow, r.table = Put(t, n, row),
             \/ n \in There(t) /\ t[n].mac = row.mac
             \/ row.mac # None => \A e \in There(t) : t[e].mac = row.mac => e = n
      PROVE  Apart(r.table)
  <2> DEFINE u == Put(t, n, row)
  <2>1. /\ \A e \in Ids : u[e] = IF e = n THEN row ELSE t[e]
        /\ \A e \in There(u) : e # n => e \in There(t)
    BY <1>1, PutFiled
  <2>2. There(u) \subseteq Ids
    BY DEF There
  <2>3. r.table = u
    BY <1>1
  <2> HIDE DEF u
  <2> SUFFICES ASSUME NEW d \in There(u), NEW e \in There(u), u[d].mac # None, u[d].mac = u[e].mac
               PROVE  d = e
    BY <2>3 DEF Apart
  <2>4. CASE d # n /\ e # n
    BY <2>1, <2>2, <2>4 DEF Apart
  <2>5. CASE d = n /\ e # n
    BY <1>1, <2>1, <2>2, <2>5 DEF Apart
  <2>6. CASE d # n /\ e = n
    BY <1>1, <2>1, <2>2, <2>6 DEF Apart
  <2> QED
    BY <2>4, <2>5, <2>6
<1>2. CASE Passed(t, o, a, m, hit, r)
  BY <1>2 DEF Passed
<1>3. CASE Added(t, o, a, m, hit, r)
  <2>1. hit = {} /\ r.table = Put(t, NewId(t), NewRow(a, m))
    BY <1>3 DEF Added
  <2>2. NewRow(a, m) \in DeviceRow /\ NewRow(a, m).mac = m
    BY RowsKept DEF NewRow
  <2> QED
    BY <1>1, <2>1, <2>2
<1>4. CASE Updated(t, o, a, m, hit, was, r)
  <2> DEFINE n == Least(hit)
             row == Renewed(t[n], a, m, was)
  <2>1. hit # {} /\ n \in hit /\ r.table = Put(t, n, row)
    BY <1>4 DEF Updated
  <2>2. t[n] \in DeviceRow /\ row \in DeviceRow
    BY <2>1, RowsKept DEF Filed
  <2>3. row.mac = IF was.mac = None /\ m # None THEN m ELSE t[n].mac
    BY DEF Renewed
  <2>4. row.there = t[n].there
    BY DEF Renewed
  <2> HIDE DEF n, row
  <2>5. CASE n \in There(t)
    BY <1>1, <2>1, <2>2, <2>3, <2>5 DEF n
  <2>6. CASE n \notin There(t)
    <3> DEFINE u == Put(t, n, row)
    <3>1. /\ \A e \in Ids : u[e] = IF e = n THEN row ELSE t[e]
          /\ \A e \in There(u) : e # n => e \in There(t)
      BY <2>1, <2>2, PutFiled
    <3>2. n \notin There(u)
      BY <2>1, <2>4, <2>6, <3>1 DEF There
    <3>3. There(u) \subseteq Ids
      BY DEF There
    <3> HIDE DEF u
    <3>4. Apart(u)
      BY <3>1, <3>2, <3>3 DEF Apart
    <3> QED
      BY <2>1, <3>4 DEF u
  <2> QED
    BY <2>5, <2>6
<1> QED
  BY <1>2, <1>3, <1>4, RecordedForms

\* What was read of the row still holds, or of there being none.
StillSo(t, a, m, hit, was) ==
  /\ hit = {} /\ m = None => \A e \in There(t) : t[e].ip # a
  /\ hit # {} => t[Least(hit)] = was /\ Meets(was, a, m)

\* No second row without a MAC comes to an address, if what was read of the
\* row still holds.
LEMMA RecordedSingle ==
  ASSUME NEW t, Filed(t), NEW o \in Owned, NEW a \in Addresses, NEW m \in Macs,
         NEW hit \in SUBSET Ids, NEW was \in DeviceRow,
         NEW r, r = Recorded(t, o, a, m, hit, was), Single(t), StillSo(t, a, m, hit, was)
  PROVE  Single(r.table)
<1> USE DEF StillSo
<1>1. ASSUME NEW n, NEW row, n \in Ids => row \in DeviceRow, r.table = Put(t, n, row),
             \/ n \in Ids /\ row.there = t[n].there /\ row.ip = t[n].ip /\ row.mac = t[n].mac
             \/ row.mac # None
             \/ \A e \in There(t) : t[e].ip # row.ip
      PROVE  Single(r.table)
  <2> DEFINE u == Put(t, n, row)
  <2>1. /\ \A e \in Ids : u[e] = IF e = n THEN row ELSE t[e]
        /\ \A e \in There(u) : e # n => e \in There(t)
    BY <1>1, PutFiled
  <2>2. There(u) \subseteq Ids /\ \A e \in There(u) : u[e].there
    BY DEF There
  <2>3. r.table = u
    BY <1>1
  <2> HIDE DEF u
  <2> SUFFICES ASSUME NEW d \in There(u), NEW e \in There(u),
                      u[d].mac = None, u[e].mac = None, u[d].ip = u[e].ip
               PROVE  d = e
    BY <2>3 DEF Single
  <2>4. CASE d # n /\ e # n
    BY <2>1, <2>2, <2>4 DEF Single
  <2>5. ASSUME NEW f \in There(u), NEW g \in There(u), f = n, g # n,
               u[f].mac = None, u[g].mac = None, u[f].ip = u[g].ip
        PROVE  FALSE
    <3>1. u[f] = row /\ u[g] = t[g] /\ g \in There(t)
      BY <2>1, <2>2, <2>5
    <3>2. row.there
      BY <2>2, <2>5, <3>1
    <3>3. row.mac = None /\ t[g].ip = row.ip /\ t[g].mac = None
      BY <2>5, <3>1
    <3>4. n \in There(t) /\ t[n].ip = row.ip /\ t[n].mac = None
      BY <1>1, <3>1, <3>2, <3>3 DEF There
    <3> QED
      BY <2>5, <3>1, <3>3, <3>4 DEF Single
  <2> QED
    BY <2>4, <2>5
<1>2. CASE Passed(t, o, a, m, hit, r)
  BY <1>2 DEF Passed
<1>3. CASE Added(t, o, a, m, hit, r)
  <2>1. hit = {} /\ r.table = Put(t, NewId(t), NewRow(a, m))
    BY <1>3 DEF Added
  <2>2. NewRow(a, m) \in DeviceRow /\ NewRow(a, m).mac = m /\ NewRow(a, m).ip = a
    BY RowsKept DEF NewRow
  <2> QED
    BY <1>1, <2>1, <2>2
<1>4. CASE Updated(t, o, a, m, hit, was, r)
  <2> DEFINE n == Least(hit)
             row == Renewed(t[n], a, m, was)
  <2>1. hit # {} /\ n \in hit /\ r.table = Put(t, n, row)
    BY <1>4 DEF Updated
  <2>2. t[n] \in DeviceRow /\ row \in DeviceRow /\ n \in Ids
    BY <2>1, RowsKept DEF Filed
  <2>3. /\ row.mac = IF was.mac = None /\ m # None THEN m ELSE was.mac
        /\ row.ip = IF was.ip # a THEN a ELSE was.ip
        /\ row.there = t[n].there
    BY <2>1 DEF Renewed
  <2>4. t[n] = was /\ Meets(was, a, m)
    BY <2>1
  <2> HIDE DEF n, row
  <2> QED
    BY <1>1, <2>1, <2>2, <2>3, <2>4 DEF Meets
<1> QED
  BY <1>2, <1>3, <1>4, RecordedForms

\* No device is at the address.
NoneAt(t, b) == \A d \in There(t) : t[d].ip # b

\* No device is at an extra address, and the answer is not of one.
Vacant(t, o, a, m, hit, was, b) ==
  /\ o[b] # 0 /\ NoneAt(t, b)
  /\ a = b => m = None /\ (hit # {} => was.ip = b)

\* An extra address at which no device is stays one, through an answer from
\* elsewhere and through one without a MAC.
LEMMA RecordedElsewhere ==
  ASSUME NEW t, Filed(t), NEW o \in Owned, NEW a \in Addresses, NEW m \in Macs,
         NEW hit \in SUBSET Ids, NEW was \in DeviceRow,
         NEW r, r = Recorded(t, o, a, m, hit, was),
         NEW b \in Addresses, Vacant(t, o, a, m, hit, was, b)
  PROVE  r.others[b] = o[b] /\ NoneAt(r.table, b)
<1> USE DEF Vacant, NoneAt
<1>1. CASE Passed(t, o, a, m, hit, r)
  BY <1>1 DEF Passed
<1>2. CASE Added(t, o, a, m, hit, r)
  <2>1. /\ hit = {} /\ (m # None \/ o[a] = 0) /\ r.table = Put(t, NewId(t), NewRow(a, m))
        /\ r.others = [o EXCEPT ![a] = 0]
    <3> DEFINE T == Put(t, NewId(t), NewRow(a, m))
               O == [o EXCEPT ![a] = 0]
    <3>1. hit = {} /\ (m # None \/ o[a] = 0) /\ r = [table |-> T, others |-> O]
      BY <1>2, Zenon DEF Added
    <3> HIDE DEF T, O
    <3>2. r.table = T /\ r.others = O
      BY <3>1
    <3> QED
      BY <3>1, <3>2 DEF T, O
  <2>2. a # b
    BY <2>1
  <2>3. NewRow(a, m) \in DeviceRow /\ NewRow(a, m).ip = a
    BY RowsKept DEF NewRow
  <2> DEFINE u == Put(t, NewId(t), NewRow(a, m))
  <2>4. /\ \A e \in Ids : u[e] = IF e = NewId(t) THEN NewRow(a, m) ELSE t[e]
        /\ \A e \in There(u) : e # NewId(t) => e \in There(t)
    BY <2>3, PutFiled
  <2>5. There(u) \subseteq Ids
    BY DEF There
  <2> HIDE DEF u
  <2>6. \A d \in There(u) : u[d].ip # b
    BY <2>2, <2>3, <2>4, <2>5
  <2> QED
    BY <2>1, <2>2, <2>6 DEF u, Owned
<1>3. CASE Updated(t, o, a, m, hit, was, r)
  <2> DEFINE n == Least(hit)
             row == Renewed(t[n], a, m, was)
             u == Put(t, n, row)
  <2>1. /\ hit # {} /\ n \in hit /\ r.table = u
        /\ r.others = IF o[a] # n /\ was.ip # a THEN [o EXCEPT ![a] = 0] ELSE o
    BY <1>3 DEF Updated
  <2>2. t[n] \in DeviceRow /\ row \in DeviceRow /\ n \in Ids
    BY <2>1, RowsKept DEF Filed
  <2>3. row.ip = (IF was.ip # a THEN a ELSE t[n].ip) /\ row.there = t[n].there
    BY DEF Renewed
  <2> HIDE DEF row
  <2>4. /\ \A e \in Ids : u[e] = IF e = n THEN row ELSE t[e]
        /\ \A e \in There(u) : e # n => e \in There(t)
    BY <2>2, PutFiled
  <2>5. There(u) \subseteq Ids /\ \A e \in There(u) : u[e].there
    BY DEF There
  <2> HIDE DEF u, n
  <2>6. ASSUME NEW d \in There(u) PROVE u[d].ip # b
    <3>1. CASE d # n
      BY <2>4, <2>5, <3>1
    <3>2. CASE d = n
      <4>1. n \in There(t)
        BY <2>2, <2>3, <2>4, <2>5, <3>2 DEF There
      <4> QED
        BY <2>1, <2>2, <2>3, <2>4, <3>2, <4>1
    <3> QED
      BY <3>1, <3>2
  <2>7. r.others[b] = o[b]
    BY <2>1 DEF Owned
  <2> QED
    BY <2>1, <2>6, <2>7
<1> QED
  BY <1>1, <1>2, <1>3, RecordedForms

\* What the rows are that an answer may be.
LEMMA MatchedIs ==
  ASSUME NEW t, NEW a \in Addresses, NEW m \in Macs
  PROVE  /\ Matched(t, a, m) \subseteq There(t)
         /\ \A d \in Matched(t, a, m) : Meets(t[d], a, m)
         /\ \A d \in Matched(t, a, m), e \in There(t) :
              m # None /\ t[d].mac = None => t[e].mac # m
         /\ Matched(t, a, m) = {} => \A e \in There(t) : IF m = None THEN t[e].ip # a ELSE t[e].mac # m
<1>1. CASE m = None
  BY <1>1 DEF Matched, Meets
<1>2. CASE m # None
  <2> DEFINE byMac == {d \in There(t) : t[d].mac = m}
  <2>1. Matched(t, a, m) = IF byMac # {} THEN byMac
                           ELSE {d \in There(t) : t[d].ip = a /\ t[d].mac = None}
    BY <1>2 DEF Matched
  <2> QED
    BY <1>2, <2>1 DEF Meets
<1> QED
  BY <1>1, <1>2

-----------------------------------------------------------------------------
(* One answer after the other. *)

\* How many addresses there are.
N == Cardinality(Addresses)

\* What a sweep found before it got the write lock is of the address it found
\* it at, and is one row.
HitsKnown == \A s \in Sweeps :
  LET w == sweep[s] IN
  /\ \A d, e \in w.hit : d = e
  /\ w.phase = "recording" /\ w.seen # Rested.seen /\ w.hit # {}
       => Meets(w.was, FirstSeen(s), w.seen[FirstSeen(s)])

\* It still holds.
Current(s) ==
  sweep[s].seen # Rested.seen =>
    IF sweep[s].hit = {} THEN Matched(device, FirstSeen(s), sweep[s].seen[FirstSeen(s)]) = {}
    ELSE device[Least(sweep[s].hit)] = sweep[s].was

\* An extra address at which no device is, and nothing with a MAC was seen.
Aside(s, b) == /\ extra[b] # 0 /\ sweep[s].seen[b] \in {None, Silent}
               /\ NoneAt(device, b)

\* The rows after the first n addresses.
Sound(s, x, n) ==
  /\ Filed(x.table) /\ x.others \in Owned
  /\ Apart(x.table)
  /\ Current(s) /\ ~log.overtaken => Single(x.table)
  /\ (\A k \in 1 .. n : sweep[s].seen[k] = Silent) => x.table = device /\ x.others = extra
  /\ \A b \in Addresses : Aside(s, b) =>
       x.others[b] = extra[b] /\ NoneAt(x.table, b)

\* The addresses are the first numbers.
LEMMA AddressesCounted == N \in Nat /\ Addresses = 1 .. N
BY ConstantsAssumption, FS_CardinalityType DEF N

\* The first address at which anything was seen is one, and the first.
LEMMA FirstIsFirst ==
  ASSUME NEW s \in Sweeps, NEW n \in Addresses, sweep[s].seen[n] # Silent
  PROVE  /\ FirstSeen(s) \in Addresses /\ sweep[s].seen[FirstSeen(s)] # Silent
         /\ \A k \in 1 .. FirstSeen(s) - 1 : sweep[s].seen[k] = Silent
<1> DEFINE S == {a \in Addresses : sweep[s].seen[a] # Silent}
<1>1. S \subseteq Nat /\ S # {}
  BY AddressesCounted
<1>2. FirstSeen(s) = Least(S)
  BY DEF FirstSeen
<1>3. Least(S) \in S /\ \A k \in S : Least(S) <= k
  <2> HIDE DEF S
  <2> QED
    BY <1>1, LeastIs
<1>4. FirstSeen(s) \in Addresses /\ sweep[s].seen[FirstSeen(s)] # Silent
  BY <1>2, <1>3
<1>5. ASSUME NEW k \in 1 .. FirstSeen(s) - 1 PROVE sweep[s].seen[k] = Silent
  <2>1. FirstSeen(s) \in 1 .. N /\ N \in Nat
    BY <1>4, AddressesCounted
  <2>2. k \in Addresses /\ ~(FirstSeen(s) <= k)
    BY <2>1, AddressesCounted
  <2> QED
    BY <1>2, <1>3, <2>2
<1> QED
  BY <1>4, <1>5

\* One answer more.
LEMMA AnsweredSound ==
  ASSUME TypeOK, HitsKnown, NEW s \in Sweeps, sweep[s].phase = "recording", ~Refused(s),
         NEW n \in Addresses, NEW x, Sound(s, x, n - 1)
  PROVE  Sound(s, Answered(s, x, n), n)
<1> DEFINE w == sweep[s]
           m == w.seen[n]
           hit == IF n = FirstSeen(s) THEN w.hit ELSE Matched(x.table, n, m)
           was == IF n = FirstSeen(s) THEN w.was
                  ELSE IF hit = {} THEN NoDevice ELSE x.table[Least(hit)]
           r == Recorded(x.table, x.others, n, m, hit, was)
<1>1. n \in 1 .. N /\ n \in Nat /\ N \in Nat
  BY AddressesCounted
<1>2. w \in Sweep /\ m \in Macs \cup {Silent}
  BY DEF TypeOK, Sweep, Seen
<1>3. CASE m = Silent
  <2>1. Answered(s, x, n) = x
    BY <1>3 DEF Answered
  <2>2. (\A k \in 1 .. n : w.seen[k] = Silent) => (\A k \in 1 .. n - 1 : w.seen[k] = Silent)
    BY <1>1
  <2> QED
    BY <2>1, <2>2 DEF Sound
<1>4. CASE m # Silent
  <2>1. Answered(s, x, n) = r
    BY <1>4, Zenon DEF Answered
  <2>2. m \in Macs /\ w.seen # Rested.seen
    BY <1>2, <1>4 DEF Rested
  <2>3. Filed(x.table) /\ x.others \in Owned /\ Apart(x.table) /\ (Current(s) /\ ~log.overtaken => Single(x.table))
    BY DEF Sound
  <2>4. n = FirstSeen(s) => x.table = device /\ x.others = extra
    <3>1. n = FirstSeen(s) => \A k \in 1 .. n - 1 : w.seen[k] = Silent
      BY <1>4, FirstIsFirst
    <3> QED
      BY <3>1 DEF Sound
  <2>5. hit \in SUBSET Ids /\ was \in DeviceRow
    <3>1. n = FirstSeen(s) => hit \in SUBSET Ids /\ was \in DeviceRow
      BY <1>2 DEF Sweep
    <3>2. n # FirstSeen(s) => hit \in SUBSET Ids
      BY <2>2, MatchedIs DEF There
    <3>3. n # FirstSeen(s) /\ hit # {} => was \in DeviceRow
      <4>1. n # FirstSeen(s) => hit \subseteq Nat /\ hit \subseteq Ids
        BY <3>2, ConstantsAssumption DEF Ids
      <4> QED
        BY <2>3, <3>2, <4>1, LeastIs DEF Filed
    <3>4. NoDevice \in DeviceRow
      BY ConstantsAssumption DEF NoDevice, DeviceRow, Macs
    <3> QED
      BY <3>1, <3>2, <3>3, <3>4
  <2>6. hit # {} => Least(hit) \in hit
    <3>1. hit \subseteq Nat
      BY <2>5, ConstantsAssumption DEF Ids
    <3> HIDE DEF hit
    <3> QED
      BY <3>1, LeastIs
  <2>7. Filed(r.table) /\ r.others \in Owned
    <3> HIDE DEF hit, was, m
    <3> QED
      BY <2>2, <2>3, <2>5, RecordedKeepsType
  <2>8. Apart(r.table)
    <3>1. CASE n = FirstSeen(s)
      <4>1. m # None /\ (w.hit = {} \/ w.was.mac = None) => \A e \in There(device) \ w.hit : device[e].mac # m
        BY <2>2, <3>1 DEF Refused
      <4>2. \A d, e \in w.hit : d = e
        BY DEF HitsKnown
      <4>3. m # None /\ (hit = {} \/ was.mac = None) =>
              \A e \in There(x.table) : x.table[e].mac = m => hit # {} /\ e = Least(hit)
        BY <2>4, <2>6, <3>1, <4>1, <4>2
      <4> HIDE DEF hit, was, m
      <4>4. Unclaimed(x.table, m, hit, was)
        BY <4>3 DEF Unclaimed
      <4> QED
        BY <2>2, <2>3, <2>5, <4>4, RecordedApart
    <3>2. CASE n # FirstSeen(s)
      <4>1. m # None /\ (hit = {} \/ was.mac = None) => \A e \in There(x.table) : x.table[e].mac # m
        BY <2>2, <2>6, <3>2, MatchedIs
      <4> HIDE DEF hit, was, m
      <4>4. Unclaimed(x.table, m, hit, was)
        BY <4>1 DEF Unclaimed
      <4> QED
        BY <2>2, <2>3, <2>5, <4>4, RecordedApart
    <3> QED
      BY <3>1, <3>2
  <2>9. ASSUME Current(s), ~log.overtaken PROVE Single(r.table)
    <3>1. hit = {} /\ m = None => \A e \in There(x.table) : x.table[e].ip # n
      <4>1. CASE n = FirstSeen(s)
        BY <2>2, <2>4, <2>9, <4>1, MatchedIs DEF Current
      <4>2. CASE n # FirstSeen(s)
        BY <2>2, <4>2, MatchedIs
      <4> QED
        BY <4>1, <4>2
    <3>2. hit # {} => x.table[Least(hit)] = was /\ Meets(was, n, m)
      <4>1. CASE n = FirstSeen(s)
        BY <2>2, <2>4, <2>9, <4>1 DEF Current, HitsKnown
      <4>2. CASE n # FirstSeen(s)
        BY <2>2, <2>6, <4>2, MatchedIs
      <4> QED
        BY <4>1, <4>2
    <3> HIDE DEF hit, was, m
    <3>3. StillSo(x.table, n, m, hit, was)
      BY <3>1, <3>2 DEF StillSo
    <3> QED
      BY <2>2, <2>3, <2>5, <2>9, <3>3, RecordedSingle
  <2>10. ASSUME NEW b \in Addresses, Aside(s, b)
         PROVE  r.others[b] = extra[b] /\ NoneAt(r.table, b)
    <3>1. x.others[b] = extra[b] /\ x.others[b] # 0 /\ NoneAt(x.table, b)
      BY <2>10 DEF Sound, Aside
    <3>2. n = b => m = None /\ (hit # {} => was.ip = b)
      <4>1. n = b => m = None
        BY <1>4, <2>10 DEF Aside
      <4>2. CASE n = FirstSeen(s)
        BY <2>2, <4>1, <4>2 DEF HitsKnown, Meets
      <4>3. CASE n # FirstSeen(s)
        BY <2>2, <2>6, <4>1, <4>3, MatchedIs DEF Meets
      <4> QED
        BY <4>1, <4>2, <4>3
    <3> HIDE DEF hit, was, m
    <3>3. Vacant(x.table, x.others, n, m, hit, was, b)
      BY <3>1, <3>2 DEF Vacant, NoneAt
    <3>4. r.others[b] = x.others[b] /\ NoneAt(r.table, b)
      BY <2>2, <2>3, <2>5, <3>3, RecordedElsewhere
    <3> QED
      BY <3>1, <3>4
  <2>11. ~ \A k \in 1 .. n : w.seen[k] = Silent
    BY <1>1, <1>4
  <2> HIDE DEF r
  <2> QED
    BY <2>1, <2>7, <2>8, <2>9, <2>10, <2>11 DEF Sound
<1> QED
  BY <1>3, <1>4

\* One answer after the other, up to the nth address.
Between(s, f, n) ==
  f = [k \in 0 .. n |-> IF k = 0 THEN [table |-> device, others |-> extra] ELSE Answered(s, f[k - 1], k)]

\* Of the numbers something is not so of, there is a least one.
LEMMA LeastOf ==
  ASSUME NEW B, B \subseteq Nat, B # {}
  PROVE  \E n \in B : \A k \in Nat : k < n => k \notin B
<1> DEFINE n == Least(B)
<1>1. n \in B /\ \A k \in B : n <= k
  BY LeastIs
<1> HIDE DEF n
<1>2. \A k \in Nat : k < n => k \notin B
  <2>1. n \in Nat
    BY <1>1
  <2> QED
    BY <1>1, <2>1
<1> QED
  BY <1>1, <1>2

\* They are there, for as many addresses as there are.
LEMMA BetweenExists == ASSUME NEW s PROVE \A n \in Nat : \E f : Between(s, f, n)
<1> DEFINE B == {n \in Nat : ~ \E f : Between(s, f, n)}
<1> SUFFICES ASSUME B # {} PROVE FALSE
  OBVIOUS
<1>1. PICK n \in B : \A k \in Nat : k < n => k \notin B
  BY LeastOf
<1>2. n \in Nat
  OBVIOUS
<1>3. CASE n = 0
  <2> DEFINE f == [k \in 0 .. 0 |-> [table |-> device, others |-> extra]]
  <2>1. Between(s, f, 0)
    BY DEF Between
  <2> QED
    BY <1>3, <2>1
<1>4. CASE n # 0
  <2>1. n - 1 \in Nat /\ n - 1 < n
    BY <1>2, <1>4
  <2>2. PICK g : Between(s, g, n - 1)
    BY <1>1, <2>1
  <2> DEFINE f == [k \in 0 .. n |-> IF k = n THEN Answered(s, g[n - 1], n) ELSE g[k]]
             base == [table |-> device, others |-> extra]
  <2>3. g = [k \in 0 .. n - 1 |-> IF k = 0 THEN base ELSE Answered(s, g[k - 1], k)]
    BY <2>2 DEF Between
  <2> HIDE DEF base
  <2>4. \A k \in 0 .. n : f[k] = IF k = 0 THEN base ELSE Answered(s, f[k - 1], k)
    <3> SUFFICES ASSUME NEW k \in 0 .. n PROVE f[k] = IF k = 0 THEN base ELSE Answered(s, f[k - 1], k)
      OBVIOUS
    <3>1. CASE k = n
      <4>1. f[k] = Answered(s, g[n - 1], n) /\ n - 1 \in 0 .. n /\ n - 1 # n
        BY <1>2, <1>4, <3>1
      <4>2. f[n - 1] = g[n - 1]
        BY <4>1
      <4> QED
        BY <1>4, <3>1, <4>1, <4>2
    <3>2. CASE k # n
      <4>1. k \in 0 .. n - 1 /\ f[k] = g[k]
        BY <1>2, <3>2
      <4>2. k # 0 => k - 1 \in 0 .. n /\ k - 1 # n
        BY <1>2, <3>2
      <4>3. k # 0 => f[k - 1] = g[k - 1]
        BY <4>2
      <4> QED
        BY <2>3, <4>1, <4>3
    <3> QED
      BY <3>1, <3>2
  <2>5. Between(s, f, n)
    <3> DEFINE h == [k \in 0 .. n |-> IF k = 0 THEN base ELSE Answered(s, f[k - 1], k)]
    <3>1. \A k \in 0 .. n : h[k] = f[k]
      BY <2>4
    <3>2. DOMAIN h = 0 .. n /\ DOMAIN f = 0 .. n /\ h = [k \in 0 .. n |-> h[k]] /\ f = [k \in 0 .. n |-> f[k]]
      OBVIOUS
    <3> HIDE DEF f
    <3>3. h = f
      <4> HIDE DEF h
      <4> QED
        BY <3>1, <3>2
    <3> QED
      BY <3>3, Zenon DEF Between, base
  <2> QED
    BY <2>5
<1> QED
  BY <1>3, <1>4

\* What a sweep writes: all answers, one after the other.
LEMMA AllIsLast == ASSUME NEW s PROVE \E f : Between(s, f, N) /\ AllRecorded(s) = f[N]
<1> DEFINE after[n \in 0 .. N] ==
        IF n = 0 THEN [table |-> device, others |-> extra] ELSE Answered(s, after[n - 1], n)
<1>1. after = CHOOSE g : g = [n \in 0 .. N |->
                IF n = 0 THEN [table |-> device, others |-> extra] ELSE Answered(s, g[n - 1], n)]
  OBVIOUS
<1>2. \E f : Between(s, f, N)
  BY AddressesCounted, BetweenExists
<1>3. Between(s, after, N)
  BY <1>1, <1>2, Zenon DEF Between
<1>4. AllRecorded(s) = after[N]
  BY Zenon DEF AllRecorded, N
<1> HIDE DEF after
<1> QED
  BY <1>3, <1>4

\* So what a sweep writes is sound.
LEMMA AllSound ==
  ASSUME TypeOK, HitsKnown, OneRowPerMac, NoTwins, NEW s \in Sweeps,
         sweep[s].phase = "recording", ~Refused(s)
  PROVE  Sound(s, AllRecorded(s), N)
<1>1. PICK f : Between(s, f, N) /\ AllRecorded(s) = f[N]
  BY AllIsLast
<1>2. N \in Nat /\ Addresses = 1 .. N
  BY AddressesCounted
<1> DEFINE base == [table |-> device, others |-> extra]
<1>3. \A k \in 0 .. N : f[k] = IF k = 0 THEN base ELSE Answered(s, f[k - 1], k)
  <2>1. f = [k \in 0 .. N |-> IF k = 0 THEN base ELSE Answered(s, f[k - 1], k)]
    BY <1>1, Zenon DEF Between
  <2> HIDE DEF base
  <2> QED
    BY <2>1
<1>4. Sound(s, base, 0)
  <2>1. base.table = device /\ base.others = extra
    OBVIOUS
  <2> HIDE DEF base
  <2>2. device \in [Ids -> DeviceRow] /\ extra \in Owned
    BY DEF TypeOK, Owned
  <2>3. Filed(device)
    BY <2>2 DEF Filed
  <2>4. Apart(device) /\ (~log.overtaken => Single(device))
    BY DEF OneRowPerMac, NoTwins, Apart, Single
  <2> QED
    BY <2>1, <2>2, <2>3, <2>4 DEF Sound, Aside
<1> HIDE DEF base
<1> DEFINE B == {k \in Nat : k <= N /\ ~Sound(s, f[k], k)}
<1>5. B = {}
  <2> SUFFICES ASSUME B # {} PROVE FALSE
    OBVIOUS
  <2>1. PICK n \in B : \A k \in Nat : k < n => k \notin B
    BY LeastOf
  <2>2. n \in 0 .. N /\ ~Sound(s, f[n], n)
    BY <1>2
  <2>3. n # 0
    BY <1>2, <1>3, <1>4, <2>2
  <2>4. n - 1 \in Nat /\ n - 1 < n /\ n - 1 <= N
    BY <1>2, <2>2, <2>3
  <2>5. Sound(s, f[n - 1], n - 1)
    BY <2>1, <2>4
  <2>6. Sound(s, Answered(s, f[n - 1], n), n)
    BY <1>2, <2>2, <2>3, <2>5, AnsweredSound
  <2> QED
    BY <1>3, <2>2, <2>3, <2>6
<1>6. N \notin B /\ N <= N
  BY <1>2, <1>5
<1> QED
  BY <1>1, <1>2, <1>6

-----------------------------------------------------------------------------
(* The inductive invariant, part by part. *)

NetOK  == scope \in Scopes /\ at \in [Addresses -> Macs] /\ moves \in 0 .. MaxMoves
RowsOK == /\ device \in [Ids -> DeviceRow] /\ extra \in Owned /\ excluded \subseteq Addresses
          /\ OneRowPerMac
SweepOK == sweep \in [Sweeps -> Sweep] /\ HitsKnown
SnmpOK == /\ polled \in Ids \cup {0} /\ report \in Report
          /\ refresh \in [phase : {"idle", "asked", "read"}, heard : BOOLEAN, said : Report]
PortsOK == /\ service \in [Ids -> {"none", "open", "closed"}]
           /\ scan \in [on : BOOLEAN, asked : SUBSET Ids, open : SUBSET Ids]
Setting == [done : BOOLEAN, find : BOOLEAN]
Log     == [asked : 0 .. 1, ran : 0 .. 2, fate : {"none", "refused", "lost"},
            crossed : BOOLEAN, overtaken : BOOLEAN]
Search  == [running : BOOLEAN, job : {"none", "queued", "asking"}, wish : BOOLEAN,
            heard : SUBSET Ids, found : SUBSET Ids]
WizardOK == wizard \in Setting /\ form \in [on : BOOLEAN, read : Setting] /\ log \in Log
LinkOK   == link \in Link

\* A search with a job says that it runs; only one with a job is the wizard's.
JobRuns == /\ search.job # "none" => search.running
           /\ search.wish => search.job # "none"
SearchOK == search \in Search /\ JobRuns /\ FindIsNeitherLostNorRepeated

IInv == NetOK /\ RowsOK /\ NoTwins /\ SweepOK /\ SnmpOK /\ PortsOK /\ WizardOK /\ LinkOK /\ SearchOK

\* The parts are the type invariant, what a sweep found, a search and its job,
\* and the properties.
LEMMA PartsAreAll ==
  IInv <=> /\ TypeOK /\ HitsKnown /\ JobRuns
           /\ OneRowPerMac /\ NoTwins /\ FindIsNeitherLostNorRepeated
BY Zenon DEF IInv, NetOK, RowsOK, SweepOK, SnmpOK, PortsOK, WizardOK, LinkOK, SearchOK, TypeOK, Owned,
             Setting, Log, Search

\* Where the wish is: what finishing asked for, against where it is and what
\* became of it.
Accounted(wished, l, wish) ==
  ~l.crossed => l.asked = l.ran + (IF wished THEN 1 ELSE 0) + (IF wish THEN 1 ELSE 0)
                            + (IF l.fate # "none" THEN 1 ELSE 0)

LEMMA WishIs == FindIsNeitherLostNorRepeated <=> Accounted(wizard.find, log, search.wish)
BY DEF FindIsNeitherLostNorRepeated, Accounted

\* A part whose variables stay, stays.
LEMMA PartsStay ==
  /\ NetOK /\ UNCHANGED network => NetOK'
  /\ RowsOK /\ UNCHANGED rows => RowsOK'
  /\ NoTwins /\ UNCHANGED <<device, log>> => NoTwins'
  /\ SweepOK /\ UNCHANGED sweep => SweepOK'
  /\ SnmpOK /\ UNCHANGED snmp => SnmpOK'
  /\ PortsOK /\ UNCHANGED ports => PortsOK'
  /\ WizardOK /\ UNCHANGED <<wizard, form, log>> => WizardOK'
  /\ LinkOK /\ UNCHANGED link => LinkOK'
  /\ SearchOK /\ UNCHANGED <<wizard, search, log>> => SearchOK'
<1>1. NetOK /\ UNCHANGED network => NetOK'
  BY DEF NetOK, network
<1>2. RowsOK /\ UNCHANGED rows => RowsOK'
  BY DEF RowsOK, rows, OneRowPerMac, There
<1>3. NoTwins /\ UNCHANGED <<device, log>> => NoTwins'
  BY DEF NoTwins, There
<1>4. SweepOK /\ UNCHANGED sweep => SweepOK'
  BY DEF SweepOK, HitsKnown, FirstSeen
<1>5. SnmpOK /\ UNCHANGED snmp => SnmpOK'
  BY DEF SnmpOK, snmp
<1>6. PortsOK /\ UNCHANGED ports => PortsOK'
  BY DEF PortsOK, ports
<1>7. WizardOK /\ UNCHANGED <<wizard, form, log>> => WizardOK'
  BY DEF WizardOK
<1>8. SearchOK /\ UNCHANGED <<wizard, search, log>> => SearchOK'
  BY DEF SearchOK, JobRuns, FindIsNeitherLostNorRepeated
<1> QED
  BY <1>1, <1>2, <1>3, <1>4, <1>5, <1>6, <1>7, <1>8 DEF LinkOK

\* An address that changes hands changes no row.
LEMMA MoveKeeps == ASSUME IInv, Move PROVE IInv'
<1>1. UNCHANGED <<scope, rows, sweep, snmp, ports, guide>>
  BY DEF Move
<1>2. NetOK'
  <2>1. PICK a \in Addresses, m \in Macs : at' = [at EXCEPT ![a] = m]
    BY DEF Move
  <2>2. at' \in [Addresses -> Macs]
    BY <2>1 DEF IInv, NetOK
  <2>3. moves' \in 0 .. MaxMoves
    BY ConstantsAssumption DEF IInv, NetOK, Move
  <2> QED
    BY <1>1, <2>2, <2>3 DEF IInv, NetOK
<1> QED
  BY <1>1, <1>2, PartsStay DEF IInv, rows, guide

\* A sweep that begins, looks or fails.
LEMMA SweepsKeep ==
  ASSUME IInv, NEW s \in Sweeps, BeginSweep(s) \/ BeginRecord(s) \/ FailSweep(s) PROVE IInv'
<1>1. UNCHANGED <<network, rows, snmp, ports, guide>>
  BY DEF BeginSweep, BeginRecord, FailSweep
<1>2. sweep \in [Sweeps -> Sweep] /\ HitsKnown /\ at \in [Addresses -> Macs] /\ device \in [Ids -> DeviceRow]
  BY DEF IInv, SweepOK, NetOK, RowsOK
<1>3. Rested \in Sweep
  BY ConstantsAssumption DEF Rested, Sweep, Seen, NoDevice, DeviceRow, Macs
<1>4. ASSUME NEW w \in Sweep, sweep' = [sweep EXCEPT ![s] = w], \A d, e \in w.hit : d = e,
             w.phase = "recording" /\ w.seen # Rested.seen /\ w.hit # {} =>
               LET a == Least({b \in Addresses : w.seen[b] # Silent}) IN Meets(w.was, a, w.seen[a])
      PROVE  SweepOK'
  <2>1. sweep' \in [Sweeps -> Sweep] /\ sweep'[s] = w /\ \A t \in Sweeps : t # s => sweep'[t] = sweep[t]
    BY <1>2, <1>4
  <2>2. HitsKnown'
    <3> SUFFICES ASSUME NEW t \in Sweeps
                 PROVE  LET v == sweep'[t] IN
                        /\ \A d, e \in v.hit : d = e
                        /\ v.phase = "recording" /\ v.seen # Rested.seen /\ v.hit # {} =>
                             LET a == Least({b \in Addresses : v.seen[b] # Silent})
                             IN Meets(v.was, a, v.seen[a])
      BY DEF HitsKnown, FirstSeen, Rested
    <3>1. CASE t = s
      BY <1>4, <2>1, <3>1
    <3>2. CASE t # s
      BY <1>2, <2>1, <3>2 DEF HitsKnown, FirstSeen
    <3> QED
      BY <3>1, <3>2
  <2> QED
    BY <2>1, <2>2 DEF SweepOK
<1>5. CASE FailSweep(s)
  <2>1. sweep' = [sweep EXCEPT ![s] = Rested] /\ Rested.hit = {}
    BY <1>5 DEF FailSweep, Rested
  <2> QED
    BY <1>1, <1>3, <1>4, <2>1, PartsStay DEF IInv, guide, rows
<1>6. CASE BeginSweep(s)
  <2>1. PICK answering \in SUBSET Reachable : \E resolved \in SUBSET (answering \cap Attached) :
          sweep' = [sweep EXCEPT ![s] = [Rested EXCEPT !.phase = "swept", !.seen = Observed(answering, resolved)]]
    BY <1>6 DEF BeginSweep
  <2>2. PICK resolved \in SUBSET (answering \cap Attached) :
          sweep' = [sweep EXCEPT ![s] = [Rested EXCEPT !.phase = "swept", !.seen = Observed(answering, resolved)]]
    BY <2>1
  <2> DEFINE seen == Observed(answering, resolved)
             w == [Rested EXCEPT !.phase = "swept", !.seen = seen]
  <2>3. seen \in Seen
    BY <1>2 DEF Observed, Seen, Macs
  <2> HIDE DEF seen
  <2>4. w \in Sweep /\ w.hit = {}
    BY <1>3, <2>3 DEF Sweep, Rested
  <2> HIDE DEF w
  <2>5. SweepOK'
    BY <1>4, <2>2, <2>4 DEF w, seen
  <2> QED
    BY <1>1, <2>5, PartsStay DEF IInv, guide, rows
<1>7. CASE BeginRecord(s)
  <2> DEFINE a   == FirstSeen(s)
             hit == IF sweep[s].seen = Rested.seen THEN {} ELSE Matched(device, a, sweep[s].seen[a])
             h   == IF hit = {} THEN {} ELSE {Least(hit)}
             row == IF hit = {} THEN sweep[s].was ELSE device[Least(hit)]
             w   == [sweep[s] EXCEPT !.phase = "recording", !.hit = h, !.was = row]
  <2>1. sweep' = [sweep EXCEPT ![s].phase = "recording", ![s].hit = h, ![s].was = row]
    BY <1>7, Zenon DEF BeginRecord
  <2>2. sweep[s] \in Sweep
    BY <1>2
  <2>3. hit # {} => /\ a \in Addresses /\ sweep[s].seen[a] \in Macs /\ hit \subseteq There(device)
                    /\ Least(hit) \in hit /\ Meets(device[Least(hit)], a, sweep[s].seen[a])
    <3>1. CASE sweep[s].seen = Rested.seen
      BY <3>1
    <3>2. CASE sweep[s].seen # Rested.seen
      <4>1. sweep[s].seen \in [Addresses -> Macs \cup {Silent}]
        BY <2>2 DEF Sweep, Seen
      <4>2. PICK n \in Addresses : sweep[s].seen[n] # Silent
        <5>1. Rested.seen = [b \in Addresses |-> Silent]
          BY DEF Rested
        <5> QED
          BY <3>2, <4>1, <5>1
      <4>3. a \in Addresses /\ sweep[s].seen[a] # Silent
        BY <4>2, FirstIsFirst
      <4>4. sweep[s].seen[a] \in Macs
        BY <4>1, <4>3
      <4> HIDE DEF a
      <4>5. hit = Matched(device, a, sweep[s].seen[a])
        BY <3>2
      <4>6. hit \subseteq There(device) /\ \A d \in hit : Meets(device[d], a, sweep[s].seen[a])
        BY <4>3, <4>4, <4>5, MatchedIs
      <4>7. hit \subseteq Nat
        BY <4>6, ConstantsAssumption DEF There, Ids
      <4> HIDE DEF hit
      <4> QED
        BY <4>3, <4>4, <4>6, <4>7, LeastIs
    <3> QED
      BY <3>1, <3>2
  <2>4. h \in SUBSET Ids /\ row \in DeviceRow /\ (\A d, e \in h : d = e)
    <3> HIDE DEF hit, a
    <3>1. hit # {} => Least(hit) \in Ids
      BY <2>3 DEF There
    <3>2. sweep[s].was \in DeviceRow
      BY <2>2 DEF Sweep
    <3> QED
      BY <1>2, <3>1, <3>2
  <2>5. h # {} => hit # {} /\ row = device[Least(hit)]
    OBVIOUS
  <2> HIDE DEF h, row, hit, a
  <2>6. w \in Sweep /\ w.phase = "recording" /\ w.hit = h /\ w.was = row /\ w.seen = sweep[s].seen
    BY <2>2, <2>4 DEF Sweep
  <2>7. sweep' = [sweep EXCEPT ![s] = w]
    BY <1>2, <2>1
  <2>8. a = Least({b \in Addresses : sweep[s].seen[b] # Silent})
    BY DEF a, FirstSeen
  <2> HIDE DEF w
  <2>9. SweepOK'
    BY <1>4, <2>3, <2>4, <2>5, <2>6, <2>7, <2>8
  <2> QED
    BY <1>1, <2>9, PartsStay DEF IInv, guide, rows
<1> QED
  BY <1>5, <1>6, <1>7

\* What a sweep writes.
LEMMA RecordKeeps == ASSUME IInv, NEW s \in Sweeps, Record(s) PROVE IInv'
<1> DEFINE all == AllRecorded(s)
           a   == FirstSeen(s)
           gone == IF sweep[s].hit = {} THEN Matched(device, a, sweep[s].seen[a]) # {}
                   ELSE device[Least(sweep[s].hit)] # sweep[s].was
           late == log.overtaken \/ (sweep[s].seen # Rested.seen /\ gone)
           fate == IF wizard.find /\ search.running THEN "refused" ELSE log.fate
<1>1. /\ sweep[s].phase = "recording" /\ ~Refused(s)
      /\ DOMAIN all.table = Ids /\ device' = all.table /\ extra' = all.others
      /\ link' = Linked(all.table, all.others)
      /\ wizard' = [wizard EXCEPT !.find = FALSE]
      /\ search' = IF wizard.find /\ ~search.running THEN Marked(TRUE) ELSE search
      /\ sweep' = [sweep EXCEPT ![s] = Rested]
      /\ UNCHANGED <<network, excluded, snmp, ports, form>>
  BY Zenon DEF Record, TakenUp
<1>2. log' = [log EXCEPT !.fate = fate, !.overtaken = late]
  BY Zenon DEF Record
<1>3. TypeOK /\ HitsKnown /\ OneRowPerMac /\ NoTwins
  BY PartsAreAll
<1>4. late \in BOOLEAN /\ (~late => Current(s) /\ ~log.overtaken)
  BY Zenon DEF Current
<1>5. Sound(s, all, N)
  BY <1>1, <1>3, AllSound
<1> HIDE DEF late, all
<1>6. Filed(all.table) /\ all.others \in Owned /\ Apart(all.table) /\ (~late => Single(all.table))
  BY <1>4, <1>5 DEF Sound
<1>7. RowsOK'
  <2>1. device' \in [Ids -> DeviceRow]
    BY <1>1, <1>6 DEF Filed
  <2>2. OneRowPerMac'
    BY <1>1, <1>6 DEF Apart, OneRowPerMac, There
  <2>3. excluded' \subseteq Addresses
    BY <1>1 DEF IInv, RowsOK
  <2> QED
    BY <1>1, <1>6, <2>1, <2>2, <2>3 DEF RowsOK
<1>8. log' \in Log /\ log'.fate = fate /\ log'.overtaken = late /\ log'.asked = log.asked
      /\ log'.ran = log.ran /\ log'.crossed = log.crossed
  <2>1. log \in Log
    BY DEF IInv, WizardOK
  <2>2. fate \in {"none", "refused", "lost"}
    BY <2>1 DEF Log
  <2> HIDE DEF fate
  <2>3. log' = [asked |-> log.asked, ran |-> log.ran, fate |-> fate, crossed |-> log.crossed,
                overtaken |-> late]
    BY <1>2, <2>1 DEF Log
  <2> QED
    BY <1>4, <2>1, <2>2, <2>3 DEF Log
<1>9. NoTwins'
  BY <1>1, <1>6, <1>8 DEF NoTwins, Single, There
<1>10. WizardOK' /\ SearchOK'
  <2>1. wizard \in Setting /\ log \in Log /\ search \in Search /\ JobRuns
        /\ Accounted(wizard.find, log, search.wish)
    BY WishIs DEF IInv, WizardOK, SearchOK
  <2>2. wizard' \in Setting /\ wizard'.find = FALSE
    BY <1>1, <2>1 DEF Setting
  <2> HIDE DEF fate
  <2>3. ASSUME wizard.find, ~search.running PROVE SearchOK'
    <3>1. search' = [search EXCEPT !.running = TRUE, !.job = "queued", !.wish = TRUE]
      BY <1>1, <2>3 DEF Marked
    <3>2. search' \in Search /\ JobRuns' /\ search'.wish
      BY <2>1, <3>1 DEF Search, JobRuns
    <3>3. fate = log.fate /\ ~search.wish
      BY <2>1, <2>3 DEF JobRuns, fate
    <3>4. Accounted(wizard'.find, log', search'.wish)
      <4>1. /\ log'.fate = log.fate /\ log'.asked = log.asked /\ log'.ran = log.ran
            /\ log'.crossed = log.crossed /\ wizard.find /\ ~wizard'.find
        BY <1>8, <2>2, <2>3, <3>3
      <4>2. log.ran \in 0 .. 2
        BY <2>1 DEF Log
      <4>3. ~log.crossed => log.asked = log.ran + 1 + (IF log.fate # "none" THEN 1 ELSE 0)
        BY <2>1, <3>3, <4>1, <4>2 DEF Accounted
      <4> SUFFICES ASSUME ~log.crossed
                   PROVE  log.asked = log.ran + 1 + (IF log.fate # "none" THEN 1 ELSE 0)
        BY <3>2, <4>1, <4>2 DEF Accounted
      <4> QED
        BY <4>3
    <3> QED
      BY <3>2, <3>4 DEF SearchOK, FindIsNeitherLostNorRepeated, Accounted
  <2>4. ASSUME ~(wizard.find /\ ~search.running) PROVE SearchOK'
    <3>1. search' = search
      BY <1>1, <2>4
    <3>2. fate = IF wizard.find THEN "refused" ELSE log.fate
      BY <2>4 DEF fate
    <3>3. Accounted(wizard'.find, log', search.wish)
      <4>1. /\ log'.fate = (IF wizard.find THEN "refused" ELSE log.fate) /\ ~wizard'.find
            /\ log'.asked = log.asked /\ log'.ran = log.ran /\ log'.crossed = log.crossed
        BY <1>8, <2>2, <3>2
      <4>2. log.ran \in 0 .. 2 /\ log.asked \in 0 .. 1
        BY <2>1 DEF Log
      <4>3. ~log.crossed /\ wizard.find => log.fate = "none"
        BY <2>1, <4>2 DEF Accounted
      <4> QED
        BY <2>1, <4>1, <4>2, <4>3 DEF Accounted
    <3> QED
      BY <2>1, <3>1, <3>3 DEF SearchOK, JobRuns, FindIsNeitherLostNorRepeated, Accounted
  <2>5. WizardOK'
    BY <1>1, <1>8, <2>2 DEF IInv, WizardOK
  <2> QED
    BY <2>3, <2>4, <2>5
<1>11. SweepOK'
  <2>1. Rested \in Sweep /\ Rested.hit = {}
    BY ConstantsAssumption DEF Rested, Sweep, Seen, NoDevice, DeviceRow, Macs
  <2>2. sweep \in [Sweeps -> Sweep] /\ HitsKnown
    BY DEF IInv, SweepOK
  <2>3. sweep' \in [Sweeps -> Sweep] /\ sweep'[s] = Rested /\ \A t \in Sweeps : t # s => sweep'[t] = sweep[t]
    BY <1>1, <2>1, <2>2
  <2>4. HitsKnown'
    <3>1. ASSUME NEW t \in Sweeps, t # s
          PROVE  /\ \A d, e \in sweep'[t].hit : d = e
                 /\ (/\ sweep'[t].phase = "recording" /\ sweep'[t].seen # Rested.seen
                     /\ sweep'[t].hit # {})
                      => Meets(sweep'[t].was, FirstSeen(t)', sweep'[t].seen[FirstSeen(t)'])
      <4>1. sweep'[t] = sweep[t] /\ FirstSeen(t)' = FirstSeen(t)
        BY <2>3, <3>1 DEF FirstSeen
      <4> QED
        BY <2>2, <4>1, Zenon DEF HitsKnown
    <3>2. sweep'[s].hit = {}
      BY <2>1, <2>3
    <3> QED
      BY <3>1, <3>2 DEF HitsKnown
  <2> QED
    BY <2>3, <2>4 DEF SweepOK
<1>12. LinkOK'
  <2>1. link \in Link
    BY DEF IInv, LinkOK
  <2> DEFINE here == DevicesAt(all.table, all.others, link.host)
  <2>2. here \subseteq Ids
    BY DEF DevicesAt, There
  <2>3. Cardinality(here) = 1 => Least(here) \in Ids
    <3>1. here \subseteq Nat
      BY <2>2, ConstantsAssumption DEF Ids
    <3>2. Cardinality(here) = 1 => here # {}
      BY FS_EmptySet
    <3> HIDE DEF here
    <3> QED
      BY <2>2, <3>1, <3>2, LeastIs
  <2>4. link' = IF link.there /\ link.flag /\ link.device = 0 /\ Cardinality(here) = 1
                THEN [link EXCEPT !.device = Least(here), !.flag = FALSE] ELSE link
    BY <1>1 DEF Linked
  <2> HIDE DEF here
  <2> QED
    BY <2>1, <2>3, <2>4 DEF Link, LinkOK
<1> QED
  BY <1>1, <1>7, <1>9, <1>10, <1>11, <1>12, PartsStay DEF IInv

\* The rows lose some, or what makes them differ stays; nothing more has a MAC
\* than had it.
LEMMA RowsFewer ==
  ASSUME RowsOK, NoTwins, UNCHANGED log, device' \in [Ids -> DeviceRow],
         \A d \in There(device') : /\ d \in There(device) /\ device'[d].mac = device[d].mac
                                   /\ device'[d].ip = device[d].ip
  PROVE  OneRowPerMac' /\ NoTwins'
<1>1. There(device') = There(device)'
  BY DEF There
<1>2. OneRowPerMac'
  BY <1>1 DEF RowsOK, OneRowPerMac
<1>3. NoTwins'
  BY <1>1 DEF NoTwins
<1> QED
  BY <1>2, <1>3

\* Devices that are merged.
LEMMA MergeKeeps ==
  ASSUME IInv, NEW k \in Ids, NEW o \in Ids, NEW moved \in BOOLEAN, Merge(k, o, moved) PROVE IInv'
<1> DEFINE ip     == device[o].ip
           others == [a \in Addresses |-> Kept(extra[a], k, o)]
           mac    == IF device[k].mac = None THEN device[o].mac ELSE device[k].mac
           at2    == IF moved THEN ip ELSE device[k].ip
           two    == [device[k] EXCEPT !.mac = mac, !.ip = at2]
           row    == [there |-> device[k].there, mac |-> mac, ip |-> at2, ignored |-> device[k].ignored]
<1>1. /\ device \in [Ids -> DeviceRow] /\ extra \in Owned /\ excluded \subseteq Addresses
      /\ OneRowPerMac /\ NoTwins /\ polled \in Ids \cup {0} /\ link \in Link
      /\ service \in [Ids -> {"none", "open", "closed"}]
  BY DEF IInv, RowsOK, SnmpOK, LinkOK, PortsOK
<1>2. /\ k \in There(device) /\ o \in There(device) /\ k # o
      /\ device[k].mac = None \/ device[o].mac = None
      /\ device' = [device EXCEPT ![o] = NoDevice, ![k] = two]
      /\ extra' = IF ip = device[k].ip THEN others
                  ELSE [others EXCEPT ![ip] = IF moved THEN 0 ELSE k]
      /\ polled' = Kept(polled, k, o)
      /\ service' = [service EXCEPT ![k] = IF @ = "none" THEN service[o] ELSE @, ![o] = "none"]
      /\ link' = [link EXCEPT !.device = Kept(@, k, o)]
      /\ UNCHANGED <<network, excluded, sweep, refresh, scan, wizard, form, search, log, report>>
  BY DEF Merge, MayMerge, Hand
<1>3. row \in DeviceRow /\ NoDevice \in DeviceRow /\ ~NoDevice.there /\ ip \in Addresses
      /\ row.mac = mac /\ row.ip = at2
  BY <1>1, ConstantsAssumption DEF DeviceRow, NoDevice, Macs
<1>4. device' \in [Ids -> DeviceRow] /\ device'[k] = row /\ device'[o] = NoDevice
      /\ \A d \in Ids : d # k /\ d # o => device'[d] = device[d]
  <2>1. mac \in Macs /\ at2 \in Addresses /\ device[k] \in DeviceRow
    BY <1>1, <1>3 DEF DeviceRow
  <2>2. two = row
    <3> HIDE DEF mac, at2
    <3>1. ASSUME NEW new, new = two PROVE new = row
      BY <2>1, <3>1, TwoFields
    <3> QED
      BY <3>1
  <2> HIDE DEF two, row
  <2> QED
    BY <1>1, <1>2, <1>3, <2>2
<1>5. RowsOK' /\ NoTwins'
  <2> HIDE DEF row
  <2>1. There(device)' = There(device) \ {o}
    BY <1>2, <1>3, <1>4 DEF There, row
  <2>2. OneRowPerMac'
    <3> SUFFICES ASSUME NEW d \in There(device)', NEW e \in There(device)', device'[d].mac # None,
                        device'[d].mac = device'[e].mac
                 PROVE  d = e
      BY DEF OneRowPerMac
    <3>1. ASSUME NEW x \in There(device)', x # k, mac # None PROVE device'[x].mac # mac
      BY <1>1, <1>2, <1>4, <2>1, <3>1 DEF OneRowPerMac, There
    <3>2. d \in Ids /\ e \in Ids /\ d # o /\ e # o /\ d \in There(device) /\ e \in There(device)
      BY <2>1 DEF There
    <3>3. CASE d # k /\ e # k
      BY <1>1, <1>4, <3>2, <3>3 DEF OneRowPerMac
    <3>4. CASE d = k \/ e = k
      BY <1>3, <1>4, <3>1, <3>4
    <3> QED
      BY <3>3, <3>4
  <2>3. NoTwins'
    <3> SUFFICES ASSUME ~log.overtaken, NEW d \in There(device)', NEW e \in There(device)',
                        device'[d].mac = None, device'[e].mac = None, device'[d].ip = device'[e].ip
                 PROVE  d = e
      BY <1>2 DEF NoTwins
    <3>1. ASSUME NEW x \in There(device)', x # k, mac = None, device'[x].mac = None
          PROVE  device'[x].ip # at2
      <4>1. device[k].mac = None /\ device[o].mac = None
        BY <3>1
      <4>2. x \in There(device) /\ x # o /\ device'[x] = device[x]
        BY <1>4, <2>1, <3>1 DEF There
      <4> QED
        BY <1>1, <1>2, <3>1, <4>1, <4>2 DEF NoTwins
    <3>2. d \in Ids /\ e \in Ids /\ d # o /\ e # o /\ d \in There(device) /\ e \in There(device)
      BY <2>1 DEF There
    <3>3. CASE d # k /\ e # k
      BY <1>1, <1>4, <3>2, <3>3 DEF NoTwins
    <3>4. CASE d = k \/ e = k
      BY <1>3, <1>4, <3>1, <3>4
    <3> QED
      BY <3>3, <3>4
  <2>4. extra' \in Owned
    BY <1>1, <1>2, <1>3 DEF Owned, Kept
  <2> QED
    BY <1>1, <1>2, <1>4, <2>2, <2>3, <2>4 DEF RowsOK
<1>6. PortsOK'
  BY <1>1, <1>2 DEF IInv, PortsOK
<1>7. LinkOK'
  BY <1>1, <1>2 DEF LinkOK, Link, Kept
<1>8. SnmpOK'
  BY <1>1, <1>2 DEF IInv, SnmpOK, Kept
<1> QED
  BY <1>2, <1>5, <1>6, <1>7, <1>8, PartsStay DEF IInv

\* Devices and addresses that are removed, ignored or excluded.
LEMMA HandsKeep ==
  ASSUME IInv, \/ \E d \in Ids : RemoveDevice(d) \/ IgnoreDevice(d)
               \/ \E a \in Addresses : RemoveAddress(a) \/ Exclude(a)
  PROVE  IInv'
<1>1. /\ device \in [Ids -> DeviceRow] /\ extra \in Owned /\ excluded \subseteq Addresses
      /\ OneRowPerMac /\ NoTwins /\ polled \in Ids \cup {0} /\ report \in Report /\ link \in Link
      /\ service \in [Ids -> {"none", "open", "closed"}] /\ RowsOK
  BY DEF IInv, RowsOK, SnmpOK, LinkOK, PortsOK
<1>2. ASSUME NEW d \in Ids, RemoveDevice(d) PROVE IInv'
  <2>1. /\ device' = [device EXCEPT ![d] = NoDevice]
        /\ extra' = [a \in Addresses |-> IF extra[a] = d THEN 0 ELSE extra[a]]
        /\ polled' = IF polled = d THEN 0 ELSE polled
        /\ report' = IF polled = d THEN NoReport ELSE report
        /\ link' = [link EXCEPT !.device = IF @ = d THEN 0 ELSE @]
        /\ service' = [service EXCEPT ![d] = "none"]
        /\ UNCHANGED <<network, excluded, sweep, refresh, scan, wizard, form, search, log>>
    BY <1>2 DEF RemoveDevice, Hand
  <2>2. NoDevice \in DeviceRow /\ ~NoDevice.there
    BY ConstantsAssumption DEF DeviceRow, NoDevice, Macs
  <2>3. device' \in [Ids -> DeviceRow]
    BY <1>1, <2>1, <2>2
  <2>4. OneRowPerMac' /\ NoTwins'
    <3>1. \A e \in There(device') : e \in There(device) /\ device'[e] = device[e]
      BY <1>1, <2>1, <2>2 DEF There
    <3> QED
      BY <1>1, <2>1, <2>3, <3>1, RowsFewer
  <2>5. extra' \in Owned
    BY <1>1, <2>1 DEF Owned
  <2>6. RowsOK'
    BY <1>1, <2>1, <2>3, <2>4, <2>5 DEF RowsOK
  <2>7. SnmpOK'
    <3>1. NoReport \in Report
      BY DEF NoReport, Report, Macs
    <3> QED
      BY <1>1, <2>1, <3>1 DEF IInv, SnmpOK
  <2>8. LinkOK'
    BY <1>1, <2>1 DEF LinkOK, Link
  <2>9. PortsOK'
    BY <1>1, <2>1 DEF IInv, PortsOK
  <2> QED
    BY <2>1, <2>4, <2>6, <2>7, <2>8, <2>9, PartsStay DEF IInv
<1>3. ASSUME NEW d \in Ids, IgnoreDevice(d) PROVE IInv'
  <2>1. /\ device' = [device EXCEPT ![d].ignored = ~@] /\ extra' = extra
        /\ UNCHANGED <<network, excluded, sweep, snmp, scan, wizard, form, search, log, link, service>>
    BY <1>3 DEF IgnoreDevice, Hand, snmp
  <2> DEFINE x == ~device[d].ignored
             row == [device[d] EXCEPT !.ignored = x]
  <2>2. x \in BOOLEAN /\ device' = [device EXCEPT ![d].ignored = x]
    BY <2>1, Zenon
  <2> HIDE DEF x
  <2>3. device' = [device EXCEPT ![d] = row]
    BY <1>1, <2>2
  <2>4. row \in DeviceRow /\ row.there = device[d].there /\ row.mac = device[d].mac /\ row.ip = device[d].ip
    <3>1. device[d] \in DeviceRow
      BY <1>1
    <3> QED
      BY <2>2, <3>1 DEF DeviceRow
  <2> HIDE DEF row
  <2>5. device' \in [Ids -> DeviceRow]
    BY <1>1, <2>3, <2>4
  <2>6. OneRowPerMac' /\ NoTwins'
    <3>1. \A e \in There(device') : /\ e \in There(device) /\ device'[e].mac = device[e].mac
                                    /\ device'[e].ip = device[e].ip
      BY <1>1, <2>3, <2>4 DEF There
    <3> QED
      BY <1>1, <2>1, <2>5, <3>1, RowsFewer
  <2>7. RowsOK'
    BY <1>1, <2>1, <2>5, <2>6 DEF RowsOK
  <2> QED
    BY <2>1, <2>6, <2>7, PartsStay DEF IInv, ports
<1>4. ASSUME NEW a \in Addresses, RemoveAddress(a) \/ Exclude(a) PROVE IInv'
  <2>1. /\ UNCHANGED <<network, device, sweep, snmp, ports, wizard, form, search, log, link>>
        /\ extra' \in {extra, [extra EXCEPT ![a] = 0]}
        /\ excluded' \in {excluded, excluded \ {a}, excluded \cup {a}}
    BY <1>4 DEF RemoveAddress, Exclude, Hand, snmp, ports, guide
  <2>2. extra' \in Owned /\ excluded' \subseteq Addresses
    BY <1>1, <2>1 DEF Owned
  <2>3. OneRowPerMac'
    BY <1>1, <2>1 DEF OneRowPerMac, There
  <2>4. RowsOK'
    BY <1>1, <2>1, <2>2, <2>3 DEF RowsOK
  <2> QED
    BY <2>1, <2>4, PartsStay DEF IInv
<1> QED
  BY <1>2, <1>3, <1>4

\* The SNMP list, and what the router is asked.
LEMMA ListKeeps ==
  ASSUME IInv, \/ \E d \in Ids : AddToSnmp(d) \/ AddFound(d)
               \/ RemoveFromSnmp \/ AskRouter \/ StoreReport
  PROVE  IInv'
<1>1. /\ polled \in Ids \cup {0} /\ report \in Report
      /\ refresh \in [phase : {"idle", "asked", "read"}, heard : BOOLEAN, said : Report]
      /\ at \in [Addresses -> Macs]
  BY DEF IInv, SnmpOK, NetOK
<1>2. UNCHANGED <<network, rows, sweep, ports, guide>>
  BY DEF AddToSnmp, AddFound, RemoveFromSnmp, AskRouter, StoreReport
<1>3. NoReport \in Report
  BY DEF NoReport, Report, Macs
<1>4. ASSUME (\E d \in Ids : AddToSnmp(d) \/ AddFound(d)) \/ RemoveFromSnmp PROVE SnmpOK'
  <2>1. polled' \in Ids \cup {0} /\ report' \in {report, NoReport} /\ refresh' = refresh
    BY <1>4 DEF AddToSnmp, AddFound, RemoveFromSnmp
  <2> QED
    BY <1>1, <1>3, <2>1 DEF SnmpOK
<1>5. ASSUME AskRouter PROVE SnmpOK'
  <2> DEFINE heard == at[device[polled].ip] = Router
             own   == {a \in Addresses : at[a] = Router}
             said  == IF ~heard THEN NoReport
                      ELSE [own |-> own, arp |-> [a \in Addresses |-> IF a \in own THEN None ELSE at[a]]]
  <2>1. refresh' = [phase |-> "asked", heard |-> heard, said |-> said]
        /\ UNCHANGED <<polled, report>>
    BY <1>5 DEF AskRouter
  <2>2. said \in Report
    <3> DEFINE arp == [a \in Addresses |-> IF a \in own THEN None ELSE at[a]]
    <3>1. own \subseteq Addresses /\ arp \in [Addresses -> Macs]
      BY <1>1 DEF Macs
    <3>2. said \in {NoReport, [own |-> own, arp |-> arp]}
      OBVIOUS
    <3> HIDE DEF own, arp, said
    <3>3. [own |-> own, arp |-> arp] \in Report
      BY <3>1 DEF Report
    <3> QED
      BY <1>3, <3>2, <3>3
  <2>3. heard \in BOOLEAN
    BY Zenon
  <2> HIDE DEF said, heard
  <2> QED
    BY <1>1, <2>1, <2>2, <2>3 DEF SnmpOK
<1>6. ASSUME StoreReport PROVE SnmpOK'
  <2>1. /\ report' = IF polled # 0 /\ refresh.heard THEN refresh.said ELSE report
        /\ refresh' = [refresh EXCEPT !.phase = "read", !.said = NoReport] /\ polled' = polled
    BY <1>6 DEF StoreReport
  <2>2. report' \in Report
    BY <1>1, <2>1
  <2>3. refresh' = [phase |-> "read", heard |-> refresh.heard, said |-> NoReport]
    BY <1>1, <2>1
  <2> QED
    BY <1>1, <1>3, <2>1, <2>2, <2>3 DEF SnmpOK
<1>7. SnmpOK'
  BY <1>4, <1>5, <1>6
<1> QED
  BY <1>2, <1>7, PartsStay DEF IInv, rows, guide

\* MACs that are filled in: of those that want one, each has no other that
\* wants it, and no row has it.
LEMMA FillKeeps == ASSUME IInv, FillInMacs PROVE IInv'
<1>1. /\ device \in [Ids -> DeviceRow] /\ report \in Report /\ OneRowPerMac /\ NoTwins
      /\ extra \in Owned /\ excluded \subseteq Addresses
      /\ refresh \in [phase : {"idle", "asked", "read"}, heard : BOOLEAN, said : Report]
  BY DEF IInv, RowsOK, SnmpOK
<1> DEFINE M(d) == report.arp[device[d].ip]
           Fills(d) == M(d) # None /\ d \in Wanting(M(d)) /\ MayFill(M(d))
<1>2. /\ refresh' = [refresh EXCEPT !.phase = "idle"]
      /\ device' = [d \in Ids |-> IF Fills(d) THEN [device[d] EXCEPT !.mac = M(d)] ELSE device[d]]
      /\ UNCHANGED <<network, extra, excluded, sweep, polled, report, ports, guide>>
  BY DEF FillInMacs
<1>3. ASSUME NEW d \in Ids
      PROVE  /\ device[d] \in DeviceRow /\ M(d) \in Macs
             /\ device'[d] \in DeviceRow
             /\ device'[d].there = device[d].there /\ device'[d].ip = device[d].ip
             /\ device'[d].mac = IF Fills(d) THEN M(d) ELSE device[d].mac
  <2>1. device[d] \in DeviceRow /\ device[d].ip \in Addresses
    BY <1>1 DEF DeviceRow
  <2>2. M(d) \in Macs
    BY <1>1, <2>1 DEF Report
  <2>3. device'[d] = IF Fills(d) THEN [device[d] EXCEPT !.mac = M(d)] ELSE device[d]
    BY <1>2
  <2> HIDE DEF M, Fills
  <2> QED
    BY <2>1, <2>2, <2>3 DEF DeviceRow
<1>4. ASSUME NEW d \in Ids, Fills(d)
      PROVE  /\ device[d].mac = None /\ M(d) # None
             /\ \A e \in Wanting(M(d)) : e = d
             /\ \A e \in There(device) : device[e].mac # M(d)
  <2>1. d \in Wanting(M(d)) /\ Cardinality(Wanting(M(d))) = 1
        /\ \A e \in There(device) : device[e].mac # M(d)
    BY <1>4 DEF MayFill
  <2>2. IsFiniteSet(Wanting(M(d)))
    <3>1. IsFiniteSet(Ids)
      BY ConstantsAssumption, FS_Interval DEF Ids
    <3>2. Wanting(M(d)) \subseteq Ids
      BY DEF Wanting, There
    <3> QED
      BY <3>1, <3>2, FS_Subset
  <2>3. \E x : Wanting(M(d)) = {x}
    BY <2>1, <2>2, FS_Singleton
  <2> QED
    BY <1>4, <2>1, <2>3 DEF Wanting
<1>5. There(device)' = There(device) /\ There(device) \subseteq Ids
  BY <1>3 DEF There
<1>6. device' \in [Ids -> DeviceRow]
  <2>1. device' = [d \in Ids |-> device'[d]]
    BY <1>2
  <2> QED
    BY <1>3, <2>1
<1>7. \A d \in Ids : Fills(d) => d \in Wanting(M(d))
  OBVIOUS
<1>8. \A d, e \in Ids : Fills(d) /\ Fills(e) /\ M(d) = M(e) => d = e
  BY <1>4, <1>7
<1> HIDE DEF M, Fills
<1>9. OneRowPerMac'
  <2> SUFFICES ASSUME NEW d \in There(device), NEW e \in There(device), device'[d].mac # None,
                      device'[d].mac = device'[e].mac
               PROVE  d = e
    BY <1>5 DEF OneRowPerMac
  <2>1. d \in Ids /\ e \in Ids
    BY <1>5
  <2>2. CASE Fills(d) /\ Fills(e)
    BY <1>3, <1>8, <2>1, <2>2
  <2>3. CASE ~Fills(d) /\ ~Fills(e)
    BY <1>1, <1>3, <2>1, <2>3 DEF OneRowPerMac
  <2>4. CASE Fills(d) /\ ~Fills(e)
    BY <1>3, <1>4, <2>1, <2>4
  <2>5. CASE ~Fills(d) /\ Fills(e)
    BY <1>3, <1>4, <2>1, <2>5
  <2> QED
    BY <2>2, <2>3, <2>4, <2>5
<1>10. NoTwins'
  <2>1. \A d \in Ids : device'[d].mac = None => device[d].mac = None
    BY <1>3, <1>4
  <2> QED
    BY <1>1, <1>2, <1>3, <1>5, <2>1 DEF NoTwins, guide
<1>11. RowsOK'
  BY <1>1, <1>2, <1>6, <1>9 DEF RowsOK
<1>12. SnmpOK'
  BY <1>1, <1>2 DEF IInv, SnmpOK
<1> QED
  BY <1>2, <1>10, <1>11, <1>12, PartsStay DEF IInv, guide

\* Port scans.
LEMMA ScansKeep == ASSUME IInv, BeginScan \/ RecordScan PROVE IInv'
<1>1. /\ service \in [Ids -> {"none", "open", "closed"}]
      /\ scan \in [on : BOOLEAN, asked : SUBSET Ids, open : SUBSET Ids]
  BY DEF IInv, PortsOK
<1>2. UNCHANGED <<network, rows, sweep, snmp, guide>>
  BY DEF BeginScan, RecordScan
<1>3. ASSUME BeginScan PROVE PortsOK'
  <2> DEFINE asked == {d \in There(device) : ~device[d].ignored /\ device[d].ip \notin excluded}
             open  == Listening(asked)
  <2>1. /\ service' = service
        /\ scan' \in {[on |-> TRUE, asked |-> asked, open |-> open], [on |-> TRUE, asked |-> {}, open |-> {}]}
    BY <1>3 DEF BeginScan
  <2>2. asked \in SUBSET Ids /\ open \in SUBSET Ids
    BY DEF Listening, There
  <2> HIDE DEF asked, open
  <2>3. /\ [on |-> TRUE, asked |-> asked, open |-> open] \in [on : BOOLEAN, asked : SUBSET Ids, open : SUBSET Ids]
        /\ [on |-> TRUE, asked |-> {}, open |-> {}] \in [on : BOOLEAN, asked : SUBSET Ids, open : SUBSET Ids]
    BY <2>2
  <2> QED
    BY <1>1, <2>1, <2>3, Zenon DEF PortsOK
<1>4. ASSUME RecordScan PROVE PortsOK'
  <2>1. scan' = [scan EXCEPT !.on = FALSE, !.asked = {}, !.open = {}]
    BY <1>4 DEF RecordScan
  <2>2. scan' = [on |-> FALSE, asked |-> {}, open |-> {}]
    BY <1>1, <2>1
  <2>3. service' \in [Ids -> {"none", "open", "closed"}]
    BY <1>1, <1>4 DEF RecordScan
  <2> QED
    BY <2>2, <2>3 DEF PortsOK
<1>5. PortsOK'
  BY <1>3, <1>4
<1> QED
  BY <1>2, <1>5, PartsStay DEF IInv, rows, guide

\* What becomes of the wish is noted, and of the rest of the notes only that a
\* form was slow.
LEMMA NotesKeep ==
  ASSUME IInv, UNCHANGED device, wizard' \in Setting, form' \in [on : BOOLEAN, read : Setting],
         log' \in Log, log'.overtaken = log.overtaken, search' \in Search, JobRuns',
         Accounted(wizard'.find, log', search'.wish)
  PROVE  WizardOK' /\ SearchOK' /\ NoTwins'
<1>1. WizardOK'
  BY DEF WizardOK
<1>2. SearchOK'
  BY DEF SearchOK, FindIsNeitherLostNorRepeated, Accounted
<1>3. NoTwins'
  BY DEF IInv, NoTwins, There
<1> QED
  BY <1>1, <1>2, <1>3

\* The wizard: what is written over what was asked is written by a slow form.
LEMMA WizardKeeps ==
  ASSUME IInv, PostForm \/ SaveForm \/ Finish \/ DropCredential PROVE IInv'
<1>1. /\ wizard \in Setting /\ form \in [on : BOOLEAN, read : Setting] /\ log \in Log
      /\ Accounted(wizard.find, log, search.wish) /\ search \in Search /\ JobRuns /\ link \in Link
  BY WishIs DEF IInv, WizardOK, LinkOK, SearchOK
<1>2. UNCHANGED <<network, rows, sweep, snmp, ports, search>>
  BY DEF PostForm, SaveForm, Finish, DropCredential
<1>3. JobRuns' /\ search' \in Search /\ UNCHANGED device
  BY <1>1, <1>2 DEF JobRuns, rows
<1>4. CASE PostForm
  <2>1. form' = [on |-> TRUE, read |-> wizard] /\ UNCHANGED <<wizard, link, log>>
    BY <1>4 DEF PostForm
  <2>2. WizardOK'
    BY <1>1, <2>1 DEF WizardOK
  <2> QED
    BY <1>2, <2>1, <2>2, PartsStay DEF IInv, rows
<1>5. CASE SaveForm
  <2> DEFINE crossed == log.crossed \/ wizard # form.read
  <2>1. /\ form' = [on |-> FALSE, read |-> [done |-> FALSE, find |-> FALSE]] /\ wizard' = form.read
        /\ \/ link' = link
           \/ \E a \in Addresses : link' = [there |-> TRUE, host |-> a, device |-> 0, flag |-> TRUE]
    BY <1>5 DEF SaveForm
  <2>2. crossed \in BOOLEAN /\ log' = [log EXCEPT !.crossed = crossed]
    BY <1>5, Zenon DEF SaveForm
  <2>3. ~crossed => wizard = form.read /\ ~log.crossed
    OBVIOUS
  <2> HIDE DEF crossed
  <2>4. log' = [asked |-> log.asked, ran |-> log.ran, fate |-> log.fate, crossed |-> crossed,
                overtaken |-> log.overtaken]
    BY <1>1, <2>2 DEF Log
  <2>5. log' \in Log /\ log'.crossed = crossed /\ log'.asked = log.asked /\ log'.ran = log.ran
        /\ log'.fate = log.fate /\ log'.overtaken = log.overtaken
    BY <1>1, <2>2, <2>4 DEF Log
  <2>6. wizard' \in Setting /\ form' \in [on : BOOLEAN, read : Setting]
    BY <1>1, <2>1 DEF Setting
  <2>7. Accounted(wizard'.find, log', search'.wish)
    BY <1>1, <1>2, <2>1, <2>3, <2>5 DEF Accounted
  <2>8. LinkOK'
    <3>1. \A a \in Addresses : [there |-> TRUE, host |-> a, device |-> 0, flag |-> TRUE] \in Link
      BY DEF Link
    <3> QED
      BY <1>1, <2>1, <3>1, Zenon DEF LinkOK
  <2>9. WizardOK' /\ SearchOK' /\ NoTwins'
    BY <1>3, <2>5, <2>6, <2>7, NotesKeep
  <2> QED
    BY <1>2, <2>8, <2>9, PartsStay DEF IInv
<1>6. CASE Finish
  <2>1. PICK find \in BOOLEAN : /\ wizard' = [done |-> TRUE, find |-> find]
                                /\ log' = [log EXCEPT !.asked = IF find THEN 1 ELSE 0]
    BY <1>6 DEF Finish
  <2>2. log.asked = 0 /\ UNCHANGED <<form, link>>
    BY <1>6 DEF Finish
  <2>3. log' \in Log /\ log'.crossed = log.crossed /\ log'.asked = (IF find THEN 1 ELSE 0)
        /\ log'.ran = log.ran /\ log'.fate = log.fate /\ log'.overtaken = log.overtaken
    BY <1>1, <2>1 DEF Log
  <2>4. wizard' \in Setting /\ wizard'.find = find
    BY <2>1 DEF Setting
  <2>5. ~log.crossed => log.ran = 0 /\ ~search.wish /\ log.fate = "none"
    BY <1>1, <2>2 DEF Accounted, Log
  <2>6. Accounted(wizard'.find, log', search'.wish)
    BY <1>2, <2>3, <2>4, <2>5 DEF Accounted
  <2>7. WizardOK' /\ SearchOK' /\ NoTwins'
    BY <1>1, <1>3, <2>2, <2>3, <2>4, <2>6, NotesKeep
  <2> QED
    BY <1>2, <2>2, <2>7, PartsStay DEF IInv
<1>7. CASE DropCredential
  <2>1. link' = NoLink /\ UNCHANGED <<wizard, form, log>>
    BY <1>7 DEF DropCredential
  <2>2. LinkOK'
    BY <2>1, ConstantsAssumption DEF LinkOK, NoLink, Link
  <2> QED
    BY <1>2, <2>1, <2>2, PartsStay DEF IInv, rows
<1> QED
  BY <1>4, <1>5, <1>6, <1>7

\* Find SNMP: a search that is the wizard's ends or is lost, and either is
\* noted.
LEMMA FindKeeps ==
  ASSUME IInv, PressFind \/ RunFind \/ EndFind \/ FailFind \/ MissFind \/ FindIsStale PROVE IInv'
<1>1. UNCHANGED <<network, rows, sweep, snmp, ports, wizard, form, link>>
  BY DEF PressFind, RunFind, EndFind, FailFind, MissFind, FindIsStale
<1>2. /\ wizard \in Setting /\ form \in [on : BOOLEAN, read : Setting] /\ log \in Log
      /\ Accounted(wizard.find, log, search.wish) /\ search \in Search /\ JobRuns
  BY WishIs DEF IInv, WizardOK, SearchOK
<1>3. ASSUME search' \in Search, JobRuns', log' \in Log, log'.overtaken = log.overtaken,
             Accounted(wizard.find, log', search'.wish)
      PROVE  IInv'
  <2>1. wizard' = wizard /\ form' = form /\ UNCHANGED device
    BY <1>1 DEF rows
  <2>2. WizardOK' /\ SearchOK' /\ NoTwins'
    BY <1>2, <1>3, <2>1, NotesKeep
  <2> QED
    BY <1>1, <2>2, PartsStay DEF IInv
<1>4. ASSUME NEW found \in SUBSET Ids
      PROVE  /\ SearchOver(found) \in Search /\ ~SearchOver(found).wish
             /\ SearchOver(found).job = "none"
  BY DEF SearchOver, Search
<1>5. CASE PressFind
  <2>1. ~search.running /\ search' = [search EXCEPT !.running = TRUE, !.job = "queued", !.wish = FALSE]
        /\ log' = log
    BY <1>5 DEF PressFind, Marked
  <2>2. search' \in Search /\ JobRuns' /\ search'.wish = search.wish
    BY <1>2, <2>1 DEF Search, JobRuns
  <2> QED
    BY <1>2, <1>3, <2>1, <2>2
<1>6. CASE RunFind
  <2> DEFINE heard == {d \in There(device) : /\ ~device[d].ignored /\ d # polled
                                             /\ device[d].ip \notin excluded
                                             /\ at[device[d].ip] = Router}
  <2>1. /\ search' = [search EXCEPT !.running = TRUE, !.job = "asking", !.found = {}, !.heard = heard]
        /\ log' = log
    BY <1>6 DEF RunFind
  <2>2. heard \in SUBSET Ids
    BY DEF There
  <2> HIDE DEF heard
  <2>3. search' = [running |-> TRUE, job |-> "asking", wish |-> search.wish, heard |-> heard,
                   found |-> {}]
    BY <1>2, <2>1 DEF Search
  <2>4. search' \in Search /\ JobRuns' /\ search'.wish = search.wish
    BY <1>2, <2>2, <2>3 DEF Search, JobRuns
  <2> QED
    BY <1>2, <1>3, <2>1, <2>4
<1>7. CASE EndFind
  <2>1. search' = SearchOver(search.heard)
        /\ log' = [log EXCEPT !.ran = IF search.wish /\ log.ran < 2 THEN log.ran + 1 ELSE log.ran]
    BY <1>7 DEF EndFind
  <2>2. search' \in Search /\ ~search'.wish /\ search'.job = "none"
    <3>1. search.heard \in SUBSET Ids
      BY <1>2 DEF Search
    <3> QED
      BY <1>4, <2>1, <3>1
  <2>3. log' \in Log /\ log'.overtaken = log.overtaken /\ log'.asked = log.asked
        /\ log'.fate = log.fate /\ log'.crossed = log.crossed
        /\ log'.ran = IF search.wish /\ log.ran < 2 THEN log.ran + 1 ELSE log.ran
    BY <1>2, <2>1 DEF Log
  <2>4. ~log.crossed /\ search.wish => log.ran < 2
    BY <1>2 DEF Accounted, Log
  <2>5. Accounted(wizard.find, log', search'.wish)
    BY <1>2, <2>2, <2>3, <2>4 DEF Accounted, Log
  <2> QED
    BY <1>3, <2>2, <2>3, <2>5 DEF JobRuns
<1>8. CASE FailFind \/ MissFind
  <2> DEFINE fate == IF search.wish THEN "lost" ELSE log.fate
  <2>1. log' = [log EXCEPT !.fate = fate]
        /\ search' \in {SearchOver({}), [search EXCEPT !.job = "none", !.wish = FALSE]}
    BY <1>8 DEF FailFind, MissFind
  <2>2. search' \in Search /\ ~search'.wish /\ search'.job = "none"
    <3> DEFINE left == [search EXCEPT !.job = "none", !.wish = FALSE]
    <3>1. left \in Search /\ ~left.wish /\ left.job = "none"
      BY <1>2 DEF Search
    <3> HIDE DEF left
    <3>2. SearchOver({}) \in Search /\ ~SearchOver({}).wish /\ SearchOver({}).job = "none"
      BY <1>4
    <3>3. search' \in {SearchOver({}), left}
      BY <2>1 DEF left
    <3> QED
      BY <3>1, <3>2, <3>3
  <2>3. log' \in Log /\ log'.overtaken = log.overtaken /\ log'.asked = log.asked
        /\ log'.fate = fate /\ log'.crossed = log.crossed /\ log'.ran = log.ran
    BY <1>2, <2>1 DEF Log
  <2>4. Accounted(wizard.find, log', search'.wish)
    BY <1>2, <2>2, <2>3 DEF Accounted, Log
  <2> QED
    BY <1>3, <2>2, <2>3, <2>4 DEF JobRuns
<1>9. CASE FindIsStale
  <2>1. search.job = "none" /\ search' = [search EXCEPT !.running = FALSE] /\ log' = log
    BY <1>9 DEF FindIsStale
  <2>2. search' \in Search /\ JobRuns' /\ search'.wish = search.wish
    BY <1>2, <2>1 DEF Search, JobRuns
  <2> QED
    BY <1>2, <1>3, <2>1, <2>2
<1> QED
  BY <1>5, <1>6, <1>7, <1>8, <1>9

\* A restart loses a search, and it is noted that it did.
LEMMA RestartKeeps == ASSUME IInv, Restart PROVE IInv'
<1> DEFINE fate == IF search.wish THEN "lost" ELSE log.fate
<1>1. /\ sweep' = [s \in Sweeps |-> Rested]
      /\ refresh' = [phase |-> "idle", heard |-> FALSE, said |-> NoReport]
      /\ scan' = [on |-> FALSE, asked |-> {}, open |-> {}]
      /\ form' = [on |-> FALSE, read |-> [done |-> FALSE, find |-> FALSE]]
      /\ search' = [search EXCEPT !.job = "none", !.wish = FALSE, !.heard = {}]
      /\ log' = [log EXCEPT !.fate = fate]
      /\ UNCHANGED <<network, rows, polled, report, service, wizard, link>>
  BY DEF Restart
<1>2. /\ wizard \in Setting /\ log \in Log /\ search \in Search
      /\ Accounted(wizard.find, log, search.wish)
  BY WishIs DEF IInv, WizardOK, SearchOK
<1>3. SweepOK'
  <2>1. Rested \in Sweep /\ Rested.hit = {}
    BY ConstantsAssumption DEF Rested, Sweep, Seen, NoDevice, DeviceRow, Macs
  <2> QED
    BY <1>1, <2>1 DEF SweepOK, HitsKnown
<1>4. SnmpOK' /\ PortsOK'
  <2>1. NoReport \in Report
    BY DEF NoReport, Report, Macs
  <2> QED
    BY <1>1, <2>1 DEF IInv, SnmpOK, PortsOK
<1>5. log' \in Log /\ log'.overtaken = log.overtaken /\ log'.asked = log.asked
      /\ log'.fate = fate /\ log'.crossed = log.crossed /\ log'.ran = log.ran
  BY <1>1, <1>2 DEF Log
<1>6. search' \in Search /\ ~search'.wish /\ search'.job = "none"
  BY <1>1, <1>2 DEF Search
<1>7. Accounted(wizard'.find, log', search'.wish)
  BY <1>1, <1>2, <1>5, <1>6 DEF Accounted, Log
<1>8. wizard' \in Setting /\ form' \in [on : BOOLEAN, read : Setting] /\ UNCHANGED device
  BY <1>1, <1>2 DEF Setting, rows
<1>9. WizardOK' /\ SearchOK' /\ NoTwins'
  BY <1>5, <1>6, <1>7, <1>8, NotesKeep DEF JobRuns
<1> QED
  BY <1>1, <1>3, <1>4, <1>9, PartsStay DEF IInv

\* Every step keeps the inductive invariant.
LEMMA StepKeepsRows == IInv /\ [Next]_vars => IInv'
<1> SUFFICES ASSUME IInv, [Next]_vars PROVE IInv'
  OBVIOUS
<1>1. CASE UNCHANGED vars
  BY <1>1, PartsStay DEF IInv, vars, rows, guide
<1>2. CASE \/ Move
           \/ \E s \in Sweeps : BeginSweep(s) \/ BeginRecord(s) \/ Record(s) \/ FailSweep(s)
           \/ \E k, o \in Ids, moved \in BOOLEAN : Merge(k, o, moved)
  BY <1>2, MoveKeeps, SweepsKeep, RecordKeeps, MergeKeeps
<1>3. CASE \/ \E d \in Ids : RemoveDevice(d) \/ IgnoreDevice(d) \/ AddToSnmp(d) \/ AddFound(d)
           \/ \E a \in Addresses : RemoveAddress(a) \/ Exclude(a)
           \/ RemoveFromSnmp \/ AskRouter \/ StoreReport \/ FillInMacs
  BY <1>3, HandsKeep, ListKeeps, FillKeeps
<1>4. CASE \/ BeginScan \/ RecordScan
           \/ PostForm \/ SaveForm \/ Finish \/ DropCredential
           \/ PressFind \/ RunFind \/ EndFind \/ FailFind \/ MissFind \/ FindIsStale
           \/ Restart
  BY <1>4, ScansKeep, WizardKeeps, FindKeeps, RestartKeeps
<1> QED
  BY <1>1, <1>2, <1>3, <1>4 DEF Next

\* There is nothing at first.
LEMMA InitRows == Init => IInv
<1> SUFFICES ASSUME Init PROVE IInv
  OBVIOUS
<1>1. NoDevice \in DeviceRow /\ ~NoDevice.there /\ NoReport \in Report /\ NoLink \in Link
  BY ConstantsAssumption DEF NoDevice, DeviceRow, Macs, NoReport, Report, NoLink, Link
<1>2. Rested \in Sweep /\ Rested.hit = {}
  BY <1>1 DEF Rested, Sweep, Seen
<1>3. NetOK
  BY ConstantsAssumption DEF Init, NetOK, Macs, None
<1>4. RowsOK /\ NoTwins
  BY <1>1 DEF Init, RowsOK, Owned, OneRowPerMac, NoTwins, There
<1>5. SweepOK
  BY <1>2 DEF Init, SweepOK, HitsKnown
<1>6. SnmpOK
  BY <1>1 DEF Init, SnmpOK
<1>7. PortsOK
  BY DEF Init, PortsOK
<1>8. WizardOK
  BY DEF Init, WizardOK, Setting, Log
<1>9. LinkOK /\ SearchOK
  BY <1>1 DEF Init, LinkOK, SearchOK, Search, JobRuns, FindIsNeitherLostNorRepeated
<1> QED
  BY <1>3, <1>4, <1>5, <1>6, <1>7, <1>8, <1>9 DEF IInv

-----------------------------------------------------------------------------
(* The theorems. *)

\* The rows of the inventory keep their form.
THEOREM InventoryTypeCorrect == Spec => []TypeOK
<1>1. IInv => TypeOK
  BY PartsAreAll
<1> QED
  BY InitRows, StepKeepsRows, <1>1, PTL DEF Spec

\* No two devices ever have one MAC: no merge, no MAC learned from the router
\* and no answer of a sweep writes one that another row has, but a sweep's first,
\* which the database refuses (store.record, identity.fill_in_macs, merge.apply).
THEOREM OneRowForAMac == Spec => []OneRowPerMac
<1>1. IInv => OneRowPerMac
  BY PartsAreAll
<1> QED
  BY InitRows, StepKeepsRows, <1>1, PTL DEF Spec

\* Nor are there two without a MAC at one address (store._match), unless two
\* sweeps crossed.
THEOREM NoTwinsAreMade == Spec => []NoTwins
<1>1. IInv => NoTwins
  BY PartsAreAll
<1> QED
  BY InitRows, StepKeepsRows, <1>1, PTL DEF Spec

\* What the wizard asks of the first sweep is in its setting until one has
\* recorded (onboarding.py after_sweep, runner.py), then with the one search
\* there is, and then that search has ended: never in two places, and in none
\* only when another search was running, or the search failed, was not started
\* in time or was cut off by a restart; unless a slow form wrote over it.
THEOREM FindIsDoneOnce == Spec => []FindIsNeitherLostNorRepeated
<1>1. IInv => FindIsNeitherLostNorRepeated
  BY PartsAreAll
<1> QED
  BY InitRows, StepKeepsRows, <1>1, PTL DEF Spec

\* An answer without a MAC at an address that was merged into a device makes
\* no new one (store.record, _by_extra_address; models.DeviceAddress).
THEOREM MergedStaysMerged == Spec => MergedIsRecorded
<1> DEFINE Stays == \A s \in Sweeps, a \in Addresses :
       Record(s) /\ extra[a] # 0 /\ sweep[s].seen[a] \in {None, Silent}
                 /\ (\A d \in There(device) : device[d].ip # a)
         => extra'[a] = extra[a] /\ \A d \in There(device') : device'[d].ip # a
<1>1. IInv => Stays
  <2> SUFFICES ASSUME IInv, NEW s \in Sweeps, NEW a \in Addresses, Record(s), extra[a] # 0,
                      sweep[s].seen[a] \in {None, Silent}, \A d \in There(device) : device[d].ip # a
               PROVE  extra'[a] = extra[a] /\ \A d \in There(device') : device'[d].ip # a
    OBVIOUS
  <2>1. TypeOK /\ HitsKnown /\ OneRowPerMac /\ NoTwins
    BY PartsAreAll
  <2> DEFINE all == AllRecorded(s)
  <2>2. sweep[s].phase = "recording" /\ ~Refused(s) /\ device' = all.table /\ extra' = all.others
    BY Zenon DEF Record
  <2>3. Sound(s, all, N)
    BY <2>1, <2>2, AllSound
  <2> HIDE DEF all
  <2>4. Aside(s, a)
    BY DEF Aside, NoneAt
  <2>5. all.others[a] = extra[a] /\ NoneAt(all.table, a)
    BY <2>3, <2>4 DEF Sound
  <2> QED
    BY <2>2, <2>5 DEF NoneAt
<1> HIDE DEF Stays
<1>2. Stays => [Stays]_vars
  OBVIOUS
<1>3. Spec => [][Stays]_vars
  BY InitRows, StepKeepsRows, <1>1, <1>2, PTL DEF Spec
<1> QED
  BY <1>3 DEF MergedIsRecorded, Stays
===============================================================================
