----------------------------- MODULE StartupProofs -----------------------------
(***************************************************************************)
(* Theorems about the data directory, for any schema version and number    *)
(* of backups, restores and crashes.                                       *)
(*                                                                         *)
(* The server and spark-restore never run at once (the lock), so each can  *)
(* be followed from stage to stage.  A restore breaks the files apart and  *)
(* puts others together; what it has taken out is followed as one folder,  *)
(* whichever of its files are still in place.                              *)
(***************************************************************************)
EXTENDS Startup, SequenceTheorems, TLAPS

-----------------------------------------------------------------------------
(* The inductive invariant. *)

\* One of the two programs holds the lock, and it is the one that runs.
LockTells ==
  /\ server # "off" <=> lock = "server"
  /\ restore # "idle" <=> lock = "restore"

\* A version stands for the parts it brought; two administrators are from
\* before the one that does not let them in.
Sound(d) ==
  /\ d.version > 0 => 0 .. d.version \subseteq d.parts
  /\ d.twins => 0 \in d.parts /\ d.version < OneAdmin

\* What the server has seen to when it gets to each stage of its start.
StageIsDone ==
  /\ server # "off" => db.id # 0
  /\ server = "stamping" => db.parts = Parts
  /\ server = "migrating" => 0 \in db.parts
  /\ server \in {"seeding", "up"} => db.parts = Parts /\ db.version = Current
  /\ server \in {"creating", "stamping", "seeding", "up"} => ~db.twins
  /\ server = "up" => db.seeded

\* Subnets are removed after they were copied in.
Tidy(d) == d.removed => d.seeded /\ ~d.listed

DbIsSound ==
  /\ Sound(db) /\ Tidy(db) /\ (db.id = 0 => db.parts = {})
  /\ restore # "idle" => Sound(opened.db) /\ Tidy(opened.db)
  /\ \A n \in DOMAIN backups : /\ Sound(backups[n].db) /\ Tidy(backups[n].db)
                               /\ backups[n].wal = 0

\* How far a restore is.
RestoreIsAt ==
  /\ restore # "idle" => Len(aside) > 0 /\ opened.db.id # 0
  /\ restore = "db out" => aside[Last].db = NoDb
  /\ restore \in {"log out", "key out", "db in"} => db = NoDb
  /\ restore \in {"key out", "db in", "key in"} => wal = 0
  /\ restore = "key in" => db = opened.db

\* What was in place, some of it still there, some aside.
Leaving ==
  [db  |-> IF restore = "db out" THEN db ELSE aside[Last].db,
   wal |-> IF restore \in {"db out", "log out"} THEN wal ELSE aside[Last].wal,
   key |-> IF restore \in {"db out", "log out", "key out"} THEN key ELSE aside[Last].key]

Arriving == [db |-> opened.db, wal |-> 0, key |-> opened.key]

\* The files belong together, on either side of a restore that goes on.
AllIntact ==
  ~disturbed =>
    /\ \A n \in DOMAIN backups : Intact(backups[n])
    /\ \A n \in DOMAIN aside : Intact(aside[n]) \/ (restore # "idle" /\ n = Last)
    /\ restore = "idle" => Intact(InPlace)
    /\ restore # "idle" => Intact(Leaving) /\ Intact(Arriving)

\* Every database SPARK was up on is somewhere.
ServedIsThere ==
  /\ 0 \notin served
  /\ \A i \in served : db.id = i \/ \E n \in DOMAIN aside : aside[n].db.id = i

IInv ==
  /\ StartupTypeOK /\ LockTells /\ StageIsDone /\ DbIsSound /\ RestoreIsAt
  /\ AllIntact /\ ServedIsThere

-----------------------------------------------------------------------------
(* Databases, folders and sequences of them. *)

LEMMA NothingType == NoDb \in DbRow /\ Empty \in Folder
BY StartupAssumption DEF NoDb, Empty, DbRow, Folder, Parts

\* The earliest pending migration is one of them.
LEMMA FirstIsPending ==
  ASSUME db \in DbRow, Pending # {} PROVE FirstPending \in Pending
<1> DEFINE m == IF db.version < 2 THEN 2 ELSE db.version + 1
<1>1. db.version \in Nat /\ db.version <= Current
  BY StartupAssumption DEF DbRow, Parts
<1>2. PICK v \in 2 .. Current : v > db.version
  BY DEF Pending
<1>3. m \in Pending /\ \A w \in Pending : m <= w
  BY <1>1, <1>2, StartupAssumption DEF Pending
<1> QED
  BY <1>3 DEF FirstPending

\* A migrated database is whole.
LEMMA MigratedIsWhole ==
  ASSUME db \in DbRow, Sound(db), 0 \in db.parts, Tolerates
  PROVE  /\ Migrated \in DbRow
         /\ Migrated.parts = Parts /\ Migrated.version = Current
         /\ Migrated.id = db.id /\ Migrated.sealed = db.sealed
         /\ Migrated.seeded = db.seeded /\ Migrated.listed = db.listed
         /\ Migrated.removed = db.removed /\ Migrated.twins = db.twins /\ ~db.twins
<1>1. /\ db.version \in Nat /\ db.version <= Current
      /\ db.parts \subseteq Parts /\ Parts = 0 .. Current
  BY StartupAssumption DEF DbRow, Parts
<1>2. Pending \subseteq Parts
  BY <1>1, StartupAssumption DEF Pending
<1>3. ASSUME NEW p \in Parts PROVE p \in db.parts \cup Pending
  <2>1. CASE db.version = 0
    <3>1. 2 \in Pending
      BY <2>1, StartupAssumption DEF Pending
    <3>2. 1 \in db.parts
      BY <3>1 DEF Tolerates
    <3>3. p = 0 \/ p = 1 \/ p \in Pending
      BY <1>1, <2>1 DEF Pending
    <3> QED
      BY <3>2, <3>3
  <2>2. CASE db.version > 0
    <3>1. p \in 0 .. db.version \/ p \in Pending
      BY <1>1, <2>2 DEF Pending
    <3> QED
      BY <2>2, <3>1 DEF Sound
  <2> QED
    BY <1>1, <2>1, <2>2
<1>4. db.parts \cup Pending = Parts
  BY <1>1, <1>2, <1>3
<1>5. Migrated = [db EXCEPT !.parts = Parts, !.version = Current]
  BY <1>4 DEF Migrated
<1>6. Current \in Parts /\ Parts \subseteq Parts
  BY <1>1, StartupAssumption
<1>7. ~db.twins
  <2> SUFFICES ASSUME db.twins PROVE FALSE
    OBVIOUS
  <2>1. OneAdmin \in Pending
    BY <1>1, StartupAssumption DEF Sound, Pending
  <2> QED
    BY <2>1 DEF Tolerates, Undecided
<1> QED
  BY <1>5, <1>6, <1>7 DEF DbRow

\* The copy a person may restore from, and the oldest gone.
LEMMA KeptBackups ==
  ASSUME NEW all \in Seq(Folder), NEW m \in Nat, m <= Len(all)
  PROVE  /\ SubSeq(all, 1, m) \in Seq(Folder)
         /\ DOMAIN SubSeq(all, 1, m) = 1 .. m
         /\ \A n \in 1 .. m : n \in DOMAIN all /\ SubSeq(all, 1, m)[n] = all[n]
BY SubSeqProperties

LEMMA OneInFront ==
  ASSUME NEW s \in Seq(Folder), NEW f \in Folder
  PROVE  /\ <<f>> \o s \in Seq(Folder) /\ Len(<<f>> \o s) = Len(s) + 1
         /\ \A n \in DOMAIN (<<f>> \o s) :
              (<<f>> \o s)[n] = f \/ \E k \in DOMAIN s : (<<f>> \o s)[n] = s[k]
<1>1. <<f>> \in Seq(Folder) /\ Len(<<f>>) = 1 /\ <<f>>[1] = f
  OBVIOUS
<1>2. /\ <<f>> \o s \in Seq(Folder)
      /\ Len(<<f>> \o s) = 1 + Len(s)
      /\ \A i \in 1 .. 1 + Len(s) :
           (<<f>> \o s)[i] = IF i <= 1 THEN <<f>>[i] ELSE s[i - 1]
  BY <1>1, ConcatProperties
<1>3. Len(s) \in Nat /\ DOMAIN s = 1 .. Len(s) /\ DOMAIN (<<f>> \o s) = 1 .. 1 + Len(s)
  BY <1>2
<1>4. ASSUME NEW n \in 1 .. 1 + Len(s)
      PROVE  (<<f>> \o s)[n] = f \/ \E k \in DOMAIN s : (<<f>> \o s)[n] = s[k]
  <2>1. CASE n = 1
    BY <1>1, <1>2, <2>1
  <2>2. CASE n # 1
    <3>1. n - 1 \in DOMAIN s /\ (<<f>> \o s)[n] = s[n - 1]
      BY <1>2, <1>3, <2>2
    <3> QED
      BY <3>1
  <2> QED
    BY <2>1, <2>2
<1> QED
  BY <1>2, <1>3, <1>4

\* What is a number stays one when it is counted up.
LEMMA Numbers ==
  ASSUME IInv
  PROVE  /\ key \in Nat /\ wal \in Nat /\ made \in Nat
         /\ made + 1 \in Nat /\ made + 1 # 0
         /\ crashes \in 0 .. MaxCrashes
         /\ crashes < MaxCrashes => crashes + 1 \in 0 .. MaxCrashes
<1>1. key \in Nat /\ wal \in Nat /\ made \in Nat /\ crashes \in 0 .. MaxCrashes
  BY Zenon DEF IInv, StartupTypeOK
<1> QED
  BY <1>1, StartupAssumption

\* A sequence of folders, one longer, and with one replaced.
LEMMA SequenceFacts ==
  ASSUME NEW s \in Seq(Folder)
  PROVE  Len(s) \in Nat /\ DOMAIN s = 1 .. Len(s) /\ \A n \in DOMAIN s : s[n] \in Folder
OBVIOUS

LEMMA OneMore ==
  ASSUME NEW s \in Seq(Folder), NEW f \in Folder
  PROVE  /\ Append(s, f) \in Seq(Folder) /\ Len(Append(s, f)) = Len(s) + 1
         /\ DOMAIN Append(s, f) = 1 .. Len(s) + 1
         /\ Append(s, f)[Len(s) + 1] = f
         /\ \A n \in 1 .. Len(s) : Append(s, f)[n] = s[n]
OBVIOUS

LEMMA OneReplaced ==
  ASSUME NEW s \in Seq(Folder), NEW f \in Folder, NEW m \in DOMAIN s
  PROVE  /\ [s EXCEPT ![m] = f] \in Seq(Folder) /\ Len([s EXCEPT ![m] = f]) = Len(s)
         /\ DOMAIN [s EXCEPT ![m] = f] = DOMAIN s
         /\ [s EXCEPT ![m] = f][m] = f
         /\ \A n \in DOMAIN s : n # m => [s EXCEPT ![m] = f][n] = s[n]
BY ExceptSeq

LEMMA Folders ==
  ASSUME IInv
  PROVE  /\ aside \in Seq(Folder) /\ backups \in Seq(Folder)
         /\ Len(aside) \in Nat /\ Len(backups) \in Nat
         /\ DOMAIN aside = 1 .. Len(aside) /\ DOMAIN backups = 1 .. Len(backups)
         /\ \A n \in DOMAIN aside : aside[n] \in Folder
         /\ \A n \in DOMAIN backups : backups[n] \in Folder
<1>1. aside \in Seq(Folder) /\ backups \in Seq(Folder)
  BY Zenon DEF IInv, StartupTypeOK
<1> QED
  BY <1>1, SequenceFacts

-----------------------------------------------------------------------------
(* The server. *)

\* A step of the server leaves what is aside and backed up as it is.
LEMMA ServerStep ==
  ASSUME IInv, restore = "idle", UNCHANGED <<aside, backups, restore, disturbed>>,
         StartupTypeOK', LockTells', StageIsDone', Sound(db)', Tidy(db)',
         ~disturbed => Intact(InPlace)',
         db'.id # 0, db'.id = db.id \/ db.id = 0,
         served' \subseteq served \cup {db'.id}, 0 \notin served'
  PROVE  IInv'
<1>1. DbIsSound'
  BY DEF IInv, DbIsSound, Sound, Tidy
<1>2. RestoreIsAt'
  BY DEF RestoreIsAt
<1>3. AllIntact'
  BY DEF IInv, AllIntact, Intact
<1>4. ServedIsThere'
  BY DEF IInv, ServedIsThere
<1> QED
  BY <1>1, <1>2, <1>3, <1>4 DEF IInv

\* While the server is at something, no restore goes on.
LEMMA Alone ==
  ASSUME IInv, server # "off" PROVE restore = "idle" /\ lock = "server" /\ db.id # 0
BY DEF IInv, LockTells, StageIsDone

LEMMA StartStep == ASSUME IInv, Start PROVE IInv'
<1>1. /\ db' \in DbRow /\ made' \in Nat
      /\ Sound(db)' /\ Tidy(db)' /\ db'.id # 0
      /\ db'.id = db.id \/ db.id = 0
      /\ 0 \in db.parts => 0 \in db'.parts
      /\ 0 \notin db.parts => ~db'.twins
      /\ ~disturbed => Intact(InPlace)'
  <2>1. CASE db.id = 0 /\ db' = [NoDb EXCEPT !.id = made + 1] /\ made' = made + 1
    <3>1. made + 1 \in Nat /\ made + 1 # 0
      BY Numbers
    <3>2. /\ db' \in DbRow /\ db'.id = made + 1 /\ db'.version = 0 /\ db'.sealed = 0
          /\ db'.removed = FALSE /\ db'.twins = FALSE
      BY <2>1, <3>1, NothingType DEF NoDb, DbRow
    <3>3. restore = "idle" /\ db.parts = {} /\ (~disturbed => wal \in {0, db.id})
      BY <2>1 DEF Start, IInv, DbIsSound, AllIntact, Intact, InPlace
    <3>4. Sound(db)' /\ Tidy(db)'
      BY <3>2 DEF Sound, Tidy
    <3>5. ~disturbed => wal' = 0
      BY <2>1, <3>3 DEF Start, IInv, AllIntact, Intact, InPlace
    <3>6. ~disturbed => Intact(InPlace)'
      BY <3>2, <3>5 DEF Intact, InPlace
    <3> QED
      BY <2>1, <3>1, <3>2, <3>3, <3>4, <3>6
  <2>2. CASE db.id # 0 /\ UNCHANGED <<db, made>>
    BY <2>2 DEF Start, IInv, StartupTypeOK, DbIsSound, AllIntact, Intact, InPlace, Sound, Tidy
  <2> QED
    BY <2>1, <2>2 DEF Start
<1>2. /\ server' \in {"creating", "migrating"} /\ (server' = "migrating" => 0 \in db.parts)
      /\ server' = "creating" => 0 \notin db.parts
  BY DEF Start
<1>3. StartupTypeOK'
  BY <1>1, <1>2 DEF Start, IInv, StartupTypeOK, Starting
<1>4. LockTells'
  BY <1>2 DEF Start, IInv, LockTells
<1>5. StageIsDone'
  BY <1>1, <1>2 DEF Start, StageIsDone
<1>6. 0 \notin served' /\ served' = served /\ restore = "idle"
  BY DEF Start, IInv, ServedIsThere
<1> QED
  BY <1>1, <1>3, <1>4, <1>5, <1>6, ServerStep DEF Start

\* What create_all has made so far says no version.
LEMMA CreateTableStep == ASSUME IInv, CreateTable PROVE IInv'
<1>1. PICK p \in Parts \ db.parts : db' = [db EXCEPT !.parts = @ \cup {p}]
  BY DEF CreateTable
<1>2. db \in DbRow /\ restore = "idle" /\ lock = "server" /\ db.id # 0
  BY Alone DEF CreateTable, IInv, StartupTypeOK
<1>3. /\ db' \in DbRow /\ db'.parts = db.parts \cup {p}
      /\ db'.id = db.id /\ db'.version = db.version /\ db'.sealed = db.sealed
      /\ db'.seeded = db.seeded /\ db'.listed = db.listed /\ db'.removed = db.removed
      /\ db'.twins = db.twins
  BY <1>1, <1>2 DEF DbRow
<1>4. StartupTypeOK'
  BY <1>3 DEF CreateTable, IInv, StartupTypeOK
<1>5. Sound(db)' /\ Tidy(db)'
  BY <1>3 DEF CreateTable, IInv, DbIsSound, Sound, Tidy
<1>6. LockTells' /\ StageIsDone'
  BY <1>2, <1>3 DEF CreateTable, IInv, LockTells, StageIsDone
<1>7. ~disturbed => Intact(InPlace)'
  BY <1>2, <1>3 DEF CreateTable, IInv, AllIntact, Intact, InPlace
<1>8. 0 \notin served'
  BY DEF CreateTable, IInv, ServedIsThere
<1> QED
  BY <1>2, <1>3, <1>4, <1>5, <1>6, <1>7, <1>8, ServerStep DEF CreateTable

LEMMA CreatedAllStep == ASSUME IInv, CreatedAll PROVE IInv'
<1>1. restore = "idle" /\ lock = "server" /\ db.id # 0
  BY Alone DEF CreatedAll
<1>2. StartupTypeOK'
  BY DEF CreatedAll, files, IInv, StartupTypeOK, Starting
<1>3. LockTells' /\ StageIsDone'
  BY <1>1 DEF CreatedAll, files, IInv, LockTells, StageIsDone
<1>4. Sound(db)' /\ Tidy(db)' /\ (~disturbed => Intact(InPlace)') /\ 0 \notin served'
  BY <1>1 DEF CreatedAll, files, IInv, DbIsSound, Sound, Tidy, AllIntact, Intact, InPlace,
              ServedIsThere
<1> QED
  BY <1>1, <1>2, <1>3, <1>4, ServerStep DEF CreatedAll, files

LEMMA StampStep == ASSUME IInv, Stamp PROVE IInv'
<1>1. /\ db \in DbRow /\ restore = "idle" /\ lock = "server" /\ db.id # 0 /\ db.parts = Parts
      /\ ~db.twins
  BY Alone DEF Stamp, IInv, StartupTypeOK, StageIsDone
<1>2. Current \in Parts
  BY StartupAssumption DEF Parts
<1>3. /\ db' \in DbRow /\ db'.parts = db.parts
      /\ db'.id = db.id /\ db'.version = Current /\ db'.sealed = db.sealed
      /\ db'.seeded = db.seeded /\ db'.listed = db.listed /\ db'.removed = db.removed
      /\ db'.twins = db.twins
      /\ wal' = db'.id /\ db.id \in Nat
  BY <1>1, <1>2 DEF Stamp, DbRow
<1>4. StartupTypeOK'
  BY <1>3 DEF Stamp, IInv, StartupTypeOK, Starting
<1>5. Sound(db)' /\ Tidy(db)'
  BY <1>1, <1>3 DEF IInv, DbIsSound, Sound, Tidy, Parts
<1>6. LockTells' /\ StageIsDone'
  BY <1>1, <1>3 DEF Stamp, IInv, LockTells, StageIsDone
<1>7. ~disturbed => Intact(InPlace)'
  BY <1>1, <1>3 DEF Stamp, IInv, AllIntact, Intact, InPlace
<1>8. 0 \notin served'
  BY DEF Stamp, IInv, ServedIsThere
<1> QED
  BY <1>1, <1>3, <1>4, <1>5, <1>6, <1>7, <1>8, ServerStep DEF Stamp

LEMMA MigrateFirstStep == ASSUME IInv, MigrateFirst PROVE IInv'
<1>1. db \in DbRow /\ restore = "idle" /\ lock = "server" /\ db.id # 0 /\ 0 \in db.parts
  BY Alone DEF MigrateFirst, IInv, StartupTypeOK, StageIsDone
<1>2. FirstPending \in Parts
  BY <1>1, FirstIsPending, StartupAssumption DEF MigrateFirst, Pending, Parts
<1>3. /\ db' \in DbRow /\ db'.parts = db.parts \cup {FirstPending}
      /\ db'.id = db.id /\ db'.version = db.version /\ db'.sealed = db.sealed
      /\ db'.seeded = db.seeded /\ db'.listed = db.listed /\ db'.removed = db.removed
      /\ db'.twins = db.twins
  BY <1>1, <1>2 DEF MigrateFirst, DbRow
<1>4. StartupTypeOK'
  BY <1>3 DEF MigrateFirst, IInv, StartupTypeOK
<1>5. Sound(db)' /\ Tidy(db)'
  BY <1>3 DEF IInv, DbIsSound, Sound, Tidy
<1>6. LockTells' /\ StageIsDone'
  BY <1>1, <1>3 DEF MigrateFirst, IInv, LockTells, StageIsDone
<1>7. ~disturbed => Intact(InPlace)'
  BY <1>1, <1>3 DEF MigrateFirst, IInv, AllIntact, Intact, InPlace
<1>8. 0 \notin served'
  BY DEF MigrateFirst, IInv, ServedIsThere
<1> QED
  BY <1>1, <1>3, <1>4, <1>5, <1>6, <1>7, <1>8, ServerStep DEF MigrateFirst

LEMMA MigrateStep == ASSUME IInv, Migrate PROVE IInv'
<1>1. /\ db \in DbRow /\ restore = "idle" /\ lock = "server" /\ db.id # 0 /\ 0 \in db.parts
      /\ Sound(db)
  BY Alone DEF Migrate, IInv, StartupTypeOK, StageIsDone, DbIsSound
<1>2. /\ db' \in DbRow /\ db'.parts = Parts
      /\ db'.id = db.id /\ db'.version = Current /\ db'.sealed = db.sealed
      /\ db'.seeded = db.seeded /\ db'.listed = db.listed /\ db'.removed = db.removed
      /\ ~db'.twins
      /\ wal' \in {wal, db'.id} /\ db.id \in Nat
  BY <1>1, MigratedIsWhole DEF Migrate, DbRow
<1>3. StartupTypeOK'
  BY <1>2 DEF Migrate, IInv, StartupTypeOK, Starting
<1>4. Sound(db)' /\ Tidy(db)'
  BY <1>1, <1>2 DEF IInv, DbIsSound, Sound, Tidy, Parts
<1>5. LockTells' /\ StageIsDone'
  BY <1>1, <1>2 DEF Migrate, IInv, LockTells, StageIsDone
<1>6. ~disturbed => Intact(InPlace)'
  BY <1>1, <1>2 DEF Migrate, IInv, AllIntact, Intact, InPlace
<1>7. 0 \notin served'
  BY DEF Migrate, IInv, ServedIsThere
<1> QED
  BY <1>1, <1>2, <1>3, <1>4, <1>5, <1>6, <1>7, ServerStep DEF Migrate

\* A server that goes away leaves the database as it is, and lets go of the lock.
LEMMA EndsStep ==
  ASSUME IInv, server # "off", server' = "off",
         lock' = (IF lock = "server" THEN "free" ELSE lock), wal' \in {wal, 0},
         crashes' \in 0 .. MaxCrashes,
         UNCHANGED <<db, key, aside, backups, restore, opened, made, served, disturbed>>
  PROVE  IInv'
<1>1. restore = "idle" /\ lock = "server" /\ db.id # 0
  BY Alone
<1>2. StartupTypeOK'
  <2>1. wal' \in Nat
    BY Numbers
  <2> QED
    BY <1>1, <2>1 DEF IInv, StartupTypeOK
<1>3. LockTells' /\ StageIsDone'
  BY <1>1 DEF LockTells, StageIsDone
<1>4. Sound(db)' /\ Tidy(db)' /\ (~disturbed => Intact(InPlace)') /\ 0 \notin served'
  BY <1>1 DEF IInv, DbIsSound, Sound, Tidy, AllIntact, Intact, InPlace, ServedIsThere
<1> QED
  BY <1>1, <1>2, <1>3, <1>4, ServerStep

LEMMA FailStartStep == ASSUME IInv, FailStart PROVE IInv'
BY EndsStep DEF FailStart, files, IInv, StartupTypeOK

LEMMA StopStep == ASSUME IInv, Stop PROVE IInv'
BY EndsStep DEF Stop, IInv, StartupTypeOK

LEMMA CrashServerStep == ASSUME IInv, CrashServer PROVE IInv'
<1>1. crashes' \in 0 .. MaxCrashes
  BY Numbers DEF CrashServer
<1> QED
  BY <1>1, EndsStep DEF CrashServer, files

\* The key is the one the secrets were sealed with, or the one they will be.
LEMMA UpStep == ASSUME IInv, Up PROVE IInv'
<1>1. /\ db \in DbRow /\ restore = "idle" /\ lock = "server" /\ db.id # 0
      /\ db.parts = Parts /\ db.version = Current /\ ~db.twins
  BY Alone DEF Up, IInv, StartupTypeOK, StageIsDone
<1>2. /\ key' \in Nat /\ made' \in Nat
      /\ key' = key \/ key = 0
  BY Numbers DEF Up
<1>3. /\ Seeded \in DbRow /\ Seeded.seeded
      /\ Seeded.id = db.id /\ Seeded.parts = db.parts /\ Seeded.version = db.version
      /\ Seeded.sealed = db.sealed /\ Seeded.removed = db.removed
      /\ Seeded.removed => ~Seeded.listed
      /\ Seeded.twins = db.twins
  <2>1. CASE db.seeded
    BY <1>1, <2>1 DEF Seeded, IInv, DbIsSound, Tidy
  <2>2. CASE ~db.seeded
    BY <1>1, <2>2 DEF Seeded, DbRow, IInv, DbIsSound, Tidy
  <2> QED
    BY <2>1, <2>2
<1>4. /\ db' \in DbRow /\ db'.seeded
      /\ db'.id = db.id /\ db'.parts = Parts /\ db'.version = Current
      /\ db'.sealed = (IF db.sealed = 0 THEN key' ELSE db.sealed)
      /\ db'.removed = Seeded.removed /\ db'.listed = Seeded.listed /\ ~db'.twins
      /\ wal' = db'.id /\ db.id \in Nat
  BY <1>1, <1>2, <1>3 DEF Up, DbRow
<1>5. StartupTypeOK'
  BY <1>2, <1>4 DEF Up, IInv, StartupTypeOK
<1>6. Sound(db)' /\ Tidy(db)'
  BY <1>3, <1>4 DEF Sound, Tidy, Parts
<1>7. LockTells' /\ StageIsDone'
  BY <1>1, <1>4 DEF Up, IInv, LockTells, StageIsDone
<1>8. ~disturbed => Intact(InPlace)'
  <2>1. ~disturbed => db.sealed \in {0, key}
    BY <1>1 DEF IInv, AllIntact, Intact, InPlace
  <2> QED
    BY <1>2, <1>3, <1>4, <2>1 DEF Intact, InPlace
<1>9. 0 \notin served' /\ served' \subseteq served \cup {db'.id}
  BY <1>1, <1>4 DEF Up, IInv, ServedIsThere
<1> QED
  BY <1>1, <1>4, <1>5, <1>6, <1>7, <1>8, <1>9, ServerStep DEF Up

\* Subnets come and go while the server is up.
LEMMA SubnetStep ==
  ASSUME IInv, server = "up", NEW b \in BOOLEAN,
         db' = [db EXCEPT !.listed = b, !.removed = ~b], wal' = db.id,
         UNCHANGED <<key, aside, backups, server, restore, opened, lock, made, served,
                     disturbed, crashes>>
  PROVE  IInv'
<1>1. /\ db \in DbRow /\ restore = "idle" /\ lock = "server" /\ db.id # 0
      /\ db.parts = Parts /\ db.version = Current /\ db.seeded /\ ~db.twins
  BY Alone DEF IInv, StartupTypeOK, StageIsDone
<1>2. /\ db' \in DbRow /\ db'.parts = db.parts
      /\ db'.id = db.id /\ db'.version = db.version /\ db'.sealed = db.sealed
      /\ db'.seeded /\ db'.listed = b /\ db'.removed = ~b /\ ~db'.twins
      /\ wal' = db'.id /\ db.id \in Nat
  BY <1>1 DEF DbRow
<1>3. StartupTypeOK'
  BY <1>2 DEF IInv, StartupTypeOK
<1>4. Sound(db)' /\ Tidy(db)'
  BY <1>2 DEF IInv, DbIsSound, Sound, Tidy
<1>5. LockTells' /\ StageIsDone'
  BY <1>1, <1>2 DEF IInv, LockTells, StageIsDone
<1>6. ~disturbed => Intact(InPlace)'
  BY <1>1, <1>2 DEF IInv, AllIntact, Intact, InPlace
<1>7. 0 \notin served'
  BY DEF IInv, ServedIsThere
<1> QED
  BY <1>1, <1>2, <1>3, <1>4, <1>5, <1>6, <1>7, ServerStep

\* One account is taken out of a database nobody is at.
LEMMA DeleteTwinStep == ASSUME IInv, DeleteTwin PROVE IInv'
<1> DEFINE d == [db EXCEPT !.twins = FALSE]
<1>1. /\ server = "off" /\ restore = "idle" /\ db' = d /\ db \in DbRow
      /\ wal' \in {0, wal} /\ wal \in Nat
      /\ UNCHANGED <<key, aside, backups, server, restore, opened, lock, made, served, disturbed,
                     crashes>>
  BY DEF DeleteTwin, IInv, StartupTypeOK
<1>2. /\ d \in DbRow /\ d.id = db.id /\ d.parts = db.parts /\ d.version = db.version
      /\ d.sealed = db.sealed /\ d.seeded = db.seeded /\ d.listed = db.listed
      /\ d.removed = db.removed /\ ~d.twins
  BY <1>1 DEF DbRow
<1> HIDE DEF d
<1>3. StartupTypeOK'
  BY <1>1, <1>2 DEF IInv, StartupTypeOK
<1>4. LockTells' /\ StageIsDone' /\ RestoreIsAt'
  BY <1>1 DEF IInv, LockTells, StageIsDone, RestoreIsAt, Last
<1>5. DbIsSound'
  BY <1>1, <1>2 DEF IInv, DbIsSound, Sound, Tidy
<1>6. AllIntact'
  BY <1>1, <1>2 DEF IInv, AllIntact, Intact, InPlace
<1>7. ServedIsThere'
  BY <1>1, <1>2 DEF IInv, ServedIsThere
<1> QED
  BY <1>3, <1>4, <1>5, <1>6, <1>7 DEF IInv

LEMMA RemoveSubnetStep == ASSUME IInv, RemoveSubnet PROVE IInv'
BY SubnetStep DEF RemoveSubnet

LEMMA AddSubnetStep == ASSUME IInv, AddSubnet PROVE IInv'
BY SubnetStep DEF AddSubnet

\* A backup is a copy of what is in place, which belongs together.
LEMMA BackupStep == ASSUME IInv, Backup PROVE IInv'
<1> DEFINE new == [db |-> db, wal |-> 0, key |-> key]
           all == <<new>> \o backups
           m   == IF Len(all) < Keep THEN Len(all) ELSE Keep
<1>1. restore = "idle" /\ lock = "server" /\ db.id # 0
  BY Alone DEF Backup
<1>2. new \in Folder /\ backups \in Seq(Folder)
  BY DEF IInv, StartupTypeOK, Folder
<1>3. /\ all \in Seq(Folder) /\ Len(all) \in Nat
      /\ \A n \in DOMAIN all : all[n] = new \/ \E k \in DOMAIN backups : all[n] = backups[k]
  BY <1>2, OneInFront
<1>4. backups' = SubSeq(all, 1, m)
  BY Zenon DEF Backup
<1>5. m \in Nat /\ m <= Len(all)
  BY <1>3, StartupAssumption
<1> HIDE DEF all, m
<1>6. /\ backups' \in Seq(Folder)
      /\ \A n \in DOMAIN backups' :
           backups'[n] = new \/ \E k \in DOMAIN backups : backups'[n] = backups[k]
  BY <1>3, <1>4, <1>5, KeptBackups
<1>7. StartupTypeOK'
  BY <1>6 DEF Backup, files, IInv, StartupTypeOK
<1>8. LockTells' /\ StageIsDone' /\ RestoreIsAt' /\ ServedIsThere'
  BY <1>1 DEF Backup, files, IInv, LockTells, StageIsDone, RestoreIsAt, ServedIsThere
<1>9. DbIsSound'
  <2>1. Sound(db) /\ Tidy(db) /\ new.db = db /\ new.wal = 0
    BY DEF IInv, DbIsSound
  <2>2. \A n \in DOMAIN backups' : /\ Sound(backups'[n].db) /\ Tidy(backups'[n].db)
                                   /\ backups'[n].wal = 0
    BY <1>6, <2>1 DEF IInv, DbIsSound
  <2> QED
    BY <1>1, <2>1, <2>2 DEF Backup, files, DbIsSound, Sound, Tidy
<1>10. AllIntact'
  <2>1. ~disturbed => Intact(new)
    BY <1>1 DEF IInv, AllIntact, Intact, InPlace
  <2>2. ~disturbed => \A n \in DOMAIN backups' : Intact(backups'[n])
    BY <1>6, <2>1 DEF IInv, AllIntact
  <2> QED
    BY <1>1, <2>2 DEF Backup, files, IInv, AllIntact, Intact, InPlace
<1> QED
  BY <1>7, <1>8, <1>9, <1>10 DEF IInv

-----------------------------------------------------------------------------
(* spark-restore. *)

\* It begins with everything in place, and a backup that belongs together.
LEMMA BeginRestoreStep == ASSUME IInv, BeginRestore PROVE IInv'
<1>1. PICK i \in 1 .. Len(backups) :
        MayRestore(backups[i]) /\ opened' = [backups[i] EXCEPT !.db.id = made + 1]
  BY DEF BeginRestore
<1>2. /\ backups \in Seq(Folder) /\ i \in DOMAIN backups /\ backups[i] \in Folder
      /\ aside \in Seq(Folder)
  BY <1>1, Folders
<1>3. restore = "idle" /\ lock = "free" /\ server = "off"
  BY <1>1 DEF MayRestore, IInv, LockTells, StartupTypeOK
<1>4. made + 1 \in Nat /\ made + 1 # 0
  BY Numbers
<1> DEFINE b == backups[i]
           d == [b.db EXCEPT !.id = made + 1]
<1>5. /\ d \in DbRow /\ d.id = made + 1 /\ d.parts = b.db.parts /\ d.version = b.db.version
      /\ d.sealed = b.db.sealed /\ d.seeded = b.db.seeded /\ d.listed = b.db.listed
      /\ d.removed = b.db.removed /\ d.twins = b.db.twins
  BY <1>2, <1>4 DEF Folder, DbRow
<1>6. opened' \in Folder /\ opened'.db = d /\ opened'.key = b.key
  <2>1. opened' = [b EXCEPT !.db = d]
    BY <1>1
  <2> HIDE DEF d
  <2> QED
    BY <1>2, <1>5, <2>1 DEF Folder
<1> HIDE DEF d
<1>7. /\ aside' \in Seq(Folder) /\ Last' = Last + 1 /\ Last \in Nat
      /\ aside'[Last'] = Empty
      /\ DOMAIN aside' = 1 .. Last' /\ DOMAIN aside = 1 .. Last
      /\ \A n \in DOMAIN aside : n # Last' /\ n \in DOMAIN aside' /\ aside'[n] = aside[n]
  <2>1. aside' = Append(aside, Empty) /\ Empty \in Folder
    BY NothingType DEF BeginRestore
  <2> QED
    BY <1>2, <2>1, Folders, OneMore DEF Last
<1>8. StartupTypeOK'
  BY <1>4, <1>6, <1>7, <1>3 DEF BeginRestore, IInv, StartupTypeOK
<1>9. LockTells' /\ StageIsDone'
  BY <1>3 DEF BeginRestore, LockTells, StageIsDone
<1>10. DbIsSound'
  <2>1. Sound(b.db) /\ Tidy(b.db)
    BY <1>2 DEF IInv, DbIsSound
  <2>2. Sound(opened'.db) /\ Tidy(opened'.db)
    BY <1>5, <1>6, <2>1 DEF Sound, Tidy
  <2> QED
    BY <2>2 DEF BeginRestore, IInv, DbIsSound, Sound, Tidy
<1>11. RestoreIsAt'
  <2>1. Empty.db = NoDb /\ Last' > 0
    BY <1>7 DEF Empty
  <2> QED
    BY <1>4, <1>5, <1>6, <1>7, <2>1 DEF BeginRestore, RestoreIsAt, Last
<1>12. AllIntact'
  <2> SUFFICES ASSUME ~disturbed PROVE AllIntact'
    BY DEF BeginRestore, AllIntact
  <2>1. /\ \A n \in DOMAIN backups : Intact(backups[n])
        /\ \A n \in DOMAIN aside : Intact(aside[n])
        /\ Intact(InPlace)
    BY <1>3 DEF IInv, AllIntact
  <2>2. Intact(Leaving)'
    BY <2>1 DEF BeginRestore, Leaving, Intact, InPlace
  <2>3. Intact(Arriving)'
    BY <1>2, <1>5, <1>6, <2>1 DEF Arriving, Intact
  <2>4. \A n \in DOMAIN aside' : Intact(aside'[n]) \/ n = Last'
    BY <1>7, <2>1
  <2> QED
    BY <2>1, <2>2, <2>3, <2>4 DEF BeginRestore, AllIntact, Intact
<1>13. ServedIsThere'
  <2>1. 0 \notin served' /\ UNCHANGED <<served, db>>
    BY DEF BeginRestore, IInv, ServedIsThere
  <2>2. ASSUME NEW j \in served
        PROVE  db.id = j \/ \E n \in DOMAIN aside' : aside'[n].db.id = j
    BY <1>7, <2>2 DEF IInv, ServedIsThere
  <2> QED
    BY <2>1, <2>2 DEF ServedIsThere
<1> QED
  BY <1>8, <1>9, <1>10, <1>11, <1>12, <1>13 DEF IInv

\* One file goes out; the folder that is leaving is the same.
LEMMA MoveOutStep == ASSUME IInv, MoveOut PROVE IInv'
<1>1. /\ restore \in {"db out", "log out", "key out"}
      /\ server = "off" /\ lock = "restore"
  BY DEF MoveOut, IInv, LockTells, StartupTypeOK
<1>2. /\ aside \in Seq(Folder) /\ Len(aside) > 0 /\ Last \in DOMAIN aside
      /\ aside[Last] \in Folder /\ db \in DbRow /\ wal \in Nat /\ key \in Nat
  <2>1. Len(aside) > 0 /\ db \in DbRow
    BY <1>1 DEF IInv, StartupTypeOK, RestoreIsAt
  <2>2. Last \in DOMAIN aside
    BY <2>1, Folders DEF Last
  <2> QED
    BY <2>1, <2>2, Folders, Numbers
<1>3. PICK f \in Folder :
        /\ aside' = [aside EXCEPT ![Last] = f]
        /\ \/ /\ restore = "db out" /\ f = [aside[Last] EXCEPT !.db = db]
           \/ /\ restore = "log out" /\ f = [aside[Last] EXCEPT !.wal = wal]
           \/ /\ restore = "key out" /\ f = [aside[Last] EXCEPT !.key = key]
  <2>1. CASE restore = "db out"
    <3>1. [aside[Last] EXCEPT !.db = db] \in Folder
      BY <1>2 DEF Folder
    <3> QED
      BY <2>1, <3>1 DEF MoveOut
  <2>2. CASE restore = "log out"
    <3>1. [aside[Last] EXCEPT !.wal = wal] \in Folder
      BY <1>2 DEF Folder
    <3> QED
      BY <2>2, <3>1 DEF MoveOut
  <2>3. CASE restore = "key out"
    <3>1. [aside[Last] EXCEPT !.key = key] \in Folder
      BY <1>2 DEF Folder
    <3> QED
      BY <2>3, <3>1 DEF MoveOut
  <2> QED
    BY <1>1, <2>1, <2>2, <2>3
<1>4. /\ aside' \in Seq(Folder) /\ DOMAIN aside' = DOMAIN aside /\ Last' = Last
      /\ aside'[Last] = f
      /\ \A n \in DOMAIN aside : n # Last => aside'[n] = aside[n]
  <2>1. \A m \in DOMAIN aside :
          LET new == [aside EXCEPT ![m] = f]
          IN  /\ new \in Seq(Folder) /\ DOMAIN new = DOMAIN aside /\ Len(new) = Len(aside)
              /\ new[m] = f
              /\ \A n \in DOMAIN aside : n # m => new[n] = aside[n]
    BY <1>2, OneReplaced
  <2>2. aside' = [aside EXCEPT ![Last] = f]
    BY <1>3
  <2> QED
    BY <1>2, <2>1, <2>2 DEF Last
<1>5. /\ db' \in {db, NoDb} /\ wal' \in Nat /\ key' \in Nat
      /\ restore' \in {"log out", "key out", "db in"}
      /\ UNCHANGED <<backups, server, opened, lock, made, served, disturbed, crashes>>
  <2>1. 0 \in Nat
    OBVIOUS
  <2> QED
    BY <1>2, <2>1, Zenon DEF MoveOut
<1>6. StartupTypeOK'
  BY <1>4, <1>5, NothingType DEF IInv, StartupTypeOK
<1>7. LockTells' /\ StageIsDone'
  BY <1>1, <1>5 DEF LockTells, StageIsDone
<1>8. DbIsSound'
  <2>1. Sound(NoDb) /\ Tidy(NoDb) /\ NoDb.parts = {}
    BY DEF NoDb, Sound, Tidy
  <2> QED
    BY <1>1, <1>5, <2>1 DEF IInv, DbIsSound, Sound, Tidy
<1>9. RestoreIsAt'
  BY <1>1, <1>2, <1>4 DEF MoveOut, IInv, RestoreIsAt, Last
<1>10. /\ Leaving' = Leaving
       /\ restore = "db out" => f.db = db
       /\ restore # "db out" => f.db = aside[Last].db /\ UNCHANGED db
  BY <1>2, <1>3, <1>4 DEF MoveOut, Leaving, Folder
<1>11. AllIntact'
  <2> SUFFICES ASSUME ~disturbed PROVE AllIntact'
    BY <1>5 DEF AllIntact
  <2>1. /\ \A n \in DOMAIN backups : Intact(backups[n])
        /\ \A n \in DOMAIN aside : Intact(aside[n]) \/ n = Last
        /\ Intact(Leaving) /\ Intact(Arriving)
    BY <1>1 DEF IInv, AllIntact
  <2>2. \A n \in DOMAIN aside' : Intact(aside'[n]) \/ n = Last'
    BY <1>4, <2>1
  <2>3. Intact(Leaving') /\ Intact(Arriving')
    BY <1>5, <1>10, <2>1 DEF Arriving
  <2> QED
    BY <1>5, <2>1, <2>2, <2>3 DEF AllIntact, Intact
<1>12. ServedIsThere'
  <2>1. CASE restore = "db out"
    <3>1. aside[Last].db = NoDb
      BY <2>1 DEF IInv, RestoreIsAt
    <3>2. \A n \in DOMAIN aside : aside[n].db.id # 0 => aside'[n] = aside[n]
      BY <1>4, <3>1 DEF NoDb
    <3> QED
      <4>1. 0 \notin served
            /\ \A i \in served : db.id = i \/ \E n \in DOMAIN aside : aside[n].db.id = i
        BY Zenon DEF IInv, ServedIsThere
      <4>2. aside'[Last].db = db /\ Last \in DOMAIN aside' /\ DOMAIN aside' = DOMAIN aside
        BY <1>2, <1>4, <1>10, <2>1
      <4>3. ASSUME NEW i \in served
            PROVE  db'.id = i \/ \E n \in DOMAIN aside' : aside'[n].db.id = i
        <5>1. CASE db.id = i
          BY <4>2, <5>1
        <5>2. CASE \E n \in DOMAIN aside : aside[n].db.id = i
          BY <3>2, <4>1, <4>2, <5>2
        <5> QED
          BY <4>1, <5>1, <5>2
      <4>4. served' = served
        BY <1>5, Zenon
      <4> QED
        BY <4>1, <4>3, <4>4, Zenon DEF ServedIsThere
  <2>2. CASE restore # "db out"
    <3>1. \A n \in DOMAIN aside : aside'[n].db = aside[n].db
      BY <1>4, <1>10, <2>2
    <3> QED
      BY <1>4, <1>5, <1>10, <2>2, <3>1 DEF IInv, ServedIsThere
  <2> QED
    BY <2>1, <2>2
<1> QED
  BY <1>6, <1>7, <1>8, <1>9, <1>11, <1>12 DEF IInv

\* One file of the backup comes in; at the end it is what is in place.
LEMMA MoveInStep == ASSUME IInv, MoveIn PROVE IInv'
<1>1. /\ restore \in {"db in", "key in"}
      /\ server = "off" /\ lock = "restore"
      /\ UNCHANGED <<wal, aside, backups, server, opened, made, served, disturbed, crashes>>
  BY DEF MoveIn, IInv, LockTells, StartupTypeOK
<1>2. opened \in Folder /\ opened.db \in DbRow /\ opened.key \in Nat
  BY DEF IInv, StartupTypeOK, Folder
<1>3. StartupTypeOK'
  BY <1>2 DEF MoveIn, IInv, StartupTypeOK
<1>4. LockTells' /\ StageIsDone'
  BY <1>1 DEF MoveIn, LockTells, StageIsDone
<1>5. opened.db.id # 0 /\ Sound(opened.db) /\ Tidy(opened.db)
  BY <1>1 DEF IInv, RestoreIsAt, DbIsSound
<1>6. DbIsSound'
  BY <1>1, <1>5 DEF MoveIn, IInv, DbIsSound, Sound, Tidy
<1>7. RestoreIsAt'
  BY <1>1 DEF MoveIn, IInv, RestoreIsAt, Last
<1>8. Intact(Leaving) => Intact(aside[Last])
  BY <1>1 DEF Leaving, Intact
<1>9. AllIntact'
  <2> SUFFICES ASSUME ~disturbed PROVE AllIntact'
    BY <1>1 DEF AllIntact
  <2>1. /\ \A n \in DOMAIN backups : Intact(backups[n])
        /\ \A n \in DOMAIN aside : Intact(aside[n])
        /\ Intact(Leaving) /\ Intact(Arriving)
    BY <1>1, <1>8 DEF IInv, AllIntact
  <2>2. restore' # "idle" => Intact(Leaving')
    BY <1>1, <2>1 DEF MoveIn, Leaving, Last, Intact
  <2>3. restore' = "idle" => Intact(InPlace')
    BY <1>1, <2>1 DEF MoveIn, IInv, RestoreIsAt, InPlace, Arriving, Intact
  <2> QED
    BY <1>1, <2>1, <2>2, <2>3 DEF AllIntact, Arriving, Intact
<1>10. ServedIsThere'
  <2>1. UNCHANGED db \/ db = NoDb
    BY DEF MoveIn, IInv, RestoreIsAt
  <2>2. NoDb.id = 0
    BY DEF NoDb
  <2> QED
    BY <1>1, <2>1, <2>2 DEF IInv, ServedIsThere
<1> QED
  BY <1>3, <1>4, <1>6, <1>7, <1>9, <1>10 DEF IInv

\* A restore that dies leaves every database where it is.
LEMMA CrashRestoreStep == ASSUME IInv, CrashRestore PROVE IInv'
<1>1. /\ server = "off" /\ lock = "restore" /\ disturbed'
      /\ UNCHANGED <<db, wal, key, aside, backups, server, opened, made, served>>
  BY DEF CrashRestore, files, IInv, LockTells, StartupTypeOK
<1>2. crashes' \in 0 .. MaxCrashes
  BY Numbers DEF CrashRestore
<1>3. StartupTypeOK'
  BY <1>1, <1>2 DEF CrashRestore, IInv, StartupTypeOK
<1>4. LockTells' /\ StageIsDone'
  BY <1>1 DEF CrashRestore, LockTells, StageIsDone
<1>5. DbIsSound' /\ RestoreIsAt' /\ AllIntact' /\ ServedIsThere'
  BY <1>1 DEF CrashRestore, IInv, DbIsSound, Sound, Tidy, RestoreIsAt, AllIntact, ServedIsThere
<1> QED
  BY <1>3, <1>4, <1>5 DEF IInv

-----------------------------------------------------------------------------
(* Invariance. *)

LEMMA InitIInv == StartupInit => IInv
<1> SUFFICES ASSUME StartupInit PROVE IInv
  OBVIOUS
<1>1. /\ db \in DbRow /\ key \in Nat /\ made \in Nat
      /\ Sound(db) /\ Tidy(db) /\ (db.id = 0 => db.parts = {})
      /\ db.sealed \in {0, key} /\ ~db.removed
  <2>1. CASE db = NoDb /\ key = 0 /\ made = 0
    BY <2>1, NothingType DEF NoDb, Sound, Tidy
  <2>2. ASSUME NEW v \in 1 .. Current, NEW two \in BOOLEAN,
               db = [id |-> 1, parts |-> 0 .. v, version |-> v, sealed |-> 1, twins |-> two,
                     seeded |-> v = Current, listed |-> v = Current, removed |-> FALSE],
               key = 1, made = 1, two => v < OneAdmin
        PROVE  /\ db \in DbRow /\ key \in Nat /\ made \in Nat
               /\ Sound(db) /\ Tidy(db) /\ (db.id = 0 => db.parts = {})
               /\ db.sealed \in {0, key} /\ ~db.removed
    <3>1. 0 .. v \subseteq Parts /\ v \in Parts /\ (v = Current) \in BOOLEAN
      BY StartupAssumption DEF Parts
    <3>2. db \in DbRow
      BY <2>2, <3>1 DEF DbRow
    <3> QED
      BY <2>2, <3>2 DEF Sound, Tidy
  <2> QED
    BY <2>1, <2>2 DEF StartupInit
<1>2. <<>> \in Seq(Folder) /\ DOMAIN (<<>>) = {} /\ 0 \in Nat /\ 0 \in 0 .. MaxCrashes
  BY StartupAssumption
<1>3. StartupTypeOK
  BY <1>1, <1>2, NothingType DEF StartupInit, StartupTypeOK
<1>4. LockTells /\ StageIsDone /\ DbIsSound /\ RestoreIsAt /\ ServedIsThere
  BY <1>1, <1>2 DEF StartupInit, LockTells, StageIsDone, DbIsSound, RestoreIsAt, ServedIsThere
<1>5. AllIntact
  BY <1>1, <1>2 DEF StartupInit, AllIntact, Intact, InPlace
<1> QED
  BY <1>3, <1>4, <1>5 DEF IInv

LEMMA StepIInv == IInv /\ [StartupNext]_dvars => IInv'
<1> SUFFICES ASSUME IInv, [StartupNext]_dvars PROVE IInv'
  OBVIOUS
<1>1. CASE Boot
  BY <1>1, StartStep, CreateTableStep, CreatedAllStep, StampStep, MigrateStep, FailStartStep,
     UpStep DEF Boot
<1>2. CASE MigrateFirst \/ DeleteTwin \/ RemoveSubnet \/ AddSubnet \/ Backup \/ Stop
  BY <1>2, MigrateFirstStep, DeleteTwinStep, RemoveSubnetStep, AddSubnetStep, BackupStep, StopStep
<1>3. CASE BeginRestore \/ MoveOut \/ MoveIn
  BY <1>3, BeginRestoreStep, MoveOutStep, MoveInStep
<1>4. CASE CrashServer \/ CrashRestore
  BY <1>4, CrashServerStep, CrashRestoreStep
<1>5. CASE UNCHANGED dvars
  <2> USE <1>5 DEF dvars, files, IInv
  <2>1. StartupTypeOK' /\ LockTells' /\ StageIsDone'
    BY DEF StartupTypeOK, LockTells, StageIsDone
  <2>2. DbIsSound' /\ ServedIsThere'
    BY DEF DbIsSound, Sound, Tidy, ServedIsThere
  <2>3. Leaving' = Leaving /\ Arriving' = Arriving /\ InPlace' = InPlace /\ Last' = Last
    BY DEF Leaving, Arriving, InPlace, Last
  <2>4. RestoreIsAt'
    BY <2>3 DEF RestoreIsAt
  <2>5. AllIntact'
    BY <2>3 DEF AllIntact, Intact
  <2> QED
    BY <2>1, <2>2, <2>4, <2>5
<1> QED
  BY <1>1, <1>2, <1>3, <1>4, <1>5 DEF StartupNext

\* The parts of the invariant hold of every state of every behaviour.
THEOREM Invariance == StartupSpec => []IInv
BY InitIInv, StepIInv, PTL DEF StartupSpec

-----------------------------------------------------------------------------

\* The files, backups and folders are what the module takes them to be.
THEOREM TypeCorrect == StartupSpec => []StartupTypeOK
<1>1. IInv => StartupTypeOK
  BY DEF IInv
<1> QED
  BY <1>1, Invariance, PTL

\* Whenever SPARK is up it has the whole schema, whatever version the database
\* is from and wherever a start before this one died (db.init_db).
THEOREM SchemaWhole == StartupSpec => []SchemaIsWhole
<1>1. IInv => SchemaIsWhole
  BY DEF IInv, StageIsDone, SchemaIsWhole
<1> QED
  BY <1>1, Invariance, PTL

\* No database SPARK was up on is lost to a restore, and files that belong
\* together stay together (backup.install, config, subnets.seed_from_config).
THEOREM OldDataStays == StartupSpec => []OldDataIsKept
<1>1. ASSUME IInv PROVE OldDataIsKept
  <2>1. ASSUME NEW i \in served PROVE \E f \in Aside \cup {InPlace} : f.db.id = i
    <3>1. CASE db.id = i
      <4>1. InPlace.db.id = i
        BY <3>1 DEF InPlace
      <4> QED
        BY <4>1
    <3>2. CASE db.id # i
      <4>1. PICK n \in DOMAIN aside : aside[n].db.id = i
        BY <1>1, <2>1, <3>2 DEF IInv, ServedIsThere
      <4>2. aside[n] \in Aside
        BY DEF Aside
      <4> QED
        BY <4>1, <4>2
    <3> QED
      BY <3>1, <3>2
  <2>2. ASSUME restore = "idle", ~disturbed,
               NEW f \in Aside \cup {InPlace} \cup {backups[n] : n \in DOMAIN backups}
        PROVE  Intact(f)
    BY <1>1, <2>2 DEF IInv, AllIntact, Aside
  <2> QED
    BY <2>1, <2>2 DEF OldDataIsKept
<1> QED
  BY <1>1, Invariance, PTL
==============================================================================
