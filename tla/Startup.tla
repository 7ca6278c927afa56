------------------------------- MODULE Startup -------------------------------
(***************************************************************************)
(* The data directory over the life of an installation: creating and       *)
(* migrating the database (db.py), starting and stopping (main.py),        *)
(* nightly backups and spark-restore (backup.py, cli.py), the secret key   *)
(* (config.py), and the copy of spark.yaml's subnets (subnets.py).         *)
(*                                                                         *)
(* Any process may die between two of its steps.  sqlite3 begins a         *)
(* transaction at the first row it writes, so a CREATE or an ALTER before  *)
(* that is kept at once.  A restore moves one file after the other.        *)
(***************************************************************************)
EXTENDS Naturals, Sequences

CONSTANTS
  Current,     \* the schema version of this SPARK
  OneAdmin,    \* the version that lets the database hold one administrator
  Keep,        \* nightly backups kept
  MaxRestores, \* restores (bound)
  MaxCrashes   \* processes that die (bound)

ASSUME StartupAssumption ==
  /\ Current \in Nat \ {0, 1}
  /\ OneAdmin \in 2 .. Current
  /\ Keep \in Nat \ {0}
  /\ MaxRestores \in Nat
  /\ MaxCrashes \in Nat

VARIABLES
  db,        \* spark.db
  wal,       \* the database whose last commits are in spark.db-wal, or 0
  key,       \* secret.key, by number, or 0
  aside,     \* the pre-restore folders
  backups,   \* the nightly backups, newest first
  server,    \* what the server is at
  restore,   \* what spark-restore is at
  opened,    \* the backup it has checked and unpacked
  lock,      \* who holds the instance lock
  made,      \* numbers given to databases and keys so far
  served,    \* databases the server was up on
  disturbed, \* whether a restore was cut short
  crashes    \* processes that died

files == <<db, wal, key, aside>>
dvars == <<files, backups, server, restore, opened, lock, made, served, disturbed, crashes>>

\* A database: the tables and columns it has (0: the user table, 1: the rest
\* of version 1, and what each later version brought), the version it says,
\* the key its secrets are sealed with, whether it has two administrators, and
\* whether spark.yaml's subnets have been copied in, are listed, and have been
\* removed by a person.
Parts  == 0 .. Current
DbRow  == [id : Nat, parts : SUBSET Parts, version : Parts, sealed : Nat,
           twins : BOOLEAN, seeded : BOOLEAN, listed : BOOLEAN, removed : BOOLEAN]
NoDb   == [id |-> 0, parts |-> {}, version |-> 0, sealed |-> 0,
           twins |-> FALSE, seeded |-> FALSE, listed |-> FALSE, removed |-> FALSE]
Folder == [db : DbRow, wal : Nat, key : Nat]
Empty  == [db |-> NoDb, wal |-> 0, key |-> 0]

Starting == {"creating", "stamping", "migrating", "seeding"}

StartupTypeOK ==
  /\ db \in DbRow /\ wal \in Nat /\ key \in Nat
  /\ aside \in Seq(Folder) /\ backups \in Seq(Folder) /\ opened \in Folder
  /\ server \in {"off", "up"} \cup Starting
  /\ restore \in {"idle", "db out", "log out", "key out", "db in", "key in"}
  /\ lock \in {"free", "server", "restore"}
  /\ made \in Nat /\ served \subseteq Nat
  /\ disturbed \in BOOLEAN /\ crashes \in 0 .. MaxCrashes

\* A new installation, or one an earlier version left behind, cleanly: before
\* OneAdmin two set-ups at once could leave two administrators.
StartupInit ==
  /\ \/ db = NoDb /\ key = 0 /\ made = 0
     \/ \E v \in 1 .. Current, two \in BOOLEAN :
          /\ two => v < OneAdmin
          /\ db = [id |-> 1, parts |-> 0 .. v, version |-> v, sealed |-> 1, twins |-> two,
                   seeded |-> v = Current, listed |-> v = Current, removed |-> FALSE]
          /\ key = 1 /\ made = 1
  /\ wal = 0 /\ aside = <<>> /\ backups = <<>> /\ opened = Empty
  /\ server = "off" /\ restore = "idle" /\ lock = "free"
  /\ served = {} /\ disturbed = FALSE /\ crashes = 0

-----------------------------------------------------------------------------
(* The server starts. *)

\* lifespan, init_db.  Nobody starts SPARK while a restore goes on: the server
\* would, with a warning.  Without a user table the database is fresh.
Start ==
  /\ server = "off" /\ restore = "idle"
  /\ lock' = "server"
  /\ \/ db.id = 0 /\ db' = [NoDb EXCEPT !.id = made + 1] /\ made' = made + 1
     \/ db.id # 0 /\ UNCHANGED <<db, made>>
  /\ server' = IF 0 \in db.parts THEN "migrating" ELSE "creating"
  /\ UNCHANGED <<wal, key, aside, backups, restore, opened, served, disturbed, crashes>>

\* create_all: one table after the other, each kept at once.
CreateTable ==
  /\ server = "creating"
  /\ \E p \in Parts \ db.parts : db' = [db EXCEPT !.parts = @ \cup {p}]
  /\ UNCHANGED <<wal, key, aside, backups, server, restore, opened, lock, made, served,
                 disturbed, crashes>>

CreatedAll ==
  /\ server = "creating" /\ db.parts = Parts
  /\ server' = "stamping"
  /\ UNCHANGED <<files, backups, restore, opened, lock, made, served, disturbed, crashes>>

\* A transaction of its own: a fresh database says the current version.
Stamp ==
  /\ server = "stamping"
  /\ db' = [db EXCEPT !.version = Current]
  /\ wal' = db.id
  /\ server' = "seeding"
  /\ UNCHANGED <<key, aside, backups, restore, opened, lock, made, served, disturbed, crashes>>

Pending == {v \in 2 .. Current : v > db.version}
FirstPending == CHOOSE v \in Pending : \A w \in Pending : v <= w

\* _single_admin_index: with two administrators it stops the start.
Undecided == db.twins /\ OneAdmin \in Pending

\* What the first pending migration adds, if it is not there, is kept at once.
MigrateFirst ==
  /\ server = "migrating" /\ Pending # {} /\ 1 \in db.parts
  /\ ~(Undecided /\ FirstPending = OneAdmin)
  /\ db' = [db EXCEPT !.parts = @ \cup {FirstPending}]
  /\ UNCHANGED <<wal, key, aside, backups, server, restore, opened, lock, made, served,
                 disturbed, crashes>>

\* A mutant: a migration that adds what is there already fails.
ToleratesNothing ==
  Pending = {} \/ (1 \in db.parts /\ ~Undecided /\ Pending \cap db.parts = {})

\* Whether the pending migrations run on the database as it is: they look for
\* what they add, and change the tables of version 1.
Tolerates == Pending = {} \/ (1 \in db.parts /\ ~Undecided)

\* A mutant: the version is written, the last migration left out.
MigratedButLast == [db EXCEPT !.parts = @ \cup (Pending \ {Current}), !.version = Current]

Migrated == [db EXCEPT !.parts = @ \cup Pending, !.version = Current]

\* init_db: every pending migration and the version, in one transaction.
Migrate ==
  /\ server = "migrating" /\ Tolerates
  /\ db' = Migrated
  /\ wal' = IF Pending = {} THEN wal ELSE db.id
  /\ server' = "seeding"
  /\ UNCHANGED <<key, aside, backups, restore, opened, lock, made, served, disturbed, crashes>>

\* A migration raises: nothing of the transaction is kept and the start ends.
FailStart ==
  /\ server = "migrating" /\ ~Tolerates
  /\ server' = "off" /\ lock' = IF lock = "server" THEN "free" ELSE lock
  /\ UNCHANGED <<files, backups, restore, opened, made, served, disturbed, crashes>>

\* A person deletes the account that is not theirs, as the message says, with
\* sqlite3, which leaves no log behind.
DeleteTwin ==
  /\ server = "off" /\ restore = "idle" /\ db.twins
  /\ db' = [db EXCEPT !.twins = FALSE]
  /\ wal' = IF wal = db.id THEN 0 ELSE wal
  /\ UNCHANGED <<key, aside, backups, server, restore, opened, lock, made, served, disturbed,
                 crashes>>

\* seed_from_config: once ever, by the flag in the database.
Seeded == IF db.seeded THEN db ELSE [db EXCEPT !.seeded = TRUE, !.listed = TRUE]

\* The rest of the start: the key is read, or made if there is none; the
\* subnets are copied in; what is to be secret is sealed.
Up ==
  /\ server = "seeding"
  /\ \/ key = 0 /\ key' = made + 1 /\ made' = made + 1
     \/ key # 0 /\ UNCHANGED <<key, made>>
  /\ db' = [Seeded EXCEPT !.sealed = IF @ = 0 THEN key' ELSE @]
  /\ wal' = db.id
  /\ server' = "up"
  /\ served' = served \cup {db.id}
  /\ UNCHANGED <<aside, backups, restore, opened, lock, disturbed, crashes>>

-----------------------------------------------------------------------------
(* The server is up. *)

\* A person takes the subnet off the list, or puts it there.
RemoveSubnet ==
  /\ server = "up" /\ db.listed
  /\ db' = [db EXCEPT !.listed = FALSE, !.removed = TRUE]
  /\ wal' = db.id
  /\ UNCHANGED <<key, aside, backups, server, restore, opened, lock, made, served, disturbed, crashes>>

AddSubnet ==
  /\ server = "up" /\ ~db.listed
  /\ db' = [db EXCEPT !.listed = TRUE, !.removed = FALSE]
  /\ wal' = db.id
  /\ UNCHANGED <<key, aside, backups, server, restore, opened, lock, made, served, disturbed, crashes>>

\* nightly: a consistent copy with the key beside it, in place at once; the
\* oldest beyond Keep go.
Backup ==
  /\ server = "up" /\ db.id # 0 /\ key # 0
  /\ LET all == <<[db |-> db, wal |-> 0, key |-> key]>> \o backups
     IN backups' = SubSeq(all, 1, IF Len(all) < Keep THEN Len(all) ELSE Keep)
  /\ UNCHANGED <<files, server, restore, opened, lock, made, served, disturbed, crashes>>

\* A clean stop empties the log and lets go of the lock.
Stop ==
  /\ server = "up"
  /\ server' = "off" /\ wal' = IF wal = db.id THEN 0 ELSE wal
  /\ lock' = IF lock = "server" THEN "free" ELSE lock
  /\ UNCHANGED <<db, key, aside, backups, restore, opened, made, served, disturbed, crashes>>

-----------------------------------------------------------------------------
(* spark-restore. *)

\* A mutant: it does not look whether the server runs.
MayRestoreAnyway(b) == restore = "idle" /\ b.db.version \in 1 .. Current

\* restore_main, open_backup: the lock, and a backup this SPARK understands.
MayRestore(b) == restore = "idle" /\ lock = "free" /\ b.db.version \in 1 .. Current

BeginRestore ==
  /\ \E i \in 1 .. Len(backups) :
       /\ MayRestore(backups[i]) /\ Len(aside) < MaxRestores
       /\ opened' = [backups[i] EXCEPT !.db.id = made + 1]
  /\ made' = made + 1
  /\ lock' = IF lock = "free" THEN "restore" ELSE lock
  /\ aside' = Append(aside, Empty)
  /\ restore' = "db out"
  /\ UNCHANGED <<db, wal, key, backups, server, served, disturbed, crashes>>

Last == Len(aside)

\* install: the old files go to the new folder, in this order, ...
MoveOut ==
  /\ \/ /\ restore = "db out" /\ restore' = "log out"
        /\ aside' = [aside EXCEPT ![Last].db = db] /\ db' = NoDb
        /\ UNCHANGED <<wal, key>>
     \/ /\ restore = "log out" /\ restore' = "key out"
        /\ aside' = [aside EXCEPT ![Last].wal = wal] /\ wal' = 0
        /\ UNCHANGED <<db, key>>
     \/ /\ restore = "key out" /\ restore' = "db in"
        /\ aside' = [aside EXCEPT ![Last].key = key] /\ key' = 0
        /\ UNCHANGED <<db, wal>>
  /\ UNCHANGED <<backups, server, opened, lock, made, served, disturbed, crashes>>

\* ... then the backup's come in; the lock is let go at the end.
MoveIn ==
  /\ \/ restore = "db in" /\ restore' = "key in" /\ db' = opened.db /\ UNCHANGED <<key, lock>>
     \/ /\ restore = "key in" /\ restore' = "idle" /\ key' = opened.key /\ UNCHANGED db
        /\ lock' = IF lock = "restore" THEN "free" ELSE lock
  /\ UNCHANGED <<wal, aside, backups, server, opened, made, served, disturbed, crashes>>

-----------------------------------------------------------------------------
(* A process dies; the kernel lets go of its lock. *)

CrashServer ==
  /\ server # "off" /\ crashes < MaxCrashes
  /\ server' = "off" /\ crashes' = crashes + 1
  /\ lock' = IF lock = "server" THEN "free" ELSE lock
  /\ UNCHANGED <<files, backups, restore, opened, made, served, disturbed>>

CrashRestore ==
  /\ restore # "idle" /\ crashes < MaxCrashes
  /\ restore' = "idle" /\ crashes' = crashes + 1 /\ disturbed' = TRUE
  /\ lock' = IF lock = "restore" THEN "free" ELSE lock
  /\ UNCHANGED <<files, backups, server, opened, made, served>>

Boot == Start \/ CreateTable \/ CreatedAll \/ Stamp \/ Migrate \/ FailStart \/ Up

StartupNext ==
  \/ Boot \/ MigrateFirst \/ DeleteTwin
  \/ RemoveSubnet \/ AddSubnet \/ Backup \/ Stop
  \/ BeginRestore \/ MoveOut \/ MoveIn
  \/ CrashServer \/ CrashRestore

Installing == MoveOut \/ MoveIn

\* A container that is started when it has exited, and a start or a restore
\* that goes on unless it dies.  Nobody has to choose between two accounts.
StartupFairness == WF_dvars(Boot) /\ WF_dvars(Installing)

StartupSpec == StartupInit /\ [][StartupNext]_dvars /\ StartupFairness

-----------------------------------------------------------------------------

\* Whatever version a database is from, and wherever starts before this one
\* died, SPARK is up on the whole schema, with one administrator
\* (db.MIGRATIONS: a migration "has to tolerate the column already being
\* there"; "existing installs run only the steps they haven't seen").
\* Nothing is said of what SQLite makes of a database beside another's log,
\* which a restore that was cut short may leave.
SchemaIsWhole ==
  server = "up" /\ ~disturbed => db.parts = Parts /\ db.version = Current /\ ~db.twins

\* Creating the tables was cut short when the one that is looked for was there.
CutShort == 0 \in db.parts /\ 1 \notin db.parts

\* SPARK comes up again after any crash, unless its first start was cut short
\* while it made the tables (init_db), a restore while it moved the files, or
\* two administrators wait for a person to choose (_single_admin_index "stops
\* with the command that shows them").
ComesUp == []<>(server = "up" \/ CutShort \/ disturbed \/ db.twins)

\* A database beside the log and the key that are its own, with the subnets a
\* person took off the list still off it.
Intact(f) ==
  f.wal \in {0, f.db.id} /\ f.db.sealed \in {0, f.key} /\ (f.db.removed => ~f.db.listed)

InPlace == [db |-> db, wal |-> wal, key |-> key]
Aside   == {aside[n] : n \in DOMAIN aside}

\* No database SPARK has been up on is ever lost to a restore, wherever that
\* dies ("moves the current data aside ... rather than deleting it"); and
\* unless one dies, those in place, aside and backed up stay intact over
\* restarts, upgrades and restores (backup.SET_ASIDE, seed_from_config: "once
\* ever").
OldDataIsKept ==
  /\ \A i \in served : \E f \in Aside \cup {InPlace} : f.db.id = i
  /\ restore = "idle" /\ ~disturbed =>
       \A f \in Aside \cup {InPlace} \cup {backups[n] : n \in DOMAIN backups} : Intact(f)
==============================================================================
