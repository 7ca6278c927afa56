-------------------------------- MODULE MCServer --------------------------------
(***************************************************************************)
(* The data directory over starts and crashes, and the outbox of a server  *)
(* that is up.  They share no state, so one run checks them one at a time. *)
(***************************************************************************)
EXTENDS Startup, MCOutbox

VARIABLE part

serverVars == <<part, dvars, vars>>

\* A server that is up on a database of its own version.
Running ==
  /\ db = [id |-> 1, parts |-> Parts, version |-> Current, sealed |-> 1, twins |-> FALSE,
           seeded |-> TRUE, listed |-> TRUE, removed |-> FALSE]
  /\ wal = 1 /\ key = 1 /\ aside = <<>> /\ backups = <<>> /\ opened = Empty
  /\ server = "up" /\ restore = "idle" /\ lock = "server"
  /\ made = 1 /\ served = {1} /\ disturbed = FALSE /\ crashes = 0

ServerInit ==
  /\ Init
  /\ \/ part = "files" /\ StartupInit /\ active = {}
     \/ part = "outbox" /\ Running

ServerNext ==
  \/ part = "files"  /\ StartupNext /\ UNCHANGED <<part, vars>>
  \/ part = "outbox" /\ Next        /\ UNCHANGED <<part, dvars>>

ServerSpec == ServerInit /\ [][ServerNext]_serverVars /\ StartupFairness /\ Fairness
===============================================================================
