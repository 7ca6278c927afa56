-------------------------------- MODULE SignIn --------------------------------
(***************************************************************************)
(* The one account and its sessions (auth.py, web/routes_auth.py, the      *)
(* Account card of web/routes_preferences.py, web/deps.py, and the         *)
(* spark-reset-password command of cli.py), in password mode.              *)
(*                                                                         *)
(* Hashing takes a thread and a tenth of a second, so setting up, signing  *)
(* in and changing the password each read the account, let other requests  *)
(* in, and write afterwards.  A request that counts as activity writes its *)
(* session's last use first and holds the database's one write lock until  *)
(* it ends; the others write at their end, in one step.  A sign-in with a  *)
(* password hashed by an older SPARK hashes it again, and writes that.     *)
(***************************************************************************)
EXTENDS Naturals

CONSTANTS
  Clients,       \* browsers, each with an address of its own
  Tokens,        \* session tokens
  IdleChoices,   \* inactivity timeouts one can choose, in minutes (scaled)
  SessionLife,   \* minutes a session lasts (scaled from session_days)
  MaxAttempts,   \* failed attempts that lock an address out
  Passwords      \* passwords the account has, one after the other (bound)

ASSUME ConstantsAssumption ==
  /\ IdleChoices \subseteq Nat \ {0}
  /\ \E i \in IdleChoices : \A j \in IdleChoices : i <= j
  /\ \E i \in IdleChoices : \A j \in IdleChoices : j <= i
  /\ SessionLife \in Nat \ {0}
  /\ MaxAttempts \in Nat \ {0}
  /\ Passwords \in Nat \ {0}

VARIABLES
  admins,     \* rows of the user table
  password,   \* the password in force, by number; 0 before the set-up
  had,        \* passwords the account has had: the last one's number
  dated,      \* its hash was made with an older SPARK's parameters
  session,    \* session[t]: the row of user_session whose token is t
  idle,       \* the inactivity timeout
  cookie,     \* cookie[c]: the token browser c sends, if any
  failures,   \* failures[c]: its failed attempts within the lockout's time
  request,    \* request[c]: the request of c that is in the air
  writer      \* the request that holds the write lock, if any

vars == <<admins, password, had, dated, session, idle, cookie, failures, request, writer>>

None == "none"

Longest == CHOOSE i \in IdleChoices : \A j \in IdleChoices : j <= i
Default == CHOOSE i \in IdleChoices : \A j \in IdleChoices : i <= j

\* A session: unused for `age`, with `left` to its expiry; `signed` is the
\* password it was opened with, `crossed` whether a change of the password and a
\* sign-in that had read the one before crossed about it.
SessionRow == [there : BOOLEAN, revoked : BOOLEAN, age : 0 .. Longest + 1,
               left : 0 .. SessionLife, signed : 0 .. Passwords, crossed : BOOLEAN]
NoSession  == [there |-> FALSE, revoked |-> FALSE, age |-> 0, left |-> 0,
               signed |-> 0, crossed |-> FALSE]

\* A request in the air: the hash it read (of which password, and whether of
\* older parameters), and for one that counts as activity the session it writes
\* (age: since it was stamped).
Request == [kind : {"none", "setup", "signin", "change", "page"},
            read : 0 .. Passwords, dated : BOOLEAN,
            touches : Tokens \cup {None}, age : 0 .. Longest + 1]
Nothing == [kind |-> "none", read |-> 0, dated |-> FALSE, touches |-> None, age |-> 0]

TypeOK ==
  /\ admins \in Nat
  /\ password \in 0 .. Passwords /\ had \in 0 .. Passwords /\ dated \in BOOLEAN
  /\ session \in [Tokens -> SessionRow]
  /\ idle \in IdleChoices
  /\ cookie \in [Clients -> Tokens \cup {None}]
  /\ failures \in [Clients -> 0 .. MaxAttempts]
  /\ request \in [Clients -> Request]
  /\ writer \in Clients \cup {None}

Init ==
  /\ admins = 0 /\ password = 0 /\ had = 0 /\ dated = FALSE
  /\ session = [t \in Tokens |-> NoSession]
  /\ idle = Default
  /\ cookie = [c \in Clients |-> None]
  /\ failures = [c \in Clients |-> 0]
  /\ request = [c \in Clients |-> Nothing]
  /\ writer = None

-----------------------------------------------------------------------------
(* Sessions. *)

\* _live: the token is good.
Live(t, timeout) ==
  /\ session[t].there /\ ~session[t].revoked
  /\ session[t].left > 0 /\ session[t].age <= timeout

SignedIn(c) == cookie[c] # None /\ Live(cookie[c], idle)

\* list_sessions: what the Account card shows as signed in.
Listed(t) ==
  LET row == session[t]
  IN row.there /\ ~row.revoked /\ row.left > 0 /\ row.age <= idle

\* Tokens are random: a new one is none that anybody holds or the table has.
Fresh == {t \in Tokens : /\ ~session[t].there
                         /\ \A c \in Clients : cookie[c] # t /\ request[c].touches # t}

\* create_session.
Opened(read, crossing) ==
  [there |-> TRUE, revoked |-> FALSE, age |-> 0, left |-> SessionLife,
   signed |-> read, crossed |-> crossing]

\* The row of a request's own session, with its last use.
Touched(c) ==
  LET t == request[c].touches
  IN IF t = None THEN session
     ELSE [session EXCEPT ![t].age = request[c].age]

\* end_idle_sessions: rows unused for longer than `timeout` are deleted.
WithoutIdle(rows, timeout) ==
  [t \in Tokens |-> IF rows[t].age > timeout THEN NoSession ELSE rows[t]]

Free(c) == request[c] = Nothing
MayWrite(c) == writer \in {None, c}

Ends(c) ==
  /\ request' = [request EXCEPT ![c] = Nothing]
  /\ writer' = IF writer = c THEN None ELSE writer

\* check_rate_limit.
LockedOut(c) == failures[c] >= MaxAttempts

Fails(c) == failures' = [failures EXCEPT ![c] = @ + 1]

-----------------------------------------------------------------------------
(* The set-up. *)

\* setup_submit up to the hash: nobody is there yet, and the code is right.
BeginSetup(c) ==
  /\ Free(c) /\ admins = 0 /\ ~LockedOut(c)
  /\ request' = [request EXCEPT ![c] = [Nothing EXCEPT !.kind = "setup"]]
  /\ UNCHANGED <<admins, password, had, dated, session, idle, cookie, failures, writer>>

\* A wrong code counts like a wrong password.
WrongCode(c) ==
  /\ Free(c) /\ admins = 0 /\ ~LockedOut(c) /\ MayWrite(c)
  /\ Fails(c)
  /\ UNCHANGED <<admins, password, had, dated, session, idle, cookie, request, writer>>

\* A mutant: no unique index on the administrator.
FinishSetupAnyway(c) ==
  /\ request[c].kind = "setup" /\ MayWrite(c)
  /\ Ends(c)
  /\ \E t \in Fresh :
       /\ admins' = admins + 1 /\ password' = 1 /\ had' = 1 /\ dated' = FALSE
       /\ session' = [session EXCEPT ![t] = Opened(1, FALSE)]
       /\ cookie' = [cookie EXCEPT ![c] = t]
  /\ UNCHANGED <<idle, failures>>

\* The insert: the unique index lets one administrator in, who is signed in.
FinishSetup(c) ==
  /\ request[c].kind = "setup" /\ MayWrite(c)
  /\ Ends(c)
  /\ \/ /\ admins = 0
        /\ \E t \in Fresh :
             /\ admins' = 1 /\ password' = 1 /\ had' = 1 /\ dated' = FALSE
             /\ session' = [session EXCEPT ![t] = Opened(1, FALSE)]
             /\ cookie' = [cookie EXCEPT ![c] = t]
     \/ admins > 0 /\ UNCHANGED <<admins, password, had, dated, session, cookie>>
  /\ UNCHANGED <<idle, failures>>

-----------------------------------------------------------------------------
(* Signing in and out. *)

\* authenticate up to the hash: the address is not locked out.
BeginSignIn(c) ==
  /\ Free(c) /\ admins > 0 /\ ~LockedOut(c)
  /\ request' = [request EXCEPT ![c] =
                   [Nothing EXCEPT !.kind = "signin", !.read = password, !.dated = dated]]
  /\ UNCHANGED <<admins, password, had, dated, session, idle, cookie, failures, writer>>

\* needs_rehash: the password that was right is hashed again and written, over
\* whatever the account has by then.
Rehashed(c) == IF request[c].dated THEN request[c].read ELSE password

\* The sessions there are when a sign-in of c has written its hash.
Beside(c, t) == [session[t] EXCEPT !.crossed = @ \/ (session[t].there /\ Rehashed(c) # password)]

\* The right password, or a wrong one, for the account as it was read.
FinishSignIn(c) ==
  /\ request[c].kind = "signin" /\ MayWrite(c)
  /\ Ends(c)
  /\ \/ /\ Fails(c) /\ UNCHANGED <<password, dated, session, cookie>>
     \/ /\ password' = Rehashed(c)
        /\ dated' = (dated /\ ~request[c].dated)
        /\ \E t \in Fresh :
             /\ session' = [[u \in Tokens |-> Beside(c, u)] EXCEPT
                              ![t] = Opened(request[c].read, request[c].read # Rehashed(c))]
             /\ cookie' = [cookie EXCEPT ![c] = t]
        /\ UNCHANGED failures
  /\ UNCHANGED <<admins, had, idle>>

\* logout: the row stays, revoked; current_user may count it as activity.
Logout(c) ==
  /\ Free(c) /\ cookie[c] # None /\ MayWrite(c)
  /\ session' = [session EXCEPT ![cookie[c]].revoked = @ \/ session[cookie[c]].there]
  /\ cookie' = [cookie EXCEPT ![c] = None]
  /\ UNCHANGED <<admins, password, had, dated, idle, failures, request, writer>>

-----------------------------------------------------------------------------
(* Requests of a signed-in browser. *)

\* require_user, resolve_session: the session is good and its last use is more
\* than a minute old, so it is written, which takes the write lock.
BeginPage(c) ==
  /\ Free(c) /\ SignedIn(c) /\ session[cookie[c]].age > 0 /\ writer = None
  /\ request' = [request EXCEPT ![c] = [Nothing EXCEPT !.kind = "page", !.touches = cookie[c]]]
  /\ writer' = c
  /\ UNCHANGED <<admins, password, had, dated, session, idle, cookie, failures>>

\* get_session: the request's transaction is committed when it has ended.
FinishPage(c) ==
  /\ request[c].kind = "page"
  /\ Ends(c)
  /\ session' = Touched(c)
  /\ UNCHANGED <<admins, password, had, dated, idle, cookie, failures>>

\* The same for save_password, whose hashes come in between; a request whose
\* session was used within the minute writes nothing before its end.
BeginChange(c) ==
  /\ Free(c) /\ SignedIn(c) /\ (session[cookie[c]].age > 0 => writer = None)
  /\ LET touches == IF session[cookie[c]].age > 0 THEN cookie[c] ELSE None
     IN /\ request' = [request EXCEPT ![c] =
                         [Nothing EXCEPT !.kind = "change", !.read = password,
                                         !.touches = touches]]
        /\ writer' = IF touches = None THEN writer ELSE c
  /\ UNCHANGED <<admins, password, had, dated, session, idle, cookie, failures>>

\* A mutant: the other sessions stay.
ChangeKeepsSessions(c) ==
  /\ had' = had + 1 /\ password' = had + 1 /\ dated' = FALSE
  /\ \E t \in Fresh :
       /\ session' = [Touched(c) EXCEPT ![t] = Opened(had + 1, FALSE)]
       /\ cookie' = [cookie EXCEPT ![c] = t]

\* change_password, then create_session for the browser that asked.
Change(c) ==
  /\ had' = had + 1 /\ password' = had + 1 /\ dated' = FALSE
  /\ \E t \in Fresh :
       /\ session' = [u \in Tokens |-> IF u = t THEN Opened(had + 1, FALSE) ELSE NoSession]
       /\ cookie' = [cookie EXCEPT ![c] = t]

\* save_password after the hashes: the current password was right, or wrong.
FinishChange(c) ==
  /\ request[c].kind = "change" /\ MayWrite(c)
  /\ Ends(c)
  /\ \/ had < Passwords /\ Change(c)
     \/ session' = Touched(c) /\ UNCHANGED <<password, had, dated, cookie>>
  /\ UNCHANGED <<admins, idle, failures>>

\* end_other_sessions: every session but the one in hand.
EndOthers(c) ==
  /\ Free(c) /\ SignedIn(c) /\ writer = None
  /\ session' = [t \in Tokens |-> IF t = cookie[c] THEN [session[t] EXCEPT !.age = 0]
                                                   ELSE NoSession]
  /\ UNCHANGED <<admins, password, had, dated, idle, cookie, failures, request, writer>>

\* A mutant: only the new timeout is applied.
CutNew(previous, new) == new

\* save_preferences: sessions that had timed out stay ended.
Cut(previous, new) == IF previous < new THEN previous ELSE new

SaveIdle(c, new) ==
  /\ Free(c) /\ SignedIn(c) /\ writer = None /\ new # idle
  /\ idle' = new
  /\ session' = WithoutIdle([session EXCEPT ![cookie[c]].age = 0], Cut(idle, new))
  /\ UNCHANGED <<admins, password, had, dated, cookie, failures, request, writer>>

-----------------------------------------------------------------------------
(* Outside the pages. *)

\* spark-reset-password, in a process of its own.
ResetPassword ==
  /\ admins > 0 /\ writer = None /\ had < Passwords
  /\ had' = had + 1 /\ password' = had + 1 /\ dated' = FALSE
  /\ session' = [t \in Tokens |-> NoSession]
  /\ UNCHANGED <<admins, idle, cookie, failures, request, writer>>

\* purge_expired, at start and every night: expired and timed-out rows.
Purge ==
  /\ writer = None
  /\ session' = WithoutIdle([t \in Tokens |-> IF session[t].left = 0 THEN NoSession
                                                                      ELSE session[t]], idle)
  /\ UNCHANGED <<admins, password, had, dated, idle, cookie, failures, request, writer>>

\* SPARK stops and starts again: what was in the air is gone.  A newer version
\* may hash with other parameters, and the hash it finds is then dated.
Restart ==
  /\ request' = [c \in Clients |-> Nothing]
  /\ writer' = None
  /\ dated' \in {dated, admins > 0}
  /\ UNCHANGED <<admins, password, had, session, idle, cookie, failures>>

\* A minute (scaled) passes; failed attempts fall out of the lockout's time.
Pass ==
  /\ session' = [t \in Tokens |->
       IF ~session[t].there THEN NoSession
       ELSE [session[t] EXCEPT !.age  = IF @ <= Longest THEN @ + 1 ELSE @,
                               !.left = IF @ > 0 THEN @ - 1 ELSE 0]]
  /\ request' = [c \in Clients |->
       IF request[c].touches = None THEN request[c]
       ELSE [request[c] EXCEPT !.age = IF @ <= Longest THEN @ + 1 ELSE @]]
  /\ failures' \in [Clients -> 0 .. MaxAttempts]
  /\ \A c \in Clients : failures'[c] \in {0, failures[c]}
  /\ UNCHANGED <<admins, password, had, dated, idle, cookie, writer>>

Next ==
  \/ \E c \in Clients :
       \/ BeginSetup(c) \/ WrongCode(c) \/ FinishSetup(c)
       \/ BeginSignIn(c) \/ FinishSignIn(c) \/ Logout(c)
       \/ BeginPage(c) \/ FinishPage(c)
       \/ BeginChange(c) \/ FinishChange(c) \/ EndOthers(c)
       \/ \E new \in IdleChoices : SaveIdle(c, new)
  \/ ResetPassword \/ Restart \/ Purge \/ Pass

Spec == Init /\ [][Next]_vars

-----------------------------------------------------------------------------

\* However many set-up forms are posted at once, one administrator comes of
\* it (auth.create_admin, models.User).
OneAdministrator == admins <= 1

\* A session the Account card lists was opened with the password in force,
\* unless a sign-in was being verified while the password changed: its own
\* session, or those it put back behind an older password (change_password,
\* set_password: every session is revoked).
SessionsAreCurrent ==
  \A t \in Tokens : Listed(t) => session[t].signed = password \/ session[t].crossed

\* A session that has ended never comes back, whatever is done to the timeout
\* and whoever cleans up, but for one with activity being recorded meanwhile
\* (end_idle_sessions: "come back to life").
EndedStaysEnded ==
  [][\A t \in Tokens \ Fresh :
       ~Live(t, idle) /\ (\A c \in Clients : request[c].touches # t)
          => ~(session'[t].there /\ ~session'[t].revoked /\ session'[t].left > 0
               /\ session'[t].age <= idle')]_vars

\* Of the code this is false.  A password that was changed is not put back:
\* "the old password no longer works" (auth.note_password_changed).
ChangedPasswordStays == [][password' >= password]_vars

===============================================================================
