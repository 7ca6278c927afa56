----------------------------- MODULE SignInProofs -----------------------------
(***************************************************************************)
(* Theorems about the account and its sessions, for any browsers, tokens,  *)
(* timeouts, lockouts and number of password changes.                      *)
(*                                                                         *)
(* Each of the three requests that hash reads the account, lets the others *)
(* in, and writes.  What holds across that gap is a fact about rows: one   *)
(* that is there was opened with the password in force, or while it was    *)
(* changing.                                                               *)
(***************************************************************************)
EXTENDS SignIn, TLAPS

-----------------------------------------------------------------------------
(* The inductive invariant. *)

\* Every row, listed or not, was opened with the password in force, or crossed
\* by a change.
CurrentRows ==
  \A t \in Tokens : session[t].there => session[t].signed = password \/ session[t].crossed

\* Before the set-up there are no sessions, and no requests but set-ups.
NobodyYet ==
  admins = 0 => /\ \A t \in Tokens : ~session[t].there
                /\ \A c \in Clients : request[c].kind \in {"none", "setup"}

\* Whoever is signing in has an attempt left.
AttemptsLeft == \A c \in Clients : request[c].kind = "signin" => failures[c] < MaxAttempts

IInv == TypeOK /\ OneAdministrator /\ CurrentRows /\ NobodyYet /\ AttemptsLeft

\* What EndedStaysEnded says of one step.
EndedKept ==
  \A t \in Tokens \ Fresh :
    ~Live(t, idle) /\ (\A c \in Clients : request[c].touches # t)
       => ~(session'[t].there /\ ~session'[t].revoked /\ session'[t].left > 0
            /\ session'[t].age <= idle')

Good == IInv' /\ EndedKept

-----------------------------------------------------------------------------
(* Rows and requests. *)

\* There is a longest timeout, and a shortest.
LEMMA TimeoutType == Longest \in Nat \ {0} /\ Longest \in IdleChoices /\ Default \in IdleChoices
                     /\ \A i \in IdleChoices : i <= Longest
<1>1. PICK i \in IdleChoices : \A j \in IdleChoices : j <= i
  BY ConstantsAssumption
<1>2. Longest \in IdleChoices /\ \A j \in IdleChoices : j <= Longest
  BY <1>1 DEF Longest
<1>3. PICK s \in IdleChoices : \A j \in IdleChoices : s <= j
  BY ConstantsAssumption
<1>4. Default \in IdleChoices
  BY <1>3 DEF Default
<1> QED
  BY <1>2, <1>4, ConstantsAssumption

LEMMA RowType ==
  /\ NoSession \in SessionRow
  /\ \A read \in 0 .. Passwords, changed \in BOOLEAN : Opened(read, changed) \in SessionRow
BY TimeoutType, ConstantsAssumption DEF NoSession, Opened, SessionRow

LEMMA NothingType == Nothing \in Request
BY TimeoutType, ConstantsAssumption DEF Nothing, Request

\* A request that ends leaves the others as they are.
LEMMA EndsFacts ==
  ASSUME TypeOK, NEW c \in Clients, Ends(c)
  PROVE  /\ request' \in [Clients -> Request] /\ writer' \in Clients \cup {None}
         /\ request'[c] = Nothing
         /\ \A d \in Clients \ {c} : request'[d] = request[d]
BY NothingType DEF TypeOK, Ends

\* The last use of the session in hand, and nothing else, is written.
LEMMA TouchedFacts ==
  ASSUME TypeOK, NEW c \in Clients
  PROVE  /\ Touched(c) \in [Tokens -> SessionRow]
         /\ \A t \in Tokens :
              /\ Touched(c)[t].there = session[t].there
              /\ Touched(c)[t].signed = session[t].signed
              /\ Touched(c)[t].crossed = session[t].crossed
              /\ t # request[c].touches => Touched(c)[t] = session[t]
<1> DEFINE u == request[c].touches
           g == request[c].age
<1>1. u \in Tokens \cup {None} /\ g \in 0 .. Longest + 1 /\ session \in [Tokens -> SessionRow]
  BY DEF TypeOK, Request
<1>2. CASE u = None
  BY <1>1, <1>2 DEF Touched
<1>3. CASE u # None
  <2>1. Touched(c) = [session EXCEPT ![u] = [session[u] EXCEPT !.age = g]]
    BY <1>3 DEF Touched
  <2>2. u \in Tokens /\ session[u] \in SessionRow
    BY <1>1, <1>3
  <2>3. LET r == [session[u] EXCEPT !.age = g]
        IN /\ r \in SessionRow /\ r.there = session[u].there
           /\ r.signed = session[u].signed /\ r.crossed = session[u].crossed
    BY <1>1, <2>2 DEF SessionRow
  <2> HIDE DEF u, g
  <2> QED
    BY <1>1, <2>1, <2>2, <2>3 DEF u
<1> QED
  BY <1>2, <1>3

\* A step that opens no session and changes no password of one that stays.
LEMMA RowsStay ==
  ASSUME IInv,
         session' \in [Tokens -> SessionRow],
         \A t \in Tokens : session'[t].there =>
            /\ session[t].there /\ password' = password
            /\ session'[t].signed = session[t].signed /\ session'[t].crossed = session[t].crossed,
         admins' = admins, password' \in 0 .. Passwords, idle' \in IdleChoices,
         had' \in 0 .. Passwords, dated' \in BOOLEAN,
         cookie' \in [Clients -> Tokens \cup {None}],
         failures' \in [Clients -> 0 .. MaxAttempts], AttemptsLeft',
         request' \in [Clients -> Request], writer' \in Clients \cup {None},
         \A c \in Clients : \/ request'[c].kind \in {"none", "setup"}
                            \/ request'[c].kind = request[c].kind
                            \/ admins > 0
  PROVE  IInv'
<1>1. TypeOK'
  BY DEF IInv, TypeOK
<1>2. CurrentRows'
  BY DEF IInv, CurrentRows
<1>3. NobodyYet'
  BY DEF IInv, NobodyYet, TypeOK
<1> QED
  BY <1>1, <1>2, <1>3 DEF IInv, OneAdministrator

\* A step that opens a session that is in no one's hands.
LEMMA RowOpens ==
  ASSUME IInv, NEW t \in Fresh, NEW row \in SessionRow,
         session' \in [Tokens -> SessionRow], session'[t] = row,
         row.signed = password' \/ row.crossed,
         \A u \in Tokens \ {t} : session'[u].there =>
            /\ session[u].there
            /\ \/ session'[u].crossed
               \/ /\ password' = password /\ session'[u].signed = session[u].signed
                  /\ session'[u].crossed = session[u].crossed,
         admins' = 1, password' \in 0 .. Passwords, idle' = idle,
         had' \in 0 .. Passwords, dated' \in BOOLEAN,
         NEW c \in Clients, Ends(c), cookie' = [cookie EXCEPT ![c] = t],
         failures' = failures
  PROVE  IInv'
<1>1. /\ request' \in [Clients -> Request] /\ writer' \in Clients \cup {None}
      /\ request'[c] = Nothing /\ \A d \in Clients \ {c} : request'[d] = request[d]
  BY EndsFacts DEF IInv
<1>2. TypeOK'
  BY <1>1 DEF IInv, TypeOK, Fresh
<1>3. CurrentRows'
  BY DEF IInv, CurrentRows
<1>4. AttemptsLeft'
  BY <1>1 DEF IInv, AttemptsLeft, Nothing
<1> QED
  BY <1>2, <1>3, <1>4 DEF IInv, OneAdministrator, NobodyYet

-----------------------------------------------------------------------------
(* The set-up, and signing in and out. *)

\* A step that leaves every row as it was, or away, brings none back.
LEMMA SameRowsEnd ==
  ASSUME IInv, idle' = idle,
         \A t \in Tokens \ Fresh :
            \/ ~session'[t].there
            \/ /\ session'[t].there = session[t].there /\ session'[t].age = session[t].age
               /\ session'[t].revoked = session[t].revoked /\ session'[t].left = session[t].left
  PROVE  EndedKept
BY DEF EndedKept, Live

\* A step that writes no row at all.
LEMMA NoRowMoves ==
  ASSUME IInv, UNCHANGED <<admins, password, had, dated, session, idle>>,
         cookie' \in [Clients -> Tokens \cup {None}],
         failures' \in [Clients -> 0 .. MaxAttempts], AttemptsLeft',
         request' \in [Clients -> Request], writer' \in Clients \cup {None},
         \A c \in Clients : \/ request'[c].kind \in {"none", "setup"}
                            \/ request'[c].kind = request[c].kind
                            \/ admins > 0
  PROVE  Good
<1>1. /\ session \in [Tokens -> SessionRow] /\ password \in 0 .. Passwords /\ idle \in IdleChoices
      /\ had \in 0 .. Passwords /\ dated \in BOOLEAN
  BY DEF IInv, TypeOK
<1>2. IInv'
  BY <1>1, RowsStay
<1>3. EndedKept
  BY SameRowsEnd
<1> QED
  BY <1>2, <1>3 DEF Good

LEMMA BeginsAreGood ==
  ASSUME IInv, NEW c \in Clients, BeginSetup(c) \/ BeginSignIn(c) PROVE Good
<1>1. PICK r \in Request :
        /\ request' = [request EXCEPT ![c] = r]
        /\ r.kind = "setup" \/ (r.kind = "signin" /\ admins > 0 /\ failures[c] < MaxAttempts)
  <2>1. CASE BeginSetup(c)
    <3>1. [Nothing EXCEPT !.kind = "setup"] \in Request
          /\ [Nothing EXCEPT !.kind = "setup"].kind = "setup"
      BY NothingType DEF Nothing, Request
    <3> QED
      BY <2>1, <3>1 DEF BeginSetup
  <2>2. CASE BeginSignIn(c)
    <3> DEFINE r == [Nothing EXCEPT !.kind = "signin", !.read = password, !.dated = dated]
    <3>1. r \in Request /\ r.kind = "signin"
      BY NothingType DEF Nothing, Request, IInv, TypeOK
    <3>2. failures[c] < MaxAttempts
      BY <2>2, ConstantsAssumption DEF BeginSignIn, LockedOut, IInv, TypeOK
    <3> QED
      BY <2>2, <3>1, <3>2 DEF BeginSignIn
  <2> QED
    BY <2>1, <2>2
<1>2. /\ UNCHANGED <<admins, password, had, dated, session, idle, cookie, failures, writer>>
      /\ cookie \in [Clients -> Tokens \cup {None}] /\ failures \in [Clients -> 0 .. MaxAttempts]
      /\ writer \in Clients \cup {None} /\ request \in [Clients -> Request]
  BY DEF BeginSetup, BeginSignIn, IInv, TypeOK
<1>3. /\ request' \in [Clients -> Request] /\ request'[c] = r
      /\ \A d \in Clients \ {c} : request'[d] = request[d]
  BY <1>1, <1>2
<1>4. AttemptsLeft'
  BY <1>1, <1>2, <1>3 DEF IInv, AttemptsLeft
<1> QED
  BY <1>1, <1>2, <1>3, <1>4, NoRowMoves

LEMMA WrongCodeIsGood == ASSUME IInv, NEW c \in Clients, WrongCode(c) PROVE Good
<1>1. /\ failures[c] < MaxAttempts /\ failures' = [failures EXCEPT ![c] = failures[c] + 1]
      /\ UNCHANGED <<admins, password, had, dated, session, idle, cookie, request, writer>>
      /\ request[c] = Nothing
  BY ConstantsAssumption DEF WrongCode, LockedOut, Fails, Free, IInv, TypeOK
<1>2. failures' \in [Clients -> 0 .. MaxAttempts]
  BY <1>1, ConstantsAssumption DEF IInv, TypeOK
<1>3. AttemptsLeft'
  BY <1>1 DEF IInv, TypeOK, AttemptsLeft, Nothing
<1> QED
  BY <1>1, <1>2, <1>3, NoRowMoves DEF IInv, TypeOK

LEMMA FinishSetupIsGood == ASSUME IInv, NEW c \in Clients, FinishSetup(c) PROVE Good
<1>1. Ends(c) /\ idle' = idle /\ failures' = failures
  BY DEF FinishSetup
<1>2. CASE /\ admins = 0
           /\ \E t \in Fresh : /\ admins' = 1 /\ password' = 1 /\ had' = 1 /\ dated' = FALSE
                               /\ session' = [session EXCEPT ![t] = Opened(1, FALSE)]
                               /\ cookie' = [cookie EXCEPT ![c] = t]
  <2>1. PICK t \in Fresh : /\ admins' = 1 /\ password' = 1 /\ had' = 1 /\ dated' = FALSE
                           /\ session' = [session EXCEPT ![t] = Opened(1, FALSE)]
                           /\ cookie' = [cookie EXCEPT ![c] = t]
    BY <1>2
  <2>2. t \in Tokens /\ 1 \in 0 .. Passwords
    BY ConstantsAssumption DEF Fresh
  <2>3. Opened(1, FALSE) \in SessionRow /\ Opened(1, FALSE).signed = 1
    BY <2>2, RowType DEF Opened
  <2>4. /\ session' \in [Tokens -> SessionRow] /\ session'[t] = Opened(1, FALSE)
        /\ \A u \in Tokens \ {t} : session'[u] = session[u]
    BY <2>1, <2>2, <2>3 DEF IInv, TypeOK
  <2>5. \A u \in Tokens : ~session[u].there
    BY <1>2 DEF IInv, NobodyYet
  <2>6. IInv'
    BY <1>1, <2>1, <2>2, <2>3, <2>4, <2>5, RowOpens
  <2>7. EndedKept
    BY <1>1, <2>4, SameRowsEnd
  <2> QED
    BY <2>6, <2>7 DEF Good
<1>3. CASE UNCHANGED <<admins, password, had, dated, session, cookie>>
  <2>1. /\ request' \in [Clients -> Request] /\ writer' \in Clients \cup {None}
        /\ request'[c] = Nothing /\ \A d \in Clients \ {c} : request'[d] = request[d]
    BY <1>1, EndsFacts DEF IInv
  <2>2. AttemptsLeft'
    BY <1>1, <2>1 DEF IInv, AttemptsLeft, Nothing
  <2> QED
    BY <1>1, <1>3, <2>1, <2>2, NoRowMoves DEF IInv, TypeOK, Nothing
<1> QED
  BY <1>2, <1>3 DEF FinishSetup

\* The session opened is crossed, or of the password in force; so are those
\* that were there.
LEMMA FinishSignInIsGood == ASSUME IInv, NEW c \in Clients, FinishSignIn(c) PROVE Good
<1>1. /\ Ends(c) /\ UNCHANGED <<admins, had, idle>>
      /\ request[c].kind = "signin" /\ request[c].read \in 0 .. Passwords
      /\ request[c].dated \in BOOLEAN
  BY DEF FinishSignIn, IInv, TypeOK, Request
<1>2. admins = 1
  <2>1. admins # 0
    BY <1>1 DEF IInv, NobodyYet
  <2> QED
    BY <2>1 DEF IInv, TypeOK, OneAdministrator
<1>3. /\ request' \in [Clients -> Request] /\ writer' \in Clients \cup {None}
      /\ request'[c] = Nothing /\ \A d \in Clients \ {c} : request'[d] = request[d]
  BY <1>1, EndsFacts DEF IInv
<1>4. CASE Fails(c) /\ UNCHANGED <<password, dated, session, cookie>>
  <2>1. failures[c] < MaxAttempts /\ failures' = [failures EXCEPT ![c] = failures[c] + 1]
    BY <1>1, <1>4 DEF Fails, IInv, AttemptsLeft
  <2>2. failures' \in [Clients -> 0 .. MaxAttempts]
    BY <2>1, ConstantsAssumption DEF IInv, TypeOK
  <2>3. AttemptsLeft'
    BY <1>3, <2>1 DEF IInv, TypeOK, AttemptsLeft, Nothing
  <2> QED
    BY <1>1, <1>3, <1>4, <2>2, <2>3, NoRowMoves DEF IInv, TypeOK, Nothing
<1>5. ASSUME NEW t \in Fresh,
             password' = Rehashed(c), dated' = (dated /\ ~request[c].dated),
             session' = [[u \in Tokens |-> Beside(c, u)] EXCEPT
                          ![t] = Opened(request[c].read, request[c].read # Rehashed(c))],
             cookie' = [cookie EXCEPT ![c] = t], failures' = failures
      PROVE  Good
  <2> DEFINE row == Opened(request[c].read, request[c].read # Rehashed(c))
             back == Rehashed(c) # password
  <2>1. row \in SessionRow /\ (row.signed = password' \/ row.crossed)
    BY <1>1, <1>5, RowType DEF Opened
  <2>2. t \in Tokens /\ session \in [Tokens -> SessionRow]
    BY DEF Fresh, IInv, TypeOK
  <2>3. \A u \in Tokens : Beside(c, u) = [session[u] EXCEPT !.crossed =
                                            session[u].crossed \/ (session[u].there /\ back)]
    BY DEF Beside
  <2>4. session'[t] = row /\ \A u \in Tokens \ {t} : session'[u] = Beside(c, u)
    BY <1>5, <2>2
  <2> HIDE DEF row, back
  <2>5. ASSUME NEW u \in Tokens
        PROVE  /\ Beside(c, u) \in SessionRow
               /\ Beside(c, u).there = session[u].there /\ Beside(c, u).age = session[u].age
               /\ Beside(c, u).revoked = session[u].revoked /\ Beside(c, u).left = session[u].left
               /\ Beside(c, u).signed = session[u].signed
               /\ ~back => Beside(c, u).crossed = session[u].crossed
               /\ session[u].there /\ back => Beside(c, u).crossed
    <3>1. session[u] \in SessionRow
      BY <2>2
    <3> QED
      BY <2>3, <3>1 DEF SessionRow
  <2>6. session' \in [Tokens -> SessionRow]
    BY <1>5, <2>1, <2>2, <2>5 DEF row
  <2>7. \A u \in Tokens \ {t} : session'[u].there =>
          /\ session[u].there
          /\ \/ session'[u].crossed
             \/ /\ password' = password /\ session'[u].signed = session[u].signed
                /\ session'[u].crossed = session[u].crossed
    BY <1>5, <2>4, <2>5 DEF back
  <2>8. password' \in 0 .. Passwords /\ had' \in 0 .. Passwords /\ dated' \in BOOLEAN
    BY <1>1, <1>5 DEF IInv, TypeOK, Rehashed
  <2>9. IInv'
    BY <1>1, <1>2, <1>5, <2>1, <2>4, <2>6, <2>7, <2>8, RowOpens
  <2>10. EndedKept
    BY <1>1, <2>4, <2>5, SameRowsEnd
  <2> QED
    BY <2>9, <2>10 DEF Good
<1> QED
  BY <1>4, <1>5 DEF FinishSignIn

LEMMA LogoutIsGood == ASSUME IInv, NEW c \in Clients, Logout(c) PROVE Good
<1> DEFINE t == cookie[c]
<1>1. /\ t \in Tokens /\ session[t] \in SessionRow /\ session \in [Tokens -> SessionRow]
      /\ UNCHANGED <<admins, password, had, dated, idle, failures, request, writer>>
      /\ session' = [session EXCEPT ![t] = [session[t] EXCEPT !.revoked =
                                              session[t].revoked \/ session[t].there]]
      /\ cookie' = [cookie EXCEPT ![c] = None]
  BY DEF Logout, IInv, TypeOK
<1> HIDE DEF t
<1>2. LET r == [session[t] EXCEPT !.revoked = session[t].revoked \/ session[t].there]
      IN /\ r \in SessionRow /\ r.there = session[t].there /\ r.signed = session[t].signed
         /\ r.crossed = session[t].crossed /\ (r.there => r.revoked)
  BY <1>1 DEF SessionRow
<1>3. /\ session' \in [Tokens -> SessionRow]
      /\ \A u \in Tokens : /\ session'[u].there = session[u].there
                           /\ session'[u].signed = session[u].signed
                           /\ session'[u].crossed = session[u].crossed
                           /\ u # t => session'[u] = session[u]
      /\ session'[t].there => session'[t].revoked
  BY <1>1, <1>2
<1>4. cookie' \in [Clients -> Tokens \cup {None}]
  BY <1>1 DEF IInv, TypeOK
<1>5. IInv'
  BY <1>1, <1>3, <1>4, RowsStay DEF IInv, TypeOK, AttemptsLeft
<1>6. EndedKept
  BY <1>1, <1>3 DEF EndedKept, Live
<1> QED
  BY <1>5, <1>6 DEF Good

-----------------------------------------------------------------------------
(* Requests of a signed-in browser. *)

\* Whoever is signed in has been set up.
LEMMA SignedInFacts ==
  ASSUME IInv, NEW c \in Clients, SignedIn(c)
  PROVE  /\ cookie[c] \in Tokens /\ session[cookie[c]] \in SessionRow
         /\ session[cookie[c]].there /\ Live(cookie[c], idle) /\ admins = 1
<1>1. cookie[c] \in Tokens /\ session[cookie[c]].there /\ Live(cookie[c], idle)
  BY DEF SignedIn, Live, IInv, TypeOK
<1>2. admins # 0
  BY <1>1 DEF IInv, NobodyYet
<1> QED
  BY <1>1, <1>2 DEF IInv, TypeOK, OneAdministrator

LEMMA BeginsOfSignedInAreGood ==
  ASSUME IInv, NEW c \in Clients, BeginPage(c) \/ BeginChange(c) PROVE Good
<1>1. /\ SignedIn(c) /\ UNCHANGED <<admins, password, had, dated, session, idle, cookie, failures>>
  BY DEF BeginPage, BeginChange
<1>2. cookie[c] \in Tokens /\ admins = 1
  BY <1>1, SignedInFacts
<1>3. PICK r \in Request : request' = [request EXCEPT ![c] = r] /\ r.kind \in {"page", "change"}
  <2>1. CASE BeginPage(c)
    <3> DEFINE r == [Nothing EXCEPT !.kind = "page", !.touches = cookie[c]]
    <3>1. r \in Request /\ r.kind = "page"
      BY <1>2, NothingType DEF Nothing, Request
    <3> QED
      BY <2>1, <3>1 DEF BeginPage
  <2>2. CASE BeginChange(c)
    <3>1. PICK t \in Tokens \cup {None} :
            request' = [request EXCEPT ![c] =
                          [Nothing EXCEPT !.kind = "change", !.read = password, !.touches = t]]
      BY <1>2, <2>2 DEF BeginChange
    <3>2. [Nothing EXCEPT !.kind = "change", !.read = password, !.touches = t] \in Request
          /\ [Nothing EXCEPT !.kind = "change", !.read = password, !.touches = t].kind = "change"
      BY NothingType DEF Nothing, Request, IInv, TypeOK
    <3> QED
      BY <3>1, <3>2
  <2> QED
    BY <2>1, <2>2
<1>4. /\ request' \in [Clients -> Request] /\ request'[c] = r
      /\ \A d \in Clients \ {c} : request'[d] = request[d]
  BY <1>3 DEF IInv, TypeOK
<1>5. writer' \in Clients \cup {None}
  BY DEF BeginPage, BeginChange, IInv, TypeOK
<1>6. AttemptsLeft'
  BY <1>1, <1>3, <1>4 DEF IInv, AttemptsLeft
<1> QED
  BY <1>1, <1>2, <1>4, <1>5, <1>6, NoRowMoves DEF IInv, TypeOK

\* A page, or a change of password that came to nothing, writes the last use of
\* the session in hand.
LEMMA TouchingIsGood ==
  ASSUME IInv, NEW c \in Clients, Ends(c), session' = Touched(c),
         UNCHANGED <<admins, password, had, dated, idle, cookie, failures>>
  PROVE  Good
<1>1. /\ request' \in [Clients -> Request] /\ writer' \in Clients \cup {None}
      /\ request'[c] = Nothing /\ \A d \in Clients \ {c} : request'[d] = request[d]
  BY EndsFacts DEF IInv
<1>2. /\ session' \in [Tokens -> SessionRow]
      /\ \A t \in Tokens : /\ session'[t].there = session[t].there
                           /\ session'[t].signed = session[t].signed
                           /\ session'[t].crossed = session[t].crossed
                           /\ t # request[c].touches => session'[t] = session[t]
  BY TouchedFacts DEF IInv
<1>3. AttemptsLeft'
  BY <1>1 DEF IInv, AttemptsLeft, Nothing
<1>4. /\ password' \in 0 .. Passwords /\ idle' \in IdleChoices
      /\ had' \in 0 .. Passwords /\ dated' \in BOOLEAN
      /\ cookie' \in [Clients -> Tokens \cup {None}]
      /\ failures' \in [Clients -> 0 .. MaxAttempts]
  BY DEF IInv, TypeOK
<1>5. \A d \in Clients : request'[d].kind = "none" \/ request'[d].kind = request[d].kind
  BY <1>1 DEF Nothing
<1>6. IInv'
  BY <1>1, <1>2, <1>3, <1>4, <1>5, RowsStay
<1>7. EndedKept
  BY <1>2 DEF EndedKept, Live
<1> QED
  BY <1>6, <1>7 DEF Good

LEMMA FinishPageIsGood == ASSUME IInv, NEW c \in Clients, FinishPage(c) PROVE Good
BY TouchingIsGood DEF FinishPage

\* Every session but the new one goes.
LEMMA FinishChangeIsGood == ASSUME IInv, NEW c \in Clients, FinishChange(c) PROVE Good
<1>1. Ends(c) /\ UNCHANGED <<admins, idle, failures>> /\ request[c].kind = "change"
  BY DEF FinishChange
<1>2. admins = 1
  <2>1. admins # 0
    BY <1>1 DEF IInv, NobodyYet
  <2> QED
    BY <2>1 DEF IInv, TypeOK, OneAdministrator
<1>3. CASE had < Passwords /\ Change(c)
  <2>1. PICK t \in Fresh :
          /\ session' = [u \in Tokens |-> IF u = t THEN Opened(had + 1, FALSE) ELSE NoSession]
          /\ cookie' = [cookie EXCEPT ![c] = t]
    BY <1>3 DEF Change
  <2>2. password' = had + 1 /\ password' \in 0 .. Passwords /\ had' = had + 1 /\ dated' = FALSE
    BY <1>3, ConstantsAssumption DEF Change, IInv, TypeOK
  <2>3. t \in Tokens /\ NoSession \in SessionRow /\ Opened(had + 1, FALSE) \in SessionRow
        /\ Opened(had + 1, FALSE).signed = password'
    BY <2>2, RowType DEF Fresh, Opened
  <2>4. /\ session' \in [Tokens -> SessionRow] /\ session'[t] = Opened(had + 1, FALSE)
        /\ \A u \in Tokens \ {t} : ~session'[u].there
    BY <2>1, <2>3 DEF NoSession
  <2>5. IInv'
    BY <1>1, <1>2, <2>1, <2>2, <2>3, <2>4, RowOpens
  <2>6. EndedKept
    BY <1>1, <2>4, SameRowsEnd
  <2> QED
    BY <2>5, <2>6 DEF Good
<1>4. CASE session' = Touched(c) /\ UNCHANGED <<password, had, dated, cookie>>
  BY <1>1, <1>4, TouchingIsGood
<1> QED
  BY <1>3, <1>4 DEF FinishChange

LEMMA EndOthersIsGood == ASSUME IInv, NEW c \in Clients, EndOthers(c) PROVE Good
<1> DEFINE t == cookie[c]
<1>1. /\ t \in Tokens /\ session[t] \in SessionRow /\ session[t].there /\ Live(t, idle)
      /\ UNCHANGED <<admins, password, had, dated, idle, cookie, failures, request, writer>>
      /\ session' = [u \in Tokens |-> IF u = t THEN [session[u] EXCEPT !.age = 0] ELSE NoSession]
  BY SignedInFacts DEF EndOthers
<1> HIDE DEF t
<1>2. LET r == [session[t] EXCEPT !.age = 0]
      IN /\ r \in SessionRow /\ r.signed = session[t].signed /\ r.crossed = session[t].crossed
  BY <1>1, TimeoutType DEF SessionRow
<1>3. /\ session' \in [Tokens -> SessionRow]
      /\ session'[t].signed = session[t].signed /\ session'[t].crossed = session[t].crossed
      /\ \A u \in Tokens \ {t} : ~session'[u].there
  BY <1>1, <1>2, RowType DEF NoSession
<1>4. IInv'
  BY <1>1, <1>3, RowsStay DEF IInv, TypeOK, AttemptsLeft
<1>5. EndedKept
  BY <1>1, <1>3 DEF EndedKept
<1> QED
  BY <1>4, <1>5 DEF Good

-----------------------------------------------------------------------------
(* Cleaning up, and the clock. *)

\* Only rows that had timed out go, and all of those that had.
LEMMA WithoutIdleFacts ==
  ASSUME NEW rows \in [Tokens -> SessionRow], NEW timeout
  PROVE  /\ WithoutIdle(rows, timeout) \in [Tokens -> SessionRow]
         /\ \A t \in Tokens : /\ rows[t].age > timeout => WithoutIdle(rows, timeout)[t] = NoSession
                              /\ ~(rows[t].age > timeout) => WithoutIdle(rows, timeout)[t] = rows[t]
<1>1. \A t \in Tokens : WithoutIdle(rows, timeout)[t] = IF rows[t].age > timeout THEN NoSession
                                                        ELSE rows[t]
  BY DEF WithoutIdle
<1>2. \A t \in Tokens : WithoutIdle(rows, timeout)[t] \in SessionRow
  BY <1>1, RowType
<1>3. WithoutIdle(rows, timeout) = [t \in Tokens |-> WithoutIdle(rows, timeout)[t]]
  BY DEF WithoutIdle
<1> QED
  BY <1>1, <1>2, <1>3

\* The timeout changes; what the old one had ended stays ended.
LEMMA SaveIdleIsGood ==
  ASSUME IInv, NEW c \in Clients, NEW new \in IdleChoices, SaveIdle(c, new) PROVE Good
<1> DEFINE t    == cookie[c]
           rows == [session EXCEPT ![t] = [session[t] EXCEPT !.age = 0]]
<1>1. /\ t \in Tokens /\ session[t] \in SessionRow /\ Live(t, idle)
      /\ UNCHANGED <<admins, password, had, dated, cookie, failures, request, writer>>
      /\ idle' = new /\ session' = WithoutIdle(rows, Cut(idle, new))
      /\ session \in [Tokens -> SessionRow]
  BY SignedInFacts DEF SaveIdle, IInv, TypeOK
<1>2. idle \in Nat /\ new \in Nat /\ Cut(idle, new) <= idle /\ Cut(idle, new) <= new
      /\ Cut(idle, new) \in Nat
  BY ConstantsAssumption DEF Cut, IInv, TypeOK
<1> HIDE DEF t
<1>3. LET r == [session[t] EXCEPT !.age = 0]
      IN /\ r \in SessionRow /\ r.there = session[t].there /\ r.signed = session[t].signed
         /\ r.crossed = session[t].crossed
  BY <1>1, TimeoutType DEF SessionRow
<1>4. /\ rows \in [Tokens -> SessionRow]
      /\ \A u \in Tokens : /\ rows[u].there = session[u].there /\ rows[u].signed = session[u].signed
                           /\ rows[u].crossed = session[u].crossed
                           /\ u # t => rows[u] = session[u]
  BY <1>1, <1>3
<1> HIDE DEF rows
<1>5. /\ session' \in [Tokens -> SessionRow]
      /\ \A u \in Tokens : /\ rows[u].age > Cut(idle, new) => session'[u] = NoSession
                           /\ ~(rows[u].age > Cut(idle, new)) => session'[u] = rows[u]
  BY <1>1, <1>4, WithoutIdleFacts
<1>6. IInv'
  <2>1. \A u \in Tokens : session'[u].there =>
          /\ session[u].there
          /\ session'[u].signed = session[u].signed /\ session'[u].crossed = session[u].crossed
    BY <1>4, <1>5 DEF NoSession
  <2> QED
    BY <1>1, <1>5, <2>1, RowsStay DEF IInv, TypeOK, AttemptsLeft
<1>7. EndedKept
  <2> SUFFICES ASSUME NEW u \in Tokens, ~Live(u, idle),
                      session'[u].there, ~session'[u].revoked, session'[u].left > 0
               PROVE  FALSE
    BY DEF EndedKept
  <2>1. u # t
    BY <1>1
  <2>2. session'[u] = session[u] /\ ~(session[u].age > Cut(idle, new))
    BY <1>4, <1>5, <2>1 DEF NoSession
  <2>3. session[u].age \in Nat
    BY <1>1, TimeoutType DEF SessionRow
  <2>4. session[u].age <= idle
    BY <1>2, <2>2, <2>3
  <2> QED
    BY <2>2, <2>4 DEF Live
<1> QED
  BY <1>6, <1>7 DEF Good

LEMMA ResetIsGood == ASSUME IInv, ResetPassword PROVE Good
<1>1. /\ UNCHANGED <<admins, idle, cookie, failures, request, writer>>
      /\ \A t \in Tokens : ~session'[t].there
      /\ session' \in [Tokens -> SessionRow]
  BY RowType DEF ResetPassword, NoSession
<1>2. password' \in 0 .. Passwords /\ had' \in 0 .. Passwords /\ dated' \in BOOLEAN
  <2>1. password' = had + 1 /\ had' = had + 1 /\ had < Passwords /\ dated' = FALSE
    BY DEF ResetPassword
  <2>2. had \in 0 .. Passwords /\ Passwords \in Nat
    BY ConstantsAssumption DEF IInv, TypeOK
  <2>3. dated' \in BOOLEAN
    BY <2>1
  <2> QED
    BY <2>1, <2>2, <2>3
<1>3. IInv'
  BY <1>1, <1>2, RowsStay DEF IInv, TypeOK, AttemptsLeft
<1> QED
  BY <1>1, <1>3 DEF Good, EndedKept

\* A restart leaves the tables alone.
LEMMA RestartIsGood == ASSUME IInv, Restart PROVE Good
<1>1. /\ UNCHANGED <<admins, password, had, session, idle, cookie, failures>>
      /\ request' \in [Clients -> Request] /\ writer' = None
      /\ \A c \in Clients : request'[c].kind = "none"
  BY NothingType DEF Restart, Nothing
<1>2. dated' \in BOOLEAN
  <2>1. dated' = dated \/ dated' = (admins > 0)
    BY DEF Restart
  <2>2. dated \in BOOLEAN
    BY DEF IInv, TypeOK
  <2>3. (admins > 0) \in BOOLEAN
    OBVIOUS
  <2> QED
    BY <2>1, <2>2, <2>3, Zenon
<1>3. IInv'
  BY <1>1, <1>2, RowsStay DEF IInv, TypeOK, AttemptsLeft
<1>4. EndedKept
  BY <1>1, SameRowsEnd
<1> QED
  BY <1>3, <1>4 DEF Good

LEMMA PurgeIsGood == ASSUME IInv, Purge PROVE Good
<1> DEFINE rows == [t \in Tokens |-> IF session[t].left = 0 THEN NoSession ELSE session[t]]
<1>1. /\ session \in [Tokens -> SessionRow] /\ session' = WithoutIdle(rows, idle)
      /\ UNCHANGED <<admins, password, had, dated, idle, cookie, failures, request, writer>>
  BY DEF Purge, IInv, TypeOK
<1>2. rows \in [Tokens -> SessionRow] /\ \A t \in Tokens : rows[t] \in {NoSession, session[t]}
  BY <1>1, RowType
<1> HIDE DEF rows
<1>3. /\ session' \in [Tokens -> SessionRow]
      /\ \A t \in Tokens : session'[t] \in {NoSession, session[t]}
  BY <1>1, <1>2, WithoutIdleFacts
<1>4. \A t \in Tokens : ~session'[t].there \/ session'[t] = session[t]
  BY <1>3 DEF NoSession
<1>5. IInv'
  BY <1>1, <1>3, <1>4, RowsStay DEF IInv, TypeOK, AttemptsLeft
<1>6. EndedKept
  BY <1>1, <1>4, SameRowsEnd
<1> QED
  BY <1>5, <1>6 DEF Good

\* A row only grows older.
LEMMA PassIsGood == ASSUME IInv, Pass PROVE Good
<1>1. /\ session \in [Tokens -> SessionRow]
      /\ session' = [t \in Tokens |->
           IF ~session[t].there THEN NoSession
           ELSE [session[t] EXCEPT
                   !.age  = IF session[t].age <= Longest THEN session[t].age + 1 ELSE session[t].age,
                   !.left = IF session[t].left > 0 THEN session[t].left - 1 ELSE 0]]
      /\ UNCHANGED <<admins, password, had, dated, idle, cookie, writer>>
      /\ idle \in Nat /\ idle <= Longest
  BY TimeoutType, ConstantsAssumption DEF Pass, IInv, TypeOK
<1>2. ASSUME NEW t \in Tokens
      PROVE  /\ session'[t] \in SessionRow
             /\ session'[t].there => session[t].there
             /\ session'[t].there =>
                  /\ session'[t].signed = session[t].signed
                  /\ session'[t].crossed = session[t].crossed
                  /\ session'[t].revoked = session[t].revoked
                  /\ session'[t].left > 0 => session[t].left > 0
                  /\ session'[t].age <= idle => session[t].age <= idle
  <2>1. CASE ~session[t].there
    BY <1>1, <2>1, RowType DEF NoSession
  <2>2. CASE session[t].there
    <3> DEFINE g == IF session[t].age <= Longest THEN session[t].age + 1 ELSE session[t].age
               l == IF session[t].left > 0 THEN session[t].left - 1 ELSE 0
    <3>1. session[t] \in SessionRow /\ session'[t] = [session[t] EXCEPT !.age = g, !.left = l]
      BY <1>1, <2>2
    <3>2. /\ session[t].age \in 0 .. Longest + 1 /\ session[t].left \in 0 .. SessionLife
          /\ Longest \in Nat /\ SessionLife \in Nat
      BY <3>1, TimeoutType, ConstantsAssumption DEF SessionRow
    <3>3. /\ g \in 0 .. Longest + 1 /\ l \in 0 .. SessionLife
          /\ l > 0 => session[t].left > 0
          /\ g <= idle => session[t].age <= idle
      <4>1. idle \in Nat
        BY <1>1
      <4>2. g \in 0 .. Longest + 1 /\ (g <= idle => session[t].age <= idle)
        BY <3>2, <4>1
      <4>3. l \in 0 .. SessionLife /\ (l > 0 => session[t].left > 0)
        BY <3>2
      <4> QED
        BY <4>2, <4>3
    <3> HIDE DEF g, l
    <3> QED
      BY <3>1, <3>3 DEF SessionRow
  <2> QED
    BY <2>1, <2>2
<1>3. session' \in [Tokens -> SessionRow]
  BY <1>1, <1>2
<1>4. request' \in [Clients -> Request] /\ \A c \in Clients : request'[c].kind = request[c].kind
  <2>1. ASSUME NEW c \in Clients
        PROVE  request'[c] \in Request /\ request'[c].kind = request[c].kind
    <3> DEFINE g == IF request[c].age <= Longest THEN request[c].age + 1 ELSE request[c].age
    <3>1. request[c] \in Request /\ request'[c] \in {request[c], [request[c] EXCEPT !.age = g]}
      BY DEF Pass, IInv, TypeOK
    <3>2. g \in 0 .. Longest + 1
      BY <3>1, TimeoutType DEF Request
    <3> HIDE DEF g
    <3> QED
      BY <3>1, <3>2 DEF Request
  <2> QED
    BY <2>1 DEF Pass
<1>5. failures' \in [Clients -> 0 .. MaxAttempts] /\ AttemptsLeft'
  <2>1. \A c \in Clients : failures'[c] \in {0, failures[c]}
    BY DEF Pass
  <2>2. 0 < MaxAttempts
    BY ConstantsAssumption
  <2> QED
    BY <1>4, <2>1, <2>2 DEF Pass, IInv, AttemptsLeft
<1>6. IInv'
  BY <1>1, <1>2, <1>3, <1>4, <1>5, RowsStay DEF IInv, TypeOK
<1>7. EndedKept
  BY <1>1, <1>2 DEF EndedKept, Live
<1> QED
  BY <1>6, <1>7 DEF Good

-----------------------------------------------------------------------------
(* The specification. *)

LEMMA InitIInv == Init => IInv
<1> SUFFICES ASSUME Init PROVE IInv
  OBVIOUS
<1>1. TypeOK
  <2>1. /\ password \in 0 .. Passwords /\ had \in 0 .. Passwords
        /\ 0 \in 0 .. MaxAttempts /\ admins \in Nat
    BY ConstantsAssumption DEF Init
  <2>2. dated \in BOOLEAN
    BY DEF Init
  <2> QED
    BY <2>1, <2>2, RowType, NothingType, TimeoutType DEF Init, TypeOK
<1>2. OneAdministrator /\ CurrentRows /\ NobodyYet /\ AttemptsLeft
  BY DEF Init, OneAdministrator, CurrentRows, NobodyYet, AttemptsLeft, NoSession, Nothing
<1> QED
  BY <1>1, <1>2 DEF IInv

LEMMA StepIsGood == IInv /\ [Next]_vars => Good
<1> SUFFICES ASSUME IInv, [Next]_vars PROVE Good
  OBVIOUS
<1>1. ASSUME NEW c \in Clients,
             \/ BeginSetup(c) \/ WrongCode(c) \/ FinishSetup(c)
             \/ BeginSignIn(c) \/ FinishSignIn(c) \/ Logout(c)
      PROVE  Good
  BY <1>1, BeginsAreGood, WrongCodeIsGood, FinishSetupIsGood, FinishSignInIsGood, LogoutIsGood
<1>2. ASSUME NEW c \in Clients,
             \/ BeginPage(c) \/ FinishPage(c)
             \/ BeginChange(c) \/ FinishChange(c) \/ EndOthers(c)
      PROVE  Good
  BY <1>2, BeginsOfSignedInAreGood, FinishPageIsGood, FinishChangeIsGood, EndOthersIsGood
<1>3. ASSUME NEW c \in Clients, NEW new \in IdleChoices, SaveIdle(c, new) PROVE Good
  BY <1>3, SaveIdleIsGood
<1>4. CASE ResetPassword \/ Restart \/ Purge \/ Pass
  BY <1>4, ResetIsGood, RestartIsGood, PurgeIsGood, PassIsGood
<1>5. CASE UNCHANGED vars
  BY <1>5, NoRowMoves DEF vars, IInv, TypeOK, AttemptsLeft
<1> QED
  BY <1>1, <1>2, <1>3, <1>4, <1>5 DEF Next

THEOREM Invariance == Spec => []IInv
<1>1. IInv /\ [Next]_vars => IInv'
  BY StepIsGood DEF Good
<1> QED
  BY InitIInv, <1>1, PTL DEF Spec

\* The tables keep their form; no address has more failed attempts counted than
\* lock it out (auth.py check_rate_limit, authenticate).
THEOREM TypeCorrect == Spec => []TypeOK
<1>1. IInv => TypeOK
  BY DEF IInv
<1> QED
  BY Invariance, <1>1, PTL

\* However many set-up forms are posted at once (auth.py create_admin).
THEOREM OneAdministratorOnly == Spec => []OneAdministrator
<1>1. IInv => OneAdministrator
  BY DEF IInv
<1> QED
  BY Invariance, <1>1, PTL

\* A session that is good was opened with the password in force, but for one a
\* sign-in and a change crossed about (auth.py authenticate, change_password,
\* set_password).
THEOREM SessionsOfThePassword == Spec => []SessionsAreCurrent
<1>1. IInv => SessionsAreCurrent
  BY DEF IInv, CurrentRows, SessionsAreCurrent, Listed
<1> QED
  BY Invariance, <1>1, PTL

\* What has ended stays ended, whatever is done to the timeout (auth.py
\* end_idle_sessions, routes_preferences.py save_preferences).
THEOREM EndedIsKept == Spec => EndedStaysEnded
<1>1. IInv /\ [Next]_vars => [EndedKept]_vars
  BY StepIsGood DEF Good
<1> QED
  BY Invariance, <1>1, PTL DEF Spec, EndedStaysEnded, EndedKept

=============================================================================
