-------------------------------- MODULE Auth --------------------------------
(***************************************************************************)
(* Accounts, sessions and the throttling of sign-ins (backend/store.go,    *)
(* handlers_auth.go, handlers_misc.go, middleware.go), with the doors the  *)
(* portal and the dashboard add to the same three tables.                  *)
(*                                                                         *)
(* A request runs in a goroutine of one of three processes, and each SQL   *)
(* statement is a transaction of its own.  A step is one statement with    *)
(* the decisions that follow it; between two steps every other request     *)
(* may run, and the process may fail.                                      *)
(*                                                                         *)
(* There is no absolute clock: a failed attempt carries its age, a session *)
(* the time it has left.  Attempts older than the login window are         *)
(* forgotten, which nothing the code does can tell: it deletes them after  *)
(* 24 hours and counts those of the window.                                *)
(***************************************************************************)
EXTENDS Integers, FiniteSetsExt

CONSTANTS
  Requests,     \* goroutines, each serving one request after another
  Users,        \* e-mail addresses as stored, with or without an account yet
  Spellings,    \* what is typed for one, with or without blanks around it
  AccountOf,    \* the address a spelling is trimmed to
  Role,         \* the role of each account: admin, reseller or customer
  Bootstrap,    \* the administrator created before the first start
  IPs,          \* source addresses of sign-ins
  Tokens,       \* names for rows of sessions, reused when a row is gone
  MaxFailures,  \* MaxLoginFailures
  IPFactor,     \* 3: an address may fail for several e-mails
  Window,       \* LoginWindow, in ticks
  TTL,          \* SessionTTL, in ticks
  None

ASSUME AuthAssumption ==
  /\ Role \in [Users -> {"admin", "reseller", "customer"}]
  /\ AccountOf \in [Spellings -> Users]
  /\ Bootstrap \in Users /\ Role[Bootstrap] = "admin"
  /\ MaxFailures \in Nat \ {0} /\ IPFactor \in Nat \ {0}
  /\ Window \in Nat /\ TTL \in Nat \ {0}
  /\ IsFiniteSet(Requests) /\ IsFiniteSet(Spellings) /\ IsFiniteSet(IPs)

VARIABLES
  status,    \* status[u]: users.status, "absent" without an account
  sessions,  \* sessions[t]: user, time left, mark; or None
  failures,  \* failures[<<s, ip, age>>]: rows of login_attempts
  request    \* request[r]: pc, its account, the e-mail as typed, its address

vars == <<status, sessions, failures, request>>

Ages == 0..Window
Attempts == Spellings \X IPs \X Ages

\* mark says what became of a session after the account's password changed or
\* the account was disabled: it waits for its eviction ("stale"), the eviction
\* failed ("kept"), or a sign-in that had passed the check before the change
\* opened it afterwards ("late").  outdated is that of a sign-in under way.
Marks == {"fresh", "stale", "kept", "late"}

Session == [user: Users, left: 0..TTL, mark: Marks]
ASSUME NoSession == None \notin Session

Idle == [pc |-> "idle", user |-> None, typed |-> None, ip |-> None, outdated |-> FALSE]

Init ==
  /\ status = [u \in Users |-> IF u = Bootstrap THEN "active" ELSE "absent"]
  /\ sessions = [t \in Tokens |-> None]
  /\ failures = [k \in Attempts |-> 0]
  /\ request = [r \in Requests |-> Idle]

At(r, pc)   == request[r].pc = pc
Goto(r, pc) == request' = [request EXCEPT ![r].pc = pc]
Finish(r)   == request' = [request EXCEPT ![r] = Idle]

------------------------------------------------------------------------------
(* Signing in.  A refused sign-in beyond the limit changes nothing.        *)

\* RecentFailures: the rows of the window by e-mail and by address.  It and
\* RecordLoginAttempt take the e-mail as it was typed, in lower case;
\* UserByEmail alone trims it.
FailuresOf(s)    == MapThenSumSet(LAMBDA k : failures[k], {s} \X IPs \X Ages)
FailuresFrom(ip) == MapThenSumSet(LAMBDA k : failures[k], Spellings \X {ip} \X Ages)

Doors == {"api", "portal", "dashboard"}
PortalAdmits(u)    == Role[u] = "customer"
DashboardAdmits(u) == Role[u] \in {"admin", "reseller"}
Admits(door, u) ==
  \/ door = "api"
  \/ door = "portal" /\ PortalAdmits(u)
  \/ door = "dashboard" /\ DashboardAdmits(u)

\* Mutants: the limit is passed once more; a refused attempt is recorded too.
CheckEmail_OffByOne(r, s, ip) ==
  /\ At(r, "idle")
  /\ FailuresOf(s) <= MaxFailures
  /\ request' = [request EXCEPT ![r] =
       [pc |-> "ip", user |-> AccountOf[s], typed |-> s, ip |-> ip, outdated |-> FALSE]]
  /\ UNCHANGED <<status, sessions, failures>>
CheckEmail_RecordsRefused(r, s, ip) ==
  /\ At(r, "idle")
  /\ request' = [request EXCEPT ![r] =
       [pc |-> IF FailuresOf(s) < MaxFailures THEN "ip" ELSE "record",
        user |-> AccountOf[s], typed |-> s, ip |-> ip, outdated |-> FALSE]]
  /\ UNCHANGED <<status, sessions, failures>>

CheckEmail(r, s, ip) ==
  /\ At(r, "idle")
  /\ FailuresOf(s) < MaxFailures
  /\ request' = [request EXCEPT ![r] =
       [pc |-> "ip", user |-> AccountOf[s], typed |-> s, ip |-> ip, outdated |-> FALSE]]
  /\ UNCHANGED <<status, sessions, failures>>

CheckIP(r) ==
  /\ At(r, "ip")
  /\ IF FailuresFrom(request[r].ip) < IPFactor * MaxFailures
     THEN Goto(r, "verify") ELSE Finish(r)
  /\ UNCHANGED <<status, sessions, failures>>

\* Mutant: the status of the account is not looked at.
VerifyPassword_AnyStatus(r) ==
  /\ At(r, "verify")
  /\ \E door \in Doors, right \in BOOLEAN :
       IF right /\ status[request[r].user] /= "absent" /\ Admits(door, request[r].user)
       THEN Goto(r, "create") ELSE Goto(r, "record")
  /\ UNCHANGED <<status, sessions, failures>>

\* One read of the account, then its status, role and password.
VerifyPassword(r) ==
  /\ At(r, "verify")
  /\ \E door \in Doors, right \in BOOLEAN :
       IF right /\ status[request[r].user] = "active" /\ Admits(door, request[r].user)
       THEN Goto(r, "create") ELSE Goto(r, "record")
  /\ UNCHANGED <<status, sessions, failures>>

RecordFailure(r) ==
  /\ At(r, "record")
  /\ failures' = [failures EXCEPT ![<<request[r].typed, request[r].ip, 0>>] = @ + 1]
  /\ Finish(r)
  /\ UNCHANGED <<status, sessions>>

CreateSession(r) ==
  /\ At(r, "create")
  /\ \E t \in Tokens :
       /\ sessions[t] = None
       /\ sessions' = [sessions EXCEPT ![t] =
            [user |-> request[r].user, left |-> TTL,
             mark |-> IF request[r].outdated THEN "late" ELSE "fresh"]]
  /\ Finish(r)
  /\ UNCHANGED <<status, failures>>

------------------------------------------------------------------------------
(* A request with a session: Authenticate, then the handler.               *)

\* SessionByToken deletes an expired row by its hash, which no other row has.
FindSession(r, t) ==
  /\ At(r, "idle")
  /\ sessions[t] /= None
  /\ IF sessions[t].left = 0
     THEN sessions' = [sessions EXCEPT ![t] = None] /\ UNCHANGED request
     ELSE /\ request' = [request EXCEPT ![r].pc = "account", ![r].user = sessions[t].user]
          /\ UNCHANGED sessions
  /\ UNCHANGED <<status, failures>>

\* The account is read anew for each request, at whichever door it came to.
FindAccount(r) ==
  /\ At(r, "account")
  /\ \E door \in Doors :
       IF status[request[r].user] = "active" /\ Admits(door, request[r].user)
       THEN Goto(r, "serve") ELSE Finish(r)
  /\ UNCHANGED <<status, sessions, failures>>

\* The session's cookie is all the handler needs.
Logout(t) ==
  /\ sessions[t] /= None
  /\ sessions' = [sessions EXCEPT ![t] = None]
  /\ UNCHANGED <<status, failures, request>>

\* What follows is what a served request may do that matters here; every other
\* handler is an Abort.  handleChangePassword reads the hash again and
\* verifies the current password.
CheckCurrent(r) ==
  /\ At(r, "serve")
  /\ \E right \in BOOLEAN : IF right THEN Goto(r, "password") ELSE Finish(r)
  /\ UNCHANGED <<status, sessions, failures>>

\* What was opened under the old password or status of u.
Stale(u) == [t \in Tokens |->
  IF sessions[t] /= None /\ sessions[t].user = u
  THEN [sessions[t] EXCEPT !.mark = "stale"] ELSE sessions[t]]
Outdated(r, u) == At(r, "create") /\ request[r].user = u

\* r goes on to evict the sessions of u.
EvictNext(r, u) ==
  request' = [q \in Requests |->
    IF q = r THEN [Idle EXCEPT !.pc = "evict", !.user = u]
    ELSE IF Outdated(q, u) THEN [request[q] EXCEPT !.outdated = TRUE]
    ELSE request[q]]

\* Mutant: the sessions are left alone.
SetPassword_NoEvict(r) ==
  /\ At(r, "password")
  /\ sessions' = Stale(request[r].user)
  /\ Finish(r)
  /\ UNCHANGED <<status, failures>>

SetPassword(r) ==
  /\ At(r, "password")
  /\ sessions' = Stale(request[r].user)
  /\ EvictNext(r, request[r].user)
  /\ UNCHANGED <<status, failures>>

IsAdmin(r) == At(r, "serve") /\ Role[request[r].user] = "admin"

CreateUser(r, u) ==
  /\ IsAdmin(r)
  /\ status[u] = "absent"
  /\ status' = [status EXCEPT ![u] = "active"]
  /\ Finish(r)
  /\ UNCHANGED <<sessions, failures>>

Enable(r, u) ==
  /\ IsAdmin(r)
  /\ status[u] = "disabled"
  /\ status' = [status EXCEPT ![u] = "active"]
  /\ Finish(r)
  /\ UNCHANGED <<sessions, failures>>

Disable(r, u) ==
  /\ IsAdmin(r)
  /\ u /= request[r].user
  /\ status[u] /= "absent"
  /\ status' = [status EXCEPT ![u] = "disabled"]
  /\ sessions' = Stale(u)
  /\ EvictNext(r, u)
  /\ UNCHANGED failures

\* Mutant: the DELETE names no account.
Evict_All(r) ==
  /\ At(r, "evict")
  /\ sessions' = [t \in Tokens |-> None]
  /\ Finish(r)
  /\ UNCHANGED <<status, failures>>

Evict(r) ==
  /\ At(r, "evict")
  /\ sessions' = [t \in Tokens |->
       IF sessions[t] /= None /\ sessions[t].user = request[r].user
       THEN None ELSE sessions[t]]
  /\ Finish(r)
  /\ UNCHANGED <<status, failures>>

\* A statement fails or the process does; the sessions to evict stay.
Abort(r) ==
  /\ ~ At(r, "idle")
  /\ sessions' = [t \in Tokens |->
       IF At(r, "evict") /\ sessions[t] /= None /\ sessions[t].user = request[r].user
       THEN [sessions[t] EXCEPT !.mark = IF @ = "stale" THEN "kept" ELSE @]
       ELSE sessions[t]]
  /\ Finish(r)
  /\ UNCHANGED <<status, failures>>

------------------------------------------------------------------------------
(* Time, and the purge every process runs from a ticker.                   *)

\* Mutant: the comparison with the clock is the other way round.
Purge_Flipped ==
  /\ sessions' = [t \in Tokens |->
       IF sessions[t] /= None /\ sessions[t].left > 0 THEN None ELSE sessions[t]]
  /\ UNCHANGED <<status, failures, request>>

Purge ==
  /\ sessions' = [t \in Tokens |->
       IF sessions[t] /= None /\ sessions[t].left = 0 THEN None ELSE sessions[t]]
  /\ UNCHANGED <<status, failures, request>>

\* Mutant: time runs on for an expired session.
Tick_NoFloor ==
  /\ sessions' = [t \in Tokens |->
       IF sessions[t] /= None
       THEN [sessions[t] EXCEPT !.left = @ - 1] ELSE sessions[t]]
  /\ failures' = [k \in Attempts |->
       IF k[3] = 0 THEN 0 ELSE failures[<<k[1], k[2], k[3] - 1>>]]
  /\ UNCHANGED <<status, request>>

Tick ==
  /\ sessions' = [t \in Tokens |->
       IF sessions[t] /= None /\ sessions[t].left > 0
       THEN [sessions[t] EXCEPT !.left = @ - 1] ELSE sessions[t]]
  /\ failures' = [k \in Attempts |->
       IF k[3] = 0 THEN 0 ELSE failures[<<k[1], k[2], k[3] - 1>>]]
  /\ UNCHANGED <<status, request>>

Handle(r) ==
  \/ \E s \in Spellings, ip \in IPs : CheckEmail(r, s, ip)
  \/ CheckIP(r) \/ VerifyPassword(r) \/ RecordFailure(r) \/ CreateSession(r)
  \/ \E t \in Tokens : FindSession(r, t)
  \/ FindAccount(r) \/ CheckCurrent(r) \/ SetPassword(r)
  \/ \E u \in Users : CreateUser(r, u) \/ Enable(r, u) \/ Disable(r, u)
  \/ Evict(r) \/ Abort(r)

Next ==
  \/ \E r \in Requests : Handle(r)
  \/ \E t \in Tokens : Logout(t)
  \/ Purge
  \/ Tick

\* The clock advances and some process's purge keeps running and succeeding;
\* no request is obliged to make progress or to stop arriving.
Spec == Init /\ [][Next]_vars /\ WF_vars(Tick) /\ WF_vars(Purge)
------------------------------------------------------------------------------
(* Properties.                                                             *)

RequestPC == {"idle", "ip", "verify", "record", "create", "account", "serve",
              "password", "evict"}
RequestState ==
  [pc: RequestPC,
   user: Users \cup {None}, typed: Spellings \cup {None}, ip: IPs \cup {None},
   outdated: BOOLEAN]

\* Every variable has its type, and a request under way is about an account.
TypeOK ==
  /\ status \in [Users -> {"absent", "active", "disabled"}]
  /\ sessions \in [Tokens -> Session \cup {None}]
  /\ failures \in [Attempts -> Nat]
  /\ request \in [Requests -> RequestState]
  /\ \A r \in Requests : ~ At(r, "idle") => request[r].user \in Users

\* A session from before a password change, or before the account was
\* disabled, is about to be deleted: once handleChangePassword and
\* handleSetUserStatus have answered, none is left that their DELETE could
\* have removed.
EvictionComplete ==
  \A t \in Tokens : sessions[t] /= None /\ sessions[t].mark = "stale" =>
    \E r \in Requests : At(r, "evict") /\ request[r].user = sessions[t].user

\* A disabled account has no session but those waiting for that deletion,
\* those it failed to remove, and one a sign-in inserts that read the account
\* before it was disabled: handleLogin and handleSetUserStatus together.
DisabledSignedOut ==
  \A t \in Tokens : sessions[t] /= None /\ sessions[t].mark = "fresh" =>
    status[sessions[t].user] = "active"

\* handleLogin counts failures first and records them later, so requests under
\* way may pass a limit together, but never by more than there are requests.
\* The limits are those of an e-mail as typed and of a source address; an
\* account, which store.go:367-371 and handlers_auth.go:22 speak of, has as
\* many budgets as there are ways to type its e-mail.
SignInsLimited ==
  /\ \A s \in Spellings : FailuresOf(s) < MaxFailures + Cardinality(Requests)
  /\ \A ip \in IPs : FailuresFrom(ip) < IPFactor * MaxFailures + Cardinality(Requests)

\* A session that has time left ends by a logout or by an eviction of its
\* account: no purge or lookup removes it.
SessionsEndForAReason ==
  [][\A t \in Tokens :
       (sessions[t] /= None /\ sessions[t].left > 0 /\ sessions'[t] = None) =>
         \/ Logout(t)
         \/ \E r \in Requests : Evict(r) /\ request[r].user = sessions[t].user]_vars

\* An expired session does not stay in the table, even if its owner never
\* comes back: startBackgroundWork and the two purgeLoops.
ExpiredLeave ==
  \A t \in Tokens :
    (sessions[t] /= None /\ sessions[t].left = 0) ~> (sessions[t] = None)

\* A refused sign-in is not counted, so an address or e-mail that keeps
\* being tried is let in again time after time: no lockout lasts.
LockoutEnds ==
  /\ \A s \in Spellings : []<>(FailuresOf(s) < MaxFailures)
  /\ \A ip \in IPs : []<>(FailuresFrom(ip) < IPFactor * MaxFailures)
==============================================================================
