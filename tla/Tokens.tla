------------------------------- MODULE Tokens --------------------------------
(* API tokens: issued through the backend (backend/handlers_misc.go) or    *)
(* the dashboard (admin/handlers_ops.go), presented as bearer tokens       *)
(* (backend/middleware.go), revoked by hand, and unusable while their      *)
(* owner's account is disabled.                                            *)
(*                                                                         *)
(* A request is authenticated in two reads (the token or session row, then *)
(* the user row) and acts later on what it read; the table of users and    *)
(* the table of tokens change in between.  The value of a token issued by  *)
(* the dashboard waits in the process's memory, under the session that     *)
(* made it, for the listing to show it (admin/flash.go).                   *)
(* Accounts keep their role: no operation changes one.                     *)
EXTENDS Integers, FiniteSets

CONSTANTS
  Users,                \* accounts
  Admins, Operators,    \* administrators; those the dashboard lets in
  Sessions, UserOf,     \* dashboard and API sessions, and whose each is
  Tokens,               \* token ids; NewAPIToken never returns one twice
  Scopes, RoleScopes,   \* scopes, and the ceiling of each user's role
  Requests,
  StashTTL,             \* 30 seconds
  None,
  MaxClock, MaxStarted, MaxRestarts

ASSUME TokensAssumption ==
  /\ Admins # {} /\ Admins \subseteq Operators /\ Operators \subseteq Users
  /\ UserOf \in [Sessions -> Users]
  /\ RoleScopes \in [Users -> SUBSET Scopes]
  /\ StashTTL \in Nat
  /\ None \notin Users \cup Sessions \cup Tokens
  /\ None \notin [owner: Users, scopes: SUBSET Scopes, expires: Nat, revoked: BOOLEAN]
  /\ None \notin [value: Tokens, at: Nat]

VARIABLES
  active,    \* users.status is 'active'
  alive,     \* the rows of sessions
  token,     \* api_tokens: None or [owner, scopes, expires, revoked]
  stash,     \* the dashboard's tokenStash: None or [value, at]
  req,       \* requests in flight
  clock, started, restarts,
  views,     \* history: who was shown a token's value, and how long it had waited
  overtaken  \* history: an administrator disabled meanwhile disabled another

vars == <<active, alive, token, stash, req, clock, started, restarts, views, overtaken>>

NoReq == [pc |-> "idle", sess |-> None, tok |-> None, user |-> None, scopes |-> {}, live |-> FALSE]

Row(u, sc, exp) == [owner |-> u, scopes |-> sc, expires |-> exp, revoked |-> FALSE]

Usable(t, now) ==
  /\ token[t] # None /\ ~token[t].revoked
  /\ token[t].expires = 0 \/ token[t].expires > now

Init ==
  /\ active = [u \in Users |-> TRUE]
  /\ alive = Sessions
  /\ token = [t \in Tokens |-> None]
  /\ stash = [s \in Sessions |-> None]
  /\ req = [q \in Requests |-> NoReq]
  /\ clock = 1 /\ started = 0 /\ restarts = 0
  /\ views = [t \in Tokens |-> {}]
  /\ overtaken = FALSE

------------------------------------------------------------------------------
(* Authentication.                                                         *)

Start(q, r) ==
  /\ req[q].pc = "idle" /\ started < MaxStarted
  /\ started' = started + 1
  /\ req' = [req EXCEPT ![q] = r]
  /\ UNCHANGED <<active, alive, token, stash, clock, restarts, views, overtaken>>

\* What the first read has found: a session s or a token t, of user u.
Arrived(s, t, u, sc) ==
  [pc |-> "user", sess |-> s, tok |-> t, user |-> u, scopes |-> sc, live |-> active[u]]

\* A cookie: the session row is there.
SessionByToken(q) ==
  \E s \in alive : Start(q, Arrived(s, None, UserOf[s], {}))

\* A bearer token: its row is there and usable now.
APITokenByValue(q) ==
  \E t \in Tokens :
    /\ Usable(t, clock)
    /\ Start(q, Arrived(None, t, token[t].owner, token[t].scopes))

\* Mutant: the account of a token's owner is not looked at.
Principal_AnyOwner(q) ==
  /\ req[q].pc = "user"
  /\ req' = [req EXCEPT ![q].pc = "act"]
  /\ UNCHANGED <<active, alive, token, stash, clock, started, restarts, views, overtaken>>

\* The account is active: a session carries its role's scopes, a token those
\* of its own the role still has.  Otherwise 401.
Principal(q) ==
  /\ req[q].pc = "user"
  /\ LET u == req[q].user
         c == IF req[q].tok = None THEN RoleScopes[u] ELSE req[q].scopes \cap RoleScopes[u]
     IN  req' = [req EXCEPT ![q] = IF active[u] THEN [@ EXCEPT !.pc = "act", !.scopes = c] ELSE NoReq]
  /\ UNCHANGED <<active, alive, token, stash, clock, started, restarts, views, overtaken>>

------------------------------------------------------------------------------
(* Issuing and showing.                                                    *)

Done(q) == req' = [req EXCEPT ![q] = NoReq]

\* RoleHasScope: what u may put on a token; at least one is wanted.
MayGrant(u) == (SUBSET RoleScopes[u]) \ {{}}

\* CreateAPIToken, with or without a number of days.
Mint(q, t) ==
  /\ req[q].pc = "act" /\ req[q].tok = None
  /\ token[t] = None
  /\ \E sc \in MayGrant(req[q].user), exp \in {0, clock + 1} :
       token' = [token EXCEPT ![t] = Row(req[q].user, sc, exp)]

\* The backend answers with the value; only a session may ask.
handleCreateToken(q) ==
  \E t \in Tokens :
    /\ Mint(q, t) /\ Done(q)
    /\ views' = [views EXCEPT ![t] = @ \cup {[to |-> req[q].sess, at |-> clock, waited |-> 0]}]
    /\ UNCHANGED <<active, alive, stash, clock, started, restarts, overtaken>>

\* The dashboard redirects; the value is put away in a step of its own.
handleTokenCreate(q) ==
  \E t \in Tokens :
    /\ req[q].user \in Operators
    /\ Mint(q, t)
    /\ req' = [req EXCEPT ![q].pc = "put", ![q].tok = t]
    /\ UNCHANGED <<active, alive, stash, clock, started, restarts, views, overtaken>>

Stale(e, now) == e # None /\ now - e.at > StashTTL

\* Old values are swept, and one that session still had is replaced.
put(q) ==
  /\ req[q].pc = "put" /\ Done(q)
  /\ stash' = [s \in Sessions |->
                 IF s = req[q].sess THEN [value |-> req[q].tok, at |-> clock]
                 ELSE IF Stale(stash[s], clock) THEN None ELSE stash[s]]
  /\ UNCHANGED <<active, alive, token, clock, started, restarts, views, overtaken>>

\* Mutant: what was shown stays for the next listing.
take_Keeps(q) ==
  LET s == req[q].sess
      e == stash[s]
  IN  /\ views' = IF e = None \/ Stale(e, clock) THEN views
                  ELSE [views EXCEPT ![e.value] = @ \cup {[to |-> s, at |-> clock, waited |-> clock - e.at]}]
      /\ stash' = stash

\* The value, if it has not waited too long; it is gone afterwards.
take(q) ==
  LET s == req[q].sess
      e == stash[s]
  IN  /\ views' = IF e = None \/ Stale(e, clock) THEN views
                  ELSE [views EXCEPT ![e.value] = @ \cup {[to |-> s, at |-> clock, waited |-> clock - e.at]}]
      /\ stash' = [stash EXCEPT ![s] = None]

handleTokenList(q) ==
  /\ req[q].pc = "act" /\ req[q].sess # None /\ req[q].user \in Operators
  /\ take(q) /\ Done(q)
  /\ UNCHANGED <<active, alive, token, clock, started, restarts, overtaken>>

------------------------------------------------------------------------------
(* Revoking, disabling, enabling.                                          *)

\* By its owner or an administrator, over either door and by either credential.
RevokeAPIToken(q) ==
  /\ req[q].pc = "act" /\ Done(q)
  /\ \E t \in Tokens :
       /\ token[t] # None
       /\ req[q].user \in Admins \/ token[t].owner = req[q].user
       /\ token' = [token EXCEPT ![t].revoked = TRUE]
  /\ UNCHANGED <<active, alive, stash, clock, started, restarts, views, overtaken>>

\* Mutant: the administrator's own account is one like any other.
MayDisable_Own(u, v) == u \in Admins
MayDisable(u, v)     == u \in Admins /\ v # u

\* SetUserStatus; the sessions of a disabled account are deleted afterwards.
Disable(q) ==
  /\ req[q].pc = "act"
  /\ \E v \in Users :
       /\ MayDisable(req[q].user, v)
       /\ active' = [active EXCEPT ![v] = FALSE]
       /\ req' = [req EXCEPT ![q].pc = "evict", ![q].user = v]
       /\ overtaken' = (overtaken \/ (v \in Admins /\ ~active[req[q].user]))
  /\ UNCHANGED <<alive, token, stash, clock, started, restarts, views>>

DeleteUserSessions(q) ==
  /\ req[q].pc = "evict" /\ Done(q)
  /\ alive' = {s \in alive : UserOf[s] # req[q].user}
  /\ UNCHANGED <<active, token, stash, clock, started, restarts, views, overtaken>>

\* A request in flight may find the account it needs active again.
Enable(q) ==
  /\ req[q].pc = "act" /\ req[q].user \in Admins
  /\ \E v \in Users :
       /\ active' = [active EXCEPT ![v] = TRUE]
       /\ req' = [x \in Requests |-> IF x = q THEN NoReq
                                    ELSE [req[x] EXCEPT !.live = @ \/ (req[x].pc = "user" /\ req[x].user = v)]]
  /\ UNCHANGED <<alive, token, stash, clock, started, restarts, views, overtaken>>

\* Any other request is answered and over.
Serve(q) ==
  /\ req[q].pc = "act" /\ Done(q)
  /\ UNCHANGED <<active, alive, token, stash, clock, started, restarts, views, overtaken>>

\* The dashboard starts anew: what was stashed is never shown, and the
\* requests it was serving (those about to stash, at least) are cut off.
Restart ==
  /\ restarts < MaxRestarts
  /\ restarts' = restarts + 1
  /\ stash' = [s \in Sessions |-> None]
  /\ \E cut \in SUBSET Requests :
       /\ \A q \in Requests : req[q].pc = "put" => q \in cut
       /\ req' = [q \in Requests |-> IF q \in cut THEN NoReq ELSE req[q]]
  /\ UNCHANGED <<active, alive, token, clock, started, views, overtaken>>

Tick ==
  /\ clock < MaxClock
  /\ clock' = clock + 1
  /\ UNCHANGED <<active, alive, token, stash, req, started, restarts, views, overtaken>>

Next ==
  \/ \E q \in Requests :
       \/ SessionByToken(q) \/ APITokenByValue(q) \/ Principal(q)
       \/ handleCreateToken(q) \/ handleTokenCreate(q) \/ put(q) \/ handleTokenList(q)
       \/ RevokeAPIToken(q) \/ Disable(q) \/ DeleteUserSessions(q) \/ Enable(q) \/ Serve(q)
  \/ Restart \/ Tick

Spec == Init /\ [][Next]_vars

------------------------------------------------------------------------------
(* Properties.                                                             *)

\* The value of a token is shown once in its life, to a session of the account
\* that made it, and not later than the stash keeps it, whatever requests of
\* that account and of others run meanwhile (admin/flash.go put, take).
ShownOnce ==
  \A t \in Tokens :
    /\ Cardinality(views[t]) <= 1
    /\ \A w \in views[t] : UserOf[w.to] = token[t].owner /\ w.waited <= StashTTL

\* A request acts only for an account that was active at some moment of that
\* request: once an account is disabled and the requests that had begun by then
\* are over, neither its sessions nor its tokens do anything
\* (middleware.go principalFromToken, principalFromSession).
AdmittedWasLive == \A q \in Requests : req[q].pc = "act" => req[q].live

\* An administrator may not disable their own account, so some administrator
\* stays active, except when one disables another by a request that had been
\* let in before its own account was disabled (handlers_misc.go handleSetUserStatus).
LockoutNeedsRace == overtaken \/ \E a \in Admins : active[a]
==============================================================================
