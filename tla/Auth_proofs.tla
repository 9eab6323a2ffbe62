----------------------------- MODULE Auth_proofs -----------------------------
(***************************************************************************)
(* Proofs about Auth, for any sets of requests, accounts, addresses and    *)
(* session rows.                                                           *)
(*                                                                         *)
(* DisabledSignedOut is not inductive: a sign-in that has verified the     *)
(* password inserts its session later.  VerifiedIsActive says what is      *)
(* known of it until then.                                                 *)
(*                                                                         *)
(* SignInsLimited is not inductive either: a request that has passed the   *)
(* limit records its failure later.  LimitInv counts those together with   *)
(* what has been recorded.  RecentFailures is a sum over a part of the     *)
(* table, and what a step does to it is shown by induction over the        *)
(* subsets of that part.                                                   *)
(***************************************************************************)
EXTENDS Auth, FiniteSetTheorems, TLAPS

\* A sign-in that has verified the password and was not overtaken by a change
\* is one of an active account.
VerifiedIsActive ==
  \A r \in Requests : At(r, "create") /\ ~ request[r].outdated =>
    status[request[r].user] = "active"

IInv == TypeOK /\ EvictionComplete /\ DisabledSignedOut /\ VerifiedIsActive

------------------------------------------------------------------------------
(* Types.                                                                  *)

\* A step that gives one request another state of its type keeps the type.
LEMMA RequestType ==
  ASSUME TypeOK, NEW r \in Requests, NEW s \in RequestState,
         s.pc # "idle" => s.user \in Users,
         request' = [request EXCEPT ![r] = s]
  PROVE  /\ request' \in [Requests -> RequestState]
         /\ \A q \in Requests : request'[q].pc # "idle" => request'[q].user \in Users
  BY DEF TypeOK, At

\* Idle is a state of a request.
LEMMA IdleType == Idle \in RequestState /\ Idle.pc = "idle"
  BY DEF Idle, RequestState, RequestPC

\* Moving a request on gives it such a state.
LEMMA MoveType ==
  ASSUME TypeOK, NEW r \in Requests, ~ At(r, "idle"), NEW pc \in RequestPC
  PROVE  /\ [request[r] EXCEPT !.pc = pc] \in RequestState
         /\ [request[r] EXCEPT !.pc = pc].user \in Users
         /\ Goto(r, pc) => request' = [request EXCEPT ![r] = [request[r] EXCEPT !.pc = pc]]
<1>1. request[r] \in RequestState /\ request[r].user \in Users
  BY DEF TypeOK
<1>2. [request[r] EXCEPT !.pc = pc] \in RequestState
  BY <1>1 DEF RequestState
<1>3. [request[r] EXCEPT !.pc = pc].user = request[r].user
  BY <1>1 DEF RequestState
<1>4. Goto(r, pc) => request' = [request EXCEPT ![r] = [request[r] EXCEPT !.pc = pc]]
  BY DEF Goto
<1> QED
  BY <1>1, <1>2, <1>3, <1>4

\* Marking the sessions of an account keeps their type.
LEMMA StaleType ==
  ASSUME TypeOK, NEW u \in Users
  PROVE  Stale(u) \in [Tokens -> Session \cup {None}]
  BY DEF TypeOK, Stale, Session, Marks

\* So does the step that goes on to evict them.
LEMMA EvictNextType ==
  ASSUME TypeOK, NEW r \in Requests, NEW u \in Users, EvictNext(r, u)
  PROVE  /\ request' \in [Requests -> RequestState]
         /\ \A q \in Requests : request'[q].pc # "idle" => request'[q].user \in Users
<1>1. [Idle EXCEPT !.pc = "evict", !.user = u] \in RequestState
  BY DEF Idle, RequestState, RequestPC
<1>2. [Idle EXCEPT !.pc = "evict", !.user = u].user = u
  BY DEF Idle
<1>3. \A q \in Requests : /\ request[q] \in RequestState
                          /\ [request[q] EXCEPT !.outdated = TRUE] \in RequestState
                          /\ [request[q] EXCEPT !.outdated = TRUE].pc = request[q].pc
                          /\ [request[q] EXCEPT !.outdated = TRUE].user = request[q].user
  BY DEF TypeOK, RequestState
<1>4. \A q \in Requests : request[q].pc # "idle" => request[q].user \in Users
  BY DEF TypeOK, At
<1> QED
  BY <1>1, <1>2, <1>3, <1>4 DEF EvictNext

\* The initial state satisfies the inductive invariant.
LEMMA InitIInv == Init => IInv
<1> SUFFICES ASSUME Init PROVE IInv
  OBVIOUS
<1>1. TypeOK
  <2>1. failures \in [Attempts -> Nat]
    BY DEF Init
  <2> QED
    BY <2>1, IdleType DEF TypeOK, Init, At
<1>2. \A t \in Tokens : sessions[t] = None
  BY DEF Init
<1>3. \A r \in Requests : request[r].pc = "idle"
  BY IdleType DEF Init
<1> QED
  BY <1>1, <1>2, <1>3 DEF IInv, EvictionComplete, DisabledSignedOut, VerifiedIsActive, At

\* TypeOK is inductive.
LEMMA TypeStep == TypeOK /\ [Next]_vars => TypeOK'
<1> SUFFICES ASSUME TypeOK, [Next]_vars PROVE TypeOK'
  OBVIOUS
<1>a. AuthAssumption
  BY AuthAssumption
<1> DEFINE StatusOK   == status' \in [Users -> {"absent", "active", "disabled"}]
           SessionsOK == sessions' \in [Tokens -> Session \cup {None}]
           FailuresOK == failures' \in [Attempts -> Nat]
           RequestOK  == /\ request' \in [Requests -> RequestState]
                         /\ \A q \in Requests :
                              request'[q].pc # "idle" => request'[q].user \in Users
<1>u. ASSUME StatusOK, SessionsOK, FailuresOK, RequestOK PROVE TypeOK'
  BY <1>u DEF TypeOK, At
<1>s. status' = status => StatusOK
  BY DEF TypeOK
<1>t. sessions' = sessions => SessionsOK
  BY DEF TypeOK
<1>f. failures' = failures => FailuresOK
  BY DEF TypeOK
<1>r. request' = request => RequestOK
  BY DEF TypeOK, At
<1>m. ASSUME NEW r \in Requests, ~ At(r, "idle"), NEW pc \in RequestPC,
             Goto(r, pc) \/ Finish(r)
      PROVE  RequestOK
  BY <1>m, RequestType, MoveType, IdleType DEF Finish
<1> HIDE DEF StatusOK, SessionsOK, FailuresOK, RequestOK
<1>1. ASSUME NEW r \in Requests, Handle(r) PROVE TypeOK'
  <2>1. ASSUME NEW s \in Spellings, NEW ip \in IPs, CheckEmail(r, s, ip) PROVE TypeOK'
    <3> DEFINE new == [pc |-> "ip", user |-> AccountOf[s], typed |-> s, ip |-> ip, outdated |-> FALSE]
    <3>0. AccountOf[s] \in Users
      BY <2>1, <1>a DEF AuthAssumption
    <3>1. new \in RequestState /\ new.user \in Users
      BY <2>1, <3>0 DEF RequestState, RequestPC
    <3>2. request' = [request EXCEPT ![r] = new]
      BY <2>1 DEF CheckEmail
    <3>3. RequestOK
      <4> HIDE DEF new
      <4> QED BY <3>1, <3>2, <1>1, RequestType DEF RequestOK
    <3> QED
      BY <2>1, <3>3, <1>u, <1>s, <1>t, <1>f DEF CheckEmail
  <2>2. CASE CheckIP(r)
    BY <2>2, <1>1, <1>m, <1>u, <1>s, <1>t, <1>f DEF CheckIP, At, RequestPC
  <2>3. CASE VerifyPassword(r)
    BY <2>3, <1>1, <1>m, <1>u, <1>s, <1>t, <1>f DEF VerifyPassword, At, RequestPC
  <2>4. CASE RecordFailure(r)
    <3>1. RequestOK
      BY <2>4, <1>1, <1>m DEF RecordFailure, At, RequestPC
    <3>2. FailuresOK
      <4> DEFINE x == <<request[r].typed, request[r].ip, 0>>
                 D == Attempts
      <4>1. failures' = [failures EXCEPT ![x] = failures[x] + 1]
        BY <2>4 DEF RecordFailure
      <4>2. failures \in [D -> Nat]
        BY DEF TypeOK
      <4>3. SUFFICES failures' \in [D -> Nat]
        BY DEF FailuresOK
      <4> HIDE DEF x, D
      <4>4. \A k \in D : [failures EXCEPT ![x] = failures[x] + 1][k] \in Nat
        BY <4>2
      <4> QED
        BY <4>1, <4>2, <4>4
    <3> QED
      BY <2>4, <3>1, <3>2, <1>u, <1>s, <1>t DEF RecordFailure
  <2>5. CASE CreateSession(r)
    <3>1. RequestOK
      BY <2>5, <1>1, <1>m DEF CreateSession, At, RequestPC
    <3>2. SessionsOK
      <4>1. PICK t \in Tokens : sessions' = [sessions EXCEPT ![t] =
              [user |-> request[r].user, left |-> TTL,
               mark |-> IF request[r].outdated THEN "late" ELSE "fresh"]]
        BY <2>5 DEF CreateSession
      <4>2. request[r].user \in Users
        BY <2>5, <1>1 DEF CreateSession, TypeOK, At
      <4>3. [user |-> request[r].user, left |-> TTL,
             mark |-> IF request[r].outdated THEN "late" ELSE "fresh"] \in Session
        BY <4>2, <1>a DEF Session, Marks, AuthAssumption
      <4> QED
        BY <4>1, <4>3 DEF SessionsOK, TypeOK
    <3> QED
      BY <2>5, <3>1, <3>2, <1>u, <1>s, <1>f DEF CreateSession
  <2>6. ASSUME NEW t \in Tokens, FindSession(r, t) PROVE TypeOK'
    <3>1. sessions[t] \in Session /\ request[r] \in RequestState
      BY <2>6, <1>1 DEF FindSession, TypeOK
    <3>2. CASE sessions[t].left = 0
      <4>1. SessionsOK
        BY <2>6, <3>2 DEF FindSession, SessionsOK, TypeOK
      <4> QED
        BY <2>6, <3>2, <4>1, <1>u, <1>s, <1>f, <1>r DEF FindSession
    <3>3. CASE sessions[t].left # 0
      <4> DEFINE new == [request[r] EXCEPT !.pc = "account", !.user = sessions[t].user]
      <4>1. request' = [request EXCEPT ![r] = new]
        BY <2>6, <3>3 DEF FindSession
      <4>2. new \in RequestState /\ new.user \in Users
        BY <3>1 DEF RequestState, RequestPC, Session
      <4>3. RequestOK
        <5> HIDE DEF new
        <5> QED BY <4>1, <4>2, <1>1, RequestType DEF RequestOK
      <4> QED
        BY <2>6, <3>3, <4>3, <1>u, <1>s, <1>t, <1>f DEF FindSession
    <3> QED
      BY <3>2, <3>3
  <2>7. CASE FindAccount(r)
    BY <2>7, <1>1, <1>m, <1>u, <1>s, <1>t, <1>f DEF FindAccount, At, RequestPC
  <2>8. CASE CheckCurrent(r)
    BY <2>8, <1>1, <1>m, <1>u, <1>s, <1>t, <1>f DEF CheckCurrent, At, RequestPC
  <2>9. CASE SetPassword(r)
    <3>1. request[r].user \in Users
      BY <2>9, <1>1 DEF SetPassword, TypeOK, At
    <3>2. SessionsOK /\ RequestOK
      BY <2>9, <1>1, <3>1, StaleType, EvictNextType DEF SetPassword, SessionsOK, RequestOK
    <3> QED
      BY <2>9, <3>2, <1>u, <1>s, <1>f DEF SetPassword
  <2>10. ASSUME NEW u \in Users, CreateUser(r, u) \/ Enable(r, u) PROVE TypeOK'
    <3>1. RequestOK
      BY <2>10, <1>1, <1>m DEF CreateUser, Enable, IsAdmin, At, RequestPC
    <3>2. StatusOK
      BY <2>10 DEF CreateUser, Enable, StatusOK, TypeOK
    <3> QED
      BY <2>10, <3>1, <3>2, <1>u, <1>t, <1>f DEF CreateUser, Enable
  <2>11. ASSUME NEW u \in Users, Disable(r, u) PROVE TypeOK'
    <3>1. SessionsOK /\ RequestOK
      BY <2>11, <1>1, StaleType, EvictNextType DEF Disable, SessionsOK, RequestOK
    <3>2. StatusOK
      BY <2>11 DEF Disable, StatusOK, TypeOK
    <3> QED
      BY <2>11, <3>1, <3>2, <1>u, <1>f DEF Disable
  <2>12. CASE Evict(r)
    <3>1. RequestOK
      BY <2>12, <1>1, <1>m DEF Evict, At, RequestPC
    <3>2. SessionsOK
      BY <2>12 DEF Evict, SessionsOK, TypeOK
    <3> QED
      BY <2>12, <3>1, <3>2, <1>u, <1>s, <1>f DEF Evict
  <2>13. CASE Abort(r)
    <3>1. RequestOK
      BY <2>13, <1>1, <1>m DEF Abort, RequestPC
    <3>2. \A t \in Tokens : sessions[t] \in Session =>
            [sessions[t] EXCEPT !.mark = IF @ = "stale" THEN "kept" ELSE @] \in Session
      BY DEF Session, Marks
    <3>3. SessionsOK
      BY <2>13, <3>2 DEF Abort, SessionsOK, TypeOK
    <3> QED
      BY <2>13, <3>1, <3>3, <1>u, <1>s, <1>f DEF Abort
  <2> QED
    BY <1>1, <2>1, <2>2, <2>3, <2>4, <2>5, <2>6, <2>7, <2>8, <2>9, <2>10, <2>11,
       <2>12, <2>13 DEF Handle
<1>2. ASSUME NEW t \in Tokens, Logout(t) PROVE TypeOK'
  <2>1. SessionsOK
    BY <1>2 DEF Logout, SessionsOK, TypeOK
  <2> QED
    BY <1>2, <2>1, <1>u, <1>s, <1>f, <1>r DEF Logout
<1>3. CASE Purge
  <2>1. SessionsOK
    BY <1>3 DEF Purge, SessionsOK, TypeOK
  <2> QED
    BY <1>3, <2>1, <1>u, <1>s, <1>f, <1>r DEF Purge
<1>4. CASE Tick
  <2>1. SessionsOK
    <3>1. \A t \in Tokens : sessions[t] \in Session /\ sessions[t].left > 0 =>
            [sessions[t] EXCEPT !.left = @ - 1] \in Session
      BY <1>a DEF Session, AuthAssumption
    <3> QED
      BY <1>4, <3>1 DEF Tick, SessionsOK, TypeOK
  <2>2. FailuresOK
    <3>1. ASSUME NEW s \in Spellings, NEW ip \in IPs, NEW age \in Ages
          PROVE  (IF age = 0 THEN 0 ELSE failures[<<s, ip, age - 1>>]) \in Nat
      <4>1. age # 0 => age - 1 \in Ages
        BY <3>1, <1>a DEF Ages, AuthAssumption
      <4> QED
        BY <4>1 DEF TypeOK, Attempts
    <3>2. failures' = [k \in Attempts |->
            IF k[3] = 0 THEN 0 ELSE failures[<<k[1], k[2], k[3] - 1>>]]
      BY <1>4 DEF Tick
    <3> QED
      BY <3>1, <3>2 DEF FailuresOK, Attempts
  <2> QED
    BY <1>4, <2>1, <2>2, <1>u, <1>s, <1>r DEF Tick
<1>5. CASE UNCHANGED vars
  BY <1>5, <1>u, <1>s, <1>t, <1>f, <1>r DEF vars
<1> QED
  BY <1>1, <1>2, <1>3, <1>4, <1>5 DEF Next

------------------------------------------------------------------------------
(* What the rest of the invariant looks at.                                *)

KeepsMarks ==
  \A t \in Tokens : sessions'[t] # None /\ sessions'[t].mark \in {"fresh", "stale"} =>
    /\ sessions[t] # None
    /\ sessions[t].user = sessions'[t].user /\ sessions[t].mark = sessions'[t].mark
KeepsEvictions ==
  \A q \in Requests : request[q].pc = "evict" =>
    request'[q].pc = "evict" /\ request'[q].user = request[q].user
KeepsVerified ==
  \A q \in Requests : request'[q].pc = "create" /\ ~ request'[q].outdated =>
    /\ request[q].pc = "create" /\ ~ request[q].outdated
    /\ request'[q].user = request[q].user
KeepsActive ==
  \A u \in Users : status[u] = "active" => status'[u] = "active"

\* No mark is both.
LEMMA MarksDiffer == "fresh" # "stale" /\ "kept" # "stale" /\ "late" # "stale"
                     /\ "kept" # "fresh" /\ "late" # "fresh"
  OBVIOUS

\* The sessions of an invariant state are those of accounts.
LEMMA SessionUsers ==
  ASSUME TypeOK
  PROVE  /\ \A t \in Tokens : sessions[t] # None =>
              sessions[t] \in Session /\ sessions[t].user \in Users
         /\ \A r \in Requests : request[r].pc # "idle" => request[r].user \in Users
  BY DEF TypeOK, Session, At

\* Evictions under way are kept: stale sessions stay accounted for.
LEMMA EvictionFrame ==
  ASSUME EvictionComplete, KeepsMarks, KeepsEvictions
  PROVE  EvictionComplete'
  BY DEF EvictionComplete, KeepsMarks, KeepsEvictions, At

\* Fresh sessions stay those of active accounts.
LEMMA SignedOutFrame ==
  ASSUME TypeOK, DisabledSignedOut, KeepsMarks, KeepsActive
  PROVE  DisabledSignedOut'
  BY SessionUsers DEF DisabledSignedOut, KeepsMarks, KeepsActive

\* Verified sign-ins stay those of active accounts.
LEMMA VerifiedFrame ==
  ASSUME TypeOK, VerifiedIsActive, KeepsVerified, KeepsActive
  PROVE  VerifiedIsActive'
  BY SessionUsers DEF VerifiedIsActive, KeepsVerified, KeepsActive, At

\* A request that is not evicting moves on: no eviction is lost, and no
\* sign-in becomes verified unless it goes to "create".
LEMMA MoveFrame ==
  ASSUME TypeOK, NEW r \in Requests, request[r].pc # "evict",
         NEW pc \in RequestPC, pc # "create", Goto(r, pc) \/ Finish(r)
  PROVE  KeepsEvictions /\ KeepsVerified
<1>1. request'[r].pc # "create"
  BY MoveType, IdleType DEF Goto, Finish, TypeOK, RequestState
<1>2. \A q \in Requests \ {r} : request'[q] = request[q]
  BY DEF Goto, Finish, TypeOK
<1> QED
  BY <1>1, <1>2 DEF KeepsEvictions, KeepsVerified

\* The step before the DELETE: what it marks is what r will delete.
LEMMA EvictNextFrame ==
  ASSUME TypeOK, EvictionComplete, NEW r \in Requests, request[r].pc # "evict",
         NEW u \in Users, sessions' = Stale(u), EvictNext(r, u)
  PROVE  /\ EvictionComplete'
         /\ \A t \in Tokens : sessions'[t] # None /\ sessions'[t].mark = "fresh" =>
              /\ sessions[t] # None /\ sessions[t].mark = "fresh"
              /\ sessions'[t].user = sessions[t].user /\ sessions[t].user # u
         /\ \A q \in Requests : request'[q].pc = "create" /\ ~ request'[q].outdated =>
              /\ request[q].pc = "create" /\ ~ request[q].outdated
              /\ request'[q].user = request[q].user /\ request[q].user # u
<1>1. /\ request'[r].pc = "evict" /\ request'[r].user = u
      /\ \A q \in Requests \ {r} :
           /\ request'[q].pc = request[q].pc /\ request'[q].user = request[q].user
           /\ Outdated(q, u) => request'[q].outdated
           /\ ~ Outdated(q, u) => request'[q] = request[q]
  <2> DEFINE new == [Idle EXCEPT !.pc = "evict", !.user = u]
  <2>1. new.pc = "evict" /\ new.user = u
    BY DEF Idle
  <2>2. \A q \in Requests : request'[q] =
          IF q = r THEN new
          ELSE IF Outdated(q, u) THEN [request[q] EXCEPT !.outdated = TRUE] ELSE request[q]
    BY DEF EvictNext
  <2> HIDE DEF new
  <2>3. \A q \in Requests : /\ [request[q] EXCEPT !.outdated = TRUE].outdated
                            /\ [request[q] EXCEPT !.outdated = TRUE].pc = request[q].pc
                            /\ [request[q] EXCEPT !.outdated = TRUE].user = request[q].user
    BY DEF TypeOK, RequestState
  <2> QED
    BY <2>1, <2>2, <2>3
<1>2. \A t \in Tokens :
        IF sessions[t] # None /\ sessions[t].user = u
        THEN sessions'[t].mark = "stale" /\ sessions'[t].user = u
        ELSE sessions'[t] = sessions[t]
  BY SessionUsers DEF Stale, Session
<1>3. EvictionComplete'
  BY <1>1, <1>2 DEF EvictionComplete, At
<1> QED
  BY <1>1, <1>2, <1>3, MarksDiffer DEF Outdated, At

------------------------------------------------------------------------------
(* The steps.                                                              *)

\* Every step preserves the inductive invariant.
LEMMA InvStep == IInv /\ [Next]_vars => IInv'
<1> SUFFICES ASSUME IInv, [Next]_vars PROVE IInv'
  OBVIOUS
<1>0. TypeOK /\ EvictionComplete /\ DisabledSignedOut /\ VerifiedIsActive /\ TypeOK'
  BY TypeStep DEF IInv
<1>q. ASSUME KeepsMarks, KeepsEvictions, KeepsVerified, KeepsActive PROVE IInv'
  BY <1>0, <1>q, EvictionFrame, SignedOutFrame, VerifiedFrame DEF IInv
<1>s. sessions' = sessions => KeepsMarks
  BY DEF KeepsMarks
<1>r. request' = request => KeepsEvictions /\ KeepsVerified
  BY DEF KeepsEvictions, KeepsVerified
<1>a. status' = status => KeepsActive
  BY DEF KeepsActive
<1>m. ASSUME NEW r \in Requests, request[r].pc # "evict",
             NEW pc \in RequestPC, pc # "create", Goto(r, pc) \/ Finish(r)
      PROVE  KeepsEvictions /\ KeepsVerified
  BY <1>0, <1>m, MoveFrame
<1>1. ASSUME NEW r \in Requests, Handle(r) PROVE IInv'
  <2>1. ASSUME NEW s \in Spellings, NEW ip \in IPs, CheckEmail(r, s, ip) PROVE IInv'
    <3>1. KeepsEvictions /\ KeepsVerified
      BY <1>0, <1>1, <2>1 DEF CheckEmail, KeepsEvictions, KeepsVerified, At, TypeOK
    <3> QED
      BY <2>1, <3>1, <1>q, <1>s, <1>a DEF CheckEmail
  <2>2. CASE CheckIP(r)
    BY <2>2, <1>1, <1>m, <1>q, <1>s, <1>a DEF CheckIP, At, RequestPC
  <2>3. CASE VerifyPassword(r)
    <3>1. CASE Goto(r, "record")
      <4>1. KeepsEvictions /\ KeepsVerified
        BY <2>3, <3>1, <1>1, <1>m DEF VerifyPassword, At, RequestPC
      <4> QED
        BY <2>3, <4>1, <1>q, <1>s, <1>a DEF VerifyPassword
    <3>2. CASE Goto(r, "create") /\ status[request[r].user] = "active"
      <4>1. /\ request'[r].user = request[r].user /\ request'[r].pc = "create"
            /\ \A q \in Requests \ {r} : request'[q] = request[q]
        BY <3>2, <1>0, <1>1 DEF Goto, TypeOK, RequestState
      <4>2. KeepsEvictions
        BY <4>1, <2>3 DEF KeepsEvictions, VerifyPassword, At
      <4>3. VerifiedIsActive'
        BY <4>1, <3>2, <2>3, <1>0 DEF VerifiedIsActive, VerifyPassword, At
      <4>4. KeepsMarks /\ KeepsActive
        BY <2>3, <1>s, <1>a DEF VerifyPassword
      <4> QED
        BY <4>2, <4>3, <4>4, <1>0, EvictionFrame, SignedOutFrame DEF IInv
    <3> QED
      BY <2>3, <3>1, <3>2 DEF VerifyPassword
  <2>4. CASE RecordFailure(r)
    BY <2>4, <1>1, <1>m, <1>q, <1>s, <1>a DEF RecordFailure, At, RequestPC
  <2>5. CASE CreateSession(r)
    <3>1. KeepsEvictions /\ KeepsVerified /\ KeepsActive
      BY <2>5, <1>1, <1>m, <1>a DEF CreateSession, At, RequestPC
    <3> DEFINE new == [user |-> request[r].user, left |-> TTL,
                       mark |-> IF request[r].outdated THEN "late" ELSE "fresh"]
    <3>2. PICK t \in Tokens : sessions[t] = None /\ sessions' = [sessions EXCEPT ![t] = new]
      BY <2>5 DEF CreateSession
    <3>3. /\ sessions'[t] = new
          /\ \A o \in Tokens \ {t} : sessions'[o] = sessions[o]
      <4> HIDE DEF new
      <4> QED BY <3>2, <1>0 DEF TypeOK
    <3>4. new.user = request[r].user /\ new.mark # "stale"
          /\ (new.mark = "fresh" => ~ request[r].outdated)
      BY MarksDiffer
    <3>5. EvictionComplete'
      <4> HIDE DEF new
      <4> QED BY <3>1, <3>3, <3>4, <1>0 DEF EvictionComplete, KeepsEvictions, At
    <3>6. DisabledSignedOut'
      <4> HIDE DEF new
      <4>1. new.mark = "fresh" => status[new.user] = "active"
        BY <3>4, <2>5, <1>0, <1>1 DEF VerifiedIsActive, CreateSession
      <4> QED
        BY <4>1, <3>3, <2>5, <1>0 DEF DisabledSignedOut, CreateSession
    <3> QED
      BY <3>1, <3>5, <3>6, <1>0, VerifiedFrame DEF IInv
  <2>6. ASSUME NEW t \in Tokens, FindSession(r, t) PROVE IInv'
    <3>1. KeepsMarks
      BY <1>0, <2>6 DEF FindSession, KeepsMarks, TypeOK
    <3>2. KeepsEvictions /\ KeepsVerified
      <4>1. CASE request' = request
        BY <4>1, <1>r
      <4>2. CASE request' = [request EXCEPT ![r].pc = "account", ![r].user = sessions[t].user]
        <5>1. /\ request'[r].pc = "account"
              /\ \A q \in Requests \ {r} : request'[q] = request[q]
          BY <4>2, <1>0, <1>1 DEF TypeOK, RequestState
        <5> QED
          BY <5>1, <2>6 DEF FindSession, KeepsEvictions, KeepsVerified, At
      <4> QED
        BY <2>6, <4>1, <4>2 DEF FindSession
    <3> QED
      BY <2>6, <3>1, <3>2, <1>q, <1>a DEF FindSession
  <2>7. CASE FindAccount(r)
    BY <2>7, <1>1, <1>m, <1>q, <1>s, <1>a DEF FindAccount, At, RequestPC
  <2>8. CASE CheckCurrent(r)
    BY <2>8, <1>1, <1>m, <1>q, <1>s, <1>a DEF CheckCurrent, At, RequestPC
  <2>9. CASE SetPassword(r)
    <3>1. request[r].user \in Users /\ request[r].pc # "evict"
      BY <2>9, <1>0, <1>1, SessionUsers DEF SetPassword, At
    <3>2. sessions' = Stale(request[r].user) /\ EvictNext(r, request[r].user) /\ status' = status
      BY <2>9 DEF SetPassword
    <3> QED
      BY <3>1, <3>2, <1>0, <1>1, EvictNextFrame DEF IInv, DisabledSignedOut, VerifiedIsActive, At
  <2>10. ASSUME NEW u \in Users, CreateUser(r, u) \/ Enable(r, u) PROVE IInv'
    <3>1. KeepsActive
      BY <1>0, <2>10 DEF CreateUser, Enable, KeepsActive, TypeOK
    <3>2. KeepsEvictions /\ KeepsVerified
      BY <2>10, <1>1, <1>m DEF CreateUser, Enable, IsAdmin, At, RequestPC
    <3> QED
      BY <2>10, <3>1, <3>2, <1>q, <1>s DEF CreateUser, Enable
  <2>11. ASSUME NEW u \in Users, Disable(r, u) PROVE IInv'
    <3>1. /\ sessions' = Stale(u) /\ EvictNext(r, u) /\ request[r].pc # "evict"
          /\ \A v \in Users \ {u} : status'[v] = status[v]
      BY <2>11, <1>0 DEF Disable, IsAdmin, At, TypeOK
    <3>2. DisabledSignedOut'
      BY <3>1, <1>0, <1>1, <2>11, EvictNextFrame, SessionUsers DEF DisabledSignedOut
    <3>3. VerifiedIsActive'
      <4>1. \A q \in Requests : request[q].pc = "create" => request[q].user \in Users
        BY <1>0, SessionUsers
      <4> QED
        BY <3>1, <4>1, <1>0, <1>1, <2>11, EvictNextFrame DEF VerifiedIsActive, At
    <3> QED
      BY <3>1, <3>2, <3>3, <1>0, <1>1, <2>11, EvictNextFrame DEF IInv
  <2>12. CASE Evict(r) \/ (Abort(r) /\ At(r, "evict"))
    <3>1. /\ request'[r] = Idle
          /\ \A q \in Requests \ {r} : request'[q] = request[q]
      BY <2>12, <1>0, <1>1 DEF Evict, Abort, Finish, TypeOK
    <3>2. KeepsVerified /\ KeepsActive
      BY <2>12, <3>1, <1>a, IdleType DEF KeepsVerified, Evict, Abort
    <3>3. KeepsMarks /\ \A t \in Tokens :
            sessions'[t] # None /\ sessions'[t].mark = "stale" =>
              sessions'[t].user # request[r].user
      <4> SUFFICES ASSUME NEW t \in Tokens, sessions'[t] # None
                   PROVE  /\ sessions'[t].mark \in {"fresh", "stale"} =>
                               /\ sessions[t] # None
                               /\ sessions[t].user = sessions'[t].user
                               /\ sessions[t].mark = sessions'[t].mark
                          /\ sessions'[t].mark = "stale" =>
                               sessions'[t].user # request[r].user
        BY DEF KeepsMarks
      <4>1. CASE sessions[t] # None /\ sessions[t].user = request[r].user
        <5>1. Abort(r) /\ At(r, "evict")
          BY <2>12, <4>1 DEF Evict
        <5>2. sessions'[t] = [sessions[t] EXCEPT !.mark = IF @ = "stale" THEN "kept" ELSE @]
          BY <2>12, <4>1, <5>1 DEF Abort
        <5>3. sessions[t] \in Session
          BY <4>1, <1>0, SessionUsers
        <5> QED
          BY <4>1, <5>2, <5>3, MarksDiffer DEF Session
      <4>2. CASE ~ (sessions[t] # None /\ sessions[t].user = request[r].user)
        BY <2>12, <4>2 DEF Evict, Abort
      <4> QED
        BY <4>1, <4>2
    <3>4. EvictionComplete'
      BY <3>1, <3>3, <1>0 DEF EvictionComplete, KeepsMarks, At
    <3> QED
      BY <3>2, <3>3, <3>4, <1>0, SignedOutFrame, VerifiedFrame DEF IInv
  <2>13. CASE Abort(r) /\ ~ At(r, "evict")
    <3>1. KeepsMarks
      BY <2>13 DEF Abort, KeepsMarks
    <3>2. KeepsEvictions /\ KeepsVerified
      BY <2>13, <1>1, <1>m DEF Abort, At, RequestPC
    <3> QED
      BY <2>13, <3>1, <3>2, <1>q, <1>a DEF Abort
  <2> QED
    BY <1>1, <2>1, <2>2, <2>3, <2>4, <2>5, <2>6, <2>7, <2>8, <2>9, <2>10, <2>11,
       <2>12, <2>13 DEF Handle
<1>2. ASSUME NEW t \in Tokens, Logout(t) PROVE IInv'
  <2>1. KeepsMarks
    BY <1>0, <1>2 DEF Logout, KeepsMarks, TypeOK
  <2> QED
    BY <1>2, <2>1, <1>q, <1>r, <1>a DEF Logout
<1>3. CASE Purge
  <2>1. KeepsMarks
    BY <1>3 DEF Purge, KeepsMarks
  <2> QED
    BY <1>3, <2>1, <1>q, <1>r, <1>a DEF Purge
<1>4. CASE Tick
  <2>1. KeepsMarks
    BY <1>0, <1>4, SessionUsers DEF Tick, KeepsMarks, Session
  <2> QED
    BY <1>4, <2>1, <1>q, <1>r, <1>a DEF Tick
<1>5. CASE UNCHANGED vars
  BY <1>5, <1>q, <1>s, <1>r, <1>a DEF vars
<1> QED
  BY <1>1, <1>2, <1>3, <1>4, <1>5 DEF Next

\* Every reachable state satisfies the inductive invariant.
LEMMA Invariant == Spec => []IInv
<1> QED
  BY InitIInv, InvStep, PTL DEF Spec

\* The variables of accounts, sessions, attempts and requests keep their types.
THEOREM TypeCorrect == Spec => []TypeOK
<1>1. IInv => TypeOK
  BY DEF IInv
<1> QED
  BY <1>1, Invariant, PTL

\* A password change or a disable deletes every session there was, unless the
\* DELETE itself fails: handleChangePassword and handleSetUserStatus.
THEOREM EvictionReachesAll == Spec => []EvictionComplete
<1>1. IInv => EvictionComplete
  BY DEF IInv
<1> QED
  BY <1>1, Invariant, PTL

\* A disabled account has no session but those of a failed deletion and of a
\* sign-in the disable overtook: handleLogin and handleSetUserStatus.
THEOREM DisabledIsSignedOut == Spec => []DisabledSignedOut
<1>1. IInv => DisabledSignedOut
  BY DEF IInv
<1> QED
  BY <1>1, Invariant, PTL

------------------------------------------------------------------------------
(* How sessions end.                                                       *)

\* A step that ends the session of row t, which has time left.
Ends(t) == sessions[t] /= None /\ sessions[t].left > 0 /\ sessions'[t] = None

\* A row that is marked or grows older remains one.
LEMMA RowsRemain ==
  ASSUME TypeOK, NEW t \in Tokens, sessions[t] /= None
  PROVE  /\ \A mark \in Marks : [sessions[t] EXCEPT !.mark = mark] /= None
         /\ sessions[t].left > 0 => [sessions[t] EXCEPT !.left = @ - 1] /= None
<1>1. sessions[t] \in Session
  BY DEF TypeOK
<1>2. ASSUME NEW mark \in Marks
      PROVE  [sessions[t] EXCEPT !.mark = mark] \in Session
  BY <1>1, <1>2 DEF Session
<1>3. ASSUME sessions[t].left > 0
      PROVE  [sessions[t] EXCEPT !.left = @ - 1] \in Session
  BY <1>1, <1>3, AuthAssumption DEF Session
<1> QED
  BY <1>2, <1>3, NoSession

\* So do all rows of an account whose sessions are marked.
LEMMA StaleRemain ==
  ASSUME TypeOK, NEW t \in Tokens, sessions[t] /= None, NEW u
  PROVE  Stale(u)[t] /= None
<1>1. CASE sessions[t].user = u
  <2>1. Stale(u)[t] = [sessions[t] EXCEPT !.mark = "stale"]
    BY <1>1 DEF Stale
  <2> QED
    BY <2>1, RowsRemain DEF Marks
<1>2. CASE sessions[t].user # u
  BY <1>2 DEF Stale
<1> QED
  BY <1>1, <1>2

\* Of the steps of a request only Evict ends a session that has time left.
LEMMA HandleEnds ==
  ASSUME TypeOK, NEW r \in Requests, Handle(r), NEW t \in Tokens, Ends(t)
  PROVE  Evict(r) /\ request[r].user = sessions[t].user
<1>0. /\ sessions \in [Tokens -> Session \cup {None}]
      /\ sessions[t] /= None /\ sessions[t].left > 0 /\ sessions'[t] = None
  BY DEF TypeOK, Ends
<1>1. sessions' # sessions
  BY <1>0
<1>2. ASSUME CreateSession(r) PROVE FALSE
  <2>1. PICK x \in Tokens :
          /\ sessions[x] = None
          /\ sessions' = [sessions EXCEPT ![x] =
               [user |-> request[r].user, left |-> TTL,
                mark |-> IF request[r].outdated THEN "late" ELSE "fresh"]]
    BY <1>2 DEF CreateSession
  <2> QED
    BY <2>1, <1>0
<1>3. ASSUME NEW x \in Tokens, FindSession(r, x) PROVE FALSE
  <2>1. x = t => sessions' = sessions
    BY <1>3, <1>0 DEF FindSession
  <2>2. x # t => sessions'[t] = sessions[t]
    BY <1>3, <1>0 DEF FindSession
  <2> QED
    BY <2>1, <2>2, <1>0
<1>4. ASSUME NEW u, sessions' = Stale(u) PROVE FALSE
  BY <1>4, <1>0, StaleRemain
<1>5. ASSUME Abort(r) PROVE FALSE
  <2>1. \/ sessions'[t] = sessions[t]
        \/ sessions'[t] = [sessions[t] EXCEPT !.mark = IF @ = "stale" THEN "kept" ELSE @]
    BY <1>5 DEF Abort
  <2>2. sessions[t].mark \in Marks
    BY <1>0 DEF Session
  <2> QED
    BY <2>1, <2>2, <1>0, RowsRemain DEF Marks
<1>6. ASSUME Evict(r) PROVE request[r].user = sessions[t].user
  BY <1>6, <1>0 DEF Evict
<1>7. Evict(r)
  BY <1>1, <1>2, <1>3, <1>4, <1>5
  DEF Handle, CheckEmail, CheckIP, VerifyPassword, RecordFailure, FindAccount,
      CheckCurrent, SetPassword, CreateUser, Enable, Disable
<1> QED
  BY <1>6, <1>7

\* Neither does time, nor the purge.
LEMMA TimeEndsNone ==
  ASSUME TypeOK, Purge \/ Tick, NEW t \in Tokens, Ends(t)
  PROVE  FALSE
<1>1. CASE Purge
  BY <1>1, AuthAssumption DEF Purge, Ends
<1>2. CASE Tick
  <2>1. sessions'[t] = [sessions[t] EXCEPT !.left = @ - 1]
    BY <1>2 DEF Tick, Ends
  <2> QED
    BY <2>1, RowsRemain DEF Ends
<1> QED
  BY <1>1, <1>2

\* Nobody is signed out by the purge (startBackgroundWork, purgeLoop) or by a
\* lookup (SessionByToken) before the session's time is over: a session that
\* has time left ends by handleLogout or by the eviction of its account.
THEOREM SessionsEnd == Spec => SessionsEndForAReason
<1> DEFINE Reason(t) == \/ Logout(t)
                        \/ \E r \in Requests : Evict(r) /\ request[r].user = sessions[t].user
<1>1. ASSUME TypeOK, [Next]_vars, NEW t \in Tokens, Ends(t)
      PROVE  Reason(t)
  <2>1. CASE \E r \in Requests : Handle(r)
    BY <1>1, <2>1, HandleEnds
  <2>2. CASE \E x \in Tokens : Logout(x)
    BY <1>1, <2>2 DEF Logout, Ends, TypeOK
  <2>3. CASE Purge \/ Tick
    BY <1>1, <2>3, TimeEndsNone
  <2>4. CASE UNCHANGED vars
    BY <1>1, <2>4 DEF vars, Ends
  <2> QED
    BY <1>1, <2>1, <2>2, <2>3, <2>4 DEF Next
<1>2. TypeOK /\ [Next]_vars => [\A t \in Tokens : Ends(t) => Reason(t)]_vars
  BY <1>1
<1> QED
  BY <1>2, TypeCorrect, PTL DEF Spec, SessionsEndForAReason, Ends
------------------------------------------------------------------------------
(* Induction, for properties that are given as the set of what has them.   *)

\* Naturals: the least one outside T would have its predecessor in T.
LEMMA Induction ==
  ASSUME NEW T, 0 \in T, \A n \in Nat : n \in T => n + 1 \in T
  PROVE  Nat \subseteq T
<1> DEFINE Bad == Nat \ T
<1>1. SUFFICES ASSUME Bad # {} PROVE FALSE
  OBVIOUS
<1>2. PICK n \in Bad : \A k \in Bad : ~ (<<k, n>> \in OpToRel(<, Nat))
  <2>1. Bad \subseteq Nat
    OBVIOUS
  <2> HIDE DEF Bad
  <2> QED
    BY <1>1, <2>1, NatLessThanWellFounded, WFMin
<1>3. \A k \in Bad : ~ (k < n)
  BY <1>2 DEF OpToRel
<1>4. n - 1 \in Nat /\ n - 1 \in T
  BY <1>3
<1> QED
  BY <1>4

\* Finite sets: T has a set when it has all that lack one member of it.
LEMMA SubsetInduction ==
  ASSUME NEW S, IsFiniteSet(S), NEW T,
         \A s \in SUBSET S : (\A x \in s : s \ {x} \in T) => s \in T
  PROVE  SUBSET S \subseteq T
<1> DEFINE Good == {n \in Nat : \A s \in SUBSET S : Cardinality(s) <= n => s \in T}
<1>1. \A s \in SUBSET S : IsFiniteSet(s) /\ Cardinality(s) \in Nat
  BY FS_Subset, FS_CardinalityType
<1>2. 0 \in Good
  BY <1>1, FS_EmptySet
<1>3. ASSUME NEW n \in Nat, n \in Good PROVE n + 1 \in Good
  <2> SUFFICES ASSUME NEW s \in SUBSET S, Cardinality(s) <= n + 1 PROVE s \in T
    OBVIOUS
  <2>1. ASSUME NEW x \in s PROVE s \ {x} \in T
    <3>1. s \ {x} \in SUBSET S /\ Cardinality(s \ {x}) = Cardinality(s) - 1
      BY <1>1, FS_RemoveElement
    <3> QED
      BY <1>1, <1>3, <3>1
  <2> QED
    BY <2>1
<1>4. Nat \subseteq Good
  <2> HIDE DEF Good
  <2> QED
    BY <1>2, <1>3, Induction
<1> QED
  BY <1>1, <1>4

------------------------------------------------------------------------------
(* Sums over finite sets.                                                  *)

\* iter adds up f over the subsets of S, one chosen member at a time.
Chosen(s)  == CHOOSE x \in s : TRUE
Added(iter, f, s) == IF s = {} THEN 0 ELSE f[Chosen(s)] + iter[s \ {Chosen(s)}]
Adds(iter, f, S)  == iter = [s \in SUBSET S |-> Added(iter, f, s)]

\* There is such a function: what adds up sets of n members gives what adds up
\* those of n + 1.
LEMMA AddsExists ==
  ASSUME NEW S, IsFiniteSet(S), NEW f
  PROVE  \E iter : Adds(iter, f, S)
<1> DEFINE Upto(g, n) == \A s \in SUBSET S : Cardinality(s) <= n => g[s] = Added(g, f, s)
           T == {n \in Nat : \E g : Upto(g, n)}
<1>1. \A s \in SUBSET S : IsFiniteSet(s) /\ Cardinality(s) \in Nat
  BY FS_Subset, FS_CardinalityType
<1>2. \A s \in SUBSET S : s # {} => /\ s \ {Chosen(s)} \in SUBSET S
                                    /\ Cardinality(s \ {Chosen(s)}) = Cardinality(s) - 1
  BY <1>1, FS_RemoveElement DEF Chosen
<1>3. 0 \in T
  <2>1. Upto([s \in SUBSET S |-> 0], 0)
    BY <1>1, FS_EmptySet DEF Added
  <2> QED
    BY <2>1
<1>4. ASSUME NEW n \in Nat, n \in T PROVE n + 1 \in T
  <2>1. PICK g : Upto(g, n)
    BY <1>4
  <2> DEFINE h == [s \in SUBSET S |-> Added(g, f, s)]
  <2>2. \A s \in SUBSET S : Cardinality(s) <= n => h[s] = g[s]
    BY <2>1
  <2>3. ASSUME NEW s \in SUBSET S, Cardinality(s) <= n + 1
        PROVE  h[s] = Added(h, f, s)
    <3>0. h[s] = Added(g, f, s)
      OBVIOUS
    <3>1. CASE s = {}
      BY <3>0, <3>1 DEF Added
    <3>2. CASE s # {}
      <4>0. s \ {Chosen(s)} \in SUBSET S /\ Cardinality(s \ {Chosen(s)}) <= n
        BY <1>1, <1>2, <2>3, <3>2
      <4> HIDE DEF h
      <4>1. h[s \ {Chosen(s)}] = g[s \ {Chosen(s)}]
        BY <2>2, <4>0
      <4> QED
        BY <3>0, <3>2, <4>1 DEF Added
    <3> QED
      BY <3>1, <3>2
  <2> HIDE DEF h
  <2> QED
    BY <2>3
<1>5. Cardinality(S) \in T
  <2>1. Nat \subseteq T
    <3> HIDE DEF T
    <3> QED
      BY <1>3, <1>4, Induction
  <2> QED
    BY <2>1, FS_CardinalityType
<1>6. PICK g : \A s \in SUBSET S : Cardinality(s) <= Cardinality(S) => g[s] = Added(g, f, s)
  BY <1>5
<1>7. \A s \in SUBSET S : g[s] = Added(g, f, s)
  BY <1>6, FS_Subset
<1> DEFINE iter == [s \in SUBSET S |-> g[s]]
<1>8. ASSUME NEW s \in SUBSET S PROVE Added(iter, f, s) = Added(g, f, s)
  <2>1. s # {} => iter[s \ {Chosen(s)}] = g[s \ {Chosen(s)}]
    BY <1>2
  <2> HIDE DEF iter
  <2> QED
    BY <2>1 DEF Added
<1>9. iter = [s \in SUBSET S |-> Added(iter, f, s)]
  <2>1. \A s \in SUBSET S : g[s] = Added(iter, f, s)
    BY <1>7, <1>8
  <2> DEFINE B(s) == Added(iter, f, s)
  <2>2. \A s \in SUBSET S : g[s] = B(s)
    BY <2>1
  <2>3. iter = [s \in SUBSET S |-> B(s)]
    <3> HIDE DEF B
    <3> QED BY <2>2
  <2> QED
    BY <2>3
<1> QED
  BY <1>9 DEF Adds

\* MapThenSumSet adds up.
Sum(f, S) == MapThenSumSet(LAMBDA k : f[k], S)
LEMMA SumAdds ==
  ASSUME NEW S, IsFiniteSet(S), NEW f
  PROVE  \E iter : Adds(iter, f, S) /\ Sum(f, S) = iter[S]
<1> DEFINE it == CHOOSE i : i = [s \in SUBSET S |-> IF s = {} THEN 0
                     ELSE f[CHOOSE x \in s : TRUE] + i[s \ {CHOOSE x \in s : TRUE}]]
<1>1. Sum(f, S) = it[S]
  BY Zenon DEF Sum, MapThenSumSet, MapThenFoldSet
<1>2. Adds(it, f, S)
  <2>1. PICK i : Adds(i, f, S)
    BY AddsExists
  <2>2. i = [s \in SUBSET S |-> IF s = {} THEN 0
              ELSE f[CHOOSE x \in s : TRUE] + i[s \ {CHOOSE x \in s : TRUE}]]
    BY <2>1, Zenon DEF Adds, Added, Chosen
  <2>3. it = [s \in SUBSET S |-> IF s = {} THEN 0
               ELSE f[CHOOSE x \in s : TRUE] + it[s \ {CHOOSE x \in s : TRUE}]]
    BY <2>2, Zenon
  <2> HIDE DEF it
  <2> QED
    BY <2>3, Zenon DEF Adds, Added, Chosen
<1> QED
  BY <1>1, <1>2

\* f has natural numbers for values on S; iter gives the sums of its subsets,
\* whichever member is added last.
Values(f, S) == \A x \in S : f[x] \in Nat
Sums(iter, f, S) ==
  /\ iter[{}] = 0
  /\ \A s \in SUBSET S : iter[s] \in Nat
  /\ \A s \in SUBSET S : \A x \in s : iter[s] = f[x] + iter[s \ {x}]

\* The order in which members are added up does not matter.
LEMMA AddsAnyOrder ==
  ASSUME NEW S, IsFiniteSet(S), NEW f, Values(f, S), NEW iter, Adds(iter, f, S)
  PROVE  Sums(iter, f, S)
<1>0. \A x \in S : f[x] \in Nat
  BY DEF Values
<1>1. \A s \in SUBSET S : iter[s] = Added(iter, f, s)
  BY DEF Adds
<1>2. \A s \in SUBSET S : s # {} => Chosen(s) \in s /\ s \ {Chosen(s)} \in SUBSET S
  BY DEF Chosen
<1>7. iter[{}] = 0
  BY <1>1 DEF Added
<1>3. SUBSET S \subseteq {s \in SUBSET S : iter[s] \in Nat}
  <2> DEFINE T == {s \in SUBSET S : iter[s] \in Nat}
  <2>1. ASSUME NEW s \in SUBSET S, \A x \in s : s \ {x} \in T PROVE s \in T
    <3>1. CASE s = {}
      BY <1>7, <3>1
    <3>2. CASE s # {}
      <4>1. iter[s] = f[Chosen(s)] + iter[s \ {Chosen(s)}]
        BY <1>1, <3>2 DEF Added
      <4>2. Chosen(s) \in S /\ iter[s \ {Chosen(s)}] \in Nat
        BY <1>2, <2>1, <3>2
      <4> QED
        BY <1>0, <4>1, <4>2
    <3> QED
      BY <3>1, <3>2
  <2> HIDE DEF T
  <2>2. SUBSET S \subseteq T
    BY <2>1, SubsetInduction
  <2> QED
    BY <2>2 DEF T
<1>4. \A s \in SUBSET S : iter[s] \in Nat
  BY <1>3
<1> DEFINE T == {s \in SUBSET S : \A x \in s : iter[s] = f[x] + iter[s \ {x}]}
<1>5. ASSUME NEW s \in SUBSET S, \A x \in s : s \ {x} \in T PROVE s \in T
  <2> SUFFICES ASSUME NEW x \in s, x # Chosen(s) PROVE iter[s] = f[x] + iter[s \ {x}]
    <3>1. s # {} => iter[s] = f[Chosen(s)] + iter[s \ {Chosen(s)}]
      BY <1>1 DEF Added
    <3> QED
      BY <3>1
  <2> DEFINE c == Chosen(s)
             rest == (s \ {c}) \ {x}
  <2>1. c \in s /\ iter[s] = f[c] + iter[s \ {c}]
    BY <1>1, <1>2 DEF Added
  <2>2. x # c
    OBVIOUS
  <2> HIDE DEF c
  <2>3. rest = (s \ {x}) \ {c} /\ rest \in SUBSET S
    OBVIOUS
  <2> HIDE DEF rest
  <2>4. iter[s \ {c}] = f[x] + iter[rest]
    BY <1>5, <2>1, <2>2 DEF rest
  <2>5. iter[s \ {x}] = f[c] + iter[rest]
    BY <1>5, <2>1, <2>2, <2>3
  <2>6. f[x] \in Nat /\ f[c] \in Nat /\ iter[rest] \in Nat
    BY <1>0, <1>4, <2>1, <2>3
  <2> QED
    BY <2>1, <2>4, <2>5, <2>6
<1>6. SUBSET S \subseteq T
  <2> HIDE DEF T
  <2> QED
    BY <1>5, SubsetInduction
<1> QED
  BY <1>4, <1>6, <1>7 DEF Sums

\* Leaving members out does not give more.
LEMMA AddsMonotone ==
  ASSUME NEW S, IsFiniteSet(S), NEW f, Values(f, S),
         NEW iter, Sums(iter, f, S), NEW t \in SUBSET S
  PROVE  iter[t] <= iter[S]
<1>0. /\ \A x \in S : f[x] \in Nat
      /\ iter[{}] = 0
      /\ \A s \in SUBSET S : iter[s] \in Nat
      /\ \A s \in SUBSET S : \A x \in s : iter[s] = f[x] + iter[s \ {x}]
  BY DEF Values, Sums
<1> DEFINE T == {s \in SUBSET S : t \subseteq s => iter[t] <= iter[s]}
<1>1. ASSUME NEW s \in SUBSET S, \A x \in s : s \ {x} \in T PROVE s \in T
  <2> SUFFICES ASSUME t \subseteq s, s # t PROVE iter[t] <= iter[s]
    BY <1>0
  <2>1. PICK x \in s : x \notin t
    OBVIOUS
  <2>2. iter[t] <= iter[s \ {x}]
    BY <1>1, <2>1
  <2>3. /\ iter[s] = f[x] + iter[s \ {x}] /\ f[x] \in Nat
        /\ iter[s] \in Nat /\ iter[s \ {x}] \in Nat /\ iter[t] \in Nat
    BY <1>0, <2>1
  <2> QED
    BY <2>2, <2>3
<1>2. SUBSET S \subseteq T
  <2> HIDE DEF T
  <2> QED
    BY <1>1, SubsetInduction
<1> QED
  BY <1>2

\* Nothing adds up to nothing.
LEMMA AddsNothing ==
  ASSUME NEW S, IsFiniteSet(S), NEW f, \A x \in S : f[x] = 0, NEW iter, Sums(iter, f, S)
  PROVE  iter[S] = 0
<1> DEFINE T == {s \in SUBSET S : iter[s] = 0}
<1>0. /\ iter[{}] = 0
      /\ \A s \in SUBSET S : \A x \in s : iter[s] = f[x] + iter[s \ {x}]
  BY DEF Sums
<1>1. ASSUME NEW s \in SUBSET S, \A x \in s : s \ {x} \in T PROVE s \in T
  <2>1. CASE s = {}
    BY <1>0, <2>1
  <2>2. ASSUME NEW x \in s PROVE iter[s] = 0
    <3>1. iter[s] = f[x] + iter[s \ {x}]
      BY <1>0
    <3>2. f[x] = 0 /\ iter[s \ {x}] = 0
      BY <1>1
    <3> QED
      BY <3>1, <3>2
  <2> QED
    BY <2>1, <2>2
<1>2. SUBSET S \subseteq T
  <2> HIDE DEF T
  <2> QED
    BY <1>1, SubsetInduction
<1> QED
  BY <1>2

\* One more at k makes one more in the sum of every set with k in it.
LEMMA AddsOneMore ==
  ASSUME NEW S, IsFiniteSet(S), NEW f, Values(f, S),
         NEW g, NEW k, \A x \in S : g[x] = IF x = k THEN f[x] + 1 ELSE f[x],
         NEW before, Sums(before, f, S), NEW after, Sums(after, g, S)
  PROVE  after[S] = IF k \in S THEN before[S] + 1 ELSE before[S]
<1> DEFINE T == {s \in SUBSET S : after[s] = IF k \in s THEN before[s] + 1 ELSE before[s]}
<1>1. \A x \in S : f[x] \in Nat
  BY DEF Values
<1>2. /\ before[{}] = 0 /\ after[{}] = 0
      /\ \A s \in SUBSET S : before[s] \in Nat
      /\ \A s \in SUBSET S : \A x \in s : /\ before[s] = f[x] + before[s \ {x}]
                                          /\ after[s] = g[x] + after[s \ {x}]
  BY DEF Sums
<1>3. ASSUME NEW s \in SUBSET S, \A x \in s : s \ {x} \in T PROVE s \in T
  <2>1. CASE s = {}
    BY <1>2, <2>1
  <2>2. CASE s # {}
    <3>1. PICK x \in s : TRUE
      BY <2>2
    <3>2. /\ before[s] = f[x] + before[s \ {x}] /\ after[s] = g[x] + after[s \ {x}]
          /\ after[s \ {x}] = IF k \in s \ {x} THEN before[s \ {x}] + 1 ELSE before[s \ {x}]
          /\ f[x] \in Nat /\ before[s \ {x}] \in Nat
          /\ g[x] = IF x = k THEN f[x] + 1 ELSE f[x]
      BY <1>1, <1>2, <1>3
    <3> QED
      BY <3>2
  <2> QED
    BY <2>1, <2>2
<1>4. SUBSET S \subseteq T
  <2> HIDE DEF T
  <2> QED
    BY <1>3, SubsetInduction
<1> QED
  BY <1>4

\* The keys of attempts, each with all the younger ones; g is f a tick later.
Keys(S) ==
  \A x \in S : /\ x = <<x[1], x[2], x[3]>> /\ x[3] \in Nat
               /\ x[3] # 0 => <<x[1], x[2], x[3] - 1>> \in S
Aged(g, f, S) == \A x \in S : g[x] = IF x[3] = 0 THEN 0 ELSE f[<<x[1], x[2], x[3] - 1>>]

\* When every value moves on to the next age, none is added and the last drop.
LEMMA AddsAging ==
  ASSUME NEW S, IsFiniteSet(S), Keys(S),
         NEW f, Values(f, S), NEW g, Aged(g, f, S),
         NEW before, Sums(before, f, S), NEW after, Sums(after, g, S)
  PROVE  after[S] <= before[S]
<1> DEFINE Younger(s) == {y \in S : <<y[1], y[2], y[3] + 1>> \in s}
<1>t. \A x \in S : /\ x = <<x[1], x[2], x[3]>> /\ x[3] \in Nat
                   /\ x[3] # 0 => <<x[1], x[2], x[3] - 1>> \in S
  BY DEF Keys
<1>g. \A x \in S : g[x] = IF x[3] = 0 THEN 0 ELSE f[<<x[1], x[2], x[3] - 1>>]
  BY DEF Aged
<1>1. /\ after[{}] = 0
      /\ \A s \in SUBSET S : \A x \in s : after[s] = g[x] + after[s \ {x}]
  BY DEF Sums
<1>2. /\ before[{}] = 0
      /\ \A s \in SUBSET S : before[s] \in Nat
      /\ \A s \in SUBSET S : \A x \in s : before[s] = f[x] + before[s \ {x}]
  BY DEF Sums
<1> DEFINE T == {s \in SUBSET S : after[s] = before[Younger(s)]}
<1>3. ASSUME NEW s \in SUBSET S, \A x \in s : s \ {x} \in T PROVE s \in T
  <2>1. CASE s = {}
    <3>1. Younger(s) = {}
      BY <2>1
    <3> QED
      BY <1>1, <1>2, <2>1, <3>1
  <2>2. CASE s # {}
    <3>1. PICK x \in s : TRUE
      BY <2>2
    <3>2. after[s] = g[x] + before[Younger(s \ {x})]
      <4>1. after[s] = g[x] + after[s \ {x}]
        BY <1>1
      <4>2. after[s \ {x}] = before[Younger(s \ {x})]
        BY <1>3
      <4> QED
        BY <4>1, <4>2
    <3>p. \A q \in SUBSET S : before[Younger(q)] \in Nat
      BY <1>2
    <3>3. CASE x[3] = 0
      <4>1. Younger(s \ {x}) = Younger(s)
        <5>1. ASSUME NEW y \in S, <<y[1], y[2], y[3] + 1>> = x PROVE FALSE
          <6>1. y[3] \in Nat
            BY <1>t
          <6>2. x[3] = y[3] + 1
            BY <5>1
          <6> QED
            BY <3>3, <6>1, <6>2
        <5> QED
          BY <5>1
      <4>2. before[Younger(s)] \in Nat
        BY <3>p
      <4>3. g[x] = 0
        BY <1>g, <3>3
      <4>4. after[s] = before[Younger(s)]
        <5> HIDE DEF Younger
        <5> QED
          BY <3>2, <4>1, <4>2, <4>3
      <4> QED
        BY <4>4
    <3>4. CASE x[3] # 0
      <4> DEFINE y == <<x[1], x[2], x[3] - 1>>
      <4>1. y \in S /\ y \in Younger(s)
        <5>1. y \in S /\ x[3] \in Nat
          BY <1>t, <3>4
        <5>2. <<y[1], y[2], y[3] + 1>> = x
          BY <1>t, <5>1
        <5> QED
          BY <5>1, <5>2
      <4>2. Younger(s) \ {y} = Younger(s \ {x})
        <5>1. ASSUME NEW z \in S, <<z[1], z[2], z[3] + 1>> = x PROVE z = y
          <6>1. z = <<z[1], z[2], z[3]>> /\ z[3] \in Nat
            BY <1>t
          <6>2. x[1] = z[1] /\ x[2] = z[2] /\ x[3] = z[3] + 1
            BY <5>1
          <6>3. x[3] - 1 = z[3]
            BY <6>1, <6>2
          <6> QED
            BY <6>1, <6>2, <6>3
        <5>2. <<y[1], y[2], y[3] + 1>> = x
          <6>1. x = <<x[1], x[2], x[3]>> /\ x[3] \in Nat
            BY <1>t
          <6> QED
            BY <6>1
        <5>3. \A z \in S : <<z[1], z[2], z[3] + 1>> = x <=> z = y
          BY <5>1, <5>2
        <5> HIDE DEF y
        <5> QED
          BY <5>3
      <4>3. g[x] = f[y]
        BY <1>g, <3>4
      <4>4. before[Younger(s)] = f[y] + before[Younger(s) \ {y}]
        <5>1. Younger(s) \in SUBSET S
          OBVIOUS
        <5> HIDE DEF Younger, y
        <5> QED
          BY <1>2, <4>1, <5>1
      <4> QED
        BY <3>2, <4>2, <4>3, <4>4
    <3> QED
      BY <3>3, <3>4
  <2> QED
    BY <2>1, <2>2
<1>4. SUBSET S \subseteq T
  <2> HIDE DEF T
  <2> QED
    BY <1>3, SubsetInduction
<1>5. after[S] = before[Younger(S)]
  BY <1>4
<1>6. before[Younger(S)] <= before[S]
  <2>1. Younger(S) \in SUBSET S
    OBVIOUS
  <2> HIDE DEF Younger
  <2> QED
    BY <2>1, AddsMonotone
<1> QED
  BY <1>5, <1>6

------------------------------------------------------------------------------
(* The limit on failed sign-ins.                                           *)

OfUser(s)  == {s} \X IPs \X Ages
FromIP(ip) == Spellings \X {ip} \X Ages

\* The product of three finite sets is finite.
LEMMA FiniteProduct ==
  ASSUME NEW A, NEW B, NEW C, IsFiniteSet(A), IsFiniteSet(B), IsFiniteSet(C)
  PROVE  IsFiniteSet(A \X B \X C)
<1> DEFINE S == A \X (B \X C)
           T == A \X B \X C
           f == [x \in S |-> <<x[1], x[2][1], x[2][2]>>]
<1>1. IsFiniteSet(S)
  BY FS_Product
<1>2. f \in [S -> T]
  OBVIOUS
<1>3. ASSUME NEW y \in T PROVE \E x \in S : f[x] = y
  <2>1. PICK a \in A, b \in B, c \in C : y = <<a, b, c>>
    OBVIOUS
  <2>2. <<a, <<b, c>>>> \in S /\ f[<<a, <<b, c>>>>] = <<a, b, c>>
    OBVIOUS
  <2> QED
    BY <2>1, <2>2
<1>4. f \in Surjection(S, T)
  <2> HIDE DEF f, S, T
  <2> QED
    BY <1>2, <1>3 DEF Surjection
<1> QED
  <2> HIDE DEF f, S
  <2> QED
    BY <1>1, <1>4, FS_Surjection

\* The parts of the table that RecentFailures counts are finite, and have
\* every younger attempt with an older one.
LEMMA Parts ==
  /\ \A s \in Spellings : IsFiniteSet(OfUser(s)) /\ Keys(OfUser(s))
  /\ \A ip \in IPs : IsFiniteSet(FromIP(ip)) /\ Keys(FromIP(ip))
<1>1. IsFiniteSet(Ages)
  BY AuthAssumption, FS_Interval DEF Ages
<1>2. /\ IsFiniteSet(IPs) /\ IsFiniteSet(Spellings)
      /\ \A x : IsFiniteSet({x})
  BY AuthAssumption, FS_Singleton
<1>3. ASSUME NEW A, NEW B PROVE Keys(A \X B \X Ages)
  <2> SUFFICES ASSUME NEW a \in A, NEW b \in B, NEW n \in Ages
               PROVE  n \in Nat /\ (n # 0 => n - 1 \in Ages)
    BY DEF Keys
  <2> QED
    BY AuthAssumption DEF Ages
<1> QED
  BY <1>1, <1>2, <1>3, FiniteProduct DEF OfUser, FromIP

\* What RecentFailures counts is the sum over its part of the table.
LEMMA Counted ==
  /\ \A s \in Spellings : FailuresOf(s) = Sum(failures, OfUser(s))
  /\ \A s \in Spellings : FailuresOf(s)' = Sum(failures', OfUser(s))
  /\ \A ip \in IPs : FailuresFrom(ip) = Sum(failures, FromIP(ip))
  /\ \A ip \in IPs : FailuresFrom(ip)' = Sum(failures', FromIP(ip))
  BY Zenon DEF FailuresOf, FailuresFrom, OfUser, FromIP, Sum, MapThenSumSet, MapThenFoldSet

\* Sums of naturals, as SumAdds and AddsAnyOrder give them.
LEMMA SumIs ==
  ASSUME NEW S, IsFiniteSet(S), NEW f, Values(f, S)
  PROVE  \E iter : Sums(iter, f, S) /\ Sum(f, S) = iter[S]
<1>1. PICK iter : Adds(iter, f, S) /\ Sum(f, S) = iter[S]
  BY SumAdds
<1>2. Sums(iter, f, S)
  BY <1>1, AddsAnyOrder
<1> QED
  BY <1>1, <1>2

\* The sum of naturals is one.
LEMMA SumNat ==
  ASSUME NEW S, IsFiniteSet(S), NEW f, Values(f, S)
  PROVE  Sum(f, S) \in Nat
<1>1. PICK iter : Sums(iter, f, S) /\ Sum(f, S) = iter[S]
  BY SumIs
<1>2. S \in SUBSET S
  OBVIOUS
<1>3. iter[S] \in Nat
  BY <1>1, <1>2 DEF Sums
<1> QED
  BY <1>1, <1>3

\* The sum of nothing is nothing.
LEMMA SumNothing ==
  ASSUME NEW S, IsFiniteSet(S), NEW f, \A x \in S : f[x] = 0
  PROVE  Sum(f, S) = 0
<1>1. Values(f, S)
  BY DEF Values
<1>2. PICK iter : Sums(iter, f, S) /\ Sum(f, S) = iter[S]
  BY <1>1, SumIs
<1> QED
  BY <1>2, AddsNothing

\* One more at k is one more in the sum.
LEMMA SumOneMore ==
  ASSUME NEW S, IsFiniteSet(S), NEW f, Values(f, S),
         NEW g, NEW k, \A x \in S : g[x] = IF x = k THEN f[x] + 1 ELSE f[x]
  PROVE  Sum(g, S) = IF k \in S THEN Sum(f, S) + 1 ELSE Sum(f, S)
<1>1. Values(g, S)
  BY DEF Values
<1>2. PICK before : Sums(before, f, S) /\ Sum(f, S) = before[S]
  BY SumIs
<1>3. PICK after : Sums(after, g, S) /\ Sum(g, S) = after[S]
  BY <1>1, SumIs
<1>4. after[S] = IF k \in S THEN before[S] + 1 ELSE before[S]
  BY <1>2, <1>3, AddsOneMore
<1> QED
  BY <1>2, <1>3, <1>4

\* A tick does not give more.
LEMMA SumAging ==
  ASSUME NEW S, IsFiniteSet(S), Keys(S), NEW f, Values(f, S), NEW g, Aged(g, f, S)
  PROVE  Sum(g, S) <= Sum(f, S)
<1>1. Values(g, S)
  BY DEF Values, Aged, Keys
<1>2. PICK before : Sums(before, f, S) /\ Sum(f, S) = before[S]
  BY SumIs
<1>3. PICK after : Sums(after, g, S) /\ Sum(g, S) = after[S]
  BY <1>1, SumIs
<1> QED
  BY <1>2, <1>3, AddsAging

\* The sign-ins that have passed the limit of s, and of ip, and may still fail.
Trying == {"ip", "verify", "record"}
PendingOf(s)    == {r \in Requests : request[r].pc \in Trying /\ request[r].typed = s}
PendingFrom(ip) == {r \in Requests : request[r].pc \in Trying \ {"ip"} /\ request[r].ip = ip}

\* Whoever passed a limit found it unmet, so no more can still fail beyond it
\* than there are requests.
LimitInv ==
  /\ \A r \in Requests : request[r].pc \in Trying =>
       request[r].typed \in Spellings /\ request[r].ip \in IPs
  /\ \A s \in Spellings :
       FailuresOf(s) + Cardinality(PendingOf(s)) < MaxFailures + Cardinality(Requests)
  /\ \A ip \in IPs :
       FailuresFrom(ip) + Cardinality(PendingFrom(ip))
         < IPFactor * MaxFailures + Cardinality(Requests)

\* The limits are positive, and sets of requests have cardinalities.
LEMMA Limits ==
  /\ MaxFailures \in Nat \ {0} /\ IPFactor * MaxFailures \in Nat \ {0}
  /\ Cardinality(Requests) \in Nat
  /\ \A P \in SUBSET Requests : /\ IsFiniteSet(P) /\ Cardinality(P) \in Nat
                                /\ Cardinality(P) <= Cardinality(Requests)
<1>1. MaxFailures \in Nat \ {0} /\ IPFactor \in Nat \ {0}
  BY AuthAssumption
<1>2. \A a, b \in Nat \ {0} : a * b \in Nat \ {0}
  OBVIOUS
<1>3. IsFiniteSet(Requests)
  BY AuthAssumption
<1> QED
  BY <1>1, <1>2, <1>3, FS_Subset, FS_CardinalityType

\* The table has natural numbers for values, before and after a step.
LEMMA TableValues ==
  ASSUME TypeOK
  PROVE  /\ \A s \in Spellings : Values(failures, OfUser(s)) /\ FailuresOf(s) \in Nat
         /\ \A ip \in IPs : Values(failures, FromIP(ip)) /\ FailuresFrom(ip) \in Nat
<1>1. failures \in [Attempts -> Nat]
  BY DEF TypeOK
<1>2. /\ \A s \in Spellings : Values(failures, OfUser(s))
      /\ \A ip \in IPs : Values(failures, FromIP(ip))
  BY <1>1 DEF Values, OfUser, FromIP, Attempts
<1> QED
  BY <1>2, Counted, Parts, SumNat

\* At first nobody has failed, and nobody is pending.
LEMMA LimitInit == Init => LimitInv
<1> SUFFICES ASSUME Init PROVE LimitInv
  OBVIOUS
<1>1. \A r \in Requests : request[r].pc \notin Trying
  BY DEF Init, Idle, Trying
<1>2. /\ \A s \in Spellings : PendingOf(s) = {}
      /\ \A ip \in IPs : PendingFrom(ip) = {}
  BY <1>1 DEF PendingOf, PendingFrom
<1>3. /\ \A s \in Spellings : \A x \in OfUser(s) : failures[x] = 0
      /\ \A ip \in IPs : \A x \in FromIP(ip) : failures[x] = 0
  BY DEF Init, OfUser, FromIP, Attempts
<1>4. /\ \A s \in Spellings : FailuresOf(s) = 0
      /\ \A ip \in IPs : FailuresFrom(ip) = 0
  BY <1>3, Counted, Parts, SumNothing
<1>5. Cardinality({}) = 0
  BY FS_EmptySet
<1> DEFINE L == IPFactor * MaxFailures
<1>6. MaxFailures \in Nat \ {0} /\ L \in Nat \ {0} /\ Cardinality(Requests) \in Nat
  BY Limits
<1> HIDE DEF L
<1>7. 0 + 0 < MaxFailures + Cardinality(Requests) /\ 0 + 0 < L + Cardinality(Requests)
  BY <1>6
<1> QED
  BY <1>1, <1>2, <1>4, <1>5, <1>7 DEF LimitInv, L

\* A step that records no failure and lets no request pass a limit.
Calm ==
  /\ failures' = failures
  /\ \A r \in Requests : request'[r].pc \in Trying =>
       /\ request[r].pc \in Trying
       /\ request'[r].pc # "ip" => request[r].pc # "ip"
       /\ request'[r].typed = request[r].typed
       /\ request'[r].ip = request[r].ip

\* Unless the table changes, what is counted does not.
LEMMA SameFailures ==
  ASSUME failures' = failures
  PROVE  /\ \A s \in Spellings : FailuresOf(s)' = FailuresOf(s)
         /\ \A ip \in IPs : FailuresFrom(ip)' = FailuresFrom(ip)
  BY Counted

\* A calm step has no more pending requests after it than before.
LEMMA CalmKeeps ==
  ASSUME TypeOK, LimitInv, Calm
  PROVE  LimitInv'
<1>1. \A r \in Requests : request'[r].pc \in Trying =>
        request'[r].typed \in Spellings /\ request'[r].ip \in IPs
  BY DEF LimitInv, Calm
<1>2. \A s \in Spellings : PendingOf(s)' \subseteq PendingOf(s)
  BY DEF Calm, PendingOf
<1>3. \A ip \in IPs : PendingFrom(ip)' \subseteq PendingFrom(ip)
  BY DEF Calm, PendingFrom, Trying
<1>4. /\ \A s \in Spellings : FailuresOf(s)' = FailuresOf(s)
      /\ \A ip \in IPs : FailuresFrom(ip)' = FailuresFrom(ip)
  BY SameFailures DEF Calm
<1>5. ASSUME NEW s \in Spellings
      PROVE  FailuresOf(s)' + Cardinality(PendingOf(s)') < MaxFailures + Cardinality(Requests)
  <2>1. PendingOf(s) \in SUBSET Requests /\ PendingOf(s)' \in SUBSET PendingOf(s)
    BY <1>2 DEF PendingOf
  <2>2. /\ Cardinality(PendingOf(s)') <= Cardinality(PendingOf(s))
        /\ Cardinality(PendingOf(s)') \in Nat /\ Cardinality(PendingOf(s)) \in Nat
    BY <2>1, Limits, FS_Subset
  <2>3. FailuresOf(s) + Cardinality(PendingOf(s)) < MaxFailures + Cardinality(Requests)
    BY DEF LimitInv
  <2>4. FailuresOf(s) \in Nat /\ FailuresOf(s)' = FailuresOf(s)
    BY <1>4, TableValues
  <2> QED
    BY <2>2, <2>3, <2>4, Limits
<1>6. ASSUME NEW ip \in IPs
      PROVE  FailuresFrom(ip)' + Cardinality(PendingFrom(ip)')
               < IPFactor * MaxFailures + Cardinality(Requests)
  <2>1. PendingFrom(ip) \in SUBSET Requests /\ PendingFrom(ip)' \in SUBSET PendingFrom(ip)
    BY <1>3 DEF PendingFrom
  <2>2. /\ Cardinality(PendingFrom(ip)') <= Cardinality(PendingFrom(ip))
        /\ Cardinality(PendingFrom(ip)') \in Nat /\ Cardinality(PendingFrom(ip)) \in Nat
    BY <2>1, Limits, FS_Subset
  <2> DEFINE L == IPFactor * MaxFailures
  <2>3. FailuresFrom(ip) + Cardinality(PendingFrom(ip)) < L + Cardinality(Requests)
    BY DEF LimitInv
  <2>4. FailuresFrom(ip) \in Nat /\ FailuresFrom(ip)' = FailuresFrom(ip)
    BY <1>4, TableValues
  <2>5. L \in Nat /\ Cardinality(Requests) \in Nat
    BY Limits
  <2> HIDE DEF L
  <2>6. FailuresFrom(ip)' + Cardinality(PendingFrom(ip)') < L + Cardinality(Requests)
    BY <2>2, <2>3, <2>4, <2>5
  <2> QED
    BY <2>6 DEF L
<1> QED
  BY <1>1, <1>5, <1>6 DEF LimitInv

\* While fewer have failed than the limit, all requests may be pending.
LEMMA BelowLimit ==
  /\ \A s \in Spellings : FailuresOf(s)' \in Nat /\ FailuresOf(s)' < MaxFailures =>
       FailuresOf(s)' + Cardinality(PendingOf(s)') < MaxFailures + Cardinality(Requests)
  /\ \A ip \in IPs : FailuresFrom(ip)' \in Nat /\ FailuresFrom(ip)' < IPFactor * MaxFailures =>
       FailuresFrom(ip)' + Cardinality(PendingFrom(ip)')
         < IPFactor * MaxFailures + Cardinality(Requests)
<1> DEFINE L == IPFactor * MaxFailures
<1>1. /\ \A s \in Spellings : PendingOf(s)' \in SUBSET Requests
      /\ \A ip \in IPs : PendingFrom(ip)' \in SUBSET Requests
  BY DEF PendingOf, PendingFrom
<1>2. /\ \A s \in Spellings : /\ Cardinality(PendingOf(s)') \in Nat
                          /\ Cardinality(PendingOf(s)') <= Cardinality(Requests)
      /\ \A ip \in IPs : /\ Cardinality(PendingFrom(ip)') \in Nat
                         /\ Cardinality(PendingFrom(ip)') <= Cardinality(Requests)
  BY <1>1, Limits
<1>3. MaxFailures \in Nat /\ L \in Nat /\ Cardinality(Requests) \in Nat
  BY Limits
<1> HIDE DEF L
<1>4. /\ \A s \in Spellings : FailuresOf(s)' \in Nat /\ FailuresOf(s)' < MaxFailures =>
           FailuresOf(s)' + Cardinality(PendingOf(s)') < MaxFailures + Cardinality(Requests)
      /\ \A ip \in IPs : FailuresFrom(ip)' \in Nat /\ FailuresFrom(ip)' < L =>
           FailuresFrom(ip)' + Cardinality(PendingFrom(ip)') < L + Cardinality(Requests)
  BY <1>2, <1>3
<1> QED
  BY <1>4 DEF L

\* What does not change keeps within its limit.
LEMMA SameWithin ==
  ASSUME LimitInv
  PROVE  /\ \A s \in Spellings : FailuresOf(s)' = FailuresOf(s) /\ PendingOf(s)' = PendingOf(s) =>
              FailuresOf(s)' + Cardinality(PendingOf(s)') < MaxFailures + Cardinality(Requests)
         /\ \A ip \in IPs :
              FailuresFrom(ip)' = FailuresFrom(ip) /\ PendingFrom(ip)' = PendingFrom(ip) =>
                FailuresFrom(ip)' + Cardinality(PendingFrom(ip)')
                  < IPFactor * MaxFailures + Cardinality(Requests)
  BY DEF LimitInv

\* r passes the limit of s, which has not been reached.
LEMMA CheckEmailKeeps ==
  ASSUME TypeOK, LimitInv, NEW r \in Requests, NEW s \in Spellings, NEW ip \in IPs,
         CheckEmail(r, s, ip)
  PROVE  LimitInv'
<1> DEFINE new == [pc |-> "ip", user |-> AccountOf[s], typed |-> s, ip |-> ip, outdated |-> FALSE]
<1>1. failures' = failures /\ FailuresOf(s) < MaxFailures /\ request[r].pc = "idle"
  BY DEF CheckEmail, At
<1>2. \A q \in Requests : request'[q] = IF q = r THEN new ELSE request[q]
  BY DEF CheckEmail, TypeOK
<1>3. new.pc = "ip" /\ new.typed = s /\ new.ip = ip
  OBVIOUS
<1> HIDE DEF new
<1>4. \A q \in Requests : request'[q].pc \in Trying =>
        request'[q].typed \in Spellings /\ request'[q].ip \in IPs
  BY <1>2, <1>3 DEF LimitInv
<1>5. ASSUME NEW v \in Spellings, v # s PROVE PendingOf(v)' = PendingOf(v)
  BY <1>1, <1>2, <1>3, <1>5 DEF PendingOf, Trying
<1>6. \A a \in IPs : PendingFrom(a)' = PendingFrom(a)
  BY <1>1, <1>2, <1>3 DEF PendingFrom, Trying
<1>7. /\ \A v \in Spellings : FailuresOf(v)' = FailuresOf(v) /\ FailuresOf(v) \in Nat
      /\ \A a \in IPs : FailuresFrom(a)' = FailuresFrom(a)
  BY <1>1, SameFailures, TableValues
<1>8. ASSUME NEW v \in Spellings
      PROVE  FailuresOf(v)' + Cardinality(PendingOf(v)') < MaxFailures + Cardinality(Requests)
  <2>1. CASE v = s
    BY <2>1, <1>1, <1>7, BelowLimit
  <2>2. CASE v # s
    BY <2>2, <1>5, <1>7, SameWithin
  <2> QED
    BY <2>1, <2>2
<1>9. \A a \in IPs : FailuresFrom(a)' + Cardinality(PendingFrom(a)')
                       < IPFactor * MaxFailures + Cardinality(Requests)
  BY <1>6, <1>7, SameWithin
<1> QED
  BY <1>4, <1>8, <1>9 DEF LimitInv

\* r passes the limit of its address, or is refused.
LEMMA CheckIPKeeps ==
  ASSUME TypeOK, LimitInv, NEW r \in Requests, CheckIP(r)
  PROVE  LimitInv'
<1> DEFINE ip == request[r].ip
<1>1. failures' = failures /\ request[r].pc = "ip"
  BY DEF CheckIP, At
<1>2. CASE FailuresFrom(ip) < IPFactor * MaxFailures
  <2>1. request' = [request EXCEPT ![r].pc = "verify"]
    BY <1>2 DEF CheckIP, Goto
  <2>2. \A q \in Requests : /\ request'[q].pc = IF q = r THEN "verify" ELSE request[q].pc
                            /\ request'[q].typed = request[q].typed
                            /\ request'[q].ip = request[q].ip
    BY <2>1 DEF TypeOK, RequestState
  <2>3. ip \in IPs
    BY <1>1 DEF LimitInv, Trying
  <2> HIDE DEF ip
  <2>4. \A q \in Requests : request'[q].pc \in Trying =>
        request'[q].typed \in Spellings /\ request'[q].ip \in IPs
    BY <1>1, <2>2 DEF LimitInv, Trying
  <2>5. \A v \in Spellings : PendingOf(v)' = PendingOf(v)
    BY <1>1, <2>2 DEF PendingOf, Trying
  <2>6. ASSUME NEW a \in IPs, a # ip PROVE PendingFrom(a)' = PendingFrom(a)
    BY <2>2, <2>6 DEF PendingFrom, ip
  <2>7. /\ \A v \in Spellings : FailuresOf(v)' = FailuresOf(v)
        /\ \A a \in IPs : FailuresFrom(a)' = FailuresFrom(a) /\ FailuresFrom(a) \in Nat
    BY <1>1, SameFailures, TableValues
  <2>8. \A v \in Spellings : FailuresOf(v)' + Cardinality(PendingOf(v)')
                           < MaxFailures + Cardinality(Requests)
    BY <2>5, <2>7, SameWithin
  <2>9. ASSUME NEW a \in IPs
        PROVE  FailuresFrom(a)' + Cardinality(PendingFrom(a)')
                 < IPFactor * MaxFailures + Cardinality(Requests)
    <3>1. CASE a = ip
      BY <3>1, <1>2, <2>7, BelowLimit
    <3>2. CASE a # ip
      BY <3>2, <2>6, <2>7, SameWithin
    <3> QED
      BY <3>1, <3>2
  <2> QED
    BY <2>4, <2>8, <2>9 DEF LimitInv
<1>3. CASE ~ (FailuresFrom(ip) < IPFactor * MaxFailures)
  <2>1. Finish(r)
    BY <1>3 DEF CheckIP
  <2>2. Calm
    BY <1>1, <2>1 DEF Calm, Finish, Idle, TypeOK, Trying
  <2> QED
    BY <2>2, CalmKeeps
<1> QED
  BY <1>2, <1>3

\* A request is pending no longer when its failure is in the table.
LEMMA RecordKeeps ==
  ASSUME TypeOK, LimitInv, NEW r \in Requests, RecordFailure(r)
  PROVE  LimitInv'
<1>a. PICK s : s = request[r].typed
  OBVIOUS
<1>b. PICK ip : ip = request[r].ip
  OBVIOUS
<1>c. PICK k : k = <<s, ip, 0>>
  OBVIOUS
<1>1. request[r].pc = "record"
  BY DEF RecordFailure, At
<1>2. s \in Spellings /\ ip \in IPs
  BY <1>1, <1>a, <1>b DEF TypeOK, At, LimitInv, Trying
<1>3. k \in Attempts
  BY <1>2, <1>c, AuthAssumption DEF Ages, Attempts
<1>4. /\ failures' = [failures EXCEPT ![k] = failures[k] + 1]
      /\ failures \in [Attempts -> Nat]
  BY <1>a, <1>b, <1>c DEF RecordFailure, TypeOK
<1>5. \A q \in Requests : request'[q] = IF q = r THEN Idle ELSE request[q]
  BY DEF RecordFailure, Finish, TypeOK
<1>6. \A q \in Requests : request'[q].pc \in Trying =>
        request'[q].typed \in Spellings /\ request'[q].ip \in IPs
  BY <1>5 DEF LimitInv, Idle, Trying
<1>7. /\ \A v \in Spellings : k \in OfUser(v) <=> v = s
      /\ \A a \in IPs : k \in FromIP(a) <=> a = ip
  BY <1>2, <1>3, <1>c DEF OfUser, FromIP, Attempts
<1>8. /\ \A v \in Spellings : PendingOf(v)' = IF v = s THEN PendingOf(v) \ {r} ELSE PendingOf(v)
      /\ \A a \in IPs : PendingFrom(a)' = IF a = ip THEN PendingFrom(a) \ {r} ELSE PendingFrom(a)
      /\ r \in PendingOf(s) /\ r \in PendingFrom(ip)
  BY <1>1, <1>5, <1>a, <1>b DEF PendingOf, PendingFrom, Idle, Trying
<1>9. \A x \in Attempts : failures'[x] = IF x = k THEN failures[x] + 1 ELSE failures[x]
  BY <1>4
<1>10. /\ \A v \in Spellings : FailuresOf(v)' = IF v = s THEN FailuresOf(v) + 1 ELSE FailuresOf(v)
       /\ \A a \in IPs : FailuresFrom(a)' = IF a = ip THEN FailuresFrom(a) + 1 ELSE FailuresFrom(a)
  <2>1. ASSUME NEW S \in SUBSET Attempts, IsFiniteSet(S), Values(failures, S)
        PROVE  Sum(failures', S) = IF k \in S THEN Sum(failures, S) + 1 ELSE Sum(failures, S)
    <3>1. \A x \in S : failures'[x] = IF x = k THEN failures[x] + 1 ELSE failures[x]
      BY <1>9
    <3> QED
      BY <2>1, <3>1, SumOneMore
  <2>2. /\ \A v \in Spellings : OfUser(v) \in SUBSET Attempts
        /\ \A a \in IPs : FromIP(a) \in SUBSET Attempts
    BY DEF OfUser, FromIP, Attempts
  <2> QED
    BY <1>7, <2>1, <2>2, Counted, Parts, TableValues
<1>11. ASSUME NEW v \in Spellings
       PROVE  FailuresOf(v)' + Cardinality(PendingOf(v)') < MaxFailures + Cardinality(Requests)
  <2>1. CASE v = s
    <3>1. PendingOf(s) \in SUBSET Requests
      BY DEF PendingOf
    <3>2. /\ Cardinality(PendingOf(s)) \in Nat
          /\ Cardinality(PendingOf(s) \ {r}) = Cardinality(PendingOf(s)) - 1
      BY <1>8, <3>1, Limits, FS_RemoveElement
    <3>3. FailuresOf(s) \in Nat
      BY <1>2, TableValues
    <3>4. FailuresOf(s) + Cardinality(PendingOf(s)) < MaxFailures + Cardinality(Requests)
      BY <1>2 DEF LimitInv
    <3>5. FailuresOf(s)' = FailuresOf(s) + 1
      BY <1>2, <1>10
    <3>6. PendingOf(s)' = PendingOf(s) \ {r}
      BY <1>2, <1>8
    <3> QED
      BY <2>1, <3>2, <3>3, <3>4, <3>5, <3>6
  <2>2. CASE v # s
    BY <2>2, <1>8, <1>10, SameWithin
  <2> QED
    BY <2>1, <2>2
<1>12. ASSUME NEW a \in IPs
       PROVE  FailuresFrom(a)' + Cardinality(PendingFrom(a)')
                < IPFactor * MaxFailures + Cardinality(Requests)
  <2>1. CASE a = ip
    <3>1. PendingFrom(ip) \in SUBSET Requests
      BY DEF PendingFrom
    <3>2. /\ Cardinality(PendingFrom(ip)) \in Nat
          /\ Cardinality(PendingFrom(ip) \ {r}) = Cardinality(PendingFrom(ip)) - 1
      BY <1>8, <3>1, Limits, FS_RemoveElement
    <3>3. FailuresFrom(ip) \in Nat
      BY <1>2, TableValues
    <3> DEFINE L == IPFactor * MaxFailures + Cardinality(Requests)
    <3>4. FailuresFrom(ip) + Cardinality(PendingFrom(ip)) < L
      BY <1>2 DEF LimitInv
    <3>5. FailuresFrom(ip)' = FailuresFrom(ip) + 1
      BY <1>2, <1>10
    <3>6. PendingFrom(ip)' = PendingFrom(ip) \ {r}
      BY <1>2, <1>8
    <3> HIDE DEF L
    <3>7. FailuresFrom(ip)' + Cardinality(PendingFrom(ip)') < L
      BY <3>2, <3>3, <3>4, <3>5, <3>6
    <3> QED
      BY <2>1, <3>7 DEF L
  <2>2. CASE a # ip
    BY <2>2, <1>8, <1>10, SameWithin
  <2> QED
    BY <2>1, <2>2
<1> QED
  BY <1>6, <1>11, <1>12 DEF LimitInv

\* Attempts grow older and are forgotten.
LEMMA TickKeeps ==
  ASSUME TypeOK, TypeOK', LimitInv, Tick
  PROVE  LimitInv'
<1>1. \A x \in Attempts :
        failures'[x] = IF x[3] = 0 THEN 0 ELSE failures[<<x[1], x[2], x[3] - 1>>]
  BY DEF Tick
<1>2. /\ \A s \in Spellings : Aged(failures', failures, OfUser(s))
      /\ \A ip \in IPs : Aged(failures', failures, FromIP(ip))
  BY <1>1 DEF Aged, OfUser, FromIP, Attempts
<1>3. /\ \A s \in Spellings : FailuresOf(s)' <= FailuresOf(s)
      /\ \A ip \in IPs : FailuresFrom(ip)' <= FailuresFrom(ip)
  BY <1>2, Counted, Parts, TableValues, SumAging
<1>4. /\ \A s \in Spellings : FailuresOf(s)' \in Nat /\ FailuresOf(s) \in Nat
      /\ \A ip \in IPs : FailuresFrom(ip)' \in Nat /\ FailuresFrom(ip) \in Nat
  <2>1. failures' \in [Attempts -> Nat]
    BY DEF TypeOK
  <2>2. /\ \A s \in Spellings : Values(failures', OfUser(s))
        /\ \A ip \in IPs : Values(failures', FromIP(ip))
    BY <2>1 DEF Values, OfUser, FromIP, Attempts
  <2> QED
    BY <2>2, Counted, Parts, SumNat, TableValues
<1>5. request' = request
  BY DEF Tick
<1>6. /\ \A s \in Spellings : PendingOf(s)' = PendingOf(s) /\ PendingOf(s) \in SUBSET Requests
      /\ \A ip \in IPs : PendingFrom(ip)' = PendingFrom(ip) /\ PendingFrom(ip) \in SUBSET Requests
  BY <1>5 DEF PendingOf, PendingFrom
<1> DEFINE L == IPFactor * MaxFailures
<1>7. /\ \A s \in Spellings : FailuresOf(s) + Cardinality(PendingOf(s)) < MaxFailures + Cardinality(Requests)
      /\ \A ip \in IPs : FailuresFrom(ip) + Cardinality(PendingFrom(ip)) < L + Cardinality(Requests)
      /\ \A r \in Requests : request'[r].pc \in Trying =>
        request'[r].typed \in Spellings /\ request'[r].ip \in IPs
  BY <1>5 DEF LimitInv
<1>8. MaxFailures \in Nat /\ L \in Nat /\ Cardinality(Requests) \in Nat
  BY Limits
<1> HIDE DEF L
<1>9. \A s \in Spellings : FailuresOf(s)' + Cardinality(PendingOf(s)') < MaxFailures + Cardinality(Requests)
  <2> SUFFICES ASSUME NEW s \in Spellings
               PROVE  FailuresOf(s)' + Cardinality(PendingOf(s)') < MaxFailures + Cardinality(Requests)
    OBVIOUS
  <2>1. Cardinality(PendingOf(s)') = Cardinality(PendingOf(s)) /\ Cardinality(PendingOf(s)) \in Nat
    BY <1>6, Limits
  <2> QED
    BY <1>3, <1>4, <1>7, <1>8, <2>1
<1>10. \A ip \in IPs : FailuresFrom(ip)' + Cardinality(PendingFrom(ip)') < L + Cardinality(Requests)
  <2> SUFFICES ASSUME NEW ip \in IPs
               PROVE  FailuresFrom(ip)' + Cardinality(PendingFrom(ip)') < L + Cardinality(Requests)
    OBVIOUS
  <2>1. Cardinality(PendingFrom(ip)') = Cardinality(PendingFrom(ip)) /\ Cardinality(PendingFrom(ip)) \in Nat
    BY <1>6, Limits
  <2> QED
    BY <1>3, <1>4, <1>7, <1>8, <2>1
<1> QED
  BY <1>7, <1>9, <1>10 DEF LimitInv, L

\* A request that moves on, except past a limit, and one that is done.
LEMMA MoveCalm ==
  ASSUME TypeOK, NEW r \in Requests, failures' = failures,
         \/ \E pc : Goto(r, pc) /\ (pc \in Trying => request[r].pc \in Trying \ {"ip"})
         \/ Finish(r)
  PROVE  Calm
<1>1. CASE Finish(r)
  BY <1>1 DEF Calm, Finish, Idle, TypeOK, Trying
<1>2. ASSUME NEW pc, Goto(r, pc), pc \in Trying => request[r].pc \in Trying \ {"ip"}
      PROVE  Calm
  <2>1. \A q \in Requests : /\ request'[q].pc = IF q = r THEN pc ELSE request[q].pc
                            /\ request'[q].typed = request[q].typed
                            /\ request'[q].ip = request[q].ip
    BY <1>2 DEF Goto, TypeOK, RequestState
  <2> QED
    BY <1>2, <2>1 DEF Calm, Trying
<1> QED
  BY <1>1, <1>2

\* The step before an eviction leaves sign-ins where they are.
LEMMA EvictNextCalm ==
  ASSUME TypeOK, NEW r \in Requests, NEW u \in Users, failures' = failures, EvictNext(r, u)
  PROVE  Calm
<1>1. \A q \in Requests : request'[q].pc \in Trying => request'[q] = request[q]
  BY DEF EvictNext, Outdated, At, Trying, TypeOK, RequestState
<1> QED
  BY <1>1 DEF Calm

\* Every step but a check, a record and a tick is calm.
LEMMA LimitStep == TypeOK /\ LimitInv /\ [Next]_vars => LimitInv'
<1> SUFFICES ASSUME TypeOK, LimitInv, [Next]_vars PROVE LimitInv'
  OBVIOUS
<1>1. ASSUME NEW r \in Requests, Handle(r) PROVE LimitInv'
  <2>1. ASSUME NEW s \in Spellings, NEW ip \in IPs, CheckEmail(r, s, ip) PROVE LimitInv'
    BY <2>1, CheckEmailKeeps
  <2>2. CASE CheckIP(r)
    BY <2>2, CheckIPKeeps
  <2>3. CASE VerifyPassword(r)
    <3>1. failures' = failures /\ request[r].pc = "verify" /\ (Goto(r, "create") \/ Goto(r, "record"))
      BY <2>3 DEF VerifyPassword, At
    <3> QED
      BY <3>1, MoveCalm, CalmKeeps DEF Trying
  <2>4. CASE RecordFailure(r)
    BY <2>4, RecordKeeps
  <2>5. CASE CreateSession(r)
    BY <2>5, MoveCalm, CalmKeeps DEF CreateSession
  <2>6. ASSUME NEW t \in Tokens, FindSession(r, t) PROVE LimitInv'
    <3>1. failures' = failures
      BY <2>6 DEF FindSession
    <3>2. CASE request' = request
      BY <3>1, <3>2, CalmKeeps DEF Calm
    <3>3. CASE request' = [request EXCEPT ![r].pc = "account", ![r].user = sessions[t].user]
      <4>1. \A q \in Requests : request'[q].pc \in Trying => request'[q] = request[q]
        BY <3>3 DEF TypeOK, RequestState, Trying
      <4> QED
        BY <3>1, <4>1, CalmKeeps DEF Calm
    <3> QED
      BY <2>6, <3>2, <3>3 DEF FindSession
  <2>7. CASE FindAccount(r)
    <3>1. failures' = failures /\ (Goto(r, "serve") \/ Finish(r))
      BY <2>7 DEF FindAccount
    <3> QED
      BY <3>1, MoveCalm, CalmKeeps DEF Trying
  <2>8. CASE CheckCurrent(r)
    <3>1. failures' = failures /\ (Goto(r, "password") \/ Finish(r))
      BY <2>8 DEF CheckCurrent
    <3> QED
      BY <3>1, MoveCalm, CalmKeeps DEF Trying
  <2>9. CASE SetPassword(r)
    <3>1. request[r].user \in Users
      BY <2>9 DEF SetPassword, TypeOK, At
    <3>2. failures' = failures /\ EvictNext(r, request[r].user)
      BY <2>9 DEF SetPassword
    <3> QED
      BY <3>1, <3>2, EvictNextCalm, CalmKeeps
  <2>10. ASSUME NEW u \in Users, CreateUser(r, u) \/ Enable(r, u) PROVE LimitInv'
    BY <2>10, MoveCalm, CalmKeeps DEF CreateUser, Enable
  <2>11. ASSUME NEW u \in Users, Disable(r, u) PROVE LimitInv'
    BY <2>11, EvictNextCalm, CalmKeeps DEF Disable
  <2>12. CASE Evict(r) \/ Abort(r)
    BY <2>12, MoveCalm, CalmKeeps DEF Evict, Abort
  <2> QED
    BY <1>1, <2>1, <2>2, <2>3, <2>4, <2>5, <2>6, <2>7, <2>8, <2>9, <2>10, <2>11, <2>12 DEF Handle
<1>2. CASE (\E t \in Tokens : Logout(t)) \/ Purge \/ UNCHANGED vars
  BY <1>2, CalmKeeps DEF Logout, Purge, vars, Calm
<1>3. CASE Tick
  <2>1. TypeOK'
    BY TypeStep
  <2> QED
    BY <1>3, <2>1, TickKeeps
<1> QED
  BY <1>1, <1>2, <1>3 DEF Next

\* handleLogin counts an e-mail's and an address's failures before it tries a
\* password and records a failure after it: however its requests interleave,
\* the limits are passed by no more than there are requests.
THEOREM LimitHolds == Spec => []SignInsLimited
<1>1. TypeOK /\ LimitInv => SignInsLimited
  <2> SUFFICES ASSUME TypeOK, LimitInv PROVE SignInsLimited
    OBVIOUS
  <2> DEFINE L == IPFactor * MaxFailures
  <2>1. /\ \A s \in Spellings : FailuresOf(s) \in Nat
        /\ \A ip \in IPs : FailuresFrom(ip) \in Nat
    BY TableValues
  <2>2. /\ \A s \in Spellings : PendingOf(s) \in SUBSET Requests
        /\ \A ip \in IPs : PendingFrom(ip) \in SUBSET Requests
    BY DEF PendingOf, PendingFrom
  <2>3. /\ \A s \in Spellings : Cardinality(PendingOf(s)) \in Nat
        /\ \A ip \in IPs : Cardinality(PendingFrom(ip)) \in Nat
        /\ MaxFailures \in Nat /\ L \in Nat /\ Cardinality(Requests) \in Nat
    BY <2>2, Limits
  <2>4. /\ \A s \in Spellings : FailuresOf(s) + Cardinality(PendingOf(s)) < MaxFailures + Cardinality(Requests)
        /\ \A ip \in IPs : FailuresFrom(ip) + Cardinality(PendingFrom(ip)) < L + Cardinality(Requests)
    BY DEF LimitInv
  <2> HIDE DEF L
  <2>5. /\ \A s \in Spellings : FailuresOf(s) < MaxFailures + Cardinality(Requests)
        /\ \A ip \in IPs : FailuresFrom(ip) < L + Cardinality(Requests)
    BY <2>1, <2>3, <2>4
  <2> QED
    BY <2>5 DEF SignInsLimited, L
<1>2. Spec => []LimitInv
  <2>1. Spec => []TypeOK
    BY TypeCorrect
  <2> QED
    BY <2>1, LimitInit, LimitStep, PTL DEF Spec
<1> QED
  BY <1>1, <1>2, TypeCorrect, PTL
=============================================================================
