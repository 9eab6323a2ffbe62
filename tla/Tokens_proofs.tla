----------------------------- MODULE Tokens_proofs -----------------------------
(***************************************************************************)
(* Proofs about Tokens, for any accounts, sessions, tokens and requests.   *)
(*                                                                         *)
(* AdmittedWasLive needs what a request between its two reads may find.    *)
(* ShownOnce follows the value of a token: it is on its way to the stash,  *)
(* or in one cell of it, or has been shown, and never two of these.        *)
(***************************************************************************)
EXTENDS Tokens, FiniteSetTheorems, TLAPS

TokenRows == [owner: Users, scopes: SUBSET Scopes, expires: Nat, revoked: BOOLEAN]
Cells     == [value: Tokens, at: Nat]
ReqStates ==
  [pc: {"idle", "user", "act", "put", "evict"}, sess: Sessions \cup {None},
   tok: Tokens \cup {None}, user: Users \cup {None}, scopes: SUBSET Scopes, live: BOOLEAN]

TypeOK ==
  /\ active \in [Users -> BOOLEAN]
  /\ alive \subseteq Sessions
  /\ token \in [Tokens -> TokenRows \cup {None}]
  /\ stash \in [Sessions -> Cells \cup {None}]
  /\ req \in [Requests -> ReqStates]
  /\ clock \in Nat
  /\ DOMAIN views = Tokens
  /\ overtaken \in BOOLEAN

\* What the reads so far have told a request.
Informed(q) ==
  /\ req[q].pc # "idle" => req[q].user \in Users
  /\ req[q].pc \in {"user", "act", "put"} =>
       /\ req[q].sess # None => req[q].user = UserOf[req[q].sess]
       /\ req[q].tok = None => req[q].sess # None
  /\ req[q].pc = "put" => req[q].sess # None /\ req[q].tok # None
  /\ req[q].pc = "user" /\ active[req[q].user] => req[q].live
  /\ req[q].pc = "act" => req[q].live

Waiting(q, t) == req[q].pc = "put" /\ req[q].tok = t
Stashed(s, t) == stash[s] # None /\ stash[s].value = t

\* A value that is kept for session s has not been shown, and is s's own.
Kept(s, t) == token[t] # None /\ token[t].owner = UserOf[s] /\ views[t] = {}

\* A value is in one place at most.
InOnePlace ==
  /\ \A q \in Requests, t \in Tokens : Waiting(q, t) => Kept(req[q].sess, t)
  /\ \A s \in Sessions, t \in Tokens : Stashed(s, t) => Kept(s, t)
  /\ \A q, x \in Requests, t \in Tokens : Waiting(q, t) /\ Waiting(x, t) => q = x
  /\ \A s, o \in Sessions, t \in Tokens : Stashed(s, t) /\ Stashed(o, t) => s = o
  /\ \A q \in Requests, s \in Sessions, t \in Tokens : ~(Waiting(q, t) /\ Stashed(s, t))

\* What has been shown was shown once, in time, to its maker.
ShownWell ==
  \A t \in Tokens :
    /\ views[t] # {} => token[t] # None
    /\ \A w, x \in views[t] : w = x
    /\ \A w \in views[t] : UserOf[w.to] = token[t].owner /\ w.waited <= StashTTL

IInv == TypeOK /\ (\A q \in Requests : Informed(q)) /\ InOnePlace /\ ShownWell

------------------------------------------------------------------------------
(* Types.                                                                  *)

\* The idle state is a state of a request.
LEMMA NoReqType == NoReq \in ReqStates /\ NoReq.pc = "idle"
  BY DEF NoReq, ReqStates

\* A request that gets another state of its type leaves the types right.
LEMMA RequestType ==
  ASSUME TypeOK, NEW q \in Requests, NEW s \in ReqStates, req' = [req EXCEPT ![q] = s]
  PROVE  req' \in [Requests -> ReqStates]
  BY DEF TypeOK

\* The initial state satisfies the invariant.
LEMMA InitIInv == Init => IInv
<1> SUFFICES ASSUME Init PROVE IInv
  OBVIOUS
<1>1. TypeOK
  BY NoReqType DEF Init, TypeOK
<1>2. \A q \in Requests : req[q].pc = "idle"
  BY NoReqType DEF Init
<1>3. (\A s \in Sessions : stash[s] = None) /\ (\A t \in Tokens : views[t] = {})
  BY DEF Init
<1> QED
  BY <1>1, <1>2, <1>3 DEF IInv, Informed, InOnePlace, Waiting, Stashed, ShownWell

------------------------------------------------------------------------------
(* Steps that move no value.                                               *)

\* A step after which the same requests or fewer are about to stash, and every
\* token has the owner it had, leaves every value where it is.
LEMMA NothingMoves ==
  ASSUME TypeOK, InOnePlace, ShownWell, UNCHANGED views,
         \A s \in Sessions : stash'[s] \in {stash[s], None},
         \A t \in Tokens : /\ token[t] = None => token'[t] = None
                           /\ token[t] # None => token'[t] # None /\ token'[t].owner = token[t].owner,
         \A q \in Requests : req'[q].pc = "put" =>
           req[q].pc = "put" /\ req'[q].tok = req[q].tok /\ req'[q].sess = req[q].sess
  PROVE  InOnePlace' /\ ShownWell'
<1>1. \A s \in Sessions, t \in Tokens : Stashed(s, t)' => Stashed(s, t)
  BY DEF Stashed
<1>2. \A q \in Requests, t \in Tokens : Waiting(q, t)' => Waiting(q, t) /\ req'[q].sess = req[q].sess
  BY DEF Waiting
<1>3. \A s \in Sessions \cup {None}, t \in Tokens : Kept(s, t) => Kept(s, t)'
  BY DEF Kept
<1>4. \A q \in Requests : req[q].sess \in Sessions \cup {None}
  BY DEF TypeOK, ReqStates
<1>5. InOnePlace'
  BY <1>1, <1>2, <1>3, <1>4 DEF InOnePlace
<1>6. ShownWell'
  BY DEF ShownWell
<1> QED
  BY <1>5, <1>6

------------------------------------------------------------------------------
(* One lemma for each kind of step.                                        *)

\* A request is let in: by its session, or by its token.
LEMMA StartKeeps ==
  ASSUME IInv, NEW q \in Requests, SessionByToken(q) \/ APITokenByValue(q)
  PROVE  IInv'
<1>1. PICK r \in ReqStates :
        /\ Start(q, r) /\ r.pc = "user" /\ r.user \in Users
        /\ r.live = active[r.user]
        /\ r.sess # None => r.user = UserOf[r.sess]
        /\ r.tok = None => r.sess # None
  <2>1. CASE SessionByToken(q)
    <3>1. PICK s \in alive : Start(q, Arrived(s, None, UserOf[s], {}))
      BY <2>1 DEF SessionByToken
    <3>2. s \in Sessions /\ s # None /\ UserOf[s] \in Users /\ active[UserOf[s]] \in BOOLEAN
      BY TokensAssumption DEF IInv, TypeOK
    <3>3. Arrived(s, None, UserOf[s], {}) \in ReqStates
      BY <3>2 DEF Arrived, ReqStates
    <3> QED
      BY <3>1, <3>2, <3>3 DEF Arrived
  <2>2. CASE APITokenByValue(q)
    <3>1. PICK t \in Tokens :
            /\ Usable(t, clock)
            /\ Start(q, Arrived(None, t, token[t].owner, token[t].scopes))
      BY <2>2 DEF APITokenByValue
    <3>2. /\ token[t].owner \in Users /\ token[t].scopes \in SUBSET Scopes
          /\ active[token[t].owner] \in BOOLEAN /\ t # None
      BY <3>1, TokensAssumption DEF Usable, IInv, TypeOK, TokenRows
    <3>3. Arrived(None, t, token[t].owner, token[t].scopes) \in ReqStates
      BY <3>2 DEF Arrived, ReqStates
    <3> QED
      BY <3>1, <3>2, <3>3 DEF Arrived
  <2> QED
    BY <2>1, <2>2
<1>2. req' = [req EXCEPT ![q] = r] /\ UNCHANGED <<active, alive, token, stash, clock, restarts, views, overtaken>>
  BY <1>1 DEF Start
<1>3. TypeOK'
  BY <1>2, RequestType DEF IInv, TypeOK
<1>4. \A x \in Requests : Informed(x)'
  BY <1>1, <1>2 DEF IInv, TypeOK, Informed
<1>5. InOnePlace' /\ ShownWell'
  BY <1>1, <1>2, NothingMoves DEF IInv, TypeOK
<1> QED
  BY <1>3, <1>4, <1>5 DEF IInv

\* The second read: an account found active was so at a moment of the request.
LEMMA PrincipalKeeps ==
  ASSUME IInv, NEW q \in Requests, Principal(q)
  PROVE  IInv'
<1>1. PICK c \in SUBSET Scopes :
        req' = [req EXCEPT ![q] = IF active[req[q].user] THEN [req[q] EXCEPT !.pc = "act", !.scopes = c]
                                  ELSE NoReq]
  <2>1. req[q].user \in Users /\ RoleScopes[req[q].user] \subseteq Scopes /\ req[q].scopes \subseteq Scopes
    BY TokensAssumption DEF IInv, Informed, Principal, TypeOK, ReqStates
  <2> QED
    BY <2>1 DEF Principal
<1>2. req[q].pc = "user" /\ UNCHANGED <<active, alive, token, stash, clock, views, overtaken>>
  BY DEF Principal
<1>3. req[q] \in ReqStates /\ Informed(q)
  BY DEF IInv, TypeOK
<1>4. [req[q] EXCEPT !.pc = "act", !.scopes = c] \in ReqStates
  BY <1>3 DEF ReqStates
<1>5. TypeOK'
  BY <1>1, <1>2, <1>4, NoReqType DEF IInv, TypeOK
<1>6. \A x \in Requests : Informed(x)'
  BY <1>1, <1>2, <1>3, NoReqType DEF IInv, TypeOK, Informed, ReqStates
<1>7. InOnePlace' /\ ShownWell'
  BY <1>1, <1>2, <1>3, NoReqType, NothingMoves DEF IInv, TypeOK, ReqStates
<1> QED
  BY <1>5, <1>6, <1>7 DEF IInv

\* Minting gives the value a row it never had.
LEMMA MintType ==
  ASSUME IInv, NEW q \in Requests, NEW t \in Tokens, Mint(q, t)
  PROVE  /\ req[q].sess \in Sessions /\ req[q].user = UserOf[req[q].sess]
         /\ token[t] = None
         /\ \E row \in TokenRows : row.owner = req[q].user /\ token' = [token EXCEPT ![t] = row]
<1>1. req[q].sess \in Sessions /\ req[q].user = UserOf[req[q].sess] /\ req[q].user \in Users
  BY DEF IInv, Informed, Mint, TypeOK, ReqStates
<1>2. PICK sc \in MayGrant(req[q].user), exp \in {0, clock + 1} :
        token' = [token EXCEPT ![t] = Row(req[q].user, sc, exp)]
  BY DEF Mint
<1>3. sc \in SUBSET Scopes /\ exp \in Nat
  BY <1>1, <1>2, TokensAssumption DEF MayGrant, IInv, TypeOK
<1>4. Row(req[q].user, sc, exp) \in TokenRows /\ Row(req[q].user, sc, exp).owner = req[q].user
  BY <1>1, <1>3 DEF Row, TokenRows
<1> QED
  BY <1>1, <1>2, <1>4 DEF Mint

------------------------------------------------------------------------------
(* The value of a new token.                                               *)

\* The backend shows it at once.
LEMMA CreateTokenKeeps ==
  ASSUME IInv, NEW q \in Requests, handleCreateToken(q)
  PROVE  IInv'
<1>1. PICK t \in Tokens :
        /\ Mint(q, t) /\ Done(q)
        /\ views' = [views EXCEPT ![t] = @ \cup {[to |-> req[q].sess, at |-> clock, waited |-> 0]}]
        /\ UNCHANGED <<active, alive, stash, clock, started, restarts, overtaken>>
  BY DEF handleCreateToken
<1>2. /\ req[q].sess \in Sessions /\ req[q].user = UserOf[req[q].sess] /\ token[t] = None
      /\ req[q].pc = "act"
  BY <1>1, MintType DEF Mint
<1>3. PICK row \in TokenRows : row.owner = req[q].user /\ token' = [token EXCEPT ![t] = row]
  BY <1>1, MintType
<1>4. row # None
  BY TokensAssumption DEF TokenRows
<1>5. req' = [req EXCEPT ![q] = NoReq]
  BY <1>1 DEF Done
<1>6. TypeOK'
  BY <1>1, <1>3, <1>5, NoReqType DEF IInv, TypeOK
<1>7. \A x \in Requests : Informed(x)'
  BY <1>1, <1>5, NoReqType DEF IInv, TypeOK, Informed
<1>8. /\ \A x \in Requests : ~Waiting(x, t)
      /\ \A s \in Sessions : ~Stashed(s, t)
      /\ views[t] = {}
  BY <1>2 DEF IInv, InOnePlace, Kept, ShownWell
<1>9. InOnePlace'
  <2>1. \A x \in Requests, y \in Tokens : Waiting(x, y)' => Waiting(x, y) /\ y # t /\ req'[x].sess = req[x].sess
    BY <1>5, <1>8, NoReqType DEF Waiting, IInv, TypeOK
  <2>2. \A s \in Sessions, y \in Tokens : Stashed(s, y)' => Stashed(s, y) /\ y # t
    BY <1>1, <1>8 DEF Stashed
  <2>3. \A s \in Sessions \cup {None}, y \in Tokens \ {t} : Kept(s, y) => Kept(s, y)'
    BY <1>1, <1>3 DEF Kept, IInv, TypeOK
  <2>4. \A x \in Requests : req[x].sess \in Sessions \cup {None}
    BY DEF IInv, TypeOK, ReqStates
  <2> QED
    BY <2>1, <2>2, <2>3, <2>4 DEF IInv, InOnePlace
<1>10. ShownWell'
  <2>1. \A y \in Tokens \ {t} : views'[y] = views[y] /\ token'[y] = token[y]
    BY <1>1, <1>3 DEF IInv, TypeOK
  <2>2. /\ views'[t] = {[to |-> req[q].sess, at |-> clock, waited |-> 0]}
        /\ token'[t] = row
    BY <1>1, <1>3, <1>8 DEF IInv, TypeOK
  <2>3. 0 <= StashTTL
    BY TokensAssumption
  <2> QED
    BY <2>1, <2>2, <2>3, <1>2, <1>3, <1>4 DEF IInv, ShownWell
<1> QED
  BY <1>6, <1>7, <1>9, <1>10 DEF IInv

\* The dashboard is about to put it away.
LEMMA TokenCreateKeeps ==
  ASSUME IInv, NEW q \in Requests, handleTokenCreate(q)
  PROVE  IInv'
<1>1. PICK t \in Tokens :
        /\ Mint(q, t)
        /\ req' = [req EXCEPT ![q].pc = "put", ![q].tok = t]
        /\ UNCHANGED <<active, alive, stash, clock, started, restarts, views, overtaken>>
  BY DEF handleTokenCreate
<1>2. /\ req[q].sess \in Sessions /\ req[q].user = UserOf[req[q].sess] /\ token[t] = None
      /\ req[q].pc = "act"
  BY <1>1, MintType DEF Mint
<1>3. PICK row \in TokenRows : row.owner = req[q].user /\ token' = [token EXCEPT ![t] = row]
  BY <1>1, MintType
<1>4. row # None /\ t # None
  BY TokensAssumption DEF TokenRows
<1> DEFINE s == [req[q] EXCEPT !.pc = "put", !.tok = t]
<1>5. s \in ReqStates /\ s.pc = "put" /\ s.tok = t /\ s.sess = req[q].sess /\ s.user = req[q].user
  BY DEF IInv, TypeOK, ReqStates
<1>6. req' = [req EXCEPT ![q] = s]
  BY <1>1
<1> HIDE DEF s
<1>7. TypeOK'
  BY <1>1, <1>3, <1>5, <1>6 DEF IInv, TypeOK
<1>8. \A x \in Requests : Informed(x)'
  <2>1. Informed(q)'
    BY <1>1, <1>2, <1>4, <1>5, <1>6, TokensAssumption DEF IInv, TypeOK, Informed
  <2>2. \A x \in Requests \ {q} : Informed(x)'
    BY <1>1, <1>6 DEF IInv, TypeOK, Informed
  <2> QED
    BY <2>1, <2>2
<1>9. /\ \A x \in Requests : ~Waiting(x, t)
      /\ \A o \in Sessions : ~Stashed(o, t)
      /\ views[t] = {}
  BY <1>2 DEF IInv, InOnePlace, Kept, ShownWell
<1>10. InOnePlace'
  <2>1. \A x \in Requests, y \in Tokens : Waiting(x, y)' =>
          \/ Waiting(x, y) /\ y # t /\ x # q /\ req'[x].sess = req[x].sess
          \/ x = q /\ y = t /\ req'[x].sess = req[q].sess
    BY <1>5, <1>6, <1>9 DEF Waiting, IInv, TypeOK
  <2>2. \A o \in Sessions, y \in Tokens : Stashed(o, y)' => Stashed(o, y) /\ y # t
    BY <1>1, <1>9 DEF Stashed
  <2>3. \A o \in Sessions \cup {None}, y \in Tokens \ {t} : Kept(o, y) => Kept(o, y)'
    BY <1>1, <1>3 DEF Kept, IInv, TypeOK
  <2>4. Kept(req[q].sess, t)'
    BY <1>1, <1>2, <1>3, <1>4, <1>9 DEF Kept, IInv, TypeOK
  <2>5. \A x \in Requests : req[x].sess \in Sessions \cup {None}
    BY DEF IInv, TypeOK, ReqStates
  <2> QED
    BY <2>1, <2>2, <2>3, <2>4, <2>5 DEF IInv, InOnePlace
<1>11. ShownWell'
  <2>1. \A y \in Tokens \ {t} : views'[y] = views[y] /\ token'[y] = token[y]
    BY <1>1, <1>3 DEF IInv, TypeOK
  <2>2. views'[t] = {}
    BY <1>1, <1>9
  <2> QED
    BY <2>1, <2>2 DEF IInv, ShownWell
<1> QED
  BY <1>7, <1>8, <1>10, <1>11 DEF IInv

\* It goes from the request to the stash.
LEMMA PutKeeps ==
  ASSUME IInv, NEW q \in Requests, put(q)
  PROVE  IInv'
<1>1. /\ req[q].pc = "put" /\ req' = [req EXCEPT ![q] = NoReq]
      /\ UNCHANGED <<active, alive, token, clock, started, restarts, views, overtaken>>
  BY DEF put, Done
<1>2. req[q].sess \in Sessions /\ req[q].tok \in Tokens
  BY <1>1 DEF IInv, Informed, TypeOK, ReqStates
<1> DEFINE c == [value |-> req[q].tok, at |-> clock]
<1>3. c \in Cells /\ c # None /\ c.value = req[q].tok
  BY <1>2, TokensAssumption DEF IInv, TypeOK, Cells
<1>4. /\ stash' \in [Sessions -> Cells \cup {None}]
      /\ stash'[req[q].sess] = c
      /\ \A s \in Sessions \ {req[q].sess} : stash'[s] \in {stash[s], None}
  BY <1>2, <1>3 DEF put, IInv, TypeOK
<1> HIDE DEF c
<1>5. TypeOK'
  BY <1>1, <1>4, NoReqType DEF IInv, TypeOK
<1>6. \A x \in Requests : Informed(x)'
  BY <1>1, NoReqType DEF IInv, TypeOK, Informed
<1>7. InOnePlace'
  <2>1. Waiting(q, req[q].tok)
    BY <1>1 DEF Waiting
  <2>2. \A x \in Requests, y \in Tokens : Waiting(x, y)' =>
          Waiting(x, y) /\ x # q /\ req'[x].sess = req[x].sess
    BY <1>1, NoReqType DEF Waiting, IInv, TypeOK
  <2>3. \A s \in Sessions, y \in Tokens : Stashed(s, y)' =>
          \/ s # req[q].sess /\ Stashed(s, y)
          \/ s = req[q].sess /\ y = req[q].tok
    BY <1>3, <1>4 DEF Stashed
  <2>4. \A s \in Sessions \cup {None}, y \in Tokens : Kept(s, y)' = Kept(s, y)
    BY <1>1 DEF Kept
  <2>5. \A x \in Requests : req[x].sess \in Sessions \cup {None}
    BY DEF IInv, TypeOK, ReqStates
  <2> QED
    BY <1>2, <2>1, <2>2, <2>3, <2>4, <2>5 DEF IInv, InOnePlace
<1>8. ShownWell'
  BY <1>1 DEF IInv, ShownWell
<1> QED
  BY <1>5, <1>6, <1>7, <1>8 DEF IInv

\* It goes from the stash to a page, or is too old for that.
LEMMA TokenListKeeps ==
  ASSUME IInv, NEW q \in Requests, handleTokenList(q)
  PROVE  IInv'
<1> DEFINE s == req[q].sess
           e == stash[s]
<1>1. /\ req' = [req EXCEPT ![q] = NoReq]
      /\ UNCHANGED <<active, alive, token, clock, started, restarts, overtaken>>
      /\ stash' = [stash EXCEPT ![s] = None]
  BY DEF handleTokenList, take, Done
<1>2. s \in Sessions
  BY DEF handleTokenList, IInv, TypeOK, ReqStates
<1>3. DOMAIN views' = Tokens
  BY DEF handleTokenList, take, IInv, TypeOK
<1>4. TypeOK'
  BY <1>1, <1>3, NoReqType DEF IInv, TypeOK
<1>5. \A x \in Requests : Informed(x)'
  BY <1>1, NoReqType DEF IInv, TypeOK, Informed
<1>6. \A x \in Requests, y \in Tokens : Waiting(x, y)' => Waiting(x, y) /\ req'[x].sess = req[x].sess
  BY <1>1, NoReqType DEF Waiting, IInv, TypeOK
<1>7. \A o \in Sessions, y \in Tokens : Stashed(o, y)' => Stashed(o, y) /\ o # s
  BY <1>1, <1>2 DEF Stashed, IInv, TypeOK
<1>8. \A x \in Requests : req[x].sess \in Sessions \cup {None}
  BY DEF IInv, TypeOK, ReqStates
<1>9. CASE e = None \/ Stale(e, clock)
  <2>1. views' = views
    BY <1>9 DEF handleTokenList, take
  <2>2. \A o \in Sessions \cup {None}, y \in Tokens : Kept(o, y)' = Kept(o, y)
    BY <1>1, <2>1 DEF Kept
  <2>3. InOnePlace'
    BY <1>6, <1>7, <1>8, <2>2 DEF IInv, InOnePlace
  <2>4. ShownWell'
    BY <1>1, <2>1 DEF IInv, ShownWell
  <2> QED
    BY <1>4, <1>5, <2>3, <2>4 DEF IInv
<1>10. CASE ~(e = None \/ Stale(e, clock))
  <2>0. e.value \in Tokens /\ e.at \in Nat
    BY <1>2, <1>10 DEF IInv, TypeOK, Cells
  <2>1. PICK t \in Tokens, w \in {[to |-> s, at |-> clock, waited |-> clock - e.at]} :
          t = e.value /\ views' = [views EXCEPT ![t] = @ \cup {w}]
    BY <1>10, <2>0 DEF handleTokenList, take
  <2>2. Stashed(s, t)
    BY <1>10, <2>1 DEF Stashed
  <2>3. w.waited <= StashTTL /\ w.to = s
    BY <2>0, <1>10, TokensAssumption DEF Stale, IInv, TypeOK
  <2>4. Kept(s, t)
    BY <1>2, <2>2 DEF IInv, InOnePlace
  <2>5. \A y \in Tokens : views'[y] = IF y = t THEN {w} ELSE views[y]
    BY <2>1, <2>2, <2>4 DEF Kept, IInv, TypeOK
  <2>6. \A o \in Sessions \cup {None}, y \in Tokens \ {t} : Kept(o, y)' = Kept(o, y)
    BY <1>1, <2>5 DEF Kept
  <2>7. \A x \in Requests : ~Waiting(x, t)'
    BY <1>2, <1>6, <2>2 DEF IInv, InOnePlace
  <2>8. \A o \in Sessions : ~Stashed(o, t)'
    BY <1>2, <1>7, <2>2 DEF IInv, InOnePlace
  <2>9. InOnePlace'
    BY <1>6, <1>7, <1>8, <2>6, <2>7, <2>8 DEF IInv, InOnePlace
  <2>10. ShownWell'
    BY <1>1, <2>2, <2>3, <2>4, <2>5 DEF IInv, ShownWell, Kept
  <2> QED
    BY <1>4, <1>5, <2>9, <2>10 DEF IInv
<1> QED
  BY <1>9, <1>10

------------------------------------------------------------------------------
(* Revoking, disabling, enabling, restarting.                              *)

\* A revoked token stays its owner's.
LEMMA RevokeKeeps ==
  ASSUME IInv, NEW q \in Requests, RevokeAPIToken(q)
  PROVE  IInv'
<1>1. PICK t \in Tokens : token[t] # None /\ token' = [token EXCEPT ![t].revoked = TRUE]
  BY DEF RevokeAPIToken
<1>2. /\ req' = [req EXCEPT ![q] = NoReq]
      /\ UNCHANGED <<active, alive, stash, clock, started, restarts, views, overtaken>>
  BY DEF RevokeAPIToken, Done
<1> DEFINE row == [token[t] EXCEPT !.revoked = TRUE]
<1>3. row \in TokenRows /\ row.owner = token[t].owner
  BY <1>1 DEF IInv, TypeOK, TokenRows
<1>4. token' = [token EXCEPT ![t] = row] /\ row # None
  BY <1>1, <1>3, TokensAssumption DEF TokenRows
<1> HIDE DEF row
<1>5. TypeOK'
  BY <1>2, <1>3, <1>4, NoReqType DEF IInv, TypeOK
<1>6. \A x \in Requests : Informed(x)'
  BY <1>2, NoReqType DEF IInv, TypeOK, Informed
<1>7. \A x \in Tokens : /\ token[x] = None => token'[x] = None
                        /\ token[x] # None => token'[x] # None /\ token'[x].owner = token[x].owner
  BY <1>1, <1>3, <1>4 DEF IInv, TypeOK
<1>8. InOnePlace' /\ ShownWell'
  BY <1>2, <1>7, NoReqType, NothingMoves DEF IInv, TypeOK
<1> QED
  BY <1>5, <1>6, <1>8 DEF IInv

\* A request that disables an account goes on to its sessions.
LEMMA DisableKeeps ==
  ASSUME IInv, NEW q \in Requests, Disable(q)
  PROVE  IInv'
<1>1. PICK v \in Users :
        /\ active' = [active EXCEPT ![v] = FALSE]
        /\ req' = [req EXCEPT ![q].pc = "evict", ![q].user = v]
        /\ overtaken' = (overtaken \/ (v \in Admins /\ ~active[req[q].user]))
  BY DEF Disable
<1>2. UNCHANGED <<alive, token, stash, clock, started, restarts, views>>
  BY DEF Disable
<1> DEFINE s == [req[q] EXCEPT !.pc = "evict", !.user = v]
<1>3. s \in ReqStates /\ s.pc = "evict" /\ s.user = v
  BY DEF IInv, TypeOK, ReqStates
<1>4. req' = [req EXCEPT ![q] = s]
  BY <1>1
<1> HIDE DEF s
<1>5. TypeOK'
  <2>1. overtaken' \in BOOLEAN
    BY <1>1, Zenon
  <2>2. active' \in [Users -> BOOLEAN]
    BY <1>1 DEF IInv, TypeOK
  <2>3. req' \in [Requests -> ReqStates]
    BY <1>3, <1>4 DEF IInv, TypeOK
  <2> QED
    BY <1>2, <2>1, <2>2, <2>3 DEF IInv, TypeOK
<1>6. \A x \in Requests : Informed(x)'
  BY <1>1, <1>3, <1>4 DEF IInv, TypeOK, Informed
<1>7. InOnePlace' /\ ShownWell'
  BY <1>2, <1>3, <1>4, NothingMoves DEF IInv, TypeOK
<1> QED
  BY <1>5, <1>6, <1>7 DEF IInv

\* Enabling an account lets the requests under way find it active.
LEMMA EnableKeeps ==
  ASSUME IInv, NEW q \in Requests, Enable(q)
  PROVE  IInv'
<1>1. PICK v \in Users :
        /\ active' = [active EXCEPT ![v] = TRUE]
        /\ req' = [x \in Requests |-> IF x = q THEN NoReq
                     ELSE [req[x] EXCEPT !.live = @ \/ (req[x].pc = "user" /\ req[x].user = v)]]
  BY DEF Enable
<1>2. UNCHANGED <<alive, token, stash, clock, started, restarts, views, overtaken>>
  BY DEF Enable
<1>3. \A x \in Requests : req[x] \in ReqStates /\ Informed(x)
  BY DEF IInv, TypeOK
<1>4. \A x \in Requests \ {q} :
        /\ req'[x] \in ReqStates
        /\ req'[x].pc = req[x].pc /\ req'[x].user = req[x].user
        /\ req'[x].sess = req[x].sess /\ req'[x].tok = req[x].tok
        /\ req'[x].live <=> req[x].live \/ (req[x].pc = "user" /\ req[x].user = v)
  <2> SUFFICES ASSUME NEW x \in Requests \ {q}
               PROVE  /\ req'[x] \in ReqStates
                      /\ req'[x].pc = req[x].pc /\ req'[x].user = req[x].user
                      /\ req'[x].sess = req[x].sess /\ req'[x].tok = req[x].tok
                      /\ req'[x].live <=> req[x].live \/ (req[x].pc = "user" /\ req[x].user = v)
    OBVIOUS
  <2> DEFINE b == req[x].live \/ (req[x].pc = "user" /\ req[x].user = v)
  <2>1. req'[x] = [req[x] EXCEPT !.live = b]
    BY <1>1
  <2>2. b \in BOOLEAN
    BY Zenon
  <2> HIDE DEF b
  <2>3. req'[x] \in ReqStates /\ req'[x].pc = req[x].pc /\ req'[x].user = req[x].user
        /\ req'[x].sess = req[x].sess /\ req'[x].tok = req[x].tok /\ req'[x].live = b
    BY <1>3, <2>1, <2>2 DEF ReqStates
  <2> QED
    BY <2>3 DEF b
<1>5. req'[q] = NoReq /\ req' \in [Requests -> ReqStates]
  BY <1>1, <1>4, NoReqType
<1>6. TypeOK'
  BY <1>1, <1>2, <1>5 DEF IInv, TypeOK
<1>7. \A x \in Requests : Informed(x)'
  <2>1. Informed(q)'
    BY <1>5, NoReqType DEF Informed
  <2>2. ASSUME NEW x \in Requests \ {q}
        PROVE  Informed(x)'
    <3>1. active'[req[x].user] => active[req[x].user] \/ req[x].user = v
      BY <1>1 DEF IInv, TypeOK
    <3>2. Informed(x)
      BY <1>3
    <3>3. /\ req'[x].pc = req[x].pc /\ req'[x].user = req[x].user
          /\ req'[x].sess = req[x].sess /\ req'[x].tok = req[x].tok
      BY <1>4
    <3>4. req'[x].live <=> req[x].live \/ (req[x].pc = "user" /\ req[x].user = v)
      BY <1>4
    <3> QED
      BY <3>1, <3>2, <3>3, <3>4, Zenon DEF Informed
  <2> QED
    BY <2>1, <2>2
<1>8. InOnePlace' /\ ShownWell'
  BY <1>2, <1>4, <1>5, NoReqType, NothingMoves DEF IInv, TypeOK
<1> QED
  BY <1>6, <1>7, <1>8 DEF IInv

\* Requests that end and values that are forgotten leave the rest as it is.
LEMMA EndKeeps ==
  ASSUME IInv, UNCHANGED <<active, token, views, overtaken>>,
         alive' \subseteq alive, clock' \in Nat,
         stash' \in {stash, [s \in Sessions |-> None]},
         NEW cut \in SUBSET Requests,
         req' = [x \in Requests |-> IF x \in cut THEN NoReq ELSE req[x]]
  PROVE  IInv'
<1>1. TypeOK'
  BY NoReqType DEF IInv, TypeOK
<1>2. \A x \in Requests : Informed(x)'
  BY NoReqType DEF IInv, TypeOK, Informed
<1>3. \A s \in Sessions : stash'[s] \in {stash[s], None}
  OBVIOUS
<1>4. InOnePlace' /\ ShownWell'
  BY <1>3, NoReqType, NothingMoves DEF IInv, TypeOK
<1> QED
  BY <1>1, <1>2, <1>4 DEF IInv

\* The inductive invariant is kept by every step.
LEMMA NextIInv == IInv /\ [Next]_vars => IInv'
<1> SUFFICES ASSUME IInv, [Next]_vars
             PROVE  IInv'
  OBVIOUS
<1>0. /\ req \in [Requests -> ReqStates] /\ clock \in Nat
      /\ clock + 1 \in Nat
  BY DEF IInv, TypeOK
<1>1. ASSUME NEW q \in Requests, Serve(q) \/ DeleteUserSessions(q)
      PROVE  IInv'
  <2>1. req' = [x \in Requests |-> IF x \in {q} THEN NoReq ELSE req[x]]
    BY <1>0, <1>1 DEF Serve, DeleteUserSessions, Done
  <2>2. UNCHANGED <<active, token, views, overtaken, stash, clock>> /\ alive' \subseteq alive
    BY <1>1 DEF Serve, DeleteUserSessions
  <2> QED
    BY <1>0, <2>1, <2>2, EndKeeps
<1>2. CASE Restart
  <2>1. PICK cut \in SUBSET Requests : req' = [x \in Requests |-> IF x \in cut THEN NoReq ELSE req[x]]
    BY <1>2 DEF Restart
  <2>2. /\ UNCHANGED <<active, token, views, overtaken, alive, clock>>
        /\ stash' = [s \in Sessions |-> None]
    BY <1>2 DEF Restart
  <2> QED
    BY <1>0, <2>1, <2>2, EndKeeps
<1>3. CASE Tick \/ UNCHANGED vars
  <2>1. PICK cut \in SUBSET Requests : req' = [x \in Requests |-> IF x \in cut THEN NoReq ELSE req[x]]
    <3>1. req' = [x \in Requests |-> IF x \in {} THEN NoReq ELSE req[x]]
      BY <1>0, <1>3 DEF Tick, vars
    <3>2. {} \in SUBSET Requests
      OBVIOUS
    <3> QED
      BY <3>1, <3>2
  <2>2. UNCHANGED <<active, token, views, overtaken, alive, stash>> /\ clock' \in Nat
    BY <1>0, <1>3 DEF Tick, vars
  <2> QED
    BY <2>1, <2>2, EndKeeps
<1> QED
  BY <1>1, <1>2, <1>3, StartKeeps, PrincipalKeeps, CreateTokenKeeps, TokenCreateKeeps, PutKeeps,
     TokenListKeeps, RevokeKeeps, DisableKeeps, EnableKeeps DEF Next

\* The inductive invariant holds throughout.
LEMMA SpecIInv == Spec => []IInv
  BY InitIInv, NextIInv, PTL DEF Spec

------------------------------------------------------------------------------
(* The theorems.                                                           *)

\* A token's value is shown at most once, to a session of the account that
\* made it and in time (admin/flash.go put, take).
THEOREM ValueShownOnce == Spec => []ShownOnce
<1>1. IInv => ShownOnce
  <2> SUFFICES ASSUME IInv, NEW t \in Tokens
               PROVE  /\ Cardinality(views[t]) <= 1
                      /\ \A w \in views[t] : UserOf[w.to] = token[t].owner /\ w.waited <= StashTTL
    BY DEF ShownOnce
  <2>1. CASE views[t] = {}
    BY <2>1, FS_EmptySet
  <2>2. CASE views[t] # {}
    <3>0. PICK w \in views[t] : TRUE
      BY <2>2
    <3>1. views[t] = {w}
      BY <3>0 DEF IInv, ShownWell
    <3>2. Cardinality(views[t]) = 1
      BY <3>1, FS_Singleton
    <3> QED
      BY <3>2 DEF IInv, ShownWell
  <2> QED
    BY <2>1, <2>2
<1> QED
  BY <1>1, SpecIInv, PTL

\* Whoever acts has been an active account at some moment of the request
\* (middleware.go principalFromToken, principalFromSession).
THEOREM ActorsWereActive == Spec => []AdmittedWasLive
<1>1. IInv => AdmittedWasLive
  BY DEF IInv, Informed, AdmittedWasLive
<1> QED
  BY <1>1, SpecIInv, PTL

\* The last active administrator goes only by a request that was let in before
\* its own account was disabled (handlers_misc.go handleSetUserStatus).
THEOREM AdministratorsRemain == Spec => []LockoutNeedsRace
<1>1. Init => LockoutNeedsRace
  BY TokensAssumption DEF Init, LockoutNeedsRace
<1>2. IInv /\ LockoutNeedsRace /\ [Next]_vars => LockoutNeedsRace'
  <2> SUFFICES ASSUME IInv, LockoutNeedsRace, [Next]_vars
               PROVE  LockoutNeedsRace'
    OBVIOUS
  <2>1. ASSUME NEW q \in Requests, Disable(q)
        PROVE  LockoutNeedsRace'
    <3>1. PICK v \in Users :
            /\ MayDisable(req[q].user, v)
            /\ active' = [active EXCEPT ![v] = FALSE]
            /\ overtaken' = (overtaken \/ (v \in Admins /\ ~active[req[q].user]))
      BY <2>1 DEF Disable
    <3>2. CASE overtaken \/ v \notin Admins \/ ~active[req[q].user]
      BY <3>1, <3>2, TokensAssumption DEF LockoutNeedsRace, IInv, TypeOK
    <3>3. CASE active[req[q].user]
      BY <3>1, <3>3, TokensAssumption DEF LockoutNeedsRace, MayDisable, IInv, TypeOK
    <3> QED
      BY <3>2, <3>3
  <2>2. ASSUME NEW q \in Requests, Enable(q)
        PROVE  LockoutNeedsRace'
    BY <2>2, TokensAssumption DEF Enable, LockoutNeedsRace, IInv, TypeOK
  <2>3. CASE UNCHANGED <<active, overtaken>>
    BY <2>3 DEF LockoutNeedsRace
  <2>4. [Next]_vars =>
          (\E q \in Requests : Disable(q) \/ Enable(q)) \/ UNCHANGED <<active, overtaken>>
    BY DEF Next, vars, SessionByToken, APITokenByValue, Start, Principal, handleCreateToken,
           handleTokenCreate, put, handleTokenList, RevokeAPIToken, DeleteUserSessions, Serve,
           Restart, Tick
  <2> QED
    BY <2>1, <2>2, <2>3, <2>4
<1> QED
  BY <1>1, <1>2, SpecIInv, PTL DEF Spec
==============================================================================
