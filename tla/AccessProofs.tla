--------------------------- MODULE AccessProofs ---------------------------
(***************************************************************************)
(* What is proved of sessions, accounts, authoring and the request gate, for *)
(* any number of tokens, accounts, challenges, files, requests in flight and *)
(* changes.                                                                  *)
(*                                                                           *)
(* Sessions.  IndexCovers is not inductive: the index has an expiry of its   *)
(* own, so one must know that it outlasts every live session, and that a     *)
(* revocation which empties the index ends every live session.               *)
(*                                                                           *)
(* Accounts.  BannedOut says that somebody is still revoking; what carries   *)
(* it is that this request covers the session in question: it has yet to     *)
(* list the account's sessions, or has this one on its list.                 *)
(* SubjectOneAccount rests on there being one row per address, so that every *)
(* callback that races binds the same account.                               *)
(*                                                                           *)
(* Authoring.  AttachmentServed rests on keys that carry the attachment's    *)
(* id: what a request puts or removes between its statements is the object   *)
(* of nobody else.  WorthHeld rests on the table's CHECKs and on rounding    *)
(* being monotone.                                                           *)
(*                                                                           *)
(* ApiGate.  The properties speak of the end of a request; the invariants    *)
(* say what is settled at each step of the chain.  That the generated tables *)
(* agree with each other is TablesAgree, which TLC evaluates.                *)
(***************************************************************************)
EXTENDS ApiGate, Sessions, Accounts, Authoring, TLAPS

-----------------------------------------------------------------------------
(* Sessions *)

\* What a request at the store is about to do.
StoreReq == {Free} \cup [op : {"refresh"}, t : Tokens]
                   \cup [op : {"drop"}, ts : SUBSET Tokens]

SessTyped ==
    /\ key \in [Tokens -> Nat]
    /\ \A t \in Tokens : key[t] <= ttl
    /\ minted \subseteq Tokens /\ index \subseteq Tokens
    /\ indexTTL \in Nat
    /\ sreq \in [StoreReqs -> StoreReq]

\* The index outlasts the sessions it lists.
Outlasts == \A t \in Tokens : Live(t) => t \in index /\ key[t] <= indexTTL

SessInv == SessTyped /\ Outlasts

\* The empty store.
LEMMA SessStarts == SessInit => SessInv
  BY TtlAssumption DEF SessInit, SessInv, SessTyped, Outlasts, StoreReq, Live

\* The pipeline that writes a token's expiry (Create, the refresh of Get).
LEMMA WrittenKeeps ==
  ASSUME SessInv, NEW t \in Tokens, NEW n \in {0, ttl},
         key' = [key EXCEPT ![t] = n], Indexed(t)
  PROVE  Outlasts' /\ key' \in [Tokens -> Nat] /\ (\A x \in Tokens : key'[x] <= ttl)
         /\ index' \subseteq Tokens /\ indexTTL' \in Nat
  <1>1. key' \in [Tokens -> Nat] /\ indexTTL' \in Nat /\ index' \subseteq Tokens
    BY TtlAssumption DEF SessInv, SessTyped, Indexed
  <1>2. \A x \in Tokens : key'[x] <= ttl
    BY TtlAssumption DEF SessInv, SessTyped
  <1>3. ASSUME NEW x \in Tokens, key'[x] > 0
        PROVE  x \in index' /\ key'[x] <= indexTTL'
    <2>1. key'[x] <= indexTTL'
      BY <1>1, <1>2, TtlAssumption DEF Indexed
    <2>2. x \in index'
      BY <1>3 DEF SessInv, SessTyped, Outlasts, Live, Indexed
    <2> QED BY <2>1, <2>2
  <1> QED BY <1>1, <1>2, <1>3 DEF Outlasts, Live

\* DEL and SREM of some tokens (logout, the revocation of what was listed).
LEMMA DroppedKeeps ==
  ASSUME SessInv, NEW ts \in SUBSET Tokens, Dropped(ts)
  PROVE  Outlasts' /\ key' \in [Tokens -> Nat] /\ (\A x \in Tokens : key'[x] <= ttl)
         /\ index' \subseteq Tokens /\ indexTTL' \in Nat
  <1>1. key' \in [Tokens -> Nat] /\ indexTTL' \in Nat /\ index' \subseteq Tokens
    BY DEF SessInv, SessTyped, Dropped
  <1>2. \A x \in Tokens : key'[x] <= ttl
    BY TtlAssumption DEF SessInv, SessTyped, Dropped
  <1>3. ASSUME NEW x \in Tokens, key'[x] > 0
        PROVE  x \in index' /\ key'[x] <= indexTTL'
    <2>1. x \notin ts /\ key'[x] = key[x]
      BY <1>3 DEF Dropped
    <2>2. x \in index /\ key[x] <= indexTTL
      BY <1>3, <2>1 DEF SessInv, Outlasts, Live
    <2>3. indexTTL' = indexTTL
      BY <2>1, <2>2 DEF Dropped
    <2> QED BY <2>1, <2>2, <2>3 DEF Dropped
  <1> QED BY <1>1, <1>2, <1>3 DEF Outlasts, Live

\* Steps that only change what requests are about to do.
LEMMA StoreKept ==
  ASSUME SessInv, UNCHANGED <<key, minted, index, indexTTL>>,
         sreq' \in [StoreReqs -> StoreReq]
  PROVE  SessInv'
  BY DEF SessInv, SessTyped, Outlasts, Live

\* Every step of the store keeps the invariant.
LEMMA SessSteps == SessInv /\ [SessNext]_sessVars => SessInv'
  <1> SUFFICES ASSUME SessInv, [SessNext]_sessVars PROVE SessInv'
    OBVIOUS
  <1>0. sreq \in [StoreReqs -> StoreReq]
    BY DEF SessInv, SessTyped
  <1>1. ASSUME NEW r \in StoreReqs, CreateSession(r) PROVE SessInv'
    <2>1. PICK t \in Tokens \ minted :
             /\ minted' = minted \cup {t}
             /\ key' = [key EXCEPT ![t] = ttl]
             /\ Indexed(t)
      BY <1>1 DEF CreateSession
    <2> QED BY <1>0, <1>1, <2>1, WrittenKeeps DEF SessInv, SessTyped, CreateSession
  <1>2. ASSUME NEW r \in StoreReqs, GetReads(r) PROVE SessInv'
    <2>1. sreq' \in [StoreReqs -> StoreReq]
      BY <1>0, <1>2 DEF GetReads, Step, StoreReq
    <2> QED BY <1>2, <2>1, StoreKept DEF GetReads
  <1>3. ASSUME NEW r \in StoreReqs, GetRefreshes(r) PROVE SessInv'
    <2>1. sreq[r].t \in Tokens
      BY <1>0, <1>3 DEF GetRefreshes, At, StoreReq, Free
    <2>2. PICK n \in {0, ttl} : key' = [key EXCEPT ![sreq[r].t] = n]
      BY <1>3, <2>1 DEF GetRefreshes, SessInv, SessTyped
    <2>3. sreq' \in [StoreReqs -> StoreReq]
      BY <1>0, <1>3 DEF GetRefreshes, Step, StoreReq
    <2>4. Indexed(sreq[r].t) /\ minted' = minted
      BY <1>3 DEF GetRefreshes
    <2> QED BY <2>1, <2>2, <2>3, <2>4, WrittenKeeps DEF SessInv, SessTyped
  <1>4. ASSUME NEW r \in StoreReqs, RefreshLost(r) PROVE SessInv'
    <2>1. sreq' \in [StoreReqs -> StoreReq]
      BY <1>0, <1>4 DEF RefreshLost, Step, StoreReq
    <2> QED BY <1>4, <2>1, StoreKept DEF RefreshLost
  <1>5. ASSUME NEW r \in StoreReqs, DeleteSession(r) PROVE SessInv'
    <2>1. sreq' \in [StoreReqs -> StoreReq]
      BY <1>0, <1>5 DEF DeleteSession, Step, StoreReq
    <2> QED BY <1>5, <2>1, StoreKept DEF DeleteSession
  <1>6. ASSUME NEW r \in StoreReqs, DeleteAllLists(r) PROVE SessInv'
    <2>1. PICK keep \in SUBSET Tokens : Step(r, [op |-> "drop", ts |-> index \ keep])
      BY <1>6 DEF DeleteAllLists
    <2>2. index \ keep \in SUBSET Tokens
      BY DEF SessInv, SessTyped
    <2>3. sreq' \in [StoreReqs -> StoreReq]
      BY <1>0, <2>1, <2>2 DEF Step, StoreReq
    <2> QED BY <1>6, <2>3, StoreKept DEF DeleteAllLists
  <1>7. ASSUME NEW r \in StoreReqs, DropListed(r) PROVE SessInv'
    <2>1. sreq[r].ts \in SUBSET Tokens
      BY <1>0, <1>7 DEF DropListed, At, StoreReq, Free
    <2>2. sreq' \in [StoreReqs -> StoreReq]
      BY <1>0, <1>7 DEF DropListed, Step, StoreReq
    <2>3. Dropped(sreq[r].ts) /\ minted' = minted
      BY <1>7 DEF DropListed
    <2> QED BY <2>1, <2>2, <2>3, DroppedKeeps DEF SessInv, SessTyped
  <1>8. CASE Tick
    <2>1. SessTyped'
      BY <1>8, TtlAssumption DEF SessInv, SessTyped, Tick
    <2>2. ASSUME NEW x \in Tokens, key'[x] > 0
          PROVE  x \in index' /\ key'[x] <= indexTTL'
      <3>1. key[x] \in Nat /\ indexTTL \in Nat
        BY DEF SessInv, SessTyped
      <3>2. key[x] > 1 /\ key'[x] = key[x] - 1
        BY <1>8, <2>2, <3>1 DEF Tick
      <3>3. x \in index /\ key[x] <= indexTTL
        BY <3>1, <3>2 DEF SessInv, Outlasts, Live
      <3>4. indexTTL > 1
        BY <3>1, <3>2, <3>3
      <3> QED BY <1>8, <3>1, <3>2, <3>3, <3>4 DEF Tick
    <2> QED BY <2>1, <2>2 DEF SessInv, Outlasts, Live
  <1>9. CASE UNCHANGED sessVars
    BY <1>9 DEF sessVars, SessInv, SessTyped, Outlasts, Live
  <1> QED BY <1>1, <1>2, <1>3, <1>4, <1>5, <1>6, <1>7, <1>8, <1>9 DEF SessNext

(***************************************************************************)
(* Revoking all sessions of a user reads the index (DeleteAllForUser): no    *)
(* live session is ever missing from it, whatever creations, refreshes that  *)
(* raced a logout, lost refreshes, revocations and expiries came before.     *)
(***************************************************************************)
THEOREM IndexAlwaysCovers == SessSpec => []IndexCovers
  <1>1. SessInv => IndexCovers
    BY DEF SessInv, Outlasts, IndexCovers
  <1> QED BY <1>1, SessStarts, SessSteps, PTL DEF SessSpec

-----------------------------------------------------------------------------
(* Accounts: their inductive invariant *)

AccRow == [is : {"row"}, email : Addresses, banned : BOOLEAN]
Ways == {"register", "password", "external"}
SessRec == [u : AccountIds, via : Ways, checked : BOOLEAN]
AccReq == {Rest, [op |-> "resolve"]}
          \cup [op : {"open"}, u : AccountIds, via : Ways]
          \cup [op : {"recheck"}, u : AccountIds, s : SessIds]
          \cup [op : {"match", "provision"}, e : Addresses]
          \cup [op : {"bind"}, u : AccountIds]
          \cup [op : {"list"}, u : AccountIds, keep : SUBSET SessIds, ban : BOOLEAN]
          \cup [op : {"drop"}, ss : SUBSET SessIds, u : AccountIds, ban : BOOLEAN]

AccTyped == /\ users \in [AccountIds -> AccRow \cup {NoAccount}]
            /\ areq \in [AuthReqs -> AccReq]
            /\ bound \in AccountIds \cup {"none"}
            /\ session = [s \in DOMAIN session |-> session[s]]
            /\ DOMAIN session \subseteq SessIds

\* The account has an address the provider asserted of the subject.
Verified(a) == Has(a) /\ users[a].email \in asserted

\* Addresses are unique whatever their spelling, so the rows of two requests that
\* race for one are one row; the subject is bound to a verified account or to none.
OneAccount == /\ \A a, b \in AccountIds : Has(a) /\ Has(b) /\ users[a].email = users[b].email => a = b
              /\ bound # "none" => Verified(bound)

\* What a request that is under way may rely on.
ReqKept(q) == /\ q.op \in {"open", "recheck", "bind"} => Has(q.u)
              /\ q.op \in {"match", "provision"} => q.e \in asserted
              /\ q.op = "bind" => Verified(q.u)
              /\ q.op = "open" /\ q.via = "external" => bound # "none" /\ Verified(q.u)
              /\ q.op = "recheck" /\ q.s \in DOMAIN session => session[q.s].u = q.u

SessKept(s) == /\ session[s] \in SessRec /\ Has(session[s].u)
               /\ session[s].via = "external" => bound # "none" /\ Verified(session[s].u)

\* The request is a ban that will end session s of account a: it has yet to list
\* the account's sessions, or it has listed this one.
Covers(q, s, a) == \/ q.op = "list" /\ q.ban /\ q.u = a /\ s \notin q.keep
                   \/ q.op = "drop" /\ q.ban /\ q.u = a /\ s \in q.ss

BanSeen(s) == users[session[s].u].banned /\ session[s].checked =>
                 session[s].u \in untold \/ \E r \in AuthReqs : Covers(areq[r], s, session[s].u)

AccInv == /\ AccTyped /\ OneAccount
          /\ \A r \in AuthReqs : ReqKept(areq[r])
          /\ \A s \in DOMAIN session : SessKept(s) /\ BanSeen(s)

-----------------------------------------------------------------------------
(* Accounts: frames *)

\* One request moves on and nothing else changes; a revocation does not move so.
LEMMA RequestMoves ==
  ASSUME AccInv, NEW r \in AuthReqs, NEW q \in AccReq, areq' = [areq EXCEPT ![r] = q],
         ReqKept(q) \/ (q.op = "match" /\ q.e \in asserted'),
         areq[r].op \notin {"list", "drop"}, UNCHANGED <<users, bound, session, untold>>,
         asserted \subseteq asserted'
  PROVE  AccInv'
  <1>0. AccTyped /\ \A x \in AuthReqs : areq'[x] = IF x = r THEN q ELSE areq[x]
    BY DEF AccInv, AccTyped
  <1>1. AccTyped'
    BY <1>0 DEF AccTyped
  <1>2. OneAccount'
    BY DEF AccInv, OneAccount, Verified, Has
  <1>3. ASSUME NEW x \in AuthReqs PROVE ReqKept(areq[x])'
    <2>1. CASE x = r
      BY <1>0, <2>1 DEF ReqKept, Verified, Has
    <2>2. CASE x # r
      <3>1. areq'[x] = areq[x] /\ ReqKept(areq[x])
        BY <1>0, <2>2 DEF AccInv
      <3> QED BY <3>1 DEF ReqKept, Verified, Has
    <2> QED BY <2>1, <2>2
  <1>4. ASSUME NEW s \in DOMAIN session' PROVE SessKept(s)' /\ BanSeen(s)'
    <2>1. SessKept(s) /\ BanSeen(s)
      BY DEF AccInv
    <2>2. \A x \in AuthReqs : Covers(areq[x], s, session[s].u) => Covers(areq'[x], s, session[s].u)
      BY <1>0 DEF Covers
    <2>3. SessKept(s)'
      BY <2>1 DEF SessKept, Verified, Has
    <2>4. BanSeen(s)'
      BY <2>1, <2>2 DEF BanSeen, Covers
    <2> QED BY <2>3, <2>4
  <1> QED BY <1>1, <1>2, <1>3, <1>4 DEF AccInv

\* Sessions end; a request that would have ended others is still there.
LEMMA SessionsEnd ==
  ASSUME AccInv, NEW ss, session' = Without(ss), areq' \in [AuthReqs -> AccReq],
         UNCHANGED <<users, bound, asserted>>, untold \subseteq untold',
         \A x \in AuthReqs : areq'[x] = areq[x] \/ areq'[x] = Rest,
         \A s \in DOMAIN session \ ss : \A x \in AuthReqs :
            Covers(areq[x], s, session[s].u) => areq'[x] = areq[x] \/ session[s].u \in untold'
  PROVE  AccInv'
  <1>0. /\ AccTyped /\ DOMAIN session' = DOMAIN session \ ss
        /\ \A s \in DOMAIN session' : session'[s] = session[s]
        /\ session' = [s \in DOMAIN session' |-> session'[s]]
    BY DEF AccInv, AccTyped, Without
  <1>1. AccTyped'
    BY <1>0 DEF AccTyped
  <1>2. OneAccount'
    BY DEF AccInv, OneAccount, Verified, Has
  <1>3. ASSUME NEW x \in AuthReqs PROVE ReqKept(areq[x])'
    <2>1. ReqKept(areq[x])
      BY DEF AccInv
    <2>2. CASE areq'[x] = areq[x]
      BY <1>0, <2>1, <2>2 DEF ReqKept, Verified, Has
    <2>3. CASE areq'[x] = Rest
      BY <2>3 DEF ReqKept, Rest
    <2> QED BY <2>2, <2>3
  <1>4. ASSUME NEW s \in DOMAIN session' PROVE SessKept(s)' /\ BanSeen(s)'
    <2>1. SessKept(s) /\ BanSeen(s) /\ session'[s] = session[s] /\ s \in DOMAIN session \ ss
      BY <1>0 DEF AccInv
    <2>3. SessKept(s)'
      BY <2>1 DEF SessKept, Verified, Has
    <2>4. BanSeen(s)'
      BY <2>1 DEF BanSeen, Covers
    <2> QED BY <2>3, <2>4
  <1> QED BY <1>1, <1>2, <1>3, <1>4 DEF AccInv

\* A row is created, at an address nobody has.
LEMMA RowCreated ==
  ASSUME AccInv, NEW r \in AuthReqs, NEW a \in AccountIds, NEW e \in Addresses, CreateUser(e, a),
         NEW q \in AccReq, areq' = [areq EXCEPT ![r] = q], q.u = a,
         \/ q.op = "open" /\ q.via = "register"
         \/ q.op = "bind" /\ e \in asserted,
         areq[r].op \notin {"list", "drop"}, UNCHANGED <<bound, session, asserted, untold>>
  PROVE  AccInv'
  <1>0. /\ AccTyped /\ \A x \in AuthReqs : areq'[x] = IF x = r THEN q ELSE areq[x]
    BY DEF AccInv, AccTyped
  <1>e. Account(e) \in AccRow /\ Account(e).is = "row" /\ Account(e).email = e
    BY DEF Account, AccRow
  <1>u. /\ \A b \in AccountIds : users'[b] = IF b = a THEN Account(e) ELSE users[b]
        /\ users' \in [AccountIds -> AccRow \cup {NoAccount}]
    BY <1>0, <1>e DEF CreateUser, AccTyped
  <1>n. ~Has(a) /\ \A b \in AccountIds : Has(b) => users[b].email # e
    BY DEF CreateUser, GetUserByEmail
  <1>h. /\ Has(a)' /\ users'[a].email = e
        /\ \A b \in AccountIds : b # a => (Has(b)' <=> Has(b)) /\ users'[b] = users[b]
    BY <1>e, <1>u DEF Has
  <1>v. \A b \in AccountIds : /\ Has(b) => Has(b)' /\ users'[b] = users[b]
                              /\ Verified(b) => Verified(b)'
    BY <1>h, <1>n DEF Verified
  <1>1. AccTyped'
    BY <1>0, <1>u DEF AccTyped
  <1>2. OneAccount'
    <2>1. bound # "none" => Verified(bound)'
      BY <1>0, <1>v DEF AccInv, OneAccount, AccTyped
    <2>2. ASSUME NEW b \in AccountIds, NEW c \in AccountIds, Has(b)', Has(c)', users'[b].email = users'[c].email
          PROVE  b = c
      BY <1>h, <1>n, <2>2 DEF AccInv, OneAccount
    <2> QED BY <2>1, <2>2 DEF OneAccount
  <1>3. ASSUME NEW x \in AuthReqs PROVE ReqKept(areq[x])'
    <2>1. CASE x = r
      BY <1>0, <1>h, <2>1 DEF ReqKept, Verified
    <2>2. CASE x # r
      <3>1. areq'[x] = areq[x] /\ ReqKept(areq[x]) /\ areq[x] \in AccReq
        BY <1>0, <2>2 DEF AccInv, AccTyped
      <3>2. areq[x].op \in {"open", "recheck", "bind"} => areq[x].u \in AccountIds
        BY <3>1 DEF AccReq, Rest
      <3> QED BY <1>v, <3>1, <3>2 DEF ReqKept
    <2> QED BY <2>1, <2>2
  <1>4. ASSUME NEW s \in DOMAIN session' PROVE SessKept(s)' /\ BanSeen(s)'
    <2>1. SessKept(s) /\ BanSeen(s) /\ session' = session /\ session[s].u \in AccountIds
      BY DEF AccInv, SessKept, SessRec
    <2>2. SessKept(s)' /\ users'[session[s].u] = users[session[s].u]
      BY <1>v, <2>1 DEF SessKept
    <2>3. \A x \in AuthReqs : Covers(areq[x], s, session[s].u) => Covers(areq'[x], s, session[s].u)
      BY <1>0 DEF Covers
    <2>4. BanSeen(s)'
      BY <2>1, <2>2, <2>3 DEF BanSeen, Covers
    <2> QED BY <2>2, <2>4
  <1> QED BY <1>1, <1>2, <1>3, <1>4 DEF AccInv

-----------------------------------------------------------------------------
(* Accounts: the requests' steps *)

\* A request is one of a few records, told apart by its op.
LEMMA RequestShape ==
  ASSUME NEW q \in AccReq
  PROVE  /\ q.op = "open" => q.u \in AccountIds /\ q.via \in Ways
         /\ q.op = "recheck" => q.u \in AccountIds /\ q.s \in SessIds
         /\ q.op \in {"match", "provision"} => q \in [op : {"match", "provision"}, e : Addresses]
         /\ q.op = "bind" => q.u \in AccountIds
         /\ q.op = "list" => q.u \in AccountIds /\ q.keep \in SUBSET SessIds /\ q.ban \in BOOLEAN
         /\ q.op = "drop" => q.u \in AccountIds /\ q.ss \in SUBSET SessIds /\ q.ban \in BOOLEAN
  BY DEF AccReq, Rest

\* Rest is a request that relies on nothing.
LEMMA RestKept ==
  Rest \in AccReq /\ ReqKept(Rest) /\ Rest.op = "rest"
  BY DEF AccReq, Rest, ReqKept

\* Register, Provision: the row is there or created.
LEMMA RegisterKeeps ==
  ASSUME AccInv, NEW r \in AuthReqs, Register(r) PROVE AccInv'
  <1>1. PICK a \in AccountIds, e \in Addresses :
          /\ CreateUser(e, a)
          /\ areq' = [areq EXCEPT ![r] = [op |-> "open", u |-> a, via |-> "register"]]
    BY DEF Register, Spellings, ToLower, Then
  <1> DEFINE q == [op |-> "open", u |-> a, via |-> "register"]
  <1>2. /\ q \in AccReq /\ q.u = a
        /\ (q.op = "open" /\ q.via = "register") \/ (q.op = "bind" /\ e \in asserted)
    BY DEF AccReq, Ways
  <1>3. areq' = [areq EXCEPT ![r] = q]
    BY <1>1
  <1>4. areq[r].op = "rest" /\ UNCHANGED <<bound, session, asserted, untold>>
    BY DEF Register, Doing
  <1> HIDE DEF q
  <1> QED BY <1>1, <1>2, <1>3, <1>4, RowCreated

\* The steps that only decide where a request goes.
LEMMA LoginKeeps ==
  ASSUME AccInv, NEW r \in AuthReqs,
         Login(r) \/ OpenFails(r) \/ Consume(r) \/ ResolveBound(r) \/ ResolveUnbound(r)
  PROVE  AccInv'
  <1>0. AccTyped /\ UNCHANGED <<users, bound, session, untold>> /\ asserted \subseteq asserted'
    BY DEF AccInv, Login, OpenFails, Consume, ResolveBound, ResolveUnbound
  <1>1. ASSUME Ends(r), areq[r].op \notin {"list", "drop"} PROVE AccInv'
    BY <1>0, <1>1, RestKept, RequestMoves DEF Ends, Then
  <1>2. ASSUME Login(r) PROVE AccInv'
    <2>1. PICK a \in AccountIds : Has(a) /\ areq' = [areq EXCEPT ![r] = [op |-> "open", u |-> a, via |-> "password"]]
      BY <1>2 DEF Login, GetUserByEmail, Then
    <2> DEFINE q == [op |-> "open", u |-> a, via |-> "password"]
    <2>2. q \in AccReq /\ ReqKept(q)
      BY <1>0, <2>1 DEF AccReq, Ways, ReqKept, Verified, Has
    <2>3. areq' = [areq EXCEPT ![r] = q] /\ areq[r].op = "rest"
      BY <1>2, <2>1 DEF Login, Doing
    <2> HIDE DEF q
    <2> QED BY <1>0, <2>2, <2>3, RequestMoves
  <1>3. ASSUME Consume(r) PROVE AccInv'
    <2> DEFINE q == [op |-> "resolve"]
    <2>1. q \in AccReq /\ ReqKept(q)
      BY DEF AccReq, ReqKept
    <2>2. areq[r].op = "rest" /\ (areq' = [areq EXCEPT ![r] = q] \/ Ends(r))
      BY <1>3 DEF Consume, Doing, Then
    <2> HIDE DEF q
    <2> QED BY <1>0, <1>1, <2>1, <2>2, RequestMoves
  <1>4. ASSUME ResolveBound(r) PROVE AccInv'
    <2> DEFINE q == [op |-> "open", u |-> bound, via |-> "external"]
    <2>1. bound \in AccountIds /\ bound # "none" /\ Verified(bound)
      BY <1>0, <1>4 DEF ResolveBound, AccTyped, AccInv, OneAccount
    <2>2. q \in AccReq /\ ReqKept(q)
      BY <1>0, <2>1 DEF AccReq, Ways, ReqKept, Verified, Has
    <2>3. areq[r].op = "resolve" /\ (areq' = [areq EXCEPT ![r] = q] \/ Ends(r))
      BY <1>4 DEF ResolveBound, Doing, Into, Then
    <2> HIDE DEF q
    <2> QED BY <1>0, <1>1, <2>2, <2>3, RequestMoves
  <1>5. ASSUME ResolveUnbound(r) PROVE AccInv'
    <2>1. areq[r].op = "resolve"
      BY <1>5 DEF ResolveUnbound, Doing
    <2>2. ASSUME NEW e \in Addresses, Then(r, [op |-> "match", e |-> e]), e \in asserted' PROVE AccInv'
      <3> DEFINE q == [op |-> "match", e |-> e]
      <3>1. q \in AccReq /\ q.op = "match" /\ q.e \in asserted'
        BY <2>2 DEF AccReq
      <3>2. areq' = [areq EXCEPT ![r] = q]
        BY <2>2 DEF Then
      <3> HIDE DEF q
      <3> QED BY <1>0, <2>1, <3>1, <3>2, RequestMoves
    <2> QED BY <1>1, <1>5, <2>1, <2>2 DEF ResolveUnbound, Spellings, ToLower
  <1>6. ASSUME OpenFails(r) PROVE AccInv'
    BY <1>1, <1>6 DEF OpenFails, Doing
  <1> QED BY <1>2, <1>3, <1>4, <1>5, <1>6

\* MatchEmail, Provision: the account with the address is the one to bind.
LEMMA MatchKeeps ==
  ASSUME AccInv, NEW r \in AuthReqs, MatchEmail(r) \/ Provision(r) PROVE AccInv'
  <1>0. /\ AccTyped /\ UNCHANGED <<bound, session, untold, asserted>>
        /\ areq[r] \in AccReq /\ areq[r].op \in {"match", "provision"}
    BY DEF AccInv, AccTyped, MatchEmail, Provision, Doing
  <1>m. areq[r] \in [op : {"match", "provision"}, e : Addresses]
    BY <1>0, RequestShape
  <1>e. areq[r].e \in Addresses /\ areq[r].e \in asserted
    BY <1>0, <1>m DEF AccInv, ReqKept
  <1>1. ASSUME Ends(r), UNCHANGED users PROVE AccInv'
    BY <1>0, <1>1, RestKept, RequestMoves DEF Ends, Then
  <1>2. ASSUME NEW a \in GetUserByEmail(areq[r].e), UNCHANGED users, Then(r, [op |-> "bind", u |-> a])
        PROVE  AccInv'
    <2> DEFINE q == [op |-> "bind", u |-> a]
    <2>1. q \in AccReq /\ ReqKept(q)
      BY <1>0, <1>2, <1>e DEF GetUserByEmail, AccReq, ReqKept, Verified, Has
    <2>2. areq' = [areq EXCEPT ![r] = q]
      BY <1>2 DEF Then
    <2> HIDE DEF q
    <2> QED BY <1>0, <1>2, <2>1, <2>2, RequestMoves
  <1>3. ASSUME Then(r, [areq[r] EXCEPT !.op = "provision"]), UNCHANGED users PROVE AccInv'
    <2> DEFINE q == [op |-> "provision", e |-> areq[r].e]
    <2>1. q \in AccReq /\ ReqKept(q)
      BY <1>e DEF AccReq, ReqKept
    <2>2. areq' = [areq EXCEPT ![r] = q]
      <3>1. [areq[r] EXCEPT !.op = "provision"] = q
        BY <1>m
      <3> QED BY <1>3, <3>1 DEF Then
    <2> HIDE DEF q
    <2> QED BY <1>0, <1>3, <2>1, <2>2, RequestMoves
  <1>4. ASSUME NEW a \in AccountIds, CreateUser(areq[r].e, a), Then(r, [op |-> "bind", u |-> a])
        PROVE  AccInv'
    <2> DEFINE q == [op |-> "bind", u |-> a]
    <2>1. /\ q \in AccReq /\ q.u = a
          /\ (q.op = "open" /\ q.via = "register") \/ (q.op = "bind" /\ areq[r].e \in asserted)
      BY <1>e DEF AccReq
    <2>2. areq' = [areq EXCEPT ![r] = q]
      BY <1>4 DEF Then
    <2> HIDE DEF q
    <2> QED BY <1>0, <1>4, <1>e, <2>1, <2>2, RowCreated
  <1>5. CASE MatchEmail(r)
    BY <1>1, <1>2, <1>3, <1>5 DEF MatchEmail
  <1>6. CASE Provision(r)
    BY <1>1, <1>2, <1>4, <1>6 DEF Provision
  <1> QED BY <1>5, <1>6

\* BeginProviderLogin: a state is minted.
LEMMA BeginKeeps ==
  ASSUME AccInv, NEW r \in AuthReqs, BeginProviderLogin(r) PROVE AccInv'
  <1>0. /\ AccTyped /\ areq[r] \in AccReq /\ areq[r].op = "rest" /\ ReqKept(areq[r])
        /\ UNCHANGED <<users, bound, session, untold, asserted>>
    BY DEF AccInv, AccTyped, BeginProviderLogin, Doing
  <1>1. areq' = [areq EXCEPT ![r] = areq[r]]
    BY <1>0 DEF BeginProviderLogin, AccTyped
  <1> QED BY <1>0, <1>1, RequestMoves

\* BindIdentity: afterwards the subject is bound, to a verified account.
LEMMA BindKeeps ==
  ASSUME AccInv, NEW r \in AuthReqs, BindIdentity(r) PROVE AccInv'
  <1>0. /\ AccTyped /\ OneAccount /\ UNCHANGED <<users, session, untold, asserted>>
        /\ areq[r] \in AccReq /\ areq[r].op = "bind" /\ ReqKept(areq[r])
    BY DEF AccInv, AccTyped, BindIdentity, Doing
  <1>1. areq[r].u \in AccountIds /\ Verified(areq[r].u) /\ Has(areq[r].u)
    BY <1>0, RequestShape DEF ReqKept
  <1>2. ASSUME UNCHANGED bound, Ends(r) PROVE AccInv'
    BY <1>0, <1>2, RestKept, RequestMoves DEF Ends, Then
  <1>3. ASSUME bound' = (IF bound = "none" THEN areq[r].u ELSE bound), Into(r, areq[r].u) PROVE AccInv'
    <2> DEFINE q == [op |-> "open", u |-> areq[r].u, via |-> "external"]
    <2>1. q \in AccReq /\ q.op = "open" /\ q.u = areq[r].u /\ q.via = "external"
      BY <1>1 DEF AccReq, Ways
    <2>2. areq' = [areq EXCEPT ![r] = q]
      BY <1>3 DEF Into, Then
    <2> HIDE DEF q
    <2>3. /\ bound' \in AccountIds /\ bound' # "none" /\ Verified(bound')
          /\ bound # "none" => bound' = bound
      BY <1>0, <1>1, <1>3, NoneApart DEF AccTyped, OneAccount
    <2>4. \A x \in AuthReqs : areq'[x] = IF x = r THEN q ELSE areq[x]
      BY <1>0, <2>2 DEF AccTyped
    <2>5. AccTyped'
      BY <1>0, <1>1, <2>1, <2>2, <2>3 DEF AccTyped
    <2>6. OneAccount'
      BY <1>0, <1>1, <2>3 DEF OneAccount, Verified, Has
    <2>7. ASSUME NEW x \in AuthReqs PROVE ReqKept(areq[x])'
      <3>1. CASE x = r
        BY <1>0, <1>1, <2>1, <2>3, <2>4, <3>1 DEF ReqKept, Verified, Has
      <3>2. CASE x # r
        <4>1. areq'[x] = areq[x] /\ ReqKept(areq[x]) /\ areq[x] \in AccReq
          BY <1>0, <2>4, <3>2 DEF AccInv, AccTyped
        <4>2. areq[x].op = "open" => areq[x].u \in AccountIds
          BY <4>1, RequestShape
        <4> QED BY <1>0, <2>3, <4>1, <4>2, NoneApart DEF ReqKept, Verified, Has
      <3> QED BY <3>1, <3>2
    <2>8. ASSUME NEW s \in DOMAIN session' PROVE SessKept(s)' /\ BanSeen(s)'
      <3>1. SessKept(s) /\ BanSeen(s) /\ session' = session
        BY <1>0 DEF AccInv
      <3>2. SessKept(s)'
        BY <1>0, <2>3, <3>1, NoneApart DEF SessKept, Verified, Has, SessRec
      <3>3. \A x \in AuthReqs : Covers(areq[x], s, session[s].u) => Covers(areq'[x], s, session[s].u)
        BY <1>0, <2>4 DEF Covers
      <3>4. BanSeen(s)'
        BY <1>0, <3>1, <3>3 DEF BanSeen, Covers
      <3> QED BY <3>2, <3>4
    <2> QED BY <2>5, <2>6, <2>7, <2>8 DEF AccInv
  <1> QED BY <1>2, <1>3 DEF BindIdentity

\* OpenSession: a new token, not yet seen unbanned.
LEMMA OpenKeeps ==
  ASSUME AccInv, NEW r \in AuthReqs, OpenSession(r) PROVE AccInv'
  <1>0. /\ AccTyped /\ OneAccount /\ UNCHANGED <<users, bound, untold, asserted>>
        /\ areq[r] \in AccReq /\ areq[r].op = "open" /\ ReqKept(areq[r])
    BY DEF AccInv, AccTyped, OpenSession, Doing
  <1>1. PICK s \in SessIds :
           /\ Unused(s)
           /\ session' = [x \in DOMAIN session \cup {s} |->
                          IF x = s THEN [u |-> areq[r].u, via |-> areq[r].via, checked |-> FALSE]
                          ELSE session[x]]
           /\ IF areq[r].via = "register" THEN Ends(r)
              ELSE Then(r, [op |-> "recheck", u |-> areq[r].u, s |-> s])
    BY DEF OpenSession
  <1> DEFINE n == [u |-> areq[r].u, via |-> areq[r].via, checked |-> FALSE]
             q == IF areq[r].via = "register" THEN Rest ELSE [op |-> "recheck", u |-> areq[r].u, s |-> s]
  <1>2. areq[r].u \in AccountIds /\ Has(areq[r].u) /\ areq[r].via \in Ways
    BY <1>0, RequestShape DEF ReqKept
  <1>3. n \in SessRec /\ n.u = areq[r].u /\ n.via = areq[r].via /\ n.checked = FALSE
    BY <1>2 DEF SessRec
  <1>4. q \in AccReq /\ (q = Rest \/ (q.op = "recheck" /\ q.u = areq[r].u /\ q.s = s))
    BY <1>1, <1>2, RestKept DEF AccReq
  <1>5. areq' = [areq EXCEPT ![r] = q]
    BY <1>1 DEF Ends, Then
  <1>6. /\ DOMAIN session' = DOMAIN session \cup {s} /\ s \notin DOMAIN session /\ session'[s] = n
        /\ \A x \in DOMAIN session : session'[x] = session[x]
        /\ session' = [x \in DOMAIN session' |-> session'[x]]
    BY <1>0, <1>1 DEF AccTyped, Unused
  <1> HIDE DEF n, q
  <1>7. \A x \in AuthReqs : areq'[x] = IF x = r THEN q ELSE areq[x]
    BY <1>0, <1>5 DEF AccTyped
  <1>8. AccTyped'
    BY <1>0, <1>1, <1>4, <1>5, <1>6 DEF AccTyped
  <1>9. OneAccount'
    BY <1>0 DEF OneAccount, Verified, Has
  <1>10. ASSUME NEW x \in AuthReqs PROVE ReqKept(areq[x])'
    <2>1. CASE x = r
      <3>1. CASE q = Rest
        BY <1>7, <2>1, <3>1 DEF ReqKept, Rest
      <3>2. CASE q.op = "recheck" /\ q.u = areq[r].u /\ q.s = s
        BY <1>0, <1>1, <1>2, <1>3, <1>6, <1>7, <2>1, <3>2 DEF ReqKept, Verified, Has
      <3> QED BY <1>4, <3>1, <3>2
    <2>2. CASE x # r
      <3>1. areq'[x] = areq[x] /\ ReqKept(areq[x])
        BY <1>7, <2>2 DEF AccInv
      <3>2. areq[x].op = "recheck" => areq[x].s # s
        BY <1>1 DEF Unused, Doing
      <3> QED BY <1>0, <1>1, <1>6, <3>1, <3>2 DEF ReqKept, Verified, Has
    <2> QED BY <2>1, <2>2
  <1>11. ASSUME NEW x \in DOMAIN session' PROVE SessKept(x)' /\ BanSeen(x)'
    <2>1. CASE x = s
      <3>1. SessKept(x)'
        BY <1>0, <1>2, <1>3, <1>6, <2>1 DEF SessKept, Verified, Has, ReqKept
      <3>2. BanSeen(x)'
        BY <1>3, <1>6, <2>1 DEF BanSeen
      <3> QED BY <3>1, <3>2
    <2>2. CASE x # s
      <3>1. SessKept(x) /\ BanSeen(x) /\ session'[x] = session[x]
        BY <1>6, <2>2 DEF AccInv
      <3>2. SessKept(x)'
        BY <1>0, <3>1 DEF SessKept, Verified, Has
      <3>3. \A y \in AuthReqs : Covers(areq[y], x, session[x].u) => Covers(areq'[y], x, session[x].u)
        BY <1>0, <1>7 DEF Covers
      <3>4. BanSeen(x)'
        BY <1>0, <3>1, <3>3 DEF BanSeen, Covers
      <3> QED BY <3>2, <3>4
    <2> QED BY <2>1, <2>2
  <1> QED BY <1>8, <1>9, <1>10, <1>11 DEF AccInv

\* Recheck: the session goes, or the account was unbanned when it was seen.
LEMMA RecheckKeeps ==
  ASSUME AccInv, NEW r \in AuthReqs, Recheck(r) PROVE AccInv'
  <1>0. /\ AccTyped /\ OneAccount /\ UNCHANGED <<users, bound, asserted, untold>>
        /\ areq[r] \in AccReq /\ areq[r].op = "recheck" /\ ReqKept(areq[r])
        /\ areq' = [areq EXCEPT ![r] = Rest]
    BY DEF AccInv, AccTyped, Recheck, Doing, Ends, Then
  <1>1. /\ \A x \in AuthReqs : areq'[x] = IF x = r THEN Rest ELSE areq[x]
        /\ areq' \in [AuthReqs -> AccReq]
    BY <1>0, RestKept DEF AccTyped
  <1>2. ASSUME session' = Without({areq[r].s}) PROVE AccInv'
    <2>1. \A s \in DOMAIN session \ {areq[r].s} : \A x \in AuthReqs :
             Covers(areq[x], s, session[s].u) => areq'[x] = areq[x]
      BY <1>0, <1>1 DEF Covers
    <2> QED BY <1>0, <1>1, <1>2, <2>1, SessionsEnd
  <1>3. ASSUME NEW seen \in BOOLEAN, Keep(r, seen), seen => ~users[areq[r].u].banned PROVE AccInv'
    <2>1. /\ DOMAIN session' = DOMAIN session /\ session' = [x \in DOMAIN session' |-> session'[x]]
          /\ \A x \in DOMAIN session : x # areq[r].s => session'[x] = session[x]
          /\ areq[r].s \in DOMAIN session => session'[areq[r].s] = [session[areq[r].s] EXCEPT !.checked = seen]
      BY <1>3 DEF Keep
    <2>2. ASSUME NEW x \in DOMAIN session
          PROVE  /\ session'[x] \in SessRec /\ session'[x].u = session[x].u
                 /\ session'[x].via = session[x].via
                 /\ session'[x].checked => session[x].checked \/ ~users[session[x].u].banned
      <3>1. session[x] \in SessRec
        BY DEF AccInv, SessKept
      <3>2. CASE x # areq[r].s
        BY <2>1, <3>1, <3>2
      <3>3. CASE x = areq[r].s
        <4>1. session'[x] = [session[x] EXCEPT !.checked = seen] /\ session[x].u = areq[r].u
          BY <1>0, <2>1, <3>3 DEF ReqKept
        <4>2. /\ session'[x] \in SessRec /\ session'[x].u = session[x].u
              /\ session'[x].via = session[x].via /\ session'[x].checked = seen
          BY <3>1, <4>1 DEF SessRec
        <4> QED BY <1>3, <4>1, <4>2
      <3> QED BY <3>2, <3>3
    <2>3. AccTyped'
      BY <1>0, <1>1, <2>1 DEF AccTyped
    <2>4. OneAccount'
      BY <1>0 DEF OneAccount, Verified, Has
    <2>5. ASSUME NEW x \in AuthReqs PROVE ReqKept(areq[x])'
      <3>1. CASE x = r
        BY <1>1, <3>1 DEF ReqKept, Rest
      <3>2. CASE x # r
        <4>1. areq'[x] = areq[x] /\ ReqKept(areq[x])
          BY <1>1, <3>2 DEF AccInv
        <4> QED BY <1>0, <2>1, <2>2, <4>1 DEF ReqKept, Verified, Has
      <3> QED BY <3>1, <3>2
    <2>6. ASSUME NEW x \in DOMAIN session' PROVE SessKept(x)' /\ BanSeen(x)'
      <3>1. SessKept(x) /\ BanSeen(x) /\ x \in DOMAIN session
        BY <2>1 DEF AccInv
      <3>2. SessKept(x)'
        BY <1>0, <2>2, <3>1 DEF SessKept, Verified, Has
      <3>3. \A y \in AuthReqs : Covers(areq[y], x, session[x].u) => Covers(areq'[y], x, session[x].u)
        BY <1>0, <1>1 DEF Covers
      <3>4. BanSeen(x)'
        BY <1>0, <2>2, <3>1, <3>3 DEF BanSeen, Covers
      <3> QED BY <3>2, <3>4
    <2> QED BY <2>3, <2>4, <2>5, <2>6 DEF AccInv
  <1> QED BY <1>2, <1>3 DEF Recheck

\* Logout, Expires, RevokeDrops: sessions end, and a revocation that is done has
\* ended all it covered, or the administrator was told.
LEMMA EndsKeep ==
  ASSUME AccInv, Expires \/ \E r \in AuthReqs : Logout(r) \/ RevokeDrops(r) PROVE AccInv'
  <1>0. /\ AccTyped /\ UNCHANGED <<users, bound, asserted>>
    BY DEF AccInv, Expires, Logout, RevokeDrops
  <1>1. Without({}) = session
    BY <1>0 DEF AccTyped, Without
  <1>2. ASSUME NEW ss, session' = Without(ss), areq' = areq, untold' = untold PROVE AccInv'
    <2>1. areq' \in [AuthReqs -> AccReq]
      BY <1>0, <1>2 DEF AccTyped
    <2> QED BY <1>0, <1>2, <2>1, SessionsEnd
  <1>3. ASSUME Expires PROVE AccInv'
    BY <1>1, <1>2, <1>3 DEF Expires
  <1>4. ASSUME NEW r \in AuthReqs, Logout(r) PROVE AccInv'
    BY <1>2, <1>4 DEF Logout
  <1>5. ASSUME NEW r \in AuthReqs, RevokeDrops(r) PROVE AccInv'
    <2>1. areq[r].op = "drop" /\ areq' = [areq EXCEPT ![r] = Rest]
      BY <1>5 DEF RevokeDrops, Doing, Ends, Then
    <2>2. /\ \A x \in AuthReqs : areq'[x] = IF x = r THEN Rest ELSE areq[x]
          /\ areq' \in [AuthReqs -> AccReq]
      BY <1>0, <2>1, RestKept DEF AccTyped
    <2>3. CASE session' = Without(areq[r].ss) /\ UNCHANGED untold
      <3>1. \A s \in DOMAIN session \ areq[r].ss : \A x \in AuthReqs :
               Covers(areq[x], s, session[s].u) => areq'[x] = areq[x]
        BY <2>1, <2>2 DEF Covers
      <3> QED BY <1>0, <2>2, <2>3, <3>1, SessionsEnd
    <2>4. CASE RevokeFails(r) /\ UNCHANGED session
      <3>1. \A s \in DOMAIN session \ {} : \A x \in AuthReqs :
               Covers(areq[x], s, session[s].u) => areq'[x] = areq[x] \/ session[s].u \in untold'
        BY <2>1, <2>2, <2>4 DEF Covers, RevokeFails
      <3>2. session' = Without({}) /\ untold \subseteq untold'
        BY <1>1, <2>4 DEF RevokeFails
      <3> QED BY <1>0, <2>2, <3>1, <3>2, SessionsEnd
    <2> QED BY <1>5, <2>3, <2>4 DEF RevokeDrops
  <1> QED BY <1>3, <1>4, <1>5

\* A ban flag is set or cleared: the rows stay rows.
LEMMA FlagSet ==
  ASSUME AccTyped, NEW a \in AccountIds, Has(a), NEW b \in BOOLEAN,
         users' = [users EXCEPT ![a].banned = b]
  PROVE  /\ users' \in [AccountIds -> AccRow \cup {NoAccount}]
         /\ \A x \in AccountIds : Has(x)' <=> Has(x)
         /\ \A x \in AccountIds : users'[x].email = users[x].email
         /\ \A x \in AccountIds : x # a => users'[x] = users[x]
         /\ users'[a].banned = b
  <1> DEFINE n == [users[a] EXCEPT !.banned = b]
  <1>1. users[a] \in AccRow
    BY DEF AccTyped, Has, NoAccount
  <1>2. n \in AccRow /\ n.is = "row" /\ n.banned = b /\ n.email = users[a].email
    BY <1>1 DEF AccRow
  <1>3. users' = [users EXCEPT ![a] = n]
    OBVIOUS
  <1> HIDE DEF n
  <1>4. /\ users' \in [AccountIds -> AccRow \cup {NoAccount}]
        /\ \A x \in AccountIds : users'[x] = IF x = a THEN n ELSE users[x]
    BY <1>2, <1>3 DEF AccTyped
  <1> QED BY <1>1, <1>2, <1>4 DEF Has, AccRow

\* Ban: the revocation that follows covers every session of the account.
LEMMA BanKeeps ==
  ASSUME AccInv, NEW r \in AuthReqs, Ban(r) PROVE AccInv'
  <1>0. AccTyped /\ OneAccount /\ UNCHANGED <<bound, session, asserted>> /\ areq[r].op = "rest"
    BY DEF AccInv, Ban, Doing
  <1>1. PICK a \in AccountIds : /\ Has(a) /\ users' = [users EXCEPT ![a].banned = TRUE]
                                /\ areq' = [areq EXCEPT ![r] =
                                       [op |-> "list", u |-> a, keep |-> {}, ban |-> TRUE]]
                                /\ untold' = untold \ {a}
    BY DEF Ban, Then
  <1> DEFINE q == [op |-> "list", u |-> a, keep |-> {}, ban |-> TRUE]
  <1>2. q \in AccReq /\ q.op = "list" /\ q.u = a /\ q.keep = {} /\ q.ban = TRUE
    BY DEF AccReq
  <1>3. areq' = [areq EXCEPT ![r] = q]
    BY <1>1
  <1> HIDE DEF q
  <1>4. /\ users' \in [AccountIds -> AccRow \cup {NoAccount}]
        /\ \A x \in AccountIds : Has(x)' <=> Has(x)
        /\ \A x \in AccountIds : users'[x].email = users[x].email
        /\ \A x \in AccountIds : x # a => users'[x] = users[x]
    BY <1>0, <1>1, FlagSet
  <1>5. \A x \in AuthReqs : areq'[x] = IF x = r THEN q ELSE areq[x]
    BY <1>0, <1>3 DEF AccTyped
  <1>6. AccTyped'
    BY <1>0, <1>2, <1>3, <1>4 DEF AccTyped
  <1>7. OneAccount'
    BY <1>0, <1>4 DEF OneAccount, Verified, AccTyped
  <1>8. ASSUME NEW x \in AuthReqs PROVE ReqKept(areq[x])'
    <2>1. CASE x = r
      BY <1>2, <1>5, <2>1 DEF ReqKept
    <2>2. CASE x # r
      <3>1. areq'[x] = areq[x] /\ ReqKept(areq[x]) /\ areq[x] \in AccReq
        BY <1>0, <1>5, <2>2 DEF AccInv, AccTyped
      <3>2. areq[x].op \in {"open", "recheck", "bind"} => areq[x].u \in AccountIds
        BY <3>1, RequestShape
      <3> QED BY <1>0, <1>4, <3>1, <3>2 DEF ReqKept, Verified
    <2> QED BY <2>1, <2>2
  <1>9. ASSUME NEW s \in DOMAIN session' PROVE SessKept(s)' /\ BanSeen(s)'
    <2>1. SessKept(s) /\ BanSeen(s) /\ session' = session /\ session[s].u \in AccountIds
      BY <1>0 DEF AccInv, SessKept, SessRec
    <2>2. SessKept(s)'
      BY <1>0, <1>4, <2>1 DEF SessKept, Verified
    <2>3. CASE session[s].u = a
      <3>1. Covers(areq'[r], s, a)
        BY <1>2, <1>5 DEF Covers
      <3>2. BanSeen(s)'
        BY <2>1, <2>3, <3>1 DEF BanSeen, Covers
      <3> QED BY <2>2, <3>2
    <2>4. CASE session[s].u # a
      <3>1. users'[session[s].u] = users[session[s].u]
        BY <1>4, <2>1, <2>4
      <3>2. \A x \in AuthReqs : Covers(areq[x], s, session[s].u) => Covers(areq'[x], s, session[s].u)
        BY <1>0, <1>5 DEF Covers
      <3>3. BanSeen(s)'
        BY <1>0, <1>1, <2>1, <2>4, <3>1, <3>2 DEF BanSeen, Covers
      <3> QED BY <2>2, <3>3
    <2> QED BY <2>3, <2>4
  <1> QED BY <1>6, <1>7, <1>8, <1>9 DEF AccInv

\* Unban: an account that is not banned asks for nothing.
LEMMA UnbanKeeps ==
  ASSUME AccInv, NEW r \in AuthReqs, Unban(r) PROVE AccInv'
  <1>0. AccTyped /\ OneAccount /\ UNCHANGED <<bound, session, asserted, areq, untold>>
    BY DEF AccInv, Unban
  <1>1. PICK a \in AccountIds : Has(a) /\ users' = [users EXCEPT ![a].banned = FALSE]
    BY DEF Unban
  <1>4. /\ users' \in [AccountIds -> AccRow \cup {NoAccount}]
        /\ \A x \in AccountIds : Has(x)' <=> Has(x)
        /\ \A x \in AccountIds : users'[x].email = users[x].email
        /\ \A x \in AccountIds : x # a => users'[x] = users[x]
        /\ users'[a].banned = FALSE
    BY <1>0, <1>1, FlagSet
  <1>6. AccTyped'
    BY <1>0, <1>4 DEF AccTyped
  <1>7. OneAccount'
    BY <1>0, <1>4 DEF OneAccount, Verified, AccTyped
  <1>8. ASSUME NEW x \in AuthReqs PROVE ReqKept(areq[x])'
    <2>1. ReqKept(areq[x]) /\ areq[x] \in AccReq
      BY <1>0 DEF AccInv, AccTyped
    <2>2. areq[x].op \in {"open", "recheck", "bind"} => areq[x].u \in AccountIds
      BY <2>1, RequestShape
    <2> QED BY <1>0, <1>4, <2>1, <2>2 DEF ReqKept, Verified
  <1>9. ASSUME NEW s \in DOMAIN session' PROVE SessKept(s)' /\ BanSeen(s)'
    <2>1. SessKept(s) /\ BanSeen(s) /\ session' = session /\ session[s].u \in AccountIds
      BY <1>0 DEF AccInv, SessKept, SessRec
    <2>2. SessKept(s)'
      BY <1>0, <1>4, <2>1 DEF SessKept, Verified
    <2>3. users'[session[s].u].banned => users'[session[s].u] = users[session[s].u]
      BY <1>4, <2>1
    <2>4. BanSeen(s)'
      BY <1>0, <2>1, <2>3 DEF BanSeen, Covers
    <2> QED BY <2>2, <2>4
  <1> QED BY <1>6, <1>7, <1>8, <1>9 DEF AccInv

\* ChangePassword, AdminResetPassword: a revocation begins.
LEMMA ChangeKeeps ==
  ASSUME AccInv, NEW r \in AuthReqs, ChangePassword(r) PROVE AccInv'
  <1>0. /\ AccTyped /\ UNCHANGED <<users, bound, session, untold, asserted>>
        /\ areq[r].op = "rest"
    BY DEF AccInv, ChangePassword, Doing
  <1>1. ASSUME NEW a \in AccountIds, NEW k \in SUBSET SessIds,
               Then(r, [op |-> "list", u |-> a, keep |-> k, ban |-> FALSE])
        PROVE  AccInv'
    <2> DEFINE q == [op |-> "list", u |-> a, keep |-> k, ban |-> FALSE]
    <2>1. q \in AccReq /\ ReqKept(q)
      BY DEF AccReq, ReqKept
    <2>2. areq' = [areq EXCEPT ![r] = q]
      BY <1>1 DEF Then
    <2> HIDE DEF q
    <2> QED BY <1>0, <2>1, <2>2, RequestMoves
  <1>2. ASSUME NEW s \in DOMAIN session, Then(r, [op |-> "list", u |-> session[s].u, keep |-> {s}, ban |-> FALSE])
        PROVE  AccInv'
    <2>1. session[s].u \in AccountIds /\ {s} \in SUBSET SessIds
      BY <1>0 DEF AccInv, AccTyped, SessKept, SessRec
    <2> QED BY <1>1, <1>2, <2>1
  <1>3. ASSUME NEW a \in AccountIds, Then(r, [op |-> "list", u |-> a, keep |-> {}, ban |-> FALSE]) PROVE AccInv'
    <2>1. {} \in SUBSET SessIds
      OBVIOUS
    <2> QED BY <1>1, <1>3, <2>1
  <1> QED BY <1>2, <1>3 DEF ChangePassword

\* RevokeLists: the list holds what the request covered; when it fails the
\* administrator is told.
LEMMA ListsKeep ==
  ASSUME AccInv, NEW r \in AuthReqs, RevokeLists(r) PROVE AccInv'
  <1>0. /\ AccTyped /\ OneAccount /\ UNCHANGED <<users, bound, session, asserted>>
        /\ areq[r] \in AccReq /\ areq[r].op = "list"
    BY DEF AccInv, AccTyped, RevokeLists, Doing
  <1>1. areq[r].u \in AccountIds /\ areq[r].ban \in BOOLEAN
    BY <1>0, RequestShape
  <1>2. CASE Ends(r) /\ RevokeFails(r)
    <2>1. areq' = [areq EXCEPT ![r] = Rest]
      BY <1>2 DEF Ends, Then
    <2>2. /\ \A x \in AuthReqs : areq'[x] = IF x = r THEN Rest ELSE areq[x]
          /\ areq' \in [AuthReqs -> AccReq]
      BY <1>0, <2>1, RestKept DEF AccTyped
    <2>3. \A s \in DOMAIN session \ {} : \A x \in AuthReqs :
             Covers(areq[x], s, session[s].u) => areq'[x] = areq[x] \/ session[s].u \in untold'
      BY <1>0, <1>2, <2>2 DEF Covers, RevokeFails
    <2>4. session' = Without({}) /\ untold \subseteq untold'
      BY <1>0, <1>2 DEF AccTyped, Without, RevokeFails
    <2>5. DOMAIN session \ {} = DOMAIN session
      OBVIOUS
    <2> QED BY <1>0, <2>2, <2>3, <2>4, <2>5, SessionsEnd
  <1>3. CASE /\ Then(r, [op |-> "drop", ss |-> SessionsOf(areq[r].u) \ areq[r].keep,
                         u |-> areq[r].u, ban |-> areq[r].ban])
             /\ UNCHANGED untold
    <2> DEFINE L == SessionsOf(areq[r].u) \ areq[r].keep
               q == [op |-> "drop", ss |-> L, u |-> areq[r].u, ban |-> areq[r].ban]
    <2>1. L \in SUBSET SessIds /\ \A s \in DOMAIN session : Covers(areq[r], s, session[s].u) => s \in L
      BY <1>0 DEF SessionsOf, AccTyped, Covers
    <2>2. areq' = [areq EXCEPT ![r] = q]
      BY <1>3 DEF Then
    <2> HIDE DEF L
    <2>3. q \in AccReq /\ q.op = "drop" /\ q.u = areq[r].u /\ q.ss = L /\ q.ban = areq[r].ban
      BY <1>1, <2>1 DEF AccReq
    <2> HIDE DEF q
    <2>4. \A x \in AuthReqs : areq'[x] = IF x = r THEN q ELSE areq[x]
      BY <1>0, <2>2 DEF AccTyped
    <2>5. AccTyped'
      BY <1>0, <2>2, <2>3 DEF AccTyped
    <2>6. OneAccount'
      BY <1>0 DEF OneAccount, Verified, Has
    <2>7. ASSUME NEW x \in AuthReqs PROVE ReqKept(areq[x])'
      <3>1. CASE x = r
        BY <2>3, <2>4, <3>1 DEF ReqKept
      <3>2. CASE x # r
        BY <1>0, <2>4, <3>2 DEF AccInv, ReqKept, Verified, Has
      <3> QED BY <3>1, <3>2
    <2>8. ASSUME NEW s \in DOMAIN session' PROVE SessKept(s)' /\ BanSeen(s)'
      <3>1. SessKept(s) /\ BanSeen(s) /\ session' = session
        BY <1>0 DEF AccInv
      <3>2. SessKept(s)'
        BY <1>0, <3>1 DEF SessKept, Verified, Has
      <3>3. ASSUME NEW x \in AuthReqs, Covers(areq[x], s, session[s].u)
            PROVE  Covers(areq'[x], s, session[s].u)
        <4>1. CASE x = r
          BY <1>0, <2>1, <2>3, <2>4, <3>1, <3>3, <4>1 DEF Covers
        <4>2. CASE x # r
          BY <2>4, <3>3, <4>2
        <4> QED BY <4>1, <4>2
      <3>4. BanSeen(s)'
        BY <1>0, <1>3, <3>1, <3>3 DEF BanSeen, Covers
      <3> QED BY <3>2, <3>4
    <2> QED BY <2>5, <2>6, <2>7, <2>8 DEF AccInv
  <1> QED BY <1>2, <1>3 DEF RevokeLists

-----------------------------------------------------------------------------
(* Accounts: the theorems *)

\* At first there is no account, no session and no request.
LEMMA AccStarts ==
  AccInit => AccInv
  <1> SUFFICES ASSUME AccInit PROVE AccInv
    OBVIOUS
  <1>1. DOMAIN session = {} /\ session = [s \in DOMAIN session |-> session[s]]
    BY DEF AccInit
  <1>2. \A a \in AccountIds : ~Has(a)
    BY DEF AccInit, Has, NoAccount
  <1>3. AccTyped
    BY <1>1, RestKept DEF AccInit, AccTyped
  <1>4. OneAccount
    BY <1>2 DEF AccInit, OneAccount
  <1>5. \A r \in AuthReqs : ReqKept(areq[r])
    BY RestKept DEF AccInit
  <1> QED BY <1>1, <1>3, <1>4, <1>5 DEF AccInv

\* Every step keeps the invariant.
LEMMA AccSteps ==
  AccInv /\ [AccNext]_accVars => AccInv'
  <1> SUFFICES ASSUME AccInv, [AccNext]_accVars PROVE AccInv'
    OBVIOUS
  <1>1. CASE UNCHANGED accVars
    BY <1>1 DEF accVars, AccInv, AccTyped, OneAccount, Verified, Has, ReqKept, SessKept, BanSeen, Covers
  <1>2. ASSUME NEW r \in AuthReqs,
               \/ Register(r) \/ Login(r) \/ OpenSession(r) \/ OpenFails(r) \/ Recheck(r)
               \/ BeginProviderLogin(r) \/ Consume(r) \/ ResolveBound(r)
               \/ ResolveUnbound(r) \/ MatchEmail(r) \/ Provision(r) \/ BindIdentity(r)
               \/ Logout(r) \/ Ban(r) \/ Unban(r) \/ ChangePassword(r)
               \/ RevokeLists(r) \/ RevokeDrops(r)
        PROVE  AccInv'
    BY <1>2, RegisterKeeps, LoginKeeps, OpenKeeps, RecheckKeeps, BeginKeeps, MatchKeeps, BindKeeps,
       EndsKeep, BanKeeps, UnbanKeeps, ChangeKeeps, ListsKeep
  <1>3. CASE Expires
    BY <1>3, EndsKeep
  <1> QED BY <1>1, <1>2, <1>3 DEF AccNext

\* A ban and a login may overtake each other at any of their round trips, for any
\* number of requests, accounts and sessions: a session whose login read the row
\* again and found it unbanned does not outlive a ban that has returned, unless
\* the administrator was told that the revocation failed.
THEOREM BannedAlwaysOut == AccSpec => []BannedOut
  <1>1. AccInv => BannedOut
    BY DEF AccInv, BanSeen, BannedOut, Covers, Revoking
  <1> QED BY <1>1, AccStarts, AccSteps, PTL DEF AccSpec

\* Callbacks of one subject may race for the state, the address and the binding,
\* among themselves and with registrations of any address: whatever the
\* provisioning policy, while the provider has asserted one address of the
\* subject every external session belongs to the account the subject is bound to.
THEOREM SubjectAlwaysOneAccount == AccSpec => []SubjectOneAccount
  <1>1. ASSUME AccInv, \A e, f \in asserted : e = f, NEW s \in DOMAIN session,
               session[s].via = "external"
        PROVE  session[s].u = bound
    <2>1. /\ bound # "none" /\ Verified(session[s].u) /\ session[s].u \in AccountIds
      BY <1>1 DEF AccInv, SessKept, SessRec
    <2>2. Verified(bound) /\ bound \in AccountIds
      BY <1>1, <2>1 DEF AccInv, OneAccount, AccTyped
    <2> QED BY <1>1, <2>1, <2>2 DEF AccInv, OneAccount, Verified
  <1>2. AccInv => SubjectOneAccount
    BY <1>1 DEF SubjectOneAccount
  <1> QED BY <1>2, AccStarts, AccSteps, PTL DEF AccSpec

-----------------------------------------------------------------------------
(* Authoring: the inductive invariant *)

Keys == ChallengeIds \X AttachmentIds \X FileNames
AttRow == [is : {"row"}, c : ChallengeIds, f : FileNames, key : Keys]
DeskReq == {AtDesk} \cup [op : {"create"}, row : Worth, files : BOOLEAN]
           \cup [op : {"update"}, c : ChallengeIds, p : Patches]
           \cup [op : {"upload"}, c : ChallengeIds]
UploadReq == [op : {"record", "rollback"}, c : ChallengeIds, a : AttachmentIds, f : FileNames, key : Keys]
RemoveReq == [op : {"deleteObject", "deleteRow"}, a : AttachmentIds, key : Keys]

FilesTyped == /\ attachments \in [AttachmentIds -> AttRow \cup {NoAttachment}]
              /\ wreq \in [AuthorReqs -> DeskReq \cup UploadReq \cup RemoveReq]
              /\ doomed \subseteq usedIds

\* The key of an attachment carries its id, and ids are generated once.
OwnKey(a) == Recorded(a) => attachments[a].key[2] = a /\ a \in usedIds

Uploads(q) == q.op \in {"record", "rollback"}
Removes(q) == q.op \in {"deleteObject", "deleteRow"}

\* What a request holds on to between its statements: until its row is written
\* nobody else knows of the object it put; the object it is about to remove is
\* nobody's, or that of an attachment set out to be deleted.
FileKept(q) == /\ Uploads(q) \/ Removes(q) => q.key[2] = q.a /\ q.a \in usedIds
               /\ q.op = "record" => /\ ~Recorded(q.a) /\ q.a \notin doomed
                                     /\ [key |-> q.key, of |-> q.a] \in objects
               /\ q.op = "rollback" => (Recorded(q.a) => q.a \in doomed)
               /\ Removes(q) => q.a \in doomed

\* No two uploads share an id.
UploadsApart == \A r, x \in AuthorReqs :
    r # x /\ Uploads(wreq[r]) /\ Uploads(wreq[x]) => wreq[r].a # wreq[x].a

FilesInv == /\ FilesTyped /\ UploadsApart /\ AttachmentServed
            /\ \A a \in AttachmentIds : OwnKey(a)
            /\ \A r \in AuthorReqs : FileKept(wreq[r])

-----------------------------------------------------------------------------
(* Authoring: the steps *)

\* Requests are told apart by their op.
LEMMA FileReqShape ==
  ASSUME NEW q \in DeskReq \cup UploadReq \cup RemoveReq
  PROVE  /\ Uploads(q) => q \in UploadReq
         /\ Removes(q) => q \in RemoveReq
         /\ q.op = "upload" => q.c \in ChallengeIds
         /\ q.op = "create" => q.row \in Worth /\ q.files \in BOOLEAN
         /\ q \in DeskReq => ~Uploads(q) /\ ~Removes(q)
  BY DEF DeskReq, UploadReq, RemoveReq, AtDesk, Uploads, Removes

\* A request that holds no file.
LEMMA DeskFree ==
  ASSUME NEW q \in DeskReq
  PROVE  FileKept(q) /\ ~Uploads(q) /\ ~Removes(q)
  BY FileReqShape DEF FileKept, Uploads, Removes

\* A request goes on without holding a file, and no file changes.
LEMMA DeskMoves ==
  ASSUME FilesInv, NEW r \in AuthorReqs, NEW q \in DeskReq, wreq' = [wreq EXCEPT ![r] = q], FilesKept
  PROVE  FilesInv'
  <1>0. FilesTyped /\ UNCHANGED <<attachments, objects, usedIds, doomed>>
    BY DEF FilesInv, FilesKept
  <1>1. \A x \in AuthorReqs : wreq'[x] = IF x = r THEN q ELSE wreq[x]
    BY <1>0 DEF FilesTyped
  <1>2. FilesTyped'
    BY <1>0 DEF FilesTyped
  <1>3. UploadsApart'
    BY <1>1, DeskFree DEF FilesInv, UploadsApart, Uploads
  <1>4. AttachmentServed'
    BY <1>0 DEF FilesInv, AttachmentServed, Recorded, OpenAttachment
  <1>5. \A a \in AttachmentIds : OwnKey(a)'
    BY <1>0 DEF FilesInv, OwnKey, Recorded
  <1>6. ASSUME NEW x \in AuthorReqs PROVE FileKept(wreq[x])'
    <2>1. FileKept(wreq'[x])
      BY <1>1, DeskFree DEF FilesInv
    <2> QED BY <1>0, <2>1 DEF FileKept, Uploads, Removes, Recorded
  <1> QED BY <1>2, <1>3, <1>4, <1>5, <1>6 DEF FilesInv

\* What the challenges' own requests become.
LEMMA ChallengeSteps ==
  ASSUME FilesInv, NEW r \in AuthorReqs,
         \/ CreateValidates(r) \/ CliCreate(r) \/ Seed(r) \/ CreateChallenge(r)
         \/ UpdateReads(r) \/ UpdateChallenge(r) \/ UploadAttachment(r)
  PROVE  FilesInv'
  <1>0. FilesKept
    BY DEF CreateValidates, CliCreate, Seed, CreateChallenge, UpdateReads, UpdateChallenge, UploadAttachment
  <1>d. AtDesk \in DeskReq
    BY DEF DeskReq
  <1>1. ASSUME NEW w \in Worth, NEW b \in BOOLEAN, Next1(r, Creating(w, b)) PROVE FilesInv'
    <2>1. Creating(w, b) \in DeskReq
      BY DEF Creating, DeskReq
    <2> QED BY <1>0, <1>1, <2>1, DeskMoves DEF Next1
  <1>2. ASSUME Done(r) PROVE FilesInv'
    BY <1>0, <1>d, <1>2, DeskMoves DEF Done, Next1
  <1>3. ASSUME NEW c \in ChallengeIds, Next1(r, uploadFiles(c)) PROVE FilesInv'
    <2>1. uploadFiles(c) \in DeskReq
      BY DEF uploadFiles, DeskReq
    <2> QED BY <1>0, <1>3, <2>1, DeskMoves DEF Next1
  <1>4. ASSUME NEW c \in ChallengeIds, NEW p \in Patches, Next1(r, [op |-> "update", c |-> c, p |-> p])
        PROVE  FilesInv'
    <2>1. [op |-> "update", c |-> c, p |-> p] \in DeskReq
      BY DEF DeskReq
    <2> QED BY <1>0, <1>4, <2>1, DeskMoves DEF Next1
  <1>5. CASE CreateValidates(r)
    BY <1>1, <1>5 DEF CreateValidates
  <1>6. CASE CliCreate(r) \/ Seed(r)
    BY <1>1, <1>6 DEF CliCreate, Seed, specToCreate
  <1>7. CASE CreateChallenge(r)
    BY <1>2, <1>3, <1>7 DEF CreateChallenge, Refused
  <1>8. CASE UpdateReads(r)
    BY <1>4, <1>8 DEF UpdateReads
  <1>9. CASE UpdateChallenge(r)
    BY <1>2, <1>9 DEF UpdateChallenge, Refused
  <1>10. CASE UploadAttachment(r)
    BY <1>3, <1>10 DEF UploadAttachment
  <1> QED BY <1>5, <1>6, <1>7, <1>8, <1>9, <1>10

\* PutObject: a new id, so a key that nobody holds.
LEMMA PutKeeps ==
  ASSUME FilesInv, NEW r \in AuthorReqs, PutObject(r) PROVE FilesInv'
  <1>0. /\ FilesTyped /\ wreq[r] \in DeskReq \cup UploadReq \cup RemoveReq /\ wreq[r].op = "upload"
        /\ UNCHANGED <<attachments, doomed>>
    BY DEF FilesInv, FilesTyped, PutObject, Busy
  <1>d. AtDesk \in DeskReq
    BY DEF DeskReq
  <1>1. ASSUME Done(r), UNCHANGED <<objects, usedIds>> PROVE FilesInv'
    BY <1>0, <1>1, <1>d, DeskMoves DEF Done, Next1, FilesKept
  <1>2. ASSUME NEW a \in AttachmentIds \ usedIds, NEW f \in FileNames, NEW k, k = <<wreq[r].c, a, f>>,
               usedIds' = usedIds \cup {a}, Put(k, a),
               Next1(r, [op |-> "record", c |-> wreq[r].c, a |-> a, f |-> f, key |-> k])
        PROVE  FilesInv'
    <2> DEFINE q == [op |-> "record", c |-> wreq[r].c, a |-> a, f |-> f, key |-> k]
    <2>1. wreq[r].c \in ChallengeIds /\ k \in Keys /\ k[2] = a
      BY <1>0, <1>2, FileReqShape DEF Keys
    <2>2. q \in UploadReq /\ q.op = "record" /\ q.a = a /\ q.key = k
      BY <2>1 DEF UploadReq
    <2>3. wreq' = [wreq EXCEPT ![r] = q]
      BY <1>2 DEF Next1
    <2> HIDE DEF q
    <2>4. \A x \in AuthorReqs : wreq'[x] = IF x = r THEN q ELSE wreq[x]
      BY <1>0, <2>3 DEF FilesTyped
    <2>5. /\ \A o \in objects : o.key[2] # a => o \in objects'
          /\ [key |-> k, of |-> a] \in objects'
      BY <1>2, <2>1 DEF Put, Without1
    <2>6. FilesTyped'
      BY <1>0, <1>2, <2>2, <2>3 DEF FilesTyped
    <2>7. \A x \in AuthorReqs : Uploads(wreq[x]) => wreq[x].a # a
      BY <1>2 DEF FilesInv, FileKept
    <2>8. UploadsApart'
      <3> SUFFICES ASSUME NEW x \in AuthorReqs, NEW y \in AuthorReqs, x # y,
                          Uploads(wreq'[x]), Uploads(wreq'[y])
                   PROVE  wreq'[x].a # wreq'[y].a
        BY DEF UploadsApart, Uploads
      <3>1. CASE x = r
        BY <2>2, <2>4, <2>7, <3>1 DEF Uploads
      <3>2. CASE y = r
        BY <2>2, <2>4, <2>7, <3>2 DEF Uploads
      <3>3. CASE x # r /\ y # r
        BY <2>4, <3>3 DEF FilesInv, UploadsApart
      <3> QED BY <3>1, <3>2, <3>3
    <2>9. ASSUME NEW b \in AttachmentIds, Recorded(b), b \notin doomed
          PROVE  [key |-> attachments[b].key, of |-> b] \in objects'
      <3>1. attachments[b].key[2] # a
        BY <1>2, <2>9 DEF FilesInv, OwnKey
      <3>2. [key |-> attachments[b].key, of |-> b] \in objects
        BY <2>9 DEF FilesInv, AttachmentServed, OpenAttachment
      <3> QED BY <2>5, <3>1, <3>2
    <2>10. AttachmentServed'
      BY <1>0, <2>9 DEF AttachmentServed, Recorded, OpenAttachment
    <2>11. \A b \in AttachmentIds : OwnKey(b)'
      BY <1>0, <1>2 DEF FilesInv, OwnKey, Recorded
    <2>12. ~Recorded(a) /\ a \notin doomed
      BY <1>0, <1>2 DEF FilesInv, FilesTyped, OwnKey
    <2>13. ASSUME NEW x \in AuthorReqs PROVE FileKept(wreq[x])'
      <3>1. CASE x = r
        BY <1>0, <1>2, <2>1, <2>2, <2>4, <2>5, <2>12, <3>1 DEF FileKept, Uploads, Removes, Recorded
      <3>2. CASE x # r
        <4>1. wreq'[x] = wreq[x] /\ FileKept(wreq[x])
          BY <2>4, <3>2 DEF FilesInv
        <4>2. wreq[x].op = "record" => [key |-> wreq[x].key, of |-> wreq[x].a] \in objects'
          BY <1>2, <2>5, <4>1 DEF FileKept, Uploads
        <4> QED BY <1>0, <1>2, <4>1, <4>2 DEF FileKept, Uploads, Removes, Recorded
      <3> QED BY <3>1, <3>2
    <2> QED BY <2>6, <2>8, <2>10, <2>11, <2>13 DEF FilesInv
  <1> QED BY <1>1, <1>2 DEF PutObject, ObjectKey

\* RollBack, DeleteObject: the object that goes is that of nobody, or of an
\* attachment set out to be deleted.
LEMMA ObjectGoes ==
  ASSUME FilesInv, NEW r \in AuthorReqs, wreq[r].op \in {"rollback", "deleteObject"},
         NEW q \in DeskReq \cup RemoveReq, FileKept(q), wreq' = [wreq EXCEPT ![r] = q],
         objects' = Without1(wreq[r].key) \/ UNCHANGED objects,
         UNCHANGED <<attachments, usedIds, doomed>>
  PROVE  FilesInv'
  <1>0. FilesTyped /\ FileKept(wreq[r])
    BY DEF FilesInv
  <1>1. \A x \in AuthorReqs : wreq'[x] = IF x = r THEN q ELSE wreq[x]
    BY <1>0 DEF FilesTyped
  <1>2. wreq[r].key[2] = wreq[r].a
    BY <1>0 DEF FileKept, Uploads, Removes
  <1>3. \A o \in objects : o.key[2] # wreq[r].a => o \in objects'
    BY <1>2 DEF Without1
  <1>4. ~Uploads(q) /\ q.op # "record"
    BY DEF DeskReq, RemoveReq, AtDesk, Uploads
  <1>5. FilesTyped'
    BY <1>0 DEF FilesTyped
  <1>6. UploadsApart'
    BY <1>1, <1>4 DEF FilesInv, UploadsApart, Uploads
  <1>7. ASSUME NEW b \in AttachmentIds, Recorded(b), b \notin doomed
        PROVE  [key |-> attachments[b].key, of |-> b] \in objects'
    <2>1. b # wreq[r].a
      BY <1>0, <1>7 DEF FileKept, Removes
    <2>2. attachments[b].key[2] = b /\ [key |-> attachments[b].key, of |-> b] \in objects
      BY <1>7 DEF FilesInv, OwnKey, AttachmentServed, OpenAttachment
    <2> QED BY <1>3, <2>1, <2>2
  <1>8. AttachmentServed'
    BY <1>7 DEF AttachmentServed, Recorded, OpenAttachment
  <1>9. \A b \in AttachmentIds : OwnKey(b)'
    BY DEF FilesInv, OwnKey, Recorded
  <1>10. ASSUME NEW x \in AuthorReqs PROVE FileKept(wreq[x])'
    <2>1. CASE x = r
      BY <1>1, <1>4, <2>1 DEF FileKept, Uploads, Removes, Recorded
    <2>2. CASE x # r
      <3>1. wreq'[x] = wreq[x] /\ FileKept(wreq[x])
        BY <1>1, <2>2 DEF FilesInv
      <3>2. wreq[x].op = "record" => wreq[x].a # wreq[r].a
        BY <1>0, <2>2, <3>1 DEF FilesInv, UploadsApart, FileKept, Uploads, Removes
      <3>3. wreq[x].op = "record" => [key |-> wreq[x].key, of |-> wreq[x].a] \in objects'
        BY <1>3, <3>1, <3>2 DEF FileKept, Uploads
      <3> QED BY <3>1, <3>3 DEF FileKept, Uploads, Removes, Recorded
    <2> QED BY <2>1, <2>2
  <1> QED BY <1>5, <1>6, <1>8, <1>9, <1>10 DEF FilesInv

\* The steps that remove an object.
LEMMA RemovalKeeps ==
  ASSUME FilesInv, NEW r \in AuthorReqs, RollBack(r) \/ DeleteObject(r) PROVE FilesInv'
  <1>0. /\ FilesTyped /\ FileKept(wreq[r]) /\ wreq[r] \in DeskReq \cup UploadReq \cup RemoveReq
        /\ UNCHANGED <<attachments, usedIds, doomed>>
        /\ wreq[r].op \in {"rollback", "deleteObject"}
    BY DEF FilesInv, FilesTyped, RollBack, DeleteObject, Busy
  <1>1. AtDesk \in DeskReq \cup RemoveReq /\ FileKept(AtDesk)
    BY DeskFree DEF DeskReq
  <1>2. ASSUME Done(r), objects' = Without1(wreq[r].key) \/ UNCHANGED objects PROVE FilesInv'
    BY <1>0, <1>1, <1>2, ObjectGoes DEF Done, Next1
  <1>3. ASSUME wreq[r].op = "deleteObject", Next1(r, [wreq[r] EXCEPT !.op = "deleteRow"]),
               objects' = Without1(wreq[r].key)
        PROVE  FilesInv'
    <2> DEFINE q == [wreq[r] EXCEPT !.op = "deleteRow"]
    <2>1. wreq[r] \in RemoveReq
      BY <1>0, <1>3, FileReqShape DEF Removes
    <2>2. q \in RemoveReq /\ q.op = "deleteRow" /\ q.a = wreq[r].a /\ q.key = wreq[r].key
      BY <2>1 DEF RemoveReq
    <2>3. wreq' = [wreq EXCEPT ![r] = q]
      BY <1>3 DEF Next1
    <2> HIDE DEF q
    <2>4. FileKept(q)
      BY <1>0, <1>3, <2>2 DEF FileKept, Uploads, Removes
    <2> QED BY <1>0, <1>3, <2>2, <2>3, <2>4, ObjectGoes
  <1>4. CASE RollBack(r)
    BY <1>2, <1>4 DEF RollBack
  <1>5. CASE DeleteObject(r)
    BY <1>2, <1>3, <1>5 DEF DeleteObject, Busy
  <1> QED BY <1>4, <1>5

\* DeleteReads: from now on the attachment is doomed.
LEMMA DeleteReadsKeeps ==
  ASSUME FilesInv, NEW r \in AuthorReqs, DeleteReads(r) PROVE FilesInv'
  <1>0. /\ FilesTyped /\ UNCHANGED <<attachments, objects, usedIds>>
    BY DEF FilesInv, DeleteReads
  <1>1. PICK a \in AttachmentIds : /\ Recorded(a) /\ doomed' = doomed \cup {a}
            /\ wreq' = [wreq EXCEPT ![r] = [op |-> "deleteObject", a |-> a, key |-> attachments[a].key]]
    BY DEF DeleteReads, Next1
  <1> DEFINE q == [op |-> "deleteObject", a |-> a, key |-> attachments[a].key]
  <1>2. /\ attachments[a] \in AttRow /\ attachments[a].key \in Keys
        /\ attachments[a].key[2] = a /\ a \in usedIds
    BY <1>0, <1>1 DEF FilesInv, FilesTyped, OwnKey, Recorded, NoAttachment, AttRow
  <1>3. q \in RemoveReq /\ q.op = "deleteObject" /\ q.a = a /\ q.key = attachments[a].key
    BY <1>2 DEF RemoveReq
  <1>4. wreq' = [wreq EXCEPT ![r] = q]
    BY <1>1
  <1> HIDE DEF q
  <1>5. \A x \in AuthorReqs : wreq'[x] = IF x = r THEN q ELSE wreq[x]
    BY <1>0, <1>4 DEF FilesTyped
  <1>6. FilesTyped'
    BY <1>0, <1>1, <1>2, <1>3, <1>4 DEF FilesTyped
  <1>7. UploadsApart'
    BY <1>3, <1>5 DEF FilesInv, UploadsApart, Uploads
  <1>8. AttachmentServed'
    BY <1>0, <1>1 DEF FilesInv, AttachmentServed, Recorded, OpenAttachment
  <1>9. \A b \in AttachmentIds : OwnKey(b)'
    BY <1>0 DEF FilesInv, OwnKey, Recorded
  <1>10. ASSUME NEW x \in AuthorReqs PROVE FileKept(wreq[x])'
    <2>1. CASE x = r
      BY <1>0, <1>1, <1>2, <1>3, <1>5, <2>1 DEF FileKept, Uploads, Removes
    <2>2. CASE x # r
      <3>1. wreq'[x] = wreq[x] /\ FileKept(wreq[x])
        BY <1>5, <2>2 DEF FilesInv
      <3>2. wreq[x].op = "record" => wreq[x].a # a
        BY <1>1, <3>1 DEF FileKept
      <3> QED BY <1>0, <1>1, <3>1, <3>2 DEF FileKept, Uploads, Removes, Recorded
    <2> QED BY <2>1, <2>2
  <1> QED BY <1>6, <1>7, <1>8, <1>9, <1>10 DEF FilesInv

\* DeleteAttachment, DeleteChallenge: rows go, nobody relies on them.
LEMMA RowsGo ==
  ASSUME FilesInv, NEW gone, attachments' = [a \in AttachmentIds |-> IF a \in gone THEN NoAttachment ELSE attachments[a]],
         NEW r \in AuthorReqs, NEW q, wreq' = [wreq EXCEPT ![r] = q], q = wreq[r] \/ q = AtDesk,
         UNCHANGED <<objects, usedIds, doomed>>
  PROVE  FilesInv'
  <1>0. FilesTyped
    BY DEF FilesInv
  <1>1. /\ \A x \in AuthorReqs : wreq'[x] = wreq[x] \/ wreq'[x] = AtDesk
        /\ wreq' \in [AuthorReqs -> DeskReq \cup UploadReq \cup RemoveReq]
    BY <1>0 DEF FilesTyped, DeskReq
  <1>2. \A a \in AttachmentIds : Recorded(a)' => Recorded(a) /\ attachments'[a] = attachments[a]
    BY DEF Recorded, NoAttachment
  <1>d. ~Uploads(AtDesk) /\ ~Removes(AtDesk) /\ AtDesk.op = "atDesk"
    BY DEF AtDesk, Uploads, Removes
  <1>3. FilesTyped'
    BY <1>0, <1>1 DEF FilesTyped
  <1>4. UploadsApart'
    BY <1>1, <1>d DEF FilesInv, UploadsApart, Uploads
  <1>5. AttachmentServed'
    BY <1>2 DEF FilesInv, AttachmentServed, OpenAttachment
  <1>6. \A a \in AttachmentIds : OwnKey(a)'
    BY <1>2 DEF FilesInv, OwnKey
  <1>7. ASSUME NEW x \in AuthorReqs PROVE FileKept(wreq[x])'
    <2>1. CASE wreq'[x] = AtDesk
      BY <1>d, <2>1 DEF FileKept, Uploads, Removes
    <2>2. CASE wreq'[x] = wreq[x]
      <3>1. FileKept(wreq[x]) /\ wreq[x] \in DeskReq \cup UploadReq \cup RemoveReq
        BY <1>0 DEF FilesInv, FilesTyped
      <3>2. Uploads(wreq[x]) => wreq[x].a \in AttachmentIds
        BY <3>1, FileReqShape DEF UploadReq
      <3> QED BY <1>2, <2>2, <3>1, <3>2 DEF FileKept, Uploads, Removes
    <2> QED BY <1>1, <2>1, <2>2
  <1> QED BY <1>3, <1>4, <1>5, <1>6, <1>7 DEF FilesInv

\* The rows of one attachment, or of all of a challenge.
LEMMA RowsGoKeeps ==
  ASSUME FilesInv, NEW r \in AuthorReqs, DeleteAttachment(r) \/ DeleteChallenge(r) PROVE FilesInv'
  <1>0. FilesTyped /\ UNCHANGED <<objects, usedIds, doomed>>
    BY DEF FilesInv, DeleteAttachment, DeleteChallenge
  <1>1. CASE DeleteAttachment(r)
    <2>1. wreq' = [wreq EXCEPT ![r] = AtDesk]
      BY <1>1 DEF DeleteAttachment, Done, Next1
    <2> DEFINE gone == IF attachments' = attachments THEN {} ELSE {wreq[r].a}
    <2>2. attachments' = [a \in AttachmentIds |-> IF a \in gone THEN NoAttachment ELSE attachments[a]]
      BY <1>0, <1>1 DEF DeleteAttachment, FilesTyped
    <2> HIDE DEF gone
    <2> QED BY <1>0, <2>1, <2>2, RowsGo
  <1>2. CASE DeleteChallenge(r)
    <2>1. PICK c \in ChallengeIds : attachments' = [a \in AttachmentIds |->
              IF Recorded(a) /\ attachments[a].c = c THEN NoAttachment ELSE attachments[a]]
      BY <1>2 DEF DeleteChallenge
    <2> DEFINE gone == {a \in AttachmentIds : Recorded(a) /\ attachments[a].c = c}
    <2>2. attachments' = [a \in AttachmentIds |-> IF a \in gone THEN NoAttachment ELSE attachments[a]]
      BY <2>1
    <2>3. wreq' = [wreq EXCEPT ![r] = wreq[r]]
      BY <1>0, <1>2 DEF DeleteChallenge, FilesTyped
    <2> HIDE DEF gone
    <2> QED BY <1>0, <2>2, <2>3, RowsGo
  <1> QED BY <1>1, <1>2

\* CreateAttachment: the row names the object its request put; a request that was
\* told otherwise is about to remove it, and the attachment is doomed.
LEMMA RecordKeeps ==
  ASSUME FilesInv, NEW r \in AuthorReqs, CreateAttachment(r) PROVE FilesInv'
  <1>p. PICK q : q = wreq[r]
    OBVIOUS
  <1> DEFINE b == [q EXCEPT !.op = "rollback"]
             n == [is |-> "row", c |-> q.c, f |-> q.f, key |-> q.key]
  <1>0. /\ FilesTyped /\ FileKept(wreq[r]) /\ wreq[r] \in DeskReq \cup UploadReq \cup RemoveReq
        /\ wreq[r].op = "record" /\ UNCHANGED <<objects, usedIds>>
    BY DEF FilesInv, FilesTyped, CreateAttachment, Busy
  <1>1. q \in UploadReq
    BY <1>0, <1>p, FileReqShape DEF Uploads
  <1>2. /\ q.a \in AttachmentIds /\ q.key[2] = q.a /\ q.a \in usedIds /\ ~Recorded(q.a)
        /\ q.a \notin doomed /\ [key |-> q.key, of |-> q.a] \in objects
    BY <1>0, <1>1, <1>p DEF FileKept, UploadReq, Uploads
  <1>3. b \in UploadReq /\ b.op = "rollback" /\ b.a = q.a /\ b.key = q.key
    BY <1>1 DEF UploadReq
  <1>4. n \in AttRow /\ n.is = "row" /\ n.key = q.key
    BY <1>1 DEF UploadReq, AttRow
  <1>d. ~Uploads(AtDesk) /\ ~Removes(AtDesk) /\ AtDesk.op = "atDesk" /\ AtDesk \in DeskReq
    BY DEF AtDesk, Uploads, Removes, DeskReq
  <1>5. \/ /\ attachments' = [attachments EXCEPT ![q.a] = n]
           /\ wreq' = [wreq EXCEPT ![r] = AtDesk] /\ doomed' = doomed
        \/ /\ attachments' = [attachments EXCEPT ![q.a] = n]
           /\ wreq' = [wreq EXCEPT ![r] = b] /\ doomed' = doomed \cup {q.a}
        \/ attachments' = attachments /\ wreq' = [wreq EXCEPT ![r] = b] /\ doomed' = doomed
    BY <1>p DEF CreateAttachment, Done, Next1
  <1> HIDE DEF b, n
  <1>6. PICK m \in {b, AtDesk} :
           /\ wreq' = [wreq EXCEPT ![r] = m]
           /\ \/ attachments' = attachments /\ doomed' = doomed /\ m = b
              \/ /\ attachments' = [attachments EXCEPT ![q.a] = n]
                 /\ m = b => doomed' = doomed \cup {q.a}
                 /\ m = AtDesk => doomed' = doomed
    BY <1>5, <1>3, <1>d
  <1>7. /\ doomed \subseteq doomed' /\ doomed' \subseteq doomed \cup {q.a}
        /\ \A a \in AttachmentIds : a # q.a => attachments'[a] = attachments[a]
        /\ m = b => (Recorded(q.a)' => q.a \in doomed')
        /\ attachments'[q.a] \in {n, NoAttachment}
        /\ attachments' \in [AttachmentIds -> AttRow \cup {NoAttachment}]
    <2>1. attachments[q.a] = NoAttachment
      BY <1>0, <1>2 DEF FilesTyped, Recorded, AttRow
    <2>2. m = b => (Recorded(q.a)' => q.a \in doomed')
      BY <1>2, <1>3, <1>6, <1>d DEF Recorded
    <2>3. doomed \subseteq doomed' /\ doomed' \subseteq doomed \cup {q.a}
      BY <1>6
    <2> QED BY <1>0, <1>2, <1>4, <1>6, <2>1, <2>2, <2>3 DEF FilesTyped
  <1>8. \A x \in AuthorReqs : wreq'[x] = IF x = r THEN m ELSE wreq[x]
    BY <1>0, <1>6 DEF FilesTyped
  <1>9. FilesTyped'
    BY <1>0, <1>2, <1>3, <1>6, <1>7, <1>d DEF FilesTyped
  <1>q. q = wreq[r] /\ Uploads(wreq[r]) /\ (Uploads(m) => m.a = q.a)
    BY <1>0, <1>3, <1>d, <1>p DEF Uploads
  <1>10. UploadsApart'
    <2> SUFFICES ASSUME NEW x \in AuthorReqs, NEW y \in AuthorReqs, x # y,
                        Uploads(wreq'[x]), Uploads(wreq'[y])
                 PROVE  wreq'[x].a # wreq'[y].a
      BY DEF UploadsApart, Uploads
    <2>1. \A z \in AuthorReqs : Uploads(wreq'[z]) => Uploads(wreq[z]) /\ wreq'[z].a = wreq[z].a
      BY <1>8, <1>q
    <2> QED BY <2>1 DEF FilesInv, UploadsApart
  <1>11. AttachmentServed'
    <2> SUFFICES ASSUME NEW a \in AttachmentIds, Recorded(a)', a \notin doomed' PROVE OpenAttachment(a)'
      BY DEF AttachmentServed
    <2>1. CASE a = q.a
      <3>1. attachments'[a].key = q.key
        BY <1>4, <1>7, <2>1 DEF Recorded, NoAttachment
      <3> QED BY <1>0, <1>2, <2>1, <3>1 DEF OpenAttachment
    <2>2. CASE a # q.a
      BY <1>0, <1>7, <2>2 DEF FilesInv, AttachmentServed, Recorded, OpenAttachment
    <2> QED BY <2>1, <2>2
  <1>12. ASSUME NEW a \in AttachmentIds PROVE OwnKey(a)'
    <2>1. CASE a = q.a
      BY <1>0, <1>2, <1>4, <1>7, <2>1 DEF OwnKey, Recorded, NoAttachment
    <2>2. CASE a # q.a
      BY <1>0, <1>7, <2>2 DEF FilesInv, OwnKey, Recorded
    <2> QED BY <2>1, <2>2
  <1>13. ASSUME NEW x \in AuthorReqs PROVE FileKept(wreq[x])'
    <2>1. CASE x = r
      <3>1. CASE m = AtDesk
        BY <1>8, <1>d, <2>1, <3>1 DEF FileKept, Uploads, Removes
      <3>2. CASE m = b
        BY <1>0, <1>2, <1>3, <1>7, <1>8, <2>1, <3>2 DEF FileKept, Uploads, Removes, Recorded
      <3> QED BY <1>6, <3>1, <3>2
    <2>2. CASE x # r
      <3>1. wreq'[x] = wreq[x] /\ FileKept(wreq[x]) /\ wreq[x] \in DeskReq \cup UploadReq \cup RemoveReq
        BY <1>0, <1>8, <2>2 DEF FilesInv, FilesTyped
      <3>2. Uploads(wreq[x]) => wreq[x].a # q.a /\ wreq[x].a \in AttachmentIds
        BY <1>q, <2>2, <3>1, FileReqShape DEF FilesInv, UploadsApart, UploadReq
      <3>3. Uploads(wreq[x]) => /\ attachments'[wreq[x].a] = attachments[wreq[x].a]
                                /\ (wreq[x].a \in doomed' <=> wreq[x].a \in doomed)
        BY <1>7, <3>2
      <3>4. Removes(wreq[x]) => wreq[x].a \in doomed'
        BY <1>7, <3>1 DEF FileKept
      <3> QED BY <1>0, <3>1, <3>3, <3>4 DEF FileKept, Uploads, Removes, Recorded
    <2> QED BY <2>1, <2>2
  <1> QED BY <1>9, <1>10, <1>11, <1>12, <1>13 DEF FilesInv

-----------------------------------------------------------------------------
(* Authoring: the theorem *)

\* At first there is no file.
LEMMA FilesStart ==
  AuthorInit => FilesInv
  <1> SUFFICES ASSUME AuthorInit PROVE FilesInv
    OBVIOUS
  <1>1. AtDesk \in DeskReq
    BY DEF DeskReq
  <1>2. \A a \in AttachmentIds : ~Recorded(a)
    BY DEF AuthorInit, Recorded, NoAttachment
  <1>3. \A r \in AuthorReqs : FileKept(wreq[r]) /\ ~Uploads(wreq[r])
    BY <1>1, DeskFree DEF AuthorInit
  <1>4. FilesTyped
    BY <1>1 DEF AuthorInit, FilesTyped
  <1> QED BY <1>2, <1>3, <1>4 DEF FilesInv, UploadsApart, AttachmentServed, OwnKey

\* Every step keeps the invariant.
LEMMA FilesSteps ==
  FilesInv /\ [AuthorNext]_authorVars => FilesInv'
  <1> SUFFICES ASSUME FilesInv, [AuthorNext]_authorVars PROVE FilesInv'
    OBVIOUS
  <1>1. CASE UNCHANGED authorVars
    BY <1>1 DEF authorVars, FilesInv, FilesTyped, UploadsApart, AttachmentServed, OwnKey, FileKept,
                Uploads, Removes, Recorded, OpenAttachment
  <1>2. CASE PlatformRestarts
    <2>0. UNCHANGED <<attachments, objects, usedIds, doomed>>
      BY <1>2 DEF PlatformRestarts, FilesKept
    <2>1. AtDesk \in DeskReq /\ AtDesk.op = "atDesk" /\ ~Uploads(AtDesk) /\ ~Removes(AtDesk)
      BY DEF DeskReq, AtDesk, Uploads, Removes
    <2>2. wreq' \in [AuthorReqs -> DeskReq] /\ \A r \in AuthorReqs : wreq'[r] = AtDesk
      BY <1>2, <2>1 DEF PlatformRestarts
    <2>3. FilesTyped'
      BY <2>0, <2>2 DEF FilesInv, FilesTyped
    <2>4. UploadsApart'
      BY <2>1, <2>2 DEF UploadsApart, Uploads
    <2>5. AttachmentServed'
      BY <2>0 DEF FilesInv, AttachmentServed, Recorded, OpenAttachment
    <2>6. \A a \in AttachmentIds : OwnKey(a)'
      BY <2>0 DEF FilesInv, OwnKey, Recorded
    <2>7. \A r \in AuthorReqs : FileKept(wreq[r])'
      BY <2>1, <2>2 DEF FileKept, Uploads, Removes
    <2> QED BY <2>3, <2>4, <2>5, <2>6, <2>7 DEF FilesInv
  <1>3. ASSUME NEW r \in AuthorReqs,
               \/ CreateValidates(r) \/ CliCreate(r) \/ Seed(r) \/ CreateChallenge(r)
               \/ UpdateReads(r) \/ UpdateChallenge(r) \/ DeleteChallenge(r)
               \/ UploadAttachment(r) \/ PutObject(r) \/ CreateAttachment(r) \/ RollBack(r)
               \/ DeleteReads(r) \/ DeleteObject(r) \/ DeleteAttachment(r)
        PROVE  FilesInv'
    BY <1>3, ChallengeSteps, PutKeeps, RecordKeeps, RemovalKeeps, DeleteReadsKeeps, RowsGoKeeps
  <1> QED BY <1>1, <1>2, <1>3 DEF AuthorNext

\* Uploads of one name may race, a loser roll back, a challenge go, the platform
\* restart between any two statements: a listed attachment that nobody set out to
\* delete is served from the object that was uploaded for it.
THEOREM AttachmentAlwaysServed == AuthorSpec => []AttachmentServed
  <1>1. FilesInv => AttachmentServed
    BY DEF FilesInv
  <1> QED BY <1>1, FilesStart, FilesSteps, PTL DEF AuthorSpec

-----------------------------------------------------------------------------
(* Authoring: the worth of a challenge *)

\* Rounding is monotone.
LEMMA RoundMono ==
  ASSUME NEW x \in Int, NEW y \in Int, NEW d \in Int, d > 0, x <= y
  PROVE  Round(x, d) \in Int /\ Round(x, d) <= Round(y, d)
  <1> DEFINE p == 2 * x + d
             q == 2 * y + d
             e == 2 * d
  <1>1. p \in Int /\ q \in Int /\ e \in Int /\ e > 0 /\ p <= q
    OBVIOUS
  <1> HIDE DEF p, q, e
  <1>2. p \div e \in Int /\ p \div e <= q \div e
    BY <1>1
  <1> QED BY <1>2 DEF Round, p, q, e

\* A whole number rounds to itself.
LEMMA RoundExact ==
  ASSUME NEW k \in Int, NEW d \in Int, d > 0
  PROVE  Round(k * d, d) = k
  <1> DEFINE e == 2 * d
             m == k * e + d
  <1>1. m = 2 * (k * d) + d
    OBVIOUS
  <1>2. e \in Int /\ e > 0 /\ m \in Int /\ k * e <= m /\ m < k * e + e
    OBVIOUS
  <1> HIDE DEF e, m
  <1>3. m \div e = k
    BY <1>2
  <1> QED BY <1>1, <1>3 DEF Round, e

\* The worth of a row the table accepts: at least one point and the floor, at most
\* the initial value, and no solve raises it.
LEMMA WorthOfRow ==
  ASSUME NEW w \in Worth, chk_challenges(w), NEW n \in Nat
  PROVE  /\ CurrentPoints(w, n + 1) >= 1 /\ CurrentPoints(w, n) <= w.init
         /\ CurrentPoints(w, n + 1) <= CurrentPoints(w, n)
         /\ w.scoring = "dynamic" => CurrentPoints(w, n + 1) >= w.min
  <1>0. w.init \in Nat /\ w.min \in Nat /\ w.decay \in Nat /\ w.init > 0
    BY BoundsNatural DEF Worth, chk_challenges
  <1>1. CASE w.scoring # "dynamic"
    BY <1>0, <1>1 DEF CurrentPoints
  <1>2. CASE w.scoring = "dynamic"
    <2> DEFINE i == w.init
               g == w.init - w.min
               d == w.decay * w.decay
               num(k) == i * d - g * k * k
    <2>1. w.min > 0 /\ w.min <= i /\ w.decay > 0
      BY <1>2 DEF chk_challenges
    <2>2. i \in Nat /\ g \in Nat /\ d \in Nat
      BY <1>0, <2>1
    <2>3. d > 0
      BY <1>0, <2>1
    <2>4. ASSUME NEW k \in Nat PROVE DynamicValue(w, k) = IF Round(num(k), d) < w.min THEN w.min ELSE Round(num(k), d)
      BY <2>1, <1>0 DEF DynamicValue
    <2> HIDE DEF i, g, d
    <2>5. ASSUME NEW k \in Nat PROVE num(k) \in Int /\ num(k) <= i * d
      BY <2>2
    <2>6. num(n + 1) <= num(n)
      <3>1. g * n * n <= g * (n + 1) * (n + 1)
        BY <2>2
      <3> QED BY <2>2, <3>1
    <2>7. num(n) \in Int /\ num(n + 1) \in Int /\ i * d \in Int /\ d \in Int
      BY <2>2, <2>5
    <2> HIDE DEF num
    <2>8. /\ Round(num(n), d) \in Int /\ Round(num(n + 1), d) \in Int
          /\ Round(num(n + 1), d) <= Round(num(n), d)
      BY <2>3, <2>6, <2>7, RoundMono
    <2>9. Round(num(n), d) <= i
      BY <2>2, <2>3, <2>5, <2>7, RoundMono, RoundExact
    <2>10. /\ CurrentPoints(w, n) = DynamicValue(w, n)
           /\ CurrentPoints(w, n + 1) = DynamicValue(w, n + 1)
      BY <1>2 DEF CurrentPoints
    <2>11. i = w.init /\ n + 1 \in Nat
      BY DEF i
    <2> QED BY <1>0, <2>1, <2>4, <2>8, <2>9, <2>10, <2>11
  <1> QED BY <1>1, <1>2

\* UpdateChallenge: a row with some columns set is a row.
LEMMA PatchedWorth ==
  ASSUME NEW w \in Worth, NEW p \in Patches
  PROVE  Patched(w, p) \in Worth
  <1>1. p.to \in Worth /\ p.sets \subseteq Columns
    BY DEF Patches
  <1> DEFINE x == p.to
             S == p.sets
  <1>2. Patched(w, p) = [is |-> w.is,
                         scoring |-> IF "scoring" \in S THEN x.scoring ELSE w.scoring,
                         init |-> IF "init" \in S THEN x.init ELSE w.init,
                         min |-> IF "min" \in S THEN x.min ELSE w.min,
                         decay |-> IF "decay" \in S THEN x.decay ELSE w.decay]
    BY <1>1 DEF Patched, Worth, Columns
  <1> HIDE DEF x, S
  <1>3. x \in Worth
    BY <1>1 DEF x
  <1> QED BY <1>2, <1>3 DEF Worth

\* Every row passed the table's CHECKs, whatever a stale validation let through.
WorthInv == /\ challenges \in [ChallengeIds -> Worth \cup {NoChallenge, Deleted}]
            /\ \A c \in ChallengeIds : InTable(c) => chk_challenges(challenges[c])

\* A row is stored.
LEMMA StoreKeeps ==
  ASSUME WorthInv, NEW c \in ChallengeIds, NEW w \in Worth, chk_challenges(w), StoreRow(c, w)
  PROVE  WorthInv'
  BY DEF WorthInv, StoreRow, InTable

\* Every step keeps it.
LEMMA WorthSteps ==
  FilesInv /\ WorthInv /\ [AuthorNext]_authorVars => WorthInv'
  <1> SUFFICES ASSUME FilesInv, WorthInv, [AuthorNext]_authorVars PROVE WorthInv'
    OBVIOUS
  <1>1. CASE UNCHANGED challenges
    BY <1>1 DEF WorthInv, InTable
  <1>2. ASSUME NEW r \in AuthorReqs, CreateChallenge(r) PROVE WorthInv'
    <2>1. wreq[r] \in DeskReq \cup UploadReq \cup RemoveReq /\ wreq[r].op = "create"
      BY <1>2 DEF FilesInv, FilesTyped, CreateChallenge, Busy
    <2>2. wreq[r].row \in Worth
      BY <2>1, FileReqShape
    <2> QED BY <1>1, <1>2, <2>2, StoreKeeps DEF CreateChallenge, Refused
  <1>3. ASSUME NEW r \in AuthorReqs, UpdateChallenge(r) PROVE WorthInv'
    <2>1. wreq[r] \in DeskReq \cup UploadReq \cup RemoveReq /\ wreq[r].op = "update"
      BY <1>3 DEF FilesInv, FilesTyped, UpdateChallenge, Busy
    <2>2. wreq[r].c \in ChallengeIds /\ wreq[r].p \in Patches
      BY <2>1 DEF DeskReq, UploadReq, RemoveReq, AtDesk
    <2>3. InTable(wreq[r].c) => challenges[wreq[r].c] \in Worth
      BY <2>2 DEF WorthInv, InTable, NoChallenge, Deleted
    <2>4. InTable(wreq[r].c) => Patched(challenges[wreq[r].c], wreq[r].p) \in Worth
      BY <2>2, <2>3, PatchedWorth
    <2> QED BY <1>1, <1>3, <2>2, <2>4, StoreKeeps DEF UpdateChallenge, Refused
  <1>4. ASSUME NEW r \in AuthorReqs, DeleteChallenge(r) PROVE WorthInv'
    <2>1. PICK c \in ChallengeIds : challenges' = [challenges EXCEPT ![c] = Deleted]
      BY <1>4 DEF DeleteChallenge
    <2> QED BY <2>1 DEF WorthInv, InTable, Deleted
  <1>5. ASSUME NEW r \in AuthorReqs,
               \/ CreateValidates(r) \/ CliCreate(r) \/ Seed(r) \/ UpdateReads(r)
               \/ UploadAttachment(r) \/ PutObject(r) \/ CreateAttachment(r) \/ RollBack(r)
               \/ DeleteReads(r) \/ DeleteObject(r) \/ DeleteAttachment(r)
        PROVE  UNCHANGED challenges
    BY <1>5 DEF CreateValidates, CliCreate, Seed, UpdateReads, UploadAttachment, PutObject,
                CreateAttachment, RollBack, DeleteReads, DeleteObject, DeleteAttachment
  <1>6. PlatformRestarts \/ UNCHANGED authorVars => UNCHANGED challenges
    BY DEF PlatformRestarts, authorVars
  <1> QED BY <1>1, <1>2, <1>3, <1>4, <1>5, <1>6 DEF AuthorNext

\* Organisers' updates may race, each validated against a row that is gone: for any
\* points, decay and number of solves, the next solve of a challenge is worth at
\* least one point and the floor, and no more than the one before it.
THEOREM WorthAlwaysHeld == AuthorSpec => []WorthHeld
  <1>1. AuthorInit => WorthInv
    BY DEF AuthorInit, WorthInv, InTable, NoChallenge
  <1>2. WorthInv => WorthHeld
    <2> SUFFICES ASSUME WorthInv, NEW c \in ChallengeIds, InTable(c), NEW n \in 0..MaxSolves
                 PROVE  /\ CurrentPoints(challenges[c], n + 1) >= 1
                        /\ CurrentPoints(challenges[c], n) <= challenges[c].init
                        /\ CurrentPoints(challenges[c], n + 1) <= CurrentPoints(challenges[c], n)
                        /\ challenges[c].scoring = "dynamic" =>
                              CurrentPoints(challenges[c], n + 1) >= challenges[c].min
      BY DEF WorthHeld
    <2>1. challenges[c] \in Worth /\ chk_challenges(challenges[c])
      BY DEF WorthInv, InTable, NoChallenge, Deleted
    <2>2. n \in Nat
      BY BoundsNatural
    <2> QED BY <2>1, <2>2, WorthOfRow
  <1> QED BY <1>1, <1>2, FilesStart, FilesSteps, WorthSteps, PTL DEF AuthorSpec

-----------------------------------------------------------------------------
(* ApiGate *)

\* The first segment of an operation's path.
Area(o) == Routes[o][2][1]

\* No operation with a weaker guard is routed under the administrators' path.
LEMMA WeakerOutside ==
    ASSUME NEW o \in PublicOps \cup TokenOps \cup CaptainOps
    PROVE  o \notin AdminOps \cup TokenAdminOps
<1>1. CASE o \in {"ListTeams", "GetTeam", "GetUser", "ListTokens", "CreateToken",
                  "RevokeToken", "RenameTeam", "RegenerateInviteCode"}
  <2>1. /\ RoutesTeamsToUsers["ListTeams"][2][1] # "admin"
        /\ RoutesTeamsToUsers["GetTeam"][2][1] # "admin"
        /\ RoutesTeamsToUsers["GetUser"][2][1] # "admin"
        /\ RoutesTeamsToUsers["ListTokens"][2][1] # "admin"
        /\ RoutesTeamsToUsers["CreateToken"][2][1] # "admin"
        /\ RoutesTeamsToUsers["RevokeToken"][2][1] # "admin"
        /\ RoutesTeamsToUsers["RenameTeam"][2][1] # "admin"
        /\ RoutesTeamsToUsers["RegenerateInviteCode"][2][1] # "admin"
    BY DEF RoutesTeamsToUsers
  <2>2. o \in DOMAIN RoutesTeamsToUsers
    BY <1>1 DEF RoutesTeamsToUsers
  <2>3. Routes[o] = RoutesTeamsToUsers[o]
    BY <2>2 DEF Routes
  <2>4. Area(o) # "admin"
    BY <1>1, <2>1, <2>3 DEF Area
  <2> QED BY <1>1, <2>4 DEF AdminOps, TokenAdminOps, Area
<1>2. CASE o \in {"Login", "Register", "ListAuthProviders", "BeginProviderLogin",
                  "CompleteProviderLogin", "GetEvent", "GetScoreboard"}
  <2>1. /\ RoutesAdminToScoreboard["Login"][2][1] # "admin"
        /\ RoutesAdminToScoreboard["Register"][2][1] # "admin"
        /\ RoutesAdminToScoreboard["ListAuthProviders"][2][1] # "admin"
        /\ RoutesAdminToScoreboard["BeginProviderLogin"][2][1] # "admin"
        /\ RoutesAdminToScoreboard["CompleteProviderLogin"][2][1] # "admin"
        /\ RoutesAdminToScoreboard["GetEvent"][2][1] # "admin"
        /\ RoutesAdminToScoreboard["GetScoreboard"][2][1] # "admin"
    BY DEF RoutesAdminToScoreboard
  <2>2. o \notin DOMAIN RoutesTeamsToUsers
    BY <1>2 DEF RoutesTeamsToUsers
  <2>3. o \in DOMAIN RoutesAdminToScoreboard
    BY <1>2 DEF RoutesAdminToScoreboard
  <2>4. Routes[o] = RoutesAdminToScoreboard[o]
    BY <2>2, <2>3 DEF Routes
  <2>5. Area(o) # "admin"
    BY <1>2, <2>1, <2>4 DEF Area
  <2> QED BY <1>2, <2>5 DEF AdminOps, TokenAdminOps, Area
<1> QED BY <1>1, <1>2 DEF PublicOps, TokenOps, CaptainOps

\* What the caller holds now.
LEMMA HoldingIs ==
    ASSUME NEW r, NEW s, NEW t
    PROVE  /\ r.role = "admin" /\ ~r.banned => "admin" \in Holding(r, s, t)
           /\ s.live => "session" \in Holding(r, s, t)
           /\ t.live /\ t.fresh /\ t.form = "token" => "token" \in Holding(r, s, t)
<1>1. r.role = "admin" /\ ~r.banned => "admin" \in Holding(r, s, t)
  BY DEF Holding
<1>2. s.live => "session" \in Holding(r, s, t)
  BY DEF Holding
<1>3. t.live /\ t.fresh /\ t.form = "token" => "token" \in Holding(r, s, t)
  BY DEF Holding
<1> QED BY <1>1, <1>2, <1>3

\* What has been true at some moment is remembered.
HeldNow == Holding(row, sess, tok) \subseteq held

\* The identity on the request was taken from a live credential.
IdnHeld == /\ idn.by \in {"none", "session", "token"}
           /\ idn.by # "none" => idn.by \in held
           /\ at = "owner" => "token" \in held

\* Nothing runs before the guard, and behind it only with what it asks for.
RanHeld == /\ at # "answered" => ~Ran
           /\ Ran /\ Served \in AdminOps \cup TokenAdminOps => "admin" \in held

GateInv == HeldNow /\ IdnHeld /\ RanHeld

\* An answer that is a refusal.
LEMMA RefusalKeeps ==
    ASSUME GateInv, NEW n \in {400, 401, 403, 429, 503}, Answer(n)
    PROVE  GateInv'
<1>1. at' = "answered" /\ status' = n /\ UNCHANGED <<idn, row, sess, tok, held, call>>
  BY DEF Answer, Reading
<1>2. ~Ran'
  BY <1>1 DEF Ran
<1>3. HeldNow'
  BY <1>1 DEF GateInv, HeldNow
<1>4. IdnHeld'
  BY <1>1 DEF GateInv, IdnHeld
<1>5. RanHeld'
  BY <1>1, <1>2 DEF RanHeld
<1> QED BY <1>3, <1>4, <1>5 DEF GateInv

\* The request passes on, with the same identity or one that is held.
LEMMA PassKeeps ==
    ASSUME GateInv, at # "answered", NEW l, l # "answered", Pass(l),
           idn'.by \in {"none", "session", "token"}, idn'.by # "none" => idn'.by \in held,
           l = "owner" => "token" \in held
    PROVE  GateInv'
<1>1. at' = l /\ UNCHANGED <<status, row, sess, tok, held, call>>
  BY DEF Pass, Reading
<1>2. HeldNow'
  BY <1>1 DEF GateInv, HeldNow
<1>3. IdnHeld'
  BY <1>1 DEF IdnHeld
<1>4. ~Ran'
  BY <1>1 DEF GateInv, RanHeld, Ran
<1>5. RanHeld'
  BY <1>4 DEF RanHeld
<1> QED BY <1>2, <1>3, <1>5 DEF GateInv

\* The operation runs, with what it depends on held.
LEMMA RunKeeps ==
    ASSUME GateInv, Run, Served \in AdminOps \cup TokenAdminOps => "admin" \in held
    PROVE  GateInv'
<1>1. PICK s : Answer(s)
  BY DEF Run
<1>2. at' = "answered" /\ UNCHANGED <<idn, row, sess, tok, held, call>>
  BY <1>1 DEF Answer, Reading
<1>3. HeldNow'
  BY <1>2 DEF GateInv, HeldNow
<1>4. IdnHeld'
  BY <1>2 DEF GateInv, IdnHeld
<1>5. Served' = Served
  BY <1>2 DEF Served, Method, Path
<1>6. RanHeld'
  BY <1>2, <1>5 DEF RanHeld
<1> QED BY <1>3, <1>4, <1>6 DEF GateInv

\* requireAdmin keeps the invariant: the row it reads is the caller's now.
LEMMA AdminKeeps ==
    ASSUME GateInv, requireAdmin
    PROVE  GateInv'
<1>1. CASE Answer(401) \/ Answer(403)
  BY <1>1, RefusalKeeps
<1>2. CASE ~(row.banned \/ row.role # "admin") /\ Run
  <2>1. "admin" \in held
    BY <1>2, HoldingIs DEF GateInv, HeldNow
  <2> QED BY <1>2, <2>1, RunKeeps
<1> QED BY <1>1, <1>2 DEF requireAdmin, requireUser

\* Guard keeps the invariant.
LEMMA GuardKeeps ==
    ASSUME GateInv, Guard
    PROVE  GateInv'
<1>1. CASE Answer(401) \/ Answer(403)
  BY <1>1, RefusalKeeps
<1>2. CASE requireAdmin
  BY <1>2, AdminKeeps
<1>3. CASE Run /\ Served \notin AdminOps \cup TokenAdminOps
  BY <1>3, RunKeeps
<1>4. Served \in PublicOps \cup TokenOps \cup CaptainOps =>
         Served \notin AdminOps \cup TokenAdminOps
  BY WeakerOutside
<1>5. \/ Answer(401) \/ Answer(403) \/ requireAdmin
      \/ Run /\ (\/ Served \in PublicOps \cup TokenOps \cup CaptainOps
                 \/ Served \notin PublicOps \cup AdminOps \cup TokenOps
                            \cup TokenAdminOps \cup CaptainOps)
  BY DEF Guard, requireUser, requireSession
<1> QED BY <1>1, <1>2, <1>3, <1>4, <1>5

\* What others change meanwhile.
LEMMA GateChangeKeeps ==
    ASSUME GateInv, NEW r, NEW s, NEW t, Change(r, s, t)
    PROVE  GateInv'
<1>1. /\ row' = r /\ sess' = s /\ tok' = t /\ held' = held \cup Holding(r, s, t)
      /\ UNCHANGED <<call, at, idn, status>>
  BY DEF Change
<1>2. HeldNow'
  BY <1>1 DEF HeldNow
<1>3. IdnHeld'
  BY <1>1 DEF GateInv, IdnHeld
<1>4. Served' = Served /\ Ran' = Ran
  BY <1>1 DEF Served, Method, Path, Ran
<1>5. RanHeld'
  BY <1>1, <1>4 DEF GateInv, RanHeld
<1> QED BY <1>2, <1>3, <1>5 DEF GateInv

\* Every step keeps the invariant.
LEMMA GateNextInv == GateInv /\ [GateNext]_gateVars => GateInv'
<1> SUFFICES ASSUME GateInv, [GateNext]_gateVars  PROVE GateInv'
  OBVIOUS
<1>1. CASE sessionMiddleware
  <2>1. sess.live => "session" \in held
    BY HoldingIs DEF GateInv, HeldNow
  <2>2. /\ idn'.by \in {"none", "session", "token"}
        /\ idn'.by # "none" => idn'.by \in held
    BY <1>1, <2>1 DEF sessionMiddleware, GateInv, IdnHeld
  <2> QED BY <1>1, <2>2, PassKeeps DEF sessionMiddleware
<1>2. CASE SkipToken
  BY <1>2, PassKeeps DEF SkipToken, GateInv, IdnHeld
<1>3. CASE ReadToken
  <2>1. tok.live /\ tok.fresh /\ tok.form = "token" => "token" \in held
    BY HoldingIs DEF GateInv, HeldNow
  <2>2. CASE Answer(401) \/ Answer(403)
    BY <2>2, RefusalKeeps
  <2>3. CASE tok.form = "token" /\ tok.live /\ tok.fresh /\ UNCHANGED idn /\ Pass("owner")
    BY <1>3, <2>1, <2>3, PassKeeps DEF ReadToken, GateInv, IdnHeld
  <2> QED BY <1>3, <2>2, <2>3 DEF ReadToken
<1>4. CASE ReadOwner
  <2>1. CASE Answer(401)
    BY <2>1, RefusalKeeps
  <2>2. CASE /\ idn' = [by |-> "token", role |-> row.role, scopes |-> tok.scopes]
             /\ Pass("limit")
    <3>1. idn'.by = "token" /\ "token" \in held
      BY <1>4, <2>2 DEF ReadOwner, GateInv, IdnHeld
    <3> QED BY <1>4, <2>2, <3>1, PassKeeps DEF ReadOwner
  <2> QED BY <1>4, <2>1, <2>2 DEF ReadOwner
<1>5. CASE tokenMiddleware
  <2>1. CASE Answer(429) \/ Answer(503) \/ Answer(403)
    BY <2>1, RefusalKeeps
  <2>2. CASE UNCHANGED idn /\ Pass("origin")
    BY <1>5, <2>2, PassKeeps DEF tokenMiddleware, GateInv, IdnHeld
  <2> QED BY <1>5, <2>1, <2>2 DEF tokenMiddleware
<1>6. CASE originCheckMiddleware
  <2>1. CASE Answer(403)
    BY <2>1, RefusalKeeps
  <2>2. CASE UNCHANGED idn /\ Pass("wrapper")
    BY <1>6, <2>2, PassKeeps DEF originCheckMiddleware, GateInv, IdnHeld
  <2> QED BY <1>6, <2>1, <2>2 DEF originCheckMiddleware
<1>7. CASE Bind
  <2>1. CASE Answer(400)
    BY <2>1, RefusalKeeps
  <2>2. CASE UNCHANGED idn /\ Pass("guard")
    BY <1>7, <2>2, PassKeeps DEF Bind, GateInv, IdnHeld
  <2> QED BY <1>7, <2>1, <2>2 DEF Bind
<1>8. CASE Guard
  BY <1>8, GuardKeeps
<1>9. CASE SetRow \/ RevokeSession \/ RevokeToken \/ ExpireToken
  BY <1>9, GateChangeKeeps DEF SetRow, RevokeSession, RevokeToken, ExpireToken
<1>10. CASE UNCHANGED gateVars
  <2>1. UNCHANGED <<call, row, sess, tok, at, idn, status, held>>
    BY <1>10 DEF gateVars
  <2>2. Served' = Served /\ Ran' = Ran
    BY <2>1 DEF Served, Method, Path, Ran
  <2> QED BY <2>1, <2>2 DEF GateInv, HeldNow, IdnHeld, RanHeld
<1> QED BY <1>1, <1>2, <1>3, <1>4, <1>5, <1>6, <1>7, <1>8, <1>9, <1>10
     DEF GateNext, Answered

\* A credential that was dead before the request began has no effect on it
\* (sessionMiddleware, TokenService.Authenticate, requireAdmin): for any number
\* of changes of roles, bans, sessions and tokens while the request is on its
\* way through the chain.
THEOREM AuthorityAlwaysLive == GateSpec => []AuthorityLive
<1>1. GateInit => GateInv
  BY DEF GateInit, GateInv, HeldNow, IdnHeld, RanHeld, Ran, Anonymous
<1>2. GateInv => AuthorityLive
  BY DEF GateInv, IdnHeld, RanHeld, AuthorityLive
<1> QED BY <1>1, <1>2, GateNextInv, PTL DEF GateSpec

\* The operation that is served is the one the client asked for.
LEMMA ServedIsCall ==
    ASSUME call \in Ops
    PROVE  Served = call /\ Routes[call] = <<Method, Path>>
<1>1. Routes[call] = <<Method, Path>>
  BY TablesAgree DEF Method, Path
<1>2. \A o \in Ops : Routes[o] = <<Method, Path>> => o = call
  BY <1>1, TablesAgree
<1> QED BY <1>1, <1>2 DEF Served

\* The request is past the scope gate, with the scope it needs; past the origin
\* check, which a token skips; and past the guard.
Scoped == idn.by = "token" => requiredScope \in idn.scopes
Local == Method \in {"GET", "HEAD", "OPTIONS"} \/ idn.by = "token" \/ origin
Guarded == /\ status \in Writes[Served][1]
           /\ idn.by = "none" => Served \in PublicOps
           /\ idn.by = "token" => Served \notin TokenOps \cup TokenAdminOps

ChainInv == /\ call \in Ops /\ idn.by \in {"none", "session", "token"}
            /\ at \in {"session", "token"} => idn.by # "token"
            /\ at # "answered" => ~Ran
            /\ at \in {"origin", "wrapper", "guard"} \/ Ran => Scoped
            /\ at \in {"wrapper", "guard"} \/ Ran => Local
            /\ Ran => Guarded

\* An answer that is a refusal.
LEMMA ChainRefusal ==
    ASSUME ChainInv, NEW n \in {400, 401, 403, 429, 503}, Answer(n)
    PROVE  ChainInv'
<1>1. at' = "answered" /\ status' = n /\ UNCHANGED <<idn, call, origin>>
  BY DEF Answer, Reading
<1>2. ~Ran'
  BY <1>1 DEF Ran
<1> QED BY <1>1, <1>2 DEF ChainInv

\* The request passes on.
LEMMA ChainPass ==
    ASSUME ChainInv, at # "answered", NEW l \in {"token", "owner", "limit", "origin", "wrapper", "guard"},
           Pass(l), idn'.by \in {"none", "session", "token"},
           l = "token" => idn'.by # "token",
           l \in {"origin", "wrapper", "guard"} => Scoped /\ UNCHANGED idn,
           l \in {"wrapper", "guard"} => Local
    PROVE  ChainInv'
<1>1. at' = l /\ UNCHANGED <<status, call, origin>>
  BY DEF Pass, Reading
<1>2. ~Ran'
  BY <1>1 DEF ChainInv, Ran
<1>3. l \in {"origin", "wrapper", "guard"} => Scoped'
  BY <1>1 DEF Scoped, requiredScope, Path, Method
<1>4. l \in {"wrapper", "guard"} => Local'
  BY <1>1 DEF Local, Method
<1> QED BY <1>1, <1>2, <1>3, <1>4 DEF ChainInv

\* The operation runs behind its guard.
LEMMA ChainRun ==
    ASSUME ChainInv, at = "guard", Run,
           idn.by = "none" => Served \in PublicOps,
           idn.by = "token" => Served \notin TokenOps \cup TokenAdminOps
    PROVE  ChainInv'
<1>1. PICK s \in Writes[Served][1] : Answer(s)
  BY DEF Run
<1>2. at' = "answered" /\ status' = s /\ UNCHANGED <<idn, call, origin>>
  BY <1>1 DEF Answer, Reading
<1>3. Served' = Served
  BY <1>2 DEF Served, Method, Path
<1>4. Guarded'
  BY <1>2, <1>3 DEF Guarded
<1>5. Scoped' /\ Local'
  BY <1>2 DEF ChainInv, Scoped, Local, requiredScope, Path, Method
<1> QED BY <1>2, <1>4, <1>5 DEF ChainInv

\* Guard keeps the invariant.
LEMMA ChainGuard ==
    ASSUME ChainInv, Guard
    PROVE  ChainInv'
<1>1. CASE Answer(401) \/ Answer(403)
  BY <1>1, ChainRefusal
<1>2. CASE Run /\ Served \in PublicOps
  <2>1. Served \notin TokenOps \cup TokenAdminOps
    BY <1>2 DEF PublicOps, TokenOps, TokenAdminOps
  <2> QED BY <1>2, <2>1, ChainRun DEF Guard
<1>3. CASE Run /\ idn.by = "session"
  BY <1>3, ChainRun DEF Guard
<1>4. CASE Run /\ idn.by # "none" /\ Served \notin TokenOps \cup TokenAdminOps
  BY <1>4, ChainRun DEF Guard
<1>5. requireAdmin => Answer(401) \/ Answer(403) \/ (Run /\ idn.by # "none")
  BY DEF requireAdmin, requireUser
<1>6. Served \in AdminOps => Served \notin TokenOps \cup TokenAdminOps
  BY WeakerOutside DEF AdminOps
<1>7. Served \in CaptainOps => Served \notin TokenOps \cup TokenAdminOps
  BY DEF CaptainOps, TokenOps, TokenAdminOps
<1>8. CASE Served \in PublicOps /\ Run
  BY <1>2, <1>8
<1>9. CASE Served \in AdminOps /\ requireAdmin
  BY <1>1, <1>4, <1>5, <1>6, <1>9
<1>10. CASE Served \in TokenOps /\ requireSession(Run)
  BY <1>1, <1>3, <1>10 DEF requireSession, requireUser
<1>11. CASE Served \in TokenAdminOps /\ requireSession(requireAdmin)
  <2>1. Answer(401) \/ Answer(403) \/ (requireAdmin /\ idn.by = "session")
    BY <1>11 DEF requireSession, requireUser
  <2> QED BY <1>1, <1>3, <1>5, <2>1
<1>12. CASE Served \in CaptainOps /\ requireUser(Run \/ Answer(403))
  BY <1>1, <1>4, <1>7, <1>12 DEF requireUser
<1>13. CASE /\ Served \notin PublicOps \cup AdminOps \cup TokenOps
                              \cup TokenAdminOps \cup CaptainOps
            /\ requireUser(Run)
  BY <1>1, <1>4, <1>13 DEF requireUser
<1> QED BY <1>8, <1>9, <1>10, <1>11, <1>12, <1>13 DEF Guard

\* Every step keeps the invariant.
LEMMA ChainNext == ChainInv /\ [GateNext]_gateVars => ChainInv'
<1> SUFFICES ASSUME ChainInv, [GateNext]_gateVars  PROVE ChainInv'
  OBVIOUS
<1>1. CASE sessionMiddleware
  <2>1. idn'.by \in {"none", "session", "token"} /\ idn'.by # "token"
    BY <1>1 DEF sessionMiddleware, ChainInv
  <2> QED BY <1>1, <2>1, ChainPass DEF sessionMiddleware
<1>2. CASE SkipToken
  <2>1. Scoped
    BY <1>2 DEF SkipToken, ChainInv, Scoped
  <2> QED BY <1>2, <2>1, ChainPass DEF SkipToken, ChainInv
<1>3. CASE ReadToken
  <2>1. CASE Answer(401) \/ Answer(403)
    BY <2>1, ChainRefusal
  <2>2. CASE UNCHANGED idn /\ Pass("owner")
    BY <1>3, <2>2, ChainPass DEF ReadToken, ChainInv
  <2> QED BY <1>3, <2>1, <2>2 DEF ReadToken
<1>4. CASE ReadOwner
  <2>1. CASE Answer(401)
    BY <2>1, ChainRefusal
  <2>2. CASE /\ idn' = [by |-> "token", role |-> row.role, scopes |-> tok.scopes]
             /\ Pass("limit")
    BY <1>4, <2>2, ChainPass DEF ReadOwner
  <2> QED BY <1>4, <2>1, <2>2 DEF ReadOwner
<1>5. CASE tokenMiddleware
  <2>1. CASE Answer(429) \/ Answer(503) \/ Answer(403)
    BY <2>1, ChainRefusal
  <2>2. CASE requiredScope \in idn.scopes /\ UNCHANGED idn /\ Pass("origin")
    BY <1>5, <2>2, ChainPass DEF tokenMiddleware, ChainInv, Scoped
  <2> QED BY <1>5, <2>1, <2>2 DEF tokenMiddleware
<1>6. CASE originCheckMiddleware
  <2>1. CASE Answer(403)
    BY <2>1, ChainRefusal
  <2>2. CASE Local /\ UNCHANGED idn /\ Pass("wrapper")
    <3>1. Scoped
      BY <1>6 DEF originCheckMiddleware, ChainInv
    <3> QED BY <1>6, <2>2, <3>1, ChainPass DEF originCheckMiddleware, ChainInv
  <2> QED BY <1>6, <2>1, <2>2 DEF originCheckMiddleware, Local
<1>7. CASE Bind
  <2>1. CASE Answer(400)
    BY <2>1, ChainRefusal
  <2>2. CASE UNCHANGED idn /\ Pass("guard")
    <3>1. Scoped /\ Local
      BY <1>7 DEF Bind, ChainInv
    <3> QED BY <1>7, <2>2, <3>1, ChainPass DEF Bind, ChainInv
  <2> QED BY <1>7, <2>1, <2>2 DEF Bind
<1>8. CASE Guard
  BY <1>8, ChainGuard
<1>9. CASE SetRow \/ RevokeSession \/ RevokeToken \/ ExpireToken \/ UNCHANGED gateVars
  <2>1. UNCHANGED <<call, origin, at, idn, status>>
    BY <1>9 DEF SetRow, RevokeSession, RevokeToken, ExpireToken, Change, gateVars
  <2>2. /\ Served' = Served /\ Ran' = Ran /\ Scoped' = Scoped /\ Local' = Local
    BY <2>1 DEF Served, Method, Path, Ran, Scoped, Local, requiredScope
  <2>3. Guarded' = Guarded
    BY <2>1, <2>2 DEF Guarded
  <2> QED BY <2>1, <2>2, <2>3 DEF ChainInv
<1> QED BY <1>1, <1>2, <1>3, <1>4, <1>5, <1>6, <1>7, <1>8, <1>9
     DEF GateNext, Answered

\* The layers together leave no way around (the middleware chain, the generated
\* wrapper and the handlers' guards): whatever is changed, and however often,
\* while the request is on its way.
THEOREM NeverAround == GateSpec => []NoWayAround
<1>1. GateInit => ChainInv
  BY DEF GateInit, ChainInv, Ran, Anonymous
<1>2. ChainInv => NoWayAround
  <2> SUFFICES ASSUME ChainInv, Ran
      PROVE /\ Served = call
            /\ status \in Reads[call] \cup Writes[Served][2]
            /\ idn.by = "none" => ~Wrapper[Served][1]
            /\ idn.by = "token" =>
                  /\ Served \notin TokenOps \cup TokenAdminOps
                  /\ Path[1] = "admin" => "admin" \in idn.scopes
                  /\ idn.scopes = {"read"} => ~Mutates(Served)
            /\ ~origin /\ idn.by # "token" => ~Mutates(Served)
    BY DEF NoWayAround
  <2>1. call \in Ops /\ Scoped /\ Local /\ Guarded
    BY DEF ChainInv
  <2>2. Served = call /\ Routes[call] = <<Method, Path>>
    BY <2>1, ServedIsCall
  <2>3. status \in Reads[call] \cup Writes[Served][2]
    BY <2>1, <2>2, TablesAgree DEF Guarded, Ran
  <2>4. idn.by = "none" => ~Wrapper[Served][1]
    BY <2>1, <2>2, TablesAgree DEF Guarded
  <2>5. Routes[call][1] = Method /\ Routes[call][1] # "OPTIONS"
    BY <2>1, <2>2, TablesAgree
  <2>6. Method \in {"GET", "HEAD"} => ~Mutates(Served)
    BY <2>2, <2>5 DEF Mutates
  <2>7. ASSUME idn.by = "token"
        PROVE  /\ Path[1] = "admin" => "admin" \in idn.scopes
               /\ idn.scopes = {"read"} => ~Mutates(Served)
    BY <2>1, <2>6, <2>7 DEF Scoped, requiredScope
  <2>8. ~origin /\ idn.by # "token" => ~Mutates(Served)
    BY <2>1, <2>5, <2>6 DEF Local
  <2> QED BY <2>1, <2>2, <2>3, <2>4, <2>7, <2>8 DEF Guarded
<1> QED BY <1>1, <1>2, ChainNext, PTL DEF GateSpec
=============================================================================
