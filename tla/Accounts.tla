------------------------------ MODULE Accounts ------------------------------
(***************************************************************************)
(* Accounts and the sessions opened on them: registration, password login,   *)
(* the external (SSO) login with its single-use state, logout, password      *)
(* change and reset, and an administrator's ban.  Requests interleave        *)
(* between their round trips to Postgres and Redis.                          *)
(*                                                                           *)
(* Sessions are those of module Sessions without their clock: a session is   *)
(* live until it is revoked or expires, and the index lists the live ones    *)
(* (Sessions!IndexCovers).  The password column is abstracted: a             *)
(* verification may answer either way.                                       *)
(***************************************************************************)
EXTENDS Naturals, FiniteSets

CONSTANTS
    AccountIds,    \* ids that accounts may get
    Addresses,     \* e-mail addresses, lower-cased
    SessIds,       \* tokens of the sessions there may be at once
    States,        \* login states that may be pending at once
    AuthReqs,      \* requests in flight at once
    policy         \* OSCTF_AUTH_PROVISION: "off", "match" or "open"

ASSUME NoneApart == "none" \notin AccountIds

\* An address as users and providers write it: lower-cased or with capitals.
Spellings == [address : Addresses, capitals : BOOLEAN]

ToLower(e) == e.address

NoAccount == [is |-> "none"]
Rest == [op |-> "rest"]

VARIABLES
    users,      \* table users
    bound,      \* table auth_identities: account bound to the one subject, or "none"
    session,    \* live sessions: token to account, way in, seen unbanned
    states,     \* login states in Redis
    areq,       \* what each request is doing
    untold,     \* ghost: accounts whose last ban returned an error: it may have
                \* left sessions, and the administrator was told
    asserted    \* ghost: addresses the provider asserted of the unbound subject

accVars == <<users, bound, session, states, areq, untold, asserted>>

Account(e) == [is |-> "row", email |-> e, banned |-> FALSE]
Has(a) == users[a].is = "row"
GetUserByEmail(e) == {a \in AccountIds : Has(a) /\ users[a].email = e}

AccTypeOK ==
    /\ \A a \in AccountIds : users[a].is \in {"none", "row"}
    /\ bound \in AccountIds \cup {"none"}
    /\ DOMAIN session \subseteq SessIds
    /\ states \subseteq States

AccInit ==
    /\ users = [a \in AccountIds |-> NoAccount]
    /\ bound = "none"
    /\ session = <<>>
    /\ states = {}
    /\ areq = [r \in AuthReqs |-> Rest]
    /\ untold = {} /\ asserted = {}

Doing(r, op) == areq[r].op = op
Then(r, rec) == areq' = [areq EXCEPT ![r] = rec]
Ends(r) == Then(r, Rest)
Without(ss) == [s \in DOMAIN session \ ss |-> session[s]]

(***************************************************************************)
(* CreateUser: unique on the (lower-cased) address.                         *)
(***************************************************************************)
CreateUser(e, a) ==
    /\ GetUserByEmail(e) = {}
    /\ ~Has(a)
    /\ users' = [users EXCEPT ![a] = Account(e)]

\* Register: validation, hashing, then the row; its session comes next.
Register(r) ==
    /\ Doing(r, "rest")
    /\ \E e \in Spellings, a \in AccountIds :
        /\ CreateUser(ToLower(e), a)
        /\ Then(r, [op |-> "open", u |-> a, via |-> "register"])
    /\ UNCHANGED <<bound, session, states, untold, asserted>>

\* Login up to EmailPasswordProvider.Authenticate: the row and its ban.
Login(r) ==
    /\ Doing(r, "rest")
    /\ \E e \in Spellings : \E a \in GetUserByEmail(ToLower(e)) :
        /\ ~users[a].banned
        /\ Then(r, [op |-> "open", u |-> a, via |-> "password"])
    /\ UNCHANGED <<users, bound, session, states, untold, asserted>>

\* No session has token s and no request remembers it, so that it may stand for
\* a new one (tokens are random).
Unused(s) ==
    /\ s \notin DOMAIN session
    /\ \A r \in AuthReqs : /\ Doing(r, "recheck") => s # areq[r].s
                           /\ Doing(r, "list") => s \notin areq[r].keep
                           /\ Doing(r, "drop") => s \notin areq[r].ss

\* Sessions.Create; Register ends with it, the logins check the row again.
OpenSession(r) ==
    /\ Doing(r, "open")
    /\ \E s \in SessIds :
        /\ Unused(s)
        /\ session' = [x \in DOMAIN session \cup {s} |->
                          IF x = s THEN [u |-> areq[r].u, via |-> areq[r].via,
                                         checked |-> FALSE]
                          ELSE session[x]]
        /\ IF areq[r].via = "register" THEN Ends(r)
           ELSE Then(r, [op |-> "recheck", u |-> areq[r].u, s |-> s])
    /\ UNCHANGED <<users, bound, states, untold, asserted>>

OpenFails(r) ==
    /\ Doing(r, "open") /\ Ends(r)
    /\ UNCHANGED <<users, bound, session, states, untold, asserted>>

\* The session stays; seen: the second read found the account unbanned.
Keep(r, seen) ==
    session' = [x \in DOMAIN session |->
        IF x = areq[r].s THEN [session[x] EXCEPT !.checked = seen]
        ELSE session[x]]

\* Faulty variant of Recheck (mutation checks).
MutRecheck(r) ==
    /\ Doing(r, "recheck")
    /\ Keep(r, TRUE)
    /\ Ends(r)
    /\ UNCHANGED <<users, bound, states, untold, asserted>>

\* Users.Get once the session is indexed: a banned account loses it again; a
\* read or a Delete that fails keeps it.
Recheck(r) ==
    /\ Doing(r, "recheck")
    /\ \/ users[areq[r].u].banned /\ session' = Without({areq[r].s})
       \/ ~users[areq[r].u].banned /\ Keep(r, TRUE)
       \/ Keep(r, FALSE)
    /\ Ends(r)
    /\ UNCHANGED <<users, bound, states, untold, asserted>>

(***************************************************************************)
(* The external login.                                                      *)
(***************************************************************************)
\* BeginProviderLogin: Mint, the provider's URL checked for it, Store.
BeginProviderLogin(r) ==
    /\ Doing(r, "rest")
    /\ \E x \in States \ states : states' = states \cup {x}
    /\ UNCHANGED <<users, bound, session, areq, untold, asserted>>

\* CompleteProviderLogin: GETDEL of the state; two callbacks may race for it.
Consume(r) ==
    /\ Doing(r, "rest")
    /\ \E x \in states : states' = states \ {x}
    /\ \/ Then(r, [op |-> "resolve"])
       \/ Ends(r)         \* another provider's state, or Complete failed
    /\ UNCHANGED <<users, bound, session, untold, asserted>>

Into(r, a) == Then(r, [op |-> "open", u |-> a, via |-> "external"])

\* resolve: the binding decides when there is one.
ResolveBound(r) ==
    /\ Doing(r, "resolve") /\ bound # "none"
    /\ IF users[bound].banned THEN Ends(r) ELSE Into(r, bound)
    /\ UNCHANGED <<users, bound, session, states, untold, asserted>>

\* No binding: the policy, then a verified address, or the login is refused.
ResolveUnbound(r) ==
    /\ Doing(r, "resolve") /\ bound = "none"
    /\ \/ /\ Ends(r)
          /\ UNCHANGED asserted
       \/ /\ policy # "off"
          /\ \E e \in Spellings : /\ Then(r, [op |-> "match", e |-> ToLower(e)])
                                  /\ asserted' = asserted \cup {ToLower(e)}
    /\ UNCHANGED <<users, bound, session, states, untold>>

\* The account with that address, or provision.
MatchEmail(r) ==
    /\ Doing(r, "match")
    /\ \/ \E a \in GetUserByEmail(areq[r].e) :
            IF users[a].banned THEN Ends(r) ELSE Then(r, [op |-> "bind", u |-> a])
       \/ /\ GetUserByEmail(areq[r].e) = {}
          /\ IF policy = "open" THEN Then(r, [areq[r] EXCEPT !.op = "provision"])
             ELSE Ends(r)
    /\ UNCHANGED <<users, bound, session, states, untold, asserted>>

\* provision: the row at the lowest role.  When the address was taken since,
\* its account is the one to bind; names that are all taken end the login.
Provision(r) ==
    /\ Doing(r, "provision")
    /\ \/ \E a \in AccountIds :
            CreateUser(areq[r].e, a) /\ Then(r, [op |-> "bind", u |-> a])
       \/ /\ \E a \in GetUserByEmail(areq[r].e) :
                IF users[a].banned THEN Ends(r) ELSE Then(r, [op |-> "bind", u |-> a])
          /\ UNCHANGED users
       \/ Ends(r) /\ UNCHANGED users
    /\ UNCHANGED <<bound, session, states, untold, asserted>>

\* Faulty variant of BindIdentity (mutation checks): every error of the insert
\* counts as success.
MutBindIdentity(r) ==
    /\ Doing(r, "bind")
    /\ \/ bound' = IF bound = "none" THEN areq[r].u ELSE bound
       \/ UNCHANGED bound
    /\ Into(r, areq[r].u)
    /\ UNCHANGED <<users, session, states, untold, asserted>>

\* bind: a unique violation counts as success, "the binding it wrote is the
\* one we would have written".
BindIdentity(r) ==
    /\ Doing(r, "bind")
    /\ \/ /\ bound' = IF bound = "none" THEN areq[r].u ELSE bound
          /\ Into(r, areq[r].u)
       \/ UNCHANGED bound /\ Ends(r)      \* the insert fails otherwise
    /\ UNCHANGED <<users, session, states, untold, asserted>>

(***************************************************************************)
(* Revocation: logout, password change and reset, ban.                      *)
(***************************************************************************)
Logout(r) ==
    /\ Doing(r, "rest")
    /\ \E s \in DOMAIN session : session' = Without({s})
    /\ UNCHANGED <<users, bound, states, areq, untold, asserted>>

\* AdminUpdate: the row, and for a ban DeleteAllForUser.
Ban(r) ==
    /\ Doing(r, "rest")
    /\ \E a \in AccountIds :
        /\ Has(a)
        /\ users' = [users EXCEPT ![a].banned = TRUE]
        /\ Then(r, [op |-> "list", u |-> a, keep |-> {}, ban |-> TRUE])
        /\ untold' = untold \ {a}
    /\ UNCHANGED <<bound, session, states, asserted>>

Unban(r) ==
    /\ Doing(r, "rest")
    /\ \E a \in AccountIds : Has(a) /\ users[a].banned
                             /\ users' = [users EXCEPT ![a].banned = FALSE]
    /\ UNCHANGED <<bound, session, states, areq, untold, asserted>>

\* ChangePassword keeps the caller's session, AdminResetPassword none.
ChangePassword(r) ==
    /\ Doing(r, "rest")
    /\ \/ \E s \in DOMAIN session :
            Then(r, [op |-> "list", u |-> session[s].u, keep |-> {s}, ban |-> FALSE])
       \/ \E a \in AccountIds :
            Has(a) /\ Then(r, [op |-> "list", u |-> a, keep |-> {}, ban |-> FALSE])
    /\ UNCHANGED <<users, bound, session, states, untold, asserted>>

SessionsOf(a) == {s \in DOMAIN session : session[s].u = a}

\* The revocation fails, and with it the request it belongs to.
RevokeFails(r) == untold' = IF areq[r].ban THEN untold \cup {areq[r].u} ELSE untold

\* DeleteAllForUser: SMEMBERS, then the pipeline; Redis may fail either.
RevokeLists(r) ==
    /\ Doing(r, "list")
    /\ \/ /\ Then(r, [op |-> "drop", ss |-> SessionsOf(areq[r].u) \ areq[r].keep,
                      u |-> areq[r].u, ban |-> areq[r].ban])
          /\ UNCHANGED untold
       \/ Ends(r) /\ RevokeFails(r)
    /\ UNCHANGED <<users, bound, session, states, asserted>>

RevokeDrops(r) ==
    /\ Doing(r, "drop")
    /\ \/ session' = Without(areq[r].ss) /\ UNCHANGED untold
       \/ RevokeFails(r) /\ UNCHANGED session
    /\ Ends(r)
    /\ UNCHANGED <<users, bound, states, asserted>>

\* What runs out by itself: a session, a login state.
Expires ==
    /\ \/ \E s \in DOMAIN session : session' = Without({s}) /\ UNCHANGED states
       \/ \E x \in states : states' = states \ {x} /\ UNCHANGED session
    /\ UNCHANGED <<users, bound, areq, untold, asserted>>

AccNext ==
    \/ \E r \in AuthReqs :
        \/ Register(r) \/ Login(r) \/ OpenSession(r) \/ OpenFails(r) \/ Recheck(r)
        \/ BeginProviderLogin(r) \/ Consume(r) \/ ResolveBound(r)
        \/ ResolveUnbound(r) \/ MatchEmail(r) \/ Provision(r) \/ BindIdentity(r)
        \/ Logout(r) \/ Ban(r) \/ Unban(r) \/ ChangePassword(r)
        \/ RevokeLists(r) \/ RevokeDrops(r)
    \/ Expires

AccSpec == AccInit /\ [][AccNext]_accVars

-----------------------------------------------------------------------------
\* A ban of account a has not returned yet.
Revoking(a) ==
    \E r \in AuthReqs : areq[r].op \in {"list", "drop"} /\ areq[r].ban /\ areq[r].u = a

(***************************************************************************)
(* A ban that has returned leaves no session behind: whichever way it        *)
(* overtakes a login, either the revocation finds the session or the login   *)
(* finds the ban ("Close the ban-during-login race", handlers/auth.go).      *)
(* Excepted are a ban whose revocation failed, of which the administrator    *)
(* was told, until the account is banned again, and sessions nobody checked: *)
(* Register makes no second read, and a second read that fails is passed     *)
(* over.                                                                     *)
(***************************************************************************)
BannedOut ==
    \A s \in DOMAIN session :
        /\ users[session[s].u].banned
        /\ session[s].checked
        => Revoking(session[s].u) \/ session[s].u \in untold

(***************************************************************************)
(* Callbacks of one subject that race, with each other or with registrations *)
(* of the same and of other addresses, all end in the account the subject is *)
(* bound to, as long as the provider has asserted one address for it, in     *)
(* whatever spelling (resolve, provision, bind).                             *)
(***************************************************************************)
SubjectOneAccount ==
    (\A e, f \in asserted : e = f) =>
        \A s \in DOMAIN session : session[s].via = "external" => session[s].u = bound

(***************************************************************************)
(* A unique violation at the insert of a binding means that "the binding it  *)
(* wrote is the one we would have written" (external.go, bind).  The code    *)
(* does not keep this when the subject's address changes at the provider     *)
(* between two callbacks: the second one is then logged in to an account the *)
(* subject is not bound to.                                                  *)
(***************************************************************************)
BindingAgrees ==
    \A r \in AuthReqs : Doing(r, "bind") /\ bound # "none" => bound = areq[r].u
=============================================================================
