------------------------------ MODULE ApiGate ------------------------------
(***************************************************************************)
(* One request of the HTTP API on its way through the server: the session   *)
(* middleware, the token middleware, the origin check, the generated        *)
(* wrapper and decoder, and the guard the handler begins with (httpserver,   *)
(* auth.TokenService.Authenticate, handlers/guards.go).  Around it an        *)
(* administrator promotes, demotes and bans the caller, sessions and tokens  *)
(* are revoked, a token expires: every step of the request reads what is     *)
(* there at that moment.                                                     *)
(*                                                                           *)
(* A behaviour is one request: what is checked is which operations may run   *)
(* under which credential, whatever changes while the request is on its way. *)
(***************************************************************************)
EXTENDS ApiTables, Naturals

CONSTANT MaxChanges    \* bound: changes of rows and credentials per request

Roles == {"player", "admin"}
NoSession == [live |-> FALSE, role |-> "player"]
NoToken == [form |-> "none", live |-> FALSE, fresh |-> FALSE, scopes |-> {}]
GoodToken == [form |-> "token", live |-> TRUE, fresh |-> TRUE, scopes |-> {"admin"}]
Anonymous == [by |-> "none", role |-> "player", scopes |-> {}]

VARIABLES
    call,     \* the operation the client asks for
    origin,   \* TRUE: the Origin or Referer header names the deployment
    row,      \* the caller's row in users
    sess,     \* the session behind the cookie: live, and the role cached in it
    tok,      \* the bearer credential: its form, and its row in api_tokens
    at,       \* the next step of the request
    idn,      \* auth.Identity on the request's context
    status,   \* the status answered, 0 while none is, that of a success once the
              \* handler runs
    changes,  \* changes made so far
    held      \* ghost: what has been true at some moment of this request

gateVars == <<call, origin, row, sess, tok, at, idn, status, changes, held>>

\* What the caller holds right now, of the things an operation may depend on.
Holding(r, s, t) ==
    {h \in {"admin", "session", "token"} :
        CASE h = "admin" -> r.role = "admin" /\ ~r.banned
          [] h = "session" -> s.live
          [] h = "token" -> t.live /\ t.fresh /\ t.form = "token"}

\* parsePresented tells "garbage" apart; ValidateScopes rejects "other".  Next
\* to a live session one token stands for all: the session wins.
GateInit ==
    /\ call \in Ops
    /\ origin \in BOOLEAN
    /\ row \in [role : Roles, banned : BOOLEAN]
    /\ sess \in {NoSession} \cup [live : {TRUE}, role : Roles]
    /\ tok \in {NoToken, [NoToken EXCEPT !.form = "garbage"]}
            \cup [form : {"token"}, live : {TRUE}, fresh : BOOLEAN,
                  scopes : {{"read"}, {"submit"}, {"admin"}, {"read", "other"}}]
    /\ sess.live => tok \in {NoToken, GoodToken}
    /\ at = "session"
    /\ idn = Anonymous
    /\ status = 0
    /\ changes = 0
    /\ held = Holding(row, sess, tok)

GateTypeOK ==
    /\ at \in {"session", "token", "owner", "limit", "origin", "wrapper",
               "guard", "answered"}
    /\ status \in {0, 200, 201, 204, 302, 400, 401, 403, 429, 503}
    /\ idn.by \in {"none", "session", "token"}
    /\ changes \in 0..MaxChanges

Method == Sends[call][1]
Path == Sends[call][2]

\* The operation chi routes the request to.
Served == CHOOSE o \in Ops : Routes[o] = <<Method, Path>>

Reading == UNCHANGED <<call, origin, row, sess, tok, changes, held>>
Answer(n) == at' = "answered" /\ status' = n /\ UNCHANGED idn /\ Reading
Pass(step) == at' = step /\ UNCHANGED status /\ Reading

(***************************************************************************)
(* The chain New builds: session, token, origin, generated code.            *)
(***************************************************************************)
\* sessionMiddleware: a dead session, or Redis failing, leaves it anonymous.
sessionMiddleware ==
    /\ at = "session"
    /\ \/ sess.live /\ idn' = [by |-> "session", role |-> sess.role, scopes |-> {}]
       \/ UNCHANGED idn
    /\ Pass("token")

\* bearerFromHeader and the early ways on: a session won, or no bearer.
SkipToken ==
    /\ at = "token"
    /\ idn.by = "session" \/ tok.form = "none"
    /\ UNCHANGED idn
    /\ Pass("origin")

KnownScopes == {"read", "submit", "admin"}

\* TokenService.Authenticate up to the token's row.
ReadToken ==
    /\ at = "token"
    /\ idn.by = "none" /\ tok.form # "none"
    /\ \/ Answer(401)     \* malformed, unknown, expired, or the read failed
       \/ tok.form = "token" /\ tok.live /\ tok.fresh
          /\ tok.scopes \subseteq KnownScopes
          /\ UNCHANGED idn /\ Pass("owner")
       \/ tok.form = "token" /\ tok.live /\ tok.fresh
          /\ ~(tok.scopes \subseteq KnownScopes)
          /\ Answer(403)

\* ... and the owner's row, read live.
ReadOwner ==
    /\ at = "owner"
    /\ \/ Answer(401)
       \/ ~row.banned
          /\ idn' = [by |-> "token", role |-> row.role, scopes |-> tok.scopes]
          /\ Pass("limit")

\* Faulty variant of requiredScope (mutation checks).
MutrequiredScope ==
    IF Method \in {"GET", "HEAD"} THEN "read"
    ELSE IF Path[1] = "admin" THEN "admin" ELSE "submit"

requiredScope ==
    IF Path[1] = "admin" THEN "admin"
    ELSE IF Method \in {"GET", "HEAD"} THEN "read" ELSE "submit"

\* The limiter by token (429, or 503 when Redis is down), then the scopes.
tokenMiddleware ==
    /\ at = "limit"
    /\ \/ Answer(429)
       \/ Answer(503)
       \/ requiredScope \notin idn.scopes /\ Answer(403)
       \/ requiredScope \in idn.scopes /\ UNCHANGED idn /\ Pass("origin")

\* originCheckMiddleware: reads, and requests under a token, skip it.
originCheckMiddleware ==
    /\ at = "origin"
    /\ IF Method \in {"GET", "HEAD", "OPTIONS"} \/ idn.by = "token" \/ origin
       THEN UNCHANGED idn /\ Pass("wrapper")
       ELSE Answer(403)

\* The generated wrapper and strict handler: parameters, then the body.
Bind ==
    /\ at = "wrapper"
    /\ \/ Wrapper[Served][2] # {} /\ Answer(400)
       \/ Decodes[Served] # "none" /\ Answer(400)
       \/ Sends[call][3] = Decodes[Served] /\ UNCHANGED idn /\ Pass("guard")

(***************************************************************************)
(* The guards the handlers begin with.                                      *)
(***************************************************************************)
PublicOps == {"Login", "Register", "ListAuthProviders", "BeginProviderLogin",
              "CompleteProviderLogin", "GetEvent", "GetScoreboard",
              "ListTeams", "GetTeam", "GetUser"}
TokenOps == {"ListTokens", "CreateToken", "RevokeToken"}
TokenAdminOps == {"AdminListTokens", "AdminRevokeToken"}
AdminOps == {o \in Ops : Routes[o][2][1] = "admin"} \ TokenAdminOps
CaptainOps == {"RenameTeam", "RegenerateInviteCode"}

\* What the generated server and client have in common: the client sends what
\* one route answers to, the operations without a guard are those the wrapper
\* marks as open, a guard's refusals are responses its operation has, and the
\* client decodes exactly the JSON the responses write, errors included.
ASSUME TablesAgree ==
    \A o \in Ops :
        /\ Routes[o] = <<Sends[o][1], Sends[o][2]>>
        /\ \A q \in Ops : Routes[q] = Routes[o] => q = o
        /\ Routes[o][1] # "OPTIONS"
        /\ o \in PublicOps => ~Wrapper[o][1]
        /\ o \notin PublicOps => 401 \in Writes[o][1]
        /\ o \in AdminOps \cup TokenOps \cup TokenAdminOps \cup CaptainOps => 403 \in Writes[o][1]
        /\ Reads[o] = Writes[o][1] \ Writes[o][2]

\* The operation itself, with any of its responses.
Run == \E s \in Writes[Served][1] : Answer(s)
Ran == status \in 200..399

requireUser(pass) == IF idn.by = "none" THEN Answer(401) ELSE pass

\* Faulty variant of requireAdmin (mutation checks).
MutrequireAdmin ==
    requireUser(\/ Answer(401)
                \/ IF idn.role # "admin" THEN Answer(403) ELSE Run)

\* requireAdmin: the row is read again, the role of the identity is not used.
requireAdmin ==
    requireUser(\/ Answer(401)
                \/ IF row.banned \/ row.role # "admin" THEN Answer(403) ELSE Run)

requireSession(pass) ==
    requireUser(IF idn.by # "session" THEN Answer(403) ELSE pass)

Guard ==
    /\ at = "guard"
    /\ \/ Served \in PublicOps /\ Run
       \/ Served \in AdminOps /\ requireAdmin
       \/ Served \in TokenOps /\ requireSession(Run)
       \/ Served \in TokenAdminOps /\ requireSession(requireAdmin)
       \/ Served \in CaptainOps /\ requireUser(Run \/ Answer(403))
       \/ /\ Served \notin PublicOps \cup AdminOps \cup TokenOps
                            \cup TokenAdminOps \cup CaptainOps
          /\ requireUser(Run)

(***************************************************************************)
(* What others do meanwhile.                                                *)
(***************************************************************************)
Change(r, s, t) ==
    /\ at # "answered" /\ changes < MaxChanges
    /\ row' = r /\ sess' = s /\ tok' = t
    /\ changes' = changes + 1
    /\ held' = held \cup Holding(r, s, t)
    /\ UNCHANGED <<call, origin, at, idn, status>>

\* AdminUpdateUser by another administrator: role and ban.
SetRow == \E r \in [role : Roles, banned : BOOLEAN] \ {row} : Change(r, sess, tok)
RevokeSession == sess.live /\ Change(row, NoSession, tok)
RevokeToken == tok.live /\ Change(row, sess, [tok EXCEPT !.live = FALSE])
ExpireToken == tok.fresh /\ Change(row, sess, [tok EXCEPT !.fresh = FALSE])

Answered == at = "answered" /\ UNCHANGED gateVars

GateNext ==
    \/ sessionMiddleware \/ SkipToken \/ ReadToken \/ ReadOwner
    \/ tokenMiddleware \/ originCheckMiddleware \/ Bind \/ Guard
    \/ SetRow \/ RevokeSession \/ RevokeToken \/ ExpireToken \/ Answered

GateSpec == GateInit /\ [][GateNext]_gateVars

-----------------------------------------------------------------------------
(***************************************************************************)
(* A credential that was dead before the request began has no effect on it:  *)
(* an operation of the administrators runs only if the caller was an         *)
(* unbanned administrator at some moment of this very request, and whatever  *)
(* runs under a session or a token found that session, or that token, alive  *)
(* at some moment of it ("revocation, expiry, ban, and demotion all take     *)
(* effect on the next request", auth/token.go).  The role cached in a        *)
(* session may be days old.                                                  *)
(***************************************************************************)
AuthorityLive ==
    Ran =>
        /\ Served \in AdminOps \cup TokenAdminOps => "admin" \in held
        /\ idn.by # "none" => idn.by \in held

Mutates(o) == Routes[o][1] \notin {"GET", "HEAD"}

(***************************************************************************)
(* The layers together leave no way around: nothing the generated wrapper    *)
(* marks as needing a credential runs without one; a token never manages     *)
(* tokens, never reaches the administrators' area without the admin scope,   *)
(* and changes nothing with the read scope alone; a page of another site     *)
(* changes nothing with the browser's cookie; the operation that runs is the *)
(* one the client's builder meant, and the client decodes what it answers.   *)
(***************************************************************************)
NoWayAround ==
    Ran =>
        /\ Served = call
        /\ status \in Reads[call] \cup Writes[Served][2]
        /\ idn.by = "none" => ~Wrapper[Served][1]
        /\ idn.by = "token" =>
              /\ Served \notin TokenOps \cup TokenAdminOps
              /\ Path[1] = "admin" => "admin" \in idn.scopes
              /\ idn.scopes = {"read"} => ~Mutates(Served)
        /\ ~origin /\ idn.by # "token" => ~Mutates(Served)
=============================================================================
