------------------------------- MODULE MCApi -------------------------------
(***************************************************************************)
(* The HTTP side: a request through the gate, team membership, the session   *)
(* store, accounts, authoring.  Each keeps tables and keys of its own, so a  *)
(* behaviour exercises one of them and leaves the others at rest.  Of        *)
(* authoring it exercises either the rows or the files: no file rule looks   *)
(* at a worth, and no rule about a worth at a file.                          *)
(***************************************************************************)
EXTENDS ApiGate, Teams, Sessions, Accounts, Authoring

VARIABLE part

Parts == {"gate", "teams", "sessions", "accounts", "rows", "files"}

all == <<gateVars, teamVars, sessVars, accVars, authorVars, part>>

\* At rest, the gate has one request of no interest.
AtRest == /\ call = "GetEvent" /\ origin = TRUE
          /\ row = [role |-> "player", banned |-> FALSE]
          /\ sess = NoSession /\ tok = NoToken

Init == /\ GateInit /\ TeamInit /\ SessInit /\ AccInit /\ AuthorInit
        /\ part \in Parts
        /\ part # "gate" => AtRest

\* No file is uploaded; no row is updated and every challenge is created alike.
RowsOnly == usedIds' = {}
Plain == [Nil EXCEPT !.init = 1]
FilesOnly == \A r \in AuthorReqs : /\ wreq'[r].op # "update"
                                   /\ wreq'[r].op = "create" => wreq'[r].row = Plain

Next == \/ /\ part = "gate" /\ GateNext
           /\ UNCHANGED <<teamVars, sessVars, accVars, authorVars, part>>
        \/ /\ part = "teams" /\ TeamNext
           /\ UNCHANGED <<gateVars, sessVars, accVars, authorVars, part>>
        \/ /\ part = "sessions" /\ SessNext
           /\ UNCHANGED <<gateVars, teamVars, accVars, authorVars, part>>
        \/ /\ part = "accounts" /\ AccNext
           /\ UNCHANGED <<gateVars, teamVars, sessVars, authorVars, part>>
        \/ /\ part \in {"rows", "files"} /\ AuthorNext
           /\ IF part = "rows" THEN RowsOnly ELSE FilesOnly
           /\ UNCHANGED <<gateVars, teamVars, sessVars, accVars, part>>

Spec == Init /\ [][Next]_all

\* Requests are alike, and so are users, and so are the ids of teams, of
\* accounts and of attachments, and addresses.  The instance gives teams,
\* accounts, addresses and attachments one set of ids.
Alike == Permutations(TeamReqs) \cup Permutations(Users) \cup Permutations(TeamIds)
=============================================================================
