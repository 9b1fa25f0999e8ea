------------------------------- MODULE Teams -------------------------------
(***************************************************************************)
(* Team membership: teams.Service over the tables teams and team_members.    *)
(* A request is a sequence of statements; Join and Leave run theirs in a     *)
(* transaction that begins by locking the team's row (LockTeam, FOR UPDATE), *)
(* and the requests of different users, or of one user twice, interleave     *)
(* between statements.  What a transaction writes is visible when it         *)
(* commits.  Platform restarts lose the requests, roll their transactions    *)
(* back and run RepairStrandedCaptains before serving again.                 *)
(***************************************************************************)
EXTENDS FiniteSets, Naturals

CONSTANTS
    Users, TeamIds,
    TeamReqs,       \* requests that may be in flight at once
    maxSize,        \* OSCTF_MAX_TEAM_SIZE
    MaxCode         \* bound: invite codes a team goes through

ASSUME TeamAssumption ==
    /\ IsFiniteSet(Users)
    /\ maxSize \in Nat \ {0} /\ MaxCode \in Nat
    /\ "none" \notin TeamIds /\ "free" \notin TeamReqs

NoTeam == [is |-> "none"]
IdleReq == [op |-> "idle"]

VARIABLES
    teams,      \* row of each team id, or NoTeam; "gone" once deleted
    member,     \* team_members: the team of each user, or "none"
    subs,       \* teams that have submissions
    tlock,      \* the request that holds the row lock of a team, or "free"
    treq,       \* what each request in flight is doing
    vacated     \* ghost: teams emptied and kept whose captain is still the old one

teamVars == <<teams, member, subs, tlock, treq, vacated>>

Row(u) == [is |-> "row", captain |-> u, code |-> 0, banned |-> FALSE]

TeamTypeOK ==
    /\ \A t \in TeamIds : teams[t].is \in {"none", "row", "gone"}
    /\ member \in [Users -> TeamIds \cup {"none"}]
    /\ subs \subseteq TeamIds
    /\ tlock \in [TeamIds -> TeamReqs \cup {"free"}]

TeamInit ==
    /\ teams = [t \in TeamIds |-> NoTeam]
    /\ member = [u \in Users |-> "none"]
    /\ subs = {}
    /\ tlock = [t \in TeamIds |-> "free"]
    /\ treq = [r \in TeamReqs |-> IdleReq]
    /\ vacated = {}

(***************************************************************************)
(* The statements of db/gen/teams.sql.go.                                   *)
(***************************************************************************)
Exists(t) == teams[t].is = "row"
ListTeamMembers(m, t) == {u \in Users : m[u] = t}
CountTeamMembers(t) == Cardinality(ListTeamMembers(member, t))
GetTeamByInviteCode(t, c) == Exists(t) /\ teams[t].code = c

\* Faulty variant of LockTeam (mutation checks).
MutLockTeam(r, t) == tlock' = tlock

\* SELECT ... FOR UPDATE: waits for the lock, then holds it.
LockTeam(r, t) == tlock[t] = "free" /\ tlock' = [tlock EXCEPT ![t] = r]
Unlock(t) == tlock' = [tlock EXCEPT ![t] = "free"]

\* A plain UPDATE of the row waits for its lock as well.
UpdateTeam(t, f, v) ==
    /\ tlock[t] = "free"
    /\ teams' = [teams EXCEPT ![t][f] = v]

Begin(r, rec) == treq[r] = IdleReq /\ treq' = [treq EXCEPT ![r] = rec]
Goto(r, rec) == treq' = [treq EXCEPT ![r] = rec]
Return(r) == Goto(r, IdleReq)
On(r, op) == treq[r].op = op

(***************************************************************************)
(* Create: one transaction, the team and its captain as first member; the    *)
(* unique index on members makes it fail as a whole.                         *)
(***************************************************************************)
Create(r, u) ==
    /\ treq[r] = IdleReq
    /\ \E t \in TeamIds :
        /\ teams[t] = NoTeam
        /\ member[u] = "none"
        /\ teams' = [teams EXCEPT ![t] = Row(u)]
        /\ member' = [member EXCEPT ![u] = t]
    /\ UNCHANGED <<subs, tlock, treq, vacated>>

(***************************************************************************)
(* Join.                                                                    *)
(***************************************************************************)
JoinLookup(r, u) ==
    \E t \in TeamIds, c \in 0..MaxCode :
        /\ GetTeamByInviteCode(t, c) /\ ~teams[t].banned
        /\ Begin(r, [op |-> "joinLock", u |-> u, t |-> t])
        /\ UNCHANGED <<teams, member, subs, tlock, vacated>>

JoinLock(r) ==
    /\ On(r, "joinLock")
    /\ LET t == treq[r].t IN
       IF ~Exists(t) \/ teams[t].banned
       THEN tlock[t] = "free" /\ Return(r) /\ UNCHANGED tlock
       ELSE LockTeam(r, t) /\ Goto(r, [treq[r] EXCEPT !.op = "joinCount"])
    /\ UNCHANGED <<teams, member, subs, vacated>>

JoinCount(r) ==
    /\ On(r, "joinCount")
    /\ LET t == treq[r].t IN
       IF CountTeamMembers(t) >= maxSize
       THEN Return(r) /\ Unlock(t)
       ELSE Goto(r, [treq[r] EXCEPT !.op = "joinAdd"]) /\ UNCHANGED tlock
    /\ UNCHANGED <<teams, member, subs, vacated>>

\* uq_team_members_user refuses a second membership, the foreign key a team
\* that is gone.
JoinAdd(r) ==
    /\ On(r, "joinAdd")
    /\ LET t == treq[r].t  u == treq[r].u IN
       /\ member' = IF member[u] = "none" /\ Exists(t)
                    THEN [member EXCEPT ![u] = t] ELSE member
       /\ Unlock(t)
    /\ Return(r)
    /\ UNCHANGED <<teams, subs, vacated>>

(***************************************************************************)
(* Leave.  GetUserTeam runs before the transaction; the captain is decided   *)
(* from the row read again under the lock.                                   *)
(***************************************************************************)
LeaveLookup(r, u) ==
    /\ member[u] # "none"
    /\ Begin(r, [op |-> "leaveLock", u |-> u, t |-> member[u],
                 captain |-> teams[member[u]].captain])
    /\ UNCHANGED <<teams, member, subs, tlock, vacated>>

LeaveLock(r) ==
    /\ On(r, "leaveLock")
    /\ LET t == treq[r].t IN
       IF ~Exists(t)
       THEN Return(r) /\ UNCHANGED tlock     \* already gone
       ELSE LockTeam(r, t) /\ Goto(r, [treq[r] EXCEPT !.op = "leaveDo"])
    /\ UNCHANGED <<teams, member, subs, vacated>>

\* Faulty variant of Captain (mutation checks).
MutCaptain(r) == treq[r].captain

\* Whether captaincy moves: from the locked row, or from the stale one.
Captain(r) == teams[treq[r].t].captain
\* RemoveTeamMember, then: the empty team deleted or kept, captaincy moved to
\* the first by joined_at (the start of the joining transaction, so not
\* always the order in which members were added), or nothing; then commit.
LeaveDo(r) ==
    /\ On(r, "leaveDo")
    /\ LET t == treq[r].t
           u == treq[r].u
           left == [member EXCEPT ![u] = IF @ = t THEN "none" ELSE @]
           rest == ListTeamMembers(left, t)
       IN /\ member' = left
          /\ Unlock(t)
          /\ \/ /\ rest = {} /\ t \notin subs
                /\ teams' = [teams EXCEPT ![t] = [is |-> "gone"]]
                /\ UNCHANGED vacated
             \/ /\ rest = {} /\ t \in subs
                /\ vacated' = vacated \cup {t}
                /\ UNCHANGED teams
             \/ /\ rest # {} /\ Captain(r) = u
                /\ \E first \in rest : teams' = [teams EXCEPT ![t].captain = first]
                /\ vacated' = vacated \ {t}
             \/ /\ rest # {} /\ Captain(r) # u
                /\ UNCHANGED <<teams, vacated>>
    /\ Return(r)
    /\ UNCHANGED subs

(***************************************************************************)
(* A captain-only operation: RequireCaptain, then the update of the row.     *)
(* Rename is the same with the name, a column that nothing here reads.       *)
(***************************************************************************)
RequireCaptain(r, u) ==
    \E t \in TeamIds :
        /\ Exists(t) /\ teams[t].captain = u
        /\ Begin(r, [op |-> "newCode", u |-> u, t |-> t])
        /\ UNCHANGED <<teams, member, subs, tlock, vacated>>

RegenerateInviteCode(r) ==
    /\ On(r, "newCode")
    /\ LET t == treq[r].t IN
       \/ ~Exists(t) /\ UNCHANGED teams
       \/ /\ Exists(t) /\ teams[t].code < MaxCode
          /\ UpdateTeam(t, "code", teams[t].code + 1)
    /\ Return(r)
    /\ UNCHANGED <<member, subs, tlock, vacated>>

\* AdminUpdate: the banned flag (hidden, the other, is read by no operation
\* of this module).
AdminUpdate(t) ==
    /\ Exists(t)
    /\ UpdateTeam(t, "banned", ~teams[t].banned)
    /\ UNCHANGED <<member, subs, tlock, treq, vacated>>

\* A member submits a flag: the row refers to the team, so the insert waits
\* for whoever has it locked.
Submitted(u) ==
    /\ member[u] # "none" /\ tlock[member[u]] = "free"
    /\ subs' = subs \cup {member[u]}
    /\ UNCHANGED <<teams, member, tlock, treq, vacated>>

\* RepairStrandedCaptains, for every team at once.
Stranded(t) ==
    /\ Exists(t)
    /\ ListTeamMembers(member, t) # {}
    /\ member[teams[t].captain] # t

RepairStrandedCaptains ==
    LET stranded == {t \in TeamIds : Stranded(t)} IN
    /\ \E first \in [stranded -> Users] :
        /\ \A t \in stranded : member[first[t]] = t
        /\ teams' = [t \in TeamIds |->
                        IF t \in stranded THEN [teams[t] EXCEPT !.captain = first[t]]
                        ELSE teams[t]]
    /\ vacated' = vacated \ stranded

Restart ==
    /\ treq' = [r \in TeamReqs |-> IdleReq]
    /\ tlock' = [t \in TeamIds |-> "free"]
    /\ RepairStrandedCaptains
    /\ UNCHANGED <<member, subs>>

TeamNext ==
    \/ \E r \in TeamReqs :
        \/ \E u \in Users : \/ Create(r, u) \/ JoinLookup(r, u)
                            \/ LeaveLookup(r, u) \/ RequireCaptain(r, u)
        \/ JoinLock(r) \/ JoinCount(r) \/ JoinAdd(r)
        \/ LeaveLock(r) \/ LeaveDo(r) \/ RegenerateInviteCode(r)
    \/ \E t \in TeamIds : AdminUpdate(t)
    \/ \E u \in Users : Submitted(u)
    \/ Restart

TeamSpec == TeamInit /\ [][TeamNext]_teamVars

-----------------------------------------------------------------------------
(***************************************************************************)
(* Joins that race never overrun the team size: the count and the insert     *)
(* are under the row lock (Join's comment in teams/service.go).              *)
(***************************************************************************)
TeamSizeHeld == \A t \in TeamIds : CountTeamMembers(t) <= maxSize

(***************************************************************************)
(* Members who leave at once never strand a team: the captain of a team with *)
(* members is one of them, except in a team that everyone left, that was     *)
(* kept for its submissions, and that someone joined again.                  *)
(***************************************************************************)
CaptainKept == \A t \in TeamIds : Stranded(t) => t \in vacated

(***************************************************************************)
(* RepairStrandedCaptains' comment says a captain who is no member is the    *)
(* work of older builds, "now prevented in Leave".                           *)
(***************************************************************************)
CaptainIsMember == \A t \in TeamIds : ~Stranded(t)
=============================================================================
