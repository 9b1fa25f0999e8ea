---------------------------- MODULE TeamsProofs ----------------------------
(***************************************************************************)
(* Team size and captaincy for any users, teams and requests in flight.      *)
(*                                                                           *)
(* TeamSizeHeld needs that what a join counted is still so when it inserts:  *)
(* it is inside the row lock (Inside) and nobody else adds members of that   *)
(* team (Room).  CaptainKept needs that a team without members is one that   *)
(* was kept when it emptied (Emptied): it is how a member can come to a team *)
(* whose captain is gone.                                                    *)
(***************************************************************************)
EXTENDS Teams, FiniteSetTheorems, TLAPS

Gone == [is |-> "gone"]
RowType == [is : {"row"}, captain : Users, code : Nat, banned : BOOLEAN]

ReqType == {IdleReq}
    \cup [op : {"joinLock", "joinCount", "joinAdd", "newCode"}, u : Users, t : TeamIds]
    \cup [op : {"leaveLock", "leaveDo"}, u : Users, t : TeamIds, captain : Users]

Typed ==
    /\ teams \in [TeamIds -> {NoTeam, Gone} \cup RowType]
    /\ member \in [Users -> TeamIds \cup {"none"}]
    /\ tlock \in [TeamIds -> TeamReqs \cup {"free"}]
    /\ treq \in [TeamReqs -> ReqType]

\* A member's team exists (the foreign key).
Housed == \A u \in Users : member[u] # "none" => Exists(member[u])

\* A request works on a team that was created once.
Known == \A r \in TeamReqs : treq[r] # IdleReq => teams[treq[r].t] # NoTeam

\* Between the lock and the commit a request holds the row lock.
Inside == \A r \in TeamReqs :
    treq[r].op \in {"joinCount", "joinAdd", "leaveDo"} => tlock[treq[r].t] = r

\* What a join counted is still so when it inserts.
Room == \A r \in TeamReqs :
    treq[r].op = "joinAdd" => CountTeamMembers(treq[r].t) < maxSize

\* A team without members is one that was kept when everyone had left.
Emptied == \A t \in TeamIds :
    Exists(t) /\ ListTeamMembers(member, t) = {} => t \in vacated

Tables == TeamSizeHeld /\ CaptainKept /\ Emptied /\ Housed

IInv == Typed /\ Known /\ Inside /\ Room /\ Tables

-----------------------------------------------------------------------------
\* Members are finitely many, and fewer when some leave.
LEMMA CountType ==
  ASSUME NEW m, NEW t
  PROVE  /\ IsFiniteSet(ListTeamMembers(m, t))
         /\ Cardinality(ListTeamMembers(m, t)) \in Nat
  <1>1. ListTeamMembers(m, t) \in SUBSET Users
    BY DEF ListTeamMembers
  <1>2. IsFiniteSet(ListTeamMembers(m, t))
    BY <1>1, FS_Subset, TeamAssumption
  <1> QED BY <1>2, FS_CardinalityType

\* Fewer members, no greater count.
LEMMA CountShrinks ==
  ASSUME NEW m, NEW n, NEW t, ListTeamMembers(n, t) \subseteq ListTeamMembers(m, t)
  PROVE  Cardinality(ListTeamMembers(n, t)) <= Cardinality(ListTeamMembers(m, t))
  BY CountType, FS_Subset

\* One member more, one more at most.
LEMMA CountGrows ==
  ASSUME NEW m, NEW n, NEW t, NEW u,
         ListTeamMembers(n, t) = ListTeamMembers(m, t) \cup {u}
  PROVE  Cardinality(ListTeamMembers(n, t)) <= Cardinality(ListTeamMembers(m, t)) + 1
  <1>1. IsFiniteSet(ListTeamMembers(m, t)) /\ Cardinality(ListTeamMembers(m, t)) \in Nat
    BY CountType
  <1> QED BY <1>1, FS_AddElement

\* A row keeps whether it is there and who is captain.
SameTeams == \A t \in TeamIds :
    /\ teams'[t].is = teams[t].is
    /\ teams[t].is = "row" => teams'[t].captain = teams[t].captain

\* Requests that only look, lock or change other columns leave the tables right.
LEMMA TablesKept ==
  ASSUME Typed, Tables, SameTeams, UNCHANGED <<member, vacated>>
  PROVE  Tables'
  <1>1. TeamSizeHeld'
    BY DEF Tables, TeamSizeHeld, CountTeamMembers, ListTeamMembers
  <1>2. CaptainKept'
    BY DEF Tables, CaptainKept, Stranded, Exists, ListTeamMembers, SameTeams
  <1>3. Emptied'
    BY DEF Tables, Emptied, Exists, ListTeamMembers, SameTeams
  <1>4. Housed'
    BY DEF Tables, Housed, Exists, SameTeams, Typed
  <1> QED BY <1>1, <1>2, <1>3, <1>4 DEF Tables

\* A request that is not about to insert, or that has left the lock, asks for no
\* room; the others keep theirs while nobody joins.
LEMMA RoomKept ==
  ASSUME Room, NEW r \in TeamReqs, UNCHANGED member,
         \A x \in TeamReqs : x # r => treq'[x] = treq[x],
         treq'[r].op # "joinAdd"
  PROVE  Room'
  BY DEF Room, CountTeamMembers, ListTeamMembers

-----------------------------------------------------------------------------
\* Empty tables and no requests.
LEMMA InitIInv == TeamInit => IInv
  <1> SUFFICES ASSUME TeamInit PROVE IInv
    OBVIOUS
  <1>1. Typed
    BY DEF TeamInit, Typed, ReqType
  <1>2. Known /\ Inside /\ Room
    BY DEF TeamInit, Known, Inside, Room, IdleReq
  <1>3. \A t \in TeamIds : ~Exists(t) /\ ListTeamMembers(member, t) = {}
    BY TeamAssumption DEF TeamInit, Exists, NoTeam, ListTeamMembers
  <1>4. TeamSizeHeld
    BY <1>3, FS_EmptySet, TeamAssumption DEF TeamSizeHeld, CountTeamMembers
  <1>5. Housed
    BY DEF TeamInit, Housed
  <1> QED BY <1>1, <1>2, <1>3, <1>4, <1>5 DEF IInv, Tables, CaptainKept, Stranded, Emptied

\* Create: a new team whose captain is its only member.
LEMMA CreateKeeps ==
  ASSUME IInv, NEW r \in TeamReqs, NEW u \in Users, Create(r, u)
  PROVE  IInv'
  <1>1. PICK t \in TeamIds :
          /\ teams[t] = NoTeam
          /\ member[u] = "none"
          /\ teams' = [teams EXCEPT ![t] = Row(u)]
          /\ member' = [member EXCEPT ![u] = t]
    BY DEF Create
  <1>2. UNCHANGED <<tlock, treq, vacated>>
    BY DEF Create
  <1>3. Row(u) \in RowType
    BY DEF Row, RowType
  <1>4. Typed'
    BY <1>1, <1>2, <1>3 DEF IInv, Typed
  <1>5. ~Exists(t) /\ Exists(t)' /\ teams'[t].captain = u
    BY <1>1 DEF IInv, Typed, Exists, NoTeam, Row
  <1>6. \A x \in TeamIds : x # t => teams'[x] = teams[x]
    BY <1>1 DEF IInv, Typed
  <1>7. \A v \in Users : member[v] # t
    BY <1>5, TeamAssumption DEF IInv, Tables, Housed
  <1>8. ListTeamMembers(member', t) = {u}
    BY <1>1, <1>7 DEF IInv, Typed, ListTeamMembers
  <1>9. \A x \in TeamIds : x # t => ListTeamMembers(member', x) = ListTeamMembers(member, x)
    BY <1>1, TeamAssumption DEF IInv, Typed, ListTeamMembers
  <1>10. TeamSizeHeld'
    <2>1. Cardinality({u}) = 1
      BY FS_Singleton
    <2>2. \A x \in TeamIds : Cardinality(ListTeamMembers(member', x)) <= maxSize
      BY <1>8, <1>9, <2>1, TeamAssumption
      DEF IInv, Tables, TeamSizeHeld, CountTeamMembers
    <2> QED BY <2>2 DEF TeamSizeHeld, CountTeamMembers
  <1>11. CaptainKept'
    BY <1>1, <1>2, <1>5, <1>6, <1>8, <1>9, TeamAssumption
    DEF IInv, Typed, Tables, CaptainKept, Stranded, Exists, ListTeamMembers
  <1>12. Emptied'
    BY <1>2, <1>6, <1>8, <1>9 DEF IInv, Tables, Emptied, Exists
  <1>13. Housed'
    BY <1>1, <1>5, <1>6 DEF IInv, Typed, Tables, Housed, Exists
  <1>14. Known' /\ Inside' /\ Room'
    <2>1. \A x \in TeamReqs : treq[x] # IdleReq => treq[x].t \in TeamIds /\ treq[x].t # t
      BY <1>1 DEF IInv, Typed, Known, ReqType
    <2>2. Known'
      BY <1>2, <1>6, <2>1 DEF IInv, Known
    <2>3. Room'
      BY <1>2, <1>9, <2>1 DEF IInv, Room, CountTeamMembers, IdleReq
    <2>4. Inside'
      BY <1>2 DEF IInv, Inside
    <2> QED BY <2>2, <2>3, <2>4
  <1> QED BY <1>4, <1>10, <1>11, <1>12, <1>13, <1>14 DEF IInv, Tables

\* A request that looks something up and goes on to wait for the lock, or ends.
LEMMA LookupKeeps ==
  ASSUME IInv, NEW r \in TeamReqs, NEW rec \in ReqType,
         treq' = [treq EXCEPT ![r] = rec],
         rec # IdleReq => teams[rec.t] # NoTeam,
         rec.op \notin {"joinCount", "joinAdd", "leaveDo"},
         UNCHANGED <<teams, member, tlock, vacated>>
  PROVE  IInv'
  <1>1. Typed'
    BY DEF IInv, Typed
  <1>2. SameTeams
    BY DEF SameTeams
  <1>3. Tables'
    BY <1>2, TablesKept DEF IInv
  <1>4. Known' /\ Inside'
    BY DEF IInv, Typed, Known, Inside
  <1>5. Room'
    BY RoomKept DEF IInv, Typed
  <1> QED BY <1>1, <1>3, <1>4, <1>5 DEF IInv

\* A request that takes or gives back the lock of the team it works on and goes
\* on or ends, without touching the tables.
LEMMA LockingKeeps ==
  ASSUME IInv, NEW r \in TeamReqs, NEW rec \in ReqType, NEW t \in TeamIds,
         NEW w \in TeamReqs \cup {"free"},
         treq' = [treq EXCEPT ![r] = rec],
         tlock' = [tlock EXCEPT ![t] = w],
         tlock[t] \in {r, "free"}, treq[r].t = t,
         rec # IdleReq => rec.t = t /\ teams[t] # NoTeam,
         rec.op \in {"joinCount", "joinAdd", "leaveDo"} => w = r,
         rec.op = "joinAdd" => CountTeamMembers(t) < maxSize,
         UNCHANGED <<teams, member, vacated>>
  PROVE  IInv'
  <1>1. Typed'
    BY DEF IInv, Typed
  <1>2. SameTeams
    BY DEF SameTeams
  <1>3. Tables'
    BY <1>2, TablesKept DEF IInv
  <1>4. Known'
    BY DEF IInv, Typed, Known
  <1>5. Inside'
    <2> SUFFICES ASSUME NEW x \in TeamReqs,
                        treq'[x].op \in {"joinCount", "joinAdd", "leaveDo"}
                 PROVE  tlock'[treq'[x].t] = x
      BY DEF Inside
    <2>1. CASE x = r
      <3>1. treq'[x] = rec /\ rec # IdleReq
        BY <2>1 DEF IInv, Typed, IdleReq
      <3> QED BY <2>1, <3>1 DEF IInv, Typed
    <2>2. CASE x # r
      <3>1. treq'[x] = treq[x] /\ tlock[treq[x].t] = x
        BY <2>2 DEF IInv, Typed, Inside
      <3>2. treq[x].t # t
        BY <2>2, <3>1, TeamAssumption
      <3> QED BY <3>1, <3>2 DEF IInv, Typed
    <2> QED BY <2>1, <2>2
  <1>6. Room'
    <2>1. \A y : CountTeamMembers(y)' = CountTeamMembers(y)
      BY DEF CountTeamMembers, ListTeamMembers
    <2>2. \A x \in TeamReqs : x # r => treq'[x] = treq[x]
      BY DEF IInv, Typed
    <2>3. treq'[r] = rec
      BY DEF IInv, Typed
    <2>4. rec.op = "joinAdd" => rec.t = t
      BY DEF IdleReq
    <2> QED BY <2>1, <2>2, <2>3, <2>4 DEF IInv, Room
  <1> QED BY <1>1, <1>3, <1>4, <1>5, <1>6 DEF IInv

\* Join up to the lock: the invite code.
LEMMA JoinLookupKeeps ==
  ASSUME IInv, NEW r \in TeamReqs, NEW u \in Users, JoinLookup(r, u)
  PROVE  IInv'
  <1>1. PICK t \in TeamIds, c \in 0..MaxCode :
          /\ GetTeamByInviteCode(t, c)
          /\ Begin(r, [op |-> "joinLock", u |-> u, t |-> t])
          /\ UNCHANGED <<teams, member, subs, tlock, vacated>>
    BY DEF JoinLookup
  <1> DEFINE rec == [op |-> "joinLock", u |-> u, t |-> t]
  <1>2. rec \in ReqType /\ rec.t = t /\ rec.op = "joinLock"
    BY DEF ReqType
  <1>3. teams[t] # NoTeam
    BY <1>1 DEF GetTeamByInviteCode, Exists, NoTeam
  <1>4. treq' = [treq EXCEPT ![r] = rec]
    BY <1>1 DEF Begin
  <1> HIDE DEF rec
  <1> QED BY <1>1, <1>2, <1>3, <1>4, LookupKeeps

\* Leave up to the lock: the team of the user.
LEMMA LeaveLookupKeeps ==
  ASSUME IInv, NEW r \in TeamReqs, NEW u \in Users, LeaveLookup(r, u)
  PROVE  IInv'
  <1> DEFINE rec == [op |-> "leaveLock", u |-> u, t |-> member[u],
                     captain |-> teams[member[u]].captain]
  <1>1. member[u] \in TeamIds /\ Exists(member[u])
    BY DEF LeaveLookup, IInv, Typed, Tables, Housed
  <1>2. teams[member[u]] \in RowType
    BY <1>1 DEF IInv, Typed, Exists, NoTeam, Gone
  <1>3. teams[member[u]].captain \in Users /\ teams[member[u]] # NoTeam
    BY <1>1, <1>2 DEF RowType, Exists, NoTeam
  <1>4. rec \in ReqType /\ rec.t = member[u] /\ rec.op = "leaveLock"
    BY <1>1, <1>3 DEF ReqType
  <1>5. treq' = [treq EXCEPT ![r] = rec] /\ UNCHANGED <<teams, member, tlock, vacated>>
    BY DEF LeaveLookup, Begin
  <1> HIDE DEF rec
  <1> QED BY <1>3, <1>4, <1>5, LookupKeeps

\* A captain's operation up to its update.
LEMMA RequireCaptainKeeps ==
  ASSUME IInv, NEW r \in TeamReqs, NEW u \in Users, RequireCaptain(r, u)
  PROVE  IInv'
  <1>1. PICK t \in TeamIds :
          /\ Exists(t)
          /\ Begin(r, [op |-> "newCode", u |-> u, t |-> t])
          /\ UNCHANGED <<teams, member, subs, tlock, vacated>>
    BY DEF RequireCaptain
  <1> DEFINE rec == [op |-> "newCode", u |-> u, t |-> t]
  <1>2. rec \in ReqType /\ rec.t = t /\ rec.op = "newCode"
    BY DEF ReqType
  <1>3. teams[t] # NoTeam
    BY <1>1 DEF Exists, NoTeam
  <1>4. treq' = [treq EXCEPT ![r] = rec]
    BY <1>1 DEF Begin
  <1> HIDE DEF rec
  <1> QED BY <1>1, <1>2, <1>3, <1>4, LookupKeeps

\* A join or a leave that goes on keeps its team.
LEMMA GoesOn ==
  ASSUME NEW q \in ReqType
  PROVE  /\ q.op # "idle" => q.u \in Users /\ q.t \in TeamIds
         /\ \A o \in {"joinCount", "joinAdd"} :
              q.op \in {"joinLock", "joinCount"} =>
                /\ [q EXCEPT !.op = o] \in ReqType
                /\ [q EXCEPT !.op = o].t = q.t
                /\ [q EXCEPT !.op = o].op = o
         /\ q.op = "leaveLock" =>
              /\ [q EXCEPT !.op = "leaveDo"] \in ReqType
              /\ [q EXCEPT !.op = "leaveDo"].t = q.t
              /\ [q EXCEPT !.op = "leaveDo"].op = "leaveDo"
  BY DEF ReqType, IdleReq

\* A request that has ended.
LEMMA IdleType == IdleReq \in ReqType /\ IdleReq.op = "idle"
  BY DEF IdleReq, ReqType

\* Join takes the row lock, or finds the team banned or gone.
LEMMA JoinLockKeeps ==
  ASSUME IInv, NEW r \in TeamReqs, JoinLock(r)
  PROVE  IInv'
  <1> DEFINE t == treq[r].t
             rec == [treq[r] EXCEPT !.op = "joinCount"]
  <1>1. treq[r] \in ReqType /\ treq[r].op = "joinLock"
    BY DEF IInv, Typed, JoinLock, On
  <1>2. t \in TeamIds /\ rec \in ReqType /\ rec.t = t /\ rec.op = "joinCount"
    BY <1>1, GoesOn
  <1>3. teams[t] # NoTeam
    BY <1>1 DEF IInv, Known, IdleReq
  <1>4. UNCHANGED <<teams, member, vacated>>
    BY DEF JoinLock
  <1>5. CASE ~Exists(t) \/ teams[t].banned
    <2>1. treq' = [treq EXCEPT ![r] = IdleReq] /\ UNCHANGED tlock
      BY <1>5 DEF JoinLock, Return, Goto
    <2> QED BY <1>4, <2>1, IdleType, LookupKeeps
  <1>6. CASE ~(~Exists(t) \/ teams[t].banned)
    <2>1. /\ treq' = [treq EXCEPT ![r] = rec]
          /\ tlock[t] = "free" /\ tlock' = [tlock EXCEPT ![t] = r]
      BY <1>6 DEF JoinLock, LockTeam, Goto
    <2> HIDE DEF rec
    <2> QED BY <1>2, <1>3, <1>4, <2>1, LockingKeeps
  <1> QED BY <1>5, <1>6

\* Join counts inside the lock: full, or room for one.
LEMMA JoinCountKeeps ==
  ASSUME IInv, NEW r \in TeamReqs, JoinCount(r)
  PROVE  IInv'
  <1> DEFINE t == treq[r].t
             rec == [treq[r] EXCEPT !.op = "joinAdd"]
  <1>1. treq[r] \in ReqType /\ treq[r].op = "joinCount"
    BY DEF IInv, Typed, JoinCount, On
  <1>2. t \in TeamIds /\ rec \in ReqType /\ rec.t = t /\ rec.op = "joinAdd"
    BY <1>1, GoesOn
  <1>3. teams[t] # NoTeam /\ tlock[t] = r
    BY <1>1 DEF IInv, Known, Inside, IdleReq
  <1>4. UNCHANGED <<teams, member, vacated>>
    BY DEF JoinCount
  <1>5. CASE CountTeamMembers(t) >= maxSize
    <2>1. treq' = [treq EXCEPT ![r] = IdleReq] /\ tlock' = [tlock EXCEPT ![t] = "free"]
      BY <1>5 DEF JoinCount, Return, Goto, Unlock
    <2> QED BY <1>2, <1>3, <1>4, <2>1, IdleType, LockingKeeps
  <1>6. CASE ~(CountTeamMembers(t) >= maxSize)
    <2>1. treq' = [treq EXCEPT ![r] = rec] /\ UNCHANGED tlock
      BY <1>6 DEF JoinCount, Goto
    <2>2. tlock' = [tlock EXCEPT ![t] = r]
      BY <1>2, <1>3, <2>1 DEF IInv, Typed
    <2>3. CountTeamMembers(t) < maxSize
      <3>1. CountTeamMembers(t) \in Nat
        BY CountType DEF CountTeamMembers
      <3> QED BY <1>6, <3>1, TeamAssumption
    <2> HIDE DEF rec
    <2> QED BY <1>2, <1>3, <1>4, <2>1, <2>2, <2>3, LockingKeeps
  <1> QED BY <1>5, <1>6

\* Leave takes the row lock, or finds the team gone.
LEMMA LeaveLockKeeps ==
  ASSUME IInv, NEW r \in TeamReqs, LeaveLock(r)
  PROVE  IInv'
  <1> DEFINE t == treq[r].t
             rec == [treq[r] EXCEPT !.op = "leaveDo"]
  <1>1. treq[r] \in ReqType /\ treq[r].op = "leaveLock"
    BY DEF IInv, Typed, LeaveLock, On
  <1>2. t \in TeamIds /\ rec \in ReqType /\ rec.t = t /\ rec.op = "leaveDo"
    BY <1>1, GoesOn
  <1>3. teams[t] # NoTeam
    BY <1>1 DEF IInv, Known, IdleReq
  <1>4. UNCHANGED <<teams, member, vacated>>
    BY DEF LeaveLock
  <1>5. CASE ~Exists(t)
    <2>1. treq' = [treq EXCEPT ![r] = IdleReq] /\ UNCHANGED tlock
      BY <1>5 DEF LeaveLock, Return, Goto
    <2> QED BY <1>4, <2>1, IdleType, LookupKeeps
  <1>6. CASE Exists(t)
    <2>1. /\ treq' = [treq EXCEPT ![r] = rec]
          /\ tlock[t] = "free" /\ tlock' = [tlock EXCEPT ![t] = r]
      BY <1>6 DEF LeaveLock, LockTeam, Goto
    <2> HIDE DEF rec
    <2> QED BY <1>2, <1>3, <1>4, <2>1, LockingKeeps
  <1> QED BY <1>5, <1>6

\* The end of a transaction on team t: it changed at most the members of t, and
\* whoever else is about to insert works on another team.
LEMMA CommitKeeps ==
  ASSUME IInv, NEW r \in TeamReqs, NEW t \in TeamIds,
         tlock[t] = r,
         treq' = [treq EXCEPT ![r] = IdleReq],
         tlock' = [tlock EXCEPT ![t] = "free"],
         teams' \in [TeamIds -> {NoTeam, Gone} \cup RowType],
         member' \in [Users -> TeamIds \cup {"none"}],
         \A x \in TeamIds : teams[x] # NoTeam => teams'[x] # NoTeam,
         \A x \in TeamIds : x # t =>
            ListTeamMembers(member', x) = ListTeamMembers(member, x)
  PROVE  Typed' /\ Known' /\ Inside' /\ Room'
  <1>1. Typed'
    BY IdleType DEF IInv, Typed
  <1>2. \A x \in TeamReqs : treq'[x] = IF x = r THEN IdleReq ELSE treq[x]
    BY DEF IInv, Typed
  <1>3. \A x \in TeamReqs : treq[x] \in ReqType
    BY DEF IInv, Typed
  <1>4. \A x \in TeamReqs : treq[x].op # "idle" => treq[x].t \in TeamIds
    BY <1>3, GoesOn
  <1>5. Known'
    <2> SUFFICES ASSUME NEW x \in TeamReqs, treq'[x] # IdleReq
                 PROVE  teams'[treq'[x].t] # NoTeam
      BY DEF Known
    <2>1. treq'[x] = treq[x] /\ treq[x] # IdleReq
      BY <1>2
    <2>2. treq[x].op # "idle"
      BY <1>3, <2>1 DEF ReqType
    <2> QED BY <1>4, <2>1, <2>2 DEF IInv, Known
  <1>6. ASSUME NEW x \in TeamReqs,
               treq'[x].op \in {"joinCount", "joinAdd", "leaveDo"}
        PROVE  treq'[x] = treq[x] /\ treq[x].t \in TeamIds /\ treq[x].t # t
               /\ tlock[treq[x].t] = x
    <2>1. x # r
      BY <1>2, <1>6, IdleType
    <2>2. treq'[x] = treq[x] /\ treq[x].t \in TeamIds
      BY <1>2, <1>4, <1>6, <2>1
    <2>3. tlock[treq[x].t] = x
      BY <1>6, <2>2 DEF IInv, Inside
    <2> QED BY <2>1, <2>2, <2>3
  <1>7. Inside'
    BY <1>6 DEF IInv, Typed, Inside
  <1>8. Room'
    BY <1>6 DEF IInv, Room, CountTeamMembers
  <1> QED BY <1>1, <1>5, <1>7, <1>8

\* Join inserts: the room it counted is still there.
LEMMA JoinAddKeeps ==
  ASSUME IInv, NEW r \in TeamReqs, JoinAdd(r)
  PROVE  IInv'
  <1> DEFINE t == treq[r].t
             u == treq[r].u
  <1>1. treq[r] \in ReqType /\ treq[r].op = "joinAdd"
    BY DEF IInv, Typed, JoinAdd, On
  <1>2. t \in TeamIds /\ u \in Users /\ tlock[t] = r /\ CountTeamMembers(t) < maxSize
    BY <1>1, GoesOn DEF IInv, Inside, Room
  <1>3. /\ member' = IF member[u] = "none" /\ Exists(t)
                      THEN [member EXCEPT ![u] = t] ELSE member
        /\ treq' = [treq EXCEPT ![r] = IdleReq]
        /\ tlock' = [tlock EXCEPT ![t] = "free"]
        /\ UNCHANGED <<teams, vacated>>
    BY DEF JoinAdd, Return, Goto, Unlock
  <1> HIDE DEF t, u
  <1>4. CASE ~(member[u] = "none" /\ Exists(t))
    <2>1. member' = member
      BY <1>3, <1>4
    <2>2. Typed' /\ Known' /\ Inside' /\ Room'
      BY <1>2, <1>3, <2>1, CommitKeeps DEF IInv, Typed
    <2>3. SameTeams
      BY <1>3 DEF SameTeams
    <2>4. Tables'
      BY <1>3, <2>1, <2>3, TablesKept DEF IInv
    <2> QED BY <2>2, <2>4 DEF IInv
  <1>5. CASE member[u] = "none" /\ Exists(t)
    <2>1. member' = [member EXCEPT ![u] = t]
      BY <1>3, <1>5
    <2>2. ListTeamMembers(member', t) = ListTeamMembers(member, t) \cup {u}
      BY <1>2, <2>1 DEF IInv, Typed, ListTeamMembers
    <2>3. \A x \in TeamIds : x # t =>
            ListTeamMembers(member', x) = ListTeamMembers(member, x)
      BY <1>2, <1>5, <2>1, TeamAssumption DEF IInv, Typed, ListTeamMembers
    <2>4. member' \in [Users -> TeamIds \cup {"none"}]
      BY <1>2, <2>1 DEF IInv, Typed
    <2>5. Typed' /\ Known' /\ Inside' /\ Room'
      BY <1>2, <1>3, <2>3, <2>4, CommitKeeps DEF IInv, Typed
    <2>6. TeamSizeHeld'
      <3>1. Cardinality(ListTeamMembers(member', t)) <= Cardinality(ListTeamMembers(member, t)) + 1
        BY <2>2, CountGrows
      <3>2. /\ Cardinality(ListTeamMembers(member', t)) \in Nat
            /\ Cardinality(ListTeamMembers(member, t)) \in Nat
        BY CountType
      <3>3. Cardinality(ListTeamMembers(member', t)) <= maxSize
        BY <1>2, <3>1, <3>2, TeamAssumption DEF CountTeamMembers
      <3>4. \A x \in TeamIds : Cardinality(ListTeamMembers(member', x)) <= maxSize
        BY <2>3, <3>3 DEF IInv, Tables, TeamSizeHeld, CountTeamMembers
      <3> QED BY <3>4 DEF TeamSizeHeld, CountTeamMembers
    <2>7. CaptainKept'
      <3> SUFFICES ASSUME NEW x \in TeamIds, Stranded(x)' PROVE x \in vacated
        BY <1>3 DEF CaptainKept
      <3>1. Exists(x) /\ ListTeamMembers(member', x) # {} /\ member'[teams[x].captain] # x
        BY <1>3 DEF Stranded, Exists
      <3>2. teams[x].captain \in Users
        BY <3>1 DEF IInv, Typed, Exists, NoTeam, Gone, RowType
      <3>3. member[teams[x].captain] # x
        BY <1>5, <2>1, <3>1, <3>2, TeamAssumption DEF IInv, Typed
      <3>4. CASE ListTeamMembers(member, x) = {}
        BY <3>1, <3>4 DEF IInv, Tables, Emptied
      <3>5. CASE ListTeamMembers(member, x) # {}
        BY <3>1, <3>3, <3>5 DEF IInv, Tables, CaptainKept, Stranded
      <3> QED BY <3>4, <3>5
    <2>8. Emptied'
      BY <1>3, <2>2, <2>3 DEF IInv, Tables, Emptied, Exists
    <2>9. Housed'
      BY <1>2, <1>3, <1>5, <2>1 DEF IInv, Typed, Tables, Housed, Exists
    <2> QED BY <2>5, <2>6, <2>7, <2>8, <2>9 DEF IInv, Tables
  <1> QED BY <1>4, <1>5

\* A row whose captain, code or flag changes is still a row.
LEMMA RowUpdated ==
  ASSUME Typed, NEW t \in TeamIds, Exists(t)
  PROVE  /\ teams[t] \in RowType
         /\ \A c \in Users : [teams[t] EXCEPT !.captain = c] \in RowType
                            /\ [teams[t] EXCEPT !.captain = c].captain = c
  BY DEF Typed, Exists, NoTeam, Gone, RowType

\* Leave removes the member and deletes the team, keeps it, moves the
\* captaincy, or does nothing more.
LEMMA LeaveDoKeeps ==
  ASSUME IInv, NEW r \in TeamReqs, LeaveDo(r)
  PROVE  IInv'
  <1> DEFINE t == treq[r].t
             u == treq[r].u
             rest == ListTeamMembers(member', t)
  <1>1. treq[r] \in ReqType /\ treq[r].op = "leaveDo"
    BY DEF IInv, Typed, LeaveDo, On
  <1>2. t \in TeamIds /\ u \in Users /\ tlock[t] = r
    BY <1>1, GoesOn DEF IInv, Inside
  <1>3. /\ member' = [member EXCEPT ![u] = IF @ = t THEN "none" ELSE @]
        /\ treq' = [treq EXCEPT ![r] = IdleReq]
        /\ tlock' = [tlock EXCEPT ![t] = "free"]
    BY DEF LeaveDo, Return, Goto, Unlock
  <1>4. \/ /\ rest = {} /\ teams' = [teams EXCEPT ![t] = Gone] /\ UNCHANGED vacated
        \/ /\ rest = {} /\ vacated' = vacated \cup {t} /\ UNCHANGED teams
        \/ /\ rest # {}
           /\ \E first \in rest : teams' = [teams EXCEPT ![t].captain = first]
           /\ vacated' = vacated \ {t}
        \/ /\ rest # {} /\ teams[t].captain # u /\ UNCHANGED <<teams, vacated>>
    BY DEF LeaveDo, Captain, Gone
  <1> HIDE DEF t, u
  <1>5. member' \in [Users -> TeamIds \cup {"none"}]
    BY <1>2, <1>3 DEF IInv, Typed
  <1>6. /\ rest = ListTeamMembers(member, t) \ {u}
        /\ \A x \in TeamIds : x # t => ListTeamMembers(member', x) = ListTeamMembers(member, x)
        /\ \A v \in Users : v # u => member'[v] = member[v]
        /\ \A v \in Users : \A x \in TeamIds : x # t => (member'[v] = x <=> member[v] = x)
    BY <1>2, <1>3, TeamAssumption DEF IInv, Typed, ListTeamMembers
  <1>7. rest # {} => Exists(t)
    BY <1>2, <1>6, TeamAssumption DEF IInv, Tables, Housed, ListTeamMembers
  <1>8. TeamSizeHeld'
    <2>1. Cardinality(rest) <= Cardinality(ListTeamMembers(member, t))
      BY <1>6, CountShrinks
    <2>2. Cardinality(rest) \in Nat /\ Cardinality(ListTeamMembers(member, t)) \in Nat
      BY CountType
    <2>3. Cardinality(ListTeamMembers(member, t)) <= maxSize
      BY <1>2 DEF IInv, Tables, TeamSizeHeld, CountTeamMembers
    <2>4. Cardinality(rest) <= maxSize
      BY <2>1, <2>2, <2>3, TeamAssumption
    <2>5. \A x \in TeamIds : Cardinality(ListTeamMembers(member', x)) <= maxSize
      BY <1>6, <2>4 DEF IInv, Tables, TeamSizeHeld, CountTeamMembers
    <2> QED BY <2>5 DEF TeamSizeHeld, CountTeamMembers
  <1>9. \A v \in Users : member'[v] # "none" =>
          /\ member'[v] = member[v] /\ member[v] \in TeamIds /\ Exists(member[v])
          /\ member'[v] = t => rest # {}
    BY <1>2, <1>3, <1>5 DEF IInv, Typed, Tables, Housed, ListTeamMembers
  <1>10. CASE rest = {} /\ teams' = [teams EXCEPT ![t] = Gone] /\ UNCHANGED vacated
    <2>1. \A x \in TeamIds : teams'[x] = IF x = t THEN Gone ELSE teams[x]
      BY <1>10 DEF IInv, Typed
    <2>2. Gone # NoTeam /\ Gone.is # "row"
      BY DEF Gone, NoTeam
    <2>3. teams' \in [TeamIds -> {NoTeam, Gone} \cup RowType]
      BY <1>10 DEF IInv, Typed
    <2>4. Typed' /\ Known' /\ Inside' /\ Room'
      <3>1. \A x \in TeamIds : teams[x] # NoTeam => teams'[x] # NoTeam
        BY <2>1, <2>2
      <3> QED BY <1>2, <1>3, <1>5, <1>6, <2>3, <3>1, CommitKeeps
    <2>5. CaptainKept'
      <3> SUFFICES ASSUME NEW x \in TeamIds, Stranded(x)' PROVE x \in vacated
        BY <1>10 DEF CaptainKept
      <3>1. x # t /\ teams'[x] = teams[x]
        BY <2>1, <2>2 DEF Stranded, Exists
      <3>2. Exists(x) /\ ListTeamMembers(member', x) # {} /\ member'[teams[x].captain] # x
        BY <3>1 DEF Stranded, Exists
      <3>3. teams[x].captain \in Users
        BY <3>2, RowUpdated DEF IInv, RowType
      <3> QED BY <1>6, <3>1, <3>2, <3>3 DEF IInv, Tables, CaptainKept, Stranded
    <2>6. Emptied'
      BY <1>6, <1>10, <2>1, <2>2 DEF IInv, Tables, Emptied, Exists
    <2>7. Housed'
      BY <1>9, <1>10, <2>1 DEF Housed, Exists
    <2> QED BY <1>8, <2>4, <2>5, <2>6, <2>7 DEF IInv, Tables
  <1>11. CASE rest = {} /\ vacated' = vacated \cup {t} /\ UNCHANGED teams
    <2>1. Typed' /\ Known' /\ Inside' /\ Room'
      BY <1>2, <1>3, <1>5, <1>6, <1>11, CommitKeeps DEF IInv, Typed
    <2>2. CaptainKept'
      <3> SUFFICES ASSUME NEW x \in TeamIds, Stranded(x)', x # t PROVE x \in vacated
        BY <1>11 DEF CaptainKept
      <3>1. Exists(x) /\ ListTeamMembers(member', x) # {} /\ member'[teams[x].captain] # x
        BY <1>11 DEF Stranded, Exists
      <3>2. teams[x].captain \in Users
        BY <3>1, RowUpdated DEF IInv, RowType
      <3> QED BY <1>6, <3>1, <3>2 DEF IInv, Tables, CaptainKept, Stranded
    <2>3. Emptied'
      BY <1>6, <1>11 DEF IInv, Tables, Emptied, Exists
    <2>4. Housed'
      BY <1>9, <1>11 DEF Housed, Exists
    <2> QED BY <1>8, <2>1, <2>2, <2>3, <2>4 DEF IInv, Tables
  <1>12. CASE /\ rest # {}
              /\ \E first \in rest : teams' = [teams EXCEPT ![t].captain = first]
              /\ vacated' = vacated \ {t}
    <2>1. PICK first \in rest : teams' = [teams EXCEPT ![t].captain = first]
      BY <1>12
    <2>2. first \in Users /\ member'[first] = t
      BY DEF ListTeamMembers
    <2>3. teams' = [teams EXCEPT ![t] = [teams[t] EXCEPT !.captain = first]]
      BY <1>2, <2>1 DEF IInv, Typed
    <2>4. /\ [teams[t] EXCEPT !.captain = first] \in RowType
          /\ [teams[t] EXCEPT !.captain = first].captain = first
      BY <1>2, <1>7, <1>12, <2>2, RowUpdated DEF IInv
    <2>5. /\ teams'[t] \in RowType /\ teams'[t].captain = first
          /\ \A x \in TeamIds : x # t => teams'[x] = teams[x]
      BY <1>2, <2>3, <2>4 DEF IInv, Typed
    <2>6. teams' \in [TeamIds -> {NoTeam, Gone} \cup RowType]
      BY <1>2, <2>3, <2>4 DEF IInv, Typed
    <2>7. teams'[t] # NoTeam /\ teams'[t].is = "row"
      BY <2>5 DEF NoTeam, RowType
    <2>8. Typed' /\ Known' /\ Inside' /\ Room'
      <3>1. \A x \in TeamIds : teams[x] # NoTeam => teams'[x] # NoTeam
        BY <2>5, <2>7
      <3> QED BY <1>2, <1>3, <1>5, <1>6, <2>6, <3>1, CommitKeeps
    <2>9. CaptainKept'
      <3> SUFFICES ASSUME NEW x \in TeamIds, Stranded(x)' PROVE x \in vacated'
        BY DEF CaptainKept
      <3>1. x # t
        BY <2>2, <2>5 DEF Stranded
      <3>2. Exists(x) /\ ListTeamMembers(member', x) # {} /\ member'[teams[x].captain] # x
        BY <2>5, <3>1 DEF Stranded, Exists
      <3>3. teams[x].captain \in Users
        BY <3>2, RowUpdated DEF IInv, RowType
      <3>4. x \in vacated
        BY <1>6, <3>1, <3>2, <3>3 DEF IInv, Tables, CaptainKept, Stranded
      <3> QED BY <1>12, <3>1, <3>4
    <2>10. Emptied'
      BY <1>6, <1>12, <2>5 DEF IInv, Tables, Emptied, Exists
    <2>11. Housed'
      BY <1>9, <2>5, <2>7 DEF Housed, Exists
    <2> QED BY <1>8, <2>8, <2>9, <2>10, <2>11 DEF IInv, Tables
  <1>13. CASE rest # {} /\ teams[t].captain # u /\ UNCHANGED <<teams, vacated>>
    <2>1. Typed' /\ Known' /\ Inside' /\ Room'
      BY <1>2, <1>3, <1>5, <1>6, <1>13, CommitKeeps DEF IInv, Typed
    <2>2. CaptainKept'
      <3> SUFFICES ASSUME NEW x \in TeamIds, Stranded(x)' PROVE x \in vacated
        BY <1>13 DEF CaptainKept
      <3>1. Exists(x) /\ ListTeamMembers(member', x) # {} /\ member'[teams[x].captain] # x
        BY <1>13 DEF Stranded, Exists
      <3>2. teams[x].captain \in Users
        BY <3>1, RowUpdated DEF IInv, RowType
      <3>3. ListTeamMembers(member, x) # {} /\ member[teams[x].captain] # x
        BY <1>6, <1>13, <3>1, <3>2
      <3> QED BY <3>1, <3>3 DEF IInv, Tables, CaptainKept, Stranded
    <2>3. Emptied'
      BY <1>6, <1>13 DEF IInv, Tables, Emptied, Exists
    <2>4. Housed'
      BY <1>9, <1>13 DEF Housed, Exists
    <2> QED BY <1>8, <2>1, <2>2, <2>3, <2>4 DEF IInv, Tables
  <1> QED BY <1>4, <1>10, <1>11, <1>12, <1>13

\* An update of another column of a row.
LEMMA ColumnKeeps ==
  ASSUME IInv, NEW t \in TeamIds, Exists(t), NEW row \in RowType,
         row.captain = teams[t].captain,
         teams' = [teams EXCEPT ![t] = row],
         treq' \in [TeamReqs -> ReqType],
         \A x \in TeamReqs : treq'[x] = treq[x] \/ treq'[x] = IdleReq,
         UNCHANGED <<member, tlock, vacated>>
  PROVE  IInv'
  <1>1. Typed'
    BY DEF IInv, Typed
  <1>2. row.is = "row" /\ row # NoTeam
    BY DEF RowType, NoTeam
  <1>3. \A x \in TeamIds : teams'[x] = IF x = t THEN row ELSE teams[x]
    BY DEF IInv, Typed
  <1>4. SameTeams
    BY <1>2, <1>3 DEF SameTeams, Exists
  <1>5. Tables'
    BY <1>4, TablesKept DEF IInv
  <1>6. Known'
    <2> SUFFICES ASSUME NEW x \in TeamReqs, treq'[x] # IdleReq
                 PROVE  teams'[treq'[x].t] # NoTeam
      BY DEF Known
    <2>1. treq'[x] = treq[x] /\ treq[x] \in ReqType /\ treq[x] # IdleReq
      BY DEF IInv, Typed
    <2>2. treq[x].t \in TeamIds /\ teams[treq[x].t] # NoTeam
      BY <2>1, GoesOn DEF IInv, Known, ReqType
    <2> QED BY <1>2, <1>3, <2>1, <2>2
  <1>7. Inside' /\ Room'
    BY DEF IInv, Inside, Room, CountTeamMembers, ListTeamMembers, IdleReq
  <1> QED BY <1>1, <1>5, <1>6, <1>7 DEF IInv

\* A new invite code.
LEMMA RegenerateKeeps ==
  ASSUME IInv, NEW r \in TeamReqs, RegenerateInviteCode(r)
  PROVE  IInv'
  <1> DEFINE t == treq[r].t
  <1>1. treq[r] \in ReqType /\ treq[r].op = "newCode"
    BY DEF IInv, Typed, RegenerateInviteCode, On
  <1>2. t \in TeamIds
    BY <1>1, GoesOn
  <1>3. treq' = [treq EXCEPT ![r] = IdleReq] /\ UNCHANGED <<member, tlock, vacated>>
    BY DEF RegenerateInviteCode, Return, Goto
  <1>4. CASE UNCHANGED teams
    BY <1>3, <1>4, IdleType, LookupKeeps
  <1>5. CASE Exists(t) /\ UpdateTeam(t, "code", teams[t].code + 1)
    <2> DEFINE row == [teams[t] EXCEPT !["code"] = teams[t].code + 1]
    <2>1. teams[t] \in RowType
      BY <1>2, <1>5, RowUpdated DEF IInv
    <2>2. row \in RowType /\ row.captain = teams[t].captain
      BY <2>1 DEF RowType
    <2>3. teams' = [teams EXCEPT ![t] = row]
      BY <1>2, <1>5 DEF UpdateTeam, IInv, Typed
    <2>4. /\ treq' \in [TeamReqs -> ReqType]
          /\ \A x \in TeamReqs : treq'[x] = treq[x] \/ treq'[x] = IdleReq
      BY <1>3, IdleType DEF IInv, Typed
    <2> HIDE DEF row
    <2> QED BY <1>2, <1>3, <1>5, <2>2, <2>3, <2>4, ColumnKeeps
  <1> QED BY <1>4, <1>5 DEF RegenerateInviteCode

\* An organiser bans or unbans a team.
LEMMA AdminUpdateKeeps ==
  ASSUME IInv, NEW t \in TeamIds, AdminUpdate(t)
  PROVE  IInv'
  <1> DEFINE row == [teams[t] EXCEPT !["banned"] = ~teams[t].banned]
  <1>1. Exists(t) /\ UNCHANGED <<member, tlock, treq, vacated>>
    BY DEF AdminUpdate
  <1>2. teams[t] \in RowType
    BY <1>1, RowUpdated DEF IInv
  <1>3. row \in RowType /\ row.captain = teams[t].captain
    BY <1>2 DEF RowType
  <1>4. teams' = [teams EXCEPT ![t] = row]
    BY DEF AdminUpdate, UpdateTeam, IInv, Typed
  <1>5. /\ treq' \in [TeamReqs -> ReqType]
        /\ \A x \in TeamReqs : treq'[x] = treq[x] \/ treq'[x] = IdleReq
    BY <1>1 DEF IInv, Typed
  <1> HIDE DEF row
  <1> QED BY <1>1, <1>3, <1>4, <1>5, ColumnKeeps

\* A restart rolls back what is in flight and gives every stranded team a
\* captain.
LEMMA RestartKeeps ==
  ASSUME IInv, Restart
  PROVE  IInv'
  <1> DEFINE stranded == {t \in TeamIds : Stranded(t)}
  <1>1. PICK first \in [stranded -> Users] :
          /\ \A t \in stranded : member[first[t]] = t
          /\ teams' = [t \in TeamIds |->
                          IF t \in stranded THEN [teams[t] EXCEPT !.captain = first[t]]
                          ELSE teams[t]]
    BY DEF Restart, RepairStrandedCaptains
  <1>2. /\ vacated' = vacated \ stranded /\ member' = member
        /\ treq' = [r \in TeamReqs |-> IdleReq]
        /\ tlock' = [t \in TeamIds |-> "free"]
    BY DEF Restart, RepairStrandedCaptains
  <1>3. \A t \in stranded :
          /\ t \in TeamIds /\ Exists(t) /\ first[t] \in Users
          /\ [teams[t] EXCEPT !.captain = first[t]] \in RowType
          /\ [teams[t] EXCEPT !.captain = first[t]].captain = first[t]
    BY RowUpdated DEF IInv, Stranded
  <1>4. teams' \in [TeamIds -> {NoTeam, Gone} \cup RowType]
    BY <1>1, <1>3 DEF IInv, Typed
  <1>5. Typed'
    BY <1>2, <1>4, IdleType DEF IInv, Typed
  <1>6. Known' /\ Inside' /\ Room'
    BY <1>2 DEF Known, Inside, Room, IdleReq
  <1>7. \A t \in TeamIds :
          /\ t \in stranded => teams'[t].captain = first[t] /\ teams'[t].is = "row"
          /\ t \notin stranded => teams'[t] = teams[t]
    BY <1>1, <1>3 DEF RowType
  <1>8. TeamSizeHeld'
    BY <1>2 DEF IInv, Tables, TeamSizeHeld, CountTeamMembers, ListTeamMembers
  <1>9. \A t \in TeamIds : ~Stranded(t)'
    BY <1>1, <1>2, <1>7 DEF Stranded, Exists, ListTeamMembers
  <1>10. Emptied'
    <2> SUFFICES ASSUME NEW t \in TeamIds, Exists(t)', ListTeamMembers(member', t) = {}
                 PROVE  t \in vacated'
      BY DEF Emptied
    <2>1. ListTeamMembers(member, t) = {} /\ t \notin stranded
      BY <1>2 DEF Stranded
    <2>2. Exists(t)
      BY <1>7, <2>1 DEF Exists
    <2> QED BY <1>2, <2>1, <2>2 DEF IInv, Tables, Emptied
  <1>11. Housed'
    BY <1>2, <1>3, <1>7 DEF IInv, Typed, Tables, Housed, Exists
  <1> QED BY <1>5, <1>6, <1>8, <1>9, <1>10, <1>11 DEF IInv, Tables, CaptainKept

\* Every step keeps the invariant.
LEMMA NextIInv == IInv /\ [TeamNext]_teamVars => IInv'
  <1> SUFFICES ASSUME IInv, [TeamNext]_teamVars PROVE IInv'
    OBVIOUS
  <1>1. ASSUME UNCHANGED <<teams, member, tlock, treq, vacated>> PROVE IInv'
    <2>1. SameTeams
      BY <1>1 DEF SameTeams
    <2>2. Tables'
      BY <1>1, <2>1, TablesKept DEF IInv
    <2> QED BY <1>1, <2>2 DEF IInv, Typed, Known, Inside, Room, CountTeamMembers, ListTeamMembers
  <1>2. ASSUME NEW u \in Users, Submitted(u) PROVE IInv'
    BY <1>1, <1>2 DEF Submitted
  <1>3. CASE UNCHANGED teamVars
    BY <1>1, <1>3 DEF teamVars
  <1> QED BY <1>2, <1>3, CreateKeeps, JoinLookupKeeps, LeaveLookupKeeps, RequireCaptainKeeps,
             JoinLockKeeps, JoinCountKeeps, JoinAddKeeps, LeaveLockKeeps, LeaveDoKeeps,
             RegenerateKeeps, AdminUpdateKeeps, RestartKeeps DEF TeamNext

-----------------------------------------------------------------------------
(***************************************************************************)
(* However many joins race, with leaves, regenerated codes and restarts      *)
(* among them, no team exceeds the maximum size (Join's count and insert     *)
(* under the row lock).                                                      *)
(***************************************************************************)
THEOREM SizeAlwaysHeld == TeamSpec => []TeamSizeHeld
  <1>1. IInv => TeamSizeHeld
    BY DEF IInv, Tables
  <1> QED BY <1>1, InitIInv, NextIInv, PTL DEF TeamSpec

(***************************************************************************)
(* However many members leave at once, a team with members has one of them   *)
(* as captain, unless it is one that everyone had left and that was kept for *)
(* its submissions (Leave decides from the row it locked).                   *)
(***************************************************************************)
THEOREM CaptainAlwaysKept == TeamSpec => []CaptainKept
  <1>1. IInv => CaptainKept
    BY DEF IInv, Tables
  <1> QED BY <1>1, InitIInv, NextIInv, PTL DEF TeamSpec
=============================================================================
