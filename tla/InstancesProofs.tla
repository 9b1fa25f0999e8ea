-------------------------- MODULE InstancesProofs --------------------------
(***************************************************************************)
(* Row safety of the per-team instances for any number of teams,           *)
(* challenges, ports and requests: a row is never deleted or handed to     *)
(* another team under the request, sweep or cleanup that works on it, and  *)
(* nobody else works on its team's rows; no two rows share a port or an    *)
(* owner, an expiry only advances, and a row is destroyed only for cause.  *)
(*                                                                         *)
(* RowPinned and RowsDistinct are not inductive.  LInv adds who holds      *)
(* which lock (ReqOwns, SweepOwns, CleanOwns), that a listed row id still  *)
(* means the team it was listed with (ListsKnown: ids are never reused),   *)
(* and that an insert about to happen has no rival (Unowned).  Doomed adds *)
(* that the row the sweep has locked stays due until it is deleted.        *)
(* QuotaHeld needs Reserved: the place a Start has counted is still free   *)
(* when its deploy ends, because only the team's one lock holder can make  *)
(* a row of the team running.                                              *)
(*                                                                         *)
(* With the actors that take no team lock (InstanceFleet) RowPinned is     *)
(* false, so UnrecordedKept rests on FleetInv instead, which needs no      *)
(* lock: ids of rows and containers are never given again, and what the    *)
(* pass has seen can only change one way.                                  *)
(***************************************************************************)
EXTENDS InstanceFleet, Minimum, FiniteSetTheorems

\* Row id, if it still exists, is team t's, and it will not be created again.
Of(id, t) == id < nextId /\ (id \in Live => rows[id].team = t)

ReqOwns == \A r \in Reqs :
    IF req[r].pc = "idle"
    THEN req[r].inst = 0
    ELSE /\ req[r].team \in Teams /\ req[r].chal \in Chals
         /\ holder[req[r].team] = r

SweepOwns == sweep.inst # 0 =>
    /\ sweep.team \in Teams /\ holder[sweep.team] = Sweeper
    /\ Of(sweep.inst, sweep.team)

CleanOwns == \A b \in clean.busy :
    /\ holder[b[2]] = Cleaner
    /\ Of(b[1], b[2])
    /\ \A c \in clean.busy : c[2] = b[2] => c = b

ListsKnown == \A l \in sweep.list \cup clean.todo : Of(l[1], l[2])

RowsOwned == \A id \in Live :
    id < nextId /\ rows[id].team \in Teams /\ rows[id].chal \in Chals

Unowned == \A r \in Reqs :
    req[r].pc = "insert" => TeamRows(req[r].team, req[r].chal) = {}

\* The row a request deploys or destroys is not deleted under it, and is its
\* own team's row (destroyLocked: "a sweep cannot delete a row out from under
\* an in-flight deploy").
RowPinned ==
    \A r \in Reqs : req[r].inst # 0 =>
        /\ req[r].inst \in Live
        /\ rows[req[r].inst].team = req[r].team
        /\ rows[req[r].inst].chal = req[r].chal

\* What the team lock protects, between any two steps of the scheduler.
LInv == /\ ReqOwns /\ SweepOwns /\ CleanOwns /\ ListsKnown
        /\ RowsOwned /\ Unowned /\ RowPinned /\ RowsDistinct

\* The inductive invariant.
IInv == TypeOK /\ LInv

\* The step changes no row's existence, owner or port.
Kept == \A id \in Ids :
    /\ rows'[id].state = "absent" <=> rows[id].state = "absent"
    /\ rows'[id].team = rows[id].team
    /\ rows'[id].chal = rows[id].chal
    /\ rows'[id].port = rows[id].port

-----------------------------------------------------------------------------
(* What the helpers return *)

\* The bounds on ids.
LEMMA IdBounds == MaxInst \in Nat /\ MaxCtr \in Nat
BY BoundsAreNumbers

\* The next row has an id.
LEMMA NextIdType ==
  ASSUME TypeOK, NEW r, InsertRow(r), FreePorts(r) # {} PROVE nextId \in Ids
<1>1. nextId \in Nat \ {0}
  BY DEF TypeOK
<1>2. nextId <= MaxInst
  BY DEF InsertRow
<1> QED
  BY <1>1, <1>2, IdBounds DEF Ids

\* Ids are numbers, and so are labels.
LEMMA IdNumbers ==
  ASSUME TypeOK
  PROVE  /\ Ids \subseteq Int /\ CtrIds \subseteq Int
         /\ \A c \in CtrIds : ctr[c].inst \in Int
<1>1. Ids \subseteq Int /\ CtrIds \subseteq Int
  BY DEF Ids, CtrIds
<1>2. \A c \in CtrIds : ctr[c].inst \in Ids \cup {0}
  BY DEF TypeOK, Ctr
<1>3. Ids \cup {0} \subseteq Int
  BY DEF Ids
<1> QED
  BY <1>1, <1>2, <1>3, Zenon

\* health reports one of the states a row may have.
LEMMA HealthState == ASSUME NEW c PROVE Health(c) \in RowStates
BY DEF Health, RowStates

\* An UPDATE of the state keeps every row a row, with its owner and port.
LEMMA SetStateKeeps ==
  ASSUME TypeOK, NEW id, NEW st \in RowStates, rows' = SetState(id, st)
  PROVE  rows' \in [Ids -> Row] /\ Kept
<1>1. CASE id \notin Live
  BY <1>1 DEF SetState, TypeOK, Kept
<1>2. CASE id \in Live
  <2>1. id \in Ids /\ rows[id].state # "absent"
    BY <1>2 DEF Live
  <2>2. rows' = [rows EXCEPT ![id].state = st, ![id].upd = now]
    BY <1>2 DEF SetState
  <2>3. now \in Int /\ st \in RowStates \cup {"absent"} /\ st # "absent"
    BY DEF TypeOK, RowStates
  <2> DEFINE new == [rows[id] EXCEPT !.state = st, !.upd = now]
  <2>a. new \in Row
    <3>1. rows[id] \in Row
      BY <2>1 DEF TypeOK
    <3> QED
      BY <2>1, <2>3, <3>1 DEF Row
  <2>b. rows' = [rows EXCEPT ![id] = new]
    BY <2>1, <2>2
  <2>4. rows' \in [Ids -> Row]
    <3> HIDE DEF new
    <3> QED
      BY <2>1, <2>a, <2>b DEF TypeOK
  <2>5. Kept
    BY <2>1, <2>2, <2>3 DEF TypeOK, Row, Kept
  <2> QED
    BY <2>4, <2>5
<1> QED
  BY <1>1, <1>2

\* A row that records its container is a row.
LEMMA RowRecorded ==
  ASSUME NEW row \in Row, NEW c \in CtrIds \cup {0}, NEW n \in Int
  PROVE  [row EXCEPT !.state = "starting", !.ctr = c, !.started = n,
                     !.upd = n] \in Row
BY DEF Row, RowStates

\* removeByLabel leaves a table of containers.
LEMMA RemoveByLabelType ==
  ASSUME TypeOK, NEW id, RemoveByLabel(id)
  PROVE  ctr' \in [CtrIds -> Ctr] /\ faults' \in Nat
<1>1. NoCtr \in Ctr
  BY DEF NoCtr, Ctr
<1>2. Unlabelled(id) \in [CtrIds -> Ctr]
  BY <1>1 DEF Unlabelled, TypeOK
<1> QED
  BY <1>2 DEF RemoveByLabel, TypeOK

\* Idle records are records of their kind.
LEMMA IdleTypes == /\ NoRow \in Row /\ NoCtr \in Ctr /\ IdleReq \in Req
                   /\ IdleSweep \in Sweep /\ IdleClean \in Clean
BY DEF NoRow, Row, NoCtr, Ctr, IdleReq, Req, ReqPC, IdleSweep, Sweep, IdleClean,
       Clean, NoTime

\* Returning from a request keeps the types.
LEMMA FinishType ==
  ASSUME TypeOK, NEW r \in Reqs, Finish(r)
  PROVE  /\ req' \in [Reqs -> Req]
         /\ holder' \in [Teams -> Procs \cup {Free}]
         /\ late' \subseteq Procs
BY IdleTypes DEF TypeOK, Finish, Unlock

\* Moving on inside a request keeps the types.
LEMMA GotoType ==
  ASSUME TypeOK, NEW r \in Reqs, NEW l \in ReqPC, Goto(r, l)
  PROVE  /\ req' \in [Reqs -> Req]
         /\ holder' \in [Teams -> Procs \cup {Free}]
         /\ late' \subseteq Procs
<1>1. req' = [req EXCEPT ![r].pc = l]
  BY DEF Goto
<1>2. req' \in [Reqs -> Req]
  BY <1>1 DEF TypeOK, Req
<1> QED
  BY <1>2 DEF Goto, TypeOK

\* A failed deploy: markError and return.
LEMMA DeployFailsType ==
  ASSUME TypeOK, NEW r \in Reqs, DeployFails(r)
  PROVE  /\ rows' \in [Ids -> Row] /\ Kept
         /\ req' \in [Reqs -> Req]
         /\ holder' \in [Teams -> Procs \cup {Free}]
         /\ late' \subseteq Procs
<1>1. "error" \in RowStates
  BY DEF RowStates
<1>2. rows' \in [Ids -> Row] /\ Kept
  BY <1>1, SetStateKeeps DEF DeployFails
<1> QED
  BY <1>2, FinishType DEF DeployFails

-----------------------------------------------------------------------------
(* Types *)

\* The empty system is well typed.
LEMMA InitType == Init => TypeOK
<1> SUFFICES ASSUME Init PROVE TypeOK
  OBVIOUS
<1>1. rows \in [Ids -> Row] /\ ctr \in [CtrIds -> Ctr] /\ req \in [Reqs -> Req]
  BY IdleTypes DEF Init
<1>2. sweep \in Sweep /\ clean \in Clean
  BY IdleTypes DEF Init
<1>3. /\ net \in [Teams -> BOOLEAN] /\ latch \in BOOLEAN
      /\ holder \in [Teams -> Procs \cup {Free}]
  BY DEF Init
<1>4. /\ now \in Nat /\ nextId \in Nat \ {0} /\ nextCtr \in Nat \ {0}
      /\ faults \in Nat /\ reopens \in Nat
  BY DEF Init
<1>5. phase \in {"running", "ended"} /\ late \subseteq Procs
  BY DEF Init
<1> QED
  BY <1>1, <1>2, <1>3, <1>4, <1>5 DEF TypeOK

\* A request gets its lock and starts.
LEMMA StartType ==
  ASSUME TypeOK, NEW r \in Reqs, NEW t \in Teams, NEW c \in Chals,
         StartLock(r, t, c)
  PROVE  TypeOK'
<1>1. holder' \in [Teams -> Procs \cup {Free}]
  BY DEF StartLock, Enter, TypeOK, Procs
<1>2. req' \in [Reqs -> Req]
  <2> DEFINE new == [req[r] EXCEPT !.pc = "check", !.team = t, !.chal = c]
  <2>1. new \in Req
    <3>1. req[r] \in Req
      BY DEF TypeOK
    <3> QED
      BY <3>1 DEF Req, ReqPC
  <2>2. req' = [req EXCEPT ![r] = new]
    BY DEF StartLock
  <2> HIDE DEF new
  <2> QED
    BY <2>1, <2>2 DEF TypeOK
<1> QED
  BY <1>1, <1>2 DEF StartLock, TypeOK, world, db, docker, others

\* Start up to the row, step by step (StartCheck .. InsertRow).
LEMMA StartProgressType ==
  ASSUME TypeOK, NEW r \in Reqs,
         StartCheck(r) \/ StartQuota(r) \/ EnsureTeamRow(r) \/ InsertRow(r)
           \/ StartError(r)
  PROVE  TypeOK'
<1>1. CASE StartError(r)
  BY <1>1, FinishType DEF StartError, TypeOK, Fault, db, docker, others
<1>2. CASE StartCheck(r) \/ StartQuota(r)
  <2>1. {"quota", "ensure"} \subseteq ReqPC
    BY DEF ReqPC
  <2>2. /\ req' \in [Reqs -> Req]
        /\ holder' \in [Teams -> Procs \cup {Free}]
        /\ late' \subseteq Procs
    BY <1>2, <2>1, FinishType, GotoType DEF StartCheck, StartQuota
  <2> QED
    BY <1>2, <2>2 DEF StartCheck, StartQuota, TypeOK, world, db, docker, others
<1>3. CASE EnsureTeamRow(r)
  <2>1. ASSUME NEW id \in TeamRows(req[r].team, req[r].chal),
               req' = [req EXCEPT ![r].pc = "net", ![r].inst = id,
                                  ![r].port = rows[id].port]
        PROVE  req' \in [Reqs -> Req]
    <3> DEFINE new == [req[r] EXCEPT !.pc = "net", !.inst = id,
                                     !.port = rows[id].port]
    <3>1. id \in Ids
      BY DEF TeamRows, Live
    <3>2. rows[id].port \in Ports \cup {0}
      BY <3>1 DEF TypeOK, Row
    <3>3. new \in Req
      <4>1. req[r] \in Req
        BY DEF TypeOK
      <4> QED
        BY <3>1, <3>2, <4>1 DEF Req, ReqPC
    <3>4. req' = [req EXCEPT ![r] = new]
      BY <2>1
    <3> HIDE DEF new
    <3> QED
      BY <3>3, <3>4 DEF TypeOK
  <2>2. ASSUME req' = [req EXCEPT ![r].pc = "insert", ![r].seen = UsedPorts]
        PROVE  req' \in [Reqs -> Req]
    <3> DEFINE new == [req[r] EXCEPT !.pc = "insert", !.seen = UsedPorts]
    <3>1. UsedPorts \subseteq Ports \cup {0}
      BY DEF UsedPorts, Live, TypeOK, Row
    <3>2. new \in Req
      <4>1. req[r] \in Req
        BY DEF TypeOK
      <4> QED
        BY <3>1, <4>1 DEF Req, ReqPC
    <3>3. req' = [req EXCEPT ![r] = new]
      BY <2>2
    <3> HIDE DEF new
    <3> QED
      BY <3>2, <3>3 DEF TypeOK
  <2>3. /\ req' \in [Reqs -> Req]
        /\ holder' \in [Teams -> Procs \cup {Free}]
        /\ late' \subseteq Procs
    BY <1>3, <2>1, <2>2, FinishType DEF EnsureTeamRow, TypeOK
  <2> QED
    BY <1>3, <2>3 DEF EnsureTeamRow, TypeOK, world, db, docker, others
<1>4. CASE InsertRow(r)
  <2>1. CASE FreePorts(r) = {}
    BY <1>4, <2>1, FinishType DEF InsertRow, TypeOK, world, db, docker, others
  <2>2. CASE FreePorts(r) # {}
    <3> DEFINE p == Min(FreePorts(r))
               row == [state |-> "pending", team |-> req[r].team,
                       chal |-> req[r].chal, port |-> p, ctr |-> 0,
                       exp |-> IF TTL = 0 THEN NoTime ELSE now + TTL,
                       started |-> NoTime, upd |-> now]
               new == [req[r] EXCEPT !.pc = "net", !.inst = nextId,
                                     !.port = p, !.seen = {}]
    <3>1. p \in Ports
      BY <2>2, MinMember, PortsAreNumbers DEF FreePorts
    <3>2. nextId \in Ids
      BY <1>4, <2>2, NextIdType
    <3>3. now \in Int /\ NoTime \in Int /\ now + TTL \in Int
      BY BoundsAreNumbers DEF TypeOK, NoTime
    <3>4. row \in Row
      <4> HIDE DEF p
      <4> QED
        BY <3>1, <3>3 DEF TypeOK, Row, RowStates, Req
    <3>5. new \in Req
      <4> HIDE DEF p
      <4>1. req[r] \in Req
        BY DEF TypeOK
      <4> QED
        BY <3>1, <3>2, <4>1 DEF Req, ReqPC
    <3>6. /\ rows' = [rows EXCEPT ![nextId] = row]
          /\ req' = [req EXCEPT ![r] = new]
          /\ nextId' = nextId + 1
      BY <1>4, <2>2 DEF InsertRow
    <3>7. rows' \in [Ids -> Row] /\ req' \in [Reqs -> Req]
      <4> HIDE DEF row, new
      <4> QED
        BY <3>2, <3>4, <3>5, <3>6 DEF TypeOK
    <3> QED
      BY <1>4, <2>2, <3>6, <3>7 DEF InsertRow, TypeOK, world, docker, others
  <2> QED
    BY <2>1, <2>2
<1> QED
  BY <1>1, <1>2, <1>3, <1>4

\* A deploy, step by step (DeployNet .. DeployHealth).
LEMMA DeployType ==
  ASSUME TypeOK, NEW r \in Reqs, DeployStep(r)
  PROVE  TypeOK'
<1> USE DEF world, db, docker, others
<1>1. CASE DeployNet(r)
  <2>1. net' \in [Teams -> BOOLEAN]
    BY <1>1 DEF DeployNet, TypeOK
  <2>2. /\ req' \in [Reqs -> Req]
        /\ holder' \in [Teams -> Procs \cup {Free}]
        /\ late' \subseteq Procs
    BY <1>1, FinishType, GotoType DEF DeployNet, ReqPC
  <2> QED
    BY <1>1, <2>1, <2>2 DEF DeployNet, TypeOK, Fault
<1>2. CASE DeployImage(r)
  <2>1. /\ req' \in [Reqs -> Req] /\ rows' \in [Ids -> Row]
        /\ holder' \in [Teams -> Procs \cup {Free}]
        /\ late' \subseteq Procs
        /\ ctr' \in [CtrIds -> Ctr] /\ faults' \in Nat
    <3>1. CASE RemoveByLabel(req[r].inst) /\ Goto(r, "create") /\ UNCHANGED rows
      BY <3>1, GotoType, RemoveByLabelType DEF ReqPC, TypeOK
    <3>2. CASE Fault /\ DeployFails(r) /\ UNCHANGED ctr
      BY <3>2, DeployFailsType DEF TypeOK, Fault
    <3>3. CASE Fault /\ Finish(r) /\ UNCHANGED <<rows, ctr>>
      BY <3>3, FinishType DEF TypeOK, Fault
    <3> QED
      BY <1>2, <3>1, <3>2, <3>3 DEF DeployImage
  <2> QED
    BY <1>2, <2>1 DEF DeployImage, TypeOK
<1>3. CASE DeployCreate(r)
  <2>1. CASE DeployFails(r) /\ UNCHANGED <<ctr, nextCtr>> /\ faults' \in Nat
    BY <1>3, <2>1, DeployFailsType DEF DeployCreate, TypeOK
  <2>2. CASE /\ nextCtr <= MaxCtr
             /\ ctr' = [ctr EXCEPT ![nextCtr] =
                   [st |-> "created", inst |-> req[r].inst, team |-> req[r].team,
                    port |-> req[r].port]]
             /\ nextCtr' = nextCtr + 1
             /\ req' = [req EXCEPT ![r].pc = "start", ![r].ctr = nextCtr]
             /\ UNCHANGED <<rows, holder, late, faults>>
    <3> DEFINE new == [req[r] EXCEPT !.pc = "start", !.ctr = nextCtr]
               box == [st |-> "created", inst |-> req[r].inst,
                       team |-> req[r].team, port |-> req[r].port]
    <3>1. nextCtr \in CtrIds
      BY <2>2, IdBounds DEF TypeOK, CtrIds
    <3>2. new \in Req
      <4>1. req[r] \in Req
        BY DEF TypeOK
      <4> QED
        BY <3>1, <4>1 DEF Req, ReqPC
    <3>3. box \in Ctr
      BY DEF TypeOK, Req, Ctr
    <3>4. req' = [req EXCEPT ![r] = new] /\ ctr' = [ctr EXCEPT ![nextCtr] = box]
      BY <2>2
    <3>5. req' \in [Reqs -> Req] /\ ctr' \in [CtrIds -> Ctr]
      <4> HIDE DEF new, box
      <4> QED
        BY <3>1, <3>2, <3>3, <3>4 DEF TypeOK
    <3>6. nextCtr' \in Nat \ {0}
      BY <2>2 DEF TypeOK
    <3> QED
      BY <1>3, <2>2, <3>5, <3>6 DEF DeployCreate, TypeOK
  <2> QED
    BY <1>3, <2>1, <2>2 DEF DeployCreate, Fault, TypeOK
<1>4. CASE DeployStart(r)
  <2>1. CASE DeployFails(r) /\ UNCHANGED ctr /\ faults' \in Nat
    BY <1>4, <2>1, DeployFailsType DEF DeployStart, TypeOK
  <2>2. CASE /\ ctr' = [ctr EXCEPT ![req[r].ctr].st = Started(req[r].chal)]
             /\ Goto(r, "record")
             /\ UNCHANGED <<rows, faults>>
    <3>0. Started(req[r].chal) \in {"up", "unhealthy"}
      BY DEF Started
    <3> DEFINE box == [ctr[req[r].ctr] EXCEPT !.st = Started(req[r].chal)]
    <3>1. CASE req[r].ctr \in CtrIds
      <4>1. box \in Ctr
        BY <3>0, <3>1 DEF TypeOK, Ctr
      <4>2. ctr' = [ctr EXCEPT ![req[r].ctr] = box]
        BY <2>2
      <4>3. ctr' \in [CtrIds -> Ctr]
        <5> HIDE DEF box
        <5> QED
          BY <3>1, <4>1, <4>2 DEF TypeOK
      <4> QED
        BY <1>4, <2>2, <4>3, GotoType DEF DeployStart, TypeOK, ReqPC
    <3>2. CASE req[r].ctr \notin CtrIds
      <4>1. ctr' = ctr
        BY <2>2, <3>2 DEF TypeOK
      <4> QED
        BY <1>4, <2>2, <4>1, GotoType DEF DeployStart, TypeOK, ReqPC
    <3> QED
      BY <3>1, <3>2
  <2> QED
    BY <1>4, <2>1, <2>2 DEF DeployStart, Fault, TypeOK
<1>5. CASE DeployRecord(r)
  <2>1. CASE DeployFails(r) /\ faults' \in Nat
    BY <1>5, <2>1, DeployFailsType DEF DeployRecord, TypeOK
  <2>2. CASE /\ req[r].inst \in Live
             /\ rows' = [rows EXCEPT ![req[r].inst].state = "starting",
                             ![req[r].inst].ctr = req[r].ctr,
                             ![req[r].inst].started = now,
                             ![req[r].inst].upd = now]
             /\ Goto(r, "health")
             /\ UNCHANGED faults
    <3> DEFINE id == req[r].inst
               new == [rows[id] EXCEPT !.state = "starting", !.ctr = req[r].ctr,
                                       !.started = now, !.upd = now]
    <3>1. id \in Ids /\ now \in Int /\ req[r].ctr \in CtrIds \cup {0}
      BY <2>2 DEF Live, TypeOK, Req
    <3>2. new \in Row
      BY <3>1, RowRecorded DEF TypeOK
    <3>3. rows' = [rows EXCEPT ![id] = new]
      BY <2>2
    <3>4. rows' \in [Ids -> Row]
      <4> HIDE DEF new
      <4> QED
        BY <3>1, <3>2, <3>3 DEF TypeOK
    <3> QED
      BY <1>5, <2>2, <3>4, GotoType DEF DeployRecord, TypeOK, ReqPC
  <2> QED
    BY <1>5, <2>1, <2>2 DEF DeployRecord, Fault, TypeOK
<1>6. CASE DeployHealth(r)
  <2>1. CASE DeployFails(r) /\ faults' \in Nat
    BY <1>6, <2>1, DeployFailsType DEF DeployHealth, TypeOK
  <2>2. CASE /\ rows' = SetState(req[r].inst, Health(req[r].ctr))
             /\ Finish(r)
             /\ UNCHANGED faults
    <3>1. rows' \in [Ids -> Row]
      BY <2>2, HealthState, SetStateKeeps
    <3> QED
      BY <1>6, <2>2, <3>1, FinishType DEF DeployHealth, TypeOK
  <2> QED
    BY <1>6, <2>1, <2>2 DEF DeployHealth, Fault, TypeOK
<1> QED
  BY <1>1, <1>2, <1>3, <1>4, <1>5, <1>6 DEF DeployStep

\* The end of a Stop.
LEMMA StopDeleteType ==
  ASSUME TypeOK, NEW r \in Reqs, StopDelete(r)
  PROVE  TypeOK'
<1> USE DEF world, db, docker, others
<1>1. rows' \in [Ids -> Row] /\ faults' \in Nat
  BY IdleTypes DEF StopDelete, TypeOK, Fault
<1> QED
  BY <1>1, FinishType DEF StopDelete, TypeOK

\* The start of a Stop.
LEMMA StopType ==
  ASSUME TypeOK, NEW r \in Reqs, NEW t \in Teams, NEW c \in Chals,
         StopLock(r, t, c)
  PROVE  TypeOK'
<1> USE DEF world, db, docker, others
<1>1. PICK id \in TeamRows(t, c) :
        /\ Enter(r, t)
        /\ req' = [req EXCEPT ![r].pc = "delete", ![r].team = t,
                              ![r].chal = c, ![r].inst = id]
        /\ RemoveByLabel(id)
        /\ UNCHANGED <<now, phase, reopens, db, nextCtr, net, late, others>>
  BY DEF StopLock
<1> DEFINE new == [req[r] EXCEPT !.pc = "delete", !.team = t, !.chal = c,
                                 !.inst = id]
<1>2. id \in Ids
  BY DEF TeamRows, Live
<1>3. new \in Req
  <2>1. req[r] \in Req
    BY DEF TypeOK
  <2> QED
    BY <1>2, <2>1 DEF Req, ReqPC
<1>4. req' = [req EXCEPT ![r] = new]
  BY <1>1
<1>5. req' \in [Reqs -> Req]
  <2> HIDE DEF new
  <2> QED
    BY <1>3, <1>4 DEF TypeOK
<1>6. holder' \in [Teams -> Procs \cup {Free}]
  BY <1>1 DEF Enter, TypeOK, Procs
<1> QED
  BY <1>1, <1>5, <1>6, RemoveByLabelType DEF TypeOK

\* Extend.
LEMMA ExtendType ==
  ASSUME TypeOK, NEW t \in Teams, NEW c \in Chals, Extend(t, c)
  PROVE  TypeOK'
<1> USE DEF world, db, docker, others
<1>1. PICK id \in TeamRows(t, c) :
        rows' = [rows EXCEPT ![id].exp = NextExpiry(id), ![id].upd = now]
  BY DEF Extend
<1> DEFINE new == [rows[id] EXCEPT !.exp = NextExpiry(id), !.upd = now]
<1>2. id \in Ids
  BY DEF TeamRows, Live
<1>3. now \in Int /\ rows[id].exp \in Int /\ rows[id].started \in Int
  BY <1>2 DEF TypeOK, Row
<1>4. NextExpiry(id) \in Int
  BY <1>3, BoundsAreNumbers DEF NextExpiry, MaxLifetime
<1>5. new \in Row
  <2>1. rows[id] \in Row
    BY <1>2 DEF TypeOK
  <2> QED
    BY <1>2, <1>3, <1>4, <2>1 DEF Row
<1>6. rows' = [rows EXCEPT ![id] = new]
  BY <1>1
<1>7. rows' \in [Ids -> Row]
  <2> HIDE DEF new
  <2> QED
    BY <1>2, <1>5, <1>6 DEF TypeOK
<1> QED
  BY <1>7 DEF Extend, TypeOK

\* The expiry and reap sweep, and the event-end cleanup.
LEMMA SweepType ==
  ASSUME TypeOK, RowsOwned, Sweeping \/ Cleaning
  PROVE  TypeOK'
<1> USE DEF world, db, docker, others
<1>1. ASSUME NEW S, S \subseteq Live PROVE List(S) \in SUBSET Listed
  BY <1>1 DEF List, Listed, RowsOwned, Live
<1>2. Expired \subseteq Live /\ Stale \subseteq Live
  BY DEF Expired, Stale
<1>3. NoRow \in Row
  BY IdleTypes
<1>4. \A t : [holder EXCEPT ![t] = Free] \in [Teams -> Procs \cup {Free}]
  BY DEF TypeOK
<1>5. \A t : /\ [holder EXCEPT ![t] = Sweeper] \in [Teams -> Procs \cup {Free}]
            /\ [holder EXCEPT ![t] = Cleaner] \in [Teams -> Procs \cup {Free}]
  BY DEF TypeOK, Procs
<1>6. \A id : [rows EXCEPT ![id] = NoRow] \in [Ids -> Row]
  BY <1>3 DEF TypeOK
<1>7. CASE SweepExpire
  <2>1. List(Expired) \in SUBSET Listed /\ now \in Int
    BY <1>1, <1>2 DEF TypeOK
  <2>2. sweep' \in Sweep
    BY <1>7, <2>1 DEF SweepExpire, TypeOK, Sweep
  <2> QED
    BY <1>7, <2>2 DEF SweepExpire, TypeOK
<1>8. CASE SweepReap
  <2>1. List(Stale) \in SUBSET Listed
    BY <1>1, <1>2
  <2>2. sweep' \in Sweep
    BY <1>8, <2>1 DEF SweepReap, TypeOK, Sweep
  <2> QED
    BY <1>8, <2>2 DEF SweepReap, TypeOK
<1>9. CASE SweepEnd
  BY <1>9, IdleTypes DEF SweepEnd, TypeOK
<1>10. CASE SweepDelete
  <2>1. sweep' \in Sweep
    BY <1>10 DEF SweepDelete, TypeOK, Sweep
  <2>2. rows' \in [Ids -> Row] /\ faults' \in Nat
    BY <1>10, <1>6 DEF SweepDelete, TypeOK, Fault
  <2> QED
    BY <1>10, <1>4, <2>1, <2>2 DEF SweepDelete, TypeOK, Unlock
<1>11. ASSUME NEW id \in Ids, NEW t \in Teams,
              SweepSkip(id, t) \/ SweepDestroy(id, t)
       PROVE  TypeOK'
  <2>1. sweep' \in Sweep
    <3>1. /\ sweep \in Sweep
          /\ \/ sweep' = [sweep EXCEPT !.list = @ \ {<<id, t>>}]
             \/ sweep' = [sweep EXCEPT !.list = @ \ {<<id, t>>}, !.inst = id, !.team = t]
      BY <1>11 DEF SweepSkip, SweepDestroy, TypeOK
    <3> QED
      BY <3>1 DEF Sweep
  <2>2. CASE SweepSkip(id, t)
    BY <2>1, <2>2 DEF SweepSkip, TypeOK
  <2>3. CASE SweepDestroy(id, t)
    BY <1>5, <2>1, <2>3, RemoveByLabelType DEF SweepDestroy, TypeOK
  <2> QED
    BY <1>11, <2>2, <2>3
<1>12. CASE CleanStart \/ CleanList
  <2>1. List(Live) \in SUBSET Listed
    BY <1>1
  <2>2. CASE CleanStart
    <3>1. clean' \in Clean
      BY <2>2 DEF CleanStart, Clean, TypeOK
    <3> QED
      BY <2>2, <3>1 DEF CleanStart, TypeOK
  <2>3. CASE CleanList
    <3>1. clean' \in Clean
      BY <2>1, <2>3, IdleTypes DEF CleanList, Clean
    <3>2. latch' \in BOOLEAN
      BY <2>3 DEF CleanList, TypeOK
    <3> QED
      BY <2>3, <3>1, <3>2 DEF CleanList, TypeOK
  <2> QED
    BY <1>12, <2>2, <2>3
<1>13. CASE CleanEnd
  <2>1. latch' \in BOOLEAN /\ clean' \in Clean
    BY <1>13, IdleTypes DEF CleanEnd
  <2> QED
    BY <1>13, <2>1 DEF CleanEnd, TypeOK
<1>14. CASE CleanRearm
  BY <1>14 DEF CleanRearm, TypeOK
<1>15. ASSUME NEW id \in Ids, NEW t \in Teams,
              CleanDestroy(id, t) \/ CleanSkip(id, t) \/ CleanDelete(id, t)
       PROVE  TypeOK'
  <2>0. <<id, t>> \in Listed
    BY DEF Listed
  <2>1. clean' \in Clean
    <3>1. clean \in Clean
      BY DEF TypeOK
    <3>2. CASE clean' = [clean EXCEPT !.todo = @ \ {<<id, t>>},
                                      !.busy = @ \cup {<<id, t>>}]
      BY <2>0, <3>1, <3>2 DEF Clean
    <3>3. CASE clean' = [clean EXCEPT !.todo = @ \ {<<id, t>>}]
      BY <3>1, <3>3 DEF Clean
    <3>4. CASE clean' = [clean EXCEPT !.busy = @ \ {<<id, t>>}]
      BY <3>1, <3>4 DEF Clean
    <3> QED
      BY <1>15, <3>2, <3>3, <3>4 DEF CleanDestroy, CleanSkip, CleanDelete
  <2>2. CASE CleanDestroy(id, t)
    BY <1>5, <2>1, <2>2, RemoveByLabelType DEF CleanDestroy, TypeOK
  <2>3. CASE CleanSkip(id, t)
    BY <2>1, <2>3 DEF CleanSkip, TypeOK
  <2>4. CASE CleanDelete(id, t)
    <3>1. rows' \in [Ids -> Row] /\ faults' \in Nat
      BY <2>4, <1>6 DEF CleanDelete, TypeOK, Fault
    <3> QED
      BY <1>4, <2>1, <2>4, <3>1 DEF CleanDelete, TypeOK, Unlock
  <2> QED
    BY <1>15, <2>2, <2>3, <2>4
<1>16. CASE CleanError
  <2>1. faults' \in Nat /\ clean' \in Clean
    BY <1>16, IdleTypes DEF CleanError, Fault, TypeOK
  <2> QED
    BY <1>16, <2>1 DEF CleanError, TypeOK
<1> QED
  BY <1>7, <1>8, <1>9, <1>10, <1>11, <1>12, <1>13, <1>14, <1>15, <1>16
     DEF Sweeping, Cleaning

\* Time, the event, containers and crashes.
LEMMA EnvironmentType == ASSUME TypeOK, Environment PROVE TypeOK'
<1> USE DEF world, db, docker, others
<1>1. CASE Tick
  <2>1. Busy \subseteq Procs
    BY DEF Busy, Procs
  <2> QED
    BY <1>1, <2>1 DEF Tick, TypeOK
<1>2. CASE EventEnds \/ EventReopens
  BY <1>2 DEF EventEnds, EventReopens, TypeOK
<1>3. CASE Crash
  <2>1. /\ holder' \in [Teams -> Procs \cup {Free}] /\ latch' \in BOOLEAN
        /\ req' \in [Reqs -> Req] /\ sweep' \in Sweep /\ clean' \in Clean
        /\ late' \subseteq Procs
    BY <1>3, IdleTypes DEF Crash
  <2> QED
    BY <1>3, <2>1 DEF Crash, TypeOK, Fault
<1>4. ASSUME NEW c \in CtrIds, CtrChanges(c) PROVE TypeOK'
  <2>1. \A s \in {"up", "unhealthy", "exited"} :
           [ctr EXCEPT ![c].st = s] \in [CtrIds -> Ctr]
    BY DEF TypeOK, Ctr
  <2>2. [ctr EXCEPT ![c] = NoCtr] \in [CtrIds -> Ctr]
    BY IdleTypes DEF TypeOK
  <2>3. ctr' \in [CtrIds -> Ctr]
    BY <1>4, <2>1, <2>2 DEF CtrChanges
  <2> QED
    BY <1>4, <2>3 DEF CtrChanges, TypeOK, Fault
<1> QED
  BY <1>1, <1>2, <1>3, <1>4 DEF Environment

\* Every step keeps the types.
LEMMA NextType ==
  ASSUME TypeOK, RowsOwned, [Next]_vars
  PROVE  TypeOK'
<1>1. CASE Arrive
  BY <1>1, StartType, StopType, ExtendType DEF Arrive
<1>2. ASSUME NEW r \in Reqs, Progress(r) PROVE TypeOK'
  BY <1>2, StartProgressType, DeployType, StopDeleteType DEF Progress
<1>3. CASE UNCHANGED vars
  BY <1>3 DEF vars, TypeOK
<1> QED
  BY <1>1, <1>2, <1>3, SweepType, EnvironmentType DEF Next

-----------------------------------------------------------------------------
(* Rows *)

\* The step creates no row and changes no row's owner or port.
Shrinks == /\ nextId' = nextId
           /\ Live' \subseteq Live
           /\ \A id \in Live' : /\ rows'[id].team = rows[id].team
                                /\ rows'[id].chal = rows[id].chal
                                /\ rows'[id].port = rows[id].port

\* What an update of states, and what a deletion, leave of the table.
LEMMA KeptShrinks ==
  ASSUME Kept, nextId' = nextId
  PROVE  Shrinks /\ Live' = Live
<1>1. Live' = Live
  BY DEF Live, Kept
<1>2. Live \subseteq Ids
  BY DEF Live
<1> QED
  BY <1>1, <1>2 DEF Shrinks, Kept

LEMMA SameShrinks ==
  ASSUME rows' = rows, nextId' = nextId
  PROVE  Shrinks /\ Live' = Live
BY DEF Shrinks, Live

LEMMA DeleteShrinks ==
  ASSUME TypeOK, NEW d, rows' = [rows EXCEPT ![d] = NoRow], nextId' = nextId
  PROVE  Shrinks /\ Live' = Live \ {d}
<1>1. \A id \in Ids : id # d => rows'[id] = rows[id]
  BY DEF TypeOK
<1>2. d \in Ids => rows'[d].state = "absent"
  BY DEF TypeOK, NoRow
<1>3. Live' = Live \ {d}
  BY <1>1, <1>2 DEF Live
<1>4. \A id \in Live' : id \in Ids /\ id # d
  BY <1>3 DEF Live
<1> QED
  BY <1>1, <1>3, <1>4 DEF Shrinks

\* A table that shrinks keeps what is said about its rows.
LEMMA ShrinkKeeps ==
  ASSUME Shrinks
  PROVE  /\ \A id, t : Of(id, t) => Of(id, t)'
         /\ RowsOwned => RowsOwned'
         /\ RowsDistinct => RowsDistinct'
         /\ \A t, c : TeamRows(t, c)' \subseteq TeamRows(t, c)
BY DEF Shrinks, Of, RowsOwned, RowsDistinct, TeamRows

-----------------------------------------------------------------------------
(* What the lock protects *)

\* Nothing is locked and nothing exists at first.
LEMMA InitLInv == Init => LInv
<1> SUFFICES ASSUME Init PROVE LInv
  OBVIOUS
<1>1. Live = {}
  BY DEF Init, Live, NoRow
<1>2. /\ \A r \in Reqs : req[r].pc = "idle" /\ req[r].inst = 0
      /\ sweep.inst = 0 /\ sweep.list = {} /\ clean.busy = {} /\ clean.todo = {}
  BY DEF Init, IdleReq, IdleSweep, IdleClean
<1> QED
  BY <1>1, <1>2 DEF LInv, ReqOwns, SweepOwns, CleanOwns, ListsKnown, RowsOwned,
                    Unowned, RowPinned, RowsDistinct

\* The request r has moved; the others, and what they hold, are as before.
Alone(r) == /\ \A q \in Reqs : q # r => req'[q] = req[q]
            /\ \A t \in Teams : t # req[r].team => holder'[t] = holder[t]
            /\ UNCHANGED <<sweep, clean>>

\* Request r goes on, keeping its lock and its row.
LEMMA Advance ==
  ASSUME LInv, NEW r \in Reqs, req[r].pc # "idle", Alone(r), holder' = holder,
         req'[r].pc \notin {"idle", "insert"},
         req'[r].team = req[r].team, req'[r].chal = req[r].chal,
         req'[r].inst = req[r].inst,
         Shrinks, Live' = Live
  PROVE  LInv'
<1>1. RowsOwned' /\ RowsDistinct'
  BY ShrinkKeeps DEF LInv
<1>2. ReqOwns'
  BY DEF LInv, ReqOwns, Alone
<1>3. SweepOwns' /\ CleanOwns' /\ ListsKnown'
  BY ShrinkKeeps DEF LInv, SweepOwns, CleanOwns, ListsKnown, Alone
<1>4. Unowned'
  BY ShrinkKeeps DEF LInv, Unowned, Alone
<1>5. RowPinned'
  BY DEF LInv, RowPinned, Alone, Shrinks
<1> QED
  BY <1>1, <1>2, <1>3, <1>4, <1>5 DEF LInv

\* Request r returns; it may have deleted its own row.
LEMMA Return ==
  ASSUME TypeOK, LInv, NEW r \in Reqs, req[r].pc # "idle", Finish(r),
         UNCHANGED <<sweep, clean>>,
         Shrinks, Live \ {req[r].inst} \subseteq Live'
  PROVE  LInv'
<1>1. RowsOwned' /\ RowsDistinct'
  BY ShrinkKeeps DEF LInv
<1>2. /\ \A q \in Reqs : q # r => req'[q] = req[q]
      /\ req'[r].pc = "idle" /\ req'[r].inst = 0
  BY DEF Finish, TypeOK, IdleReq
<1>3. \A t \in Teams : t # req[r].team => holder'[t] = holder[t]
  BY DEF Finish, Unlock, TypeOK
<1>4. req[r].team \in Teams /\ holder[req[r].team] = r
  BY DEF LInv, ReqOwns
<1>5. \A q \in Reqs : q # r /\ req[q].pc # "idle" => req[q].team # req[r].team
  BY <1>4 DEF LInv, ReqOwns
<1>6. ReqOwns'
  BY <1>2, <1>3, <1>5 DEF LInv, ReqOwns
<1>7. SweepOwns' /\ CleanOwns' /\ ListsKnown'
  <2>1. SweepOwns'
    BY <1>3, <1>4, ShrinkKeeps, LockTakers DEF LInv, SweepOwns
  <2>2. \A b \in clean.busy : b[2] \in Teams
    BY DEF TypeOK, Clean, Listed
  <2>3. CleanOwns'
    BY <1>3, <1>4, <2>2, ShrinkKeeps, LockTakers DEF LInv, CleanOwns
  <2> QED
    BY <2>1, <2>3, ShrinkKeeps DEF LInv, ListsKnown
<1>8. Unowned'
  BY <1>2, ShrinkKeeps DEF LInv, Unowned
<1>9. RowPinned'
  <2> SUFFICES ASSUME NEW q \in Reqs, req'[q].inst # 0
               PROVE  /\ req'[q].inst \in Live'
                      /\ rows'[req'[q].inst].team = req'[q].team
                      /\ rows'[req'[q].inst].chal = req'[q].chal
    BY DEF RowPinned
  <2>1. q # r /\ req'[q] = req[q]
    BY <1>2
  <2>2. req[q].pc # "idle"
    BY <2>1 DEF LInv, ReqOwns
  <2>3. /\ req[q].inst \in Live
        /\ rows[req[q].inst].team = req[q].team
        /\ rows[req[q].inst].chal = req[q].chal
    BY <2>1 DEF LInv, RowPinned
  <2>4. req[q].inst # req[r].inst
    <3>1. SUFFICES ASSUME req[q].inst = req[r].inst PROVE FALSE
      OBVIOUS
    <3>2. rows[req[r].inst].team = req[r].team
      BY <2>1, <3>1 DEF LInv, RowPinned
    <3> QED
      BY <1>5, <2>1, <2>2, <2>3, <3>1, <3>2
  <2>5. req[q].inst \in Live'
    BY <2>3, <2>4
  <2> QED
    BY <2>1, <2>3, <2>5 DEF Shrinks
<1> QED
  BY <1>1, <1>6, <1>7, <1>8, <1>9 DEF LInv

\* Steps of the world, which change neither a lock nor who owns a row.
LEMMA Elsewhere ==
  ASSUME LInv, UNCHANGED <<holder, req, sweep, clean>>, Shrinks, Live' = Live
  PROVE  LInv'
<1>1. RowsOwned' /\ RowsDistinct' /\ ReqOwns'
  BY ShrinkKeeps DEF LInv, ReqOwns
<1>2. SweepOwns' /\ CleanOwns' /\ ListsKnown'
  BY ShrinkKeeps DEF LInv, SweepOwns, CleanOwns, ListsKnown
<1>3. Unowned' /\ RowPinned'
  BY ShrinkKeeps DEF LInv, Unowned, RowPinned, Shrinks
<1> QED
  BY <1>1, <1>2, <1>3 DEF LInv

\* A request that gets a free lock, with a row of its team or none, disturbs
\* nobody (StartLock, StopLock).
LEMMA Entered ==
  ASSUME TypeOK, LInv, NEW r \in Reqs, NEW t \in Teams, Enter(r, t),
         \A q \in Reqs : q # r => req'[q] = req[q],
         req'[r].pc \notin {"idle", "insert"}, req'[r].team = t,
         req'[r].chal \in Chals,
         req'[r].inst # 0 => req'[r].inst \in TeamRows(t, req'[r].chal),
         UNCHANGED <<sweep, clean, rows, nextId>>
  PROVE  LInv'
<1>1. /\ holder[t] = Free /\ holder'[t] = r
      /\ \A u \in Teams : u # t => holder'[u] = holder[u]
  BY DEF Enter, TypeOK
<1>2. Shrinks /\ Live' = Live
  BY SameShrinks
<1>3. RowsOwned' /\ RowsDistinct'
  BY <1>2, ShrinkKeeps DEF LInv
<1>4. ReqOwns'
  BY <1>1, LockTakers DEF LInv, ReqOwns
<1>5. SweepOwns'
  BY <1>1, <1>2, ShrinkKeeps, LockTakers DEF LInv, SweepOwns
<1>6. CleanOwns' /\ ListsKnown'
  <2>1. \A b \in clean.busy : b[2] \in Teams
    BY DEF TypeOK, Clean, Listed
  <2> QED
    BY <1>1, <1>2, <2>1, ShrinkKeeps, LockTakers DEF LInv, CleanOwns, ListsKnown
<1>7. Unowned'
  BY <1>2, ShrinkKeeps DEF LInv, Unowned
<1>8. RowPinned'
  BY <1>2 DEF LInv, RowPinned, Shrinks, TeamRows
<1> QED
  BY <1>3, <1>4, <1>5, <1>6, <1>7, <1>8 DEF LInv

\* Start and Stop get their lock; Extend runs inside it.
LEMMA ArriveLInv == ASSUME IInv, Arrive PROVE LInv'
<1>0. TypeOK /\ LInv
  BY DEF IInv
<1>1. ASSUME NEW r \in Reqs, NEW t \in Teams, NEW c \in Chals, StartLock(r, t, c)
      PROVE  LInv'
  <2>1. /\ \A q \in Reqs : q # r => req'[q] = req[q]
        /\ req'[r].pc = "check" /\ req'[r].team = t /\ req'[r].chal = c
        /\ req'[r].inst = req[r].inst
    BY <1>0, <1>1 DEF StartLock, TypeOK, Req
  <2>2. req[r].inst = 0 /\ Enter(r, t) /\ UNCHANGED <<sweep, clean, rows, nextId>>
    BY <1>0, <1>1 DEF StartLock, Enter, LInv, ReqOwns, db, others
  <2> QED
    BY <1>0, <2>1, <2>2, Entered
<1>2. ASSUME NEW r \in Reqs, NEW t \in Teams, NEW c \in Chals, StopLock(r, t, c)
      PROVE  LInv'
  <2>1. PICK id \in TeamRows(t, c) :
          /\ Enter(r, t)
          /\ req' = [req EXCEPT ![r].pc = "delete", ![r].team = t,
                                ![r].chal = c, ![r].inst = id]
          /\ UNCHANGED <<sweep, clean, rows, nextId>>
    BY <1>2 DEF StopLock, db, others
  <2>2. /\ \A q \in Reqs : q # r => req'[q] = req[q]
        /\ req'[r].pc = "delete" /\ req'[r].team = t /\ req'[r].chal = c
        /\ req'[r].inst = id
    BY <1>0, <2>1 DEF TypeOK, Req
  <2> QED
    BY <1>0, <2>1, <2>2, Entered
<1>3. ASSUME NEW t \in Teams, NEW c \in Chals, Extend(t, c) PROVE LInv'
  <2>1. PICK id \in TeamRows(t, c) :
          rows' = [rows EXCEPT ![id].exp = NextExpiry(id), ![id].upd = now]
    BY <1>3 DEF Extend
  <2>2. id \in Ids
    BY DEF TeamRows, Live
  <2>3. Kept
    BY <1>0, <2>1, <2>2 DEF TypeOK, Row, Kept
  <2>4. nextId' = nextId /\ UNCHANGED <<holder, req, sweep, clean>>
    BY <1>3 DEF Extend, others
  <2> QED
    BY <1>0, <2>3, <2>4, KeptShrinks, Elsewhere
<1> QED
  BY <1>1, <1>2, <1>3 DEF Arrive

\* A step inside a request that goes to another step of it.
LEMMA GotoAdvances ==
  ASSUME TypeOK, NEW r \in Reqs, NEW l, Goto(r, l), UNCHANGED <<sweep, clean>>
  PROVE  /\ Alone(r) /\ holder' = holder
         /\ req'[r].pc = l /\ req'[r].team = req[r].team
         /\ req'[r].chal = req[r].chal /\ req'[r].inst = req[r].inst
BY DEF Goto, TypeOK, Req, Alone

\* The steps of Start up to the row.
LEMMA StartLInv ==
  ASSUME IInv, NEW r \in Reqs,
         StartCheck(r) \/ StartQuota(r) \/ EnsureTeamRow(r) \/ StartError(r)
  PROVE  LInv'
<1>0. TypeOK /\ LInv
  BY DEF IInv
<1>1. UNCHANGED <<rows, nextId, sweep, clean>> /\ req[r].pc # "idle"
  BY DEF StartCheck, StartQuota, EnsureTeamRow, StartError, db, others
<1>2. Shrinks /\ Live' = Live
  BY <1>1, SameShrinks
<1>3. CASE Finish(r)
  BY <1>0, <1>1, <1>2, <1>3, Return
<1>4. ASSUME NEW l \in {"quota", "ensure"}, Goto(r, l) PROVE LInv'
  BY <1>0, <1>1, <1>2, <1>4, GotoAdvances, Advance
<1>5. ASSUME NEW id \in TeamRows(req[r].team, req[r].chal),
             req' = [req EXCEPT ![r].pc = "net", ![r].inst = id,
                                ![r].port = rows[id].port],
             holder' = holder
      PROVE  LInv'
  <2>1. /\ \A q \in Reqs : q # r => req'[q] = req[q]
        /\ req'[r].pc = "net" /\ req'[r].team = req[r].team
        /\ req'[r].chal = req[r].chal /\ req'[r].inst = id
        /\ holder' = holder
    BY <1>0, <1>5 DEF TypeOK, Req
  <2>2. ReqOwns'
    BY <1>0, <1>1, <2>1 DEF LInv, ReqOwns
  <2>3. SweepOwns' /\ CleanOwns' /\ ListsKnown' /\ RowsOwned' /\ RowsDistinct'
    BY <1>0, <1>1, <1>2, <1>5, ShrinkKeeps
       DEF LInv, SweepOwns, CleanOwns, ListsKnown
  <2>4. Unowned'
    BY <1>0, <1>2, <2>1, ShrinkKeeps DEF LInv, Unowned
  <2>5. id \in Live /\ rows[id].team = req[r].team /\ rows[id].chal = req[r].chal
    BY DEF TeamRows
  <2>6. RowPinned'
    BY <1>0, <1>1, <1>2, <2>1, <2>5 DEF LInv, RowPinned
  <2> QED
    BY <2>2, <2>3, <2>4, <2>6 DEF LInv
<1>6. ASSUME TeamRows(req[r].team, req[r].chal) = {},
             req' = [req EXCEPT ![r].pc = "insert", ![r].seen = UsedPorts],
             holder' = holder
      PROVE  LInv'
  <2>1. /\ \A q \in Reqs : q # r => req'[q] = req[q]
        /\ req'[r].pc = "insert" /\ req'[r].team = req[r].team
        /\ req'[r].chal = req[r].chal /\ req'[r].inst = req[r].inst
        /\ holder' = holder
    BY <1>0, <1>6 DEF TypeOK, Req
  <2>2. ReqOwns'
    BY <1>0, <1>1, <2>1 DEF LInv, ReqOwns
  <2>3. SweepOwns' /\ CleanOwns' /\ ListsKnown' /\ RowsOwned' /\ RowsDistinct'
    BY <1>0, <1>1, <1>2, <1>6, ShrinkKeeps
       DEF LInv, SweepOwns, CleanOwns, ListsKnown
  <2>4. Unowned'
    <3>1. \A t, c : TeamRows(t, c)' \subseteq TeamRows(t, c)
      BY <1>2, ShrinkKeeps
    <3>2. Unowned
      BY <1>0 DEF LInv
    <3> QED
      BY <1>6, <2>1, <3>1, <3>2 DEF Unowned
  <2>5. RowPinned'
    BY <1>0, <1>1, <1>2, <2>1 DEF LInv, RowPinned
  <2> QED
    BY <2>2, <2>3, <2>4, <2>5 DEF LInv
<1>7. CASE StartCheck(r)
  BY <1>3, <1>4, <1>7 DEF StartCheck
<1>8. CASE StartQuota(r)
  BY <1>3, <1>4, <1>8 DEF StartQuota
<1>9. CASE EnsureTeamRow(r)
  BY <1>3, <1>5, <1>6, <1>9 DEF EnsureTeamRow
<1>10. CASE StartError(r)
  BY <1>3, <1>10 DEF StartError
<1> QED
  BY <1>7, <1>8, <1>9, <1>10

\* allocateRow inserts a row with a port and an owner no other row has.
LEMMA InsertLInv == ASSUME IInv, NEW r \in Reqs, InsertRow(r) PROVE LInv'
<1>0. TypeOK /\ LInv
  BY DEF IInv
<1>1. CASE FreePorts(r) = {}
  <2>1. /\ Finish(r) /\ rows' = rows /\ nextId' = nextId /\ req[r].pc # "idle"
        /\ UNCHANGED <<sweep, clean>>
    BY <1>1 DEF InsertRow, db, others
  <2>2. Shrinks /\ Live' = Live
    BY <2>1, SameShrinks
  <2> QED
    BY <1>0, <2>1, <2>2, Return
<1>2. CASE FreePorts(r) # {}
  <2> DEFINE p == Min(FreePorts(r))
  <2>1. p \in FreePorts(r)
    BY <1>2, MinMember, PortsAreNumbers DEF FreePorts
  <2>2. nextId \in Ids
    BY <1>0, <1>2, NextIdType
  <2>3. /\ rows'[nextId].state = "pending"
        /\ rows'[nextId].team = req[r].team /\ rows'[nextId].chal = req[r].chal
        /\ rows'[nextId].port = p
        /\ \A id \in Ids : id # nextId => rows'[id] = rows[id]
    BY <1>0, <1>2, <2>2 DEF InsertRow, TypeOK
  <2>4. /\ \A q \in Reqs : q # r => req'[q] = req[q]
        /\ req'[r].pc = "net" /\ req'[r].team = req[r].team
        /\ req'[r].chal = req[r].chal /\ req'[r].inst = nextId
    BY <1>0, <1>2 DEF InsertRow, TypeOK, Req
  <2>5. /\ req[r].pc = "insert" /\ nextId' = nextId + 1 /\ holder' = holder
        /\ UNCHANGED <<sweep, clean>>
    BY <1>2 DEF InsertRow, others
  <2> HIDE DEF p
  <2>6. Live' = Live \cup {nextId}
    BY <2>2, <2>3 DEF Live
  <2>7. /\ nextId \notin Live /\ nextId \in Nat
        /\ \A id \in Live : id \in Ids /\ id # nextId
    BY <1>0 DEF LInv, RowsOwned, TypeOK, Live
  <2>8. /\ req[r].team \in Teams /\ req[r].chal \in Chals
        /\ TeamRows(req[r].team, req[r].chal) = {}
        /\ holder[req[r].team] = r
    BY <1>0, <2>5 DEF LInv, ReqOwns, Unowned
  <2>9. ReqOwns'
    BY <1>0, <2>4, <2>5, <2>8 DEF LInv, ReqOwns
  <2>10. \A id \in Ids : \A t : Of(id, t) => Of(id, t)'
    BY <2>3, <2>5, <2>6, <2>7 DEF Of, Ids
  <2>11. SweepOwns' /\ CleanOwns' /\ ListsKnown'
    <3>1. sweep.inst # 0 => sweep.inst \in Ids
      BY <1>0 DEF TypeOK, Sweep
    <3>2. /\ \A b \in clean.busy : b[1] \in Ids
          /\ \A l \in sweep.list \cup clean.todo : l[1] \in Ids
      BY <1>0 DEF TypeOK, Sweep, Clean, Listed
    <3> QED
      BY <1>0, <2>5, <2>10, <3>1, <3>2 DEF LInv, SweepOwns, CleanOwns, ListsKnown
  <2>12. RowsOwned'
    <3>1. \A id \in Live : id < nextId => id < nextId + 1
      BY <2>7 DEF Ids
    <3> QED
      BY <1>0, <2>3, <2>5, <2>6, <2>7, <2>8, <3>1 DEF LInv, RowsOwned
  <2>13. Unowned'
    <3> SUFFICES ASSUME NEW q \in Reqs, req'[q].pc = "insert"
                 PROVE  TeamRows(req[q].team, req[q].chal)' = {}
      BY DEF Unowned
    <3>1. q # r /\ req'[q] = req[q]
      BY <2>4
    <3>2. req[q].team # req[r].team /\ TeamRows(req[q].team, req[q].chal) = {}
      BY <1>0, <2>8, <3>1 DEF LInv, ReqOwns, Unowned
    <3> QED
      BY <2>3, <2>6, <2>7, <3>1, <3>2 DEF TeamRows
  <2>14. RowPinned'
    <3> SUFFICES ASSUME NEW q \in Reqs, req'[q].inst # 0
                 PROVE  /\ req'[q].inst \in Live'
                        /\ rows'[req'[q].inst].team = req'[q].team
                        /\ rows'[req'[q].inst].chal = req'[q].chal
      BY DEF RowPinned
    <3>1. CASE q = r
      BY <2>3, <2>4, <2>6, <3>1
    <3>2. CASE q # r
      BY <1>0, <2>3, <2>4, <2>6, <2>7, <3>2 DEF LInv, RowPinned
    <3> QED
      BY <3>1, <3>2
  <2>15. RowsDistinct'
    <3>1. \A a \in Live : /\ rows[a].port # p
                         /\ <<rows[a].team, rows[a].chal>> # <<req[r].team, req[r].chal>>
      BY <2>1, <2>8 DEF FreePorts, UsedPorts, TeamRows
    <3> QED
      BY <1>0, <2>3, <2>6, <2>7, <3>1 DEF LInv, RowsDistinct
  <2> QED
    BY <2>9, <2>11, <2>12, <2>13, <2>14, <2>15 DEF LInv
<1> QED
  BY <1>1, <1>2

\* The steps of a deploy keep the lock and the row; a failed one returns.
LEMMA DeployLInv == ASSUME IInv, NEW r \in Reqs, DeployStep(r) PROVE LInv'
<1>0. TypeOK /\ LInv
  BY DEF IInv
<1>1. /\ UNCHANGED <<nextId, sweep, clean>> /\ req[r].pc # "idle"
  BY DEF DeployStep, DeployNet, DeployImage, DeployCreate, DeployStart,
         DeployRecord, DeployHealth, db, others
<1>2. CASE DeployFails(r)
  <2>1. Kept /\ Finish(r)
    BY <1>0, <1>2, DeployFailsType DEF DeployFails
  <2> QED
    BY <1>0, <1>1, <2>1, KeptShrinks, Return
<1>3. ASSUME Finish(r), rows' = rows PROVE LInv'
  BY <1>0, <1>1, <1>3, SameShrinks, Return
<1>4. ASSUME NEW l \in {"image", "create", "record"}, Goto(r, l), rows' = rows
      PROVE  LInv'
  BY <1>0, <1>1, <1>4, SameShrinks, GotoAdvances, Advance
<1>5. CASE DeployNet(r)
  BY <1>3, <1>4, <1>5 DEF DeployNet, db
<1>6. CASE DeployImage(r)
  BY <1>2, <1>3, <1>4, <1>6 DEF DeployImage
<1>7. CASE DeployCreate(r)
  <2>1. CASE req' = [req EXCEPT ![r].pc = "start", ![r].ctr = nextCtr]
             /\ UNCHANGED <<rows, holder>>
    <3>1. /\ \A q \in Reqs : q # r => req'[q] = req[q]
          /\ req'[r].pc = "start" /\ req'[r].team = req[r].team
          /\ req'[r].chal = req[r].chal /\ req'[r].inst = req[r].inst
      BY <1>0, <2>1 DEF TypeOK, Req
    <3>2. Alone(r) /\ holder' = holder
      BY <1>1, <2>1, <3>1 DEF Alone
    <3> QED
      BY <1>0, <1>1, <2>1, <3>1, <3>2, SameShrinks, Advance
  <2> QED
    BY <1>2, <1>7, <2>1 DEF DeployCreate
<1>8. CASE DeployStart(r)
  BY <1>2, <1>4, <1>8 DEF DeployStart
<1>9. CASE DeployRecord(r)
  <2>1. CASE /\ req[r].inst \in Live
             /\ rows' = [rows EXCEPT ![req[r].inst].state = "starting",
                             ![req[r].inst].ctr = req[r].ctr,
                             ![req[r].inst].started = now,
                             ![req[r].inst].upd = now]
             /\ Goto(r, "health")
    <3>1. /\ req[r].inst \in Ids /\ rows[req[r].inst].state # "absent"
      BY <2>1 DEF Live
    <3>2. Kept
      BY <1>0, <2>1, <3>1 DEF TypeOK, Row, Kept
    <3> QED
      BY <1>0, <1>1, <2>1, <3>2, KeptShrinks, GotoAdvances, Advance
  <2> QED
    BY <1>2, <1>9, <2>1 DEF DeployRecord
<1>10. CASE DeployHealth(r)
  <2>1. CASE /\ rows' = SetState(req[r].inst, Health(req[r].ctr))
             /\ Finish(r)
    <3>1. Kept
      BY <1>0, <2>1, HealthState, SetStateKeeps
    <3> QED
      BY <1>0, <1>1, <2>1, <3>1, KeptShrinks, Return
  <2> QED
    BY <1>2, <1>10, <2>1 DEF DeployHealth
<1> QED
  BY <1>5, <1>6, <1>7, <1>8, <1>9, <1>10 DEF DeployStep

\* The end of a Stop deletes the request's own row, or leaves it.
LEMMA StopLInv == ASSUME IInv, NEW r \in Reqs, StopDelete(r) PROVE LInv'
<1>0. TypeOK /\ LInv
  BY DEF IInv
<1>1. /\ UNCHANGED <<nextId, sweep, clean>> /\ req[r].pc # "idle" /\ Finish(r)
      /\ rows' = [rows EXCEPT ![req[r].inst] = NoRow] \/ rows' = rows
  BY DEF StopDelete, others
<1>2. Shrinks /\ Live \ {req[r].inst} \subseteq Live'
  BY <1>0, <1>1, SameShrinks, DeleteShrinks
<1> QED
  BY <1>0, <1>1, <1>2, Return

\* A sweep that deletes row d of team t holds t's lock, so no request works
\* on d, and giving the lock back leaves every other holder in place.
LEMMA Swept ==
  ASSUME TypeOK, LInv, NEW w \in {Sweeper, Cleaner}, NEW t \in Teams, NEW d,
         holder[t] = w, Of(d, t), holder' = [holder EXCEPT ![t] = Free],
         rows' = [rows EXCEPT ![d] = NoRow] \/ rows' = rows,
         UNCHANGED <<nextId, req>>
  PROVE  /\ Shrinks
         /\ \A u \in Teams : u # t => holder'[u] = holder[u]
         /\ ReqOwns' /\ RowsOwned' /\ Unowned' /\ RowPinned' /\ RowsDistinct'
<1>1. Shrinks /\ Live \ {d} \subseteq Live'
  BY SameShrinks, DeleteShrinks
<1>2. \A u \in Teams : u # t => holder'[u] = holder[u]
  BY DEF TypeOK
<1>3. \A q \in Reqs : req[q].pc # "idle" => req[q].team \in Teams \ {t}
  BY LockTakers DEF LInv, ReqOwns
<1>4. ReqOwns'
  BY <1>2, <1>3 DEF LInv, ReqOwns
<1>5. RowsOwned' /\ RowsDistinct' /\ Unowned'
  BY <1>1, ShrinkKeeps DEF LInv, Unowned
<1>6. RowPinned'
  <2> SUFFICES ASSUME NEW q \in Reqs, req[q].inst # 0
               PROVE  /\ req[q].inst \in Live'
                      /\ rows'[req[q].inst].team = req[q].team
                      /\ rows'[req[q].inst].chal = req[q].chal
    BY DEF RowPinned
  <2>1. /\ req[q].inst \in Live
        /\ rows[req[q].inst].team = req[q].team
        /\ rows[req[q].inst].chal = req[q].chal
    BY DEF LInv, RowPinned
  <2>2. req[q].team # t
    BY <1>3 DEF LInv, ReqOwns
  <2>3. req[q].inst # d
    BY <2>1, <2>2 DEF Of
  <2> QED
    BY <1>1, <2>1, <2>3 DEF Shrinks
<1> QED
  BY <1>1, <1>2, <1>4, <1>5, <1>6

\* A sweep that takes a free lock disturbs no request.
LEMMA SweepEnters ==
  ASSUME TypeOK, LInv, NEW w \in {Sweeper, Cleaner}, NEW t \in Teams,
         holder[t] = Free, holder' = [holder EXCEPT ![t] = w],
         UNCHANGED <<rows, nextId, req>>
  PROVE  /\ Shrinks
         /\ holder'[t] = w /\ \A u \in Teams : u # t => holder'[u] = holder[u]
         /\ ReqOwns' /\ RowsOwned' /\ Unowned' /\ RowPinned' /\ RowsDistinct'
<1>1. Shrinks /\ Live' = Live
  BY SameShrinks
<1>2. holder'[t] = w /\ \A u \in Teams : u # t => holder'[u] = holder[u]
  BY DEF TypeOK
<1>3. ReqOwns'
  BY <1>2, LockTakers DEF LInv, ReqOwns
<1>4. RowsOwned' /\ RowsDistinct' /\ Unowned'
  BY <1>1, ShrinkKeeps DEF LInv, Unowned
<1>5. RowPinned'
  BY <1>1 DEF LInv, RowPinned, Shrinks
<1> QED
  BY <1>1, <1>2, <1>3, <1>4, <1>5

\* A listed row is, if it exists, of the team it is listed with.
LEMMA ListKnown ==
  ASSUME RowsOwned, NEW S, S \subseteq Live
  PROVE  \A l \in List(S) : Of(l[1], l[2])
BY DEF List, Of, RowsOwned

\* A step that only changes what a sweep has listed.
LEMMA Relisted ==
  ASSUME LInv, UNCHANGED <<rows, nextId, holder, req>>,
         sweep'.inst = 0 \/ (sweep'.inst = sweep.inst /\ sweep'.team = sweep.team),
         clean'.busy \subseteq clean.busy,
         \A l \in sweep'.list \cup clean'.todo : Of(l[1], l[2])
  PROVE  LInv'
<1>1. Shrinks /\ Live' = Live
  BY SameShrinks
<1>2. ReqOwns' /\ RowsOwned' /\ RowsDistinct' /\ Unowned' /\ RowPinned'
  BY <1>1, ShrinkKeeps DEF LInv, ReqOwns, Unowned, RowPinned
<1>3. SweepOwns' /\ CleanOwns' /\ ListsKnown'
  BY <1>1, ShrinkKeeps DEF LInv, SweepOwns, CleanOwns, ListsKnown
<1> QED
  BY <1>2, <1>3 DEF LInv

\* The expiry and reap sweep.
LEMMA SweepLInv == ASSUME IInv, Sweeping PROVE LInv'
<1> USE DEF db, docker, world
<1>0. TypeOK /\ LInv /\ RowsOwned /\ Sweeper # Cleaner
  BY LockTakers DEF IInv, LInv
<1>1. /\ Expired \subseteq Live /\ Stale \subseteq Live
      /\ \A l \in sweep.list \cup clean.todo : Of(l[1], l[2])
  BY <1>0 DEF Expired, Stale, LInv, ListsKnown
<1>2. \A b \in clean.busy : b[2] \in Teams
  BY <1>0 DEF TypeOK, Clean, Listed
<1>3. CASE SweepExpire
  <2>1. /\ sweep'.list = List(Expired)
        /\ sweep'.inst = sweep.inst /\ sweep'.team = sweep.team
    BY <1>0, <1>3 DEF SweepExpire, TypeOK, Sweep
  <2>2. UNCHANGED <<rows, nextId, holder, req, clean>>
    BY <1>3 DEF SweepExpire
  <2> QED
    BY <1>0, <1>1, <2>1, <2>2, ListKnown, Relisted
<1>4. CASE SweepReap
  <2>1. /\ sweep'.list = List(Stale)
        /\ sweep'.inst = sweep.inst /\ sweep'.team = sweep.team
    BY <1>0, <1>4 DEF SweepReap, TypeOK, Sweep
  <2>2. UNCHANGED <<rows, nextId, holder, req, clean>>
    BY <1>4 DEF SweepReap
  <2> QED
    BY <1>0, <1>1, <2>1, <2>2, ListKnown, Relisted
<1>5. CASE SweepEnd
  <2>1. sweep'.list = {} /\ sweep'.inst = 0
    BY <1>5 DEF SweepEnd, IdleSweep
  <2>2. UNCHANGED <<rows, nextId, holder, req, clean>>
    BY <1>5 DEF SweepEnd
  <2> QED
    BY <1>0, <1>1, <2>1, <2>2, Relisted
<1>6. ASSUME NEW id \in Ids, NEW t \in Teams, SweepSkip(id, t) PROVE LInv'
  <2>1. /\ sweep'.list \subseteq sweep.list
        /\ sweep'.inst = sweep.inst /\ sweep'.team = sweep.team
    BY <1>0, <1>6 DEF SweepSkip, TypeOK, Sweep
  <2>2. UNCHANGED <<rows, nextId, holder, req, clean>>
    BY <1>6 DEF SweepSkip
  <2> QED
    BY <1>0, <1>1, <2>1, <2>2, Relisted
<1>7. ASSUME NEW id \in Ids, NEW t \in Teams, SweepDestroy(id, t) PROVE LInv'
  <2>1. /\ <<id, t>> \in sweep.list /\ holder[t] = Free
        /\ holder' = [holder EXCEPT ![t] = Sweeper]
        /\ UNCHANGED <<rows, nextId, req, clean>>
    BY <1>7 DEF SweepDestroy
  <2>2. /\ sweep'.list \subseteq sweep.list
        /\ sweep'.inst = id /\ sweep'.team = t
    BY <1>0, <1>7 DEF SweepDestroy, TypeOK, Sweep
  <2>3. /\ Shrinks
        /\ holder'[t] = Sweeper /\ \A u \in Teams : u # t => holder'[u] = holder[u]
        /\ ReqOwns' /\ RowsOwned' /\ Unowned' /\ RowPinned' /\ RowsDistinct'
    BY <1>0, <2>1, SweepEnters
  <2>4. Of(id, t)
    BY <1>1, <2>1
  <2>5. SweepOwns' /\ ListsKnown'
    BY <1>1, <2>1, <2>2, <2>3, <2>4, ShrinkKeeps DEF SweepOwns, ListsKnown
  <2>6. CleanOwns'
    BY <1>0, <1>2, <2>1, <2>3, ShrinkKeeps, LockTakers DEF LInv, CleanOwns
  <2> QED
    BY <2>3, <2>5, <2>6 DEF LInv
<1>8. CASE SweepDelete
  <2>1. /\ sweep.inst # 0
        /\ rows' = [rows EXCEPT ![sweep.inst] = NoRow] \/ rows' = rows
        /\ holder' = [holder EXCEPT ![sweep.team] = Free]
        /\ UNCHANGED <<nextId, req, clean>>
    BY <1>8 DEF SweepDelete, Unlock
  <2>2. sweep'.list = sweep.list /\ sweep'.inst = 0
    BY <1>0, <1>8 DEF SweepDelete, TypeOK, Sweep
  <2>3. /\ sweep.team \in Teams /\ holder[sweep.team] = Sweeper
        /\ Of(sweep.inst, sweep.team)
    BY <1>0, <2>1 DEF LInv, SweepOwns
  <2>4. /\ Shrinks
        /\ \A u \in Teams : u # sweep.team => holder'[u] = holder[u]
        /\ ReqOwns' /\ RowsOwned' /\ Unowned' /\ RowPinned' /\ RowsDistinct'
    BY <1>0, <2>1, <2>3, Swept
  <2>5. SweepOwns' /\ ListsKnown'
    BY <1>1, <2>1, <2>2, <2>4, ShrinkKeeps DEF SweepOwns, ListsKnown
  <2>6. CleanOwns'
    BY <1>0, <1>2, <2>1, <2>3, <2>4, ShrinkKeeps DEF LInv, CleanOwns
  <2> QED
    BY <2>4, <2>5, <2>6 DEF LInv
<1> QED
  BY <1>3, <1>4, <1>5, <1>6, <1>7, <1>8 DEF Sweeping

\* The event-end cleanup.
LEMMA CleanLInv == ASSUME IInv, Cleaning PROVE LInv'
<1> USE DEF db, docker, world
<1>0. TypeOK /\ LInv /\ RowsOwned /\ Sweeper # Cleaner
  BY LockTakers DEF IInv, LInv
<1>1. \A l \in sweep.list \cup clean.todo : Of(l[1], l[2])
  BY <1>0 DEF LInv, ListsKnown
<1>2. \A b \in clean.busy : b[2] \in Teams
  BY <1>0 DEF TypeOK, Clean, Listed
<1>3. CASE CleanList
  <2>1. clean'.todo \subseteq List(Live) /\ clean'.busy = {}
    BY <1>3 DEF CleanList, IdleClean
  <2>2. UNCHANGED <<rows, nextId, holder, req, sweep>>
    BY <1>3 DEF CleanList
  <2> QED
    BY <1>0, <1>1, <2>1, <2>2, ListKnown, Relisted
<1>4. CASE CleanStart \/ CleanEnd \/ CleanError \/ CleanRearm
  <2>1. clean'.todo \subseteq clean.todo /\ clean'.busy \subseteq clean.busy
    BY <1>0, <1>4 DEF CleanStart, CleanEnd, CleanError, CleanRearm, IdleClean, TypeOK, Clean
  <2>2. UNCHANGED <<rows, nextId, holder, req, sweep>>
    BY <1>4 DEF CleanStart, CleanEnd, CleanError, CleanRearm
  <2> QED
    BY <1>0, <1>1, <2>1, <2>2, Relisted
<1>5. ASSUME NEW id \in Ids, NEW t \in Teams, CleanSkip(id, t) PROVE LInv'
  <2>1. clean'.todo \subseteq clean.todo /\ clean'.busy = clean.busy
    BY <1>0, <1>5 DEF CleanSkip, TypeOK, Clean
  <2>2. UNCHANGED <<rows, nextId, holder, req, sweep>>
    BY <1>5 DEF CleanSkip
  <2> QED
    BY <1>0, <1>1, <2>1, <2>2, Relisted
<1>6. ASSUME NEW id \in Ids, NEW t \in Teams, CleanDestroy(id, t) PROVE LInv'
  <2>1. /\ <<id, t>> \in clean.todo /\ holder[t] = Free
        /\ holder' = [holder EXCEPT ![t] = Cleaner]
        /\ UNCHANGED <<rows, nextId, req, sweep>>
    BY <1>6 DEF CleanDestroy
  <2>2. /\ clean'.todo \subseteq clean.todo
        /\ clean'.busy = clean.busy \cup {<<id, t>>}
    BY <1>0, <1>6 DEF CleanDestroy, TypeOK, Clean
  <2>3. /\ Shrinks
        /\ holder'[t] = Cleaner /\ \A u \in Teams : u # t => holder'[u] = holder[u]
        /\ ReqOwns' /\ RowsOwned' /\ Unowned' /\ RowPinned' /\ RowsDistinct'
    BY <1>0, <2>1, SweepEnters
  <2>4. Of(id, t)
    <3>1. Of(<<id, t>>[1], <<id, t>>[2])
      BY <1>1, <2>1
    <3> QED
      BY <3>1
  <2>5. SweepOwns' /\ ListsKnown'
    BY <1>0, <1>1, <2>1, <2>2, <2>3, ShrinkKeeps, LockTakers
       DEF LInv, SweepOwns, ListsKnown
  <2>6. CleanOwns'
    <3>1. \A b \in clean.busy : b[2] # t
      BY <1>0, <2>1, LockTakers DEF LInv, CleanOwns
    <3> QED
      BY <1>0, <1>2, <2>1, <2>2, <2>3, <2>4, <3>1, ShrinkKeeps DEF LInv, CleanOwns
  <2> QED
    BY <2>3, <2>5, <2>6 DEF LInv
<1>7. ASSUME NEW id \in Ids, NEW t \in Teams, CleanDelete(id, t) PROVE LInv'
  <2>1. /\ <<id, t>> \in clean.busy
        /\ rows' = [rows EXCEPT ![id] = NoRow] \/ rows' = rows
        /\ holder' = [holder EXCEPT ![t] = Free]
        /\ UNCHANGED <<nextId, req, sweep>>
    BY <1>7 DEF CleanDelete, Unlock
  <2>2. clean'.todo = clean.todo /\ clean'.busy = clean.busy \ {<<id, t>>}
    BY <1>0, <1>7 DEF CleanDelete, TypeOK, Clean
  <2>3. /\ holder[t] = Cleaner /\ Of(id, t)
        /\ \A c \in clean.busy : c[2] = t => c = <<id, t>>
    <3> DEFINE b == <<id, t>>
    <3>1. b \in clean.busy /\ b[1] = id /\ b[2] = t
      BY <2>1
    <3> QED
      BY <1>0, <3>1 DEF LInv, CleanOwns
  <2>4. /\ Shrinks
        /\ \A u \in Teams : u # t => holder'[u] = holder[u]
        /\ ReqOwns' /\ RowsOwned' /\ Unowned' /\ RowPinned' /\ RowsDistinct'
    BY <1>0, <2>1, <2>3, Swept
  <2>5. SweepOwns' /\ ListsKnown'
    BY <1>0, <1>1, <2>1, <2>2, <2>3, <2>4, ShrinkKeeps DEF LInv, SweepOwns, ListsKnown
  <2>6. CleanOwns'
    BY <1>0, <1>2, <2>1, <2>2, <2>3, <2>4, ShrinkKeeps DEF LInv, CleanOwns
  <2> QED
    BY <2>4, <2>5, <2>6 DEF LInv
<1> QED
  BY <1>3, <1>4, <1>5, <1>6, <1>7 DEF Cleaning

\* Time, the event and the containers change no lock and no row; a crash
\* releases every lock and forgets every request at once.
LEMMA EnvironmentLInv == ASSUME IInv, Environment PROVE LInv'
<1> USE DEF db, docker, others
<1>0. TypeOK /\ LInv
  BY DEF IInv
<1>1. CASE Tick \/ EventEnds \/ EventReopens \/ \E c \in CtrIds : CtrChanges(c)
  <2>1. UNCHANGED <<rows, nextId, holder, req, sweep, clean>>
    BY <1>1 DEF Tick, EventEnds, EventReopens, CtrChanges
  <2> QED
    BY <1>0, <2>1, SameShrinks, Elsewhere
<1>2. CASE Crash
  <2>1. Shrinks /\ Live' = Live
    BY <1>2, SameShrinks DEF Crash
  <2>2. /\ \A r \in Reqs : req'[r].pc = "idle" /\ req'[r].inst = 0
        /\ sweep'.inst = 0 /\ sweep'.list = {}
        /\ clean'.busy = {} /\ clean'.todo = {}
    BY <1>2 DEF Crash, IdleReq, IdleSweep, IdleClean
  <2>3. RowsOwned' /\ RowsDistinct'
    BY <1>0, <2>1, ShrinkKeeps DEF LInv
  <2> QED
    BY <2>2, <2>3 DEF LInv, ReqOwns, SweepOwns, CleanOwns, ListsKnown, Unowned,
                      RowPinned
<1> QED
  BY <1>1, <1>2 DEF Environment

\* Every step keeps the inductive invariant.
LEMMA NextIInv == IInv /\ [Next]_vars => IInv'
<1> SUFFICES ASSUME IInv, [Next]_vars PROVE IInv'
  OBVIOUS
<1>1. TypeOK'
  BY NextType DEF IInv, LInv
<1>2. ASSUME NEW r \in Reqs, Progress(r) PROVE LInv'
  BY <1>2, StartLInv, InsertLInv, DeployLInv, StopLInv DEF Progress
<1>3. ASSUME UNCHANGED vars PROVE LInv'
  <2>1. UNCHANGED <<rows, nextId, holder, req, sweep, clean>>
    BY <1>3 DEF vars
  <2>2. LInv
    BY DEF IInv
  <2>3. Shrinks /\ Live' = Live
    BY <2>1, SameShrinks
  <2> QED
    BY <2>1, <2>2, <2>3, Elsewhere
<1>4. ASSUME Next PROVE LInv'
  <2>1. CASE Arrive
    BY <2>1, ArriveLInv
  <2>2. CASE \E r \in Reqs : Progress(r)
    BY <1>2, <2>2
  <2>3. CASE Sweeping
    BY <2>3, SweepLInv
  <2>4. CASE Cleaning
    BY <2>4, CleanLInv
  <2>5. CASE Environment
    BY <2>5, EnvironmentLInv
  <2> QED
    BY <1>4, <2>1, <2>2, <2>3, <2>4, <2>5 DEF Next
<1>5. LInv'
  BY <1>3, <1>4
<1> QED
  BY <1>1, <1>5 DEF IInv

-----------------------------------------------------------------------------
(* Theorems *)

\* The inductive invariant holds in every state of every behaviour, for every
\* number of teams, challenges, ports and requests.
THEOREM InductiveInvariant == Spec => []IInv
<1>1. Init => IInv
  BY InitType, InitLInv DEF IInv
<1> QED
  BY <1>1, NextIInv, PTL DEF Spec

\* Every state is well typed (the model of the rows, the daemon and the
\* scheduler's goroutines).
THEOREM TypeCorrect == Spec => []TypeOK
<1>1. IInv => TypeOK
  BY DEF IInv
<1> QED
  BY <1>1, InductiveInvariant, PTL

\* No two rows share a host port or an owner: listing ports in one step and
\* inserting in another is safe (manager.go allocateRow).
THEOREM PortsUnique == Spec => []RowsDistinct
<1>1. IInv => RowsDistinct
  BY DEF IInv, LInv
<1> QED
  BY <1>1, InductiveInvariant, PTL

-----------------------------------------------------------------------------
(* Why a row changes *)

\* Extend moves the expiry of row id, whose team's lock is free.
Extended(id) == /\ id \in Live /\ id \in Live'
                /\ holder[rows[id].team] = Free
                /\ rows[id].exp # NoTime /\ rows[id].exp < MaxLifetime(id)
                /\ rows'[id].exp = NextExpiry(id)

\* A deploy of row id changes its state, never its expiry.
Deployed(id) == /\ \E r \in Reqs : req[r].inst = id /\ req[r].pc # "delete"
                /\ id \in Live /\ id \in Live'
                /\ rows'[id].exp = rows[id].exp

\* Row id is deleted, by its own team's Stop, by a sweep or by the cleanup,
\* which is then done with it.
Deleted(id) == /\ id \notin Live'
               /\ \/ \E r \in Reqs : req[r].inst = id /\ req[r].pc = "delete"
                  \/ sweep.inst = id /\ sweep'.inst = 0
                  \/ id \in Live =>
                       <<id, rows[id].team>> \in clean.busy \ clean'.busy

\* An UPDATE of the state keeps the expiry, and changes no other row.
LEMMA SetStateExpiry ==
  ASSUME TypeOK, NEW i \in Ids, NEW st \in RowStates, rows' = SetState(i, st), NEW id \in Ids
  PROVE  /\ id # i => rows'[id] = rows[id]
         /\ i \in Live => i \in Live' /\ rows'[i].exp = rows[i].exp
<1>1. CASE i \notin Live
  BY <1>1 DEF SetState
<1>2. CASE i \in Live
  <2>1. rows' = [rows EXCEPT ![i].state = st, ![i].upd = now]
    BY <1>2 DEF SetState
  <2>2. st # "absent"
    BY DEF RowStates
  <2> QED
    BY <1>2, <2>1, <2>2 DEF TypeOK, Row, Live
<1> QED
  BY <1>1, <1>2

\* A step of a deploy.
LEMMA DeployChange ==
  ASSUME IInv, NEW r \in Reqs, DeployStep(r), NEW id \in Ids
  PROVE  rows'[id] = rows[id] \/ Deployed(id)
<1>0. TypeOK /\ LInv /\ req \in [Reqs -> Req]
  BY DEF IInv, TypeOK
<1>1. ASSUME NEW st \in RowStates, rows' = SetState(req[r].inst, st), req[r].pc # "delete"
      PROVE  rows'[id] = rows[id] \/ Deployed(id)
  <2>1. CASE req[r].inst = 0
    <3>1. 0 \notin Live
      BY BoundsAreNumbers DEF Live, Ids
    <3> QED
      BY <1>1, <2>1, <3>1 DEF SetState
  <2>2. CASE req[r].inst # 0
    <3>1. req[r].inst \in Ids /\ req[r].inst \in Live
      BY <1>0, <2>2 DEF Req, LInv, RowPinned
    <3> QED
      BY <1>0, <1>1, <3>1, SetStateExpiry DEF Deployed
  <2> QED
    BY <2>1, <2>2
<1>2. ASSUME DeployFails(r), req[r].pc # "delete" PROVE rows'[id] = rows[id] \/ Deployed(id)
  BY <1>1, <1>2 DEF DeployFails, RowStates
<1>3. CASE DeployNet(r)
  BY <1>3 DEF DeployNet, db
<1>4. CASE DeployImage(r)
  BY <1>2, <1>4 DEF DeployImage
<1>5. CASE DeployCreate(r)
  BY <1>2, <1>5 DEF DeployCreate
<1>6. CASE DeployStart(r)
  BY <1>2, <1>6 DEF DeployStart
<1>7. CASE DeployRecord(r)
  <2>1. CASE DeployFails(r)
    BY <1>2, <1>7, <2>1 DEF DeployRecord
  <2>2. CASE ~DeployFails(r)
    <3>1. /\ req[r].inst \in Live /\ req[r].pc = "record"
          /\ rows' = [rows EXCEPT ![req[r].inst].state = "starting",
                          ![req[r].inst].ctr = req[r].ctr, ![req[r].inst].started = now,
                          ![req[r].inst].upd = now]
      BY <1>7, <2>2 DEF DeployRecord
    <3>2. req[r].inst \in Ids
      BY <3>1 DEF Live
    <3>3. id # req[r].inst => rows'[id] = rows[id]
      BY <1>0, <3>1, <3>2 DEF TypeOK
    <3>4. rows'[req[r].inst].exp = rows[req[r].inst].exp /\ rows'[req[r].inst].state = "starting"
      BY <1>0, <3>1, <3>2 DEF TypeOK, Row
    <3> QED
      BY <3>1, <3>2, <3>3, <3>4 DEF Deployed, Live
  <2> QED
    BY <2>1, <2>2
<1>8. CASE DeployHealth(r)
  BY <1>1, <1>2, <1>8, HealthState DEF DeployHealth
<1> QED
  BY <1>3, <1>4, <1>5, <1>6, <1>7, <1>8 DEF DeployStep

\* Deleting row i leaves the other rows as they are.
LEMMA DeleteOne ==
  ASSUME TypeOK, NEW i \in Ids, rows' = [rows EXCEPT ![i] = NoRow], NEW id \in Ids
  PROVE  (id # i => rows'[id] = rows[id]) /\ i \notin Live'
BY DEF TypeOK, Live, NoRow

\* Every change of a row that has been allocated has one of three reasons.
LEMMA RowChange ==
  ASSUME IInv, [Next]_vars, NEW id \in Ids, id # nextId
  PROVE  rows'[id] = rows[id] \/ Deployed(id) \/ Deleted(id) \/ Extended(id)
<1>0. TypeOK /\ LInv /\ req \in [Reqs -> Req] /\ sweep \in Sweep /\ clean \in Clean
  BY DEF IInv, TypeOK
<1>1. ASSUME NEW t \in Teams, NEW c \in Chals, Extend(t, c)
      PROVE  rows'[id] = rows[id] \/ Extended(id)
  <2>1. PICK i \in TeamRows(t, c) :
          /\ rows[i].exp # NoTime /\ rows[i].exp < MaxLifetime(i)
          /\ rows' = [rows EXCEPT ![i].exp = NextExpiry(i), ![i].upd = now]
    BY <1>1 DEF Extend
  <2>2. i \in Ids /\ i \in Live /\ rows[i].team = t /\ holder[t] = Free
    BY <1>1 DEF TeamRows, Live, Extend
  <2>3. id # i => rows'[id] = rows[id]
    BY <1>0, <2>1, <2>2 DEF TypeOK
  <2>4. rows'[i].exp = NextExpiry(i) /\ rows'[i].state = rows[i].state
    BY <1>0, <2>1, <2>2 DEF TypeOK, Row
  <2> QED
    BY <2>1, <2>2, <2>3, <2>4 DEF Extended, Live
<1>2. ASSUME Arrive PROVE rows'[id] = rows[id] \/ Extended(id)
  <2>1. ASSUME NEW r \in Reqs, NEW t \in Teams, NEW c \in Chals, StartLock(r, t, c)
        PROVE  rows' = rows
    BY <2>1 DEF StartLock, db
  <2>2. ASSUME NEW r \in Reqs, NEW t \in Teams, NEW c \in Chals, StopLock(r, t, c)
        PROVE  rows' = rows
    BY <2>2 DEF StopLock, db
  <2>3. PICK t \in Teams, c \in Chals :
          (\E r \in Reqs : StartLock(r, t, c) \/ StopLock(r, t, c)) \/ Extend(t, c)
    BY <1>2 DEF Arrive
  <2>4. CASE Extend(t, c)
    BY <1>1, <2>4
  <2> QED
    BY <2>1, <2>2, <2>3, <2>4
<1>3. ASSUME NEW r \in Reqs, Progress(r)
      PROVE  rows'[id] = rows[id] \/ Deployed(id) \/ Deleted(id)
  <2>1. CASE StartCheck(r) \/ StartQuota(r) \/ EnsureTeamRow(r) \/ StartError(r)
    BY <2>1 DEF StartCheck, StartQuota, EnsureTeamRow, StartError, db
  <2>2. CASE InsertRow(r)
    BY <1>0, <2>2 DEF InsertRow, db, TypeOK
  <2>3. CASE DeployStep(r)
    BY <2>3, DeployChange
  <2>4. CASE StopDelete(r)
    <3>1. req[r].inst \in Ids \cup {0} /\ req[r].pc = "delete"
      BY <1>0, <2>4 DEF StopDelete, Req
    <3>2. CASE rows' = [rows EXCEPT ![req[r].inst] = NoRow] /\ req[r].inst # 0
      BY <1>0, <3>1, <3>2, DeleteOne DEF Deleted
    <3>3. CASE rows' = [rows EXCEPT ![req[r].inst] = NoRow] /\ req[r].inst = 0
      BY <1>0, <3>3, BoundsAreNumbers DEF TypeOK, Ids
    <3> QED
      BY <2>4, <3>1, <3>2, <3>3 DEF StopDelete
  <2> QED
    BY <1>3, <2>1, <2>2, <2>3, <2>4 DEF Progress
<1>4. ASSUME Sweeping PROVE rows'[id] = rows[id] \/ Deleted(id)
  <2>1. CASE SweepDelete
    <3>1. sweep.inst \in Ids
      BY <1>0, <2>1 DEF SweepDelete, Sweep
    <3>2. CASE rows' = [rows EXCEPT ![sweep.inst] = NoRow]
      BY <1>0, <2>1, <3>1, <3>2, DeleteOne DEF Deleted, SweepDelete, Sweep
    <3> QED
      BY <2>1, <3>2 DEF SweepDelete
  <2> QED
    BY <1>4, <2>1 DEF Sweeping, SweepExpire, SweepReap, SweepEnd, SweepSkip, SweepDestroy, db
<1>5. ASSUME Cleaning PROVE rows'[id] = rows[id] \/ Deleted(id)
  <2>1. ASSUME NEW i \in Ids, NEW t \in Teams, CleanDelete(i, t)
        PROVE  rows'[id] = rows[id] \/ Deleted(id)
    <3>1. <<i, t>> \in clean.busy
      BY <2>1 DEF CleanDelete
    <3>2. i \in Live => rows[i].team = t
      <4>1. Of(<<i, t>>[1], <<i, t>>[2])
        BY <1>0, <3>1 DEF LInv, CleanOwns
      <4> QED
        BY <4>1 DEF Of
    <3>3. CASE rows' = [rows EXCEPT ![i] = NoRow]
      <4>1. <<i, t>> \notin clean'.busy
        BY <1>0, <2>1 DEF CleanDelete, Clean
      <4> QED
        BY <1>0, <3>1, <3>2, <3>3, <4>1, DeleteOne DEF Deleted
    <3> QED
      BY <2>1, <3>3 DEF CleanDelete
  <2> QED
    BY <1>5, <2>1 DEF Cleaning, CleanStart, CleanList, CleanEnd, CleanError, CleanRearm,
                      CleanDestroy, CleanSkip, db
<1>6. ASSUME Environment PROVE rows'[id] = rows[id]
  BY <1>6 DEF Environment, Tick, EventEnds, EventReopens, Crash, CtrChanges, db
<1>7. ASSUME UNCHANGED vars PROVE rows'[id] = rows[id]
  BY <1>7 DEF vars
<1> QED
  BY <1>2, <1>3, <1>4, <1>5, <1>6, <1>7 DEF Next

\* A live row has been allocated.
LEMMA LiveIsOld == ASSUME IInv, NEW id \in Live PROVE id \in Ids /\ id # nextId
BY DEF IInv, LInv, RowsOwned, TypeOK, Live

\* An expiry only moves forward, and never past the maximum lifetime, whatever
\* deploys, sweeps and extends interleave (Extend).
THEOREM ExpiryOnlyAdvances == Spec => ExpiryAdvances
<1> DEFINE A == \A id \in Live \cap Live' :
                  rows'[id].exp # rows[id].exp =>
                     /\ rows'[id].exp > rows[id].exp
                     /\ rows'[id].exp <= MaxLifetime(id)
<1>1. ASSUME IInv, [Next]_vars PROVE A
  <2> SUFFICES ASSUME NEW id \in Live, id \in Live', rows'[id].exp # rows[id].exp
               PROVE  /\ rows'[id].exp > rows[id].exp
                      /\ rows'[id].exp <= MaxLifetime(id)
    OBVIOUS
  <2>1. id \in Ids /\ id # nextId
    BY <1>1, LiveIsOld
  <2>2. Extended(id)
    BY <1>1, <2>1, RowChange DEF Deployed, Deleted
  <2>3. rows[id].exp \in Int /\ MaxLifetime(id) \in Int /\ Extension \in Nat
    BY <1>1, <2>1, BoundsAreNumbers DEF IInv, TypeOK, Row, MaxLifetime
  <2> HIDE DEF A
  <2> QED
    BY <2>2, <2>3 DEF Extended, NextExpiry
<1> QED
  BY <1>1, InductiveInvariant, PTL DEF ExpiryAdvances, Spec

-----------------------------------------------------------------------------
(* Why a row is destroyed *)

\* Row id has outlived its expiry, or is stuck.
DueNow(id) == \/ rows[id].exp # NoTime /\ rows[id].exp < now
              \/ rows[id].state \in StuckStates

\* The sweep's clock is never ahead, and the row it is destroying stays due
\* until it is deleted: the team's lock keeps Extend and deploys away from it.
Doomed == /\ sweep.at <= now
          /\ sweep.inst # 0 /\ sweep.inst \in Live => DueNow(sweep.inst)

\* A request that works on a live row holds its team's lock.
LEMMA WorkerHolds ==
  ASSUME IInv, NEW id \in Live, NEW r \in Reqs, req[r].inst = id
  PROVE  holder[rows[id].team] = r
<1>1. id # 0
  BY BoundsAreNumbers DEF Live, Ids
<1> QED
  BY <1>1 DEF IInv, LInv, ReqOwns, RowPinned

\* So does the sweep.
LEMMA SweeperHolds ==
  ASSUME IInv, sweep.inst \in Live
  PROVE  sweep.inst # 0 /\ holder[rows[sweep.inst].team] = Sweeper
<1>1. sweep.inst # 0
  BY BoundsAreNumbers DEF Live, Ids
<1> QED
  BY <1>1 DEF IInv, LInv, SweepOwns, Of

\* So does the cleanup.
LEMMA CleanerHolds ==
  ASSUME IInv, NEW id \in Live, <<id, rows[id].team>> \in clean.busy
  PROVE  holder[rows[id].team] = Cleaner
<1> DEFINE b == <<id, rows[id].team>>
<1>1. holder[b[2]] = Cleaner
  BY DEF IInv, LInv, CleanOwns
<1> QED
  BY <1>1

\* Requests, the cleanup and the environment leave the sweep where it is.
LEMMA SweepAside ==
  ASSUME Arrive \/ (\E r \in Reqs : Progress(r)) \/ Cleaning
  PROVE  sweep' = sweep /\ now' = now
<1> USE DEF db, docker, world, others
<1>1. CASE Arrive
  <2>1. ASSUME NEW r \in Reqs, NEW t \in Teams, NEW c \in Chals, StartLock(r, t, c)
        PROVE  sweep' = sweep /\ now' = now
    BY <2>1 DEF StartLock
  <2>2. ASSUME NEW r \in Reqs, NEW t \in Teams, NEW c \in Chals, StopLock(r, t, c)
        PROVE  sweep' = sweep /\ now' = now
    BY <2>2 DEF StopLock
  <2>3. ASSUME NEW t \in Teams, NEW c \in Chals, Extend(t, c)
        PROVE  sweep' = sweep /\ now' = now
    BY <2>3 DEF Extend
  <2> QED
    BY <1>1, <2>1, <2>2, <2>3 DEF Arrive
<1>2. ASSUME NEW r \in Reqs, Progress(r) PROVE sweep' = sweep /\ now' = now
  <2>1. CASE StartCheck(r) \/ StartQuota(r) \/ EnsureTeamRow(r) \/ StartError(r)
    BY <2>1 DEF StartCheck, StartQuota, EnsureTeamRow, StartError
  <2>2. CASE InsertRow(r)
    BY <2>2 DEF InsertRow
  <2>3. CASE DeployNet(r) \/ DeployImage(r) \/ DeployCreate(r) \/ DeployStart(r)
    BY <2>3 DEF DeployNet, DeployImage, DeployCreate, DeployStart
  <2>4. CASE DeployRecord(r) \/ DeployHealth(r)
    BY <2>4 DEF DeployRecord, DeployHealth
  <2>5. CASE StopDelete(r)
    BY <2>5 DEF StopDelete
  <2> QED
    BY <1>2, <2>1, <2>2, <2>3, <2>4, <2>5 DEF Progress, DeployStep
<1>3. CASE Cleaning
  BY <1>3 DEF Cleaning, CleanStart, CleanList, CleanEnd, CleanError, CleanRearm,
              CleanDestroy, CleanSkip, CleanDelete
<1> QED
  BY <1>1, <1>2, <1>3

\* Requests leave the cleanup where it is.
LEMMA CleanAside ==
  ASSUME Arrive \/ (\E r \in Reqs : Progress(r))
  PROVE  clean' = clean
<1> USE DEF db, docker, world, others
<1>1. CASE Arrive
  <2>1. ASSUME NEW r \in Reqs, NEW t \in Teams, NEW c \in Chals, StartLock(r, t, c)
        PROVE  clean' = clean
    BY <2>1 DEF StartLock
  <2>2. ASSUME NEW r \in Reqs, NEW t \in Teams, NEW c \in Chals, StopLock(r, t, c)
        PROVE  clean' = clean
    BY <2>2 DEF StopLock
  <2>3. ASSUME NEW t \in Teams, NEW c \in Chals, Extend(t, c)
        PROVE  clean' = clean
    BY <2>3 DEF Extend
  <2> QED
    BY <1>1, <2>1, <2>2, <2>3 DEF Arrive
<1>2. ASSUME NEW r \in Reqs, Progress(r) PROVE clean' = clean
  <2>1. CASE StartCheck(r) \/ StartQuota(r) \/ EnsureTeamRow(r) \/ StartError(r)
    BY <2>1 DEF StartCheck, StartQuota, EnsureTeamRow, StartError
  <2>2. CASE InsertRow(r)
    BY <2>2 DEF InsertRow
  <2>3. CASE DeployNet(r) \/ DeployImage(r) \/ DeployCreate(r) \/ DeployStart(r)
    BY <2>3 DEF DeployNet, DeployImage, DeployCreate, DeployStart
  <2>4. CASE DeployRecord(r) \/ DeployHealth(r) \/ StopDelete(r)
    BY <2>4 DEF DeployRecord, DeployHealth, StopDelete
  <2> QED
    BY <1>2, <2>1, <2>2, <2>3, <2>4 DEF Progress, DeployStep
<1> QED
  BY <1>1, <1>2

\* A step that leaves the sweep alone keeps its row due.
LEMMA DoomedAside ==
  ASSUME IInv, Doomed, Next, sweep' = sweep, now' = now
  PROVE  Doomed'
<1> SUFFICES ASSUME sweep.inst # 0, sweep.inst \in Live' PROVE DueNow(sweep.inst)'
  BY DEF Doomed
<1> DEFINE id == sweep.inst
<1>1. id \in Ids /\ id # nextId
  BY DEF IInv, TypeOK, Sweep, LInv, SweepOwns, Of
<1>2. rows'[id] = rows[id] \/ Deployed(id) \/ Deleted(id) \/ Extended(id)
  BY <1>1, RowChange
<1>3. CASE rows'[id] = rows[id]
  BY <1>1, <1>3 DEF Doomed, DueNow, Live
<1>4. CASE Deployed(id)
  BY <1>4, WorkerHolds, SweeperHolds, LockTakers DEF Deployed
<1>5. CASE Deleted(id)
  BY <1>5 DEF Deleted
<1>6. CASE Extended(id)
  BY <1>6, SweeperHolds, LockTakers DEF Extended
<1> QED
  BY <1>2, <1>3, <1>4, <1>5, <1>6

\* A sweep destroys only rows it finds due.
LEMMA DoomedSweep ==
  ASSUME IInv, Doomed, Sweeping
  PROVE  Doomed'
<1> USE DEF db, docker, world
<1>0. TypeOK /\ sweep \in Sweep /\ now \in Nat
  BY DEF IInv, TypeOK
<1>1. CASE SweepExpire
  <2>1. /\ rows' = rows /\ now' = now /\ sweep'.inst = sweep.inst /\ sweep'.at = now
    BY <1>0, <1>1 DEF SweepExpire, Sweep
  <2> QED
    BY <1>0, <2>1 DEF Doomed, DueNow, Live
<1>2. CASE SweepReap
  <2>1. /\ rows' = rows /\ now' = now /\ sweep'.inst = sweep.inst /\ sweep'.at = sweep.at
    BY <1>0, <1>2 DEF SweepReap, Sweep
  <2> QED
    BY <1>0, <2>1 DEF Doomed, DueNow, Live
<1>3. CASE SweepEnd
  BY <1>0, <1>3 DEF SweepEnd, IdleSweep, NoTime, Doomed
<1>4. CASE SweepDelete
  <2>1. now' = now /\ sweep'.inst = 0 /\ sweep'.at = sweep.at
    BY <1>0, <1>4 DEF SweepDelete, Sweep
  <2> QED
    BY <2>1 DEF Doomed
<1>5. ASSUME NEW id \in Ids, NEW t \in Teams, SweepSkip(id, t) PROVE Doomed'
  <2>1. /\ rows' = rows /\ now' = now /\ sweep'.inst = sweep.inst /\ sweep'.at = sweep.at
    BY <1>0, <1>5 DEF SweepSkip, Sweep
  <2> QED
    BY <1>0, <2>1 DEF Doomed, DueNow, Live
<1>6. ASSUME NEW id \in Ids, NEW t \in Teams, SweepDestroy(id, t) PROVE Doomed'
  <2>1. /\ rows' = rows /\ now' = now /\ sweep'.inst = id /\ sweep'.at = sweep.at
        /\ Eligible(id)
    BY <1>0, <1>6 DEF SweepDestroy, Sweep
  <2>2. rows[id].exp \in Int /\ sweep.at \in Int /\ sweep.at <= now
    BY <1>0 DEF TypeOK, Row, Sweep, Doomed
  <2>3. DueNow(id)
    BY <1>0, <2>1, <2>2 DEF Eligible, DueNow
  <2> QED
    BY <2>1, <2>2, <2>3 DEF Doomed, DueNow
<1> QED
  BY <1>1, <1>2, <1>3, <1>4, <1>5, <1>6 DEF Sweeping

\* The clock only moves on.
LEMMA DoomedEnvironment ==
  ASSUME IInv, Doomed, Environment
  PROVE  Doomed'
<1> USE DEF db, docker, world, others
<1>0. TypeOK /\ sweep \in Sweep /\ now \in Nat /\ sweep.at \in Int
  BY DEF IInv, TypeOK, Sweep
<1>1. CASE Tick
  <2>1. rows' = rows /\ now' = now + 1 /\ sweep' = sweep
    BY <1>1 DEF Tick
  <2>2. \A id \in Ids : rows[id].exp \in Int
    BY <1>0 DEF TypeOK, Row
  <2>3. \A id \in Ids : DueNow(id) => DueNow(id)'
    BY <1>0, <2>1, <2>2 DEF DueNow
  <2> QED
    BY <1>0, <2>1, <2>3 DEF Doomed, Live
<1>2. CASE EventEnds \/ EventReopens \/ (\E c \in CtrIds : CtrChanges(c))
  <2>1. rows' = rows /\ now' = now /\ sweep' = sweep
    BY <1>2 DEF EventEnds, EventReopens, CtrChanges
  <2> QED
    BY <2>1 DEF Doomed, DueNow, Live
<1>3. CASE Crash
  BY <1>0, <1>3 DEF Crash, IdleSweep, NoTime, Doomed
<1> QED
  BY <1>1, <1>2, <1>3 DEF Environment

\* A row is deleted only by its team's own Stop, past its expiry, when stuck,
\* or by the event-end cleanup, and never under a deploy in flight, however
\* stale the listing the sweep or the cleanup works from (destroyLocked).
THEOREM NeverDestroyedWithoutCause == Spec => DestroyedForCause
<1> DEFINE A == \A id \in Live \ Live' :
         /\ \A r \in Reqs : req[r].inst = id => req[r].pc = "delete"
         /\ \/ \E r \in Reqs : req[r].inst = id
            \/ rows[id].exp # NoTime /\ rows[id].exp < now
            \/ rows[id].state \in StuckStates
            \/ <<id, rows[id].team>> \in clean.busy
<1>1. Init => Doomed
  BY DEF Init, IdleSweep, NoTime, Doomed
<1>2. ASSUME IInv, Doomed, [Next]_vars PROVE Doomed'
  <2>1. CASE UNCHANGED vars
    BY <1>2, <2>1 DEF vars, Doomed, DueNow, Live
  <2>2. CASE Arrive \/ (\E r \in Reqs : Progress(r)) \/ Cleaning
    BY <1>2, <2>2, SweepAside, DoomedAside DEF Next
  <2> QED
    BY <1>2, <2>1, <2>2, DoomedSweep, DoomedEnvironment DEF Next
<1>3. ASSUME IInv, Doomed, [Next]_vars PROVE A
  <2> SUFFICES ASSUME NEW id \in Live, id \notin Live'
               PROVE  /\ \A r \in Reqs : req[r].inst = id => req[r].pc = "delete"
                      /\ \/ \E r \in Reqs : req[r].inst = id
                         \/ DueNow(id)
                         \/ <<id, rows[id].team>> \in clean.busy
    BY DEF DueNow
  <2>1. id \in Ids /\ id # nextId
    BY <1>3, LiveIsOld
  <2>2. rows'[id] # rows[id]
    BY <2>1 DEF Live
  <2>3. Deleted(id)
    BY <1>3, <2>1, <2>2, RowChange DEF Deployed, Extended
  <2>4. CASE \E r \in Reqs : req[r].inst = id /\ req[r].pc = "delete"
    BY <1>3, <2>4, WorkerHolds
  <2>5. CASE sweep.inst = id
    BY <1>3, <2>5, WorkerHolds, SweeperHolds, LockTakers DEF Doomed
  <2>6. CASE <<id, rows[id].team>> \in clean.busy
    BY <1>3, <2>6, WorkerHolds, CleanerHolds, LockTakers
  <2> QED
    BY <2>3, <2>4, <2>5, <2>6 DEF Deleted
<1> HIDE DEF A
<1> QED
  BY <1>1, <1>2, <1>3, InductiveInvariant, PTL DEF A, DestroyedForCause, Spec

-----------------------------------------------------------------------------
(* Who works on a row *)

\* The rows the sweep and the cleanup have locked are still there.
Taken == /\ sweep.inst # 0 => sweep.inst \in Live
         /\ \A b \in clean.busy : b[1] \in Live

\* The sweep and the cleanup lock only rows they have just read.
LEMMA TakenFresh ==
  ASSUME IInv, [Next]_vars
  PROVE  /\ \/ sweep'.inst \in {0, sweep.inst}
            \/ sweep'.inst \in Live /\ rows' = rows
         /\ \A b \in clean'.busy \ clean.busy : b[1] \in Live /\ rows' = rows
<1> USE DEF db, docker, world, others
<1>0. sweep \in Sweep /\ clean \in Clean
  BY DEF IInv, TypeOK
<1>1. CASE Arrive \/ (\E r \in Reqs : Progress(r))
  <2>1. clean' = clean
    BY <1>1, CleanAside
  <2> QED
    BY <1>1, <2>1, SweepAside
<1>2. CASE Sweeping
  <2>1. clean' = clean
    BY <1>2 DEF Sweeping, SweepExpire, SweepReap, SweepEnd, SweepSkip, SweepDestroy, SweepDelete
  <2>2. ASSUME NEW id \in Ids, NEW t \in Teams, SweepDestroy(id, t)
        PROVE  sweep'.inst \in Live /\ rows' = rows
    BY <1>0, <2>2 DEF SweepDestroy, Eligible, Sweep
  <2>3. ASSUME NEW id \in Ids, NEW t \in Teams, SweepSkip(id, t) PROVE sweep'.inst = sweep.inst
    BY <1>0, <2>3 DEF SweepSkip, Sweep
  <2>4. CASE SweepExpire \/ SweepReap \/ SweepEnd \/ SweepDelete
    <3>1. CASE SweepExpire
      BY <1>0, <2>1, <3>1 DEF SweepExpire, Sweep
    <3>2. CASE SweepReap
      BY <1>0, <2>1, <3>2 DEF SweepReap, Sweep
    <3>3. CASE SweepEnd
      BY <2>1, <3>3 DEF SweepEnd, IdleSweep
    <3>4. CASE SweepDelete
      BY <1>0, <2>1, <3>4 DEF SweepDelete, Sweep
    <3> QED
      BY <2>4, <3>1, <3>2, <3>3, <3>4
  <2> QED
    BY <1>2, <2>1, <2>2, <2>3, <2>4 DEF Sweeping
<1>3. CASE Cleaning
  <2>1. sweep' = sweep
    BY <1>3, SweepAside
  <2>2. ASSUME NEW id \in Ids, NEW t \in Teams, CleanDestroy(id, t)
        PROVE  clean'.busy = clean.busy \cup {<<id, t>>} /\ id \in Live /\ rows' = rows
    BY <1>0, <2>2 DEF CleanDestroy, Clean
  <2>3. ASSUME NEW id \in Ids, NEW t \in Teams, CleanSkip(id, t) \/ CleanDelete(id, t)
        PROVE  clean'.busy \subseteq clean.busy
    BY <1>0, <2>3 DEF CleanSkip, CleanDelete, Clean
  <2>4. CASE CleanStart \/ CleanList \/ CleanEnd \/ CleanError \/ CleanRearm
    <3>1. clean'.busy \subseteq clean.busy
      BY <1>0, <2>4 DEF CleanStart, CleanList, CleanEnd, CleanError, CleanRearm, IdleClean, Clean
    <3> QED
      BY <2>1, <3>1
  <2> QED
    BY <1>3, <2>1, <2>2, <2>3, <2>4 DEF Cleaning
<1>4. CASE Environment
  BY <1>4 DEF Environment, Tick, EventEnds, EventReopens, Crash, CtrChanges, IdleSweep, IdleClean
<1>5. CASE UNCHANGED vars
  BY <1>5 DEF vars
<1> QED
  BY <1>1, <1>2, <1>3, <1>4, <1>5 DEF Next

\* A row the sweep or the cleanup has locked stays until it deletes it itself.
LEMMA TakenKept == ASSUME IInv, Taken, [Next]_vars PROVE Taken'
<1>0. TypeOK /\ LInv /\ 0 \notin Ids
  BY BoundsAreNumbers DEF IInv, Ids
<1>1. ASSUME NEW id \in Live, sweep.inst = id, sweep'.inst = id PROVE id \in Live'
  <2>1. id \in Ids /\ id # nextId /\ id # 0
    BY <1>0, LiveIsOld
  <2>2. ~Deleted(id)
    BY <1>1, <2>1, WorkerHolds, SweeperHolds, CleanerHolds, LockTakers DEF Deleted
  <2> QED
    BY <2>1, <2>2, RowChange DEF Live, Deployed, Extended
<1>2. ASSUME NEW b \in clean.busy, b \in clean'.busy PROVE b[1] \in Live'
  <2> DEFINE id == b[1]
  <2>1. id \in Live /\ id \in Ids /\ id # nextId
    BY <1>0, <1>2, LiveIsOld DEF Taken
  <2>2. rows[id].team = b[2] /\ holder[rows[id].team] = Cleaner
    BY <1>0, <2>1 DEF LInv, CleanOwns, Of
  <2>3. b = <<id, rows[id].team>>
    BY <1>0, <2>2 DEF TypeOK, Clean, Listed
  <2>4. ~Deleted(id)
    BY <1>2, <2>1, <2>2, <2>3, WorkerHolds, SweeperHolds, LockTakers DEF Deleted
  <2> QED
    BY <2>1, <2>4, RowChange DEF Live, Deployed, Extended
<1>3. sweep'.inst # 0 => sweep'.inst \in Live'
  BY <1>1, TakenFresh DEF Taken, Live
<1>4. \A b \in clean'.busy : b[1] \in Live'
  BY <1>2, TakenFresh DEF Live
<1> QED
  BY <1>3, <1>4 DEF Taken

\* The row a request, the sweep or the cleanup deploys or destroys is never
\* deleted under it, and nobody else works on a row of that team: the lock of
\* Start, Stop, destroyLocked and CleanupEnded suffices (scheduler.go 312-350,
\* 404-447).
THEOREM OneAlwaysAtWork == Spec => []OneAtWork
<1>1. Init => Taken
  BY DEF Init, IdleSweep, IdleClean, Taken
<1>2. ASSUME IInv, Taken, NEW w \in Procs, NEW id \in Ids, WorksOn(w, id)
      PROVE  id \in Live /\ holder[rows[id].team] = w
  <2>0. 0 \notin Ids /\ TypeOK /\ LInv
    BY <1>2, BoundsAreNumbers DEF Ids, IInv
  <2>1. CASE w \in Reqs /\ req[w].inst = id
    BY <1>2, <2>0, <2>1, WorkerHolds DEF LInv, RowPinned
  <2>2. CASE w = Sweeper /\ sweep.inst = id
    BY <1>2, <2>0, <2>2, SweeperHolds DEF Taken
  <2>3. ASSUME NEW t \in Teams, w = Cleaner, <<id, t>> \in clean.busy
        PROVE  id \in Live /\ holder[rows[id].team] = w
    <3> DEFINE b == <<id, t>>
    <3>1. b[1] \in Live /\ Of(b[1], b[2]) /\ holder[b[2]] = Cleaner
      BY <1>2, <2>0, <2>3 DEF Taken, LInv, CleanOwns
    <3> QED
      BY <2>3, <3>1 DEF Of
  <2> QED
    BY <1>2, <2>1, <2>2, <2>3 DEF WorksOn
<1>3. ASSUME IInv, NEW w \in Procs, NEW id \in Live, NEW i \in Live,
             WorksOn(w, id), WorksOn(w, i), rows[i].team = rows[id].team
      PROVE  i = id
  <2>1. CASE w = Cleaner
    <3>1. PICK t \in Teams, u \in Teams : <<id, t>> \in clean.busy /\ <<i, u>> \in clean.busy
      BY <1>3, <2>1, LockTakers DEF WorksOn
    <3> DEFINE b == <<id, t>>
               c == <<i, u>>
    <3>2. rows[b[1]].team = b[2] /\ rows[c[1]].team = c[2]
      BY <1>3, <3>1 DEF IInv, LInv, CleanOwns, Of
    <3>3. c = b
      BY <1>3, <3>1, <3>2 DEF IInv, LInv, CleanOwns
    <3> QED
      BY <3>3
  <2> QED
    BY <1>3, <2>1, LockTakers DEF WorksOn, Procs
<1>4. IInv /\ Taken => OneAtWork
  <2> SUFFICES ASSUME IInv, Taken, NEW w \in Procs, NEW id \in Ids, WorksOn(w, id),
                      NEW v \in Procs, NEW i \in Live, WorksOn(v, i),
                      rows[i].team = rows[id].team
               PROVE  v = w /\ i = id
    BY <1>2 DEF OneAtWork
  <2>1. i \in Ids /\ id \in Live
    BY <1>2 DEF Live
  <2>2. v = w
    BY <1>2, <2>1
  <2> QED
    BY <1>3, <2>1, <2>2
<1> QED
  BY <1>1, TakenKept, <1>4, InductiveInvariant, PTL DEF Spec

-----------------------------------------------------------------------------
(* The quota *)

\* Where a Start is once it has passed the quota.
Past == {"ensure", "insert", "net", "image", "create", "start", "record", "health"}

\* The place that the Start has counted is still free: nobody else of the team
\* can take it before the deploy ends.
Reserved == \A r \in Reqs :
    req[r].pc \in Past => Cardinality(TeamRunning(req[r].team)) < Quota

\* Row id is not made running by the step.
NotRaised(id) == rows'[id].state = "running" =>
    rows[id].state = "running" /\ rows'[id].team = rows[id].team

\* The row of a request keeps its owner; a state other than running is no
\* running row.
LEMMA SetStateRaises ==
  ASSUME TypeOK, NEW i, NEW st \in RowStates, rows' = SetState(i, st), NEW id \in Ids
  PROVE  /\ rows'[id].team = rows[id].team
         /\ id # i \/ st # "running" => NotRaised(id)
<1>1. CASE i \notin Live
  BY <1>1 DEF SetState, NotRaised
<1>2. CASE i \in Live
  <2>1. rows' = [rows EXCEPT ![i].state = st, ![i].upd = now]
    BY <1>2 DEF SetState
  <2>2. rows \in [Ids -> Row] /\ i \in Ids
    BY <1>2 DEF TypeOK, Live
  <2>3. id # i => rows'[id] = rows[id]
    BY <2>1, <2>2
  <2>4. rows'[i].team = rows[i].team /\ rows'[i].state = st
    BY <2>1, <2>2 DEF Row
  <2> QED
    BY <2>3, <2>4 DEF NotRaised
<1> QED
  BY <1>1, <1>2

\* Of the steps of a deploy only the verdict of health makes a row running.
LEMMA DeployRaises ==
  ASSUME IInv, NEW r \in Reqs, DeployStep(r), ~DeployHealth(r), NEW id \in Ids
  PROVE  NotRaised(id)
<1>0. TypeOK
  BY DEF IInv
<1>1. ASSUME UNCHANGED rows PROVE NotRaised(id)
  BY <1>1 DEF NotRaised
<1>2. ASSUME DeployFails(r) PROVE NotRaised(id)
  <2>1. "error" \in RowStates /\ "error" # "running" /\ rows' = SetState(req[r].inst, "error")
    BY <1>2 DEF RowStates, DeployFails
  <2> QED
    BY <1>0, <2>1, SetStateRaises
<1>3. CASE DeployNet(r)
  BY <1>1, <1>3 DEF DeployNet, db
<1>4. CASE DeployImage(r)
  BY <1>1, <1>2, <1>4 DEF DeployImage
<1>5. CASE DeployCreate(r)
  BY <1>1, <1>2, <1>5 DEF DeployCreate
<1>6. CASE DeployStart(r)
  BY <1>1, <1>2, <1>6 DEF DeployStart
<1>7. CASE DeployRecord(r)
  <2>1. CASE ~DeployFails(r)
    <3>1. /\ req[r].inst \in Live
          /\ rows' = [rows EXCEPT ![req[r].inst].state = "starting",
                          ![req[r].inst].ctr = req[r].ctr, ![req[r].inst].started = now,
                          ![req[r].inst].upd = now]
      BY <1>7, <2>1 DEF DeployRecord
    <3>2. req[r].inst \in Ids /\ rows \in [Ids -> Row]
      BY <1>0, <3>1 DEF Live, TypeOK
    <3>3. id # req[r].inst => rows'[id] = rows[id]
      BY <3>1, <3>2
    <3>4. rows'[req[r].inst].state = "starting"
      BY <3>1, <3>2 DEF Row
    <3> QED
      BY <3>3, <3>4 DEF NotRaised
  <2> QED
    BY <1>2, <2>1
<1> QED
  BY <1>3, <1>4, <1>5, <1>6, <1>7 DEF DeployStep

\* No other step makes a row running: inserts begin pending, an extension keeps
\* the state, sweeps and cleanup delete.
LEMMA OthersRaise ==
  ASSUME IInv, [Next]_vars, \A r \in Reqs : ~DeployHealth(r), NEW id \in Ids
  PROVE  NotRaised(id)
<1>0. TypeOK /\ rows \in [Ids -> Row]
  BY DEF IInv, TypeOK
<1>1. ASSUME UNCHANGED rows PROVE NotRaised(id)
  BY <1>1 DEF NotRaised
<1>2. ASSUME NEW i, rows' = [rows EXCEPT ![i] = NoRow] PROVE NotRaised(id)
  BY <1>0, <1>2 DEF NotRaised, NoRow
<1>3. ASSUME NEW t \in Teams, NEW c \in Chals, Extend(t, c) PROVE NotRaised(id)
  <2>1. PICK i \in TeamRows(t, c) : rows' = [rows EXCEPT ![i].exp = NextExpiry(i), ![i].upd = now]
    BY <1>3 DEF Extend
  <2>2. i \in Ids
    BY DEF TeamRows, Live
  <2>3. id # i => rows'[id] = rows[id]
    BY <1>0, <2>1, <2>2
  <2>4. rows'[i].state = rows[i].state /\ rows'[i].team = rows[i].team
    BY <1>0, <2>1, <2>2 DEF Row
  <2> QED
    BY <2>3, <2>4 DEF NotRaised
<1>4. ASSUME Arrive PROVE NotRaised(id)
  <2>1. ASSUME NEW r \in Reqs, NEW t \in Teams, NEW c \in Chals, StartLock(r, t, c) \/ StopLock(r, t, c)
        PROVE  UNCHANGED rows
    BY <2>1 DEF StartLock, StopLock, db
  <2> QED
    BY <1>1, <1>3, <1>4, <2>1 DEF Arrive
<1>5. ASSUME NEW r \in Reqs, InsertRow(r) PROVE NotRaised(id)
  <2>1. CASE UNCHANGED db
    BY <1>1, <2>1 DEF db
  <2>2. CASE ~UNCHANGED db
    <3> DEFINE n == [state |-> "pending", team |-> req[r].team,
                     chal |-> req[r].chal, port |-> Min(FreePorts(r)), ctr |-> 0,
                     exp |-> IF TTL = 0 THEN NoTime ELSE now + TTL,
                     started |-> NoTime, upd |-> now]
    <3>1. rows' = [rows EXCEPT ![nextId] = n]
      BY <1>5, <2>2 DEF InsertRow
    <3>2. n.state = "pending"
      OBVIOUS
    <3> HIDE DEF n
    <3> QED
      BY <1>0, <3>1, <3>2 DEF NotRaised
  <2> QED
    BY <2>1, <2>2
<1>6. ASSUME NEW r \in Reqs, Progress(r) PROVE NotRaised(id)
  <2>1. CASE StartCheck(r) \/ StartQuota(r) \/ EnsureTeamRow(r) \/ StartError(r)
    BY <1>1, <2>1 DEF StartCheck, StartQuota, EnsureTeamRow, StartError, db
  <2>2. CASE StopDelete(r)
    BY <1>1, <1>2, <2>2 DEF StopDelete
  <2> QED
    BY <1>5, <1>6, <2>1, <2>2, DeployRaises DEF Progress
<1>7. ASSUME Sweeping PROVE NotRaised(id)
  <2>1. CASE SweepDelete
    BY <1>1, <1>2, <2>1 DEF SweepDelete
  <2> QED
    BY <1>1, <1>7, <2>1 DEF Sweeping, SweepExpire, SweepReap, SweepEnd, SweepSkip, SweepDestroy, db
<1>8. ASSUME Cleaning PROVE NotRaised(id)
  <2>1. ASSUME NEW i \in Ids, NEW t \in Teams, CleanDelete(i, t) PROVE NotRaised(id)
    BY <1>1, <1>2, <2>1 DEF CleanDelete
  <2> QED
    BY <1>1, <1>8, <2>1 DEF Cleaning, CleanStart, CleanList, CleanEnd, CleanError, CleanRearm,
                            CleanDestroy, CleanSkip, db
<1>9. ASSUME Environment PROVE NotRaised(id)
  BY <1>1, <1>9 DEF Environment, Tick, EventEnds, EventReopens, Crash, CtrChanges, db
<1> QED
  BY <1>1, <1>4, <1>6, <1>7, <1>8, <1>9 DEF Next, vars

\* Request x is past the quota after the step only if it was before, or if the
\* step counted.
Passes(x) == req'[x].pc \in Past =>
    /\ req'[x].team = req[x].team
    /\ req[x].pc \in Past \/ (Cardinality(TeamRunning(req[x].team)) < Quota /\ UNCHANGED rows)

\* A request that moves on, changes fields but not its team, or returns.
LEMMA MovePasses ==
  ASSUME TypeOK, NEW r \in Reqs, NEW x \in Reqs,
         \/ Finish(r)
         \/ UNCHANGED req
         \/ /\ req[r].pc \in Past
            /\ \A y \in Reqs : y # r => req'[y] = req[y]
            /\ req'[r].team = req[r].team
  PROVE  Passes(x)
<1>0. req \in [Reqs -> Req]
  BY DEF TypeOK
<1>1. CASE Finish(r)
  <2>1. req'[x] = IF x = r THEN IdleReq ELSE req[x]
    BY <1>0, <1>1 DEF Finish
  <2>2. IdleReq.pc \notin Past
    BY DEF IdleReq, Past
  <2> QED
    BY <2>1, <2>2 DEF Passes
<1>2. CASE UNCHANGED req
  BY <1>2 DEF Passes
<1>3. CASE /\ req[r].pc \in Past
           /\ \A y \in Reqs : y # r => req'[y] = req[y]
           /\ req'[r].team = req[r].team
  BY <1>3 DEF Passes
<1> QED
  BY <1>1, <1>2, <1>3

\* Goto moves the program counter only.
LEMMA GotoPasses ==
  ASSUME TypeOK, NEW r \in Reqs, NEW l, Goto(r, l)
  PROVE  /\ \A y \in Reqs : y # r => req'[y] = req[y]
         /\ req'[r].team = req[r].team /\ req'[r].pc = l
BY DEF TypeOK, Req, Goto

\* A Start is past the quota only by way of the count.
LEMMA StartPasses ==
  ASSUME IInv, NEW r \in Reqs, NEW x \in Reqs,
         StartCheck(r) \/ StartQuota(r) \/ EnsureTeamRow(r) \/ InsertRow(r) \/ StartError(r)
  PROVE  Passes(x)
<1>0. TypeOK /\ req \in [Reqs -> Req] /\ r \in Reqs
  BY DEF IInv, TypeOK
<1>1. ASSUME Finish(r) PROVE Passes(x)
  BY <1>0, <1>1, MovePasses
<1>2. CASE StartCheck(r)
  <2>1. CASE Goto(r, "quota")
    BY <1>0, <2>1, GotoPasses DEF Passes, Past
  <2> QED
    BY <1>1, <1>2, <2>1 DEF StartCheck
<1>3. CASE StartQuota(r)
  <2>1. CASE ~Finish(r)
    <3>1. /\ ~(Cardinality(TeamRunning(req[r].team)) >= Quota) /\ Goto(r, "ensure")
          /\ UNCHANGED rows
      BY <1>3, <2>1 DEF StartQuota, db
    <3>2. Cardinality(TeamRunning(req[r].team)) < Quota
      <4>1. IsFiniteSet(TeamRunning(req[r].team))
        <5>1. IsFiniteSet(Ids) /\ TeamRunning(req[r].team) \subseteq Ids
          BY FS_Interval, BoundsAreNumbers DEF Ids, TeamRunning, Live
        <5> QED
          BY <5>1, FS_Subset
      <4>2. Cardinality(TeamRunning(req[r].team)) \in Nat
        BY <4>1, FS_CardinalityType
      <4> QED
        BY <3>1, <4>2, BoundsAreNumbers
    <3> QED
      BY <1>0, <3>1, <3>2, GotoPasses DEF Passes
  <2> QED
    BY <1>1, <2>1
<1>4. CASE EnsureTeamRow(r)
  <2>1. req[r].pc \in Past
    BY <1>4 DEF EnsureTeamRow, Past
  <2>2. ASSUME NEW id, req' = [req EXCEPT ![r].pc = "net", ![r].inst = id, ![r].port = rows[id].port]
        PROVE  Passes(x)
    <3>1. (\A y \in Reqs : y # r => req'[y] = req[y]) /\ req'[r].team = req[r].team
      BY <1>0, <2>2 DEF Req
    <3> QED
      BY <1>0, <2>1, <3>1, MovePasses
  <2>3. ASSUME req' = [req EXCEPT ![r].pc = "insert", ![r].seen = UsedPorts] PROVE Passes(x)
    <3>1. (\A y \in Reqs : y # r => req'[y] = req[y]) /\ req'[r].team = req[r].team
      BY <1>0, <2>3 DEF Req
    <3> QED
      BY <1>0, <2>1, <3>1, MovePasses
  <2> QED
    BY <1>1, <1>4, <2>2, <2>3 DEF EnsureTeamRow
<1>5. CASE InsertRow(r)
  <2>1. req[r].pc \in Past
    BY <1>5 DEF InsertRow, Past
  <2>2. ASSUME NEW p, req' = [req EXCEPT ![r].pc = "net", ![r].inst = nextId, ![r].port = p, ![r].seen = {}]
        PROVE  Passes(x)
    <3>1. (\A y \in Reqs : y # r => req'[y] = req[y]) /\ req'[r].team = req[r].team
      BY <1>0, <2>2 DEF Req
    <3> QED
      BY <1>0, <2>1, <3>1, MovePasses
  <2> QED
    BY <1>1, <1>5, <2>2 DEF InsertRow
<1>6. CASE StartError(r)
  BY <1>1, <1>6 DEF StartError
<1> QED
  BY <1>2, <1>3, <1>4, <1>5, <1>6

\* A deploy stays past the quota until it returns.
LEMMA DeployPasses ==
  ASSUME IInv, NEW r \in Reqs, NEW x \in Reqs, DeployStep(r)
  PROVE  Passes(x)
<1>0. TypeOK /\ req \in [Reqs -> Req] /\ req[r].pc \in Past
  BY DEF IInv, TypeOK, DeployStep, DeployNet, DeployImage, DeployCreate, DeployStart, DeployRecord,
         DeployHealth, Past
<1>1. ASSUME Finish(r) PROVE Passes(x)
  BY <1>0, <1>1, MovePasses
<1>2. ASSUME NEW l, Goto(r, l) PROVE Passes(x)
  BY <1>0, <1>2, GotoPasses, MovePasses
<1>3. ASSUME req' = [req EXCEPT ![r].pc = "start", ![r].ctr = nextCtr] PROVE Passes(x)
  <2>1. (\A y \in Reqs : y # r => req'[y] = req[y]) /\ req'[r].team = req[r].team
    BY <1>0, <1>3 DEF Req
  <2> QED
    BY <1>0, <2>1, MovePasses
<1>4. CASE DeployNet(r) \/ DeployImage(r)
  BY <1>1, <1>2, <1>4 DEF DeployNet, DeployImage, DeployFails
<1>5. CASE DeployCreate(r)
  BY <1>1, <1>3, <1>5 DEF DeployCreate, DeployFails
<1>6. CASE DeployStart(r) \/ DeployRecord(r) \/ DeployHealth(r)
  BY <1>1, <1>2, <1>6 DEF DeployStart, DeployRecord, DeployHealth, DeployFails
<1> QED
  BY <1>4, <1>5, <1>6 DEF DeployStep

\* The same for every step.
LEMMA NextPasses ==
  ASSUME IInv, [Next]_vars, NEW x \in Reqs
  PROVE  Passes(x)
<1>0. TypeOK /\ req \in [Reqs -> Req]
  BY DEF IInv, TypeOK
<1>1. ASSUME UNCHANGED req PROVE Passes(x)
  BY <1>1 DEF Passes
<1>2. ASSUME NEW r \in Reqs, NEW t \in Teams, NEW c \in Chals, StartLock(r, t, c) \/ StopLock(r, t, c)
      PROVE  Passes(x)
  <2>1. (\A y \in Reqs : y # r => req'[y] = req[y]) /\ req'[r].pc \in {"check", "delete"}
    BY <1>0, <1>2 DEF StartLock, StopLock, Req
  <2> QED
    BY <2>1 DEF Passes, Past
<1>3. ASSUME Arrive PROVE Passes(x)
  BY <1>1, <1>2, <1>3 DEF Arrive, Extend
<1>4. ASSUME NEW r \in Reqs, Progress(r) PROVE Passes(x)
  <2>1. CASE StopDelete(r)
    BY <1>0, <2>1, MovePasses DEF StopDelete
  <2> QED
    BY <1>4, <2>1, StartPasses, DeployPasses DEF Progress
<1>5. ASSUME Crash PROVE Passes(x)
  BY <1>5 DEF Crash, Passes, Past, IdleReq
<1>6. ASSUME Sweeping PROVE UNCHANGED req
  BY <1>6 DEF Sweeping, SweepExpire, SweepReap, SweepEnd, SweepSkip, SweepDestroy, SweepDelete
<1>7. ASSUME Cleaning PROVE UNCHANGED req
  BY <1>7 DEF Cleaning, CleanStart, CleanList, CleanEnd, CleanError, CleanRearm,
              CleanDestroy, CleanSkip, CleanDelete
<1>8. ASSUME Environment, ~Crash PROVE UNCHANGED req
  BY <1>8 DEF Environment, Tick, EventEnds, EventReopens, CtrChanges
<1> QED
  BY <1>1, <1>3, <1>4, <1>5, <1>6, <1>7, <1>8 DEF Next, vars

\* Running rows of a team are finitely many; fewer of them count less.
LEMMA RunningCount ==
  ASSUME NEW S \in SUBSET Ids, NEW T \in SUBSET S
  PROVE  /\ Cardinality(S) \in Nat /\ Cardinality(T) \in Nat
         /\ Cardinality(T) <= Cardinality(S)
<1>1. IsFiniteSet(Ids)
  BY FS_Interval, BoundsAreNumbers DEF Ids
<1>2. IsFiniteSet(S) /\ IsFiniteSet(T)
  BY <1>1, FS_Subset
<1> QED
  BY <1>2, FS_CardinalityType, FS_Subset

\* One more of them counts at most one more.
LEMMA OneMore ==
  ASSUME NEW S \in SUBSET Ids, NEW i, NEW T \in SUBSET (S \cup {i})
  PROVE  Cardinality(T) \in Nat /\ Cardinality(T) <= Cardinality(S) + 1
<1>1. IsFiniteSet(Ids)
  BY FS_Interval, BoundsAreNumbers DEF Ids
<1>2. IsFiniteSet(S)
  BY <1>1, FS_Subset
<1>3. /\ IsFiniteSet(S \cup {i})
      /\ Cardinality(S \cup {i}) = IF i \in S THEN Cardinality(S) ELSE Cardinality(S) + 1
  BY <1>2, FS_AddElement
<1>4. IsFiniteSet(T) /\ Cardinality(T) <= Cardinality(S \cup {i})
  BY <1>3, FS_Subset
<1>5. Cardinality(S) \in Nat /\ Cardinality(T) \in Nat
  BY <1>2, <1>4, FS_CardinalityType
<1> QED
  BY <1>3, <1>4, <1>5

\* The count is kept: the place that is taken is the reserved one.
LEMMA QuotaSteps ==
  ASSUME IInv, QuotaHeld, Reserved, [Next]_vars
  PROVE  QuotaHeld' /\ Reserved'
<1>0. TypeOK /\ LInv /\ IInv' /\ req \in [Reqs -> Req] /\ rows \in [Ids -> Row]
  BY NextIInv DEF IInv, TypeOK
<1>1. \A t : TeamRunning(t) \in SUBSET Ids
  BY DEF TeamRunning, Live
<1>2. \A r \in Reqs : Passes(r)
  BY NextPasses
<1>p. \A r \in Reqs : req'[r].pc \in Past => req'[r].team \in Teams
  BY <1>0 DEF IInv, LInv, ReqOwns, Past
<1>3. CASE \A r \in Reqs : ~DeployHealth(r)
  <2>1. \A t : TeamRunning(t)' \subseteq TeamRunning(t)
    BY <1>3, OthersRaise DEF NotRaised, TeamRunning, Live
  <2>2. \A t : /\ Cardinality(TeamRunning(t)) \in Nat /\ Cardinality(TeamRunning(t)') \in Nat
               /\ Cardinality(TeamRunning(t)') <= Cardinality(TeamRunning(t))
    BY <1>1, <2>1, RunningCount
  <2>3. QuotaHeld'
    BY <2>2, BoundsAreNumbers DEF QuotaHeld
  <2>4. Reserved'
    <3> SUFFICES ASSUME NEW r \in Reqs, NEW t, t = req'[r].team, req'[r].pc \in Past
                 PROVE  Cardinality(TeamRunning(t)') < Quota
      BY DEF Reserved, TeamRunning, Live
    <3>1. Cardinality(TeamRunning(t)) < Quota
      BY <1>2 DEF Passes, Reserved
    <3> QED
      BY <2>2, <3>1, BoundsAreNumbers
  <2> QED
    BY <2>3, <2>4
<1>4. ASSUME NEW r \in Reqs, DeployHealth(r) PROVE QuotaHeld' /\ Reserved'
  <2>1. PICK own, i : own = req[r].team /\ i = req[r].inst
    OBVIOUS
  <2>2. own \in Teams /\ holder[own] = r /\ req[r].pc \in Past
    BY <1>0, <1>4, <2>1 DEF LInv, ReqOwns, DeployHealth, Past
  <2>3. \/ rows' = SetState(i, Health(req[r].ctr))
        \/ rows' = SetState(i, "error")
    BY <1>4, <2>1 DEF DeployHealth, DeployFails
  <2>4. PICK st \in RowStates : rows' = SetState(i, st)
    BY <2>3, HealthState DEF RowStates
  <2>5. \A id \in Ids : rows'[id].team = rows[id].team /\ (id # i => NotRaised(id))
    BY <1>0, <2>4, SetStateRaises
  <2>6. i \in Ids => i \in Live /\ rows[i].team = own
    BY <1>0, <2>1, BoundsAreNumbers DEF LInv, RowPinned, Ids
  <2>7. \A t : t # own => TeamRunning(t)' \subseteq TeamRunning(t)
    BY <2>5, <2>6 DEF NotRaised, TeamRunning, Live
  <2>8. TeamRunning(own)' \subseteq TeamRunning(own) \cup {i}
    BY <2>5 DEF NotRaised, TeamRunning, Live
  <2>9. \A t : /\ Cardinality(TeamRunning(t)) \in Nat
               /\ t # own => /\ Cardinality(TeamRunning(t)') \in Nat
                             /\ Cardinality(TeamRunning(t)') <= Cardinality(TeamRunning(t))
    BY <1>1, <2>7, RunningCount
  <2>10. /\ Cardinality(TeamRunning(own)') \in Nat
         /\ Cardinality(TeamRunning(own)') <= Cardinality(TeamRunning(own)) + 1
    BY <1>1, <2>8, OneMore
  <2>11. Cardinality(TeamRunning(own)) < Quota
    BY <2>1, <2>2 DEF Reserved
  <2>12. QuotaHeld'
    <3> SUFFICES ASSUME NEW t \in Teams PROVE Cardinality(TeamRunning(t)') <= Quota
      BY DEF QuotaHeld, TeamRunning, Live
    <3>1. CASE t = own
      BY <2>9, <2>10, <2>11, <3>1, BoundsAreNumbers
    <3>2. CASE t # own
      BY <2>9, <3>2, BoundsAreNumbers DEF QuotaHeld
    <3> QED
      BY <3>1, <3>2
  <2>13. Reserved'
    <3> SUFFICES ASSUME NEW x \in Reqs, NEW t, t = req'[x].team, req'[x].pc \in Past
                 PROVE  Cardinality(TeamRunning(t)') < Quota
      BY DEF Reserved, TeamRunning, Live
    <3>1. x # r
      BY <1>0, <1>4 DEF DeployHealth, DeployFails, Finish, IdleReq, Past
    <3>2. req'[x] = req[x]
      BY <1>0, <1>4, <3>1 DEF DeployHealth, DeployFails, Finish
    <3>3. holder[t] = x /\ t \in Teams
      BY <1>0, <3>2 DEF LInv, ReqOwns, Past
    <3>4. Cardinality(TeamRunning(t)) < Quota /\ t # own
      BY <2>2, <3>1, <3>2, <3>3 DEF Reserved
    <3> QED
      BY <2>9, <3>4, BoundsAreNumbers
  <2> QED
    BY <2>12, <2>13
<1> QED
  BY <1>3, <1>4

\* The quota is counted long before the deploy makes the row running, and the
\* deploy may be overtaken by sweeps, stops, crashes and containers that change
\* by themselves: for any number of teams, challenges, requests and any quota, a
\* team never has more running instances than its quota.
THEOREM QuotaAlwaysHeld == Spec => []QuotaHeld
<1>1. Init => QuotaHeld /\ Reserved
  <2> SUFFICES ASSUME Init PROVE QuotaHeld /\ Reserved
    OBVIOUS
  <2>1. \A t : TeamRunning(t) = {}
    BY DEF Init, TeamRunning, Live, NoRow
  <2>2. Cardinality({}) = 0
    BY FS_EmptySet
  <2>3. QuotaHeld
    BY <2>1, <2>2, BoundsAreNumbers DEF QuotaHeld
  <2>4. Reserved
    BY DEF Init, Reserved, IdleReq, Past
  <2> QED
    BY <2>3, <2>4
<1>2. IInv /\ (QuotaHeld /\ Reserved) /\ [Next]_vars => (QuotaHeld /\ Reserved)'
  BY QuotaSteps
<1> QED
  BY <1>1, <1>2, InductiveInvariant, PTL DEF Spec

-----------------------------------------------------------------------------
(* The fleet: its inductive invariant *)

Deploying == {"net", "image", "create", "start", "record", "health"}

\* A request knows its team and challenge; a deploy its row, and the container
\* it is about to record.
Knows(q) == /\ q.pc # "idle" => q.team \in Teams /\ q.chal \in Chals
            /\ q.pc \in Deploying => q.inst \in Ids /\ q.inst < nextId
            /\ q.pc \in {"start", "record"} => q.ctr # 0

\* A container's label is a row id that is not given again, and its own id is
\* not given again either.
Labelled == \A c \in CtrIds : /\ ctr[c].inst < nextId
                              /\ c >= nextCtr => ctr[c] = NoCtr
                              /\ ctr[c].st # "gone" => ctr[c].inst # 0

FleetCore == TypeOK /\ RowsOwned /\ Labelled /\ \A r \in Reqs : Knows(req[r])

\* What the pass has seen or decided and still has to be so: a container keeps
\* its label; a row that was missing stays away; a recorded container is
\* replaced but not forgotten.
Recorded(id) == id \in Live => rows[id].ctr # 0
ObsKept == \A o \in rec.obs : /\ o[1] < nextCtr /\ o[2] < nextId
                              /\ ctr[o[1]].inst \in {0, o[2]}
RowsKept == rec.pc = "nets" =>
    /\ \A o \in rec.obs : rec.rows[o[2]].state = "absent" => o[2] \notin Live
    /\ \A id \in Ids : rec.rows[id].state # "absent" =>
          id < nextId /\ (rec.rows[id].ctr # 0 => Recorded(id))
RmKept == \A c \in rec.rm : c < nextCtr /\ Recorded(ctr[c].inst)

FleetInv == FleetCore /\ FleetTypeOK /\ ObsKept /\ RowsKept /\ RmKept

\* The step makes no row of an old id and forgets no recorded container.
RowsGoOn == /\ nextId <= nextId'
            /\ \A id \in Live' : id < nextId =>
                  id \in Live /\ (rows[id].ctr # 0 => rows'[id].ctr # 0)

\* The step relabels no container.
CtrsGoOn == /\ nextCtr <= nextCtr'
            /\ \A c \in CtrIds : c < nextCtr => ctr'[c].inst \in {0, ctr[c].inst}

-----------------------------------------------------------------------------
(* The fleet: rows, containers and requests *)

\* A table that shrinks, and in which no container is forgotten.
LEMMA TableGoesOn ==
  ASSUME TypeOK, RowsOwned, Shrinks,
         \A id \in Live' : rows[id].ctr # 0 => rows'[id].ctr # 0
  PROVE  RowsGoOn /\ RowsOwned'
<1>1. nextId' = nextId /\ nextId \in Nat /\ Live' \subseteq Live
  BY DEF Shrinks, TypeOK
<1> QED
  BY <1>1, ShrinkKeeps DEF RowsGoOn

LEMMA SameGoesOn ==
  ASSUME TypeOK, RowsOwned, rows' = rows, nextId' = nextId
  PROVE  RowsGoOn /\ RowsOwned'
BY SameShrinks, TableGoesOn

LEMMA DeleteGoesOn ==
  ASSUME TypeOK, RowsOwned, NEW d, rows' = [rows EXCEPT ![d] = NoRow], nextId' = nextId
  PROVE  RowsGoOn /\ RowsOwned'
<1>1. Shrinks /\ Live' = Live \ {d}
  BY DeleteShrinks
<1>2. \A id \in Ids : id # d => rows'[id] = rows[id]
  BY DEF TypeOK
<1>3. \A id \in Live' : rows'[id] = rows[id]
  BY <1>1, <1>2 DEF Live
<1> QED
  BY <1>1, <1>3, TableGoesOn

LEMMA StateGoesOn ==
  ASSUME TypeOK, RowsOwned, NEW i, NEW st \in RowStates, rows' = SetState(i, st), nextId' = nextId
  PROVE  RowsGoOn /\ RowsOwned'
<1>1. Shrinks /\ Live' = Live
  BY SetStateKeeps, KeptShrinks
<1>2. \A id \in Ids : rows'[id].ctr = rows[id].ctr
  BY DEF TypeOK, SetState, Row
<1>3. \A id \in Live' : rows'[id].ctr = rows[id].ctr
  BY <1>2 DEF Live
<1> QED
  BY <1>1, <1>3, TableGoesOn

\* No container appears, and none is relabelled except by its removal.
LEMMA CtrsThin ==
  ASSUME TypeOK, Labelled, nextId' \in Nat, nextId <= nextId', nextCtr' = nextCtr,
         \A c \in CtrIds : \/ ctr'[c] = NoCtr
                           \/ /\ ctr'[c].inst = ctr[c].inst
                              /\ ctr[c].st # "gone" \/ ctr'[c] = ctr[c]
  PROVE  Labelled' /\ CtrsGoOn
<1>1. nextId \in Nat \ {0} /\ nextCtr \in Nat
  BY DEF TypeOK
<1>2. NoCtr.st = "gone" /\ NoCtr.inst = 0
  BY DEF NoCtr
<1>3. \A c \in CtrIds : c \in Int /\ ctr[c].inst \in Int
  BY IdNumbers
<1>4. Labelled'
  <2> SUFFICES ASSUME NEW c \in CtrIds
               PROVE  /\ ctr'[c].inst < nextId'
                      /\ c >= nextCtr => ctr'[c] = NoCtr
                      /\ ctr'[c].st # "gone" => ctr'[c].inst # 0
    BY DEF Labelled
  <2>1. CASE ctr'[c] = NoCtr
    BY <1>1, <1>2, <2>1
  <2>2. CASE ctr'[c] # NoCtr
    BY <1>1, <1>2, <1>3, <2>2 DEF Labelled
  <2> QED BY <2>1, <2>2
<1>5. CtrsGoOn
  BY <1>1, <1>2 DEF CtrsGoOn
<1> QED BY <1>4, <1>5

LEMMA SameCtrs ==
  ASSUME TypeOK, Labelled, nextId' \in Nat, nextId <= nextId', UNCHANGED <<ctr, nextCtr>>
  PROVE  Labelled' /\ CtrsGoOn
BY CtrsThin

LEMMA LabelsRemoved ==
  ASSUME TypeOK, Labelled, NEW id, RemoveByLabel(id), nextId' = nextId, nextCtr' = nextCtr
  PROVE  Labelled' /\ CtrsGoOn
<1>1. \A c \in CtrIds : ctr'[c] = NoCtr \/ ctr'[c] = ctr[c]
  BY DEF RemoveByLabel, Unlabelled
<1>2. nextId' \in Nat /\ nextId <= nextId'
  BY DEF TypeOK
<1> QED BY <1>1, <1>2, CtrsThin

\* A request moves on, the others stay.
LEMMA RequestKnows ==
  ASSUME TypeOK, \A r \in Reqs : Knows(req[r]), nextId' \in Nat, nextId <= nextId', NEW r \in Reqs,
         \A x \in Reqs : x # r => req'[x] = req[x], Knows(req[r])'
  PROVE  (\A x \in Reqs : Knows(req[x]))'
<1>1. nextId \in Nat /\ \A x \in Reqs : req[x].inst \in Ids => req[x].inst \in Int
  BY DEF TypeOK, Ids
<1>2. ASSUME NEW x \in Reqs, x # r PROVE Knows(req[x])'
  BY <1>1, <1>2 DEF Knows
<1> QED BY <1>2

LEMMA SameKnows ==
  ASSUME TypeOK, \A r \in Reqs : Knows(req[r]), nextId' \in Nat, nextId <= nextId', req' = req
  PROVE  (\A x \in Reqs : Knows(req[x]))'
<1>1. nextId \in Nat /\ \A x \in Reqs : req[x].inst \in Ids => req[x].inst \in Int
  BY DEF TypeOK, Ids
<1> QED BY <1>1 DEF Knows

\* The request returns, or goes to a place where it has to know no more.
LEMMA FinishKnows ==
  ASSUME TypeOK, \A r \in Reqs : Knows(req[r]), nextId' = nextId, NEW r \in Reqs, Finish(r)
  PROVE  (\A x \in Reqs : Knows(req[x]))'
<1>1. /\ \A x \in Reqs : x # r => req'[x] = req[x]
      /\ req'[r] = IdleReq
  BY DEF Finish, TypeOK
<1>2. Knows(req[r])'
  BY <1>1 DEF Knows, IdleReq, Deploying
<1>3. nextId' \in Nat /\ nextId <= nextId'
  BY DEF TypeOK
<1> QED BY <1>1, <1>2, <1>3, RequestKnows

LEMMA GotoKnows ==
  ASSUME TypeOK, \A x \in Reqs : Knows(req[x]), nextId' = nextId, NEW r \in Reqs, NEW l, Goto(r, l),
         req[r].pc # "idle", l # "idle",
         l \in Deploying => req[r].pc \in Deploying,
         l \in {"start", "record"} => req[r].pc \in {"start", "record"}
  PROVE  (\A x \in Reqs : Knows(req[x]))'
<1>1. /\ \A x \in Reqs : x # r => req'[x] = req[x]
      /\ req'[r].pc = l /\ req'[r].team = req[r].team /\ req'[r].chal = req[r].chal
      /\ req'[r].inst = req[r].inst /\ req'[r].ctr = req[r].ctr
  BY DEF Goto, TypeOK, Req
<1>2. Knows(req[r])'
  BY <1>1 DEF Knows
<1>3. nextId' \in Nat /\ nextId <= nextId'
  BY DEF TypeOK
<1> QED BY <1>1, <1>2, <1>3, RequestKnows

-----------------------------------------------------------------------------
(* The fleet: the steps of Instances *)

GoesOn == /\ RowsGoOn /\ CtrsGoOn /\ RowsOwned' /\ Labelled'
          /\ (\A r \in Reqs : Knows(req[r]))'

\* A step that leaves the rows and the containers alone.
LEMMA NothingMoves ==
  ASSUME FleetCore, UNCHANGED <<rows, nextId, ctr, nextCtr>>,
         (\A r \in Reqs : Knows(req[r]))'
  PROVE  GoesOn
<1>1. nextId' \in Nat /\ nextId <= nextId'
  BY DEF FleetCore, TypeOK
<1> QED BY <1>1, SameGoesOn, SameCtrs DEF GoesOn, FleetCore

\* Requests come in (Start, Stop, Extend).
LEMMA ArriveGoesOn == ASSUME FleetCore, Arrive PROVE GoesOn
<1> USE DEF db, docker, world, others
<1>0. /\ TypeOK /\ RowsOwned /\ Labelled /\ \A x \in Reqs : Knows(req[x])
      /\ nextId \in Nat
  BY DEF FleetCore, TypeOK
<1>1. ASSUME NEW r \in Reqs, NEW t \in Teams, NEW c \in Chals, StartLock(r, t, c)
      PROVE  GoesOn
  <2>1. /\ \A x \in Reqs : x # r => req'[x] = req[x]
        /\ req'[r].pc = "check" /\ req'[r].team = t /\ req'[r].chal = c
    BY <1>0, <1>1 DEF StartLock, TypeOK, Req
  <2>2. Knows(req[r])'
    BY <2>1 DEF Knows, Deploying
  <2>3. UNCHANGED <<rows, nextId, ctr, nextCtr>>
    BY <1>1 DEF StartLock
  <2> QED BY <1>0, <2>1, <2>2, <2>3, RequestKnows, NothingMoves
<1>2. ASSUME NEW r \in Reqs, NEW t \in Teams, NEW c \in Chals, StopLock(r, t, c)
      PROVE  GoesOn
  <2>1. PICK id \in TeamRows(t, c) :
            /\ req' = [req EXCEPT ![r].pc = "delete", ![r].team = t,
                                  ![r].chal = c, ![r].inst = id]
            /\ RemoveByLabel(id)
            /\ UNCHANGED <<rows, nextId, nextCtr>>
    BY <1>2 DEF StopLock
  <2>2. /\ \A x \in Reqs : x # r => req'[x] = req[x]
        /\ req'[r].pc = "delete" /\ req'[r].team = t /\ req'[r].chal = c
    BY <1>0, <2>1 DEF TypeOK, Req
  <2>3. Knows(req[r])'
    BY <2>2 DEF Knows, Deploying
  <2>6. nextId' \in Nat /\ nextId <= nextId'
    BY <1>0, <2>1
  <2>4. (\A x \in Reqs : Knows(req[x]))'
    BY <1>0, <2>2, <2>3, <2>6, RequestKnows
  <2>5. Labelled' /\ CtrsGoOn
    BY <1>0, <2>1, LabelsRemoved
  <2> QED BY <1>0, <2>1, <2>4, <2>5, SameGoesOn DEF GoesOn
<1>3. ASSUME NEW t \in Teams, NEW c \in Chals, Extend(t, c) PROVE GoesOn
  <2>1. PICK id \in TeamRows(t, c) :
            rows' = [rows EXCEPT ![id].exp = NextExpiry(id), ![id].upd = now]
    BY <1>3 DEF Extend
  <2>2. UNCHANGED <<nextId, ctr, nextCtr, req>>
    BY <1>3 DEF Extend
  <2>3. \A i \in Ids : /\ rows'[i].state = rows[i].state /\ rows'[i].team = rows[i].team
                       /\ rows'[i].chal = rows[i].chal /\ rows'[i].port = rows[i].port
                       /\ rows'[i].ctr = rows[i].ctr
    BY <1>0, <2>1 DEF TypeOK, Row
  <2>4. Shrinks /\ Live' = Live
    BY <2>2, <2>3, KeptShrinks DEF Kept
  <2>5. RowsGoOn /\ RowsOwned'
    <3>1. \A i \in Live' : rows'[i].ctr = rows[i].ctr
      BY <2>3 DEF Live
    <3> QED BY <1>0, <2>4, <3>1, TableGoesOn
  <2> QED BY <1>0, <2>2, <2>5, SameCtrs, SameKnows DEF GoesOn
<1> QED BY <1>1, <1>2, <1>3 DEF Arrive

\* A Start up to its row (StartCheck, StartQuota, ensureTeamRow).
LEMMA StartGoesOn ==
  ASSUME FleetCore, NEW r \in Reqs,
         StartCheck(r) \/ StartQuota(r) \/ EnsureTeamRow(r) \/ StartError(r)
  PROVE  GoesOn
<1> USE DEF db, docker, world, others
<1>0. /\ TypeOK /\ RowsOwned /\ Labelled /\ \A x \in Reqs : Knows(req[x])
      /\ nextId \in Nat
  BY DEF FleetCore, TypeOK
<1>1. UNCHANGED <<rows, nextId, ctr, nextCtr>>
  BY DEF StartCheck, StartQuota, EnsureTeamRow, StartError
<1>2. CASE Finish(r)
  BY <1>0, <1>1, <1>2, FinishKnows, NothingMoves
<1>3. CASE StartCheck(r) /\ ~Finish(r)
  <2>1. Goto(r, "quota") /\ req[r].pc = "check"
    BY <1>3 DEF StartCheck
  <2> QED BY <1>0, <1>1, <2>1, GotoKnows, NothingMoves DEF Deploying
<1>4. CASE StartQuota(r) /\ ~Finish(r)
  <2>1. Goto(r, "ensure") /\ req[r].pc = "quota"
    BY <1>4 DEF StartQuota
  <2> QED BY <1>0, <1>1, <2>1, GotoKnows, NothingMoves DEF Deploying
<1>5. CASE EnsureTeamRow(r) /\ ~Finish(r)
  <2>0. req[r].pc = "ensure" /\ req[r].team \in Teams /\ req[r].chal \in Chals
    BY <1>0, <1>5 DEF EnsureTeamRow, Knows
  <2>1. ASSUME NEW id \in TeamRows(req[r].team, req[r].chal),
               req' = [req EXCEPT ![r].pc = "net", ![r].inst = id,
                                  ![r].port = rows[id].port]
        PROVE  GoesOn
    <3>1. /\ \A x \in Reqs : x # r => req'[x] = req[x]
          /\ req'[r].pc = "net" /\ req'[r].team = req[r].team
          /\ req'[r].chal = req[r].chal /\ req'[r].inst = id
      BY <1>0, <2>1 DEF TypeOK, Req
    <3>2. id \in Ids /\ id < nextId
      BY <1>0 DEF TeamRows, Live, RowsOwned
    <3>3. Knows(req[r])'
      BY <1>1, <2>0, <3>1, <3>2 DEF Knows
    <3> QED BY <1>0, <1>1, <3>1, <3>3, RequestKnows, NothingMoves
  <2>2. ASSUME req' = [req EXCEPT ![r].pc = "insert", ![r].seen = UsedPorts]
        PROVE  GoesOn
    <3>1. /\ \A x \in Reqs : x # r => req'[x] = req[x]
          /\ req'[r].pc = "insert" /\ req'[r].team = req[r].team
          /\ req'[r].chal = req[r].chal
      BY <1>0, <2>2 DEF TypeOK, Req
    <3>2. Knows(req[r])'
      BY <2>0, <3>1 DEF Knows, Deploying
    <3> QED BY <1>0, <1>1, <3>1, <3>2, RequestKnows, NothingMoves
  <2> QED BY <1>5, <2>1, <2>2 DEF EnsureTeamRow
<1>6. StartError(r) => Finish(r)
  BY DEF StartError
<1> QED BY <1>2, <1>3, <1>4, <1>5, <1>6

\* The row (allocateRow): a new id, which no label names.
LEMMA InsertGoesOn == ASSUME FleetCore, NEW r \in Reqs, InsertRow(r) PROVE GoesOn
<1> USE DEF db, docker, world, others
<1>0. /\ TypeOK /\ RowsOwned /\ Labelled /\ \A x \in Reqs : Knows(req[x])
      /\ nextId \in Nat /\ UNCHANGED <<ctr, nextCtr>>
  BY DEF FleetCore, TypeOK, InsertRow
<1>1. CASE FreePorts(r) = {}
  <2>1. Finish(r) /\ UNCHANGED <<rows, nextId>>
    BY <1>1 DEF InsertRow
  <2> QED BY <1>0, <2>1, FinishKnows, NothingMoves
<1>2. CASE FreePorts(r) # {}
  <2>1. nextId \in Ids
    BY <1>0, <1>2, NextIdType
  <2>2. /\ rows'[nextId].team = req[r].team /\ rows'[nextId].chal = req[r].chal
        /\ \A id \in Ids : id # nextId => rows'[id] = rows[id]
    BY <1>0, <1>2, <2>1 DEF InsertRow, TypeOK
  <2>3. /\ \A x \in Reqs : x # r => req'[x] = req[x]
        /\ req'[r].pc = "net" /\ req'[r].team = req[r].team
        /\ req'[r].chal = req[r].chal /\ req'[r].inst = nextId
    BY <1>0, <1>2 DEF InsertRow, TypeOK, Req
  <2>4. /\ req[r].team \in Teams /\ req[r].chal \in Chals /\ nextId' = nextId + 1
    BY <1>0, <1>2 DEF InsertRow, Knows
  <2>5. \A id \in Live' : id = nextId \/ (id \in Live /\ rows'[id] = rows[id])
    BY <2>2 DEF Live
  <2>6. \A id \in Live' : id \in Int
    BY DEF Live, Ids
  <2>7. RowsGoOn /\ RowsOwned'
    BY <1>0, <2>2, <2>4, <2>5, <2>6 DEF RowsGoOn, RowsOwned
  <2>8. Knows(req[r])'
    BY <1>0, <2>1, <2>3, <2>4 DEF Knows
  <2>9. nextId' \in Nat /\ nextId <= nextId'
    BY <1>0, <2>4
  <2> QED BY <1>0, <2>3, <2>7, <2>8, <2>9, RequestKnows, SameCtrs DEF GoesOn
<1> QED BY <1>1, <1>2

\* A deploy that fails marks its row and returns.
LEMMA FailsGoesOn ==
  ASSUME FleetCore, NEW r \in Reqs, DeployFails(r), UNCHANGED <<nextId, ctr, nextCtr>>
  PROVE  GoesOn
<1>1. /\ TypeOK /\ RowsOwned /\ Labelled /\ \A x \in Reqs : Knows(req[x])
      /\ nextId' \in Nat /\ nextId <= nextId' /\ "error" \in RowStates
  BY DEF FleetCore, TypeOK, RowStates
<1>2. RowsGoOn /\ RowsOwned'
  BY <1>1, StateGoesOn DEF DeployFails
<1>3. (\A x \in Reqs : Knows(req[x]))'
  BY <1>1, FinishKnows DEF DeployFails
<1> QED BY <1>1, <1>2, <1>3, SameCtrs DEF GoesOn

\* A deploy, step by step.
LEMMA DeployGoesOn == ASSUME FleetCore, NEW r \in Reqs, DeployStep(r) PROVE GoesOn
<1> USE DEF db, docker, world, others
<1>0. /\ TypeOK /\ RowsOwned /\ Labelled /\ \A x \in Reqs : Knows(req[x])
      /\ nextId \in Nat /\ nextCtr \in Nat
      /\ {"net", "image", "create", "start", "record", "health"} = Deploying
  BY DEF FleetCore, TypeOK, Deploying
<1>1. nextId' = nextId /\ nextId' \in Nat /\ nextId <= nextId'
  <2>1. nextId' = nextId
    BY DEF DeployStep, DeployNet, DeployImage, DeployCreate, DeployStart,
           DeployRecord, DeployHealth
  <2> QED BY <1>0, <2>1
<1>2. CASE DeployNet(r)
  <2>1. UNCHANGED <<rows, nextId, ctr, nextCtr>> /\ req[r].pc = "net"
        /\ (Goto(r, "image") \/ Finish(r))
    BY <1>2 DEF DeployNet
  <2> QED BY <1>0, <2>1, GotoKnows, FinishKnows, NothingMoves
<1>3. CASE DeployImage(r)
  <2>1. nextCtr' = nextCtr /\ req[r].pc = "image"
    BY <1>3 DEF DeployImage
  <2>2. CASE RemoveByLabel(req[r].inst) /\ Goto(r, "create") /\ rows' = rows
    BY <1>0, <1>1, <2>1, <2>2, SameGoesOn, LabelsRemoved, GotoKnows DEF GoesOn
  <2>3. CASE DeployFails(r) /\ ctr' = ctr
    BY <1>1, <2>1, <2>3, FailsGoesOn
  <2>4. CASE Finish(r) /\ rows' = rows /\ ctr' = ctr
    BY <1>0, <1>1, <2>1, <2>4, FinishKnows, NothingMoves
  <2> QED BY <1>3, <2>2, <2>3, <2>4 DEF DeployImage
<1>4. CASE DeployCreate(r)
  <2>1. CASE DeployFails(r) /\ UNCHANGED <<ctr, nextCtr>>
    BY <1>1, <2>1, FailsGoesOn
  <2>2. CASE ~(DeployFails(r) /\ UNCHANGED <<ctr, nextCtr>>)
    <3> DEFINE new == [st |-> "created", inst |-> req[r].inst, team |-> req[r].team,
                       port |-> req[r].port]
    <3>1. /\ req[r].pc = "create" /\ nextCtr <= MaxCtr
          /\ ctr' = [ctr EXCEPT ![nextCtr] = new]
          /\ nextCtr' = nextCtr + 1 /\ rows' = rows
          /\ req' = [req EXCEPT ![r].pc = "start", ![r].ctr = nextCtr]
      BY <1>4, <2>2 DEF DeployCreate
    <3>2. new.inst = req[r].inst /\ new.st = "created"
      OBVIOUS
    <3> HIDE DEF new
    <3>3. /\ nextCtr \in CtrIds /\ nextCtr # 0
          /\ \A c \in CtrIds : c \in Int /\ ctr[c].inst \in Int
      <4>1. nextCtr \in Nat \ {0}
        BY <1>0 DEF TypeOK
      <4> QED BY <1>0, <3>1, <4>1, IdBounds, IdNumbers DEF CtrIds
    <3>4. /\ ctr'[nextCtr] = new
          /\ \A c \in CtrIds : c # nextCtr => ctr'[c] = ctr[c]
      BY <1>0, <3>1, <3>3 DEF TypeOK
    <3>5. /\ \A x \in Reqs : x # r => req'[x] = req[x]
          /\ req'[r].pc = "start" /\ req'[r].team = req[r].team
          /\ req'[r].chal = req[r].chal /\ req'[r].inst = req[r].inst
          /\ req'[r].ctr = nextCtr
      BY <1>0, <3>1 DEF TypeOK, Req
    <3>6. /\ req[r].inst \in Ids /\ req[r].inst < nextId /\ req[r].inst # 0
          /\ req[r].team \in Teams /\ req[r].chal \in Chals
      BY <1>0, <3>1 DEF Knows, Ids
    <3>7. Labelled'
      <4> SUFFICES ASSUME NEW c \in CtrIds
                   PROVE  /\ ctr'[c].inst < nextId'
                          /\ c >= nextCtr' => ctr'[c] = NoCtr
                          /\ ctr'[c].st # "gone" => ctr'[c].inst # 0
        BY DEF Labelled
      <4>1. CASE c = nextCtr
        BY <1>0, <1>1, <3>1, <3>2, <3>4, <3>6, <4>1
      <4>2. CASE c # nextCtr
        BY <1>0, <1>1, <3>1, <3>3, <3>4, <4>2 DEF Labelled
      <4> QED BY <4>1, <4>2
    <3>8. CtrsGoOn
      BY <1>0, <3>1, <3>3, <3>4 DEF CtrsGoOn
    <3>9. Knows(req[r])'
      BY <1>1, <3>3, <3>5, <3>6 DEF Knows
    <3> QED BY <1>0, <1>1, <3>1, <3>5, <3>7, <3>8, <3>9, SameGoesOn, RequestKnows DEF GoesOn
  <2> QED BY <2>1, <2>2
<1>5. CASE DeployStart(r)
  <2>1. nextCtr' = nextCtr /\ req[r].pc = "start"
    BY <1>5 DEF DeployStart
  <2>2. CASE DeployFails(r) /\ ctr' = ctr
    BY <1>1, <2>1, <2>2, FailsGoesOn
  <2>3. CASE ~(DeployFails(r) /\ ctr' = ctr)
    <3>1. /\ ctr' = [ctr EXCEPT ![req[r].ctr].st = Started(req[r].chal)]
          /\ ctr[req[r].ctr].st = "created" /\ Goto(r, "record") /\ rows' = rows
      BY <1>5, <2>3 DEF DeployStart, Startable
    <3>2. \A c \in CtrIds : /\ ctr'[c].inst = ctr[c].inst
                            /\ ctr[c].st # "gone" \/ ctr'[c] = ctr[c]
      BY <1>0, <3>1 DEF TypeOK, Ctr
    <3>3. Labelled' /\ CtrsGoOn
      BY <1>0, <1>1, <2>1, <3>2, CtrsThin
    <3> QED BY <1>0, <1>1, <2>1, <3>1, <3>3, SameGoesOn, GotoKnows DEF GoesOn
  <2> QED BY <2>2, <2>3
<1>6. CASE DeployRecord(r)
  <2>1. UNCHANGED <<ctr, nextCtr>> /\ req[r].pc = "record"
    BY <1>6 DEF DeployRecord
  <2>2. CASE DeployFails(r)
    BY <1>1, <2>1, <2>2, FailsGoesOn
  <2>3. CASE ~DeployFails(r)
    <3> DEFINE id == req[r].inst
    <3>1. /\ id \in Live /\ Goto(r, "health")
          /\ rows' = [rows EXCEPT ![id].state = "starting", ![id].ctr = req[r].ctr,
                                  ![id].started = now, ![id].upd = now]
      BY <1>6, <2>3 DEF DeployRecord
    <3>2. id \in Ids /\ rows[id].state # "absent" /\ req[r].ctr # 0
      BY <1>0, <2>1, <3>1 DEF Live, Knows
    <3>3. \A i \in Ids : /\ rows'[i].state = "absent" <=> rows[i].state = "absent"
                         /\ rows'[i].team = rows[i].team /\ rows'[i].chal = rows[i].chal
                         /\ rows'[i].port = rows[i].port
                         /\ rows[i].ctr # 0 => rows'[i].ctr # 0
      <4> HIDE DEF id
      <4> QED BY <1>0, <3>1, <3>2 DEF TypeOK, Row
    <3>4. Shrinks /\ Live' = Live
      BY <1>1, <3>3, KeptShrinks DEF Kept
    <3>5. \A i \in Live' : rows[i].ctr # 0 => rows'[i].ctr # 0
      BY <3>3 DEF Live
    <3>6. RowsGoOn /\ RowsOwned'
      BY <1>0, <3>4, <3>5, TableGoesOn
    <3> QED BY <1>0, <1>1, <2>1, <3>1, <3>6, SameCtrs, GotoKnows DEF GoesOn
  <2> QED BY <2>2, <2>3
<1>7. CASE DeployHealth(r)
  <2>1. UNCHANGED <<ctr, nextCtr>>
    BY <1>7 DEF DeployHealth
  <2>2. CASE DeployFails(r)
    BY <1>1, <2>1, <2>2, FailsGoesOn
  <2>3. CASE ~DeployFails(r)
    <3>1. rows' = SetState(req[r].inst, Health(req[r].ctr)) /\ Finish(r)
      BY <1>7, <2>3 DEF DeployHealth
    <3>2. RowsGoOn /\ RowsOwned'
      BY <1>0, <1>1, <3>1, HealthState, StateGoesOn
    <3> QED BY <1>0, <1>1, <2>1, <3>1, <3>2, SameCtrs, FinishKnows DEF GoesOn
  <2> QED BY <2>2, <2>3
<1> QED BY <1>2, <1>3, <1>4, <1>5, <1>6, <1>7 DEF DeployStep

\* Stop's deletion, the sweeps and the cleanup: rows go, and containers.
LEMMA SweepGoesOn ==
  ASSUME FleetCore, (\E r \in Reqs : StopDelete(r)) \/ Sweeping \/ Cleaning
  PROVE  GoesOn
<1> USE DEF db, docker, world, others
<1>0. /\ TypeOK /\ RowsOwned /\ Labelled /\ \A x \in Reqs : Knows(req[x])
      /\ nextId \in Nat /\ nextId <= nextId
  BY DEF FleetCore, TypeOK
<1>1. ASSUME NEW r \in Reqs, StopDelete(r) PROVE GoesOn
  <2>1. /\ UNCHANGED <<nextId, ctr, nextCtr>> /\ Finish(r)
        /\ rows' = [rows EXCEPT ![req[r].inst] = NoRow] \/ rows' = rows
    BY <1>1 DEF StopDelete
  <2>2. RowsGoOn /\ RowsOwned'
    BY <1>0, <2>1, DeleteGoesOn, SameGoesOn
  <2> QED BY <1>0, <2>1, <2>2, SameCtrs, FinishKnows DEF GoesOn
<1>2. ASSUME NEW d, rows' = [rows EXCEPT ![d] = NoRow] \/ rows' = rows,
             UNCHANGED <<nextId, ctr, nextCtr, req>>
      PROVE  GoesOn
  <2>1. RowsGoOn /\ RowsOwned'
    BY <1>0, <1>2, DeleteGoesOn, SameGoesOn
  <2> QED BY <1>0, <1>2, <2>1, SameCtrs, SameKnows DEF GoesOn
<1>3. ASSUME NEW d, RemoveByLabel(d), UNCHANGED <<rows, nextId, nextCtr, req>>
      PROVE  GoesOn
  <2>1. Labelled' /\ CtrsGoOn
    BY <1>0, <1>3, LabelsRemoved
  <2> QED BY <1>0, <1>3, <2>1, SameGoesOn, SameKnows DEF GoesOn
<1>4. CASE Sweeping
  <2>1. CASE SweepExpire \/ SweepReap \/ SweepEnd \/ SweepDelete
    BY <1>2, <2>1 DEF SweepExpire, SweepReap, SweepEnd, SweepDelete
  <2>2. ASSUME NEW id \in Ids, NEW t \in Teams, SweepSkip(id, t) \/ SweepDestroy(id, t)
        PROVE  GoesOn
    BY <1>2, <1>3, <2>2 DEF SweepSkip, SweepDestroy
  <2> QED BY <1>4, <2>1, <2>2 DEF Sweeping
<1>5. CASE Cleaning
  <2>1. CASE CleanStart \/ CleanList \/ CleanEnd \/ CleanError \/ CleanRearm
    BY <1>2, <2>1 DEF CleanStart, CleanList, CleanEnd, CleanError, CleanRearm
  <2>2. ASSUME NEW id \in Ids, NEW t \in Teams,
               CleanDestroy(id, t) \/ CleanSkip(id, t) \/ CleanDelete(id, t)
        PROVE  GoesOn
    BY <1>2, <1>3, <2>2 DEF CleanDestroy, CleanSkip, CleanDelete
  <2> QED BY <1>5, <2>1, <2>2 DEF Cleaning
<1> QED BY <1>1, <1>4, <1>5

\* The world: time, the event, containers that change, a crash.
LEMMA WorldGoesOn == ASSUME FleetCore, Environment PROVE GoesOn
<1> USE DEF db, docker, world, others
<1>0. /\ TypeOK /\ RowsOwned /\ Labelled /\ \A x \in Reqs : Knows(req[x])
      /\ nextId \in Nat /\ nextId <= nextId
  BY DEF FleetCore, TypeOK
<1>1. CASE Tick \/ EventEnds \/ EventReopens
  <2>1. UNCHANGED <<rows, nextId, ctr, nextCtr, req>>
    BY <1>1 DEF Tick, EventEnds, EventReopens
  <2> QED BY <1>0, <2>1, SameKnows, NothingMoves
<1>2. CASE Crash
  <2>1. UNCHANGED <<rows, nextId, ctr, nextCtr>> /\ req' = [r \in Reqs |-> IdleReq]
    BY <1>2 DEF Crash
  <2>2. (\A x \in Reqs : Knows(req[x]))'
    BY <2>1 DEF Knows, IdleReq, Deploying
  <2> QED BY <2>1, <2>2, NothingMoves
<1>3. ASSUME NEW c \in CtrIds, CtrChanges(c) PROVE GoesOn
  <2>1. UNCHANGED <<rows, nextId, nextCtr, req>>
    BY <1>3 DEF CtrChanges
  <2>2. \A d \in CtrIds : \/ ctr'[d] = NoCtr
                          \/ /\ ctr'[d].inst = ctr[d].inst
                             /\ ctr[d].st # "gone" \/ ctr'[d] = ctr[d]
    BY <1>0, <1>3 DEF CtrChanges, TypeOK, Ctr
  <2>3. Labelled' /\ CtrsGoOn
    BY <1>0, <2>1, <2>2, CtrsThin
  <2> QED BY <1>0, <2>1, <2>3, SameGoesOn, SameKnows DEF GoesOn
<1> QED BY <1>1, <1>2, <1>3 DEF Environment

LEMMA NextGoesOn == ASSUME FleetCore, Next PROVE FleetCore' /\ GoesOn
<1>1. GoesOn
  <2>1. ASSUME NEW r \in Reqs, Progress(r) PROVE GoesOn
    BY <2>1, StartGoesOn, InsertGoesOn, DeployGoesOn, SweepGoesOn DEF Progress
  <2> QED BY <2>1, ArriveGoesOn, SweepGoesOn, WorldGoesOn DEF Next
<1>2. TypeOK'
  BY NextType DEF FleetCore
<1> QED BY <1>1, <1>2 DEF FleetCore, GoesOn

-----------------------------------------------------------------------------
(* The fleet: the pass and the organiser *)

PassKept == ObsKept /\ RowsKept /\ RmKept

\* What others do does not undo what the pass has seen or decided.
LEMMA PassStays ==
  ASSUME FleetInv, RowsGoOn, CtrsGoOn, nextId' \in Nat, nextCtr' \in Nat,
         rec'.obs \subseteq rec.obs, rec'.rm \subseteq rec.rm,
         rec'.pc = "nets" => rec.pc = "nets" /\ rec'.rows = rec.rows
  PROVE  PassKept'
<1>0. /\ TypeOK /\ ObsKept /\ RowsKept /\ RmKept /\ Labelled
      /\ nextId \in Nat /\ nextCtr \in Nat
      /\ nextId <= nextId' /\ nextCtr <= nextCtr'
  BY DEF FleetInv, FleetCore, TypeOK, RowsGoOn, CtrsGoOn
<1>1. /\ rec.obs \subseteq CtrIds \X Ids /\ rec.rm \subseteq CtrIds
      /\ CtrIds \subseteq Int /\ Ids \subseteq Int /\ 0 \notin Ids /\ Live' \subseteq Ids
  BY DEF FleetInv, FleetTypeOK, Rec, CtrIds, Ids, Live
<1>2. ObsKept'
  <2> SUFFICES ASSUME NEW o \in rec'.obs
               PROVE  /\ o[1] < nextCtr' /\ o[2] < nextId'
                      /\ ctr'[o[1]].inst \in {0, o[2]}
    BY DEF ObsKept
  <2>1. /\ o \in rec.obs /\ o[1] \in CtrIds /\ o[2] \in Ids
        /\ o[1] \in Int /\ o[2] \in Int
    BY <1>1
  <2>2. o[1] < nextCtr /\ o[2] < nextId /\ ctr[o[1]].inst \in {0, o[2]}
    BY <1>0, <2>1 DEF ObsKept
  <2>3. ctr'[o[1]].inst \in {0, ctr[o[1]].inst}
    BY <2>1, <2>2 DEF CtrsGoOn
  <2>4. o[1] < nextCtr' /\ o[2] < nextId'
    BY <1>0, <2>1, <2>2
  <2> QED BY <2>2, <2>3, <2>4
<1>3. RowsKept'
  <2>1. ASSUME rec'.pc = "nets", NEW o \in rec'.obs, rec'.rows[o[2]].state = "absent"
        PROVE  o[2] \notin Live'
    <3>1. o[2] < nextId /\ o[2] \notin Live
      BY <1>0, <2>1 DEF ObsKept, RowsKept
    <3> QED BY <3>1 DEF RowsGoOn
  <2>2. ASSUME rec'.pc = "nets", NEW id \in Ids, rec'.rows[id].state # "absent"
        PROVE  /\ id < nextId'
               /\ rec'.rows[id].ctr # 0 => (id \in Live' => rows'[id].ctr # 0)
    <3>1. id \in Int /\ id < nextId /\ (rec.rows[id].ctr # 0 => Recorded(id))
      BY <1>0, <1>1, <2>2 DEF RowsKept
    <3>2. id < nextId'
      BY <1>0, <3>1
    <3> QED BY <2>2, <3>1, <3>2 DEF RowsGoOn, Recorded
  <2> QED BY <2>1, <2>2 DEF RowsKept, Recorded
<1>4. RmKept'
  <2> SUFFICES ASSUME NEW c \in rec'.rm PROVE c < nextCtr' /\ Recorded(ctr[c].inst)'
    BY DEF RmKept
  <2>1. /\ c \in CtrIds /\ c \in Int /\ c < nextCtr /\ Recorded(ctr[c].inst)
        /\ ctr[c].inst < nextId
    BY <1>0, <1>1 DEF RmKept, Labelled
  <2>2. ctr'[c].inst \in {0, ctr[c].inst}
    BY <2>1 DEF CtrsGoOn
  <2>3. CASE ctr'[c].inst = 0
    BY <1>0, <1>1, <2>1, <2>3 DEF Recorded
  <2>4. CASE ctr'[c].inst = ctr[c].inst
    <3>1. ctr'[c].inst \in Live' =>
             ctr'[c].inst \in Live /\ (rows[ctr'[c].inst].ctr # 0 => rows'[ctr'[c].inst].ctr # 0)
      BY <2>1, <2>4 DEF RowsGoOn
    <3> QED BY <1>0, <2>1, <2>4, <3>1 DEF Recorded
  <2> QED BY <1>0, <2>1, <2>2, <2>3, <2>4
<1> QED BY <1>2, <1>3, <1>4 DEF PassKept

\* The listings of the pass, and the decision.
LEMMA PassReads ==
  ASSUME FleetInv, RecContainers \/ RecRows \/ RecDecide \/ RecEnd
                     \/ \E id \in Ids : StatusRead(id)
  PROVE  FleetInv'
<1>0. /\ FleetCore /\ TypeOK /\ ObsKept /\ RowsKept /\ RmKept /\ Labelled /\ RowsOwned
      /\ rec \in Rec /\ admin \in [inst : Ids \cup {0}, left : 0..MaxAdmin]
      /\ nextId \in Nat /\ nextCtr \in Nat
  BY DEF FleetInv, FleetCore, TypeOK, FleetTypeOK
<1>1. UNCHANGED vars /\ UNCHANGED admin
  BY DEF RecContainers, RecRows, RecDecide, RecEnd, StatusRead
<1>2. FleetCore' /\ Live' = Live /\ \A id : Recorded(id)' <=> Recorded(id)
  BY <1>0, <1>1 DEF vars, FleetCore, TypeOK, RowsOwned, Labelled, Knows, Live, Recorded
<1>3. SUFFICES rec' \in Rec /\ PassKept'
  BY <1>0, <1>1, <1>2 DEF FleetInv, FleetTypeOK, FleetCore, PassKept
<1>4. RowsGoOn /\ CtrsGoOn /\ nextId' \in Nat /\ nextCtr' \in Nat
  BY <1>0, <1>1, <1>2 DEF vars, RowsGoOn, CtrsGoOn
<1>5. CASE RecContainers
  <2>1. rec' = [rec EXCEPT !.pc = "rows", !.obs = Observed]
    BY <1>5 DEF RecContainers
  <2>2. ASSUME NEW o \in Observed
        PROVE  /\ o \in CtrIds \X Ids /\ o[1] < nextCtr /\ o[2] < nextId
               /\ ctr[o[1]].inst = o[2]
    <3>1. PICK c \in CtrIds : ctr[c].st # "gone" /\ o = <<c, ctr[c].inst>>
      BY DEF Observed
    <3>2. ctr[c].inst \in Ids /\ ctr[c].inst < nextId
      BY <1>0, <3>1 DEF TypeOK, Ctr, Labelled
    <3>3. ctr[c] # NoCtr
      BY <3>1 DEF NoCtr
    <3>4. c < nextCtr
      BY <1>0, <3>3 DEF Labelled, CtrIds
    <3> QED BY <3>1, <3>2, <3>4
  <2>3. rec' \in Rec
    <3>1. Observed \in SUBSET (CtrIds \X Ids)
      BY <2>2
    <3> QED BY <1>0, <2>1, <3>1 DEF Rec
  <2>4. rec'.obs = Observed /\ rec'.pc = "rows" /\ rec'.rm = rec.rm
    BY <1>0, <2>1 DEF Rec
  <2>5. ObsKept'
    BY <1>1, <2>2, <2>4 DEF ObsKept, vars
  <2>6. RowsKept' /\ RmKept'
    BY <1>0, <1>1, <1>2, <2>4 DEF RowsKept, RmKept, vars
  <2> QED BY <2>3, <2>5, <2>6 DEF PassKept
<1>6. CASE RecRows
  <2>1. rec' = [rec EXCEPT !.pc = "nets", !.rows = rows]
    BY <1>6 DEF RecRows
  <2>2. rec' \in Rec
    BY <1>0, <2>1 DEF Rec, TypeOK
  <2>3. rec'.obs = rec.obs /\ rec'.rm = rec.rm /\ rec'.rows = rows
    BY <1>0, <2>1 DEF Rec
  <2>4. ObsKept' /\ RmKept'
    BY <1>0, <1>1, <1>2, <2>3 DEF ObsKept, RmKept, vars
  <2>5. RowsKept'
    <3>1. nextId' = nextId /\ rows' = rows
      BY <1>1 DEF vars
    <3>2. \A o \in rec'.obs : rec'.rows[o[2]].state = "absent" => o[2] \notin Live'
      BY <1>2, <2>3 DEF Live
    <3>3. \A id \in Ids : rec'.rows[id].state # "absent" =>
             id < nextId' /\ (rec'.rows[id].ctr # 0 => (id \in Live' => rows'[id].ctr # 0))
      BY <1>0, <2>3, <3>1 DEF RowsOwned, Live
    <3> QED BY <3>2, <3>3 DEF RowsKept, Recorded
  <2> QED BY <2>2, <2>4, <2>5 DEF PassKept
<1>7. CASE RecDecide
  <2> DEFINE lost == MarkLost(rec.obs, rec.rows)
             rm == RemoveCtrs(rec.obs, rec.rows)
             gc == RemoveNets({t \in Teams : net[t] /\ Attached(t) = {}}, rec.rows)
             todo == (Seen(rec.rows) \cap {o[2] : o \in rec.obs}) \ lost
  <2>1. /\ rec.pc = "nets"
        /\ rec' = [IdleRec EXCEPT !.pc = "act", !.lost = lost, !.rm = rm, !.gc = gc, !.todo = todo]
    BY <1>7 DEF RecDecide
  <2>2. lost \subseteq Ids /\ todo \subseteq Ids /\ gc \subseteq Teams
    BY DEF MarkLost, Seen, RemoveNets
  <2>3. ASSUME NEW c \in rm PROVE c \in CtrIds /\ c < nextCtr /\ Recorded(ctr[c].inst)
    <3>1. PICK o \in rec.obs : c = o[1] /\ (Orphan(o, rec.rows) \/ Superseded(o, rec.rows))
      BY DEF RemoveCtrs
    <3>2. o \in CtrIds \X Ids
      BY <1>0 DEF Rec
    <3>3. c \in CtrIds /\ o[2] \in Ids /\ c < nextCtr /\ ctr[c].inst \in {0, o[2]}
      BY <1>0, <3>1, <3>2 DEF ObsKept
    <3>4. Recorded(o[2])
      <4>1. CASE Orphan(o, rec.rows)
        BY <1>0, <2>1, <3>3, <4>1 DEF Orphan, Seen, RowsKept, Recorded
      <4>2. CASE Superseded(o, rec.rows)
        BY <1>0, <2>1, <3>3, <4>2 DEF Superseded, Seen, RowsKept
      <4> QED BY <3>1, <4>1, <4>2
    <3>5. 0 \notin Live
      BY DEF Live, Ids
    <3> QED BY <3>3, <3>4, <3>5 DEF Recorded
  <2> HIDE DEF lost, rm, gc, todo
  <2>4. /\ rec' \in Rec /\ rec'.obs = {} /\ rec'.pc = "act" /\ rec'.rm = rm
    <3>1. NoRows \in [Ids -> Row]
      BY IdleTypes DEF NoRows
    <3>2. rm \subseteq CtrIds
      BY <2>3
    <3> QED BY <2>1, <2>2, <3>1, <3>2 DEF IdleRec, Rec
  <2> QED BY <1>1, <1>2, <2>3, <2>4 DEF PassKept, ObsKept, RowsKept, RmKept, vars
<1>8. CASE RecEnd
  <2>1. rec' = IdleRec /\ NoRows \in [Ids -> Row]
    BY <1>8, IdleTypes DEF RecEnd, NoRows
  <2> QED BY <2>1 DEF PassKept, ObsKept, RowsKept, RmKept, IdleRec, Rec
<1>9. ASSUME NEW id \in Ids, StatusRead(id) PROVE rec' \in Rec /\ PassKept'
  <2>1. rows[id].ctr \in CtrIds \cup {0}
    BY <1>0 DEF TypeOK, Row
  <2>2. \/ rec' = [rec EXCEPT !.todo = @ \ {id}]
        \/ rec' = [rec EXCEPT !.todo = @ \ {id}, !.inst = id, !.ctr = rows[id].ctr]
    BY <1>9 DEF StatusRead
  <2>3. /\ rec' \in Rec /\ rec'.obs = rec.obs /\ rec'.rm = rec.rm /\ rec'.pc = rec.pc
        /\ rec'.rows = rec.rows
    <3>1. CASE rec' = [rec EXCEPT !.todo = @ \ {id}]
      BY <1>0, <3>1 DEF Rec
    <3>2. CASE rec' = [rec EXCEPT !.todo = @ \ {id}, !.inst = id, !.ctr = rows[id].ctr]
      BY <1>0, <2>1, <3>2 DEF Rec
    <3> QED BY <2>2, <3>1, <3>2
  <2> QED BY <1>4, <2>3, PassStays
<1> QED BY <1>5, <1>6, <1>7, <1>8, <1>9

\* What is left of the pass while rec moves on and rows or containers change.
LEMMA PassActs ==
  ASSUME FleetInv, TypeOK', RowsGoOn, RowsOwned', CtrsGoOn, Labelled',
         UNCHANGED <<nextId, nextCtr, req>>,
         admin' \in [inst : Ids \cup {0}, left : 0..MaxAdmin], rec' \in Rec,
         rec'.obs = rec.obs, rec'.rm \subseteq rec.rm, rec'.pc = rec.pc, rec'.rows = rec.rows
  PROVE  FleetInv'
<1>1. TypeOK /\ (\A r \in Reqs : Knows(req[r])) /\ nextId' \in Nat /\ nextCtr' \in Nat
      /\ nextId <= nextId'
  BY DEF FleetInv, FleetCore, TypeOK
<1>2. FleetCore'
  BY <1>1, SameKnows DEF FleetCore
<1>3. PassKept'
  BY <1>1, PassStays
<1> QED BY <1>2, <1>3 DEF FleetInv, FleetTypeOK, PassKept

\* The decisions executed, the health written, and the organiser's destroy.
LEMMA FleetActs ==
  ASSUME FleetInv,
         \/ StatusWrite \/ AdminDelete
         \/ \E id \in Ids : RecMarkLost(id) \/ AdminRemove(id)
         \/ \E c \in CtrIds : RecRemove(c)
         \/ \E t \in Teams : RecRemoveNet(t)
  PROVE  FleetInv'
<1> USE DEF db, docker, world, others
<1>0. /\ TypeOK /\ RowsOwned /\ Labelled
      /\ rec \in Rec /\ admin \in [inst : Ids \cup {0}, left : 0..MaxAdmin]
      /\ nextId \in Nat /\ nextId <= nextId /\ nextCtr \in Nat
  BY DEF FleetInv, FleetCore, TypeOK, FleetTypeOK
<1>1. UNCHANGED <<nextId, nextCtr, req>>
  BY DEF StatusWrite, AdminDelete, RecMarkLost, AdminRemove, RecRemove, RecRemoveNet
<1>2. ASSUME NEW i, NEW st \in RowStates, rows' = SetState(i, st), ctr' = ctr
      PROVE  RowsGoOn /\ RowsOwned' /\ CtrsGoOn /\ Labelled' /\ rows' \in [Ids -> Row]
  BY <1>0, <1>1, <1>2, StateGoesOn, SameCtrs, SetStateKeeps
<1>3. CASE StatusWrite
  <2>1. PICK st \in RowStates : rows' = SetState(rec.inst, st)
    BY <1>3, HealthState DEF StatusWrite, RowStates
  <2>2. RowsGoOn /\ RowsOwned' /\ CtrsGoOn /\ Labelled' /\ rows' \in [Ids -> Row]
    BY <1>2, <1>3, <2>1 DEF StatusWrite
  <2>3. TypeOK'
    BY <1>0, <1>3, <2>2 DEF StatusWrite, TypeOK
  <2>4. /\ rec' \in Rec /\ rec'.obs = rec.obs /\ rec'.rm = rec.rm /\ rec'.pc = rec.pc
        /\ rec'.rows = rec.rows /\ admin' = admin
    BY <1>0, <1>3 DEF StatusWrite, Rec
  <2> QED BY <1>0, <1>1, <2>2, <2>3, <2>4, PassActs
<1>4. ASSUME NEW id \in Ids, RecMarkLost(id) PROVE FleetInv'
  <2>1. "lost" \in RowStates
    BY DEF RowStates
  <2>2. RowsGoOn /\ RowsOwned' /\ CtrsGoOn /\ Labelled' /\ rows' \in [Ids -> Row]
    BY <1>2, <1>4, <2>1 DEF RecMarkLost
  <2>3. TypeOK'
    BY <1>0, <1>4, <2>2 DEF RecMarkLost, TypeOK
  <2>4. /\ rec' \in Rec /\ rec'.obs = rec.obs /\ rec'.rm = rec.rm /\ rec'.pc = rec.pc
        /\ rec'.rows = rec.rows /\ admin' = admin
    BY <1>0, <1>4 DEF RecMarkLost, Rec
  <2> QED BY <1>0, <1>1, <2>2, <2>3, <2>4, PassActs
<1>5. ASSUME NEW c \in CtrIds, RecRemove(c) PROVE FleetInv'
  <2>1. /\ rows' = rows /\ ctr' \in [CtrIds -> Ctr] /\ faults' \in Nat
        /\ \A d \in CtrIds : ctr'[d] = NoCtr \/ ctr'[d] = ctr[d]
    BY <1>0, <1>5, IdleTypes DEF RecRemove, TypeOK, Fault
  <2>2. RowsGoOn /\ RowsOwned' /\ CtrsGoOn /\ Labelled'
    BY <1>0, <1>1, <2>1, SameGoesOn, CtrsThin
  <2>3. TypeOK'
    BY <1>0, <1>5, <2>1 DEF RecRemove, TypeOK
  <2>4. /\ rec' \in Rec /\ rec'.obs = rec.obs /\ rec'.rm \subseteq rec.rm /\ rec'.pc = rec.pc
        /\ rec'.rows = rec.rows /\ admin' = admin
    BY <1>0, <1>5 DEF RecRemove, Rec
  <2> QED BY <1>0, <1>1, <2>2, <2>3, <2>4, PassActs
<1>6. ASSUME NEW t \in Teams, RecRemoveNet(t) PROVE FleetInv'
  <2>1. net' \in [Teams -> BOOLEAN] /\ rows' = rows /\ ctr' = ctr
    BY <1>0, <1>6 DEF RecRemoveNet, TypeOK
  <2>2. RowsGoOn /\ RowsOwned' /\ CtrsGoOn /\ Labelled'
    BY <1>0, <1>1, <2>1, SameGoesOn, SameCtrs
  <2>3. TypeOK'
    BY <1>0, <1>6, <2>1 DEF RecRemoveNet, TypeOK
  <2>4. /\ rec' \in Rec /\ rec'.obs = rec.obs /\ rec'.rm = rec.rm /\ rec'.pc = rec.pc
        /\ rec'.rows = rec.rows /\ admin' = admin
    BY <1>0, <1>6 DEF RecRemoveNet, Rec
  <2> QED BY <1>0, <1>1, <2>2, <2>3, <2>4, PassActs
<1>7. CASE AdminDelete
  <2>1. rows' = [rows EXCEPT ![admin.inst] = NoRow] /\ ctr' = ctr /\ rec' = rec
    BY <1>7 DEF AdminDelete
  <2>2. RowsGoOn /\ RowsOwned' /\ CtrsGoOn /\ Labelled'
    BY <1>0, <1>1, <2>1, DeleteGoesOn, SameCtrs
  <2>3. TypeOK'
    BY <1>0, <1>7, IdleTypes DEF AdminDelete, TypeOK
  <2>4. admin' \in [inst : Ids \cup {0}, left : 0..MaxAdmin]
    BY <1>0, <1>7 DEF AdminDelete
  <2> QED BY <1>0, <1>1, <2>1, <2>2, <2>3, <2>4, PassActs
<1>8. ASSUME NEW id \in Ids, AdminRemove(id) PROVE FleetInv'
  <2>1. rows' = rows /\ RemoveByLabel(id) /\ rec' = rec
    BY <1>8 DEF AdminRemove
  <2>2. RowsGoOn /\ RowsOwned' /\ CtrsGoOn /\ Labelled'
    BY <1>0, <1>1, <2>1, SameGoesOn, LabelsRemoved
  <2>3. TypeOK'
    BY <1>0, <1>8, <2>1, RemoveByLabelType DEF AdminRemove, TypeOK
  <2>4. admin' \in [inst : Ids \cup {0}, left : 0..MaxAdmin]
    BY <1>0, <1>8, GraceIsNumber DEF AdminRemove
  <2> QED BY <1>0, <1>1, <2>1, <2>2, <2>3, <2>4, PassActs
<1> QED BY <1>3, <1>4, <1>5, <1>6, <1>7, <1>8

-----------------------------------------------------------------------------
(* The fleet: theorems *)

LEMMA InitFleetInv == FleetInit => FleetInv
<1> SUFFICES ASSUME FleetInit PROVE FleetInv
  OBVIOUS
<1>1. TypeOK /\ Init
  BY InitType DEF FleetInit
<1>2. Live = {}
  BY <1>1 DEF Init, Live, NoRow
<1>3. Labelled
  BY <1>1 DEF Init, Labelled, NoCtr
<1>4. \A r \in Reqs : Knows(req[r])
  BY <1>1 DEF Init, Knows, IdleReq, Deploying
<1>5. rec \in Rec /\ ObsKept /\ RowsKept /\ RmKept
  <2>1. NoRows \in [Ids -> Row]
    BY IdleTypes DEF NoRows
  <2> QED BY <2>1 DEF FleetInit, IdleRec, Rec, ObsKept, RowsKept, RmKept
<1>6. admin \in [inst : Ids \cup {0}, left : 0..MaxAdmin]
  BY GraceIsNumber DEF FleetInit
<1> QED BY <1>1, <1>2, <1>3, <1>4, <1>5, <1>6 DEF FleetInv, FleetCore, FleetTypeOK, RowsOwned

LEMMA NextFleetInv == FleetInv /\ [FleetNext]_fleetVars => FleetInv'
<1> SUFFICES ASSUME FleetInv, [FleetNext]_fleetVars PROVE FleetInv'
  OBVIOUS
<1>0. /\ FleetCore /\ nextId \in Nat /\ nextCtr \in Nat
      /\ rec \in Rec /\ admin \in [inst : Ids \cup {0}, left : 0..MaxAdmin]
  BY DEF FleetInv, FleetCore, TypeOK, FleetTypeOK
<1>1. ASSUME Next, rec' = rec \/ rec' = IdleRec,
             admin' \in [inst : Ids \cup {0}, left : 0..MaxAdmin]
      PROVE  FleetInv'
  <2>1. FleetCore' /\ RowsGoOn /\ CtrsGoOn
    BY <1>0, <1>1, NextGoesOn DEF GoesOn
  <2>2. nextId' \in Nat /\ nextCtr' \in Nat
    BY <2>1 DEF FleetCore, TypeOK
  <2>3. IdleRec.obs = {} /\ IdleRec.rm = {} /\ IdleRec.pc = "idle"
    BY DEF IdleRec
  <2>4. PassKept'
    BY <1>1, <2>1, <2>2, <2>3, PassStays
  <2>5. rec' \in Rec
    <3>1. NoRows \in [Ids -> Row]
      BY IdleTypes DEF NoRows
    <3> QED BY <1>0, <1>1, <3>1 DEF IdleRec, Rec
  <2> QED BY <1>1, <2>1, <2>4, <2>5 DEF FleetInv, FleetCore, FleetTypeOK, PassKept
<1>2. CASE Steady /\ UNCHANGED <<rec, admin>>
  <2>1. Next
    BY <1>2 DEF Steady, Next, Environment
  <2> QED BY <1>0, <1>1, <1>2, <2>1
<1>3. CASE FleetTick \/ FleetCrash
  <2>1. Next /\ (rec' = rec \/ rec' = IdleRec)
    BY <1>3 DEF FleetTick, FleetCrash, Next, Environment
  <2>2. admin' \in [inst : Ids \cup {0}, left : 0..MaxAdmin]
    BY <1>0, <1>3 DEF FleetTick, FleetCrash
  <2> QED BY <1>1, <2>1, <2>2
<1>4. CASE UNCHANGED fleetVars
  BY <1>4 DEF fleetVars, vars, FleetInv, FleetCore, FleetTypeOK, TypeOK, RowsOwned, Labelled,
              Knows, Live, ObsKept, RowsKept, RmKept, Recorded
<1>5. CASE Reconciling \/ AdminDelete \/ \E id \in Ids : AdminRemove(id)
  BY <1>5, PassReads, FleetActs DEF Reconciling
<1> QED BY <1>2, <1>3, <1>4, <1>5 DEF FleetNext

\* The rows, containers and decisions stay well formed with the actors that take
\* no team lock: a crash, a destroy by id or a container removed by hand leaves
\* no step of the pass without its record (Reconcile, Status, DestroyInstance).
THEOREM FleetTypeCorrect == FleetSpec => []FleetTypeOK
<1>1. FleetInv => FleetTypeOK
  BY DEF FleetInv
<1> QED BY <1>1, InitFleetInv, NextFleetInv, PTL DEF FleetSpec

\* The pass never removes the container of a row that has recorded none, although
\* it decided from three reads taken one after the other and acts still later
\* (Reconcile, executeAction).
THEOREM UnrecordedAlwaysKept == FleetSpec => UnrecordedKept
<1> DEFINE A == \A c \in Removed : ctr[c].inst \in Live => rows[ctr[c].inst].ctr # 0
<1>1. FleetInv => A
  BY DEF FleetInv, RmKept, Recorded, Removed
<1>2. FleetSpec => []FleetInv
  BY InitFleetInv, NextFleetInv, PTL DEF FleetSpec
<1>3. FleetInv /\ [FleetNext]_fleetVars => [A]_fleetVars
  BY <1>1
<1> QED BY <1>2, <1>3, PTL DEF FleetSpec, UnrecordedKept, A
=============================================================================
