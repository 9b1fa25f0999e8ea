---------------------------- MODULE InstanceFleet ----------------------------
(***************************************************************************)
(* The instances together with the actors that do not take the team lock:  *)
(* the reconcile pass, the health refresh that follows it, and an          *)
(* organiser destroying an instance by id.                                 *)
(*                                                                         *)
(* A pass lists the containers, then reads the rows, then the bridges and  *)
(* the database clock, decides (the pure Reconcile), and executes the      *)
(* decisions one by one, all while requests go on.                         *)
(***************************************************************************)
EXTENDS Instances

CONSTANTS Grace,     \* reconcileGrace: longer than a deploy
          MaxAdmin   \* bound: destroys by an organiser

ASSUME GraceIsNumber == Grace \in Nat /\ MaxAdmin \in Nat

VARIABLES rec,   \* the reconcile pass
          admin  \* AdminDestroyInstanceById

fleetVars == <<vars, rec, admin>>

Rec == [pc : {"idle", "rows", "nets", "act"},
        obs : SUBSET (CtrIds \X Ids),  \* containers seen, with their label
        rows : [Ids -> Row],           \* rows seen
        lost : SUBSET Ids, rm : SUBSET CtrIds, gc : SUBSET Teams, \* decisions
        todo : SUBSET Ids,             \* rows whose health is to be refreshed
        inst : Ids \cup {0}, ctr : CtrIds \cup {0}] \* Status in progress
NoRows == [id \in Ids |-> NoRow]
IdleRec == [pc |-> "idle", obs |-> {}, rows |-> NoRows, lost |-> {}, rm |-> {},
            gc |-> {}, todo |-> {}, inst |-> 0, ctr |-> 0]

FleetTypeOK == /\ TypeOK
               /\ rec \in Rec
               /\ admin \in [inst : Ids \cup {0}, left : 0..MaxAdmin]

FleetInit == /\ Init
             /\ rec = IdleRec
             /\ admin = [inst |-> 0, left |-> MaxAdmin]

-----------------------------------------------------------------------------
(* The decision: Reconcile(observed, rows, networks, now) *)

Seen(rs) == {id \in Ids : rs[id].state # "absent"}
Fresh(row) == now - row.upd < Grace

\* Faulty variant of MarkLost (mutation checks): only rows that are not yet
\* running.
MutMarkLostStates(obs, rs) ==
    {id \in Seen(rs) : /\ ~Fresh(rs[id])
                       /\ \A o \in obs : o[2] # id
                       /\ rs[id].state \in {"starting", "unhealthy"}}

\* Rows that should have a container and have none: mark lost.
MarkLost(obs, rs) ==
    {id \in Seen(rs) : /\ ~Fresh(rs[id])
                       /\ \A o \in obs : o[2] # id
                       /\ rs[id].state \in {"running", "starting", "unhealthy"}}

\* Containers without a row, and containers other than the one their row
\* records: remove.
Orphan(o, rs) == o[2] \notin Seen(rs)
\* Faulty variant of Superseded (mutation checks): an unrecorded container too.
MutSuperseded(o, rs) == /\ o[2] \in Seen(rs)
                        /\ ~Fresh(rs[o[2]])
                        /\ rs[o[2]].ctr # o[1]
Superseded(o, rs) == /\ o[2] \in Seen(rs)
                     /\ ~Fresh(rs[o[2]])
                     /\ rs[o[2]].ctr \notin {0, o[1]}
\* Faulty variant of RemoveCtrs (mutation checks): orphans are left alone.
MutRemoveCtrs(obs, rs) == {o[1] : o \in {x \in obs : Superseded(x, rs)}}
RemoveCtrs(obs, rs) == {o[1] : o \in {x \in obs : Orphan(x, rs) \/ Superseded(x, rs)}}

\* Empty bridges of teams with no pending and no fresh row: remove.
Protected(rs) == {rs[id].team : id \in {i \in Seen(rs) :
                                          rs[i].state = "pending" \/ Fresh(rs[i])}}
RemoveNets(nets, rs) == nets \ Protected(rs)

Attached(t) == {c \in CtrIds : ctr[c].team = t /\ ctr[c].st \in {"up", "unhealthy"}}

-----------------------------------------------------------------------------
(* The pass *)

Observed == {<<c, ctr[c].inst>> : c \in {x \in CtrIds : ctr[x].st # "gone"}}

RecContainers ==
    /\ rec.pc = "idle"
    /\ rec' = [rec EXCEPT !.pc = "rows", !.obs = Observed]
    /\ UNCHANGED <<vars, admin>>

RecRows ==
    /\ rec.pc = "rows"
    /\ rec' = [rec EXCEPT !.pc = "nets", !.rows = rows]
    /\ UNCHANGED <<vars, admin>>

\* The bridges, the clock, and the decision.
RecDecide ==
    LET empty == {t \in Teams : net[t] /\ Attached(t) = {}}
        lost  == MarkLost(rec.obs, rec.rows)
        there == {o[2] : o \in rec.obs}
    IN /\ rec.pc = "nets"
       /\ rec' = [IdleRec EXCEPT !.pc = "act",
                     !.lost = lost,
                     !.rm = RemoveCtrs(rec.obs, rec.rows),
                     !.gc = RemoveNets(empty, rec.rows),
                     !.todo = (Seen(rec.rows) \cap there) \ lost]
       /\ UNCHANGED <<vars, admin>>

RecMarkLost(id) ==
    /\ id \in rec.lost
    /\ rows' = SetState(id, "lost")
    /\ rec' = [rec EXCEPT !.lost = @ \ {id}]
    /\ UNCHANGED <<world, nextId, docker, holder, req, late, others, admin>>

\* ContainerRemove, force; an error is swallowed.
RecRemove(c) ==
    /\ rec.lost = {} /\ c \in rec.rm
    /\ \/ ctr' = [ctr EXCEPT ![c] = NoCtr] /\ UNCHANGED faults
       \/ Fault /\ UNCHANGED ctr
    /\ rec' = [rec EXCEPT !.rm = @ \ {c}]
    /\ UNCHANGED <<now, phase, reopens, db, nextCtr, net, holder, req, late, others, admin>>

\* NetworkRemove: the daemon refuses a bridge with running containers.
RecRemoveNet(t) ==
    /\ rec.lost = {} /\ rec.rm = {} /\ t \in rec.gc
    /\ net' = [net EXCEPT ![t] = Attached(t) # {}]
    /\ rec' = [rec EXCEPT !.gc = @ \ {t}]
    /\ UNCHANGED <<world, db, ctr, nextCtr, holder, req, late, others, admin>>

Acted == rec.pc = "act" /\ rec.lost = {} /\ rec.rm = {} /\ rec.gc = {}

\* Faulty variant of StatusRead (mutation checks): lost rows are not inspected.
MutStatusRead(id) ==
    /\ Acted /\ rec.inst = 0 /\ id \in rec.todo
    /\ rec' = IF rows[id].ctr = 0 \/ rows[id].state = "lost"
              THEN [rec EXCEPT !.todo = @ \ {id}]
              ELSE [rec EXCEPT !.todo = @ \ {id}, !.inst = id, !.ctr = rows[id].ctr]
    /\ UNCHANGED <<vars, admin>>

\* refreshHealth, Status: read the row; without a recorded container there is
\* nothing to inspect.
StatusRead(id) ==
    /\ Acted /\ rec.inst = 0 /\ id \in rec.todo
    /\ rec' = IF rows[id].ctr = 0
              THEN [rec EXCEPT !.todo = @ \ {id}]
              ELSE [rec EXCEPT !.todo = @ \ {id}, !.inst = id, !.ctr = rows[id].ctr]
    /\ UNCHANGED <<vars, admin>>

\* Inspect the container read, and write the verdict into the row.
StatusWrite ==
    /\ rec.inst # 0
    /\ rows' = SetState(rec.inst, IF ctr[rec.ctr].st = "gone" THEN "lost"
                                                             ELSE Health(rec.ctr))
    /\ rec' = [rec EXCEPT !.inst = 0, !.ctr = 0]
    /\ UNCHANGED <<world, nextId, docker, holder, req, late, others, admin>>

RecEnd ==
    /\ Acted /\ rec.todo = {} /\ rec.inst = 0
    /\ rec' = IdleRec
    /\ UNCHANGED <<vars, admin>>

-----------------------------------------------------------------------------
(* AdminDestroyInstanceById: DestroyInstance without the team lock *)

AdminRemove(id) ==
    /\ admin.left > 0 /\ admin.inst = 0 /\ now <= LastReq
    /\ id \in Live
    /\ RemoveByLabel(id)
    /\ admin' = [inst |-> id, left |-> admin.left - 1]
    /\ UNCHANGED <<now, phase, reopens, db, nextCtr, net, holder, req, late, others, rec>>

AdminDelete ==
    /\ admin.inst # 0
    /\ rows' = [rows EXCEPT ![admin.inst] = NoRow]
    /\ admin' = [admin EXCEPT !.inst = 0]
    /\ UNCHANGED <<world, nextId, docker, holder, req, late, others, rec>>

-----------------------------------------------------------------------------
\* A pass and an organiser's call have deadlines shorter than a tick, too.
FleetTick == Tick /\ rec.pc = "idle" /\ admin.inst = 0 /\ UNCHANGED <<rec, admin>>

FleetCrash == /\ Crash
              /\ rec' = IdleRec
              /\ admin' = [admin EXCEPT !.inst = 0]

Steady == \/ Arrive \/ Sweeping \/ Cleaning \/ EventEnds \/ EventReopens
          \/ \E r \in Reqs : Progress(r)
          \/ \E c \in CtrIds : CtrChanges(c)

Reconciling == \/ RecContainers \/ RecRows \/ RecDecide \/ RecEnd \/ StatusWrite
               \/ \E id \in Ids : RecMarkLost(id) \/ StatusRead(id)
               \/ \E c \in CtrIds : RecRemove(c)
               \/ \E t \in Teams : RecRemoveNet(t)

FleetNext == \/ Steady /\ UNCHANGED <<rec, admin>>
             \/ FleetTick \/ FleetCrash
             \/ Reconciling
             \/ AdminDelete \/ \E id \in Ids : AdminRemove(id)

FleetSpec == FleetInit /\ [][FleetNext]_fleetVars

\* As FairSpec, with the reconcile ticker; its passes end, so time goes on
\* between them.
FleetFairSpec ==
    /\ FleetSpec
    /\ SF_fleetVars(FleetTick)
    /\ WF_fleetVars(Reconciling) /\ WF_fleetVars(AdminDelete)
    /\ \A r \in Reqs : WF_fleetVars(Progress(r) /\ UNCHANGED <<rec, admin>>)
    /\ WF_fleetVars(Sweeping /\ UNCHANGED <<rec, admin>>)
    /\ WF_fleetVars(Cleaning /\ UNCHANGED <<rec, admin>>)

-----------------------------------------------------------------------------
(* Properties *)

\* Containers that the pass removes in this step.
Removed == {c \in rec.rm \ rec'.rm : ctr[c].st # "gone" /\ ctr'[c].st = "gone"}

\* The pass removes a container only when its row is gone or has recorded a
\* container: "a row with no committed ContainerID never has its container
\* removed regardless of age" (Reconcile), although rows are read after the
\* containers were listed and the removal comes later still.
UnrecordedKept ==
    [][\A c \in Removed : ctr[c].inst \in Live => rows[ctr[c].inst].ctr # 0]_fleetVars

\* A container whose row is gone is removed in the end, whoever created it and
\* however late (Reconcile: orphan container).
OrphansRemoved ==
    \A c \in CtrIds :
        ctr[c].st # "gone" /\ ctr[c].inst \notin Live ~> ctr[c].st = "gone"

\* A row that claims a container stops claiming it when none is left: the pass
\* marks it lost, or a sweep deletes it (Reconcile: container vanished).
Phantom(id) == /\ rows[id].state \in {"starting", "running", "unhealthy"}
               /\ \A c \in CtrIds : ctr[c].inst # id
PhantomsNoticed == \A id \in Ids : Phantom(id) ~> ~Phantom(id)

\* A row whose recorded container is up does not stay graded as dead.  Such a
\* grade can be written: a Status that read the row before a redeploy inspects
\* the container the redeploy replaced (Status, refreshHealth).
Misgraded(id) == /\ rows[id].state \in {"lost", "error", "stopped"}
                 /\ rows[id].ctr # 0 /\ ctr[rows[id].ctr].st = "up"
GradesCorrected == \A id \in Ids : Misgraded(id) ~> ~Misgraded(id)

\* The pass never removes the container of a deploy in flight ("Two guards keep
\* a still-recording deploy safe", Reconcile).
DeployContainerKept ==
    [][\A c \in Removed : \A r \in Reqs : req[r].ctr # c]_fleetVars
=============================================================================
