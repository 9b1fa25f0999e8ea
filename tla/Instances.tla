----------------------------- MODULE Instances -----------------------------
(***************************************************************************)
(* Per-team challenge instances: the scheduler's Start, Stop and Extend,   *)
(* the runtime manager's rows and host ports, the deploy steps against     *)
(* Docker, the expiry/reap sweep and the event-end cleanup.  Everything    *)
(* here runs under the per-team lock (abstract here, see TeamLock); the    *)
(* actors that do not take it are added by InstanceFleet.                  *)
(*                                                                         *)
(* A row is an instances row, identified by its primary key (never         *)
(* reused).  A container carries the id of the row it was made for as a    *)
(* label.  Time is a bounded tick counter; an activity in progress spans   *)
(* at most one tick (every call has a context deadline), so a deploy is    *)
(* shorter than the grace and reap thresholds, as in the code.             *)
(***************************************************************************)
EXTENDS Integers, FiniteSets, FiniteSetsExt

CONSTANTS
    Teams, Chals,      \* teams, and visible per-team container challenges
    Probed,            \* the challenges whose image has a HEALTHCHECK
    Ports,             \* portStart..portEnd
    Reqs,              \* participant requests in flight
    Sweeper, Cleaner,  \* the RunExpiry goroutine; CleanupEnded's workers
    NoTeam, NoChal, Free,
    Quota,             \* running instances a team may have
    TTL, Extension, MaxTTL, \* instance lifetime settings; TTL = 0 is "none"
    ReapAfter,         \* age at which a stuck row is reaped
    MaxInst, MaxCtr,   \* bounds: rows and containers ever created
    MaxNow, LastReq,   \* bounds: the clock; the last tick at which requests
                       \* arrive and containers change by themselves
    MaxFaults, MaxReopens \* bounds: injected faults; event re-openings

ASSUME PortsAreNumbers == IsFiniteSet(Ports) /\ Ports \subseteq Nat \ {0}
ASSUME BoundsAreNumbers ==
    {Quota, TTL, Extension, MaxTTL, ReapAfter, MaxInst, MaxCtr, MaxNow,
     LastReq, MaxFaults, MaxReopens} \subseteq Nat
ASSUME LockTakers == /\ Sweeper \notin Reqs /\ Cleaner \notin Reqs
                     /\ Sweeper # Cleaner
                     /\ Free \notin Reqs \cup {Sweeper, Cleaner}
ASSUME NoTeamIsNone == NoTeam \notin Teams /\ NoChal \notin Chals

VARIABLES
    now,     \* the clock
    phase,   \* "running" or "ended": what events.Service derives
    rows,    \* the instances table, by primary key
    nextId,  \* the next primary key
    ctr,     \* the daemon's containers, by id
    nextCtr, \* the next container id
    net,     \* net[t]: team t's bridge exists
    holder,  \* holder[t]: who is inside team t's lock
    req,     \* the requests in flight
    sweep,   \* RunExpiry: one ExpireOnce and one ReapStaleOnce per tick
    clean,   \* CleanupEnded
    latch,   \* endCleanupDone of runTickers
    late,    \* activities that have already seen a tick
    faults, reopens

db == <<rows, nextId>>
docker == <<ctr, nextCtr, net>>
world == <<now, phase, faults, reopens>>
vars == <<now, phase, rows, nextId, ctr, nextCtr, net, holder, req, sweep,
          clean, latch, late, faults, reopens>>

Ids == 1..MaxInst
CtrIds == 1..MaxCtr
NoTime == -1
Procs == Reqs \cup {Sweeper, Cleaner}

RowStates == {"pending", "starting", "running", "unhealthy", "stopped",
              "error", "lost"}
Row == [state : RowStates \cup {"absent"}, team : Teams \cup {NoTeam},
        chal : Chals \cup {NoChal}, port : Ports \cup {0},
        ctr : CtrIds \cup {0}, exp : Int, started : Int, upd : Int]
NoRow == [state |-> "absent", team |-> NoTeam, chal |-> NoChal, port |-> 0,
          ctr |-> 0, exp |-> NoTime, started |-> NoTime, upd |-> NoTime]

Ctr == [st : {"gone", "created", "up", "unhealthy", "exited"},
        inst : Ids \cup {0}, team : Teams \cup {NoTeam}, port : Ports \cup {0}]
NoCtr == [st |-> "gone", inst |-> 0, team |-> NoTeam, port |-> 0]

ReqPC == {"idle", "check", "quota", "ensure", "insert",         \* Start
          "net", "image", "create", "start", "record", "health",\* Deploy
          "delete"}                                             \* Stop
Req == [pc : ReqPC, team : Teams \cup {NoTeam}, chal : Chals \cup {NoChal},
        inst : Ids \cup {0}, port : Ports \cup {0}, ctr : CtrIds \cup {0},
        seen : SUBSET (Ports \cup {0})]
IdleReq == [pc |-> "idle", team |-> NoTeam, chal |-> NoChal, inst |-> 0,
            port |-> 0, ctr |-> 0, seen |-> {}]

Listed == Ids \X Teams   \* a listed row: its id and its team
Sweep == [pc : {"idle", "expire", "reap"}, list : SUBSET Listed, at : Int,
          inst : Ids \cup {0}, team : Teams \cup {NoTeam}]
IdleSweep == [pc |-> "idle", list |-> {}, at |-> NoTime, inst |-> 0,
              team |-> NoTeam]
Clean == [pc : {"idle", "gate", "sweep"}, todo : SUBSET Listed, busy : SUBSET Listed]
IdleClean == [pc |-> "idle", todo |-> {}, busy |-> {}]

TypeOK == /\ now \in Nat
          /\ phase \in {"running", "ended"}
          /\ rows \in [Ids -> Row]
          /\ nextId \in Nat \ {0}
          /\ ctr \in [CtrIds -> Ctr]
          /\ nextCtr \in Nat \ {0}
          /\ net \in [Teams -> BOOLEAN]
          /\ holder \in [Teams -> Procs \cup {Free}]
          /\ req \in [Reqs -> Req]
          /\ sweep \in Sweep
          /\ clean \in Clean
          /\ latch \in BOOLEAN
          /\ late \subseteq Procs
          /\ faults \in Nat /\ reopens \in Nat

Init == /\ now = 0 /\ phase = "running"
        /\ rows = [id \in Ids |-> NoRow] /\ nextId = 1
        /\ ctr = [c \in CtrIds |-> NoCtr] /\ nextCtr = 1
        /\ net = [t \in Teams |-> FALSE]
        /\ holder = [t \in Teams |-> Free]
        /\ req = [r \in Reqs |-> IdleReq]
        /\ sweep = IdleSweep /\ clean = IdleClean /\ latch = FALSE
        /\ late = {} /\ faults = 0 /\ reopens = 0

-----------------------------------------------------------------------------
(* Tables *)

Live == {id \in Ids : rows[id].state # "absent"}
List(S) == {<<id, rows[id].team>> : id \in S}
UsedPorts == {rows[id].port : id \in Live}

\* The row of (t, c): GetTeamInstance.  At most one (uq_instances_per_team).
TeamRows(t, c) == {id \in Live : rows[id].team = t /\ rows[id].chal = c}

\* CountTeamRunningInstances: only state 'running' counts.
TeamRunning(t) == {id \in Live : rows[id].team = t /\ rows[id].state = "running"}

\* UPDATE instances SET state = s, updated_at = now() WHERE id = id: no row,
\* no effect.
SetState(id, s) == IF id \in Live
                   THEN [rows EXCEPT ![id].state = s, ![id].upd = now]
                   ELSE rows

\* removeByLabel: every container labelled with the row id.
Unlabelled(id) == [c \in CtrIds |-> IF ctr[c].inst = id THEN NoCtr ELSE ctr[c]]

\* removeByLabel swallows daemon errors: the containers may also stay.
RemoveByLabel(id) == \/ ctr' = Unlabelled(id) /\ UNCHANGED faults
                     \/ /\ faults < MaxFaults
                        /\ Unlabelled(id) # ctr
                        /\ faults' = faults + 1
                        /\ ctr' = ctr

\* What DockerRuntime.health reports for container c.
Health(c) == CASE ctr[c].st = "up" -> "running"
               [] ctr[c].st = "unhealthy" -> "unhealthy"
               [] ctr[c].st \in {"created", "exited"} -> "stopped"
               [] OTHER -> "error"

Fault == faults < MaxFaults /\ faults' = faults + 1

Unlock(t) == holder' = [holder EXCEPT ![t] = Free]

\* The request returns: deferred unlock included.
Finish(r) == /\ req' = [req EXCEPT ![r] = IdleReq]
             /\ Unlock(req[r].team)
             /\ late' = late \ {r}

Goto(r, l) == /\ req' = [req EXCEPT ![r].pc = l]
              /\ UNCHANGED <<holder, late>>

others == <<sweep, clean, latch>>

-----------------------------------------------------------------------------
(* Requests *)

\* Bound: a Start makes at most one row and one container.
Room == LET starts == {r \in Reqs : req[r].pc \notin {"idle", "delete"}}
        IN /\ nextId + Cardinality(starts) <= MaxInst
           /\ nextCtr + Cardinality(starts) <= MaxCtr

\* A request gets the team's lock.
Enter(r, t) == /\ req[r].pc = "idle"
               /\ now <= LastReq
               /\ holder[t] = Free
               /\ holder' = [holder EXCEPT ![t] = r]

\* Start: lockTeam.
StartLock(r, t, c) ==
    /\ Room
    /\ Enter(r, t)
    /\ req' = [req EXCEPT ![r].pc = "check", ![r].team = t, ![r].chal = c]
    /\ UNCHANGED <<world, db, docker, late, others>>

\* requireRunning.
StartCheck(r) ==
    /\ req[r].pc = "check"
    /\ IF phase = "running" THEN Goto(r, "quota") ELSE Finish(r)
    /\ UNCHANGED <<world, db, docker, others>>

\* Faulty variant of StartQuota (mutation checks): > instead of >=.
MutStartQuota(r) ==
    LET t == req[r].team IN
    /\ req[r].pc = "quota"
    /\ IF \/ \E id \in TeamRows(t, req[r].chal) : rows[id].state = "running"
          \/ Cardinality(TeamRunning(t)) > Quota
       THEN Finish(r)
       ELSE Goto(r, "ensure")
    /\ UNCHANGED <<world, db, docker, others>>

\* A running instance is returned as it is; at the quota the start is refused.
StartQuota(r) ==
    LET t == req[r].team IN
    /\ req[r].pc = "quota"
    /\ IF \/ \E id \in TeamRows(t, req[r].chal) : rows[id].state = "running"
          \/ Cardinality(TeamRunning(t)) >= Quota
       THEN Finish(r)
       ELSE Goto(r, "ensure")
    /\ UNCHANGED <<world, db, docker, others>>

\* ensureTeamRow: take the existing row, or read the used ports to allocate.
EnsureTeamRow(r) ==
    LET have == TeamRows(req[r].team, req[r].chal) IN
    /\ req[r].pc = "ensure"
    /\ \/ /\ \E id \in have : rows[id].state = "running"
          /\ Finish(r)
       \/ \E id \in have :
            /\ rows[id].state # "running"
            /\ req' = [req EXCEPT ![r].pc = "net", ![r].inst = id,
                                  ![r].port = rows[id].port]
            /\ UNCHANGED <<holder, late>>
       \/ /\ have = {}
          /\ req' = [req EXCEPT ![r].pc = "insert", ![r].seen = UsedPorts]
          /\ UNCHANGED <<holder, late>>
    /\ UNCHANGED <<world, db, docker, others>>

\* Faulty variant of FreePorts (mutation checks): no unique port constraint.
MutFreePortsRace(r) == Ports \ req[r].seen

\* allocateRow: the lowest port that was free when the ports were listed and
\* that no other row took meanwhile (uq_instances_host_port).
FreePorts(r) == (Ports \ req[r].seen) \ UsedPorts

InsertRow(r) ==
    /\ req[r].pc = "insert"
    /\ \/ /\ FreePorts(r) = {}
          /\ Finish(r)
          /\ UNCHANGED db
       \/ /\ FreePorts(r) # {}
          /\ nextId <= MaxInst
          /\ rows' = [rows EXCEPT ![nextId] =
                [state |-> "pending", team |-> req[r].team,
                 chal |-> req[r].chal, port |-> Min(FreePorts(r)), ctr |-> 0,
                 exp |-> IF TTL = 0 THEN NoTime ELSE now + TTL,
                 started |-> NoTime, upd |-> now]]
          /\ nextId' = nextId + 1
          /\ req' = [req EXCEPT ![r].pc = "net", ![r].inst = nextId,
                                ![r].port = Min(FreePorts(r)), ![r].seen = {}]
          /\ UNCHANGED <<holder, late>>
    /\ UNCHANGED <<world, docker, others>>

\* A query of Start up to the row fails.
StartError(r) ==
    /\ req[r].pc \in {"check", "quota", "ensure", "insert"}
    /\ Fault
    /\ Finish(r)
    /\ UNCHANGED <<now, phase, reopens, db, docker, others>>

\* Deploy failed with a plain error: the deferred markError runs.
DeployFails(r) == /\ rows' = SetState(req[r].inst, "error")
                  /\ Finish(r)

\* ensureNamedNetwork.  An error is reported as "unavailable", for which the
\* deferred markError does nothing: the row keeps its state.
DeployNet(r) ==
    /\ req[r].pc = "net"
    /\ \/ /\ net' = [net EXCEPT ![req[r].team] = TRUE]
          /\ Goto(r, "image")
          /\ UNCHANGED faults
       \/ Fault /\ Finish(r) /\ UNCHANGED net
    /\ UNCHANGED <<now, phase, reopens, db, ctr, nextCtr, others>>

\* ensureImage, then removeByLabel of an earlier container.  A pull that cannot
\* reach the daemon is "unavailable" too.
DeployImage(r) ==
    /\ req[r].pc = "image"
    /\ \/ RemoveByLabel(req[r].inst) /\ Goto(r, "create") /\ UNCHANGED rows
       \/ Fault /\ DeployFails(r) /\ UNCHANGED ctr
       \/ Fault /\ Finish(r) /\ UNCHANGED <<rows, ctr>>
    /\ UNCHANGED <<now, phase, reopens, nextId, nextCtr, net, others>>

\* ContainerCreate.  The name is derived from the row id, so a container of
\* the same row that could not be removed makes the create fail.
DeployCreate(r) ==
    LET id == req[r].inst IN
    /\ req[r].pc = "create"
    /\ \/ /\ \A c \in CtrIds : ctr[c].inst # id
          /\ nextCtr <= MaxCtr
          /\ ctr' = [ctr EXCEPT ![nextCtr] =
                [st |-> "created", inst |-> id, team |-> req[r].team,
                 port |-> req[r].port]]
          /\ nextCtr' = nextCtr + 1
          /\ req' = [req EXCEPT ![r].pc = "start", ![r].ctr = nextCtr]
          /\ UNCHANGED <<rows, holder, late, faults>>
       \/ /\ \E c \in CtrIds : ctr[c].inst = id
          /\ DeployFails(r)
          /\ UNCHANGED <<ctr, nextCtr, faults>>
       \/ Fault /\ DeployFails(r) /\ UNCHANGED <<ctr, nextCtr>>
    /\ UNCHANGED <<now, phase, reopens, nextId, net, others>>

\* ContainerStart: the daemon refuses when the container or its bridge is
\* gone, or when another container has the host port.
PortUnbound(p) ==
    \A d \in CtrIds : ctr[d].st \in {"up", "unhealthy"} => ctr[d].port # p

Startable(r) ==
    LET c == req[r].ctr IN
    /\ ctr[c].st = "created"
    /\ net[req[r].team]
    /\ PortUnbound(ctr[c].port)

\* A container with a HEALTHCHECK is not healthy yet when it starts.
Started(c) == IF c \in Probed THEN "unhealthy" ELSE "up"

DeployStart(r) ==
    /\ req[r].pc = "start"
    /\ \/ /\ Startable(r)
          /\ ctr' = [ctr EXCEPT ![req[r].ctr].st = Started(req[r].chal)]
          /\ Goto(r, "record")
          /\ UNCHANGED <<rows, faults>>
       \/ ~Startable(r) /\ DeployFails(r) /\ UNCHANGED <<ctr, faults>>
       \/ Fault /\ DeployFails(r) /\ UNCHANGED ctr
    /\ UNCHANGED <<now, phase, reopens, nextId, nextCtr, net, others>>

\* UpdateInstance(starting, container_id, started_at); a row that is gone
\* makes it fail (and markError then updates nothing).
DeployRecord(r) ==
    LET id == req[r].inst IN
    /\ req[r].pc = "record"
    /\ \/ /\ id \in Live
          /\ rows' = [rows EXCEPT ![id].state = "starting",
                          ![id].ctr = req[r].ctr, ![id].started = now,
                          ![id].upd = now]
          /\ Goto(r, "health")
          /\ UNCHANGED faults
       \/ id \notin Live /\ DeployFails(r) /\ UNCHANGED faults
       \/ Fault /\ DeployFails(r)
    /\ UNCHANGED <<now, phase, reopens, nextId, docker, others>>

\* health, and the update of the row with its verdict.
DeployHealth(r) ==
    /\ req[r].pc = "health"
    /\ \/ /\ rows' = SetState(req[r].inst, Health(req[r].ctr))
          /\ Finish(r)
          /\ UNCHANGED faults
       \/ Fault /\ DeployFails(r)
    /\ UNCHANGED <<now, phase, reopens, nextId, docker, others>>

\* Stop: lockTeam, GetTeamInstance, and the container half of DestroyInstance.
StopLock(r, t, c) ==
    \E id \in TeamRows(t, c) :
        /\ Enter(r, t)
        /\ req' = [req EXCEPT ![r].pc = "delete", ![r].team = t,
                              ![r].chal = c, ![r].inst = id]
        /\ RemoveByLabel(id)
        /\ UNCHANGED <<now, phase, reopens, db, nextCtr, net, late, others>>

\* The row half of DestroyInstance, which may fail and leave the row.
StopDelete(r) ==
    /\ req[r].pc = "delete"
    /\ \/ rows' = [rows EXCEPT ![req[r].inst] = NoRow] /\ UNCHANGED faults
       \/ Fault /\ UNCHANGED rows
    /\ Finish(r)
    /\ UNCHANGED <<now, phase, reopens, nextId, docker, others>>

\* Extend adds the step to the current expiry, capped at the maximum lifetime.
\* It is one step: it only reads, then writes one row, all under the lock.
MaxLifetime(id) == MaxTTL + IF rows[id].started = NoTime THEN now
                                                         ELSE rows[id].started

NextExpiry(id) == LET next == rows[id].exp + Extension
                  IN IF next > MaxLifetime(id) THEN MaxLifetime(id) ELSE next

Extend(t, c) ==
    /\ now <= LastReq
    /\ holder[t] = Free
    /\ phase = "running"
    /\ \E id \in TeamRows(t, c) :
         /\ rows[id].exp # NoTime
         /\ rows[id].exp < MaxLifetime(id)
         /\ rows' = [rows EXCEPT ![id].exp = NextExpiry(id), ![id].upd = now]
    /\ UNCHANGED <<world, nextId, docker, holder, req, late, others>>

-----------------------------------------------------------------------------
(* RunExpiry: ExpireOnce, then ReapStaleOnce *)

Expired == {id \in Live : /\ rows[id].exp # NoTime
                          /\ rows[id].exp < now
                          /\ rows[id].state \notin {"stopped", "error", "lost"}}

StuckStates == {"pending", "error", "lost"}
\* Faulty variant of Stale (mutation checks): error rows are forgotten.
MutStale == {id \in Live : /\ ReapAfter > 0
                           /\ rows[id].state \in {"pending", "lost"}
                           /\ rows[id].upd < now - ReapAfter}

Stale == {id \in Live : /\ ReapAfter > 0
                        /\ rows[id].state \in StuckStates
                        /\ rows[id].upd < now - ReapAfter}

\* Faulty variant of Eligible (mutation checks): the listing is trusted.
MutEligible(id) == id \in Live

\* What destroyLocked re-checks under the lock, against the clock value the
\* listing used.
Eligible(id) ==
    /\ id \in Live
    /\ IF sweep.pc = "expire"
       THEN rows[id].exp # NoTime /\ rows[id].exp < sweep.at
       ELSE rows[id].state \in StuckStates

\* A pass over no rows does nothing, so it is not a step.
SweepExpire ==
    /\ sweep.pc = "idle"
    /\ Expired \cup Stale # {}
    /\ sweep' = [sweep EXCEPT !.pc = "expire", !.list = List(Expired), !.at = now]
    /\ UNCHANGED <<world, db, docker, holder, req, clean, latch, late>>

SweepReap ==
    /\ sweep.pc = "expire" /\ sweep.list = {} /\ sweep.inst = 0
    /\ sweep' = [sweep EXCEPT !.pc = "reap",
                              !.list = List(Stale)]
    /\ UNCHANGED <<world, db, docker, holder, req, clean, latch, late>>

SweepEnd ==
    /\ sweep.pc = "reap" /\ sweep.list = {} /\ sweep.inst = 0
    /\ sweep' = IdleSweep
    /\ late' = late \ {Sweeper}
    /\ UNCHANGED <<world, db, docker, holder, req, clean, latch>>

\* The team is busy (tryLockTeam fails), or the row is gone or fine again.
SweepSkip(id, t) ==
    /\ <<id, t>> \in sweep.list /\ sweep.inst = 0
    /\ ~Eligible(id) \/ holder[t] # Free
    /\ sweep' = [sweep EXCEPT !.list = @ \ {<<id, t>>}]
    /\ UNCHANGED <<world, db, docker, holder, req, clean, latch, late>>

\* destroyLocked: tryLockTeam, re-read, and the container half of
\* DestroyInstance.
SweepDestroy(id, t) ==
    /\ <<id, t>> \in sweep.list /\ sweep.inst = 0
    /\ holder[t] = Free
    /\ Eligible(id)
    /\ holder' = [holder EXCEPT ![t] = Sweeper]
    /\ sweep' = [sweep EXCEPT !.list = @ \ {<<id, t>>}, !.inst = id, !.team = t]
    /\ RemoveByLabel(id)
    /\ UNCHANGED <<now, phase, reopens, db, nextCtr, net, req, clean, latch, late>>

SweepDelete ==
    /\ sweep.inst # 0
    /\ \/ rows' = [rows EXCEPT ![sweep.inst] = NoRow] /\ UNCHANGED faults
       \/ Fault /\ UNCHANGED rows
    /\ Unlock(sweep.team)
    /\ sweep' = [sweep EXCEPT !.inst = 0, !.team = NoTeam]
    /\ UNCHANGED <<now, phase, reopens, nextId, docker, req, clean, latch, late>>

-----------------------------------------------------------------------------
(* runTickers' event-end cleanup *)

\* The ticker sees the event ended.
CleanStart ==
    /\ clean.pc = "idle"
    /\ phase = "ended"
    /\ ~latch
    /\ clean' = [clean EXCEPT !.pc = "gate"]
    /\ UNCHANGED <<world, db, docker, holder, req, sweep, latch, late>>

\* CleanupEnded reads the phase again, and lists the per-team rows; a phase
\* that is no longer ended is reported as nothing remaining, which latches.
CleanList ==
    /\ clean.pc = "gate"
    /\ IF phase = "ended"
       THEN /\ clean' = [pc |-> "sweep", todo |-> List(Live), busy |-> {}]
            /\ UNCHANGED latch
       ELSE clean' = IdleClean /\ latch' = TRUE
    /\ UNCHANGED <<world, db, docker, holder, req, sweep, late>>

\* Faulty variant of CleanDestroy (mutation checks): no second read.
MutCleanDestroy(id, t) ==
    /\ <<id, t>> \in clean.todo
    /\ holder[t] = Free
    /\ holder' = [holder EXCEPT ![t] = Cleaner]
    /\ clean' = [clean EXCEPT !.todo = @ \ {<<id, t>>},
                              !.busy = @ \cup {<<id, t>>}]
    /\ RemoveByLabel(id)
    /\ UNCHANGED <<now, phase, reopens, db, nextCtr, net, req, sweep, latch, late>>

\* A worker gets the team's lock (waiting for it) and destroys the row if it
\* is still there.
CleanDestroy(id, t) ==
    /\ <<id, t>> \in clean.todo /\ id \in Live
    /\ holder[t] = Free
    /\ holder' = [holder EXCEPT ![t] = Cleaner]
    /\ clean' = [clean EXCEPT !.todo = @ \ {<<id, t>>},
                              !.busy = @ \cup {<<id, t>>}]
    /\ RemoveByLabel(id)
    /\ UNCHANGED <<now, phase, reopens, db, nextCtr, net, req, sweep, latch, late>>

\* The row is gone, or the pass's context ended while waiting for the lock.
CleanSkip(id, t) ==
    /\ <<id, t>> \in clean.todo
    /\ id \notin Live \/ holder[t] # Free
    /\ clean' = [clean EXCEPT !.todo = @ \ {<<id, t>>}]
    /\ UNCHANGED <<world, db, docker, holder, req, sweep, latch, late>>

CleanDelete(id, t) ==
    /\ <<id, t>> \in clean.busy
    /\ \/ rows' = [rows EXCEPT ![id] = NoRow] /\ UNCHANGED faults
       \/ Fault /\ UNCHANGED rows
    /\ Unlock(t)
    /\ clean' = [clean EXCEPT !.busy = @ \ {<<id, t>>}]
    /\ UNCHANGED <<now, phase, reopens, nextId, docker, req, sweep, latch, late>>

\* The pass is over; the latch is set when no per-team row remains.
CleanEnd ==
    /\ clean.pc = "sweep" /\ clean.todo = {} /\ clean.busy = {}
    /\ clean' = IdleClean
    /\ latch' = (Live = {})
    /\ UNCHANGED <<world, db, docker, holder, req, sweep, late>>

\* The phase or one of the two listings cannot be read: the pass is over, and
\* the latch is left alone.
CleanError ==
    /\ clean.pc # "idle" /\ clean.todo = {} /\ clean.busy = {}
    /\ Fault
    /\ clean' = IdleClean
    /\ UNCHANGED <<now, phase, reopens, db, docker, holder, req, sweep, latch, late>>

\* The ticker sees the event open again.
CleanRearm ==
    /\ clean.pc = "idle"
    /\ latch /\ phase # "ended"
    /\ latch' = FALSE
    /\ UNCHANGED <<world, db, docker, holder, req, sweep, clean, late>>

-----------------------------------------------------------------------------
(* The world around the platform *)

Busy == {r \in Reqs : req[r].pc # "idle"}
        \cup IF sweep.pc = "idle" THEN {} ELSE {Sweeper}

Tick == /\ now < MaxNow
        /\ late = {}
        /\ now' = now + 1
        /\ late' = Busy
        /\ UNCHANGED <<phase, faults, reopens, db, docker, holder, req, others>>

EventEnds == /\ phase = "running"
             /\ phase' = "ended"
             /\ UNCHANGED <<now, faults, reopens, db, docker, holder, req, late, others>>

\* An organiser moves the end time back into the future.
EventReopens == /\ phase = "ended" /\ reopens < MaxReopens
                /\ phase' = "running"
                /\ reopens' = reopens + 1
                /\ UNCHANGED <<now, faults, db, docker, holder, req, late, others>>

\* A container changes by itself: it exits, is restarted by its restart
\* policy, fails or passes its health check, or is removed by hand.
CtrChanges(c) ==
    /\ now <= LastReq
    /\ \/ /\ ctr[c].st \in {"up", "unhealthy"}
          /\ \E s \in {"up", "unhealthy", "exited"} \ {ctr[c].st} :
                ctr' = [ctr EXCEPT ![c].st = s]
       \/ /\ ctr[c].st = "exited" /\ PortUnbound(ctr[c].port)
          /\ ctr' = [ctr EXCEPT ![c].st = "up"]
       \/ /\ ctr[c].st # "gone"
          /\ ctr' = [ctr EXCEPT ![c] = NoCtr]
    /\ Fault
    /\ UNCHANGED <<now, phase, reopens, db, nextCtr, net, holder, req, late, others>>

\* The platform process dies and starts again: locks, requests, passes and
\* the latch were memory.
Crash == /\ Fault
         /\ holder' = [t \in Teams |-> Free]
         /\ req' = [r \in Reqs |-> IdleReq]
         /\ sweep' = IdleSweep /\ clean' = IdleClean /\ latch' = FALSE
         /\ late' = {}
         /\ UNCHANGED <<now, phase, reopens, db, docker>>

-----------------------------------------------------------------------------
DeployStep(r) == \/ DeployNet(r) \/ DeployImage(r) \/ DeployCreate(r)
                 \/ DeployStart(r) \/ DeployRecord(r) \/ DeployHealth(r)

Progress(r) == \/ StartCheck(r) \/ StartQuota(r) \/ EnsureTeamRow(r)
               \/ InsertRow(r) \/ StartError(r) \/ DeployStep(r) \/ StopDelete(r)

Arrive == \E t \in Teams, c \in Chals :
            \/ \E r \in Reqs : StartLock(r, t, c) \/ StopLock(r, t, c)
            \/ Extend(t, c)

Sweeping == \/ SweepExpire \/ SweepReap \/ SweepEnd \/ SweepDelete
            \/ \E id \in Ids, t \in Teams : SweepSkip(id, t) \/ SweepDestroy(id, t)

Cleaning == \/ CleanStart \/ CleanList \/ CleanEnd \/ CleanError \/ CleanRearm
            \/ \E id \in Ids, t \in Teams :
                CleanDestroy(id, t) \/ CleanSkip(id, t) \/ CleanDelete(id, t)

Environment == \/ Tick \/ EventEnds \/ EventReopens \/ Crash
               \/ \E c \in CtrIds : CtrChanges(c)

Next == \/ Arrive
        \/ \E r \in Reqs : Progress(r)
        \/ Sweeping
        \/ Cleaning
        \/ Environment

Spec == Init /\ [][Next]_vars

\* Goroutines that can run do run, and every call they make has a deadline
\* (deployTimeout, the sweeps' 30s and the cleanup's 5min contexts), so passes
\* and requests end; time passes.
FairSpec == /\ Spec
            /\ WF_vars(Tick) /\ WF_vars(Sweeping) /\ WF_vars(Cleaning)
            /\ \A r \in Reqs : WF_vars(Progress(r))

-----------------------------------------------------------------------------
(* Properties *)

\* A team never has more running instances than its quota, although the
\* quota is counted (StartQuota) long before the deploy makes the row running
\* (scheduler.go Start: "so the quota read-modify-write is correct").
QuotaHeld == \A t \in Teams : Cardinality(TeamRunning(t)) <= Quota

\* Activity w is deploying or destroying row id.
WorksOn(w, id) == \/ w \in Reqs /\ req[w].inst = id
                  \/ w = Sweeper /\ sweep.inst = id
                  \/ w = Cleaner /\ \E t \in Teams : <<id, t>> \in clean.busy

\* The row that a request, the sweep or a cleanup worker is deploying or
\* destroying stays in the table until that activity is done with it, and
\* nobody else deploys or destroys that row or another row of its team: the
\* listings of the sweep and the cleanup are older than the requests they meet
\* (destroyLocked, CleanupEnded, Start, Stop).
OneAtWork ==
    \A w \in Procs, id \in Ids : WorksOn(w, id) =>
        /\ id \in Live
        /\ \A v \in Procs, i \in Live :
              WorksOn(v, i) /\ rows[i].team = rows[id].team => v = w /\ i = id

\* No two rows share a host port or an owner, although ports are listed in one
\* step and taken in another (allocateRow).
RowsDistinct ==
    \A a, b \in Live : a # b =>
        /\ rows[a].port # rows[b].port
        /\ <<rows[a].team, rows[a].chal>> # <<rows[b].team, rows[b].chal>>

\* A row disappears only because its own team stops it, because it is past its
\* expiry at that moment, because it is stuck, or because of the event-end
\* cleanup; and never while a deploy of it is in flight.  The sweeps decide
\* from a listing that may be stale (ExpireOnce, ReapStaleOnce, destroyLocked).
DestroyedForCause ==
    [][\A id \in Live \ Live' :
         /\ \A r \in Reqs : req[r].inst = id => req[r].pc = "delete"
         /\ \/ \E r \in Reqs : req[r].inst = id
            \/ rows[id].exp # NoTime /\ rows[id].exp < now
            \/ rows[id].state \in StuckStates
            \/ <<id, rows[id].team>> \in clean.busy]_vars

\* An instance's expiry only moves forward, and an extension never moves it
\* past the maximum lifetime (Extend).
ExpiryAdvances ==
    [][\A id \in Live \cap Live' :
         rows'[id].exp # rows[id].exp =>
            /\ rows'[id].exp > rows[id].exp
            /\ rows'[id].exp <= MaxLifetime(id)]_vars

\* With a TTL, every row is reclaimed in the end, with its port: rows with a
\* container expire, stuck rows are reaped.  A row graded 'stopped' is the one
\* that neither sweep lists (ListExpiredInstances, ListStaleInstances).
RowsReclaimed ==
    \A id \in Ids : id \in Live ~> id \notin Live \/ rows[id].state = "stopped"

\* Once the event-end sweep has converged and latched, no per-team instance
\* exists (main.go runTickers: "retries until no per-team instances remain").
LatchedMeansClean == latch /\ phase = "ended" => Live = {}
=============================================================================
