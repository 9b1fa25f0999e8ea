----------------------------- MODULE PluginHost -----------------------------
(***************************************************************************)
(* The plugin host: one supervisor goroutine per plugin (launch, identity  *)
(* check, serve, crash, backoff, quarantine, hot reload, drain, teardown), *)
(* the type registries it publishes providers into, the dispatch of calls  *)
(* under a per-plugin and a global in-flight budget, and the pidfiles with *)
(* which the next boot reclaims children of a host that was killed.        *)
(*                                                                         *)
(* Time is abstract: a timeout may fire whenever it could, and whether a   *)
(* ready streak was long enough to forgive earlier failures is a choice.   *)
(***************************************************************************)
EXTENDS Naturals, FiniteSets

CONSTANTS
    Plugins,     \* plugins found on disk
    Types,       \* Types[p]: "scoring", "challenge_type", "notification" or "auth"
    Builtins,    \* plugins whose name is that of a protected built-in
    Calls,       \* goroutines that call plugins
    PerCap,      \* OSCTF_PLUGIN_MAX_INFLIGHT
    GlobalCap,   \* the fd accountant's grant
    MaxAttempts, \* OSCTF_PLUGIN_RESTART_CAP
    MaxProcs,    \* bound: processes ever launched
    MaxReloads,  \* bound: operator reloads
    MaxBoots     \* bound: boots of the host

ASSUME PluginBounds == /\ {PerCap, GlobalCap, MaxAttempts, MaxBoots} \subseteq Nat \ {0}
                       /\ {MaxProcs, MaxReloads} \subseteq Nat
                       /\ Builtins \subseteq Plugins

ASSUME CallsFinite == IsFiniteSet(Calls)

VARIABLES
    host,      \* "down", "up", "stopping"
    boots,     \* how often the host has booted
    mg,        \* the loader's managed entries
    actor,     \* the supervisor goroutines
    procs,     \* the child processes, by launch number
    pidfile,   \* pidfile[p]: the process named in p.pid, 0 when there is none
    provider,  \* the plugins whose provider is in its type registry
    sem,       \* sem[p]: slots taken of the plugin's semaphore
    global,    \* slots taken of the global semaphore
    call,      \* the calls
    reloads    \* operator reloads accepted so far

hostVars == <<host, boots, mg, actor, procs, pidfile, provider, sem, global, call, reloads>>

States == {"discovered", "launching", "ready", "unhealthy", "restarting",
           "failed", "draining", "stopped"}

\* The transitions of the state table.
legalTransitions(from) ==
    CASE from = "discovered" -> {"launching", "failed"}
      [] from = "launching"  -> {"ready", "restarting", "failed"}
      [] from = "ready"      -> {"unhealthy", "draining"}
      [] from = "unhealthy"  -> {"ready", "restarting", "draining"}
      [] from = "restarting" -> {"launching", "failed"}
      [] from = "failed"     -> {"launching"}
      [] from = "draining"   -> {"stopped"}
      [] from = "stopped"    -> {}

\* to: an illegal transition is logged and leaves the state as it is.
to(from, next) == IF next \in legalTransitions(from) THEN next ELSE from

PCs == {"none", "launch", "launching", "verify", "publish", "register", "serve", "reload",
        "swap", "reap", "crashed", "launchfailed", "backoff", "deregister", "quarantine",
        "parked", "teardown", "drain", "done"}

\* Where a supervisor that reverts its provider goes on.
Nexts == {"none", "quarantine", "teardown", "done"}

Procs == 1..MaxProcs
NoProc == [plugin |-> CHOOSE p \in Plugins : TRUE, st |-> "unused", good |-> FALSE,
           boot |-> 0, rec |-> FALSE, left |-> FALSE]
Idle == [pc |-> "idle", plugin |-> CHOOSE p \in Plugins : TRUE, conn |-> 0]

Managed == [st : States, cur : Procs \cup {0}, registered : BOOLEAN]
Actor == [pc : PCs, conn : Procs \cup {0}, other : Procs \cup {0}, attempts : 0..MaxAttempts,
          next : Nexts]

\* rec, left (ghosts): a pidfile was written for the process; a sweep left it alone.
Proc == [plugin : Plugins, st : {"unused", "running", "exited", "killed"},
         good : BOOLEAN, boot : 0..MaxBoots, rec : BOOLEAN, left : BOOLEAN]

HostTypeOK == /\ host \in {"down", "up", "stopping"} /\ boots \in 0..MaxBoots
              /\ mg \in [Plugins -> Managed] /\ actor \in [Plugins -> Actor]
              /\ procs \in [Procs -> Proc]
              /\ pidfile \in [Plugins -> Procs \cup {0}] /\ provider \subseteq Plugins
              /\ sem \in [Plugins -> 0..PerCap] /\ global \in 0..GlobalCap
              /\ call \in [Calls -> [pc : {"idle", "sem", "global", "run"},
                                     plugin : Plugins, conn : Procs \cup {0}]]
              /\ reloads \in 0..MaxReloads

NewManaged == [st |-> "discovered", cur |-> 0, registered |-> FALSE]
NewActor == [pc |-> "none", conn |-> 0, other |-> 0, attempts |-> 0, next |-> "none"]

HostInit == /\ host = "down" /\ boots = 0
            /\ mg = [p \in Plugins |-> NewManaged]
            /\ actor = [p \in Plugins |-> NewActor]
            /\ procs = [k \in Procs |-> NoProc]
            /\ pidfile = [p \in Plugins |-> 0]
            /\ provider = {}
            /\ sem = [p \in Plugins |-> 0] /\ global = 0
            /\ call = [c \in Calls |-> Idle]
            /\ reloads = 0

\* The supervisors' context is cancelled.
Stopped == host = "stopping"

Killed(ps, k) == [ps EXCEPT ![k].st = IF @ = "running" THEN "killed" ELSE @]

At(p, pc) == host # "down" /\ actor[p].pc = pc

Step(p, pc) == actor' = [actor EXCEPT ![p].pc = pc]

\* What the supervisors leave alone.
CallsUnchanged == UNCHANGED <<host, boots, sem, global, call>>

-----------------------------------------------------------------------------
(* Boot, stop and crash of the host *)

\* The processes that pidfiles of ps name.
Named(ps) == {k \in Procs : \E p \in ps : pidfile[p] = k}

\* Faulty variant of SweepOrphans (mutation checks): records go, children stay.
MutSweepOrphans(kept, disowned) ==
    /\ kept \cup disowned \subseteq {p \in Plugins : pidfile[p] # 0}
    /\ procs' = procs
    /\ pidfile' = [p \in Plugins |-> 0]

\* The sweep reads each pidfile of the runtime directory.  A child that is alive
\* and carries the token is killed; the record of a dead one is dropped.  Kept are
\* the records that cannot be read, whose owner's pid is alive (another platform,
\* or the pid is in use again) or whose child cannot be killed; disowned, and
\* dropped, those whose pid does not show the token (in use again, or ps fails).
\* Neither child is touched.
SweepOrphans(kept, disowned) ==
    /\ kept \cup disowned \subseteq {p \in Plugins : pidfile[p] # 0}
    /\ kept \cap disowned = {}
    /\ procs' = [k \in Procs |->
                    IF k \in Named(kept \cup disowned) THEN [procs[k] EXCEPT !.left = TRUE]
                    ELSE IF k \in Named(Plugins) THEN Killed(procs, k)[k]
                    ELSE procs[k]]
    /\ pidfile' = [p \in Plugins |-> IF p \in kept THEN pidfile[p] ELSE 0]

\* launchDiscovered: a plugin whose config does not resolve is failed at load
\* and gets no supervisor; the others are tracked and their supervisors start.
LaunchDiscovered(bad) ==
    /\ mg' = [p \in Plugins |-> [NewManaged EXCEPT !.st = IF p \in bad THEN to(@, "failed") ELSE @]]
    /\ actor' = [p \in Plugins |-> [NewActor EXCEPT !.pc = IF p \in bad THEN "none" ELSE "launch"]]

Boot(bad, kept, disowned) ==
    /\ host = "down" /\ boots < MaxBoots
    /\ host' = "up" /\ boots' = boots + 1
    /\ SweepOrphans(kept, disowned)
    /\ LaunchDiscovered(bad)
    /\ UNCHANGED <<provider, sem, global, call, reloads>>

\* Stop cancels every supervisor.
Stop == /\ host = "up"
        /\ host' = "stopping"
        /\ UNCHANGED <<boots, mg, actor, procs, pidfile, provider, sem, global, call, reloads>>

\* Stop has seen every supervisor done, or its budget is spent: the process
\* ends.  A killed host ends the same way at any time.  Children may survive it
\* (no parent-death signal outside Linux).
HostEnds(survivors) ==
    /\ host # "down"
    /\ survivors \subseteq {k \in Procs : procs[k].st = "running"}
    /\ host' = "down"
    /\ procs' = [k \in Procs |-> IF k \in survivors THEN procs[k]
                                 ELSE [procs[k] EXCEPT !.st = IF @ = "running" THEN "exited" ELSE @]]
    /\ mg' = [p \in Plugins |-> NewManaged]
    /\ actor' = [p \in Plugins |-> NewActor]
    /\ provider' = {}
    /\ sem' = [p \in Plugins |-> 0] /\ global' = 0
    /\ call' = [c \in Calls |-> Idle]
    /\ UNCHANGED <<boots, pidfile, reloads>>

\* A child dies by itself.
ProcExits(k) == /\ procs[k].st = "running"
                /\ procs' = [procs EXCEPT ![k].st = "exited"]
                /\ UNCHANGED <<host, boots, mg, actor, pidfile, provider, sem, global, call, reloads>>

-----------------------------------------------------------------------------
(* The registries *)

\* Register: an auth plugin that does not answer Info is refused, as is a name
\* that is a protected built-in of its registry.
Registers(p) == /\ p \notin Builtins
                /\ Types[p] = "auth" => procs[mg[p].cur].st = "running"

\* registerReady: register once; a refusal clears the mark again.
RegisterReady(p, answered) ==
    LET ok == mg[p].registered \/ (Registers(p) /\ (Types[p] = "auth" => answered))
    IN /\ At(p, "register")
       /\ mg' = [mg EXCEPT ![p].registered = ok]
       /\ provider' = IF ok THEN provider \cup {p} ELSE provider
       /\ Step(p, "serve")
       /\ UNCHANGED <<procs, pidfile, reloads>>
       /\ CallsUnchanged

\* Faulty variant of Revert (mutation checks): the mark goes, the provider stays.
MutRevert(p, a, then) ==
    /\ mg' = [mg EXCEPT ![p].registered = FALSE]
    /\ actor' = [actor EXCEPT ![p] = [a EXCEPT !.pc = then]]

\* revert: the mark is cleared, and if it was set the provider is to leave its
\* registry; then says what comes next, a is the supervisor's record otherwise.
Revert(p, a, then) ==
    /\ mg' = [mg EXCEPT ![p].registered = FALSE]
    /\ actor' = [actor EXCEPT ![p] =
                    IF mg[p].registered THEN [a EXCEPT !.pc = "deregister", !.next = then]
                    ELSE [a EXCEPT !.pc = then]]

Deregister(p) ==
    /\ At(p, "deregister")
    /\ provider' = provider \ {p}
    /\ actor' = [actor EXCEPT ![p].pc = actor[p].next, ![p].next = "none"]
    /\ UNCHANGED <<mg, procs, pidfile, reloads>>
    /\ CallsUnchanged

\* The supervisor returns: its deferred revert runs.
ActorReturns(p) == Revert(p, actor[p], "done")

-----------------------------------------------------------------------------
(* Launching *)

\* The process starts (exec may fail: k = 0), its handshake is awaited.  Whether
\* the binary on disk is at the moment the one its manifest declares is open.
Spawn(p, k, good) ==
    \/ k = 0 /\ UNCHANGED procs
    \/ /\ k # 0 /\ procs[k].st = "unused"
       /\ \A j \in Procs : j < k => procs[j].st # "unused"
       /\ procs' = [procs EXCEPT ![k] = [plugin |-> p, st |-> "running", good |-> good,
                                         boot |-> boots, rec |-> FALSE, left |-> FALSE]]

\* realLaunch has shaken hands with k and writes the pidfile over the one of an
\* earlier launch.
Recorded(p, k, st) ==
    /\ k # 0 /\ procs[k].st = "running"
    /\ pidfile' = [pidfile EXCEPT ![p] = k]
    /\ procs' = [procs EXCEPT ![k].rec = TRUE, ![k].st = st]

Launch(p, k, good) ==
    /\ At(p, "launch") /\ Spawn(p, k, good)
    /\ mg' = [mg EXCEPT ![p].st = to(@, "launching")]
    /\ actor' = [actor EXCEPT ![p].pc = "launching", ![p].conn = k]
    /\ UNCHANGED <<pidfile, provider, reloads>>
    /\ CallsUnchanged

LaunchSucceeds(p) ==
    /\ At(p, "launching")
    /\ Recorded(p, actor[p].conn, IF Stopped THEN "killed" ELSE "running")
    /\ IF Stopped
       THEN ActorReturns(p)
       ELSE Step(p, "verify") /\ UNCHANGED mg
    /\ UNCHANGED <<provider, reloads>>
    /\ CallsUnchanged

\* No handshake, or no pidfile: the process is killed.
LaunchFails(p) ==
    /\ At(p, "launching")
    /\ procs' = IF actor[p].conn = 0 THEN procs ELSE Killed(procs, actor[p].conn)
    /\ IF Stopped THEN ActorReturns(p)
       ELSE /\ actor' = [actor EXCEPT ![p].pc = "launchfailed", ![p].conn = 0]
            /\ UNCHANGED mg
    /\ UNCHANGED <<pidfile, provider, reloads>>
    /\ CallsUnchanged

\* verifyIdentity asks Info once.  No answer, or another name, type or ABI: the
\* process is killed and the plugin quarantined at once.
Verify(p) ==
    LET k == actor[p].conn
    IN /\ At(p, "verify")
       /\ IF procs[k].good /\ procs[k].st = "running"
          THEN Step(p, "publish") /\ UNCHANGED <<mg, procs>>
          ELSE /\ procs' = Killed(procs, k)
               /\ Revert(p, [actor[p] EXCEPT !.conn = 0], "quarantine")
       /\ UNCHANGED <<pidfile, provider, reloads>>
       /\ CallsUnchanged

\* quarantine: to failed, through restarting when unhealthy, without a client.
Quarantine(p) ==
    /\ At(p, "quarantine")
    /\ mg' = [mg EXCEPT ![p].st = to(IF @ = "unhealthy" THEN to(@, "restarting") ELSE @, "failed"),
                        ![p].cur = 0]
    /\ Step(p, "parked")
    /\ UNCHANGED <<procs, pidfile, provider, reloads>>
    /\ CallsUnchanged

\* becomeReady: state and client in one locked step.
BecomeReady(p) ==
    /\ At(p, "publish")
    /\ mg' = [mg EXCEPT ![p].st = to(@, "ready"), ![p].cur = actor[p].conn]
    /\ Step(p, "register")
    /\ UNCHANGED <<procs, pidfile, provider, reloads>>
    /\ CallsUnchanged

-----------------------------------------------------------------------------
(* Serving *)

\* exited is closed: the watcher saw the process gone, or the stop cancelled it.
\* afterCrash begins by killing the instance, which in the latter case is alive.
ServeCrash(p) ==
    /\ At(p, "serve")
    /\ procs[actor[p].conn].st = "exited" \/ Stopped
    /\ procs' = Killed(procs, actor[p].conn)
    /\ Step(p, "reap")
    /\ UNCHANGED <<mg, pidfile, provider, reloads>>
    /\ CallsUnchanged

\* afterCrash goes on: ready is left and the client withdrawn in one step.  A long
\* ready streak forgives the earlier failures.
MarkUnhealthy(p, stable) ==
    /\ At(p, "reap")
    /\ mg' = [mg EXCEPT ![p].st = to(@, "unhealthy"), ![p].cur = 0]
    /\ actor' = [actor EXCEPT ![p].pc = "crashed", ![p].conn = 0,
                              ![p].attempts = IF stable THEN 0 ELSE @]
    /\ UNCHANGED <<procs, pidfile, provider, reloads>>
    /\ CallsUnchanged

\* backoffOrQuarantine: at the cap the provider is reverted and the plugin
\* quarantined, else it waits.
BackoffOrQuarantine(p) ==
    LET failed == [actor[p] EXCEPT !.attempts = @ + 1]
    IN /\ At(p, "crashed") \/ At(p, "launchfailed")
       /\ IF failed.attempts >= MaxAttempts
          THEN Revert(p, failed, "quarantine")
          ELSE /\ mg' = [mg EXCEPT ![p].st = to(@, "restarting")]
               /\ actor' = [actor EXCEPT ![p] = [failed EXCEPT !.pc = "backoff"]]
       /\ UNCHANGED <<procs, pidfile, provider, reloads>>
       /\ CallsUnchanged

\* The backoff ends, or the stop cancels it.
BackoffEnds(p) ==
    /\ At(p, "backoff")
    /\ \/ Step(p, "launch") /\ UNCHANGED mg
       \/ Stopped /\ ActorReturns(p)
    /\ UNCHANGED <<procs, pidfile, provider, reloads>>
    /\ CallsUnchanged

\* parkUntilReload: an operator's reload relaunches afresh ...
ParkedReload(p) ==
    /\ At(p, "parked") /\ reloads < MaxReloads
    /\ reloads' = reloads + 1
    /\ actor' = [actor EXCEPT ![p].pc = "launch", ![p].attempts = 0]
    /\ UNCHANGED <<mg, procs, pidfile, provider>>
    /\ CallsUnchanged

\* Faulty variant of ParkedStop (mutation checks): only a reload ends the park.
MutParkedStop(p) == FALSE /\ At(p, "parked") /\ UNCHANGED hostVars

\* ... a stop ends the supervisor.
ParkedStop(p) ==
    /\ At(p, "parked") /\ Stopped
    /\ ActorReturns(p)
    /\ UNCHANGED <<procs, pidfile, provider, reloads>>
    /\ CallsUnchanged

\* A reload request is taken while serving: a new instance is launched.
Reload(p, k, good) ==
    /\ At(p, "serve") /\ reloads < MaxReloads /\ Spawn(p, k, good)
    /\ reloads' = reloads + 1
    /\ actor' = [actor EXCEPT ![p].pc = "reload", ![p].other = k]
    /\ UNCHANGED <<mg, pidfile, provider>>
    /\ CallsUnchanged

\* The new instance is up: its client replaces the old one while the state stays
\* ready, then the old one's calls are cancelled and it is drained.  Stopped
\* meanwhile, the new instance is killed and the old one torn down.
ReloadSucceeds(p) ==
    LET k == actor[p].other
    IN /\ At(p, "reload")
       /\ Recorded(p, k, IF Stopped THEN "killed" ELSE "running")
       /\ IF Stopped
          THEN Revert(p, [actor[p] EXCEPT !.other = 0], "teardown")
          ELSE /\ mg' = [mg EXCEPT ![p].cur = k]
               /\ actor' = [actor EXCEPT ![p].pc = "swap", ![p].other = actor[p].conn, ![p].conn = k]
       /\ UNCHANGED <<provider, reloads>>
       /\ CallsUnchanged

\* The new instance never became ready: the old one is retained.
ReloadFails(p) ==
    /\ At(p, "reload")
    /\ procs' = IF actor[p].other = 0 THEN procs ELSE Killed(procs, actor[p].other)
    /\ IF Stopped
       THEN Revert(p, [actor[p] EXCEPT !.other = 0], "teardown")
       ELSE /\ actor' = [actor EXCEPT ![p].pc = "serve", ![p].other = 0]
            /\ UNCHANGED mg
    /\ UNCHANGED <<pidfile, provider, reloads>>
    /\ CallsUnchanged

\* Faulty variant of SwapKill (mutation checks): the new instance is killed.
MutSwapKill(p) ==
    /\ At(p, "swap")
    /\ procs' = Killed(procs, actor[p].conn)
    /\ actor' = [actor EXCEPT ![p].pc = "serve", ![p].other = 0]
    /\ UNCHANGED <<mg, pidfile, provider, reloads>>
    /\ CallsUnchanged

\* drain ends when no call is left on the instance or at its timeout, which may
\* come at any time; the instance is killed.
SwapKill(p) ==
    /\ At(p, "swap")
    /\ procs' = Killed(procs, actor[p].other)
    /\ actor' = [actor EXCEPT ![p].pc = "serve", ![p].other = 0]
    /\ UNCHANGED <<mg, pidfile, provider, reloads>>
    /\ CallsUnchanged

\* The stop is seen: teardown begins by reverting the provider, ...
ServeStop(p) ==
    /\ At(p, "serve") /\ Stopped
    /\ Revert(p, actor[p], "teardown")
    /\ UNCHANGED <<procs, pidfile, provider, reloads>>
    /\ CallsUnchanged

\* ... then new calls are refused ...
Draining(p) ==
    /\ At(p, "teardown")
    /\ mg' = [mg EXCEPT ![p].st = to(@, "draining")]
    /\ Step(p, "drain")
    /\ UNCHANGED <<procs, pidfile, provider, reloads>>
    /\ CallsUnchanged

\* ... and the instance is drained and killed, and its pidfile removed; the deferred revert
\* finds nothing left to do.
Teardown(p) ==
    /\ At(p, "drain")
    /\ procs' = Killed(procs, actor[p].conn)
    /\ pidfile' = [pidfile EXCEPT ![p] = 0]
    /\ mg' = [mg EXCEPT ![p].st = to(@, "stopped"), ![p].cur = 0]
    /\ actor' = [actor EXCEPT ![p].pc = "done", ![p].conn = 0]
    /\ UNCHANGED <<provider, reloads>>
    /\ CallsUnchanged

-----------------------------------------------------------------------------
(* dispatch *)

LoaderUnchanged == UNCHANGED <<host, boots, mg, actor, procs, pidfile, provider, reloads>>

\* The ready gate: under the lock, the call picks the client and the semaphore.
DispatchPick(c, p) ==
    /\ host # "down" /\ call[c].pc = "idle"
    /\ mg[p].st = "ready" /\ mg[p].cur # 0
    /\ call' = [call EXCEPT ![c] = [pc |-> "sem", plugin |-> p, conn |-> mg[p].cur]]
    /\ UNCHANGED <<sem, global>>
    /\ LoaderUnchanged

AcquireSem(c) ==
    LET p == call[c].plugin
    IN /\ call[c].pc = "sem" /\ sem[p] < PerCap
       /\ sem' = [sem EXCEPT ![p] = @ + 1]
       /\ call' = [call EXCEPT ![c].pc = "global"]
       /\ UNCHANGED global
       /\ LoaderUnchanged

AcquireGlobal(c) ==
    /\ call[c].pc = "global" /\ global < GlobalCap
    /\ global' = global + 1
    /\ call' = [call EXCEPT ![c].pc = "run"]
    /\ UNCHANGED sem
    /\ LoaderUnchanged

\* The queue wait is over, or the caller has gone: shed at the plugin's cap ...
ShedPerPlugin(c) ==
    /\ call[c].pc = "sem"
    /\ call' = [call EXCEPT ![c] = Idle]
    /\ UNCHANGED <<sem, global>>
    /\ LoaderUnchanged

\* Faulty variant of ShedGlobal (mutation checks): the plugin's slot is kept.
MutShedGlobal(c) ==
    /\ call[c].pc = "global"
    /\ call' = [call EXCEPT ![c] = Idle]
    /\ UNCHANGED <<sem, global>>
    /\ LoaderUnchanged

\* ... or at the global one, giving the plugin's slot back.
ShedGlobal(c) ==
    /\ call[c].pc = "global"
    /\ sem' = [sem EXCEPT ![call[c].plugin] = @ - 1]
    /\ call' = [call EXCEPT ![c] = Idle]
    /\ UNCHANGED global
    /\ LoaderUnchanged

\* The call ends (answer, error, cancelled by its caller or by the drain) and
\* the deferred release gives both slots back.
CallReturns(c) ==
    /\ call[c].pc = "run"
    /\ sem' = [sem EXCEPT ![call[c].plugin] = @ - 1]
    /\ global' = global - 1
    /\ call' = [call EXCEPT ![c] = Idle]
    /\ LoaderUnchanged

-----------------------------------------------------------------------------
Supervisor(p) ==
    \/ \E k \in Procs \cup {0}, good \in BOOLEAN : Launch(p, k, good)
    \/ LaunchSucceeds(p) \/ LaunchFails(p) \/ Verify(p) \/ BecomeReady(p)
    \/ \E answered \in BOOLEAN : RegisterReady(p, answered)
    \/ ServeCrash(p) \/ \E stable \in BOOLEAN : MarkUnhealthy(p, stable)
    \/ BackoffOrQuarantine(p) \/ BackoffEnds(p)
    \/ Deregister(p) \/ Quarantine(p) \/ ParkedStop(p)
    \/ ReloadSucceeds(p) \/ ReloadFails(p) \/ SwapKill(p)
    \/ ServeStop(p) \/ Draining(p) \/ Teardown(p)

Operator(p) == ParkedReload(p) \/ \E k \in Procs \cup {0}, good \in BOOLEAN : Reload(p, k, good)

Dispatch(c) == AcquireSem(c) \/ AcquireGlobal(c) \/ ShedPerPlugin(c) \/ ShedGlobal(c) \/ CallReturns(c)

HostNext == \/ \E bad, kept, disowned \in SUBSET Plugins : Boot(bad, kept, disowned)
            \/ Stop
            \/ \E survivors \in SUBSET Procs : HostEnds(survivors)
            \/ \E p \in Plugins : Supervisor(p) \/ Operator(p)
            \/ \E k \in Procs : ProcExits(k)
            \/ \E c \in Calls : Dispatch(c) \/ \E p \in Plugins : DispatchPick(c, p)

HostSpec == HostInit /\ [][HostNext]_hostVars

\* Supervisors run: launches and drains are bounded by timeouts.
HostFairSpec == HostSpec /\ \A p \in Plugins : WF_hostVars(Supervisor(p))

-----------------------------------------------------------------------------
(* Properties *)

Holders(p, pcs) == {c \in Calls : call[c].plugin = p /\ call[c].pc \in pcs}

\* The semaphores count exactly the calls that hold a slot, whatever path a call
\* takes (shed at either cap, drained, killed), so none is ever leaked (acquire,
\* dispatch).
SlotsExact == /\ \A p \in Plugins : sem[p] = Cardinality(Holders(p, {"global", "run"}))
              /\ global = Cardinality({c \in Calls : call[c].pc = "run"})

\* Only the supervisor's current instance is published, and it is not one the host
\* has killed, through crashes, reloads and drains (becomeReady, swapTo, afterCrash,
\* teardown).  The one exception is a stop that serve takes for a crash: afterCrash
\* kills the live instance just before it withdraws it.
ClientLive ==
    \A p \in Plugins : mg[p].st = "ready" =>
        /\ mg[p].cur = actor[p].conn /\ mg[p].cur # 0
        /\ procs[mg[p].cur].st = "killed" => Stopped /\ actor[p].pc = "reap"

\* Revert before death: a provider in a registry belongs to a plugin that is
\* serving or being restarted, or is just being reverted, never to one that is
\* quarantined, stopping or whose supervisor is gone (revert, teardown,
\* backoffOrQuarantine).
ProviderServed ==
    \A p \in provider : /\ mg[p].st \notin {"discovered", "failed", "draining", "stopped"}
                        /\ mg[p].registered \/ actor[p].pc = "deregister"
                        /\ actor[p].pc \notin {"none", "done"}

\* The processes the supervisor of p answers for.
Held(p) == {actor[p].conn, actor[p].other}

\* A child that nobody answers for, neither a supervisor nor a pidfile that the
\* next boot reads, belongs to a host that was killed either during the child's
\* handshake, before it had a pidfile, or while a reload was replacing it, when
\* the pidfile already named the successor; or a sweep found it and left it alone
\* (realLaunch, writePidfile, sweepOrphans).
NothingLeaks ==
    \A k \in Procs : procs[k].st = "running" =>
        \/ k \in Held(procs[k].plugin) \cup {pidfile[procs[k].plugin]}
        \/ /\ procs[k].boot < boots \/ host = "down"
           /\ \/ ~procs[k].rec
              \/ procs[k].left
              \/ \E j \in Procs : /\ j > k /\ procs[j].rec
                                  /\ procs[j].plugin = procs[k].plugin
                                  /\ procs[j].boot = procs[k].boot

\* A stop is carried out: every supervisor ends, also one that is launching,
\* backing off, draining or parked in quarantine (Stop, run).
StopCompletes ==
    \A p \in Plugins :
        (host = "stopping" /\ actor[p].pc # "none") ~> (host = "down" \/ actor[p].pc = "done")

\* serve takes exited for "the process died on its own - a crash", and afterCrash
\* for "process already gone" (supervisor.go).  The code does not keep this: a stop
\* cancels the watcher too, and a supervisor that was busy registering or draining
\* when it came may see either first.
CrashedIsGone ==
    \A p \in Plugins : actor[p].pc = "reap" => procs[actor[p].conn].st # "killed"
=============================================================================
