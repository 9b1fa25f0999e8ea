---------------------------- MODULE FanOutProofs ----------------------------
(***************************************************************************)
(* The goroutines beside the requests, for any number of plugins, calls,     *)
(* processes, boots, connections, keys, frames, publishers and subscribers:  *)
(* the plugin host's slots, clients, providers and children; the order and   *)
(* completeness of what the hub's clients get, and its admission slots; the  *)
(* bus's account of every event.                                             *)
(***************************************************************************)
EXTENDS EventBus, ScoreboardHub, PluginHost, FiniteSetTheorems, SequenceTheorems, TLAPS

-----------------------------------------------------------------------------
(* The plugin host: its inductive invariant *)

\* With no plugin at all an idle call names none.
PluginNames == Plugins \cup {Idle.plugin}

ActorRec == [pc : PCs, conn : Procs \cup {0}, other : Procs \cup {0}, attempts : Nat,
             next : Nexts]
ProcRec == [plugin : PluginNames, st : {"unused", "running", "exited", "killed"},
            good : BOOLEAN, boot : Nat, rec : BOOLEAN, left : BOOLEAN]
CallRec == [pc : {"idle", "sem", "global", "run"}, plugin : PluginNames, conn : Procs \cup {0}]

HostTyped == /\ host \in {"down", "up", "stopping"} /\ boots \in Nat
             /\ mg \in [Plugins -> Managed]
             /\ actor \in [Plugins -> ActorRec]
             /\ procs \in [Procs -> ProcRec]
             /\ pidfile \in [Plugins -> Procs \cup {0}]
             /\ provider \subseteq Plugins

\* Where a supervisor is, or goes on once its provider has left the registry.
Place(a) == IF a.pc = "deregister" THEN a.next ELSE a.pc

\* Which states of the state table a supervisor can be in, by where it is.
StatesAt(pc) ==
    CASE pc = "none" -> {"discovered", "failed"}
      [] pc = "launch" -> {"discovered", "restarting", "failed"}
      [] pc \in {"launching", "verify", "publish", "launchfailed"} -> {"launching"}
      [] pc \in {"register", "serve", "reload", "swap", "reap", "teardown"} -> {"ready"}
      [] pc = "crashed" -> {"unhealthy"}
      [] pc = "quarantine" -> {"launching", "unhealthy"}
      [] pc = "backoff" -> {"restarting"}
      [] pc = "parked" -> {"failed"}
      [] pc = "drain" -> {"draining"}
      [] pc = "done" -> {"stopped", "launching", "restarting", "failed"}

Serving == {"register", "serve", "reload", "swap", "reap", "teardown"}

\* Where no provider is marked registered any more, or none yet.
Reverted == {"none", "deregister", "quarantine", "parked", "teardown", "drain", "done"}

\* Where a supervisor has an instance of its own, and where it has none.
WithInstance == Serving \cup {"verify", "publish", "drain"}
Without == {"none", "launch", "crashed", "launchfailed", "backoff", "quarantine", "parked"}

Used(k) == procs[k].st # "unused"
Alive(k) == procs[k].st \in {"running", "exited"}

\* An earlier host's child that a sweep left alone.
LeftAlone(k) == procs[k].left /\ procs[k].boot < boots

\* A later instance of the same plugin and the same host has taken the pidfile.
Succeeded(k) == \E j \in Procs : /\ j > k /\ procs[j].rec
                                 /\ procs[j].plugin = procs[k].plugin
                                 /\ procs[j].boot = procs[k].boot

\* State, client and provider agree with where the supervisor is.
StateKept(p) ==
    /\ mg[p].st \in StatesAt(Place(actor[p]))
    /\ (p \in provider) <=> mg[p].registered \/ actor[p].pc = "deregister"
    /\ mg[p].registered => /\ actor[p].pc \notin Reverted
                           /\ actor[p].pc = "launch" => mg[p].st = "restarting"
    /\ actor[p].pc = "deregister" => /\ actor[p].next \in {"quarantine", "teardown", "done"}
                                      /\ mg[p].st \notin {"failed", "stopped"}
    /\ Place(actor[p]) \in Serving => mg[p].cur = actor[p].conn
    /\ host = "down" => actor[p].pc = "none"

\* The supervisor's instances: which it has, and that they are its own.
InstancesKept(p) ==
    /\ Place(actor[p]) \in WithInstance =>
          /\ actor[p].conn # 0
          /\ Alive(actor[p].conn) \/ (actor[p].pc = "reap" /\ Stopped)
    /\ actor[p].pc = "reap" => procs[actor[p].conn].st # "running"
    /\ Place(actor[p]) \in Without => actor[p].conn = 0
    /\ actor[p].pc \notin {"reload", "swap"} => actor[p].other = 0
    /\ actor[p].pc = "reload" /\ actor[p].other # 0 => actor[p].conn < actor[p].other
    /\ actor[p].pc = "swap" => actor[p].other \notin {0, actor[p].conn}
    /\ \A k \in Held(p) \ {0} : Used(k) /\ procs[k].plugin = p /\ procs[k].boot = boots

\* The pidfile names the instance to reclaim, or that one's successor does; or it
\* is one that a sweep could not act on.
PidfileKept(p) ==
    /\ pidfile[p] # 0 => /\ Used(pidfile[p]) /\ procs[pidfile[p]].plugin = p
                         /\ host # "down" /\ procs[pidfile[p]].st = "running"
                              => pidfile[p] \in Held(p) \/ LeftAlone(pidfile[p])
    /\ \A k \in Held(p) \ {0} :
          procs[k].st = "running" /\ procs[k].rec /\ k # pidfile[p] => Succeeded(k)

\* Launch numbers are given out in order, and a child knows the host it is of.
LaunchOrder == \A k \in Procs : /\ Used(k) => /\ procs[k].boot <= boots /\ procs[k].plugin \in Plugins
                                              /\ \A j \in Procs : j < k => Used(j)
                                /\ procs[k].rec => Used(k)

PluginInv(p) == StateKept(p) /\ InstancesKept(p) /\ PidfileKept(p)

HostInv == /\ HostTyped /\ LaunchOrder /\ NothingLeaks
           /\ \A p \in Plugins : PluginInv(p)

-----------------------------------------------------------------------------
(* The plugin host: facts about the state table *)

\* The transitions the supervisor asks for.
LEMMA Transitions ==
  /\ to("discovered", "launching") = "launching" /\ to("restarting", "launching") = "launching"
  /\ to("failed", "launching") = "launching" /\ to("discovered", "failed") = "failed"
  /\ to("launching", "ready") = "ready" /\ to("launching", "restarting") = "restarting"
  /\ to("launching", "failed") = "failed" /\ to("ready", "unhealthy") = "unhealthy"
  /\ to("unhealthy", "restarting") = "restarting" /\ to("restarting", "failed") = "failed"
  /\ to("ready", "draining") = "draining" /\ to("draining", "stopped") = "stopped"
  BY DEF to, legalTransitions

\* The table of states by place.
LEMMA Places ==
  /\ StatesAt("none") = {"discovered", "failed"}
  /\ StatesAt("launch") = {"discovered", "restarting", "failed"}
  /\ StatesAt("launching") = {"launching"} /\ StatesAt("verify") = {"launching"}
  /\ StatesAt("publish") = {"launching"} /\ StatesAt("launchfailed") = {"launching"}
  /\ StatesAt("register") = {"ready"} /\ StatesAt("serve") = {"ready"}
  /\ StatesAt("reload") = {"ready"} /\ StatesAt("swap") = {"ready"}
  /\ StatesAt("reap") = {"ready"} /\ StatesAt("teardown") = {"ready"}
  /\ StatesAt("quarantine") = {"launching", "unhealthy"}
  /\ StatesAt("crashed") = {"unhealthy"} /\ StatesAt("backoff") = {"restarting"}
  /\ StatesAt("parked") = {"failed"} /\ StatesAt("drain") = {"draining"}
  /\ StatesAt("done") = {"stopped", "launching", "restarting", "failed"}
  BY DEF StatesAt

-----------------------------------------------------------------------------
(* The plugin host: what a supervisor's step leaves alone *)

\* The entries of the other plugins.
OthersKept(p) ==
    /\ host' = host /\ boots' = boots
    /\ \A q \in Plugins \ {p} : /\ mg'[q] = mg[q] /\ actor'[q] = actor[q]
                                /\ pidfile'[q] = pidfile[q]
                                /\ (q \in provider') <=> (q \in provider)

\* The children: what was launched stays so, with its owner.
ChildrenKept(p) ==
    \A k \in Procs : Used(k) =>
        /\ procs'[k].plugin = procs[k].plugin /\ procs'[k].boot = procs[k].boot
        /\ procs'[k].st # "unused"
        /\ procs[k].rec => procs'[k].rec
        /\ procs[k].left => procs'[k].left
        /\ procs[k].plugin # p => procs'[k] = procs[k]

\* No process is started.
NoneStarted == \A k \in Procs : ~Used(k) => procs'[k] = procs[k]

\* A process of p that still runs is held or recorded, or was neither before, or
\* a sweep left it alone.
NoneDropped(p) ==
    \A k \in Procs : procs'[k].st = "running" /\ procs'[k].plugin = p =>
        \/ k \in Held(p)' \cup {pidfile'[p]}
        \/ /\ procs[k].st = "running" /\ procs'[k].rec = procs[k].rec
           /\ k \notin Held(p) \cup {pidfile[p]}
        \/ Used(k) /\ LeftAlone(k)

\* Whatever p's supervisor does, the other plugins keep their invariant.
LEMMA ElsewhereKept ==
  ASSUME HostInv, NEW p \in Plugins, OthersKept(p), ChildrenKept(p), NEW q \in Plugins, q # p
  PROVE  PluginInv(q)'
  <1>0. HostTyped /\ StateKept(q) /\ InstancesKept(q) /\ PidfileKept(q)
    BY DEF HostInv, PluginInv
  <1>1. /\ mg'[q] = mg[q] /\ actor'[q] = actor[q] /\ pidfile'[q] = pidfile[q]
        /\ (q \in provider') <=> (q \in provider)
        /\ host' = host /\ boots' = boots
    BY DEF OthersKept
  <1>2. StateKept(q)'
    BY <1>0, <1>1 DEF StateKept, Place
  <1>3. Held(q)' = Held(q) /\ Held(q) \ {0} \subseteq Procs
    BY <1>0, <1>1 DEF Held, HostTyped, ActorRec
  <1>4. \A k \in Held(q) \ {0} : Used(k) /\ procs[k].plugin = q /\ procs'[k] = procs[k]
    BY <1>0, <1>3 DEF InstancesKept, ChildrenKept
  <1>5. InstancesKept(q)'
    <2>1. Place(actor[q]) \in WithInstance => actor[q].conn \in Held(q) \ {0}
      BY <1>0 DEF InstancesKept, Held
    <2>2. Place(actor[q])' = Place(actor[q]) /\ Stopped' = Stopped
      BY <1>1 DEF Place, Stopped
    <2>3. actor[q].pc = "reap" => actor[q].conn \in Held(q) \ {0}
      BY <2>1 DEF Place, WithInstance, Serving
    <2> QED BY <1>0, <1>1, <1>3, <1>4, <2>1, <2>2, <2>3 DEF InstancesKept, Used, Alive
  <1>6. ASSUME NEW k \in Held(q) \ {0}, Succeeded(k) PROVE Succeeded(k)'
    <2>1. PICK j \in Procs : /\ j > k /\ procs[j].rec
                             /\ procs[j].plugin = procs[k].plugin
                             /\ procs[j].boot = procs[k].boot
      BY <1>6 DEF Succeeded
    <2>2. procs[j].plugin # p
      BY <1>4, <2>1
    <2>3. procs'[j].rec /\ procs'[j].plugin = procs[j].plugin /\ procs'[j].boot = procs[j].boot
      <3>1. CASE Used(j)
        BY <2>1, <3>1 DEF ChildrenKept
      <3> QED BY <2>1, <3>1 DEF HostInv, LaunchOrder
    <2> QED BY <1>3, <1>4, <2>1, <2>3 DEF Succeeded
  <1>7. PidfileKept(q)'
    <2>1. pidfile[q] # 0 => procs'[pidfile[q]] = procs[pidfile[q]]
      BY <1>0 DEF PidfileKept, ChildrenKept, HostTyped
    <2> QED BY <1>0, <1>1, <1>3, <1>4, <1>6, <2>1 DEF PidfileKept, Used, LeftAlone
  <1> QED BY <1>2, <1>5, <1>7 DEF PluginInv

\* A later instance stays one.
LEMMA SucceededKept ==
  ASSUME HostInv, NEW p \in Plugins, ChildrenKept(p), NEW k \in Procs, Used(k), Succeeded(k)
  PROVE  Succeeded(k)'
  <1>1. PICK j \in Procs : /\ j > k /\ procs[j].rec
                           /\ procs[j].plugin = procs[k].plugin
                           /\ procs[j].boot = procs[k].boot
    BY DEF Succeeded
  <1>2. Used(j)
    BY <1>1 DEF HostInv, LaunchOrder
  <1> QED BY <1>1, <1>2 DEF ChildrenKept, Succeeded

\* A process nobody answers for was one before, or the step would drop it.
LEMMA LeaksKept ==
  ASSUME HostInv, NEW p \in Plugins, OthersKept(p), ChildrenKept(p), NoneDropped(p),
         \A k \in Procs : ~Used(k) /\ Used(k)' => procs'[k].plugin = p
  PROVE  NothingLeaks'
  <1> SUFFICES ASSUME NEW k \in Procs, procs'[k].st = "running",
                      (k \notin Held(procs[k].plugin) \cup {pidfile[procs[k].plugin]})'
               PROVE  /\ procs'[k].boot < boots' \/ host' = "down"
                      /\ ~procs'[k].rec \/ procs'[k].left \/ Succeeded(k)'
    BY DEF NothingLeaks, Succeeded
  <1>0. CASE Used(k) /\ LeftAlone(k)
    BY <1>0 DEF LeftAlone, ChildrenKept, OthersKept
  <1>1. CASE procs'[k].plugin = p /\ ~(Used(k) /\ LeftAlone(k))
    <2>1. /\ procs[k].st = "running" /\ procs'[k].rec = procs[k].rec
          /\ k \notin Held(p) \cup {pidfile[p]}
      BY <1>1 DEF NoneDropped
    <2>2. /\ Used(k) /\ procs[k].plugin = p /\ procs'[k].boot = procs[k].boot
          /\ procs[k].left => procs'[k].left
      BY <1>1, <2>1 DEF Used, ChildrenKept
    <2>3. /\ procs[k].boot < boots \/ host = "down"
          /\ ~procs[k].rec \/ procs[k].left \/ Succeeded(k)
      BY <2>1, <2>2 DEF HostInv, NothingLeaks, Succeeded
    <2> QED BY <2>1, <2>2, <2>3, SucceededKept DEF OthersKept
  <1>2. CASE procs'[k].plugin # p
    <2>1. Used(k)
      BY <1>2 DEF Used
    <2>2. procs[k].plugin # p /\ procs'[k] = procs[k]
      BY <1>2, <2>1 DEF ChildrenKept
    <2>3. procs[k].plugin \in Plugins
      BY <2>1 DEF HostInv, LaunchOrder
    <2>4. k \notin Held(procs[k].plugin) \cup {pidfile[procs[k].plugin]}
      BY <2>2, <2>3 DEF OthersKept, Held
    <2>5. /\ procs[k].boot < boots \/ host = "down"
          /\ ~procs[k].rec \/ procs[k].left \/ Succeeded(k)
      BY <2>2, <2>4 DEF HostInv, NothingLeaks, Succeeded
    <2> QED BY <2>1, <2>2, <2>5, SucceededKept DEF OthersKept
  <1> QED BY <1>0, <1>1, <1>2

\* A supervisor's step, put together from its parts ...
LEMMA StepKeeps ==
  ASSUME HostInv, NEW p \in Plugins, OthersKept(p), ChildrenKept(p), NoneDropped(p),
         \A k \in Procs : ~Used(k) /\ Used(k)' => procs'[k].plugin = p,
         HostTyped', LaunchOrder', PluginInv(p)'
  PROVE  HostInv'
  BY ElsewhereKept, LeaksKept DEF HostInv

\* ... when it starts no process.
LEMMA QuietStepKeeps ==
  ASSUME HostInv, NEW p \in Plugins, OthersKept(p), ChildrenKept(p), NoneDropped(p),
         NoneStarted, HostTyped', PluginInv(p)'
  PROVE  HostInv'
  <1>1. \A k \in Procs : (Used(k)' <=> Used(k))
    BY DEF ChildrenKept, NoneStarted, Used
  <1>2. LaunchOrder'
    <2> SUFFICES ASSUME NEW k \in Procs
                 PROVE  /\ Used(k)' => /\ procs'[k].boot <= boots' /\ procs'[k].plugin \in Plugins
                                       /\ \A j \in Procs : j < k => Used(j)'
                        /\ procs'[k].rec => Used(k)'
      BY DEF LaunchOrder
    <2>1. CASE Used(k)
      BY <1>1, <2>1 DEF ChildrenKept, OthersKept, HostInv, LaunchOrder
    <2>2. CASE ~Used(k)
      BY <1>1, <2>2 DEF NoneStarted, HostInv, LaunchOrder
    <2> QED BY <2>1, <2>2
  <1> QED BY <1>1, <1>2, StepKeeps

\* No process changes.
LEMMA SameProcs ==
  ASSUME NEW p \in Plugins, procs' = procs
  PROVE  ChildrenKept(p) /\ NoneStarted
  BY DEF ChildrenKept, NoneStarted, Used

\* A step that writes one plugin's entry, supervisor, pidfile and provider.
EntryStep(p, m, a) ==
    /\ host' = host /\ boots' = boots
    /\ m \in Managed /\ mg' = [mg EXCEPT ![p] = m]
    /\ a \in ActorRec /\ actor' = [actor EXCEPT ![p] = a]
    /\ provider' \subseteq Plugins
    /\ \A q \in Plugins \ {p} : q \in provider' <=> q \in provider

\* What such a step gives.
LEMMA EntryStepFrame ==
  ASSUME HostInv, NEW p \in Plugins, NEW m, NEW a, EntryStep(p, m, a),
         NEW f \in Procs \cup {0}, pidfile' = [pidfile EXCEPT ![p] = f],
         procs' \in [Procs -> ProcRec]
  PROVE  /\ mg'[p] = m /\ actor'[p] = a /\ pidfile'[p] = f
         /\ OthersKept(p) /\ HostTyped'
  BY DEF HostInv, HostTyped, EntryStep, OthersKept

\* A supervisor that starts, ends and releases no process.
LEMMA EntryStepKeeps ==
  ASSUME HostInv, NEW p \in Plugins, NEW m, NEW a, EntryStep(p, m, a),
         procs' = procs, pidfile' = pidfile, host # "down",
         m.st \in StatesAt(Place(a)),
         (p \in provider') <=> m.registered \/ a.pc = "deregister",
         m.registered => /\ a.pc \notin Reverted
                         /\ a.pc = "launch" => m.st = "restarting",
         a.pc = "deregister" => /\ a.next \in {"quarantine", "teardown", "done"}
                                /\ m.st \notin {"failed", "stopped"},
         Place(a) \in Serving => m.cur = a.conn,
         a.conn = actor[p].conn, a.other = actor[p].other,
         Place(a) \in WithInstance => Place(actor[p]) \in WithInstance,
         Place(a) \in Without => Place(actor[p]) \in Without,
         actor[p].pc \notin {"reload", "swap", "reap"}, a.pc \notin {"reload", "swap", "reap"}
  PROVE  HostInv'
  <1>0. /\ pidfile[p] \in Procs \cup {0} /\ procs' \in [Procs -> ProcRec]
        /\ pidfile' = [pidfile EXCEPT ![p] = pidfile[p]]
    BY DEF HostInv, HostTyped
  <1>1. /\ mg'[p] = m /\ actor'[p] = a /\ pidfile'[p] = pidfile[p]
        /\ OthersKept(p) /\ HostTyped'
    BY <1>0, EntryStepFrame
  <1>2. Held(p)' = Held(p) /\ Held(p) \ {0} \subseteq Procs
    BY <1>1 DEF Held, HostInv, HostTyped, ActorRec
  <1>3. NoneDropped(p)
    BY <1>2 DEF NoneDropped
  <1>4. StateKept(p)'
    BY <1>1 DEF StateKept, EntryStep, Place
  <1>5. InstancesKept(p)'
    <2>1. Place(actor[p])' = Place(a)
      BY <1>1 DEF Place
    <2> QED BY <1>1, <1>2, <2>1 DEF HostInv, PluginInv, InstancesKept, Used, Alive, OthersKept
  <1>6. PidfileKept(p)'
    BY <1>1, <1>2 DEF HostInv, PluginInv, PidfileKept, Used, Succeeded, LeftAlone, OthersKept
  <1> QED BY <1>1, <1>3, <1>4, <1>5, <1>6, SameProcs, QuietStepKeeps DEF PluginInv

\* becomeReady.
LEMMA BecomeReadyKeeps ==
  ASSUME HostInv, NEW p \in Plugins, BecomeReady(p) PROVE HostInv'
  <1> DEFINE m == [mg[p] EXCEPT !.st = "ready", !.cur = actor[p].conn]
             a == [actor[p] EXCEPT !.pc = "register"]
  <1>0. HostTyped /\ StateKept(p) /\ actor[p].pc = "publish" /\ host # "down"
    BY DEF HostInv, PluginInv, BecomeReady, At
  <1>1. mg[p] \in Managed /\ actor[p] \in ActorRec /\ mg[p].st = "launching"
    BY <1>0, Places DEF HostTyped, StateKept, Place
  <1>2. EntryStep(p, m, a)
    <2>1. m \in Managed /\ a \in ActorRec
      BY <1>1 DEF Managed, ActorRec, PCs, States
    <2>2. mg' = [mg EXCEPT ![p] = m]
      BY <1>0, <1>1, Transitions DEF BecomeReady, HostTyped, Managed
    <2>3. actor' = [actor EXCEPT ![p] = a]
      BY <1>0, <1>1 DEF BecomeReady, Step, HostTyped
    <2> QED BY <1>0, <2>1, <2>2, <2>3 DEF EntryStep, BecomeReady, CallsUnchanged, HostTyped
  <1>3. /\ a.pc = "register" /\ a.conn = actor[p].conn /\ a.other = actor[p].other
        /\ m.st = "ready" /\ m.cur = a.conn /\ m.registered = mg[p].registered
        /\ m.st \in StatesAt(Place(a)) /\ Place(a) = "register" /\ Place(actor[p]) = "publish"
    BY <1>0, <1>1, Places DEF ActorRec, Managed, Place
  <1> HIDE DEF m, a
  <1> QED BY <1>0, <1>2, <1>3, EntryStepKeeps
          DEF BecomeReady, StateKept, WithInstance, Without, Serving, Reverted

\* registerReady.
LEMMA RegisterReadyKeeps ==
  ASSUME HostInv, NEW p \in Plugins, NEW answered, RegisterReady(p, answered) PROVE HostInv'
  <1> DEFINE ok == mg[p].registered \/ (Registers(p) /\ (Types[p] = "auth" => answered))
             m == [mg[p] EXCEPT !.registered = ok]
             a == [actor[p] EXCEPT !.pc = "serve"]
  <1>0. HostTyped /\ StateKept(p) /\ actor[p].pc = "register" /\ host # "down"
    BY DEF HostInv, PluginInv, RegisterReady, At
  <1>1. /\ mg[p] \in Managed /\ actor[p] \in ActorRec
        /\ mg[p].st = "ready" /\ mg[p].cur = actor[p].conn
    BY <1>0, Places DEF HostTyped, StateKept, Serving, Place
  <1>2. /\ mg' = [mg EXCEPT ![p] = m] /\ actor' = [actor EXCEPT ![p] = a]
        /\ provider' = IF ok THEN provider \cup {p} ELSE provider
        /\ host' = host /\ boots' = boots /\ procs' = procs /\ pidfile' = pidfile
    BY <1>0 DEF RegisterReady, HostTyped, Step, CallsUnchanged
  <1>3. ok \in BOOLEAN
    BY DEF Registers
  <1> HIDE DEF ok
  <1>4. m \in Managed /\ a \in ActorRec
    BY <1>1, <1>3 DEF Managed, ActorRec, PCs
  <1>5. /\ a.pc = "serve" /\ a.conn = actor[p].conn /\ a.other = actor[p].other
        /\ m.st = "ready" /\ m.cur = a.conn /\ m.registered = ok
        /\ m.st \in StatesAt(Place(a)) /\ Place(a) = "serve" /\ Place(actor[p]) = "register"
    BY <1>0, <1>1, Places DEF ActorRec, Managed, Place
  <1> HIDE DEF m, a
  <1>6. EntryStep(p, m, a)
    BY <1>0, <1>2, <1>4 DEF EntryStep, HostTyped
  <1>7. (p \in provider') <=> m.registered
    <2>1. mg[p].registered => ok
      BY DEF ok
    <2> QED BY <1>0, <1>2, <1>3, <1>5, <2>1 DEF StateKept
  <1> QED BY <1>0, <1>2, <1>5, <1>6, <1>7, EntryStepKeeps
          DEF WithInstance, Without, Serving, Reverted

\* What revert makes of the entry and of the supervisor's record a0.
Unmarked(p) == [mg[p] EXCEPT !.registered = FALSE]
Reverting(p, a0, then) == IF mg[p].registered THEN [a0 EXCEPT !.pc = "deregister", !.next = then]
                          ELSE [a0 EXCEPT !.pc = then]

\* The supervisor goes on to then, by way of the registry if it has a provider.
LEMMA RevertKeeps ==
  ASSUME HostInv, NEW p \in Plugins, NEW a0 \in ActorRec, actor[p].pc # "deregister",
         NEW then \in {"quarantine", "teardown", "done"}, Revert(p, a0, then),
         host' = host, boots' = boots, provider' = provider
  PROVE  LET m == Unmarked(p)
             a == Reverting(p, a0, then)
         IN /\ EntryStep(p, m, a) /\ (p \in provider' <=> a.pc = "deregister")
            /\ a.conn = a0.conn /\ a.other = a0.other /\ Place(a) = then
            /\ a.pc \in {then, "deregister"} /\ (a.pc = "deregister" => a.next = then)
            /\ m.st = mg[p].st /\ m.cur = mg[p].cur /\ m.registered = FALSE
            /\ a.pc = "deregister" => m.st \notin {"failed", "stopped"}
  <1> DEFINE m == Unmarked(p)
             a == Reverting(p, a0, then)
  <1>0. HostTyped /\ StateKept(p) /\ mg[p] \in Managed
    BY DEF HostInv, PluginInv, HostTyped
  <1>1. m \in Managed /\ m.st = mg[p].st /\ m.cur = mg[p].cur /\ m.registered = FALSE
    BY <1>0 DEF Managed, Unmarked
  <1>2. /\ a \in ActorRec /\ a.conn = a0.conn /\ a.other = a0.other /\ Place(a) = then
        /\ a.pc \in {then, "deregister"} /\ (a.pc = "deregister" => a.next = then)
        /\ a.pc = "deregister" <=> mg[p].registered
    <2>1. CASE mg[p].registered
      BY <2>1 DEF Reverting, ActorRec, PCs, Nexts, Place
    <2>2. CASE ~mg[p].registered
      BY <2>2 DEF Reverting, ActorRec, PCs, Nexts, Place
    <2> QED BY <2>1, <2>2
  <1>3. mg' = [mg EXCEPT ![p] = m] /\ actor' = [actor EXCEPT ![p] = a]
    BY <1>0 DEF Revert, Unmarked, Reverting, HostTyped
  <1>4. (p \in provider') <=> a.pc = "deregister"
    BY <1>0, <1>2 DEF StateKept
  <1>5. a.pc = "deregister" => m.st \notin {"failed", "stopped"}
    <2>1. actor[p].pc \in PCs
      BY <1>0 DEF HostTyped, ActorRec
    <2> QED BY <1>0, <1>1, <1>2, <2>1, Places DEF StateKept, Reverted, PCs, Place
  <1> QED BY <1>0, <1>1, <1>2, <1>3, <1>4, <1>5 DEF EntryStep, HostTyped

\* The supervisor leaves a place, its provider reverted, with the instance it had.
LEMMA LeavesKeeps ==
  ASSUME HostInv, NEW p \in Plugins, NEW a0 \in ActorRec,
         NEW then \in {"quarantine", "teardown", "done"}, Revert(p, a0, then),
         host' = host, boots' = boots, provider' = provider, host # "down",
         procs' = procs, pidfile' = pidfile,
         actor[p].pc \notin {"reload", "swap", "reap", "deregister"},
         then = "quarantine" => actor[p].pc \in Without,
         then = "teardown" => actor[p].pc \in WithInstance /\ mg[p].cur = actor[p].conn,
         mg[p].st \in StatesAt(then), a0.conn = actor[p].conn, a0.other = actor[p].other
  PROVE  HostInv'
  <1> DEFINE m == Unmarked(p)
             a == Reverting(p, a0, then)
  <1>1. /\ EntryStep(p, m, a) /\ (p \in provider' <=> a.pc = "deregister")
        /\ a.conn = a0.conn /\ a.other = a0.other /\ Place(a) = then
        /\ a.pc \in {then, "deregister"} /\ (a.pc = "deregister" => a.next = then)
        /\ m.st = mg[p].st /\ m.cur = mg[p].cur /\ m.registered = FALSE
        /\ a.pc = "deregister" => m.st \notin {"failed", "stopped"}
    <2>1. actor[p].pc # "deregister"
      OBVIOUS
    <2> QED BY <2>1, RevertKeeps
  <1>2. Place(actor[p]) = actor[p].pc
    BY DEF Place
  <1> HIDE DEF m, a
  <1> QED BY <1>1, <1>2, EntryStepKeeps DEF Without, WithInstance, Serving

\* parkUntilReload and the cancelled wait, when the host stops.
LEMMA ReturnsKeeps ==
  ASSUME HostInv, NEW p \in Plugins, actor[p].pc \in {"backoff", "parked"}, host # "down",
         ActorReturns(p), UNCHANGED <<procs, pidfile, provider>>, CallsUnchanged
  PROVE  HostInv'
  <1>1. HostTyped /\ actor[p] \in ActorRec /\ mg[p].st \in StatesAt("done")
    BY Places DEF HostInv, PluginInv, StateKept, HostTyped, Place
  <1> QED BY <1>1, LeavesKeeps DEF ActorReturns, CallsUnchanged

\* ParkedStop.
LEMMA ParkedStopKeeps ==
  ASSUME HostInv, NEW p \in Plugins, ParkedStop(p) PROVE HostInv'
  BY ReturnsKeeps DEF ParkedStop, At

\* BackoffEnds: the next launch, or the cancelled wait.
LEMMA BackoffEndsKeeps ==
  ASSUME HostInv, NEW p \in Plugins, BackoffEnds(p) PROVE HostInv'
  <1>1. CASE Step(p, "launch") /\ UNCHANGED mg
    <2> DEFINE a == [actor[p] EXCEPT !.pc = "launch"]
    <2>0. HostTyped /\ StateKept(p) /\ actor[p].pc = "backoff" /\ host # "down"
      BY DEF HostInv, PluginInv, BackoffEnds, At
    <2>1. mg[p] \in Managed /\ actor[p] \in ActorRec /\ mg[p].st = "restarting"
      BY <2>0, Places DEF HostTyped, StateKept, Place
    <2>2. /\ a \in ActorRec /\ a.pc = "launch" /\ a.conn = actor[p].conn /\ a.other = actor[p].other
          /\ mg[p].st \in StatesAt(Place(a)) /\ Place(a) = "launch" /\ Place(actor[p]) = "backoff"
      BY <2>0, <2>1, Places DEF ActorRec, PCs, Place
    <2>3. EntryStep(p, mg[p], a) /\ provider' = provider
      BY <1>1, <2>0, <2>1, <2>2 DEF EntryStep, BackoffEnds, CallsUnchanged, HostTyped, Step
    <2> HIDE DEF a
    <2> QED BY <1>1, <2>0, <2>1, <2>2, <2>3, EntryStepKeeps
            DEF WithInstance, Without, Serving, StateKept, BackoffEnds, Reverted
  <1>2. CASE Stopped /\ ActorReturns(p)
    BY <1>2, ReturnsKeeps DEF BackoffEnds, At
  <1> QED BY <1>1, <1>2 DEF BackoffEnds

\* ParkedReload.
LEMMA ParkedReloadKeeps ==
  ASSUME HostInv, NEW p \in Plugins, ParkedReload(p) PROVE HostInv'
  <1> DEFINE a == [actor[p] EXCEPT !.pc = "launch", !.attempts = 0]
  <1>0. HostTyped /\ StateKept(p) /\ actor[p].pc = "parked" /\ host # "down"
    BY DEF HostInv, PluginInv, ParkedReload, At
  <1>1. mg[p] \in Managed /\ actor[p] \in ActorRec /\ mg[p].st = "failed"
    BY <1>0, Places DEF HostTyped, StateKept, Place
  <1>2. /\ a \in ActorRec /\ a.pc = "launch" /\ a.conn = actor[p].conn /\ a.other = actor[p].other
        /\ mg[p].st \in StatesAt(Place(a)) /\ Place(a) = "launch" /\ Place(actor[p]) = "parked"
    BY <1>0, <1>1, Places DEF ActorRec, PCs, Place
  <1>3. EntryStep(p, mg[p], a)
    BY <1>0, <1>1, <1>2 DEF EntryStep, ParkedReload, CallsUnchanged, HostTyped
  <1> HIDE DEF a
  <1> QED BY <1>0, <1>1, <1>2, <1>3, EntryStepKeeps
          DEF WithInstance, Without, Serving, StateKept, ParkedReload, Reverted

\* ServeStop: the provider is to go.
LEMMA ServeStopKeeps ==
  ASSUME HostInv, NEW p \in Plugins, ServeStop(p) PROVE HostInv'
  <1>0. HostTyped /\ StateKept(p) /\ actor[p].pc = "serve" /\ host # "down"
    BY DEF HostInv, PluginInv, ServeStop, At
  <1>1. /\ actor[p] \in ActorRec /\ mg[p].st \in StatesAt("teardown")
        /\ mg[p].cur = actor[p].conn
    BY <1>0, Places DEF HostTyped, StateKept, Place, Serving
  <1> QED BY <1>0, <1>1, LeavesKeeps DEF ServeStop, CallsUnchanged, WithInstance, Serving

\* Deregister: the provider has left, the supervisor goes on.
LEMMA DeregisterKeeps ==
  ASSUME HostInv, NEW p \in Plugins, Deregister(p) PROVE HostInv'
  <1> DEFINE a == [actor[p] EXCEPT !.pc = actor[p].next, !.next = "none"]
  <1>0. HostTyped /\ StateKept(p) /\ actor[p].pc = "deregister" /\ host # "down"
    BY DEF HostInv, PluginInv, Deregister, At
  <1>1. /\ mg[p] \in Managed /\ actor[p] \in ActorRec /\ ~mg[p].registered
        /\ actor[p].next \in {"quarantine", "teardown", "done"}
        /\ mg[p].st \in StatesAt(actor[p].next)
        /\ actor[p].next \in Serving => mg[p].cur = actor[p].conn
    BY <1>0 DEF HostTyped, StateKept, Place, Reverted
  <1>2. /\ a \in ActorRec /\ a.pc = actor[p].next /\ a.conn = actor[p].conn
        /\ a.other = actor[p].other /\ Place(a) = actor[p].next
        /\ Place(actor[p]) = actor[p].next
    BY <1>0, <1>1 DEF ActorRec, PCs, Nexts, Place
  <1>3. /\ mg' = [mg EXCEPT ![p] = mg[p]] /\ actor' = [actor EXCEPT ![p] = a]
        /\ provider' = provider \ {p}
    BY <1>0 DEF Deregister, HostTyped
  <1> HIDE DEF a
  <1>4. EntryStep(p, mg[p], a)
    BY <1>0, <1>1, <1>2, <1>3 DEF EntryStep, Deregister, CallsUnchanged, HostTyped
  <1> QED BY <1>0, <1>1, <1>2, <1>3, <1>4, EntryStepKeeps DEF Deregister

\* quarantine.
LEMMA QuarantineKeeps ==
  ASSUME HostInv, NEW p \in Plugins, Quarantine(p) PROVE HostInv'
  <1> DEFINE m == [mg[p] EXCEPT !.st = "failed", !.cur = 0]
             a == [actor[p] EXCEPT !.pc = "parked"]
  <1>0. HostTyped /\ StateKept(p) /\ actor[p].pc = "quarantine" /\ host # "down"
    BY DEF HostInv, PluginInv, Quarantine, At
  <1>1. /\ mg[p] \in Managed /\ actor[p] \in ActorRec /\ mg[p].st \in {"launching", "unhealthy"}
        /\ ~mg[p].registered /\ p \notin provider
    BY <1>0, Places DEF HostTyped, StateKept, Place, Reverted
  <1>2. /\ a \in ActorRec /\ a.pc = "parked" /\ a.conn = actor[p].conn /\ a.other = actor[p].other
        /\ Place(a) = "parked" /\ Place(actor[p]) = "quarantine"
    BY <1>0, <1>1 DEF ActorRec, PCs, Place
  <1>3. m \in Managed /\ m.st \in StatesAt(Place(a)) /\ ~m.registered
    BY <1>1, <1>2, Places DEF Managed, States
  <1>4. mg' = [mg EXCEPT ![p] = m]
    <2>1. to(IF mg[p].st = "unhealthy" THEN to(mg[p].st, "restarting") ELSE mg[p].st, "failed")
          = "failed"
      BY <1>1, Transitions
    <2> QED BY <1>0, <2>1 DEF Quarantine, HostTyped
  <1>5. actor' = [actor EXCEPT ![p] = a]
    BY <1>0 DEF Quarantine, Step, HostTyped
  <1> HIDE DEF m, a
  <1>6. EntryStep(p, m, a)
    BY <1>0, <1>2, <1>3, <1>4, <1>5 DEF EntryStep, Quarantine, CallsUnchanged, HostTyped
  <1> QED BY <1>0, <1>1, <1>2, <1>3, <1>6, EntryStepKeeps
          DEF Quarantine, WithInstance, Without, Serving

\* teardown: new calls are refused.
LEMMA DrainingKeeps ==
  ASSUME HostInv, NEW p \in Plugins, Draining(p) PROVE HostInv'
  <1> DEFINE m == [mg[p] EXCEPT !.st = "draining"]
             a == [actor[p] EXCEPT !.pc = "drain"]
  <1>0. HostTyped /\ StateKept(p) /\ actor[p].pc = "teardown" /\ host # "down"
    BY DEF HostInv, PluginInv, Draining, At
  <1>1. /\ mg[p] \in Managed /\ actor[p] \in ActorRec /\ mg[p].st = "ready"
        /\ ~mg[p].registered /\ p \notin provider
    BY <1>0, Places DEF HostTyped, StateKept, Place, Reverted
  <1>2. /\ a \in ActorRec /\ a.pc = "drain" /\ a.conn = actor[p].conn /\ a.other = actor[p].other
        /\ Place(a) = "drain" /\ Place(actor[p]) = "teardown"
    BY <1>0, <1>1 DEF ActorRec, PCs, Place
  <1>3. m \in Managed /\ m.st \in StatesAt(Place(a)) /\ ~m.registered
    BY <1>1, <1>2, Places DEF Managed, States
  <1>4. mg' = [mg EXCEPT ![p] = m] /\ actor' = [actor EXCEPT ![p] = a]
    BY <1>0, <1>1, Transitions DEF Draining, Step, HostTyped
  <1> HIDE DEF m, a
  <1>5. EntryStep(p, m, a)
    BY <1>0, <1>2, <1>3, <1>4 DEF EntryStep, Draining, CallsUnchanged, HostTyped
  <1> QED BY <1>0, <1>1, <1>2, <1>3, <1>5, EntryStepKeeps
          DEF Draining, WithInstance, Without, Serving

\* backoffOrQuarantine.
LEMMA BackoffOrQuarantineKeeps ==
  ASSUME HostInv, NEW p \in Plugins, BackoffOrQuarantine(p) PROVE HostInv'
  <1>0. HostTyped /\ StateKept(p) /\ actor[p].pc \in {"crashed", "launchfailed"} /\ host # "down"
    BY DEF HostInv, PluginInv, BackoffOrQuarantine, At
  <1>1. /\ mg[p] \in Managed /\ actor[p] \in ActorRec /\ mg[p].st \in {"unhealthy", "launching"}
        /\ actor[p].attempts + 1 \in Nat
    BY <1>0, Places DEF HostTyped, StateKept, ActorRec, Place
  <1> DEFINE failed == [actor[p] EXCEPT !.attempts = @ + 1]
  <1>2. /\ failed \in ActorRec /\ failed.attempts = actor[p].attempts + 1
        /\ failed.conn = actor[p].conn /\ failed.other = actor[p].other
    BY <1>1 DEF ActorRec
  <1>3. CASE failed.attempts >= MaxAttempts
    <2>1. Revert(p, failed, "quarantine")
      BY <1>3 DEF BackoffOrQuarantine
    <2>2. mg[p].st \in StatesAt("quarantine")
      BY <1>1, Places
    <2> HIDE DEF failed
    <2> QED BY <1>0, <1>2, <2>1, <2>2, LeavesKeeps
            DEF BackoffOrQuarantine, CallsUnchanged, Without
  <1>4. CASE ~(failed.attempts >= MaxAttempts)
    <2> DEFINE a == [failed EXCEPT !.pc = "backoff"]
               m == [mg[p] EXCEPT !.st = "restarting"]
    <2>1. /\ a \in ActorRec /\ a.pc = "backoff" /\ a.conn = actor[p].conn /\ a.other = actor[p].other
          /\ Place(a) = "backoff" /\ Place(actor[p]) \in Without
      BY <1>0, <1>1, <1>2 DEF ActorRec, PCs, Place, Without
    <2>2. /\ m \in Managed /\ m.st = "restarting" /\ m.registered = mg[p].registered
          /\ m.st \in StatesAt(Place(a))
      BY <1>1, <2>1, Places DEF Managed, States
    <2>3. mg' = [mg EXCEPT ![p] = m]
      BY <1>0, <1>1, <1>4, Transitions DEF BackoffOrQuarantine, HostTyped
    <2>4. actor' = [actor EXCEPT ![p] = a] /\ provider' = provider
      BY <1>0, <1>4 DEF BackoffOrQuarantine, HostTyped
    <2> HIDE DEF a, m
    <2>5. EntryStep(p, m, a)
      BY <1>0, <2>1, <2>2, <2>3, <2>4 DEF EntryStep, BackoffOrQuarantine, CallsUnchanged, HostTyped
    <2> QED BY <1>0, <2>1, <2>2, <2>4, <2>5, EntryStepKeeps
            DEF WithInstance, Without, Serving, StateKept, BackoffOrQuarantine, Reverted
  <1> QED BY <1>3, <1>4

-----------------------------------------------------------------------------
(* The plugin host: steps that end or release an instance *)

\* Processes of p may be killed, no other one changes.
ProcsEnd(p) ==
    /\ procs' \in [Procs -> ProcRec]
    /\ \A j \in Procs : \/ procs'[j] = procs[j]
                        \/ /\ j \in Held(p) /\ procs[j].st = "running"
                           /\ procs'[j] = [procs[j] EXCEPT !.st = "killed"]

\* Killing an instance of p's is such a change, and it runs no more.
LEMMA KilledEnds ==
  ASSUME HostInv, NEW p \in Plugins, NEW k \in Held(p) \ {0}, procs' = Killed(procs, k)
  PROVE  ProcsEnd(p) /\ procs'[k].st # "running"
         /\ \A j \in Procs : j # k => procs'[j] = procs[j]
  <1>1. k \in Procs /\ procs \in [Procs -> ProcRec]
    BY DEF HostInv, HostTyped, ActorRec, Held
  <1>2. CASE procs[k].st = "running"
    <2>1. procs' = [procs EXCEPT ![k] = [procs[k] EXCEPT !.st = "killed"]]
      BY <1>1, <1>2 DEF Killed
    <2>2. [procs[k] EXCEPT !.st = "killed"] \in ProcRec
          /\ [procs[k] EXCEPT !.st = "killed"].st = "killed"
      BY <1>1 DEF ProcRec
    <2> QED BY <1>1, <1>2, <2>1, <2>2 DEF ProcsEnd
  <1>3. CASE procs[k].st # "running"
    <2>1. procs' = procs
      BY <1>1, <1>3 DEF Killed, ProcRec
    <2> QED BY <1>1, <1>3, <2>1 DEF ProcsEnd
  <1> QED BY <1>2, <1>3

\* A supervisor that lets go only of instances that do not run.
LEMMA ReleaseKeeps ==
  ASSUME HostInv, NEW p \in Plugins, NEW m, NEW a, EntryStep(p, m, a), host # "down",
         ProcsEnd(p), NEW f \in {pidfile[p], 0}, pidfile' = [pidfile EXCEPT ![p] = f],
         f = pidfile[p] \/ a.conn = 0,
         m.st \in StatesAt(Place(a)),
         (p \in provider') <=> m.registered \/ a.pc = "deregister",
         m.registered => a.pc \notin Reverted \cup {"launch"},
         a.pc = "deregister" => /\ a.next \in {"quarantine", "teardown", "done"}
                                /\ m.st \notin {"failed", "stopped"},
         Place(a) \in Serving => m.cur = a.conn,
         a.conn \in Held(p) \cup {0}, a.other = 0, a.pc \notin {"reload", "swap"},
         \A k \in Held(p) \ {0} : procs'[k].st = "running" => k = a.conn,
         Place(a) \in WithInstance =>
            /\ a.conn # 0
            /\ procs'[a.conn].st \in {"running", "exited"} \/ (a.pc = "reap" /\ Stopped),
         a.pc = "reap" => procs'[a.conn].st # "running",
         Place(a) \in Without => a.conn = 0
  PROVE  HostInv'
  <1>0. HostTyped /\ InstancesKept(p) /\ PidfileKept(p)
    BY DEF HostInv, PluginInv
  <1>1. /\ mg'[p] = m /\ actor'[p] = a /\ pidfile'[p] = f
        /\ OthersKept(p) /\ HostTyped'
    <2>1. f \in Procs \cup {0} /\ procs' \in [Procs -> ProcRec]
      BY <1>0 DEF HostTyped, ProcsEnd
    <2> QED BY <2>1, EntryStepFrame
  <1>2. Held(p)' = {a.conn, 0} /\ Held(p) \ {0} \subseteq Procs /\ Held(p)' \ {0} \subseteq Held(p)
    BY <1>0, <1>1 DEF Held, HostTyped, ActorRec
  <1>3. \A j \in Procs : /\ procs'[j].plugin = procs[j].plugin /\ procs'[j].boot = procs[j].boot
                         /\ procs'[j].rec = procs[j].rec /\ procs'[j].left = procs[j].left
                         /\ procs'[j].st # procs[j].st => /\ j \in Held(p)
                                                          /\ procs[j].st = "running"
                                                          /\ procs'[j].st = "killed"
    BY <1>0 DEF ProcsEnd, HostTyped, ProcRec
  <1>4. ChildrenKept(p)
    <2> SUFFICES ASSUME NEW k \in Procs, Used(k), procs[k].plugin # p
                 PROVE  procs'[k] = procs[k]
      BY <1>3 DEF ChildrenKept, Used
    <2>1. k # 0
      BY DEF Procs
    <2> QED BY <1>0, <2>1 DEF ProcsEnd, InstancesKept
  <1>5. NoneStarted
    BY DEF NoneStarted, ProcsEnd, Used
  <1>6. NoneDropped(p)
    <2> SUFFICES ASSUME NEW k \in Procs, procs'[k].st = "running", procs'[k].plugin = p,
                        k \notin Held(p)' \cup {pidfile'[p]}, ~(Used(k) /\ LeftAlone(k))
                 PROVE  /\ procs[k].st = "running" /\ procs'[k].rec = procs[k].rec
                        /\ k \notin Held(p) \cup {pidfile[p]}
      BY DEF NoneDropped
    <2>1. k # 0 /\ procs[k].st = "running"
      BY <1>3 DEF Procs
    <2>2. k \notin Held(p)
      BY <1>2, <2>1
    <2>3. k # pidfile[p]
      BY <1>0, <2>1, <2>2 DEF PidfileKept, Used
    <2> QED BY <1>3, <2>1, <2>2, <2>3
  <1>7. StateKept(p)'
    BY <1>1 DEF StateKept, EntryStep, Place
  <1>8. InstancesKept(p)'
    <2>1. \A k \in (Held(p) \ {0})' : Used(k)' /\ procs'[k].plugin = p /\ procs'[k].boot = boots'
      BY <1>0, <1>1, <1>2, <1>3 DEF InstancesKept, Used, OthersKept
    <2>2. Place(actor[p])' = Place(a) /\ Stopped' = Stopped
      BY <1>1 DEF Place, Stopped, OthersKept
    <2> QED BY <1>1, <2>1, <2>2 DEF InstancesKept, Alive
  <1>9. PidfileKept(p)'
    <2>1. f # 0 => f \in Procs
      BY <1>0 DEF HostTyped
    <2>2. f # 0 => Used(f)' /\ procs'[f].plugin = p
      BY <1>0, <1>3, <2>1 DEF PidfileKept, Used
    <2>3. f # 0 /\ host' # "down" /\ procs'[f].st = "running" => f \in Held(p)' \/ LeftAlone(f)'
      BY <1>0, <1>1, <1>2, <1>3, <2>1 DEF PidfileKept, EntryStep, LeftAlone
    <2>4. ASSUME NEW k \in (Held(p) \ {0})', procs'[k].st = "running", procs'[k].rec, k # f
          PROVE  Succeeded(k)'
      <3>1. k \in Held(p) \ {0} /\ k \in Procs /\ f = pidfile[p] /\ Used(k)
        BY <1>0, <1>1, <1>2, <2>4 DEF InstancesKept
      <3>2. procs[k].st = "running" /\ procs[k].rec
        BY <1>3, <2>4, <3>1
      <3> QED BY <1>0, <1>4, <2>4, <3>1, <3>2, SucceededKept DEF PidfileKept
    <2> QED BY <1>1, <2>2, <2>3, <2>4 DEF PidfileKept
  <1> QED BY <1>1, <1>4, <1>5, <1>6, <1>7, <1>8, <1>9, QuietStepKeeps DEF PluginInv

\* The step left the processes alone, and the pidfile.
LEMMA NoProcEnds ==
  ASSUME HostInv, NEW p \in Plugins, procs' = procs
  PROVE  ProcsEnd(p)
  BY DEF HostInv, HostTyped, ProcsEnd

\* The pidfile is left alone.
LEMMA SamePidfile ==
  ASSUME HostInv, NEW p \in Plugins, pidfile' = pidfile
  PROVE  pidfile' = [pidfile EXCEPT ![p] = pidfile[p]]
  BY DEF HostInv, HostTyped

\* serve takes exited: the instance is killed, dead already or not.
LEMMA ServeCrashKeeps ==
  ASSUME HostInv, NEW p \in Plugins, ServeCrash(p) PROVE HostInv'
  <1> DEFINE a == [actor[p] EXCEPT !.pc = "reap"]
  <1>0. /\ HostTyped /\ StateKept(p) /\ InstancesKept(p) /\ actor[p].pc = "serve" /\ host # "down"
        /\ UNCHANGED <<host, boots, mg, pidfile, provider>>
        /\ procs' = Killed(procs, actor[p].conn)
    BY DEF HostInv, PluginInv, ServeCrash, At, CallsUnchanged
  <1>1. /\ mg[p] \in Managed /\ actor[p] \in ActorRec /\ mg[p].st = "ready"
        /\ mg[p].cur = actor[p].conn
        /\ actor[p].other = 0 /\ actor[p].conn # 0 /\ actor[p].conn \in Held(p)
    BY <1>0, Places DEF HostTyped, StateKept, InstancesKept, WithInstance, Serving, Held, Place
  <1>2. /\ a \in ActorRec /\ a.pc = "reap" /\ a.conn = actor[p].conn /\ a.other = 0
        /\ Place(a) = "reap"
    BY <1>1 DEF ActorRec, PCs, Place
  <1>3. mg[p].st \in StatesAt(Place(a)) /\ ((p \in provider') <=> mg[p].registered)
    BY <1>0, <1>1, <1>2, Places DEF StateKept
  <1>4. actor' = [actor EXCEPT ![p] = a]
    BY <1>0 DEF ServeCrash, Step, HostTyped
  <1> HIDE DEF a
  <1>5. EntryStep(p, mg[p], a)
    BY <1>0, <1>1, <1>2, <1>4 DEF EntryStep, HostTyped
  <1>6. /\ ProcsEnd(p) /\ procs'[a.conn].st # "running"
        /\ \A k \in Held(p) \ {0} : procs'[k].st = "running" => k = a.conn
    BY <1>0, <1>1, <1>2, KilledEnds DEF Held
  <1>7. procs'[a.conn].st = "exited" \/ Stopped
    <2>1. CASE procs[actor[p].conn].st = "exited"
      <3>1. actor[p].conn \in Procs
        BY <1>1 DEF ActorRec
      <3>2. procs' = procs
        BY <1>0, <2>1, <3>1 DEF Killed, HostTyped, ProcRec
      <3> QED BY <1>2, <2>1, <3>2
    <2> QED BY <2>1 DEF ServeCrash
  <1> QED BY <1>0, <1>1, <1>2, <1>3, <1>5, <1>6, <1>7, SamePidfile, ReleaseKeeps
          DEF WithInstance, Without, Serving, Reverted

\* afterCrash goes on: the client is withdrawn.
LEMMA MarkUnhealthyKeeps ==
  ASSUME HostInv, NEW p \in Plugins, NEW stable \in BOOLEAN, MarkUnhealthy(p, stable)
  PROVE  HostInv'
  <1> DEFINE m == [mg[p] EXCEPT !.st = "unhealthy", !.cur = 0]
             a == [actor[p] EXCEPT !.pc = "crashed", !.conn = 0, !.attempts = IF stable THEN 0 ELSE @]
  <1>0. HostTyped /\ StateKept(p) /\ InstancesKept(p) /\ actor[p].pc = "reap" /\ host # "down"
    BY DEF HostInv, PluginInv, MarkUnhealthy, At
  <1>1. /\ mg[p] \in Managed /\ actor[p] \in ActorRec /\ mg[p].st = "ready"
        /\ actor[p].other = 0
    BY <1>0, Places DEF HostTyped, StateKept, InstancesKept, Place
  <1>2. /\ a \in ActorRec /\ a.pc = "crashed" /\ a.conn = 0 /\ a.other = 0 /\ Place(a) = "crashed"
    BY <1>1 DEF ActorRec, PCs, Place
  <1>3. /\ m \in Managed /\ m.st = "unhealthy" /\ m.registered = mg[p].registered
        /\ m.st \in StatesAt(Place(a))
    BY <1>1, <1>2, Places DEF Managed, States
  <1>4. mg' = [mg EXCEPT ![p] = m]
    BY <1>0, <1>1, Transitions DEF MarkUnhealthy, HostTyped
  <1>5. actor' = [actor EXCEPT ![p] = a]
    BY <1>0 DEF MarkUnhealthy, HostTyped
  <1> HIDE DEF a, m
  <1>6. EntryStep(p, m, a)
    BY <1>0, <1>2, <1>3, <1>4, <1>5 DEF EntryStep, MarkUnhealthy, CallsUnchanged, HostTyped
  <1>7. procs' = procs /\ pidfile' = pidfile /\ provider' = provider
    BY DEF MarkUnhealthy
  <1>8. \A k \in Held(p) \ {0} : procs'[k].st # "running"
    BY <1>0, <1>1, <1>7 DEF Held, InstancesKept
  <1>9. (p \in provider') <=> m.registered
    BY <1>0, <1>3, <1>7 DEF StateKept
  <1> QED BY <1>0, <1>2, <1>3, <1>6, <1>7, <1>8, <1>9, NoProcEnds, SamePidfile, ReleaseKeeps
          DEF WithInstance, Serving, Reverted

\* The launch failed.
LEMMA LaunchFailsKeeps ==
  ASSUME HostInv, NEW p \in Plugins, LaunchFails(p) PROVE HostInv'
  <1>0. /\ HostTyped /\ StateKept(p) /\ InstancesKept(p) /\ actor[p].pc = "launching"
        /\ host # "down" /\ UNCHANGED <<host, boots, pidfile, provider>>
    BY DEF HostInv, PluginInv, LaunchFails, At, CallsUnchanged
  <1>1. /\ mg[p] \in Managed /\ actor[p] \in ActorRec /\ mg[p].st = "launching"
        /\ actor[p].other = 0
    BY <1>0, Places DEF HostTyped, StateKept, InstancesKept, Place
  <1>2. ProcsEnd(p) /\ \A k \in Held(p) \ {0} : procs'[k].st # "running"
    <2>1. CASE actor[p].conn = 0
      BY <1>1, <2>1, NoProcEnds DEF LaunchFails, Held
    <2>2. CASE actor[p].conn # 0
      BY <1>1, <2>2, KilledEnds DEF LaunchFails, Held
    <2> QED BY <2>1, <2>2
  <1>3. CASE Stopped
    <2> DEFINE m == Unmarked(p)
               a == Reverting(p, actor[p], "done")
    <2>1. Revert(p, actor[p], "done") /\ actor[p].pc # "deregister"
      BY <1>0, <1>3 DEF LaunchFails, ActorReturns
    <2>2. /\ EntryStep(p, m, a) /\ (p \in provider' <=> a.pc = "deregister")
          /\ a.conn = actor[p].conn /\ a.other = actor[p].other /\ Place(a) = "done"
          /\ a.pc \in {"done", "deregister"} /\ (a.pc = "deregister" => a.next = "done")
          /\ m.st = mg[p].st /\ m.registered = FALSE
      BY <1>0, <1>1, <2>1, RevertKeeps
    <2> HIDE DEF m, a
    <2>3. m.st \in StatesAt(Place(a)) /\ a.conn \in Held(p)
      BY <1>1, <2>2, Places DEF Held
    <2> QED BY <1>0, <1>1, <1>2, <2>2, <2>3, SamePidfile, ReleaseKeeps
            DEF WithInstance, Without, Serving
  <1>4. CASE ~Stopped
    <2> DEFINE a == [actor[p] EXCEPT !.pc = "launchfailed", !.conn = 0]
    <2>1. /\ a \in ActorRec /\ a.pc = "launchfailed" /\ a.conn = 0 /\ a.other = 0
          /\ Place(a) = "launchfailed"
      BY <1>1 DEF ActorRec, PCs, Place
    <2>2. actor' = [actor EXCEPT ![p] = a] /\ mg' = mg /\ provider' = provider
      BY <1>0, <1>4 DEF LaunchFails, HostTyped
    <2> HIDE DEF a
    <2>3. EntryStep(p, mg[p], a)
      BY <1>0, <1>1, <2>1, <2>2 DEF EntryStep, HostTyped
    <2>4. mg[p].st \in StatesAt(Place(a)) /\ (p \in provider' <=> mg[p].registered)
      BY <1>0, <1>1, <2>1, <2>2, Places DEF StateKept
    <2> QED BY <1>0, <1>2, <2>1, <2>3, <2>4, SamePidfile, ReleaseKeeps
            DEF WithInstance, Without, Serving, Reverted
  <1> QED BY <1>3, <1>4

\* verifyIdentity.
LEMMA VerifyKeeps ==
  ASSUME HostInv, NEW p \in Plugins, Verify(p) PROVE HostInv'
  <1>0. /\ HostTyped /\ StateKept(p) /\ InstancesKept(p) /\ actor[p].pc = "verify"
        /\ host # "down" /\ UNCHANGED <<host, boots, pidfile, provider>>
    BY DEF HostInv, PluginInv, Verify, At, CallsUnchanged
  <1>1. /\ mg[p] \in Managed /\ actor[p] \in ActorRec /\ mg[p].st = "launching"
        /\ actor[p].other = 0 /\ actor[p].conn # 0 /\ actor[p].conn \in Held(p)
        /\ Place(actor[p]) = "verify"
    BY <1>0, Places DEF HostTyped, StateKept, InstancesKept, WithInstance, Held, Place
  <1>2. CASE procs[actor[p].conn].good /\ procs[actor[p].conn].st = "running"
    <2> DEFINE a == [actor[p] EXCEPT !.pc = "publish"]
    <2>1. /\ a \in ActorRec /\ a.pc = "publish" /\ a.conn = actor[p].conn /\ a.other = actor[p].other
          /\ Place(a) = "publish"
      BY <1>1 DEF ActorRec, PCs, Place
    <2>2. /\ actor' = [actor EXCEPT ![p] = a] /\ mg' = mg /\ provider' = provider
          /\ procs' = procs
      BY <1>0, <1>2 DEF Verify, Step, HostTyped
    <2> HIDE DEF a
    <2>3. EntryStep(p, mg[p], a)
      BY <1>0, <1>1, <2>1, <2>2 DEF EntryStep, HostTyped
    <2>4. mg[p].st \in StatesAt(Place(a)) /\ (p \in provider' <=> mg[p].registered)
      BY <1>0, <1>1, <2>1, <2>2, Places DEF StateKept
    <2> QED BY <1>0, <1>1, <2>1, <2>2, <2>3, <2>4, EntryStepKeeps
            DEF WithInstance, Without, Serving, Reverted
  <1>3. CASE ~(procs[actor[p].conn].good /\ procs[actor[p].conn].st = "running")
    <2> DEFINE a0 == [actor[p] EXCEPT !.conn = 0]
               m == Unmarked(p)
               a == Reverting(p, a0, "quarantine")
    <2>1. a0 \in ActorRec /\ a0.conn = 0 /\ a0.other = 0
      BY <1>1 DEF ActorRec
    <2>2. Revert(p, a0, "quarantine") /\ procs' = Killed(procs, actor[p].conn)
      BY <1>3 DEF Verify
    <2> HIDE DEF a0
    <2>3. /\ EntryStep(p, m, a) /\ (p \in provider' <=> a.pc = "deregister")
          /\ a.conn = 0 /\ a.other = 0 /\ Place(a) = "quarantine"
          /\ a.pc \in {"quarantine", "deregister"} /\ (a.pc = "deregister" => a.next = "quarantine")
          /\ m.st = mg[p].st /\ m.registered = FALSE
      BY <1>0, <2>1, <2>2, RevertKeeps
    <2> HIDE DEF m, a
    <2>4. m.st \in StatesAt(Place(a))
      BY <1>1, <2>3, Places
    <2>5. ProcsEnd(p) /\ \A k \in Held(p) \ {0} : procs'[k].st # "running"
      BY <1>1, <2>2, KilledEnds DEF Held
    <2> QED BY <1>0, <1>1, <2>3, <2>4, <2>5, SamePidfile, ReleaseKeeps
            DEF WithInstance, Without, Serving
  <1> QED BY <1>2, <1>3

\* Teardown: drained, killed, its pidfile removed.
LEMMA TeardownKeeps ==
  ASSUME HostInv, NEW p \in Plugins, Teardown(p) PROVE HostInv'
  <1> DEFINE m == [mg[p] EXCEPT !.st = "stopped", !.cur = 0]
             a == [actor[p] EXCEPT !.pc = "done", !.conn = 0]
  <1>0. /\ HostTyped /\ StateKept(p) /\ InstancesKept(p) /\ actor[p].pc = "drain"
        /\ host # "down" /\ host' = host /\ boots' = boots
        /\ pidfile' = [pidfile EXCEPT ![p] = 0] /\ provider' = provider
        /\ procs' = Killed(procs, actor[p].conn)
    BY DEF HostInv, PluginInv, Teardown, At, CallsUnchanged
  <1>1. /\ mg[p] \in Managed /\ actor[p] \in ActorRec /\ mg[p].st = "draining"
        /\ actor[p].other = 0 /\ actor[p].conn # 0 /\ actor[p].conn \in Held(p)
    BY <1>0, Places DEF HostTyped, StateKept, InstancesKept, WithInstance, Held, Place
  <1>2. a \in ActorRec /\ a.pc = "done" /\ a.conn = 0 /\ a.other = 0 /\ Place(a) = "done"
    BY <1>1 DEF ActorRec, PCs, Place
  <1>3. /\ m \in Managed /\ m.st = "stopped" /\ m.registered = mg[p].registered
        /\ m.st \in StatesAt(Place(a))
    BY <1>1, <1>2, Places DEF Managed, States
  <1>4. mg' = [mg EXCEPT ![p] = m]
    BY <1>0, <1>1, Transitions DEF Teardown, HostTyped
  <1>5. actor' = [actor EXCEPT ![p] = a]
    BY <1>0 DEF Teardown, HostTyped
  <1> HIDE DEF a, m
  <1>6. EntryStep(p, m, a)
    BY <1>0, <1>2, <1>3, <1>4, <1>5 DEF EntryStep, HostTyped
  <1>7. ProcsEnd(p) /\ \A k \in Held(p) \ {0} : procs'[k].st # "running"
    BY <1>0, <1>1, KilledEnds DEF Held
  <1>8. ~m.registered /\ ((p \in provider') <=> m.registered)
    BY <1>0, <1>3 DEF StateKept, Reverted
  <1> QED BY <1>0, <1>2, <1>3, <1>6, <1>7, <1>8, ReleaseKeeps
          DEF WithInstance, Serving, Without

\* SwapKill: the replaced instance is drained and killed.
LEMMA SwapKillKeeps ==
  ASSUME HostInv, NEW p \in Plugins, SwapKill(p) PROVE HostInv'
  <1> DEFINE a == [actor[p] EXCEPT !.pc = "serve", !.other = 0]
  <1>0. /\ HostTyped /\ StateKept(p) /\ InstancesKept(p) /\ actor[p].pc = "swap"
        /\ host # "down" /\ host' = host /\ boots' = boots
        /\ pidfile' = pidfile /\ provider' = provider /\ mg' = mg
        /\ procs' = Killed(procs, actor[p].other)
    BY DEF HostInv, PluginInv, SwapKill, At, CallsUnchanged
  <1>1. /\ mg[p] \in Managed /\ actor[p] \in ActorRec /\ mg[p].st = "ready"
        /\ mg[p].cur = actor[p].conn
        /\ actor[p].other \notin {0, actor[p].conn} /\ actor[p].other \in Held(p)
        /\ actor[p].conn # 0 /\ actor[p].conn \in Held(p) /\ actor[p].conn \in Procs
        /\ Alive(actor[p].conn)
    BY <1>0, Places DEF HostTyped, StateKept, InstancesKept, WithInstance, Serving, Held, ActorRec, Place
  <1>2. /\ a \in ActorRec /\ a.pc = "serve" /\ a.conn = actor[p].conn /\ a.other = 0
        /\ Place(a) = "serve"
    BY <1>1 DEF ActorRec, PCs, Place
  <1>3. mg[p].st \in StatesAt(Place(a))
    BY <1>1, <1>2, Places
  <1>5. actor' = [actor EXCEPT ![p] = a]
    BY <1>0 DEF SwapKill, HostTyped
  <1> HIDE DEF a
  <1>6. EntryStep(p, mg[p], a)
    BY <1>0, <1>1, <1>2, <1>5 DEF EntryStep, HostTyped
  <1>7. ProcsEnd(p) /\ (\A k \in Held(p) \ {0} : procs'[k].st = "running" => k = a.conn)
        /\ procs'[a.conn].st \in {"running", "exited"}
    BY <1>0, <1>1, <1>2, KilledEnds DEF Held, Alive
  <1>8. (p \in provider') <=> mg[p].registered
    BY <1>0 DEF StateKept
  <1> QED BY <1>0, <1>1, <1>2, <1>3, <1>6, <1>7, <1>8, SamePidfile, ReleaseKeeps
          DEF WithInstance, Serving, Without, Reverted

\* A reload that meets the stop: the supervisor keeps its instance.
LEMMA TeardownBegins ==
  ASSUME HostInv, NEW p \in Plugins, actor[p].pc = "reload", host # "down",
         host' = host, boots' = boots, pidfile' = pidfile, provider' = provider,
         Revert(p, [actor[p] EXCEPT !.other = 0], "teardown"),
         ProcsEnd(p), \A k \in Held(p) \ {0} : procs'[k].st = "running" => k = actor[p].conn,
         procs'[actor[p].conn].st \in {"running", "exited"}
  PROVE  HostInv'
  <1> DEFINE a0 == [actor[p] EXCEPT !.other = 0]
             m == Unmarked(p)
             a == Reverting(p, a0, "teardown")
  <1>0. HostTyped /\ StateKept(p) /\ InstancesKept(p)
    BY DEF HostInv, PluginInv
  <1>1. /\ actor[p].conn # 0 /\ actor[p].conn \in Held(p) /\ actor[p] \in ActorRec
        /\ mg[p].st = "ready" /\ mg[p].cur = actor[p].conn
    BY <1>0, Places DEF HostTyped, StateKept, InstancesKept, WithInstance, Serving, Held, Place
  <1>2. a0 \in ActorRec /\ a0.conn = actor[p].conn /\ a0.other = 0 /\ actor[p].pc # "deregister"
    BY <1>1 DEF ActorRec
  <1>3. Revert(p, a0, "teardown")
    OBVIOUS
  <1> HIDE DEF a0
  <1>4. /\ EntryStep(p, m, a) /\ (p \in provider' <=> a.pc = "deregister")
        /\ a.conn = actor[p].conn /\ a.other = 0 /\ Place(a) = "teardown"
        /\ a.pc \in {"teardown", "deregister"} /\ (a.pc = "deregister" => a.next = "teardown")
        /\ m.st = mg[p].st /\ m.cur = mg[p].cur /\ m.registered = FALSE
    BY <1>2, <1>3, RevertKeeps
  <1> HIDE DEF m, a
  <1>5. m.st \in StatesAt(Place(a))
    BY <1>1, <1>4, Places
  <1> QED BY <1>1, <1>4, <1>5, SamePidfile, ReleaseKeeps DEF WithInstance, Serving, Without

\* ReloadFails: the old instance is retained, or torn down when the host stops.
LEMMA ReloadFailsKeeps ==
  ASSUME HostInv, NEW p \in Plugins, ReloadFails(p) PROVE HostInv'
  <1>0. /\ HostTyped /\ StateKept(p) /\ InstancesKept(p) /\ actor[p].pc = "reload"
        /\ host # "down" /\ UNCHANGED <<host, boots, pidfile, provider>>
    BY DEF HostInv, PluginInv, ReloadFails, At, CallsUnchanged
  <1>1. /\ mg[p] \in Managed /\ actor[p] \in ActorRec /\ mg[p].st = "ready"
        /\ mg[p].cur = actor[p].conn
        /\ actor[p].other # 0 => actor[p].other # actor[p].conn /\ actor[p].other \in Held(p)
        /\ actor[p].conn # 0 /\ actor[p].conn \in Held(p) /\ actor[p].conn \in Procs
        /\ Alive(actor[p].conn)
    <2>1. actor[p] \in ActorRec
      BY <1>0 DEF HostTyped
    <2>2. /\ actor[p].other # 0 => actor[p].conn < actor[p].other
          /\ actor[p].conn # 0 /\ Alive(actor[p].conn)
      BY <1>0 DEF InstancesKept, WithInstance, Serving, Place
    <2>3. actor[p].other # 0 => actor[p].other # actor[p].conn
      BY <2>1, <2>2, PluginBounds DEF ActorRec, Procs
    <2> QED BY <1>0, <2>1, <2>2, <2>3, Places DEF HostTyped, StateKept, Serving, Held, ActorRec, Place
  <1>2. /\ ProcsEnd(p)
        /\ \A k \in Held(p) \ {0} : procs'[k].st = "running" => k = actor[p].conn
        /\ procs'[actor[p].conn].st \in {"running", "exited"}
    <2>1. CASE actor[p].other = 0
      BY <1>1, <2>1, NoProcEnds DEF ReloadFails, Held, Alive
    <2>2. CASE actor[p].other # 0
      <3>1. actor[p].other \in Held(p) \ {0} /\ procs' = Killed(procs, actor[p].other)
        BY <1>1, <2>2 DEF ReloadFails
      <3> QED BY <1>1, <3>1, KilledEnds DEF Held, Alive
    <2> QED BY <2>1, <2>2
  <1>3. CASE Stopped
    <2>1. Revert(p, [actor[p] EXCEPT !.other = 0], "teardown")
      BY <1>3 DEF ReloadFails
    <2> QED BY <1>0, <1>2, <2>1, TeardownBegins
  <1>4. CASE ~Stopped
    <2> DEFINE a == [actor[p] EXCEPT !.pc = "serve", !.other = 0]
    <2>1. /\ a \in ActorRec /\ a.pc = "serve" /\ a.conn = actor[p].conn /\ a.other = 0
          /\ Place(a) = "serve"
      BY <1>1 DEF ActorRec, PCs, Place
    <2>2. actor' = [actor EXCEPT ![p] = a] /\ mg' = mg /\ provider' = provider
      BY <1>0, <1>4 DEF ReloadFails, HostTyped
    <2> HIDE DEF a
    <2>3. EntryStep(p, mg[p], a)
      BY <1>0, <1>1, <2>1, <2>2 DEF EntryStep, HostTyped
    <2>4. mg[p].st \in StatesAt(Place(a)) /\ (p \in provider' <=> mg[p].registered)
      BY <1>0, <1>1, <2>1, <2>2, Places DEF StateKept
    <2> QED BY <1>0, <1>1, <1>2, <2>1, <2>3, <2>4, SamePidfile, ReleaseKeeps
            DEF WithInstance, Serving, Without, Reverted
  <1> QED BY <1>3, <1>4

-----------------------------------------------------------------------------
(* The plugin host: steps that start or record an instance *)

\* A process is started for p: it is the newest of all.
LEMMA StartKeeps ==
  ASSUME HostInv, NEW p \in Plugins, NEW m, NEW a, EntryStep(p, m, a), host # "down",
         NEW k \in Procs, procs[k].st = "unused", \A j \in Procs : j < k => procs[j].st # "unused",
         NEW good \in BOOLEAN,
         procs' = [procs EXCEPT ![k] = [plugin |-> p, st |-> "running", good |-> good,
                                        boot |-> boots, rec |-> FALSE, left |-> FALSE]],
         pidfile' = pidfile,
         m.st \in StatesAt(a.pc), (p \in provider') <=> m.registered,
         a.pc \in Serving => m.cur = a.conn, Place(actor[p]) = actor[p].pc, actor[p].pc # "reap",
         \/ a.pc = "launching" /\ a.conn = k /\ a.other = 0 /\ Held(p) \subseteq {0}
         \/ /\ a.pc = "reload" /\ a.other = k /\ a.conn = actor[p].conn
            /\ actor[p].pc \in WithInstance /\ actor[p].other = 0
  PROVE  HostInv'
  <1> DEFINE new == [plugin |-> p, st |-> "running", good |-> good, boot |-> boots,
                     rec |-> FALSE, left |-> FALSE]
  <1>0. /\ HostTyped /\ InstancesKept(p) /\ PidfileKept(p) /\ LaunchOrder
        /\ pidfile' = [pidfile EXCEPT ![p] = pidfile[p]]
    BY SamePidfile DEF HostInv, PluginInv
  <1>1. /\ procs' \in [Procs -> ProcRec] /\ procs'[k] = new
        /\ \A j \in Procs : j # k => procs'[j] = procs[j]
    <2>1. new \in ProcRec
      BY <1>0 DEF ProcRec, PluginNames, HostTyped
    <2> HIDE DEF new
    <2> QED BY <1>0, <2>1 DEF HostTyped, new
  <1>2. /\ mg'[p] = m /\ actor'[p] = a /\ pidfile'[p] = pidfile[p]
        /\ OthersKept(p) /\ HostTyped'
    <2>1. pidfile[p] \in Procs \cup {0}
      BY <1>0 DEF HostTyped
    <2> QED BY <1>0, <1>1, <2>1, EntryStepFrame, ZenonT(60)
  <1>3. /\ Held(p)' = {a.conn, a.other} /\ Held(p) \ {0} \subseteq Procs
        /\ Held(p)' \ {0} = (Held(p) \ {0}) \cup {k} /\ 0 \notin Procs
    <2>1. 0 \notin Procs
      BY DEF Procs
    <2> QED BY <1>0, <1>2, <2>1 DEF Held, HostTyped, ActorRec
  <1>4. ChildrenKept(p) /\ \A j \in Procs : ~Used(j) /\ Used(j)' => procs'[j].plugin = p
    BY <1>1 DEF ChildrenKept, Used
  <1>5. NoneDropped(p)
    BY <1>1, <1>2, <1>3 DEF NoneDropped
  <1>6. LaunchOrder'
    <2> SUFFICES ASSUME NEW i \in Procs
                 PROVE  /\ Used(i)' => /\ procs'[i].boot <= boots' /\ procs'[i].plugin \in Plugins
                                       /\ \A j \in Procs : j < i => Used(j)'
                        /\ procs'[i].rec => Used(i)'
      BY DEF LaunchOrder
    <2>1. CASE i = k
      BY <1>0, <1>1, <2>1 DEF Used, HostTyped, EntryStep
    <2>2. CASE i # k
      BY <1>0, <1>1, <1>4, <2>2 DEF Used, LaunchOrder, ChildrenKept, EntryStep
    <2> QED BY <2>1, <2>2
  <1>7. StateKept(p)'
    BY <1>2 DEF StateKept, EntryStep, Place, Reverted
  <1>8. InstancesKept(p)'
    <2>1. \A h \in (Held(p) \ {0})' : Used(h)' /\ procs'[h].plugin = p /\ procs'[h].boot = boots'
      BY <1>0, <1>1, <1>2, <1>3 DEF InstancesKept, Used, EntryStep
    <2>2. CASE a.pc = "launching"
      BY <1>2, <2>1, <2>2 DEF InstancesKept, WithInstance, Without, Serving, Place
    <2>3. CASE a.pc = "reload"
      <3>1. /\ a.conn \in Procs /\ a.conn # 0 /\ Used(a.conn) /\ Alive(a.conn)
        BY <1>0, <1>3, <2>3 DEF InstancesKept, Held
      <3>2. a.conn # k /\ ~(k < a.conn)
        BY <1>0, <3>1 DEF LaunchOrder, Used
      <3>3. a.conn < k
        BY <3>1, <3>2, PluginBounds DEF Procs
      <3> QED BY <1>1, <1>2, <2>1, <2>3, <3>1, <3>2, <3>3
              DEF InstancesKept, WithInstance, Without, Serving, Alive, Place
    <2> QED BY <2>2, <2>3
  <1>9. PidfileKept(p)'
    <2>1. pidfile[p] # 0 => pidfile[p] \in Procs /\ procs'[pidfile[p]] = procs[pidfile[p]]
      BY <1>0, <1>1 DEF PidfileKept, Used, HostTyped
    <2>2. pidfile[p] # 0 => Used(pidfile[p])' /\ procs'[pidfile[p]].plugin = p
      BY <1>0, <2>1 DEF PidfileKept, Used
    <2>3. pidfile[p] # 0 /\ procs'[pidfile[p]].st = "running" =>
             pidfile[p] \in Held(p)' \/ (procs'[pidfile[p]].left /\ procs'[pidfile[p]].boot < boots')
      BY <1>0, <1>3, <2>1 DEF PidfileKept, LeftAlone, EntryStep
    <2>4. ASSUME NEW h \in (Held(p) \ {0})', procs'[h].st = "running", procs'[h].rec, h # pidfile[p]
          PROVE  Succeeded(h)'
      <3>1. h # k /\ h \in Held(p) \ {0} /\ h \in Procs /\ procs'[h] = procs[h] /\ Used(h)
        BY <1>1, <1>3, <2>4 DEF Used
      <3> QED BY <1>0, <1>4, <2>4, <3>1, SucceededKept DEF PidfileKept
    <2> QED BY <1>2, <2>2, <2>3, <2>4 DEF PidfileKept, LeftAlone
  <1> QED BY <1>2, <1>4, <1>5, <1>6, <1>7, <1>8, <1>9, StepKeeps DEF PluginInv

\* Launch.
LEMMA LaunchKeeps ==
  ASSUME HostInv, NEW p \in Plugins, NEW k \in Procs \cup {0}, NEW good \in BOOLEAN,
         Launch(p, k, good)
  PROVE  HostInv'
  <1> DEFINE m == [mg[p] EXCEPT !.st = "launching"]
             a == [actor[p] EXCEPT !.pc = "launching", !.conn = k]
  <1>0. /\ HostTyped /\ StateKept(p) /\ InstancesKept(p) /\ actor[p].pc = "launch"
        /\ host # "down" /\ host' = host /\ boots' = boots
        /\ pidfile' = pidfile /\ provider' = provider
    BY DEF HostInv, PluginInv, Launch, At, CallsUnchanged
  <1>1. /\ mg[p] \in Managed /\ actor[p] \in ActorRec
        /\ mg[p].st \in {"discovered", "restarting", "failed"}
        /\ actor[p].other = 0 /\ actor[p].conn = 0
    BY <1>0, Places DEF HostTyped, StateKept, InstancesKept, Without, Place
  <1>2. /\ a \in ActorRec /\ a.pc = "launching" /\ a.conn = k /\ a.other = 0
        /\ Place(a) = "launching" /\ Place(actor[p]) = "launch"
    BY <1>0, <1>1 DEF ActorRec, PCs, Place
  <1>3. /\ m \in Managed /\ m.st = "launching" /\ m.registered = mg[p].registered
        /\ m.st \in StatesAt(a.pc)
    BY <1>1, <1>2, Places DEF Managed, States
  <1>4. mg' = [mg EXCEPT ![p] = m]
    BY <1>0, <1>1, Transitions DEF Launch, HostTyped
  <1>5. actor' = [actor EXCEPT ![p] = a]
    BY <1>0 DEF Launch, HostTyped
  <1> HIDE DEF a, m
  <1>6. EntryStep(p, m, a)
    BY <1>0, <1>2, <1>3, <1>4, <1>5 DEF EntryStep, HostTyped
  <1>7. (p \in provider') <=> m.registered
    BY <1>0, <1>3 DEF StateKept
  <1>8. CASE k = 0
    <2>1. procs' = procs
      BY <1>8 DEF Launch, Spawn
    <2> QED BY <1>0, <1>1, <1>2, <1>3, <1>6, <1>7, <1>8, <2>1, EntryStepKeeps
            DEF Serving, Without, WithInstance, Reverted
  <1>9. CASE k # 0
    <2>1. /\ k \in Procs /\ procs[k].st = "unused" /\ \A j \in Procs : j < k => procs[j].st # "unused"
          /\ procs' = [procs EXCEPT ![k] = [plugin |-> p, st |-> "running", good |-> good,
                                            boot |-> boots, rec |-> FALSE, left |-> FALSE]]
      BY <1>9 DEF Launch, Spawn
    <2>2. Held(p) \subseteq {0}
      BY <1>1 DEF Held
    <2> QED BY <1>0, <1>2, <1>3, <1>6, <1>7, <2>1, <2>2, StartKeeps DEF Serving
  <1> QED BY <1>8, <1>9

\* Reload.
LEMMA ReloadKeeps ==
  ASSUME HostInv, NEW p \in Plugins, NEW k \in Procs \cup {0}, NEW good \in BOOLEAN,
         Reload(p, k, good)
  PROVE  HostInv'
  <1> DEFINE a == [actor[p] EXCEPT !.pc = "reload", !.other = k]
  <1>0. /\ HostTyped /\ StateKept(p) /\ InstancesKept(p) /\ actor[p].pc = "serve"
        /\ host # "down" /\ host' = host /\ boots' = boots
        /\ pidfile' = pidfile /\ provider' = provider /\ mg' = mg
    BY DEF HostInv, PluginInv, Reload, At, CallsUnchanged
  <1>1. /\ mg[p] \in Managed /\ actor[p] \in ActorRec
        /\ mg[p].st = "ready" /\ mg[p].cur = actor[p].conn
        /\ actor[p].other = 0 /\ actor[p].conn # 0 /\ Alive(actor[p].conn)
    BY <1>0, Places DEF HostTyped, StateKept, InstancesKept, WithInstance, Serving, Place
  <1>2. /\ a \in ActorRec /\ a.pc = "reload" /\ a.conn = actor[p].conn /\ a.other = k
        /\ Place(a) = "reload" /\ Place(actor[p]) = "serve"
    BY <1>0, <1>1 DEF ActorRec, PCs, Place
  <1>3. mg[p].st \in StatesAt(a.pc) /\ ((p \in provider') <=> mg[p].registered)
    BY <1>0, <1>1, <1>2, Places DEF StateKept
  <1>5. actor' = [actor EXCEPT ![p] = a]
    BY <1>0 DEF Reload, HostTyped
  <1> HIDE DEF a
  <1>6. EntryStep(p, mg[p], a)
    BY <1>0, <1>1, <1>2, <1>5 DEF EntryStep, HostTyped
  <1>8. CASE k = 0
    <2>1. procs' = procs
      BY <1>8 DEF Reload, Spawn
    <2>2. /\ actor'[p] = a /\ OthersKept(p) /\ HostTyped' /\ mg'[p] = mg[p] /\ pidfile'[p] = pidfile[p]
      <3>1. pidfile[p] \in Procs \cup {0} /\ procs' \in [Procs -> ProcRec]
        BY <1>0, <2>1 DEF HostTyped
      <3> QED BY <1>0, <1>6, <3>1, SamePidfile, EntryStepFrame
    <2>3. Held(p)' = Held(p) /\ Held(p) \ {0} \subseteq Procs
      BY <1>0, <1>1, <1>2, <1>8, <2>2 DEF Held, HostTyped, ActorRec
    <2>4. StateKept(p)'
      BY <1>0, <1>1, <1>2, <1>3, <2>2 DEF StateKept, Place, Reverted
    <2>5. InstancesKept(p)'
      BY <1>0, <1>1, <1>2, <1>8, <2>1, <2>2, <2>3
         DEF InstancesKept, WithInstance, Without, Serving, Alive, Used, Place
    <2>6. PidfileKept(p)'
      BY <1>0, <2>1, <2>2, <2>3 DEF HostInv, PluginInv, PidfileKept, Used, Succeeded, LeftAlone
    <2>7. NoneDropped(p)
      BY <1>0, <2>1, <2>3 DEF NoneDropped
    <2> QED BY <2>1, <2>2, <2>4, <2>5, <2>6, <2>7, SameProcs, QuietStepKeeps DEF PluginInv
  <1>9. CASE k # 0
    <2>1. /\ k \in Procs /\ procs[k].st = "unused" /\ \A j \in Procs : j < k => procs[j].st # "unused"
          /\ procs' = [procs EXCEPT ![k] = [plugin |-> p, st |-> "running", good |-> good,
                                            boot |-> boots, rec |-> FALSE, left |-> FALSE]]
      BY <1>9 DEF Reload, Spawn
    <2> QED BY <1>0, <1>1, <1>2, <1>3, <1>6, <2>1, StartKeeps DEF Serving, WithInstance
  <1> QED BY <1>8, <1>9

\* The handshake of k is done and the pidfile names it from now on.
LEMMA RecordKeeps ==
  ASSUME HostInv, NEW p \in Plugins, NEW m, NEW a, EntryStep(p, m, a), host # "down",
         NEW k \in Held(p) \ {0}, NEW st \in {"running", "killed"}, Recorded(p, k, st),
         m.st \in StatesAt(Place(a)),
         (p \in provider') <=> m.registered \/ a.pc = "deregister",
         m.registered => a.pc \notin Reverted \cup {"launch"},
         a.pc = "deregister" => /\ a.next \in {"quarantine", "teardown", "done"}
                                /\ m.st \notin {"failed", "stopped"},
         Place(a) \in Serving => m.cur = a.conn,
         a.conn \in Held(p), a.other \in Held(p) \cup {0},
         \A h \in Held(p) \ {0, k} : h < k /\ h \in {a.conn, a.other},
         st = "running" => k \in {a.conn, a.other},
         Place(a) \in WithInstance => a.conn # 0 /\ procs'[a.conn].st \in {"running", "exited"},
         Place(a) \notin Without, a.pc \notin {"reload", "reap"},
         a.pc # "swap" => a.other = 0,
         a.pc = "swap" => a.other \notin {0, a.conn}
  PROVE  HostInv'
  <1>0. /\ HostTyped /\ InstancesKept(p) /\ PidfileKept(p)
        /\ procs[k].st = "running" /\ pidfile' = [pidfile EXCEPT ![p] = k]
    BY DEF HostInv, PluginInv, Recorded
  <1>1. k \in Procs /\ Held(p) \ {0} \subseteq Procs /\ 0 \notin Procs
    <2>1. 0 \notin Procs
      BY DEF Procs
    <2> QED BY <1>0, <2>1 DEF HostTyped, ActorRec, Held
  <1>2. /\ procs' \in [Procs -> ProcRec] /\ procs'[k].st = st /\ procs'[k].rec
        /\ procs'[k].plugin = procs[k].plugin /\ procs'[k].boot = procs[k].boot
        /\ procs'[k].left = procs[k].left
        /\ \A j \in Procs : j # k => procs'[j] = procs[j]
    <2> DEFINE new == [procs[k] EXCEPT !.rec = TRUE, !.st = st]
    <2>1. /\ new \in ProcRec /\ new.st = st /\ new.rec
          /\ new.plugin = procs[k].plugin /\ new.boot = procs[k].boot /\ new.left = procs[k].left
      <3>1. procs[k] \in ProcRec
        BY <1>0, <1>1 DEF HostTyped
      <3> QED BY <3>1 DEF ProcRec
    <2>2. procs' = [procs EXCEPT ![k] = new]
      BY <1>0, <1>1 DEF Recorded, HostTyped
    <2> HIDE DEF new
    <2> QED BY <1>0, <1>1, <2>1, <2>2 DEF HostTyped
  <1>3. /\ mg'[p] = m /\ actor'[p] = a /\ pidfile'[p] = k
        /\ OthersKept(p) /\ HostTyped'
    <2>1. k \in Procs \cup {0}
      BY <1>1
    <2> QED BY <1>0, <1>2, <2>1, EntryStepFrame
  <1>4. /\ Held(p)' = {a.conn, a.other} /\ Held(p)' \ {0} \subseteq Held(p)
    BY <1>3 DEF Held
  <1>5. Used(k) /\ procs[k].plugin = p /\ procs[k].boot = boots
    BY <1>0 DEF InstancesKept
  <1>6. ChildrenKept(p) /\ NoneStarted
    BY <1>2, <1>5 DEF ChildrenKept, NoneStarted, Used
  <1>7. NoneDropped(p)
    <2> SUFFICES ASSUME NEW j \in Procs, procs'[j].st = "running", procs'[j].plugin = p,
                        j \notin Held(p)' \cup {pidfile'[p]}, ~(Used(j) /\ LeftAlone(j))
                 PROVE  /\ procs[j].st = "running" /\ procs'[j].rec = procs[j].rec
                        /\ j \notin Held(p) \cup {pidfile[p]}
      BY DEF NoneDropped
    <2>1. j # k /\ j # 0 /\ procs'[j] = procs[j]
      BY <1>1, <1>2, <1>3
    <2>2. j \notin Held(p)
      BY <1>4, <2>1
    <2>3. j # pidfile[p]
      BY <1>0, <2>1, <2>2 DEF PidfileKept, Used
    <2> QED BY <2>1, <2>2, <2>3
  <1>8. StateKept(p)'
    BY <1>3 DEF StateKept, EntryStep, Place
  <1>9. \A h \in (Held(p) \ {0})' : Used(h)' /\ procs'[h].plugin = p /\ procs'[h].boot = boots'
    BY <1>0, <1>1, <1>2, <1>4, <1>5 DEF InstancesKept, Used, EntryStep
  <1>10. InstancesKept(p)'
    <2>1. Place(actor[p])' = Place(a)
      BY <1>3 DEF Place
    <2> QED BY <1>3, <1>9, <2>1 DEF InstancesKept, Alive
  <1>11. PidfileKept(p)'
    <2>1. k # 0 /\ Used(k)' /\ procs'[k].plugin = p
      BY <1>1, <1>2, <1>5 DEF Used
    <2>2. procs'[k].st = "running" => k \in Held(p)'
      BY <1>2, <1>4
    <2>3. ASSUME NEW h \in (Held(p) \ {0})', h # k PROVE Succeeded(h)'
      <3>1. h < k
        BY <1>4, <2>3
      <3>2. k > h
        BY <1>1, <1>4, <2>3, <3>1, PluginBounds DEF Procs
      <3>3. procs'[h].plugin = p /\ procs'[h].boot = boots' /\ boots' = boots
        BY <1>9, <2>3 DEF EntryStep
      <3> QED BY <1>1, <1>2, <1>5, <3>2, <3>3 DEF Succeeded
    <2> QED BY <1>3, <2>1, <2>2, <2>3 DEF PidfileKept
  <1> QED BY <1>3, <1>6, <1>7, <1>8, <1>10, <1>11, QuietStepKeeps DEF PluginInv

\* LaunchSucceeds.
LEMMA LaunchSucceedsKeeps ==
  ASSUME HostInv, NEW p \in Plugins, LaunchSucceeds(p) PROVE HostInv'
  <1>0. /\ HostTyped /\ StateKept(p) /\ InstancesKept(p) /\ actor[p].pc = "launching"
        /\ host # "down" /\ UNCHANGED <<host, boots, provider>>
        /\ Recorded(p, actor[p].conn, IF Stopped THEN "killed" ELSE "running")
    BY DEF HostInv, PluginInv, LaunchSucceeds, At, CallsUnchanged
  <1>1. /\ mg[p] \in Managed /\ actor[p] \in ActorRec /\ mg[p].st = "launching"
        /\ actor[p].other = 0 /\ actor[p].conn \in Held(p) \ {0}
        /\ Held(p) \subseteq {0, actor[p].conn} /\ actor[p].conn \in Procs
    BY <1>0, Places DEF HostTyped, StateKept, InstancesKept, Held, Recorded, ActorRec, Place
  <1>2. CASE Stopped
    <2> DEFINE m == Unmarked(p)
               a == Reverting(p, actor[p], "done")
    <2>1. Revert(p, actor[p], "done") /\ actor[p].pc # "deregister"
      BY <1>0, <1>2 DEF LaunchSucceeds, ActorReturns
    <2>2. /\ EntryStep(p, m, a) /\ (p \in provider' <=> a.pc = "deregister")
          /\ a.conn = actor[p].conn /\ a.other = actor[p].other /\ Place(a) = "done"
          /\ a.pc \in {"done", "deregister"} /\ (a.pc = "deregister" => a.next = "done")
          /\ m.st = mg[p].st /\ m.registered = FALSE
      BY <1>0, <1>1, <2>1, RevertKeeps
    <2> HIDE DEF m, a
    <2>4. m.st \in StatesAt(Place(a))
      BY <1>1, <2>2, Places
    <2>5. Recorded(p, a.conn, "killed") /\ a.conn \in Held(p) \ {0}
      BY <1>0, <1>1, <1>2, <2>2
    <2> QED BY <1>0, <1>1, <2>2, <2>4, <2>5, RecordKeeps DEF WithInstance, Without, Serving
  <1>3. CASE ~Stopped
    <2> DEFINE a == [actor[p] EXCEPT !.pc = "verify"]
    <2>1. /\ a \in ActorRec /\ a.pc = "verify" /\ a.conn = actor[p].conn /\ a.other = 0
          /\ Place(a) = "verify"
      BY <1>1 DEF ActorRec, PCs, Place
    <2>2. actor' = [actor EXCEPT ![p] = a] /\ mg' = mg /\ provider' = provider
      BY <1>0, <1>3 DEF LaunchSucceeds, Step, HostTyped
    <2> HIDE DEF a
    <2>3. EntryStep(p, mg[p], a)
      BY <1>0, <1>1, <2>1, <2>2 DEF EntryStep, HostTyped
    <2>4. mg[p].st \in StatesAt(Place(a)) /\ (p \in provider' <=> mg[p].registered)
      BY <1>0, <1>1, <2>1, <2>2, Places DEF StateKept
    <2>5. Recorded(p, a.conn, "running") /\ a.conn \in Held(p) \ {0}
      BY <1>0, <1>1, <1>3, <2>1
    <2>6. procs'[a.conn].st = "running"
      BY <1>0, <1>1, <2>1, <2>5 DEF Recorded, HostTyped, ProcRec
    <2> QED BY <1>0, <1>1, <2>1, <2>3, <2>4, <2>5, <2>6, RecordKeeps
            DEF WithInstance, Without, Serving, Reverted
  <1> QED BY <1>2, <1>3

\* ReloadSucceeds.
LEMMA ReloadSucceedsKeeps ==
  ASSUME HostInv, NEW p \in Plugins, ReloadSucceeds(p) PROVE HostInv'
  <1>0. /\ HostTyped /\ StateKept(p) /\ InstancesKept(p) /\ actor[p].pc = "reload"
        /\ host # "down" /\ UNCHANGED <<host, boots, provider>>
        /\ Recorded(p, actor[p].other, IF Stopped THEN "killed" ELSE "running")
    BY DEF HostInv, PluginInv, ReloadSucceeds, At, CallsUnchanged
  <1>1. /\ mg[p] \in Managed /\ actor[p] \in ActorRec /\ mg[p].st = "ready"
        /\ mg[p].cur = actor[p].conn
        /\ actor[p].other \in Held(p) \ {0} /\ actor[p].conn \in Held(p) \ {0}
        /\ actor[p].conn < actor[p].other /\ Alive(actor[p].conn)
        /\ Held(p) = {actor[p].conn, actor[p].other}
    BY <1>0, Places
       DEF HostTyped, StateKept, InstancesKept, WithInstance, Serving, Held, Recorded, Place
  <1>2. /\ actor[p].conn \in Procs /\ actor[p].other \in Procs /\ actor[p].conn # actor[p].other
    BY <1>1, PluginBounds DEF ActorRec, Procs
  <1>3. procs'[actor[p].conn] = procs[actor[p].conn]
        /\ (~Stopped => procs'[actor[p].other].st = "running")
    BY <1>0, <1>2 DEF Recorded, HostTyped, ProcRec
  <1>4. CASE Stopped
    <2> DEFINE a0 == [actor[p] EXCEPT !.other = 0]
               m == Unmarked(p)
               a == Reverting(p, a0, "teardown")
    <2>1. a0 \in ActorRec /\ a0.conn = actor[p].conn /\ a0.other = 0
      BY <1>1 DEF ActorRec
    <2>2. Revert(p, a0, "teardown")
      BY <1>4 DEF ReloadSucceeds
    <2> HIDE DEF a0
    <2>3. /\ EntryStep(p, m, a) /\ (p \in provider' <=> a.pc = "deregister")
          /\ a.conn = actor[p].conn /\ a.other = 0 /\ Place(a) = "teardown"
          /\ a.pc \in {"teardown", "deregister"} /\ (a.pc = "deregister" => a.next = "teardown")
          /\ m.st = mg[p].st /\ m.cur = mg[p].cur /\ m.registered = FALSE
      BY <1>0, <2>1, <2>2, RevertKeeps
    <2> HIDE DEF m, a
    <2>5. m.st \in StatesAt(Place(a))
      BY <1>1, <2>3, Places
    <2>6. Recorded(p, actor[p].other, "killed")
      BY <1>0, <1>4
    <2>7. procs'[a.conn].st \in {"running", "exited"} /\ a.conn # 0 /\ a.conn \in Held(p)
      BY <1>1, <1>3, <2>3 DEF Alive
    <2>8. \A h \in Held(p) \ {0, actor[p].other} : h < actor[p].other /\ h \in {a.conn, a.other}
      BY <1>1, <2>3
    <2> QED BY <1>0, <1>1, <2>3, <2>5, <2>6, <2>7, <2>8, RecordKeeps
            DEF WithInstance, Without, Serving
  <1>5. CASE ~Stopped
    <2> DEFINE a == [actor[p] EXCEPT !.pc = "swap", !.other = actor[p].conn, !.conn = actor[p].other]
               m == [mg[p] EXCEPT !.cur = actor[p].other]
    <2>1. /\ a \in ActorRec /\ a.pc = "swap" /\ a.conn = actor[p].other /\ a.other = actor[p].conn
          /\ Place(a) = "swap"
      BY <1>1 DEF ActorRec, PCs, Place
    <2>2. /\ m \in Managed /\ m.st = "ready" /\ m.cur = actor[p].other /\ m.registered = mg[p].registered
      BY <1>1, <1>2 DEF Managed
    <2>3. actor' = [actor EXCEPT ![p] = a] /\ mg' = [mg EXCEPT ![p] = m] /\ provider' = provider
      BY <1>0, <1>5 DEF ReloadSucceeds, HostTyped
    <2> HIDE DEF a, m
    <2>4. EntryStep(p, m, a)
      BY <1>0, <2>1, <2>2, <2>3 DEF EntryStep, HostTyped
    <2>5. m.st \in StatesAt(Place(a)) /\ (p \in provider' <=> m.registered)
      BY <1>0, <2>1, <2>2, <2>3, Places DEF StateKept
    <2>6. Recorded(p, actor[p].other, "running")
      BY <1>0, <1>5
    <2>7. procs'[a.conn].st = "running" /\ a.conn # 0 /\ a.conn \in Held(p)
          /\ a.other \notin {0, a.conn} /\ a.other \in Held(p)
      BY <1>1, <1>2, <1>3, <1>5, <2>1
    <2>8. \A h \in Held(p) \ {0, actor[p].other} : h < actor[p].other /\ h \in {a.conn, a.other}
      BY <1>1, <2>1
    <2> QED BY <1>0, <1>1, <2>1, <2>2, <2>4, <2>5, <2>6, <2>7, <2>8, RecordKeeps
            DEF WithInstance, Without, Serving, Reverted
  <1> QED BY <1>4, <1>5

-----------------------------------------------------------------------------
(* The plugin host: boot, stop and end of the host, the end of a child *)

\* A child dies by itself.
LEMMA ProcExitsKeeps ==
  ASSUME HostInv, NEW k \in Procs, ProcExits(k) PROVE HostInv'
  <1> DEFINE new == [procs[k] EXCEPT !.st = "exited"]
  <1>0. /\ HostTyped /\ procs[k].st = "running"
        /\ UNCHANGED <<host, boots, mg, actor, pidfile, provider>>
    BY DEF HostInv, ProcExits
  <1>1. /\ new \in ProcRec /\ new.st = "exited" /\ new.plugin = procs[k].plugin
        /\ new.boot = procs[k].boot /\ new.rec = procs[k].rec /\ new.left = procs[k].left
    BY <1>0 DEF HostTyped, ProcRec
  <1>2. procs' = [procs EXCEPT ![k] = new]
    BY <1>0 DEF ProcExits, HostTyped
  <1> HIDE DEF new
  <1>3. /\ procs' \in [Procs -> ProcRec]
        /\ \A j \in Procs : /\ procs'[j].plugin = procs[j].plugin /\ procs'[j].boot = procs[j].boot
                            /\ procs'[j].rec = procs[j].rec /\ procs'[j].left = procs[j].left
                            /\ procs'[j].st = IF j = k THEN "exited" ELSE procs[j].st
    BY <1>0, <1>1, <1>2 DEF HostTyped
  <1>4. \A j \in Procs : /\ Used(j)' <=> Used(j)
                         /\ Alive(j) => Alive(j)'
                         /\ Succeeded(j) => Succeeded(j)'
                         /\ LeftAlone(j) => LeftAlone(j)'
                         /\ procs'[j].st = "running" => procs[j].st = "running"
    BY <1>0, <1>3 DEF Used, Alive, Succeeded, LeftAlone
  <1>5. HostTyped' /\ LaunchOrder'
    BY <1>0, <1>3, <1>4 DEF HostInv, HostTyped, LaunchOrder
  <1>6. ASSUME NEW p \in Plugins PROVE PluginInv(p)'
    <2>1. StateKept(p) /\ InstancesKept(p) /\ PidfileKept(p)
      BY DEF HostInv, PluginInv
    <2>2. /\ Held(p)' = Held(p) /\ Held(p) \ {0} \subseteq Procs
          /\ actor[p].conn # 0 => actor[p].conn \in Procs
          /\ pidfile[p] # 0 => pidfile[p] \in Procs
      BY <1>0 DEF Held, HostTyped, ActorRec
    <2>3. StateKept(p)'
      BY <1>0, <2>1 DEF StateKept, Place
    <2>4. InstancesKept(p)'
      <3>1. Place(actor[p])' = Place(actor[p]) /\ Stopped' = Stopped
        BY <1>0 DEF Place, Stopped
      <3>2. actor[p].pc = "reap" => actor[p].conn # 0
        BY <2>1 DEF InstancesKept, Place, WithInstance, Serving
      <3> QED BY <1>0, <1>3, <1>4, <2>1, <2>2, <3>1, <3>2 DEF InstancesKept
    <2>5. PidfileKept(p)'
      BY <1>0, <1>3, <1>4, <2>1, <2>2 DEF PidfileKept
    <2> QED BY <2>3, <2>4, <2>5 DEF PluginInv
  <1>7. NothingLeaks'
    <2> SUFFICES ASSUME NEW j \in Procs, procs'[j].st = "running",
                        (j \notin Held(procs[j].plugin) \cup {pidfile[procs[j].plugin]})'
                 PROVE  /\ procs'[j].boot < boots' \/ host' = "down"
                        /\ ~procs'[j].rec \/ procs'[j].left \/ Succeeded(j)'
      BY DEF NothingLeaks, Succeeded
    <2>1. j \notin Held(procs[j].plugin) \cup {pidfile[procs[j].plugin]}
      BY <1>0, <1>3 DEF Held
    <2>2. /\ procs[j].boot < boots \/ host = "down"
          /\ ~procs[j].rec \/ procs[j].left \/ Succeeded(j)
      BY <1>4, <2>1 DEF HostInv, NothingLeaks, Succeeded
    <2> QED BY <1>0, <1>3, <1>4, <2>2
  <1> QED BY <1>5, <1>6, <1>7 DEF HostInv

\* Stop only cancels.
LEMMA StopKeeps ==
  ASSUME HostInv, Stop PROVE HostInv'
  <1>1. /\ host = "up" /\ host' = "stopping"
        /\ UNCHANGED <<boots, mg, actor, procs, pidfile, provider>>
    BY DEF Stop
  <1>2. HostTyped' /\ LaunchOrder'
    BY <1>1 DEF HostInv, HostTyped, LaunchOrder, Used
  <1>3. ASSUME NEW p \in Plugins PROVE PluginInv(p)'
    BY <1>1 DEF HostInv, PluginInv, StateKept, InstancesKept, PidfileKept, Place,
       Held, Used, Alive, Succeeded, LeftAlone, Stopped
  <1>4. NothingLeaks'
    BY <1>1 DEF HostInv, NothingLeaks, Held
  <1> QED BY <1>2, <1>3, <1>4 DEF HostInv

\* With the host down, or just up, every supervisor is fresh.
LEMMA FreshInv ==
  ASSUME HostTyped', NEW p \in Plugins, mg'[p].st \in StatesAt(actor'[p].pc),
         mg'[p].registered = FALSE, actor'[p].pc \in {"none", "launch"},
         host' = "down" => actor'[p].pc = "none",
         actor'[p].conn = 0, actor'[p].other = 0, p \notin provider',
         pidfile'[p] # 0 => /\ Used(pidfile[p])' /\ procs'[pidfile'[p]].plugin = p
                            /\ host' = "down" \/ LeftAlone(pidfile[p])'
  PROVE  PluginInv(p)'
  <1>1. Held(p)' = {0}
    BY DEF Held
  <1>2. StateKept(p)'
    BY DEF StateKept, Serving, Place
  <1>3. InstancesKept(p)'
    BY <1>1 DEF InstancesKept, WithInstance, Without, Serving, Place
  <1>4. PidfileKept(p)'
    BY <1>1 DEF PidfileKept
  <1> QED BY <1>2, <1>3, <1>4 DEF PluginInv

\* The host ends, stopped or killed.
LEMMA HostEndsKeeps ==
  ASSUME HostInv, NEW survivors \in SUBSET Procs, HostEnds(survivors) PROVE HostInv'
  <1>0. /\ HostTyped /\ host' = "down" /\ provider' = {} /\ boots' = boots /\ pidfile' = pidfile
        /\ mg' = [p \in Plugins |-> NewManaged] /\ actor' = [p \in Plugins |-> NewActor]
    BY DEF HostInv, HostEnds
  <1>1. /\ procs' \in [Procs -> ProcRec]
        /\ \A j \in Procs : /\ procs'[j].plugin = procs[j].plugin /\ procs'[j].boot = procs[j].boot
                            /\ procs'[j].rec = procs[j].rec /\ procs'[j].left = procs[j].left
                            /\ procs'[j].st = procs[j].st \/ (procs[j].st = "running" /\ procs'[j].st = "exited")
    <2>1. ASSUME NEW j \in Procs
          PROVE  /\ procs'[j] \in ProcRec
                 /\ procs'[j].plugin = procs[j].plugin /\ procs'[j].boot = procs[j].boot
                 /\ procs'[j].rec = procs[j].rec /\ procs'[j].left = procs[j].left
                 /\ procs'[j].st = procs[j].st \/ (procs[j].st = "running" /\ procs'[j].st = "exited")
      <3>1. procs[j] \in ProcRec
        BY <1>0 DEF HostTyped
      <3>2. \/ procs'[j] = procs[j]
            \/ procs'[j] = [procs[j] EXCEPT !.st = IF @ = "running" THEN "exited" ELSE @]
        BY DEF HostEnds
      <3> QED BY <3>1, <3>2 DEF ProcRec
    <2>2. procs' = [j \in Procs |-> procs'[j]]
      BY DEF HostEnds
    <2> QED BY <2>1, <2>2
  <1>2. \A j \in Procs : /\ Used(j)' <=> Used(j)
                         /\ Succeeded(j) => Succeeded(j)'
                         /\ procs'[j].st = "running" => procs[j].st = "running"
    BY <1>1 DEF Used, Succeeded
  <1>3. NewManaged \in Managed /\ NewActor \in ActorRec
    BY DEF NewManaged, NewActor, Managed, ActorRec, PCs, Nexts, States
  <1>4. HostTyped' /\ LaunchOrder'
    <2>1. HostTyped'
      BY <1>0, <1>1, <1>3 DEF HostTyped
    <2>2. LaunchOrder'
      BY <1>0, <1>1, <1>2 DEF HostInv, LaunchOrder
    <2> QED BY <2>1, <2>2
  <1>5. ASSUME NEW p \in Plugins PROVE PluginInv(p)'
    <2>1. mg'[p] = NewManaged /\ actor'[p] = NewActor
      BY <1>0
    <2>2. /\ NewManaged.st \in StatesAt(NewActor.pc) /\ NewManaged.registered = FALSE
          /\ NewActor.pc = "none" /\ NewActor.conn = 0 /\ NewActor.other = 0
      BY Places DEF NewManaged, NewActor
    <2>3. pidfile[p] # 0 => /\ pidfile[p] \in Procs /\ Used(pidfile[p]) /\ procs[pidfile[p]].plugin = p
      BY <1>0 DEF HostInv, PluginInv, PidfileKept, HostTyped
    <2>4. pidfile'[p] # 0 => Used(pidfile[p])' /\ procs'[pidfile'[p]].plugin = p
      BY <1>0, <1>1, <1>2, <2>3 DEF Used
    <2> QED BY <1>0, <1>4, <2>1, <2>2, <2>4, FreshInv
  <1>6. NothingLeaks'
    <2> SUFFICES ASSUME NEW j \in Procs, procs'[j].st = "running",
                        (j \notin Held(procs[j].plugin) \cup {pidfile[procs[j].plugin]})'
                 PROVE  ~procs'[j].rec \/ procs'[j].left \/ Succeeded(j)'
      BY <1>0 DEF NothingLeaks, Succeeded
    <2>1. /\ procs[j].st = "running" /\ j # pidfile[procs[j].plugin] /\ j # 0
          /\ procs'[j].rec = procs[j].rec /\ procs'[j].left = procs[j].left
      BY <1>0, <1>1, <1>2 DEF Procs
    <2>2. procs[j].plugin \in Plugins
      BY <2>1 DEF HostInv, LaunchOrder, Used
    <2>3. CASE j \in Held(procs[j].plugin)
      BY <1>2, <2>1, <2>2, <2>3 DEF HostInv, PluginInv, PidfileKept
    <2>4. CASE j \notin Held(procs[j].plugin)
      BY <1>2, <2>1, <2>4 DEF HostInv, NothingLeaks, Succeeded
    <2> QED BY <2>3, <2>4
  <1> QED BY <1>4, <1>5, <1>6 DEF HostInv

\* Boot: the sweep reclaims what the pidfiles name, then the supervisors start.
LEMMA BootKeeps ==
  ASSUME HostInv, NEW bad \in SUBSET Plugins, NEW kept \in SUBSET Plugins,
         NEW disowned \in SUBSET Plugins, Boot(bad, kept, disowned)
  PROVE  HostInv'
  <1>0. /\ HostTyped /\ host = "down" /\ host' = "up" /\ boots' = boots + 1 /\ provider' = provider
        /\ pidfile' = [p \in Plugins |-> IF p \in kept THEN pidfile[p] ELSE 0] /\ boots \in Nat
        /\ \A p \in kept \cup disowned : pidfile[p] # 0
        /\ \A p \in Plugins : actor[p].pc = "none"
    BY DEF HostInv, PluginInv, StateKept, Boot, SweepOrphans, HostTyped
  <1>1. /\ procs' \in [Procs -> ProcRec]
        /\ \A j \in Procs : /\ procs'[j].plugin = procs[j].plugin /\ procs'[j].boot = procs[j].boot
                            /\ procs'[j].rec = procs[j].rec
                            /\ procs'[j].st = procs[j].st \/ (procs[j].st = "running" /\ procs'[j].st = "killed")
                            /\ procs[j].left => procs'[j].left
                            /\ j \in Named(kept) => procs'[j].left
                            /\ procs'[j].st = "running" => procs'[j].left \/ \A p \in Plugins : pidfile[p] # j
    <2>1. ASSUME NEW j \in Procs
          PROVE  /\ procs'[j] \in ProcRec
                 /\ procs'[j].plugin = procs[j].plugin /\ procs'[j].boot = procs[j].boot
                 /\ procs'[j].rec = procs[j].rec
                 /\ procs'[j].st = procs[j].st \/ (procs[j].st = "running" /\ procs'[j].st = "killed")
                 /\ procs[j].left => procs'[j].left
                 /\ j \in Named(kept) => procs'[j].left
                 /\ procs'[j].st = "running" => procs'[j].left \/ \A p \in Plugins : pidfile[p] # j
      <3>1. procs[j] \in ProcRec /\ procs \in [Procs -> ProcRec]
        BY <1>0 DEF HostTyped
      <3>2. CASE j \in Named(kept \cup disowned)
        <4>1. procs'[j] = [procs[j] EXCEPT !.left = TRUE]
          BY <3>2 DEF Boot, SweepOrphans
        <4> QED BY <3>1, <4>1 DEF ProcRec
      <3>3. CASE j \notin Named(kept \cup disowned) /\ j \in Named(Plugins)
        <4>1. procs'[j] = Killed(procs, j)[j]
          BY <3>3 DEF Boot, SweepOrphans
        <4>2. Killed(procs, j)[j] = [procs[j] EXCEPT !.st = IF @ = "running" THEN "killed" ELSE @]
          BY <3>1 DEF Killed
        <4>3. j \notin Named(kept)
          BY <3>3 DEF Named
        <4> QED BY <3>1, <4>1, <4>2, <4>3 DEF ProcRec
      <3>4. CASE j \notin Named(kept \cup disowned) /\ j \notin Named(Plugins)
        <4>1. procs'[j] = procs[j]
          BY <3>4 DEF Boot, SweepOrphans
        <4>2. j \notin Named(kept) /\ \A p \in Plugins : pidfile[p] # j
          BY <3>4 DEF Named
        <4> QED BY <3>1, <4>1, <4>2
      <3> QED BY <3>2, <3>3, <3>4
    <2>2. procs' = [j \in Procs |-> procs'[j]]
      BY DEF Boot, SweepOrphans
    <2> QED BY <2>1, <2>2
  <1>2. \A j \in Procs : /\ Used(j)' <=> Used(j)
                         /\ Succeeded(j) => Succeeded(j)'
                         /\ procs'[j].st = "running" => procs[j].st = "running"
    BY <1>1 DEF Used, Succeeded
  <1>3. \A p \in Plugins :
           /\ mg'[p] \in Managed /\ actor'[p] \in ActorRec
           /\ mg'[p].st \in StatesAt(actor'[p].pc) /\ mg'[p].registered = FALSE
           /\ actor'[p].pc \in {"none", "launch"} /\ actor'[p].conn = 0 /\ actor'[p].other = 0
    <2> SUFFICES ASSUME NEW p \in Plugins
                 PROVE  /\ mg'[p] \in Managed /\ actor'[p] \in ActorRec
                        /\ mg'[p].st \in StatesAt(actor'[p].pc) /\ mg'[p].registered = FALSE
                        /\ actor'[p].pc \in {"none", "launch"} /\ actor'[p].conn = 0 /\ actor'[p].other = 0
      OBVIOUS
    <2>1. CASE p \in bad
      <3>1. /\ mg'[p] = [st |-> "failed", cur |-> 0, registered |-> FALSE]
            /\ actor'[p] = [pc |-> "none", conn |-> 0, other |-> 0, attempts |-> 0,
                          next |-> "none"]
        BY <2>1, Transitions DEF Boot, LaunchDiscovered, NewManaged, NewActor
      <3>2. mg'[p].st \in StatesAt(actor'[p].pc)
        BY <3>1, Places
      <3> QED BY <3>1, <3>2 DEF Managed, ActorRec, States, PCs, Nexts
    <2>2. CASE p \notin bad
      <3>1. /\ mg'[p] = [st |-> "discovered", cur |-> 0, registered |-> FALSE]
            /\ actor'[p] = [pc |-> "launch", conn |-> 0, other |-> 0, attempts |-> 0,
                          next |-> "none"]
        BY <2>2 DEF Boot, LaunchDiscovered, NewManaged, NewActor
      <3>2. mg'[p].st \in StatesAt(actor'[p].pc)
        BY <3>1, Places
      <3> QED BY <3>1, <3>2 DEF Managed, ActorRec, States, PCs, Nexts
    <2> QED BY <2>1, <2>2
  <1>4. HostTyped'
    <2>1. mg' = [p \in Plugins |-> mg'[p]] /\ actor' = [p \in Plugins |-> actor'[p]]
      BY DEF Boot, LaunchDiscovered
    <2> QED BY <1>0, <1>1, <1>3, <2>1 DEF HostTyped
  <1>5. LaunchOrder'
    <2>1. \A k \in Procs : Used(k) => procs[k].boot \in Nat /\ procs[k].boot <= boots
      BY <1>0 DEF HostInv, LaunchOrder, HostTyped, ProcRec
    <2>2. \A k \in Procs : Used(k) => procs[k].boot <= boots'
      BY <1>0, <2>1
    <2> QED BY <1>1, <1>2, <2>2 DEF HostInv, LaunchOrder
  <1>6. ASSUME NEW p \in Plugins PROVE PluginInv(p)'
    <2>1. p \notin provider'
      BY <1>0, Places DEF HostInv, PluginInv, StateKept, Reverted
    <2>2. ASSUME pidfile'[p] # 0
          PROVE  Used(pidfile[p])' /\ procs'[pidfile'[p]].plugin = p /\ LeftAlone(pidfile[p])'
      <3>1. p \in kept /\ pidfile'[p] = pidfile[p] /\ pidfile[p] \in Procs
        BY <1>0, <2>2 DEF HostTyped
      <3>2. Used(pidfile[p]) /\ procs[pidfile[p]].plugin = p /\ pidfile[p] \in Named(kept)
        BY <1>0, <3>1 DEF HostInv, PluginInv, PidfileKept, Named
      <3>3. procs[pidfile[p]].boot \in Nat /\ procs[pidfile[p]].boot <= boots
        BY <1>0, <3>1, <3>2 DEF HostInv, LaunchOrder, HostTyped, ProcRec
      <3>4. procs'[pidfile[p]].boot < boots'
        BY <1>0, <1>1, <3>1, <3>3
      <3> QED BY <1>1, <3>1, <3>2, <3>4 DEF LeftAlone, Used
    <2> QED BY <1>0, <1>3, <1>4, <2>1, <2>2, FreshInv
  <1>7. NothingLeaks'
    <2> SUFFICES ASSUME NEW j \in Procs, procs'[j].st = "running"
                 PROVE  /\ procs'[j].boot < boots'
                        /\ ~procs'[j].rec \/ procs'[j].left \/ Succeeded(j)'
      BY DEF NothingLeaks, Succeeded
    <2>1. Used(j) /\ procs[j].st = "running" /\ j # 0
      BY <1>2 DEF Used, Procs
    <2>2. /\ procs[j].plugin \in Plugins /\ procs[j].boot <= boots /\ procs[j].boot \in Nat
      BY <1>0, <2>1 DEF HostInv, LaunchOrder, HostTyped, ProcRec
    <2>3. ASSUME ~procs'[j].left PROVE ~procs[j].rec \/ Succeeded(j)
      <3>1. j \notin Held(procs[j].plugin) \cup {pidfile[procs[j].plugin]}
        BY <1>0, <1>1, <2>1, <2>2, <2>3 DEF HostInv, PluginInv, InstancesKept, Held, Without, Place
      <3> QED BY <1>1, <2>1, <2>3, <3>1 DEF HostInv, NothingLeaks, Succeeded
    <2>5. procs[j].boot < boots'
      BY <1>0, <2>2
    <2> QED BY <1>1, <1>2, <2>3, <2>5
  <1> QED BY <1>4, <1>5, <1>6, <1>7 DEF HostInv

\* Dispatch does not touch the loader.
LEMMA LoaderKept ==
  ASSUME HostInv, UNCHANGED <<host, boots, mg, actor, procs, pidfile, provider>> PROVE HostInv'
  <1>1. HostTyped' /\ LaunchOrder' /\ NothingLeaks'
    BY DEF HostInv, HostTyped, LaunchOrder, Used, NothingLeaks, Held
  <1>2. ASSUME NEW p \in Plugins PROVE PluginInv(p)'
    BY DEF HostInv, PluginInv, StateKept, InstancesKept, PidfileKept, Place,
       Held, Used, Alive, Succeeded, LeftAlone, Stopped
  <1> QED BY <1>1, <1>2 DEF HostInv

\* Before the first boot.
LEMMA InitHostInv == HostInit => HostInv
  <1> SUFFICES ASSUME HostInit PROVE HostInv
    OBVIOUS
  <1>1. /\ NoProc \in ProcRec /\ NoProc.st = "unused" /\ NoProc.rec = FALSE
    BY DEF NoProc, ProcRec, PluginNames, Idle
  <1>2. \A k \in Procs : procs[k] = NoProc
    BY DEF HostInit
  <1>3. NewManaged \in Managed /\ NewActor \in ActorRec
    BY DEF NewManaged, NewActor, Managed, ActorRec, PCs, Nexts, States
  <1>4. HostTyped
    BY <1>1, <1>3 DEF HostInit, HostTyped
  <1>5. LaunchOrder /\ NothingLeaks
    BY <1>1, <1>2 DEF LaunchOrder, NothingLeaks, Used
  <1>6. ASSUME NEW p \in Plugins PROVE PluginInv(p)
    <2>1. /\ mg[p] = NewManaged /\ actor[p] = NewActor /\ p \notin provider /\ pidfile[p] = 0
      BY DEF HostInit
    <2>2. /\ NewManaged.st \in StatesAt(NewActor.pc) /\ NewManaged.registered = FALSE
          /\ NewActor.pc = "none" /\ NewActor.conn = 0 /\ NewActor.other = 0
      BY Places DEF NewManaged, NewActor
    <2>3. Held(p) = {0}
      BY <2>1, <2>2 DEF Held
    <2> QED BY <2>1, <2>2, <2>3
            DEF PluginInv, StateKept, InstancesKept, PidfileKept, WithInstance, Serving, Place
  <1> QED BY <1>4, <1>5, <1>6 DEF HostInv

\* Every step of the host keeps the invariant.
LEMMA NextHostInv == HostInv /\ [HostNext]_hostVars => HostInv'
  <1> SUFFICES ASSUME HostInv, [HostNext]_hostVars PROVE HostInv'
    OBVIOUS
  <1>1. ASSUME NEW bad \in SUBSET Plugins, NEW kept \in SUBSET Plugins,
               NEW disowned \in SUBSET Plugins, Boot(bad, kept, disowned)
        PROVE  HostInv'
    BY <1>1, BootKeeps
  <1>2. CASE Stop
    BY <1>2, StopKeeps
  <1>3. ASSUME NEW survivors \in SUBSET Procs, HostEnds(survivors) PROVE HostInv'
    BY <1>3, HostEndsKeeps
  <1>4. ASSUME NEW p \in Plugins, Supervisor(p) PROVE HostInv'
    BY <1>4, LaunchKeeps, LaunchSucceedsKeeps, LaunchFailsKeeps, VerifyKeeps, BecomeReadyKeeps,
       RegisterReadyKeeps, ServeCrashKeeps, MarkUnhealthyKeeps, BackoffOrQuarantineKeeps,
       BackoffEndsKeeps, DeregisterKeeps, QuarantineKeeps, DrainingKeeps, ParkedStopKeeps,
       ReloadSucceedsKeeps, ReloadFailsKeeps, SwapKillKeeps, ServeStopKeeps, TeardownKeeps DEF Supervisor
  <1>5. ASSUME NEW p \in Plugins, Operator(p) PROVE HostInv'
    BY <1>5, ParkedReloadKeeps, ReloadKeeps DEF Operator
  <1>6. ASSUME NEW k \in Procs, ProcExits(k) PROVE HostInv'
    BY <1>6, ProcExitsKeeps
  <1>7. ASSUME NEW c \in Calls, Dispatch(c) \/ \E p \in Plugins : DispatchPick(c, p) PROVE HostInv'
    BY <1>7, LoaderKept DEF Dispatch, DispatchPick, AcquireSem, AcquireGlobal, ShedPerPlugin,
       ShedGlobal, CallReturns, LoaderUnchanged
  <1>8. CASE UNCHANGED hostVars
    BY <1>8, LoaderKept DEF hostVars
  <1> QED BY <1>1, <1>2, <1>3, <1>4, <1>5, <1>6, <1>7, <1>8 DEF HostNext

(***************************************************************************)
(* The client that dispatch hands out is the supervisor's current instance   *)
(* and not one the host has killed, except that a stop taken for a crash     *)
(* kills the live instance a step before it is withdrawn (becomeReady,       *)
(* swapTo, afterCrash, teardown), for any number of plugins, launches,       *)
(* reloads and boots.                                                        *)
(***************************************************************************)
THEOREM ClientAlwaysLive == HostSpec => []ClientLive
  <1>1. HostInv => ClientLive
    <2> SUFFICES ASSUME HostInv, NEW p \in Plugins, mg[p].st = "ready"
                 PROVE  /\ mg[p].cur = actor[p].conn /\ mg[p].cur # 0
                        /\ procs[mg[p].cur].st = "killed" => Stopped /\ actor[p].pc = "reap"
      BY DEF ClientLive
    <2>1. StateKept(p) /\ InstancesKept(p) /\ actor[p].pc \in PCs
      BY DEF HostInv, HostTyped, ActorRec, PluginInv
    <2>2. Place(actor[p]) \in Serving
      BY <2>1, Places DEF PCs, StateKept, Serving, Place
    <2> QED BY <2>1, <2>2 DEF StateKept, InstancesKept, WithInstance, Alive
  <1> QED BY <1>1, InitHostInv, NextHostInv, PTL DEF HostSpec

(***************************************************************************)
(* Revert before death: no registry ever holds the provider of a plugin that *)
(* is quarantined, draining or stopped, or whose supervisor is gone, and one *)
(* without the mark only while the supervisor is taking it out (revert,      *)
(* teardown, backoffOrQuarantine).                                           *)
(***************************************************************************)
THEOREM ProviderAlwaysServed == HostSpec => []ProviderServed
  <1>1. HostInv => ProviderServed
    <2> SUFFICES ASSUME HostInv, NEW p \in provider
                 PROVE  /\ mg[p].st \notin {"discovered", "failed", "draining", "stopped"}
                        /\ mg[p].registered \/ actor[p].pc = "deregister"
                        /\ actor[p].pc \notin {"none", "done"}
      BY DEF ProviderServed
    <2>1. p \in Plugins /\ actor[p].pc \in PCs /\ StateKept(p)
      BY DEF HostInv, HostTyped, ActorRec, PluginInv
    <2>2. CASE actor[p].pc = "deregister"
      BY <2>1, <2>2, Places DEF StateKept, Place
    <2>3. CASE actor[p].pc # "deregister"
      BY <2>1, <2>3, Places DEF StateKept, PCs, Place, Reverted
    <2> QED BY <2>2, <2>3
  <1> QED BY <1>1, InitHostInv, NextHostInv, PTL DEF HostSpec

(***************************************************************************)
(* A running child nobody answers for is one whose host was killed during    *)
(* its handshake or while its successor already had the pidfile, or one that *)
(* a sweep found and left alone (realLaunch, writePidfile, sweepOrphans);    *)
(* every other child is killed by the host, or reclaimed by the next boot.   *)
(***************************************************************************)
THEOREM NothingEverLeaks == HostSpec => []NothingLeaks
  <1>1. HostInv => NothingLeaks
    BY DEF HostInv
  <1> QED BY <1>1, InitHostInv, NextHostInv, PTL DEF HostSpec

-----------------------------------------------------------------------------
(* The plugin host: the in-flight budget *)

SemHolders(p) == Holders(p, {"global", "run"})
Running == {c \in Calls : call[c].pc = "run"}

SlotsTyped == /\ call \in [Calls -> CallRec]
              /\ \A c \in Calls : call[c].pc # "idle" => call[c].plugin \in Plugins
              /\ sem \in [Plugins -> Nat] /\ global \in Nat

\* Slots taken are calls that hold one, and within the caps.
SlotInv == /\ HostTyped /\ SlotsTyped /\ SlotsExact
           /\ \A p \in Plugins : sem[p] <= PerCap
           /\ global <= GlobalCap

\* A call's step, and what it does to the calls that hold a slot.
LEMMA HoldersMove ==
  ASSUME SlotInv, NEW c \in Calls, NEW new \in CallRec, call' = [call EXCEPT ![c] = new],
         new.pc # "idle" => new.plugin \in Plugins
  PROVE  /\ call' \in [Calls -> CallRec]
         /\ \A d \in Calls : call'[d].pc # "idle" => call'[d].plugin \in Plugins
         /\ \A q \in Plugins : SemHolders(q)' =
               IF new.plugin = q /\ new.pc \in {"global", "run"}
               THEN SemHolders(q) \cup {c} ELSE SemHolders(q) \ {c}
         /\ Running' = IF new.pc = "run" THEN Running \cup {c} ELSE Running \ {c}
  <1>1. call \in [Calls -> CallRec]
    BY DEF SlotInv, SlotsTyped
  <1>2. \A d \in Calls : call'[d] = IF d = c THEN new ELSE call[d]
    BY <1>1
  <1>3. call' \in [Calls -> CallRec]
        /\ \A d \in Calls : call'[d].pc # "idle" => call'[d].plugin \in Plugins
    BY <1>1, <1>2 DEF SlotInv, SlotsTyped
  <1>4. ASSUME NEW q \in Plugins
        PROVE  SemHolders(q)' = IF new.plugin = q /\ new.pc \in {"global", "run"}
                                THEN SemHolders(q) \cup {c} ELSE SemHolders(q) \ {c}
    BY <1>2 DEF SemHolders, Holders
  <1>5. Running' = IF new.pc = "run" THEN Running \cup {c} ELSE Running \ {c}
    BY <1>2 DEF Running
  <1> QED BY <1>3, <1>4, <1>5

\* The sets of holders are finite, and counted by the semaphores.
LEMMA HoldersCounted ==
  ASSUME SlotInv
  PROVE  /\ \A q \in Plugins : /\ IsFiniteSet(SemHolders(q)) /\ SemHolders(q) \subseteq Calls
                               /\ sem[q] = Cardinality(SemHolders(q))
         /\ IsFiniteSet(Running) /\ Running \subseteq Calls /\ global = Cardinality(Running)
  <1>1. \A S \in SUBSET Calls : IsFiniteSet(S)
    BY CallsFinite, FS_Subset
  <1> QED BY <1>1 DEF SlotInv, SlotsExact, SemHolders, Holders, Running

\* One more, one less.
LEMMA CountMoves ==
  ASSUME NEW S, IsFiniteSet(S), NEW x
  PROVE  /\ x \notin S => Cardinality(S \cup {x}) = Cardinality(S) + 1
         /\ x \in S => Cardinality(S \cup {x}) = Cardinality(S) /\ Cardinality(S \ {x}) = Cardinality(S) - 1
         /\ x \notin S => Cardinality(S \ {x}) = Cardinality(S)
         /\ Cardinality(S) \in Nat
  <1>1. x \in S => S \cup {x} = S
    OBVIOUS
  <1>2. x \notin S => S \ {x} = S
    OBVIOUS
  <1> QED BY <1>1, <1>2, FS_AddElement, FS_RemoveElement, FS_CardinalityType

\* The semaphores follow call c from what it was to new, within the caps.
SemMoves(c, new) ==
    /\ sem' \in [Plugins -> Nat]
    /\ \A q \in Plugins :
          /\ sem'[q] <= PerCap
          /\ sem'[q] = sem[q] + (IF new.plugin = q /\ new.pc \in {"global", "run"} THEN 1 ELSE 0)
                              - (IF c \in SemHolders(q) THEN 1 ELSE 0)
GlobalMoves(c, new) ==
    /\ global' \in Nat /\ global' <= GlobalCap
    /\ global' = global + (IF new.pc = "run" THEN 1 ELSE 0) - (IF c \in Running THEN 1 ELSE 0)

\* Then the counts stay exact.
LEMMA SlotsMove ==
  ASSUME SlotInv, NEW c \in Calls, NEW new \in CallRec, call' = [call EXCEPT ![c] = new],
         new.pc # "idle" => new.plugin \in Plugins, HostTyped',
         SemMoves(c, new), GlobalMoves(c, new)
  PROVE  SlotInv'
  <1>1. /\ call' \in [Calls -> CallRec]
        /\ \A d \in Calls : call'[d].pc # "idle" => call'[d].plugin \in Plugins
        /\ \A q \in Plugins : SemHolders(q)' =
               IF new.plugin = q /\ new.pc \in {"global", "run"}
               THEN SemHolders(q) \cup {c} ELSE SemHolders(q) \ {c}
        /\ Running' = IF new.pc = "run" THEN Running \cup {c} ELSE Running \ {c}
    BY HoldersMove
  <1>2. SlotsTyped'
    BY <1>1 DEF SlotsTyped, SemMoves, GlobalMoves
  <1>3. ASSUME NEW q \in Plugins PROVE sem'[q] = Cardinality(SemHolders(q)')
    <2>1. IsFiniteSet(SemHolders(q)) /\ sem[q] = Cardinality(SemHolders(q))
      BY HoldersCounted
    <2>2. /\ c \notin SemHolders(q) => /\ Cardinality(SemHolders(q) \cup {c}) = sem[q] + 1
                                       /\ Cardinality(SemHolders(q) \ {c}) = sem[q]
          /\ c \in SemHolders(q) => /\ Cardinality(SemHolders(q) \cup {c}) = sem[q]
                                    /\ Cardinality(SemHolders(q) \ {c}) = sem[q] - 1
          /\ sem[q] \in Nat
      BY <2>1, CountMoves
    <2>3. CASE new.plugin = q /\ new.pc \in {"global", "run"}
      <3>1. SemHolders(q)' = SemHolders(q) \cup {c}
        BY <1>1, <2>3
      <3>2. /\ c \in SemHolders(q) => sem'[q] = sem[q]
            /\ c \notin SemHolders(q) => sem'[q] = sem[q] + 1
        BY <2>2, <2>3 DEF SemMoves
      <3> QED BY <2>2, <3>1, <3>2
    <2>4. CASE ~(new.plugin = q /\ new.pc \in {"global", "run"})
      <3>1. SemHolders(q)' = SemHolders(q) \ {c}
        BY <1>1, <2>4
      <3>2. /\ c \in SemHolders(q) => sem'[q] = sem[q] - 1
            /\ c \notin SemHolders(q) => sem'[q] = sem[q]
        BY <2>2, <2>4 DEF SemMoves
      <3> QED BY <2>2, <3>1, <3>2
    <2> QED BY <2>3, <2>4
  <1>4. global' = Cardinality(Running')
    <2>1. IsFiniteSet(Running) /\ global = Cardinality(Running)
      BY HoldersCounted
    <2>2. /\ c \notin Running => /\ Cardinality(Running \cup {c}) = global + 1
                                 /\ Cardinality(Running \ {c}) = global
          /\ c \in Running => /\ Cardinality(Running \cup {c}) = global
                              /\ Cardinality(Running \ {c}) = global - 1
          /\ global \in Nat
      BY <2>1, CountMoves
    <2> QED BY <1>1, <2>2 DEF GlobalMoves
  <1>5. SlotsExact'
    BY <1>3, <1>4 DEF SlotsExact, SemHolders, Running
  <1> QED BY <1>2, <1>5 DEF SlotInv, SemMoves, GlobalMoves

\* The places of one call, and which slots it holds there.
LEMMA CallSlots ==
  ASSUME SlotInv, NEW c \in Calls
  PROVE  /\ call[c] \in CallRec /\ Idle \in CallRec /\ Idle.pc = "idle"
         /\ \A q \in Plugins : c \in SemHolders(q) <=>
               call[c].plugin = q /\ call[c].pc \in {"global", "run"}
         /\ c \in Running <=> call[c].pc = "run"
         /\ call[c].pc # "idle" => call[c].plugin \in Plugins
  <1>1. Idle \in CallRec /\ Idle.pc = "idle"
    BY DEF Idle, CallRec, PluginNames
  <1> QED BY <1>1 DEF SlotInv, SlotsTyped, SemHolders, Holders, Running

\* A slot that is held can be given back.
LEMMA HeldSlot ==
  ASSUME SlotInv, NEW c \in Calls
  PROVE  /\ \A q \in Plugins : c \in SemHolders(q) => sem[q] - 1 \in Nat
         /\ c \in Running => global - 1 \in Nat
  <1>1. ASSUME NEW q \in Plugins, c \in SemHolders(q) PROVE sem[q] - 1 \in Nat
    <2>1. IsFiniteSet(SemHolders(q)) /\ sem[q] = Cardinality(SemHolders(q))
      BY HoldersCounted
    <2>2. Cardinality(SemHolders(q) \ {c}) \in Nat
      BY <2>1, FS_RemoveElement, FS_CardinalityType
    <2> QED BY <1>1, <2>1, <2>2, CountMoves
  <1>2. ASSUME c \in Running PROVE global - 1 \in Nat
    <2>1. IsFiniteSet(Running) /\ global = Cardinality(Running)
      BY HoldersCounted
    <2>2. Cardinality(Running \ {c}) \in Nat
      BY <2>1, FS_RemoveElement, FS_CardinalityType
    <2> QED BY <1>2, <2>1, <2>2, CountMoves
  <1> QED BY <1>1, <1>2

\* Every path of a call through dispatch keeps the counts.
LEMMA DispatchKeepsSlots ==
  ASSUME SlotInv, NEW c \in Calls, LoaderUnchanged,
         Dispatch(c) \/ \E p \in Plugins : DispatchPick(c, p)
  PROVE  SlotInv'
  <1>0. /\ HostTyped' /\ call \in [Calls -> CallRec]
        /\ sem \in [Plugins -> Nat] /\ global \in Nat
        /\ \A q \in Plugins : sem[q] <= PerCap
        /\ global <= GlobalCap
    BY DEF SlotInv, SlotsTyped, LoaderUnchanged, HostTyped
  <1>c. /\ call[c] \in CallRec /\ Idle \in CallRec /\ Idle.pc = "idle"
        /\ \A q \in Plugins : c \in SemHolders(q) <=>
              call[c].plugin = q /\ call[c].pc \in {"global", "run"}
        /\ c \in Running <=> call[c].pc = "run"
        /\ call[c].pc # "idle" => call[c].plugin \in Plugins
    BY CallSlots
  <1>h. /\ \A q \in Plugins : c \in SemHolders(q) => sem[q] - 1 \in Nat
        /\ c \in Running => global - 1 \in Nat
    BY HeldSlot
  <1>b. PerCap \in Nat /\ GlobalCap \in Nat
    BY PluginBounds
  <1>1. ASSUME NEW p \in Plugins, DispatchPick(c, p) PROVE SlotInv'
    <2> DEFINE new == [pc |-> "sem", plugin |-> p, conn |-> mg[p].cur]
    <2>1. new \in CallRec /\ new.pc = "sem" /\ new.plugin \in Plugins
      BY DEF CallRec, PluginNames, SlotInv, HostTyped, Managed
    <2>2. call[c].pc = "idle" /\ call' = [call EXCEPT ![c] = new] /\ sem' = sem /\ global' = global
      BY <1>1 DEF DispatchPick
    <2> HIDE DEF new
    <2>3. SemMoves(c, new)
      BY <1>0, <1>c, <2>1, <2>2 DEF SemMoves
    <2>4. GlobalMoves(c, new)
      BY <1>0, <1>c, <2>1, <2>2 DEF GlobalMoves
    <2> QED BY <1>0, <2>1, <2>2, <2>3, <2>4, SlotsMove
  <1>2. CASE AcquireSem(c)
    <2> DEFINE new == [call[c] EXCEPT !.pc = "global"]
               p == call[c].plugin
    <2>1. new \in CallRec /\ new.pc = "global" /\ new.plugin = p
      BY <1>c DEF CallRec
    <2>2. /\ call[c].pc = "sem" /\ call' = [call EXCEPT ![c] = new] /\ global' = global
          /\ sem[p] < PerCap /\ sem' = [sem EXCEPT ![p] = @ + 1]
      BY <1>0, <1>2 DEF AcquireSem
    <2>3. p \in Plugins
      BY <1>c, <2>2
    <2> HIDE DEF new, p
    <2>4. sem' \in [Plugins -> Nat] /\ \A q \in Plugins : sem'[q] = IF q = p THEN sem[q] + 1 ELSE sem[q]
      BY <1>0, <2>2, <2>3
    <2>5. \A q \in Plugins : sem'[q] <= PerCap
      BY <1>0, <1>b, <2>2, <2>4
    <2>6. c \notin Running /\ \A q \in Plugins : c \notin SemHolders(q)
      BY <1>c, <2>2
    <2>7. SemMoves(c, new)
      BY <1>0, <2>1, <2>4, <2>5, <2>6 DEF SemMoves
    <2>8. GlobalMoves(c, new)
      BY <1>0, <2>1, <2>2, <2>6 DEF GlobalMoves
    <2> QED BY <1>0, <2>1, <2>2, <2>3, <2>7, <2>8, SlotsMove
  <1>3. CASE AcquireGlobal(c)
    <2> DEFINE new == [call[c] EXCEPT !.pc = "run"]
    <2>1. new \in CallRec /\ new.pc = "run" /\ new.plugin = call[c].plugin
      BY <1>c DEF CallRec
    <2>2. /\ call[c].pc = "global" /\ call' = [call EXCEPT ![c] = new] /\ sem' = sem
          /\ global < GlobalCap /\ global' = global + 1
      BY <1>0, <1>3 DEF AcquireGlobal
    <2> HIDE DEF new
    <2>3. SemMoves(c, new)
      BY <1>0, <1>c, <2>1, <2>2 DEF SemMoves
    <2>4. GlobalMoves(c, new)
      BY <1>0, <1>b, <1>c, <2>1, <2>2 DEF GlobalMoves
    <2> QED BY <1>0, <1>c, <2>1, <2>2, <2>3, <2>4, SlotsMove
  <1>4. CASE ShedPerPlugin(c)
    <2>1. call[c].pc = "sem" /\ call' = [call EXCEPT ![c] = Idle] /\ sem' = sem /\ global' = global
      BY <1>4 DEF ShedPerPlugin
    <2>2. SemMoves(c, Idle)
      BY <1>0, <1>c, <2>1 DEF SemMoves
    <2>3. GlobalMoves(c, Idle)
      BY <1>0, <1>c, <2>1 DEF GlobalMoves
    <2> QED BY <1>0, <1>c, <2>1, <2>2, <2>3, SlotsMove
  <1>5. CASE ShedGlobal(c) \/ CallReturns(c)
    <2> DEFINE p == call[c].plugin
    <2>1. /\ call[c].pc \in {"global", "run"} /\ call' = [call EXCEPT ![c] = Idle]
          /\ sem' = [sem EXCEPT ![p] = @ - 1]
          /\ global' = IF call[c].pc = "run" THEN global - 1 ELSE global
      BY <1>5 DEF ShedGlobal, CallReturns
    <2>2. p \in Plugins
      BY <1>c, <2>1
    <2>3. sem[p] - 1 \in Nat /\ (call[c].pc = "run" => global - 1 \in Nat)
      BY <1>c, <1>h, <2>1, <2>2
    <2>4. /\ sem' \in [Plugins -> Nat]
          /\ \A q \in Plugins : sem'[q] = IF q = p THEN sem[q] - 1 ELSE sem[q]
      BY <1>0, <2>1, <2>2, <2>3
    <2>5. \A q \in Plugins : sem'[q] <= PerCap
      BY <1>0, <1>b, <2>4
    <2>6. \A q \in Plugins : c \in SemHolders(q) <=> q = p
      BY <1>c, <2>1
    <2> HIDE DEF p
    <2>7. SemMoves(c, Idle)
      BY <1>0, <1>c, <2>4, <2>5, <2>6 DEF SemMoves
    <2>8. GlobalMoves(c, Idle)
      BY <1>0, <1>b, <1>c, <2>1, <2>3 DEF GlobalMoves
    <2> QED BY <1>0, <1>c, <2>1, <2>7, <2>8, SlotsMove
  <1> QED BY <1>1, <1>2, <1>3, <1>4, <1>5 DEF Dispatch

\* Where the calls and the semaphores are left alone.
LEMMA SlotsKept ==
  ASSUME SlotInv, HostTyped', UNCHANGED <<call, sem, global>> PROVE SlotInv'
  BY DEF SlotInv, SlotsTyped, SlotsExact, Holders

\* All slots are free when no call is in the host.
LEMMA NoSlots ==
  ASSUME HostTyped, sem = [p \in Plugins |-> 0], global = 0, call = [c \in Calls |-> Idle]
  PROVE  SlotInv
  <1>1. Idle \in CallRec /\ Idle.pc = "idle"
    BY DEF Idle, CallRec, PluginNames
  <1>2. \A p \in Plugins : Holders(p, {"global", "run"}) = {}
    BY <1>1 DEF Holders
  <1>3. {c \in Calls : call[c].pc = "run"} = {}
    BY <1>1
  <1>4. SlotsTyped
    BY <1>1 DEF SlotsTyped
  <1>5. SlotsExact
    BY <1>2, <1>3, FS_EmptySet DEF SlotsExact
  <1> QED BY <1>4, <1>5, PluginBounds DEF SlotInv

\* Before the first boot no slot is taken.
LEMMA InitSlotInv == HostInit => SlotInv
  BY InitHostInv, NoSlots DEF HostInit, HostInv

\* Every step of the host keeps the slot counts.
LEMMA NextSlotInv == SlotInv /\ HostInv' /\ [HostNext]_hostVars => SlotInv'
  <1> SUFFICES ASSUME SlotInv, HostTyped', [HostNext]_hostVars PROVE SlotInv'
    BY DEF HostInv
  <1>1. ASSUME NEW bad \in SUBSET Plugins, NEW kept \in SUBSET Plugins,
               NEW disowned \in SUBSET Plugins, Boot(bad, kept, disowned)
        PROVE  SlotInv'
    BY <1>1, SlotsKept DEF Boot
  <1>2. CASE Stop
    BY <1>2, SlotsKept DEF Stop
  <1>3. ASSUME NEW survivors \in SUBSET Procs, HostEnds(survivors) PROVE SlotInv'
    <2>1. /\ sem' = [p \in Plugins |-> 0] /\ global' = 0 /\ call' = [c \in Calls |-> Idle]
      BY <1>3 DEF HostEnds
    <2>2. (/\ HostTyped /\ sem = [p \in Plugins |-> 0] /\ global = 0 /\ call = [c \in Calls |-> Idle]
           => SlotInv)'
      BY NoSlots, PTL
    <2> QED BY <2>1, <2>2
  <1>4. ASSUME NEW p \in Plugins, Supervisor(p) PROVE SlotInv'
    BY <1>4, SlotsKept DEF Supervisor, Launch, LaunchSucceeds, LaunchFails, Verify, BecomeReady,
       RegisterReady, ServeCrash, MarkUnhealthy, BackoffOrQuarantine, BackoffEnds, Deregister,
       Quarantine, ParkedStop, ReloadSucceeds, ReloadFails, SwapKill, ServeStop, Draining,
       Teardown, CallsUnchanged
  <1>5. ASSUME NEW p \in Plugins, Operator(p) PROVE SlotInv'
    BY <1>5, SlotsKept DEF Operator, ParkedReload, Reload, CallsUnchanged
  <1>6. ASSUME NEW k \in Procs, ProcExits(k) PROVE SlotInv'
    BY <1>6, SlotsKept DEF ProcExits
  <1>7. ASSUME NEW c \in Calls, Dispatch(c) \/ \E p \in Plugins : DispatchPick(c, p) PROVE SlotInv'
    <2>1. LoaderUnchanged
      BY <1>7 DEF Dispatch, DispatchPick, AcquireSem, AcquireGlobal, ShedPerPlugin, ShedGlobal, CallReturns
    <2> QED BY <1>7, <2>1, DispatchKeepsSlots
  <1>8. CASE UNCHANGED hostVars
    BY <1>8, SlotsKept DEF hostVars
  <1> QED BY <1>1, <1>2, <1>3, <1>4, <1>5, <1>6, <1>7, <1>8 DEF HostNext

(***************************************************************************)
(* The semaphores count exactly the calls that hold a slot, whatever path a  *)
(* call takes through dispatch and however the host ends, so no slot leaks   *)
(* (acquire, dispatch), for any finite set of callers and any caps.          *)
(***************************************************************************)
THEOREM SlotsAlwaysExact == HostSpec => []SlotsExact
  <1>1. SlotInv => SlotsExact
    BY DEF SlotInv
  <1>2. HostInv /\ SlotInv /\ [HostNext]_hostVars => (HostInv /\ SlotInv)'
    BY NextHostInv, NextSlotInv
  <1> QED BY <1>1, <1>2, InitHostInv, InitSlotInv, PTL DEF HostSpec

\* The budget: calls in a plugin at most its cap, calls in all plugins at most
\* the fd accountant's grant.
InBudget == /\ \A p \in Plugins : Cardinality(Holders(p, {"global", "run"})) <= PerCap
            /\ Cardinality({c \in Calls : call[c].pc = "run"}) <= GlobalCap

(***************************************************************************)
(* A plugin never has more calls in flight than OSCTF_PLUGIN_MAX_INFLIGHT,   *)
(* and all plugins together never more than the global grant (acquire), also *)
(* across crashes of the host.                                               *)
(***************************************************************************)
THEOREM AlwaysInBudget == HostSpec => []InBudget
  <1>1. SlotInv => InBudget
    BY DEF SlotInv, SlotsExact, InBudget
  <1>2. HostInv /\ SlotInv /\ [HostNext]_hostVars => (HostInv /\ SlotInv)'
    BY NextHostInv, NextSlotInv
  <1> QED BY <1>1, <1>2, InitHostInv, InitSlotInv, PTL DEF HostSpec

-----------------------------------------------------------------------------
(* The hub: its inductive invariant *)

HubFrame == [t : {"hello", "snap", "phase"}, n : Nat]
HubConn == [pc : {"idle", "accept", "register", "live", "unregister"}, key : Keys \cup {NoKey},
            queue : Seq(HubFrame), tailSnap : BOOLEAN, overflow : BOOLEAN, wake : BOOLEAN,
            gone : BOOLEAN, out : Seq(HubFrame), due : SUBSET Nat, seen : Seq(HubFrame)]

HubTyped == /\ hub \in [up : BOOLEAN, clients : SUBSET Conns, last : Nat, pending : Nat]
            /\ incoming \in Seq(HubFrame) /\ made \in Nat
            /\ cl \in [Conns -> HubConn]

\* What a client gets, of its record.
StreamOf(k) == k.seen \o k.out \o k.queue

InOrder(s) == /\ \A i, j \in DOMAIN s : i < j => s[i].n <= s[j].n
              /\ \A i \in DOMAIN s : (s[i].t = "hello") <=> i = 1
UpTo(s, n) == \A i \in DOMAIN s : s[i].n <= n
Announces(s, n) == \E i \in DOMAIN s : s[i] = [t |-> "phase", n |-> n]

\* A client the hub has greeted.  tailSnap is TRUE only of a queue that ends in
\* a board, so coalescing overwrites neither a phase nor the greeting.
Greeted(k) == /\ StreamOf(k) # <<>> /\ InOrder(StreamOf(k))
              /\ ~k.overflow => \A n \in k.due : Announces(StreamOf(k), n)
              /\ k.tailSnap /\ k.queue # <<>> => k.queue[Len(k.queue)].t = "snap"

Untouched(k) == /\ k.queue = <<>> /\ k.out = <<>> /\ k.seen = <<>>
                /\ ~k.tailSnap /\ ~k.overflow /\ k.due = {}

\* What waits for the hub is newer than what it has handled.
ChannelOrder == /\ \A i, j \in DOMAIN incoming : i < j => incoming[i].n <= incoming[j].n
                /\ \A i \in DOMAIN incoming : hub.last <= incoming[i].n /\ incoming[i].n <= made
                /\ hub.last <= made /\ hub.pending \in {0, hub.last}

\* What waits for the hub is newer than what a client has.
NotBeyond(s) == /\ UpTo(s, made)
                /\ hub.pending # 0 => UpTo(s, hub.pending)
                /\ \A i \in DOMAIN incoming : UpTo(s, incoming[i].n)

ClientKept(c) ==
    /\ cl[c].pc = "live" => Greeted(cl[c]) /\ NotBeyond(StreamOf(cl[c]))
    /\ cl[c].pc \in {"idle", "accept", "register"} => /\ Untouched(cl[c])
                                                      /\ ~(hub.up /\ c \in hub.clients)

HubInv == HubTyped /\ ChannelOrder /\ \A c \in Conns : ClientKept(c)

-----------------------------------------------------------------------------
(* The hub: streams *)

\* The stream of a record is a sequence of frames.
LEMMA StreamTyped ==
  ASSUME NEW k \in HubConn
  PROVE  /\ StreamOf(k) \in Seq(HubFrame) /\ k.seen \in Seq(HubFrame)
         /\ k.out \in Seq(HubFrame) /\ k.queue \in Seq(HubFrame)
         /\ k.seen \o k.out \in Seq(HubFrame)
  <1>1. /\ k.seen \in Seq(HubFrame) /\ k.out \in Seq(HubFrame) /\ k.queue \in Seq(HubFrame)
    BY DEF HubConn
  <1>2. k.seen \o k.out \in Seq(HubFrame)
    BY <1>1, ConcatProperties
  <1> QED BY <1>1, <1>2, ConcatProperties DEF StreamOf

\* A frame at the end of the queue is one at the end of the stream.
LEMMA StreamAppends ==
  ASSUME NEW a \in Seq(HubFrame), NEW q \in Seq(HubFrame), NEW f \in HubFrame
  PROVE  a \o Append(q, f) = Append(a \o q, f)
  <1>1. /\ Append(q, f) = q \o <<f>> /\ <<f>> \in Seq(HubFrame)
        /\ a \o q \in Seq(HubFrame)
    BY AppendIsConcat, ConcatProperties
  <1>2. Append(a \o q, f) = (a \o q) \o <<f>>
    BY <1>1, AppendIsConcat
  <1> QED BY <1>1, <1>2, ConcatAssociative

\* The queue with another last frame.
LEMMA LastReplaced ==
  ASSUME NEW q \in Seq(HubFrame), q # <<>>, NEW f \in HubFrame
  PROVE  LET r == [q EXCEPT ![Len(q)] = f]
         IN /\ r \in Seq(HubFrame) /\ Len(r) = Len(q) /\ r[Len(q)] = f
            /\ \A i \in 1..(Len(q) - 1) : r[i] = q[i]
  <1>1. Len(q) \in Nat \ {0}
    BY EmptySeq
  <1>2. Len(q) \in 1..Len(q)
    BY <1>1
  <1>3. /\ [q EXCEPT ![Len(q)] = f] \in Seq(HubFrame)
        /\ Len([q EXCEPT ![Len(q)] = f]) = Len(q)
        /\ \A i \in 1..Len(q) : [q EXCEPT ![Len(q)] = f][i] = IF i = Len(q) THEN f ELSE q[i]
    BY <1>2, ExceptSeq
  <1> DEFINE r == [q EXCEPT ![Len(q)] = f]
  <1>4. /\ r \in Seq(HubFrame) /\ Len(r) = Len(q)
        /\ \A i \in 1..Len(q) : r[i] = IF i = Len(q) THEN f ELSE q[i]
    BY <1>3
  <1> HIDE DEF r
  <1>5. r[Len(q)] = f /\ \A i \in 1..(Len(q) - 1) : r[i] = q[i]
    BY <1>1, <1>4
  <1> QED BY <1>4, <1>5 DEF r

\* A frame in place of the queue's last is one in place of the stream's last.
LEMMA StreamReplaces ==
  ASSUME NEW a \in Seq(HubFrame), NEW q \in Seq(HubFrame), q # <<>>, NEW f \in HubFrame,
         NEW r \in Seq(HubFrame), Len(r) = Len(q), r[Len(q)] = f,
         \A i \in 1..(Len(q) - 1) : r[i] = q[i]
  PROVE  /\ Len(a \o r) = Len(a \o q) /\ (a \o r)[Len(a \o q)] = f
         /\ \A i \in 1..(Len(a \o q) - 1) : (a \o r)[i] = (a \o q)[i]
         /\ (a \o q)[Len(a \o q)] = q[Len(q)] /\ Len(a \o q) \in Nat \ {0}
  <1>1. Len(q) \in Nat \ {0} /\ Len(a) \in Nat
    BY EmptySeq, LenProperties
  <1>2. /\ Len(a \o q) = Len(a) + Len(q)
        /\ \A i \in 1..(Len(a) + Len(q)) : (a \o q)[i] = IF i <= Len(a) THEN a[i] ELSE q[i - Len(a)]
    BY ConcatProperties
  <1>3. /\ Len(a \o r) = Len(a) + Len(q)
        /\ \A i \in 1..(Len(a) + Len(q)) : (a \o r)[i] = IF i <= Len(a) THEN a[i] ELSE r[i - Len(a)]
    <2>1. /\ Len(a \o r) = Len(a) + Len(r)
          /\ \A i \in 1..(Len(a) + Len(r)) : (a \o r)[i] = IF i <= Len(a) THEN a[i] ELSE r[i - Len(a)]
      BY ConcatProperties
    <2> QED BY <2>1
  <1>4. /\ (a \o r)[Len(a) + Len(q)] = f /\ (a \o q)[Len(a) + Len(q)] = q[Len(q)]
    BY <1>1, <1>2, <1>3
  <1>5. \A i \in 1..(Len(a) + Len(q) - 1) : (a \o r)[i] = (a \o q)[i]
    <2> SUFFICES ASSUME NEW i \in 1..(Len(a) + Len(q) - 1) PROVE (a \o r)[i] = (a \o q)[i]
      OBVIOUS
    <2>1. CASE i <= Len(a)
      BY <1>1, <1>2, <1>3, <2>1
    <2>2. CASE ~(i <= Len(a))
      <3>1. i - Len(a) \in 1..(Len(q) - 1)
        BY <1>1, <2>2
      <3> QED BY <1>1, <1>2, <1>3, <2>2, <3>1
    <2> QED BY <2>1, <2>2
  <1> QED BY <1>1, <1>2, <1>3, <1>4, <1>5

\* A newer frame at the end keeps the order ...
LEMMA OrderAppends ==
  ASSUME NEW s \in Seq(HubFrame), s # <<>>, InOrder(s), NEW f \in HubFrame, f.t # "hello",
         UpTo(s, f.n)
  PROVE  LET e == Append(s, f)
         IN /\ e # <<>> /\ InOrder(e) /\ UpTo(e, f.n)
            /\ \A n : Announces(s, n) => Announces(e, n)
            /\ f.t = "phase" => Announces(e, f.n)
  <1> DEFINE e == Append(s, f)
  <1>1. /\ e \in Seq(HubFrame) /\ e # <<>> /\ Len(e) = Len(s) + 1 /\ e[Len(s) + 1] = f
        /\ \A i \in 1..Len(s) : e[i] = s[i]
    BY AppendProperties
  <1>2. /\ Len(s) \in Nat \ {0} /\ DOMAIN s = 1..Len(s) /\ DOMAIN e = 1..(Len(s) + 1)
    BY <1>1, EmptySeq, LenProperties
  <1>3. \A i \in DOMAIN s : s[i] \in HubFrame
    BY <1>2, ElementOfSeq
  <1> HIDE DEF e
  <1>4. UpTo(e, f.n)
    BY <1>1, <1>2, <1>3 DEF UpTo, HubFrame
  <1>5. InOrder(e)
    <2>1. ASSUME NEW i \in DOMAIN e, NEW j \in DOMAIN e, i < j PROVE e[i].n <= e[j].n
      <3>1. i \in 1..Len(s) /\ e[i] = s[i]
        BY <1>1, <1>2, <2>1
      <3>2. CASE j = Len(s) + 1
        BY <1>1, <1>2, <3>1, <3>2 DEF UpTo
      <3>3. CASE j # Len(s) + 1
        <4>1. j \in 1..Len(s) /\ e[j] = s[j]
          BY <1>1, <1>2, <3>3
        <4> QED BY <1>2, <2>1, <3>1, <4>1 DEF InOrder
      <3> QED BY <3>2, <3>3
    <2>2. ASSUME NEW i \in DOMAIN e PROVE (e[i].t = "hello") <=> i = 1
      <3>1. CASE i = Len(s) + 1
        BY <1>1, <1>2, <3>1
      <3>2. CASE i # Len(s) + 1
        <4>1. i \in 1..Len(s) /\ e[i] = s[i]
          BY <1>1, <1>2, <3>2
        <4> QED BY <1>2, <4>1 DEF InOrder
      <3> QED BY <3>1, <3>2
    <2> QED BY <2>1, <2>2 DEF InOrder
  <1>6. ASSUME NEW n, Announces(s, n) PROVE Announces(e, n)
    BY <1>1, <1>2, <1>6 DEF Announces
  <1>7. ASSUME f.t = "phase" PROVE Announces(e, f.n)
    <2>1. f = [t |-> "phase", n |-> f.n]
      BY <1>7 DEF HubFrame
    <2> QED BY <1>1, <1>2, <2>1 DEF Announces
  <1> QED BY <1>1, <1>4, <1>5, <1>6, <1>7 DEF e

\* ... and so does a newer board in place of a board at the end.
LEMMA OrderReplaces ==
  ASSUME NEW s \in Seq(HubFrame), InOrder(s), NEW f \in HubFrame, f.t # "hello", UpTo(s, f.n),
         NEW e \in Seq(HubFrame), Len(e) = Len(s), Len(s) \in Nat \ {0}, e[Len(s)] = f,
         \A i \in 1..(Len(s) - 1) : e[i] = s[i], s[Len(s)].t = "snap"
  PROVE  /\ e # <<>> /\ InOrder(e) /\ UpTo(e, f.n)
         /\ \A n : Announces(s, n) => Announces(e, n)
  <1>1. DOMAIN s = 1..Len(s) /\ DOMAIN e = 1..Len(s) /\ e # <<>>
    BY LenProperties, EmptySeq
  <1>2. \A i \in DOMAIN s : s[i] \in HubFrame
    BY <1>1, ElementOfSeq
  <1>3. Len(s) # 1
    BY <1>1 DEF InOrder
  <1>4. UpTo(e, f.n)
    BY <1>1, <1>2 DEF UpTo, HubFrame
  <1>5. InOrder(e)
    <2>1. ASSUME NEW i \in DOMAIN e, NEW j \in DOMAIN e, i < j PROVE e[i].n <= e[j].n
      <3>1. i \in 1..(Len(s) - 1) /\ e[i] = s[i]
        BY <1>1, <2>1
      <3>2. CASE j = Len(s)
        BY <1>1, <3>1, <3>2 DEF UpTo
      <3>3. CASE j # Len(s)
        <4>1. j \in 1..(Len(s) - 1) /\ e[j] = s[j]
          BY <1>1, <3>3
        <4> QED BY <1>1, <2>1, <3>1, <4>1 DEF InOrder
      <3> QED BY <3>2, <3>3
    <2>2. ASSUME NEW i \in DOMAIN e PROVE (e[i].t = "hello") <=> i = 1
      <3>1. CASE i = Len(s)
        BY <1>1, <1>3, <3>1
      <3>2. CASE i # Len(s)
        <4>1. i \in 1..(Len(s) - 1) /\ e[i] = s[i]
          BY <1>1, <3>2
        <4> QED BY <1>1, <4>1 DEF InOrder
      <3> QED BY <3>1, <3>2
    <2> QED BY <2>1, <2>2 DEF InOrder
  <1>6. ASSUME NEW n, Announces(s, n) PROVE Announces(e, n)
    <2>1. PICK i \in DOMAIN s : s[i] = [t |-> "phase", n |-> n]
      BY <1>6 DEF Announces
    <2>2. i # Len(s)
      BY <2>1
    <2>3. i \in 1..(Len(s) - 1)
      BY <1>1, <2>2
    <2> QED BY <1>1, <2>1, <2>3 DEF Announces
  <1> QED BY <1>1, <1>4, <1>5, <1>6

-----------------------------------------------------------------------------
(* The hub: enqueue *)

\* enqueue keeps a client's record one, and its place.
LEMMA EnqueueTyped ==
  ASSUME NEW k \in HubConn, NEW f \in HubFrame
  PROVE  LET e == Enqueue(k, f)
         IN /\ e \in HubConn /\ e.pc = k.pc /\ e.key = k.key /\ e.due = k.due
            /\ e.seen = k.seen /\ e.out = k.out
            /\ \/ /\ f.t = "snap" /\ k.tailSnap /\ k.queue # <<>>
                  /\ e.queue = [k.queue EXCEPT ![Len(k.queue)] = f]
                  /\ e.tailSnap = k.tailSnap /\ e.overflow = k.overflow
               \/ e.queue = k.queue /\ e.tailSnap = k.tailSnap /\ e.overflow = TRUE
               \/ /\ e.queue = Append(k.queue, f) /\ e.tailSnap = (f.t = "snap")
                  /\ e.overflow = k.overflow
  <1>0. k.queue \in Seq(HubFrame)
    BY DEF HubConn
  <1> DEFINE coalesces == f.t = "snap" /\ k.tailSnap /\ k.queue # <<>>
  <1>1. CASE coalesces
    <2> DEFINE q == [k.queue EXCEPT ![Len(k.queue)] = f]
    <2>1. Enqueue(k, f) = [[k EXCEPT !.queue = q] EXCEPT !.wake = TRUE]
      BY <1>1 DEF Enqueue, HubConn
    <2>2. q \in Seq(HubFrame)
      BY <1>0, <1>1, LastReplaced
    <2> HIDE DEF q
    <2>3. /\ Enqueue(k, f) \in HubConn /\ Enqueue(k, f).queue = q
          /\ Enqueue(k, f).pc = k.pc /\ Enqueue(k, f).key = k.key /\ Enqueue(k, f).due = k.due
          /\ Enqueue(k, f).seen = k.seen /\ Enqueue(k, f).out = k.out
          /\ Enqueue(k, f).tailSnap = k.tailSnap /\ Enqueue(k, f).overflow = k.overflow
      BY <2>1, <2>2 DEF HubConn
    <2> QED BY <1>1, <2>3 DEF q
  <1>2. CASE ~coalesces /\ Len(k.queue) >= ClientQueueCap
    <2>1. Enqueue(k, f) = [[k EXCEPT !.overflow = TRUE] EXCEPT !.wake = TRUE]
      BY <1>2 DEF Enqueue
    <2>3. /\ Enqueue(k, f) \in HubConn /\ Enqueue(k, f).queue = k.queue
          /\ Enqueue(k, f).pc = k.pc /\ Enqueue(k, f).key = k.key /\ Enqueue(k, f).due = k.due
          /\ Enqueue(k, f).seen = k.seen /\ Enqueue(k, f).out = k.out
          /\ Enqueue(k, f).tailSnap = k.tailSnap /\ Enqueue(k, f).overflow = TRUE
      BY <2>1 DEF HubConn
    <2> QED BY <2>3
  <1>3. CASE ~coalesces /\ ~(Len(k.queue) >= ClientQueueCap)
    <2> DEFINE q == Append(k.queue, f)
               b == (f.t = "snap")
    <2>1. Enqueue(k, f) = [[k EXCEPT !.queue = q, !.tailSnap = b] EXCEPT !.wake = TRUE]
      BY <1>3 DEF Enqueue
    <2>2. q \in Seq(HubFrame) /\ b \in BOOLEAN
      BY <1>0, AppendProperties
    <2> HIDE DEF q, b
    <2>3. /\ Enqueue(k, f) \in HubConn /\ Enqueue(k, f).queue = q
          /\ Enqueue(k, f).pc = k.pc /\ Enqueue(k, f).key = k.key /\ Enqueue(k, f).due = k.due
          /\ Enqueue(k, f).seen = k.seen /\ Enqueue(k, f).out = k.out
          /\ Enqueue(k, f).tailSnap = b /\ Enqueue(k, f).overflow = k.overflow
      BY <2>1, <2>2 DEF HubConn
    <2> QED BY <2>3 DEF q, b
  <1> QED BY <1>1, <1>2, <1>3

\* enqueue of a frame that is not older keeps what the client gets in order and
\* complete, and a phase is announced unless the client is marked.
LEMMA EnqueueKeeps ==
  ASSUME NEW k \in HubConn, NEW f \in HubFrame, f.t # "hello", Greeted(k), UpTo(StreamOf(k), f.n)
  PROVE  LET e == Enqueue(k, f)
         IN /\ Greeted(e) /\ UpTo(StreamOf(e), f.n)
            /\ f.t = "phase" /\ ~e.overflow => Announces(StreamOf(e), f.n)
  <1> DEFINE e == Enqueue(k, f)
             a == k.seen \o k.out
  <1>0. /\ StreamOf(k) \in Seq(HubFrame) /\ k.queue \in Seq(HubFrame) /\ a \in Seq(HubFrame)
    BY StreamTyped
  <1>1. /\ e \in HubConn /\ e.due = k.due /\ e.seen = k.seen /\ e.out = k.out
        /\ \/ /\ f.t = "snap" /\ k.tailSnap /\ k.queue # <<>>
              /\ e.queue = [k.queue EXCEPT ![Len(k.queue)] = f]
              /\ e.tailSnap = k.tailSnap /\ e.overflow = k.overflow
           \/ e.queue = k.queue /\ e.tailSnap = k.tailSnap /\ e.overflow = TRUE
           \/ /\ e.queue = Append(k.queue, f) /\ e.tailSnap = (f.t = "snap")
              /\ e.overflow = k.overflow
    BY EnqueueTyped
  <1>2. StreamOf(e) = a \o e.queue /\ StreamOf(k) = a \o k.queue
    BY <1>1 DEF StreamOf
  <1> HIDE DEF e, a
  <1>3. CASE /\ f.t = "snap" /\ k.tailSnap /\ k.queue # <<>>
             /\ e.queue = [k.queue EXCEPT ![Len(k.queue)] = f]
             /\ e.tailSnap = k.tailSnap /\ e.overflow = k.overflow
    <2>1. /\ e.queue \in Seq(HubFrame) /\ Len(e.queue) = Len(k.queue) /\ e.queue[Len(k.queue)] = f
          /\ \A i \in 1..(Len(k.queue) - 1) : e.queue[i] = k.queue[i]
      BY <1>0, <1>3, LastReplaced
    <2>2. /\ Len(a \o e.queue) = Len(a \o k.queue) /\ (a \o e.queue)[Len(a \o k.queue)] = f
          /\ \A i \in 1..(Len(a \o k.queue) - 1) : (a \o e.queue)[i] = (a \o k.queue)[i]
          /\ (a \o k.queue)[Len(a \o k.queue)] = k.queue[Len(k.queue)]
          /\ Len(a \o k.queue) \in Nat \ {0}
      BY <1>0, <1>3, <2>1, StreamReplaces
    <2>3. a \o e.queue \in Seq(HubFrame) /\ k.queue[Len(k.queue)].t = "snap"
      BY <1>0, <1>3, <2>1, ConcatProperties DEF Greeted
    <2>4. /\ StreamOf(e) # <<>> /\ InOrder(StreamOf(e)) /\ UpTo(StreamOf(e), f.n)
          /\ \A n : Announces(StreamOf(k), n) => Announces(StreamOf(e), n)
      BY <1>0, <1>2, <2>2, <2>3, OrderReplaces DEF Greeted
    <2> QED BY <1>1, <1>3, <2>1, <2>4 DEF Greeted, e
  <1>4. CASE e.queue = k.queue /\ e.tailSnap = k.tailSnap /\ e.overflow = TRUE
    BY <1>1, <1>2, <1>4 DEF Greeted, e
  <1>5. CASE /\ e.queue = Append(k.queue, f) /\ e.tailSnap = (f.t = "snap")
             /\ e.overflow = k.overflow
    <2>1. StreamOf(e) = Append(StreamOf(k), f)
      BY <1>0, <1>2, <1>5, StreamAppends
    <2>2. /\ StreamOf(e) # <<>> /\ InOrder(StreamOf(e)) /\ UpTo(StreamOf(e), f.n)
          /\ \A n : Announces(StreamOf(k), n) => Announces(StreamOf(e), n)
          /\ f.t = "phase" => Announces(StreamOf(e), f.n)
      BY <1>0, <2>1, OrderAppends DEF Greeted
    <2>3. e.queue[Len(e.queue)] = f
      BY <1>0, <1>5, AppendProperties
    <2> QED BY <1>1, <1>5, <2>2, <2>3 DEF Greeted, e
  <1> QED BY <1>1, <1>3, <1>4, <1>5

-----------------------------------------------------------------------------
(* The hub: its goroutine's steps *)

\* The frames of a sequence are numbered.
LEMMA FramesNumbered ==
  ASSUME NEW s \in Seq(HubFrame), NEW i \in DOMAIN s
  PROVE  s[i] \in HubFrame /\ s[i].n \in Nat
  <1>1. i \in 1..Len(s)
    BY LenProperties
  <1>2. s[i] \in HubFrame
    BY <1>1, ElementOfSeq
  <1> QED BY <1>2 DEF HubFrame

\* A later bound is a bound.
LEMMA UpToLater ==
  ASSUME NEW s \in Seq(HubFrame), NEW m \in Nat, NEW n \in Nat, m <= n, UpTo(s, m)
  PROVE  UpTo(s, n)
  <1>1. \A i \in DOMAIN s : s[i].n \in Nat
    BY FramesNumbered
  <1> QED BY <1>1 DEF UpTo

\* The frame the hub takes from the channel, and those behind it.
LEMMA HeadFirst ==
  ASSUME HubInv, incoming # <<>>
  PROVE  /\ Head(incoming) \in HubFrame /\ Head(incoming).n \in Nat
         /\ hub.last <= Head(incoming).n /\ Head(incoming).n <= made
         /\ Tail(incoming) \in Seq(HubFrame)
         /\ \A i \in DOMAIN Tail(incoming) : /\ Tail(incoming)[i].n \in Nat
                                             /\ Head(incoming).n <= Tail(incoming)[i].n
                                             /\ Tail(incoming)[i].n <= made
         /\ \A i, j \in DOMAIN Tail(incoming) : i < j => Tail(incoming)[i].n <= Tail(incoming)[j].n
         /\ \A c \in Conns : cl[c].pc = "live" => UpTo(StreamOf(cl[c]), Head(incoming).n)
  <1>1. /\ incoming \in Seq(HubFrame) /\ Len(incoming) \in Nat \ {0}
        /\ DOMAIN incoming = 1..Len(incoming)
        /\ Head(incoming) = incoming[1] /\ 1 \in DOMAIN incoming
    BY EmptySeq, LenProperties DEF HubInv, HubTyped
  <1>2. \A i \in DOMAIN incoming : incoming[i] \in HubFrame /\ incoming[i].n \in Nat
    BY <1>1, FramesNumbered
  <1>3. /\ Tail(incoming) \in Seq(HubFrame) /\ Len(Tail(incoming)) = Len(incoming) - 1
        /\ \A i \in 1..Len(Tail(incoming)) : Tail(incoming)[i] = incoming[i + 1]
    BY <1>1, HeadTailProperties
  <1>4. DOMAIN Tail(incoming) = 1..(Len(incoming) - 1)
    BY <1>1, <1>3, LenProperties
  <1>5. \A i \in DOMAIN Tail(incoming) : /\ i + 1 \in DOMAIN incoming /\ 1 < i + 1
                                         /\ Tail(incoming)[i] = incoming[i + 1]
    BY <1>1, <1>3, <1>4
  <1>6. \A i \in DOMAIN Tail(incoming) : /\ Tail(incoming)[i].n \in Nat
                                         /\ incoming[1].n <= Tail(incoming)[i].n
                                         /\ Tail(incoming)[i].n <= made
    BY <1>1, <1>2, <1>5 DEF HubInv, ChannelOrder
  <1>7. \A i, j \in DOMAIN Tail(incoming) : i < j => Tail(incoming)[i].n <= Tail(incoming)[j].n
    <2> SUFFICES ASSUME NEW i \in DOMAIN Tail(incoming), NEW j \in DOMAIN Tail(incoming), i < j
                 PROVE  Tail(incoming)[i].n <= Tail(incoming)[j].n
      OBVIOUS
    <2>1. i + 1 < j + 1
      BY <1>1, <1>4
    <2> QED BY <1>5, <2>1 DEF HubInv, ChannelOrder
  <1>8. hub.last <= incoming[1].n /\ incoming[1].n <= made
    BY <1>1 DEF HubInv, ChannelOrder
  <1>9. \A c \in Conns : cl[c].pc = "live" => UpTo(StreamOf(cl[c]), incoming[1].n)
    BY <1>1 DEF HubInv, ClientKept, NotBeyond
  <1> QED BY <1>1, <1>2, <1>3, <1>6, <1>7, <1>8, <1>9

\* A step of the hub that reaches the registered clients only.
LEMMA FanoutKeeps ==
  ASSUME HubInv, hub.up, hub' \in [up : BOOLEAN, clients : SUBSET Conns, last : Nat, pending : Nat],
         hub'.clients = hub.clients, incoming' \in Seq(HubFrame), made' \in Nat, ChannelOrder',
         cl' \in [Conns -> HubConn],
         \A c \in Conns : /\ cl'[c].pc = cl[c].pc
                          /\ c \notin hub.clients => cl'[c] = cl[c]
                          /\ cl[c].pc = "live" => Greeted(cl'[c]) /\ NotBeyond(StreamOf(cl[c]))'
  PROVE  HubInv'
  <1>1. HubTyped'
    BY DEF HubTyped
  <1>2. ASSUME NEW c \in Conns PROVE ClientKept(c)'
    <2>1. cl[c].pc \in {"idle", "accept", "register"} => Untouched(cl[c]) /\ c \notin hub.clients
      BY DEF HubInv, ClientKept
    <2>2. (cl[c].pc = "live")' => (Greeted(cl[c]) /\ NotBeyond(StreamOf(cl[c])))'
      BY DEF Greeted
    <2>3. (cl[c].pc \in {"idle", "accept", "register"})' => (Untouched(cl[c]) /\ ~(hub.up /\ c \in hub.clients))'
      BY <2>1
    <2> QED BY <2>2, <2>3 DEF ClientKept
  <1> QED BY <1>1, <1>2 DEF HubInv

\* HubSnapshot: kept for greetings, fanned out now or left to the timer.
LEMMA HubSnapshotKeeps ==
  ASSUME HubInv, NEW now \in BOOLEAN, HubSnapshot(now) PROVE HubInv'
  <1> DEFINE n == Head(incoming).n
  <1>0. /\ HubTyped /\ hub.up /\ incoming # <<>> /\ incoming' = Tail(incoming) /\ made' = made
    BY DEF HubInv, HubSnapshot
  <1>1. /\ n \in Nat /\ hub.last <= n /\ n <= made
        /\ Tail(incoming) \in Seq(HubFrame)
        /\ \A i \in DOMAIN Tail(incoming) : /\ Tail(incoming)[i].n \in Nat /\ n <= Tail(incoming)[i].n
                                            /\ Tail(incoming)[i].n <= made
        /\ \A i, j \in DOMAIN Tail(incoming) : i < j => Tail(incoming)[i].n <= Tail(incoming)[j].n
        /\ \A c \in Conns : cl[c].pc = "live" => UpTo(StreamOf(cl[c]), n)
    BY <1>0, HeadFirst
  <1>2. hub' = [hub EXCEPT !.last = n, !.pending = IF now THEN 0 ELSE n]
    BY DEF HubSnapshot
  <1>c. cl' = IF now THEN [c \in Conns |-> IF c \in hub.clients THEN Enqueue(cl[c], Snap(n)) ELSE cl[c]]
              ELSE cl
    BY DEF HubSnapshot, Fanout
  <1> HIDE DEF n
  <1>3. /\ hub' \in [up : BOOLEAN, clients : SUBSET Conns, last : Nat, pending : Nat]
        /\ hub'.clients = hub.clients /\ hub'.last = n /\ hub'.pending = IF now THEN 0 ELSE n
    BY <1>0, <1>1, <1>2 DEF HubTyped
  <1>4. ChannelOrder'
    BY <1>0, <1>1, <1>3 DEF ChannelOrder
  <1>5. Snap(n) \in HubFrame /\ Snap(n).n = n /\ Snap(n).t = "snap"
    BY <1>1 DEF Snap, HubFrame
  <1>6. ASSUME NEW c \in Conns
        PROVE  /\ cl'[c] \in HubConn /\ cl'[c].pc = cl[c].pc
               /\ c \notin hub.clients => cl'[c] = cl[c]
               /\ cl[c].pc = "live" => Greeted(cl'[c]) /\ UpTo(StreamOf(cl'[c]), n)
    <2>1. cl[c] \in HubConn /\ (cl[c].pc = "live" => Greeted(cl[c]) /\ UpTo(StreamOf(cl[c]), n))
      BY <1>0, <1>1 DEF HubTyped, HubInv, ClientKept
    <2>2. \/ cl'[c] = cl[c]
          \/ c \in hub.clients /\ cl'[c] = Enqueue(cl[c], Snap(n))
      BY <1>c
    <2>3. CASE cl'[c] = cl[c]
      BY <2>1, <2>3
    <2>4. CASE c \in hub.clients /\ cl'[c] = Enqueue(cl[c], Snap(n))
      <3>1. Enqueue(cl[c], Snap(n)) \in HubConn /\ Enqueue(cl[c], Snap(n)).pc = cl[c].pc
        BY <1>5, <2>1, EnqueueTyped
      <3>2. cl[c].pc = "live" => /\ Greeted(Enqueue(cl[c], Snap(n)))
                                 /\ UpTo(StreamOf(Enqueue(cl[c], Snap(n))), n)
        BY <1>5, <2>1, EnqueueKeeps
      <3> QED BY <2>4, <3>1, <3>2
    <2> QED BY <2>2, <2>3, <2>4
  <1>7. cl' \in [Conns -> HubConn]
    BY <1>0, <1>6, <1>c DEF HubTyped
  <1>8. ASSUME NEW c \in Conns, cl[c].pc = "live" PROVE NotBeyond(StreamOf(cl[c]))'
    <2>1. StreamOf(cl'[c]) \in Seq(HubFrame) /\ UpTo(StreamOf(cl'[c]), n)
      BY <1>6, <1>8, StreamTyped
    <2>2. made \in Nat
      BY <1>0 DEF HubTyped
    <2>3. UpTo(StreamOf(cl'[c]), made')
      BY <1>0, <1>1, <2>1, <2>2, UpToLater
    <2>4. \A i \in DOMAIN incoming' : UpTo(StreamOf(cl'[c]), incoming'[i].n)
      BY <1>0, <1>1, <2>1, UpToLater
    <2>5. hub'.pending # 0 => UpTo(StreamOf(cl'[c]), hub'.pending)
      BY <1>3, <2>1
    <2> QED BY <2>3, <2>4, <2>5 DEF NotBeyond, StreamOf, UpTo
  <1> QED BY <1>0, <1>1, <1>3, <1>4, <1>6, <1>7, <1>8, FanoutKeeps DEF HubTyped

\* flush keeps a client's record and its order.
LEMMA FlushedKeeps ==
  ASSUME HubInv, NEW c \in Conns
  PROVE  /\ Flushed(cl[c]) \in HubConn /\ Flushed(cl[c]).pc = cl[c].pc
         /\ cl[c].pc = "live" =>
               /\ Greeted(Flushed(cl[c]))
               /\ UpTo(StreamOf(Flushed(cl[c])), made)
               /\ \A i \in DOMAIN incoming : UpTo(StreamOf(Flushed(cl[c])), incoming[i].n)
  <1>1. /\ cl[c] \in HubConn /\ hub.pending \in Nat /\ made \in Nat
        /\ incoming \in Seq(HubFrame)
    BY DEF HubInv, HubTyped
  <1>2. cl[c].pc = "live" => Greeted(cl[c]) /\ NotBeyond(StreamOf(cl[c]))
    BY DEF HubInv, ClientKept
  <1>3. CASE hub.pending = 0
    BY <1>1, <1>2, <1>3 DEF Flushed, NotBeyond
  <1>4. CASE hub.pending # 0
    <2> DEFINE e == Enqueue(cl[c], Snap(hub.pending))
    <2>1. Snap(hub.pending) \in HubFrame /\ Snap(hub.pending).n = hub.pending /\ Snap(hub.pending).t = "snap"
      BY <1>1 DEF Snap, HubFrame
    <2>2. Flushed(cl[c]) = e
      BY <1>4 DEF Flushed
    <2>3. e \in HubConn /\ e.pc = cl[c].pc
      BY <1>1, <2>1, EnqueueTyped
    <2>4. ASSUME cl[c].pc = "live" PROVE Greeted(e) /\ UpTo(StreamOf(e), hub.pending)
      <3>1. Greeted(cl[c]) /\ UpTo(StreamOf(cl[c]), hub.pending)
        BY <1>2, <1>4, <2>4 DEF NotBeyond
      <3> QED BY <1>1, <2>1, <3>1, EnqueueKeeps
    <2>5. /\ hub.pending <= made
          /\ \A i \in DOMAIN incoming : hub.pending <= incoming[i].n
      BY <1>4 DEF HubInv, ChannelOrder
    <2>6. \A i \in DOMAIN incoming : incoming[i].n \in Nat
      BY <1>1, FramesNumbered
    <2>7. StreamOf(e) \in Seq(HubFrame)
      BY <2>3, StreamTyped
    <2> HIDE DEF e
    <2> QED BY <1>1, <2>2, <2>3, <2>4, <2>5, <2>6, <2>7, UpToLater
  <1> QED BY <1>3, <1>4

\* A phase frame reaches the client, unless it is marked for disconnection.
LEMMA AnnouncedKeeps ==
  ASSUME NEW k \in HubConn, NEW f \in HubFrame, f.t = "phase"
  PROVE  /\ Announced(k, f) \in HubConn /\ Announced(k, f).pc = k.pc
         /\ Greeted(k) /\ UpTo(StreamOf(k), f.n) =>
               Greeted(Announced(k, f)) /\ UpTo(StreamOf(Announced(k, f)), f.n)
  <1> DEFINE e == Enqueue(k, f)
             a == [e EXCEPT !.due = @ \cup {f.n}]
  <1>1. e \in HubConn /\ e.pc = k.pc
    BY EnqueueTyped
  <1>2. f.n \in Nat
    BY DEF HubFrame
  <1>3. Greeted(k) /\ UpTo(StreamOf(k), f.n) =>
           /\ Greeted(e) /\ UpTo(StreamOf(e), f.n)
           /\ ~e.overflow => Announces(StreamOf(e), f.n)
    BY EnqueueKeeps
  <1>4. Announced(k, f) = a
    BY DEF Announced
  <1> HIDE DEF e
  <1>5. /\ a \in HubConn /\ a.pc = e.pc /\ a.seen = e.seen /\ a.out = e.out /\ a.queue = e.queue
        /\ a.overflow = e.overflow /\ a.tailSnap = e.tailSnap /\ a.due = e.due \cup {f.n}
    BY <1>1, <1>2 DEF HubConn
  <1> HIDE DEF a
  <1>6. StreamOf(a) = StreamOf(e)
    BY <1>5 DEF StreamOf
  <1>7. Greeted(k) /\ UpTo(StreamOf(k), f.n) => Greeted(a)
    BY <1>3, <1>5, <1>6 DEF Greeted
  <1> QED BY <1>1, <1>3, <1>4, <1>5, <1>6, <1>7

\* HubPhase: the pending board first, then the phase.
LEMMA HubPhaseKeeps ==
  ASSUME HubInv, HubPhase PROVE HubInv'
  <1> DEFINE f == Head(incoming)
  <1>0. /\ HubTyped /\ hub.up /\ incoming # <<>> /\ incoming' = Tail(incoming) /\ made' = made
        /\ f.t = "phase"
    BY DEF HubInv, HubPhase
  <1>1. /\ f \in HubFrame /\ f.n \in Nat /\ hub.last <= f.n /\ f.n <= made
        /\ Tail(incoming) \in Seq(HubFrame)
        /\ \A i \in DOMAIN Tail(incoming) : /\ Tail(incoming)[i].n \in Nat /\ f.n <= Tail(incoming)[i].n
                                            /\ Tail(incoming)[i].n <= made
        /\ \A i, j \in DOMAIN Tail(incoming) : i < j => Tail(incoming)[i].n <= Tail(incoming)[j].n
    BY <1>0, HeadFirst
  <1>2. hub' = [hub EXCEPT !.pending = 0]
    BY DEF HubPhase
  <1>c. cl' = [c \in Conns |-> IF c \in hub.clients THEN Announced(Flushed(cl[c]), f) ELSE cl[c]]
    BY DEF HubPhase, Fanout
  <1>h. \A c \in Conns : cl[c].pc = "live" => /\ UpTo(StreamOf(cl[c]), f.n)
                                              /\ UpTo(StreamOf(Flushed(cl[c])), f.n)
    <2>1. 1 \in DOMAIN incoming /\ f = incoming[1]
      <3>1. incoming \in Seq(HubFrame)
        BY <1>0 DEF HubTyped
      <3>2. Len(incoming) \in Nat \ {0} /\ DOMAIN incoming = 1..Len(incoming)
        BY <1>0, <3>1, EmptySeq, LenProperties
      <3> QED BY <3>1, <3>2
    <2>2. \A c \in Conns : cl[c].pc = "live" => UpTo(StreamOf(Flushed(cl[c])), f.n)
      BY <2>1, FlushedKeeps
    <2> QED BY <1>0, <2>2, HeadFirst
  <1> HIDE DEF f
  <1>3. /\ hub' \in [up : BOOLEAN, clients : SUBSET Conns, last : Nat, pending : Nat]
        /\ hub'.clients = hub.clients /\ hub'.last = hub.last /\ hub'.pending = 0
    BY <1>0, <1>2 DEF HubTyped
  <1>n. hub.last \in Nat /\ made \in Nat /\ hub.last <= made
    BY <1>0 DEF HubTyped, HubInv, ChannelOrder
  <1>4. ChannelOrder'
    BY <1>0, <1>1, <1>3, <1>n DEF ChannelOrder
  <1>6. ASSUME NEW c \in Conns
        PROVE  /\ cl'[c] \in HubConn /\ cl'[c].pc = cl[c].pc
               /\ c \notin hub.clients => cl'[c] = cl[c]
               /\ cl[c].pc = "live" => Greeted(cl'[c]) /\ UpTo(StreamOf(cl'[c]), f.n)
    <2>1. cl[c] \in HubConn /\ (cl[c].pc = "live" => Greeted(cl[c]) /\ UpTo(StreamOf(cl[c]), f.n))
      BY <1>0, <1>h DEF HubTyped, HubInv, ClientKept
    <2>2. CASE c \notin hub.clients
      BY <1>c, <2>1, <2>2
    <2>3. CASE c \in hub.clients
      <3>1. /\ Flushed(cl[c]) \in HubConn /\ Flushed(cl[c]).pc = cl[c].pc
            /\ cl[c].pc = "live" => Greeted(Flushed(cl[c])) /\ UpTo(StreamOf(Flushed(cl[c])), f.n)
        BY <1>h, FlushedKeeps
      <3>2. /\ Announced(Flushed(cl[c]), f) \in HubConn
            /\ Announced(Flushed(cl[c]), f).pc = cl[c].pc
            /\ cl[c].pc = "live" => /\ Greeted(Announced(Flushed(cl[c]), f))
                                    /\ UpTo(StreamOf(Announced(Flushed(cl[c]), f)), f.n)
        BY <1>0, <1>1, <3>1, AnnouncedKeeps
      <3>3. cl'[c] = Announced(Flushed(cl[c]), f)
        BY <1>c, <2>3
      <3> QED BY <2>3, <3>2, <3>3
    <2> QED BY <2>2, <2>3
  <1>7. cl' \in [Conns -> HubConn]
    BY <1>6, <1>c
  <1>8. ASSUME NEW c \in Conns, cl[c].pc = "live" PROVE NotBeyond(StreamOf(cl[c]))'
    <2>1. StreamOf(cl'[c]) \in Seq(HubFrame) /\ UpTo(StreamOf(cl'[c]), f.n)
      BY <1>6, <1>8, StreamTyped
    <2>3. UpTo(StreamOf(cl'[c]), made')
      BY <1>0, <1>1, <1>n, <2>1, UpToLater
    <2>4. \A i \in DOMAIN incoming' : UpTo(StreamOf(cl'[c]), incoming'[i].n)
      BY <1>0, <1>1, <2>1, UpToLater
    <2> QED BY <1>3, <2>3, <2>4 DEF NotBeyond, StreamOf, UpTo
  <1> QED BY <1>0, <1>1, <1>3, <1>4, <1>6, <1>7, <1>8, FanoutKeeps DEF HubTyped

\* HubTimer: the board that waited.
LEMMA HubTimerKeeps ==
  ASSUME HubInv, HubTimer PROVE HubInv'
  <1>0. /\ HubTyped /\ hub.up /\ incoming' = incoming /\ made' = made
    BY DEF HubInv, HubTimer
  <1>2. hub' = [hub EXCEPT !.pending = 0]
    BY DEF HubTimer
  <1>c. cl' = [c \in Conns |-> IF c \in hub.clients THEN Flushed(cl[c]) ELSE cl[c]]
    BY DEF HubTimer, Fanout
  <1>3. /\ hub' \in [up : BOOLEAN, clients : SUBSET Conns, last : Nat, pending : Nat]
        /\ hub'.clients = hub.clients /\ hub'.last = hub.last /\ hub'.pending = 0
    BY <1>0, <1>2 DEF HubTyped
  <1>4. ChannelOrder'
    BY <1>0, <1>3 DEF HubInv, ChannelOrder
  <1>6. ASSUME NEW c \in Conns
        PROVE  /\ cl'[c] \in HubConn /\ cl'[c].pc = cl[c].pc
               /\ c \notin hub.clients => cl'[c] = cl[c]
               /\ cl[c].pc = "live" =>
                     /\ Greeted(cl'[c]) /\ UpTo(StreamOf(cl'[c]), made)
                     /\ \A i \in DOMAIN incoming : UpTo(StreamOf(cl'[c]), incoming[i].n)
    <2>2. CASE c \notin hub.clients
      <3>1. cl'[c] = cl[c]
        BY <1>c, <2>2
      <3> QED BY <1>0, <3>1 DEF HubTyped, HubInv, ClientKept, NotBeyond
    <2>3. CASE c \in hub.clients
      <3>1. cl'[c] = Flushed(cl[c])
        BY <1>c, <2>3
      <3> QED BY <2>3, <3>1, FlushedKeeps
    <2> QED BY <2>2, <2>3
  <1>7. cl' \in [Conns -> HubConn]
    BY <1>6, <1>c
  <1>8. ASSUME NEW c \in Conns, cl[c].pc = "live" PROVE NotBeyond(StreamOf(cl[c]))'
    BY <1>0, <1>3, <1>6, <1>8 DEF NotBeyond, StreamOf, UpTo
  <1> QED BY <1>0, <1>3, <1>4, <1>6, <1>7, <1>8, FanoutKeeps DEF HubTyped

\* HubStops: every registered connection is closed.
LEMMA HubStopsKeeps ==
  ASSUME HubInv, HubStops PROVE HubInv'
  <1>0. /\ HubTyped /\ hub.up /\ incoming' = incoming /\ made' = made
    BY DEF HubInv, HubStops
  <1>2. hub' = [hub EXCEPT !.up = FALSE]
    BY DEF HubStops
  <1>c. cl' = [c \in Conns |-> IF c \in hub.clients THEN [cl[c] EXCEPT !.gone = TRUE] ELSE cl[c]]
    BY DEF HubStops, Fanout
  <1>3. /\ hub' \in [up : BOOLEAN, clients : SUBSET Conns, last : Nat, pending : Nat]
        /\ hub'.clients = hub.clients /\ hub'.last = hub.last /\ hub'.pending = hub.pending
    BY <1>0, <1>2 DEF HubTyped
  <1>4. ChannelOrder'
    BY <1>0, <1>3 DEF HubInv, ChannelOrder
  <1>6. ASSUME NEW c \in Conns
        PROVE  /\ cl'[c] \in HubConn /\ cl'[c].pc = cl[c].pc
               /\ c \notin hub.clients => cl'[c] = cl[c]
               /\ cl[c].pc = "live" =>
                     Greeted(cl'[c]) /\ StreamOf(cl'[c]) = StreamOf(cl[c]) /\ NotBeyond(StreamOf(cl[c]))
    <2>1. cl[c] \in HubConn /\ (cl[c].pc = "live" => Greeted(cl[c]) /\ NotBeyond(StreamOf(cl[c])))
      BY <1>0 DEF HubTyped, HubInv, ClientKept
    <2>2. CASE c \notin hub.clients
      BY <1>c, <2>1, <2>2
    <2>3. CASE c \in hub.clients
      <3> DEFINE k == [cl[c] EXCEPT !.gone = TRUE]
      <3>1. cl'[c] = k
        BY <1>c, <2>3
      <3>2. /\ k \in HubConn /\ k.pc = cl[c].pc /\ k.seen = cl[c].seen /\ k.out = cl[c].out
            /\ k.queue = cl[c].queue /\ k.due = cl[c].due /\ k.overflow = cl[c].overflow
            /\ k.tailSnap = cl[c].tailSnap
        BY <2>1 DEF HubConn
      <3> HIDE DEF k
      <3>3. StreamOf(k) = StreamOf(cl[c])
        BY <3>2 DEF StreamOf
      <3>4. Greeted(cl[c]) => Greeted(k)
        BY <3>2, <3>3 DEF Greeted
      <3> QED BY <2>1, <2>3, <3>1, <3>2, <3>3, <3>4
    <2> QED BY <2>2, <2>3
  <1>7. cl' \in [Conns -> HubConn]
    BY <1>6, <1>c
  <1>8. ASSUME NEW c \in Conns, cl[c].pc = "live" PROVE NotBeyond(StreamOf(cl[c]))'
    <2>1. StreamOf(cl[c])' = StreamOf(cl[c])
      BY <1>6, <1>8 DEF StreamOf
    <2>2. NotBeyond(StreamOf(cl[c]))
      BY <1>6, <1>8
    <2> QED BY <1>0, <1>3, <2>1, <2>2 DEF NotBeyond, UpTo
  <1> QED BY <1>0, <1>3, <1>4, <1>6, <1>7, <1>8, FanoutKeeps DEF HubTyped

\* Broadcast: the newest frame, behind all that waits, or dropped.
LEMMA BroadcastKeeps ==
  ASSUME HubInv, NEW t \in {"snap", "phase"}, Broadcast(t) PROVE HubInv'
  <1> DEFINE f == [t |-> t, n |-> made + 1]
  <1>0. /\ HubTyped /\ hub' = hub /\ cl' = cl /\ made' = made + 1 /\ made \in Nat
        /\ incoming \in Seq(HubFrame)
        /\ incoming' = Append(incoming, f) \/ incoming' = incoming
    BY DEF HubInv, HubTyped, Broadcast
  <1>1. f \in HubFrame /\ f.n = made + 1
    BY <1>0 DEF HubFrame
  <1>2. \A i \in DOMAIN incoming : incoming[i].n \in Nat /\ incoming[i].n <= made /\ hub.last <= incoming[i].n
    BY <1>0, FramesNumbered DEF HubInv, ChannelOrder
  <1>n. hub.last \in Nat /\ hub.pending \in Nat /\ hub.last <= made /\ hub.pending \in {0, hub.last}
    BY <1>0 DEF HubTyped, HubInv, ChannelOrder
  <1> HIDE DEF f
  <1>3. /\ incoming' \in Seq(HubFrame)
        /\ \A i \in DOMAIN incoming' : \/ i \in DOMAIN incoming /\ incoming'[i] = incoming[i]
                                       \/ i = Len(incoming) + 1 /\ incoming'[i] = f
        /\ DOMAIN incoming = 1..Len(incoming) /\ Len(incoming) \in Nat
    <2>0. DOMAIN incoming = 1..Len(incoming) /\ Len(incoming) \in Nat
      BY <1>0, LenProperties
    <2>1. CASE incoming' = incoming
      BY <1>0, <2>0, <2>1
    <2>2. CASE incoming' = Append(incoming, f)
      <3>1. /\ incoming' \in Seq(HubFrame) /\ Len(incoming') = Len(incoming) + 1
            /\ incoming'[Len(incoming) + 1] = f
            /\ \A i \in 1..Len(incoming) : incoming'[i] = incoming[i]
        BY <1>0, <1>1, <2>2, AppendProperties
      <3>2. DOMAIN incoming' = 1..(Len(incoming) + 1)
        BY <3>1, LenProperties
      <3> QED BY <2>0, <3>1, <3>2
    <2> QED BY <1>0, <2>1, <2>2 DEF f
  <1>4. ChannelOrder'
    <2>1. \A i \in DOMAIN incoming' : hub.last <= incoming'[i].n /\ incoming'[i].n <= made + 1
      BY <1>0, <1>1, <1>2, <1>3, <1>n, SMTT(30)
    <2>2. ASSUME NEW i \in DOMAIN incoming', NEW j \in DOMAIN incoming', i < j
          PROVE  incoming'[i].n <= incoming'[j].n
      <3>1. i \in DOMAIN incoming /\ incoming'[i] = incoming[i]
        BY <1>3, <2>2, <1>0 DEF f
      <3>2. CASE j \in DOMAIN incoming /\ incoming'[j] = incoming[j]
        BY <2>2, <3>1, <3>2 DEF HubInv, ChannelOrder
      <3>3. CASE incoming'[j] = f
        BY <1>0, <1>1, <1>2, <3>1, <3>3
      <3> QED BY <1>3, <3>2, <3>3
    <2> QED BY <1>0, <1>n, <2>1, <2>2 DEF ChannelOrder
  <1>5. ASSUME NEW c \in Conns PROVE ClientKept(c)'
    <2>1. ASSUME cl[c].pc = "live" PROVE NotBeyond(StreamOf(cl[c]))'
      <3>1. /\ NotBeyond(StreamOf(cl[c])) /\ StreamOf(cl[c]) \in Seq(HubFrame)
        BY <1>0, <2>1, StreamTyped DEF HubInv, ClientKept, HubTyped
      <3>2. UpTo(StreamOf(cl[c]), made + 1)
        <4>1. UpTo(StreamOf(cl[c]), made) /\ made + 1 \in Nat /\ made <= made + 1
          BY <1>0, <3>1 DEF NotBeyond
        <4> QED BY <1>0, <3>1, <4>1, UpToLater
      <3>3. \A i \in DOMAIN incoming' : UpTo(StreamOf(cl[c]), incoming'[i].n)
        BY <1>1, <1>3, <3>1, <3>2 DEF NotBeyond
      <3>4. StreamOf(cl[c])' = StreamOf(cl[c])
        BY <1>0 DEF StreamOf
      <3> QED BY <1>0, <3>1, <3>2, <3>3, <3>4 DEF NotBeyond, UpTo
    <2>2. ClientKept(c) /\ cl'[c] = cl[c] /\ hub' = hub
      BY <1>0 DEF HubInv
    <2>s. (StreamOf(cl[c]))' = StreamOf(cl[c])
      BY <2>2 DEF StreamOf
    <2>3. cl[c].pc = "live" => Greeted(cl[c])'
      BY <2>2, <2>s DEF ClientKept, Greeted, InOrder, Announces
    <2>4. cl[c].pc \in {"idle", "accept", "register"} => (Untouched(cl[c]) /\ ~(hub.up /\ c \in hub.clients))'
      BY <2>2 DEF ClientKept, Untouched
    <2> QED BY <2>1, <2>2, <2>3, <2>4 DEF ClientKept
  <1>6. HubTyped'
    BY <1>0, <1>3 DEF HubTyped
  <1> QED BY <1>4, <1>5, <1>6 DEF HubInv

-----------------------------------------------------------------------------
(* The hub: the handlers' steps *)

\* A step of one handler, that may enter or leave the hub's clients.
LEMMA ClientStep ==
  ASSUME HubInv, NEW c \in Conns, NEW k \in HubConn, cl' = [cl EXCEPT ![c] = k],
         incoming' = incoming, made' = made,
         hub' \in [up : BOOLEAN, clients : SUBSET Conns, last : Nat, pending : Nat],
         hub'.up = hub.up, hub'.last = hub.last, hub'.pending = hub.pending,
         \A d \in Conns \ {c} : d \in hub'.clients => d \in hub.clients,
         k.pc = "live" => Greeted(k) /\ NotBeyond(StreamOf(k)),
         k.pc \in {"idle", "accept", "register"} => Untouched(k) /\ ~(hub.up /\ c \in hub'.clients)
  PROVE  HubInv'
  <1>0. HubTyped /\ ChannelOrder
    BY DEF HubInv
  <1>1. HubTyped'
    BY <1>0 DEF HubTyped
  <1>2. ChannelOrder'
    BY <1>0 DEF ChannelOrder
  <1>3. ASSUME NEW s, NotBeyond(s) PROVE /\ UpTo(s, made') /\ (hub'.pending # 0 => UpTo(s, hub'.pending))
                                         /\ \A i \in DOMAIN incoming' : UpTo(s, incoming'[i].n)
    BY <1>3 DEF NotBeyond
  <1>4. ASSUME NEW d \in Conns PROVE ClientKept(d)'
    <2>1. CASE d = c
      <3>1. cl'[d] = k
        BY <1>0, <2>1 DEF HubTyped
      <3>2. (StreamOf(cl[d]))' = StreamOf(k)
        BY <3>1 DEF StreamOf
      <3>3. k.pc = "live" => (Greeted(cl[d]) /\ NotBeyond(StreamOf(cl[d])))'
        BY <1>3, <3>1, <3>2 DEF Greeted, InOrder, Announces, NotBeyond, UpTo
      <3>4. k.pc \in {"idle", "accept", "register"} => (Untouched(cl[d]) /\ ~(hub.up /\ d \in hub.clients))'
        BY <2>1, <3>1 DEF Untouched
      <3> QED BY <3>1, <3>3, <3>4 DEF ClientKept
    <2>2. CASE d # c
      <3>1. cl'[d] = cl[d] /\ ClientKept(d) /\ (d \in hub'.clients => d \in hub.clients)
        BY <1>0, <2>2 DEF HubTyped, HubInv
      <3>2. (StreamOf(cl[d]))' = StreamOf(cl[d])
        BY <3>1 DEF StreamOf
      <3>3. cl[d].pc = "live" => (Greeted(cl[d]) /\ NotBeyond(StreamOf(cl[d])))'
        BY <1>3, <3>1, <3>2 DEF Greeted, InOrder, Announces, NotBeyond, UpTo, ClientKept
      <3>4. cl[d].pc \in {"idle", "accept", "register"} => (Untouched(cl[d]) /\ ~(hub.up /\ d \in hub.clients))'
        BY <3>1 DEF Untouched, ClientKept
      <3> QED BY <3>1, <3>3, <3>4 DEF ClientKept
    <2> QED BY <2>1, <2>2
  <1> QED BY <1>1, <1>2, <1>4 DEF HubInv

\* A handler's place or its notes change, not what its client gets.
LEMMA PlaceStep ==
  ASSUME HubInv, NEW c \in Conns, NEW k \in HubConn, cl' = [cl EXCEPT ![c] = k],
         incoming' = incoming, made' = made, hub' = hub,
         k.seen = cl[c].seen, k.out = cl[c].out, k.queue = cl[c].queue, k.due = cl[c].due,
         k.tailSnap = cl[c].tailSnap, k.overflow = cl[c].overflow,
         \/ k.pc = cl[c].pc \/ k.pc = "unregister"
         \/ {k.pc, cl[c].pc} \subseteq {"idle", "accept", "register"}
  PROVE  HubInv'
  <1>1. ClientKept(c) /\ hub \in [up : BOOLEAN, clients : SUBSET Conns, last : Nat, pending : Nat]
    BY DEF HubInv, HubTyped
  <1>2. StreamOf(k) = StreamOf(cl[c])
    BY DEF StreamOf
  <1>3. k.pc = "live" => Greeted(k) /\ NotBeyond(StreamOf(k))
    BY <1>1, <1>2 DEF ClientKept, Greeted
  <1>4. k.pc \in {"idle", "accept", "register"} => Untouched(k) /\ ~(hub.up /\ c \in hub.clients)
    BY <1>1 DEF ClientKept, Untouched
  <1> QED BY <1>1, <1>3, <1>4, ClientStep

\* The handler returns, no longer one of the hub's clients.
LEMMA ReturnKeeps ==
  ASSUME HubInv, NEW c \in Conns, Return(c), incoming' = incoming, made' = made,
         hub' \in [up : BOOLEAN, clients : SUBSET Conns, last : Nat, pending : Nat],
         hub'.up = hub.up, hub'.last = hub.last, hub'.pending = hub.pending,
         hub'.clients \subseteq hub.clients, ~(hub.up /\ c \in hub'.clients)
  PROVE  HubInv'
  <1>1. NoConn \in HubConn /\ NoConn.pc = "idle" /\ Untouched(NoConn)
    BY EmptySeq DEF NoConn, HubConn, Untouched
  <1>2. cl' = [cl EXCEPT ![c] = NoConn]
    BY DEF Return
  <1> HIDE DEF NoConn
  <1> QED BY <1>1, <1>2, ClientStep

\* The handler's way in and out, and its reads.
LEMMA HandlerKeeps ==
  ASSUME HubInv, NEW c \in Conns,
         \/ \E key \in Keys : Admit(c, key)
         \/ Accept(c) \/ AcceptFails(c) \/ RegisterRefused(c) \/ ReadFails(c) \/ PumpStops(c)
         \/ Unregister(c)
  PROVE  HubInv'
  <1>0. /\ cl \in [Conns -> HubConn] /\ cl[c] \in HubConn
        /\ hub \in [up : BOOLEAN, clients : SUBSET Conns, last : Nat, pending : Nat]
        /\ cl[c].pc \in {"idle", "accept", "register"} => ~(hub.up /\ c \in hub.clients)
    BY DEF HubInv, HubTyped, ClientKept
  <1>1. ASSUME NEW key \in Keys, Admit(c, key) PROVE HubInv'
    <2> DEFINE k == [cl[c] EXCEPT !.pc = "accept", !.key = key]
    <2>1. /\ k \in HubConn /\ k.pc = "accept" /\ k.seen = cl[c].seen /\ k.out = cl[c].out
          /\ k.queue = cl[c].queue /\ k.due = cl[c].due /\ k.tailSnap = cl[c].tailSnap
          /\ k.overflow = cl[c].overflow
      BY <1>0 DEF HubConn
    <2>2. /\ incoming' = incoming /\ made' = made /\ hub' = hub /\ cl[c].pc = "idle"
          /\ cl' = [cl EXCEPT ![c] = k] \/ cl' = cl
      BY <1>0, <1>1 DEF Admit
    <2> HIDE DEF k
    <2>3. CASE cl' = [cl EXCEPT ![c] = k]
      BY <2>1, <2>2, <2>3, PlaceStep
    <2>4. CASE cl' = cl
      <3>1. cl' = [cl EXCEPT ![c] = cl[c]]
        BY <1>0, <2>4
      <3> QED BY <1>0, <2>2, <3>1, PlaceStep
    <2> QED BY <2>2, <2>3, <2>4
  <1>2. ASSUME Accept(c) PROVE HubInv'
    <2> DEFINE k == [cl[c] EXCEPT !.pc = "register"]
    <2>1. /\ k \in HubConn /\ k.pc = "register" /\ k.seen = cl[c].seen /\ k.out = cl[c].out
          /\ k.queue = cl[c].queue /\ k.due = cl[c].due /\ k.tailSnap = cl[c].tailSnap
          /\ k.overflow = cl[c].overflow
      BY <1>0 DEF HubConn
    <2>2. /\ incoming' = incoming /\ made' = made /\ hub' = hub /\ cl[c].pc = "accept"
          /\ cl' = [cl EXCEPT ![c] = k]
      BY <1>0, <1>2 DEF Accept
    <2> HIDE DEF k
    <2> QED BY <2>1, <2>2, PlaceStep
  <1>3. ASSUME AcceptFails(c) \/ RegisterRefused(c) PROVE HubInv'
    <2>1. /\ Return(c) /\ incoming' = incoming /\ made' = made /\ hub' = hub
          /\ cl[c].pc \in {"accept", "register"}
      BY <1>3 DEF AcceptFails, RegisterRefused
    <2> QED BY <1>0, <2>1, ReturnKeeps
  <1>4. ASSUME ReadFails(c) PROVE HubInv'
    <2> DEFINE k == [cl[c] EXCEPT !.gone = TRUE]
    <2>1. /\ k \in HubConn /\ k.pc = cl[c].pc /\ k.seen = cl[c].seen /\ k.out = cl[c].out
          /\ k.queue = cl[c].queue /\ k.due = cl[c].due /\ k.tailSnap = cl[c].tailSnap
          /\ k.overflow = cl[c].overflow
      BY <1>0 DEF HubConn
    <2>2. /\ incoming' = incoming /\ made' = made /\ hub' = hub
          /\ cl' = [cl EXCEPT ![c] = k]
      BY <1>0, <1>4 DEF ReadFails
    <2> HIDE DEF k
    <2> QED BY <2>1, <2>2, PlaceStep
  <1>5. ASSUME PumpStops(c) PROVE HubInv'
    <2> DEFINE k == [cl[c] EXCEPT !.pc = "unregister"]
    <2>1. /\ k \in HubConn /\ k.pc = "unregister" /\ k.seen = cl[c].seen /\ k.out = cl[c].out
          /\ k.queue = cl[c].queue /\ k.due = cl[c].due /\ k.tailSnap = cl[c].tailSnap
          /\ k.overflow = cl[c].overflow
      BY <1>0 DEF HubConn
    <2>2. /\ incoming' = incoming /\ made' = made /\ hub' = hub
          /\ cl' = [cl EXCEPT ![c] = k]
      BY <1>0, <1>5 DEF PumpStops
    <2> HIDE DEF k
    <2> QED BY <2>1, <2>2, PlaceStep
  <1>6. ASSUME Unregister(c) PROVE HubInv'
    <2>1. /\ Return(c) /\ incoming' = incoming /\ made' = made
          /\ hub' = IF hub.up THEN [hub EXCEPT !.clients = @ \ {c}] ELSE hub
      BY <1>6 DEF Unregister
    <2>2. /\ hub' \in [up : BOOLEAN, clients : SUBSET Conns, last : Nat, pending : Nat]
          /\ hub'.up = hub.up /\ hub'.last = hub.last /\ hub'.pending = hub.pending
          /\ hub'.clients \subseteq hub.clients /\ ~(hub.up /\ c \in hub'.clients)
      <3>1. CASE hub.up
        BY <1>0, <2>1, <3>1
      <3>2. CASE ~hub.up
        BY <1>0, <2>1, <3>2
      <3> QED BY <3>1, <3>2
    <2> QED BY <2>1, <2>2, ReturnKeeps
  <1> QED BY <1>1, <1>2, <1>3, <1>4, <1>5, <1>6

\* PumpDrains: the queue moves behind what was written, or the client is shed.
LEMMA PumpDrainsKeeps ==
  ASSUME HubInv, NEW c \in Conns, PumpDrains(c) PROVE HubInv'
  <1>0. /\ cl \in [Conns -> HubConn] /\ cl[c] \in HubConn
        /\ hub \in [up : BOOLEAN, clients : SUBSET Conns, last : Nat, pending : Nat]
        /\ cl[c].pc = "live" /\ cl[c].out = <<>> /\ ClientKept(c)
        /\ incoming' = incoming /\ made' = made /\ hub' = hub
    BY DEF HubInv, HubTyped, PumpDrains
  <1>1. CASE cl[c].overflow
    <2> DEFINE k == [cl[c] EXCEPT !.pc = "unregister", !.queue = <<>>, !.wake = FALSE]
    <2>1. k \in HubConn /\ k.pc = "unregister"
      BY <1>0, EmptySeq DEF HubConn
    <2>2. cl' = [cl EXCEPT ![c] = k]
      BY <1>0, <1>1 DEF PumpDrains
    <2> HIDE DEF k
    <2> QED BY <1>0, <2>1, <2>2, ClientStep
  <1>2. CASE ~cl[c].overflow
    <2> DEFINE k == [cl[c] EXCEPT !.out = cl[c].queue, !.queue = <<>>, !.tailSnap = FALSE, !.wake = FALSE]
    <2>1. /\ k \in HubConn /\ k.pc = "live" /\ k.out = cl[c].queue /\ k.queue = <<>> /\ ~k.tailSnap
          /\ k.seen = cl[c].seen /\ k.due = cl[c].due /\ k.overflow = cl[c].overflow
      BY <1>0, EmptySeq DEF HubConn
    <2>2. cl' = [cl EXCEPT ![c] = k]
      BY <1>0, <1>2 DEF PumpDrains
    <2> HIDE DEF k
    <2>3. StreamOf(k) = StreamOf(cl[c])
      <3>1. /\ cl[c].seen \in Seq(HubFrame) /\ cl[c].queue \in Seq(HubFrame)
            /\ cl[c].seen \o cl[c].queue \in Seq(HubFrame)
        BY <1>0, StreamTyped, ConcatProperties
      <3>2. cl[c].seen \o <<>> = cl[c].seen
        BY <3>1, ConcatEmptySeq
      <3>3. (cl[c].seen \o cl[c].queue) \o <<>> = cl[c].seen \o cl[c].queue
        BY <3>1, ConcatEmptySeq
      <3> QED BY <1>0, <2>1, <3>2, <3>3 DEF StreamOf
    <2>4. Greeted(k) /\ NotBeyond(StreamOf(k))
      BY <1>0, <2>1, <2>3 DEF ClientKept, Greeted
    <2> QED BY <1>0, <2>1, <2>2, <2>4, ClientStep
  <1> QED BY <1>1, <1>2

\* PumpWrites: the first frame of the backlog moves behind what was written.
LEMMA PumpWritesKeeps ==
  ASSUME HubInv, NEW c \in Conns, NEW ok \in BOOLEAN, PumpWrites(c, ok) PROVE HubInv'
  <1>0. /\ cl \in [Conns -> HubConn] /\ cl[c] \in HubConn
        /\ hub \in [up : BOOLEAN, clients : SUBSET Conns, last : Nat, pending : Nat]
        /\ cl[c].pc = "live" /\ cl[c].out # <<>> /\ ClientKept(c)
        /\ incoming' = incoming /\ made' = made /\ hub' = hub
    BY DEF HubInv, HubTyped, PumpWrites
  <1>1. CASE ~(ok /\ ~cl[c].gone)
    <2> DEFINE k == [cl[c] EXCEPT !.pc = "unregister"]
    <2>1. k \in HubConn /\ k.pc = "unregister"
      BY <1>0 DEF HubConn
    <2>2. cl' = [cl EXCEPT ![c] = k]
      BY <1>0, <1>1 DEF PumpWrites
    <2> HIDE DEF k
    <2> QED BY <1>0, <2>1, <2>2, ClientStep
  <1>2. CASE ok /\ ~cl[c].gone
    <2> DEFINE o == cl[c].out
               s == cl[c].seen
               k == [cl[c] EXCEPT !.out = Tail(o), !.seen = Append(s, Head(o))]
    <2>1. /\ o \in Seq(HubFrame) /\ s \in Seq(HubFrame) /\ cl[c].queue \in Seq(HubFrame) /\ o # <<>>
      BY <1>0, StreamTyped
    <2>2. cl' = [cl EXCEPT ![c] = k]
      BY <1>0, <1>2 DEF PumpWrites
    <2>3. /\ Head(o) \in HubFrame /\ Tail(o) \in Seq(HubFrame) /\ o = <<Head(o)>> \o Tail(o)
      BY <2>1, HeadTailProperties, ConcatSimplifications
    <2>4. Append(s, Head(o)) \in Seq(HubFrame) /\ Append(s, Head(o)) = s \o <<Head(o)>>
      BY <2>1, <2>3, AppendProperties, AppendIsConcat
    <2>5. Append(s, Head(o)) \o Tail(o) = s \o o
      <3>1. <<Head(o)>> \in Seq(HubFrame)
        BY <2>3
      <3>2. ASSUME NEW a \in Seq(HubFrame), NEW b \in Seq(HubFrame), NEW d \in Seq(HubFrame)
            PROVE  (a \o b) \o d = a \o (b \o d)
        BY ConcatAssociative
      <3> HIDE DEF s, o
      <3> QED BY <2>1, <2>3, <2>4, <3>1, <3>2
    <2>6. /\ k \in HubConn /\ k.pc = "live" /\ k.out = Tail(o) /\ k.queue = cl[c].queue
          /\ k.tailSnap = cl[c].tailSnap
          /\ k.seen = Append(s, Head(o)) /\ k.due = cl[c].due /\ k.overflow = cl[c].overflow
      BY <1>0, <2>3, <2>4 DEF HubConn
    <2> HIDE DEF k
    <2>7. StreamOf(k) = StreamOf(cl[c])
      BY <2>5, <2>6 DEF StreamOf
    <2>8. Greeted(k) /\ NotBeyond(StreamOf(k))
      BY <1>0, <2>6, <2>7 DEF ClientKept, Greeted
    <2> QED BY <1>0, <2>2, <2>6, <2>8, ClientStep
  <1> QED BY <1>1, <1>2

\* The greeting of a new client.
LEMMA HelloKeeps ==
  ASSUME NEW k \in HubConn, Untouched(k)
  PROVE  LET e == Enqueue([k EXCEPT !.pc = "live"], Hello)
         IN /\ e \in HubConn /\ e.pc = "live" /\ e.key = k.key /\ Greeted(e)
            /\ \A n \in Nat : UpTo(StreamOf(e), n)
  <1> DEFINE b == [k EXCEPT !.pc = "live"]
             e == Enqueue(b, Hello)
  <1>1. /\ b \in HubConn /\ b.pc = "live" /\ b.key = k.key /\ b.queue = <<>> /\ b.out = <<>>
        /\ b.seen = <<>> /\ b.due = {} /\ ~b.overflow
    BY DEF HubConn, Untouched
  <1>2. Hello \in HubFrame /\ Hello.t = "hello" /\ Hello.n = 0
    BY DEF Hello, HubFrame
  <1> HIDE DEF b, Hello
  <1>3. e \in HubConn /\ e.pc = "live" /\ e.key = k.key
    BY <1>1, <1>2, EnqueueTyped
  <1>4. e = [[b EXCEPT !.queue = Append(@, Hello), !.tailSnap = (Hello.t = "snap")] EXCEPT !.wake = TRUE]
    <2>1. Len(b.queue) = 0 /\ ~(Len(b.queue) >= ClientQueueCap)
      BY <1>1, HubBounds
    <2> QED BY <1>2, <2>1 DEF Enqueue
  <1>5. /\ e.queue = Append(<<>>, Hello) /\ e.out = <<>> /\ e.seen = <<>> /\ e.due = {}
        /\ e.tailSnap = FALSE
    BY <1>1, <1>2, <1>4 DEF HubConn
  <1>6. StreamOf(e) = <<Hello>>
    <2>1. Append(<<>>, Hello) = <<Hello>>
      BY <1>2
    <2>2. <<Hello>> \in Seq(HubFrame)
      BY <1>2
    <2>3. <<>> \o <<Hello>> = <<Hello>>
      BY <2>2, ConcatEmptySeq
    <2>4. <<>> \o <<>> = <<>>
      OBVIOUS
    <2> QED BY <1>5, <2>1, <2>3, <2>4 DEF StreamOf
  <1> HIDE DEF e
  <1>7. /\ <<Hello>> # <<>> /\ DOMAIN <<Hello>> = {1} /\ <<Hello>>[1] = Hello
    OBVIOUS
  <1>8. InOrder(<<Hello>>) /\ \A n \in Nat : UpTo(<<Hello>>, n)
    BY <1>2, <1>7 DEF InOrder, UpTo
  <1>9. Greeted(e)
    BY <1>5, <1>6, <1>7, <1>8 DEF Greeted
  <1> QED BY <1>3, <1>6, <1>8, <1>9 DEF e, b

\* Register: the greeting and the last board.
LEMMA RegisterKeeps ==
  ASSUME HubInv, NEW c \in Conns, Register(c) PROVE HubInv'
  <1> DEFINE h == Enqueue([cl[c] EXCEPT !.pc = "live"], Hello)
             k == IF hub.last = 0 THEN h ELSE Enqueue(h, Snap(hub.last))
  <1>0. /\ cl \in [Conns -> HubConn] /\ cl[c] \in HubConn /\ hub.last \in Nat /\ made \in Nat
        /\ hub \in [up : BOOLEAN, clients : SUBSET Conns, last : Nat, pending : Nat]
        /\ incoming \in Seq(HubFrame) /\ ChannelOrder
        /\ cl[c].pc = "register" /\ Untouched(cl[c])
        /\ incoming' = incoming /\ made' = made
    BY DEF HubInv, HubTyped, Register, ClientKept
  <1>1. cl' = [cl EXCEPT ![c] = k] /\ hub' = [hub EXCEPT !.clients = @ \cup {c}]
    BY DEF Register
  <1>2. /\ h \in HubConn /\ h.pc = "live" /\ h.key = cl[c].key /\ Greeted(h)
        /\ \A n \in Nat : UpTo(StreamOf(h), n)
    BY <1>0, HelloKeeps
  <1> HIDE DEF h
  <1>3. k \in HubConn /\ k.pc = "live" /\ Greeted(k) /\ UpTo(StreamOf(k), hub.last)
    <2>1. CASE hub.last = 0
      BY <1>0, <1>2, <2>1
    <2>2. CASE hub.last # 0
      <3>1. Snap(hub.last) \in HubFrame /\ Snap(hub.last).n = hub.last /\ Snap(hub.last).t = "snap"
        BY <1>0 DEF Snap, HubFrame
      <3>2. Enqueue(h, Snap(hub.last)) \in HubConn /\ Enqueue(h, Snap(hub.last)).pc = "live"
        BY <1>2, <3>1, EnqueueTyped
      <3>3. /\ Greeted(Enqueue(h, Snap(hub.last)))
            /\ UpTo(StreamOf(Enqueue(h, Snap(hub.last))), hub.last)
        BY <1>0, <1>2, <3>1, EnqueueKeeps
      <3> QED BY <2>2, <3>2, <3>3
    <2> QED BY <2>1, <2>2
  <1> HIDE DEF k
  <1>4. NotBeyond(StreamOf(k))
    <2>1. StreamOf(k) \in Seq(HubFrame)
      BY <1>3, StreamTyped
    <2>2. \A i \in DOMAIN incoming : incoming[i].n \in Nat /\ hub.last <= incoming[i].n
      BY <1>0, FramesNumbered DEF ChannelOrder
    <2>3. UpTo(StreamOf(k), made)
      BY <1>0, <1>3, <2>1, UpToLater DEF ChannelOrder
    <2>4. \A i \in DOMAIN incoming : UpTo(StreamOf(k), incoming[i].n)
      BY <1>0, <1>3, <2>1, <2>2, UpToLater
    <2> QED BY <1>0, <1>3, <2>3, <2>4 DEF NotBeyond, ChannelOrder
  <1>5. /\ hub' \in [up : BOOLEAN, clients : SUBSET Conns, last : Nat, pending : Nat]
        /\ hub'.up = hub.up /\ hub'.last = hub.last /\ hub'.pending = hub.pending
        /\ hub'.clients = hub.clients \cup {c}
    BY <1>0, <1>1
  <1> QED BY <1>0, <1>1, <1>3, <1>4, <1>5, ClientStep

-----------------------------------------------------------------------------
(* The hub: what holds always *)

\* The invariant holds of a hub that starts.
LEMMA HubStarts ==
  HubInit => HubInv
  <1> SUFFICES ASSUME HubInit PROVE HubInv
    OBVIOUS
  <1>1. NoConn \in HubConn /\ NoConn.pc = "idle" /\ Untouched(NoConn)
    BY EmptySeq DEF NoConn, HubConn, Untouched
  <1>2. \A c \in Conns : cl[c] = NoConn
    BY DEF HubInit
  <1>3. HubTyped
    BY <1>1, EmptySeq DEF HubInit, HubTyped
  <1>4. ChannelOrder
    BY DEF HubInit, ChannelOrder
  <1>5. ASSUME NEW c \in Conns PROVE ClientKept(c)
    BY <1>1, <1>2 DEF HubInit, ClientKept
  <1> QED BY <1>3, <1>4, <1>5 DEF HubInv

\* Nothing of the hub's state changes.
LEMMA HubIdle ==
  ASSUME HubInv, UNCHANGED <<hub, incoming, made, cl>> PROVE HubInv'
  <1>1. HubTyped' /\ ChannelOrder'
    BY DEF HubInv, HubTyped, ChannelOrder
  <1>2. ASSUME NEW c \in Conns PROVE ClientKept(c)'
    <2>1. ClientKept(c) /\ cl'[c] = cl[c]
      BY DEF HubInv
    <2>2. (StreamOf(cl[c]))' = StreamOf(cl[c])
      BY <2>1 DEF StreamOf
    <2>3. cl[c].pc = "live" => (Greeted(cl[c]) /\ NotBeyond(StreamOf(cl[c])))'
      BY <2>1, <2>2 DEF ClientKept, Greeted, InOrder, Announces, NotBeyond, UpTo
    <2>4. cl[c].pc \in {"idle", "accept", "register"} => (Untouched(cl[c]) /\ ~(hub.up /\ c \in hub.clients))'
      BY <2>1 DEF ClientKept, Untouched
    <2> QED BY <2>1, <2>3, <2>4 DEF ClientKept
  <1> QED BY <1>1, <1>2 DEF HubInv

\* Every step of the hub keeps the invariant.
LEMMA HubSteps ==
  HubInv /\ [HubNext]_hubVars => HubInv'
  <1> SUFFICES ASSUME HubInv, [HubNext]_hubVars PROVE HubInv'
    OBVIOUS
  <1>1. ASSUME UNCHANGED hubVars PROVE HubInv'
    BY <1>1, HubIdle DEF hubVars
  <1>2. ASSUME \E t \in {"snap", "phase"} : Broadcast(t) PROVE HubInv'
    BY <1>2, BroadcastKeeps
  <1>3. ASSUME HubRun \/ HubStops PROVE HubInv'
    BY <1>3, HubPhaseKeeps, HubTimerKeeps, HubSnapshotKeeps, HubStopsKeeps DEF HubRun
  <1>4. ASSUME NEW c \in Conns, Handler(c) \/ ReadFails(c) \/ \E key \in Keys : Admit(c, key)
        PROVE  HubInv'
    BY <1>4, HandlerKeeps, RegisterKeeps, PumpDrainsKeeps, PumpWritesKeeps DEF Handler
  <1>5. ASSUME NEW key \in Keys, WindowSlides(key) PROVE HubInv'
    BY <1>5, HubIdle DEF WindowSlides
  <1> QED BY <1>1, <1>2, <1>3, <1>4, <1>5 DEF HubNext

\* A client's frames always come in broadcast order, after a single greeting,
\* whatever the channel, the throttle and the queue's capacity (Run, enqueue).
THEOREM FramesAlwaysOrdered ==
  HubSpec => []FramesOrdered
  <1>1. HubInv => FramesOrdered
    <2> SUFFICES ASSUME HubInv, NEW c \in Conns, cl[c].pc = "live" PROVE InOrder(Stream(c))
      BY DEF FramesOrdered, InOrder
    <2> QED BY DEF HubInv, ClientKept, Greeted, Stream, StreamOf
  <1> QED BY <1>1, HubStarts, HubSteps, PTL DEF HubSpec

\* No announced phase change is ever lost on the way to a client that is not
\* marked for disconnection (enqueue, Run, drain, writePump).
THEOREM PhasesAlwaysKept ==
  HubSpec => []PhasesKept
  <1>1. HubInv => PhasesKept
    <2> SUFFICES ASSUME HubInv, NEW c \in Conns, cl[c].pc = "live", ~cl[c].overflow, NEW n \in cl[c].due
                 PROVE  Announces(Stream(c), n)
      BY DEF PhasesKept, Announces
    <2> QED BY DEF HubInv, ClientKept, Greeted, Stream, StreamOf
  <1> QED BY <1>1, HubStarts, HubSteps, PTL DEF HubSpec

-----------------------------------------------------------------------------
(* The hub: admission slots *)

\* The handlers between admit and return, and those of one key.
Inside == {c \in Conns : cl[c].pc # "idle"}
InsideOf(key) == {c \in Conns : cl[c].pc # "idle" /\ cl[c].key = key}

AdmTyped == adm \in [total : Nat, perKey : [Keys -> Nat], hits : [Keys -> Int],
                     forgive : [Keys -> Int], tried : Int]

AdmInv == /\ HubInv /\ AdmTyped
          /\ \A c \in Conns : cl[c].pc # "idle" => cl[c].key \in Keys
          /\ adm.total = Cardinality(Inside)
          /\ \A key \in Keys : adm.perKey[key] = Cardinality(InsideOf(key))

\* The handlers inside are finitely many.
LEMMA InsideFinite ==
  /\ IsFiniteSet(Inside) /\ \A key : IsFiniteSet(InsideOf(key))
  <1>1. Inside \in SUBSET Conns /\ \A key : InsideOf(key) \in SUBSET Conns
    BY DEF Inside, InsideOf
  <1> QED BY <1>1, ConnsFinite, FS_Subset

\* Steps after which every handler is where it was keep the account.
LEMMA SlotsFrame ==
  ASSUME AdmInv, HubInv', AdmTyped', adm'.total = adm.total, adm'.perKey = adm.perKey,
         \A c \in Conns : /\ cl'[c].pc = "idle" <=> cl[c].pc = "idle"
                          /\ cl'[c].key = cl[c].key
  PROVE  AdmInv'
  <1>1. Inside' = Inside
    BY DEF Inside
  <1>2. \A key \in Keys : InsideOf(key)' = InsideOf(key)
    BY DEF InsideOf
  <1> QED BY <1>1, <1>2 DEF AdmInv

\* The queue's operations leave the handler's key alone.
LEMMA KeysKept ==
  ASSUME HubInv, NEW c \in Conns, NEW f \in HubFrame, NEW n \in Nat
  PROVE  /\ Enqueue(cl[c], Snap(n)).key = cl[c].key
         /\ Enqueue(cl[c], Snap(n)).pc = cl[c].pc
         /\ Flushed(cl[c]).key = cl[c].key /\ Flushed(cl[c]).pc = cl[c].pc
         /\ Announced(Flushed(cl[c]), f).key = cl[c].key
         /\ Announced(Flushed(cl[c]), f).pc = cl[c].pc
  <1>1. cl[c] \in HubConn /\ hub.pending \in Nat
    BY DEF HubInv, HubTyped
  <1>2. \A m \in Nat : Snap(m) \in HubFrame
    BY DEF Snap, HubFrame
  <1>3. \A m \in Nat : /\ Enqueue(cl[c], Snap(m)).key = cl[c].key
                       /\ Enqueue(cl[c], Snap(m)).pc = cl[c].pc
                       /\ Enqueue(cl[c], Snap(m)) \in HubConn
    BY <1>1, <1>2, EnqueueTyped
  <1>4. /\ Flushed(cl[c]).key = cl[c].key /\ Flushed(cl[c]).pc = cl[c].pc
        /\ Flushed(cl[c]) \in HubConn
    BY <1>1, <1>3 DEF Flushed
  <1>5. /\ Enqueue(Flushed(cl[c]), f).key = cl[c].key /\ Enqueue(Flushed(cl[c]), f).pc = cl[c].pc
        /\ Enqueue(Flushed(cl[c]), f) \in HubConn
    BY <1>4, EnqueueTyped
  <1>6. /\ Announced(Flushed(cl[c]), f).key = cl[c].key
        /\ Announced(Flushed(cl[c]), f).pc = cl[c].pc
    BY <1>5 DEF Announced, HubConn
  <1> QED BY <1>3, <1>4, <1>6

\* A handler that stays inside, with its key.
LEMMA StaysInside ==
  ASSUME AdmInv, HubInv', NEW c \in Conns, NEW k, cl' = [cl EXCEPT ![c] = k],
         cl[c].pc # "idle", k.pc # "idle", k.key = cl[c].key,
         AdmTyped', adm'.total = adm.total, adm'.perKey = adm.perKey
  PROVE  AdmInv'
  <1>1. cl \in [Conns -> HubConn]
    BY DEF AdmInv, HubInv, HubTyped
  <1>2. \A d \in Conns : /\ cl'[d].pc = "idle" <=> cl[d].pc = "idle"
                         /\ cl'[d].key = cl[d].key
    BY <1>1
  <1> QED BY <1>2, SlotsFrame

\* admit takes a slot of the key, or none at all.
LEMMA AdmitCounts ==
  ASSUME AdmInv, HubInv', NEW c \in Conns, NEW key \in Keys, Admit(c, key) PROVE AdmInv'
  <1>0. /\ AdmTyped /\ cl \in [Conns -> HubConn] /\ cl[c] \in HubConn /\ cl[c].pc = "idle"
        /\ key \in Keys
    BY DEF AdmInv, HubInv, HubTyped, Admit
  <1> DEFINE forgiven == adm.forgive[key] > 0
             inRate == forgiven \/ adm.hits[key] < HandshakeBurst
             admitted == inRate /\ Caps(key)
             t == IF admitted THEN adm.total + 1 ELSE adm.total
             q == IF admitted THEN adm.perKey[key] + 1 ELSE adm.perKey[key]
             h == IF ~forgiven /\ inRate THEN adm.hits[key] + 1 ELSE adm.hits[key]
             g == IF forgiven THEN adm.forgive[key] - 1 ELSE adm.forgive[key]
  <1>1. adm' = [adm EXCEPT !.tried = @ + 1, !.forgive[key] = g, !.hits[key] = h, !.total = t,
                           !.perKey[key] = q]
    BY <1>0 DEF Admit, AdmTyped
  <1>2. cl' = IF admitted THEN [cl EXCEPT ![c].pc = "accept", ![c].key = key] ELSE cl
    BY DEF Admit
  <1>3. /\ admitted => t = adm.total + 1 /\ q = adm.perKey[key] + 1
        /\ ~admitted => t = adm.total /\ q = adm.perKey[key]
        /\ h \in Int /\ g \in Int /\ t \in Nat /\ q \in Nat
    BY <1>0 DEF AdmTyped
  <1> HIDE DEF admitted, t, q, h, g
  <1>4. /\ AdmTyped' /\ adm'.total = t /\ adm'.perKey = [adm.perKey EXCEPT ![key] = q]
    <2> DEFINE P == [adm.perKey EXCEPT ![key] = q]
               H == [adm.hits EXCEPT ![key] = h]
               F == [adm.forgive EXCEPT ![key] = g]
               r == adm.tried + 1
    <2>1. P \in [Keys -> Nat] /\ H \in [Keys -> Int] /\ F \in [Keys -> Int] /\ r \in Int
      BY <1>0, <1>3 DEF AdmTyped
    <2>2. adm' = [adm EXCEPT !.tried = r, !.forgive = F, !.hits = H, !.total = t, !.perKey = P]
      BY <1>0, <1>1 DEF AdmTyped
    <2> HIDE DEF P, H, F, r
    <2>3. AdmTyped' /\ adm'.total = t /\ adm'.perKey = P
      BY <1>0, <1>3, <2>1, <2>2 DEF AdmTyped
    <2> QED BY <2>3 DEF P
  <1>5. CASE ~admitted
    <2>1. adm'.perKey = adm.perKey /\ adm'.total = adm.total /\ cl' = cl
      BY <1>0, <1>2, <1>3, <1>4, <1>5 DEF AdmTyped
    <2> QED BY <1>4, <2>1, SlotsFrame
  <1>6. CASE admitted
    <2> DEFINE k == [cl[c] EXCEPT !.pc = "accept", !.key = key]
    <2>1. cl' = [cl EXCEPT ![c] = k] /\ k.pc = "accept" /\ k.key = key
      BY <1>0, <1>2, <1>6 DEF HubConn
    <2> HIDE DEF k
    <2>2. \A d \in Conns : cl'[d] = IF d = c THEN k ELSE cl[d]
      BY <1>0, <2>1
    <2>3. Inside' = Inside \cup {c} /\ c \notin Inside
      BY <1>0, <2>1, <2>2 DEF Inside
    <2>4. InsideOf(key)' = InsideOf(key) \cup {c} /\ c \notin InsideOf(key)
      BY <1>0, <2>1, <2>2 DEF InsideOf
    <2>5. \A l \in Keys \ {key} : InsideOf(l)' = InsideOf(l)
      BY <1>0, <2>1, <2>2 DEF InsideOf
    <2>6. /\ Cardinality(Inside \cup {c}) = Cardinality(Inside) + 1
          /\ Cardinality(InsideOf(key) \cup {c}) = Cardinality(InsideOf(key)) + 1
      BY <2>3, <2>4, InsideFinite, FS_AddElement
    <2>7. adm'.total = Cardinality(Inside')
      BY <1>3, <1>4, <1>6, <2>3, <2>6 DEF AdmInv
    <2>8. ASSUME NEW l \in Keys PROVE adm'.perKey[l] = Cardinality(InsideOf(l)')
      <3>1. CASE l = key
        BY <1>0, <1>3, <1>4, <1>6, <2>4, <2>6, <3>1 DEF AdmInv, AdmTyped
      <3>2. CASE l # key
        BY <1>0, <1>4, <2>5, <3>2 DEF AdmInv, AdmTyped
      <3> QED BY <3>1, <3>2
    <2>9. \A d \in Conns : cl'[d].pc # "idle" => cl'[d].key \in Keys
      BY <2>1, <2>2 DEF AdmInv
    <2> QED BY <1>4, <2>7, <2>8, <2>9 DEF AdmInv
  <1> QED BY <1>5, <1>6

\* The deferred release gives back the slot of the handler's own key.
LEMMA ReturnCounts ==
  ASSUME AdmInv, HubInv', NEW c \in Conns, cl[c].pc # "idle", Return(c) PROVE AdmInv'
  <1> DEFINE key == cl[c].key
  <1>0. /\ AdmTyped /\ cl \in [Conns -> HubConn] /\ key \in Keys
        /\ adm.total = Cardinality(Inside) /\ adm.perKey[key] = Cardinality(InsideOf(key))
    BY DEF AdmInv, HubInv, HubTyped
  <1>1. cl' = [cl EXCEPT ![c] = NoConn] /\ NoConn.pc = "idle"
    BY DEF Return, NoConn
  <1>2. adm' = [adm EXCEPT !.total = @ - 1, !.perKey[key] = @ - 1]
    BY DEF Return, Released
  <1> HIDE DEF NoConn
  <1>3. \A d \in Conns : cl'[d] = IF d = c THEN NoConn ELSE cl[d]
    BY <1>0, <1>1
  <1>4. Inside' = Inside \ {c} /\ c \in Inside
    BY <1>1, <1>3 DEF Inside
  <1>5. InsideOf(key) \ {c} = {d \in Conns : cl'[d].pc # "idle" /\ cl'[d].key = key} /\ c \in InsideOf(key)
    BY <1>1, <1>3 DEF InsideOf
  <1> HIDE DEF key
  <1>6. InsideOf(key) \ {c} = {d \in Conns : cl'[d].pc # "idle" /\ cl'[d].key = key}
    BY <1>5
  <1>7. \A l \in Keys \ {key} : InsideOf(l)' = InsideOf(l)
    BY <1>1, <1>3 DEF InsideOf, key
  <1>8. /\ Cardinality(Inside \ {c}) = Cardinality(Inside) - 1
        /\ Cardinality(InsideOf(key) \ {c}) = Cardinality(InsideOf(key)) - 1
    BY <1>4, <1>5, InsideFinite, FS_RemoveElement
  <1>9. /\ Cardinality(Inside \ {c}) \in Nat /\ Cardinality(InsideOf(key) \ {c}) \in Nat
    BY InsideFinite, FS_RemoveElement, FS_CardinalityType
  <1>10. /\ AdmTyped' /\ adm'.total = adm.total - 1
         /\ adm'.perKey = [adm.perKey EXCEPT ![key] = adm.perKey[key] - 1]
    BY <1>0, <1>2, <1>8, <1>9 DEF AdmTyped
  <1>11. adm'.total = Cardinality(Inside')
    BY <1>0, <1>4, <1>8, <1>10
  <1>12. ASSUME NEW l \in Keys
         PROVE  adm'.perKey[l] = Cardinality({d \in Conns : cl'[d].pc # "idle" /\ cl'[d].key = l})
    <2>1. CASE l = key
      BY <1>0, <1>6, <1>8, <1>10, <2>1 DEF AdmTyped
    <2>2. CASE l # key
      BY <1>0, <1>7, <1>10, <2>2 DEF AdmTyped, AdmInv, InsideOf
    <2> QED BY <2>1, <2>2
  <1>13. \A d \in Conns : cl'[d].pc # "idle" => cl'[d].key \in Keys
    BY <1>1, <1>3 DEF AdmInv
  <1> QED BY <1>10, <1>11, <1>12, <1>13 DEF AdmInv, InsideOf

\* The account is exact in a hub that starts.
LEMMA AdmStarts ==
  HubInit => AdmInv
  <1> SUFFICES ASSUME HubInit PROVE AdmInv
    OBVIOUS
  <1>1. \A c \in Conns : cl[c].pc = "idle"
    BY DEF HubInit, NoConn
  <1>2. Inside = {} /\ \A key \in Keys : InsideOf(key) = {}
    BY <1>1 DEF Inside, InsideOf
  <1>3. AdmTyped /\ adm.total = 0 /\ \A key \in Keys : adm.perKey[key] = 0
    BY DEF HubInit, AdmTyped
  <1> QED BY <1>1, <1>2, <1>3, HubStarts, FS_EmptySet DEF AdmInv

\* The hub goroutine and the broadcasters take and give back no slot.
LEMMA HubRunCounts ==
  ASSUME AdmInv, HubInv', HubRun \/ HubStops \/ \E t \in {"snap", "phase"} : Broadcast(t)
  PROVE  AdmInv'
  <1>0. HubInv /\ adm' = adm /\ cl \in [Conns -> HubConn]
    BY DEF AdmInv, HubInv, HubTyped, HubRun, HubSnapshot, HubPhase, HubTimer, HubStops, Broadcast
  <1>1. ASSUME NEW c \in Conns
        PROVE  cl'[c].pc = cl[c].pc /\ cl'[c].key = cl[c].key
    <2>1. ASSUME NEW now \in BOOLEAN, HubSnapshot(now) PROVE cl'[c].pc = cl[c].pc /\ cl'[c].key = cl[c].key
      <3>1. Head(incoming) \in HubFrame /\ Head(incoming).n \in Nat
        BY <1>0, <2>1, HeadFirst DEF HubSnapshot
      <3>2. \/ cl'[c] = cl[c]
            \/ cl'[c] = Enqueue(cl[c], Snap(Head(incoming).n))
        BY <2>1 DEF HubSnapshot, Fanout
      <3> QED BY <1>0, <3>1, <3>2, KeysKept
    <2>2. ASSUME HubPhase PROVE cl'[c].pc = cl[c].pc /\ cl'[c].key = cl[c].key
      <3>1. Head(incoming) \in HubFrame
        BY <1>0, <2>2, HeadFirst DEF HubPhase
      <3>2. \/ cl'[c] = cl[c]
            \/ cl'[c] = Announced(Flushed(cl[c]), Head(incoming))
        BY <2>2 DEF HubPhase, Fanout
      <3> QED BY <1>0, <3>1, <3>2, KeysKept
    <2>3. ASSUME HubTimer PROVE cl'[c].pc = cl[c].pc /\ cl'[c].key = cl[c].key
      <3>1. cl'[c] = cl[c] \/ cl'[c] = Flushed(cl[c])
        BY <2>3 DEF HubTimer, Fanout
      <3>2. Hello \in HubFrame
        BY DEF Hello, HubFrame
      <3> QED BY <1>0, <3>1, <3>2, KeysKept
    <2>4. ASSUME HubStops PROVE cl'[c].pc = cl[c].pc /\ cl'[c].key = cl[c].key
      <3>1. cl'[c] = cl[c] \/ cl'[c] = [cl[c] EXCEPT !.gone = TRUE]
        BY <2>4 DEF HubStops, Fanout
      <3> QED BY <1>0, <3>1 DEF HubConn
    <2>5. ASSUME NEW t \in {"snap", "phase"}, Broadcast(t) PROVE cl'[c].pc = cl[c].pc /\ cl'[c].key = cl[c].key
      BY <2>5 DEF Broadcast
    <2> QED BY <2>1, <2>2, <2>3, <2>4, <2>5 DEF HubRun
  <1>2. AdmTyped'
    BY <1>0 DEF AdmInv, AdmTyped
  <1> QED BY <1>0, <1>1, <1>2, SlotsFrame

\* A handler's steps take, keep or give back exactly its own slot.
LEMMA HandlerCounts ==
  ASSUME AdmInv, HubInv', NEW c \in Conns, Handler(c) \/ ReadFails(c) PROVE AdmInv'
  <1>0. /\ HubInv /\ AdmTyped /\ cl \in [Conns -> HubConn] /\ cl[c] \in HubConn /\ hub.last \in Nat
    BY DEF AdmInv, HubInv, HubTyped
  <1>1. ASSUME AcceptFails(c) \/ RegisterRefused(c) \/ Unregister(c) PROVE AdmInv'
    <2>1. Return(c) /\ cl[c].pc # "idle"
      BY <1>1 DEF AcceptFails, RegisterRefused, Unregister
    <2> QED BY <2>1, ReturnCounts
  <1>2. ASSUME Accept(c) PROVE AdmInv'
    <2> DEFINE k == [cl[c] EXCEPT !.pc = "register"]
    <2>1. k.pc = "register" /\ k.key = cl[c].key /\ cl' = [cl EXCEPT ![c] = k]
          /\ cl[c].pc = "accept" /\ adm' = adm
      BY <1>0, <1>2 DEF Accept, HubConn
    <2> HIDE DEF k
    <2> QED BY <1>0, <2>1, StaysInside DEF AdmTyped
  <1>3. ASSUME Register(c) PROVE AdmInv'
    <2> DEFINE h == Enqueue([cl[c] EXCEPT !.pc = "live"], Hello)
               k == IF hub.last = 0 THEN h ELSE Enqueue(h, Snap(hub.last))
    <2>1. /\ cl' = [cl EXCEPT ![c] = k] /\ adm' = adm /\ cl[c].pc = "register" /\ Untouched(cl[c])
      BY <1>0, <1>3 DEF Register, HubInv, ClientKept
    <2>2. h \in HubConn /\ h.pc = "live" /\ h.key = cl[c].key
      BY <1>0, <2>1, HelloKeeps
    <2> HIDE DEF h
    <2>3. Snap(hub.last) \in HubFrame
      BY <1>0 DEF Snap, HubFrame
    <2>4. Enqueue(h, Snap(hub.last)).pc = "live" /\ Enqueue(h, Snap(hub.last)).key = cl[c].key
      BY <2>2, <2>3, EnqueueTyped
    <2>5. k.pc = "live" /\ k.key = cl[c].key
      BY <2>2, <2>4
    <2> HIDE DEF k
    <2> QED BY <1>0, <2>1, <2>5, StaysInside DEF AdmTyped
  <1>4. ASSUME ReadFails(c) PROVE AdmInv'
    <2> DEFINE k == [cl[c] EXCEPT !.gone = TRUE]
    <2>1. k.pc = "live" /\ k.key = cl[c].key /\ cl' = [cl EXCEPT ![c] = k]
          /\ cl[c].pc = "live" /\ adm' = adm
      BY <1>0, <1>4 DEF ReadFails, HubConn
    <2> HIDE DEF k
    <2> QED BY <1>0, <2>1, StaysInside DEF AdmTyped
  <1>5. ASSUME PumpStops(c) PROVE AdmInv'
    <2> DEFINE k == [cl[c] EXCEPT !.pc = "unregister"]
    <2>1. k.pc = "unregister" /\ k.key = cl[c].key /\ cl' = [cl EXCEPT ![c] = k]
          /\ cl[c].pc = "live" /\ adm' = adm
      BY <1>0, <1>5 DEF PumpStops, HubConn
    <2> HIDE DEF k
    <2> QED BY <1>0, <2>1, StaysInside DEF AdmTyped
  <1>6. ASSUME PumpDrains(c), cl[c].overflow PROVE AdmInv'
    <2> DEFINE k == [cl[c] EXCEPT !.pc = "unregister", !.queue = <<>>, !.wake = FALSE]
               key == cl[c].key
               g == IF adm.forgive[key] < MaxForgive THEN adm.forgive[key] + 1 ELSE adm.forgive[key]
    <2>1. k.pc = "unregister" /\ k.key = cl[c].key /\ cl' = [cl EXCEPT ![c] = k] /\ cl[c].pc = "live"
      BY <1>0, <1>6 DEF PumpDrains, HubConn
    <2>2. adm' = [adm EXCEPT !.forgive[key] = g] /\ key \in Keys
      BY <1>0, <1>6, <2>1 DEF PumpDrains, AdmTyped, AdmInv
    <2>3. g \in Int
      BY <1>0, <2>2 DEF AdmTyped
    <2> HIDE DEF k, key, g
    <2>4. AdmTyped' /\ adm'.total = adm.total /\ adm'.perKey = adm.perKey
      BY <1>0, <2>2, <2>3 DEF AdmTyped
    <2> QED BY <1>0, <2>1, <2>4, StaysInside
  <1>7. ASSUME PumpDrains(c), ~cl[c].overflow PROVE AdmInv'
    <2> DEFINE k == [cl[c] EXCEPT !.out = cl[c].queue, !.queue = <<>>, !.tailSnap = FALSE, !.wake = FALSE]
    <2>1. k.pc = "live" /\ k.key = cl[c].key /\ cl' = [cl EXCEPT ![c] = k]
          /\ cl[c].pc = "live" /\ adm' = adm
      BY <1>0, <1>7 DEF PumpDrains, HubConn
    <2> HIDE DEF k
    <2> QED BY <1>0, <2>1, StaysInside DEF AdmTyped
  <1>8. ASSUME NEW ok \in BOOLEAN, PumpWrites(c, ok) PROVE AdmInv'
    <2> DEFINE k == [cl[c] EXCEPT !.out = Tail(@), !.seen = Append(@, Head(cl[c].out))]
               u == [cl[c] EXCEPT !.pc = "unregister"]
    <2>1. /\ k.pc = cl[c].pc /\ k.key = cl[c].key /\ u.pc = "unregister" /\ u.key = cl[c].key
          /\ cl' = [cl EXCEPT ![c] = k] \/ cl' = [cl EXCEPT ![c] = u]
          /\ cl[c].pc = "live" /\ adm' = adm
      BY <1>0, <1>8 DEF PumpWrites, HubConn
    <2> HIDE DEF k, u
    <2>2. AdmTyped'
      BY <1>0, <2>1 DEF AdmTyped
    <2>3. CASE cl' = [cl EXCEPT ![c] = k]
      BY <1>0, <2>1, <2>2, <2>3, StaysInside
    <2>4. CASE cl' = [cl EXCEPT ![c] = u]
      BY <1>0, <2>1, <2>2, <2>4, StaysInside
    <2> QED BY <2>1, <2>3, <2>4
  <1> QED BY <1>1, <1>2, <1>3, <1>4, <1>5, <1>6, <1>7, <1>8 DEF Handler

\* Every step keeps the account.
LEMMA AdmSteps ==
  AdmInv /\ [HubNext]_hubVars => AdmInv'
  <1> SUFFICES ASSUME AdmInv, [HubNext]_hubVars PROVE AdmInv'
    OBVIOUS
  <1>0. HubInv'
    BY HubSteps DEF AdmInv
  <1>1. ASSUME UNCHANGED hubVars PROVE AdmInv'
    <2>1. cl' = cl /\ adm' = adm /\ AdmTyped'
      BY <1>1 DEF hubVars, AdmInv, AdmTyped
    <2> QED BY <1>0, <2>1, SlotsFrame
  <1>2. ASSUME HubRun \/ HubStops \/ \E t \in {"snap", "phase"} : Broadcast(t) PROVE AdmInv'
    BY <1>0, <1>2, HubRunCounts
  <1>3. ASSUME NEW c \in Conns, Handler(c) \/ ReadFails(c) PROVE AdmInv'
    BY <1>0, <1>3, HandlerCounts
  <1>4. ASSUME NEW c \in Conns, NEW key \in Keys, Admit(c, key) PROVE AdmInv'
    BY <1>0, <1>4, AdmitCounts
  <1>5. ASSUME NEW key \in Keys, WindowSlides(key) PROVE AdmInv'
    <2>1. cl' = cl /\ adm' = [adm EXCEPT !.hits[key] = @ - 1]
      BY <1>5 DEF WindowSlides
    <2>2. AdmTyped' /\ adm'.total = adm.total /\ adm'.perKey = adm.perKey
      BY <2>1 DEF AdmInv, AdmTyped
    <2> QED BY <1>0, <2>1, <2>2, SlotsFrame
  <1> QED BY <1>1, <1>2, <1>3, <1>4, <1>5 DEF HubNext

\* The admission counters are always exactly the handlers between admit and
\* return, on every way out, so no slot stays taken (admit, release, Handler).
THEOREM SlotsAlwaysReturned ==
  HubSpec => []SlotsReturned
  <1>1. AdmInv => SlotsReturned
    BY DEF AdmInv, SlotsReturned, Inside, InsideOf
  <1> QED BY <1>1, AdmStarts, AdmSteps, PTL DEF HubSpec

-----------------------------------------------------------------------------
(* The bus: its inductive invariant *)

SubRec == [pc : {"none", "loop", "handling", "exited"}, cancelled : BOOLEAN,
           queue : Seq(Nat), wants : BOOLEAN, ev : Nat]

BusTyped == /\ list \subseteq Subs /\ sub \in [Subs -> SubRec] /\ next \in Nat \ {0}
            /\ pub \in [Pubs -> [ev : Nat, todo : SUBSET Subs]]
            /\ sent \in [Subs -> SUBSET Nat] /\ counted \in [Subs -> SUBSET Nat]
            /\ took \in [Subs -> Seq(Nat)]

\* No two publishers are on the same event, and none offers one twice.
PubsApart ==
    /\ \A p \in Pubs : pub[p].ev < next
    /\ \A p, r \in Pubs : p # r /\ pub[p].ev # 0 => pub[p].ev # pub[r].ev
    /\ \A p \in Pubs : \A s \in pub[p].todo : pub[p].ev # 0 /\ pub[p].ev \notin sent[s]
    /\ \A s \in Subs : \A e \in sent[s] : e # 0 /\ e < next

\* The places an event can be in, of a subscriber k with handled events t and
\* counted events n.
Hand(k) == {k.ev} \ {0}
EventPlaces(k, t, n) == ToSet(k.queue) \cup Hand(k) \cup ToSet(t) \cup n

Once(q) == \A i, j \in DOMAIN q : q[i] = q[j] => i = j

\* What is queued or in hand is in no other place and queued once, so that a
\* move never merges two places; the one event that may be missing is the one
\* that was in hand when the subscriber was cancelled.
Accounted(k, t, n, o) ==
    /\ IsFiniteSet(o) /\ 0 \notin o /\ EventPlaces(k, t, n) \subseteq o
    /\ Once(k.queue) /\ \A e \in ToSet(k.queue) : e \notin ToSet(t) \cup n
    /\ k.ev # 0 => k.ev \notin ToSet(k.queue) \cup ToSet(t) \cup n
    /\ k.ev # 0 <=> k.pc = "handling"
    /\ Cardinality(EventPlaces(k, t, n)) = Len(k.queue) + Cardinality(Hand(k)) + Len(t) + Cardinality(n)
    /\ \/ o \ EventPlaces(k, t, n) = {}
       \/ k.cancelled /\ k.pc # "handling" /\ \E x : o \ EventPlaces(k, t, n) = {x}

BusInv == /\ BusTyped /\ PubsApart
          /\ \A s \in Subs : Accounted(sub[s], took[s], counted[s], sent[s])

-----------------------------------------------------------------------------
(* The bus: queues *)

\* An event at the end of a sequence.
LEMMA EventAppended ==
  ASSUME NEW q \in Seq(Nat), NEW e \in Nat
  PROVE  /\ Append(q, e) \in Seq(Nat) /\ Len(Append(q, e)) = Len(q) + 1 /\ Len(q) \in Nat
         /\ ToSet(Append(q, e)) = ToSet(q) \cup {e}
         /\ Once(q) /\ e \notin ToSet(q) => Once(Append(q, e))
  <1> DEFINE a == Append(q, e)
  <1>1. /\ a \in Seq(Nat) /\ Len(a) = Len(q) + 1 /\ a[Len(q) + 1] = e
        /\ \A i \in 1..Len(q) : a[i] = q[i]
    BY AppendProperties
  <1>2. /\ Len(q) \in Nat /\ DOMAIN q = 1..Len(q) /\ DOMAIN a = 1..(Len(q) + 1)
    BY <1>1, LenProperties
  <1> HIDE DEF a
  <1>3. \A i \in DOMAIN a : (i \in DOMAIN q /\ a[i] = q[i]) \/ (i = Len(q) + 1 /\ a[i] = e)
    BY <1>1, <1>2
  <1>4. ToSet(a) = ToSet(q) \cup {e}
    <2>1. Len(q) + 1 \in DOMAIN a /\ \A i \in DOMAIN q : i \in DOMAIN a /\ a[i] = q[i]
      BY <1>1, <1>2
    <2> QED BY <1>1, <1>3, <2>1 DEF ToSet
  <1>5. ASSUME Once(q), e \notin ToSet(q) PROVE Once(a)
    <2>1. \A i \in DOMAIN q : q[i] # e
      BY <1>5 DEF ToSet
    <2> QED BY <1>3, <1>5, <2>1 DEF Once
  <1> QED BY <1>1, <1>2, <1>4, <1>5 DEF a

\* The event at the head of a queue, and those behind it.
LEMMA EventTaken ==
  ASSUME NEW q \in Seq(Nat), q # <<>>
  PROVE  /\ Head(q) \in Nat /\ Tail(q) \in Seq(Nat) /\ Len(q) = Len(Tail(q)) + 1 /\ Len(Tail(q)) \in Nat
         /\ ToSet(q) = ToSet(Tail(q)) \cup {Head(q)}
         /\ Once(q) => Once(Tail(q)) /\ Head(q) \notin ToSet(Tail(q))
  <1> DEFINE t == Tail(q)
  <1>1. Len(q) \in Nat \ {0} /\ DOMAIN q = 1..Len(q) /\ Head(q) = q[1]
    BY EmptySeq, LenProperties
  <1>2. /\ Head(q) \in Nat /\ t \in Seq(Nat) /\ Len(t) = Len(q) - 1
        /\ \A i \in 1..Len(t) : t[i] = q[i + 1]
    BY HeadTailProperties
  <1>3. DOMAIN t = 1..(Len(q) - 1)
    BY <1>1, <1>2, LenProperties
  <1> HIDE DEF t
  <1>4. \A i \in DOMAIN t : i + 1 \in DOMAIN q /\ i + 1 # 1 /\ t[i] = q[i + 1]
    BY <1>1, <1>2, <1>3, SMTT(30)
  <1>5. \A i \in DOMAIN q : i = 1 \/ (i - 1 \in DOMAIN t /\ t[i - 1] = q[i])
    BY <1>1, <1>2, <1>3, SMTT(30)
  <1>6. ToSet(q) = ToSet(t) \cup {q[1]}
    <2>1. 1 \in DOMAIN q
      BY <1>1
    <2> QED BY <1>4, <1>5, <2>1 DEF ToSet
  <1>7. ASSUME Once(q) PROVE Once(t) /\ q[1] \notin ToSet(t)
    <2>1. \A i \in DOMAIN t : t[i] # q[1]
      BY <1>1, <1>4, <1>7 DEF Once
    <2>2. ASSUME NEW i \in DOMAIN t, NEW j \in DOMAIN t, t[i] = t[j] PROVE i = j
      <3>1. i + 1 = j + 1
        BY <1>4, <1>7, <2>2 DEF Once
      <3> QED BY <1>3, <3>1
    <2> QED BY <2>1, <2>2 DEF Once, ToSet
  <1> QED BY <1>1, <1>2, <1>6, <1>7 DEF t

\* The places of an account are finite, and so are its parts.
LEMMA PlacesFinite ==
  ASSUME NEW k, NEW t, NEW n, NEW o, Accounted(k, t, n, o)
  PROVE  /\ IsFiniteSet(EventPlaces(k, t, n)) /\ IsFiniteSet(n)
         /\ Cardinality(EventPlaces(k, t, n)) \in Nat /\ Cardinality(n) \in Nat
  <1>1. EventPlaces(k, t, n) \in SUBSET o /\ n \in SUBSET o /\ IsFiniteSet(o)
    BY DEF Accounted, EventPlaces
  <1>2. IsFiniteSet(EventPlaces(k, t, n)) /\ IsFiniteSet(n)
    BY <1>1, FS_Subset
  <1> QED BY <1>2, FS_CardinalityType

\* One event is in hand, or none.
LEMMA HandCounted ==
  ASSUME NEW k
  PROVE  /\ k.ev = 0 => Hand(k) = {} /\ Cardinality(Hand(k)) = 0
         /\ k.ev # 0 => Hand(k) = {k.ev} /\ Cardinality(Hand(k)) = 1
  <1>1. k.ev = 0 => Hand(k) = {}
    BY DEF Hand
  <1>2. k.ev # 0 => Hand(k) = {k.ev}
    BY DEF Hand
  <1> QED BY <1>1, <1>2, FS_EmptySet, FS_Singleton

-----------------------------------------------------------------------------
(* The bus: what each step does to the account *)

\* A new event is queued ...
LEMMA QueuedAccounted ==
  ASSUME NEW k \in SubRec, NEW t \in Seq(Nat), NEW n, NEW o, Accounted(k, t, n, o),
         NEW e \in Nat \ {0}, e \notin o,
         NEW m \in SubRec, m.queue = Append(k.queue, e), m.ev = k.ev, m.pc = k.pc, m.cancelled = k.cancelled
  PROVE  Accounted(m, t, n, o \cup {e})
  <1>1. /\ k.queue \in Seq(Nat) /\ IsFiniteSet(o)
        /\ EventPlaces(k, t, n) \subseteq o /\ e \notin EventPlaces(k, t, n)
    BY DEF Accounted, SubRec
  <1>2. /\ Len(m.queue) = Len(k.queue) + 1 /\ Len(k.queue) \in Nat /\ ToSet(m.queue) = ToSet(k.queue) \cup {e}
        /\ Once(k.queue) /\ e \notin ToSet(k.queue) => Once(m.queue)
    BY <1>1, EventAppended
  <1>3. Hand(m) = Hand(k) /\ EventPlaces(m, t, n) = EventPlaces(k, t, n) \cup {e}
    BY <1>2 DEF Hand, EventPlaces
  <1>4. /\ Cardinality(EventPlaces(m, t, n)) = Cardinality(EventPlaces(k, t, n)) + 1
        /\ IsFiniteSet(o \cup {e})
    BY <1>1, <1>3, PlacesFinite, FS_AddElement
  <1>5. (o \cup {e}) \ EventPlaces(m, t, n) = o \ EventPlaces(k, t, n)
    BY <1>1, <1>3
  <1>6. Cardinality(EventPlaces(m, t, n)) = Len(m.queue) + Cardinality(Hand(m)) + Len(t) + Cardinality(n)
    <2>1. Cardinality(EventPlaces(k, t, n)) = Len(k.queue) + Cardinality(Hand(k)) + Len(t) + Cardinality(n)
      BY DEF Accounted
    <2>2. Cardinality(Hand(k)) \in Nat /\ Len(t) \in Nat /\ Cardinality(n) \in Nat
      BY PlacesFinite, HandCounted, LenProperties
    <2> QED BY <1>2, <1>3, <1>4, <2>1, <2>2
  <1>7. /\ Once(m.queue) /\ \A x \in ToSet(m.queue) : x \notin ToSet(t) \cup n
        /\ m.ev # 0 => m.ev \notin ToSet(m.queue) \cup ToSet(t) \cup n
        /\ m.ev # 0 <=> m.pc = "handling"
    BY <1>1, <1>2 DEF Accounted, EventPlaces, Hand
  <1>8. \/ (o \cup {e}) \ EventPlaces(m, t, n) = {}
        \/ m.cancelled /\ m.pc # "handling" /\ \E x : (o \cup {e}) \ EventPlaces(m, t, n) = {x}
    BY <1>5 DEF Accounted
  <1>9. 0 \notin o \cup {e} /\ EventPlaces(m, t, n) \subseteq o \cup {e}
    BY <1>1, <1>3 DEF Accounted
  <1> QED BY <1>4, <1>6, <1>7, <1>8, <1>9 DEF Accounted

\* ... or, at a full queue, counted.
LEMMA DroppedAccounted ==
  ASSUME NEW k \in SubRec, NEW t \in Seq(Nat), NEW n, NEW o, Accounted(k, t, n, o),
         NEW e \in Nat \ {0}, e \notin o
  PROVE  Accounted(k, t, n \cup {e}, o \cup {e})
  <1>1. /\ k.queue \in Seq(Nat) /\ IsFiniteSet(o) /\ e \notin n
        /\ EventPlaces(k, t, n) \subseteq o /\ e \notin EventPlaces(k, t, n)
    BY DEF Accounted, SubRec, EventPlaces
  <1>3. EventPlaces(k, t, n \cup {e}) = EventPlaces(k, t, n) \cup {e}
    BY DEF EventPlaces
  <1>4. /\ Cardinality(EventPlaces(k, t, n) \cup {e}) = Cardinality(EventPlaces(k, t, n)) + 1
        /\ Cardinality(n \cup {e}) = Cardinality(n) + 1
        /\ IsFiniteSet(o \cup {e})
    BY <1>1, PlacesFinite, FS_AddElement
  <1>5. (o \cup {e}) \ EventPlaces(k, t, n \cup {e}) = o \ EventPlaces(k, t, n)
    BY <1>1, <1>3
  <1>6. Cardinality(EventPlaces(k, t, n \cup {e})) = Len(k.queue) + Cardinality(Hand(k)) + Len(t) + Cardinality(n \cup {e})
    <2>1. Cardinality(EventPlaces(k, t, n)) = Len(k.queue) + Cardinality(Hand(k)) + Len(t) + Cardinality(n)
      BY DEF Accounted
    <2>2. Cardinality(Hand(k)) \in Nat /\ Len(t) \in Nat /\ Cardinality(n) \in Nat /\ Len(k.queue) \in Nat
      BY <1>1, PlacesFinite, HandCounted, LenProperties
    <2>3. Cardinality(EventPlaces(k, t, n \cup {e})) = Cardinality(EventPlaces(k, t, n)) + 1
      BY <1>3, <1>4
    <2>4. Cardinality(n \cup {e}) = Cardinality(n) + 1
      BY <1>4
    <2> DEFINE L == Len(k.queue)
               H == Cardinality(Hand(k))
               T == Len(t)
               C == Cardinality(n)
               D == Cardinality(n \cup {e})
               P == Cardinality(EventPlaces(k, t, n \cup {e}))
    <2>5. P = L + H + T + C + 1 /\ D = C + 1 /\ L \in Nat /\ H \in Nat /\ T \in Nat /\ C \in Nat
      BY <2>1, <2>2, <2>3, <2>4
    <2> HIDE DEF L, H, T, C, D, P
    <2>6. P = L + H + T + D
      BY <2>5
    <2> QED BY <2>6 DEF L, H, T, D, P
  <1>7. /\ Once(k.queue) /\ \A x \in ToSet(k.queue) : x \notin ToSet(t) \cup (n \cup {e})
        /\ k.ev # 0 => k.ev \notin ToSet(k.queue) \cup ToSet(t) \cup (n \cup {e})
        /\ k.ev # 0 <=> k.pc = "handling"
    BY <1>1 DEF Accounted, EventPlaces, Hand
  <1>8. \/ (o \cup {e}) \ EventPlaces(k, t, n \cup {e}) = {}
        \/ k.cancelled /\ k.pc # "handling" /\ \E x : (o \cup {e}) \ EventPlaces(k, t, n \cup {e}) = {x}
    BY <1>5 DEF Accounted
  <1>9. 0 \notin o \cup {e} /\ EventPlaces(k, t, n \cup {e}) \subseteq o \cup {e}
    BY <1>1, <1>3 DEF Accounted
  <1> QED BY <1>4, <1>6, <1>7, <1>8, <1>9 DEF Accounted

\* The goroutine takes the head of its queue in hand: the places stay the same.
LEMMA TakenAccounted ==
  ASSUME NEW k \in SubRec, NEW t \in Seq(Nat), NEW n, NEW o, Accounted(k, t, n, o),
         k.pc = "loop", ~k.cancelled, k.queue # <<>>,
         NEW m \in SubRec, m.queue = Tail(k.queue), m.ev = Head(k.queue), m.pc = "handling",
         m.cancelled = k.cancelled
  PROVE  Accounted(m, t, n, o)
  <1>1. k.queue \in Seq(Nat) /\ k.ev = 0 /\ IsFiniteSet(o) /\ 0 \notin o
    BY DEF Accounted, SubRec
  <1>2. /\ Len(k.queue) = Len(m.queue) + 1 /\ Len(m.queue) \in Nat
        /\ ToSet(k.queue) = ToSet(m.queue) \cup {m.ev}
        /\ Once(m.queue) /\ m.ev \notin ToSet(m.queue)
    BY <1>1, EventTaken DEF Accounted
  <1>3. m.ev \in o /\ m.ev # 0
    BY <1>1, <1>2 DEF Accounted, EventPlaces
  <1>4. Hand(k) = {} /\ Hand(m) = {m.ev} /\ Cardinality(Hand(k)) = 0 /\ Cardinality(Hand(m)) = 1
    BY <1>1, <1>3, HandCounted
  <1>5. EventPlaces(m, t, n) = EventPlaces(k, t, n)
    BY <1>2, <1>4 DEF EventPlaces
  <1>6. Cardinality(EventPlaces(m, t, n)) = Len(m.queue) + Cardinality(Hand(m)) + Len(t) + Cardinality(n)
    <2>1. Cardinality(EventPlaces(k, t, n)) = Len(k.queue) + Cardinality(Hand(k)) + Len(t) + Cardinality(n)
      BY DEF Accounted
    <2>2. Len(t) \in Nat /\ Cardinality(n) \in Nat
      BY PlacesFinite, LenProperties
    <2> QED BY <1>2, <1>4, <1>5, <2>1, <2>2
  <1>7. /\ \A x \in ToSet(m.queue) : x \notin ToSet(t) \cup n
        /\ m.ev \notin ToSet(m.queue) \cup ToSet(t) \cup n
    BY <1>2 DEF Accounted
  <1>8. o \ EventPlaces(m, t, n) = {} /\ EventPlaces(m, t, n) \subseteq o
    BY <1>5 DEF Accounted
  <1> QED BY <1>1, <1>2, <1>3, <1>6, <1>7, <1>8 DEF Accounted

\* The head of a queue is counted, by the goroutine that stops or by remove.
LEMMA CountedAccounted ==
  ASSUME NEW k \in SubRec, NEW t \in Seq(Nat), NEW n, NEW o, Accounted(k, t, n, o),
         k.pc # "handling", k.queue # <<>>,
         NEW m \in SubRec, m.queue = Tail(k.queue), m.ev = k.ev, m.pc # "handling",
         m.cancelled = k.cancelled
  PROVE  Accounted(m, t, n \cup {Head(k.queue)}, o)
  <1> DEFINE e == Head(k.queue)
             b == n \cup {e}
  <1>1. k.queue \in Seq(Nat) /\ k.ev = 0 /\ m.ev = 0 /\ IsFiniteSet(o) /\ 0 \notin o
    BY DEF Accounted, SubRec
  <1>2. /\ Len(k.queue) = Len(m.queue) + 1 /\ Len(m.queue) \in Nat
        /\ ToSet(k.queue) = ToSet(m.queue) \cup {e}
        /\ Once(m.queue) /\ e \notin ToSet(m.queue)
    BY <1>1, EventTaken DEF Accounted
  <1> HIDE DEF e
  <1>3. e \notin n /\ e \notin ToSet(t)
    BY <1>2 DEF Accounted
  <1>4. Hand(k) = {} /\ Hand(m) = {} /\ Cardinality(Hand(k)) = 0 /\ Cardinality(Hand(m)) = 0
    BY <1>1, HandCounted
  <1>5. EventPlaces(m, t, b) = EventPlaces(k, t, n)
    BY <1>2, <1>4 DEF EventPlaces
  <1>6. Cardinality(EventPlaces(m, t, b)) = Len(m.queue) + Cardinality(Hand(m)) + Len(t) + Cardinality(b)
    <2>1. Cardinality(EventPlaces(k, t, n)) = Len(k.queue) + Cardinality(Hand(k)) + Len(t) + Cardinality(n)
      BY DEF Accounted
    <2>2. Len(t) \in Nat /\ Cardinality(n) \in Nat /\ Cardinality(b) = Cardinality(n) + 1
      BY <1>3, PlacesFinite, LenProperties, FS_AddElement
    <2>3. Cardinality(EventPlaces(m, t, b)) = (Len(m.queue) + 1) + 0 + Len(t) + Cardinality(n)
      BY <1>2, <1>4, <1>5, <2>1
    <2>4. (Len(m.queue) + 1) + 0 + Len(t) + Cardinality(n) = Len(m.queue) + 0 + Len(t) + (Cardinality(n) + 1)
      BY <1>2, <2>2
    <2> HIDE DEF b
    <2> QED BY <1>4, <2>2, <2>3, <2>4
  <1>7. \A x \in ToSet(m.queue) : x \notin ToSet(t) \cup b
    BY <1>2 DEF Accounted
  <1>8. /\ EventPlaces(m, t, b) \subseteq o
        /\ \/ o \ EventPlaces(m, t, b) = {}
           \/ m.cancelled /\ m.pc # "handling" /\ \E x : o \ EventPlaces(m, t, b) = {x}
    BY <1>5 DEF Accounted
  <1> HIDE DEF b
  <1>9. Accounted(m, t, b, o)
    BY <1>1, <1>2, <1>6, <1>7, <1>8 DEF Accounted
  <1> QED BY <1>9 DEF b, e

\* The handler is done with the event in hand.
LEMMA HandledAccounted ==
  ASSUME NEW k \in SubRec, NEW t \in Seq(Nat), NEW n, NEW o, Accounted(k, t, n, o),
         k.pc = "handling",
         NEW m \in SubRec, m.queue = k.queue, m.ev = 0, m.pc = "loop", m.cancelled = k.cancelled
  PROVE  /\ Accounted(m, Append(t, k.ev), n, o)
         /\ Accounted(m, t, n \cup {k.ev}, o)
         /\ k.cancelled => Accounted(m, t, n, o)
  <1>1. /\ k.ev \in Nat /\ k.ev # 0 /\ IsFiniteSet(o) /\ 0 \notin o /\ k.queue \in Seq(Nat)
        /\ k.ev \notin ToSet(k.queue) /\ k.ev \notin ToSet(t) /\ k.ev \notin n
        /\ Once(k.queue) /\ \A x \in ToSet(k.queue) : x \notin ToSet(t) \cup n
        /\ o \ EventPlaces(k, t, n) = {} /\ EventPlaces(k, t, n) \subseteq o
    BY DEF Accounted, SubRec
  <1>2. Hand(k) = {k.ev} /\ Hand(m) = {} /\ Cardinality(Hand(k)) = 1 /\ Cardinality(Hand(m)) = 0
    BY <1>1, HandCounted
  <1>3. /\ Cardinality(EventPlaces(k, t, n)) = Len(k.queue) + Cardinality(Hand(k)) + Len(t) + Cardinality(n)
        /\ Len(k.queue) \in Nat /\ Len(t) \in Nat /\ Cardinality(n) \in Nat
        /\ IsFiniteSet(n) /\ IsFiniteSet(EventPlaces(k, t, n))
    BY <1>1, PlacesFinite, LenProperties DEF Accounted
  <1>4. Accounted(m, Append(t, k.ev), n, o)
    <2> DEFINE a == Append(t, k.ev)
    <2>1. ToSet(a) = ToSet(t) \cup {k.ev} /\ Len(a) = Len(t) + 1
      BY <1>1, EventAppended
    <2> HIDE DEF a
    <2>2. EventPlaces(m, a, n) = EventPlaces(k, t, n)
      BY <1>2, <2>1 DEF EventPlaces
    <2>3. Cardinality(EventPlaces(m, a, n)) = Len(m.queue) + Cardinality(Hand(m)) + Len(a) + Cardinality(n)
      <3>1. Cardinality(EventPlaces(m, a, n)) = Len(k.queue) + 1 + Len(t) + Cardinality(n)
        BY <1>2, <1>3, <2>2
      <3> DEFINE L == Len(k.queue)
                 T == Len(t)
                 A == Len(a)
                 C == Cardinality(n)
                 P == Cardinality(EventPlaces(m, a, n))
      <3>2. P = L + 1 + T + C /\ A = T + 1 /\ L \in Nat /\ T \in Nat /\ C \in Nat
        BY <1>3, <2>1, <3>1
      <3> HIDE DEF L, T, A, C, P
      <3>3. P = L + 0 + A + C
        BY <3>2
      <3> QED BY <1>2, <3>3 DEF L, A, C, P
    <2>4. \A x \in ToSet(m.queue) : x \notin ToSet(a) \cup n
      BY <1>1, <2>1
    <2>5. Accounted(m, a, n, o)
      BY <1>1, <2>2, <2>3, <2>4 DEF Accounted
    <2> QED BY <2>5 DEF a
  <1>5. Accounted(m, t, n \cup {k.ev}, o)
    <2> DEFINE b == n \cup {k.ev}
    <2>1. Cardinality(b) = Cardinality(n) + 1
      BY <1>1, <1>3, FS_AddElement
    <2>2. EventPlaces(m, t, b) = EventPlaces(k, t, n)
      BY <1>2 DEF EventPlaces
    <2>4. \A x \in ToSet(m.queue) : x \notin ToSet(t) \cup b
      BY <1>1
    <2> HIDE DEF b
    <2>3. Cardinality(EventPlaces(m, t, b)) = Len(m.queue) + Cardinality(Hand(m)) + Len(t) + Cardinality(b)
      <3>1. Cardinality(EventPlaces(m, t, b)) = Len(k.queue) + 1 + Len(t) + Cardinality(n)
        BY <1>2, <1>3, <2>2
      <3> DEFINE L == Len(k.queue)
                 T == Len(t)
                 C == Cardinality(n)
                 D == Cardinality(b)
                 P == Cardinality(EventPlaces(m, t, b))
      <3>2. P = L + 1 + T + C /\ D = C + 1 /\ L \in Nat /\ T \in Nat /\ C \in Nat
        BY <1>3, <2>1, <3>1
      <3> HIDE DEF L, T, C, D, P
      <3>3. P = L + 0 + T + D
        BY <3>2
      <3> QED BY <1>2, <3>3 DEF L, T, D, P
    <2>5. Accounted(m, t, b, o)
      BY <1>1, <2>2, <2>3, <2>4 DEF Accounted
    <2> QED BY <2>5 DEF b
  <1>6. ASSUME k.cancelled PROVE Accounted(m, t, n, o)
    <2>1. EventPlaces(m, t, n) = EventPlaces(k, t, n) \ {k.ev} /\ k.ev \in EventPlaces(k, t, n)
      BY <1>1, <1>2 DEF EventPlaces
    <2>2. Cardinality(EventPlaces(k, t, n) \ {k.ev}) = Cardinality(EventPlaces(k, t, n)) - 1
      BY <1>3, <2>1, FS_RemoveElement
    <2>3. Cardinality(EventPlaces(m, t, n)) = Len(m.queue) + Cardinality(Hand(m)) + Len(t) + Cardinality(n)
      BY <1>2, <1>3, <2>1, <2>2
    <2>4. o \ EventPlaces(m, t, n) = {k.ev} /\ EventPlaces(m, t, n) \subseteq o
      BY <1>1, <2>1
    <2> QED BY <1>1, <1>6, <2>3, <2>4 DEF Accounted
  <1> QED BY <1>4, <1>5, <1>6

\* The goroutine's place and the context change, not where the events are.
LEMMA PlaceAccounted ==
  ASSUME NEW k \in SubRec, NEW t, NEW n, NEW o, Accounted(k, t, n, o),
         NEW m \in SubRec, m.queue = k.queue, m.ev = k.ev, m.pc = "handling" <=> k.pc = "handling",
         k.cancelled => m.cancelled
  PROVE  Accounted(m, t, n, o)
  <1>1. Hand(m) = Hand(k) /\ EventPlaces(m, t, n) = EventPlaces(k, t, n)
    BY DEF Hand, EventPlaces
  <1> QED BY <1>1 DEF Accounted

-----------------------------------------------------------------------------
(* The bus: its steps *)

\* A step of one subscriber, with no publisher.
LEMMA SubscriberStep ==
  ASSUME BusInv, NEW s \in Subs, NEW m \in SubRec, NEW t \in Seq(Nat), NEW n \in SUBSET Nat,
         Accounted(m, t, n, sent[s]), sub' = [sub EXCEPT ![s] = m], took' = [took EXCEPT ![s] = t],
         counted' = [counted EXCEPT ![s] = n],
         list' \subseteq Subs, UNCHANGED <<pub, next, sent>>
  PROVE  BusInv'
  <1>1. BusTyped
    BY DEF BusInv
  <1>2. BusTyped'
    BY <1>1 DEF BusTyped
  <1>3. PubsApart'
    BY DEF BusInv, PubsApart
  <1>4. ASSUME NEW r \in Subs PROVE Accounted(sub'[r], took'[r], counted'[r], sent'[r])
    <2>1. CASE r = s
      <3>1. sub'[r] = m /\ took'[r] = t /\ counted'[r] = n /\ sent'[r] = sent[s]
        BY <1>1, <2>1 DEF BusTyped
      <3> QED BY <3>1
    <2>2. CASE r # s
      <3>1. sub'[r] = sub[r] /\ took'[r] = took[r] /\ counted'[r] = counted[r] /\ sent'[r] = sent[r]
        BY <1>1, <2>2 DEF BusTyped
      <3> QED BY <3>1 DEF BusInv
    <2> QED BY <2>1, <2>2
  <1>5. \A r \in Subs : Accounted(sub[r], took[r], counted[r], sent[r])'
    BY <1>4 DEF Accounted, EventPlaces, Hand, Once
  <1> QED BY <1>2, <1>3, <1>5 DEF BusInv

\* The subscriber's record alone changes.
LEMMA RecordStep ==
  ASSUME BusInv, NEW s \in Subs, NEW m \in SubRec, sub' = [sub EXCEPT ![s] = m],
         m.queue = sub[s].queue, m.ev = sub[s].ev, m.pc = "handling" <=> sub[s].pc = "handling",
         sub[s].cancelled => m.cancelled, list' \subseteq Subs,
         UNCHANGED <<pub, next, sent, took, counted>>
  PROVE  BusInv'
  <1>1. /\ sub[s] \in SubRec /\ took \in [Subs -> Seq(Nat)] /\ counted \in [Subs -> SUBSET Nat]
        /\ Accounted(sub[s], took[s], counted[s], sent[s])
    BY DEF BusInv, BusTyped
  <1>2. Accounted(m, took[s], counted[s], sent[s])
    BY <1>1, PlaceAccounted
  <1>3. took' = [took EXCEPT ![s] = took[s]] /\ counted' = [counted EXCEPT ![s] = counted[s]]
    BY <1>1
  <1>4. took[s] \in Seq(Nat) /\ counted[s] \in SUBSET Nat
    BY <1>1
  <1> QED BY <1>2, <1>3, <1>4, SubscriberStep

\* Subscribe, and the remover's steps that leave the queue alone.
LEMMA ListKeeps ==
  ASSUME BusInv, NEW s \in Subs,
         \/ \E w \in BOOLEAN : Subscribe(s, w)
         \/ RunStops(s) \/ RemoveSwap(s) \/ RemoveCancel(s) \/ RemoveReturns(s)
  PROVE  BusInv'
  <1>0. sub \in [Subs -> SubRec] /\ sub[s] \in SubRec /\ list \subseteq Subs
    BY DEF BusInv, BusTyped
  <1>1. ASSUME NEW w \in BOOLEAN, Subscribe(s, w) PROVE BusInv'
    <2> DEFINE m == [sub[s] EXCEPT !.pc = "loop", !.wants = w]
    <2>1. /\ sub' = [sub EXCEPT ![s] = m] /\ list' \subseteq Subs /\ sub[s].pc = "none"
          /\ UNCHANGED <<pub, next, sent, took, counted>>
      BY <1>0, <1>1 DEF Subscribe
    <2>2. /\ m \in SubRec /\ m.queue = sub[s].queue /\ m.ev = sub[s].ev /\ m.pc = "loop"
          /\ m.cancelled = sub[s].cancelled
      BY <1>0 DEF SubRec
    <2> HIDE DEF m
    <2> QED BY <2>1, <2>2, RecordStep
  <1>2. ASSUME RunStops(s) PROVE BusInv'
    <2> DEFINE m == [sub[s] EXCEPT !.pc = "exited"]
    <2>1. /\ sub' = [sub EXCEPT ![s] = m] /\ list' \subseteq Subs /\ sub[s].pc = "loop"
          /\ UNCHANGED <<pub, next, sent, took, counted>>
      BY <1>0, <1>2 DEF RunStops
    <2>2. /\ m \in SubRec /\ m.queue = sub[s].queue /\ m.ev = sub[s].ev /\ m.pc = "exited"
          /\ m.cancelled = sub[s].cancelled
      BY <1>0 DEF SubRec
    <2> HIDE DEF m
    <2> QED BY <2>1, <2>2, RecordStep
  <1>3. ASSUME RemoveSwap(s) \/ RemoveReturns(s) PROVE BusInv'
    <2>1. /\ sub' = [sub EXCEPT ![s] = sub[s]] /\ list' \subseteq Subs
          /\ UNCHANGED <<pub, next, sent, took, counted>>
      BY <1>0, <1>3 DEF RemoveSwap, RemoveReturns
    <2> QED BY <1>0, <2>1, RecordStep
  <1>4. ASSUME RemoveCancel(s) PROVE BusInv'
    <2> DEFINE m == [sub[s] EXCEPT !.cancelled = TRUE]
    <2>1. /\ sub' = [sub EXCEPT ![s] = m] /\ list' \subseteq Subs
          /\ UNCHANGED <<pub, next, sent, took, counted>>
      BY <1>0, <1>4 DEF RemoveCancel
    <2>2. /\ m \in SubRec /\ m.queue = sub[s].queue /\ m.ev = sub[s].ev /\ m.pc = sub[s].pc
          /\ m.cancelled
      BY <1>0 DEF SubRec
    <2> HIDE DEF m
    <2> QED BY <2>1, <2>2, RecordStep
  <1> QED BY <1>1, <1>2, <1>3, <1>4

\* An event leaves the queue, for the handler or the counter.
LEMMA QueueKeeps ==
  ASSUME BusInv, NEW s \in Subs, RunTakes(s) \/ RemoveDrain(s) PROVE BusInv'
  <1> DEFINE k == sub[s]
             e == Head(sub[s].queue)
  <1>0. /\ sub \in [Subs -> SubRec] /\ k \in SubRec /\ list' \subseteq Subs
        /\ took \in [Subs -> Seq(Nat)] /\ took[s] \in Seq(Nat)
        /\ counted \in [Subs -> SUBSET Nat] /\ counted[s] \in SUBSET Nat
        /\ Accounted(k, took[s], counted[s], sent[s])
        /\ UNCHANGED <<pub, next, sent, took>> /\ k.queue # <<>> /\ k.queue \in Seq(Nat)
    BY DEF BusInv, BusTyped, RunTakes, RemoveDrain, SubRec
  <1>1. e \in Nat /\ Tail(k.queue) \in Seq(Nat)
    BY <1>0, EventTaken
  <1>t. took' = [took EXCEPT ![s] = took[s]]
    BY <1>0
  <1>2. CASE RunTakes(s) /\ ~k.cancelled
    <2> DEFINE m == [sub[s] EXCEPT !.pc = "handling", !.queue = Tail(sub[s].queue), !.ev = e]
    <2>1. /\ sub' = [sub EXCEPT ![s] = m] /\ counted' = [counted EXCEPT ![s] = counted[s]]
          /\ k.pc = "loop"
      BY <1>0, <1>2 DEF RunTakes
    <2>2. /\ m \in SubRec /\ m.queue = Tail(k.queue) /\ m.ev = Head(k.queue) /\ m.pc = "handling"
          /\ m.cancelled = k.cancelled
      BY <1>0, <1>1 DEF SubRec
    <2> HIDE DEF m
    <2>3. Accounted(m, took[s], counted[s], sent[s])
      BY <1>0, <1>2, <2>1, <2>2, TakenAccounted
    <2> QED BY <1>0, <1>t, <2>1, <2>2, <2>3, SubscriberStep
  <1>3. CASE RunTakes(s) /\ k.cancelled
    <2> DEFINE m == [sub[s] EXCEPT !.pc = "exited", !.queue = Tail(sub[s].queue)]
    <2>1. /\ sub' = [sub EXCEPT ![s] = m] /\ counted' = [counted EXCEPT ![s] = counted[s] \cup {e}]
          /\ k.pc = "loop"
      BY <1>0, <1>3 DEF RunTakes, Count
    <2>2. /\ m \in SubRec /\ m.queue = Tail(k.queue) /\ m.ev = k.ev /\ m.pc = "exited"
          /\ m.cancelled = k.cancelled
      BY <1>0, <1>1 DEF SubRec
    <2> HIDE DEF m
    <2>3. Accounted(m, took[s], counted[s] \cup {Head(k.queue)}, sent[s])
      BY <1>0, <2>1, <2>2, CountedAccounted
    <2>4. counted[s] \cup {e} \in SUBSET Nat
      BY <1>0, <1>1
    <2> QED BY <1>0, <1>t, <2>1, <2>2, <2>3, <2>4, SubscriberStep
  <1>4. CASE RemoveDrain(s)
    <2> DEFINE m == [sub[s] EXCEPT !.queue = Tail(sub[s].queue)]
    <2>1. /\ sub' = [sub EXCEPT ![s] = m] /\ counted' = [counted EXCEPT ![s] = counted[s] \cup {e}]
          /\ k.pc = "exited"
      BY <1>0, <1>4 DEF RemoveDrain, Count
    <2>2. /\ m \in SubRec /\ m.queue = Tail(k.queue) /\ m.ev = k.ev /\ m.pc = "exited"
          /\ m.cancelled = k.cancelled
      BY <1>0, <1>1, <2>1 DEF SubRec
    <2> HIDE DEF m
    <2>3. Accounted(m, took[s], counted[s] \cup {Head(k.queue)}, sent[s])
      BY <1>0, <2>1, <2>2, CountedAccounted
    <2>4. counted[s] \cup {e} \in SUBSET Nat
      BY <1>0, <1>1
    <2> QED BY <1>0, <1>t, <2>1, <2>2, <2>3, <2>4, SubscriberStep
  <1> QED BY <1>2, <1>3, <1>4

\* HandlerReturns: handled, counted, or cut off by the removal.
LEMMA HandlerReturnsKeeps ==
  ASSUME BusInv, NEW s \in Subs, NEW ok \in BOOLEAN, HandlerReturns(s, ok) PROVE BusInv'
  <1> DEFINE k == sub[s]
             m == [sub[s] EXCEPT !.pc = "loop", !.ev = 0]
             t == IF ok THEN Append(took[s], k.ev) ELSE took[s]
             n == IF ok \/ k.cancelled THEN counted[s] ELSE counted[s] \cup {k.ev}
  <1>0. /\ sub \in [Subs -> SubRec] /\ k \in SubRec /\ list' \subseteq Subs /\ k.ev \in Nat
        /\ took \in [Subs -> Seq(Nat)] /\ took[s] \in Seq(Nat)
        /\ counted \in [Subs -> SUBSET Nat] /\ counted[s] \in SUBSET Nat
        /\ Accounted(k, took[s], counted[s], sent[s])
        /\ UNCHANGED <<pub, next, sent>> /\ k.pc = "handling"
    BY DEF BusInv, BusTyped, HandlerReturns, SubRec
  <1>1. sub' = [sub EXCEPT ![s] = m]
    BY <1>0 DEF HandlerReturns
  <1>2. took' = [took EXCEPT ![s] = t]
    BY <1>0 DEF HandlerReturns
  <1>3. counted' = [counted EXCEPT ![s] = n]
    <2>1. CASE ok \/ k.cancelled
      BY <1>0, <2>1 DEF HandlerReturns
    <2>2. CASE ~(ok \/ k.cancelled)
      BY <1>0, <2>2 DEF HandlerReturns, Count
    <2> QED BY <2>1, <2>2
  <1>4. /\ m \in SubRec /\ m.queue = k.queue /\ m.ev = 0 /\ m.pc = "loop" /\ m.cancelled = k.cancelled
    BY <1>0 DEF SubRec
  <1> HIDE DEF m
  <1>5. /\ Accounted(m, Append(took[s], k.ev), counted[s], sent[s])
        /\ Accounted(m, took[s], counted[s] \cup {k.ev}, sent[s])
        /\ k.cancelled => Accounted(m, took[s], counted[s], sent[s])
    BY <1>0, <1>4, HandledAccounted
  <1>6. Append(took[s], k.ev) \in Seq(Nat)
    BY <1>0, EventAppended
  <1>7. /\ Accounted(m, t, n, sent[s]) /\ t \in Seq(Nat) /\ n \in SUBSET Nat
    <2>1. CASE ok
      BY <1>0, <1>5, <1>6, <2>1
    <2>2. CASE ~ok /\ k.cancelled
      BY <1>0, <1>5, <2>2
    <2>3. CASE ~ok /\ ~k.cancelled
      BY <1>0, <1>5, <2>3
    <2> QED BY <2>1, <2>2, <2>3
  <1> HIDE DEF t, n
  <1> QED BY <1>0, <1>1, <1>2, <1>3, <1>4, <1>7, SubscriberStep

\* PublishLoad, PublishReturns: a publisher takes the next event, or is done.
LEMMA PublisherKeeps ==
  ASSUME BusInv, NEW p \in Pubs, PublishLoad(p) \/ PublishReturns(p) PROVE BusInv'
  <1>0. /\ BusTyped /\ pub \in [Pubs -> [ev : Nat, todo : SUBSET Subs]] /\ pub[p] \in [ev : Nat, todo : SUBSET Subs]
        /\ next \in Nat \ {0} /\ list \subseteq Subs
        /\ UNCHANGED <<list, sub, sent, took, counted>>
    BY DEF BusInv, BusTyped, PublishLoad, PublishReturns
  <1>1. \A s \in Subs : Accounted(sub[s], took[s], counted[s], sent[s])'
    BY <1>0 DEF BusInv, Accounted, EventPlaces, Hand, Once
  <1>2. ASSUME PublishLoad(p) PROVE BusTyped' /\ PubsApart'
    <2> DEFINE w == [ev |-> next, todo |-> list]
    <2>1. pub' = [pub EXCEPT ![p] = w] /\ next' = next + 1
      BY <1>2 DEF PublishLoad
    <2>2. \A r \in Pubs : pub'[r] = IF r = p THEN w ELSE pub[r]
      BY <1>0, <2>1
    <2>3. w \in [ev : Nat, todo : SUBSET Subs] /\ w.ev = next /\ w.todo = list
      BY <1>0
    <2> HIDE DEF w
    <2>4. BusTyped'
      BY <1>0, <2>1, <2>3 DEF BusTyped
    <2>5. \A r \in Pubs : pub[r].ev \in Nat /\ pub[r].ev < next
      BY <1>0 DEF BusInv, PubsApart
    <2>6. \A r \in Pubs : pub'[r].ev < next'
      BY <1>0, <2>1, <2>2, <2>3, <2>5
    <2>7. \A r, q \in Pubs : r # q /\ pub'[r].ev # 0 => pub'[r].ev # pub'[q].ev
      <3> SUFFICES ASSUME NEW r \in Pubs, NEW q \in Pubs, r # q, pub'[r].ev # 0
                   PROVE  pub'[r].ev # pub'[q].ev
        OBVIOUS
      <3>1. CASE r = p
        BY <1>0, <2>2, <2>3, <2>5, <3>1
      <3>2. CASE q = p
        BY <1>0, <2>2, <2>3, <2>5, <3>2
      <3>3. CASE r # p /\ q # p
        BY <2>2, <3>3 DEF BusInv, PubsApart
      <3> QED BY <3>1, <3>2, <3>3
    <2>8. \A s \in Subs : \A e \in sent[s] : e \in Nat /\ e # 0 /\ e < next
      BY <1>0 DEF BusInv, PubsApart, BusTyped
    <2>9. \A r \in Pubs : \A s \in pub'[r].todo : pub'[r].ev # 0 /\ pub'[r].ev \notin sent[s]
      <3> SUFFICES ASSUME NEW r \in Pubs, NEW s \in pub'[r].todo PROVE pub'[r].ev # 0 /\ pub'[r].ev \notin sent[s]
        OBVIOUS
      <3>1. CASE r = p
        BY <1>0, <2>2, <2>3, <2>8, <3>1
      <3>2. CASE r # p
        BY <2>2, <3>2 DEF BusInv, PubsApart
      <3> QED BY <3>1, <3>2
    <2>10. \A s \in Subs : \A e \in sent[s] : e # 0 /\ e < next'
      BY <1>0, <2>1, <2>8
    <2> QED BY <1>0, <2>4, <2>6, <2>7, <2>9, <2>10 DEF PubsApart
  <1>3. ASSUME PublishReturns(p) PROVE BusTyped' /\ PubsApart'
    <2> DEFINE w == [pub[p] EXCEPT !.ev = 0]
    <2>1. pub' = [pub EXCEPT ![p] = w] /\ next' = next /\ pub[p].todo = {}
      BY <1>0, <1>3 DEF PublishReturns
    <2>2. \A r \in Pubs : pub'[r] = IF r = p THEN w ELSE pub[r]
      BY <1>0, <2>1
    <2>3. w \in [ev : Nat, todo : SUBSET Subs] /\ w.ev = 0 /\ w.todo = {}
      BY <1>0, <2>1
    <2> HIDE DEF w
    <2>4. BusTyped'
      BY <1>0, <2>1, <2>3 DEF BusTyped
    <2>5. \A r \in Pubs : pub[r].ev \in Nat /\ pub[r].ev < next
      BY <1>0 DEF BusInv, PubsApart
    <2>6. \A r \in Pubs : pub'[r].ev < next
      BY <1>0, <2>2, <2>3, <2>5
    <2>7. \A r, q \in Pubs : r # q /\ pub'[r].ev # 0 => pub'[r].ev # pub'[q].ev
      BY <2>2, <2>3 DEF BusInv, PubsApart
    <2>9. \A r \in Pubs : \A s \in pub'[r].todo : pub'[r].ev # 0 /\ pub'[r].ev \notin sent[s]
      BY <2>2, <2>3 DEF BusInv, PubsApart
    <2>10. \A s \in Subs : \A e \in sent[s] : e # 0 /\ e < next
      BY DEF BusInv, PubsApart
    <2> QED BY <1>0, <2>1, <2>4, <2>6, <2>7, <2>9, <2>10 DEF PubsApart
  <1> QED BY <1>1, <1>2, <1>3 DEF BusInv

\* PublishSend: the event goes into the queue or is counted; a subscriber that
\* does not want it is passed over.
LEMMA PublishSendKeeps ==
  ASSUME BusInv, NEW p \in Pubs, NEW s \in Subs, PublishSend(p, s) PROVE BusInv'
  <1> DEFINE e == pub[p].ev
             w == [pub[p] EXCEPT !.todo = @ \ {s}]
             k == sub[s]
  <1>0. /\ BusTyped /\ pub \in [Pubs -> [ev : Nat, todo : SUBSET Subs]]
        /\ pub[p] \in [ev : Nat, todo : SUBSET Subs] /\ next \in Nat \ {0}
        /\ sub \in [Subs -> SubRec] /\ k \in SubRec /\ k.queue \in Seq(Nat)
        /\ took \in [Subs -> Seq(Nat)] /\ took[s] \in Seq(Nat)
        /\ counted \in [Subs -> SUBSET Nat] /\ counted[s] \in SUBSET Nat
        /\ sent \in [Subs -> SUBSET Nat] /\ sent[s] \in SUBSET Nat
        /\ Accounted(k, took[s], counted[s], sent[s])
        /\ s \in pub[p].todo /\ UNCHANGED <<list, next, took>>
    BY DEF BusInv, BusTyped, PublishSend, SubRec
  <1>1. e \in Nat \ {0} /\ e \notin sent[s] /\ e < next
    BY <1>0 DEF BusInv, PubsApart
  <1>2. pub' = [pub EXCEPT ![p] = w]
    BY <1>0 DEF PublishSend
  <1>3. w \in [ev : Nat, todo : SUBSET Subs] /\ w.ev = e /\ w.todo = pub[p].todo \ {s}
    BY <1>0
  <1> HIDE DEF w
  <1>4. \A r \in Pubs : pub'[r] = IF r = p THEN w ELSE pub[r]
    BY <1>0, <1>2
  <1>5. ASSUME NEW m \in SubRec, NEW n \in SUBSET Nat, NEW o \in SUBSET (sent[s] \cup {e}),
               Accounted(m, took[s], n, o), sub' = [sub EXCEPT ![s] = m],
               counted' = [counted EXCEPT ![s] = n], sent' = [sent EXCEPT ![s] = o]
        PROVE  BusInv'
    <2>1. BusTyped'
      BY <1>0, <1>1, <1>2, <1>3, <1>5 DEF BusTyped
    <2>2. \A r \in Subs : sent'[r] = IF r = s THEN o ELSE sent[r]
      BY <1>0, <1>5
    <2>3. PubsApart'
      <3>1. \A r \in Pubs : pub'[r].ev = pub[r].ev
        BY <1>3, <1>4
      <3>2. \A r \in Pubs : \A x \in pub'[r].todo : x \in pub[r].todo /\ (r = p => x # s)
        BY <1>3, <1>4
      <3>3. ASSUME NEW r \in Pubs, NEW x \in pub'[r].todo
            PROVE  pub[r].ev # 0 /\ pub[r].ev \notin sent'[x]
        <4>1. x \in pub[r].todo /\ x \in Subs /\ pub[r].ev # 0 /\ pub[r].ev \notin sent[x]
          BY <1>0, <3>2 DEF BusInv, PubsApart
        <4>2. CASE x # s
          BY <2>2, <4>1, <4>2
        <4>3. CASE x = s
          <5>1. r # p
            BY <3>2, <4>3
          <5>2. pub[r].ev # e
            BY <1>1, <5>1 DEF BusInv, PubsApart
          <5> QED BY <2>2, <4>1, <4>3, <5>2
        <4> QED BY <4>2, <4>3
      <3>4. \A x \in Subs : \A f \in sent'[x] : f # 0 /\ f < next
        BY <1>1, <2>2 DEF BusInv, PubsApart
      <3> QED BY <1>0, <3>1, <3>3, <3>4 DEF BusInv, PubsApart
    <2>4. ASSUME NEW r \in Subs PROVE Accounted(sub'[r], took'[r], counted'[r], sent'[r])
      <3>1. CASE r = s
        <4>1. sub'[r] = m /\ took'[r] = took[s] /\ counted'[r] = n /\ sent'[r] = o
          BY <1>0, <1>5, <3>1
        <4> QED BY <1>5, <4>1
      <3>2. CASE r # s
        <4>1. sub'[r] = sub[r] /\ took'[r] = took[r] /\ counted'[r] = counted[r] /\ sent'[r] = sent[r]
          BY <1>0, <1>5, <3>2
        <4> QED BY <4>1 DEF BusInv
      <3> QED BY <3>1, <3>2
    <2>5. \A r \in Subs : Accounted(sub[r], took[r], counted[r], sent[r])'
      BY <2>4 DEF Accounted, EventPlaces, Hand, Once
    <2> QED BY <2>1, <2>3, <2>5 DEF BusInv
  <1>6. CASE ~k.wants
    <2>1. /\ sub' = [sub EXCEPT ![s] = k] /\ counted' = [counted EXCEPT ![s] = counted[s]]
          /\ sent' = [sent EXCEPT ![s] = sent[s]]
      BY <1>0, <1>6 DEF PublishSend
    <2>2. sent[s] \in SUBSET (sent[s] \cup {e})
      OBVIOUS
    <2> QED BY <1>0, <1>5, <2>1, <2>2
  <1>7. CASE k.wants /\ Len(k.queue) < QueueCap
    <2> DEFINE m == [sub[s] EXCEPT !.queue = Append(@, e)]
    <2>1. /\ sub' = [sub EXCEPT ![s] = m] /\ counted' = [counted EXCEPT ![s] = counted[s]]
          /\ sent' = [sent EXCEPT ![s] = sent[s] \cup {e}]
      BY <1>0, <1>7 DEF PublishSend, Offer
    <2>2. Append(k.queue, e) \in Seq(Nat)
      BY <1>0, <1>1, EventAppended
    <2>3. /\ m \in SubRec /\ m.queue = Append(k.queue, e) /\ m.ev = k.ev /\ m.pc = k.pc
          /\ m.cancelled = k.cancelled
      BY <1>0, <2>2 DEF SubRec
    <2> HIDE DEF m, e, k
    <2>4. Accounted(m, took[s], counted[s], sent[s] \cup {e})
      BY <1>0, <1>1, <2>3, QueuedAccounted
    <2>5. sent[s] \cup {e} \in SUBSET (sent[s] \cup {e})
      OBVIOUS
    <2> QED BY <1>0, <1>5, <2>1, <2>3, <2>4, <2>5
  <1>8. CASE k.wants /\ ~(Len(k.queue) < QueueCap)
    <2>1. /\ sub' = [sub EXCEPT ![s] = k] /\ counted' = [counted EXCEPT ![s] = counted[s] \cup {e}]
          /\ sent' = [sent EXCEPT ![s] = sent[s] \cup {e}]
      BY <1>0, <1>8 DEF PublishSend, Offer, Count
    <2> HIDE DEF e, k
    <2>4. Accounted(k, took[s], counted[s] \cup {e}, sent[s] \cup {e})
      BY <1>0, <1>1, DroppedAccounted
    <2>5. sent[s] \cup {e} \in SUBSET (sent[s] \cup {e}) /\ counted[s] \cup {e} \in SUBSET Nat
      BY <1>0, <1>1
    <2> QED BY <1>0, <1>5, <2>1, <2>4, <2>5
  <1> QED BY <1>6, <1>7, <1>8

-----------------------------------------------------------------------------
(* The bus: what holds always *)

\* The account of a bus that starts.
LEMMA BusStarts ==
  BusInit => BusInv
  <1> SUFFICES ASSUME BusInit PROVE BusInv
    OBVIOUS
  <1>1. /\ Fresh \in SubRec /\ Fresh.queue = <<>> /\ Fresh.ev = 0 /\ Fresh.pc = "none"
    BY EmptySeq DEF Fresh, SubRec
  <1>2. BusTyped
    BY <1>1, EmptySeq DEF BusInit, BusTyped
  <1>3. PubsApart
    BY DEF BusInit, PubsApart
  <1>4. ASSUME NEW s \in Subs PROVE Accounted(sub[s], took[s], counted[s], sent[s])
    <2>1. sub[s] = Fresh /\ took[s] = <<>> /\ counted[s] = {} /\ sent[s] = {}
      BY DEF BusInit
    <2>2. ToSet(<<>>) = {} /\ Len(<<>>) = 0 /\ Once(<<>>)
      BY DEF ToSet, Once
    <2>3. Hand(Fresh) = {} /\ EventPlaces(Fresh, <<>>, {}) = {}
      BY <1>1, <2>2 DEF Hand, EventPlaces
    <2>4. IsFiniteSet({}) /\ Cardinality({}) = 0
      BY FS_EmptySet
    <2>5. Accounted(Fresh, <<>>, {}, {})
      <3>1. Cardinality(EventPlaces(Fresh, <<>>, {}))
               = Len(Fresh.queue) + Cardinality(Hand(Fresh)) + Len(<<>>) + Cardinality({})
        <4>1. Cardinality(EventPlaces(Fresh, <<>>, {})) = 0 /\ Cardinality(Hand(Fresh)) = 0
          BY <2>3, <2>4
        <4>2. Len(Fresh.queue) = 0
          BY <1>1, <2>2
        <4>3. 0 = 0 + 0 + 0 + 0
          OBVIOUS
        <4> HIDE DEF Fresh
        <4> QED BY <2>2, <2>4, <4>1, <4>2, <4>3, Zenon
      <3>2. Once(Fresh.queue) /\ ToSet(Fresh.queue) = {}
        BY <1>1, <2>2
      <3>3. {} \ EventPlaces(Fresh, <<>>, {}) = {} /\ EventPlaces(Fresh, <<>>, {}) \subseteq {}
        BY <2>3
      <3> HIDE DEF Fresh
      <3> QED BY <1>1, <2>4, <3>1, <3>2, <3>3 DEF Accounted
    <2> QED BY <2>1, <2>5
  <1> QED BY <1>2, <1>3, <1>4 DEF BusInv

\* Every step of the bus keeps the account.
LEMMA BusSteps ==
  BusInv /\ [BusNext]_busVars => BusInv'
  <1> SUFFICES ASSUME BusInv, [BusNext]_busVars PROVE BusInv'
    OBVIOUS
  <1>1. ASSUME UNCHANGED busVars PROVE BusInv'
    <2>1. UNCHANGED <<list, sub, rem, pub, next, sent, took, counted>>
      BY <1>1 DEF busVars
    <2>2. BusTyped' /\ PubsApart'
      BY <2>1 DEF BusInv, BusTyped, PubsApart
    <2>3. \A s \in Subs : Accounted(sub[s], took[s], counted[s], sent[s])'
      BY <2>1 DEF BusInv, Accounted, EventPlaces, Hand, Once
    <2> QED BY <2>2, <2>3 DEF BusInv
  <1>2. ASSUME NEW p \in Pubs, PublishLoad(p) \/ Publish(p) PROVE BusInv'
    BY <1>2, PublisherKeeps, PublishSendKeeps, SMTT(30) DEF Publish
  <1>3. ASSUME NEW s \in Subs,
               \/ \E w \in BOOLEAN : Subscribe(s, w)
               \/ Run(s) \/ RemoveSwap(s) \/ Removing(s)
        PROVE  BusInv'
    BY <1>3, ListKeeps, QueueKeeps, HandlerReturnsKeeps DEF Run, Removing
  <1> QED BY <1>1, <1>2, <1>3 DEF BusNext

\* The metric is the number of counted events: none is counted twice.
DropsExact == /\ drops \in [Subs -> Nat]
              /\ \A s \in Subs : drops[s] = Cardinality(counted[s])

\* An event is counted when it leaves the queue, the handler or the publisher,
\* and it has not been counted before.
LEMMA DropsStep ==
  ASSUME BusInv, DropsExact, NEW s \in Subs, NEW e, Count(s, e), e \notin counted[s]
  PROVE  DropsExact'
  <1>1. /\ counted \in [Subs -> SUBSET Nat] /\ drops \in [Subs -> Nat]
        /\ Accounted(sub[s], took[s], counted[s], sent[s])
    BY DEF BusInv, BusTyped, DropsExact
  <1>2. IsFiniteSet(counted[s])
    <2>1. counted[s] \subseteq sent[s] /\ IsFiniteSet(sent[s])
      BY <1>1 DEF Accounted, EventPlaces
    <2> QED BY <2>1, FS_Subset
  <1>3. Cardinality(counted[s] \cup {e}) = Cardinality(counted[s]) + 1
    BY <1>2, FS_AddElement
  <1>4. \A r \in Subs : /\ counted'[r] = IF r = s THEN counted[s] \cup {e} ELSE counted[r]
                        /\ drops'[r] = IF r = s THEN drops[s] + 1 ELSE drops[r]
    BY <1>1 DEF Count
  <1>5. drops' \in [Subs -> Nat]
    BY <1>1 DEF Count
  <1> QED BY <1>3, <1>4, <1>5 DEF DropsExact

\* Every step of the bus counts an event at most once.
LEMMA DropsSteps == BusInv /\ DropsExact /\ [BusNext]_busVars => DropsExact'
  <1> SUFFICES ASSUME BusInv, DropsExact, [BusNext]_busVars PROVE DropsExact'
    OBVIOUS
  <1>1. ASSUME UNCHANGED <<counted, drops>> PROVE DropsExact'
    BY <1>1 DEF DropsExact
  <1>2. ASSUME NEW s \in Subs, RunTakes(s) \/ RemoveDrain(s) PROVE DropsExact'
    <2> DEFINE e == Head(sub[s].queue)
    <2>1. /\ sub[s] \in SubRec /\ sub[s].queue # <<>> /\ sub[s].queue \in Seq(Nat)
          /\ Accounted(sub[s], took[s], counted[s], sent[s])
      BY <1>2 DEF BusInv, BusTyped, SubRec, RunTakes, RemoveDrain
    <2>2. e \in ToSet(sub[s].queue)
      BY <2>1, EventTaken
    <2>3. e \notin counted[s]
      BY <2>1, <2>2 DEF Accounted
    <2>4. UNCHANGED <<counted, drops>> \/ Count(s, e)
      BY <1>2 DEF RunTakes, RemoveDrain
    <2> HIDE DEF e
    <2> QED BY <1>1, <2>3, <2>4, DropsStep
  <1>3. ASSUME NEW s \in Subs, NEW ok \in BOOLEAN, HandlerReturns(s, ok) PROVE DropsExact'
    <2>1. Accounted(sub[s], took[s], counted[s], sent[s]) /\ sub[s].pc = "handling"
      BY <1>3 DEF BusInv, HandlerReturns
    <2>2. sub[s].ev \notin counted[s]
      BY <2>1 DEF Accounted
    <2>3. UNCHANGED <<counted, drops>> \/ Count(s, sub[s].ev)
      BY <1>3 DEF HandlerReturns
    <2> QED BY <1>1, <2>2, <2>3, DropsStep
  <1>4. ASSUME NEW p \in Pubs, NEW s \in Subs, PublishSend(p, s) PROVE DropsExact'
    <2>1. pub[p].ev \notin sent[s]
      BY <1>4 DEF PublishSend, BusInv, PubsApart
    <2>2. pub[p].ev \notin counted[s]
      BY <2>1 DEF BusInv, Accounted, EventPlaces
    <2>3. UNCHANGED <<counted, drops>> \/ Count(s, pub[p].ev)
      BY <1>4 DEF PublishSend, Offer
    <2> QED BY <1>1, <2>2, <2>3, DropsStep
  <1>5. ASSUME NEW p \in Pubs, PublishLoad(p) \/ PublishReturns(p) PROVE UNCHANGED <<counted, drops>>
    BY <1>5 DEF PublishLoad, PublishReturns
  <1>6. ASSUME NEW s \in Subs,
               \/ \E w \in BOOLEAN : Subscribe(s, w)
               \/ RunStops(s) \/ RemoveSwap(s) \/ RemoveCancel(s) \/ RemoveReturns(s)
        PROVE  UNCHANGED <<counted, drops>>
    BY <1>6 DEF Subscribe, RunStops, RemoveSwap, RemoveCancel, RemoveReturns
  <1>7. ASSUME UNCHANGED busVars PROVE UNCHANGED <<counted, drops>>
    BY <1>7 DEF busVars
  <1>8. ASSUME NEW p \in Pubs, PublishLoad(p) \/ Publish(p) PROVE DropsExact'
    BY <1>1, <1>4, <1>5, <1>8 DEF Publish
  <1>9. ASSUME NEW s \in Subs,
               \/ \E w \in BOOLEAN : Subscribe(s, w)
               \/ Run(s) \/ RemoveSwap(s) \/ Removing(s)
        PROVE  DropsExact'
    BY <1>1, <1>2, <1>3, <1>6, <1>9 DEF Run, Removing
  <1> QED BY <1>1, <1>7, <1>8, <1>9 DEF BusNext

\* Every event offered to a subscriber is always queued, in hand, handled or
\* counted, each exactly once and counted once, except at most the one that was
\* in hand when the subscriber was cancelled (Publish, run, remove).
THEOREM EventsAlwaysAccounted ==
  BusSpec => []EventsAccounted
  <1>1. BusInv /\ DropsExact => EventsAccounted
    <2> SUFFICES ASSUME BusInv, DropsExact, NEW s \in Subs
                 PROVE  /\ Cardinality(Lost(s)) <= IF sub[s].cancelled THEN 1 ELSE 0
                        /\ Cardinality(sent[s] \ Lost(s)) =
                              Len(sub[s].queue) + Cardinality(InHand(s)) + Len(took[s]) + drops[s]
      BY DEF EventsAccounted
    <2> DEFINE P == EventPlaces(sub[s], took[s], counted[s])
    <2>1. Accounted(sub[s], took[s], counted[s], sent[s])
      BY DEF BusInv
    <2>2. InHand(s) = Hand(sub[s]) /\ Lost(s) = sent[s] \ P
      BY DEF InHand, Hand, Lost, Queued, EventPlaces
    <2>3. P \subseteq sent[s]
      BY <2>1 DEF Accounted
    <2>4. sent[s] \ Lost(s) = P
      BY <2>2, <2>3
    <2>5. Lost(s) = {} \/ (sub[s].cancelled /\ \E x : Lost(s) = {x})
      BY <2>1, <2>2 DEF Accounted
    <2>6. Cardinality(Lost(s)) <= IF sub[s].cancelled THEN 1 ELSE 0
      <3>1. CASE Lost(s) = {}
        <4>1. Cardinality(Lost(s)) = 0
          BY <3>1, FS_EmptySet
        <4> QED BY <4>1
      <3>2. CASE sub[s].cancelled /\ \E x : Lost(s) = {x}
        <4>1. Cardinality(Lost(s)) = 1
          BY <3>2, FS_Singleton
        <4> QED BY <3>2, <4>1
      <3> QED BY <2>5, <3>1, <3>2
    <2>7. Cardinality(P) = Len(sub[s].queue) + Cardinality(Hand(sub[s])) + Len(took[s]) + drops[s]
      BY <2>1 DEF Accounted, DropsExact
    <2> HIDE DEF P
    <2> QED BY <2>2, <2>4, <2>6, <2>7
  <1>2. BusInit => DropsExact
    BY FS_EmptySet DEF BusInit, DropsExact
  <1> QED BY <1>1, <1>2, BusStarts, BusSteps, DropsSteps, PTL DEF BusSpec
=============================================================================
