---------------------------- MODULE ScoreboardHub ----------------------------
(***************************************************************************)
(* The WebSocket hub: the broadcasters' bounded channel, the hub goroutine *)
(* with its throttled pending snapshot, the ordered queue and the write    *)
(* pump of every connection, and the admission of connections by key.      *)
(*                                                                         *)
(* Broadcasts are numbered in the order in which they are made; a frame is *)
(* its kind and that number.  Time is abstract: a snapshot may or may not  *)
(* come within the minimum gap of the last one.                            *)
(***************************************************************************)
EXTENDS Naturals, Sequences, FiniteSets, SequencesExt

CONSTANTS
    Conns,      \* connection attempts in flight at a time (handler goroutines)
    Keys,       \* admission keys
    NoKey,
    IncomingCap,     \* capacity of the broadcasters' channel
    ClientQueueCap,  \* clientQueueCap
    MaxConns, MaxConnsPerKey, HandshakeBurst,  \* Limits, all in force
    MaxForgive,      \* the cap of forgiveHandshake
    MaxFrames,       \* bound: broadcasts ever made
    MaxHandshakes    \* bound: handshakes ever made

ASSUME HubBounds ==
    /\ {IncomingCap, ClientQueueCap, MaxConns, MaxConnsPerKey, HandshakeBurst} \subseteq Nat \ {0}
    /\ {MaxForgive, MaxFrames, MaxHandshakes} \subseteq Nat
    /\ NoKey \notin Keys

ASSUME ConnsFinite == IsFiniteSet(Conns)

VARIABLES
    hub,      \* the hub goroutine's state
    incoming, \* the channel
    made,     \* broadcasts made
    cl,       \* the handlers with their clients
    adm       \* admissions

hubVars == <<hub, incoming, made, cl, adm>>

\* n is the broadcast's number; a greeting is frame 0.
Frame == [t : {"hello", "snap", "phase"}, n : 0..MaxFrames]
Hello == [t |-> "hello", n |-> 0]

\* due: the phase frames fanned out since this client registered (history).
\* seen: the frames written to the client (history).
Conn == [pc : {"idle", "accept", "register", "live", "unregister"}, key : Keys \cup {NoKey},
         queue : UNION {[1..n -> Frame] : n \in 0..ClientQueueCap}, tailSnap : BOOLEAN,
         overflow : BOOLEAN, wake : BOOLEAN, gone : BOOLEAN,
         out : UNION {[1..n -> Frame] : n \in 0..ClientQueueCap},
         due : SUBSET (1..MaxFrames), seen : UNION {[1..n -> Frame] : n \in 0..(MaxFrames + 2)}]
NoConn == [pc |-> "idle", key |-> NoKey, queue |-> <<>>, tailSnap |-> FALSE, overflow |-> FALSE,
           wake |-> FALSE, gone |-> FALSE, out |-> <<>>, due |-> {}, seen |-> <<>>]

HubTypeOK == /\ hub \in [up : BOOLEAN, clients : SUBSET Conns, last : 0..MaxFrames,
                         pending : 0..MaxFrames]
             /\ \A i \in DOMAIN incoming : incoming[i] \in Frame
             /\ Len(incoming) <= IncomingCap
             /\ made \in 0..MaxFrames
             /\ DOMAIN cl = Conns
             /\ \A c \in Conns : DOMAIN cl[c] = DOMAIN NoConn /\ Len(cl[c].queue) <= ClientQueueCap
             /\ adm \in [total : Nat, perKey : [Keys -> Nat], hits : [Keys -> 0..HandshakeBurst],
                         forgive : [Keys -> 0..MaxForgive], tried : 0..MaxHandshakes]

HubInit == /\ hub = [up |-> TRUE, clients |-> {}, last |-> 0, pending |-> 0]
           /\ incoming = <<>> /\ made = 0
           /\ cl = [c \in Conns |-> NoConn]
           /\ adm = [total |-> 0, perKey |-> [k \in Keys |-> 0], hits |-> [k \in Keys |-> 0],
                     forgive |-> [k \in Keys |-> 0], tried |-> 0]

-----------------------------------------------------------------------------
(* The client's queue *)

\* Faulty variant of Enqueue (mutation checks): a full queue drops the frame.
MutEnqueue(k, f) ==
    LET coalesces == f.t = "snap" /\ k.tailSnap /\ k.queue # <<>>
    IN [(CASE coalesces -> [k EXCEPT !.queue[Len(k.queue)] = f]
           [] ~coalesces /\ Len(k.queue) >= ClientQueueCap -> k
           [] OTHER -> [k EXCEPT !.queue = Append(@, f), !.tailSnap = (f.t = "snap")])
         EXCEPT !.wake = TRUE]

\* enqueue: a snapshot replaces a snapshot at the tail; a full queue marks the
\* client for disconnection; anything else is appended.
Enqueue(k, f) ==
    LET coalesces == f.t = "snap" /\ k.tailSnap /\ k.queue # <<>>
    IN [(CASE coalesces -> [k EXCEPT !.queue[Len(k.queue)] = f]
           [] ~coalesces /\ Len(k.queue) >= ClientQueueCap -> [k EXCEPT !.overflow = TRUE]
           [] OTHER -> [k EXCEPT !.queue = Append(@, f), !.tailSnap = (f.t = "snap")])
         EXCEPT !.wake = TRUE]

Snap(n) == [t |-> "snap", n |-> n]

\* flush, when a snapshot is pending: fanout to every registered client.
Flushed(k) == IF hub.pending = 0 THEN k ELSE Enqueue(k, Snap(hub.pending))

\* fanout: every registered client becomes what sent says.
Fanout(sent) == cl' = [c \in Conns |-> IF c \in hub.clients THEN sent[c] ELSE cl[c]]

-----------------------------------------------------------------------------
(* Broadcasters and the hub goroutine *)

\* BroadcastScoreboard, BroadcastPhase: a full channel drops the new frame.
Broadcast(t) ==
    /\ made < MaxFrames
    /\ made' = made + 1
    /\ incoming' = IF Len(incoming) < IncomingCap
                   THEN Append(incoming, [t |-> t, n |-> made + 1]) ELSE incoming
    /\ UNCHANGED <<hub, cl, adm>>

\* A snapshot is kept for greetings and flushed at once or, within the minimum
\* gap, when the timer fires: the latest one wins.
HubSnapshot(now) ==
    /\ hub.up /\ incoming # <<>> /\ Head(incoming).t = "snap"
    /\ incoming' = Tail(incoming)
    /\ LET n == Head(incoming).n IN
       /\ hub' = [hub EXCEPT !.last = n, !.pending = IF now THEN 0 ELSE n]
       /\ IF now THEN Fanout([c \in Conns |-> Enqueue(cl[c], Snap(n))]) ELSE UNCHANGED cl
    /\ UNCHANGED <<made, adm>>

\* A phase frame in a client's queue; due is history.
Announced(k, f) == [Enqueue(k, f) EXCEPT !.due = @ \cup {f.n}]

\* Faulty variant of HubPhase (mutation checks): the pending snapshot is not
\* flushed first.
MutHubPhase ==
    /\ hub.up /\ incoming # <<>> /\ Head(incoming).t = "phase"
    /\ incoming' = Tail(incoming)
    /\ Fanout([c \in Conns |-> Announced(cl[c], Head(incoming))])
    /\ UNCHANGED <<hub, made, adm>>

\* A phase frame goes out at once, after the pending snapshot.
HubPhase ==
    /\ hub.up /\ incoming # <<>> /\ Head(incoming).t = "phase"
    /\ incoming' = Tail(incoming)
    /\ hub' = [hub EXCEPT !.pending = 0]
    /\ Fanout([c \in Conns |-> Announced(Flushed(cl[c]), Head(incoming))])
    /\ UNCHANGED <<made, adm>>

\* Faulty variant of HubTimer (mutation checks): the pending board is forgotten.
MutHubTimer ==
    /\ hub.up /\ hub.pending # 0
    /\ hub' = [hub EXCEPT !.pending = 0]
    /\ UNCHANGED <<incoming, made, cl, adm>>

HubTimer ==
    /\ hub.up /\ hub.pending # 0
    /\ hub' = [hub EXCEPT !.pending = 0]
    /\ Fanout([c \in Conns |-> Flushed(cl[c])])
    /\ UNCHANGED <<incoming, made, adm>>

\* ctx is done: every connection is closed and Run returns.
HubStops ==
    /\ hub.up
    /\ hub' = [hub EXCEPT !.up = FALSE]
    /\ Fanout([c \in Conns |-> [cl[c] EXCEPT !.gone = TRUE]])
    /\ UNCHANGED <<incoming, made, adm>>

-----------------------------------------------------------------------------
(* Admission *)

Caps(key) == adm.total < MaxConns /\ adm.perKey[key] < MaxConnsPerKey

\* admit: an exemption is used up first; otherwise the attempt counts against
\* the key's rate; then the caps.  A rejected handshake reserves nothing.
Admit(c, key) ==
    LET forgiven == adm.forgive[key] > 0
        inRate == forgiven \/ adm.hits[key] < HandshakeBurst
        admitted == inRate /\ Caps(key)
    IN /\ cl[c].pc = "idle" /\ adm.tried < MaxHandshakes
       /\ adm' = [adm EXCEPT !.tried = @ + 1,
                             !.forgive[key] = IF forgiven THEN @ - 1 ELSE @,
                             !.hits[key] = IF ~forgiven /\ inRate THEN @ + 1 ELSE @,
                             !.total = IF admitted THEN @ + 1 ELSE @,
                             !.perKey[key] = IF admitted THEN @ + 1 ELSE @]
       /\ cl' = IF admitted THEN [cl EXCEPT ![c].pc = "accept", ![c].key = key] ELSE cl
       /\ UNCHANGED <<hub, incoming, made>>

\* The window slides past an attempt.
WindowSlides(key) ==
    /\ adm.hits[key] > 0
    /\ adm' = [adm EXCEPT !.hits[key] = @ - 1]
    /\ UNCHANGED <<hub, incoming, made, cl>>

\* The handler returns: its deferred release gives the slot back.
Released(key) == [adm EXCEPT !.total = @ - 1, !.perKey[key] = @ - 1]

\* Faulty variant of Return (mutation checks): no release on this path.
MutReturn(c) == cl' = [cl EXCEPT ![c] = NoConn] /\ adm' = adm

Return(c) == cl' = [cl EXCEPT ![c] = NoConn] /\ adm' = Released(cl[c].key)

-----------------------------------------------------------------------------
(* The handler and its pumps *)

AcceptFails(c) ==
    /\ cl[c].pc = "accept"
    /\ Return(c)
    /\ UNCHANGED <<hub, incoming, made>>

Accept(c) ==
    /\ cl[c].pc = "accept"
    /\ cl' = [cl EXCEPT ![c].pc = "register"]
    /\ UNCHANGED <<hub, incoming, made, adm>>

\* The hub takes the registration and greets with hello and the last board.
Register(c) ==
    LET k == Enqueue([cl[c] EXCEPT !.pc = "live"], Hello)
    IN /\ cl[c].pc = "register" /\ hub.up
       /\ hub' = [hub EXCEPT !.clients = @ \cup {c}]
       /\ cl' = [cl EXCEPT ![c] = IF hub.last = 0 THEN k ELSE Enqueue(k, Snap(hub.last))]
       /\ UNCHANGED <<incoming, made, adm>>

\* The hub has stopped: the handler closes the connection and returns.
RegisterRefused(c) ==
    /\ cl[c].pc = "register" /\ ~hub.up
    /\ Return(c)
    /\ UNCHANGED <<hub, incoming, made>>

\* readPump meets an error, or recovers from a panic: the context is cancelled.
ReadFails(c) ==
    /\ cl[c].pc = "live" /\ ~cl[c].gone
    /\ cl' = [cl EXCEPT ![c].gone = TRUE]
    /\ UNCHANGED <<hub, incoming, made, adm>>

\* writePump returns: the context is cancelled, or a ping failed.
PumpStops(c) ==
    /\ cl[c].pc = "live" /\ cl[c].gone
    /\ cl' = [cl EXCEPT ![c].pc = "unregister"]
    /\ UNCHANGED <<hub, incoming, made, adm>>

\* drain takes the whole backlog; an overflowing client is shed and its key owed
\* an exemption.
PumpDrains(c) ==
    /\ cl[c].pc = "live" /\ cl[c].wake /\ cl[c].out = <<>>
    /\ IF cl[c].overflow
       THEN /\ cl' = [cl EXCEPT ![c].pc = "unregister", ![c].queue = <<>>, ![c].wake = FALSE]
            /\ adm' = [adm EXCEPT !.forgive[cl[c].key] = IF @ < MaxForgive THEN @ + 1 ELSE @]
       ELSE /\ cl' = [cl EXCEPT ![c].out = cl[c].queue, ![c].queue = <<>>,
                                ![c].tailSnap = FALSE, ![c].wake = FALSE]
            /\ UNCHANGED adm
    /\ UNCHANGED <<hub, incoming, made>>

\* writeFrame, within its timeout or not.
PumpWrites(c, ok) ==
    /\ cl[c].pc = "live" /\ cl[c].out # <<>>
    /\ cl' = IF ok /\ ~cl[c].gone
             THEN [cl EXCEPT ![c].out = Tail(@), ![c].seen = Append(@, Head(cl[c].out))]
             ELSE [cl EXCEPT ![c].pc = "unregister"]
    /\ UNCHANGED <<hub, incoming, made, adm>>

\* The hub takes the unregistration, or has stopped; the handler returns.
Unregister(c) ==
    /\ cl[c].pc = "unregister"
    /\ hub' = IF hub.up THEN [hub EXCEPT !.clients = @ \ {c}] ELSE hub
    /\ Return(c)
    /\ UNCHANGED <<incoming, made>>

-----------------------------------------------------------------------------
HubRun == HubPhase \/ HubTimer \/ \E now \in BOOLEAN : HubSnapshot(now)

Handler(c) == \/ AcceptFails(c) \/ Accept(c) \/ Register(c) \/ RegisterRefused(c)
              \/ PumpStops(c) \/ PumpDrains(c) \/ Unregister(c)
              \/ \E ok \in BOOLEAN : PumpWrites(c, ok)

HubNext == \/ \E t \in {"snap", "phase"} : Broadcast(t)
           \/ HubRun \/ HubStops
           \/ \E c \in Conns : Handler(c) \/ ReadFails(c) \/ \E key \in Keys : Admit(c, key)
           \/ \E key \in Keys : WindowSlides(key)

HubSpec == HubInit /\ [][HubNext]_hubVars

-----------------------------------------------------------------------------
(* Properties *)

\* All a client gets: what was written, what its pump has taken, what is queued.
Stream(c) == cl[c].seen \o cl[c].out \o cl[c].queue

\* A client's frames come in broadcast order, after a single greeting: a board
\* never overtakes or undoes a phase change, and no older board follows a newer
\* one, although the pending snapshot, the greeting and the coalescing tail all
\* hold boards back (Run, enqueue).
FramesOrdered ==
    \A c \in Conns : cl[c].pc = "live" =>
        /\ \A i, j \in DOMAIN Stream(c) : i < j => Stream(c)[i].n <= Stream(c)[j].n
        /\ \A i \in DOMAIN Stream(c) : (Stream(c)[i].t = "hello") <=> i = 1

\* Every phase change the hub announced since a client registered is on its way
\* or written, unless the client is marked for disconnection: phases are neither
\* coalesced nor dropped (enqueue, Run).
PhasesKept ==
    \A c \in Conns : cl[c].pc = "live" /\ ~cl[c].overflow =>
        \A n \in cl[c].due : \E i \in DOMAIN Stream(c) : Stream(c)[i] = [t |-> "phase", n |-> n]

\* The admission counters are exactly the handlers between admit and return, on
\* every way out (failed upgrade, overflow, read error, shutdown), so no slot
\* stays taken (admit, release, Handler).
SlotsReturned ==
    LET in(key) == {c \in Conns : cl[c].pc # "idle" /\ cl[c].key = key}
    IN /\ adm.total = Cardinality({c \in Conns : cl[c].pc # "idle"})
       /\ \A key \in Keys : adm.perKey[key] = Cardinality(in(key))

\* The newest board the hub has accepted has not reached the client.
Behind(c) ==
    /\ cl[c].pc = "live" /\ hub.up /\ hub.last > 0
    /\ \A i \in DOMAIN cl[c].seen : cl[c].seen[i].t = "snap" => cl[c].seen[i].n < hub.last

\* A client that stays connected gets the newest board the hub has accepted, or
\* one that replaced it, although the throttle holds boards back (Run, enqueue):
\* as boards are finitely many here, it catches up.
BoardArrives == \A c \in Conns : Behind(c) ~> ~Behind(c)
=============================================================================
