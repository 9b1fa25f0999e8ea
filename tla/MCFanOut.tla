------------------------------ MODULE MCFanOut ------------------------------
(***************************************************************************)
(* The goroutines of the platform that run beside the requests: the event    *)
(* bus with its subscribers, the hub with its browsers, the plugin host with *)
(* its supervisors.  They share no state, so a behaviour exercises one of    *)
(* them and leaves the others at rest.                                       *)
(***************************************************************************)
EXTENDS EventBus, ScoreboardHub, PluginHost

VARIABLE part

all == <<busVars, hubVars, hostVars, part>>

AuthTypes == [p \in Plugins |-> "auth"]

Init == BusInit /\ HubInit /\ HostInit /\ part \in {"bus", "hub", "plugins"}

OfBus(A) == part = "bus" /\ A /\ UNCHANGED <<hubVars, hostVars, part>>
OfHub(A) == part = "hub" /\ A /\ UNCHANGED <<busVars, hostVars, part>>
OfHost(A) == part = "plugins" /\ A /\ UNCHANGED <<busVars, hubVars, part>>

Next == OfBus(BusNext) \/ OfHub(HubNext) \/ OfHost(HostNext)

\* Goroutines run: a publisher, a subscriber (its handler ends at the delivery
\* timeout), a remover, the hub with its timer, a handler with its pumps, a
\* supervisor (its launches and drains are bounded by timeouts).
Spec == /\ Init /\ [][Next]_all
        /\ \A p \in Pubs : WF_all(OfBus(Publish(p)))
        /\ \A s \in Subs : WF_all(OfBus(Run(s))) /\ WF_all(OfBus(Removing(s)))
        /\ WF_all(OfHub(HubTimer)) /\ WF_all(OfHub(HubRun))
        /\ \A c \in Conns : WF_all(OfHub(Handler(c)))
        /\ \A p \in Plugins : WF_all(OfHost(Supervisor(p)))
=============================================================================
