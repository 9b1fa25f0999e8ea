------------------------------ MODULE EventBus ------------------------------
(***************************************************************************)
(* The domain event bus: publishers that never block, one bounded queue    *)
(* and one goroutine per subscriber, a copy-on-write subscriber list, and  *)
(* removal with its drain.  Publish reads the list without a lock, so it   *)
(* may still send to a subscriber that has been removed since.             *)
(*                                                                         *)
(* Events are numbered in the order in which Publish is called.  A counted *)
(* drop is an increment of PluginEventsDropped with the subscriber, the    *)
(* event and the reason.                                                   *)
(***************************************************************************)
EXTENDS Naturals, Sequences, FiniteSets, SequencesExt

CONSTANTS
    Pubs,      \* publishing goroutines
    Subs,      \* subscriber structs ever made by Subscribe
    QueueCap,  \* depth of a subscriber's queue
    MaxEvents  \* bound: events ever published

ASSUME BusBounds == QueueCap \in Nat \ {0} /\ MaxEvents \in Nat

VARIABLES
    list,    \* the published subscriber list (an atomic pointer)
    sub,     \* the subscriber structs with their goroutines
    rem,     \* rem[s]: where the remover of s is
    pub,     \* the publishers
    next,    \* the next event
    sent,    \* sent[s]: the events some Publish has offered s's queue
    took,    \* took[s]: the events s's handler has finished with, in order
    counted, \* counted[s]: the events counted as dropped
    drops    \* drops[s]: what PluginEventsDropped adds up to for s

busVars == <<list, sub, rem, pub, next, sent, took, counted, drops>>

Events == 1..MaxEvents

\* A subscriber: its goroutine, its context, its queue, and what it wants.
Sub == [pc : {"none", "loop", "handling", "exited"}, cancelled : BOOLEAN,
        queue : UNION {[1..n -> Events] : n \in 0..QueueCap},
        wants : BOOLEAN, ev : Events \cup {0}]
Fresh == [pc |-> "none", cancelled |-> FALSE, queue |-> <<>>, wants |-> TRUE, ev |-> 0]

BusTypeOK == /\ list \subseteq Subs
          /\ sub \in [Subs -> Sub]
          /\ rem \in [Subs -> {"no", "swapped", "waiting", "done"}]
          /\ pub \in [Pubs -> [ev : Events \cup {0}, todo : SUBSET Subs]]
          /\ next \in 1..(MaxEvents + 1)
          /\ sent \in [Subs -> SUBSET Events]
          /\ \A s \in Subs : \A i \in DOMAIN took[s] : took[s][i] \in Events
          /\ counted \in [Subs -> SUBSET Events]
          /\ drops \in [Subs -> Nat]

\* NewBus: an empty list.
BusInit == /\ list = {}
        /\ sub = [s \in Subs |-> Fresh]
        /\ rem = [s \in Subs |-> "no"]
        /\ pub = [p \in Pubs |-> [ev |-> 0, todo |-> {}]]
        /\ next = 1
        /\ sent = [s \in Subs |-> {}]
        /\ took = [s \in Subs |-> <<>>]
        /\ counted = [s \in Subs |-> {}]
        /\ drops = [s \in Subs |-> 0]

\* PluginEventsDropped is incremented for s and e.
Count(s, e) == /\ counted' = [counted EXCEPT ![s] = @ \cup {e}]
               /\ drops' = [drops EXCEPT ![s] = @ + 1]

-----------------------------------------------------------------------------
(* Publish *)

\* Publish loads the list; it iterates over that snapshot.
PublishLoad(p) ==
    /\ pub[p].ev = 0
    /\ next <= MaxEvents
    /\ pub' = [pub EXCEPT ![p] = [ev |-> next, todo |-> list]]
    /\ next' = next + 1
    /\ UNCHANGED <<list, sub, rem, sent, took, counted, drops>>

\* The non-blocking send: a full queue drops the incoming event and counts it.
Offer(s, e) ==
    IF Len(sub[s].queue) < QueueCap
    THEN /\ sub' = [sub EXCEPT ![s].queue = Append(@, e)]
         /\ UNCHANGED <<counted, drops>>
    ELSE /\ Count(s, e)
         /\ UNCHANGED sub

\* One iteration of Publish's loop.
PublishSend(p, s) ==
    /\ s \in pub[p].todo
    /\ pub' = [pub EXCEPT ![p].todo = @ \ {s}]
    /\ IF sub[s].wants
       THEN Offer(s, pub[p].ev) /\ sent' = [sent EXCEPT ![s] = @ \cup {pub[p].ev}]
       ELSE UNCHANGED <<sub, counted, drops, sent>>
    /\ UNCHANGED <<list, rem, next, took>>

PublishReturns(p) ==
    /\ pub[p].ev # 0 /\ pub[p].todo = {}
    /\ pub' = [pub EXCEPT ![p].ev = 0]
    /\ UNCHANGED <<list, sub, rem, next, sent, took, counted, drops>>

-----------------------------------------------------------------------------
(* Subscribe and the subscriber's goroutine *)

\* Subscribe under writeMu: the new list replaces the old, the goroutine starts.
Subscribe(s, w) ==
    /\ sub[s].pc = "none"
    /\ sub' = [sub EXCEPT ![s].pc = "loop", ![s].wants = w]
    /\ list' = list \cup {s}
    /\ UNCHANGED <<rem, pub, next, sent, took, counted, drops>>

\* run's select takes the ctx.Done branch.
RunStops(s) ==
    /\ sub[s].pc = "loop" /\ sub[s].cancelled
    /\ sub' = [sub EXCEPT ![s].pc = "exited"]
    /\ UNCHANGED <<list, rem, pub, next, sent, took, counted, drops>>

\* Faulty variant of RunTakes (mutation checks): the event taken by a cancelled
\* subscriber is not counted.
MutRunTakes(s) ==
    /\ sub[s].pc = "loop" /\ sub[s].queue # <<>>
    /\ LET e == Head(sub[s].queue) IN
       IF sub[s].cancelled
       THEN /\ sub' = [sub EXCEPT ![s].pc = "exited", ![s].queue = Tail(@)]
            /\ UNCHANGED <<counted, drops>>
       ELSE /\ sub' = [sub EXCEPT ![s].pc = "handling", ![s].queue = Tail(@), ![s].ev = e]
            /\ UNCHANGED <<counted, drops>>
    /\ UNCHANGED <<list, rem, pub, next, sent, took>>

\* run's select takes the queue branch, which it may do although the context is
\* cancelled: the event is then counted, not handled.
RunTakes(s) ==
    /\ sub[s].pc = "loop" /\ sub[s].queue # <<>>
    /\ LET e == Head(sub[s].queue) IN
       IF sub[s].cancelled
       THEN /\ sub' = [sub EXCEPT ![s].pc = "exited", ![s].queue = Tail(@)]
            /\ Count(s, e)
       ELSE /\ sub' = [sub EXCEPT ![s].pc = "handling", ![s].queue = Tail(@), ![s].ev = e]
            /\ UNCHANGED <<counted, drops>>
    /\ UNCHANGED <<list, rem, pub, next, sent, took>>

\* The handler returns, at the latest at the delivery timeout.  An error is
\* counted, unless the subscriber was cancelled meanwhile.
HandlerReturns(s, ok) ==
    /\ sub[s].pc = "handling"
    /\ sub' = [sub EXCEPT ![s].pc = "loop", ![s].ev = 0]
    /\ IF ok \/ sub[s].cancelled
       THEN UNCHANGED <<counted, drops>>
       ELSE Count(s, sub[s].ev)
    /\ took' = [took EXCEPT ![s] = IF ok THEN Append(@, sub[s].ev) ELSE @]
    /\ UNCHANGED <<list, rem, pub, next, sent>>

-----------------------------------------------------------------------------
(* remove *)

\* The list without s replaces the old one, under writeMu.
RemoveSwap(s) ==
    /\ s \in list /\ rem[s] = "no"
    /\ list' = list \ {s}
    /\ rem' = [rem EXCEPT ![s] = "swapped"]
    /\ UNCHANGED <<sub, pub, next, sent, took, counted, drops>>

\* Faulty variant of RemoveCancel (mutation checks): it waits without cancelling.
MutRemoveCancel(s) ==
    /\ rem[s] = "swapped"
    /\ rem' = [rem EXCEPT ![s] = "waiting"]
    /\ UNCHANGED <<list, sub, pub, next, sent, took, counted, drops>>

RemoveCancel(s) ==
    /\ rem[s] = "swapped"
    /\ sub' = [sub EXCEPT ![s].cancelled = TRUE]
    /\ rem' = [rem EXCEPT ![s] = "waiting"]
    /\ UNCHANGED <<list, pub, next, sent, took, counted, drops>>

\* After wg.Wait: one event is taken from the queue and counted ...
RemoveDrain(s) ==
    /\ rem[s] = "waiting" /\ sub[s].pc = "exited" /\ sub[s].queue # <<>>
    /\ Count(s, Head(sub[s].queue))
    /\ sub' = [sub EXCEPT ![s].queue = Tail(@)]
    /\ UNCHANGED <<list, rem, pub, next, sent, took>>

\* ... until the queue is empty, and remove returns.
RemoveReturns(s) ==
    /\ rem[s] = "waiting" /\ sub[s].pc = "exited" /\ sub[s].queue = <<>>
    /\ rem' = [rem EXCEPT ![s] = "done"]
    /\ UNCHANGED <<list, sub, pub, next, sent, took, counted, drops>>

-----------------------------------------------------------------------------
Publish(p) == PublishReturns(p) \/ \E s \in Subs : PublishSend(p, s)

Run(s) == RunStops(s) \/ RunTakes(s) \/ \E ok \in BOOLEAN : HandlerReturns(s, ok)

Removing(s) == RemoveCancel(s) \/ RemoveDrain(s) \/ RemoveReturns(s)

BusNext == \/ \E p \in Pubs : PublishLoad(p) \/ Publish(p)
           \/ \E s \in Subs : \/ \E w \in BOOLEAN : Subscribe(s, w)
                              \/ Run(s) \/ RemoveSwap(s) \/ Removing(s)

BusSpec == BusInit /\ [][BusNext]_busVars

-----------------------------------------------------------------------------
(* Properties *)

Queued(s) == ToSet(sub[s].queue)
InHand(s) == {sub[s].ev} \ {0}
Lost(s) == sent[s] \ (Queued(s) \cup InHand(s) \cup ToSet(took[s]) \cup counted[s])

\* Every event offered to a subscriber is queued, in hand, handled or counted
\* as dropped, in exactly one of these ways and counted once, except that the
\* one event in hand when the subscriber is cancelled may end neither handled
\* nor counted (run, remove, Publish).
EventsAccounted ==
    \A s \in Subs :
        /\ Cardinality(Lost(s)) <= IF sub[s].cancelled THEN 1 ELSE 0
        /\ Cardinality(sent[s] \ Lost(s)) =
              Len(sub[s].queue) + Cardinality(InHand(s)) + Len(took[s]) + drops[s]

\* Nothing is lost without being counted (run: an event cut off by the removal
\* "is accounted for by the shutdown drain").
DropsCounted == \A s \in Subs : Lost(s) = {}

\* Removal ends, although a handler may be in flight and publishers may go on
\* sending (remove cancels the context before it waits).
RemovalEnds == \A s \in Subs : rem[s] = "swapped" ~> rem[s] = "done"
=============================================================================
