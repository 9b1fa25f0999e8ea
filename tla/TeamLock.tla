------------------------------ MODULE TeamLock ------------------------------
(***************************************************************************)
(* The per-team lock registry of the scheduler: a map from team ids to     *)
(* refcounted lock structs (teamLock), created on first use and evicted    *)
(* when the last reference is dropped.                                     *)
(*                                                                         *)
(* A struct's mutex is a channel of capacity 1: a value in the buffer      *)
(* means held.  teamGuard protects the map and the refcounts, so           *)
(* refTeamLock and release are atomic; the channel operations are not      *)
(* under teamGuard and interleave freely with them.                        *)
(*                                                                         *)
(* A struct that no goroutine points to and that is not in the map is      *)
(* garbage; its identity may be used again by the next allocation.         *)
(***************************************************************************)
EXTENDS Naturals, FiniteSets

CONSTANTS Teams,   \* team ids
          Procs,   \* goroutines that call lockTeam / tryLockTeam
          Structs, \* identities of teamLock structs
          NoStruct,\* the nil pointer
          NoTeam,  \* "no call in progress"
          Free     \* "nobody holds it"

ASSUME ProcsFinite == IsFiniteSet(Procs)
ASSUME FreeIsNobody == Free \notin Procs
ASSUME NilIsNoStruct == NoStruct \notin Structs
ASSUME NoTeamIsNoTeam == NoTeam \notin Teams

VARIABLES teamMu, \* teamMu[t]: the struct registered for team t, or NoStruct
          refs,   \* refs[s]: the refcount of struct s
          ch,     \* ch[s]: TRUE when the channel of struct s holds a value
          pc,     \* pc[p]: where goroutine p is
          tl,     \* tl[p]: the struct p got from refTeamLock
          team    \* team[p]: the team p called with

vars == <<teamMu, refs, ch, pc, tl, team>>

PC == {"idle",     \* outside
       "waiting",  \* referenced the struct, in the select
       "holding",  \* inside the critical section
       "leaving"}  \* gave up or received from ch, release() still to run

TypeOK == /\ teamMu \in [Teams -> Structs \cup {NoStruct}]
          /\ refs \in [Structs -> Nat]
          /\ ch \in [Structs -> BOOLEAN]
          /\ pc \in [Procs -> PC]
          /\ tl \in [Procs -> Structs \cup {NoStruct}]
          /\ team \in [Procs -> Teams \cup {NoTeam}]

Init == /\ teamMu = [t \in Teams |-> NoStruct]
        /\ refs = [s \in Structs |-> 0]
        /\ ch = [s \in Structs |-> FALSE]
        /\ pc = [p \in Procs |-> "idle"]
        /\ tl = [p \in Procs |-> NoStruct]
        /\ team = [p \in Procs |-> NoTeam]

-----------------------------------------------------------------------------
(* Faulty variants of the operations below, for mutation checks only *)

\* release forgets to evict the entry.
MutReleaseLeaks(p) ==
    /\ pc[p] = "leaving"
    /\ refs' = [refs EXCEPT ![tl[p]] = @ - 1]
    /\ pc' = [pc EXCEPT ![p] = "idle"]
    /\ tl' = [tl EXCEPT ![p] = NoStruct]
    /\ team' = [team EXCEPT ![p] = NoTeam]
    /\ UNCHANGED <<teamMu, ch>>

\* tryLockTeam's unlock func is returned on the default path too: the channel
\* is emptied although somebody else filled it.
MutTryFailsDrains(p) ==
    /\ pc[p] = "waiting"
    /\ ch[tl[p]]
    /\ ch' = [ch EXCEPT ![tl[p]] = FALSE]
    /\ pc' = [pc EXCEPT ![p] = "leaving"]
    /\ UNCHANGED <<teamMu, refs, tl, team>>

-----------------------------------------------------------------------------
\* Nothing points to s: a new teamLock may take its place in memory.
Garbage(s) == /\ \A p \in Procs : tl[p] # s
              /\ \A t \in Teams : teamMu[t] # s

\* refTeamLock finds the team's entry and takes a reference to it in the same
\* critical section.
RefExisting(p, t) ==
    /\ pc[p] = "idle"
    /\ teamMu[t] # NoStruct
    /\ refs' = [refs EXCEPT ![teamMu[t]] = @ + 1]
    /\ tl' = [tl EXCEPT ![p] = teamMu[t]]
    /\ team' = [team EXCEPT ![p] = t]
    /\ pc' = [pc EXCEPT ![p] = "waiting"]
    /\ UNCHANGED <<teamMu, ch>>

\* refTeamLock finds no entry: it makes one, with an empty channel and one
\* reference.
RefNew(p, t, s) ==
    /\ pc[p] = "idle"
    /\ teamMu[t] = NoStruct
    /\ Garbage(s)
    /\ teamMu' = [teamMu EXCEPT ![t] = s]
    /\ refs' = [refs EXCEPT ![s] = 1]
    /\ ch' = [ch EXCEPT ![s] = FALSE]
    /\ tl' = [tl EXCEPT ![p] = s]
    /\ team' = [team EXCEPT ![p] = t]
    /\ pc' = [pc EXCEPT ![p] = "waiting"]

\* case tl.ch <- struct{}{}: the send succeeds when the buffer is empty.
Acquire(p) ==
    /\ pc[p] = "waiting"
    /\ ~ch[tl[p]]
    /\ ch' = [ch EXCEPT ![tl[p]] = TRUE]
    /\ pc' = [pc EXCEPT ![p] = "holding"]
    /\ UNCHANGED <<teamMu, refs, tl, team>>

\* lockTeam's ctx.Done() case, at any time.
Cancel(p) ==
    /\ pc[p] = "waiting"
    /\ pc' = [pc EXCEPT ![p] = "leaving"]
    /\ UNCHANGED <<teamMu, refs, ch, tl, team>>

\* tryLockTeam's default case: taken when the send would block.
TryFails(p) ==
    /\ pc[p] = "waiting"
    /\ ch[tl[p]]
    /\ pc' = [pc EXCEPT ![p] = "leaving"]
    /\ UNCHANGED <<teamMu, refs, ch, tl, team>>

\* The returned unlock func: <-tl.ch, then release() as a step of its own.
Unlock(p) ==
    /\ pc[p] = "holding"
    /\ ch' = [ch EXCEPT ![tl[p]] = FALSE]
    /\ pc' = [pc EXCEPT ![p] = "leaving"]
    /\ UNCHANGED <<teamMu, refs, tl, team>>

\* release: drop the reference; the goroutine that drops the last one deletes
\* the team's entry, whatever struct is registered there.
Release(p) ==
    /\ pc[p] = "leaving"
    /\ refs' = [refs EXCEPT ![tl[p]] = @ - 1]
    /\ teamMu' = IF refs[tl[p]] = 1
                 THEN [teamMu EXCEPT ![team[p]] = NoStruct]
                 ELSE teamMu
    /\ pc' = [pc EXCEPT ![p] = "idle"]
    /\ tl' = [tl EXCEPT ![p] = NoStruct]
    /\ team' = [team EXCEPT ![p] = NoTeam]
    /\ UNCHANGED ch

Next == \/ \E p \in Procs, t \in Teams : RefExisting(p, t)
        \/ \E p \in Procs, t \in Teams, s \in Structs : RefNew(p, t, s)
        \/ \E p \in Procs : Acquire(p)
        \/ \E p \in Procs : Cancel(p)
        \/ \E p \in Procs : TryFails(p)
        \/ \E p \in Procs : Unlock(p)
        \/ \E p \in Procs : Release(p)

Spec == Init /\ [][Next]_vars

-----------------------------------------------------------------------------
(* Properties *)

\* Two goroutines are never inside the same team's critical section, however
\* registration, eviction and re-creation of the entry interleave
\* (scheduler.go, refTeamLock: "two goroutines can never end up holding
\* different structs for the same team").
MutualExclusion ==
    \A p, q \in Procs :
        pc[p] = "holding" /\ pc[q] = "holding" /\ team[p] = team[q] => p = q

\* The goroutines that reference t's entry: waiting for it, inside it, or on
\* their way out.
Referrers(t) == {p \in Procs : team[p] = t}

\* The registry holds an entry exactly for the teams somebody references, it
\* is the struct each of them locks, and its count is the number of them: no
\* entry is evicted under a goroutine that still uses it, and none leaks once
\* the last one is gone.
RegistryExact ==
    \A t \in Teams :
        IF Referrers(t) = {}
        THEN teamMu[t] = NoStruct
        ELSE /\ teamMu[t] \in Structs
             /\ refs[teamMu[t]] = Cardinality(Referrers(t))
             /\ \A p \in Referrers(t) : tl[p] = teamMu[t]

\* The goroutines inside t's critical section; at most one (MutualExclusion).
Inside(t) == {p \in Procs : pc[p] = "holding" /\ team[p] = t}

Member(S) == IF S = {} THEN Free ELSE CHOOSE p \in S : TRUE

Holder == [t \in Teams |-> Member(Inside(t))]

Mutex == INSTANCE TeamMutex WITH owner <- Holder

\* The registry implements the plain per-team mutex the scheduler is written
\* against.
ImplementsMutex == Mutex!Spec
=============================================================================
