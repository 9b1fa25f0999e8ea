--------------------------- MODULE TeamLockProofs ---------------------------
(***************************************************************************)
(* Mutual exclusion of the refcounted team lock, for any finite number of  *)
(* goroutines and any sets of teams and structs.                           *)
(*                                                                         *)
(* MutualExclusion is not inductive: it says nothing about which struct a  *)
(* goroutine points to.  IInv adds that every goroutine inside a call      *)
(* points to the struct registered for its team (Registered), that a       *)
(* struct's refcount is the number of goroutines pointing to it            *)
(* (Counted), that distinct teams have distinct structs (Distinct), that a *)
(* registered struct is referenced (Referenced), and that a holder's       *)
(* channel is full and no two holders share a struct (Exclusive).          *)
(***************************************************************************)
EXTENDS TeamLock, FiniteSetTheorems, TLAPS

Users(s) == {p \in Procs : tl[p] = s}

Registered == \A p \in Procs :
                 IF pc[p] = "idle"
                 THEN tl[p] = NoStruct /\ team[p] = NoTeam
                 ELSE /\ team[p] \in Teams
                      /\ tl[p] \in Structs
                      /\ teamMu[team[p]] = tl[p]

Distinct == \A t, u \in Teams :
               teamMu[t] # NoStruct /\ teamMu[t] = teamMu[u] => t = u

Counted == \A s \in Structs : refs[s] = Cardinality(Users(s))

Referenced == \A t \in Teams : teamMu[t] # NoStruct => Users(teamMu[t]) # {}

Exclusive == \A p \in Procs :
                pc[p] = "holding" =>
                   /\ ch[tl[p]]
                   /\ \A q \in Procs : pc[q] = "holding" /\ tl[q] = tl[p] => q = p

\* The inductive invariant: what the registry keeps true between any two steps
\* of refTeamLock, the channel operations and release (scheduler.go 85-137).
IInv == TypeOK /\ Registered /\ Distinct /\ Counted /\ Referenced /\ Exclusive

\* Every set of goroutines is finite, so its Cardinality is a number.
LEMMA UsersFinite == ASSUME NEW s PROVE /\ IsFiniteSet(Users(s))
                                       /\ Cardinality(Users(s)) \in Nat
<1>1. Users(s) \subseteq Procs
  BY DEF Users
<1>2. IsFiniteSet(Users(s))
  BY <1>1, ProcsFinite, FS_Subset
<1> QED
  BY <1>2, FS_CardinalityType

\* One more user of a struct is one more reference to it.
LEMMA UserAdded ==
  ASSUME NEW S, IsFiniteSet(S), NEW p, p \notin S
  PROVE  Cardinality(S \cup {p}) = Cardinality(S) + 1
BY FS_AddElement

\* One user less is one reference less, and the last one leaves none behind.
LEMMA UserRemoved ==
  ASSUME NEW S, IsFiniteSet(S), NEW p \in S
  PROVE  /\ Cardinality(S \ {p}) = Cardinality(S) - 1
         /\ Cardinality(S) = 1 <=> S \ {p} = {}
<1>1. /\ IsFiniteSet(S \ {p})
      /\ Cardinality(S \ {p}) = Cardinality(S) - 1
  BY FS_RemoveElement
<1>2. Cardinality(S) \in Nat
  BY FS_CardinalityType
<1>3. Cardinality(S \ {p}) = 0 <=> S \ {p} = {}
  BY <1>1, FS_EmptySet
<1> QED
  BY <1>1, <1>2, <1>3

\* Initially nobody references anything and the registry is empty.
LEMMA InitIInv == Init => IInv
<1> SUFFICES ASSUME Init PROVE IInv
  OBVIOUS
<1>1. TypeOK
  BY DEF Init, TypeOK, PC
<1>2. Registered /\ Distinct /\ Referenced /\ Exclusive
  BY DEF Init, Registered, Distinct, Referenced, Exclusive
<1>3. Counted
  <2> SUFFICES ASSUME NEW s \in Structs PROVE refs[s] = Cardinality(Users(s))
    BY DEF Counted
  <2>1. Users(s) = {}
    BY NilIsNoStruct DEF Init, Users
  <2> QED
    BY <2>1, FS_EmptySet DEF Init
<1> QED
  BY <1>1, <1>2, <1>3 DEF IInv

\* Every step of the registry preserves the inductive invariant.
LEMMA NextIInv == IInv /\ [Next]_vars => IInv'
<1> SUFFICES ASSUME IInv, [Next]_vars PROVE IInv'
  OBVIOUS
<1> USE DEF IInv
<1>1. ASSUME NEW p \in Procs, NEW t \in Teams, RefExisting(p, t) PROVE IInv'
  <2> DEFINE s0 == teamMu[t]
  <2>0. s0 \in Structs /\ tl[p] = NoStruct /\ tl[p] # s0
    BY <1>1, NilIsNoStruct DEF RefExisting, TypeOK, Registered
  <2>1. TypeOK'
    BY <1>1, <2>0 DEF RefExisting, TypeOK, PC
  <2>2. Registered'
    BY <1>1, <2>0 DEF RefExisting, TypeOK, Registered
  <2>3. Distinct'
    BY <1>1 DEF RefExisting, Distinct
  <2>4. \A s \in Structs : Users(s)' = IF s = s0 THEN Users(s) \cup {p} ELSE Users(s)
    BY <1>1, <2>0, NilIsNoStruct DEF RefExisting, TypeOK, Users
  <2>5. Counted'
    <3> SUFFICES ASSUME NEW s \in Structs PROVE refs'[s] = Cardinality(Users(s)')
      BY DEF Counted
    <3>1. CASE s = s0
      <4>1. p \notin Users(s0)
        BY <2>0 DEF Users
      <4>2. Cardinality(Users(s0) \cup {p}) = Cardinality(Users(s0)) + 1
        BY <4>1, UsersFinite, UserAdded
      <4> QED
        BY <1>1, <2>0, <2>4, <3>1, <4>2 DEF RefExisting, TypeOK, Counted
    <3>2. CASE s # s0
      BY <1>1, <2>4, <3>2 DEF RefExisting, TypeOK, Counted
    <3> QED
      BY <3>1, <3>2
  <2>6. Referenced'
    BY <1>1, <2>4 DEF RefExisting, TypeOK, Referenced
  <2>7. Exclusive'
    BY <1>1, <2>0 DEF RefExisting, TypeOK, Exclusive
  <2> QED
    BY <2>1, <2>2, <2>3, <2>5, <2>6, <2>7
<1>2. ASSUME NEW p \in Procs, NEW t \in Teams, NEW s0 \in Structs, RefNew(p, t, s0)
      PROVE  IInv'
  <2>0. tl[p] = NoStruct /\ tl[p] # s0 /\ Users(s0) = {}
    BY <1>2, NilIsNoStruct DEF RefNew, Garbage, Registered, Users
  <2>1. TypeOK'
    BY <1>2 DEF RefNew, TypeOK, PC
  <2>2. Registered'
    <3> SUFFICES ASSUME NEW q \in Procs PROVE Registered!(q)'
      BY DEF Registered
    <3>1. CASE q = p
      BY <1>2, <3>1 DEF RefNew, TypeOK
    <3>2. CASE q # p
      <4>1. pc[q] # "idle" => team[q] # t
        BY <1>2, NilIsNoStruct DEF RefNew, Registered
      <4> QED
        BY <1>2, <3>2, <4>1 DEF RefNew, TypeOK, Registered
    <3> QED
      BY <3>1, <3>2
  <2>3. Distinct'
    BY <1>2 DEF RefNew, TypeOK, Garbage, Distinct
  <2>4. \A s \in Structs : Users(s)' = IF s = s0 THEN {p} ELSE Users(s)
    BY <1>2, <2>0, NilIsNoStruct DEF RefNew, TypeOK, Users
  <2>5. Counted'
    <3> SUFFICES ASSUME NEW s \in Structs PROVE refs'[s] = Cardinality(Users(s)')
      BY DEF Counted
    <3>1. Cardinality({p}) = 1
      BY FS_Singleton
    <3> QED
      BY <1>2, <2>4, <3>1 DEF RefNew, TypeOK, Counted
  <2>6. Referenced'
    BY <1>2, <2>4, NilIsNoStruct DEF RefNew, TypeOK, Referenced
  <2>7. Exclusive'
    <3>1. \A q \in Procs : q # p => tl[q] # s0
      BY <1>2 DEF RefNew, Garbage
    <3> QED
      BY <1>2, <3>1 DEF RefNew, TypeOK, Exclusive
  <2> QED
    BY <2>1, <2>2, <2>3, <2>5, <2>6, <2>7
<1>3. ASSUME NEW p \in Procs, Acquire(p) PROVE IInv'
  <2>0. tl[p] \in Structs
    BY <1>3 DEF Acquire, Registered
  <2>1. TypeOK'
    BY <1>3 DEF Acquire, TypeOK, PC
  <2>2. Registered' /\ Distinct'
    BY <1>3 DEF Acquire, TypeOK, Registered, Distinct
  <2>3. \A s : Users(s)' = Users(s)
    BY <1>3 DEF Acquire, Users
  <2>4. Counted' /\ Referenced'
    BY <1>3, <2>3 DEF Acquire, Counted, Referenced
  <2>5. Exclusive'
    <3>1. \A q \in Procs : pc[q] = "holding" => tl[q] # tl[p]
      BY <1>3 DEF Acquire, Exclusive
    <3>2. \A q \in Procs : pc[q] = "holding" => tl[q] \in Structs
      BY DEF Registered
    <3> QED
      BY <1>3, <2>0, <3>1, <3>2 DEF Acquire, TypeOK, Exclusive
  <2> QED
    BY <2>1, <2>2, <2>4, <2>5
<1>4. ASSUME NEW p \in Procs, Cancel(p) \/ TryFails(p) PROVE IInv'
  <2>1. TypeOK'
    BY <1>4 DEF Cancel, TryFails, TypeOK, PC
  <2>2. Registered' /\ Distinct' /\ Exclusive'
    BY <1>4 DEF Cancel, TryFails, TypeOK, Registered, Distinct, Exclusive
  <2>3. \A s : Users(s)' = Users(s)
    BY <1>4 DEF Cancel, TryFails, Users
  <2>4. Counted' /\ Referenced'
    BY <1>4, <2>3 DEF Cancel, TryFails, Counted, Referenced
  <2> QED
    BY <2>1, <2>2, <2>4
<1>5. ASSUME NEW p \in Procs, Unlock(p) PROVE IInv'
  <2>0. tl[p] \in Structs
    BY <1>5 DEF Unlock, Registered
  <2>1. TypeOK'
    BY <1>5 DEF Unlock, TypeOK, PC
  <2>2. Registered' /\ Distinct'
    BY <1>5 DEF Unlock, TypeOK, Registered, Distinct
  <2>3. \A s : Users(s)' = Users(s)
    BY <1>5 DEF Unlock, Users
  <2>4. Counted' /\ Referenced'
    BY <1>5, <2>3 DEF Unlock, Counted, Referenced
  <2>5. Exclusive'
    <3>1. \A q \in Procs : pc[q] = "holding" /\ q # p => tl[q] # tl[p]
      BY <1>5 DEF Unlock, Exclusive
    <3>2. \A q \in Procs : pc[q] = "holding" => tl[q] \in Structs
      BY DEF Registered
    <3> QED
      BY <1>5, <2>0, <3>1, <3>2 DEF Unlock, TypeOK, Exclusive
  <2> QED
    BY <2>1, <2>2, <2>4, <2>5
<1>6. ASSUME NEW p \in Procs, Release(p) PROVE IInv'
  <2> DEFINE s0 == tl[p]
             t0 == team[p]
  <2>0. s0 \in Structs /\ t0 \in Teams /\ teamMu[t0] = s0 /\ p \in Users(s0)
    BY <1>6 DEF Release, Registered, Users
  <2>1. \A s \in Structs : Users(s)' = IF s = s0 THEN Users(s) \ {p} ELSE Users(s)
    BY <1>6, <2>0, NilIsNoStruct DEF Release, TypeOK, Users
  <2>2. /\ Cardinality(Users(s0) \ {p}) = Cardinality(Users(s0)) - 1
        /\ refs[s0] = 1 <=> Users(s0) \ {p} = {}
    BY <2>0, UsersFinite, UserRemoved DEF Counted
  <2>3. refs[s0] - 1 \in Nat
    <3>1. Cardinality(Users(s0) \ {p}) \in Nat
      BY UsersFinite, ProcsFinite, FS_Subset, FS_CardinalityType DEF Users
    <3> QED
      BY <2>0, <2>2, <3>1 DEF Counted
  <2>4. TypeOK'
    BY <1>6, <2>0, <2>3 DEF Release, TypeOK, PC
  <2>5. Registered'
    <3> SUFFICES ASSUME NEW q \in Procs PROVE Registered!(q)'
      BY DEF Registered
    <3>1. CASE q = p
      BY <1>6, <3>1 DEF Release, TypeOK
    <3>2. CASE q # p /\ pc[q] = "idle"
      BY <1>6, <3>2 DEF Release, TypeOK, Registered
    <3>3. CASE q # p /\ pc[q] # "idle"
      <4>1. team[q] \in Teams /\ tl[q] \in Structs /\ teamMu[team[q]] = tl[q]
        BY <3>3 DEF Registered
      <4>2. refs[s0] = 1 => team[q] # t0
        BY <2>0, <2>2, <3>3, <4>1 DEF Users
      <4> QED
        BY <1>6, <2>0, <3>3, <4>1, <4>2 DEF Release, TypeOK
    <3> QED
      BY <3>1, <3>2, <3>3
  <2>6. Distinct'
    BY <1>6, <2>0 DEF Release, TypeOK, Distinct
  <2>7. Counted'
    BY <1>6, <2>0, <2>1, <2>2 DEF Release, TypeOK, Counted
  <2>8. Referenced'
    <3> SUFFICES ASSUME NEW t \in Teams, teamMu'[t] # NoStruct
                 PROVE  Users(teamMu[t])' # {} /\ teamMu'[t] = teamMu[t]
      BY DEF Referenced, Users
    <3>1. teamMu'[t] = teamMu[t] /\ teamMu[t] \in Structs
      BY <1>6, <2>0 DEF Release, TypeOK
    <3>2. CASE teamMu[t] = s0
      <4>1. t = t0
        BY <2>0, <3>2, NilIsNoStruct DEF Distinct
      <4>2. refs[s0] # 1
        BY <1>6, <4>1, <2>0 DEF Release, TypeOK
      <4> QED
        BY <2>0, <2>1, <2>2, <3>1, <3>2, <4>2
    <3>3. CASE teamMu[t] # s0
      BY <2>1, <3>1, <3>3 DEF Referenced
    <3> QED
      BY <3>1, <3>2, <3>3
  <2>9. Exclusive'
    BY <1>6 DEF Release, TypeOK, Exclusive
  <2> QED
    BY <2>4, <2>5, <2>6, <2>7, <2>8, <2>9
<1>7. CASE UNCHANGED vars
  <2>1. \A s : Users(s)' = Users(s)
    BY <1>7 DEF vars, Users
  <2> QED
    BY <1>7, <2>1 DEF vars, TypeOK, Registered, Distinct, Counted, Referenced, Exclusive
<1> QED
  BY <1>1, <1>2, <1>3, <1>4, <1>5, <1>6, <1>7 DEF Next

\* The inductive invariant holds in every reachable state.
THEOREM InductiveInvariant == Spec => []IInv
BY InitIInv, NextIInv, PTL DEF Spec

\* Type correctness of the registry: in particular no refcount goes negative.
THEOREM TypeCorrect == Spec => []TypeOK
<1>1. IInv => TypeOK
  BY DEF IInv
<1> QED
  BY <1>1, InductiveInvariant, PTL

\* No two goroutines are inside the same team's critical section (1e-iii).
THEOREM LockIsExclusive == Spec => []MutualExclusion
<1>1. IInv => MutualExclusion
  BY DEF IInv, Registered, Exclusive, MutualExclusion
<1> QED
  BY <1>1, InductiveInvariant, PTL

\* The registry has an entry exactly for the teams in use: nothing is evicted
\* under a user and nothing leaks.
THEOREM RegistryIsExact == Spec => []RegistryExact
<1>1. IInv => RegistryExact
  <2> SUFFICES ASSUME IInv, NEW t \in Teams PROVE RegistryExact!(t)
    BY DEF RegistryExact
  <2>1. \A p \in Referrers(t) : tl[p] = teamMu[t] /\ tl[p] \in Structs
    BY NoTeamIsNoTeam DEF IInv, Registered, Referrers
  <2>2. teamMu[t] # NoStruct => Users(teamMu[t]) = Referrers(t)
    <3> SUFFICES ASSUME teamMu[t] # NoStruct PROVE Users(teamMu[t]) = Referrers(t)
      OBVIOUS
    <3>1. ASSUME NEW p \in Procs, tl[p] = teamMu[t] PROVE team[p] = t
      <4>1. pc[p] # "idle"
        BY <3>1 DEF IInv, Registered
      <4>2. team[p] \in Teams /\ teamMu[team[p]] = teamMu[t]
        BY <3>1, <4>1 DEF IInv, Registered
      <4> QED
        BY <4>2 DEF IInv, Distinct
    <3> QED
      BY <2>1, <3>1 DEF Users, Referrers
  <2>3. CASE Referrers(t) = {}
    BY <2>2, <2>3 DEF IInv, Referenced
  <2>4. CASE Referrers(t) # {}
    <3>1. teamMu[t] \in Structs
      BY <2>1, <2>4
    <3>2. refs[teamMu[t]] = Cardinality(Referrers(t))
      BY <2>2, <3>1, NilIsNoStruct DEF IInv, Counted
    <3> QED
      BY <2>1, <2>4, <3>1, <3>2
  <2> QED
    BY <2>3, <2>4
<1> QED
  BY <1>1, InductiveInvariant, PTL

-----------------------------------------------------------------------------
\* Member of a singleton and of the empty set.
LEMMA MemberIs == /\ Member({}) = Free
                  /\ \A p : Member({p}) = p
BY DEF Member

\* Initially nobody is inside: the mutex is free.
LEMMA MutexInit == Init => Mutex!Init
BY MemberIs DEF Init, Mutex!Init, Holder, Inside

\* Taking the channel of the registered struct is entering a free critical
\* section, emptying it is leaving, and every other step is a stutter.
LEMMA MutexNext == IInv /\ [Next]_vars => [Mutex!Next]_Holder
<1> SUFFICES ASSUME IInv, [Next]_vars PROVE Mutex!Next \/ Holder' = Holder
  OBVIOUS
<1> USE DEF IInv
<1>1. ASSUME \A t \in Teams : Inside(t)' = Inside(t) PROVE Holder' = Holder
  BY <1>1 DEF Holder
<1>2. ASSUME NEW p \in Procs, Acquire(p) PROVE Mutex!Next
  <2>1. team[p] \in Teams /\ tl[p] \in Structs
    BY <1>2 DEF Acquire, Registered
  <2>2. Inside(team[p]) = {}
    BY <1>2, <2>1 DEF Acquire, Registered, Exclusive, Inside
  <2>3. \A t \in Teams : Inside(t)' = IF t = team[p] THEN {p} ELSE Inside(t)
    BY <1>2, <2>1, <2>2 DEF Acquire, TypeOK, Inside
  <2>4. Holder[team[p]] = Free
    BY <2>1, <2>2, MemberIs DEF Holder
  <2>5. Holder' = [Holder EXCEPT ![team[p]] = p]
    BY <2>1, <2>3, MemberIs DEF Holder
  <2> QED
    BY <2>1, <2>4, <2>5 DEF Mutex!Next, Mutex!Acquire
<1>3. ASSUME NEW p \in Procs, Unlock(p) PROVE Mutex!Next
  <2>1. team[p] \in Teams
    BY <1>3 DEF Unlock, Registered
  <2>2. Inside(team[p]) = {p}
    BY <1>3, <2>1 DEF Unlock, Registered, Exclusive, Inside
  <2>3. \A t \in Teams : Inside(t)' = IF t = team[p] THEN {} ELSE Inside(t)
    BY <1>3, <2>1, <2>2 DEF Unlock, TypeOK, Inside
  <2>4. Holder[team[p]] = p /\ p # Free
    BY <2>1, <2>2, MemberIs, FreeIsNobody DEF Holder
  <2>5. Holder' = [Holder EXCEPT ![team[p]] = Free]
    BY <2>1, <2>3, MemberIs DEF Holder
  <2> QED
    BY <2>1, <2>4, <2>5 DEF Mutex!Next, Mutex!Release
<1>4. ASSUME NEW p \in Procs, NEW t \in Teams, RefExisting(p, t) PROVE Holder' = Holder
  BY <1>1, <1>4 DEF RefExisting, TypeOK, Inside
<1>5. ASSUME NEW p \in Procs, NEW t \in Teams, NEW s \in Structs, RefNew(p, t, s)
      PROVE  Holder' = Holder
  BY <1>1, <1>5 DEF RefNew, TypeOK, Inside
<1>6. ASSUME NEW p \in Procs, Cancel(p) \/ TryFails(p) \/ Release(p)
      PROVE  Holder' = Holder
  BY <1>1, <1>6 DEF Cancel, TryFails, Release, TypeOK, Inside
<1>7. CASE UNCHANGED vars
  BY <1>1, <1>7 DEF vars, Inside
<1> QED
  BY <1>2, <1>3, <1>4, <1>5, <1>6, <1>7 DEF Next

\* The refcounted registry implements the plain mutex of TeamMutex, which is
\* all the scheduler relies on.
THEOREM LockImplementsMutex == Spec => ImplementsMutex
BY MutexInit, MutexNext, InductiveInvariant, PTL DEF Spec, ImplementsMutex, Mutex!Spec
=============================================================================
