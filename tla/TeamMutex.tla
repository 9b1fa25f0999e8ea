------------------------------ MODULE TeamMutex ------------------------------
(***************************************************************************)
(* What the scheduler's per-team lock promises its callers: for every      *)
(* team at most one goroutine is inside that team's critical section, and  *)
(* nobody enters it while somebody else is inside.                         *)
(*                                                                         *)
(* TeamLock (the refcounted lock registry) is shown to implement this      *)
(* specification; Instances (the scheduler that relies on it) keeps only   *)
(* the owner of each team's lock.                                          *)
(***************************************************************************)
CONSTANTS Teams,  \* team ids
          Procs,  \* goroutines that take team locks
          Free    \* "nobody"; not a member of Procs

VARIABLE owner    \* owner[t]: the goroutine inside t's critical section

Init == owner = [t \in Teams |-> Free]

Acquire(p, t) == /\ owner[t] = Free
                 /\ owner' = [owner EXCEPT ![t] = p]

Release(t) == /\ owner[t] # Free
              /\ owner' = [owner EXCEPT ![t] = Free]

Next == \/ \E p \in Procs, t \in Teams : Acquire(p, t)
        \/ \E t \in Teams : Release(t)

Spec == Init /\ [][Next]_owner
=============================================================================
