-------------------------- MODULE ScoreboardProofs --------------------------
(***************************************************************************)
(* What reads and broadcasts of the scoreboard may show, and what the      *)
(* recomputes leave in the cache, for any number of teams, challenges,     *)
(* goroutines, edits and faults.                                           *)
(*                                                                         *)
(* The properties speak of the end of a read, or of a moment of rest; the  *)
(* invariant says what is settled on the way: what the board in hand may   *)
(* hold (BoardOK), where a public task can be that has seen the freeze     *)
(* (IcedOK), what a read owes (ReadOK), what is stored (StoreOK), and that *)
(* a live board that lacks a solve has a recompute under way that will     *)
(* show it (Published).                                                    *)
(***************************************************************************)
EXTENDS Scoreboard, FiniteSetTheorems, TLAPS

AllShown == [t \in Teams |-> "shown"]

Computing(t, l) == t.pc \in {"teams", "solves"} /\ t.then = l

\* What the board in hand may hold, and when there is one.
BoardOK(t) ==
    /\ t.board # NoBoard => /\ t.board.solves \subseteq solved
                            /\ flips = 0 => t.board.flags = AllShown
    /\ flips = 0 => t.flags = AllShown
    /\ \/ t.pc \in {"publish", "repair", "miss", "deliver", "snapwrite", "count"}
       \/ Computing(t, "repair")
       => t.board # NoBoard
    /\ t.pc \in {"teams", "solves"} => t.then # "none"
    /\ faults = 0 => t.pc # "miss" /\ ~Computing(t, "miss")

\* Where a public task can be that has seen the freeze: it delivers nothing but
\* the frozen board.
IcedOK(t) ==
    /\ t.pc = "ice" => ~t.tick
    /\ t.iced => freeze = "on" /\ ~t.tick
    /\ t.iced /\ ~t.admin =>
        /\ \/ t.pc \in {"frz", "snap", "snaplock", "snapwrite", "refrz", "deliver"}
           \/ Computing(t, "snapwrite")
        /\ t.pc = "refrz" => frz # NoBoard
        /\ t.pc = "deliver" => frz # NoBoard /\ t.board = frz

\* The read has in hand what it owes.
Paid(t) == /\ Cardinality(t.due) <= CountOf(t.board)
           /\ edits + flips = 0 => t.due \subseteq t.board.solves

\* What a read of the live board owes, and that the frozen path owes nothing.
ReadOK(t) ==
    /\ t.due \subseteq Valid
    /\ t.pc \in {"frz", "refrz"} => t.frozen /\ ~t.admin
    /\ t.pc \in {"snap", "snaplock", "snapwrite"} \/ Computing(t, "snapwrite") =>
          t.tick \/ (t.frozen /\ ~t.admin)
    /\ t.pc \in {"repair", "miss", "deliver"} /\ ~t.cast /\ (t.frozen => t.admin) =>
          Paid(t)

TaskOK(t) == BoardOK(t) /\ IcedOK(t) /\ ReadOK(t)

TasksOK == \A p \in Tasks, t \in Task : task[p] = t => TaskOK(t)

\* A stored board.
BoardKept(b) == b # NoBoard => /\ b.solves \subseteq solved
                               /\ flips = 0 => b.flags = AllShown

\* The stored boards, and what the absence of changes and faults means.
StoreOK ==
    /\ BoardKept(cur) /\ BoardKept(frz)
    /\ frz = NoBoard => late = {}
    /\ frz # NoBoard => frz.solves \cap late = {}
    /\ edits = 0 => visible = Chals
    /\ flips = 0 => flag = AllShown
    /\ faults = 0 => cur # NoBoard /\ lastCount = CountOf(cur)

\* A recompute that will publish every solve there is now.
Fresh(t) == Computing(t, "publish") \/ (t.pc = "publish" /\ t.board.solves = Valid)

\* Without faults the live board shows every solve, or a recompute is under
\* way that will.
Published == faults = 0 /\ flips = 0 /\ visible = Chals =>
    cur.solves = Valid \/ \E p \in Tasks : Fresh(task[p])

BoardInv == TypeOK /\ StoreOK /\ Published /\ TasksOK

-----------------------------------------------------------------------------
(* Boards and counts *)

\* Every set of solves is finite.
LEMMA SolvesFinite ==
    ASSUME NEW S, S \subseteq Teams \X Chals
    PROVE  IsFiniteSet(S) /\ Cardinality(S) \in Nat
<1>1. IsFiniteSet(Teams \X Chals)
  BY FS_Product, ContestFinite
<1> QED BY <1>1, FS_Subset, FS_CardinalityType

\* A subset has no more solves, and as many only when it has all.
LEMMA SolvesCounted ==
    ASSUME NEW T, T \subseteq Teams \X Chals, NEW S, S \subseteq T
    PROVE  /\ Cardinality(S) <= Cardinality(T)
           /\ Cardinality(S) = Cardinality(T) => S = T
  BY SolvesFinite, FS_Subset

\* ListValidSolves returns correct submissions; with every challenge visible
\* and every team shown it returns them all.
LEMMA ValidSolves ==
    ASSUME TypeOK
    PROVE  /\ Valid \subseteq solved
           /\ Valid \subseteq Teams \X Chals
           /\ visible = Chals /\ flag = AllShown => Valid = solved
<1>1. Valid \subseteq solved
  BY DEF Valid
<1>2. ASSUME visible = Chals, flag = AllShown  PROVE solved \subseteq Valid
  <2> SUFFICES ASSUME NEW s \in solved  PROVE s[2] \in Chals /\ flag[s[1]] # "hidden"
    BY <1>2 DEF Valid
  <2>1. s[1] \in Teams /\ s[2] \in Chals
    BY DEF TypeOK
  <2> QED BY <2>1, <1>2 DEF AllShown
<1> QED BY <1>1, <1>2 DEF TypeOK

\* The count of a board is the number of its solves.
LEMMA CountIsNat ==
    ASSUME NEW b \in Board
    PROVE  /\ b.solves \subseteq Teams \X Chals
           /\ b.flags \in [Teams -> Flags]
           /\ CountOf(b) = Cardinality(b.solves)
           /\ CountOf(b) \in Nat
  BY SolvesFinite DEF Board, CountOf

\* The fields of a board that compute() returns.
LEMMA Computed ==
    ASSUME NEW f \in [Teams -> Flags], NEW S, S \subseteq Teams \X Chals
    PROVE  /\ [flags |-> f, solves |-> S] \in Board
           /\ [flags |-> f, solves |-> S].solves = S
           /\ [flags |-> f, solves |-> S].flags = f
           /\ [flags |-> f, solves |-> S] # NoBoard
  BY NoBoardIsNone DEF Board

-----------------------------------------------------------------------------
(* A task's record *)

\* The fields of a task.
LEMMA Fields ==
    ASSUME NEW t \in Task
    PROVE  /\ t.pc \in {"idle", "clear", "teams", "solves", "publish", "ice", "frz", "snap",
                        "snaplock", "snapwrite", "refrz", "cur", "count", "repair", "miss",
                        "deliver", "behind"}
           /\ t.then \in {"none", "publish", "snapwrite", "repair", "miss", "deliver"}
           /\ t.force \in BOOLEAN /\ t.cast \in BOOLEAN /\ t.admin \in BOOLEAN
           /\ t.tick \in BOOLEAN /\ t.frozen \in BOOLEAN /\ t.iced \in BOOLEAN
           /\ t.flags \in [Teams -> Flags]
           /\ t.board \in Board \cup {NoBoard}
           /\ t.due \in SUBSET (Teams \X Chals)
  BY DEF Task

\* What a step leaves alone that the other tasks rely on.
Mono == /\ UNCHANGED <<db, edits, flips>>
        /\ frz' = frz \/ frz = NoBoard
        /\ faults' \in Nat /\ (faults' = 0 => faults = 0)

\* Such a step keeps what was true of a task that does not move.
LEMMA TaskStays ==
    ASSUME NEW t \in Task, TaskOK(t), Mono
    PROVE  TaskOK(t)'
<1>1. Valid' = Valid
  BY DEF Mono, Valid, db
<1>2. BoardOK(t)'
  BY DEF TaskOK, BoardOK, Mono, db
<1>3. IcedOK(t)'
  BY DEF TaskOK, IcedOK, Mono, db
<1>4. ReadOK(t)'
  BY <1>1 DEF TaskOK, ReadOK, Paid, Mono, db
<1> QED BY <1>2, <1>3, <1>4 DEF TaskOK

\* ... and the tasks stay in order when the one that moves does.
LEMMA TaskMoves ==
    ASSUME BoardInv, NEW p \in Tasks, NEW q \in Task, TaskOK(q)', Mono,
           task' = [task EXCEPT ![p] = q]
    PROVE  task' \in [Tasks -> Task] /\ TasksOK'
<1>1. task \in [Tasks -> Task]
  BY DEF BoardInv, TypeOK
<1>2. task' \in [Tasks -> Task]
  BY <1>1
<1>3. ASSUME NEW r \in Tasks, NEW t \in Task, task'[r] = t  PROVE TaskOK(t)'
  <2>1. CASE r = p
    BY <2>1, <1>3, <1>1
  <2>2. CASE r # p
    <3>1. task[r] = t
      BY <2>2, <1>3, <1>1
    <3> QED BY <3>1, TaskStays DEF BoardInv, TasksOK
  <2> QED BY <2>1, <2>2
<1> QED BY <1>2, <1>3 DEF TasksOK

\* A step that leaves the database and the stored boards alone.
Inert == /\ UNCHANGED <<db, cur, frz, lastCount, late, edits, flips>>
         /\ faults' \in Nat /\ (faults' = 0 => faults = 0)
         /\ mu' \in Tasks \cup {Free}

\* When Published promises something after the step.
Clean == faults' = 0 /\ flips = 0 /\ visible = Chals

\* The live board stays published, when a task that was to publish still is.
LEMMA PublishedStays ==
    ASSUME BoardInv, NEW p \in Tasks, NEW q, task' = [task EXCEPT ![p] = q],
           UNCHANGED <<db, cur, flips>>, faults' = 0 => faults = 0,
           Clean /\ Fresh(task[p]) => Fresh(q)
    PROVE  Published'
<1>1. Valid' = Valid
  BY DEF Valid, db
<1> SUFFICES ASSUME faults' = 0, flips = 0, visible = Chals, cur.solves # Valid
             PROVE  \E r \in Tasks : Fresh(task[r])'
  BY <1>1 DEF Published, db
<1>2. PICK r \in Tasks : Fresh(task[r])
  BY DEF BoardInv, Published
<1>3. CASE r = p
  <2>1. Fresh(q)
    BY <1>2, <1>3 DEF Clean
  <2>2. task'[p] = q
    BY DEF BoardInv, TypeOK
  <2> QED BY <2>1, <2>2, <1>1 DEF Fresh, Computing
<1>4. CASE r # p
  <2>1. task'[r] = task[r]
    BY <1>4 DEF BoardInv, TypeOK
  <2> QED BY <2>1, <1>2, <1>1 DEF Fresh, Computing
<1> QED BY <1>3, <1>4

\* A step inside the service that writes no board.
LEMMA StepKeeps ==
    ASSUME BoardInv, NEW p \in Tasks, NEW q \in Task, TaskOK(q),
           task' = [task EXCEPT ![p] = q],
           Inert, Clean /\ Fresh(task[p]) => Fresh(q)
    PROVE  BoardInv'
<1>1. Mono
  BY DEF Mono, Inert
<1>2. task' \in [Tasks -> Task] /\ TasksOK'
  BY <1>1, TaskStays, TaskMoves
<1>3. TypeOK'
  BY <1>2 DEF Inert, BoardInv, TypeOK, db
<1>4. StoreOK'
  BY DEF Inert, BoardInv, StoreOK, BoardKept, db, CountOf
<1>5. Published'
  BY PublishedStays DEF Inert
<1> QED BY <1>2, <1>3, <1>4, <1>5 DEF BoardInv

-----------------------------------------------------------------------------
(* compute() *)

PCs == {"idle", "clear", "teams", "solves", "publish", "ice", "frz", "snap",
        "snaplock", "snapwrite", "refrz", "cur", "count", "repair", "miss",
        "deliver", "behind"}
Thens == {"none", "publish", "snapwrite", "repair", "miss", "deliver"}

\* The record of a task that moves.
Moved(t, l, n, f, b, d, i) ==
    [t EXCEPT !.pc = l, !.then = n, !.flags = f, !.board = b, !.due = d, !.iced = i]

\* Its fields.
Now(q, t, l, n, f, b, d, i) ==
    /\ q.pc = l /\ q.then = n /\ q.flags = f /\ q.board = b /\ q.due = d /\ q.iced = i
    /\ q.force = t.force /\ q.cast = t.cast /\ q.admin = t.admin
    /\ q.tick = t.tick /\ q.frozen = t.frozen

\* A task that moves has these fields.
LEMMA MovedFields ==
    ASSUME NEW t \in Task, NEW l \in PCs, NEW n \in Thens, NEW f \in [Teams -> Flags],
           NEW b \in Board \cup {NoBoard}, NEW d, d \subseteq Teams \X Chals,
           NEW i \in BOOLEAN, NEW q, q = Moved(t, l, n, f, b, d, i)
    PROVE  /\ q \in Task
           /\ Now(q, t, l, n, f, b, d, i)
<1>1. /\ q.pc = l /\ q.then = n /\ q.flags = f /\ q.board = b /\ q.due = d /\ q.iced = i
      /\ q.force = t.force /\ q.cast = t.cast /\ q.admin = t.admin
      /\ q.tick = t.tick /\ q.frozen = t.frozen
  BY DEF Moved, Task
<1>2. q = [pc |-> q.pc, then |-> q.then, force |-> q.force, cast |-> q.cast,
           admin |-> q.admin, tick |-> q.tick, frozen |-> q.frozen,
           flags |-> q.flags, board |-> q.board, due |-> q.due, iced |-> q.iced]
  BY DEF Moved, Task
<1>3. q.force \in BOOLEAN /\ q.cast \in BOOLEAN /\ q.admin \in BOOLEAN /\ q.tick \in BOOLEAN
      /\ q.frozen \in BOOLEAN
  BY <1>1, Fields
<1>4. q \in Task
  BY <1>1, <1>2, <1>3 DEF Task, PCs, Thens
<1> QED BY <1>1, <1>4 DEF Now

\* The task a step moves.
LEMMA InHand ==
    ASSUME BoardInv, NEW p \in Tasks
    PROVE  task[p] \in Task /\ TaskOK(task[p])
<1>1. task[p] \in Task
  BY DEF BoardInv, TypeOK
<1> QED BY <1>1 DEF BoardInv, TasksOK

\* A task that is done holds nothing.
LEMMA IdleOK ==
    ASSUME TypeOK
    PROVE  /\ Idle \in Task
           /\ TaskOK(Idle)
<1>1. /\ Idle \in Task
      /\ Idle.pc = "idle" /\ Idle.board = NoBoard /\ Idle.due = {}
      /\ Idle.iced = FALSE /\ Idle.flags = AllShown
  BY DEF Idle, Task, AllShown, Flags
<1>2. BoardOK(Idle)
  BY <1>1 DEF BoardOK, Computing
<1>3. IcedOK(Idle)
  BY <1>1 DEF IcedOK
<1>4. ReadOK(Idle)
  BY <1>1 DEF ReadOK, Computing
<1> QED BY <1>1, <1>2, <1>3, <1>4 DEF TaskOK

\* A task that ends, unless it alone was going to publish.
LEMMA FinishKeeps ==
    ASSUME BoardInv, NEW p \in Tasks, Inert, Finish(p), ~(Clean /\ Fresh(task[p]))
    PROVE  BoardInv'
  BY IdleOK, StepKeeps DEF Finish, BoardInv

\* The types of the fields a step may leave alone.
Shape(t) == /\ t.then \in Thens /\ t.flags \in [Teams -> Flags]
            /\ t.board \in Board \cup {NoBoard} /\ t.due \subseteq Teams \X Chals
            /\ t.iced \in BOOLEAN

\* A task that changes its place.
LEMMA Going ==
    ASSUME NEW t \in Task, NEW l \in PCs, NEW q,
           q = [t EXCEPT !.pc = l]
    PROVE  q \in Task /\ Now(q, t, l, t.then, t.flags, t.board, t.due, t.iced)
<1>1. Shape(t)
  BY Fields DEF Shape, Thens
<1>2. q = Moved(t, l, t.then, t.flags, t.board, t.due, t.iced)
  BY DEF Moved, Task
<1> QED BY <1>1, <1>2, MovedFields DEF Shape

\* A task that calls compute().
LEMMA Calling ==
    ASSUME NEW t \in Task, NEW n \in Thens, NEW q,
           q = [t EXCEPT !.pc = "teams", !.then = n]
    PROVE  q \in Task /\ Now(q, t, "teams", n, t.flags, t.board, t.due, t.iced)
<1>1. Shape(t)
  BY Fields DEF Shape, Thens
<1>2. q = Moved(t, "teams", n, t.flags, t.board, t.due, t.iced)
  BY DEF Moved, Task
<1>3. "teams" \in PCs
  BY DEF PCs
<1> QED BY <1>1, <1>2, <1>3, MovedFields DEF Shape

\* A task that has read the teams.
LEMMA Reading ==
    ASSUME NEW t \in Task, NEW f \in [Teams -> Flags], NEW q,
           q = [t EXCEPT !.pc = "solves", !.flags = f]
    PROVE  q \in Task /\ Now(q, t, "solves", t.then, f, t.board, t.due, t.iced)
<1>1. Shape(t)
  BY Fields DEF Shape, Thens
<1>2. q = Moved(t, "solves", t.then, f, t.board, t.due, t.iced)
  BY DEF Moved, Task
<1>3. "solves" \in PCs
  BY DEF PCs
<1> QED BY <1>1, <1>2, <1>3, MovedFields DEF Shape

\* A task that takes a board in hand.
LEMMA Holding ==
    ASSUME NEW t \in Task, NEW l \in PCs, NEW b \in Board, NEW q,
           q = [t EXCEPT !.pc = l, !.board = b]
    PROVE  q \in Task /\ Now(q, t, l, t.then, t.flags, b, t.due, t.iced)
<1>1. Shape(t)
  BY Fields DEF Shape, Thens
<1>2. q = Moved(t, l, t.then, t.flags, b, t.due, t.iced)
  BY DEF Moved, Task
<1> QED BY <1>1, <1>2, MovedFields DEF Shape

\* A task that is excused what it owes.
LEMMA Excused ==
    ASSUME NEW t \in Task, NEW q,
           q = [t EXCEPT !.pc = "deliver", !.due = {}]
    PROVE  q \in Task /\ Now(q, t, "deliver", t.then, t.flags, t.board, {}, t.iced)
<1>1. Shape(t)
  BY Fields DEF Shape, Thens
<1>2. q = Moved(t, "deliver", t.then, t.flags, t.board, {}, t.iced)
  BY DEF Moved, Task
<1>3. "deliver" \in PCs
  BY DEF PCs
<1> QED BY <1>1, <1>2, <1>3, MovedFields DEF Shape

\* A task that takes the freeze to be over.
LEMMA Melting ==
    ASSUME NEW t \in Task, NEW l \in PCs, NEW q,
           q = [t EXCEPT !.pc = l, !.iced = FALSE]
    PROVE  q \in Task /\ Now(q, t, l, t.then, t.flags, t.board, t.due, FALSE)
<1>1. Shape(t)
  BY Fields DEF Shape, Thens
<1>2. q = Moved(t, l, t.then, t.flags, t.board, t.due, FALSE)
  BY DEF Moved, Task
<1> QED BY <1>1, <1>2, MovedFields DEF Shape

\* ListTeams keeps the invariant.
LEMMA ListTeamsKeeps ==
    ASSUME BoardInv, NEW p \in Tasks, ListTeams(p)
    PROVE  BoardInv'
<1>1. PICK t \in Task : t = task[p] /\ TaskOK(t)
  BY InHand
<1>2. PICK q : q = [t EXCEPT !.pc = "solves", !.flags = flag]
  OBVIOUS
<1>3. flag \in [Teams -> Flags] /\ Inert
  BY DEF BoardInv, TypeOK, PCs, Inert, ListTeams
<1>4. q \in Task /\ Now(q, t, "solves", t.then, flag, t.board, t.due, t.iced)
  BY <1>2, <1>3, Reading
<1>5. t.pc = "teams"
  BY <1>1 DEF ListTeams
<1>6. BoardOK(q)
  BY <1>1, <1>4, <1>5 DEF TaskOK, BoardOK, Computing, BoardInv, StoreOK, Now
<1>7. IcedOK(q)
  BY <1>1, <1>4, <1>5 DEF TaskOK, IcedOK, Computing, Now
<1>8. ReadOK(q)
  BY <1>1, <1>4, <1>5 DEF TaskOK, ReadOK, Computing, Now
<1>9. Fresh(t) => Fresh(q)
  BY <1>4, <1>5 DEF Fresh, Computing, Now
<1>10. task' = [task EXCEPT ![p] = q]
  BY <1>1, <1>2 DEF ListTeams
<1> QED BY <1>1, <1>3, <1>4, <1>6, <1>7, <1>8, <1>9, <1>10, StepKeeps DEF TaskOK

\* A read that is excused owes nothing, whatever board it delivers.
LEMMA NothingOwed ==
    ASSUME NEW q \in Task, q.due = {}, q.board # NoBoard
    PROVE  Paid(q)
<1>1. q.board \in Board
  BY Fields
<1>2. CountOf(q.board) \in Nat /\ Cardinality({}) = 0
  BY <1>1, CountIsNat, FS_EmptySet
<1> QED BY <1>2 DEF Paid

\* The tasks inside MaybeSnapshotFreeze.
Snapping(t) == \/ t.pc \in {"snap", "snaplock", "snapwrite"}
               \/ Computing(t, "snapwrite")

\* MaybeSnapshotFreeze returns without an error.
LEMMA SnapDoneKeeps ==
    ASSUME BoardInv, NEW p \in Tasks, Inert, SnapDone(p), Snapping(task[p]),
           task[p].iced => frz # NoBoard
    PROVE  BoardInv'
<1>1. PICK t \in Task : t = task[p] /\ TaskOK(t)
  BY InHand
<1>2. PICK l : l = IF t.tick THEN "behind" ELSE "refrz"
  OBVIOUS
<1>3. PICK q : q = [t EXCEPT !.pc = l]
  OBVIOUS
<1>4. l \in PCs
  BY <1>2 DEF PCs
<1>5. q \in Task /\ Now(q, t, l, t.then, t.flags, t.board, t.due, t.iced)
  BY <1>3, <1>4, Going
<1>6. BoardOK(q)
  BY <1>1, <1>2, <1>5 DEF TaskOK, BoardOK, Computing, Now
<1>7. IcedOK(q)
  BY <1>1, <1>2, <1>5 DEF TaskOK, IcedOK, Computing, Now
<1>8. ReadOK(q)
  BY <1>1, <1>2, <1>5 DEF TaskOK, ReadOK, Snapping, Computing, Now
<1>9. ~Fresh(t)
  BY <1>1 DEF Fresh, Snapping, Computing
<1>10. task' = [task EXCEPT ![p] = q]
  BY <1>1, <1>2, <1>3 DEF SnapDone, Go
<1> QED BY <1>1, <1>5, <1>6, <1>7, <1>8, <1>9, <1>10, StepKeeps DEF TaskOK

\* MaybeSnapshotFreeze returns with an error.
LEMMA SnapFailsKeeps ==
    ASSUME BoardInv, NEW p \in Tasks, Inert, SnapFails(p), Snapping(task[p])
    PROVE  BoardInv'
<1>1. ~Fresh(task[p])
  BY DEF Fresh, Snapping, Computing
<1>2. CASE task[p].tick
  <2>1. SnapDone(p)
    BY <1>2 DEF SnapFails, SnapDone
  <2>2. ~task[p].iced
    <3>1. task[p] \in Task /\ TaskOK(task[p])
      BY InHand
    <3> QED BY <3>1, <1>2, Fields DEF TaskOK, IcedOK
  <2> QED BY <2>1, <2>2, SnapDoneKeeps
<1>3. CASE ~task[p].tick
  BY <1>1, <1>3, FinishKeeps DEF SnapFails
<1> QED BY <1>2, <1>3

\* compute() has its board.
LEMMA ListSolvesReady ==
    ASSUME BoardInv, NEW p \in Tasks, Inert, task[p].pc = "solves",
           task' = [task EXCEPT ![p].pc = task[p].then,
                       ![p].board = [flags |-> task[p].flags, solves |-> Valid]]
    PROVE  BoardInv'
<1>1. PICK t \in Task : t = task[p] /\ TaskOK(t)
  BY InHand
<1>2. PICK b : b = [flags |-> t.flags, solves |-> Valid]
  OBVIOUS
<1>3. /\ Valid \subseteq solved /\ Valid \subseteq Teams \X Chals
      /\ t.flags \in [Teams -> Flags]
  BY ValidSolves, Fields DEF BoardInv
<1>4. b \in Board /\ b.solves = Valid /\ b.flags = t.flags /\ b # NoBoard
  BY <1>2, <1>3, Computed
<1>5. t.pc = "solves" /\ t.then \in {"publish", "snapwrite", "repair", "miss", "deliver"}
  BY <1>1, Fields DEF TaskOK, BoardOK
<1>6. PICK q : q = [t EXCEPT !.pc = t.then, !.board = b]
  OBVIOUS
<1>7. t.then \in PCs
  BY <1>5 DEF PCs
<1>8. q \in Task /\ Now(q, t, t.then, t.then, t.flags, b, t.due, t.iced)
  BY <1>4, <1>6, <1>7, Holding
<1>9. BoardOK(q)
  BY <1>1, <1>3, <1>4, <1>5, <1>8 DEF TaskOK, BoardOK, Computing, Now
<1>10. IcedOK(q)
  BY <1>1, <1>5, <1>8 DEF TaskOK, IcedOK, Computing, Now
<1>11. Paid(q)
  <2>1. t.due \subseteq Valid
    BY <1>1 DEF TaskOK, ReadOK
  <2>2. Cardinality(t.due) <= Cardinality(Valid)
    BY <2>1, <1>3, SolvesCounted
  <2> QED BY <2>1, <2>2, <1>4, <1>8 DEF Paid, Now, CountOf
<1>12. ReadOK(q)
  BY <1>1, <1>5, <1>8, <1>11 DEF TaskOK, ReadOK, Computing, Now
<1>13. Fresh(t) => Fresh(q)
  BY <1>4, <1>5, <1>8 DEF Fresh, Computing, Now
<1>14. task' = [task EXCEPT ![p] = q]
  BY <1>1, <1>2, <1>6
<1> QED BY <1>1, <1>8, <1>9, <1>10, <1>12, <1>13, <1>14, StepKeeps DEF TaskOK

\* A read whose count or repair fails serves the board it has.
LEMMA ExcusedKeeps ==
    ASSUME BoardInv, NEW p \in Tasks, Inert,
           Computing(task[p], "repair") \/ task[p].pc = "count",
           task' = [task EXCEPT ![p].pc = "deliver", ![p].due = {}]
    PROVE  BoardInv'
<1>1. PICK t \in Task : t = task[p] /\ TaskOK(t)
  BY InHand
<1>2. PICK q : q = [t EXCEPT !.pc = "deliver", !.due = {}]
  OBVIOUS
<1>3. q \in Task /\ Now(q, t, "deliver", t.then, t.flags, t.board, {}, t.iced)
  BY <1>2, Excused
<1>4. Computing(t, "repair") \/ t.pc = "count"
  BY <1>1
<1>5. BoardOK(q)
  BY <1>1, <1>3, <1>4 DEF TaskOK, BoardOK, Computing, Now
<1>6. IcedOK(q)
  BY <1>1, <1>3, <1>4 DEF TaskOK, IcedOK, Computing, Now
<1>7. Paid(q)
  BY <1>3, <1>5, NothingOwed DEF BoardOK, Now
<1>8. ReadOK(q)
  BY <1>3, <1>7 DEF ReadOK, Computing, Now
<1>9. ~Fresh(t)
  BY <1>4 DEF Fresh, Computing
<1>10. task' = [task EXCEPT ![p] = q]
  BY <1>1, <1>2
<1> QED BY <1>1, <1>3, <1>5, <1>6, <1>8, <1>9, <1>10, StepKeeps DEF TaskOK

\* ListSolves keeps the invariant.
LEMMA ListSolvesKeeps ==
    ASSUME BoardInv, NEW p \in Tasks, ListSolves(p)
    PROVE  BoardInv'
<1>1. Inert
  BY DEF BoardInv, TypeOK, Inert, ListSolves, Fault, NoFault
<1>2. task[p].pc = "solves"
  BY DEF ListSolves
<1>3. CASE task' = [task EXCEPT ![p].pc = task[p].then,
                       ![p].board = [flags |-> task[p].flags, solves |-> Valid]]
  BY <1>1, <1>2, <1>3, ListSolvesReady
<1>4. CASE /\ Fault
           /\ IF task[p].then = "repair"
              THEN task' = [task EXCEPT ![p].pc = "deliver", ![p].due = {}]
              ELSE IF task[p].then = "snapwrite" THEN SnapFails(p) ELSE Finish(p)
  <2>1. CASE task[p].then = "repair"
    BY <1>1, <1>2, <1>4, <2>1, ExcusedKeeps DEF Computing
  <2>2. CASE task[p].then = "snapwrite"
    BY <1>1, <1>2, <1>4, <2>2, SnapFailsKeeps DEF Computing, Snapping
  <2>3. CASE task[p].then \notin {"repair", "snapwrite"}
    <3>1. faults' # 0
      BY <1>4 DEF Fault, BoardInv, TypeOK
    <3> QED BY <1>1, <1>4, <2>3, <3>1, FinishKeeps DEF Clean
  <2> QED BY <2>1, <2>2, <2>3
<1> QED BY <1>3, <1>4 DEF ListSolves

-----------------------------------------------------------------------------
(* recompute() *)

\* A recompute that begins will publish every solve there is now.
LEMMA RecomputeOK ==
    ASSUME TypeOK, NEW f \in BOOLEAN
    PROVE  Recompute(f) \in Task /\ TaskOK(Recompute(f)) /\ Fresh(Recompute(f))
<1>1. PICK q : q = Recompute(f)
  OBVIOUS
<1>2. /\ q.pc = "teams" /\ q.then = "publish" /\ q.board = NoBoard /\ q.due = {}
      /\ q.iced = FALSE /\ q.flags = AllShown
  BY <1>1 DEF Recompute, Idle, AllShown
<1>3. q \in Task
  BY <1>1 DEF Recompute, Idle, Task, Flags
<1>4. BoardOK(q)
  BY <1>2 DEF BoardOK, Computing
<1>5. IcedOK(q)
  BY <1>2 DEF IcedOK
<1>6. ReadOK(q)
  BY <1>2 DEF ReadOK, Computing
<1>7. Fresh(q)
  BY <1>2 DEF Fresh, Computing
<1> QED BY <1>1, <1>3, <1>4, <1>5, <1>6, <1>7 DEF TaskOK

\* Without faults and with everything visible, no board can have more solves
\* than there are valid ones, and one that has as many has them all.
LEMMA Ahead ==
    ASSUME BoardInv, flips = 0, visible = Chals, NEW b \in Board, b.solves \subseteq solved
    PROVE  /\ CountOf(b) <= Cardinality(Valid)
           /\ CountOf(b) >= Cardinality(Valid) => b.solves = Valid
<1>1. Valid = solved /\ Valid \subseteq Teams \X Chals
  BY ValidSolves DEF BoardInv, StoreOK
<1>2. CountOf(b) = Cardinality(b.solves) /\ CountOf(b) \in Nat /\ Cardinality(Valid) \in Nat
  BY <1>1, CountIsNat, SolvesFinite
<1> QED BY <1>1, <1>2, SolvesCounted

\* A task writes the board it has in hand as the live one.
LEMMA WriteKeeps ==
    ASSUME BoardInv, NEW p \in Tasks, NEW q \in Task, TaskOK(q),
           task' = [task EXCEPT ![p] = q],
           task[p].pc \in {"publish", "repair", "miss"},
           UNCHANGED <<db, frz, mu, late, edits, flips>>,
           faults' \in Nat, faults' = 0 => faults = 0,
           cur' = task[p].board, lastCount' \in Nat,
           faults' = 0 => lastCount' = CountOf(task[p].board),
           Clean => Fresh(q) \/ CountOf(task[p].board) >= lastCount
    PROVE  BoardInv'
<1>1. PICK t \in Task : t = task[p] /\ TaskOK(t)
  BY InHand
<1>2. Mono
  BY DEF Mono
<1>3. task' \in [Tasks -> Task] /\ TasksOK'
  BY <1>2, TaskStays, TaskMoves
<1>4. /\ t.board \in Board /\ t.board # NoBoard /\ t.board.solves \subseteq solved
      /\ flips = 0 => t.board.flags = AllShown
  BY <1>1, Fields DEF TaskOK, BoardOK
<1>5. TypeOK'
  BY <1>1, <1>3, <1>4 DEF BoardInv, TypeOK, db
<1>6. StoreOK'
  BY <1>1, <1>4 DEF BoardInv, StoreOK, BoardKept, db, CountOf
<1>7. Valid' = Valid
  BY DEF Valid, db
<1>8. Published'
  <2> SUFFICES ASSUME faults' = 0, flips = 0, visible = Chals, t.board.solves # Valid
               PROVE  \E r \in Tasks : Fresh(task[r])'
    BY <1>1, <1>7 DEF Published, db
  <2>1. task'[p] = q
    BY DEF BoardInv, TypeOK
  <2>2. CASE Fresh(q)
    BY <2>1, <2>2, <1>7 DEF Fresh, Computing
  <2>3. CASE CountOf(t.board) >= lastCount
    <3>1. lastCount = CountOf(cur) /\ cur \in Board
      BY DEF BoardInv, StoreOK, TypeOK
    <3>2. cur.solves # Valid
      <4> SUFFICES ASSUME cur.solves = Valid  PROVE FALSE
        OBVIOUS
      <4>1. CountOf(cur) = Cardinality(Valid)
        BY DEF CountOf
      <4> QED BY <4>1, <3>1, <2>3, <1>4, Ahead
    <3>3. PICK r \in Tasks : Fresh(task[r])
      BY <3>2 DEF BoardInv, Published
    <3>4. r # p
      BY <3>3, <1>1 DEF Fresh, Computing
    <3>5. task'[r] = task[r]
      BY <3>4 DEF BoardInv, TypeOK
    <3> QED BY <3>3, <3>5, <1>7 DEF Fresh, Computing
  <2> QED BY <2>2, <2>3, <1>1 DEF Clean
<1> QED BY <1>3, <1>5, <1>6, <1>8 DEF BoardInv

\* A task that goes on to ask whether the freeze is on.
LEMMA AskOK ==
    ASSUME TypeOK, NEW q, NEW a \in BOOLEAN, NEW D, D \subseteq Valid,
           \/ q = [Idle EXCEPT !.pc = "ice", !.cast = TRUE]
           \/ q = [Idle EXCEPT !.pc = "ice", !.admin = a, !.due = D]
    PROVE  q \in Task /\ TaskOK(q)
<1>1. D \subseteq Teams \X Chals
  BY ValidSolves
<1>2. /\ q.pc = "ice" /\ q.then = "none" /\ q.board = NoBoard /\ q.due \in {D, {}}
      /\ q.iced = FALSE /\ q.flags = AllShown /\ q.tick = FALSE
  BY DEF Idle, AllShown
<1>3. q \in Task
  <2>1. CASE q = [Idle EXCEPT !.pc = "ice", !.cast = TRUE]
    BY <2>1 DEF Idle, Task, Flags
  <2>2. CASE q = [Idle EXCEPT !.pc = "ice", !.admin = a, !.due = D]
    BY <2>2, <1>1 DEF Idle, Task, Flags
  <2> QED BY <2>1, <2>2
<1>4. BoardOK(q)
  BY <1>2 DEF BoardOK, Computing
<1>5. IcedOK(q)
  BY <1>2 DEF IcedOK
<1>6. ReadOK(q)
  BY <1>2 DEF ReadOK, Computing
<1> QED BY <1>3, <1>4, <1>5, <1>6 DEF TaskOK

\* Publish keeps the invariant: a guarded write that is dropped was not needed,
\* and one that is made shows every solve when the board before it did.
LEMMA PublishKeeps ==
    ASSUME BoardInv, NEW p \in Tasks, Publish(p)
    PROVE  BoardInv'
<1>1. PICK t \in Task : t = task[p] /\ TaskOK(t)
  BY InHand
<1>2. t.pc = "publish" /\ t.board \in Board /\ t.board.solves \subseteq solved /\ t.force \in BOOLEAN
  BY <1>1, Fields DEF Publish, TaskOK, BoardOK
<1>3. CASE Outdated(p) /\ Finish(p) /\ NoFault /\ UNCHANGED <<cur, lastCount>>
  <2>1. Inert
    BY <1>3 DEF Inert, Publish, NoFault, BoardInv, TypeOK
  <2>2. ~(Clean /\ Fresh(t))
    <3> SUFFICES ASSUME Clean, t.board.solves = Valid  PROVE FALSE
      BY <1>2 DEF Fresh, Computing
    <3>1. faults = 0 /\ flips = 0 /\ visible = Chals
      BY <1>3 DEF Clean, NoFault
    <3>2. cur \in Board /\ cur.solves \subseteq solved /\ lastCount = CountOf(cur)
      BY <3>1 DEF BoardInv, TypeOK, StoreOK, BoardKept
    <3>3. CountOf(cur) <= CountOf(t.board)
      BY <3>1, <3>2, Ahead DEF CountOf
    <3>4. CountOf(t.board) < lastCount
      BY <1>1, <1>3 DEF Outdated
    <3> QED BY <3>2, <3>3, <3>4, <1>2, CountIsNat
  <2> QED BY <1>1, <1>3, <2>1, <2>2, FinishKeeps
<1>4. CASE Fault /\ Finish(p) /\ UNCHANGED <<cur, lastCount>>
  <2>1. Inert
    BY <1>4 DEF Inert, Publish, Fault, BoardInv, TypeOK
  <2>2. ~Clean
    BY <1>4 DEF Clean, Fault, BoardInv, TypeOK
  <2> QED BY <1>4, <2>1, <2>2, FinishKeeps
<1>5. CASE /\ ~Outdated(p)
           /\ cur' = t.board /\ lastCount' = CountOf(t.board)
           /\ task' = [task EXCEPT ![p] = IF t.force THEN Recompute(FALSE)
                                          ELSE [Idle EXCEPT !.pc = "ice", !.cast = TRUE]]
           /\ NoFault
  <2>1. /\ UNCHANGED <<db, frz, mu, late, edits, flips>>
        /\ faults' \in Nat /\ (faults' = 0 => faults = 0)
        /\ lastCount \in Nat
    BY <1>5 DEF Publish, NoFault, BoardInv, TypeOK
  <2>2. CountOf(t.board) \in Nat
    BY <1>2, CountIsNat
  <2>3. CASE t.force
    <3>1. PICK q : q = Recompute(FALSE)
      OBVIOUS
    <3>2. q \in Task /\ TaskOK(q) /\ Fresh(q)
      BY <3>1, RecomputeOK DEF BoardInv
    <3>3. task' = [task EXCEPT ![p] = q]
      BY <3>1, <2>3, <1>5
    <3> QED BY <1>1, <1>2, <1>5, <2>1, <2>2, <3>2, <3>3, WriteKeeps
  <2>4. CASE ~t.force
    <3>1. PICK q : q = [Idle EXCEPT !.pc = "ice", !.cast = TRUE]
      OBVIOUS
    <3>2. q \in Task /\ TaskOK(q)
      BY <3>1, AskOK DEF BoardInv
    <3>3. task' = [task EXCEPT ![p] = q]
      BY <3>1, <2>4, <1>5
    <3>4. CountOf(t.board) >= lastCount
      BY <1>1, <1>5, <2>1, <2>2, <2>4 DEF Outdated
    <3> QED BY <1>1, <1>2, <1>5, <2>1, <2>2, <3>2, <3>3, <3>4, WriteKeeps
  <2> QED BY <2>3, <2>4
<1> QED BY <1>1, <1>3, <1>4, <1>5 DEF Publish

-----------------------------------------------------------------------------
(* served() *)

\* Read keeps the invariant.
LEMMA ReadKeeps ==
    ASSUME BoardInv, NEW p \in Tasks, NEW a \in BOOLEAN, Read(p, a)
    PROVE  BoardInv'
<1>1. PICK D : D = Valid
  OBVIOUS
<1>2. PICK q : q = [Idle EXCEPT !.pc = "ice", !.admin = a, !.due = D]
  OBVIOUS
<1>3. q \in Task /\ TaskOK(q)
  BY <1>1, <1>2, AskOK DEF BoardInv
<1>4. task' = [task EXCEPT ![p] = q]
  BY <1>1, <1>2 DEF Read
<1>5. Inert /\ ~Fresh(task[p])
  BY DEF Inert, Read, BoardInv, TypeOK, Fresh, Computing
<1> QED BY <1>3, <1>4, <1>5, StepKeeps

\* Ice keeps the invariant.
LEMMA IceKeeps ==
    ASSUME BoardInv, NEW p \in Tasks, Ice(p)
    PROVE  BoardInv'
<1>1. PICK t \in Task : t = task[p] /\ TaskOK(t)
  BY InHand
<1>2. PICK on \in BOOLEAN :
        /\ IF on = (freeze = "on") THEN NoFault ELSE ~on /\ Fault
        /\ task' = [task EXCEPT ![p].frozen = on, ![p].iced = on,
                        ![p].pc = IF on /\ ~task[p].admin THEN "frz" ELSE "cur"]
  BY DEF Ice
<1>3. Inert
  BY <1>2 DEF Inert, Ice, Fault, NoFault, BoardInv, TypeOK
<1>4. PICK l : l = IF on /\ ~t.admin THEN "frz" ELSE "cur"
  OBVIOUS
<1>5. PICK q : q = [t EXCEPT !.frozen = on, !.iced = on, !.pc = l]
  OBVIOUS
<1>6. /\ q.pc = l /\ q.frozen = on /\ q.iced = on /\ q.then = t.then /\ q.flags = t.flags
      /\ q.board = t.board /\ q.due = t.due /\ q.cast = t.cast /\ q.admin = t.admin
      /\ q.tick = t.tick
  BY <1>5 DEF Task
<1>7. q \in Task
  BY <1>4, <1>5, ZenonT(60) DEF Task
<1>8. t.pc = "ice"
  BY <1>1 DEF Ice
<1>9. BoardOK(q)
  BY <1>1, <1>4, <1>6 DEF TaskOK, BoardOK, Computing
<1>10. on => freeze = "on"
  BY <1>2
<1>11. IcedOK(q)
  BY <1>1, <1>4, <1>6, <1>8, <1>10 DEF TaskOK, IcedOK, Computing
<1>12. ReadOK(q)
  BY <1>1, <1>4, <1>6 DEF TaskOK, ReadOK, Computing
<1>13. task' = [task EXCEPT ![p] = q]
  BY <1>1, <1>2, <1>4, <1>5
<1>14. ~Fresh(t)
  BY <1>8 DEF Fresh, Computing
<1> QED BY <1>1, <1>3, <1>7, <1>9, <1>11, <1>12, <1>13, <1>14, StepKeeps DEF TaskOK

\* ReadFrozen keeps the invariant: a public read that sees the freeze gets the
\* frozen board or nothing.
LEMMA ReadFrozenKeeps ==
    ASSUME BoardInv, NEW p \in Tasks, ReadFrozen(p)
    PROVE  BoardInv'
<1>1. PICK t \in Task : t = task[p] /\ TaskOK(t)
  BY InHand
<1>2. t.pc \in {"frz", "refrz"}
  BY <1>1 DEF ReadFrozen
<1>3. Inert
  BY DEF Inert, ReadFrozen, Fault, NoFault, BoardInv, TypeOK
<1>4. ~Fresh(t)
  BY <1>2 DEF Fresh, Computing
<1>5. CASE Finish(p)
  BY <1>1, <1>3, <1>4, <1>5, FinishKeeps
<1>6. CASE frz # NoBoard /\ Have(p, frz)
  <2>1. PICK q : q = [t EXCEPT !.pc = "deliver", !.board = frz]
    OBVIOUS
  <2>2. "deliver" \in PCs
    BY DEF PCs
  <2>3. frz \in Board
    BY <1>6 DEF BoardInv, TypeOK
  <2>4. q \in Task /\ Now(q, t, "deliver", t.then, t.flags, frz, t.due, t.iced)
    BY <2>1, <2>2, <2>3, Holding
  <2>5. BoardOK(q)
    BY <1>1, <1>6, <2>4 DEF TaskOK, BoardOK, Computing, Now, BoardInv, StoreOK, BoardKept
  <2>6. IcedOK(q)
    BY <1>1, <1>6, <2>4 DEF TaskOK, IcedOK, Computing, Now
  <2>7. ReadOK(q)
    BY <1>1, <1>2, <2>4 DEF TaskOK, ReadOK, Computing, Now
  <2>8. task' = [task EXCEPT ![p] = q]
    BY <1>1, <1>6, <2>1 DEF Have
  <2> QED BY <1>1, <1>3, <1>4, <2>4, <2>5, <2>6, <2>7, <2>8, StepKeeps DEF TaskOK
<1>7. CASE frz = NoBoard /\ Go(p, IF task[p].pc = "frz" THEN "snap" ELSE "cur")
  <2>1. PICK l : l = IF t.pc = "frz" THEN "snap" ELSE "cur"
    OBVIOUS
  <2>2. PICK q : q = [t EXCEPT !.pc = l]
    OBVIOUS
  <2>3. l \in PCs
    BY <2>1 DEF PCs
  <2>4. q \in Task /\ Now(q, t, l, t.then, t.flags, t.board, t.due, t.iced)
    BY <2>2, <2>3, Going
  <2>5. BoardOK(q)
    BY <1>1, <2>1, <2>4 DEF TaskOK, BoardOK, Computing, Now
  <2>6. IcedOK(q)
    BY <1>1, <1>2, <1>7, <2>1, <2>4 DEF TaskOK, IcedOK, Computing, Now
  <2>7. ReadOK(q)
    BY <1>1, <1>2, <2>1, <2>4 DEF TaskOK, ReadOK, Computing, Now
  <2>8. task' = [task EXCEPT ![p] = q]
    BY <1>1, <1>7, <2>1, <2>2 DEF Go
  <2> QED BY <1>1, <1>3, <1>4, <2>4, <2>5, <2>6, <2>7, <2>8, StepKeeps DEF TaskOK
<1> QED BY <1>5, <1>6, <1>7 DEF ReadFrozen

\* A read calls compute(): for a miss only when something went wrong before.
LEMMA ComputeKeeps ==
    ASSUME BoardInv, NEW p \in Tasks, Inert, NEW n \in {"repair", "miss", "deliver"},
           Compute(p, n), task[p].pc \in {"cur", "count"},
           n = "repair" => task[p].pc = "count",
           n = "miss" => faults # 0
    PROVE  BoardInv'
<1>1. PICK t \in Task : t = task[p] /\ TaskOK(t)
  BY InHand
<1>2. PICK q : q = [t EXCEPT !.pc = "teams", !.then = n]
  OBVIOUS
<1>3. n \in Thens
  BY DEF Thens
<1>4. q \in Task /\ Now(q, t, "teams", n, t.flags, t.board, t.due, t.iced)
  BY <1>2, <1>3, Calling
<1>5. BoardOK(q)
  BY <1>1, <1>4 DEF TaskOK, BoardOK, Computing, Now
<1>6. IcedOK(q)
  BY <1>1, <1>4 DEF TaskOK, IcedOK, Computing, Now
<1>7. ReadOK(q)
  BY <1>1, <1>4 DEF TaskOK, ReadOK, Computing, Now
<1>8. task' = [task EXCEPT ![p] = q]
  BY <1>1, <1>2 DEF Compute
<1>9. ~Fresh(t)
  BY <1>1 DEF Fresh, Computing
<1> QED BY <1>1, <1>4, <1>5, <1>6, <1>7, <1>8, <1>9, StepKeeps DEF TaskOK

\* ReadCurrent keeps the invariant.
LEMMA ReadCurrentKeeps ==
    ASSUME BoardInv, NEW p \in Tasks, ReadCurrent(p)
    PROVE  BoardInv'
<1>1. PICK t \in Task : t = task[p] /\ TaskOK(t)
  BY InHand
<1>2. t.pc = "cur"
  BY <1>1 DEF ReadCurrent
<1>3. Inert
  BY DEF Inert, ReadCurrent, Fault, NoFault, BoardInv, TypeOK
<1>4. ~Fresh(t)
  BY <1>2 DEF Fresh, Computing
<1>5. CASE Finish(p)
  BY <1>1, <1>3, <1>4, <1>5, FinishKeeps
<1>6. CASE Compute(p, "deliver")
  BY <1>1, <1>2, <1>3, <1>6, ComputeKeeps
<1>7. CASE cur = NoBoard /\ Compute(p, "miss")
  <2>1. faults # 0
    BY <1>7 DEF BoardInv, StoreOK
  <2> QED BY <2>1, <1>1, <1>2, <1>3, <1>7, ComputeKeeps
<1>8. CASE /\ cur # NoBoard
           /\ task' = [task EXCEPT ![p].board = cur,
                           ![p].pc = IF t.cast THEN "deliver" ELSE "count"]
  <2>1. PICK l : l = IF t.cast THEN "deliver" ELSE "count"
    OBVIOUS
  <2>2. PICK q : q = [t EXCEPT !.pc = l, !.board = cur]
    OBVIOUS
  <2>3. l \in PCs /\ cur \in Board
    BY <1>8, <2>1 DEF PCs, BoardInv, TypeOK
  <2>4. q \in Task /\ Now(q, t, l, t.then, t.flags, cur, t.due, t.iced)
    BY <2>2, <2>3, Holding
  <2>5. BoardOK(q)
    BY <1>1, <1>8, <2>1, <2>4 DEF TaskOK, BoardOK, Computing, Now, BoardInv, StoreOK, BoardKept
  <2>6. IcedOK(q)
    BY <1>1, <1>2, <2>1, <2>4 DEF TaskOK, IcedOK, Computing, Now
  <2>7. ReadOK(q)
    BY <1>1, <1>2, <2>1, <2>4 DEF TaskOK, ReadOK, Computing, Now
  <2>8. task' = [task EXCEPT ![p] = q]
    BY <1>1, <1>8, <2>1, <2>2
  <2> QED BY <1>1, <1>3, <1>4, <2>4, <2>5, <2>6, <2>7, <2>8, StepKeeps DEF TaskOK
<1> QED BY <1>1, <1>5, <1>6, <1>7, <1>8 DEF ReadCurrent

\* A board that is not behind the log shows what a read owes, and without
\* organisers' changes it is the log.
LEMMA NotBehindPays ==
    ASSUME BoardInv, NEW q \in Task, q.board \in Board, q.board.solves \subseteq solved,
           q.due \subseteq Valid, ~BehindLog(q.board)
    PROVE  Paid(q)
<1>1. Valid \subseteq Teams \X Chals
  BY ValidSolves DEF BoardInv
<1>2. Cardinality(q.due) <= Cardinality(Valid)
  BY <1>1, SolvesCounted
<1>3. /\ Cardinality(q.due) \in Nat /\ Cardinality(Valid) \in Nat
      /\ CountOf(q.board) \in Nat
  BY <1>1, SolvesFinite, CountIsNat
<1>4. Cardinality(Valid) <= CountOf(q.board)
  BY <1>3 DEF BehindLog
<1>5. edits + flips = 0 => q.board.solves = Valid
  <2> SUFFICES ASSUME edits + flips = 0  PROVE q.board.solves = Valid
    OBVIOUS
  <2>1. flips = 0 /\ edits = 0
    BY DEF BoardInv, TypeOK
  <2>2. visible = Chals
    BY <2>1 DEF BoardInv, StoreOK
  <2> QED BY <2>1, <2>2, <1>4, Ahead
<1> QED BY <1>2, <1>3, <1>4, <1>5 DEF Paid

\* CountLive keeps the invariant.
LEMMA CountLiveKeeps ==
    ASSUME BoardInv, NEW p \in Tasks, CountLive(p)
    PROVE  BoardInv'
<1>1. PICK t \in Task : t = task[p] /\ TaskOK(t)
  BY InHand
<1>2. t.pc = "count"
  BY <1>1 DEF CountLive
<1>3. Inert
  BY DEF Inert, CountLive, Fault, NoFault, BoardInv, TypeOK
<1>4. CASE task' = [task EXCEPT ![p].pc = "deliver", ![p].due = {}]
  BY <1>1, <1>2, <1>3, <1>4, ExcusedKeeps
<1>5. CASE Compute(p, "repair")
  BY <1>1, <1>2, <1>3, <1>5, ComputeKeeps
<1>6. CASE ~BehindLog(t.board) /\ Go(p, "deliver")
  <2>1. PICK q : q = [t EXCEPT !.pc = "deliver"]
    OBVIOUS
  <2>2. "deliver" \in PCs
    BY DEF PCs
  <2>3. q \in Task /\ Now(q, t, "deliver", t.then, t.flags, t.board, t.due, t.iced)
    BY <2>1, <2>2, Going
  <2>4. BoardOK(q)
    BY <1>1, <1>2, <2>3 DEF TaskOK, BoardOK, Computing, Now
  <2>5. IcedOK(q)
    BY <1>1, <1>2, <2>3 DEF TaskOK, IcedOK, Computing, Now
  <2>6. q.board = t.board /\ q.board \in Board /\ q.board.solves \subseteq solved
    BY <2>3, <2>4, Fields DEF BoardOK, Now
  <2>7. q.due \subseteq Valid
    BY <1>1, <2>3 DEF TaskOK, ReadOK, Now
  <2>8. Paid(q)
    BY <1>6, <2>3, <2>6, <2>7, NotBehindPays DEF BehindLog
  <2>9. ReadOK(q)
    BY <1>1, <1>2, <2>3, <2>8 DEF TaskOK, ReadOK, Computing, Now
  <2>10. ~Fresh(t)
    BY <1>2 DEF Fresh, Computing
  <2>11. task' = [task EXCEPT ![p] = q]
    BY <1>1, <1>6, <2>1 DEF Go
  <2> QED BY <1>1, <1>3, <2>3, <2>4, <2>5, <2>9, <2>10, <2>11, StepKeeps DEF TaskOK
<1> QED BY <1>1, <1>4, <1>5, <1>6 DEF CountLive

\* A task that has written its board, or could not, delivers it.
LEMMA DeliveringOK ==
    ASSUME NEW t \in Task, TaskOK(t), t.pc \in {"repair", "miss"},
           NEW q, q = [t EXCEPT !.pc = "deliver"]
    PROVE  q \in Task /\ TaskOK(q)
<1>1. "deliver" \in PCs
  BY DEF PCs
<1>2. q \in Task /\ Now(q, t, "deliver", t.then, t.flags, t.board, t.due, t.iced)
  BY <1>1, Going
<1>3. BoardOK(q)
  BY <1>2 DEF TaskOK, BoardOK, Computing, Now
<1>4. IcedOK(q)
  BY <1>2 DEF TaskOK, IcedOK, Computing, Now
<1>5. ReadOK(q)
  BY <1>2 DEF TaskOK, ReadOK, Paid, Computing, Now
<1> QED BY <1>2, <1>3, <1>4, <1>5 DEF TaskOK

\* WriteRepaired keeps the invariant.
LEMMA WriteRepairedKeeps ==
    ASSUME BoardInv, NEW p \in Tasks, WriteRepaired(p)
    PROVE  BoardInv'
<1>1. PICK t \in Task : t = task[p] /\ TaskOK(t)
  BY InHand
<1>2. t.pc = "repair"
  BY <1>1 DEF WriteRepaired
<1>3. PICK q : q = [t EXCEPT !.pc = "deliver"]
  OBVIOUS
<1>4. q \in Task /\ TaskOK(q)
  BY <1>1, <1>2, <1>3, DeliveringOK
<1>5. task' = [task EXCEPT ![p] = q]
  BY <1>1, <1>3 DEF WriteRepaired, Go
<1>6. CASE CountOf(t.board) >= lastCount /\ cur' = t.board /\ lastCount' = CountOf(t.board) /\ NoFault
  <2>1. /\ UNCHANGED <<db, frz, mu, late, edits, flips>>
        /\ faults' \in Nat /\ (faults' = 0 => faults = 0)
    BY <1>6 DEF WriteRepaired, NoFault, BoardInv, TypeOK
  <2>2. t.board \in Board
    BY <1>1, <1>2, Fields DEF TaskOK, BoardOK
  <2>3. CountOf(t.board) \in Nat
    BY <2>2, CountIsNat
  <2> QED BY <1>1, <1>2, <1>4, <1>5, <1>6, <2>1, <2>3, WriteKeeps
<1>7. CASE UNCHANGED <<cur, lastCount>>
  <2>1. Inert
    BY <1>7 DEF Inert, WriteRepaired, Fault, NoFault, BoardInv, TypeOK
  <2>2. ~Fresh(t)
    BY <1>2 DEF Fresh, Computing
  <2> QED BY <1>1, <1>4, <1>5, <2>1, <2>2, StepKeeps
<1> QED BY <1>1, <1>6, <1>7 DEF WriteRepaired

\* WriteMissed keeps the invariant.
LEMMA WriteMissedKeeps ==
    ASSUME BoardInv, NEW p \in Tasks, WriteMissed(p)
    PROVE  BoardInv'
<1>1. PICK t \in Task : t = task[p] /\ TaskOK(t)
  BY InHand
<1>2. t.pc = "miss"
  BY <1>1 DEF WriteMissed
<1>3. faults # 0
  BY <1>1, <1>2 DEF TaskOK, BoardOK
<1>4. CASE cur' = t.board /\ Go(p, "deliver") /\ NoFault
  <2>1. PICK q : q = [t EXCEPT !.pc = "deliver"]
    OBVIOUS
  <2>2. q \in Task /\ TaskOK(q)
    BY <1>1, <1>2, <2>1, DeliveringOK
  <2>3. task' = [task EXCEPT ![p] = q]
    BY <1>1, <1>4, <2>1 DEF Go
  <2>4. /\ UNCHANGED <<db, frz, mu, late, edits, flips>>
        /\ faults' \in Nat /\ faults' # 0 /\ ~Clean /\ lastCount' \in Nat
    BY <1>3, <1>4 DEF WriteMissed, NoFault, BoardInv, TypeOK, Clean
  <2> QED BY <1>1, <1>2, <1>4, <2>2, <2>3, <2>4, WriteKeeps
<1>5. CASE UNCHANGED cur /\ Finish(p) /\ Fault
  <2>1. Inert /\ ~Clean
    BY <1>5 DEF Inert, Clean, WriteMissed, Fault, BoardInv, TypeOK
  <2> QED BY <1>5, <2>1, FinishKeeps
<1> QED BY <1>1, <1>4, <1>5 DEF WriteMissed

\* Deliver keeps the invariant.
LEMMA DeliverKeeps ==
    ASSUME BoardInv, NEW p \in Tasks, Deliver(p)
    PROVE  BoardInv'
<1>1. Inert /\ ~Fresh(task[p])
  BY DEF Inert, Deliver, Fresh, Computing, BoardInv, TypeOK
<1> QED BY <1>1, FinishKeeps DEF Deliver

-----------------------------------------------------------------------------
(* MaybeSnapshotFreeze, and the ticker *)

\* A task inside MaybeSnapshotFreeze that goes on in it: to the lock, or with
\* the lock to compute().
LEMMA SnapGoesOn ==
    ASSUME BoardInv, NEW p \in Tasks, Inert,
           \/ task[p].pc = "snap" /\ Go(p, "snaplock")
           \/ task[p].pc = "snaplock" /\ Compute(p, "snapwrite")
    PROVE  BoardInv'
<1>1. PICK t \in Task : t = task[p] /\ TaskOK(t)
  BY InHand
<1>2. t.pc \in {"snap", "snaplock"} /\ ~Fresh(t)
  BY <1>1 DEF Fresh, Computing
<1>3. CASE Go(p, "snaplock")
  <2>1. PICK q : q = [t EXCEPT !.pc = "snaplock"]
    OBVIOUS
  <2>2. "snaplock" \in PCs
    BY DEF PCs
  <2>3. q \in Task /\ Now(q, t, "snaplock", t.then, t.flags, t.board, t.due, t.iced)
    BY <2>1, <2>2, Going
  <2>4. BoardOK(q)
    BY <1>1, <1>2, <2>3 DEF TaskOK, BoardOK, Computing, Now
  <2>5. IcedOK(q)
    BY <1>1, <1>2, <2>3 DEF TaskOK, IcedOK, Computing, Now
  <2>6. ReadOK(q)
    BY <1>1, <1>2, <2>3 DEF TaskOK, ReadOK, Computing, Now
  <2>7. task' = [task EXCEPT ![p] = q]
    BY <1>1, <1>3, <2>1 DEF Go
  <2> QED BY <1>1, <1>2, <2>3, <2>4, <2>5, <2>6, <2>7, StepKeeps DEF TaskOK
<1>4. CASE Compute(p, "snapwrite")
  <2>1. PICK q : q = [t EXCEPT !.pc = "teams", !.then = "snapwrite"]
    OBVIOUS
  <2>2. "snapwrite" \in Thens
    BY DEF Thens
  <2>3. q \in Task /\ Now(q, t, "teams", "snapwrite", t.flags, t.board, t.due, t.iced)
    BY <2>1, <2>2, Calling
  <2>4. BoardOK(q)
    BY <1>1, <1>2, <2>3 DEF TaskOK, BoardOK, Computing, Now
  <2>5. IcedOK(q)
    BY <1>1, <1>2, <2>3 DEF TaskOK, IcedOK, Computing, Now
  <2>6. ReadOK(q)
    BY <1>1, <1>2, <2>3 DEF TaskOK, ReadOK, Computing, Now
  <2>7. task' = [task EXCEPT ![p] = q]
    BY <1>1, <1>4, <2>1 DEF Compute
  <2> QED BY <1>1, <1>2, <2>3, <2>4, <2>5, <2>6, <2>7, StepKeeps DEF TaskOK
<1> QED BY <1>3, <1>4

\* Snap keeps the invariant.
LEMMA SnapKeeps ==
    ASSUME BoardInv, NEW p \in Tasks, Snap(p)
    PROVE  BoardInv'
<1>1. PICK t \in Task : t = task[p] /\ TaskOK(t)
  BY InHand
<1>2. t.pc = "snap" /\ Snapping(t) /\ ~Fresh(t)
  BY <1>1 DEF Snap, Snapping, Fresh, Computing
<1>3. Inert
  BY DEF Inert, Snap, Fault, NoFault, BoardInv, TypeOK
<1>4. CASE SnapFails(p)
  BY <1>1, <1>2, <1>3, <1>4, SnapFailsKeeps
<1>5. CASE Go(p, "snaplock")
  BY <1>1, <1>2, <1>3, <1>5, SnapGoesOn
<1>6. CASE ~(freeze = "on" /\ frz = NoBoard) /\ SnapDone(p)
  <2>1. t.iced => frz # NoBoard
    BY <1>1, <1>6 DEF TaskOK, IcedOK
  <2> QED BY <1>1, <1>2, <1>3, <1>6, <2>1, SnapDoneKeeps
<1>7. CASE task' = [task EXCEPT ![p].pc = IF t.tick THEN "behind" ELSE "refrz",
                                ![p].iced = FALSE]
  <2>1. PICK l : l = IF t.tick THEN "behind" ELSE "refrz"
    OBVIOUS
  <2>2. PICK q : q = [t EXCEPT !.pc = l, !.iced = FALSE]
    OBVIOUS
  <2>3. l \in PCs
    BY <2>1 DEF PCs
  <2>4. q \in Task /\ Now(q, t, l, t.then, t.flags, t.board, t.due, FALSE)
    BY <2>2, <2>3, Melting
  <2>5. BoardOK(q)
    BY <1>1, <2>1, <2>4 DEF TaskOK, BoardOK, Computing, Now
  <2>6. IcedOK(q)
    BY <1>1, <2>1, <2>4 DEF TaskOK, IcedOK, Computing, Now
  <2>7. ReadOK(q)
    BY <1>1, <1>2, <2>1, <2>4 DEF TaskOK, ReadOK, Computing, Now
  <2>8. task' = [task EXCEPT ![p] = q]
    BY <1>1, <1>7, <2>1, <2>2
  <2> QED BY <1>1, <1>2, <1>3, <2>4, <2>5, <2>6, <2>7, <2>8, StepKeeps DEF TaskOK
<1> QED BY <1>1, <1>4, <1>5, <1>6, <1>7 DEF Snap

\* SnapLock keeps the invariant.
LEMMA SnapLockKeeps ==
    ASSUME BoardInv, NEW p \in Tasks, SnapLock(p)
    PROVE  BoardInv'
<1>1. task[p].pc = "snaplock" /\ Snapping(task[p])
  BY DEF SnapLock, Snapping
<1>2. Inert
  BY DEF Inert, SnapLock, Fault, NoFault, BoardInv, TypeOK
<1>3. CASE Compute(p, "snapwrite")
  BY <1>1, <1>2, <1>3, SnapGoesOn
<1>4. CASE frz # NoBoard /\ SnapDone(p)
  BY <1>1, <1>2, <1>4, SnapDoneKeeps
<1>5. CASE SnapFails(p)
  BY <1>1, <1>2, <1>5, SnapFailsKeeps
<1> QED BY <1>3, <1>4, <1>5 DEF SnapLock

\* SnapWrite keeps the invariant: a frozen board that is written shows no solve
\* that is late for it, and one that is there stays.
LEMMA SnapWriteKeeps ==
    ASSUME BoardInv, NEW p \in Tasks, SnapWrite(p)
    PROVE  BoardInv'
<1>1. PICK t \in Task : t = task[p] /\ TaskOK(t)
  BY InHand
<1>2. t.pc = "snapwrite" /\ Snapping(t) /\ ~Fresh(t)
  BY <1>1 DEF SnapWrite, Snapping, Fresh, Computing
<1>3. CASE SnapFails(p) /\ Fault /\ UNCHANGED <<frz, late>>
  <2>1. Inert
    BY <1>3 DEF Inert, SnapWrite, Fault, BoardInv, TypeOK
  <2> QED BY <1>1, <1>2, <1>3, <2>1, SnapFailsKeeps
<1>4. CASE /\ NoFault /\ SnapDone(p)
           /\ frz' = IF frz = NoBoard THEN t.board ELSE frz
           /\ late' = IF frz = NoBoard THEN solved \ t.board.solves ELSE late
  <2>1. PICK l : l = IF t.tick THEN "behind" ELSE "refrz"
    OBVIOUS
  <2>2. PICK q : q = [t EXCEPT !.pc = l]
    OBVIOUS
  <2>3. l \in PCs
    BY <2>1 DEF PCs
  <2>4. q \in Task /\ Now(q, t, l, t.then, t.flags, t.board, t.due, t.iced)
    BY <2>2, <2>3, Going
  <2>5. task' = [task EXCEPT ![p] = q]
    BY <1>1, <1>4, <2>1, <2>2 DEF SnapDone, Go
  <2>6. /\ t.board # NoBoard /\ t.board \in Board /\ t.board.solves \subseteq solved
        /\ flips = 0 => t.board.flags = AllShown
    BY <1>1, <1>2, Fields DEF TaskOK, BoardOK
  <2>7. frz' # NoBoard
    BY <1>4, <2>6
  <2>8. Valid' = Valid
    BY DEF SnapWrite, Valid, db
  <2>9. UNCHANGED <<db, cur, lastCount, edits, flips, faults>>
    BY <1>4 DEF SnapWrite, NoFault
  <2>10. BoardOK(q)'
    BY <1>1, <2>1, <2>4, <2>9 DEF TaskOK, BoardOK, Computing, Now, db
  <2>11. IcedOK(q)'
    BY <1>1, <2>1, <2>4, <2>7, <2>9 DEF TaskOK, IcedOK, Computing, Now, db
  <2>12. ReadOK(q)'
    BY <1>1, <1>2, <2>1, <2>4, <2>8 DEF TaskOK, ReadOK, Computing, Now
  <2>13. Mono
    BY <1>4, <2>9 DEF Mono, BoardInv, TypeOK
  <2>14. task' \in [Tasks -> Task] /\ TasksOK'
    BY <2>4, <2>5, <2>10, <2>11, <2>12, <2>13, TaskMoves DEF TaskOK
  <2>15. TypeOK'
    BY <1>4, <2>6, <2>9, <2>14 DEF SnapWrite, BoardInv, TypeOK, db
  <2>16. StoreOK'
    BY <1>4, <2>6, <2>7, <2>9 DEF BoardInv, StoreOK, BoardKept, db, CountOf
  <2>17. Published'
    BY <1>1, <1>2, <2>5, <2>9, PublishedStays
  <2> QED BY <2>14, <2>15, <2>16, <2>17 DEF BoardInv
<1> QED BY <1>1, <1>3, <1>4 DEF SnapWrite

\* Tick keeps the invariant.
LEMMA TickKeeps ==
    ASSUME BoardInv, NEW p \in Tasks, Tick(p)
    PROVE  BoardInv'
<1>1. PICK q : q = [Idle EXCEPT !.pc = "snap", !.tick = TRUE]
  OBVIOUS
<1>2. /\ q.pc = "snap" /\ q.tick = TRUE /\ q.board = NoBoard /\ q.due = {}
      /\ q.iced = FALSE /\ q.flags = AllShown
  BY <1>1 DEF Idle, AllShown
<1>3. q \in Task
  BY <1>1 DEF Idle, Task, Flags
<1>4. BoardOK(q)
  BY <1>2 DEF BoardOK, Computing
<1>5. IcedOK(q)
  BY <1>2 DEF IcedOK
<1>6. ReadOK(q)
  BY <1>2 DEF ReadOK, Computing
<1>7. Inert /\ ~Fresh(task[p])
  BY DEF Inert, Tick, Fresh, Computing, BoardInv, TypeOK
<1>8. task' = [task EXCEPT ![p] = q]
  BY <1>1 DEF Tick
<1> QED BY <1>3, <1>4, <1>5, <1>6, <1>7, <1>8, StepKeeps DEF TaskOK

\* A recompute begins, inside the service.
LEMMA RecomputeKeeps ==
    ASSUME BoardInv, NEW p \in Tasks, NEW f \in BOOLEAN, Inert,
           task' = [task EXCEPT ![p] = Recompute(f)]
    PROVE  BoardInv'
<1>1. PICK q : q = Recompute(f)
  OBVIOUS
<1> QED BY <1>1, RecomputeOK, StepKeeps DEF BoardInv

\* A fault is counted, and no other step forgets one.
LEMMA FaultCounted ==
    ASSUME TypeOK, Fault \/ NoFault
    PROVE  /\ faults' \in Nat /\ (faults' = 0 => faults = 0)
           /\ Fault => faults' # 0
  BY DEF TypeOK, Fault, NoFault

\* ReconcileIfBehind keeps the invariant.
LEMMA ReconcileKeeps ==
    ASSUME BoardInv, NEW p \in Tasks, ReconcileIfBehind(p)
    PROVE  BoardInv'
<1>0. Fault \/ NoFault
  BY DEF ReconcileIfBehind
<1>1. faults' \in Nat /\ (faults' = 0 => faults = 0)
  BY <1>0, FaultCounted DEF BoardInv
<1>2. Inert
  BY <1>1 DEF Inert, ReconcileIfBehind, BoardInv, TypeOK
<1>3. ~Fresh(task[p])
  BY DEF ReconcileIfBehind, Fresh, Computing
<1> QED BY <1>2, <1>3, RecomputeKeeps, FinishKeeps DEF ReconcileIfBehind

-----------------------------------------------------------------------------
(* The rest of the platform *)

\* The tasks are in order when each is.
LEMMA AllOK ==
    ASSUME task' \in [Tasks -> Task],
           \A r \in Tasks, t \in Task : task'[r] = t => TaskOK(t)'
    PROVE  TasksOK'
  BY DEF TasksOK

\* A solve more: what the tasks had in order stays so.
LEMMA SolveStays ==
    ASSUME NEW t \in Task, TaskOK(t), TypeOK, solved \subseteq solved',
           UNCHANGED <<visible, flag, freeze, frz, edits, flips>>,
           faults' \in Nat, faults' = 0 => faults = 0
    PROVE  TaskOK(t)'
<1>1. Valid \subseteq Valid'
  BY DEF Valid
<1>2. BoardOK(t)'
  BY DEF TaskOK, BoardOK
<1>3. IcedOK(t)'
  BY DEF TaskOK, IcedOK
<1>4. ReadOK(t)'
  BY <1>1 DEF TaskOK, ReadOK, Paid
<1> QED BY <1>2, <1>3, <1>4 DEF TaskOK

\* Solve keeps the invariant: without a fault its own recompute will publish it.
LEMMA SolveKeeps ==
    ASSUME BoardInv, NEW p \in Tasks, NEW m \in Teams, NEW c \in Chals, Solve(p, m, c)
    PROVE  BoardInv'
<1>1. /\ solved' = solved \cup {<<m, c>>}
      /\ UNCHANGED <<visible, flag, freeze, cur, frz, lastCount, mu, edits, flips>>
      /\ late' = IF frz # NoBoard THEN late \cup {<<m, c>>} ELSE late
      /\ <<m, c>> \notin solved
  BY DEF Solve
<1>0. Fault \/ NoFault
  BY DEF Solve
<1>2. faults' \in Nat /\ (faults' = 0 => faults = 0)
  BY <1>0, FaultCounted DEF BoardInv
<1>3. task \in [Tasks -> Task]
  BY DEF BoardInv, TypeOK
<1>4. /\ \A t \in Task : TaskOK(t) => TaskOK(t)'
  BY <1>1, <1>2, SolveStays DEF BoardInv
<1>5. Recompute(FALSE) \in Task /\ TaskOK(Recompute(FALSE)) /\ Fresh(Recompute(FALSE))
  BY RecomputeOK DEF BoardInv
<1>6. task' \in [Tasks -> Task]
  BY <1>3, <1>5 DEF Solve
<1>7. TasksOK'
  <2> SUFFICES ASSUME NEW r \in Tasks, NEW t \in Task, task'[r] = t  PROVE TaskOK(t)'
    BY <1>6, AllOK
  <2>1. CASE task[r] = t
    BY <2>1, <1>4 DEF BoardInv, TasksOK
  <2>2. CASE task[r] # t
    <3>1. t = Recompute(FALSE)
      BY <2>2, <1>3 DEF Solve
    <3> QED BY <3>1, <1>4, <1>5
  <2> QED BY <2>1, <2>2
<1>8. TypeOK'
  BY <1>1, <1>2, <1>6 DEF BoardInv, TypeOK
<1>9. StoreOK'
  <2>1. BoardKept(cur)' /\ BoardKept(frz)'
    BY <1>1 DEF BoardInv, StoreOK, BoardKept
  <2>2. /\ frz' = NoBoard => late' = {}
        /\ frz' # NoBoard => frz'.solves \cap late' = {}
    BY <1>1 DEF BoardInv, StoreOK, BoardKept
  <2> QED BY <1>1, <1>2, <2>1, <2>2 DEF BoardInv, StoreOK, CountOf
<1>10. Published'
  <2>1. CASE task' = [task EXCEPT ![p] = Recompute(FALSE)]
    <3>1. task'[p] = Recompute(FALSE)
      BY <2>1, <1>3
    <3>2. Computing(Recompute(FALSE), "publish")
      BY DEF Computing, Recompute, Idle
    <3> QED BY <3>1, <3>2 DEF Published, Fresh, Computing
  <2>2. CASE Fault
    BY <2>2 DEF Fault, Published, BoardInv, TypeOK
  <2> QED BY <2>1, <2>2 DEF Solve
<1> QED BY <1>7, <1>8, <1>9, <1>10 DEF BoardInv

\* The fields of a task of which only the debt, or only the freeze, changes.
LEMMA DebtFields ==
    ASSUME NEW t \in Task, NEW D, D \subseteq Teams \X Chals, NEW q,
           q = [t EXCEPT !.due = D]
    PROVE  q \in Task /\ Now(q, t, t.pc, t.then, t.flags, t.board, D, t.iced)
<1>1. Shape(t) /\ t.pc \in PCs
  BY Fields DEF Shape, Thens, PCs
<1>2. q = Moved(t, t.pc, t.then, t.flags, t.board, D, t.iced)
  BY DEF Moved, Task
<1> QED BY <1>1, <1>2, MovedFields DEF Shape

\* As DebtFields, of the freeze.
LEMMA ThawFields ==
    ASSUME NEW t \in Task, NEW q, q = [t EXCEPT !.iced = FALSE]
    PROVE  q \in Task /\ Now(q, t, t.pc, t.then, t.flags, t.board, t.due, FALSE)
<1>1. Shape(t) /\ t.pc \in PCs
  BY Fields DEF Shape, Thens, PCs
<1>2. q = Moved(t, t.pc, t.then, t.flags, t.board, t.due, FALSE)
  BY DEF Moved, Task
<1> QED BY <1>1, <1>2, MovedFields DEF Shape

\* An organiser's change of what is visible: the reads owe what stays valid.
LEMMA OwedStays ==
    ASSUME NEW t \in Task, TaskOK(t), TypeOK, NEW q,
           q = [t EXCEPT !.due = {s \in t.due : s[2] \in visible' /\ flag'[s[1]] # "hidden"}],
           UNCHANGED <<solved, freeze, frz>>, edits' + flips' # 0,
           flips' = 0 => flips = 0,
           faults' \in Nat, faults' = 0 => faults = 0
    PROVE  q \in Task /\ TaskOK(q)'
<1>1. PICK D : D = {s \in t.due : s[2] \in visible' /\ flag'[s[1]] # "hidden"}
  OBVIOUS
<1>2. D \subseteq t.due /\ t.due \subseteq Valid /\ t.due \subseteq Teams \X Chals
  BY <1>1, Fields DEF TaskOK, ReadOK
<1>3. q \in Task /\ Now(q, t, t.pc, t.then, t.flags, t.board, D, t.iced)
  <2>1. D \subseteq Teams \X Chals /\ q = [t EXCEPT !.due = D]
    BY <1>1, <1>2
  <2> QED BY <2>1, DebtFields
<1>4. D \subseteq Valid'
  BY <1>1, <1>2 DEF Valid
<1>5. BoardOK(q)'
  BY <1>3 DEF TaskOK, BoardOK, Computing, Now
<1>6. IcedOK(q)'
  BY <1>3 DEF TaskOK, IcedOK, Computing, Now
<1>7. ASSUME Paid(t), t.board # NoBoard  PROVE Paid(q)'
  <2>1. Cardinality(D) <= Cardinality(t.due) /\ Cardinality(D) \in Nat /\ Cardinality(t.due) \in Nat
    BY <1>2, SolvesCounted, SolvesFinite
  <2>2. CountOf(t.board) \in Nat
    BY <1>7, Fields, CountIsNat
  <2>3. Cardinality(D) <= CountOf(t.board)
    BY <1>7, <2>1, <2>2 DEF Paid
  <2> QED BY <2>3, <1>3 DEF Paid, Now, CountOf
<1>8. q.pc = t.pc /\ q.then = t.then /\ q.admin = t.admin /\ q.frozen = t.frozen
      /\ q.tick = t.tick /\ q.cast = t.cast /\ q.due = D
  BY <1>3 DEF Now
<1>9. t.pc \in {"repair", "miss", "deliver"} => t.board # NoBoard
  BY DEF TaskOK, BoardOK
<1>10. ReadOK(q)'
  BY <1>4, <1>7, <1>8, <1>9 DEF TaskOK, ReadOK, Computing
<1> QED BY <1>3, <1>5, <1>6, <1>10 DEF TaskOK

\* As OwedStays, of all tasks.
LEMMA OwedKeeps ==
    ASSUME BoardInv, NEW u, u = Owed(visible', flag'),
           UNCHANGED <<solved, freeze, frz>>, edits' + flips' # 0,
           flips' = 0 => flips = 0,
           faults' \in Nat, faults' = 0 => faults = 0
    PROVE  u \in [Tasks -> Task] /\ \A r \in Tasks, t \in Task : u[r] = t => TaskOK(t)'
<1>1. ASSUME NEW r \in Tasks  PROVE u[r] \in Task /\ \A t \in Task : u[r] = t => TaskOK(t)'
  <2>1. PICK t \in Task : t = task[r] /\ TaskOK(t)
    BY InHand
  <2>2. PICK q : q = [t EXCEPT !.due = {s \in t.due : s[2] \in visible' /\ flag'[s[1]] # "hidden"}]
    OBVIOUS
  <2>3. q \in Task /\ TaskOK(q)'
    BY <2>1, <2>2, OwedStays DEF BoardInv
  <2>4. u[r] = q
    BY <2>1, <2>2 DEF Owed
  <2> QED BY <2>3, <2>4
<1>2. u = [r \in Tasks |-> u[r]]
  BY DEF Owed
<1> QED BY <1>1, <1>2

\* A task that begins, or ends, is in order after any step.
LEMMA StartsOK ==
    ASSUME NEW q, q \in {Idle, Recompute(FALSE), Recompute(TRUE), [Idle EXCEPT !.pc = "clear"]}
    PROVE  q \in Task /\ TaskOK(q)'
<1>1. /\ q.board = NoBoard /\ q.due = {} /\ q.iced = FALSE /\ q.flags = AllShown
      /\ q.pc \in {"idle", "clear"} \/ (q.pc = "teams" /\ q.then = "publish")
      /\ q \in Task
  <2>1. CASE q = Idle
    BY <2>1 DEF Idle, AllShown, Task, Flags
  <2>2. CASE q = Recompute(FALSE)
    BY <2>2 DEF Recompute, Idle, AllShown, Task, Flags
  <2>3. CASE q = Recompute(TRUE)
    BY <2>3 DEF Recompute, Idle, AllShown, Task, Flags
  <2>4. CASE q = [Idle EXCEPT !.pc = "clear"]
    BY <2>4 DEF Idle, AllShown, Task, Flags
  <2> QED BY <2>1, <2>2, <2>3, <2>4
<1>2. q \in Task
  BY <1>1
<1>3. BoardOK(q)'
  BY <1>1 DEF BoardOK, Computing
<1>4. IcedOK(q)'
  BY <1>1 DEF IcedOK
<1>5. ReadOK(q)'
  BY <1>1 DEF ReadOK, Computing
<1> QED BY <1>2, <1>3, <1>4, <1>5 DEF TaskOK

\* All tasks are in order after a step that changes them all and lets one begin.
LEMMA OneStarts ==
    ASSUME NEW u, u \in [Tasks -> Task],
           \A r \in Tasks, t \in Task : u[r] = t => TaskOK(t)',
           NEW p \in Tasks, NEW q \in Task, TaskOK(q)',
           task' = u \/ task' = [u EXCEPT ![p] = q]
    PROVE  task' \in [Tasks -> Task] /\ TasksOK'
<1>1. task' \in [Tasks -> Task]
  OBVIOUS
<1>2. ASSUME NEW r \in Tasks, NEW t \in Task, task'[r] = t  PROVE TaskOK(t)'
  <2>1. t = u[r] \/ t = q
    BY <1>2
  <2> QED BY <2>1
<1> QED BY <1>1, <1>2, AllOK

\* EditChallenge keeps the invariant: without a fault its own recompute will
\* publish what is valid now.
LEMMA EditChallengeKeeps ==
    ASSUME BoardInv, NEW p \in Tasks, NEW c \in Chals, EditChallenge(p, c)
    PROVE  BoardInv'
<1>1. /\ visible' \in {visible, visible \ {c}, visible \cup {c}}
      /\ edits' = edits + 1 /\ (Fault \/ NoFault)
      /\ UNCHANGED <<solved, flag, freeze, cur, frz, lastCount, mu, late, flips>>
  BY DEF EditChallenge
<1>2. faults' \in Nat /\ (faults' = 0 => faults = 0)
  BY <1>1, FaultCounted DEF BoardInv
<1>3. edits' \in Nat /\ edits' # 0 /\ edits' + flips' # 0
  BY <1>1 DEF BoardInv, TypeOK
<1>4. PICK u : u = Owed(visible', flag')
  OBVIOUS
<1>5. u \in [Tasks -> Task] /\ \A r \in Tasks, t \in Task : u[r] = t => TaskOK(t)'
  BY <1>1, <1>2, <1>3, <1>4, OwedKeeps
<1>6. PICK q : q = Recompute(TRUE)
  OBVIOUS
<1>7. q \in Task /\ TaskOK(q)'
  BY <1>6, StartsOK
<1>8. \/ task' = [u EXCEPT ![p] = q] /\ NoFault
      \/ task' = u /\ Fault
  BY <1>1, <1>4, <1>6 DEF EditChallenge
<1>9. task' \in [Tasks -> Task] /\ TasksOK'
  BY <1>5, <1>7, <1>8, OneStarts
<1>10. TypeOK'
  BY <1>1, <1>2, <1>3, <1>9 DEF BoardInv, TypeOK
<1>11. StoreOK'
  BY <1>1, <1>2, <1>3 DEF BoardInv, StoreOK, BoardKept, CountOf
<1>12. Published'
  <2>1. CASE task' = [u EXCEPT ![p] = q]
    <3>1. task'[p] = q
      BY <2>1, <1>5
    <3>2. q.pc = "teams" /\ q.then = "publish"
      BY <1>6 DEF Recompute, Idle
    <3> QED BY <3>1, <3>2 DEF Published, Fresh, Computing
  <2>2. CASE Fault
    BY <2>2, FaultCounted DEF Published, BoardInv
  <2> QED BY <2>1, <2>2, <1>8
<1> QED BY <1>9, <1>10, <1>11, <1>12 DEF BoardInv

\* UpdateTeam keeps the invariant.
LEMMA UpdateTeamKeeps ==
    ASSUME BoardInv, NEW m \in Teams, NEW f \in Flags, UpdateTeam(m, f)
    PROVE  BoardInv'
<1>1. /\ flag' = [flag EXCEPT ![m] = f] /\ flips' = flips + 1
      /\ UNCHANGED <<solved, visible, freeze, cur, frz, lastCount, mu, late, edits, faults>>
  BY DEF UpdateTeam
<1>2. flips' \in Nat /\ flips' # 0 /\ edits' + flips' # 0 /\ faults' \in Nat
  BY <1>1 DEF BoardInv, TypeOK
<1>3. task' = Owed(visible', flag')
  BY <1>1 DEF UpdateTeam
<1>4. PICK u : u = Owed(visible', flag')
  OBVIOUS
<1>5. u \in [Tasks -> Task] /\ \A r \in Tasks, t \in Task : u[r] = t => TaskOK(t)'
  BY <1>1, <1>2, <1>4, OwedKeeps
<1>6. task' \in [Tasks -> Task] /\ TasksOK'
  BY <1>3, <1>4, <1>5, AllOK
<1>7. TypeOK'
  BY <1>1, <1>2, <1>6 DEF BoardInv, TypeOK
<1>8. StoreOK'
  BY <1>1, <1>2 DEF BoardInv, StoreOK, BoardKept, CountOf
<1>9. Published'
  BY <1>2 DEF Published
<1> QED BY <1>6, <1>7, <1>8, <1>9 DEF BoardInv

\* The freeze changes: no task counts as having seen it.
LEMMA ThawStays ==
    ASSUME NEW t \in Task, TaskOK(t), NEW q, q = [t EXCEPT !.iced = FALSE],
           UNCHANGED <<solved, visible, flag, flips>>,
           edits' + flips' = 0 => edits + flips = 0,
           faults' \in Nat, faults' = 0 => faults = 0
    PROVE  q \in Task /\ TaskOK(q)' /\ (Fresh(t) => Fresh(q)')
<1>1. q \in Task /\ Now(q, t, t.pc, t.then, t.flags, t.board, t.due, FALSE)
  BY ThawFields
<1>2. Valid' = Valid
  BY DEF Valid
<1>3. BoardOK(q)'
  BY <1>1 DEF TaskOK, BoardOK, Computing, Now
<1>4. IcedOK(q)'
  BY <1>1 DEF TaskOK, IcedOK, Computing, Now
<1>5. ReadOK(q)'
  BY <1>1, <1>2 DEF TaskOK, ReadOK, Paid, Computing, Now, CountOf
<1>6. Fresh(t) => Fresh(q)'
  BY <1>1, <1>2 DEF Fresh, Computing, Now
<1> QED BY <1>1, <1>3, <1>4, <1>5, <1>6 DEF TaskOK

\* As ThawStays, of all tasks.
LEMMA ThawKeeps ==
    ASSUME BoardInv, NEW u, u = Thawed,
           UNCHANGED <<solved, visible, flag, flips>>,
           edits' + flips' = 0 => edits + flips = 0,
           faults' \in Nat, faults' = 0 => faults = 0
    PROVE  u \in [Tasks -> Task] /\ \A r \in Tasks, t \in Task : u[r] = t => TaskOK(t)'
<1>1. ASSUME NEW r \in Tasks  PROVE u[r] \in Task /\ \A t \in Task : u[r] = t => TaskOK(t)'
  <2>1. PICK t \in Task : t = task[r] /\ TaskOK(t)
    BY InHand
  <2>2. PICK q : q = [t EXCEPT !.iced = FALSE]
    OBVIOUS
  <2>3. q \in Task /\ TaskOK(q)'
    BY <2>1, <2>2, ThawStays
  <2>4. u[r] = q
    BY <2>1, <2>2 DEF Thawed
  <2> QED BY <2>3, <2>4
<1>2. u = [r \in Tasks |-> u[r]]
  BY DEF Thawed
<1> QED BY <1>1, <1>2

\* A task that was to publish still is, when only the freeze changes: unless it
\* is the one that begins something else.
LEMMA ThawPublished ==
    ASSUME BoardInv, NEW p \in Tasks, NEW q, task' = [Thawed EXCEPT ![p] = q],
           ~Fresh(task[p]),
           UNCHANGED <<solved, visible, flag, cur, flips>>, faults' = 0 => faults = 0
    PROVE  Published'
<1>1. Valid' = Valid
  BY DEF Valid
<1> SUFFICES ASSUME faults' = 0, flips = 0, visible = Chals, cur.solves # Valid
             PROVE  \E r \in Tasks : Fresh(task[r])'
  BY <1>1 DEF Published
<1>2. PICK r \in Tasks : Fresh(task[r])
  BY DEF BoardInv, Published
<1>3. PICK t \in Task : t = task[r]
  BY DEF BoardInv, TypeOK
<1>4. PICK w : w = [t EXCEPT !.iced = FALSE]
  OBVIOUS
<1>5. w.pc = t.pc /\ w.then = t.then /\ w.board = t.board
  BY <1>4, ThawFields DEF Now
<1>6. task'[r] = w
  BY <1>2, <1>3, <1>4 DEF Thawed
<1> QED BY <1>1, <1>2, <1>3, <1>5, <1>6 DEF Fresh, Computing

\* UpdateEvent keeps the invariant.
LEMMA UpdateEventKeeps ==
    ASSUME BoardInv, NEW p \in Tasks, NEW f \in {"none", "ahead", "on"}, UpdateEvent(p, f)
    PROVE  BoardInv'
<1>1. /\ freeze' = f /\ edits' = edits + 1
      /\ UNCHANGED <<solved, visible, flag, cur, frz, lastCount, mu, late, flips, faults>>
  BY DEF UpdateEvent
<1>2. edits' \in Nat /\ edits' # 0 /\ edits' + flips' # 0 /\ faults' \in Nat
  BY <1>1 DEF BoardInv, TypeOK
<1>3. PICK u : u = Thawed
  OBVIOUS
<1>4. u \in [Tasks -> Task] /\ \A r \in Tasks, t \in Task : u[r] = t => TaskOK(t)'
  BY <1>1, <1>2, <1>3, ThawKeeps
<1>5. PICK q : q = IF f = "none" THEN [Idle EXCEPT !.pc = "clear"] ELSE Recompute(FALSE)
  OBVIOUS
<1>6. q \in Task /\ TaskOK(q)'
  BY <1>5, StartsOK
<1>7. task' = [u EXCEPT ![p] = q]
  BY <1>3, <1>5 DEF UpdateEvent
<1>8. task' \in [Tasks -> Task] /\ TasksOK'
  BY <1>4, <1>6, <1>7, OneStarts
<1>9. TypeOK'
  BY <1>1, <1>2, <1>8 DEF BoardInv, TypeOK
<1>10. StoreOK'
  BY <1>1, <1>2 DEF BoardInv, StoreOK, BoardKept, CountOf
<1>11. Published'
  <2>1. ~Fresh(task[p])
    BY DEF UpdateEvent, Fresh, Computing
  <2> QED BY <1>1, <1>3, <1>7, <2>1, ThawPublished
<1> QED BY <1>8, <1>9, <1>10, <1>11 DEF BoardInv

\* ClearFreeze keeps the invariant.
LEMMA ClearFreezeKeeps ==
    ASSUME BoardInv, NEW p \in Tasks, ClearFreeze(p)
    PROVE  BoardInv'
<1>1. task[p].pc = "clear" /\ UNCHANGED <<db, cur, lastCount, mu, edits, flips>>
  BY DEF ClearFreeze
<1>2. ~Fresh(task[p])
  BY <1>1 DEF Fresh, Computing
<1>3. CASE Fault /\ Finish(p) /\ UNCHANGED <<frz, late>>
  <2>1. Inert
    BY <1>1, <1>3 DEF Inert, Fault, BoardInv, TypeOK
  <2> QED BY <1>2, <1>3, <2>1, FinishKeeps
<1>4. CASE /\ frz' = NoBoard /\ late' = {} /\ NoFault
           /\ task' = [Thawed EXCEPT ![p] = Recompute(FALSE)]
  <2>1. /\ faults' = faults /\ faults \in Nat
        /\ UNCHANGED <<solved, visible, flag, freeze, cur, lastCount, mu, edits, flips>>
    BY <1>1, <1>4 DEF NoFault, BoardInv, TypeOK, db
  <2>2. PICK u : u = Thawed
    OBVIOUS
  <2>3. u \in [Tasks -> Task] /\ \A r \in Tasks, t \in Task : u[r] = t => TaskOK(t)'
    BY <2>1, <2>2, ThawKeeps
  <2>4. PICK q : q = Recompute(FALSE)
    OBVIOUS
  <2>5. q \in Task /\ TaskOK(q)'
    BY <2>4, StartsOK
  <2>6. task' = [u EXCEPT ![p] = q]
    BY <1>4, <2>2, <2>4
  <2>7. task' \in [Tasks -> Task] /\ TasksOK'
    BY <2>3, <2>5, <2>6, OneStarts
  <2>8. TypeOK'
    BY <1>4, <2>1, <2>7 DEF BoardInv, TypeOK
  <2>9. StoreOK'
    BY <1>4, <2>1 DEF BoardInv, StoreOK, BoardKept, CountOf
  <2>10. Published'
    BY <1>2, <2>1, <2>2, <2>6, ThawPublished
  <2> QED BY <2>7, <2>8, <2>9, <2>10 DEF BoardInv
<1> QED BY <1>3, <1>4 DEF ClearFreeze

\* FreezeBegins keeps the invariant: no task has seen the freeze yet.
LEMMA FreezeBeginsKeeps ==
    ASSUME BoardInv, FreezeBegins
    PROVE  BoardInv'
<1>1. /\ freeze = "ahead" /\ freeze' = "on"
      /\ UNCHANGED <<solved, visible, flag, cur, frz, lastCount, mu, task, late, edits, flips, faults>>
  BY DEF FreezeBegins
<1>2. Valid' = Valid
  BY <1>1 DEF Valid
<1>3. ASSUME NEW t \in Task, TaskOK(t)  PROVE TaskOK(t)'
  <2>1. BoardOK(t)'
    BY <1>1, <1>3 DEF TaskOK, BoardOK
  <2>2. IcedOK(t)'
    BY <1>1, <1>3 DEF TaskOK, IcedOK
  <2>3. ReadOK(t)'
    BY <1>1, <1>2, <1>3 DEF TaskOK, ReadOK, Paid
  <2> QED BY <2>1, <2>2, <2>3 DEF TaskOK
<1>4. TasksOK'
  BY <1>1, <1>3 DEF TasksOK, BoardInv
<1>5. TypeOK'
  BY <1>1 DEF BoardInv, TypeOK
<1>6. StoreOK'
  BY <1>1 DEF BoardInv, StoreOK, BoardKept, CountOf
<1>7. Published'
  BY <1>1, <1>2 DEF BoardInv, Published, Fresh
<1> QED BY <1>4, <1>5, <1>6, <1>7 DEF BoardInv

\* RedisLoss keeps the invariant.
LEMMA RedisLossKeeps ==
    ASSUME BoardInv, RedisLoss
    PROVE  BoardInv'
<1>1. /\ cur' = NoBoard /\ frz' = NoBoard /\ late' = {} /\ task' = Thawed
      /\ UNCHANGED <<solved, visible, flag, freeze, lastCount, mu, edits, flips>>
  BY DEF RedisLoss, db
<1>2. faults' \in Nat /\ faults' # 0
  BY FaultCounted DEF RedisLoss, BoardInv
<1>3. PICK u : u = Thawed
  OBVIOUS
<1>4. u \in [Tasks -> Task] /\ \A r \in Tasks, t \in Task : u[r] = t => TaskOK(t)'
  BY <1>1, <1>2, <1>3, ThawKeeps
<1>5. task' \in [Tasks -> Task] /\ TasksOK'
  BY <1>1, <1>3, <1>4, AllOK
<1>6. TypeOK'
  BY <1>1, <1>2, <1>5 DEF BoardInv, TypeOK
<1>7. StoreOK'
  BY <1>1, <1>2 DEF BoardInv, StoreOK, BoardKept
<1>8. Published'
  BY <1>2 DEF Published
<1> QED BY <1>5, <1>6, <1>7, <1>8 DEF BoardInv

\* Restart keeps the invariant.
LEMMA RestartKeeps ==
    ASSUME BoardInv, Restart
    PROVE  BoardInv'
<1>1. /\ task' = [p \in Tasks |-> Idle] /\ mu' = Free
      /\ UNCHANGED <<solved, visible, flag, freeze, frz, late, edits, flips>>
      /\ \/ cur' = [flags |-> flag, solves |-> Valid] /\ lastCount' = CountOf(cur')
         \/ cur' = cur /\ lastCount' = 0
  BY DEF Restart, db
<1>2. faults' \in Nat /\ faults' # 0
  BY FaultCounted DEF Restart, BoardInv
<1>3. Idle \in Task /\ TaskOK(Idle)'
  BY StartsOK
<1>4. task' \in [Tasks -> Task]
  BY <1>1, <1>3
<1>5. TasksOK'
  BY <1>1, <1>3, <1>4, AllOK
<1>6. PICK b : b = [flags |-> flag, solves |-> Valid]
  OBVIOUS
<1>7. b \in Board /\ b.solves \subseteq solved /\ b.flags = flag /\ CountOf(b) \in Nat
  <2>1. Valid \subseteq solved /\ Valid \subseteq Teams \X Chals /\ flag \in [Teams -> Flags]
    BY ValidSolves DEF BoardInv, TypeOK
  <2>2. b \in Board /\ b.solves = Valid /\ b.flags = flag
    BY <1>6, <2>1, Computed
  <2> QED BY <2>1, <2>2, CountIsNat
<1>8. TypeOK'
  BY <1>1, <1>2, <1>4, <1>6, <1>7 DEF BoardInv, TypeOK
<1>9. StoreOK'
  <2>1. BoardKept(cur)'
    BY <1>1, <1>6, <1>7 DEF BoardInv, StoreOK, BoardKept
  <2>2. BoardKept(frz)'
    BY <1>1 DEF BoardInv, StoreOK, BoardKept
  <2> QED BY <1>1, <1>2, <2>1, <2>2 DEF BoardInv, StoreOK
<1>10. Published'
  BY <1>2 DEF Published
<1> QED BY <1>5, <1>8, <1>9, <1>10 DEF BoardInv

-----------------------------------------------------------------------------
(* Theorems *)

\* The invariant holds when the process has started.
LEMMA InitBoard == Init => BoardInv
<1> SUFFICES ASSUME Init  PROVE BoardInv
  OBVIOUS
<1>1. /\ solved = {} /\ visible = Chals /\ flag = AllShown
      /\ freeze \in {"none", "ahead"} /\ frz = NoBoard /\ mu = Free
      /\ task = [p \in Tasks |-> Idle]
      /\ late = {} /\ edits = 0 /\ flips = 0
  BY DEF Init, AllShown
<1>2. Valid = {}
  BY <1>1 DEF Valid
<1>3. flag \in [Teams -> Flags]
  BY <1>1 DEF AllShown, Flags
<1>4. PICK b : b = [flags |-> flag, solves |-> Valid]
  OBVIOUS
<1>5. b \in Board /\ b.solves = {} /\ b.flags = flag /\ b # NoBoard /\ CountOf(b) \in Nat
  BY <1>2, <1>3, <1>4, Computed, CountIsNat
<1>6. \/ cur = b /\ lastCount = CountOf(cur) /\ faults = 0
      \/ cur = NoBoard /\ lastCount = 0 /\ faults = 1
  BY <1>4 DEF Init, Booted
<1>7. Idle \in Task
  BY StartsOK
<1>8. task \in [Tasks -> Task]
  BY <1>1, <1>7
<1>9. TypeOK
  BY <1>1, <1>3, <1>5, <1>6, <1>8 DEF TypeOK
<1>10. TasksOK
  BY <1>1, <1>9, IdleOK DEF TasksOK
<1>11. StoreOK
  BY <1>1, <1>5, <1>6 DEF StoreOK, BoardKept
<1>12. Published
  BY <1>2, <1>5, <1>6 DEF Published
<1> QED BY <1>9, <1>10, <1>11, <1>12 DEF BoardInv

\* Every step keeps the invariant.
LEMMA NextBoard == BoardInv /\ [Next]_vars => BoardInv'
<1> SUFFICES ASSUME BoardInv, [Next]_vars  PROVE BoardInv'
  OBVIOUS
<1>1. CASE UNCHANGED vars
  <2>1. Valid' = Valid
    BY <1>1 DEF vars, Valid
  <2>2. Mono
    BY <1>1 DEF vars, Mono, db, BoardInv, TypeOK
  <2>3. TasksOK'
    BY <1>1, <2>2, TaskStays DEF vars, BoardInv, TasksOK
  <2>4. TypeOK'
    BY <1>1 DEF vars, BoardInv, TypeOK
  <2>5. StoreOK'
    BY <1>1 DEF vars, BoardInv, StoreOK, BoardKept, CountOf
  <2>6. Published'
    BY <1>1, <2>1 DEF vars, BoardInv, Published, Fresh
  <2> QED BY <2>3, <2>4, <2>5, <2>6 DEF BoardInv
<1>2. ASSUME NEW p \in Tasks, Begin(p)  PROVE BoardInv'
  BY <1>2, ReadKeeps, TickKeeps, SolveKeeps, EditChallengeKeeps, UpdateEventKeeps DEF Begin
<1>3. ASSUME NEW p \in Tasks, Progress(p)  PROVE BoardInv'
  <2>1. CASE ListTeams(p) \/ ListSolves(p) \/ Publish(p) \/ Ice(p) \/ ReadFrozen(p)
    BY <2>1, ListTeamsKeeps, ListSolvesKeeps, PublishKeeps, IceKeeps, ReadFrozenKeeps
  <2>2. CASE ReadCurrent(p) \/ CountLive(p) \/ WriteRepaired(p) \/ WriteMissed(p) \/ Deliver(p)
    BY <2>2, ReadCurrentKeeps, CountLiveKeeps, WriteRepairedKeeps, WriteMissedKeeps, DeliverKeeps
  <2>3. CASE Snap(p) \/ SnapLock(p) \/ SnapWrite(p) \/ ReconcileIfBehind(p) \/ ClearFreeze(p)
    BY <2>3, SnapKeeps, SnapLockKeeps, SnapWriteKeeps, ReconcileKeeps, ClearFreezeKeeps
  <2> QED BY <1>3, <2>1, <2>2, <2>3 DEF Progress
<1>4. CASE Environment
  BY <1>4, UpdateTeamKeeps, FreezeBeginsKeeps, RedisLossKeeps, RestartKeeps DEF Environment
<1> QED BY <1>1, <1>2, <1>3, <1>4 DEF Next

\* The state is well typed: the tables, the boards in Redis and the tasks, for
\* any sets of teams, challenges and goroutines.
THEOREM TypeCorrect == Spec => []TypeOK
<1>1. BoardInv => TypeOK
  BY DEF BoardInv
<1> QED BY <1>1, InitBoard, NextBoard, PTL DEF Spec

\* While the freeze is on, neither a public read nor a broadcast shows a solve
\* committed after the frozen board was captured (served), for any number of
\* teams, challenges and goroutines: a public task that has seen the freeze is
\* on the path to the frozen board, which lateness never reaches.
THEOREM NoLateEverShown == Spec => []NoLateShown
<1>1. BoardInv => NoLateShown
  <2> SUFFICES ASSUME BoardInv, NEW p \in Tasks,
                      task[p].pc = "deliver", ~task[p].admin, task[p].iced
               PROVE  task[p].board.solves \cap late = {}
    BY DEF NoLateShown
  <2>1. frz # NoBoard /\ task[p].board = frz
    BY InHand DEF TaskOK, IcedOK
  <2> QED BY <2>1 DEF BoardInv, StoreOK
<1> QED BY <1>1, InitBoard, NextBoard, PTL DEF Spec

\* A read of the live board is never behind the log as it was when the read
\* began (readRepair): at least as many solves as have been valid throughout,
\* and without organisers' changes each one of them.
THEOREM ReadNeverBehind == Spec => []ReadNotBehind
<1>1. BoardInv => ReadNotBehind
  <2> SUFFICES ASSUME BoardInv, NEW p \in Tasks,
                      task[p].pc = "deliver", ~task[p].cast, task[p].frozen => task[p].admin
               PROVE  /\ Cardinality(task[p].due) <= CountOf(task[p].board)
                      /\ edits + flips = 0 => task[p].due \subseteq task[p].board.solves
    BY DEF ReadNotBehind
  <2>1. ReadOK(task[p])
    BY InHand DEF TaskOK
  <2> QED BY <2>1 DEF ReadOK, Paid
<1> QED BY <1>1, InitBoard, NextBoard, PTL DEF Spec

\* When every recompute has run its course the live board shows every solve, in
\* whatever order they finished (recompute's guard, RecomputeForce's second,
\* guarded round): without faults, with every challenge visible and teams
\* untouched.
THEOREM SolvesAlwaysPublished == Spec => []SolvesPublished
<1>1. BoardInv => SolvesPublished
  <2> SUFFICES ASSUME BoardInv, Quiet, faults = 0, flips = 0, visible = Chals
               PROVE  cur = [flags |-> flag, solves |-> Valid]
    BY DEF SolvesPublished
  <2>1. cur \in Board /\ cur.flags = AllShown /\ flag = AllShown
    BY DEF BoardInv, TypeOK, StoreOK, BoardKept
  <2>2. cur.solves = Valid
    BY DEF BoardInv, Published, Quiet, Fresh, Computing
  <2>3. cur = [flags |-> cur.flags, solves |-> cur.solves]
    BY <2>1 DEF Board
  <2> QED BY <2>1, <2>2, <2>3
<1> QED BY <1>1, InitBoard, NextBoard, PTL DEF Spec

=============================================================================
