----------------------------- MODULE Scoreboard -----------------------------
(***************************************************************************)
(* The scoreboard cache (scoreboard.Service): boards computed from the     *)
(* database outside the mutex, a count-guarded write of the live board, a  *)
(* write-once frozen board, and reads that repair a board that is behind.  *)
(*                                                                         *)
(* A task is one goroutine inside the service: an HTTP read, a recompute   *)
(* after a solve or an organiser's change, or the 15 s ticker.             *)
(*                                                                         *)
(* A board is represented by the rows it was computed from: team flags and *)
(* valid solves, read by two statements.                                   *)
(***************************************************************************)
EXTENDS Integers, FiniteSets

CONSTANTS
    Teams, Chals,
    Tasks,
    NoBoard, Free,
    MaxEdits, MaxFaults       \* bounds

ASSUME BoundsAreNumbers == {MaxEdits, MaxFaults} \subseteq Nat
ASSUME FreeIsNoTask == Free \notin Tasks
ASSUME ContestFinite == IsFiniteSet(Teams) /\ IsFiniteSet(Chals)

VARIABLES
    solved,    \* correct submissions, as <<team, challenge>>
    visible,   \* the visible challenges
    flag,      \* flag[t]: how team t is shown
    freeze,    \* freeze_at: unset, ahead, or passed
    cur, frz,  \* Redis: scoreboard:current, scoreboard:frozen
    lastCount, mu,
    task,
    late,      \* history: solves committed since frz was captured
    edits,     \* organisers' changes of challenges and of the event,
    flips,     \* and of teams
    faults

db == <<solved, visible, flag, freeze>>
vars == <<solved, visible, flag, freeze, cur, frz, lastCount, mu, task, late, edits, flips, faults>>

Flags == {"shown", "banned", "hidden"}
Board == [flags : [Teams -> Flags], solves : SUBSET (Teams \X Chals)]

ASSUME NoBoardIsNone == NoBoard \notin Board

\* then: what the running compute() is for.  board: the board in hand.
\* History: due, the solves the read in progress has to show; iced, the freeze
\* is on and visible to the task since it asked.
Task == [pc : {"idle", "clear", "teams", "solves", "publish", "ice", "frz", "snap",
               "snaplock", "snapwrite", "refrz", "cur", "count", "repair", "miss",
               "deliver", "behind"},
         then : {"none", "publish", "snapwrite", "repair", "miss", "deliver"},
         force : BOOLEAN, cast : BOOLEAN, admin : BOOLEAN, tick : BOOLEAN,
         frozen : BOOLEAN, flags : [Teams -> Flags],
         board : Board \cup {NoBoard},
         due : SUBSET (Teams \X Chals), iced : BOOLEAN]
Idle == [pc |-> "idle", then |-> "none", force |-> FALSE, cast |-> FALSE,
         admin |-> FALSE, tick |-> FALSE, frozen |-> FALSE,
         flags |-> [t \in Teams |-> "shown"], board |-> NoBoard,
         due |-> {}, iced |-> FALSE]

TypeOK == /\ solved \subseteq Teams \X Chals
          /\ visible \subseteq Chals
          /\ flag \in [Teams -> Flags]
          /\ freeze \in {"none", "ahead", "on"}
          /\ cur \in Board \cup {NoBoard} /\ frz \in Board \cup {NoBoard}
          /\ lastCount \in Nat
          /\ mu \in Tasks \cup {Free}
          /\ task \in [Tasks -> Task]
          /\ late \subseteq Teams \X Chals
          /\ edits \in Nat /\ flips \in Nat /\ faults \in Nat

-----------------------------------------------------------------------------
(* Queries, and a task's control *)

\* ListValidSolves: visible challenges, teams that are not hidden.
Valid == {s \in solved : s[2] \in visible /\ flag[s[1]] # "hidden"}

\* Snapshot.SolveCount.
CountOf(b) == Cardinality(b.solves)

\* Faulty variant of BehindLog (mutation checks): one solve of slack.
MutBehindLog(b) == Cardinality(Valid) > CountOf(b) + 1

BehindLog(b) == Cardinality(Valid) > CountOf(b)

Fault == faults < MaxFaults /\ faults' = faults + 1
NoFault == UNCHANGED faults
Go(p, l) == task' = [task EXCEPT ![p].pc = l]
Finish(p) == task' = [task EXCEPT ![p] = Idle]
Have(p, b) == task' = [task EXCEPT ![p].pc = "deliver", ![p].board = b]

\* compute() is called; its result goes to step l.
Compute(p, l) == task' = [task EXCEPT ![p].pc = "teams", ![p].then = l]
Recompute(f) == [Idle EXCEPT !.pc = "teams", !.then = "publish", !.force = f]

\* MaybeSnapshotFreeze returns: to served(), or to the ticker.
SnapDone(p) == Go(p, IF task[p].tick THEN "behind" ELSE "refrz")
\* ... with an error: served() fails, the ticker goes on.
SnapFails(p) == IF task[p].tick THEN Go(p, "behind") ELSE Finish(p)

\* The first compute at boot, which Redis may refuse.
Booted == \/ /\ cur = [flags |-> flag, solves |-> Valid]
             /\ lastCount = CountOf(cur)
             /\ faults = 0
          \/ cur = NoBoard /\ lastCount = 0 /\ faults = 1

Init == /\ solved = {} /\ visible = Chals
        /\ flag = [t \in Teams |-> "shown"]
        /\ freeze \in {"none", "ahead"}
        /\ frz = NoBoard /\ mu = Free
        /\ task = [p \in Tasks |-> Idle]
        /\ late = {} /\ edits = 0 /\ flips = 0
        /\ Booted

-----------------------------------------------------------------------------
(* compute() *)

ListTeams(p) ==
    /\ task[p].pc = "teams"
    /\ task' = [task EXCEPT ![p].pc = "solves", ![p].flags = flag]
    /\ UNCHANGED <<db, cur, frz, lastCount, mu, late, edits, flips, faults>>

\* The board is ready; or compute() fails or exceeds its budget: a repairing
\* read then serves the stale board (and promises nothing), all else gives up.
ListSolves(p) ==
    LET t == task[p] IN
    /\ t.pc = "solves"
    /\ \/ /\ task' = [task EXCEPT ![p].pc = t.then,
                         ![p].board = [flags |-> t.flags, solves |-> Valid]]
          /\ NoFault /\ UNCHANGED mu
       \/ /\ Fault
          /\ IF t.then = "repair"
             THEN task' = [task EXCEPT ![p].pc = "deliver", ![p].due = {}]
             ELSE IF t.then = "snapwrite" THEN SnapFails(p) ELSE Finish(p)
          /\ mu' = IF mu = p THEN Free ELSE mu
    /\ UNCHANGED <<db, cur, frz, lastCount, late, edits, flips>>

-----------------------------------------------------------------------------
(* recompute() *)

\* Faulty variant of Outdated (mutation checks): the guard is dropped.
MutOutdated(p) == FALSE

\* The guard: a board with more solves was written already.
Outdated(p) == ~task[p].force /\ CountOf(task[p].board) < lastCount

\* The write, under the mutex.  A forced round is followed by a guarded one,
\* which broadcasts what served() returns.
Publish(p) ==
    LET t == task[p] IN
    /\ t.pc = "publish" /\ mu = Free
    /\ \/ /\ Outdated(p) /\ Finish(p)
          /\ NoFault /\ UNCHANGED <<cur, lastCount>>
       \/ /\ ~Outdated(p)
          /\ cur' = t.board /\ lastCount' = CountOf(t.board)
          /\ task' = [task EXCEPT ![p] = IF t.force THEN Recompute(FALSE)
                                         ELSE [Idle EXCEPT !.pc = "ice", !.cast = TRUE]]
          /\ NoFault
       \/ ~Outdated(p) /\ Fault /\ Finish(p) /\ UNCHANGED <<cur, lastCount>>
    /\ UNCHANGED <<db, frz, mu, late, edits, flips>>

-----------------------------------------------------------------------------
(* served() *)

Read(p, adm) ==
    /\ task[p].pc = "idle"
    /\ task' = [task EXCEPT ![p] = [Idle EXCEPT !.pc = "ice", !.admin = adm, !.due = Valid]]
    /\ UNCHANGED <<db, cur, frz, lastCount, mu, late, edits, flips, faults>>

\* Faulty variant of Ice (mutation checks): a broadcast takes the live board.
MutIce(p) ==
    /\ task[p].pc = "ice"
    /\ task' = [task EXCEPT ![p].frozen = (freeze = "on"), ![p].iced = (freeze = "on"),
                    ![p].pc = IF freeze = "on" /\ ~task[p].admin /\ ~task[p].cast
                              THEN "frz" ELSE "cur"]
    /\ UNCHANGED <<db, cur, frz, lastCount, mu, late, edits, flips, faults>>

\* frozen(), which is false when the event cannot be read.
Ice(p) ==
    /\ task[p].pc = "ice"
    /\ \E on \in BOOLEAN :
          /\ IF on = (freeze = "on") THEN NoFault ELSE ~on /\ Fault
          /\ task' = [task EXCEPT ![p].frozen = on, ![p].iced = on,
                          ![p].pc = IF on /\ ~task[p].admin THEN "frz" ELSE "cur"]
    /\ UNCHANGED <<db, cur, frz, lastCount, mu, late, edits, flips>>

\* The frozen board; when absent it is captured, once, and read again.
ReadFrozen(p) ==
    /\ task[p].pc \in {"frz", "refrz"}
    /\ \/ /\ NoFault
          /\ IF frz # NoBoard THEN Have(p, frz)
             ELSE Go(p, IF task[p].pc = "frz" THEN "snap" ELSE "cur")
       \/ Fault /\ Finish(p)
    /\ UNCHANGED <<db, cur, frz, lastCount, mu, late, edits, flips>>

\* The live board.  Without Redis it is computed, except for a frozen public
\* read, which fails.
ReadCurrent(p) ==
    LET t == task[p] IN
    /\ t.pc = "cur"
    /\ \/ /\ NoFault
          /\ IF cur = NoBoard THEN Compute(p, "miss")
             ELSE task' = [task EXCEPT ![p].board = cur,
                               ![p].pc = IF t.cast THEN "deliver" ELSE "count"]
       \/ /\ Fault
          /\ IF t.frozen /\ ~t.admin THEN Finish(p) ELSE Compute(p, "deliver")
    /\ UNCHANGED <<db, cur, frz, lastCount, mu, late, edits, flips>>

\* readRepair: CountValidSolves against the board's count.
CountLive(p) ==
    /\ task[p].pc = "count"
    /\ \/ /\ NoFault
          /\ IF BehindLog(task[p].board) THEN Compute(p, "repair") ELSE Go(p, "deliver")
       \/ Fault /\ task' = [task EXCEPT ![p].pc = "deliver", ![p].due = {}]
    /\ UNCHANGED <<db, cur, frz, lastCount, mu, late, edits, flips>>

\* The repaired board is served whether or not it can be written.
WriteRepaired(p) ==
    LET b == task[p].board IN
    /\ task[p].pc = "repair" /\ mu = Free
    /\ \/ CountOf(b) >= lastCount /\ cur' = b /\ lastCount' = CountOf(b) /\ NoFault
       \/ CountOf(b) < lastCount /\ UNCHANGED <<cur, lastCount>> /\ NoFault
       \/ CountOf(b) >= lastCount /\ UNCHANGED <<cur, lastCount>> /\ Fault
    /\ Go(p, "deliver")
    /\ UNCHANGED <<db, frz, mu, late, edits, flips>>

\* A cache miss writes without the mutex and without the guard.
WriteMissed(p) ==
    /\ task[p].pc = "miss"
    /\ \/ cur' = task[p].board /\ Go(p, "deliver") /\ NoFault
       \/ UNCHANGED cur /\ Finish(p) /\ Fault
    /\ UNCHANGED <<db, frz, lastCount, mu, late, edits, flips>>

\* The response, or the call of the broadcaster.
Deliver(p) ==
    /\ task[p].pc = "deliver"
    /\ Finish(p)
    /\ UNCHANGED <<db, cur, frz, lastCount, mu, late, edits, flips, faults>>

-----------------------------------------------------------------------------
(* MaybeSnapshotFreeze, and the ticker *)

\* frozen() and the first existence check.
Snap(p) ==
    /\ task[p].pc = "snap"
    /\ \/ /\ NoFault
          /\ IF freeze = "on" /\ frz = NoBoard THEN Go(p, "snaplock") ELSE SnapDone(p)
       \/ /\ Fault    \* the event cannot be read: not frozen
          /\ task' = [task EXCEPT ![p].pc = IF task[p].tick THEN "behind" ELSE "refrz",
                                  ![p].iced = FALSE]
       \/ Fault /\ SnapFails(p)
    /\ UNCHANGED <<db, cur, frz, lastCount, mu, late, edits, flips>>

\* The mutex and the second check.
SnapLock(p) ==
    /\ task[p].pc = "snaplock" /\ mu = Free
    /\ \/ frz = NoBoard /\ NoFault /\ mu' = p /\ Compute(p, "snapwrite")
       \/ frz # NoBoard /\ NoFault /\ UNCHANGED mu /\ SnapDone(p)
       \/ Fault /\ UNCHANGED mu /\ SnapFails(p)
    /\ UNCHANGED <<db, cur, frz, lastCount, late, edits, flips>>

\* SETNX.
SnapWrite(p) ==
    /\ task[p].pc = "snapwrite"
    /\ mu' = Free
    /\ \/ /\ NoFault /\ SnapDone(p)
          /\ frz' = IF frz = NoBoard THEN task[p].board ELSE frz
          /\ late' = IF frz = NoBoard THEN solved \ task[p].board.solves ELSE late
       \/ Fault /\ SnapFails(p) /\ UNCHANGED <<frz, late>>
    /\ UNCHANGED <<db, cur, lastCount, edits, flips>>

Tick(p) ==
    /\ task[p].pc = "idle" /\ \A q \in Tasks : ~task[q].tick
    /\ task' = [task EXCEPT ![p] = [Idle EXCEPT !.pc = "snap", !.tick = TRUE]]
    /\ UNCHANGED <<db, cur, frz, lastCount, mu, late, edits, flips, faults>>

\* ReconcileIfBehind; a tick that sees the phase change recomputes anyway.
ReconcileIfBehind(p) ==
    /\ task[p].pc = "behind"
    /\ \/ task' = [task EXCEPT ![p] = Recompute(FALSE)] /\ NoFault
       \/ /\ IF cur = NoBoard THEN Fault
             ELSE IF BehindLog(cur) THEN Fault ELSE NoFault
          /\ Finish(p)
    /\ UNCHANGED <<db, cur, frz, lastCount, mu, late, edits, flips>>

-----------------------------------------------------------------------------
(* The rest of the platform *)

Thawed == [p \in Tasks |-> [task[p] EXCEPT !.iced = FALSE]]

\* Solves a read no longer has to show are dropped from its due.
Owed(v, f) == [p \in Tasks |->
    [task[p] EXCEPT !.due = {s \in @ : s[2] \in v /\ f[s[1]] # "hidden"}]]

\* A correct submission commits, and its handler recomputes unless an error
\* after the commit comes first.
Solve(p, t, c) ==
    /\ <<t, c>> \notin solved /\ c \in visible /\ flag[t] # "banned"
    /\ solved' = solved \cup {<<t, c>>}
    /\ late' = IF frz # NoBoard THEN late \cup {<<t, c>>} ELSE late
    /\ task[p].pc = "idle"
    /\ \/ task' = [task EXCEPT ![p] = Recompute(FALSE)] /\ NoFault
       \/ UNCHANGED task /\ Fault
    /\ UNCHANGED <<visible, flag, freeze, cur, frz, lastCount, mu, edits, flips>>

Editable == edits + flips < MaxEdits

\* AdminUpdateChallenge, which may show or hide the challenge (a deletion is a
\* hiding that is never undone), then RecomputeForce unless an error comes first.
EditChallenge(p, c) ==
    /\ task[p].pc = "idle" /\ Editable /\ edits' = edits + 1
    /\ visible' \in {visible, visible \ {c}, visible \cup {c}}
    /\ \/ task' = [Owed(visible', flag) EXCEPT ![p] = Recompute(TRUE)] /\ NoFault
       \/ task' = Owed(visible', flag) /\ Fault
    /\ UNCHANGED <<solved, flag, freeze, cur, frz, lastCount, mu, late, flips>>

\* AdminUpdateTeam, which does not recompute.
UpdateTeam(t, f) ==
    /\ flag[t] # f /\ Editable /\ flips' = flips + 1
    /\ flag' = [flag EXCEPT ![t] = f]
    /\ task' = Owed(visible, flag')
    /\ UNCHANGED <<solved, visible, freeze, cur, frz, lastCount, mu, late, edits, faults>>

\* AdminUpdateEvent: an unset freeze_at deletes the frozen board, then Recompute.
UpdateEvent(p, f) ==
    /\ task[p].pc = "idle" /\ f # freeze /\ Editable /\ edits' = edits + 1
    /\ freeze' = f
    /\ task' = [Thawed EXCEPT ![p] = IF f = "none" THEN [Idle EXCEPT !.pc = "clear"]
                                     ELSE Recompute(FALSE)]
    /\ UNCHANGED <<solved, visible, flag, cur, frz, lastCount, mu, late, flips, faults>>

ClearFreeze(p) ==
    /\ task[p].pc = "clear"
    /\ \/ /\ frz' = NoBoard /\ late' = {} /\ NoFault
          /\ task' = [Thawed EXCEPT ![p] = Recompute(FALSE)]
       \/ Fault /\ Finish(p) /\ UNCHANGED <<frz, late>>
    /\ UNCHANGED <<db, cur, lastCount, mu, edits, flips>>

FreezeBegins ==
    /\ freeze = "ahead" /\ freeze' = "on"
    /\ UNCHANGED <<solved, visible, flag, cur, frz, lastCount, mu, task, late, edits, flips, faults>>

\* Redis loses its data.
RedisLoss ==
    /\ Fault
    /\ cur' = NoBoard /\ frz' = NoBoard /\ late' = {}
    /\ task' = Thawed
    /\ UNCHANGED <<db, lastCount, mu, edits, flips>>

\* The process restarts; nothing is served before the first Recompute, which
\* may fail.
Restart ==
    /\ Fault
    /\ task' = [p \in Tasks |-> Idle] /\ mu' = Free
    /\ \/ cur' = [flags |-> flag, solves |-> Valid] /\ lastCount' = CountOf(cur')
       \/ UNCHANGED cur /\ lastCount' = 0
    /\ UNCHANGED <<db, frz, late, edits, flips>>

-----------------------------------------------------------------------------
Progress(p) == \/ ListTeams(p) \/ ListSolves(p) \/ Publish(p)
               \/ Ice(p) \/ ReadFrozen(p) \/ ReadCurrent(p) \/ CountLive(p)
               \/ WriteRepaired(p) \/ WriteMissed(p) \/ Deliver(p)
               \/ Snap(p) \/ SnapLock(p) \/ SnapWrite(p)
               \/ ReconcileIfBehind(p) \/ ClearFreeze(p)

Begin(p) == \/ \E adm \in BOOLEAN : Read(p, adm)
            \/ Tick(p)
            \/ \E t \in Teams, c \in Chals : Solve(p, t, c)
            \/ \E c \in Chals : EditChallenge(p, c)
            \/ \E f \in {"none", "ahead", "on"} : UpdateEvent(p, f)

Environment == \/ \E t \in Teams, f \in Flags : UpdateTeam(t, f)
               \/ FreezeBegins \/ RedisLoss \/ Restart

Next == (\E p \in Tasks : Begin(p) \/ Progress(p)) \/ Environment

Spec == Init /\ [][Next]_vars

-----------------------------------------------------------------------------
(* Properties *)

Quiet == \A p \in Tasks : task[p].pc = "idle"

\* When every recompute has run its course the live board shows every solve, in
\* whatever order concurrent recomputes finished, forced ones included ("a slow
\* older recompute that finishes late is dropped rather than clobbering it";
\* "the guarded re-run ... picks that solve straight back up").  No read has to
\* repair it.  Without faults, with every challenge visible and teams untouched.
SolvesPublished ==
    Quiet /\ faults = 0 /\ flips = 0 /\ visible = Chals =>
        cur = [flags |-> flag, solves |-> Valid]

\* A read of the live board is never behind the log as it was when the read
\* began ("a read can never serve a board older than the log"): it counts at
\* least the solves that have been valid throughout, and without organisers'
\* changes it shows each of them.  Exempt: a read whose repair failed.
ReadNotBehind ==
    \A p \in Tasks : LET t == task[p] IN
        t.pc = "deliver" /\ ~t.cast /\ (t.frozen => t.admin) =>
            /\ Cardinality(t.due) <= CountOf(t.board)
            /\ edits + flips = 0 => t.due \subseteq t.board.solves

\* While the freeze is on, neither a public read nor a broadcast shows a solve
\* that was committed after the frozen board was captured (served(); "never
\* serve live data to non-admins during a freeze").
NoLateShown ==
    \A p \in Tasks : LET t == task[p] IN
        t.pc = "deliver" /\ ~t.admin /\ t.iced => t.board.solves \cap late = {}

\* Once an organiser has hidden a challenge and the recomputes have finished,
\* the live board no longer shows its solves (RecomputeForce: "a guarded
\* recompute never clobbers a newer board").
HiddenGone ==
    Quiet /\ faults = 0 =>
        \A s \in cur.solves : s[2] \in visible
=============================================================================
