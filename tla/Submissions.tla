---------------------------- MODULE Submissions ----------------------------
(***************************************************************************)
(* Flag submission (submissions.Service.Submit), the post-commit scoring   *)
(* record, and the worker that repairs missing records (ScoreRepairer),    *)
(* while organisers edit and delete challenges and plugins come and go.    *)
(*                                                                         *)
(* The database runs at READ COMMITTED.  Submit locks the challenge row    *)
(* (GetChallengeForUpdate) for the length of its transaction, which keeps  *)
(* out other submissions of that challenge, edits and deletes.             *)
(*                                                                         *)
(* A guess is right when it equals the challenge's answer: the flag of a   *)
(* built-in type, what the checker accepts under the stored type_config    *)
(* of a plugin type.  A point value is represented by the solve count it   *)
(* was computed from; 0 stands for NULL.                                   *)
(***************************************************************************)
EXTENDS Integers, FiniteSets, FiniteSetsExt

CONSTANTS
    Teams, Chals, Guesses,
    Types,       \* challenge types in use: Builtin ones and those of plugins
    Limits,      \* values of max_attempts; 0 is "unlimited"
    Modes,       \* plugin scoring modes
    Builtin,     \* a type judged by flag comparison; a mode with no record
    Reqs,        \* submissions in flight
    NoTeam, NoChal, NoGuess, Free,
    Fallback,    \* PluginScoringFallback
    Batch,       \* repairBatch
    MaxSubs, MaxEdits, MaxFaults  \* bounds

ASSUME BoundsAreNumbers == {Batch, MaxSubs, MaxEdits, MaxFaults} \cup Limits \subseteq Nat
ASSUME FallbackIsSwitch == Fallback \in BOOLEAN
ASSUME NoneIsNone == /\ NoTeam \notin Teams /\ NoChal \notin Chals
                     /\ NoGuess \notin Guesses /\ Free \notin Reqs
                     /\ Builtin \notin Modes

VARIABLES
    chals,     \* the challenges table
    lock,      \* lock[c]: the transaction that holds challenge c's row lock
    subs,      \* the submissions table, by id in commit order
    nextSub,
    req,       \* submissions in flight
    rep,       \* the repair worker
    up,        \* the scoring modes whose plugin answers
    published, \* solves announced on the event bus
    edits, faults

vars == <<chals, lock, subs, nextSub, req, rep, up, published, edits, faults>>

SubIds == 1..MaxSubs

\* ver stands for updated_at.
Chal == [there : BOOLEAN, visible : BOOLEAN, type : Types, answer : Guesses,
         max : Limits, mode : Modes \cup {Builtin}, ver : Nat]

By == {"none", "pending", "fallback", "plugin"}   \* scored_by
Sub == [chal : Chals \cup {NoChal}, team : Teams \cup {NoTeam}, correct : BOOLEAN,
        by : By, val : Nat]
NoSub == [chal |-> NoChal, team |-> NoTeam, correct |-> FALSE, by |-> "none", val |-> 0]

\* cur: the challenge as read before the transaction.
Req == [pc : {"idle", "read", "check", "lock", "decide", "insert", "count",
              "score", "record", "publish"},
        team : Teams \cup {NoTeam}, chal : Chals \cup {NoChal},
        guess : Guesses \cup {NoGuess}, cur : Chal \cup {NoChal}, verdict : {"none", "right", "wrong"},
        sub : SubIds \cup {0}, by : By, val : Nat]
IdleReq == [pc |-> "idle", team |-> NoTeam, chal |-> NoChal, guess |-> NoGuess,
            cur |-> NoChal, verdict |-> "none", sub |-> 0,
            by |-> "none", val |-> 0]

\* mode: the scoring modes the listing read; cnt: solve counts cached for the
\* pass, 0 is "not read yet".
Rep == [pc : {"idle", "score", "write"}, list : SUBSET SubIds,
        mode : [Chals -> Modes \cup {Builtin}], cnt : [Chals -> Nat], by : By, val : Nat]
IdleRep == [pc |-> "idle", list |-> {}, mode |-> [c \in Chals |-> Builtin],
            cnt |-> [c \in Chals |-> 0], by |-> "none", val |-> 0]

TypeOK == /\ chals \in [Chals -> Chal]
          /\ lock \in [Chals -> Reqs \cup {Free}]
          /\ subs \in [SubIds -> Sub]
          /\ nextSub \in Nat \ {0}
          /\ req \in [Reqs -> Req]
          /\ rep \in Rep
          /\ up \subseteq Modes
          /\ published \subseteq SubIds
          /\ edits \in Nat /\ faults \in Nat

\* Any challenge an organiser can have authored before the event.
Init == /\ chals \in [Chals -> [there : {TRUE}, visible : {TRUE}, type : Types,
                               answer : Guesses, max : Limits,
                               mode : Modes \cup {Builtin}, ver : {0}]]
        /\ lock = [c \in Chals |-> Free]
        /\ subs = [s \in SubIds |-> NoSub] /\ nextSub = 1
        /\ req = [r \in Reqs |-> IdleReq]
        /\ rep = IdleRep
        /\ up = Modes /\ published = {}
        /\ edits = 0 /\ faults = 0

-----------------------------------------------------------------------------
(* Queries *)

Stored == {s \in SubIds : subs[s].chal # NoChal}
Attempts(c, t) == {s \in Stored : subs[s].chal = c /\ subs[s].team = t}
Solved(c, t) == \E s \in Attempts(c, t) : subs[s].correct
Solves(c) == {s \in Stored : subs[s].chal = c /\ subs[s].correct}

SolveCount(c) == Cardinality(Solves(c))

\* Faulty variant of RecordScore (mutation checks): no IS NULL guard.
MutRecordScore(s, by, val) == IF s \in Stored
                              THEN [subs EXCEPT ![s].by = by, ![s].val = val]
                              ELSE subs

\* RecordScore: only while the row is there and has no value.
RecordScore(s, by, val) == IF s \in Stored /\ subs[s].correct /\ subs[s].val = 0
                           THEN [subs EXCEPT ![s].by = by, ![s].val = val]
                           ELSE subs

\* Faulty variant of Needing (mutation checks): 'pending' counts as recorded.
MutNeeding == {s \in Stored : /\ subs[s].correct /\ subs[s].by = "none"
                              /\ chals[subs[s].chal].mode # Builtin}

\* ListSolvesNeedingScore, without its LIMIT.
Needing == {s \in Stored : /\ subs[s].correct /\ subs[s].val = 0
                           /\ chals[subs[s].chal].mode # Builtin}

ModeOf == [c \in Chals |-> chals[c].mode]

\* Its LIMIT: the oldest n members of S.
Oldest(S, n) == {s \in S : Cardinality({x \in S : x < s}) < n}

\* pluginScorer.Score for n solves: the value and its source.
Scored(mode, n) == CASE mode \in up -> [by |-> "plugin", val |-> n]
                     [] mode \notin up /\ Fallback -> [by |-> "fallback", val |-> n]
                     [] OTHER -> [by |-> "pending", val |-> 0]

Fault == faults < MaxFaults /\ faults' = faults + 1
Step(r, l) == req' = [req EXCEPT ![r].pc = l]
Finish(r) == req' = [req EXCEPT ![r] = IdleReq]
Unlock(c) == lock' = [lock EXCEPT ![c] = Free]

-----------------------------------------------------------------------------
(* Submit, up to the transaction *)

\* A request that passes the ban and the event-window checks; one that does not
\* changes nothing.
Begin(r, t, c, g) ==
    /\ req[r].pc = "idle"
    /\ nextSub + Cardinality({q \in Reqs : req[q].pc # "idle" /\ req[q].sub = 0}) <= MaxSubs
    /\ req' = [req EXCEPT ![r].pc = "read", ![r].team = t, ![r].chal = c, ![r].guess = g]
    /\ UNCHANGED <<chals, lock, subs, nextSub, rep, up, published, edits, faults>>

\* GetChallengeBySlug: an absent challenge is not found, nor is an invisible one
\* except by an organiser (BypassWindow).
Read(r) ==
    LET ch == chals[req[r].chal] IN
    /\ req[r].pc = "read"
    /\ \/ /\ ch.there
          /\ req' = [req EXCEPT ![r].pc = IF ch.type = Builtin THEN "lock" ELSE "check",
                                ![r].cur = ch]
       \/ ~(ch.there /\ ch.visible) /\ Finish(r)
    /\ UNCHANGED <<chals, lock, subs, nextSub, rep, up, published, edits, faults>>

\* pluginVerdict: the checker is unavailable, the team has solved the challenge
\* already, or the checker judges the guess under the configuration read.
PluginVerdict(r) ==
    /\ req[r].pc = "check"
    /\ \/ Finish(r)
       \/ /\ ~Solved(req[r].chal, req[r].team)
          /\ req' = [req EXCEPT ![r].pc = "lock",
                        ![r].verdict = IF req[r].guess = req[r].cur.answer
                                       THEN "right" ELSE "wrong"]
    /\ UNCHANGED <<chals, lock, subs, nextSub, rep, up, published, edits, faults>>

-----------------------------------------------------------------------------
(* The transaction *)

\* The verdict was computed for another version of the row.
Void(r) == LET now == chals[req[r].chal] IN
           /\ req[r].verdict # "none"
           /\ now.type # req[r].cur.type \/ now.ver # req[r].cur.ver

\* Faulty variants of Lock (mutation checks): the row lock is not waited for;
\* the version is not compared.
MutLockFree(r) ==
    LET c == req[r].chal IN
    /\ req[r].pc = "lock"
    /\ IF ~chals[c].there \/ Void(r)
       THEN Finish(r) /\ UNCHANGED lock
       ELSE Step(r, "decide") /\ lock' = [lock EXCEPT ![c] = r]
    /\ UNCHANGED <<chals, subs, nextSub, rep, up, published, edits, faults>>
MutLockAnyVersion(r) ==
    LET c == req[r].chal IN
    /\ req[r].pc = "lock"
    /\ lock[c] = Free
    /\ IF ~chals[c].there
       THEN Finish(r) /\ UNCHANGED lock
       ELSE Step(r, "decide") /\ lock' = [lock EXCEPT ![c] = r]
    /\ UNCHANGED <<chals, subs, nextSub, rep, up, published, edits, faults>>

\* GetChallengeForUpdate, and the version check that comes before everything
\* else: a deleted or changed challenge consumes no attempt.
Lock(r) ==
    LET c == req[r].chal IN
    /\ req[r].pc = "lock"
    /\ lock[c] = Free
    /\ IF ~chals[c].there \/ Void(r)
       THEN Finish(r) /\ UNCHANGED lock
       ELSE Step(r, "decide") /\ lock' = [lock EXCEPT ![c] = r]
    /\ UNCHANGED <<chals, subs, nextSub, rep, up, published, edits, faults>>

AtLimit(r) == LET m == chals[req[r].chal].max IN
              m > 0 /\ Cardinality(Attempts(req[r].chal, req[r].team)) >= m

\* Faulty variant of Decide (mutation checks): the attempts are not counted.
MutDecide(r) ==
    /\ req[r].pc = "decide"
    /\ IF Solved(req[r].chal, req[r].team)
       THEN Finish(r) /\ Unlock(req[r].chal)
       ELSE Step(r, "insert") /\ UNCHANGED lock
    /\ UNCHANGED <<chals, subs, nextSub, rep, up, published, edits, faults>>

\* HasTeamSolved and CountTeamAttempts; either refusal rolls back.
Decide(r) ==
    /\ req[r].pc = "decide"
    /\ IF Solved(req[r].chal, req[r].team) \/ AtLimit(r)
       THEN Finish(r) /\ Unlock(req[r].chal)
       ELSE Step(r, "insert") /\ UNCHANGED lock
    /\ UNCHANGED <<chals, subs, nextSub, rep, up, published, edits, faults>>

\* The plugin's verdict, or the comparison with the locked row's flag.
Correct(r) == IF req[r].verdict = "none"
              THEN req[r].guess = chals[req[r].chal].answer
              ELSE req[r].verdict = "right"

NewSub(r) == [chal |-> req[r].chal, team |-> req[r].team, correct |-> Correct(r),
              by |-> "none", val |-> 0]

\* uq_submissions_solve.
Duplicate(r) == Correct(r) /\ Solved(req[r].chal, req[r].team)

\* CreateSubmission and commit.  The insert may fail (the index, or an error);
\* the commit may also take effect and still be reported as failed.
Insert(r) ==
    LET stored == /\ ~Duplicate(r)
                  /\ nextSub <= MaxSubs
                  /\ subs' = [subs EXCEPT ![nextSub] = NewSub(r)]
                  /\ nextSub' = nextSub + 1
    IN
    /\ req[r].pc = "insert"
    /\ Unlock(req[r].chal)
    /\ \/ /\ stored
          /\ IF Correct(r)
             THEN req' = [req EXCEPT ![r].pc = "count", ![r].sub = nextSub]
             ELSE Finish(r)
          /\ UNCHANGED faults
       \/ stored /\ Fault /\ Finish(r)
       \/ /\ IF Duplicate(r) THEN UNCHANGED faults ELSE Fault
          /\ Finish(r)
          /\ UNCHANGED <<subs, nextSub>>
    /\ UNCHANGED <<chals, rep, up, published, edits>>

-----------------------------------------------------------------------------
(* After the commit *)

\* CountChallengeSolves.  A built-in mode records nothing.
Count(r) ==
    LET c == req[r].chal IN
    /\ req[r].pc = "count"
    /\ \/ /\ req' = [req EXCEPT ![r].val = SolveCount(c),
                                ![r].pc = IF req[r].cur.mode = Builtin
                                          THEN "publish" ELSE "score"]
          /\ UNCHANGED faults
       \/ Fault /\ Finish(r)
    /\ UNCHANGED <<chals, lock, subs, nextSub, rep, up, published, edits>>

\* recordPluginScore: the scorer's answer ...
Score(r) ==
    LET s == Scored(req[r].cur.mode, req[r].val) IN
    /\ req[r].pc = "score"
    /\ req' = [req EXCEPT ![r].pc = "record", ![r].by = s.by, ![r].val = s.val]
    /\ UNCHANGED <<chals, lock, subs, nextSub, rep, up, published, edits, faults>>

\* ... and its record, which may fail to be written.
Record(r) ==
    /\ req[r].pc = "record"
    /\ \/ /\ subs' = RecordScore(req[r].sub, req[r].by, req[r].val)
          /\ UNCHANGED faults
       \/ Fault /\ UNCHANGED subs
    /\ Step(r, "publish")
    /\ UNCHANGED <<chals, lock, nextSub, rep, up, published, edits>>

\* bus.Publish, and the response.
Publish(r) ==
    /\ req[r].pc = "publish"
    /\ published' = published \cup {req[r].sub}
    /\ Finish(r)
    /\ UNCHANGED <<chals, lock, subs, nextSub, rep, up, edits, faults>>

-----------------------------------------------------------------------------
(* ScoreRepairer.RepairOnce *)

\* A pass over no rows does nothing, so it is not a step.
RepairList ==
    /\ rep.pc = "idle"
    /\ Needing # {}
    /\ rep' = [rep EXCEPT !.pc = "score", !.list = Oldest(Needing, Batch), !.mode = ModeOf]
    /\ UNCHANGED <<chals, lock, subs, nextSub, req, up, published, edits, faults>>

\* The next row: the solve count (cached for the pass), and the scorer.  The
\* row was listed with its challenge; a challenge deleted since has no solves.
RepairScore ==
    LET s == Min(rep.list)
        c == subs[s].chal
        n == IF rep.cnt[c] = 0 THEN SolveCount(c) ELSE rep.cnt[c]
        v == Scored(rep.mode[c], n)
    IN /\ rep.pc = "score" /\ rep.list # {}
       /\ IF s \in Stored
          THEN rep' = [rep EXCEPT !.pc = "write", !.cnt[c] = n, !.by = v.by,
                                  !.val = v.val]
          ELSE rep' = [rep EXCEPT !.list = @ \ {s}]
       /\ UNCHANGED <<chals, lock, subs, nextSub, req, up, published, edits, faults>>

\* RecordScore; a failed write leaves the row for the next pass.
RepairWrite ==
    /\ rep.pc = "write"
    /\ \/ subs' = RecordScore(Min(rep.list), rep.by, rep.val) /\ UNCHANGED faults
       \/ Fault /\ UNCHANGED subs
    /\ rep' = [rep EXCEPT !.pc = "score", !.list = @ \ {Min(rep.list)},
                          !.by = "none", !.val = 0]
    /\ UNCHANGED <<chals, lock, nextSub, req, up, published, edits>>

\* Faulty variant of Forgotten (mutation checks): the counts outlive the pass.
MutForgotten == rep.cnt

Forgotten == IdleRep.cnt

RepairEnd ==
    /\ rep.pc = "score" /\ rep.list = {}
    /\ rep' = [rep EXCEPT !.pc = "idle", !.mode = IdleRep.mode, !.cnt = Forgotten]
    /\ UNCHANGED <<chals, lock, subs, nextSub, req, up, published, edits, faults>>

-----------------------------------------------------------------------------
(* The world around: organisers, plugins, crashes *)

\* UpdateChallenge (and what else may change) waits for the row lock and moves
\* updated_at.
Edit(c) ==
    /\ chals[c].there /\ lock[c] = Free /\ edits < MaxEdits
    /\ \E ch \in {[chals[c] EXCEPT !.answer = a] : a \in Guesses}
                \cup {[chals[c] EXCEPT !.visible = ~@]}
                \cup {[chals[c] EXCEPT !.type = y] : y \in Types}
                \cup {[chals[c] EXCEPT !.max = n] : n \in Limits}
                \cup {[chals[c] EXCEPT !.mode = m] : m \in Modes \cup {Builtin}} :
          chals' = [chals EXCEPT ![c] = [ch EXCEPT !.ver = @ + 1]]
    /\ edits' = edits + 1
    /\ UNCHANGED <<lock, subs, nextSub, req, rep, up, published, faults>>

\* DeleteChallenge cascades to the submissions.
Delete(c) ==
    /\ chals[c].there /\ lock[c] = Free /\ edits < MaxEdits
    /\ chals' = [chals EXCEPT ![c].there = FALSE]
    /\ subs' = [s \in SubIds |-> IF subs[s].chal = c THEN NoSub ELSE subs[s]]
    /\ edits' = edits + 1
    /\ UNCHANGED <<lock, nextSub, req, rep, up, published, faults>>

PluginDown(m) == /\ m \in up /\ Fault
                 /\ up' = up \ {m}
                 /\ UNCHANGED <<chals, lock, subs, nextSub, req, rep, published, edits>>

PluginUp(m) == /\ m \in Modes \ up
               /\ up' = up \cup {m}
               /\ UNCHANGED <<chals, lock, subs, nextSub, req, rep, published, edits, faults>>

\* The process dies: open transactions roll back, nothing after a commit runs.
Crash == /\ Fault
         /\ lock' = [c \in Chals |-> Free]
         /\ req' = [r \in Reqs |-> IdleReq]
         /\ rep' = IdleRep
         /\ UNCHANGED <<chals, subs, nextSub, up, published, edits>>

-----------------------------------------------------------------------------
Progress(r) == \/ Read(r) \/ PluginVerdict(r) \/ Lock(r) \/ Decide(r) \/ Insert(r)
               \/ Count(r) \/ Score(r) \/ Record(r) \/ Publish(r)

Repairing == RepairList \/ RepairScore \/ RepairWrite \/ RepairEnd

Environment == \/ Crash
               \/ \E c \in Chals : Edit(c) \/ Delete(c)
               \/ \E m \in Modes : PluginDown(m) \/ PluginUp(m)

Next == \/ \E r \in Reqs, t \in Teams, c \in Chals, g \in Guesses : Begin(r, t, c, g)
        \/ \E r \in Reqs : Progress(r)
        \/ Repairing
        \/ Environment

Spec == Init /\ [][Next]_vars

\* Requests have deadlines and the repair worker runs on a ticker.
FairSpec == /\ Spec
            /\ WF_vars(Repairing)
            /\ \A r \in Reqs : WF_vars(Progress(r))

\* Moreover a scoring plugin that is down comes back.
RecoveringSpec == FairSpec /\ \A m \in Modes : WF_vars(PluginUp(m))

-----------------------------------------------------------------------------
(* Properties *)

\* Rows that this step adds.
Added == {s \in SubIds : subs[s].chal = NoChal /\ subs'[s].chal # NoChal}

\* Once a team has solved a challenge nothing more of it is logged, right or
\* wrong, however many of its submissions race (Submit; INVARIANTS.md: "one
\* solve, one row, regardless of interleaving").
SolvedIsFinal ==
    [][\A s \in Added : ~Solved(subs'[s].chal, subs'[s].team)]_vars

\* A submission is logged only while the team has attempts left under the limit
\* in force when it commits, not the one read when the request came in.
AttemptsHeld ==
    [][\A s \in Added :
         LET c == subs'[s].chal
         IN chals[c].max > 0 =>
              Cardinality(Attempts(c, subs'[s].team)) < chals[c].max]_vars

\* A logged verdict is right for the challenge as it is at the commit, although
\* a plugin's verdict is computed before the transaction ("If the challenge was
\* edited or its type swapped between the verdict and the lock, the verdict is
\* void").  Left out: a built-in type swapped to a plugin type meanwhile.
VerdictCurrent ==
    [][\A s \in Added : \A r \in Reqs :
         req[r].pc = "insert" /\ req'[r].pc # "insert"
            /\ chals[req[r].chal].type = req[r].cur.type
         => subs'[s].correct = (req[r].guess = chals[req[r].chal].answer)]_vars

\* A recorded value counts the solve itself and every earlier one, and no solve
\* that has not happened ("Value reflects the solve count including this
\* solve"; RepairOnce caches the count for its pass).
ValueCountsSelf ==
    \A s \in Stored : subs[s].val # 0 =>
        LET all == Solves(subs[s].chal)
        IN subs[s].val \in Cardinality({x \in all : x <= s})..Cardinality(all)

\* Once recorded, a value and its source never change, whoever writes: the
\* request and the repair worker race for the same row (RecordScore).
ScoreWriteOnce ==
    [][\A s \in Stored : subs[s].val # 0 /\ subs'[s].chal # NoChal =>
          subs'[s].val = subs[s].val /\ subs'[s].by = subs[s].by]_vars

\* Solves of a plugin-scored challenge without a value; without any record.
Unscored == {s \in SubIds : /\ subs[s].correct /\ subs[s].val = 0
                            /\ chals[subs[s].chal].mode # Builtin}
Missing == {s \in Unscored : subs[s].by = "none"}

\* Every plugin-scored solve gets its value in the end, when the commit is the
\* last thing the process did, when the record could not be written, and when
\* the plugin was down (ScoreRepairer).
SolvesScored == \A s \in SubIds : s \in Unscored ~> s \notin Unscored

\* A solve without any record gets at least the record 'pending' even while a
\* plugin stays down ("every valid plugin solve ends the pass with a RECORD
\* (scored_by set), never a bare absence", RepairOnce).
MissingRecorded == \A s \in SubIds : s \in Missing ~> s \notin Missing
=============================================================================
