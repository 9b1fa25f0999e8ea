------------------------- MODULE SubmissionsProofs -------------------------
(***************************************************************************)
(* Safety of flag submission and score repair for any number of teams,     *)
(* challenges, requests, edits and faults.                                 *)
(*                                                                         *)
(* The properties speak of the step that logs a row.  IInv carries what    *)
(* was found earlier up to that step: who holds the row lock (Locked),     *)
(* which version of the challenge a plugin's verdict is for (Versioned,    *)
(* Judged) and that what Decide found still holds (Cleared).  VInv adds    *)
(* what the counts in flight, of requests and of the repair pass, have     *)
(* counted.                                                                *)
(***************************************************************************)
EXTENDS Submissions, Minimum, FiniteSetTheorems

\* Request r knows what it is for; its verdict is new when it reads the row.
Begun(r) ==
    /\ req[r].pc # "idle" =>
         req[r].team \in Teams /\ req[r].chal \in Chals /\ req[r].guess \in Guesses
    /\ req[r].pc \notin {"idle", "read"} => req[r].cur \in Chal
    /\ req[r].pc \in {"idle", "read", "check"} => req[r].verdict = "none"
    /\ req[r].pc \in {"count", "score", "record", "publish"} =>
         req[r].sub \in SubIds /\ req[r].sub < nextSub

\* Inside its transaction it holds its challenge's row lock.
Locked(r) == req[r].pc \in {"decide", "insert"} => lock[req[r].chal] = r

\* The challenge it read is an earlier version of the row, or the row itself.
Versioned(r) ==
    req[r].pc \in {"check", "lock", "decide", "insert"} =>
        /\ req[r].cur.ver <= chals[req[r].chal].ver
        /\ req[r].cur.ver = chals[req[r].chal].ver =>
             req[r].cur.answer = chals[req[r].chal].answer

\* A plugin's verdict is right for the version read; in the transaction, for the
\* row itself.
Judged(r) ==
    req[r].pc \in {"lock", "decide", "insert"} /\ req[r].verdict # "none" =>
        /\ req[r].verdict = "right" <=> req[r].guess = req[r].cur.answer
        /\ req[r].pc # "lock" => req[r].cur.ver = chals[req[r].chal].ver

Requests == \A r \in Reqs : Begun(r) /\ Locked(r) /\ Versioned(r) /\ Judged(r)

\* Rows have owners, and ids that are still to come are unused.
Logged == \A s \in Stored :
    s < nextSub /\ subs[s].chal \in Chals /\ subs[s].team \in Teams

\* What Decide found still holds at the insert.
Cleared == \A r \in Reqs :
    req[r].pc = "insert" => ~Solved(req[r].chal, req[r].team) /\ ~AtLimit(r)

\* The pass's rows are old; it is at one of them while it writes; its counts are
\* forgotten between passes.
Passing == /\ \A s \in rep.list : s < nextSub
           /\ rep.pc = "write" => rep.list # {}
           /\ rep.pc = "idle" => rep.cnt = IdleRep.cnt

TInv == Requests /\ Logged /\ Cleared /\ Passing

\* The inductive invariant.
IInv == TypeOK /\ TInv

-----------------------------------------------------------------------------
(* How a step changes the log *)

\* No row comes, goes or changes its owner or its verdict.
Kept == \A s \in SubIds : /\ subs'[s].chal = subs[s].chal
                          /\ subs'[s].team = subs[s].team
                          /\ subs'[s].correct = subs[s].correct

\* A score record is written, by a request or by the repair worker.
Recorded == \/ \E r \in Reqs : /\ req[r].pc = "record"
                               /\ subs' = RecordScore(req[r].sub, req[r].by, req[r].val)
            \/ rep.pc = "write" /\ subs' = RecordScore(Min(rep.list), rep.by, rep.val)

\* The insert of request r.
Appends(r) == /\ req[r].pc = "insert"
              /\ nextSub <= MaxSubs
              /\ subs' = [subs EXCEPT ![nextSub] = NewSub(r)]
              /\ nextSub' = nextSub + 1
              /\ req'[r].pc # "insert"
              /\ \A q \in Reqs \ {r} : req'[q] = req[q]
              /\ UNCHANGED chals

\* The cascade from challenge c.
Cascades(c) == /\ lock[c] = Free
               /\ subs' = [s \in SubIds |-> IF subs[s].chal = c THEN NoSub ELSE subs[s]]
               /\ UNCHANGED <<req, lock, nextSub>>

LEMMA Numbers == /\ MaxSubs \in Nat /\ Batch \in Nat /\ MaxEdits \in Nat
                 /\ MaxFaults \in Nat /\ Limits \subseteq Nat
BY BoundsAreNumbers

LEMMA Idles == IdleReq \in Req /\ IdleRep \in Rep /\ NoSub \in Sub
<1>1. IdleReq \in Req
  BY DEF IdleReq, Req, By
<1>2. IdleRep \in Rep
  BY DEF IdleRep, Rep, By
<1>3. NoSub \in Sub
  BY DEF NoSub, Sub, By
<1> QED
  BY <1>1, <1>2, <1>3

\* The ids are finitely many, so counts are numbers.
LEMMA Counts ==
  ASSUME NEW S, S \subseteq SubIds
  PROVE  IsFiniteSet(S) /\ Cardinality(S) \in Nat
<1>1. IsFiniteSet(SubIds)
  BY Numbers, FS_Interval DEF SubIds
<1> QED
  BY <1>1, FS_Subset, FS_CardinalityType

LEMMA SolveCountType == ASSUME NEW c PROVE SolveCount(c) \in Nat
BY Counts DEF SolveCount, Solves, Stored

\* The scorer's answer.
LEMMA ScoredType ==
  ASSUME NEW m, NEW n \in Nat
  PROVE  Scored(m, n).by \in By /\ Scored(m, n).val \in Nat /\ Scored(m, n).val \in {0, n}
BY DEF Scored, By

\* RecordScore changes no row but s, and of s only the record.
LEMMA RecordScoreKeeps ==
  ASSUME TypeOK, NEW s \in SubIds \cup {0}, NEW b \in By, NEW v \in Nat,
         subs' = RecordScore(s, b, v)
  PROVE  subs' \in [SubIds -> Sub] /\ Kept
<1>1. CASE subs' = subs
  BY <1>1 DEF TypeOK, Kept
<1>2. CASE s \in Stored /\ subs' = [subs EXCEPT ![s].by = b, ![s].val = v]
  <2>1. s \in SubIds
    BY <1>2 DEF Stored
  <2>2. PICK row \in Sub : row = [subs[s] EXCEPT !.by = b, !.val = v]
    BY <2>1 DEF TypeOK, Sub
  <2>3. subs' = [subs EXCEPT ![s] = row]
    BY <1>2, <2>1, <2>2
  <2>4. subs' \in [SubIds -> Sub]
    BY <2>1, <2>3 DEF TypeOK
  <2>5. row.chal = subs[s].chal /\ row.team = subs[s].team /\ row.correct = subs[s].correct
    BY <2>1, <2>2 DEF TypeOK, Sub
  <2> QED
    BY <2>1, <2>3, <2>4, <2>5 DEF Kept, TypeOK
<1> QED
  BY <1>1, <1>2 DEF RecordScore

\* The row the pass is at.
LEMMA PassMin ==
  ASSUME TypeOK, rep.list # {} PROVE Min(rep.list) \in rep.list /\ Min(rep.list) \in SubIds
<1>1. rep.list \subseteq SubIds
  BY DEF TypeOK, Rep
<1>2. rep.list \subseteq Nat
  BY <1>1, Numbers DEF SubIds
<1> QED
  BY <1>1, <1>2, MinMember

-----------------------------------------------------------------------------
(* Type correctness *)

\* A step of request r, and the others untouched.
LEMMA ReqStep ==
  ASSUME TypeOK, NEW r \in Reqs, NEW q \in Req, req' = [req EXCEPT ![r] = q]
  PROVE  req' \in [Reqs -> Req]
BY DEF TypeOK

LEMMA FaultType == ASSUME TypeOK, Fault \/ UNCHANGED faults PROVE faults' \in Nat
BY DEF Fault, TypeOK

LEMMA FinishType ==
  ASSUME TypeOK, NEW r \in Reqs, Finish(r) PROVE req' \in [Reqs -> Req]
BY Idles DEF Finish, TypeOK

LEMMA LabelType ==
  ASSUME TypeOK, NEW r \in Reqs,
         NEW l \in {"lock", "decide", "insert", "publish"}, Step(r, l)
  PROVE  req' \in [Reqs -> Req]
<1>1. [req[r] EXCEPT !.pc = l] \in Req
  BY DEF TypeOK, Req
<1>2. req' = [req EXCEPT ![r] = [req[r] EXCEPT !.pc = l]]
  BY DEF Step
<1> QED
  BY <1>1, <1>2, ReqStep

LEMMA NewSubType ==
  ASSUME TypeOK, NEW r \in Reqs PROVE NewSub(r) \in Sub
<1>1. Correct(r) \in BOOLEAN
  BY DEF Correct
<1>2. req[r].chal \in Chals \cup {NoChal} /\ req[r].team \in Teams \cup {NoTeam}
  BY DEF TypeOK, Req
<1> QED
  BY <1>1, <1>2 DEF NewSub, Sub, By

\* An edit keeps the row a row and moves its version.
LEMMA EditVersion ==
  ASSUME TypeOK, NEW c \in Chals, Edit(c)
  PROVE  \E ch \in Chal : /\ chals' = [chals EXCEPT ![c] = [ch EXCEPT !.ver = @ + 1]]
                          /\ ch.ver = chals[c].ver
<1>1. PICK ch : /\ ch \in {[chals[c] EXCEPT !.answer = a] : a \in Guesses}
                         \cup {[chals[c] EXCEPT !.visible = ~@]}
                         \cup {[chals[c] EXCEPT !.type = y] : y \in Types}
                         \cup {[chals[c] EXCEPT !.max = n] : n \in Limits}
                         \cup {[chals[c] EXCEPT !.mode = m] : m \in Modes \cup {Builtin}}
                /\ chals' = [chals EXCEPT ![c] = [ch EXCEPT !.ver = @ + 1]]
  BY DEF Edit
<1> DEFINE P(x) == x \in Chal /\ x.ver = chals[c].ver
<1>2. chals[c] \in Chal
  BY DEF TypeOK
<1>3. ASSUME NEW a \in Guesses PROVE P([chals[c] EXCEPT !.answer = a])
  BY <1>2 DEF Chal
<1>4. P([chals[c] EXCEPT !.visible = ~@])
  BY <1>2 DEF Chal
<1>5. ASSUME NEW y \in Types PROVE P([chals[c] EXCEPT !.type = y])
  BY <1>2 DEF Chal
<1>6. ASSUME NEW n \in Limits PROVE P([chals[c] EXCEPT !.max = n])
  BY <1>2 DEF Chal
<1>7. ASSUME NEW m \in Modes \cup {Builtin} PROVE P([chals[c] EXCEPT !.mode = m])
  BY <1>2 DEF Chal
<1>8. P(ch)
  <2> HIDE DEF P
  <2> QED
    BY <1>1, <1>3, <1>4, <1>5, <1>6, <1>7, Zenon
<1> QED
  BY <1>1, <1>8

\* Every operation keeps the types.
LEMMA TypeStep == ASSUME IInv, [Next]_vars PROVE TypeOK'
<1> USE DEF IInv
<1>0. CASE UNCHANGED vars
  BY <1>0 DEF vars, TypeOK
<1>1. ASSUME NEW r \in Reqs, NEW t \in Teams, NEW c \in Chals, NEW g \in Guesses,
             Begin(r, t, c, g)
      PROVE  TypeOK'
  <2>1. [req[r] EXCEPT !.pc = "read", !.team = t, !.chal = c, !.guess = g] \in Req
    <3>1. req[r] \in Req
      BY DEF TypeOK
    <3> QED
      BY <3>1 DEF Req
  <2>2. req' \in [Reqs -> Req]
    BY <1>1, <2>1, ReqStep DEF Begin, TypeOK
  <2> QED
    BY <1>1, <2>2 DEF Begin, TypeOK
<1>2. ASSUME NEW r \in Reqs, Read(r) PROVE TypeOK'
  <2>1. CASE Finish(r)
    BY <1>2, <2>1, FinishType DEF Read, TypeOK
  <2>2. CASE chals[req[r].chal].there /\ ~Finish(r)
    <3> DEFINE ch == chals[req[r].chal]
               l == IF ch.type = Builtin THEN "lock" ELSE "check"
               new == [req[r] EXCEPT !.pc = l, !.cur = ch]
    <3>1. ch \in Chal /\ l \in {"lock", "check"} /\ req[r] \in Req
      BY <1>2 DEF Read, Begun, Requests, TInv, TypeOK
    <3>2. new \in Req
      <4> HIDE DEF ch, l
      <4> QED
        BY <3>1 DEF Req
    <3>4. req' = [req EXCEPT ![r] = new]
      BY <1>2, <2>2, Zenon DEF Read
    <3> HIDE DEF new
    <3>3. req' \in [Reqs -> Req]
      BY <3>2, <3>4, ReqStep
    <3> QED
      BY <1>2, <3>3 DEF Read, TypeOK
  <2> QED
    BY <1>2, <2>1, <2>2 DEF Read
<1>3. ASSUME NEW r \in Reqs, PluginVerdict(r) PROVE TypeOK'
  <2>1. CASE Finish(r)
    BY <1>3, <2>1, FinishType DEF PluginVerdict, TypeOK
  <2>2. CASE ~Finish(r)
    <3> DEFINE v == IF req[r].guess = req[r].cur.answer THEN "right" ELSE "wrong"
               new == [req[r] EXCEPT !.pc = "lock", !.verdict = v]
    <3>1. new \in Req
      <4>1. req[r] \in Req /\ v \in {"right", "wrong"}
        BY DEF TypeOK
      <4> HIDE DEF v
      <4> QED
        BY <4>1 DEF Req
    <3>3. req' = [req EXCEPT ![r] = new]
      BY <1>3, <2>2, Zenon DEF PluginVerdict
    <3> HIDE DEF new
    <3>2. req' \in [Reqs -> Req]
      BY <3>1, <3>3, ReqStep
    <3> QED
      BY <1>3, <3>2 DEF PluginVerdict, TypeOK
  <2> QED
    BY <2>1, <2>2
<1>4. ASSUME NEW r \in Reqs, Lock(r) PROVE TypeOK'
  <2>1. req' \in [Reqs -> Req]
    BY <1>4, FinishType, LabelType DEF Lock
  <2>2. lock' \in [Chals -> Reqs \cup {Free}]
    BY <1>4 DEF Lock, TypeOK
  <2> QED
    BY <1>4, <2>1, <2>2 DEF Lock, TypeOK
<1>5. ASSUME NEW r \in Reqs, Decide(r) PROVE TypeOK'
  <2>1. req' \in [Reqs -> Req]
    BY <1>5, FinishType, LabelType DEF Decide
  <2>2. lock' \in [Chals -> Reqs \cup {Free}]
    BY <1>5 DEF Decide, Unlock, TypeOK
  <2> QED
    BY <1>5, <2>1, <2>2 DEF Decide, TypeOK
<1>6. ASSUME NEW r \in Reqs, Insert(r) PROVE TypeOK'
  <2>1. lock' \in [Chals -> Reqs \cup {Free}]
    BY <1>6 DEF Insert, Unlock, TypeOK
  <2>2. faults' \in Nat
    BY <1>6, FaultType DEF Insert
  <2>3. subs' \in [SubIds -> Sub] /\ nextSub' \in Nat \ {0}
    BY <1>6, NewSubType DEF Insert, TypeOK
  <2>4. req' \in [Reqs -> Req]
    <3>1. CASE Finish(r)
      BY <3>1, FinishType
    <3>2. CASE nextSub <= MaxSubs /\ req' = [req EXCEPT ![r].pc = "count", ![r].sub = nextSub]
      <4>1. nextSub \in SubIds
        BY <3>2, Numbers DEF TypeOK, SubIds
      <4> DEFINE new == [req[r] EXCEPT !.pc = "count", !.sub = nextSub]
      <4>2. new \in Req
        <5>1. req[r] \in Req
          BY DEF TypeOK
        <5> QED
          BY <4>1, <5>1 DEF Req
      <4>3. req' = [req EXCEPT ![r] = new]
        BY <3>2
      <4> HIDE DEF new
      <4> QED
        BY <4>2, <4>3, ReqStep
    <3> QED
      BY <1>6, <3>1, <3>2 DEF Insert
  <2> QED
    BY <1>6, <2>1, <2>2, <2>3, <2>4 DEF Insert, TypeOK
<1>7. ASSUME NEW r \in Reqs, Count(r) PROVE TypeOK'
  <2>1. faults' \in Nat
    BY <1>7, FaultType DEF Count
  <2>2. req' \in [Reqs -> Req]
    <3>1. CASE Finish(r)
      BY <3>1, FinishType
    <3>2. CASE ~Finish(r)
      <4> DEFINE n == SolveCount(req[r].chal)
                 l == IF req[r].cur.mode = Builtin THEN "publish" ELSE "score"
      <4>1. n \in Nat
        BY SolveCountType
      <4>2. [req[r] EXCEPT !.val = n, !.pc = l] \in Req
        <5>1. req[r] \in Req /\ l \in {"publish", "score"}
          BY DEF TypeOK
        <5> HIDE DEF n, l
        <5> QED
          BY <4>1, <5>1 DEF Req
      <4>3. req' = [req EXCEPT ![r] = [req[r] EXCEPT !.val = n, !.pc = l]]
        BY <1>7, <3>2, Zenon DEF Count
      <4> QED
        BY <4>2, <4>3, ReqStep
    <3> QED
      BY <3>1, <3>2
  <2> QED
    BY <1>7, <2>1, <2>2 DEF Count, TypeOK
<1>8. ASSUME NEW r \in Reqs, Score(r) PROVE TypeOK'
  <2> DEFINE s == Scored(req[r].cur.mode, req[r].val)
  <2>1. s.by \in By /\ s.val \in Nat
    BY ScoredType DEF TypeOK, Req
  <2>2. [req[r] EXCEPT !.pc = "record", !.by = s.by, !.val = s.val] \in Req
    <3> HIDE DEF s
    <3>1. req[r] \in Req
      BY DEF TypeOK
    <3> QED
      BY <2>1, <3>1 DEF Req
  <2>3. req' = [req EXCEPT ![r] = [req[r] EXCEPT !.pc = "record", !.by = s.by, !.val = s.val]]
    BY <1>8, Zenon DEF Score
  <2>4. req' \in [Reqs -> Req]
    BY <2>2, <2>3, ReqStep
  <2> QED
    BY <1>8, <2>4 DEF Score, TypeOK
<1>9. ASSUME NEW r \in Reqs, Record(r) PROVE TypeOK'
  <2>1. req' \in [Reqs -> Req] /\ faults' \in Nat
    BY <1>9, LabelType, FaultType DEF Record
  <2>2. req[r].sub \in SubIds \cup {0} /\ req[r].by \in By /\ req[r].val \in Nat
    BY DEF TypeOK, Req
  <2>3. subs' \in [SubIds -> Sub]
    <3>1. CASE subs' = RecordScore(req[r].sub, req[r].by, req[r].val)
      BY <2>2, <3>1, RecordScoreKeeps
    <3> QED
      BY <1>9, <3>1 DEF Record, TypeOK
  <2> QED
    BY <1>9, <2>1, <2>3 DEF Record, TypeOK
<1>10. ASSUME NEW r \in Reqs, Publish(r) PROVE TypeOK'
  <2>1. req' \in [Reqs -> Req]
    BY <1>10, FinishType DEF Publish
  <2>2. req[r].sub \in SubIds
    BY <1>10 DEF Publish, Begun, Requests, TInv
  <2> QED
    BY <1>10, <2>1, <2>2 DEF Publish, TypeOK
<1>11. ASSUME RepairList PROVE TypeOK'
  <2> DEFINE L == Oldest(Needing, Batch)
  <2>1. L \subseteq SubIds
    BY DEF Oldest, Needing, Stored
  <2>2. ModeOf \in [Chals -> Modes \cup {Builtin}]
    BY DEF ModeOf, TypeOK, Chal
  <2>a. rep' = [rep EXCEPT !.pc = "score", !.list = L, !.mode = ModeOf]
    BY <1>11 DEF RepairList
  <2>3. rep' \in Rep
    <3> HIDE DEF L
    <3> QED
      BY <2>1, <2>2, <2>a DEF TypeOK, Rep
  <2> QED
    BY <1>11, <2>3 DEF RepairList, TypeOK
<1>12. ASSUME RepairScore PROVE TypeOK'
  <2> DEFINE s == Min(rep.list)
             c == subs[s].chal
             n == IF rep.cnt[c] = 0 THEN SolveCount(c) ELSE rep.cnt[c]
             v == Scored(rep.mode[c], n)
  <2>1. CASE s \in Stored
    <3>1. c \in Chals
      BY <2>1 DEF TInv, Logged
    <3>2. n \in Nat
      BY <3>1, SolveCountType DEF TypeOK, Rep
    <3>3. v.by \in By /\ v.val \in Nat
      BY <3>2, ScoredType
    <3>4. rep' = [rep EXCEPT !.pc = "write", !.cnt[c] = n, !.by = v.by, !.val = v.val]
      BY <1>12, <2>1 DEF RepairScore
    <3>5. rep' \in Rep
      <4> HIDE DEF s, c, n, v
      <4> QED
        BY <3>1, <3>2, <3>3, <3>4 DEF TypeOK, Rep
    <3> QED
      BY <1>12, <3>5 DEF RepairScore, TypeOK
  <2>2. CASE s \notin Stored
    BY <1>12, <2>2 DEF RepairScore, TypeOK, Rep
  <2> QED
    BY <2>1, <2>2
<1>13. ASSUME RepairWrite PROVE TypeOK'
  <2>1. faults' \in Nat
    BY <1>13, FaultType DEF RepairWrite
  <2>2. rep' \in Rep
    BY <1>13 DEF RepairWrite, TypeOK, Rep, By
  <2>3. subs' \in [SubIds -> Sub]
    <3>1. CASE subs' = RecordScore(Min(rep.list), rep.by, rep.val)
      <4>1. Min(rep.list) \in SubIds
        BY <1>13, PassMin DEF RepairWrite, TInv, Passing
      <4>2. rep.by \in By /\ rep.val \in Nat
        BY DEF TypeOK, Rep
      <4> QED
        BY <3>1, <4>1, <4>2, RecordScoreKeeps
    <3> QED
      BY <1>13, <3>1 DEF RepairWrite, TypeOK
  <2> QED
    BY <1>13, <2>1, <2>2, <2>3 DEF RepairWrite, TypeOK
<1>14. ASSUME RepairEnd PROVE TypeOK'
  <2>1. rep' \in Rep
    BY <1>14 DEF RepairEnd, Forgotten, IdleRep, TypeOK, Rep
  <2> QED
    BY <1>14, <2>1 DEF RepairEnd, TypeOK
<1>15. ASSUME NEW c \in Chals, Edit(c) PROVE TypeOK'
  <2>1. PICK ch \in Chal : chals' = [chals EXCEPT ![c] = [ch EXCEPT !.ver = @ + 1]]
    BY <1>15, EditVersion
  <2>3. [ch EXCEPT !.ver = @ + 1] \in Chal
    BY <2>1 DEF Chal
  <2>4. chals' \in [Chals -> Chal]
    BY <2>1, <2>3 DEF TypeOK
  <2> QED
    BY <1>15, <2>4 DEF Edit, TypeOK
<1>16. ASSUME NEW c \in Chals, Delete(c) PROVE TypeOK'
  <2>1. chals' \in [Chals -> Chal]
    <3> DEFINE new == [chals[c] EXCEPT !.there = FALSE]
    <3>1. chals \in [Chals -> Chal] /\ chals' = [chals EXCEPT ![c] = new]
      BY <1>16 DEF Delete, TypeOK
    <3>2. new \in Chal
      BY <3>1 DEF Chal
    <3> HIDE DEF new
    <3> QED
      BY <3>1, <3>2
  <2>2. subs' \in [SubIds -> Sub]
    BY <1>16, Idles DEF Delete, TypeOK
  <2> QED
    BY <1>16, <2>1, <2>2 DEF Delete, TypeOK
<1>17. ASSUME NEW m \in Modes, PluginDown(m) \/ PluginUp(m) PROVE TypeOK'
  BY <1>17, FaultType DEF PluginDown, PluginUp, TypeOK
<1>18. ASSUME Crash PROVE TypeOK'
  BY <1>18, FaultType, Idles DEF Crash, TypeOK
<1> QED
  BY <1>0, <1>1, <1>2, <1>3, <1>4, <1>5, <1>6, <1>7, <1>8, <1>9, <1>10, <1>11, <1>12,
     <1>13, <1>14, <1>15, <1>16, <1>17, <1>18 DEF Next, Progress, Repairing, Environment

-----------------------------------------------------------------------------
(* Requests *)

\* A step of one request disturbs no other: nobody else's row lock is taken away.
LEMMA OneRequest ==
  ASSUME IInv, NEW r \in Reqs, NEW new, req' = [req EXCEPT ![r] = new],
         UNCHANGED chals, nextSub' \in {nextSub, nextSub + 1},
         \A c \in Chals : lock[c] \notin {r, Free} => lock'[c] = lock[c],
         Begun(r)' /\ Locked(r)' /\ Versioned(r)' /\ Judged(r)'
  PROVE  Requests'
<1>1. SUFFICES ASSUME NEW q \in Reqs, q # r
               PROVE  Begun(q)' /\ Locked(q)' /\ Versioned(q)' /\ Judged(q)'
  BY DEF Requests
<1>2. req'[q] = req[q] /\ q # Free
  BY <1>1, NoneIsNone DEF IInv, TypeOK
<1>3. Begun(q) /\ Locked(q) /\ Versioned(q) /\ Judged(q)
  BY DEF IInv, TInv, Requests
<1>4. Begun(q)'
  <2>1. req[q].sub \in SubIds /\ req[q].sub < nextSub => req[q].sub < nextSub'
    BY Numbers DEF SubIds, IInv, TypeOK
  <2> QED
    BY <1>2, <1>3, <2>1 DEF Begun
<1>5. Locked(q)'
  BY <1>2, <1>3 DEF Begun, Locked
<1>6. Versioned(q)' /\ Judged(q)'
  BY <1>2, <1>3 DEF Versioned, Judged
<1> QED
  BY <1>4, <1>5, <1>6

\* A request that ends promises nothing more.
LEMMA OneEnds ==
  ASSUME IInv, NEW r \in Reqs, Finish(r),
         UNCHANGED chals, nextSub' \in {nextSub, nextSub + 1},
         \A c \in Chals : lock[c] \notin {r, Free} => lock'[c] = lock[c]
  PROVE  Requests'
<1>1. req'[r] = IdleReq /\ req' = [req EXCEPT ![r] = IdleReq]
  BY DEF Finish, IInv, TypeOK
<1>2. Begun(r)' /\ Locked(r)' /\ Versioned(r)' /\ Judged(r)'
  BY <1>1 DEF IdleReq, Begun, Locked, Versioned, Judged
<1> QED
  BY <1>1, <1>2, OneRequest

LEMMA RequestsStep == ASSUME IInv, [Next]_vars PROVE Requests'
<1>0. ASSUME UNCHANGED <<chals, lock, nextSub, req>> PROVE Requests'
  BY <1>0 DEF IInv, TInv, Requests, Begun, Locked, Versioned, Judged
<1>t. /\ req \in [Reqs -> Req] /\ lock \in [Chals -> Reqs \cup {Free}]
      /\ \A r \in Reqs : Begun(r) /\ Locked(r) /\ Versioned(r) /\ Judged(r)
  BY DEF IInv, TInv, TypeOK, Requests
<1>1. ASSUME NEW r \in Reqs, NEW t \in Teams, NEW c \in Chals, NEW g \in Guesses,
             Begin(r, t, c, g)
      PROVE  Requests'
  <2>1. /\ req'[r].pc = "read" /\ req'[r].team = t /\ req'[r].chal = c
        /\ req'[r].guess = g /\ req'[r].verdict = req[r].verdict
    BY <1>1, <1>t DEF Begin, Req
  <2>2. req[r].verdict = "none"
    BY <1>1, <1>t DEF Begin, Begun
  <2>3. Begun(r)' /\ Locked(r)' /\ Versioned(r)' /\ Judged(r)'
    BY <2>1, <2>2 DEF Begun, Locked, Versioned, Judged
  <2> QED
    BY <1>1, <2>3, OneRequest DEF Begin
<1>2. ASSUME NEW r \in Reqs, Read(r) PROVE Requests'
  <2>1. CASE Finish(r)
    BY <1>2, <2>1, OneEnds DEF Read
  <2>2. CASE ~Finish(r)
    <3> DEFINE ch == chals[req[r].chal]
               l == IF ch.type = Builtin THEN "lock" ELSE "check"
               new == [req[r] EXCEPT !.pc = l, !.cur = ch]
    <3>1. req' = [req EXCEPT ![r] = new]
      BY <1>2, <2>2, Zenon DEF Read
    <3>2. ch \in Chal /\ req[r].chal \in Chals /\ req[r].verdict = "none"
      BY <1>2, <1>t DEF Read, Begun, IInv, TypeOK
    <3>3. /\ req'[r].pc \in {"lock", "check"} /\ req'[r].team = req[r].team
          /\ req'[r].chal = req[r].chal /\ req'[r].guess = req[r].guess
          /\ req'[r].verdict = "none" /\ req'[r].cur = ch
      <4> HIDE DEF ch
      <4> QED
        BY <1>t, <3>1, <3>2 DEF Req
    <3>4. chals' = chals
      BY <1>2 DEF Read
    <3>5. Begun(r)' /\ Locked(r)' /\ Versioned(r)' /\ Judged(r)'
      BY <1>2, <1>t, <3>2, <3>3, <3>4 DEF Read, Begun, Locked, Versioned, Judged, Chal
    <3> QED
      BY <1>2, <3>1, <3>5, OneRequest DEF Read
  <2> QED
    BY <2>1, <2>2
<1>3. ASSUME NEW r \in Reqs, PluginVerdict(r) PROVE Requests'
  <2>1. CASE Finish(r)
    BY <1>3, <2>1, OneEnds DEF PluginVerdict
  <2>2. CASE ~Finish(r)
    <3> DEFINE v == IF req[r].guess = req[r].cur.answer THEN "right" ELSE "wrong"
               new == [req[r] EXCEPT !.pc = "lock", !.verdict = v]
    <3>1. req' = [req EXCEPT ![r] = new]
      BY <1>3, <2>2, Zenon DEF PluginVerdict
    <3>2. /\ req'[r].pc = "lock" /\ req'[r].team = req[r].team
          /\ req'[r].chal = req[r].chal /\ req'[r].guess = req[r].guess
          /\ req'[r].verdict = v /\ req'[r].cur = req[r].cur
      BY <1>t, <3>1 DEF Req
    <3>3. Begun(r)' /\ Locked(r)' /\ Versioned(r)' /\ Judged(r)'
      BY <1>3, <1>t, <3>2 DEF PluginVerdict, Begun, Locked, Versioned, Judged
    <3> QED
      BY <1>3, <3>1, <3>3, OneRequest DEF PluginVerdict
  <2> QED
    BY <2>1, <2>2
<1>l. ASSUME NEW r \in Reqs, NEW l, Step(r, l)
      PROVE  /\ req' = [req EXCEPT ![r] = [req[r] EXCEPT !.pc = l]]
             /\ req'[r].pc = l /\ req'[r].team = req[r].team
             /\ req'[r].chal = req[r].chal /\ req'[r].guess = req[r].guess
             /\ req'[r].verdict = req[r].verdict /\ req'[r].cur = req[r].cur
             /\ req'[r].sub = req[r].sub
  BY <1>l, <1>t DEF Step, Req
<1>4. ASSUME NEW r \in Reqs, Lock(r) PROVE Requests'
  <2>1. CASE Finish(r)
    <3>1. \A c \in Chals : lock[c] \notin {r, Free} => lock'[c] = lock[c]
      BY <1>4, <1>t DEF Lock
    <3> QED
      BY <1>4, <2>1, <3>1, OneEnds DEF Lock
  <2>2. CASE ~Finish(r)
    <3>1. /\ Step(r, "decide") /\ ~Void(r) /\ UNCHANGED <<chals, nextSub>>
          /\ lock' = [lock EXCEPT ![req[r].chal] = r] /\ lock[req[r].chal] = Free
      BY <1>4, <2>2 DEF Lock
    <3>2. Begun(r)' /\ Locked(r)' /\ Versioned(r)' /\ Judged(r)'
      BY <1>4, <1>t, <1>l, <3>1 DEF Lock, Void, Begun, Locked, Versioned, Judged
    <3>3. \A c \in Chals : lock[c] \notin {r, Free} => lock'[c] = lock[c]
      BY <1>t, <3>1
    <3> QED
      BY <1>l, <3>1, <3>2, <3>3, OneRequest
  <2> QED
    BY <2>1, <2>2
<1>5. ASSUME NEW r \in Reqs, Decide(r) PROVE Requests'
  <2>1. CASE Finish(r) /\ Unlock(req[r].chal)
    <3>1. \A c \in Chals : lock[c] \notin {r, Free} => lock'[c] = lock[c]
      BY <1>5, <1>t, <2>1 DEF Decide, Locked, Begun, Unlock
    <3> QED
      BY <1>5, <2>1, <3>1, OneEnds DEF Decide
  <2>2. CASE Step(r, "insert") /\ UNCHANGED lock
    <3>1. Begun(r)' /\ Locked(r)' /\ Versioned(r)' /\ Judged(r)'
      BY <1>5, <1>t, <1>l, <2>2 DEF Decide, Begun, Locked, Versioned, Judged
    <3> QED
      BY <1>5, <1>l, <2>2, <3>1, OneRequest DEF Decide
  <2> QED
    BY <1>5, <2>1, <2>2 DEF Decide
<1>u. ASSUME NEW r \in Reqs, req[r].pc = "insert", Unlock(req[r].chal)
      PROVE  \A c \in Chals : lock[c] \notin {r, Free} => lock'[c] = lock[c]
  BY <1>u, <1>t DEF Locked, Begun, Unlock
<1>6. ASSUME NEW r \in Reqs, Insert(r) PROVE Requests'
  <2>1. /\ req[r].pc = "insert" /\ UNCHANGED chals /\ nextSub' \in {nextSub, nextSub + 1}
        /\ \A c \in Chals : lock[c] \notin {r, Free} => lock'[c] = lock[c]
    BY <1>6, <1>u DEF Insert
  <2>2. CASE Finish(r)
    BY <2>1, <2>2, OneEnds
  <2>3. CASE ~Finish(r)
    <3>1. /\ nextSub <= MaxSubs /\ nextSub' = nextSub + 1
          /\ req' = [req EXCEPT ![r].pc = "count", ![r].sub = nextSub]
      BY <1>6, <2>3 DEF Insert
    <3>2. nextSub \in SubIds /\ nextSub < nextSub'
      BY <3>1, Numbers DEF SubIds, IInv, TypeOK
    <3>3. /\ req' = [req EXCEPT ![r] = [req[r] EXCEPT !.pc = "count", !.sub = nextSub]]
          /\ req'[r].pc = "count" /\ req'[r].team = req[r].team
          /\ req'[r].chal = req[r].chal /\ req'[r].guess = req[r].guess
          /\ req'[r].cur = req[r].cur /\ req'[r].sub = nextSub
      <4> DEFINE new == [req[r] EXCEPT !.pc = "count", !.sub = nextSub]
      <4>1. req[r] \in Req /\ req' = [req EXCEPT ![r] = new]
        BY <1>t, <3>1
      <4>2. /\ new.pc = "count" /\ new.team = req[r].team /\ new.chal = req[r].chal
            /\ new.guess = req[r].guess /\ new.cur = req[r].cur /\ new.sub = nextSub
        BY <4>1 DEF Req
      <4>3. req'[r] = new
        BY <1>t, <4>1
      <4> QED
        BY <4>1, <4>2, <4>3
    <3>4. Begun(r)' /\ Locked(r)' /\ Versioned(r)' /\ Judged(r)'
      BY <1>t, <2>1, <3>2, <3>3 DEF Begun, Locked, Versioned, Judged
    <3> QED
      BY <2>1, <3>3, <3>4, OneRequest
  <2> QED
    BY <2>2, <2>3
<1>7. ASSUME NEW r \in Reqs, NEW new, req' = [req EXCEPT ![r] = new],
             UNCHANGED <<chals, lock, nextSub>>,
             req[r].pc \in {"count", "score", "record"},
             new.pc \in {"score", "record", "publish"},
             new.team = req[r].team, new.chal = req[r].chal, new.guess = req[r].guess,
             new.cur = req[r].cur, new.sub = req[r].sub
      PROVE  Requests'
  <2>1. req'[r] = new
    BY <1>7, <1>t
  <2>2. Begun(r)' /\ Locked(r)' /\ Versioned(r)' /\ Judged(r)'
    BY <1>7, <1>t, <2>1 DEF Begun, Locked, Versioned, Judged
  <2> QED
    BY <1>7, <2>2, OneRequest
<1>8. ASSUME NEW r \in Reqs, Count(r) PROVE Requests'
  <2>1. CASE Finish(r)
    BY <1>8, <2>1, OneEnds DEF Count
  <2>2. CASE ~Finish(r)
    <3> DEFINE n == SolveCount(req[r].chal)
               l == IF req[r].cur.mode = Builtin THEN "publish" ELSE "score"
               new == [req[r] EXCEPT !.val = n, !.pc = l]
    <3>1. req' = [req EXCEPT ![r] = new]
      BY <1>8, <2>2, Zenon DEF Count
    <3>2. /\ new.pc \in {"publish", "score"} /\ new.team = req[r].team
          /\ new.chal = req[r].chal /\ new.guess = req[r].guess
          /\ new.cur = req[r].cur /\ new.sub = req[r].sub
      BY <1>t DEF Req
    <3>3. UNCHANGED <<chals, lock, nextSub>> /\ req[r].pc = "count"
      BY <1>8 DEF Count
    <3> HIDE DEF new
    <3> QED
      BY <1>7, <3>1, <3>2, <3>3
  <2> QED
    BY <2>1, <2>2
<1>9. ASSUME NEW r \in Reqs, Score(r) PROVE Requests'
  <2> DEFINE s == Scored(req[r].cur.mode, req[r].val)
             new == [req[r] EXCEPT !.pc = "record", !.by = s.by, !.val = s.val]
  <2>1. req' = [req EXCEPT ![r] = new]
    BY <1>9, Zenon DEF Score
  <2>2. /\ new.pc = "record" /\ new.team = req[r].team
        /\ new.chal = req[r].chal /\ new.guess = req[r].guess
        /\ new.cur = req[r].cur /\ new.sub = req[r].sub
    <3> HIDE DEF s
    <3> QED
      BY <1>t DEF Req
  <2>3. UNCHANGED <<chals, lock, nextSub>> /\ req[r].pc = "score"
    BY <1>9 DEF Score
  <2> HIDE DEF new
  <2> QED
    BY <1>7, <2>1, <2>2, <2>3
<1>10. ASSUME NEW r \in Reqs, Record(r) PROVE Requests'
  <2>1. /\ req' = [req EXCEPT ![r] = [req[r] EXCEPT !.pc = "publish"]]
        /\ UNCHANGED <<chals, lock, nextSub>> /\ req[r].pc = "record"
    BY <1>10 DEF Record, Step
  <2> DEFINE new == [req[r] EXCEPT !.pc = "publish"]
  <2>2. /\ new.pc = "publish" /\ new.team = req[r].team
        /\ new.chal = req[r].chal /\ new.guess = req[r].guess
        /\ new.cur = req[r].cur /\ new.sub = req[r].sub
    BY <1>t DEF Req
  <2>3. req' = [req EXCEPT ![r] = new]
    BY <2>1
  <2> HIDE DEF new
  <2> QED
    BY <1>7, <2>1, <2>2, <2>3
<1>11. ASSUME NEW r \in Reqs, Publish(r) PROVE Requests'
  BY <1>11, OneEnds DEF Publish
<1>12. ASSUME Repairing PROVE Requests'
  BY <1>0, <1>12 DEF Repairing, RepairList, RepairScore, RepairWrite, RepairEnd
<1>13. ASSUME NEW c \in Chals, Edit(c) PROVE Requests'
  <2>1. PICK ch \in Chal : chals' = [chals EXCEPT ![c] = [ch EXCEPT !.ver = @ + 1]] /\ ch.ver = chals[c].ver
    BY <1>13, EditVersion DEF IInv
  <2>2. chals'[c].ver = chals[c].ver + 1 /\ \A d \in Chals \ {c} : chals'[d] = chals[d]
    BY <2>1 DEF IInv, TypeOK, Chal
  <2>3. lock[c] = Free /\ UNCHANGED <<req, lock, nextSub>>
    BY <1>13 DEF Edit
  <2>4. ASSUME NEW r \in Reqs PROVE Begun(r)' /\ Locked(r)' /\ Versioned(r)' /\ Judged(r)'
    <3>1. Begun(r)' /\ Locked(r)'
      BY <1>t, <2>3 DEF Begun, Locked
    <3>2. CASE req[r].chal = c
      <4>1. req[r].pc \notin {"decide", "insert"}
        BY <1>t, <2>3, <3>2, NoneIsNone DEF Locked
      <4>2. req[r].pc \in {"check", "lock"} => req[r].cur.ver \in Nat /\ chals[c].ver \in Nat
        BY <1>t DEF Begun, Chal, IInv, TypeOK
      <4> QED
        BY <1>t, <2>2, <2>3, <3>1, <3>2, <4>1, <4>2 DEF Versioned, Judged
    <3>3. CASE req[r].chal # c
      BY <1>t, <2>2, <2>3, <3>1, <3>3 DEF Begun, Versioned, Judged
    <3> QED
      BY <3>2, <3>3
  <2> QED
    BY <2>4 DEF Requests
<1>14. ASSUME NEW c \in Chals, Delete(c) PROVE Requests'
  <2>1. \A d \in Chals : chals'[d].ver = chals[d].ver /\ chals'[d].answer = chals[d].answer
    BY <1>14 DEF Delete, IInv, TypeOK, Chal
  <2>2. UNCHANGED <<req, lock, nextSub>>
    BY <1>14 DEF Delete
  <2> QED
    BY <1>t, <2>1, <2>2 DEF Requests, Begun, Locked, Versioned, Judged
<1>15. ASSUME NEW m \in Modes, PluginDown(m) \/ PluginUp(m) PROVE Requests'
  BY <1>0, <1>15 DEF PluginDown, PluginUp
<1>16. ASSUME Crash PROVE Requests'
  <2>1. \A r \in Reqs : req'[r] = IdleReq
    BY <1>16 DEF Crash
  <2> QED
    BY <2>1 DEF IdleReq, Requests, Begun, Locked, Versioned, Judged
<1>17. CASE UNCHANGED vars
  BY <1>0, <1>17 DEF vars
<1> QED
  BY <1>1, <1>2, <1>3, <1>4, <1>5, <1>6, <1>8, <1>9, <1>10, <1>11, <1>12,
     <1>13, <1>14, <1>15, <1>16, <1>17 DEF Next, Progress, Environment

-----------------------------------------------------------------------------
(* The log *)

\* A step keeps the log, appends the row of a request that is inside its
\* transaction, or deletes the rows of a challenge nobody has locked.
LEMMA LogStep ==
  ASSUME IInv, [Next]_vars
  PROVE  \/ Kept /\ nextSub' = nextSub /\ (UNCHANGED subs \/ Recorded)
         \/ \E r \in Reqs : Appends(r)
         \/ \E c \in Chals : Cascades(c)
<1>0. CASE UNCHANGED <<subs, nextSub>>
  BY <1>0 DEF Kept
<1>1. ASSUME NEW r \in Reqs, Insert(r), ~UNCHANGED <<subs, nextSub>> PROVE Appends(r)
  <2>1. /\ req[r].pc = "insert" /\ nextSub <= MaxSubs /\ nextSub' = nextSub + 1
        /\ subs' = [subs EXCEPT ![nextSub] = NewSub(r)] /\ UNCHANGED chals
    BY <1>1 DEF Insert
  <2>2. \/ req' = [req EXCEPT ![r].pc = "count", ![r].sub = nextSub]
        \/ req' = [req EXCEPT ![r] = IdleReq]
    BY <1>1 DEF Insert, Finish
  <2>3. req'[r].pc # "insert" /\ \A q \in Reqs \ {r} : req'[q] = req[q]
    BY <2>2 DEF IdleReq, IInv, TypeOK, Req
  <2> QED
    BY <2>1, <2>3 DEF Appends
<1>2. ASSUME NEW r \in Reqs, Record(r)
      PROVE  Kept /\ nextSub' = nextSub /\ (UNCHANGED subs \/ Recorded)
  <2>1. req[r].sub \in SubIds \cup {0} /\ req[r].by \in By /\ req[r].val \in Nat
    BY DEF IInv, TypeOK, Req
  <2>2. CASE UNCHANGED subs
    BY <1>2, <2>2 DEF Kept, Record
  <2>3. CASE subs' = RecordScore(req[r].sub, req[r].by, req[r].val)
    BY <1>2, <2>1, <2>3, RecordScoreKeeps DEF Record, Recorded, IInv
  <2> QED
    BY <1>2, <2>2, <2>3 DEF Record
<1>3. ASSUME RepairWrite
      PROVE  Kept /\ nextSub' = nextSub /\ (UNCHANGED subs \/ Recorded)
  <2>1. Min(rep.list) \in SubIds /\ rep.by \in By /\ rep.val \in Nat
    BY <1>3, PassMin DEF RepairWrite, IInv, TInv, Passing, TypeOK, Rep
  <2>2. CASE UNCHANGED subs
    BY <1>3, <2>2 DEF Kept, RepairWrite
  <2>3. CASE subs' = RecordScore(Min(rep.list), rep.by, rep.val)
    BY <1>3, <2>1, <2>3, RecordScoreKeeps DEF RepairWrite, Recorded, IInv
  <2> QED
    BY <1>3, <2>2, <2>3 DEF RepairWrite
<1>4. ASSUME NEW c \in Chals, Delete(c) PROVE Cascades(c)
  BY <1>4 DEF Delete, Cascades
<1>5. ASSUME NEW r \in Reqs, \/ Read(r) \/ PluginVerdict(r) \/ Lock(r) \/ Decide(r)
                             \/ Count(r) \/ Score(r) \/ Publish(r)
      PROVE  UNCHANGED <<subs, nextSub>>
  BY <1>5 DEF Read, PluginVerdict, Lock, Decide, Count, Score, Publish
<1>6. ASSUME NEW r \in Reqs, NEW t \in Teams, NEW c \in Chals, NEW g \in Guesses,
             Begin(r, t, c, g)
      PROVE  UNCHANGED <<subs, nextSub>>
  BY <1>6 DEF Begin
<1>7. ASSUME RepairList \/ RepairScore \/ RepairEnd \/ Crash PROVE UNCHANGED <<subs, nextSub>>
  BY <1>7 DEF RepairList, RepairScore, RepairEnd, Crash
<1>8. ASSUME NEW c \in Chals, Edit(c) PROVE UNCHANGED <<subs, nextSub>>
  BY <1>8 DEF Edit
<1>9. ASSUME NEW m \in Modes, PluginDown(m) \/ PluginUp(m) PROVE UNCHANGED <<subs, nextSub>>
  BY <1>9 DEF PluginDown, PluginUp
<1>10. CASE UNCHANGED vars
  BY <1>0, <1>10 DEF vars
<1> QED
  BY <1>0, <1>1, <1>2, <1>3, <1>4, <1>5, <1>6, <1>7, <1>8, <1>9, <1>10
     DEF Next, Progress, Repairing, Environment

LEMMA LoggedStep == ASSUME IInv, [Next]_vars PROVE Logged'
<1>1. CASE Kept /\ nextSub' = nextSub
  BY <1>1 DEF Kept, IInv, TInv, Logged, Stored
<1>2. ASSUME NEW r \in Reqs, Appends(r) PROVE Logged'
  <2>1. NewSub(r).chal \in Chals /\ NewSub(r).team \in Teams
    BY <1>2 DEF Appends, NewSub, IInv, TInv, Requests, Begun
  <2>2. SUFFICES ASSUME NEW s \in SubIds, subs'[s].chal # NoChal
                 PROVE  s < nextSub' /\ subs'[s].chal \in Chals /\ subs'[s].team \in Teams
    BY DEF Logged, Stored
  <2>3. CASE s = nextSub
    BY <1>2, <2>1, <2>3 DEF Appends, IInv, TypeOK
  <2>4. CASE s # nextSub
    <3>1. subs'[s] = subs[s] /\ s \in Stored
      BY <1>2, <2>2, <2>4 DEF Appends, IInv, TypeOK, Stored
    <3>2. s < nextSub /\ subs[s].chal \in Chals /\ subs[s].team \in Teams
      BY <3>1 DEF IInv, TInv, Logged
    <3>3. s \in Int /\ nextSub \in Int
      BY Numbers DEF SubIds, IInv, TypeOK
    <3> QED
      BY <1>2, <3>1, <3>2, <3>3 DEF Appends
  <2> QED
    BY <2>3, <2>4
<1>3. ASSUME NEW c \in Chals, Cascades(c) PROVE Logged'
  BY <1>3 DEF Cascades, NoSub, IInv, TInv, Logged, Stored, TypeOK
<1> QED
  BY <1>1, <1>2, <1>3, LogStep

\* The rows of challenge c are what they were.
Same(c) == \A s \in SubIds :
    /\ subs'[s].chal = c <=> subs[s].chal = c
    /\ subs[s].chal = c => /\ subs'[s].team = subs[s].team
                           /\ subs'[s].correct = subs[s].correct

LEMMA SameAttempts ==
  ASSUME NEW c \in Chals, NEW t, Same(c)
  PROVE  /\ Attempts(c, t)' = Attempts(c, t)
         /\ Solved(c, t)' <=> Solved(c, t)
<1>1. Attempts(c, t)' = Attempts(c, t)
  BY NoneIsNone DEF Attempts, Stored, Same
<1>2. \A s \in Attempts(c, t) : subs'[s].correct = subs[s].correct
  BY DEF Attempts, Stored, Same
<1> QED
  BY <1>1, <1>2 DEF Solved

\* Nobody adds or removes rows of a challenge another request has locked.
LEMMA LockedLog ==
  ASSUME IInv, [Next]_vars, NEW r \in Reqs, req[r].pc = "insert", req'[r].pc = "insert"
  PROVE  Same(req[r].chal)
<1>1. req[r].chal \in Chals /\ lock[req[r].chal] = r /\ r # Free
  BY NoneIsNone DEF IInv, TInv, Requests, Begun, Locked
<1>2. CASE Kept
  BY <1>2 DEF Kept, Same
<1>3. ASSUME NEW q \in Reqs, Appends(q) PROVE Same(req[r].chal)
  <2>1. NewSub(q).chal # req[r].chal
    <3>1. q # r /\ lock[req[q].chal] = q
      BY <1>3 DEF Appends, IInv, TInv, Requests, Locked
    <3> QED
      BY <1>1, <3>1 DEF NewSub
  <2>2. nextSub \notin Stored /\ nextSub \in SubIds
    BY <1>3, Numbers DEF Appends, IInv, TInv, Logged, TypeOK, SubIds
  <2>3. subs[nextSub].chal # req[r].chal
    BY <1>1, <2>2, NoneIsNone DEF Stored
  <2> QED
    BY <1>3, <2>1, <2>2, <2>3 DEF Appends, Same, IInv, TypeOK
<1>4. ASSUME NEW c \in Chals, Cascades(c) PROVE Same(req[r].chal)
  <2>1. c # req[r].chal /\ req[r].chal # NoChal
    BY <1>1, <1>4, NoneIsNone DEF Cascades
  <2> QED
    BY <1>4, <2>1 DEF Cascades, NoSub, Same
<1> QED
  BY <1>2, <1>3, <1>4, LogStep

\* A request is about to insert because it was, or because Decide let it through.
LEMMA ToInsert ==
  ASSUME IInv, [Next]_vars, NEW r \in Reqs, req'[r].pc = "insert"
  PROVE  \/ req'[r] = req[r] /\ chals'[req[r].chal].max = chals[req[r].chal].max
         \/ Decide(r)
<1>t. req \in [Reqs -> Req]
  BY DEF IInv, TypeOK
<1>0. CASE UNCHANGED <<req, chals>>
  BY <1>0
<1>1. ASSUME NEW q \in Reqs, NEW new, req' = [req EXCEPT ![q] = new], new.pc # "insert",
             UNCHANGED chals
      PROVE  req'[r] = req[r] /\ chals'[req[r].chal].max = chals[req[r].chal].max
  BY <1>1, <1>t
<1>2. ASSUME NEW q \in Reqs, Finish(q), UNCHANGED chals
      PROVE  req'[r] = req[r] /\ chals'[req[r].chal].max = chals[req[r].chal].max
  BY <1>1, <1>2 DEF Finish, IdleReq
<1>3. ASSUME NEW q \in Reqs, NEW l \in {"decide", "publish"}, Step(q, l), UNCHANGED chals
      PROVE  req'[r] = req[r] /\ chals'[req[r].chal].max = chals[req[r].chal].max
  <2>1. [req[q] EXCEPT !.pc = l].pc # "insert"
    BY <1>t DEF Req
  <2> QED
    BY <1>1, <1>3, <2>1 DEF Step
<1>4. ASSUME NEW q \in Reqs, NEW t \in Teams, NEW c \in Chals, NEW g \in Guesses,
             Begin(q, t, c, g)
      PROVE  req'[r] = req[r] /\ UNCHANGED chals
  BY <1>4, <1>t DEF Begin, Req
<1>5. ASSUME NEW q \in Reqs, Read(q) PROVE req'[r] = req[r] /\ UNCHANGED chals
  BY <1>5, <1>t DEF Read, Finish, IdleReq, Req
<1>6. ASSUME NEW q \in Reqs, PluginVerdict(q) PROVE req'[r] = req[r] /\ UNCHANGED chals
  BY <1>6, <1>t DEF PluginVerdict, Finish, IdleReq, Req
<1>7. ASSUME NEW q \in Reqs, Lock(q)
      PROVE  req'[r] = req[r] /\ chals'[req[r].chal].max = chals[req[r].chal].max
  BY <1>2, <1>3, <1>7 DEF Lock
<1>8. ASSUME NEW q \in Reqs, Decide(q), q # r PROVE req'[r] = req[r] /\ UNCHANGED chals
  BY <1>8, <1>t DEF Decide, Finish, Step
<1>9. ASSUME NEW q \in Reqs, Insert(q) PROVE req'[r] = req[r] /\ UNCHANGED chals
  <2>1. \/ req' = [req EXCEPT ![q].pc = "count", ![q].sub = nextSub]
        \/ req' = [req EXCEPT ![q] = IdleReq]
    BY <1>9 DEF Insert, Finish
  <2>2. UNCHANGED chals
    BY <1>9 DEF Insert
  <2> QED
    BY <2>1, <2>2, <1>t DEF IdleReq, Req
<1>10. ASSUME NEW q \in Reqs, Count(q) PROVE req'[r] = req[r] /\ UNCHANGED chals
  BY <1>10, <1>t DEF Count, Finish, IdleReq, Req
<1>11. ASSUME NEW q \in Reqs, Score(q) PROVE req'[r] = req[r] /\ UNCHANGED chals
  BY <1>11, <1>t DEF Score, Req
<1>12. ASSUME NEW q \in Reqs, Record(q) \/ Publish(q)
       PROVE  req'[r] = req[r] /\ chals'[req[r].chal].max = chals[req[r].chal].max
  BY <1>2, <1>3, <1>12 DEF Record, Publish
<1>13. ASSUME Repairing PROVE UNCHANGED <<req, chals>>
  BY <1>13 DEF Repairing, RepairList, RepairScore, RepairWrite, RepairEnd
<1>14. ASSUME NEW c \in Chals, Edit(c) \/ Delete(c)
       PROVE  req'[r] = req[r] /\ chals'[req[r].chal].max = chals[req[r].chal].max
  <2>1. UNCHANGED req /\ lock[c] = Free
    BY <1>14 DEF Edit, Delete
  <2>2. req[r].chal \in Chals /\ req[r].chal # c
    BY <2>1, NoneIsNone DEF IInv, TInv, Requests, Begun, Locked
  <2>3. chals'[req[r].chal] = chals[req[r].chal]
    BY <1>14, <2>2 DEF Edit, Delete, IInv, TypeOK
  <2> QED
    BY <2>1, <2>3
<1>15. ASSUME NEW m \in Modes, PluginDown(m) \/ PluginUp(m) PROVE UNCHANGED <<req, chals>>
  BY <1>15 DEF PluginDown, PluginUp
<1>16. ASSUME Crash PROVE FALSE
  BY <1>16 DEF Crash, IdleReq
<1>17. CASE UNCHANGED vars
  BY <1>17 DEF vars
<1> QED
  BY <1>0, <1>4, <1>5, <1>6, <1>7, <1>8, <1>9, <1>10, <1>11, <1>12, <1>13, <1>14,
     <1>15, <1>16, <1>17 DEF Next, Progress, Environment

\* What Decide found holds until the insert.
LEMMA ClearedStep == ASSUME IInv, [Next]_vars PROVE Cleared'
<1>1. SUFFICES ASSUME NEW r \in Reqs, req'[r].pc = "insert"
               PROVE  ~Solved(req[r].chal, req[r].team)' /\ ~AtLimit(r)'
  BY DEF Cleared
<1>2. CASE Decide(r)
  <2>1. Step(r, "insert") /\ ~Solved(req[r].chal, req[r].team) /\ ~AtLimit(r)
    BY <1>1, <1>2 DEF Decide, Finish, IdleReq, IInv, TypeOK
  <2>2. req'[r].chal = req[r].chal /\ req'[r].team = req[r].team
    BY <2>1 DEF Step, IInv, TypeOK, Req
  <2>3. UNCHANGED <<subs, chals>>
    BY <1>2 DEF Decide
  <2> QED
    BY <2>1, <2>2, <2>3 DEF Solved, AtLimit, Attempts, Stored
<1>3. CASE req'[r] = req[r] /\ chals'[req[r].chal].max = chals[req[r].chal].max
  <2>1. Same(req[r].chal) /\ req[r].chal \in Chals
    BY <1>1, <1>3, LockedLog DEF IInv, TInv, Requests, Begun
  <2>2. ~Solved(req[r].chal, req[r].team) /\ ~AtLimit(r)
    BY <1>1, <1>3 DEF IInv, TInv, Cleared
  <2>3. /\ (Attempts(req[r].chal, req[r].team))' = Attempts(req[r].chal, req[r].team)
        /\ (Solved(req[r].chal, req[r].team))' <=> Solved(req[r].chal, req[r].team)
    BY <1>3, <2>1, SameAttempts
  <2> QED
    BY <1>3, <2>2, <2>3 DEF AtLimit
<1> QED
  BY <1>1, <1>2, <1>3, ToInsert

-----------------------------------------------------------------------------
(* The invariant *)

LEMMA PassingStep == ASSUME IInv, [Next]_vars PROVE Passing'
<1>1. nextSub' \in {nextSub, nextSub + 1}
  BY LogStep DEF Appends, Cascades
<1>2. ASSUME NEW s \in SubIds, s < nextSub PROVE s < nextSub'
  BY <1>1, <1>2, Numbers DEF SubIds, IInv, TypeOK
<1>3. Passing /\ rep \in Rep
  BY DEF IInv, TInv, TypeOK
<1>4. CASE UNCHANGED rep
  BY <1>2, <1>3, <1>4 DEF Passing, Rep
<1>5. CASE RepairList
  <2>1. rep'.pc = "score" /\ rep'.list = Oldest(Needing, Batch)
    BY <1>3, <1>5 DEF RepairList, Rep
  <2>2. \A s \in Oldest(Needing, Batch) : s \in SubIds /\ s < nextSub
    BY DEF Oldest, Needing, Stored, IInv, TInv, Logged
  <2> QED
    BY <1>2, <2>1, <2>2 DEF Passing
<1>6. CASE RepairScore
  <2>1. /\ rep'.pc \in {"write", "score"} /\ rep'.list \subseteq rep.list
        /\ rep'.pc = "write" => rep'.list = rep.list
    BY <1>3, <1>6 DEF RepairScore, Rep
  <2>2. rep.list # {}
    BY <1>6 DEF RepairScore
  <2> QED
    BY <1>2, <1>3, <2>1, <2>2 DEF Passing, Rep
<1>7. CASE RepairWrite
  <2>1. rep'.pc = "score" /\ rep'.list \subseteq rep.list
    BY <1>3, <1>7 DEF RepairWrite, Rep
  <2> QED
    BY <1>2, <1>3, <2>1 DEF Passing, Rep
<1>8. CASE RepairEnd
  <2>1. rep'.pc = "idle" /\ rep'.list = rep.list /\ rep'.cnt = IdleRep.cnt
    BY <1>3, <1>8 DEF RepairEnd, Forgotten, Rep
  <2> QED
    BY <1>2, <1>3, <2>1 DEF Passing, Rep
<1>9. CASE Crash
  BY <1>9 DEF Crash, Passing, IdleRep
<1>10. ASSUME NEW r \in Reqs, Progress(r) PROVE UNCHANGED rep
  BY <1>10 DEF Progress, Read, PluginVerdict, Lock, Decide, Insert, Count, Score, Record, Publish
<1>11. ASSUME NEW r \in Reqs, NEW t \in Teams, NEW c \in Chals, NEW g \in Guesses,
              Begin(r, t, c, g)
       PROVE  UNCHANGED rep
  BY <1>11 DEF Begin
<1>12. ASSUME NEW c \in Chals, Edit(c) \/ Delete(c) PROVE UNCHANGED rep
  BY <1>12 DEF Edit, Delete
<1>13. ASSUME NEW m \in Modes, PluginDown(m) \/ PluginUp(m) PROVE UNCHANGED rep
  BY <1>13 DEF PluginDown, PluginUp
<1>14. CASE UNCHANGED vars
  BY <1>4, <1>14 DEF vars
<1> QED
  BY <1>4, <1>5, <1>6, <1>7, <1>8, <1>9, <1>10, <1>11, <1>12, <1>13, <1>14
     DEF Next, Repairing, Environment

LEMMA InitInv == ASSUME Init PROVE IInv
<1> DEFINE C0 == [there : {TRUE}, visible : {TRUE}, type : Types, answer : Guesses,
                  max : Limits, mode : Modes \cup {Builtin}, ver : {0}]
<1>a. ASSUME NEW ch \in C0 PROVE ch \in Chal
  <2>0. ch.there \in BOOLEAN /\ ch.visible \in BOOLEAN
    BY Zenon
  <2>1. /\ ch.type \in Types
        /\ ch.answer \in Guesses /\ ch.max \in Limits /\ ch.mode \in Modes \cup {Builtin}
        /\ ch.ver \in Nat
    OBVIOUS
  <2>2. ch = [there |-> ch.there, visible |-> ch.visible, type |-> ch.type,
              answer |-> ch.answer, max |-> ch.max, mode |-> ch.mode, ver |-> ch.ver]
    OBVIOUS
  <2> HIDE DEF C0
  <2> QED
    BY <2>0, <2>1, <2>2 DEF Chal
<1>b. chals \in [Chals -> C0]
  BY DEF Init
<1>1. chals \in [Chals -> Chal]
  <2> HIDE DEF C0
  <2> QED
    BY <1>a, <1>b
<1>2. TypeOK
  BY <1>1, Idles DEF Init, TypeOK
<1>3. \A r \in Reqs : req[r] = IdleReq
  BY DEF Init
<1>4. Requests /\ Cleared
  BY <1>3 DEF Requests, Begun, Locked, Versioned, Judged, Cleared, IdleReq
<1>5. Logged
  BY DEF Init, Logged, Stored, NoSub
<1>6. Passing
  BY DEF Init, Passing, IdleRep
<1> QED
  BY <1>2, <1>4, <1>5, <1>6 DEF IInv, TInv

\* The invariant holds in every reachable state of Submit, the repair worker and
\* their surroundings.
THEOREM InductiveInvariant == Spec => []IInv
<1>1. Init => IInv
  BY InitInv
<1>2. IInv /\ [Next]_vars => IInv'
  BY TypeStep, RequestsStep, LoggedStep, ClearedStep, PassingStep DEF IInv, TInv
<1> QED
  BY <1>1, <1>2, PTL DEF Spec

\* The tables and the requests in flight keep their types.
THEOREM TypeCorrect == Spec => []TypeOK
<1>1. IInv => TypeOK
  BY DEF IInv
<1> QED
  BY <1>1, InductiveInvariant, PTL

-----------------------------------------------------------------------------
(* What a step may never do *)

\* A row appears only by the insert of a request inside its transaction.
LEMMA AddedRow ==
  ASSUME IInv, [Next]_vars, NEW s \in Added
  PROVE  \E r \in Reqs : /\ Appends(r) /\ s = nextSub /\ subs'[s] = NewSub(r)
<1>1. s \in SubIds /\ subs[s].chal = NoChal /\ subs'[s].chal # NoChal
  BY DEF Added
<1>2. ~Kept
  BY <1>1 DEF Kept
<1>3. ~\E c \in Chals : Cascades(c)
  BY <1>1 DEF Cascades, NoSub
<1>4. PICK r \in Reqs : Appends(r)
  BY <1>2, <1>3, LogStep
<1> QED
  BY <1>1, <1>4 DEF Appends, IInv, TypeOK

\* However submissions race, a team that has solved a challenge gets no further
\* row for it (Submit, uq_submissions_solve).
THEOREM SolveIsFinal == Spec => SolvedIsFinal
<1>1. ASSUME IInv, [Next]_vars
      PROVE  \A s \in Added : ~Solved(subs'[s].chal, subs'[s].team)
  <2> SUFFICES ASSUME NEW s \in Added PROVE ~Solved(subs'[s].chal, subs'[s].team)
    OBVIOUS
  <2>1. PICK r \in Reqs : Appends(r) /\ subs'[s] = NewSub(r)
    BY <1>1, AddedRow
  <2>2. ~Solved(req[r].chal, req[r].team)
    BY <1>1, <2>1 DEF Appends, IInv, TInv, Cleared
  <2> QED
    BY <2>1, <2>2 DEF NewSub
<1> QED
  BY <1>1, InductiveInvariant, PTL DEF SolvedIsFinal, Spec

\* A row is added only while the team has attempts left under the limit in force
\* at that moment (CountTeamAttempts under the row lock).
THEOREM LimitHeld == Spec => AttemptsHeld
<1> DEFINE A == \A s \in Added :
                  LET c == subs'[s].chal
                  IN chals[c].max > 0 =>
                       Cardinality(Attempts(c, subs'[s].team)) < chals[c].max
<1>1. ASSUME IInv, [Next]_vars PROVE A
  <2> SUFFICES ASSUME NEW s \in Added, chals[subs'[s].chal].max > 0
               PROVE  Cardinality(Attempts(subs'[s].chal, subs'[s].team)) < chals[subs'[s].chal].max
    OBVIOUS
  <2>1. PICK r \in Reqs : Appends(r) /\ subs'[s] = NewSub(r)
    BY <1>1, AddedRow
  <2>2. subs'[s].chal = req[r].chal /\ subs'[s].team = req[r].team
    BY <2>1 DEF NewSub
  <2>3. ~AtLimit(r) /\ req[r].chal \in Chals
    BY <1>1, <2>1 DEF Appends, IInv, TInv, Cleared, Requests, Begun
  <2>4. Cardinality(Attempts(req[r].chal, req[r].team)) \in Nat
    BY Counts DEF Attempts, Stored
  <2>5. chals[req[r].chal].max \in Nat
    BY <1>1, <2>3, Numbers DEF IInv, TypeOK, Chal
  <2> QED
    BY <2>2, <2>3, <2>4, <2>5 DEF AtLimit
<1> QED
  BY <1>1, InductiveInvariant, PTL DEF AttemptsHeld, Spec

\* A logged verdict is right for the challenge as it is at the commit, whatever
\* was edited since a plugin judged the guess (the version check under the lock).
THEOREM VerdictIsCurrent == Spec => VerdictCurrent
<1> DEFINE A == \A s \in Added : \A r \in Reqs :
                  req[r].pc = "insert" /\ req'[r].pc # "insert"
                     /\ chals[req[r].chal].type = req[r].cur.type
                  => subs'[s].correct = (req[r].guess = chals[req[r].chal].answer)
<1>1. ASSUME IInv, [Next]_vars PROVE A
  <2> SUFFICES ASSUME NEW s \in Added, NEW r \in Reqs,
                      req[r].pc = "insert", req'[r].pc # "insert"
               PROVE  subs'[s].correct = (req[r].guess = chals[req[r].chal].answer)
    OBVIOUS
  <2>1. PICK q \in Reqs : Appends(q) /\ subs'[s] = NewSub(q)
    BY <1>1, AddedRow
  <2>2. q = r
    BY <2>1 DEF Appends
  <2>3. subs'[s].correct = Correct(r)
    BY <2>1, <2>2 DEF NewSub
  <2>4. CASE req[r].verdict = "none"
    BY <2>3, <2>4 DEF Correct
  <2>5. CASE req[r].verdict # "none"
    <3>1. /\ req[r].verdict = "right" <=> req[r].guess = req[r].cur.answer
          /\ req[r].cur.ver = chals[req[r].chal].ver
      BY <1>1, <2>5 DEF IInv, TInv, Requests, Judged
    <3>2. req[r].cur.answer = chals[req[r].chal].answer
      BY <1>1, <3>1 DEF IInv, TInv, Requests, Versioned
    <3>3. Correct(r) = (req[r].verdict = "right")
      BY <2>5 DEF Correct
    <3> QED
      BY <2>3, <3>1, <3>2, <3>3
  <2> QED
    BY <2>4, <2>5
<1> QED
  BY <1>1, InductiveInvariant, PTL DEF VerdictCurrent, Spec

\* RecordScore leaves a row that has a value as it is.
LEMMA RecordScoreOnce ==
  ASSUME TypeOK, NEW x, NEW b, NEW v, subs' = RecordScore(x, b, v),
         NEW s \in Stored, subs[s].val # 0
  PROVE  subs'[s] = subs[s]
BY DEF RecordScore, Stored, TypeOK

\* Once recorded, a value and its source never change, although the request and
\* the repair worker race for the row (RecordScore's IS NULL).
THEOREM ValueWrittenOnce == Spec => ScoreWriteOnce
<1> DEFINE A == \A s \in Stored : subs[s].val # 0 /\ subs'[s].chal # NoChal =>
                  subs'[s].val = subs[s].val /\ subs'[s].by = subs[s].by
<1>1. ASSUME IInv, [Next]_vars PROVE A
  <2> SUFFICES ASSUME NEW s \in Stored, subs[s].val # 0, subs'[s].chal # NoChal
               PROVE  subs'[s] = subs[s]
    OBVIOUS
  <2>1. s \in SubIds /\ s < nextSub
    BY <1>1 DEF Stored, IInv, TInv, Logged
  <2>2. CASE Recorded
    BY <1>1, <2>2, RecordScoreOnce DEF Recorded, IInv
  <2>3. ASSUME NEW r \in Reqs, Appends(r) PROVE subs'[s] = subs[s]
    BY <1>1, <2>1, <2>3, Numbers DEF Appends, SubIds, IInv, TypeOK
  <2>4. ASSUME NEW c \in Chals, Cascades(c) PROVE subs'[s] = subs[s]
    BY <2>1, <2>4 DEF Cascades, NoSub
  <2> QED
    BY <1>1, <2>2, <2>3, <2>4, LogStep
<1> QED
  BY <1>1, InductiveInvariant, PTL DEF ScoreWriteOnce, Spec

-----------------------------------------------------------------------------
(* Values count solves *)

\* The solves of challenge c up to row s.
Upto(c, s) == {x \in Solves(c) : x <= s}

\* v counts row s, every earlier solve of its challenge and nothing that has not
\* happened.
Counting(s, v) == v \in Cardinality(Upto(subs[s].chal, s))..Cardinality(Solves(subs[s].chal))

\* A request's count is right for the row it has inserted, while that exists.
ReqCounts == \A r \in Reqs :
    req[r].pc \in {"count", "score", "record"} /\ req[r].sub \in Stored =>
        /\ subs[req[r].sub].chal = req[r].chal
        /\ req[r].pc # "count" /\ req[r].val # 0 => Counting(req[r].sub, req[r].val)

\* So is a count cached by the pass, for each row it has still to do, and the
\* value it is about to write.
RepCounts ==
    /\ \A s \in rep.list \cap Stored :
         rep.cnt[subs[s].chal] # 0 => Counting(s, rep.cnt[subs[s].chal])
    /\ rep.pc = "write" /\ Min(rep.list) \in Stored /\ rep.val # 0 =>
         Counting(Min(rep.list), rep.val)

\* Strengthens IInv for the recorded values.
VInv == IInv /\ ReqCounts /\ RepCounts /\ ValueCountsSelf

\* The number of solves now counts every row.
LEMMA CountNow ==
  ASSUME NEW s \in Stored PROVE Counting(s, SolveCount(subs[s].chal))
<1> DEFINE S == Solves(subs[s].chal)
           U == Upto(subs[s].chal, s)
<1>1. S \subseteq SubIds /\ U \subseteq S
  BY DEF Solves, Stored, Upto
<1>2. IsFiniteSet(S) /\ Cardinality(S) \in Nat
  BY <1>1, Counts
<1>3. Cardinality(U) \in Nat /\ Cardinality(U) <= Cardinality(S)
  <2> HIDE DEF S, U
  <2> QED
    BY <1>1, <1>2, FS_Subset, FS_CardinalityType
<1> QED
  BY <1>2, <1>3 DEF Counting, SolveCount

\* An old row that is there was there, and is of the same challenge.
LEMMA RowStays ==
  ASSUME IInv, [Next]_vars, NEW s \in SubIds, s < nextSub, s \in Stored'
  PROVE  s \in Stored /\ subs'[s].chal = subs[s].chal
<1>1. ASSUME NEW r \in Reqs, Appends(r) PROVE subs'[s] = subs[s]
  BY <1>1, Numbers DEF Appends, SubIds, IInv, TypeOK
<1>2. ASSUME NEW c \in Chals, Cascades(c) PROVE subs'[s] = subs[s]
  BY <1>2 DEF Cascades, NoSub, Stored
<1> QED
  BY <1>1, <1>2, LogStep DEF Kept, Stored

\* A count stays right: solves are only added, and added after the rows there.
LEMMA CountingKept ==
  ASSUME IInv, [Next]_vars, NEW s \in SubIds, s < nextSub, s \in Stored',
         NEW v \in Nat, Counting(s, v)
  PROVE  Counting(s, v)'
<1>0. s \in Stored /\ subs'[s].chal = subs[s].chal
  BY RowStays
<1>1. PICK c \in Chals : subs[s].chal = c /\ subs'[s].chal = c
  BY <1>0 DEF IInv, TInv, Logged
<1>2. c \in Chals /\ c # NoChal
  BY NoneIsNone
<1>3. s \in Int /\ nextSub \in Nat
  BY Numbers DEF SubIds, IInv, TypeOK
<1> DEFINE S == {x \in SubIds : subs[x].chal = c /\ subs[x].correct}
           S1 == {x \in SubIds : subs'[x].chal = c /\ subs'[x].correct}
<1>4. /\ S \subseteq S1
      /\ {x \in S : x <= s} = {x \in S1 : x <= s}
  <2>1. CASE Kept
    BY <2>1 DEF Kept
  <2>2. ASSUME NEW r \in Reqs, Appends(r)
        PROVE  S \subseteq S1 /\ {x \in S : x <= s} = {x \in S1 : x <= s}
    <3>1. nextSub \in SubIds /\ nextSub \notin Stored
      BY <2>2, Numbers DEF Appends, SubIds, IInv, TInv, Logged, TypeOK
    <3>2. subs[nextSub].chal # c /\ ~(nextSub <= s)
      BY <1>2, <1>3, <3>1 DEF Stored
    <3>3. \A x \in SubIds \ {nextSub} : subs'[x] = subs[x]
      BY <2>2 DEF Appends, IInv, TypeOK
    <3> QED
      BY <3>1, <3>2, <3>3
  <2>3. ASSUME NEW d \in Chals, Cascades(d)
        PROVE  S \subseteq S1 /\ {x \in S : x <= s} = {x \in S1 : x <= s}
    <3>1. d # c
      BY <1>1, <1>2, <2>3 DEF Cascades, NoSub
    <3>2. \A x \in SubIds : IF subs[x].chal = d THEN subs'[x].chal = NoChal
                                               ELSE subs'[x] = subs[x]
      BY <2>3 DEF Cascades, NoSub
    <3> QED
      BY <1>2, <3>1, <3>2
  <2> QED
    BY <2>1, <2>2, <2>3, LogStep
<1>5. Solves(c) = S /\ Solves(c)' = S1
  BY <1>2 DEF Solves, Stored
<1>6. Cardinality(S) \in Nat /\ Cardinality(S1) \in Nat /\ Cardinality(S) <= Cardinality(S1)
  <2>1. S \subseteq SubIds /\ S1 \subseteq SubIds
    OBVIOUS
  <2> HIDE DEF S, S1
  <2> QED
    BY <1>4, <2>1, Counts, FS_Subset
<1>7. Cardinality({x \in S : x <= s}) \in Nat
  BY Counts
<1>8. v \in Cardinality({x \in S : x <= s})..Cardinality(S)
  BY <1>1, <1>5 DEF Counting, Upto
<1>9. Counting(s, v)' <=> v \in Cardinality({x \in S1 : x <= s})..Cardinality(S1)
  BY <1>1, <1>5 DEF Counting, Upto
<1> HIDE DEF S, S1
<1> QED
  BY <1>4, <1>6, <1>7, <1>8, <1>9

\* Where a request between its commit and its record comes from.
LEMMA ToRecord ==
  ASSUME IInv, [Next]_vars, NEW r \in Reqs, req'[r].pc \in {"count", "score", "record"}
  PROVE  req'[r] = req[r] \/ Insert(r) \/ Count(r) \/ Score(r)
<1>t. req \in [Reqs -> Req]
  BY DEF IInv, TypeOK
<1>1. ASSUME NEW q \in Reqs, NEW new, req' = [req EXCEPT ![q] = new],
             q # r \/ new.pc \notin {"count", "score", "record"}
      PROVE  req'[r] = req[r]
  BY <1>1, <1>t
<1>2. ASSUME NEW q \in Reqs, Finish(q) PROVE req'[r] = req[r]
  BY <1>1, <1>2 DEF Finish, IdleReq
<1>3. ASSUME NEW q \in Reqs, NEW l \in {"decide", "insert", "publish"}, Step(q, l)
      PROVE  req'[r] = req[r]
  <2>1. [req[q] EXCEPT !.pc = l].pc = l
    BY <1>t DEF Req
  <2> QED
    BY <1>1, <1>3, <2>1 DEF Step
<1>4. ASSUME NEW q \in Reqs, NEW t \in Teams, NEW c \in Chals, NEW g \in Guesses,
             Begin(q, t, c, g)
      PROVE  req'[r] = req[r]
  BY <1>4, <1>t DEF Begin, Req
<1>5. ASSUME NEW q \in Reqs, Read(q) PROVE req'[r] = req[r]
  BY <1>5, <1>t DEF Read, Finish, IdleReq, Req
<1>6. ASSUME NEW q \in Reqs, PluginVerdict(q) PROVE req'[r] = req[r]
  BY <1>6, <1>t DEF PluginVerdict, Finish, IdleReq, Req
<1>7. ASSUME NEW q \in Reqs, Lock(q) \/ Decide(q) \/ Record(q) \/ Publish(q)
      PROVE  req'[r] = req[r]
  BY <1>2, <1>3, <1>7 DEF Lock, Decide, Record, Publish
<1>8. ASSUME NEW q \in Reqs, q # r, Insert(q) PROVE req'[r] = req[r]
  <2>1. \/ req' = [req EXCEPT ![q].pc = "count", ![q].sub = nextSub]
        \/ req' = [req EXCEPT ![q] = IdleReq]
    BY <1>8 DEF Insert, Finish
  <2> QED
    BY <1>8, <1>t, <2>1
<1>9. ASSUME NEW q \in Reqs, q # r, Count(q) \/ Score(q) PROVE req'[r] = req[r]
  BY <1>9, <1>t DEF Count, Score, Finish
<1>10. ASSUME Repairing PROVE UNCHANGED req
  BY <1>10 DEF Repairing, RepairList, RepairScore, RepairWrite, RepairEnd
<1>11. ASSUME NEW c \in Chals, Edit(c) \/ Delete(c) PROVE UNCHANGED req
  BY <1>11 DEF Edit, Delete
<1>12. ASSUME NEW m \in Modes, PluginDown(m) \/ PluginUp(m) PROVE UNCHANGED req
  BY <1>12 DEF PluginDown, PluginUp
<1>13. ASSUME Crash PROVE FALSE
  BY <1>13 DEF Crash, IdleReq
<1>14. CASE UNCHANGED vars
  BY <1>14 DEF vars
<1> QED
  BY <1>4, <1>5, <1>6, <1>7, <1>8, <1>9, <1>10, <1>11, <1>12, <1>13, <1>14
     DEF Next, Progress, Environment

\* Counting depends on the log alone.
LEMMA CountingSame ==
  ASSUME UNCHANGED subs, NEW s, NEW v PROVE Counting(s, v)' <=> Counting(s, v)
BY DEF Counting, Upto, Solves, Stored

LEMMA ReqCountsStep == ASSUME VInv, [Next]_vars PROVE ReqCounts'
<1>0. IInv /\ ReqCounts /\ req \in [Reqs -> Req]
  BY DEF VInv, IInv, TypeOK
<1>1. SUFFICES ASSUME NEW r \in Reqs, req'[r].pc \in {"count", "score", "record"},
                      req'[r].sub \in Stored'
               PROVE  /\ subs'[req'[r].sub].chal = req'[r].chal
                      /\ req'[r].pc # "count" /\ req'[r].val # 0 =>
                           Counting(req[r].sub, req[r].val)'
  BY DEF ReqCounts
<1>2. CASE req'[r] = req[r]
  <2>1. PICK s \in SubIds : s = req[r].sub /\ s < nextSub
    BY <1>0, <1>1, <1>2 DEF IInv, TInv, Requests, Begun
  <2>2. PICK v \in Nat : v = req[r].val
    BY <1>0 DEF Req
  <2>3. s \in Stored /\ subs'[s].chal = subs[s].chal
    BY <1>0, <1>1, <1>2, <2>1, RowStays
  <2>4. subs[s].chal = req[r].chal /\ (req[r].pc # "count" /\ v # 0 => Counting(s, v))
    BY <1>0, <1>1, <1>2, <2>1, <2>2, <2>3 DEF ReqCounts
  <2>5. Counting(s, v) => Counting(s, v)'
    BY <1>0, <1>1, <1>2, <2>1, <2>2, CountingKept
  <2>6. Counting(req[r].sub, req[r].val)' <=> Counting(s, v)'
    BY <1>2, <2>1, <2>2 DEF Counting
  <2> QED
    BY <1>2, <2>1, <2>2, <2>3, <2>4, <2>5, <2>6
<1>3. CASE Insert(r)
  <2>1. /\ req' = [req EXCEPT ![r].pc = "count", ![r].sub = nextSub]
        /\ subs' = [subs EXCEPT ![nextSub] = NewSub(r)] /\ nextSub <= MaxSubs
    BY <1>0, <1>1, <1>3 DEF Insert, Finish, IdleReq
  <2>2. req'[r].pc = "count" /\ req'[r].sub = nextSub /\ req'[r].chal = req[r].chal
    BY <1>0, <2>1 DEF Req
  <2>3. nextSub \in SubIds
    BY <1>0, <2>1, Numbers DEF SubIds, IInv, TypeOK
  <2>4. subs'[nextSub].chal = req[r].chal
    BY <1>0, <2>1, <2>3 DEF NewSub, IInv, TypeOK
  <2> QED
    BY <2>2, <2>4
<1>4. CASE Count(r)
  <2> DEFINE n == SolveCount(req[r].chal)
             l == IF req[r].cur.mode = Builtin THEN "publish" ELSE "score"
  <2>1. req' = [req EXCEPT ![r].val = n, ![r].pc = l] /\ UNCHANGED subs /\ req[r].pc = "count"
    BY <1>0, <1>1, <1>4 DEF Count, Finish, IdleReq
  <2>2. req'[r].sub = req[r].sub /\ req'[r].chal = req[r].chal /\ req'[r].val = n
    <3> HIDE DEF n
    <3> QED
      BY <1>0, <2>1 DEF Req
  <2>3. req[r].sub \in Stored /\ subs[req[r].sub].chal = req[r].chal
    BY <1>0, <1>1, <2>1, <2>2 DEF ReqCounts, Stored
  <2>4. Counting(req[r].sub, n)
    BY <2>3, CountNow
  <2>5. Counting(req[r].sub, req[r].val)' <=> Counting(req[r].sub, n)
    <3> HIDE DEF n
    <3> QED
      BY <2>1, <2>2 DEF Counting, Upto, Solves, Stored
  <2> QED
    BY <2>1, <2>2, <2>3, <2>4, <2>5
<1>5. CASE Score(r)
  <2> DEFINE s == Scored(req[r].cur.mode, req[r].val)
             new == [req[r] EXCEPT !.pc = "record", !.by = s.by, !.val = s.val]
  <2>1. req' = [req EXCEPT ![r] = new]
    BY <1>5, Zenon DEF Score
  <2>2. /\ new.sub = req[r].sub /\ new.chal = req[r].chal /\ new.val = s.val
    <3> HIDE DEF s
    <3> QED
      BY <1>0 DEF Req
  <2>3. req'[r].sub = req[r].sub /\ req'[r].chal = req[r].chal /\ req'[r].val = s.val
    <3> HIDE DEF new
    <3> QED
      BY <1>0, <2>1, <2>2
  <2>4. s.val \in {0, req[r].val}
    BY <1>0, ScoredType DEF Req
  <2>5. UNCHANGED subs /\ req[r].pc = "score"
    BY <1>5 DEF Score
  <2>6. /\ subs[req[r].sub].chal = req[r].chal
        /\ req[r].val # 0 => Counting(req[r].sub, req[r].val)
    BY <1>0, <1>1, <2>3, <2>5 DEF ReqCounts, Stored
  <2> HIDE DEF s, new
  <2>7. req'[r].val # 0 =>
          (Counting(req[r].sub, req[r].val)' <=> Counting(req[r].sub, req[r].val))
    BY <2>3, <2>4, <2>5 DEF Counting, Upto, Solves, Stored
  <2> QED
    BY <2>3, <2>4, <2>5, <2>6, <2>7
<1> QED
  BY <1>0, <1>1, <1>2, <1>3, <1>4, <1>5, ToRecord

LEMMA RepCountsStep == ASSUME VInv, [Next]_vars PROVE RepCounts'
<1>0. IInv /\ RepCounts /\ Passing /\ rep \in Rep
  BY DEF VInv, IInv, TInv, TypeOK
<1>1. ASSUME NEW s \in SubIds, s \in rep.list, s \in Stored', NEW v \in Nat
      PROVE  /\ s \in Stored /\ subs'[s].chal = subs[s].chal
             /\ Counting(s, v) => Counting(s, v)'
  BY <1>0, <1>1, RowStays, CountingKept DEF Passing
\* Rows the pass still has to do, while its counts do not change.
<1>2. ASSUME rep'.list \subseteq rep.list, rep'.cnt = rep.cnt,
             NEW s \in rep'.list \cap Stored', rep'.cnt[subs'[s].chal] # 0
      PROVE  Counting(s, rep.cnt[subs[s].chal])'
  <2>1. s \in SubIds /\ s \in rep.list
    BY <1>0, <1>2 DEF Rep
  <2>2. s \in Stored /\ subs'[s].chal = subs[s].chal
    BY <1>1, <1>2, <2>1
  <2>3. PICK v \in Nat : v = rep.cnt[subs[s].chal]
    BY <1>0, <2>2 DEF Rep, IInv, TInv, Logged
  <2>4. Counting(s, v)
    BY <1>0, <1>2, <2>1, <2>2, <2>3 DEF RepCounts
  <2>5. Counting(s, v)'
    BY <1>1, <1>2, <2>1, <2>4
  <2> QED
    BY <1>2, <2>2, <2>3, <2>5 DEF Counting
<1>3. CASE UNCHANGED rep
  <2>1. ASSUME rep.pc = "write", Min(rep.list) \in Stored', rep.val # 0
        PROVE  Counting(Min(rep.list), rep.val)'
    <3>1. PICK s \in SubIds : s = Min(rep.list) /\ s \in rep.list
      BY <1>0, <2>1, PassMin DEF Passing, IInv
    <3>2. PICK v \in Nat : v = rep.val
      BY <1>0 DEF Rep
    <3>3. s \in Stored /\ (Counting(s, v) => Counting(s, v)')
      BY <1>1, <2>1, <3>1
    <3>4. Counting(s, v)
      BY <1>0, <2>1, <3>1, <3>2, <3>3 DEF RepCounts
    <3> QED
      BY <1>3, <3>1, <3>2, <3>3, <3>4 DEF Counting
  <2>2. \A s \in rep'.list \cap Stored' : rep'.cnt[subs'[s].chal] # 0 =>
            Counting(s, rep.cnt[subs[s].chal])'
    BY <1>2, <1>3
  <2> QED
    BY <1>3, <2>1, <2>2 DEF RepCounts
<1>4. CASE RepairList
  <2>1. /\ rep'.pc = "score" /\ rep'.cnt = rep.cnt /\ UNCHANGED subs
        /\ rep'.list \subseteq Stored
    BY <1>0, <1>4 DEF RepairList, Rep, Oldest, Needing
  <2>2. rep.cnt = [c \in Chals |-> 0]
    BY <1>0, <1>4 DEF RepairList, Passing, IdleRep
  <2>3. \A s \in rep'.list : rep'.cnt[subs'[s].chal] = 0
    BY <1>0, <2>1, <2>2 DEF IInv, TInv, Logged
  <2> QED
    BY <2>1, <2>3 DEF RepCounts
<1>5. CASE RepairScore
  <2> DEFINE m == Min(rep.list)
             c == subs[m].chal
             n == IF rep.cnt[c] = 0 THEN SolveCount(c) ELSE rep.cnt[c]
             v == Scored(rep.mode[c], n)
  <2>0. UNCHANGED subs /\ rep.list # {}
    BY <1>5 DEF RepairScore
  <2>1. CASE m \notin Stored
    <3>1. rep' = [rep EXCEPT !.list = @ \ {m}]
      BY <1>5, <2>1 DEF RepairScore
    <3>2. rep'.list \subseteq rep.list /\ rep'.cnt = rep.cnt /\ rep'.pc = "score"
      BY <1>0, <1>5, <3>1 DEF Rep, RepairScore
    <3>3. \A s \in rep'.list \cap Stored' : rep'.cnt[subs'[s].chal] # 0 =>
              Counting(s, rep.cnt[subs[s].chal])'
      BY <1>2, <3>2
    <3> QED
      BY <3>2, <3>3 DEF RepCounts
  <2>2. CASE m \in Stored
    <3>1. c \in Chals /\ m \in rep.list
      BY <1>0, <2>0, <2>2, PassMin DEF IInv, TInv, Logged
    <3>2. n \in Nat
      BY <1>0, <3>1, SolveCountType DEF Rep
    <3>3. v.val \in {0, n}
      BY <3>2, ScoredType
    <3>4. rep' = [rep EXCEPT !.pc = "write", !.cnt[c] = n, !.by = v.by, !.val = v.val]
      BY <1>5, <2>2 DEF RepairScore
    <3>5. ASSUME NEW s \in rep.list \cap Stored, subs[s].chal = c PROVE Counting(s, n)
      <4>1. CASE rep.cnt[c] = 0
        BY <3>5, <4>1, CountNow
      <4>2. CASE rep.cnt[c] # 0
        BY <1>0, <3>5, <4>2 DEF RepCounts
      <4> QED
        BY <4>1, <4>2
    <3>6. Counting(m, n)
      BY <2>2, <3>1, <3>5
    <3>a. c \in Chals /\ n \in Nat
      BY <3>1, <3>2
    <3> HIDE DEF c, n, v
    <3>7. /\ rep'.list = rep.list /\ rep'.val = v.val
          /\ rep'.cnt = [rep.cnt EXCEPT ![c] = n]
      BY <1>0, <3>4 DEF Rep
    <3>8. ASSUME NEW s \in rep.list \cap Stored, rep'.cnt[subs[s].chal] # 0
          PROVE  Counting(s, rep'.cnt[subs[s].chal])
      <4>1. subs[s].chal \in Chals
        BY <1>0 DEF IInv, TInv, Logged
      <4>2. CASE subs[s].chal = c
        BY <1>0, <3>5, <3>7, <4>1, <4>2 DEF Rep
      <4>3. CASE subs[s].chal # c
        <5>1. rep'.cnt[subs[s].chal] = rep.cnt[subs[s].chal]
          BY <1>0, <3>7, <4>1, <4>3 DEF Rep
        <5> QED
          BY <1>0, <3>8, <5>1 DEF RepCounts
      <4> QED
        BY <4>2, <4>3
    <3>9. ASSUME NEW s \in rep'.list \cap Stored', rep'.cnt[subs'[s].chal] # 0
          PROVE  Counting(s, rep.cnt[subs[s].chal])'
      <4>1. s \in rep.list \cap Stored /\ subs'[s] = subs[s]
        BY <2>0, <3>7, <3>9 DEF Stored
      <4>2. Counting(s, rep'.cnt[subs[s].chal])
        BY <3>8, <3>9, <4>1
      <4> QED
        BY <2>0, <4>1, <4>2 DEF Counting, Upto, Solves, Stored
    <3>10. rep'.val # 0 => Counting(Min(rep.list), rep.val)'
      <4>1. rep'.val # 0 => rep'.val = n
        BY <3>3, <3>7
      <4> QED
        BY <2>0, <3>6, <3>7, <4>1 DEF Counting, Upto, Solves, Stored
    <3> QED
      BY <3>9, <3>10 DEF RepCounts
  <2> QED
    BY <2>1, <2>2
<1>6. CASE RepairWrite
  <2>1. rep'.list \subseteq rep.list /\ rep'.cnt = rep.cnt /\ rep'.pc = "score"
    BY <1>0, <1>6 DEF RepairWrite, Rep
  <2>2. \A s \in rep'.list \cap Stored' : rep'.cnt[subs'[s].chal] # 0 =>
            Counting(s, rep.cnt[subs[s].chal])'
    BY <1>2, <2>1
  <2> QED
    BY <2>1, <2>2 DEF RepCounts
<1>7. CASE RepairEnd \/ Crash
  <2>1. rep'.list = {} /\ rep'.pc = "idle"
    <3>1. CASE RepairEnd
      BY <1>0, <3>1 DEF RepairEnd, Rep
    <3>2. CASE Crash
      BY <3>2 DEF Crash, IdleRep
    <3> QED
      BY <1>7, <3>1, <3>2
  <2> QED
    BY <2>1 DEF RepCounts
<1>8. ASSUME NEW r \in Reqs, Progress(r) PROVE UNCHANGED rep
  BY <1>8 DEF Progress, Read, PluginVerdict, Lock, Decide, Insert, Count, Score, Record, Publish
<1>9. ASSUME NEW r \in Reqs, NEW t \in Teams, NEW c \in Chals, NEW g \in Guesses,
             Begin(r, t, c, g)
      PROVE  UNCHANGED rep
  BY <1>9 DEF Begin
<1>10. ASSUME NEW c \in Chals, Edit(c) \/ Delete(c) PROVE UNCHANGED rep
  BY <1>10 DEF Edit, Delete
<1>11. ASSUME NEW m \in Modes, PluginDown(m) \/ PluginUp(m) PROVE UNCHANGED rep
  BY <1>11 DEF PluginDown, PluginUp
<1>12. CASE UNCHANGED vars
  BY <1>3, <1>12 DEF vars
<1> QED
  BY <1>3, <1>4, <1>5, <1>6, <1>7, <1>8, <1>9, <1>10, <1>11, <1>12
     DEF Next, Repairing, Environment

LEMMA ValuesStep == ASSUME VInv, [Next]_vars PROVE ValueCountsSelf'
<1>0. /\ IInv /\ ReqCounts /\ RepCounts /\ subs \in [SubIds -> Sub]
      /\ \A s \in Stored : subs[s].val # 0 => Counting(s, subs[s].val)
  BY DEF VInv, IInv, TypeOK, ValueCountsSelf, Counting, Upto
<1>1. SUFFICES ASSUME NEW s \in Stored', subs'[s].val # 0
               PROVE  Counting(s, subs[s].val)'
  BY DEF ValueCountsSelf, Counting, Upto
<1>2. s \in SubIds /\ subs'[s].chal # NoChal
  BY <1>1 DEF Stored
<1>3. s \in Stored /\ Counting(s, subs'[s].val)
  <2>1. ASSUME subs'[s] = subs[s] PROVE s \in Stored /\ Counting(s, subs'[s].val)
    BY <1>0, <1>1, <1>2, <2>1 DEF Stored
  <2>2. ASSUME NEW x, NEW b, NEW v, subs' = RecordScore(x, b, v), subs'[s] # subs[s]
        PROVE  s = x /\ x \in Stored /\ subs'[s].val = v
    BY <1>0, <1>2, <2>2 DEF RecordScore, Stored, Sub
  <2>3. CASE Recorded
    <3>1. SUFFICES ASSUME subs'[s] # subs[s] PROVE s \in Stored /\ Counting(s, subs'[s].val)
      BY <2>1
    <3>2. ASSUME NEW r \in Reqs, req[r].pc = "record",
                 subs' = RecordScore(req[r].sub, req[r].by, req[r].val)
          PROVE  s \in Stored /\ Counting(s, subs'[s].val)
      <4>1. s = req[r].sub /\ req[r].sub \in Stored /\ subs'[s].val = req[r].val
        BY <2>2, <3>1, <3>2
      <4>2. Counting(req[r].sub, req[r].val)
        BY <1>0, <1>1, <3>2, <4>1 DEF ReqCounts
      <4> QED
        BY <4>1, <4>2
    <3>3. ASSUME rep.pc = "write", subs' = RecordScore(Min(rep.list), rep.by, rep.val)
          PROVE  s \in Stored /\ Counting(s, subs'[s].val)
      <4>1. s = Min(rep.list) /\ Min(rep.list) \in Stored /\ subs'[s].val = rep.val
        BY <2>2, <3>1, <3>3
      <4>2. Counting(Min(rep.list), rep.val)
        BY <1>0, <1>1, <3>3, <4>1 DEF RepCounts
      <4> QED
        BY <4>1, <4>2
    <3> QED
      BY <2>3, <3>2, <3>3 DEF Recorded
  <2>4. ASSUME NEW r \in Reqs, Appends(r) PROVE subs'[s] = subs[s]
    BY <1>0, <1>1, <1>2, <2>4 DEF Appends, NewSub
  <2>5. ASSUME NEW c \in Chals, Cascades(c) PROVE subs'[s] = subs[s]
    BY <1>2, <2>5 DEF Cascades, NoSub
  <2> QED
    BY <1>0, <2>1, <2>3, <2>4, <2>5, LogStep
<1>4. PICK v \in Nat : v = subs'[s].val
  BY <1>0, <1>2, TypeStep DEF TypeOK, Sub
<1>5. s < nextSub
  BY <1>0, <1>3 DEF IInv, TInv, Logged
<1>6. Counting(s, v)'
  BY <1>0, <1>1, <1>2, <1>3, <1>4, <1>5, CountingKept
<1> QED
  BY <1>4, <1>6 DEF Counting

\* Every recorded value counts the solve itself, every earlier solve of the
\* challenge and none that has not happened, whether the request or the repair
\* worker with its cached counts recorded it (recordPluginScore, RepairOnce).
THEOREM ValuesCountSelf == Spec => []ValueCountsSelf
<1>1. Init => VInv
  <2> SUFFICES ASSUME Init PROVE VInv
    OBVIOUS
  <2>1. IInv /\ Stored = {}
    BY InitInv DEF Init, Stored, NoSub
  <2> QED
    BY <2>1 DEF VInv, ReqCounts, RepCounts, ValueCountsSelf
<1>2. VInv /\ [Next]_vars => VInv'
  <2> SUFFICES ASSUME VInv, [Next]_vars PROVE VInv'
    OBVIOUS
  <2>1. IInv'
    BY TypeStep, RequestsStep, LoggedStep, ClearedStep, PassingStep DEF IInv, TInv, VInv
  <2> QED
    BY <2>1, ReqCountsStep, RepCountsStep, ValuesStep DEF VInv
<1>3. VInv => ValueCountsSelf
  BY DEF VInv
<1> QED
  BY <1>1, <1>2, <1>3, PTL DEF Spec
=============================================================================
