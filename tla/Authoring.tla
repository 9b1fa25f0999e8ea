----------------------------- MODULE Authoring -----------------------------
(***************************************************************************)
(* Authoring: challenges.Service over the tables challenges and              *)
(* challenge_attachments and over the object store.  Organisers' requests,   *)
(* the CLI's create and the example seeder run statement by statement; none  *)
(* of them is a transaction, and a file lives in two places.  Requests are   *)
(* lost when the platform restarts.                                          *)
(*                                                                           *)
(* Of a challenge the columns that decide its worth are kept.  The rules     *)
(* about other columns, the container rules (a challenge never changes its  *)
(* kind) and the registries of types and of scoring modes (a mode no plugin   *)
(* provides now) are represented by a refusal.                               *)
(***************************************************************************)
EXTENDS Integers, FiniteSets

CONSTANTS
    ChallengeIds, AttachmentIds,
    FileNames,
    AuthorReqs,      \* requests in flight at once
    MaxPoints,       \* bound: points and decay
    MaxColumns,      \* bound: columns one patch sets
    MaxSolves        \* bound: solves the worth is looked at for

ASSUME BoundsNatural == MaxPoints \in Nat /\ MaxSolves \in Nat /\ MaxColumns \in Nat

VARIABLES
    challenges,   \* row of each challenge, or NoChallenge; Deleted once it was
    attachments,  \* row of each attachment, or NoAttachment
    objects,      \* the bucket: keys, each with the upload whose bytes it holds
    usedIds,      \* attachment ids generated so far
    wreq,         \* what each request is doing
    doomed        \* ghost: attachments someone set out to delete, and those
                  \* recorded although their upload was told otherwise

authorVars == <<challenges, attachments, objects, usedIds, wreq, doomed>>

NoChallenge == [is |-> "none"]
Deleted == [is |-> "deleted"]
NoAttachment == [is |-> "none"]
AtDesk == [op |-> "atDesk"]

\* The built-in modes, and one some plugin provides.
Modes == {"static", "dynamic", "plugin"}

\* points_min or decay 0 stands for NULL.
Worth == [is : {"row"}, scoring : Modes, init : 0..MaxPoints,
          min : 0..MaxPoints, decay : {0, MaxPoints}]

AuthorTypeOK ==
    /\ challenges \in [ChallengeIds -> Worth \cup {NoChallenge, Deleted}]
    /\ \A a \in AttachmentIds : attachments[a].is \in {"none", "row"}
    /\ usedIds \subseteq AttachmentIds /\ doomed \subseteq AttachmentIds

AuthorInit ==
    /\ challenges = [c \in ChallengeIds |-> NoChallenge]
    /\ attachments = [a \in AttachmentIds |-> NoAttachment]
    /\ objects = {}
    /\ usedIds = {}
    /\ wreq = [r \in AuthorReqs |-> AtDesk]
    /\ doomed = {}

InTable(c) == challenges[c].is = "row"
Recorded(a) == attachments[a].is = "row"
Busy(r, op) == wreq[r].op = op
Next1(r, rec) == wreq' = [wreq EXCEPT ![r] = rec]
Done(r) == Next1(r, AtDesk)
FilesKept == UNCHANGED <<attachments, objects, usedIds, doomed>>

(***************************************************************************)
(* The worth of a challenge, and the rules about it.                        *)
(***************************************************************************)
\* DynamicEngine.Value: math.Round goes away from zero at one half.
Round(num, den) == (2 * num + den) \div (2 * den)

DynamicValue(row, solves) ==
    LET d2 == row.decay * row.decay
        rounded == Round(row.init * d2 - (row.init - row.min) * solves * solves, d2)
    IN IF row.decay <= 0 \/ rounded < row.min THEN row.min ELSE rounded

\* CurrentPoints: a plugin's mode counts as static here, whether the mode is
\* registered (scoringMarker) or not; the plugin only values recorded solves.
CurrentPoints(row, solves) ==
    IF row.scoring = "dynamic" THEN DynamicValue(row, solves) ELSE row.init

validateDynamic(row) ==
    row.scoring = "dynamic" => row.min >= 1 /\ row.min <= row.init /\ row.decay >= 1

validateCreate(row) == row.init >= 1 /\ validateDynamic(row)

\* UpdateInput: the columns a patch sets and what to.  points_min and decay may
\* be cleared.
Columns == {"scoring", "init", "min", "decay"}
Nil == [is |-> "row", scoring |-> "static", init |-> 0, min |-> 0, decay |-> 0]
Patches == {p \in [sets : SUBSET Columns, to : Worth] :
                /\ Cardinality(p.sets) \in 1..MaxColumns
                /\ \A col \in Columns \ p.sets : p.to[col] = Nil[col]}

\* The row that would result; a column the patch leaves out is the current one.
Patched(row, p) == [col \in DOMAIN row |-> IF col \in p.sets THEN p.to[col] ELSE row[col]]
validateUpdate(cur, p) ==
    /\ "init" \in p.sets => p.to.init >= 1
    /\ validateDynamic(Patched(cur, p))

\* Faulty variant of chk_challenges (mutation checks).
Mutchk_challenges(row) == row.init > 0

\* The table's CHECK constraints.
chk_challenges(row) ==
    /\ row.init > 0
    /\ \/ row.scoring # "dynamic"
       \/ row.min > 0 /\ row.min <= row.init /\ row.decay > 0

(***************************************************************************)
(* Create: validation, the type's ValidateConfig (a call to its plugin), the *)
(* insert.  The slug may be taken.  The CLI and the seeder read a            *)
(* specification, judge it by rules of their own, and go on with its files.  *)
(***************************************************************************)
Creating(row, files) == [op |-> "create", row |-> row, files |-> files]

CreateValidates(r) ==
    /\ Busy(r, "atDesk")
    /\ \E row \in Worth : validateCreate(row) /\ Next1(r, Creating(row, FALSE))
    /\ UNCHANGED challenges /\ FilesKept

\* challengespec's Validate is weaker than the server's.
specValidate(row) ==
    row.init >= 1 /\ (row.scoring = "dynamic" => row.min # 0 /\ row.decay # 0)
specToCreate == {row \in Worth : specValidate(row)}

\* osctf create.
CliCreate(r) ==
    /\ Busy(r, "atDesk")
    /\ \E row \in specToCreate : validateCreate(row) /\ Next1(r, Creating(row, TRUE))
    /\ UNCHANGED challenges /\ FilesKept

\* Seed: only into an empty table, looked at once.
Seed(r) == (\A c \in ChallengeIds : ~InTable(c)) /\ CliCreate(r)

uploadFiles(c) == [op |-> "upload", c |-> c]
StoreRow(c, row) == challenges' = [challenges EXCEPT ![c] = row]

\* The type refused or is down, or a conflict.
Refused(r) == Done(r) /\ UNCHANGED challenges

CreateChallenge(r) ==
    /\ Busy(r, "create")
    /\ \/ Refused(r)
       \/ \E c \in ChallengeIds :
            /\ challenges[c] = NoChallenge
            /\ chk_challenges(wreq[r].row)
            /\ StoreRow(c, wreq[r].row)
            /\ IF wreq[r].files THEN Next1(r, uploadFiles(c)) ELSE Done(r)
    /\ FilesKept

(***************************************************************************)
(* Update: the row is read and validated as it would become; the statement   *)
(* writes only what the patch holds, over whatever the row is by then.       *)
(***************************************************************************)
UpdateReads(r) ==
    /\ Busy(r, "atDesk")
    /\ \E c \in ChallengeIds, p \in Patches :
        /\ InTable(c) /\ validateUpdate(challenges[c], p)
        /\ Next1(r, [op |-> "update", c |-> c, p |-> p])
    /\ UNCHANGED challenges /\ FilesKept

UpdateChallenge(r) ==
    /\ Busy(r, "update")
    /\ LET c == wreq[r].c  new == Patched(challenges[c], wreq[r].p) IN
       \/ Refused(r)     \* gone, or refused by the type or by a CHECK
       \/ InTable(c) /\ chk_challenges(new) /\ StoreRow(c, new) /\ Done(r)
    /\ FilesKept

\* Delete, after the instance was destroyed and unless a visible challenge of
\* a running event is refused: the attachment rows go with the challenge, the
\* objects stay.
DeleteChallenge(r) ==
    /\ Busy(r, "atDesk")
    /\ \E c \in ChallengeIds :
        /\ InTable(c)
        /\ challenges' = [challenges EXCEPT ![c] = Deleted]
        /\ attachments' = [a \in AttachmentIds |->
              IF Recorded(a) /\ attachments[a].c = c THEN NoAttachment ELSE attachments[a]]
    /\ UNCHANGED <<objects, usedIds, wreq, doomed>>

(***************************************************************************)
(* Upload: the challenge is looked up, the object is put, the row inserted;  *)
(* when the insert fails the object is removed again.                        *)
(***************************************************************************)
UploadAttachment(r) ==
    /\ Busy(r, "atDesk")
    /\ \E c \in ChallengeIds : InTable(c) /\ Next1(r, uploadFiles(c))
    /\ UNCHANGED challenges /\ FilesKept

\* Faulty variant of ObjectKey (mutation checks).
MutObjectKey(c, a, f) == <<c, f>>

ObjectKey(c, a, f) == <<c, a, f>>

\* The store's Delete and Put.
Without1(key) == {o \in objects : o.key # key}
Put(key, a) == objects' = Without1(key) \cup {[key |-> key, of |-> a]}

PutObject(r) ==
    /\ Busy(r, "upload")
    /\ \/ Done(r) /\ UNCHANGED <<objects, usedIds>>     \* no such challenge, or Put failed
       \/ \E a \in AttachmentIds \ usedIds, f \in FileNames :
            LET key == ObjectKey(wreq[r].c, a, f) IN
            /\ usedIds' = usedIds \cup {a}
            /\ Put(key, a)
            /\ Next1(r, [op |-> "record", c |-> wreq[r].c, a |-> a, f |-> f, key |-> key])
    /\ UNCHANGED <<challenges, attachments, doomed>>

\* uq_attachments_challenge_filename and the foreign key.
Insertable(c, f) ==
    /\ InTable(c)
    /\ \A a \in AttachmentIds :
        Recorded(a) => attachments[a].c # c \/ attachments[a].f # f

CreateAttachment(r) ==
    LET q == wreq[r]
        row == [is |-> "row", c |-> q.c, f |-> q.f, key |-> q.key]
    IN /\ Busy(r, "record")
       /\ \/ /\ Insertable(q.c, q.f)
             /\ attachments' = [attachments EXCEPT ![q.a] = row]
             /\ \/ Done(r) /\ UNCHANGED doomed
                \/ Next1(r, [q EXCEPT !.op = "rollback"])  \* committed, answer lost
                   /\ doomed' = doomed \cup {q.a}
          \/ /\ Next1(r, [q EXCEPT !.op = "rollback"])
             /\ UNCHANGED <<attachments, doomed>>
       /\ UNCHANGED <<challenges, objects, usedIds>>

RollBack(r) ==
    /\ Busy(r, "rollback")
    /\ objects' = Without1(wreq[r].key) \/ UNCHANGED objects
    /\ Done(r)
    /\ UNCHANGED <<challenges, attachments, usedIds, doomed>>

(***************************************************************************)
(* DeleteAttachment: the row is read, the object removed, then the row.      *)
(***************************************************************************)
DeleteReads(r) ==
    /\ Busy(r, "atDesk")
    /\ \E a \in AttachmentIds :
        /\ Recorded(a)
        /\ Next1(r, [op |-> "deleteObject", a |-> a, key |-> attachments[a].key])
        /\ doomed' = doomed \cup {a}
    /\ UNCHANGED <<challenges, attachments, objects, usedIds>>

DeleteObject(r) ==
    /\ Busy(r, "deleteObject")
    /\ \/ /\ objects' = Without1(wreq[r].key)
          /\ Next1(r, [wreq[r] EXCEPT !.op = "deleteRow"])
       \/ UNCHANGED objects /\ Done(r)
    /\ UNCHANGED <<challenges, attachments, usedIds, doomed>>

DeleteAttachment(r) ==
    /\ Busy(r, "deleteRow")
    /\ \/ attachments' = [attachments EXCEPT ![wreq[r].a] = NoAttachment]
       \/ UNCHANGED attachments
    /\ Done(r)
    /\ UNCHANGED <<challenges, objects, usedIds, doomed>>

\* A download of a finds its object, and it is what was uploaded as a.
OpenAttachment(a) == [key |-> attachments[a].key, of |-> a] \in objects

PlatformRestarts ==
    /\ wreq' = [r \in AuthorReqs |-> AtDesk]
    /\ UNCHANGED challenges /\ FilesKept

AuthorNext ==
    \/ \E r \in AuthorReqs :
        \/ CreateValidates(r) \/ CliCreate(r) \/ Seed(r) \/ CreateChallenge(r)
        \/ UpdateReads(r) \/ UpdateChallenge(r) \/ DeleteChallenge(r)
        \/ UploadAttachment(r) \/ PutObject(r) \/ CreateAttachment(r) \/ RollBack(r)
        \/ DeleteReads(r) \/ DeleteObject(r) \/ DeleteAttachment(r)
    \/ PlatformRestarts

AuthorSpec == AuthorInit /\ [][AuthorNext]_authorVars

-----------------------------------------------------------------------------
(***************************************************************************)
(* A file a participant sees listed can be fetched, and is the one that was  *)
(* uploaded under that name: uploads of one name that race, and the rollback *)
(* of the loser, never touch the winner's object (attachments.go).           *)
(* Excepted are attachments somebody set out to delete (the object goes      *)
(* first) and an insert that was committed although its answer was lost.     *)
(***************************************************************************)
AttachmentServed ==
    \A a \in AttachmentIds :
        Recorded(a) /\ a \notin doomed => OpenAttachment(a)

(***************************************************************************)
(* However organisers' updates race, the next solve of a challenge is worth  *)
(* something, never more than the last one was and never less than the floor *)
(* (scoring/engine.go).  validateUpdate judges a row that may be stale.      *)
(***************************************************************************)
WorthHeld ==
    \A c \in ChallengeIds : InTable(c) =>
        \A n \in 0..MaxSolves :
            LET now == CurrentPoints(challenges[c], n)
                next == CurrentPoints(challenges[c], n + 1)
            IN /\ next >= 1 /\ now <= challenges[c].init
               /\ next <= now
               /\ challenges[c].scoring = "dynamic" => next >= challenges[c].min
=============================================================================
