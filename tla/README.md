# A TLA+ verification of OSCTF

OSCTF is a capture-the-flag platform: one Go process in front of PostgreSQL,
Redis and Docker. Teams submit flags, start per-team challenge containers and
watch a scoreboard; organisers edit challenges and the event; plugins judge
flags and compute points in processes of their own. This directory models the
parts in which concurrent requests, background sweeps, caches and faults meet,
checks them with TLC on small instances and proves the central facts with TLAPS
for every instance.

Run a check with `tlc -config MCTeamLock.cfg MCTeamLock` (any pair below), the
proofs with `tlapm TeamLockProofs.tla` and likewise for the other `*Proofs` modules.
`CaptainIsMember` is checked on the component itself: `tlc -config MCTeamsStranded.cfg Teams`.

## 1. Inventory

| Component (source) | State | Operations | Hard behaviour | What makes it correct |
|---|---|---|---|---|
| Per-team lock registry (`internal/scheduler/scheduler.go`) | `teamMu` map of refcounted one-slot channels | lockTeam, tryLockTeam, unlock, release | entry dropped while someone is about to use it; wait abandoned | a mutex per team; no entry lost or leaked |
| Instance scheduler (`internal/scheduler`) | `instances` rows; the event-end latch | Start, Stop, Extend, ExpireOnce, ReapStaleOnce, CleanupEnded | check-then-act across a minutes-long deploy, stale sweep listings, crash | quota, nothing destroyed without cause, every row reclaimed |
| Container runtime (`internal/runtime`) | rows, ports, containers, team bridges | allocateRow, Deploy, Destroy, Status, Reconcile, refreshHealth | lock-free reconcile against deploys; partial failure with Docker | ports unique, orphans removed, no live deploy disturbed |
| Flag submission (`internal/submissions/service.go`) | `submissions`, challenge row locks | Submit | races for the solve and for the last attempt; plugin verdict computed outside the transaction | one solve per team, limits held, verdict current |
| Score repair (`internal/submissions/scorerepair.go`) | value and source of a solve | RepairOnce | races with the request; plugin outages | write-once value, every solve scored |
| Scoreboard (`internal/scoreboard`) | Redis boards, `lastCount`, mutex | Recompute, RecomputeForce, served, readRepair, MaybeSnapshotFreeze, ReconcileIfBehind | recomputes out of order; freeze; Redis loss | board not behind the log, freeze shows nothing late |
| Event window (`internal/events/service.go`) | event row | phase, freeze, update | phase read long before it matters | seen through the scheduler and the scoreboard |
| Challenge administration (`internal/challenges`) | challenge rows, attachments (a row and an object), type registry | Create, Update, Delete, AddAttachment, DeleteAttachment, seeding, CLI create | partial updates that race; a file in two stores | the next solve is worth something; a listed file can be fetched |
| Event bus (`internal/events/bus.go`) | copy-on-write subscriber list, bounded queues | Publish, Subscribe, run, remove | publish against remove; drops | every event delivered or counted as dropped; removal ends |
| Plugin host (`internal/plugin`) | supervisor state per plugin, connections, pidfiles, budgets | boot, launch, crash, backoff, quarantine, reload, drain, stop, dispatch | call in flight across a reload; slot leaks; host killed | no dead client published, budget returned, children reclaimed, stop completes |
| Provider registries (`cmd/platform/plugin_registrar.go`, `internal/scoring`, `internal/auth`) | name to provider | Register, Deregister | revert against crash, reload and stop | a provider in a registry is served by someone |
| WebSocket hub (`internal/ws`) | client queues, pending board, throttle, admission counters | Broadcast, Run, admit, release, pumps | overflow, coalescing, order | order kept, phases kept, the newest board arrives, slots returned |
| Teams (`internal/teams`) | teams, members, captain | Create, Join, Leave, captain's operations, RepairStrandedCaptains | joins and leaves that race | size limit; a captain is a member |
| Session store (`internal/auth/session.go`) | Redis keys with expiries, per-user index | Create, Get, Delete, DeleteAllForUser | refresh against expiry and revocation | the index lists every live session |
| Accounts (`internal/auth`, `internal/users`, `internal/handlers/auth*.go`) | users, sessions, login states, identities | register, login, external login, ban, password change | login against ban; callbacks that race | no checked session of a banned user; one account per subject |
| HTTP gate (`internal/httpserver`, `internal/auth/token.go`, `internal/handlers/guards.go`, generated server and client) | the request's identity | middleware chain, token authentication, scope gate, wrapper, guard | credentials that change under a request; layers that must agree | live authority; no operation reachable around a layer |
| Password gate, rate limiter, resource budget | counters | acquire, release; window count; arithmetic | waiting bound | not modelled, section 7 |
| Dashboard, config, metrics, audit, SDK | - | - | - | not modelled, section 7 |

Interaction: HTTP handlers call the services directly; tickers in
`cmd/platform/main.go` drive the sweeps, the reconcile pass, the repair worker
and the scoreboard's reconcile; the services share PostgreSQL (row locks, unique
indexes, READ COMMITTED), the scoreboard shares Redis, and everything about
containers goes to the Docker daemon, which changes by itself. Submit publishes
on the bus and its handler recomputes the board, which calls the hub.
`PROJECT.json` lists the hazards line by line.

## 2. Modules

| Module | Models | Uses |
|---|---|---|
| `TeamMutex` | the abstract promise: one owner per team | |
| `TeamLock` | the registry, step by step over a heap of lock structs | refines `TeamMutex` |
| `Instances` | scheduler, rows, ports, deploy, sweeps, event-end cleanup | takes `TeamLock`'s promise as `holder` |
| `InstanceFleet` | + reconcile pass, health refresh, organiser's destroy | extends `Instances` |
| `Submissions` | Submit, score recording, repair worker, edits, plugin outages | |
| `Scoreboard` | recomputes, reads, freeze snapshot, ticker over Redis | |
| `EventBus` | publishers, subscribers, removal of the domain event bus | |
| `ScoreboardHub` | broadcasters, hub goroutine, client queues and pumps, admission | |
| `PluginHost` | supervisors, registries, dispatch, pidfiles, host restarts | |
| `ApiTables` | the generated server and client as tables | |
| `ApiGate` | one request through middleware, wrapper and guard | extends `ApiTables` |
| `Teams` | membership and captaincy | |
| `Sessions` | the Redis session store of one user | |
| `Accounts` | logins, external logins, bans, revocation | abstracts `Sessions` |
| `Authoring` | challenge rows, attachments, object store, seeder, CLI create | |
| `TeamLockProofs`, `InstancesProofs`, `SubmissionsProofs`, `ScoreboardProofs`, `TeamsProofs` | theorems (section 4) | the modules they are named after; `InstancesProofs` also `InstanceFleet` |
| `FanOutProofs` | theorems (section 4) | `EventBus`, `ScoreboardHub`, `PluginHost` |
| `AccessProofs` | theorems (section 4) | `ApiGate`, `Sessions`, `Accounts`, `Authoring` |
| `Minimum` | a lemma on Min that two of them cite | |
| `MC*` | TLC instances with their `.cfg` files; `MCFanOut` and `MCApi` hold several components that share no state, one exercised per behaviour | |

Definitions whose names start with `Mut` are deliberately faulty variants of the
definition that follows them. No specification uses them; each breaks the
property it was written for, which shows that the property can fail.

Every module has a type invariant (`TypeOK`, `BusTypeOK`, `GateTypeOK`, ...). They hold
under the configurations below when added to the INVARIANTS line. TLAPS proves
them for the lock registry, the scheduler, the fleet, the submissions and the scoreboard, and
what it needs of the others as a part of their inductive invariants; the runs keep
to the properties that say more.

### TeamLock and TeamMutex

`teamMu[t]` is the registry entry, `refs[s]` and `ch[s]` a struct's reference
count and its one-slot channel, `pc`, `tl`, `team` a goroutine's position, the
struct it took and its team. `RefExisting`/`RefNew` are refTeamLock under the
registry mutex; `Acquire`, `Cancel` and `TryFails` are the arms of lockTeam's and
tryLockTeam's select; `Unlock` and `Release` are the two halves of the returned
function. Structs are reused once nothing refers to them, so the model has the
recycling that would expose a stale pointer.

### Instances

`rows` is the instances table by primary key; `ctr` the daemon's containers with
the row id they are labelled with; `net` the team bridges; `holder` the team
lock. A request walks StartLock, StartCheck, StartQuota, EnsureTeamRow, InsertRow,
DeployNet ... DeployHealth (or StopLock, StopDelete), one step per call that
another actor can interleave with. `sweep` is the RunExpiry goroutine, `clean`
CleanupEnded with its workers, `latch` endCleanupDone in runTickers. The world may
tick, end or reopen the event, change a container, fail a call (`Fault`), or
crash the process.

Abstractions: waiting for the lock is not a state of its own (`TeamLock` covers
it, and that it is a mutex), so arriving is acquiring and `holder` names the one
inside. allocateRow's insert-retry loop becomes one choice
of the lowest port that is neither in the list it read nor taken since. `Extend`
is one step, since nothing but the phase can change between its check and its
write under the lock. `Chals` are the visible per-team container challenges;
shared instances, image isolation checks and log streaming are left out.

### InstanceFleet

Adds the actors that take no team lock. `RecContainers`, `RecRows` and
`RecDecide` are the three reads of a pass and the pure decision; every decision
is executed in a step of its own (`RecMarkLost`, `RecRemove`, `RecRemoveNet`);
`StatusRead`/`StatusWrite` are the health refresh (inspection and write in one
step); `AdminRemove`/`AdminDelete` are AdminDestroyInstanceById.

### Submissions

`req[r]` walks Submit: read the challenge, ask the plugin, lock the row, decide,
insert and commit, count, score, record, publish. `rep` is one RepairOnce pass,
row by row, with its cached solve counts. A point value is represented by the
solve count it was computed from. Refusals that change nothing (ban, event
window) are no steps. A crash, a failed query and a commit reported as failed
are faults. Not modelled: the per-instance flag comparison with its sharing
signal; the cascade from deleting a team; that the window and the ban are not
checked again inside the transaction. Submission ids are given in commit order
and stand for created_at.

### Scoreboard

A task is one goroutine inside the service; `cur` and `frz` are the two Redis
keys; a board is the rows it was computed from, so two boards are equal exactly
when the computation would see the same input. The arithmetic of the standings
is not modelled. `late` (solves since the frozen board
was captured), `due` (what a read has to show) and `iced` (the task saw the
freeze) are history variables; losing Redis restarts `late`, and a task that
could not read the event is not `iced`. A deletion is a hiding that is never
undone. The ticker's recompute at a phase change is part of `ReconcileIfBehind`.
The recompute at boot is one step: nothing else runs yet.

### EventBus

`list` is the atomically swapped subscriber list; a publisher (`pub`) works on the
snapshot it loaded. `sub` holds a subscriber's queue, the event its handler has in
hand and whether its context is cancelled; `rem` is the position of remove; `drops` is
the subscriber's drop counter, which a repeated count would push past the events there
were. `sent`, `took` and `counted` are history: what was offered, handled and counted as
dropped. Events are numbered in the order of the Publish calls.

### ScoreboardHub

`incoming` is the broadcasters' channel, `hub` the goroutine's last and pending board
and its clients, `cl` a connection from admission to return with its queue, tail
flag and what its pump has taken (`out`) and written (`seen`), `adm` the admission
counters. A frame is its kind and the number of its broadcast; whether a board comes
within the minimum gap is a choice. What is broadcast, and in which order, is
`Scoreboard`'s business: PhasesKept and FramesOrdered start at the hub.

### PluginHost

`actor[p]` is the supervisor goroutine (its `pc` follows run, serve, the backoff, the
parking and the teardown), `mg[p]` the loader's entry that dispatch reads, `procs` the
children ever launched, `pidfile` what the next boot can find, `provider` the
registries. `legalTransitions` and `to` are the state table, in which an illegal
transition is logged and ignored. A stop cancels the context the watcher runs under, so
serve can find its channel closed by a death or by the stop: `ServeCrash` is afterCrash
with its kill of an instance that may be alive, `MarkUnhealthy` the step after it that
withdraws the client. `Revert` clears the mark under the lock and `Deregister` empties the
registry after it. `SweepOrphans` chooses the pidfiles it keeps (unreadable, owner's pid
in use, kill fails) and those it drops as not its own; `left` marks the children it so
passes over. `HostEnds` kills the host anywhere. Timeouts may
fire whenever they could; whether a ready streak forgives earlier failures is a
choice. The instance's plugin is an auth plugin, whose
registration asks it for its capabilities and fails when it does not answer.

### ApiTables and ApiGate

`ApiTables` is the generated code read as data: the chi routes, which wrapper methods
demand a credential and parse parameters, which bodies are decoded, the statuses each
operation's response types write and those among them that carry no JSON, and on the
client's side the request built for each call and the statuses its parser decodes. Each table covers one stretch of a generated
file in the file's order. `TablesAgree` states what the two sides must have in common (the same operations,
routes and credentials, a 401 where a credential is demanded and a 403 where a guard
may refuse, and a parser for exactly the JSON answers the server writes); it is about
constants, and TLC evaluates it in the run api. `ApiGate` sends one request of any operation, by any
caller (player or administrator, banned or not, with a session, a token, both or
none, from this site or another), through the session middleware, the token
middleware with its owner read, its rate limit and its scope gate, the origin check,
the wrapper and decoder, and the guard. Between any two steps a role, a ban, a
session or a token may change (`MaxChanges`). `held` remembers what was true at some
moment of the request.

### Teams

The tables teams and team_members; `tlock` is the row lock of LockTeam. Join and Leave
are split at their statements, with the lookups that precede the transaction as steps
of their own. The order of members by joined_at is a choice, since it is the start
of the joining transaction. A restart rolls back what is in flight and runs
RepairStrandedCaptains. `vacated` is history: teams that everyone left and that were
kept for their submissions.

### Sessions and Accounts

`Sessions` has the clock: `key[t]` is what a session has left, `indexTTL` what the index
has. Get's read and its refresh are two steps, as are the listing and the pipeline of
DeleteAllForUser; a pipeline is MULTI/EXEC. `Accounts` uses what `Sessions`
establishes (the index lists the live sessions) and leaves the clock out. It follows
a login to the session and the second read of the ban, an external login from the
consumed state through binding, matching and provisioning, and a ban or a password
change through both halves of the revocation, each of which may fail. There is one
subject, at one provider; at each callback the provider asserts any of the `Addresses`
of it, in any of the `Spellings` that ToLower makes one. Two variables are history:
`asserted`, the addresses asserted so far of the subject while it was unbound, and
`untold`, the accounts whose last ban returned an error. A password change never enters
`untold`, and the next ban takes the account out of it again.

### Authoring

Requests of organisers, the CLI's create and the seeder, statement by statement, over
`challenges`, `attachments` and `objects`. Update reads the row, validates, and writes only the
columns it was given; the CHECK constraint of the table judges the result. A patch
(`Patches`) sets up to `MaxColumns` columns at once, the scoring mode among them, and may
clear the minimum or the decay to NULL (`Nil`, 0). A mode served by a plugin is
stored and judged like static scoring, as scoringMarker has it.
`CurrentPoints` is the scoring engine's formula. Rules about single columns, the
container rules and the type registry are a refusal without its reason.

## 3. Runs

| Run | Config | Shows |
|---|---|---|
| team_lock | `MCTeamLock` | the registry is a mutex per team, and it counts its users exactly |
| instances_quota | `MCInstancesQuota` | quota, cause of every deletion, one activity at a time on a row and its team |
| instances_ports | `MCInstancesPorts` | ports and owners unique; every row is reclaimed |
| fleet | `MCInstanceFleet` | what the lock-free reconcile pass never does |
| fleet_live | `MCInstanceFleetLive` | orphans, phantoms and wrong grades are repaired |
| submissions | `MCSubmissions` | solve, limit, verdict and recorded value under every race |
| submissions_repair | `MCSubmissionsRepair` | every plugin-scored solve gets its value |
| scoreboard | `MCScoreboard` | boards not left behind, reads not stale, nothing late in a freeze |
| scoreboard_hide | `MCScoreboardHide` | **violated**: a late recompute brings a hidden challenge back |
| fanout | `MCFanOut` | bus, hub and plugin host: events accounted for, frames in order and kept, slots exact, clients and providers live, children reclaimed; removal, delivery and stop complete |
| api | `MCApi` | gate, teams, sessions, accounts, authoring: authority is live, no layer is bypassed, team size and captain, index, bans, one account per subject, files, points |
| teams_stranded | `MCTeamsStranded` | **violated**: a captain who is no member, without any race |

A violated run checks one sentence of a comment or document; the sentence and
what the counterexample shows are under `findings` in `PROJECT.json`.

### Bounds

- team_lock: three goroutines, two teams, three structs. Two goroutines on one
  team and one on the other, with a struct free for recycling, is the smallest
  instance in which a stale entry could be taken.
- instances: one team with two challenges and quota 1 (two starts compete for
  the quota), or two teams with one challenge (two allocations compete for the
  ports). `MaxFaults` 1: one daemon or database error or crash anywhere.
  `LastReq` is the last tick at which requests arrive and containers change by
  themselves, so that the clock can run on and the sweeps be seen to finish. An
  activity in progress spans at most one tick; `Grace` 2 and `ReapAfter` are
  longer than a deploy, as reconcileGrace and the reap threshold are longer than
  the deploy deadline.
- submissions: two requests of one or two teams on one challenge, one edit or
  deletion and one fault anywhere. submissions_repair has up to three solves and a
  batch of one, so that the batch limit matters.
- fanout: two publishers and one subscriber with a queue of one, so that queue, drop
  and stale list meet; one connection whose queue of two overflows within four
  frames, and two handshakes, so that a shed client comes back; one plugin with two
  calls, two processes (a crash or a reload each need the second), one reload, two
  boots of the host. Liveness is checked, so there is no symmetry.
- api: the gate has every operation and every caller with one change. Three users,
  two teams of at most two and two requests: a join beside a join, a leave or a
  restart. Three tokens and a lifetime of four ticks, so that the index (eight)
  could run out before a session that was refreshed twice. Two accounts, two addresses
  and two requests: a login beside a ban, or two callbacks of one subject with one
  address or two. One session and one login state at a time are enough for that: every
  property here looks at one session, and a state is gone before its callback does
  anything else. One challenge with points up to two and patches of up to two columns,
  two attachments and two file names: two uploads, or two updates, that race. A
  behaviour has rows or files, since no rule looks at both. The components share the ids
  of their sets, so that one symmetry set covers them.
- scoreboard: two tasks, two challenges, one organiser's change, one fault. Two
  tasks suffice for every pairwise race of recompute, read, capture and tick.

`CHECK_DEADLOCK FALSE` wherever requests, edits or the clock are bounded: the model
stops when they are used up. team_lock has no such bound and checks deadlock.

Symmetry is used in runs without liveness, over requests, teams, challenges and
guesses, none of which the specifications order. It is not used with liveness.

### Fairness

- `FairSpec` of Instances: weak fairness of each request (every call has a
  context deadline), of the sweep and the cleanup (tickers), of the clock.
- `FleetFairSpec` adds the reconcile ticker. The clock there has strong fairness:
  a tick waits until no pass is in progress, passes end, and time goes on.
- `FairSpec` of Submissions: requests and the repair ticker. `RecoveringSpec` adds
  that a scoring plugin that is down comes back; SolvesScored cannot hold otherwise,
  and MissingRecorded is the sentence that claims something without it.
- `Spec` of MCFanOut: weak fairness of each publisher's loop, each subscriber's
  goroutine (a handler ends at the delivery timeout), each remove, the hub's
  goroutine and its timer, each connection's handler with its pumps (writes have a
  deadline), and each supervisor (launches, drains and backoffs are bounded by
  timeouts). Nothing is assumed of callers, browsers, operators or children.

## 4. Proofs

`TeamLockProofs` proves, for any sets of teams, goroutines and structs:
TypeCorrect, LockIsExclusive, RegistryIsExact, and LockImplementsMutex (every step
of the registry is a step of `TeamMutex` or a stutter). MutualExclusion alone is
not inductive: one must know that a goroutine holding a struct holds the one the
registry names for its team, that the channel is full exactly while someone is
inside, and that the reference count is the number of goroutines that hold the
pointer; `IInv` says this, and RegistryIsExact takes from it the count as well as the
entry.

`InstancesProofs` proves, for any number of teams, challenges, ports, requests,
faults and ticks: TypeCorrect, OneAlwaysAtWork (OneAtWork) and PortsUnique
(RowsDistinct). `IInv` is TypeOK with LInv: who
is inside the lock of which team (ReqOwns for requests, SweepOwns for the sweep,
CleanOwns for each cleanup worker), that listings name rows with the right team or
rows that are gone (ListsKnown), that live rows have a team, a challenge and an old
id (RowsOwned), that an insert about to happen has no rival (Unowned) and that the row
in a request's hand stays (RowPinned). OneAtWork needs all of it: a deletion by any actor
happens inside the lock of the row's team, although the sweep and the cleanup found the
row in an older listing, and whoever works on a row is inside the same lock. From the same invariant follow
ExpiryOnlyAdvances (ExpiryAdvances) and NeverDestroyedWithoutCause
(DestroyedForCause): RowChange shows that a row changes because of a deploy, a
deletion or an extension, and Doomed that the row a sweep has locked stays due
until it is deleted, since extensions and deploys need the lock it holds.
QuotaAlwaysHeld (QuotaHeld) adds Reserved: the place that a Start counted is still free
until its deploy ends, because only a request inside the team's lock makes a row
`running`.

With the actors that take no lock OneAtWork is false (an organiser's destroy deletes the
row under a deploy), so for the fleet the module proves FleetTypeCorrect and
UnrecordedAlwaysKept (UnrecordedKept) from an invariant that needs no lock. `FleetInv`:
ids of rows and containers are never given again (Labelled, Knows), and what the pass
has seen can change in one direction only. A listed container keeps its label or is
gone (ObsKept); a row that was missing when it was read, after its container was
listed, stays away; a row that had recorded a container may replace it or be deleted,
never forget it (RowsKept). So whatever it decided to remove is still an orphan or
belongs to a row that has recorded one (RmKept). RowsGoOn and CtrsGoOn say this of
single steps.

`SubmissionsProofs` proves, for any number of teams, challenges, requests, edits,
faults and any batch size: TypeCorrect, SolveIsFinal (SolvedIsFinal), LimitHeld
(AttemptsHeld), VerdictIsCurrent (VerdictCurrent), ValueWrittenOnce
(ScoreWriteOnce) and ValuesCountSelf (ValueCountsSelf). SolvedIsFinal,
AttemptsHeld and VerdictCurrent speak of the step that logs a row, but what justifies it was established several
steps before: `IInv` carries it up to there. Locked: a request inside its
transaction holds the challenge's row lock. Versioned and Judged: the version
a request read is not newer than the row, equal versions have equal answers, and a
plugin's verdict inside the transaction is for the row's version. Cleared: what
Decide found (not solved, attempts left) is still so, because only the lock's holder
adds rows of the challenge and edits and deletes wait for it. LogStep is the lemma
behind it all: a step keeps the log, appends one row or deletes one challenge's
rows. For the values, `VInv` adds what the numbers in flight have counted: the
request's count (ReqCounts) and the pass's cached counts and pending value
(RepCounts); CountingKept shows that such a count stays right while solves are
added behind the row and challenges are deleted.

`ScoreboardProofs` proves, for any finite sets of teams and challenges and any number of
goroutines, changes and faults: TypeCorrect, NoLateEverShown (NoLateShown),
ReadNeverBehind (ReadNotBehind) and SolvesAlwaysPublished (SolvesPublished). The
properties speak of the end of a read or of a moment of rest, so `BoardInv` follows each
task there: what the board in its hand can hold (BoardOK), that a public task which has
seen the freeze can only be on the way to the frozen board (IcedOK), and what a read
still owes at each of its positions (ReadOK). Of the cache it says what is stored
(StoreOK) and that a live board without one of the solves has a recompute under way
that will show it (Published). The code compares counts, not sets: while nothing has
been hidden, equal counts are equal sets because a board holds only solves of the
finite log. A guarded write that is refused was not needed, since the stored board has
at least as many; a publish that is forced over a newer board leaves a guarded round
behind it.

`FanOutProofs` proves nine theorems about the goroutines beside the requests.

- Plugin host, for any plugins, calls, processes and boots: ClientAlwaysLive
  (ClientLive), ProviderAlwaysServed (ProviderServed), NothingEverLeaks (NothingLeaks),
  SlotsAlwaysExact (SlotsExact) and AlwaysInBudget. In `HostInv`, PluginInv relates for
  each position of the supervisor the process in its hand, the loader's entry, the state
  of the table and the registry, the two steps in which a stop or a revert is half done
  included; LaunchOrder says that processes not launched yet are
  unused. `SlotInv` counts the holders of each semaphore; a crash of the host frees all.
- Hub, for any connections, keys and capacities: FramesAlwaysOrdered (FramesOrdered),
  PhasesAlwaysKept (PhasesKept), SlotsAlwaysReturned (SlotsReturned). `HubInv` orders
  the channel, the pending board and a client's stream (what its pump wrote, has taken
  and finds in the queue) by broadcast number, and says where each announced phase is
  (ClientKept); `AdmInv` counts the handlers between admit and return.
- Bus, for any publishers, subscribers and queue length: EventsAlwaysAccounted
  (EventsAccounted: all are handled, queued, in hand or counted, each once, but for at
  most one that was in hand at the teardown). `BusInv` adds to the account of each
  subscriber (Accounted) that no two publishers carry one event and that nobody was offered the event a publisher is
  about to offer (PubsApart).

`AccessProofs` proves seven theorems about who gets in and what is stored.

- Sessions, for any tokens, requests at the store and lifetime: IndexAlwaysCovers
  (IndexCovers). The index has an expiry of its own, so `SessInv` adds that it outlasts
  every session it lists; a refresh that comes after a logout re-adds a dead token,
  which is harmless, and a revocation that empties the index, and so removes its key,
  has ended every live session.
- Accounts, for any accounts, sessions and requests: BannedAlwaysOut (BannedOut) and
  SubjectAlwaysOneAccount (SubjectOneAccount). `AccInv`: a checked session of a banned
  account is on the way out, by a revocation that is yet to list it or has listed it
  (BanSeen, Covers), and while one address has been asserted of the subject, every
  callback at every step is on the way to the account that has it (OneAccount, ReqKept);
  accounts with other addresses come and go beside it.
- Authoring, for any challenges, attachments and requests: AttachmentAlwaysServed
  (AttachmentServed) and WorthAlwaysHeld (WorthHeld), the latter for patches of any number
  of columns. `FilesInv` needs that an object's key holds the
  attachment's own id, so that a rollback or a removal cannot hit another's file
  (OwnKey, UploadsApart, FileKept). `WorthInv` is the table's CHECK; RoundMono and
  RoundExact are what the formula's division does.
- Gate, for every operation, caller and number of changes: AuthorityAlwaysLive
  (AuthorityLive) and NeverAround (NoWayAround). `GateInv`: what the request acts on was
  true at some moment of it (HeldNow, IdnHeld, RanHeld); WeakerOutside goes through the
  route tables. `ChainInv` says of each position which layers are behind it.
  The generated tables themselves enter by TablesAgree.

`TeamsProofs` proves, for any users, teams, requests in flight and any maximum size:
SizeAlwaysHeld (TeamSizeHeld) and CaptainAlwaysKept (CaptainKept). The size is not
inductive: what a join counted must still be so when it inserts, which is because it
is inside the row lock (Inside) and nobody else adds members of that team (Room). For
the captain one must know which teams have no members at all (Emptied), because a join
of such a team is the one way to a captain who is no member, and that a member's team
exists (Housed).

All rest only on the named assumptions of the modules: bounds are naturals
(BoundsAreNumbers, BoundsNatural, ...), the null values are not members of the sets they
stand outside of (NoneApart, NoBoardIsNone, ...), a set that something counts is finite
(ProcsFinite, CallsFinite, ConnsFinite, ContestFinite), and TablesAgree. TLC evaluates
each of them on the instances it checks.

ExpiryAdvances and MutualExclusion are stated by theorems and not by runs.

Every invariant and every safety action property of a passing run is stated by a
theorem. Only model-checked: all liveness, since fairness is beyond the prover
(RowsReclaimed, OrphansRemoved, PhantomsNoticed, GradesCorrected, SolvesScored,
RemovalEnds, BoardArrives, StopCompletes). What a recursive definition computes would
need induction over data; no theorem speaks of it.

## 5. Observations that are not runs

Six sentences of the code are stated in the modules and are refuted by TLC. Checked
alone, on the instances given (the other constants as in the component's cfg files):

- `LatchedMeansClean` (Instances, `Spec`): `cmd/platform/main.go:628` says the event-end
  teardown "retries until no per-team instances remain". A Start that read the phase
  before the end inserts its row after the pass that latched; the row stays until its
  TTL. One team, one challenge, Ports = {1, 2}, TTL = 1, MaxNow = 4, LastReq = 2,
  MaxFaults = 1.
- `DeployContainerKept` (InstanceFleet, `FleetSpec`): `runtime/reconcile.go:127` says two
  guards keep a still-recording deploy safe. A redeploy of an old row keeps the old
  container id and updated_at until it records the new one, and the pass removes the
  container just created. One team, one challenge, TTL = 0, MaxTTL = 2, ReapAfter = 4,
  MaxInst = MaxCtr = 3, MaxNow = 5, LastReq = 4, MaxFaults = 1, Grace = 2, MaxAdmin = 0.
- `MissingRecorded` (Submissions, `FairSpec`): `submissions/scorerepair.go:45` says every
  valid plugin solve ends the pass with a record. While the plugin is down, a full
  batch of older pending rows is listed again on every pass. Two teams, Batch = 1,
  MaxSubs = 2, MaxFaults = 2, Fallback = FALSE.
- `BindingAgrees` (Accounts, `AccSpec`): `auth/external.go:267` passes over a unique
  violation because "the binding it wrote is the one we would have written". Two
  callbacks of one subject whose address changes at the provider between them match two
  accounts; the second finds the subject bound to the first and is logged in to an
  account it is not bound to. Constants of `MCApi.cfg`. SubjectOneAccount says what
  remains: with one address asserted, there is one account.
- `CrashedIsGone` (PluginHost, `HostSpec`): `plugin/supervisor.go:190` takes the watcher's
  channel for "the process died on its own" and line 236 calls it "already gone". A stop
  that comes while the supervisor registers or drains closes the channel too; serve may
  take that arm, and afterCrash kills a live, published instance before it withdraws it
  (the exception of ClientLive). Constants of `MCFanOut.cfg`.
- `DropsCounted` (EventBus, `BusSpec`): `events/bus.go:185` says an event whose handler the
  removal cuts off "is accounted for by the shutdown drain". The drain counts what is
  queued; the event in hand is in no count (the one that EventsAccounted allows).
  Constants of `MCFanOut.cfg`.

Scheduler, submissions, scoreboard:

- QuotaHeld holds for the scheduler alone. Composed with the reconcile pass it
  does not: CountTeamRunningInstances counts only `running`, an instance that fails
  its health check makes room for another, and refreshHealth later grades both
  `running`. `docs/v0.2/README.md:74` and `docs/v0.2/04-scheduler.md:156` say a team
  cannot exceed its quota. Adding QuotaHeld to a fleet configuration with a
  challenge in `Probed` shows it.
- Rows graded `stopped` are listed by neither sweep; RowsReclaimed says so.
- A built-in challenge swapped to a plugin type between the read and the row lock
  is judged by flag comparison: the version check covers plugin verdicts only.
- AdminUpdateTeam recomputes nothing, although `docs/v0.1/07-scoring.md:52` says it
  does; the count does not grow, so neither the guard nor read-repair notices.
- A frozen board lost with Redis is captured again from later data, although
  `INVARIANTS.md:29` says a freeze fails closed. frozen() is false when the event
  cannot be read.
- Two recomputes may broadcast in the other order than they wrote. A cache-miss
  write takes neither mutex nor guard. After a loss of Redis and a shrink of the
  log `lastCount` may refuse guarded writes until the next forced one.

Bus and hub:

- "Everything still queued is dropped and counted, never silent" (`events/bus.go:133`)
  leaves out the event in hand at teardown (EventsAccounted allows one), and an event
  that a Publish with the old list sends after the drain stays in a queue nobody reads.
- A full `incoming` channel drops the newest board, though the comment there calls it
  benign because superseded: nothing need supersede it. A phase frame dropped there
  is counted, and clients learn of the phase only when they reconnect.
- An exemption from the handshake rate is used up even when a connection cap then
  rejects the handshake, and a shed client's slot is held until its handler returns.

Plugins:

- A hot reload swaps without verifyIdentity, though `plugin/supervisor.go:112` says it is
  re-checked on every relaunch.
- "Receives no new calls" (`drainAndKill`) is not so for a call that picked the old
  connection before the swap and waits for a slot.
- A plugin whose registration is refused stays ready and unregistered, and a hot reload
  does not register it. A child that dies between its handshake and Info is
  quarantined as an identity mismatch.
- A child whose host is killed during its handshake, or while a reload is replacing it,
  is reclaimed by no later boot (the two exceptions of NothingLeaks).

Accounts and teams:

- Register makes no second read of the ban, and a second read or Delete that fails
  keeps the session (the exceptions of BannedOut). A login verified with the old
  password may create its session after a password change revoked the others, and
  the rehash at login can overwrite a concurrent password change.
- RequireCaptain and the update that follows are two statements: a captain who has
  left meanwhile still renames the team. Join looks the invite code up before the
  lock, so a regenerated code may still admit one.

Authoring:

- Updates that race are stopped only by the table's CHECK. A change of the type alone
  keeps a config validated for the old type, though `challenges/admin.go` says a row is
  never stored with config nothing validated.
- `osctf challenge validate` accepts files the server refuses. After a partly failed
  create a second run gets 409, and the missing files are not uploaded.
- Objects are left behind by a crash between Put and the insert and by deleting a
  challenge (the cascade removes rows). An insert that committed although its answer
  was lost loses its object to the rollback (the exception of AttachmentServed).
- A seeding interrupted midway is never completed: the next one finds a challenge and
  returns.

## 6. Plan

Done: lock registry, scheduler, fleet, submissions, scoreboard; then bus, hub, plugin
host, the HTTP gate with the generated tables, teams, sessions, accounts, authoring.

Next, in this order:

1. Proofs: RowsDistinct for the fleet (LInv without RowPinned should be
   inductive there); the type invariants of the bus, the hub, the plugin host and the
   HTTP side as theorems of their own.
2. Runs of their own for a Redis loss in a freeze and for AdminUpdateTeam, composed with
   the hub, so that two broadcasts in the other order are seen by a client.
3. The pure ranking of compute() against a reference definition; shared instances.

## 7. Not modelled

- `auth/password.go`: hashing is out of TLC's reach; its gate is a semaphore like
  PluginHost's. `redisx`: one Lua script; ApiGate has it as a step that may refuse.
- `fdbudget`, `config`: arithmetic and parsing before anything runs concurrently.
- `metrics`, `audit`: written, never read by the program. Event payloads are carried unread.
- `plugin/pluginpb`, `plugin/sdk`: generated code, and code of other processes; a plugin
  answers, fails or exits.
- The data types and marshalling of the generated API, the handlers' mapping to wire
  types, the CLI's output and token store, the dashboard.
- Shared instances, the isolation gate and log streaming of the runtime; the
  per-instance flag comparison with its sharing signal; standings arithmetic.
