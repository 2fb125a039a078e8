# A specification of the tunnel manager in TLA+

The tunnel manager is a Go backend that owns one Cloudflare Tunnel per hostname:
it creates the tunnel, its DNS record and its ingress rules at Cloudflare, keeps
the domains in SQLite, runs one `cloudflared` process per domain, and serves the
routes that need their prefix stripped from a proxy of its own.  This directory
holds TLA+ models of its stateful parts, TLC configurations that check them, and
proofs that TLAPS checks.  Paths below are relative to `src/internal/` unless they
start with `docs/`, `README.md` or `migrations/`.

`PROJECT.json` maps every definition to the lines it models.

## 1. Inventory

| component | state | operations | what is hard |
|---|---|---|---|
| process supervisor (`pkg/process`) | `procs`: domain -> `managedProcess` (cmd, stopRequested, restartCount, timer) | `Start`, `Stop`, `IsRunning`, goroutine `supervise`, timer callback, `emit` | two mutexes, a claim before the spawn, entries deleted by key, a backoff during which nothing is locked |
| domain lock (`services/domain/service.go`) | `mutationLocks`: id -> mutex + references | `lockDomain`, the unlock function | map, counts and mutexes change in different critical sections |
| domain service, control (`stop.go`, `restart.go`, `delete.go`, `HandleSupervisorEvent`) | rows of `domains` | read a row, act, write the whole row back | stop, restart and events take no lock; every write is of a row read earlier |
| domain service, routes (`update.go`, `routes.go`) | `domain_routes`, Cloudflare's rules, proxy snapshot | `UpdateOrigin`, `ReplaceRoutes` | three places, failures in between, compensation that may fail |
| ingress proxy (`pkg/ingressproxy`) | `byDomain`, atomic snapshot | prepare, commit, roll back, remove, `ServeHTTP` | two matching algorithms must agree; the host is shared by ids |
| domain service, create (`create.go`, `pkg/portalloc`, `pkg/cloudflare`) | tunnel, DNS record, snapshot, port, row | `CreateDomain` with reverts | no lock; check and insert far apart |
| start-up (`Reconcile`, `pkg/lifecycle`) | none of its own | bootstrap, proxy, `Reconcile`, server, shutdown | a pool spawns in parallel and writes the rows of its failures whole, against the events of the others; rebuilds the proxy from SQLite; children may survive |
| listing (`list.go`, `pkg/repo/domain/list.go`, `scopes/pagination.go`) | none of its own; the cursor is with the client | pages by cursor or by number | rows come and go between two pages; `created_at` is older than the insert |
| streams (`notify.go`, `pkg/logbuf`, `stream.go`, `detail_stream.go`) | subscribers, log buffers | subscribe, signal, list again | signals of capacity one, snapshots of two queries, buffers removed by a deletion |
| authentication (`services/auth`, `pkg/jwt`, `pkg/middleware`) | one row: password, token version | bootstrap, login, authenticate, change | versions read, incremented in memory, written |
| repository (`pkg/repo/domain`, SQLite) | tables | statements and transactions | one connection: each is atomic; `hostname` is UNIQUE, `metrics_port` is not |
| not modelled | | DTOs and error codes of the handlers, CORS and origin middleware, cookies, zones, encryption, configuration, logging, wiring | stateless, or plumbing (section 5) |

Interaction: a request handler calls the domain service; the service calls the
repository, the Cloudflare client, the proxy and the supervisor; the supervisor's
goroutines call `HandleSupervisorEvent` synchronously, which writes the row and
signals the streams.  Output of a process goes to the domain's log buffer, which
signals the detail streams.

What makes each part correct: one tracked process per domain, and a stop that is
final (supervisor); one handler per domain, nothing leaked (lock); rows that say
what is the case once writers are done (control); every URL answered by the old or
the new table, and by the stored one at rest (routes, proxy); all or nothing
(create); no lost wake-up, a faithful tail (streams); tokens that die with the
password they were issued for (auth); every active domain back after any end of the
backend (start-up); a list that misses nobody who stays (listing).

## 2. Modules

| module | models | composed of |
|---|---|---|
| `TunnelSlots` | what the supervisor promises: slots that are claimed, filled, emptied, released | |
| `Supervisor` | `pkg/process` | implements `TunnelSlots` |
| `SupervisorProofs` | theorems about `Supervisor` | |
| `KeyedMutex` | what `lockDomain` promises: a mutex per id | |
| `DomainLock` | `lockDomain` | implements `KeyedMutex` |
| `DomainLockProofs` | theorems about `DomainLock` | |
| `DomainControl` | stop, restart, delete, end of create, event handler | extends `Supervisor`: every step of the supervisor is a step of it |
| `DomainControlProofs` | theorems about `DomainControl` | extends `SupervisorProofs` |
| `Lifecycle` | start-up, `Reconcile`'s pool and bulk write, the end of the backend at any step | extends `DomainControl`; its requests run between start-up and end |
| `LifecycleProofs` | theorems about `Lifecycle` | extends `DomainControlProofs` |
| `RouteTable` | normalisation, order, matching, and what is promised of them | |
| `RouteUpdate` | replacement of routes, deletion, crash | extends `RouteTable`; uses the lock as a `KeyedMutex` |
| `RouteUpdateProofs` | theorems about `RouteUpdate` and `RouteTable` | |
| `MCRouteUpdate` | instances for TLC | |
| `Provision` | `CreateDomain` with its reverts, `DeleteDomain` at Cloudflare, clients that leave, crash | |
| `Listing` | `GET /api/domains` in pages | extends `Provision`, whose steps change the table meanwhile |
| `ListingProofs` | theorems about `Provision` and about `Listing` | |
| `MCListing` | instances for TLC | |
| `Auth` | bootstrap, login, authentication, password change | |
| `AuthProofs` | theorems about `Auth` | |
| `Streams` | list stream, detail stream, log buffer | |
| `StreamsProofs` | theorems about `Streams` | |

Conventions.  An action is one section of a mutex, one SQL statement or
transaction, or one call to the outside; between two of them everybody else may
move.  Names follow the Go functions.  A `\* Mutant:` definition is a plausible bug
of the definition after it; it is used only to see that a property notices it.

How state corresponds to code:

- `Supervisor`: a *run* is one `managedProcess` with the goroutine that executes
  `Start` and then `supervise`; `pc[r]` is its place, `procs`, `stop`, `count`,
  `timer` are the Go fields, `cmd` says whether `mp.cmd` is nil, the process that
  exists, or an older one; `os` is the process itself.  A *caller* is a request in
  `Stop`, with the record and the `*os.Process` it has read.
- `DomainControl`: `rows` is reduced to status, pid and origin, because whole-row
  writes of these are what can be lost; `req` holds the row a request has read,
  `ev` the row an event handler has read.  `locked` is the lock per domain;
  `RouteUpdate` and this module use it as `KeyedMutex`, which `DomainLock` is shown
  to implement.
- `Lifecycle`: a goroutine of `Reconcile`'s pool is a caller whose operation is
  "boot": it runs the same `spawn` as a creation or a restart.  `todo` are the rows
  it has still to take, `failed` what it hands to `UpdateBulk`.  `Crash` forgets
  everything in memory; the children die with the backend or become `strays`.
- `RouteUpdate`: `edge`, `db` and `proxy` are the three copies of the routes;
  `req` holds the old and new table of a request.  Properties speak about what a
  client gets for a URL (`Served`), not about equality of the copies.
- `Provision`: `tunnels`, `records`, `snapshots`, `rows` are what exists for each
  id; `reverts` is `revertFuncs`.  `gone` are the requests whose context was
  cancelled.
- `Listing`: a cursor is the row it was made from, and a page the set of its rows;
  `listed` and `stayed` are history.
- `Auth`: a token is its version; the password in it is history, used only to say
  what a valid token means.
- `Streams`: `version` counts committed mutations, so a snapshot is the version its
  rows and its routes were read at; `signal` is the content of the channels.

## 3. What is checked

Passing runs:

| run | shows | size |
|---|---|---|
| `supervisor` | one tracked process at most; entries released by their owner; the first stop is not lost; the retry loop ends; implements `TunnelSlots` | 194 000 states |
| `lock` | mutual exclusion, no leak, everyone is served; implements `KeyedMutex` | 18 000 |
| `control_stop` | at rest no row is active without its process; a stop is final for process and row; every error path gives the lock back | 323 000 |
| `control_restart` | late writes do not bring a deleted row back | 1 490 000 |
| `lifecycle` | active domains come back after any end of the backend, whatever failed; the start-up ends | 489 000 |
| `routes` | no local 404, old or new answer, promised answer at rest, SQLite behind Cloudflare, no route of a deleted domain, the lock comes free | 77 000 |
| `listing` | rows are complete, failed creations leave nothing; a client that follows the cursor misses nobody who stays | 3 120 000 |
| `auth` | a valid token belongs to the current password; refused tokens stay refused, with one client changing the password | 2 400 |
| `streams` | no change and no line is missed; the buffer is the tail of the output; clients converge | 262 000 |

Runs that are expected to be violated, each a statement of the documentation that
the code does not keep (`findings` in `PROJECT.json`):

| run | statement | what happens |
|---|---|---|
| `lost_stop` | engine design, "Manual stop": the supervisor will not auto-restart | a stop during the backoff is forgotten (`helper.go:77-89`) |
| `orphan` | engine design, "Delete": kill the subprocess, then delete the row | a deletion between insert and spawn leaves a process (`create.go:100-104`) |
| `auth_overlap` | README: every older token is invalidated | overlapping changes revive a token (`change_password.go:56-58`) |

Further divergences that the models show.  Each has a configuration that TLC
violates with the named property; they are kept beside the runs:

- `DomainControl_stale_pid.cfg`, `PidIsCurrent`: a stop writes back the pid of the
  process it ended (`stop.go:19`; engine design, table of `domains`, `pid`).
- `DomainControl_stale_event.cfg`, `RunningIsActive`: a restart between the release
  of the entry and the Stopped event leaves a running process in a row that says
  "stopped" (`helper.go:57-61`).
- `DomainControl_lost_origin.cfg`, `OriginMirrored`: an event handler overwrites
  the origin that a replacement of routes has just stored (`service.go:275`;
  multi-path design, "mirror the `/` route into `domains.origin_url`").
- `DomainControl_no_restart.cfg`, `RestartStarts`: restarting a running domain does
  not restart it (`supervisor.go:34`; README, table of endpoints).
- `MCRouteUpdate_drift.cfg`, `RoutableAfterDrift`: after a rollback that failed at
  Cloudflare, the next replacement drops routes that Cloudflare still uses
  (`update.go:59`; multi-path design, "retain the transition snapshot").
- `MCRouteUpdate_restart.cfg`, `StartsAgain`: the path `//` is stored as the empty
  path, which `Reconcile` refuses; so it does with `/a` beside `/a /`, which is stored
  with its space and is a duplicate when it is normalised again (`routes.go:111-113`,
  `service.go:222-225`).
- `Provision_same_host.cfg`, `HostServedByOwner`: a creation that will lose at the
  insert serves a live hostname meanwhile (`create.go:54`; engine design, one domain
  cannot break another).
- `Provision_client_gone.cfg`, `RollbackUndoesAll`: the reverts use the context of the
  request; when the client leaves they fail at Cloudflare (`create.go:16-24`).
- `Lifecycle_strays.cfg`, `NoStrays`: children that survive the backend are nobody's;
  the start-up adds a second process (`lifecycle.go:108`).  In the container they die
  with it.
- `Lifecycle_stop_crash.cfg`, `StopOutlivesCrash`: the Active event overwrites an
  answered stop, the backend ends before the Stopped event, and the next start brings
  the domain back (`stop.go:15`; engine design, manual stop).
- `Listing_offset.cfg`, `PagesListEveryone`: pages by number skip a row when one
  before it is deleted between two pages (`scopes/pagination.go`).
- `Provision_token_leak.cfg`, `RollbackUndoesAll`: a tunnel whose token cannot be
  read is not deleted (`cloudflare/client.go:73-78`).
- `Provision_same_port.cfg`, `PortsAreDistinct`: two creations get one metrics port
  (`create.go:76-84`).

Also seen: the code retries after every unexpected exit, the engine design only
after a non-zero code; a row that could not be deleted stays without tunnel and
DNS record (`delete.go:28-38`); the buffer of a deleted id can come back into the
map of logs (`service.go:160-169` against `delete.go:39-42`); a start-up that fails in
`Reconcile` ends the process, where the authentication design (lines 187-189) leaves it
running degraded; a row that `Reconcile` marks as failed keeps the pid of an earlier life.

### Bounds

- `Supervisor`: one domain (entries of different domains share nothing but `s.mu`,
  and the proofs cover any number), two runs, so that one can end while the next
  begins; records are reused when nobody refers to them.  Two callers of `Stop`.
  `MaxRestarts` is 1 instead of 5: giving up, retrying and counting all happen.
  One fired timer callback per record may be late.
- `DomainControl`: the same; an id is created once, as ids are random.  Both
  runs have two requests besides the creation, and one run of the supervisor.
  `control_stop` has the timer and no restart requests; `control_restart` has stops,
  restarts and deletions that overlap, no timer and no retries.  The configurations
  of section 3 that need two runs have them.
- `DomainLock`: four handlers, two ids, three records.
- `RouteUpdate`: a domain begins as `CreateDomain` leaves it, or with the one origin that
  the migration gave it.  Paths `/`, `/a`, `/a/b`, `/aa`, with the inputs that normalisation
  treats in a way of its own, at most 3 routes; URLs on, below and beside each path.
  `FaultSets`: either only failures that are compensated, or all of them; properties
  about what is served speak of the former, the others of both.
- `Lifecycle`: one domain, one creation, requests that restart and delete; two
  starts, so that the second finds whatever the first left.  A first start finds an
  empty table or one with any row, so that earlier lives are covered too.
- `Provision`, `Listing`: two ids, two hostnames, two ports; two creation times, so
  that ids decide between equal ones; pages of one row.  `FaultSets`: either failures
  that are compensated, or those that are not.  Hostnames are interchangeable.
- `Auth`: three clients, three passwords, three versions.  Passwords return, so
  "old" and "new" may be the same word.
- `Streams`: one client of each kind, one mutation besides the deletion, capacity 2,
  three pieces of output in writes of one or two: a line is cut off and a partial
  line is left over.

### Fairness

Go runs every goroutine that can run, so a step that a handler or a `supervise`
goroutine can take by itself is weakly fair.  `cloudflared` obeys SIGTERM
(weakly fair exit of a signalled process, and of no other: processes need not
crash).  `sync.Mutex` hands over to the longest waiter in its starvation mode: the
acquisition of a lock is strongly fair in `DomainLock`.  The container
restarts the backend when it ends (`restart: unless-stopped`), so the steps of the
start-up are weakly fair together.  Clients, requests, timers, crashes and failures owe
nothing.

Deadlock is checked except where a deleted or settled domain is at rest for good
(`DomainControl`, `Lifecycle`, `RouteUpdate`, `Listing`): ids are not used twice.

## 4. What is proved

For every set of domains, runs, callers and every `MaxRestarts` (assumptions:
`NoRun` is not a run, `MaxRestarts` is a natural number), in `SupervisorProofs`:

- `Invariance`: the inductive invariant `Inv`.  `AtMostOneProcess` is not inductive:
  it needs to know which threads own an entry.  `Inv` says that a thread between its
  claim and its release is the one stored in `procs` under its domain, that an entry
  belongs to such a thread, that a process exists only at certain places of its
  thread, and which value `mp.cmd` has there; for `FirstStopNotLost`, that a
  requested stop of a run that never restarted is still to be seen by `Start`, or is
  in the hands of a caller that will signal, or has been signalled.
- `TypeCorrect`, `Tracked`, `MutualExclusion`, `StopHandshake`, `OwnerReleases`: the
  properties of the run `supervisor` follow from it.
- `Refinement`: every step of the supervisor moves at most one slot, as
  `TunnelSlots` allows.
- `FirstStopIsFinal`: what `StopTakesEffect` says of the process, without its "at last".  A
  run that was told to stop before its first crash was counted stays so until it ends, and
  launches at most the process that `Start` was about to launch.

For every set of keys and locks and every finite set of handlers, in
`DomainLockProofs`:

- `Invariance`: the count of a lock is the number of handlers that refer to it
  (a cardinality, so the proof uses the library's theorems on finite sets), handlers
  with one id share one lock, and the owner of a lock is the handler inside.
- `Exclusion`, `NothingLeaks`.
- `Refinement`: the handlers inside, by whichever record they locked, follow
  `KeyedMutex`.

For every set of domains, runs, requests and origins, in `DomainControlProofs`:

- `ControlInvariance`: `ControlInv` is `Inv` of the supervisor with three facts of
  the service: a request under way has read a row, a handler of a deletion or a
  replacement has the lock, and its row stays until it removes it itself.  The last
  one needs the lock, and the lock needs `NoCaller` not to be a request.
- `Composition`: every step of `DomainControl` is a step of `Supervisor` or leaves it
  alone, so each theorem about the supervisor is one about the service;
  `ControlExclusion` is the first of them.
- `NeverBack`: `DeletedStaysDeleted`.  A write of a whole row cannot insert it
  (`RowsAffected` is 0); the replacement of routes relies on the lock.
- `ControlTypeCorrect`; `ControlSlots`: the service, too, implements `TunnelSlots`.
- `ActiveTracked`: `ActiveIsTracked`, if nobody asks for a restart (`NoRestarts`), as in
  the run `control_stop`.  The pid in a row is that of a run of this domain that has begun
  and has not emitted its last event (`RowsBacked`), unless `StopDomain` wrote it back:
  only the Active event writes "active", and the event that ends a run is its last step.
  A restart writes the row back as it read it (`restart.go`), with whatever status and
  pid that was.
- `OnlyStoppedIsStale` and `CurrentWithoutStops` delimit the divergence
  `DomainControl_stale_pid.cfg`: of all the writers only `StopDomain` leaves a pid that is
  over.
- `LocksInUse`: a domain's lock is held by a handler at work on this domain, never by
  one that has returned; that it comes back in the end is `LocksReleased`, a run.
  `UsesMutex`: seen as the handlers inside, the service follows `KeyedMutex`, which
  `DomainLock` implements, so the two models fit together.
- `OrphansWereRestarted` and `DeletionsLeaveNothing` delimit the finding `orphan`.  As long
  as no start of a domain overlaps its deletion (`SpawnsApart`), the run that is supervised
  for a deleted domain was told to stop before the row went away (`DeletionInv`): so a process
  left at rest is one that the supervisor restarted in spite of the stop, the finding
  `lost_stop`; and without retries (`MaxRestarts = 0`) there is none.

For every number of lives as well, in `LifecycleProofs`, which reuses the lemmas of
`DomainControlProofs` for each request and run:

- `LifeInvariance`: `ControlInv` survives a crash, because everything it relates is in
  memory together; and `Reconcile` forgets no active row (`Covered`): each is to be
  taken, or reported as failed, or in the hands of a goroutine, or supervised, or about
  to be told.  This needs that only the pool starts domains before the server listens.
- `LifeTypeCorrect`, `LifeExclusion`, `EveryoneComesBack` (`ActiveComesBack`),
  `NeverBackInAnyLife` (`DeletedStaysDeleted`, across lives).
- `ActiveTrackedInAnyLife`: `ActiveIsTracked` whenever the server listens, without restart
  requests.  A crash leaves active rows with the pids of runs that are gone, so `RowsBacked`
  does not survive it.  What does (`Revived`): while the backend starts, an active row has
  the pid of a run of this life, or is to be taken, reported as failed, in the hands of a
  goroutine, or waiting for its Active event, for which the goroutine waits, too; and
  nobody stops anything before the server listens.

For any tables, requests, origins, URLs and failures, in `RouteUpdateProofs`
(assumptions: `/` is a character; the limits on routes and paths are positive; URLs begin with `/`; `NoTable`, `NoRoute` and `NoCaller` are none of the
things they stand against):

- `Invariance`: `Inv` says of each place of the request inside what edge, table and
  proxy hold (`Stage`), whatever goes wrong; and more (`Compensated`) when only that
  goes wrong which the code compensates.
- `TypeCorrect`, `NeverAhead` (`SQLiteFollowsCloudflare`), `DeletedGone`
  (`DeletedIsUnrouted`), `AlwaysRoutable` (`Routable`), `NeverMixed` (`OldOrNew`),
  `Agreement` (`AgreeAtRest`).  The last three rest on the two matching algorithms.  A
  stored table has one route of each path, so at most one prefix of each length fits
  a URL: the first rule that matches at the edge is therefore the longest that fits
  (`EdgeIsLongest`), and so is the route that the proxy finds (`ProxyIsLongest`).
  A snapshot with a route for each path that the edge sends here answers by a route
  at least as long as the edge's rule, which covers the URL (`AnswerBacked`); the
  transition snapshot is such a one for the old and for the new rules.
- `StartsAgainOnCleanPaths` delimits the divergence `MCRouteUpdate_restart.cfg`: if no
  accepted request has a path of slashes alone, or one with a blank before its trailing
  slashes, then what is stored is its own normal form, and every start-up accepts it.

For any ids, hostnames, ports and faults, in `ListingProofs`:

- `Invariance`: each place of a creation determines the stack of reverts, and what it
  has and has not outside.
- `TypeCorrect`, `RowsComplete` (`RowIsComplete`), `NothingLeftBehind`
  (`FailedLeavesNothing`).
- `PortsDistinctOneByOne` and `OwnerServesOneByOne` delimit `Provision_same_port.cfg` and
  `Provision_same_host.cfg`: ports are distinct, and a hostname is served by the domain
  that owns it, as long as no two creations overlap between the check and the insert
  (`OneAllocation`, `OneOfEachHost`); failures, reverts, deletions and crashes add no other
  way.  `OneRowPerHost` needs no such condition: there the insert itself refuses.

For any table, page size, filter and creation times, also in `ListingProofs` (assumption: ids
are natural numbers, as only their order matters):

- `Limit`: what `LIMIT` cuts off comes after what it keeps, and then the page is full,
  so that there is a cursor.
- `EveryoneListed` (`ListsEveryone`): whoever stayed and is not listed comes after the
  cursor.  `ListingTypeCorrect`, `ListedRowsComplete`, `NothingListedLeft`: listing
  changes nothing of what holds of creations.

For any clients, passwords and versions, in `AuthProofs`:

- `Invariance`, `TypeCorrect`: requests act only while the backend is up, on a row that
  was there; however they overlap.
- `SerialHolderKnows` (`TokenKnowsPassword`) and `SerialStaysRefused`
  (`RefusedStaysRefused`), as long as no two changes of the password are between reading
  the row and writing it (`NoOverlap`): then no token and no row read before is ahead of
  the row, and one of the row's version was issued for its password (`Known`).  Overlaps
  are the finding `auth_overlap`; this shows that they are its only cause.
- `OneIsSerial`: where one client changes the password, as in the run `auth`, nothing
  overlaps (`HolderKnows` and `StaysRefused` are the two theorems under that condition).

For any clients, buffers, capacity and output, in `StreamsProofs` (assumptions: the
capacity is positive, the deleter is a writer, no client is on both streams):

- `Invariance`: who is subscribed; whose buffers were made; and three facts.  A viewer that
  has read half of a snapshot, or all of it, and whose half is old has a signal or a writer
  is about to publish.  A reader whose lines are old has a signal, from the moment it has
  read them.  An open buffer holds consecutive pieces that end with the last one written.
- `TypeCorrect`, `ViewersMissNothing` (`NoChangeMissed`), `ReadersMissNothing`
  (`NoLineMissed`), `BufferIsTail` (`LogIsTail`).  The last one needs what one write does to
  the lines: it completes some, starts another, and the oldest are cut off together
  (`LastLinesKept`).

Each proof has one step per action; temporal steps only combine.

Every invariant and every action property of a passing run is a theorem.  Some of them
carry a condition: `NoRestarts` for `ActiveIsTracked`, as in its run; `NoOverlap` in
`AuthProofs`, which the condition of its run implies.  Only model-checked is liveness, as
fairness and ENABLED are out of reach of the prover: `TerminatedIsReleased`, `RetryEnds`,
`EveryoneIsServed`, `StopTakesEffect`, `LocksReleased`, `BootCompletes`, `LockComesFree`,
`ViewersConverge`, `ReadersConverge`.  What recursive definitions compute for every input is out
of its reach too; the modules have none, and the community operators on sequences are
used through their definitions.

## 5. Not modelled, and why

- The syntax of hostnames, zones and origin URLs (`zones.go`, `normalizeOriginURL`):
  string functions without state.  A creation may be refused before its first effect
  (`Refuse`); of an origin it matters whether it is the proxy itself and whether it has
  a path, which domains older than the routes may have.
- Forwarding by the proxy (headers, errors of the upstream), CORS, origin checks and
  cookies, binding and error codes of the handlers: no state between two requests.
- Hashing, signing and encryption are taken as perfect; a failure of decryption is one
  of the failures of `Reconcile`.
- Configuration, logging, wiring, directories and file modes: they run once before
  anything else does.
- Labels and addresses of the Prometheus discovery; which domains it lists is
  `ActiveDomains`.
- Heartbeats and the polling of metrics in the detail stream, and the log file: they
  write to one client, or to one file, and nothing reads them back.
- The comparison of `created_at` in SQLite is one of texts; the models take it as
  the order of the instants.
- Failures of the database in `DomainControl` and `Lifecycle`: the
  event handler drops the error of its write, a request answers with it, and the row
  says what it said before.

## 6. What could follow

Which of the divergences of section 3 have no other cause than the one shown, as is proved
for stale pids, orphans, ports, hostnames, paths and overlapping changes: open are
`RunningIsActive`, `OriginMirrored` and `RollbackUndoesAll`.  An abstract specification of
routing as one atomic table per domain is not among them: during a replacement different
URLs go over to the new table at different steps, so `OldOrNew`, which is about one URL,
is what the code promises.  Several backends on one table the code does not foresee.
