# goblocks verification

TLA+ modules that model the stateful parts of goblocks (a Go framework for
building services), TLC runs that check them on small instances, and TLAPS
proofs of the results that matter most. Every definition is translated from the
source; `PROJECT.json` names, for each of them, the lines it stands for.

## 1. The system

| component | state it keeps | operations | who calls whom | what is hard about it |
|---|---|---|---|---|
| container manager, registry (`containermanager/containers.go`) | a map container → idle/busy under one RWMutex | `CreateAndRunContainer`, `FindContainers`, `StopContainer`, `Execute`, `Stats`, `WaitForIdle` | clients call it from any goroutine; it calls Docker, and starts `teardown` and `StopContainer` in the background | the lock is released between any two Docker calls; every Docker call may fail; Docker removes containers by itself (`AutoRemove`); the map does not survive a restart, the containers do |
| container manager, one execution (same file) | the loop of `execAttach`, the goroutine of `streamOutput`, three unbuffered channels | `execAttach`, `streamOutput`, `checkLimits` | two goroutines and the caller that reads the channels | a limit races the end of the stream; frames are cut arbitrarily; counters are unsigned |
| memory cache (`cache/memcache`) | a map with use counts and ages, a byte counter | `Get`, `Set`, `Del`, `Cleanup`, `Size` | any goroutine; one lock held for the whole operation | the counter must follow the map through eviction, replacement and deletion |
| application lifecycle (`app`) | registered services, the errgroup, the context | `RegisterService`, `Run` | starts the stats server, the API server and all services; waits for them | servers run before the routes are there; signals, failures and shutdown race |
| status and stats server (`appstatus`, `statserver`) | readiness per service, the alive flag | reporters, `/ready`, `/alive`, `/metrics` | services report; Kubernetes probes | readiness is what keeps requests away from an unfinished start |
| HTTP server (`httpserver`) | counter of open connections and its gauge, rate limiter | the watcher's callback, six middlewares | `net/http` calls back, one goroutine per connection, and with HTTP/2 one per request | the counter is read before the decision is used; handlers panic |
| file cache and downloads (`cache/dbcache`, `www`) | a table row per URL, files on disk, goroutines that retry a download | `GetURL`, `GetContent`, `EnqueueDownload` | clients call it from any goroutine; it calls PostgreSQL, HTTP and the file system | no lock anywhere: calls for one URL race each other and the background download; the row is written before its file; table and files survive a crash |
| migrations (`dbase`) | the table `schema_migrations`, files of SQL | `New`, `Migrate` | every instance of a program, at its start; it calls PostgreSQL | instances start together and die in the middle; errors of two calls are ignored; look-up and application are two steps |
| telegram bot (`telegram`) | a message counter, callbacks per message number | `Message`, `WithButton`, `Send`, the webhook, `Run` | senders call it; Telegram calls the webhook for every press | presses come late, twice and concurrently, and from messages of an earlier run; functions run under the lock |
| logging (`log`) | per logger: one line under construction | the levels, `With`, `Flush` | every request has a clone; panics, the server and all services use the base logger | the base logger is shared without a lock; which records survive the merge depends on their order |
| retry, limit map, counting transport, environment variables, TLS, wrappers | see section 7 | | | |

What makes each part correct:

* registry: a container is used by one call at a time; nothing of an earlier
  call is left in an idle container that was not told to end; the kill of one call does not hit another; nothing is forgotten that
  still exists; calls return and containers come back into use.
* execution: output arrives complete and in order; limits end a run; the
  consumption reported is what was used; no goroutine stays behind.
* cache: what is stored fits the budget; eviction takes no more than it needs.
* file cache: a row leads to a complete file, or to one that a background download
  fills; what has been handed out is not written again; retries end.
* lifecycle: a request sent because `/ready` said so finds its route; nothing is told to
  end without a reason, and nothing is left running when the program shuts down; a signal
  or a failure ends it.
* HTTP: the limit on connections holds, every request is answered, the gauge comes back
  to the truth.
* migrations: the table says what was applied; files take effect in order and before
  the program has its database; nothing is applied twice without an overlap.
* telegram: one press per message takes effect, and it is the right function; every
  press comes to an end.
* logging: a request leaves the lines that the logger's README promises; a panic is not lost.

## 2. Modules

| module | models | extends |
|---|---|---|
| `ContainerManager` | registry, creation, use, teardown and removal of containers, and the Docker daemon as the code uses it | – |
| `MCContainerManager` | fault sets and symmetry for TLC | `ContainerManager` |
| `ContainerPool` | what the manager promises its clients: a lock per container | – |
| `ContainerManagerProofs` | its theorems, the refinement of `ContainerPool` among them | `ContainerManager` |
| `ExecStream`, `ExecStreamProofs` | one call of `Execute` from the attached stream on, its theorems | |
| `MemCache`, `MCMemCache` | the memory cache, its instance | |
| `AppLifecycle`, `AppLifecycleProofs` | `app`, `appstatus`, `statserver` and the run of `httpserver`, composed; its theorems | |
| `HttpServer`, `HttpServerProofs` | connection watcher and middleware chain, its theorems | |
| `FileCache` | one URL of the file cache with its downloads | |
| `CacheProofs` | the theorems of both caches | `MemCache`, `FileCache` |
| `Migrator`, `MCMigrator`, `MigratorProofs` | instances that migrate one database, a small tree of files, the theorems | |
| `Telegram`, `TelegramProofs` | messages, buttons, presses and restarts, the theorems | |
| `Logger`, `MCLogger`, `LoggerProofs` | the logger as requests, panics, services and the shutdown use it; levels for TLC; the theorems | |

Operators named `...Unchecked`, `...Twice` and the like, each marked "Mutant" in
its comment, are plausible bugs: substituted for the definition after them, they
must make a run fail. They are not part of any specification.

### ContainerManager

`reg` is the map, `docker` the daemon's view of each container. Each goroutine
has a program counter: `create` per creation, `pc` and `td` per call of
`Execute` and its teardown, `stop` per `StopContainer` (clients', a failed
creation's, and the one a limit starts). A step is one critical section or one
Docker request, since the lock is held for neither longer nor shorter. `proc`
is what a call runs in its container: its process, processes it left behind
(`"spawned"`), or nothing. `kill` holds the `kill -- -1` processes at large; one
that takes effect sends SIGTERM to the processes of *all* calls in the container, as the
command does. Each of them ends at once or runs on, for as long as it likes
(`"termedMain"`, `"termed"`): `killAll` waits for the kill command and for nothing
else (containers.go:583-594). Nor does it read the exit code: with `"kill"` in `Faults` the command
may end without having done anything. `IdleIsSwept` is therefore about processes that have
not been signalled, not about processes. `Faults` lists the requests that may fail although nothing is
wrong; a failed request may have taken effect or not. `Restart` loses the
registry and the goroutines and keeps what Docker has. A `ContainerLogs` error
panics in the code (`grepLogs`) and is a restart here.

Left out: mounts and resource settings, image lookup, `WaitForIdle` (reads only).
A container ID is never used twice. In `setBusy` a missing key reads as idle and
is created, as in the code.

`ContainerPool` is the promise: a call waits for a container, holds it alone as long
as the container exists, and is finished once; containers go at any time. The
refinement mapping (`Pool`) takes `wants` from `target`, `use` from `UseOf` (waiting
before `setBusy`, holding as long as `Holds`, then finished) and `gone` from what
Docker has removed. `ImplementsPool` is the safety part; `ImplementsFairPool` adds
that who holds gives back.

### ExecStream

A byte is `<<frame, offset>>`, so loss, duplication and reordering are visible.
Channels are unbuffered: a send and its receive are one step. `Sub` is unsigned
subtraction with `W` bits. `checkLimits` without statistics returns zeros, no
error, and does not look at the clock, as the code does. `ContainerManager`
abstracts this module to `StreamEnds` and `LimitExceeded`. What a channel should get
is stated as a set of bytes (`Output`) and their order (`Precedes`): that the bytes
received ascend and that no earlier byte is missing says the same as that they are a
prefix of the output, without putting the output together frame by frame.

### MemCache

Each operation is one step, as the lock is held throughout. `Evictions` is the
set of results that the loop over `evict` can have: the order among records with
equal use counts is Go's map order. `Del` gives back the size of a pointer and
`Cleanup` nothing, as the code does.

### AppLifecycle

Goroutines of the errgroup are `"none"`, `"running"`, `"ok"` or `"failed"`; the
first failure cancels the context. `Probe` and `Request` are the cluster, which
sends requests as long as the last probe succeeded. `addHandlers` is one step per
handler, because the server accepts requests meanwhile. The configuration comes
from a file or from a struct, which differ in the sections that are checked for required
values (`Checked`); a value that is lacking there ends the program
(`DefaultsAndRequired`). A service is created, and its handlers become known, only
after that.

### HttpServer

Each middleware is a step of a request. `net/http` is external: it calls the watcher,
gives a connection one goroutine, and accepts in one. A TLS listener offers HTTP/2
(tls.go:87). An HTTP/1 connection has one request at a time and closes after it; an
HTTP/2 connection has any number of them at once, counted as one, and may close while their
handlers still run. `Reqs` are places for requests under way, each used again and again. `OnStateChange` is two steps, the atomic count and the gauge (`toSet` is
what is still to be set): `racing` remembers whether the last callback met another
one. A hijacked connection leaves the count and may still be in its handler.

### FileCache

URLs share nothing, so the module is one URL. The code gives every download a
random name; here a file is named by the call that made the name up. `pc` is the
call, `bg` the goroutine that `EnqueueDownload` leaves behind when the first
request times out, and `row` the record in the table. A step is one query, one
request, or one operation on the file; a file is absent, `"partial"` from
`os.Create` on, and `"full"` after `io.Copy`. `Crash` ends calls and goroutines and
leaves table and files as they are. A database error in the lookup reads as "not
found", as in the code. The specification is `FileSpec` (`FileInit`, `FileNext`,
`FileTypeOK`), so that `CacheProofs` can extend both caches.

### Migrator

Each instance goes through `New` (attempts to connect, ping), the check for the table,
its creation, and the walk. A path is a sequence of numbers in the order of names,
so that `InOrderOfProcessing` can be compared with `Before`, a definition of the order
that does not walk. `todo` is the set of directories and files that an instance has
seen and not yet processed. The recursion of `processFilesIn` is in `Earlier`: the entries
left of the innermost call are the longest paths and are up before those of its callers;
among themselves directories come first, then files, each in the order of `sort.Slice`.
A file's contents stand for their hash. `tx` is what the
transaction of an instance has done and not committed; effects and row appear at
`Commit`, and until then the row is locked to others. `lost` marks instances that
ignored an error (of `Commit`, of `ReadDir`), `overlapped` that two instances have
migrated at once; both only qualify properties. `Releases` gives the instances
different contents for the same files. `Crash` ends an instance and rolls back.

### Telegram

A message belongs to the `life` of the program that created it and stays in the chat
afterwards; numbers and callbacks start over. A request is one call of the webhook
for any button that any message in the chat shows, as often and as late as it comes.
`callback` looks up, takes and deletes under the lock, which is held until the user's
function has returned (`FnReturns`). An index out of range is a panic that
`net/http` recovers. `MixedUp(m)` says that an old message with the number of `m` has
taken its callbacks.

Two assumptions are not in the code. A message is built before it is sent (`Building`):
`WithButton` may be called after `Send` (message.go:27-31), which section 6 describes. And the
Bot API answers or fails: the client of the bot has no timeout (telegram.go:176).

### Logger

A record is its level, its name (for message and fields) and the `MainMessage`
flag. A request's own logger is used by one goroutine, so that one record is one step;
the base logger's operations are split where another goroutine may come between (read,
store, output, reset), which over-approximates no more than the data race does. Besides
requests (for panics) and the server, services log to it (app.go:145), at any level, and flush or
do not. A line at `Panic` makes `Flush` panic before it empties the buffer (`"panicked"`). The
application itself always builds its logger with `oneline` false (app.go:111); both modes
are modelled, as the package offers both.

`MinLevel` is any level that `New` is given except debug: there zap's sampling stays on
(logger.go:96-101) and drops what is repeated within a second. Records at `Fatal` end the
program and are left out.

`LinesAsPromised` says what the lines of a request should be without a buffer, over the
whole history of its records: in the one mode a line for each enabled record
(`LineForEach`), in the other (`OneLine`, `Merged`) the fields of the records that no earlier one
outranks (`Kept`), at the highest level, with the message of the last record there that has
the `MainMessage` flag or, failing that, of the first one (`Main`). That is what the README of the
logger promises, and two exceptions are stated beside it: records below an inherited level
(`Kept`), and records at DPanic, which leave no line and in oneline mode take the whole line
with them (`DPanicOnTop`). The property speaks of positions (`Lists`: the sequence has what
the records at these indices have, in their order), so that nothing is put together
record by record a second time.

## 3. Runs

| run | instance | shows |
|---|---|---|
| `cm_safety` | 1 container, 3 calls, 1 `StopContainer`, all faults but those of the kill process, 1 restart | `ExclusiveExec`, `IdleIsSwept`, `KillIsolation`, `ForgetsOnlyRemoved`, the refinement `ImplementsPool` |
| `cm_live` | 1 container, 2 calls, failures of creation and of the kill process, fair | `BusyIsReleased`, `StopRemoves`, `ImplementsFairPool` |
| `es_delivery` | up to 2 frames of up to 3 bytes, buffer 2, streams that break, caller closes its channels | order, completeness, one late chunk at most, return, no leaked goroutine |
| `es_limits` | counters 1..6 above and below both limits, statistics that fail | `ConsumedIsReal` |
| `mc_budget` | 3 keys, room for 2, clock 0..3 | `WithinBudget`, `UpdateEvictsNothing`, `EvictsOneOldRecord` |
| `app_ready` | services `api` and `app`, up to 2 handlers each, all failures | `RoutedWhenReady`, `ShutdownInOrder`, `SignalEnds`, `FailureEnds` |
| `http_limit` | 3 connections over TLS, HTTP/1 or HTTP/2, 2 requests, limit 2, burst 1 | `ServedWithinLimit`, `GaugeIsRight`, `EveryRequestAnswered` |
| `fc_files` | 2 calls of either kind, 2 retries, all faults, 1 crash | `RecordedFileIsWhole`, `BodyIsWhole`, `FullStaysFull`, `BackgroundEnds` |
| `mg_apply` | 2 instances, 2 releases, 3 files in 2 object directories and a subdirectory, 2 attempts to connect, all faults, crashes | `RecordsTheLatest`, `AppliesInOrder`, `DoneIsMigrated`, `OnceIfAlone`, `MigrationEnds` |
| `tg_buttons` | 2 messages of up to 2 buttons, 2 presses, 1 restart | `TakenOnce`, `OwnFunction`, `PressesEnd` |
| `log_lines` | 1 request and 1 service in both modes, records at four levels, panics, the shutdown | `LinesAsPromised`, `PanicsAreWritten` |
| `es_closed_send` | smallest instance | the finding of section 6 |

Why the bounds are enough. Containers do not interact, so one is enough; three calls
give a holder, a successor and a third that comes between; the fourth actor is a
`StopContainer`, with one more started by every limit. The proofs cover all numbers,
and the kill faults that `cm_safety` leaves out, where exclusion and refinement are
concerned. Two frames of three bytes with a buffer of two cut a frame in every way
that matters (short read, full buffer, remainder) and have a frame boundary and a
change of channel. Three keys in room for two force evictions; a fourth tick only
repeats ages. The connection limit counts the asking connection and refuses at the
limit, so with a limit of two requests are served on one connection while two others
ask; that is the smallest instance in which more could get in than the limit allows, and
`>` for `>=` is caught. Two requests are two connections that race, or two streams of one HTTP/2 connection.
Larger limits are left to the proof (`ConnectionLimit`), since the steps of the
gauge multiply the states. In the file cache two calls are a writer and a reader of
one file, or two that download at once; a third only adds another file (three calls
without a crash were tried as well), and the proofs cover any number of calls,
retries and crashes. Two retries are one that is not the last and one that is. Two
instances of the migrator overlap, or are one after the other with a crash between;
three files are in every relation of order that the walk knows (subdirectory before
file, object directory before object directory), two with the same base name. Two
messages are one before and one after the restart, or two at once; two presses meet
on one message. A request, a
service and the shutdown meet in the base logger; a second request adds nothing there that the
service, which logs at `Error` too, does not, and is left to the proofs, since the histories of
two multiply. A
service called `app` collides with the application's own reporter. Deadlock is not
checked: all the models come to a legitimate end (calls are made once, programs
exit, the clock is bounded).

## 4. Fairness

* `ContainerManager`: each goroutine is scheduled (`WF` per creation, stop, call
  and teardown), Docker carries out `AutoRemove` and accepted kills. Nothing
  makes clients call, processes end, or the program die. A run that goes past its
  `RunTime` is caught because the ticker fires; this is `WF` of `ExecStep`, which
  includes `LimitExceeded`.
* `ExecStream`: both goroutines are scheduled, the ticker ticks, and
  the container stops after a limit. A process need not write or end, and nothing
  makes a stream break or statistics fail: fairness is of the fault-free outcomes.
* `AppLifecycle`: the main goroutine and the servers are scheduled, and a service
  returns once its context is done, which is what the framework asks of `Run`. Nothing makes a
  server or a service fail.
* `HttpServer`: connection goroutines are scheduled and handlers return.
* `FileCache`: goroutines are scheduled, and the HTTP client answers, fails or
  times out (it always has a timeout). How often it times out is not assumed.
* `ContainerPool`: only that who holds gives back; `cm_live` shows that the manager's
  fairness is enough for it, with every failure of creation and kill.
* `Migrator`: an instance is scheduled and PostgreSQL answers, with an error or not.
  Nothing makes an instance start or die.
* `Telegram`: the lock is fair (Go's mutex hands over to a starving waiter), hence
  strong fairness of a press that waits for it; that user functions return and the
  Bot API answers or fails is assumed, and nothing in the code makes it so (no timeout). Nobody has to press a button.
* `Logger` has no liveness property and no fairness.

## 5. Proofs

Checked by TLAPS for all values of the constants.

* `TypeCorrect`, `Exclusion`: `Spec => []ExclusiveExec`, assuming clients wait
  for a creation before they use its container (`~UseDuringCreate`); all faults
  and any number of restarts allowed. `ExclusiveExec` is not inductive: that two
  calls do not hold a container follows from "a held container is busy"
  (`HeldIsBusy`), which in turn needs that the entry is not reset by a late
  `registerContainer` (`UnusedInCreation`, `AbsentUntilCreated`) or dropped by a
  `StopContainer` of a container that still exists (`UnregistersRemoved`), and
  that teardown comes after the call (`TeardownIsLast`). Their conjunction is
  `ExclusionInv`.
* `ForgetsOnlyWhatIsGone`: the action property `ForgetsOnlyRemoved`, from the same
  invariant.
* `IdleContainersAreSwept`: `[]IdleIsSwept`, if neither the requests of `killAll` nor the
  kill command itself fail. `SweptInv` adds `KilledIsSwept`: once its kill has ended, a
  teardown on its way to `setIdle` has left no process out, though they may run on.
  Exclusion is what keeps a new process from starting between the two.
* `KillsOnlyItsOwn`: `[]KillIsolation`, if neither the start nor the inspection of the
  kill process fails (a start may fail and yet have started it). `KillIsAwaited`: a kill at large belongs to a teardown that
  waits for it, hence to a holder, and there is only one.
* `Refinement`: `Spec => ImplementsPool`, under the assumption of `Exclusion`. Every
  step is a step of `ContainerPool` or a stutter under the mapping: `setBusy` is
  `Acquire`, or `Refuse` when it finds the container busy; the last access is `Release`;
  a removal is `Remove`; a restart is `Reset`. `Acquire` needs `HeldIsBusy`.
* `CacheWithinBudget`: `[]WithinBudget` for every budget and finite key set.
  `BudgetInv` is inductive because the code never gives back more than it took:
  the counter may only be too high.
* `UpdatesEvictNothing`, `EvictsAtMostOneOldRecord`: the action properties
  `UpdateEvictsNothing` and `EvictsOneOldRecord`, from the same invariant. A record that is
  replaced gives back its room before `Set` asks for it; and as the counter is within the
  budget before the call, one eviction always makes room for one record, so that a
  second can never be needed (`EvictionsOfSet`).
* `ConnectionLimit`: `[]ServedWithinLimit` for every finite set of connections, any
  number of requests on each and every limit. `AdmissionInv`: the counter equals the
  number of open connections, so whoever is admitted last sees the connections of all
  the others in the count. It is a bound on connections; there is none on requests.
* `GaugeHeals`: `[]GaugeIsRight`. After a callback that met no other, what it set is
  the count; the invariant follows the value from the count to the gauge.
* `RecordedFiles`, `WholeBodies`, `NothingIsRewritten`: `[]RecordedFileIsWhole`,
  `[]BodyIsWhole` and the action property `FullStaysFull`, for any number of calls,
  retries and crashes and all faults. `FileInv` adds that a call records its file
  only when it is complete or left to the background (`RecordsWhole`), that a
  complete file has no writer and no file has two (`OneWriter`), that what a
  call has seen was once recorded (`SeenIsRecorded`; the row may have changed
  since, the file has not), and what a call knows where it stands (`CallOrder`).

* `OneLateChunk`, `ReportsAreReal`: `[]AtMostOneLateChunk` and `[]ConsumedIsReal`, for
  any output, limits, and counters that fit the word. `LateInv`: once one chunk was
  late, `streamOutput` is not at a send, and sees the limit before it gets to one.
  `CountersInv`: a reading is never ahead of its counter; `ReportInv`: there is one
  report, made from the last reading.
* `StreamTypes`, `OutputInOrder`, `OutputCompleteOnExit`: `[]TypeOK`, `[]DeliveredInOrder` and
  `[]CompleteOnExit` of `ExecStream`, for any number of frames of any length, any
  buffer, and streams that break. Neither is inductive. `DeliveryInv` says that what
  each channel has is exactly the output up to the position of `streamOutput`, less the chunk
  it is about to send, and that this chunk comes next; `PosInv` that the position is
  within what the process has written. `ExitInv` follows `execAttach`: without a limit it
  leaves its loop only when `streamOutput` is done, which, unless the stream broke, is when the
  process has ended and every frame was read.
* `ClosingIsSafeWithoutLimit`: `[]PanicsOnlyAfterLimit`, the other side of the finding on closed
  channels in section 6: a send on a closed channel happens only after a limit.
* `AppTypes`, `ReadyMeansRouted`: for any services and handlers and
  all failures. `AppInv` adds the order of the start (`StartInv`: the application is
  not ready before all services run), that a service runs only with all of its routes
  (`ServiceInv`), that a successful probe comes after the start (`ProbeInv`; the probe
  may be old when the request is sent, the routes do not go away), and that nothing is created
  during the registration (`RegisterInv`).
* `TableTellsTheTruth`, `AppliedOnceIfAlone` (and `MigratorTypes`): `[]RecordsTheLatest`
  and `[]OnceIfAlone`, for any tree, releases, instances and failures.
  `MigratorInv` adds what a transaction holds where (`TxInv`), which ties effect and row
  together, and `AloneInv`: without an overlap one instance migrates at a time,
  what took effect did so once and has a row, and what an instance is about to apply
  has not taken effect. The look-up is what establishes the last part, and only the
  absence of others keeps it.
* `AppliedInOrder`, `DoneMeansMigrated`: `[]AppliesInOrder` and `[]DoneIsMigrated`, for any tree
  in which no file is also a directory. `WalkInv` relates the walk to the whole tree: every
  file that has not taken effect is below an entry of `todo`; the entries are nested as
  the calls of `processFilesIn` are (`Nested`: a deeper entry is in the directory of a
  shallower one, below a directory that comes before it); and the file in hand is the one
  up next. `UpNextIsFirst` then shows that everything below the other entries comes after
  it in the order of `Before`. `EffectInv` (what is recorded has taken effect) lets an
  instance pass over what another one has applied.
* `ButtonsWorkOnce`, `ButtonsDoTheirOwn` (and `TelegramTypes`): `[]TakenOnce` and
  `[]OwnFunction`, for any messages, presses and restarts. `ButtonInv` adds that numbers
  are unique within a life (`NumberInv`), that under a number there are functions of
  the message that has it (`OwnerInv`), in the order of its buttons until the first
  press takes them all (`CallbackInv`), and what a request knows (`RequestInv`).

* `LinesKeepThePromise` (and `LoggerTypes`): `[]LinesAsPromised`, for any requests, any
  number of records and services and every `MinLevel` from info up, with the two exceptions of
  section 2. `BufferInv` says of the buffer what the promise
  says of the line, after each record: its fields are those of the kept records so far, and
  its message is that of `Main` (`Holds`). It is inductive only together with the level: the
  buffer's level is that of the last kept record, hence not below any of them, so that one
  comparison in `merge` decides whether the next record is kept. `LinesInv` does the same
  for lines written at once, and ties what `Flush` writes to the buffer.
* `PanicsReachTheLog`: `[]PanicsAreWritten`. `BaseInv`: as long as no two users have met in
  the base logger there is one at a time (`OneAtATime`), who stores what is based on the
  current buffer (`CopyIsCurrent`); a panic is then in the buffer when it is output
  (`PanicInBuffer`) and in a line afterwards (`PanicInLine`), for every `MinLevel` from info to error.
  The merge drops it only when a service has left a DPanic or a Panic, which the property
  excepts. For a request whose `Flush` panics this has to last: a Panic stays in the
  buffer for good (`PanicsStay`), as nobody gets to the reset with it (`PanicHasFields`: there is always
  something to write).
* `BusyIsInUse`: `[]BusyHasOwner`, the safety part of `BusyIsReleased`: a running container
  that `Execute` refuses as busy is in use, or about to be stopped after a limit. It assumes
  `~UseDuringCreate` and that the requests do not fail whose early error return leaves the
  mark behind (`"execCreate"`, `"attach"`, `"stats"`, `"execInspect"`, see section 6, and the
  `"stop"` that should end a call after a limit); creation, removal and kill may fail, and the
  program die, at any time. `OwnerInv` adds to `ExclusionInv` that nothing is busy that Docker has
  still to start.
* `ShutdownIsOrderly`: `[]ShutdownInOrder`, for any services and all failures: the context is
  cancelled by a failure, a received signal or the end of `Wait` and by nothing else, and after
  `Wait` nothing of the errgroup runs. It is what `SignalEnds` and `FailureEnds` rest on, and `app_ready` checks it.
  `TermInv` adds what has not been started yet: a goroutine is started once, and never over
  one that has failed; and since the term handler is there before `Wait`, no signal
  kills the program in its shutdown.

`BusyHasOwner` and the inductive invariants were checked with TLC, on the
instances of `cm_safety` (without the excluded faults), `app_ready` and `log_lines`, before
they were proved.

Only model-checked: the liveness properties and `ImplementsFairPool`, as TLAPS has no
reasoning about fairness. Every safety property of the runs has a theorem, but for
`ExecStream`'s finding, which is a violation.

## 6. Where the code departs from what it says

Shown by a run that must fail:

* `es_closed_send`: on a limit, `Execute` returns while `streamOutput` may be about
  to send; a caller that then closes its channels, as containers_test.go:120-122
  does, makes it panic (line 700).

Met while modelling, most of them visible in the models, without a run of their own:

* `StopContainer` and `AutoRemove` race for the removal; if Docker wins,
  `StopContainer` returns before it unregisters (containers.go:355), and "a map of
  running containers" (142) keeps the removed one;
* not-ready is announced, and `ShutdownDelay` waited for, after the server that
  would show it is down (app.go:211, 212);
* one failed `ContainerExecInspect` (containers.go:519), or an early error return
  (373-377, 472, 481), leaves the container busy for ever (`BusyIsReleased` fails as
  soon as `Faults` has `"execInspect"`);
* a failed creation starts `StopContainer(id, false)`, which does nothing, since
  the container was never registered (331, 343): it runs on;
* `killAll` sends a SIGTERM ("kill spawned processes", 564), waits for the kill command only and ignores
  its exit code (568-594): in an idle container processes of an earlier call may run on, if
  they trap the signal or take their time. With a SIGKILL, or a look at what still runs, `IdleIsSwept`
  could say that nothing runs;
* with `UseDuringCreate` a call on a container found before its creation has
  returned loses its busy mark to `registerContainer` (205): `ExclusiveExec` fails;
* `FindContainers` lists containers that do not run (161, comment at 157);
* lost statistics read as zero: the reported consumption wraps around (513), and
  the run time is not enforced meanwhile (602), so `ExecStream!ExecuteReturns`
  fails with `"stats"` in `Faults`;
* `RuntimeLimits.Net` is declared in bytes (67) and compared with megabytes (618);
* `pipe.Consumed` is written while output is still streamed after a limit (505,
  comment at 94);
* `Cleanup` does not reset the size: a cache that was full stores nothing
  afterwards (memcache.go:110);
* `Del` gives back 8 bytes for a record counted with 48 (memcache.go:101); `evict`
  takes the least frequently used record, the package comment says LRU (12, 129);
* `GetContent` returns a part of the content, and no error, while a background
  download fills the file, or after one that failed or died in the middle
  (dbcache.go:57): this is the exception that `BodyIsWhole` makes;
* the callback of a background download is called after a failure too, against the
  comment at www.go:54, and then replaces the content type by an empty one; a
  callback that comes before the row is inserted updates nothing, and the type
  is lost;
* of several calls that download one URL at once, the row keeps the last; the files
  of the others stay on disk and nothing leads to them;
* configuration from a struct applies defaults and the check for required
  values to the sections it finds (config_reader.go:119-167): a service without one
  is created unchecked;
* `ParseEnvVars` does not end when a variable's value refers to itself
  (conftool.go:45);
* `addHandlers` loses its session getter at the first handler without
  `SIDRequired` and ends the program at the next one with it (app.go:224);
* a signal before `signal.Notify` kills the program without a shutdown (app.go:196);
* a frame of an unknown type leaves the channel nil, and the send blocks for ever
  (containers.go:691); the wait for a container to be ready has no timeout (310); after
  the timeout of `grepLogs` a late match blocks its goroutine (547);
* the connection gauge can be left at an older count (connection_watcher.go:44), which
  is the exception in `GaugeIsRight`; the connection limit refuses the
  `OpenConnLimit`-th connection (middleware.go:32), and limits connections only: over HTTP/2, which
  a TLS listener offers (tls.go:87), one connection carries any number of requests; a rate below 0.84 has burst 0 (http.go:63); the panic logger
  does not repanic for sentry (http.go:80) and reads the request ID from the
  request that does not have it (middleware.go:67);
* instances of one program that start together apply a file twice, since look-up and
  application are two steps (migrator.go:136); in an empty database both may find no
  table, and the second `create table` fails (73);
* the error of `Commit` is dropped (167), and that of `ReadDir` (98): `New` returns a
  database that lacks files. These are the exceptions (`lost`) of `AppliesInOrder` and
  `DoneIsMigrated`;
* the row is found by hash and written by base name (135, 161): files of the same name
  in two directories take each other's row, and are applied again at every start; this
  is `NamedApart` in `OnceIfAlone`;
* Telegram message numbers start at 1 in every run (telegram.go:136): a button of an
  old message takes the callbacks of a new one, or its index is out of range (152);
  callbacks of messages that are never sent or pressed stay for ever (110); a function
  that calls `WithButton` waits for its own lock (156);
* `WithButton` after `Send` (message.go:27-31): the functions of a message whose callbacks have been
  taken are registered under the same number again, from index 0, so that a
  press of the old first button runs the new function, and the index of the new button is out of
  range. The model's senders do not do this;
* `Run` of the bot returns nil when its port is taken, as only `ErrServerClosed` is
  passed on (43), and leaves the server running when it returns (53);
* a clone inherits the level of what waits in the base logger (logger.go:272) and drops
  its own records below it: the exception of `LinesAsPromised`; users that meet in the
  base logger lose records (289): the exception of `PanicsAreWritten`;
* a `DPanic` record is written nowhere, as `directLog` has no case for it (325), and in oneline
  mode it takes the line with all records before it along. The README of the logger says that it
  "works just like a normal zap logger" (log/README.md:20) and "outputs a single log record" (22): the other
  exception of `LinesAsPromised`, and one of `PanicsAreWritten`, since services log to the base logger;
* a Panic that is flushed in oneline mode is never emptied from the buffer, as zap panics before the
  reset (287, 289): in the base logger it outranks every later record but another Panic, and every
  later `Flush` writes it again and panics;
* at level debug zap's sampling stays on (96-101) and drops records repeated within a second, those
  of panics included;
* in oneline mode `Panic` panics only at `Flush` (302); `Float64` builds an integer field,
  whose value is 0 (154).

## 7. Not modelled, and the plan

Done, in this order: the container manager, which carries the concurrency; memory
cache, lifecycle, HTTP server and file cache; the abstract pool and its refinement,
migrations, telegram, logging.

Not modelled, and why:

* `retry`: a loop around the caller's function with a growing pause; no shared state;
* `limitmap`: one critical section per operation, so that every interleaving is a
  sequence of calls, which unit tests reach; `conncount`: one atomic counter that
  nothing acts on;
* `conftool.ParseEnvVars` and the reflection over configuration structs: pure functions
  of strings and types, out of TLC's reach as such; what the lifecycle needs of them is
  in `AppLifecycle`;
* TLS and HTTP settings, but for the protocols offered: read once at the start;
* of `log`: `Add`, `Verbose`, `Infof`, `Sync` and the slog handler, which keep nothing;
  of `httpserver`: session look-up and the metrics' scores; of `www`: headers and
  encodings;
* thin wrappers (`file` beyond what the file cache uses, `str`, `mailer`, `sentry`,
  `metrics`, `httpreply`, `gorillarouter`, `clock`), the queries of the PostgreSQL
  wrapper beyond what the migrator sends, vendored code, the example program.

The plan is carried out: every safety property that a passing run checks is also a
theorem, and what is left to the model checker is liveness.
