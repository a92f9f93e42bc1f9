# A TLA+ model of ti-cli

`ti` is the command-line client of TiDB Cloud. Most of its 40,000 lines are
commands: flags, then a few remote and local steps in a fixed order. Those are
written down as short scripts, one per command, and run against a server that
fails in every way. What else can go wrong in ways a test would hardly reach is
concentrated in a few places: goroutines that share a queue or a pool, several
`ti` processes that share files in the home directory, operations of several
steps that fail half way, and a mounted file system beside other clients. Those
have specifications of their own. All of it is checked with TLC on small
instances. Every invariant, the action property and the refinement that the passing
runs check are also proved with TLAPS, for every value of the constants that the
assumptions allow (four of them under a hypothesis that section 4 names and their
run shares); what is liveness stays with TLC.

## 1. Inventory

Each component is listed with the state it keeps, its operations, what makes it
hard, and the properties that make it correct. `PROJECT.json` has the same list
with file names, and under `hazards` the lines at which the hard behaviour sits.

| Component | State | Operations | Hard because | Correct when |
|---|---|---|---|---|
| **Telemetry event batcher** (`telemetrybackend/batcher.go`) | a bounded queue and `pendingBytes` under a mutex, `wake`/`stop`/`done` channels, counters | `Start`, `Enqueue`, `Close`, the flush loop, the drain | handlers, one loop and several closers interleave; non-blocking send; a drain with a deadline | no event lost, doubled or reordered; no lost wake-up; channels closed once; nothing left in memory; it stops |
| **Multipart upload client** (`api/fs/upload.go`) | upload session on the server, presign channel, error channels of capacity one, semaphore, buffers, three nested contexts | v2 upload with presign pipeline, v1 fallback, resume, patch, complete, abort | up to 16 goroutines, cancellation at any point, lost responses, expired URLs | committed only when whole; no swallowed error; one commit; no buffer lost or shared; no goroutine outlives the call |
| **Token management** (`fs/tokenmgmt/service.go`) | tokens on the server | generate, refresh, enable, disable, delete | plaintexts are shown once; every step may fail; several commands at once | a plaintext is handed to the renderer or its token revoked; a mounted token is not pulled away |
| **Credential store** (`fs/fscred`) | credential, recovery and lock file of a profile | lock, store, verify, write recovery, commit, delete if it matches | processes are killed inside the lock; rename and verify are separate | the lock excludes; commit replaces only what was checked |
| **Mount locator and mount commands** (`fs/mountlocator`, `fs/drive9_companion.go`) | locator file, a running mount in the companion | mount, unmount, drain, import of a token | the companion and the locator are changed in two steps | the locator exists as long as the mount may run |
| **Home migration** (`config/homemigration`) | `~/.tdc`, staging directories, `~/.ti`, the marker file | `ensure`, run by every command first | no lock; the old executable still runs; kills | `~/.ti` whole and marked, or not there; nothing of `ti` replaced |
| **Native FUSE runtime** (`fs/fuse_*.go`, `fs/metastore.go`) | handles with a base version, pending write-back entries on disk | open, create, write, flush, release, rename, unlink, drain, recover | concurrent handles, remote changes between check and write, lost replies, crash and recovery | a remote change is overwritten only in the windows the code leaves; a drain that reports success has stored everything |
| **WebDAV file system, mount processes** (`fs/webdavfs.go`, `fs/mount.go`, `fs/mountcontrol`) | cache entries, control socket, state file | file operations, status, drain | stop against requests in flight | as for FUSE |
| **Pack, git, layer, journal, vault, tenant control** (`fs/*.go`) | remote objects, a local overlay | mostly one request; pack and git are sequences | a failure half way through a sequence; repeated deletes | a retry reaches the state the first attempt aimed for |
| **API transport** (`api/client.go`) | none | `do` with retries | what may be repeated and when to stop, when a reply is lost | nothing that counts is done twice |
| **Telemetry server** (`telemetrybackend/server.go`, `ratelimit.go`) | bucket table with a bound | event ingest, rate limit | clocks read outside of the mutex, the table at its limit | a client never exceeds its rate |
| **Telemetry client** (`telemetry/telemetry.go`) | installation id | create, record, send | racing first commands | one id per installation |
| **Self update** (`update/update.go`) | two executables, backups | stage, replace, validate, roll back | failure or kill between two renames | a `ti` that starts is at its path or in the backup |
| **Companion runner, interrupts** (`fswrap`, `interrupt`, `cli/exec.go`) | child process, two signal channels | run, forward signal | the first signal arrives twice; signal against exit | every signal forwarded once or moot; no invented outcome |
| **Configuration store** (`config/store`) | config and credentials files | read-modify-write | two renames | region and keys of one input together |
| **Database commands** (`db/...`) | SQL passwords on the server and in one local document; downloaded files | wait loops, parallel export download, SQL user preparation | partial failure, lost replies, worker pool and cancellation | a password stored under its user's name works; every file is accounted for |
| **Operation log** (`oplog`) | log files | append, rotate | racing rotation | no log lost |
| **Command line** (`cli/commands.go`, `cli/root.go`) | none | about eighty commands, each a sequence of checks, requests, companion runs and local writes, and a dry run | retries, swallowed errors, dry runs that share code with the real thing | success means done; a dry run makes no mutating request and leaves only housekeeping |
| **Output, query, regions, errors** | none | formatting | nothing | unit tests |

How they interact. The components inside one process call each other directly;
contexts carry cancellation from the interrupt handler into the API client and
from there into the upload. Between processes there are only files: the
credential, recovery and lock files, the mount locators, `~/.ti` itself. The
token commands read the locators the mount commands write, and the mount
commands use the credential the token commands write, so the three are one
module here (`TokenMgmt`). Every command first runs the migration. The batcher
sits between the HTTP handlers of the telemetry server and the database sink.
Mounts and file operations are delegated to the companion executable
`ti-drive9`; the native FUSE code is complete and tested but no command reaches
it at this commit.

## 2. Modules

| Module | Models | Kind |
|---|---|---|
| `Batcher` | `telemetrybackend/batcher.go` | specification |
| `EventBuffer` | what the batcher promises: a bounded FIFO with one discard at shutdown | abstract specification |
| `MCBatcher` | an instance: three requests | TLC |
| `BatcherProofs` | theorems about `Batcher` | TLAPS |
| `Upload` | `api/fs/upload.go` | specification, run directly |
| `UploadProofs` | theorems about `Upload` | TLAPS |
| `TokenMgmt` | `fs/tokenmgmt/service.go`, `fs/fscred/credential.go`, mount, unmount and import of `fs/drive9_companion.go`, `fs/mountlocator` | specification (composition of the three over their shared files) |
| `MCTokenMgmt` | symmetry of the processes | TLC |
| `TokenMgmtProofs` | theorems about `TokenMgmt` | TLAPS |
| `HomeMigration` | `config/homemigration` | specification, run directly |
| `HomeMigrationProofs` | theorems about `HomeMigration` | TLAPS |
| `Scripts` | the vocabulary of steps and effects | operators |
| `FsOperations`, `DbOperations` | `fs/drive9_companion.go`, `fs/tenant_control.go`, `fs/aiconfig`, ...; `db/dispatcher.go`, `db/product/starter` | one script per operation |
| `Commands` | `cli/commands.go`: every command and its dry run | one script per command |
| `CommandLine` | one invocation of any command; `api/client.go` and the retry wrappers of `fs/drive9_companion.go` | specification, run directly |
| `CommandLineProofs` | theorems about `CommandLine` with the commands of `Commands` | TLAPS |
| `FuseRuntime` | `fs/fuse_mount.go`, `fs/fuse_writeback.go`, `fs/fuse_version.go`, `fs/fuse_mount_control.go` | specification |
| `MCFuse` | budgets and symmetry | TLC |
| `FuseProofs` | theorems about `FuseRuntime` | TLAPS |
| `SelfUpdate` | `update/update.go` | specification |
| `InstallationId` | the id in `telemetry/telemetry.go` | specification |
| `SqlAccess` | `db/sqlaccess`, `db/sqlcred`, `db/product/starter/sql.go` | specification |
| `ExportDownload` | `db/product/starter/export.go` | specification |
| `RuntimeExec` | `cli/exec.go`, `runtimeexec`, `fswrap/runner.go`, `interrupt/context.go` | specification |
| `TelemetryServer` | `telemetrybackend/server.go`, `ratelimit.go` | specification |
| `MCMachine` | the last six side by side | TLC |
| `MachineProofs`, `RateProofs` | theorems about five of them, and about the rate limiter | TLAPS |
| `ConfigStore` | `config/store`, `config/configure` | specification, run directly |

`PROJECT.json` maps every definition to its lines. In each module an operator
that appears directly above the one it resembles and is introduced by "Mutant:"
is a deliberately wrong version of it; nothing in the specification uses it. It
documents which bug a property would catch.

### Batcher

A critical section under `b.mu` is one step; what a method does outside of the
mutex is a step of its own: the counters after `Enqueue`, the non-blocking
send in `signal`, the write to the sink, the wait of `Close`. The loop's control
state names the point it is at (`select`, `check` for the threshold test after a
wake-up, `take` and `write` for the two halves of `flushNext`, `drain`,
`discard`). The sink's outcome is not distinguished in the queue, because the
code gives a batch up whatever the outcome; it decides only between the flushed
and the dropped counter. `admitted`, `taken` and `discarded` are history
variables, written and never read.

`ImplementsBuffer` states that every behaviour is one of `EventBuffer`: the
events held are the batch at the sink followed by the queue, what was taken is
delivered, and a request is answered in the critical section of `Enqueue`. The
capacity of the abstract buffer is that of the queue and of one batch.

### Upload

Main goroutine, presigner and one worker per part; channels of their real
capacity, the semaphore as the number of running workers, the buffer pool as a
number of free buffers. `ctx` says which of the three nested contexts is
cancelled. A select with several ready branches is a choice. A remote call may
fail before or after it took effect. A presign answer is taken to name the parts
it was asked for (the code does not check it), and part sizes and checksums are
left out. The fallback to v1 starts only after the presigner is gone: the
deferred cancel has run by then and its context is the only thing the presigner
shares with what follows.

### TokenMgmt

A process runs one command; a step is one file operation or one remote call.
The remote side (external) is a status and a generation for each token: refresh
replaces the plaintext of an id, so a plaintext is an id and a generation. The
credentials file holds a plaintext and whether its id is known, as it is not
after `create-file-system` and import. The lock file has an owner (the
code writes its pid and never reads it) and an age, of which only "older than ten
minutes" counts. `LockAges` lets only the file of a process that no longer runs
age: a running command is taken to hold the lock for less than ten minutes (its
API client has a timeout of 30 seconds per request).
A command's result is rendered after its function has returned (`Finish`): an
`--output` or `--query` that cannot be applied is only noticed then, and a `--query`
may leave the plaintext out, so a command may end without having shown what it
made (`"unshown"`).
Commands: generate (plain, storing, replacing), refresh (of the profile's token
and of an explicit one), delete, disable, enable, import (plain, replacing),
mount (with the profile's token or an explicit one), unmount (plain and with
`--ignore-absent`).

### HomeMigration

Processes run `ensure` and then a command that creates `~/.ti` if need be and
writes into it. A file is known by what the migration can tell of it (absent,
refused by the copy, refused by the validation, usable, canonical). `os.Rename`
on a directory is an `Lstat` of the target and then rename(2), two steps, the
second of which replaces an empty directory only. The durable names are copied
in any order, which includes the order of the code. The old executable may
change `~/.tdc` and its mounts at any time.

### Scripts, operations and commands

An operation is a set of scripts, one for each choice its flags leave open, and a
script a sequence of steps `[kind, effect]`. The kind is the way the Go code
calls something that can fail (a plain request, a companion run, one of the two
retry wrappers, a probe, a poll, a local write, a run whose failure is
swallowed, ...), the effect what it does to the object the command is about.
Operators compose them as the functions call each other and have the functions'
names. `CommandLine` gives every kind its meaning: attempts and when they stop,
a refusal, a transient failure before or after the server acted, a lost reply,
Ctrl-C, local writes that fail, and another client that creates or deletes the
object. Around every script are `Execute` (environment, migration of the home
directory, installation id) and `Record` (the operation log), and every run of the
companion first makes the home it is given (`prepareHome`). A dry run does all of
that too, and `mount-file-system --dry-run` makes the empty root of the overlay
(`mount.go:714`), so `DryRunOnlyPrepares` does not say that no local file is
written: no request that mutates is made (priciples.md:45), and what is left on
this machine is the housekeeping named there. What is lost against the code is data: arguments, decoded answers, and
that an invocation may concern more than one remote object.

### FuseRuntime

The content of a file is the set of writes in it, a version a number no two
states of a file share. A flush is the sequence the code goes through: data
file, metadata file, version check, upload, asking for the new version, removal of
the two files; every point of it is a state, so that other handles, another
client, a rename, an unlink, a kill or the drain come in between. The code has
windows in which it cannot see another client's change: from the version check to
the upload, from an upload or a rename to the question for the new version, and
while a version is unknown. A change made in one is put into `excused`;
`OverwriteOnlyInWindow` says that no other change is ever overwritten, which is
what the checks and the recorded base versions are for. `givenUp` has the
writes an application was told of as failed, truncated, unlinked or lost to the
kill before any flush.

### The parts of the machine

- `SelfUpdate`: each rename, removal and copy is a step that may fail or be the
  last one before a kill; the new binary may turn out not to start.
- `InstallationId`: each command draws an id, writes a temporary file and links it.
- `SqlAccess`: per access mode a request that may be refused, carried out without
  a reply, or followed by a kill; passwords are stored only at the end. A mode has at
  most one remote user, known by name and password. A user whose name is the stored
  one is left alone; with another name (the code stores the bare suffix when the
  answer to a creation names no user) its password is replaced, and what was stored
  under the old name is stale if the command fails there. `StoredPasswordsWork`
  therefore speaks of passwords stored under the name the user has on the server;
  the next command that succeeds mends the others.
- `ExportDownload`: main goroutine, workers, unbuffered channel, cancellation.
- `RuntimeExec`: three parties, the relay of `NotifyContext`, the command, and the
  companion, with two signal channels of their real, bounded kind.
- `TelemetryServer`: handlers that read the clock, then take the mutex. A handler
  is taken to spend at most `MaxDelay` in between, no more than half of the ten minutes
  after which a bucket may be forgotten (`ServerAssumption`, which for the rest asks
  no more than `config.go:135`: positive limits). A forgotten bucket comes back
  full. With the defaults (a burst of 120 at 60 a minute, `config.go:24`) it would
  have been full anyway, and the bound is burst and rate; with a burst that takes
  longer than ten minutes to refill, a client gets it anew after that time, and the
  bound is that pace (`Paces`).

They share no state, so `MCMachine` lets each behaviour pick one of them: the
state space is the sum and not the product, and one run checks all six.

### ConfigStore

Configure commands, one after another, each of which may fail or be killed at
every step of its read-modify-write.

## 3. Runs

| Run | Question | Bounds |
|---|---|---|
| `Batcher` | safety and liveness of the queue | 3 requests with 3, 1 and 0 events, sizes 1 and 3, queue of 3, batches of 2 events or 3 bytes, 2 closers: the queue overflows, each threshold is reached without the other, a batch is cut by events and by bytes, an event waits for the ticker, and the loop is started late or not at all |
| `Upload` | safety, termination, absence of deadlock | files of 3 and of 4 parts, 2 workers: with 3 the last presign batch is cut, with 4 the presigner blocks on the full channel when the pool fails; entry by v2, resume, patch, and v1 by fallback |
| `Tokens_concurrent` | no plaintext lost before it is rendered; every command ends | any two of all 14 commands at once, one kill, 2 tokens, 2 rotations |
| `Tokens_sequence` | what holds between one command and the next | any three commands one after the other, one killed half way |
| `Tokens_replace` | the lock and what it is for | three concurrent storing commands, refreshes, deletes; no kill, no import |
| `HomeMigration_safety` | the migration as a whole | 2 processes, 2 files, one kill, every initial `~/.tdc` |
| `Commands` | every command, alone on the machine | 3 attempts as in the code, one change by another client: each retry loop can fail, succeed late, succeed after a lost reply, and be exhausted |
| `Machine` | the six parts above | 3 updates among 2 releases; 3 commands that start at once; 3 preparations of the 3 access modes; 2 workers, 3 files, batches of 2, two downloads; 3 signals in channels of 2; 3 clients, 2 handlers, a table of 2 buckets, 5 requests, 4 ticks, a burst of 2 |
| `Fuse` | what a flush, a kill and a drain do to writes | two handles, two paths, another client; five budgets |

The budgets of `Fuse` (with the write-back cache or without; opened files,
writes, other client's changes, and upsets, which are unlinks, renames, failed
requests, lost replies and kills) each bring two actors against each other
without multiplying all of them: two handles and another client; two handles
that both write; one handle with a write, another client and an upset; and
without the cache two handles with a write or with an upset beside the other
client. In `Machine`, a third update finds what the two before left behind, and a
table of two buckets with three clients is full and forgets.

Three commands are what is needed for a bystander to break the agreement of two
others (generate, refresh and delete of one token); two rotations tell the
token before, during and after a refresh apart. One kill suffices because the
abandoned file or state it leaves is the same after a second.

Deadlock is checked in `Upload`, where it would be a real one, and in `Commands`,
where every step of a script must have a way to end. In the other runs the system
may rest: every handler, process or command has done its job.

Three runs show where the code departs from what its documents say; TLC's trace
is the scenario.

| Run | Shows |
|---|---|
| `Tokens_lock` | `LockExclusive` fails after a kill: two processes look at the same abandoned lock file, the first removes it and creates its own, the second removes that one (`fscred/credential.go:165`). Without a kill the lock excludes (`Tokens_replace`). |
| `Tokens_rollback` | `RolledBackNotSelected`: a store that fails after its rename is rolled back on the server only (`tokenmgmt/service.go:334`). |
| `ConfigStore_atomic` | `StoredTogether`: a failure or a kill between the two renames leaves one input's region beside another's keys (`config/store/store.go:243`). |

`CommitReplacesChecked` is checked without `import-file-system-token --replace`,
which stores without the lock (`drive9_companion.go:266`): a refresh past its
check puts its token over an imported one. `AtMostOnce` excepts
`create-layer-checkpoint`, the one command that repeats a creation
(`drive9_companion.go:805`).

`MountKeepsToken` is checked for commands that run one after the other. With a
mount and a refresh, delete or disable at the same time it does not hold: the
guard reads the locators before the API call, and no lock orders it against a
mount that starts meanwhile (`service.go:434`, `:483`).

`NoTokenLost` ends where rendering begins: whatever fails before, a new plaintext is
in the result that is rendered, or its token is revoked. What comes after is in the
model and excepted, because it is not true of the code: when `--output` or `--query`
cannot be applied (`cli/root.go:556`), the plaintext of a generate that does not store,
or of a refresh of an explicit token, is lost, although `docs/spec/done/0030`
(line 349) says that a refreshed token is always rendered. `KeepsExisting` is about a probe that fails, not about a file that
another client creates between the probe and the copy. `DrainedMeansStored` says that
a write was stored at some time; another handle may replace the whole file later.

### Fairness

- `Batcher`: the loop goroutine runs (weak fairness); the ticker goes on ticking
  and Go's `select` chooses uniformly among ready branches, so a branch that is
  ready again and again is taken: strong fairness of the tick and the stop
  branch. Handlers that have entered `Enqueue` leave it. Nothing forces anybody
  to call `Start`, `Close` or `Enqueue`.
- `Upload`: goroutines are scheduled, and remote calls return, with an answer, a
  network error or the context's cancellation. Nothing forces the user to interrupt.
- `TokenMgmt`: a process that is not killed goes on, remote calls return, and the
  time of the lock file passes. A killed process does nothing more, and a command
  need never begin.
- `RuntimeExec`: the relay goroutine of `NotifyContext` and the command's loop are
  scheduled (weak fairness). Neither the user nor the companion is forced to act.

The other modules have safety properties only.

## 4. Proofs

Eight modules hold theorems; tlapm checks all of them. Where the table names no
hypothesis, the theorem is about every value of the constants that satisfies the
named assumptions of the specification: any number of processes, goroutines,
handles, files, parts, clients, kills and failures, any sizes and limits.

| Module | Theorem | Property | Hypothesis |
|---|---|---|---|
| `BatcherProofs` | `TypeCorrect` | `TypeOK` | |
| | `QueueAccounted` | `QueueAccounting` | |
| | `EventsConserved` | `FifoConservation` | |
| | `WakeupNeverLost` | `NoLostWakeup` | |
| | `ChannelsClosedOnce` | `NoDoubleClose` | |
| | `ExitLeavesNothing` | `DrainedOnExit` | |
| | `CountersSettle` | `SettledMetrics` | |
| | `BatcherRefines` | `ImplementsBuffer` | |
| `UploadProofs` | `TypeCorrect` | `TypeOK` | |
| | `CommitsWhole` | `CommittedIsWhole` | |
| | `ErrorsReported` | `NoErrorSwallowed` | |
| | `CommitsOnce` | `OneCommit` | |
| | `WorkersAwaited` | `NoStrayWorker` | |
| | `BuffersKept` | `BuffersAccounted` | |
| `TokenMgmtProofs` | `TokenNotLost` | `NoTokenLost` | |
| | `MountTokenKept` | `MountKeepsToken` | `MaxLive = 1` |
| | `RotationNotLost` | `RotatedKept` | `MaxLive = 1` |
| | `DeletedStaysOut` | `DeletedNotSelected` | `MaxCrashes = 0` |
| | `ReplacesWhatItChecked` | `CommitReplacesChecked` | `MaxCrashes = 0`, no import |
| `HomeMigrationProofs` | `TypeCorrect` | `TypeOK` | |
| | `PublishedWhole` | `DestinationWhole` | |
| | `MigratedMarked` | `MigratedIsMarked` | |
| | `CommandDataKept` | `KeepsCommandData` | |
| `CommandLineProofs` | `DryRunsOnlyPrepare` | `DryRunOnlyPrepares` | |
| | `ActsAtMostOnce` | `AtMostOnce` | |
| | `SuccessDone` | `SuccessMeansDone` | |
| | `ExistingKept` | `KeepsExisting` | |
| `MachineProofs` | `InstallRecoverable` | `RecoverableInstall` | |
| | `IdUnique` | `OneInstallationId` | |
| | `PasswordsWork` | `StoredPasswordsWork` | |
| | `SignalsOnce` | `RelayedOnce` | |
| | `FilesAccounted` | `DownloadsAccounted` | |
| `RateProofs` | `RateLimited` | `RateBounded` | |
| `FuseProofs` | `DrainStores` | `DrainedMeansStored` | |
| | `OverwritesNoticed` | `OverwriteOnlyInWindow` | |

The hypotheses about `TokenMgmt` are those of the runs `Tokens_sequence`
(`MaxLive = 1`: commands run one after the other, any number of them, killed or
not) and `Tokens_replace`, and they are needed: section 3 says what happens to the
mount's token when commands overlap, to the lock after a kill, and to an imported
token.

### Assumptions

- `Batcher`: `ConfigAssumption` is what `Config.Validate` enforces (positive limits,
  a flush threshold within the buffer) together with the bound on the size of an
  event; `BodyAssumption`: a request carries a sequence of events.
- `Upload`: a file has at least one part, and there are no more workers than
  parts, because `boundedUploadParallelism` takes the smaller number.
- `TokenMgmt`: finitely many processes; the rest gives the constants their types.
  That only the lock file of a process which no longer runs grows old is
  part of the model (section 2).
- `HomeMigration`: the credentials are one of the durable files.
- `CommandLine`: at least one attempt. `FuseRuntime`: the recovery is none of
  the handles, and budgets are numbers.
- `MCMachine`: finitely many workers and clients, batches of at least one file, and
  `ServerAssumption`: the server's limits are positive and a handler is delayed
  for no more than half of the forgetting time.

### The inductive invariants

None of the properties is inductive by itself. Each invariant below was checked
with TLC on the instances of section 3 before it was proved.

**Batcher.** `IInv == TypeOK /\ QueueAccounting /\ FifoConservation /\ WakeInv /\ LoopInv /\ CloseInv`

- `TypeOK` needs `QueueAccounting`: `pendingBytes` stays a natural number
  because it is exactly the number of bytes queued when a batch is subtracted.
- `WakeInv` extends `NoLostWakeup` to the time before `Start`: events may be
  queued first, and their wake-up must still be there when the loop parks.
- `LoopInv` ties the loop's position to the rest: a batch is held only while it is
  written, events are discarded only at the very end, the count the drain took is
  still the length of the queue, and from the drain on the batcher is closed, so
  nothing is admitted behind its back. `FifoConservation` and `DrainedOnExit`
  rest on it.
- `CloseInv` ties the number of closes of `stop` and `done` to `closed`,
  `started` and the loop's position, because the guards of the code are on those.
- `CountInv` says of the counters at every moment what `SettledMetrics` says at the
  end: which events are admitted, counted or rejected by handlers that are
  half way, and what of them is left over after the drain.
- The refinement maps every step to one of `EventBuffer` or to a stutter, with
  `IInv` and the bound on the batch (`BatchBounded`).

`Bytes`, the sum of the sizes of a sequence, and `Offered`, the events of a set of
requests, are sets whose cardinality is the sum, so that their laws follow from
the theorems on finite sets instead of an induction.

**Upload.** `PlanInv`: parts reach the pool in order and without a gap, so those
without a goroutine are exactly the ones still presigned, in the channel or not
yet asked for. `EvidenceInv`: a part that was given up, a cancelled pool, a
presigner that stopped early leave an error in a channel that nobody has taken
yet, or the user's cancellation. The two together give `NoErrorSwallowed`, and that
gives `CommittedIsWhole`. `BufferInv` (a buffer is free or held by one worker)
keeps the pool within its types and gives `BuffersAccounted`; `SessionInv` says which sessions can be open
or committed in which mode, `NoneOutside` that workers run only inside the pool.

**TokenMgmt.** `IInv` says which commands come to which step and where a new
plaintext is: on its way to be shown, handed to the renderer, or revoked (`Delivered`). Three more
invariants build on it:

- `AloneInv`, with one live command: what the running one has read (a locator, a
  credential, a status) is still true when it acts on it, and the plaintext of a
  killed refresh is where `RotatedKept` says, whatever the commands after it did.
- `LockInv` and `DeleteInv`, without kills: whoever is in its critical section
  owns the lock file, and a deleted token is revoked, not selected and not the one
  that a generate or refresh in flight is about to store.
- `CheckedInv`, without kills and imports: from its check to its commit a refresh
  has the credential it checked.

**HomeMigration.** A published `~/.ti` is whole because of what a staging directory
holds at each point of the script: `StageInv` follows it from the copy (what was
found is still in `~/.tdc`, and staged once it was looked at; at most one file is
half copied) over the validation to the rename. `TodoInv` says that a process
without a staging directory has looked at nothing.

**CommandLine.** Two parts. The first classifies the scripts of every command of
`newRootCommand`: a dry run consists of `DryStep`, steps without an effect but for the overlay root;
a script touches nothing before its probe (`ProbeFirst`); and, but for
`create-layer-checkpoint`, holds one request that counts, of a kind no wrapper
repeats (`ActsOnce`). These are shown operator by operator, from lemmas on joining
scripts and on choices, and the table of the commands is put together from them
(`EveryCommand`). The second part shows of any script of these classes
`LineInv`: the step that counts is behind the one the command is at
(`ActedOnce`), every step passed has brought about its effect unless an error is
kept (`AllBroughtAbout`), and a command that has not passed its probe has changed
nothing (`Untouched`).

**The parts of the machine.** A step of `MCMachine` is a step of one part and
leaves the others (`PartSteps`), so each theorem has an invariant of its own:
`UpdateInv` (which of the two executables starts at each point), `IdInv` (a running
session has the id of the file), `SqlInv` (where the plan's passwords are, before
and behind the mode at work), `ExecInv` (signals forwarded, queued and in the hands
of the relay add up to those received), `ExportInv` (a file is handed out to one
worker, is counted by it, and what it wrote is whole when it says so). `RateInv` is
about the tokens of a bucket: what a client was let through and what it has left
never exceed the burst and what the time up to `lastSeen` gave (`Covered`). A
handler that comes late with an old time takes tokens back, so the number may be
negative, but not below what the longest delay costs; a forgotten bucket has
them all back, and what that is more than the rate would have given by then is
paid for by the pace (`Paced`, `Renewable`).

**FuseRuntime.** `FuseInv == FuseTypes /\ Remembered /\ KnowsBase /\ DrainInv /\ SeenInv`

- `Remembered`: no version that a handle, an upload, a pending entry or a rename
  remembers is newer than the last one given, so the other client's next
  version is nobody's base yet.
- `KnowsBase`: a handle that has been written to knows the version it was read at.
- `SeenInv`: a version of the other client that is in no window is noticed. Nothing
  has it as its base without having read it, no upload to that path is past the
  comparison of versions with another base, and no pending entry, also one that
  a recovery will find, can skip the comparison.
- `DrainInv`: a write is in an open handle or saved; during the drain it is in a
  handle still to be flushed or in an upload of the drain; after that it is saved.

### Only model-checked

- Liveness: `EventuallyTaken`, `StopLeadsToDone` (`Batcher`), `NoGoroutineLeak`
  (`Upload`), `CommandsEnd` (`TokenMgmt`) and `SignalsArrive` (`RuntimeExec`). They
  rest on fairness, hence on ENABLED, which the prover does not handle.
- Absence of deadlock in `Upload` and in `Commands`, for the same reason.
- The three runs that show a violation; a counterexample is not a theorem.
- Nothing is proved by induction over data. No definition of the specifications
  with theorems is recursive: sums are cardinalities, and scripts are joined
  sequences.

## 5. Not modelled

- Of the modelled components: `GenerateScoped` (the same store path), `List` and
  the dry runs (no state change), bearer instead of control-plane
  authentication, `MigrateNameRegistry` and `MigrateLegacy`, vault mounts,
  `InitiateAppend`, part sizes and checksums.
- The server. What tokens and uploads do there is modelled as far as the client
  relies on it, and marked external in the map.
- Mounts without a locator: after a locator could not be written and the
  unmount that follows failed, nothing on disk shows the mount.
- `WebDAV`, operation log, Starter and IAM requests, output and formatting: no
  module. A WebDAV handle is one whole-file upload; the operation log is a
  best-effort trace (two processes that rotate it at once may lose a file); the
  rest has no state. Native pack and git code is no longer called: their commands
  delegate to the companion and are in `Commands`.
- Of the FUSE runtime: the local overlay, git entries, directories, the read and
  metadata caches, `Setattr` on a path.
- A mount that cannot start because a pending entry lost its data file to a kill
  between two removals (`fuse_writeback.go:142`) is in the model, but that a mount
  can always start again is not true of the code and is stated nowhere.
- Self update on Windows; two updates at once.
- Two configure commands at once; a second machine that changes SQL passwords.
- Request parsing, health pages and the SQL sink of the telemetry server.

## 6. Plan

The modules follow the code as far as a model of it says something, and the safety
properties that the runs check are proved. What is left:

1. More to prove about what is there: the types of `TokenMgmt`, `FuseRuntime` and
   `CommandLine` are part of their invariants but no properties of a run; exclusion
   by the lock is proved without kills, as `LockInv`, not as a property of its own.
2. Abstract specifications: what a profile's token store promises when commands run
   one at a time, with `TokenMgmt` shown to implement it; a home directory that
   goes from old to migrated in one step, with `HomeMigration`.
3. Extensions: the overlay and directories of the FUSE runtime, the operation log's
   rotation, scoped tokens and the registry migration in `TokenMgmt`.

## 7. Running

    tlc -config Batcher.cfg MCBatcher
    tlc -config Upload.cfg Upload
    tlc -config Tokens_concurrent.cfg MCTokenMgmt      (also _sequence, _replace, _lock,
                                                        _rollback)
    tlc -config HomeMigration_safety.cfg HomeMigration
    tlc -config Commands.cfg CommandLine
    tlc -config Machine.cfg MCMachine
    tlc -config Fuse.cfg MCFuse
    tlc -config ConfigStore_atomic.cfg ConfigStore
    tlapm BatcherProofs.tla        (likewise UploadProofs, TokenMgmtProofs,
                                    HomeMigrationProofs, CommandLineProofs,
                                    MachineProofs, RateProofs, FuseProofs)

Each proof takes a few minutes from nothing.
