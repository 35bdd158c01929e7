# The upload service in TLA+

This directory is a TLA+ model of the RIF Marketplace upload service, with the
TLC configurations that check it on small instances and proofs, checked by
TLAPS, that hold for every value of its parameters. The modules are translated
from `src/`; each definition says in a comment what it stands for, and
`PROJECT.json` maps it to its lines.

The service takes files over HTTP, stores them in IPFS (which pins them), keeps
a row per upload in a SQLite table, and listens on a libp2p room of the storage
offer until the pinner of that offer announces that it has pinned the hash
itself. Then, or when the row has expired, the service unpins the file and
deletes the row.

## Inventory

| part | code | state | operations |
|---|---|---|---|
| job table | `upload/model/upload.model.ts` | rows of `upload_job`: status, `fileHash` (null until saved), `createdAt`, offer | insert, save, destroy, count, find, purge |
| client table | `upload/model/clients.model.ts` | rows of `upload_client`: a counter per address | read, create, save, delete expired |
| storage providers | `providers/index.ts`, `providers/ipfs.ts` | the pins of the daemon; the registered provider | `add`, `rm`, size request, version check, bootstrap |
| rooms | `communication/index.ts` | the `rooms` Map, message listeners, their timeouts; all in memory | `subscribeForOffer`, `leaveRoom`, `stopComms` |
| message handler | `communication/handler.ts` | the position of each call between its awaits | find the job, destroy it, count, unpin, count, leave |
| upload request | `upload/handler/upload/` | the position of each request, its staged files, the disk | quota, disk space, staging, checks of the body, create job, add, unlink, save, size, subscribe, answer |
| jobs GC | `gc.ts` `gcFiles` | position of each run, the rows it read, the Map iterator | unpin and destroy expired jobs, leave rooms without jobs |
| clients GC | `gc.ts` `gcClients` | none | delete expired client rows |
| application | `app.ts`, `upload/index.ts`, `cli/start.ts`, `index.ts`, `utils.ts` | start-up promises, intervals, the HTTP server | start, stop |
| purge | `cli/purge.ts` | a process of its own on the same database | delete every job row |
| migrations | `migrations/`, `cli/db-migration.ts`, `sequelize.ts` | executed scripts, the schema | up, down, start-up check |
| small routes | `healthcheck.ts`, `getFileSize.ts`, `getSizeLimit.ts` | the position of each request | ask the daemon, ask the database, answer |
| logger, configuration, types | `logger.ts`, `utils.ts`, `definitions.ts`, `errors.ts` | none that the others read back | - |

### How the parts interact

Every actor works on the same three things: the job table, the daemon's pins
and the rooms Map. Nothing locks them. JavaScript runs one continuation at a
time, so an actor is atomic between two `await`s and may be interleaved with
any other at each of them; that is the grain of the model. The actors are

* upload requests: pass the quota and the space check, stage files, insert a
  row, pin, save the hash, enter the room and register a listener;
* calls of a listener, one per message and listener, started by pinners;
* runs of `gcFiles`: `setInterval` starts one whether or not the last is over;
* the `setTimeout` of each listener;
* the operator's `purge` and `db-migration`, in other processes, and stops and
  restarts.

### What is hard here, and what should hold

* A job's content must stay pinned from its save until its release is due,
  although GC and message calls unpin on the strength of rows they read
  earlier, in orders that differ (GC unpins first, a call destroys first), and
  a save or a destroy may find its row gone: `FreshJobPinned`,
  `ImplementsCustody`.
* Nothing may stay pinned with no row to release it from: `NoOrphanPin`,
  `EveryPinReleased`. It holds while the unpins of the message handler succeed,
  and fails when one does not. Whatever fails, only an upload cut off between
  its `add` and its `save`, a call whose unpin failed or which was cut off after
  its destroy, and the purge leave a pin behind, and the GC never does:
  `OrphanHasCause`.
* A waiting job must be listened for. The listener has its own timeout, its
  room is left by two other actors on a count they made before an `await`, and
  any pinned message of its peer ends it. Jobs of one offer do disturb each
  other: `WaitingJobHasListener` fails. `ListenerLossHasCause` says that nothing
  else takes a listener early: only a row inserted between a count and the
  leave that relies on it, or a message that may be for another job.
* Every expired job must go and every room without a job must be left, with
  unpins that fail and runs that overlap: `ExpiredJobCollected`,
  `EmptyRoomLeft`. One job without a hash stops it all.
* The quota is read, and written back, across awaits. With requests that
  overlap it does not hold (`QuotaRespected` fails); what the counter still
  promises is that a period without overlaps is exact, whatever the GC deletes
  between a read and a write and whatever overlapped before:
  `SequentialQuota`, `SequentialCharge`, `BlockedClientForgiven`.
* Staged names are `Date.now()` and the file's stem, so files of two requests,
  or two of one, may meet under one path. Who then gets an answer and who a
  hash: `UnansweredHasCause`, `RequestAnswered`, `MeetingCosts`. What an
  answered request leaves in the folder: `FolderAccounted` (nothing, but for
  the truncated file of a write that failed). How far a space check made before
  the files can be trusted: `ReserveBound`.
* Three promises start together and are awaited in turn, and `stop` runs beside
  uploads and GC runs: `ServesOnlyWhenReady`, `StartSettles`,
  `RoomsAfterStop`, `StoppedRests`. A daemon that comes, goes or falls silent
  while a route asks it: `HealthyMeansSeenUp`, `CheckAnswered`, `SizeAnswered`.
* A migration script and its log entry are two steps, of commands that may
  overlap or stop: `LoggedInOrder`, `ImplementsVersion`, `StartsMigrated`,
  `UpCompletes`.

The full list, each at the line where it bites and with the properties that
cover it, is under `hazards` in `PROJECT.json`.

## Modules

| module | models | state | actions or operators |
|---|---|---|---|
| `UploadParams` | the parameters and their assumptions | - | `SoleHash` |
| `JobTable` | the table | `jobStatus`, `jobHash`, `age` | one operator per SQL statement |
| `IpfsPins` | the pins | `pinned` | `Pin`, `Unpin`, and `PinMaybe`, `UnpinMaybe` for a call that fails after or before it took effect |
| `Rooms` | `communication/index.ts` | `rooms`, `listeners`, `timer`, `visited` | subscribe, leave, unsubscribe, timeouts |
| `UploadHandler` | `fileUploader` and the callback around it, from the job's creation on | `req`, `staged` | one action per await, and its failure |
| `PinnedHandler` | the message path | `handlerPc`, `found`, `announced` (history) | `Deliver`, then one action per await |
| `JobsGc` | `gcFiles` | `gcPc`, `gcJobs`, `gcJob`, `gcTopic` | one action per await |
| `UploadService` | the composition | `restarts` | `UploadStep`, `Message`, `CallStep`, `GcStep`, `Timeout`, `Tick` (together `ProcessStep`), `Restart`, `Purge` |
| `FileCustody` | abstract: what is promised about files, which may be equal in content | `custody`, `stored`, `due` | accept, store, hold, become due, drop, release, purge |
| `UploadProperties` | the properties, the refinement mapping to `FileCustody`, the fairness | - | - |
| `UploadInvariants` | the inductive invariants `PinInv`, `OrphanInv`, `UndisturbedInv`, `GcAloneInv` | - | - |
| `UploadHistory` | the service with two history variables that no step reads, the properties about them, `ListenInv`, `OrphanHistoryInv` | `disturbed`, `refused` | `HistoryNext`: `Next`, and what each step adds (`Remember`) |
| `UploadAdmission` | an upload request from its arrival to its answer: space check, staging, the checks of the body, `unlinkFiles` | `pc`, `body`, `written`, `unlinked`, `disk`, `now`, `exposed` and `met` (histories) | one action per step between awaits |
| `ClientQuota` | the quota of one address | `pc`, `seen`, `uploads`, `rowAge`, `attempts` and `overlapped` (histories) | one action per await, `GcClients`, `Tick` |
| `Routes` | healthcheck and file size, the daemon's comings and goings | `daemon`, `db`, `check`, `report`, `size`, `seenUp` (history) | one action per await |
| `Lifecycle` | `appFactory`, the GC intervals, the server, `stop`; extends `Routes` | `config`, `process`, `boot`, `init`, `libp2p`, `registered`, `intervals`, `runs`, `upload`, `rooms`, `timers`, `stop`, `late` (history) | the settling and the awaiting of each promise, the steps of `stop`, what is in flight meanwhile |
| `Migrations` | `db-migration`, the scripts and their log, the check at start | `schema`, `log`, `pc`, `command`, `target`, `todo`, `service`, `torn` (history) | one action per await of a command, `Stop`, `Start` |
| `SchemaVersion` | abstract: the database's version, as the migration commands move it | `version`, `undoing`, `running` | upgrade and downgrade by one script, begin and end an undo, start and stop the service |
| `MC...` | instances for TLC | - | - |
| `...Proofs` | theorems, see Proofs | - | - |

The upload request is in three modules because its three concerns share no
state: the quota row (`ClientQuota`), the staged files and the disk
(`UploadAdmission`), the job and its pin (`UploadHandler`). Each has the steps
of the others as actions that change nothing of its own: `Arrive` and `Refuse`
in `UploadAdmission` are the answers of the quota, `TurnAway` in `ClientQuota`
the answers of the checks in `UploadAdmission`, and a request of
`UploadAdmission` that has reached `"adding"` is at `Accept` of
`UploadHandler`.

How state corresponds to code, where it is not obvious:

* An element of `Uploads` is a request, its row and its files together. The row
  is `"absent"` before the INSERT and `"destroyed"` or `"purged"` after a
  DELETE, so that properties can tell why it is gone; the code only sees
  membership in `Rows`. UPDATE and DELETE of a missing row do nothing, as in
  SQL (`UpdateJob`, `DestroyJob`).
* `age` counts ticks since `createdAt`, up to the TTL. The TTL is at least one
  tick, so `Expired` is `createdAt <= now - ttl`. Hence the GC and the listeners'
  timeouts read one clock. A listener's timeout may fire any time after its
  delay, never before.
* `HashOf` is what IPFS computes for the request's files. The staged names are
  part of the stored directory and start with `Date.now()`, so two requests
  have the same hash only if they were staged in the same millisecond under the
  same names. `MeetingCosts` says what that takes: of two requests whose files
  meet under a path at most one comes to success. Two hashes can still be equal
  when the first upload is over within the millisecond, or when three meet. Then
  GC unpins without counting, and a call counts and unpins in two steps, so the
  release of one upload may take the other's pin: `FreshJobPinned` and
  `FileCustody` say exactly that (`TakenAlong`), for any hashes. A call that
  counts the row of an upload whose file the GC has just unpinned leaves a
  pin to nobody, so `OrphanHasCause` and `AnnouncedFileReleased` are about hashes
  of one upload (`SoleHash`).
* A message may name any hash of `Hashes`: a pinner also announces content
  uploaded elsewhere. Messages of other codes, of the service itself and of
  peers that nobody listens for change nothing and are left out.
* `Faults` selects what may fail: IPFS `add`, the `unlink` of a staged file, the
  size request, IPFS `pin.rm`, and whether an operator runs `purge`. A failed
  `add` or `rm` may have taken effect at the daemon or not.
* A step of an upload that throws ends the request as `"failed"` in
  `UploadHandler`, and as the error's name in `UploadAdmission` (`"Rejected"`
  for a statement, a daemon or a size request that refuses): the multer
  callback is async and nobody handles its rejection (`cli/start.ts` logs it,
  and the process goes on), so the client is not answered.
* `Restart` keeps the table, the pins and the staged files, and loses rooms,
  listeners, timers, requests, calls and runs. `appFactory` rebuilds nothing
  from the table.
* In `UploadAdmission` space is counted in files of `fileSizeLimit`, the most
  that one file may take; multer and its `diskStorage` are modelled from their
  use. A file that finds its path in the folder overwrites it and takes no
  space of its own. On a full disk the file being written counts as a whole one
  and stays in the folder, for multer removes completed files only.
* In `Lifecycle` `config` is what the process starts with: whether
  communication is on, the two GC intervals parse, no migration is pending, the
  daemon has the required version, and `strict`: whether Node ends a process on
  an unhandled rejection. It does from version 15; the `Dockerfile` runs 10,
  which only warns. `stop` is what the tests call; no signal handler does.

## Runs

TLC evaluates the assumptions of the module and of those it extends in each.

| run | instance | what it shows |
|---|---|---|
| `one_upload` | 1 upload, 2 GC runs, 2 calls, TTL 2, all faults, a restart, purge | a fresh job is pinned; what takes a listener early; what leaves a pin to nobody; the service implements `FileCustody` |
| `shared_room` | 2 uploads of one offer and one pinner, 1 GC run, 2 calls, TTL 1, size requests may fail | a fresh job is pinned whatever the other does; what takes a listener early; no pin without an owner; `FileCustody` again |
| `progress` | 1 upload, 2 GC runs, 2 calls, TTL 2, fair | an announced file is released; an empty room is left |
| `default_config` | 2 uploads of the same content, 2 GC runs, communication off (the default), unpins and size requests may fail, fair | GC alone removes every expired job and releases every pin; a fresh job is pinned unless the other took the pin along; `FileCustody` with equal contents |
| `client_quota` | 3 requests of one address in flight, limit 2, period 2, fair | in a period without overlaps the limit and the charge are exact; a blocked address is forgiven |
| `upload_admission` | 2 requests with up to 2 files each, 2 stems, 2 milliseconds, a disk of 3 files, fair | why a request is not answered; whose the files in the folder are; what a shared path costs; how far the reserve goes; every request is answered or has one of the causes |
| `lifecycle` | every configuration, 2 uploads, 1 GC run, 1 healthcheck, 1 size request, fair | types; the server listens only when all is ready; a start settles; who enters rooms after `stop`; a stopped service rests; the two routes answer, and a 204 means that the daemon was up |
| `migrations` | 2 commands at a time, one undo, one stop half-way, fair | the log has no gaps; it moves like the version of `SchemaVersion`; a service starts on the whole schema; repeated `--up` completes unless the column's script or an undo was left half done |
| `null_hash_blocks_gc` | as `default_config`, `add` may fail | violated: `ExpiredJobCollected` |
| `orphan_pin` | 1 upload, `rm` may fail | violated: `NoOrphanPin` |
| `shared_listener` | 2 uploads of one offer | violated: `WaitingJobHasListener` |
| `quota_race` | 2 requests in flight | violated: `QuotaRespected` |

The four violations are disagreements with what comments of the code say, and
are described with their quotations under `findings` in `PROJECT.json`.

### Bounds

* `MaxCalls` bounds the message calls in flight, and one listener has at most
  one call per hash. Two calls let a duplicate or a foreign message overtake
  the first between any two of its steps; the calls of a third listener repeat
  what the second does.
* Two `Gcs` let runs overlap; a third reads the same rows a second time.
* `TTL` 2 leaves a moment before, at and after half of the time, in which a row
  is created before its listener's timeout starts; with `TTL` 1 the job is
  either fresh or expired.
* In `default_config` the two uploads have the same content, so that the GC
  takes the pin of a fresh job along with an expired one. With calls as well,
  equal hashes multiply the states of `shared_room`; there the proofs
  (`FreshPinned`, `CustodyImplemented`) are what covers them.
* One restart and one purge at any point. The state after a restart is a state
  without actors, so a second one meets nothing new.
* In `ClientQuota` `MaxUploads` bounds the counter: with three requests in
  flight it may grow without end, because rejected and stale writes leapfrog.
  `MaxAttempts` only saturates the history variable, above the limit.
* In `UploadAdmission` two requests of two files meet each other and themselves:
  of the same millisecond or not, under the same stem or not. A disk of three
  files and a reserve of one (the gigabyte of `isEnoughSpace` and the default
  `fileSizeLimit` are equal) admit both requests together and run full under
  the third or fourth file, or do not admit the second.
* In `Lifecycle` one upload may be over and another in flight when `stop`
  leaves the rooms; one GC run stands for any number, for none keeps state here.
* In `Migrations` one stop half-way and one undo, at any point of two overlapping
  commands; an undo runs alone, as an operator would. umzug, the library that
  runs the scripts, is modelled from its use: a script, then its log entry. The
  command passes it every flag, so `--down` without `--to` undoes all scripts,
  and the scripts named by `--migration` make no difference (`README.md:179`
  shows them in an example); SQLite's rebuild of a table without a column is
  one step.
* Deadlock is checked in the runs of `ClientQuota` and `Migrations`. It is not in those
  of the service and of `UploadAdmission`, where the requests of an instance
  are finite, and of `Lifecycle`, where the process ends.

The theorems below need none of these bounds, nor any other than the parameters
of their modules.

### Fairness

`Fairness` in `UploadProperties` is weak fairness for each request once begun,
each call, each GC run, each timer and the clock: Node runs every continuation
that is ready, the database answers, `setInterval` and `setTimeout` fire. A
daemon that refuses an unpin does not refuse for ever: strong fairness of
`GcUnpin`, because the failing step is an alternative that weak fairness of the
run would accept. Nobody is obliged to send a request or a
message. `FairSpec` runs `ProcessStep` only, without `Restart` and `Purge`: no
code resumes what a restart cuts off or a purge forgets, so progress is claimed
of a process that is left to run.

* `ClientQuota` needs weak fairness of `GcClients` and of the clock.
* `UploadAdmission` has weak fairness of each request that passed the quota:
  its client sends the whole body (one that does not keeps its files and its
  place), and Node runs the handler. Not of one that waits for `add`, which has
  no timeout: that a daemon stays silent there is among the causes that
  `RequestAnswered` lists, as is a step that rejects.
* `Lifecycle` has weak fairness of the start, of `stop` once called, of each
  timer, and of each upload and GC run while the daemon is not silent: libp2p
  and the database settle, timers fire. The daemon is under no obligation. That
  it is not silent for ever is a premise of `StartSettles` and `CheckAnswered`,
  since `version()` has no timeout, and of `StoppedRests`, since `add` and
  `pin.rm` have none, and not of `SizeAnswered`, since `getMetaSize` has one.
* `Migrations` lets every command that runs go on, and `--up` be run again and
  again (`bin/entrypoint` does at each start of the container).

## Proofs

Every safety property that a passing run checks is proved, for any number of
uploads, requests, calls, runs and commands, any times and limits, and, unless
the table says otherwise, any set of failures. Type correctness is the first
part of each inductive invariant.

| theorem | module | property | beyond the parameters' assumptions |
|---|---|---|---|
| `FreshPinned` | `UploadSafetyProofs` | `FreshJobPinned` | - |
| `ListenerLossExplained` | `UploadHistoryProofs` | `ListenerLossHasCause` | - (`CommsEnabled` and `TTL <= MaxTimeout` are premises of the property) |
| `CustodyImplemented` | `UploadCustodyProofs` | `ImplementsCustody` | - |
| `OrphansExplained` | `UploadHistoryProofs` | `OrphanHasCause` | - |
| `NoPinOrphaned` | `UploadCustodyProofs` | `NoOrphanPin` | `SoleHashes`, `Undisturbed` |
| `GcOrphansNothing` | `UploadCustodyProofs` | `NoOrphanPin` | `~CommsEnabled`, `Undisturbed` |
| `HeldKept` | `FileCustodyProofs` | `HeldStored`, of every behaviour of `FileCustody` | - |
| `LimitExact`, `ChargeExact` | `ClientQuotaProofs` | `SequentialQuota`, `SequentialCharge` | - |
| `UnansweredExplained`, `LeftoversExplained` | `UploadAdmissionProofs` | `UnansweredHasCause`, `FolderAccounted` | - |
| `MeetingsPaid`, `ReserveLost` | `UploadAdmissionProofs` | `MeetingCosts`, `ReserveBound` | - |
| `LifecycleTyped`, `ReadyBeforeServing`, `LateRoomsKnown`, `HealthyWasUp` | `LifecycleProofs` | `TypeOK`, `ServesOnlyWhenReady`, `RoomsAfterStop`, `HealthyMeansSeenUp` | - |
| `LogHasNoGaps`, `StartsOnSchema` | `MigrationsProofs` | `LoggedInOrder`, `StartsMigrated` | - |
| `VersionImplemented` | `MigrationsProofs` | `ImplementsVersion` | - |

`SoleHashes` says that every upload has a hash of its own, `Undisturbed` that
nothing fails but the size request and, where communication is off, the unpin,
that nobody purges, and that the process does not restart.

None of these properties is inductive. What makes each of them so:

* `PinInv` (for `FreshPinned`) says what each actor may rely on between two of
  its steps: `RowHashes` and `RequestRows` tie a row's status and hash to the
  place of its request; `UploadedPinned` covers the pin between `add` and
  `save`, while no row shows it; `CallJobs` says that a call past its destroy
  has a gone job of its own hash and offer; `GcRows` says that the rows a run
  still holds had expired when it read them (and rows do not get younger), with
  the hash they have now. Hence whoever unpins a hash does it for a saved upload
  of that hash whose release is due, and any other upload that loses the pin
  with it is `TakenAlong`; that is why no assumption on the hashes is needed.
  The proof has one lemma per actor, over shared ones about what a destroy and
  an unpin change.
* `ListenInv` (for `ListenerLossExplained`) adds `TimersCover`: a listener's
  timeout is not over before its row's expiry, because it starts after the row
  and `setTimeout` honours a delay up to 2^31-1 ms. With a longer TTL, which
  nothing in the code excludes, it fires at once and every listener goes; hence
  the premise of the property. `LeavesOverlook` says that whoever is about to
  leave a room overlooks each row its offer has by now: there was none when it
  counted. `CallsOwn` says that a call of an undisturbed listener is for its
  own job, and that this job is gone once the call is past its search, so that
  the listener it ends is of no more use.
* `CustodyImplemented` maps every step of an actor, from a state of `PinInv`, to
  a step of `FileCustody` or to a stutter: an unpin to `DropContent`, which
  needs the release of a file of that content to be due, and this is what
  `GcRows` and `CallJobs` know about rows read long ago. `HeldKept` then says
  what a step-by-step specification does not say outright: what is held stays
  stored until its release, or an equal file's, is due.
* `OrphanInv` (for `OrphansExplained`) adds that a run about to destroy a row has
  unpinned its file for good (`GcUnpinned`), and that every pin is explained
  (`PinsExplained`): by an upload on its way to the save, a saved row, a call on
  its way to the unpin, or a cause of the orphan. It holds with any faults,
  restarts and purges. `OrphanHistoryInv` ties the call among the causes to
  the unpin that failed (`DestroyedUnpinned`).
* `UndisturbedInv` (for `NoPinOrphaned`) adds that none of these causes comes
  about. The assumption excludes what really orphans a pin: a stop or a failure
  between the two halves of a release (the run `orphan_pin` shows one), a failed
  `add` that took effect, a purge.
* `GcAloneInv` (for `GcOrphansNothing`) needs no `SoleHashes`: each pin has an
  upload on its way to the save, or a saved row that no run is about to destroy
  (`PinsHaveRows`). A run that is about to destroy a row has unpinned the hash,
  and who pins it again later has a row of its own. With calls this is false
  for a shared hash, see above.
* `QuotaInv` ties the counter to the history in a period without overlaps:
  at most one request is between its check and its count, and what it has read
  is what the row holds, or the row has gone since.
* `StagedInv` (for the admission's theorems) says that a path which nobody
  found in the folder is there for as long as a handler has it to remove
  (`HeldThere`) and that one handler has it, once (`HeldOnce`), and that what
  is in the folder belongs to a handler that has it to remove or that threw
  (`DiskOwned`).
* `CountInv` (for `MeetingsPaid`) counts per path: files removed by
  `unlinkFiles`, plus one if the path is in the folder, plus meetings, are no
  more than the files staged (`Paid`). Each staging adds one on the right and
  either a meeting or the file on the left; each removal trades the file for a
  removal. A success has removed all its files, so the rest must belong to
  requests without one. `SpaceInv` (for `ReserveLost`) counts the same way
  what the disk has lost since the last admission.
* `LifeInv` has what each settled promise leaves behind (`PromisesKept`), that
  `appFactory` passes it only then (`AwaitedInTurn`), who may still enter a
  room (`LateKnown`), and for the healthcheck that one past the daemon without
  an answer has seen it up (`CheckHistory`).
* `MigrationInv`: an undo runs alone (`UndoneAlone`); a command works through
  its scripts in order, with all that come before behind it or in the log
  (`TodoInOrder`); a script about to be logged has run (`ScriptsRun`); and what
  is logged exists, unless an undo took it and stopped (`LoggedExists`).
* `VersionImplemented` maps each step of a command, from a state of
  `MigrationInv`, to a step of `SchemaVersion`: the log without gaps is counted
  as a version (`VersionCounts`), `LogUp` and `LogDown` move it by one, and an
  upgrade never falls into an undo because that one runs alone.

Checked by TLC only: the liveness properties (`AnnouncedFileReleased`,
`EmptyRoomLeft`, `EveryPinReleased`, `ExpiredJobCollected`,
`BlockedClientForgiven`, `RequestAnswered`, `CheckAnswered`, `SizeAnswered`,
`StartSettles`, `StoppedRests`, `UpCompletes`), because fairness and `ENABLED`
are outside what TLAPS proves.

## Not modelled

* multer and `diskStorage` beyond their use (how a body is parsed), a client
  that goes away in the middle of its body, the space of the IPFS repository on
  the same disk.
* In the modules of the service, a statement that SQLite refuses; in
  `UploadAdmission` one ends the request as `"Rejected"`.
* libp2p beyond rooms and messages; a room that cannot be joined.
* `db-migration --generate`, which writes a template file, and the log format
  of SQL statements.
* The flags and the loading of the configuration: sequential, and done before
  anything runs beside it. Two facts about it met while reading: `COMMS_ENABLED`
  is read when `communication/index.ts` is imported, before the file of
  `--config` is merged in; and the log flags overwrite the `log` settings.
* The logger and its filter (text against patterns), the types.
* `getSizeLimit`, which answers with a constant.
* An offer id that holds a `:`, on which the GC splits a room's topic; the
  models take an offer as one value.
* A missing `gc.jobs.ttl`, for which `parse` yields null and every row counts
  as expired. A TTL above 2^31-1 ms, which makes every listener's timeout fire
  at once, is modelled by `TimerDelay`; the runs keep below it, and
  `ListenerLossHasCause` says nothing of it.

## What remains

The core, the admission, the quota, the routes, the life of the process and the
migrations are modelled; their safety properties and both refinements are
proved. What could be added is of smaller weight:

1. action properties of the admission and of the quota as refinements of their
   own: a staged path as a lock that is taken and given back, the counter as an
   atomic one in a period without overlaps;
2. the composition of `Lifecycle` with `UploadService`: rooms entered after
   `stop` with real message calls, in place of the uploads' outline;
3. `OrphanHasCause` for shared hashes, with the stale count of a call among the
   causes;
4. the template and the parsing of `db-migration`, and the log filter, as pure
   operators.
