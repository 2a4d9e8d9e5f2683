# A TLA+ model of Roaminal

Roaminal is a Go backend that keeps shells and SSH connections alive in the
background and serves them to browsers. This directory holds TLA+ modules that
model the parts of the backend whose correctness depends on the order of things,
the TLC configurations that check them on small instances, and proofs, checked by
TLAPS, of the properties that matter most for every instance.

Paths are relative to `src/backend/internal/` unless they start with `src/`.

## 1. Inventory

| Component | State | Operations | What is hard |
|---|---|---|---|
| Terminal runtime (`terminal/`) | `Manager.sessions`, `pending`, `createReservations`; per session `closed`, `ephemeral`, `retiring`, `retired`, `onExit`, `onMarker`, metadata | create, launch, promote, abort, exit, delete, metadata updates, retire, start, shutdown | a goroutine per child process, per reader, per launch and per request works on one session; two locks (`Manager.mu`, `Session.mu`) are taken one after the other, so what was looked up is used later |
| Instance store (`persistence/`) | directories `active/` and `audit/` | save, archive, delete, list | each call may fail, also after its rename; the process may die between any two |
| Definition service (`definition/`, with `sshconfig/`, `connectionoptions/`, `sshfs/`) | `~/.ssh/config`, the options file, an undo journal | create, update, duplicate, delete; recovery at start | two files that change together; failing writes, failing rollbacks, crashes, a user who edits the file in a shell |
| SSH transports (`connection/`) | `TransportPool`: transports, the instance map, `Channels`, `AuxiliaryChannels`, `OwnerClosed`, `Draining` | open, reuse, exit, delete, reserve and release auxiliary channels, drain, stop, shutdown | reference counts kept by hand in several functions; pointers read before the lock and used after it |
| Terminal stream (`terminal/attach.go`, `input.go`, `server/websocket.go`) | clients, reservations, control owner, sequence of output | attach, detach, broadcast, input, resize, snapshot | slow clients, double release of a reservation, a snapshot that is older than the output that follows it |
| Snapshots (`terminal/snapshots.go`) | a timer per session, the active and the archived snapshot | schedule, save, final save, archive | saves hold no lock while the worker and the disk are busy, so they overlap each other and the retirement |
| Terminal worker client (`worker/`, `src/terminal-worker`) | requests in flight, sequence numbers, queue and budget of bytes | create, write, snapshot, close, fatal | death of the child process, a full queue, late answers, callers that hold a session's lock |
| Authentication (`auth/`) | refresh sessions, challenges, TOTP counters, `2fa-secret` | login, refresh, revoke, enrol | a code verified twice, an enrollment the user edits, persistence that fails half way |
| Browser runtime (`browser/`, `src/backend/browser-worker`) | page, viewers and their queues, worker run, pending requests | open, navigate, close, resize, restart | results of an operation that is over, commands prepared under one lock and written under another |
| File system (`filesystem/`) | upload jobs, their records and staging; snapshots of listings | upload, cancel, list, read ranges | cancellation against completion, a remote side that changes between two commands |
| Notifications (`notifications/`) | bounded queue, subscriptions | register, enqueue, deliver, end of a session, close | a queue that is full or closed while callers notify; a worker with an old list of subscriptions |
| Messages (`messages/`, `persistence/messages*.go`) | history, read position, revision | append, prune, mark, list, delete | idempotent append after a failed save, cursors that survive pruning |
| Previews (`imagepreview/`) | cache on disk, tracked keys, flights, slots | get, expire, restart | single flight, a cancelled leader, a source that changes while it is converted |
| Agents (`agent/`) | record per endpoint, operations, projections | initialise, observe | joiners of an operation that ends, results of a previous tmux runtime, a crash between a message and its projection |
| Agent hook (`src/agents/hooks/codex`) | state file per runtime, installed files, two kinds of locks | record, clean up, install | processes killed at any point, locks that are broken by others, a cleanup without a lock |
| Workspace layout (`workspace/`) | layout and revision | get, put | compare and set of concurrent clients |
| Monitor (`monitor/`) | cached samples | sample, close | freshness of a cache |
| HTTP server, frontend, deployment | none of their own that is shared | routing, rendering, packaging | not in the reach of a model |

How they interact. An HTTP handler calls `connection.Manager`, which opens or
borrows a transport and asks the terminal runtime for a process. When the process
exits, the runtime takes the exit hook of the session, and the hook gives the channel
back to the pool. A launch (a connection under tmux) prints a marker; the reader of
its PTY calls back into `connection`, which promotes the launch or aborts it. The
runtime sends every output chunk to the terminal worker under the session's mutex and
broadcasts it to the clients; it asks the worker for a snapshot when a client attaches
and when the output pauses. Monitor, file system and agents borrow a transport as
auxiliary users. The definition service changes the SSH config; the watcher of the pool
notices and drains the transports that were opened with the old one. The hook writes
what an agent does into a file on the remote host, the observation reads it, appends
messages, and the notifications push them. `main` starts and stops all of them.

`PROJECT.json` lists all components with what is and is not modelled, the hazards of
the code at their lines with the properties that cover them, and the lines that every
definition stands for.

## 2. Modules

| Module | What it is | Theorems in |
|---|---|---|
| `TerminalLifecycle` | the life of an instance in the runtime, with the two copies of its metadata | `TerminalLifecycle_proofs` |
| `ConnectionRecord` | what the store promises; implemented by `TerminalLifecycle` | `TerminalLifecycle_proofs` |
| `TransportPool` | the channels of the SSH transports | `Endpoint_proofs` |
| `SharedMaster` | a control master shared by users; implemented by `TransportPool` | `Endpoint_proofs` |
| `TerminalStream` | the WebSocket clients of a session: places, control, output | `TerminalIO_proofs` |
| `SnapshotSaver` | the periodic and final snapshots of a session | `TerminalIO_proofs` |
| `WorkerClient` | the client of the terminal worker, its pipes and the worker | `TerminalIO_proofs` |
| `DefinitionTransaction` | the journal of the definition service | `Persistence_proofs` |
| `DefinitionPair` | the atomic pair of files; implemented by `DefinitionTransaction` | `Persistence_proofs` |
| `FileUploads` | upload jobs with their staging and records | `Persistence_proofs` |
| `MessageHistory` | the message history and a page that reads it | `Persistence_proofs` |
| `AuthSessions` | login, enrollment, tokens | `AuthSessions_proofs` |
| `NotificationQueue` | Web Push: queue, worker, subscriptions | `Services_proofs` |
| `FileListing` | roots, pages of directories, content and ranges | `Services_proofs` |
| `PreviewCache` | image previews | `Shared_proofs` |
| `BrowserPages` | the shared remote browser | `Shared_proofs` |
| `HookState` | the state files of the agent hook | `Hook_proofs` |
| `HookInstall` | the installer of the agent hook | `Hook_proofs` |
| `AgentObservation` | initialisation and observation of an agent on one endpoint | `Endpoint_proofs` |
| `MC...` | model values, and hosts of several modules, for TLC | |

The proof modules extend the components they are about; no module uses `RECURSIVE`.

Components that share no state are checked in one TLC run by a host module
(`MCTerminalIO`, `MCServices`, `MCPersistence`, `MCShared`, `MCObservation`,
`MCLiveness`). A variable `focus` is chosen in the initial state and only the module it
names moves, so the states of such a run are the sum of the states of its modules, not
their product. `MCObservation` sees the server twice: with focus `observe` one session is
initialised, recreated twice and observed, with focus `prepare` two sessions are
initialised together. The hosts extend their modules, so that a run checks the very
definitions the theorems are about; only `MCLiveness`, which proves nothing, has
instances with renamed variables. The invariants of a host's run are about all its
modules: those of a module that does not move hold in its initial state.

### TerminalLifecycle

Everything that runs on a session is a thread `<<role, id>>`: `wait` is `waitLoop`,
`marker` the reader of the PTY inside its marker callback, `shutdown` the loop of
`Manager.Shutdown`, `boot` the loop of `Manager.Start`, and each member of `Requests`
a request handler or `watchPending`. `pc` says where the thread is. One action is one
critical section of `Session.mu` or `Manager.mu`, or one call of the store, in code
order; this is the grain at which goroutines of this program can interleave, since the
shared fields are only used under these locks. `terminateSession` and `retireSession`
are written once, with the thread as a parameter, as they are called by all roles.

| Code | Actions |
|---|---|
| `createProcess`, `Create` | `Reserve`, `CreateFails`, `StartProcess`, `Persist`, `PersistFails`, `Publish` |
| `readLoop`, `waitLoop` | `ProcessExits`, `ReadEnds`, `WaitLoop`, `MarkerSave`, `MarkerFires` |
| the `onMarker` callback, `PromotePending` | `MarkerDecides`, `PromoteRefused`, `PromotePublish`, `PromotePublishFails`, `PromoteMove` |
| `AbortPending`, `Delete`, `watchPending` | `AbortRequest`, `AbortLookup`, `DeleteLookup` |
| `terminateSession`, `finishEphemeral` | `TerminateRetired`, `TerminateMark`, `Kill`, `Finish`, `Unpend` |
| `retireSession` | `RetireBegin`, `RetireSnapshot`, `RetireMeta`, `RetireArchive`, `RetireDelete`, `RetireMark`, `RetireUnmap`, and one `...Fails` for each call that can fail |
| `SetTitle`, `MarkSourceState`, `MarkGenerationResult` | `UpdateLookup`, `MetaUpdate` |
| `Start`, `retirePersisted` | `StartUp`, `BootSave`, `BootArchive`, `BootDelete`, `StartDone` |
| `Shutdown`, end of `main`, death of the process | `ShutdownBegin`, `Exit`, `Crash` |

The metadata is abstracted to the lifecycle it says; titles, sizes and the screen are left
out. Three pairs of steps are one action each, as nothing can tell them apart: `RetireMeta`
reads the metadata under the lock and saves it after it (`retire.go:38-44`; what it reads is
final, for the session is closed), `Kill` ends the process group and takes the exit hook
(`retire.go:117-123`), and a marker with a value that is not the connection's, on which the
callback returns (`tmux.go:103-105`), is not an event. A failing call of the store may have
had its effect: `atomicWrite` replaces the file before it synchronises the directory, and
the error of that comes late. `Exit` and `Crash` lose the memory and the child processes
(they are started with `Pdeathsig`) and keep the disk.

### DefinitionTransaction

`Service.mu` serialises mutations, so there is a single program counter `stage`; one
action is one call on one file. `files` is the pair of files, `journal` the undo
journal, `snapshot` what the mutation found when it began, `accepted` a history
variable: the pair that was last committed, or edited by the user. The contents of a
file are members of a small set. `Failures` selects the points that may fail:
`prepare`, `config`, `commit`, `commitSync` (the commit record is on disk but reported
as not written), `restore` and `discard`. `ConfigWritable = FALSE` is an SSH config on a
read-only mount, one of the deployments the documentation describes.

### TransportPool

A transport is named by the instance that opened it. `stage` is the progress of every
instance, from the request that makes it to its end; `auxStage` is that of every
auxiliary user, which stands for a command, a reader, a lease of a transfer or a
probe. One action is one critical section of `TransportPool.mu` or one call made without
it (`ssh -O check` in `ReuseChecked` and `AuxUses`, `ssh -O exit` in `StopTransport`).
The pointers that the code reads under the lock and uses later are `target` and
`auxTarget`. A request that is refused leaves no trace and may be made again, so
the model has no bound on the number of attempts. `createRemoteTmux` and
`createReuseTmux` do the same to the pool as `createRemoteOwned` and `createReuseOwned`
and share their actions. The end of an instance is its exit hook, which
`TerminalLifecycle` shows to run for every closed session (`ClosedIsCleared`); the two
models meet there and nowhere else, so they are checked apart.

After `Shutdown` has cleared the maps, requests in flight go on, as in the code, where
the HTTP server is stopped around it; this is why the counters are only required to be
exact for transports that are in the pool.

### Terminal input and output

`TerminalStream` has one action per critical section of `Session.mu` or `Client.mu`: a
handler reserves a place, is greeted with a snapshot, gets the chunks that are
broadcast through a bounded channel and a bounded count of bytes, may take and lose
control, and leaves, is dropped or sees the exit. Output is its sequence number; what
was sent to a client is the sequence of messages in its queue and on its wire.
`SnapshotSaver` has the steps of one save (read the sequence, ask the worker, write the
file, look at the session again) for each of `Saves`, and the retirement that takes a
final one; `final` and `overtaken` are ghosts. `WorkerClient` has callers (the output
handlers, one per terminal, and `Requests`), the budget and queue of the writer, the
pipes to the worker and back, and the worker's chain of work; all of its waits have the
time-outs of the code.

### Services

`AuthSessions` has one action per method of `auth.Manager`, which holds its mutex
throughout, the user who removes, damages and puts back `2fa-secret`, crashes, and the
handler of a stream that checks a token and subscribes to the enrollment afterwards.
Codes are time steps, tokens are numbers that are never used twice. The mutex does not keep
the user from the file: a confirmation reads it (`totp_flows.go:105`, `ConfirmBegin`) and
writes it later (`:133`, `ConfirmEnd`), and so does a verification (`VerifyBegin`,
`VerifyEnd`).

`NotificationQueue` has the login sessions, callers, the worker with the list of
subscriptions it has read, and the sweep at start. A registration is authenticated in one
step and stored in another; a logout ends its session before it deletes the subscriptions,
and `logoutOthers` lists the sessions, ends them and cleans up after the ones it listed in
steps of their own (`ListOthers`, `EndOthers`, `DeleteAll`). A write that fails may have
replaced the file (`Saved`).

`FileListing` has one client that follows the pages of a directory and one that reads a file
or a range of it, while the remote host changes between any two commands. A version of the
file is its size and its time stamp in seconds, which is all the consistency token tells
apart; two versions may have the same. The first stat (`StatContent`), the second
(`RestatContent`), the command that reads (`OpenContent`) and the comparison (`Serve`) are
separate, so the file changes between any of them. A `304`, which sends no bytes, is left
out.

### Files that survive

`FileUploads` follows an upload from its staging to the record of its end, by rsync or
file by file, with a user who cancels and who puts newer files at the destination. Whether a
file is skipped is asked where it is copied (the code asks at `upload_transfer.go:86` and
copies at `:97`); a file that is put there in between is overwritten in the code.
`MessageHistory` has the file, the devices to which messages are pushed, and one page that
lists with cursors and caches what it loaded under its revision.

### Previews and browser

`PreviewCache` has callers that ask for one picture: the leader of a flight stats, copies,
stats again, converts, puts and tracks; a janitor deletes and untracks; a version of the
source is a number. An entry is valid when its frame is: what lies inside the chunks of the
picture is not looked at (`identity.go:38-103`), so `Valid` says nothing of it, and damage
there is not modelled. A reader that is open reads on when its entry is deleted.
`BrowserPages` separates the preparation of a command under `Manager.mu` from its writing
under `commandMu`. The worker is modelled from its own code (`src/backend/browser-worker`):
it takes commands one after the other, answers a close without a page with
`no_browser_page`, and sends events of an operation it has taken in any order and at any
time, also while the page closes; the manager applies an event when its operation is the
page's. A command may name the operation it is for or leave it out.

### The agent

`HookState` has one process per event: lock, read, append, rename, cleanup without the lock;
it may be killed anywhere. `HookInstall` has the directory lock with its separate owner
file, the breaking of a dead owner's lock in its four steps, and three renames. The check of
the owner and the removal of the lock are two steps; a record that cannot be read (`unread`)
is not compared, as in the code (`install.go:49-52`), and a rename that is reported as
failed may have happened. The lock can be lost: an installer that judged a lock dead, and is
slow, removes the directory that a faster one has made meanwhile, and the loser may then
write its name into the directory of a third. The ghost `evicted` holds the live installers
that lost their lock in this way, and `OneInstaller` is about the others. `AgentObservation`
has the initialisation of one endpoint with its joiners, the scheduler that reads the state
files, the endpoint's record in memory and on disk, and the messages.

## 3. Runs

| Run | Instance | What it shows |
|---|---|---|
| `lifecycle_launch` | a shell or a launch, two requests, one fault, one crash | every order of creation, promotion, abort, exit, delete, update, shutdown, crash and restart: `SingleRetirer`, `VisibleIsDurable`, `WorkerSessionLives`, `PromoteFindsLaunch`, and the refinement `KeepsRecords` |
| `liveness` | a shell or a launch, a request, a failing call, for the shell also a crash; two overlapping saves; one terminal and one request; one notifier; all fair | `ClosedIsCleared` (the exit hook of what is closed runs, a launch leaves the pending ones, a retirement that fails lets go of the session, and one that meets no failure removes it), `LeftoversRetired`, `EventuallyStored`, `CallersReturn`, `CloseReturns` |
| `definition_faults` | three contents, all failure points, two failures, a crash, an edit by the user | `JournalKept`: a journal is given up only when both files are restored |
| `transport_sharing` | an owner, two reuses, two auxiliary users, fair | `CountsExact`, `TransportStays`, `ReleasedStops`, and the refinement `SharesMaster` |
| `terminal_io` | two clients of a session with one place; two saves; two terminals and two requests | `SessionSafe`, `ClientsInStep`; `SnapshotsSettle`; `AnswersExact`, `NoSequenceGap` |
| `services` | a limit of one failed attempt, two pending logins, two enrollments; one notifier with two sessions; two listings of a directory; three versions of a file | `CredentialsHold`, `CodeOnce`, `EnrollmentSteps`; `PushSafe`, `OnlyGoneRemoved`; `ListingSafe` |
| `persistence` | two contents, two failures anywhere but in a rollback, two crashes; two uploads of a file; three messages of which two are kept | `Recoverable`, `KeepsPair`; `UploadsSafe`; `HistorySafe`; `RecordsOnlyAdvance` (uploads and read marks) |
| `shared` | two requests for one preview in two versions; two viewers, two clients, one restart of the worker, two requests at it | `PreviewSafe`; `ViewersAgree`, `CommandsLand` |
| `observation` | three hooks in two runtimes; three installers of versions 1, 2, 1; one session observed over three runtimes; two sessions initialised together | `HookFilesSafe`; `InstallSafe`; `ToldOnce`, `PreparationSafe`; `NothingGoesBack` (hook, installer and server) |

The invariants include one type invariant for each module. Every property has a mutant: a
change of one definition, such as a plausible bug would make it, that the run finds. The
mutated forms stand before the definitions they change, with the same name and a suffix.

Three further runs state what a comment or a document says and the code does not do; TLC
finds the behaviour.

| Run | Statement | What happens |
|---|---|---|
| `late_update_restores_record` | "When a connection exits, its active files are archived and removed" (`src/docs/backup-recovery.md`) | an update that found the session earlier writes its record after the removal (`RetiredIsRemoved`) |
| `definition_read_only` | "Read-only SSH Secrets ... remain usable for connections" (`src/docs/deployment.md`) | a refused edit leaves a journal that needs a write to be undone, and the next start fails (`ReadOnlyStarts`) |
| `transport_failed_reuse` | "The final owner/auxiliary release performs cleanup" (`connection/transport_watch.go`) | a reuse that fails after the owner has exited gives the last channel back and stops nothing (`LastReleaseCleans`) |

### Known divergences without a run

The models take these steps as the code does, and the properties are stated so that they
allow them, each for the reason given.

* `AbortPending` of a launch that is promoted between its lookup and its termination archives
  it as cancelled, though it is said to leave no audit artifact (`terminal/pending.go:146,152`).
* A process that exits between the two critical sections of `PromotePending`
  (`terminal/pending.go:131-132`) is retired and then put into the map, where it stays
  without a record.
* A cwd marker of a pending launch is saved (`terminal/markers.go:99` looks at persistence, not
  at `ephemeral`) although `terminal/process.go:24-26` excludes launches from persistence; the
  record it leaves is retired by the next start.
* The mutation after a failed rollback journals half-applied files, because it takes its
  snapshots before it recovers (`definition/service.go:54`); a commit record that was written
  but reported as failed is followed by a rollback under a journal that says committed
  (`definition/transaction.go:99-105`); the rollback of a mutation that was refused for a stale
  tag writes the snapshot over an edit the user made in between (`definition/service.go:64`
  with `sshconfig/repository.go:145-176`). Atomicity is therefore stated without these.
* An enrollment that the user deletes while it is confirmed is made again, and one that is put
  back then is replaced (`auth/totp_flows.go:105,133`, against the comment at `:177-178`, which
  says so of a verification); nobody was signed in under what is lost.
* A subscription may outlive its login session: a registration can be stored after the end of
  its session, expiry and the end of an enrollment delete none, `logoutOthers` does not know
  a session that begins after it made its list (`server/auth_handlers.go:181-187`), and a
  clean-up that fails is only logged. The `Prune` of the next start removes it.
* A file that changes after the second stat is served under the headers of the old one, and
  so is one that changes without another size or second (`filesystem/content.go:16,30`).
* A `close` that finds no page in the browser's worker leaves the page `closing` until a viewer
  synchronises (`browser/manager_events.go`, `src/backend/browser-worker/index.mjs:117-119`).
* A target that joins an operation as it ends is marked for an operation that is over
  (`src/docs/api.md:144-145`); the ghost `late` sets it aside until it is initialised again.
* A preview that is filled between the deletion of its predecessor and its untracking is not
  tracked any more (`src/docs/configuration.md:33-34`); the ghost `raced` sets it aside.
* An upload that was told as a partial failure may be told as cancelled afterwards
  (`src/docs/api.md:136`). Uploads are not resumed after a restart, and their staging is left.
* The indices of a hook's state file begin again after its cleanup.
* Two installers that break one dead lock can evict a third that works; the ghost `evicted`
  sets those aside.

Seen while reading and not stated as hazards: a program in the session that prints the
`tmux-ready` marker itself (`terminal/markers.go:137`), a stop of a transport without a
time-out (`connection/transport_watch.go:106`), a change of preferences against a delivery,
the resize of a page under the browser manager's mutex.

### Bounds

Sets are finite sets of model values; constants whose name begins with `Max` bound the steps
of the environment and, where the code counts without end, the counters.

* Sessions are independent except for the capacity. `OneInstance`, the `CONSTRAINT` of
  `lifecycle_launch`, lets a behaviour follow one of the two; that they compete for a slot
  is left to the proof, where `Capacity` is a part of the inductive invariant. `MaxCreations`
does the same in `liveness`. Two requests, the reader, the wait loop and Shutdown make up to five
  threads that work on a session, enough for one that looks up, one that terminates and one
  that retires to meet in every order. One fault with one crash covers a failure before,
  during and after each step of retirement and its repetition by the next start.
* Two failures and two crashes let a mutation fail, its recovery be interrupted, and the
  recovery of that be interrupted again.
* Two reuses and two auxiliary users let one leave while another joins and a third stays.
* Two clients for one place, with queues of four events (the greeting has three) and one
  unit of bytes, fill, drop and take over in every order. Two saves overlap in every way, for
  a third waits for nothing the first two do not. A queue, a pipe and a budget of
  one chunk make every wait of the worker client happen with two terminals and two requests.
* Two time steps, two pending logins and two enrollments make a code come back and an
  enrollment be replaced and put back; one failed attempt locks. A push queue of one is full
  with the second job. Three entries, with pages of one or two, and two listings change a
  directory between any two of its pages; three versions with a window of one change a file
  before each of three of the four steps that serve it, with or without another size or
  second.
* Three messages of which two are kept prune, repeat a key and page over what was pruned.
* Two versions, two moments and one fault let a source change, an entry expire and a fill
  fail; two operations and one restart of the browser's worker leave events of an old page
  under way, and queues of two overflow. The browser is followed under two foci: under
  `commands` the viewers of one client navigate, give input and close, with requests, while
  another may follow, the worker is replaced and pages come and go, and no frames are drawn;
  under `views` two clients and their viewers see events, frames and toggles of one worker.
  What each leaves out is in the constraints `Commanding` and `Viewing` of `MCShared`.
* Three hooks put two into one runtime and one into another; one record is retained. Three
  installers let one break a lock, one lose it and one come too late. Three runtimes, the
  last as old as the first, make clocks step back; two reports of each and one fault
  separate a message from its projection.

Requests, uploads, contents of files, viewers and preview requests are interchangeable: no
action and no property names one of them or picks one by a `CHOOSE`; this is why the
symmetry sets of the runs are sound. No run with a liveness property uses symmetry.
`CHECK_DEADLOCK FALSE` stands in the configurations of the hosts, in which a module stops
when its bounds are used up or when what it models has ended (an upload, a client, a
worker process, a service that was closed).

### Fairness

Safety runs assume none. It is weak everywhere, since nothing but its own step disables a
goroutine that may go on.

* `TerminalLifecycle!Fairness`: goroutines are scheduled, the store and the worker answer
  (they run under time-outs, and may fail), and the reader of a closed PTY ends. Users,
  child processes, markers and operators owe nothing: no process has to exit, no request has
  to be made.
* `TransportPool`: `StopTransport` is code that runs right after the critical section that
  decided on it, in the same goroutine. That `ssh -O exit` returns is an assumption.
* `SnapshotSaver!SaverFairness`: a timer that is set fires, and a save that has begun takes its
  steps, each of which has a time-out.
* `WorkerClient!WorkerFairness`: callers take the steps that are theirs, the loops of the client
  run, the worker process handles what it has read, and its end is seen. A worker that
  stalls is an action; the time-outs of the callers then end the wait.
* `NotificationQueue!PushFairness`: the worker goroutine runs and a sender on a channel with room
  goes on; a push service answers or its client's time-out does.

## 4. Proofs

TLAPS checks every step, in eight modules. The theorems are about the specifications of the
modules, for arbitrary constants under the named assumptions: `...Bounds` of each module, which
TLC evaluates in the runs. They say that sets of callers are finite where something is
counted, that limits are natural numbers, positive where the code's are, and that values like
`Nil` are not members of the sets they stand beside. Two say more: `TerminalStream!Bounds` asks
for a queue that holds the greeting (the code's holds 256 events), and
`AgentBounds` for at least one runtime. Nothing is assumed about the order of steps.

Every invariant of a passing run is a theorem, and so are the refinements and all action
properties but two. Each proof has the form of an inductive invariant: it holds initially, each
action keeps it (one step or lemma per action), and it implies the property.

**`TerminalLifecycle_proofs`**: `IInv` is a conjunction of parts, each with a lemma that says that
every action keeps it given the parts before it. `TypeOK`, `Capacity`; `Quiet` (nobody works on an
instance that its creator has not published; without it a creation could save metadata under a
thread that retires the same instance); `ClosedInv` (a thread that terminates or retires has
closed the session); `RetireInv` (being inside `retireSession` means that `retiring` is set);
`WorkerInv`, `PromoteInv`, `DurableInv`, `RecordInv`: the property together with what holds at the
program points before it. From `RecordInv` follows that every step is a step of
`ConnectionRecord` or a stutter (`RecordRefinement`).

**`Persistence_proofs`**: the journal holds whatever fails (`JournalKeptHolds`); atomicity and the
refinement of `DefinitionPair` (`RecoverableHolds`, `PairRefinement`) assume `Sound`: no `restore`
and no `commitSync` failures, a writable SSH config and no edits from outside; the divergences
above show why each is needed. `UploadsHold` relates the status of a job, its staging, its record
and the files at the destination; while files are copied one by one, those that are not to do
any more are at the destination unless a newer upload wrote them. `HistoryIsSafe` rests on one
notion, `Continues`: the messages of a file that is saved are old ones in their order, but
for a last one with the next sequence, and its revision is the next. It is kept by pruning,
appending, deleting and marking; from it follow that paging shows every message once
(`PagingInv`), that a revision names one list (`CacheInv`), and that nothing is pushed twice
(`PushInv`).

**`Endpoint_proofs`**: for the pool, `CountInv` relates the counters to the sets they count,
`ShapeInv` says who may be in these sets, `TargetInv` where the pointers that requests hold
come from; that the last channel leaves nobody behind is an argument about cardinalities. The
refinement `PoolSharesMaster` follows. For the agent, `OpsInv` (one operation at work, the
current one is the running one, and one without a goroutine is owned by its request),
`InstalledInv` (nobody relies on the component while it is being installed), `AwaitedInv` (a
target that waits has a request or an operation that will settle it) give
`PreparationIsSafe`; `MessagesInv` and `ProjectionInv` (the disk follows the memory, the
scheduler holds one snapshot, its message is stored before it is accepted) give
`ChangesAreToldOnce` and `ProjectionGoesForward`.

**`TerminalIO_proofs`**: places and control (`SessionHolds`), the view of each client
(`StreamsHold`: an open client was sent a snapshot or a chunk after which nothing but
resizes happened), the snapshots (`SnapshotsHold`: a save is of a state between the one it
began at and the present one). For the worker client, `WireInv` says that the frames under
way are each of a caller that waits for it, and that the chunks in the pipe, the one being
written and the one queued continue what the worker has applied, so no chunk follows one
that was given up while the client is up (`ChunksHaveNoGap`); `BookInv` says that the budget
is the sum over the chunks admitted, queued and being written (`BooksAreExact`).

**`Services_proofs`**: `PushHolds`, `GoneHolds` (an id is never given to a second endpoint,
so what the worker deletes by id, however old its list is, is of the endpoint that
answered), `ListingHolds` (a cursor names a snapshot the server knows and the first entry
its client has not got; a window that was stated fits the version it was stated of, and what
is read is not older than what the second stat saw). That no subscription outlives its
session is not true of the code and is not stated.

**`AuthSessions_proofs`**: `CodesHold` (the enrollment in the file, or that the user can put back,
records a step that no accepted code of it is later than), `CredentialsStay` (every operation
makes a manager that is sound by itself and stored sessions whose tokens are smaller than
the next one, whatever became of the write), `StepsHold` (only a confirmation that was under
way when the user put an enrollment back replaces it).

**`Shared_proofs`**: `PreviewHolds` (the stat after the copy leaves one version for what was asked
and what was read); for the browser, `BrowserInv` puts the worker at the
operation of the page whenever no new operation is on its way, which gives `CommandsHold`.
`ViewersSeeThePage` needs `LookInv`: the page is what a viewer saw last or a state in its queue,
and nothing behind that says anything else (`Agrees`); frames only repeat it, so the queue may
drop one, and a change of the page puts a new state behind everything or disconnects the
viewer.

**`Hook_proofs`**: a hook that has read its file holds the lock of the runtime, so until it
writes the file can only be removed by a cleanup (`HookFilesHold`, `IndicesRise`). The owner
file names the installer that works (`InstallHolds`), and the component gets older only by
one that could not read the record (`ComponentRises`). An attempt to prove the latter
without `evicted` failed, and TLC then found with four installers that one of them could be
thrown out of a lock that was not its own; the model was corrected by the ghost.

Only model-checked: the liveness properties (`ClosedIsCleared`, `LeftoversRetired`,
`EventuallyStored`, `CallersReturn`, `CloseReturns`, `ReleasedStops`), since TLAPS does not
reason about fairness here; `RecordsOnlyAdvance` and `NothingGoesBack`, each a conjunction
over the modules of one run, whose conjuncts are the theorems `RecordsStand`,
`ReadMarksHold`, `IndicesRise`, `ComponentRises` and `ProjectionGoesForward`; and of course
the runs that find a violation.

## 5. What is not modelled

Workspace layout, monitor and client diagnostics are single operations under one lock,
without state that others use. The frontend, routing, packaging and configuration are input
and output. Of the components above, the contents of files and metadata, the parsing and
editing of `ssh_config`, key files, the screen, the endpoint cache and the text of remote
commands are left out, as is the migration of old record formats, which runs before anything
else. The image library, the push service and `ssh` are external: they are modelled from how
the code uses them. Of the browser's worker only the order of what it takes and sends is
modelled. An initialization whose identifier cannot be made
(`agent/initialization.go:76-80`) ends before there is an operation, and is left out.

What is left to do: a composition of the runtime with the pool, in which the exit hook of an
instance is `TransportPool!FinishInstance`, to state across both that a closed instance releases
its channel; the composition of the hook's state file with the observation that reads it; and
the two combined action properties as theorems about such compositions.
