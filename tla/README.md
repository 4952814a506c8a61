# A TLA+ model of baepo-node

baepo-node runs containers in small virtual machines.  This directory holds TLA+
modules that model the parts of it where goroutines, processes, a database, the
kernel and failures meet, the TLC configurations that check them on small
instances, and proofs that TLAPS checks for every value of the constants.

All paths below are relative to `src/`.

## 1. The system

| Component | State | Operations | Talks to |
|---|---|---|---|
| Machine controller, `nodeagent/internal/machineservice/machinecontroller` | `c.state` (State, DesiredState, Reconciliation, RuntimeListener, ConsecutiveErrorCount), `stopping`, a WaitGroup; the machine's row | `New`, `Stop`, `GetState`/`SetState`, the event handler, a reconciliation goroutine, a runtime listener goroutine | its own event bus, all providers, runtime service, the runtime's gRPC stream |
| Event bus, `core/eventbus` | an unbuffered channel, the handlers under an RWMutex | `PublishEvent` (a goroutine per event), `SubscribeToEvents`, `StartDispatcher` | every handler |
| Machine service, `nodeagent/internal/machineservice` | `machineControllers`, event rows | `Create`, `UpdateDesiredState`, `loadMachines`, storing and streaming events, logs, stopping controllers | controllers, database |
| Network provider, `nodeagent/internal/networkprovider` | `allocatedIPs`, rows, taps, firewall rules | `AllocateInterface`, `SetupInterface`, `ReleaseInterface`, `New` | kernel, `ebtables`/`iptables`/`arptables`, database |
| Volume provider, `nodeagent/internal/volumeprovider` | rows, logical volumes | `Allocate`, `Release` | `lvcreate`, `lvremove`, database |
| Image provider, `nodeagent/internal/imageprovider` | image rows and volumes, mounts | `FetchDetails`, `Pull` | registry, volume provider |
| Runtime service, `nodeagent/internal/runtimeservice` | vmruntime processes | `Start`, `Terminate`, `GetClient` | the process, its Unix socket |
| Registration service, `nodeagent/internal/registrationservice` | one connection to the control plane | connect, register, subscribe, synchronise, dispatch, report statistics | control plane, machine service |
| VM runtime, `vmruntime` | the hypervisor's process and socket, the initramfs, a log file, handlers | start, stop, relay and serve logs, relay events | hypervisor, init in the guest, agent |
| vsock, `core/vsock` | - | dial with retries, listen | VM runtime, init |
| Init, `init` | containers, `previousEvents`, log files and handlers | run containers, replay and stream their events, write and serve logs | VM runtime |
| Init container, `initcontainer` | the container's root directory | set up the file system, execute the command | init |
| API and gateway servers, `nodeagentctl`, adapters | none worth a model | straight-line code and adapters | |

What is hard in it, and what would make each part correct:

- *Controller.*  Messages arrive in any order (one goroutine each); `SetState` is a
  read and a write under two locks; the reconciliation publishes its result before
  it clears the pointer that keeps others out; `Stop` is called from a handler that
  the dispatcher `Stop` waits for runs.  Correct means: one reconciliation and one
  listener at a time; memory and row agree; a controller that has come to rest has
  its desired state; what is recorded as terminated holds no resources; a stopped
  controller starts nothing.
- *Network provider.*  Table, row, tap and rules are changed one after the other, and
  each step may fail or be the last before a crash; taps are found by name, names
  are used again; slots are computed back from addresses byte by byte.  Correct means:
  no address twice, nobody else's tap, nothing left over for the next machine with the
  address.
- *Event streams of init.*  Two locks and an unbuffered channel between a dispatcher,
  a recorder, and three goroutines for each subscriber, who may leave at any time.
  Correct means: no event lost between replay and live events, no live send on a closed
  channel, everybody gets everything.
- *Containers of init.*  A run loop and the health workers of all runs so far put events
  together from cells they write one by one.  Correct means: the last event tells the
  truth, a container is restarted as configured, its command stays in its volume.
- *Providers of volumes and images.*  Rows copied into several controllers, external
  commands with a crash between command and save, no lock.  Correct means: one machine
  pulls at a time; a snapshot is taken of a whole image only; the row knows the volume;
  every machine gets its volume.
- *Logs.*  A writer, readers that turn from a file to live lines, a connection that breaks
  and starts from the first line again, channels that fill up.  Correct means: every
  reader gets lines in order, the runtime's file each line once, nobody stops the writer.
- *Runtime.*  One time limit for all calls of `Stop`, a `Start` that goes on meanwhile, a
  hypervisor that outlives its runtime.  Correct means: one machine on the same volumes,
  no hypervisor left by a graceful end, an end whenever asked for.
- *Registration.*  Goroutines that outlive their connection, a channel closed while others
  wait to send on it, a synchronisation among events and requests.  Correct means: no
  event is missed, both sides agree on the machines once all is said, and a termination
  is learned.

## 2. Modules

| Module | What it is |
|---|---|
| `MachineController` | one machine's controller with its bus, goroutines, row, and the runtime process |
| `MachineLife` | abstract: how a machine's runtime, link and volumes come and go |
| `MachineControllerMC` | symmetry for TLC; three configurations `Controller*.cfg` |
| `MachineControllerProofs` | its type invariant, its inductive invariants, every safety property, and that it implements `MachineLife` |
| `NetworkProvider` | addresses, slots, rows, taps, rules, crashes |
| `NetworkProviderMC` | a network address; `NetworkTable.cfg` |
| `NetworkProviderProofs` | the round trip of slot and address, type invariant, agreement of table and rows, taps and rules |
| `InitEvents` | init's event bus, recorder, subscriptions and RPCs |
| `InitEventsMC`, `InitEventsProofs` | `InitEvents.cfg`; type invariant, live sends, no gap |
| `ContainerRun` | init's boot, a container's run loop and health workers, initcontainer |
| `ContainerRunMC`, `ContainerRunProofs` | `ContainerRun.cfg`; every property of the module |
| `ImageVolumes` | an image's row, its volume, and the machines that pull and use it |
| `ImageVolumesMC`, `ImageVolumesProofs` | `ImageVolumes.cfg`, `ImageSource.cfg`; type invariant, one pull at a time, whole images, what the row knows |
| `LogFeed` | abstract: what a reader of a log is promised |
| `LogPipeline` | a line's way from the container to a follower: guest, runtime, request |
| `LogPipelineMC`, `LogPipelineProofs` | `LogPipeline.cfg`; type invariant, that the two log services implement `LogFeed`, each line once; at the end, the proofs about `LogRequests` |
| `LogRequests` | the agent's side of a request for logs: handler, goroutine, reader |
| `LogRequestsMC` | `LogRequests.cfg`; proofs in `LogPipelineProofs` |
| `Registration` | the node's connections to the control plane, the event bus behind them, and machines as they see them |
| `RegistrationMC`, `RegistrationProofs` | `Registration.cfg`; type invariant, no event missed, agreement of both sides |
| `RuntimeLife` | launches of the runtime process, the hypervisor, `Start` against `Stop` |
| `RuntimeLifeMC`, `RuntimeLifeProofs` | `RuntimeLife.cfg`; type invariant and every safety property |

The definitions a module names as "wrong forms" in its header are not used by any
specification: each differs from the definition below it as a plausible bug
would, and with it in place a property fails.

How the modules fit together: a component appears in full in one module and, where
another needs it, as the promise it makes there.  `MachineController` has the runtime
as a process that is absent, booting, up or dying, `RuntimeLife` has the same process from
within, with an agent that launches it when there is none.  `Registration` has a
controller as something that reaches `running` or `terminated` some time after it was
asked.  `ContainerRun` publishes events of which it keeps the last, `InitEvents` brings
published events to subscribers.  `LogPipeline` composes three processes in one module,
because what it is about happens between them; `LogRequests` has the runtime's log requests
as one reader each, and the agent in detail.

### MachineController

`state` is `c.state`, `row` the two columns of the machine's row the controller
writes, `disp`, `recon[r]` and `listen[l]` the program counters of the dispatcher, of
reconciliations and of listeners.  `bus` is a bag of messages that are on their way:
`PublishEvent` sends from a goroutine of its own, so nothing orders two messages.
`ctl` holds what `New` and `Stop` change, `runtime` is the vmruntime process (absent,
booting, up, dying; a child of this agent or not), and `res` the tap, the volume and
their timestamps, in memory and saved.

A handler is one action where no other goroutine can come between its steps, and is
split where one can.  `SetState` (controller.go:123-134) copies the state under the
read lock and installs the updated copy under the write lock: `HoldCopy`,
`HoldCopyForListener`, `HoldCopyToClear` and `HoldCopyToExit` are the copies taken early,
and a second action installs them.  `used.staleWrites` counts the copies that were
outdated when they were installed; `MaxStaleWrites` bounds them, and with 0 every
`SetState` is atomic.  Properties that hold only for that case say `NoStaleWrite`, and
`OverlapCostsStaleWrites` says what one outdated copy costs.

| Code | Action |
|---|---|
| `UpdateDesiredState` | `UpdateDesiredState` |
| `loadMachines`, `New` | `Init`, `Restart` |
| `newMachineController` entering the map | `Register` |
| `eventHandler`, Assess | `AssessOnly`, `Reconcile`, `startRuntimeListener` |
| `eventHandler`, DesiredStateChanged, StateChanged | `DesiredStateChanged`, `StateChanged` |
| `eventHandler`, listener messages | `ListenerConnected`, `ListenerDisconnected`, `CountErrors` |
| `handleMachineTerminated`, `Stop` | `CallStop` in the handlers, `StopBegins`, `StopTimesOut`, `DispatcherReturns` |
| `reconcileTo*` | `Probe`, `Terminate`, `AwaitExit`, `Prepare`, `ProbeStart`, `StartRuntime`, `ReleaseInterface`, `ReleaseVolumes` |
| the deferred end of `reconcile` | `HoldCopyToClear`, `ClearReconciliation` |
| runtime listener goroutine | `Connect`, `Disconnect`, `HoldCopyToExit`, `ClearListener` |
| the vmruntime process | `RuntimeReachable`, `RuntimeExits`, `RuntimeCrashes` |

The interface and the volumes are objects that all copies of the state share by
pointer.  A timestamp set before a failed save stays in memory, and the code does not
save a second time what has a timestamp: hence `res.memory` and `res.saved`.

`MachineLife` is what all of this promises about the machine itself.  It has no messages, no
goroutines and no copies: a machine is kept, leaving, or has left; its runtime, link and volumes come
and go under guards that name each other.  The refinement maps the phase to `GivenUp` (the desired
state is terminated and no reconciliation works for another one any more) and to the row; link, volumes
and runtime are the controller's.  Two variables of `MachineLife` are admissions.  `overlooked`: a probe
took a live runtime for stopped, after which runtime and resources may part.  `astray`: an
outdated copy was installed, or a machine was asked back, after which nothing is promised.
Writing it down showed two things about the code.  A setup deletes an existing link and makes it
anew, so a failed one can take the link from under a runtime that runs, as after a restart of the agent
(`SetUp` leaves the link open).  And `HasLeft` is not final: after a restart `Stop` is not called for a controller that is
not in `machineControllers` yet, and a `terminating` published earlier may be saved after `terminated`
(`Overtaken`); the machine then leaves once more.

### NetworkProvider

An interface's name, MAC and address are functions of its slot, so a row keeps the slot.
The way there and back is the code's: `calculateIPFromOffset` adds the offset to the
network's address octet by octet, without carry, `calculateOffsetFromIP` subtracts octet by
octet, without borrow, both modulo 256.  The reserved slots are computed from the
addresses of network and gateway by that same subtraction, and a restart computes the
table from the rows' addresses.  `link[s]` is the interface for which the tap with slot
`s`'s name was added.  `op[i]` is the call that runs for interface `i`; its owner, a
controller, makes one at a time.  `AllocateInterface` is one action (it holds `p.lock` and
touches no kernel object), a setup is `SetupInterface`, `DeleteExistingTap`, `AddTap` and
three times `AppendRule`, a release `LockAndFind`, three times `RemoveRule`, `DeleteLink` and
`StampReleased`.  `CreateMachine` and `AbandonMachine` are `MachineService.Create`;
`ReleaseAgain` and `AskedBack` are the controller, which retries a failed release at once,
may release a second time when a volume could not be released, and may be asked to run the
machine again.  `Restart` keeps what the kernel has and rebuilds the table from the rows.

`seen` records the histories that matter: *again* (a release of what was released),
*reused* (a setup after a release), *repeated* (a second setup), *incomplete* (a call
ended half way) and *forgotten* (a restart lost a release whose save had failed).
Every property names those it excludes; TLC finds a violation when any one of them is
no longer excluded, so each is a way in which the code really loses the property.

### InitEvents

`published` holds the events whose goroutine waits to send, `disp` the event the
dispatcher has taken up and the handlers that have not returned.  The dispatcher holds
the bus's lock for reading meanwhile; a subscription that begins or ends waits for it,
and while one waits no new dispatch begins (`WriterWaits`, as `sync.RWMutex` has it).
`sub[s]` are the goroutines of a call of the Events RPC: its `phase` (the subscription
and then the cleaner), its `replay`, and its `consumer`.  `previousEventsMutex` is held by
replays and wanted by the recorder (`recording`).  The channels have no buffer: a send
is one step with its receive, and finds `Closed(s)` or waits.  The dispatcher's context
never ends, because nobody calls `Stop` on the service.

### ContainerRun

One container (containers of a guest share nothing here) and the boot that leads to it:
`boot` is how far `init/main.go` got, a failing step panics and the guest is gone.  `loop` is
where `Container.run` stands, `cell` the fields of `Container`, each an atomic of its own,
`worker[r]` the health worker of run `r`, `copy[p]` the event that goroutine `p` is putting
together, `last` the last event published.  A time stamp is the number of the run that set
it, and `process.madeBy` that of the run that made the root directory.

| Code | Action |
|---|---|
| `main`, bootstrap steps | `Boot`, `Panic` |
| `run`, one iteration | `Begin`, `Clear`, `StartFails`/`StartCmd`, `Wait`, `StoreExit`, `Decide` |
| `healthcheckWorker` | `SayHealthy`, `ContextDone`, `PerformHealthcheck`, `SwapHealthy` |
| `newContainerStateChangedEvent`, `PublishEvent` | `LoadStart`, `LoadExit`, `Publish` |
| the `/initcontainer` process | `SetupFilesystem`, `FindsDirectory`, `Execute`, `CommandReturns` |

An event is loaded in two parts, since what is between two loads of cells that only one
goroutine writes tells nothing apart; `stale` says that a cell had changed since it was
loaded.  The properties exclude a stale last event: the next goroutine to publish would
correct it, and after the last one nobody does.

### ImageVolumes

There is one image (one digest), and one container per machine.  `row` stands for the rows
of the image and of its volume, which every query joins; `machine[x].image` is machine `x`'s
copy of them, made by `FetchDetails` or by `loadMachines` and never read again, and
`machine[x].source` whether its volume's `Source` is loaded.  A machine that is created has a
copy of its own; `loadMachines` is one query, so what it loads works on one `Image` with one
`Volume` (`Sharers`), and a stamp that one machine sets there all of them see (`SetCopy`).  `lv` is the image's logical
volume with its mounts, `disk[x]` the machine's own, a snapshot.  They outlive the agent.

| Code | Action |
|---|---|
| `FetchDetails`, the transaction of `MachineService.Create` | `FetchDetails`, `Create`, `CreateFails` |
| `ImageProvider.Pull` with its `Allocate` | `Pull`, `AllocateImage`, `SaveAllocated`, `MakeFileSystem`, `Mount`, `Extract`, `Unmount`, `SavePulled` |
| `Allocate` of the machine's volume, `Release` | `AllocateVolume`, `SaveVolume`, `Release` |
| `loadMachines` after a crash | `Restart` |

`Create` writes the copy over the row (`FullSaveAssociations`), whatever has happened to the
row meanwhile; a row with another id makes it fail, because the digest is unique.  `lvcreate`
fails when the name exists, `mkfs.ext4` when the device is mounted; a failing command is
taken to have changed nothing.  A pull that fails while the volume is mounted runs
`os.RemoveAll` on the directory it is mounted in: what is in the volume goes, the mount
stays.  The reconciliations of one machine are taken one at a time (their overlap is
`MachineController`'s subject).

`seen` records *midPull* (a copy was made between the saves of `AllocatedAt` and `PulledAt`
while another machine had one), *shared* (two machines were loaded with one copy that does not
say pulled), *undone* (a `Create` took a timestamp back), *unsaved* (the save of `AllocatedAt`
failed) and *cutShort* (a crash before that save).  As in `NetworkProvider`, TLC finds a
violation when any one of them is no longer excluded from the property that names it; for
*shared* and `SnapshotsAreWhole` it takes three machines: two that pull together, and one
created later, whose volume therefore has its source, that takes the snapshot.

### LogPipeline and LogFeed

`LogFeed` is the promise: lines come in their order, one of them twice at most, none before
it was written; a reader may miss lines.  It is what both log services have in common, and
weaker than one would like, because both take the stored lines first and register their
handler later (`read.go:25`, `grpc_handler.go`): what is written between goes missing, and the
line being written then comes from both sides.

`LogPipeline` has the guest's file as the number of its lines, its writer with the two locks
(`Locked` is the read lock on the handlers), one `stream[s]` per connection with the reader and the
gRPC server in the guest and the bytes on the wire, the `relay` of the runtime with its two
counters, the runtime's `file`, and `follower[f]`, a request that reads the file and then a
channel.  The refinement maps `LogFeed`'s log to the guest's lines and to the runtime's file in
turn, and its readers to connections and to followers; `LogFeedSpec` is both together.  A
reader whose server or request has ended counts as one that starts again.

| Code | Action |
|---|---|
| `logservice.Write` | `WriteLine`, `LockHandlers`, `HandleEntry`, `Unlock` |
| `logservice.Read` | `ReadHistoricalLog`, `HistoryEnds`, `AddHandler`, `Unsubscribe` |
| `initserver.GetLogs` | `ServerSend`, `ServerReturns` |
| `ListenInitLogs`, `startListener` | `Connect`, `Receive`, `StreamOver` |
| `writeLog` | `WriteLog` in `Receive`, `LookUpHandlers`, `HandToFollower`, `LineDone` |
| `GetLogs`, `GetContainerLogs` | `Follow`, `ReadLog`, `EndOfLogs`, `Attach`, `SendLive`, `HangUp`, `Leave` |

`maps.Values` returns an iterator, so `writeLog` goes through the map after it released the
lock: a request that enters or leaves meanwhile is seen, is not seen, or ends the process
(`MapChanges`).  `flawed` is history: a line was lost or doubled between the guest's file and
the runtime's.

### LogRequests

`request[r]` is the handler in the API server with its client, `agent[r]` the goroutine of
`GetMachineLogs` or `GetContainerLogs` that feeds it, `reader[r]` what reads the log file: the
runtime's handler, with `wire` the stream, or the agent's own `ReadLogs`, with `wire` the
channel without buffer it sends on.  The machine starts, stops, starts again, and loses its
controller at any time, since a terminated machine's runtime may still be exiting.

| Code | Action |
|---|---|
| `apiserver` `GetMachineLogs`, `GetContainerLogs` | `Ask`, `HandleLine`, `SendLine`, `SendFails`, `HandlerReturns`, `HangUp` |
| `machineservice` `GetMachineLogs`, `GetContainerLogs` | `LookUp`, `CallRuntime`, `CallReturns`, `CallFails`, `ReceiveLine`, `AgentReturns` |
| `readMachineLogsFromFile`, `readContainerLogsFromFile` | `OpenFile`, `ReceiveLine`, `AgentReturns` |
| `ReadLogs`, the runtime's `GetLogs`, `GetContainerLogs` | `ReadLine`, `StoredLinesEnd`, `Attach`, `ReaderReturns` |

The client library is external (connect over HTTP/1.1, as `go.mod` names it): a call returns when
the response's headers arrive, which the server sends with the first line or the end of the
stream, and fails when they take longer than the transport's `ResponseHeaderTimeout`, 5 s; an error
of the runtime's handler comes at the end of the stream.  So a follower of a silent container
fails after 5 s (`CallFails`), and a request that finds no log file hangs as one that was
answered does.

### Registration

The control plane is external: it wants a machine, gives it up when it hears that it
terminated (or on its own while the node is away), and is told by `Hears`.  `machine[m]` is the
row and the controller as this code sees it, `evt[e]` how far an event got: emitted, published
(its row is stored, its bus message on its way), dispatched, dropped.  `conn[c]` is a connection
with its goroutines: `checking` and `waiting` are the goroutines an event started, before they
look at the context and while they wait to send; `receiver` and `holding` the receive
goroutine.  `worker` is the loop that opens one connection after the other.

| Code | Action |
|---|---|
| `openConnection`, registration | `OpenConnection`, `Register` |
| `SubscribeToEvents` | `SubscribeToEvents`, `DispatchEvent`, `CheckContext`, `CloseChannel` |
| `startMachineEventListener` | `Forward` |
| `syncMachines`, `syncMachineFromSpec` | `SyncMachine`, `UpdateFound`, `ReplayEvents`, `TerminateUnexpected` |
| `dispatchLoop` | `Receive`, `HandleIncomingEvent`, `HandleNilEvent`, `SendStatsFails` |
| storage of events, `loadMachines` | `StoreEvent`, `Restart` |

Three ways in which this code ends its own process or a connection are part of the
actions, and the liveness properties hold in spite of them because the agent is started again
and synchronises: the channel is closed while a goroutine waits to send on it
(`CloseChannel`), the loop reads a closed channel at EOF and dereferences nil
(`HandleNilEvent`), and a machine that cannot be created ends the connection
(`ConnectionFails`).

### RuntimeLife

One launch of the runtime after the other in one working directory.  `main` and `start` are the
two goroutines of `vmruntime/main.go`, `vmm[g]` the hypervisor launch `g` started and its
machine, `socket` whose socket file is there, `dialer` the listener that dials the guest.
`StopHypervisor` is used by `Start`, which ignores its error, and by `Stop`.

| Code | Action |
|---|---|
| `main` | `Launch`, `Terminated`, `SeesReturn`, `Killed` |
| `Start` | `Prepare`, `CheckSocket`, `StopFound`, `StartHypervisor`, `Ping`, `CreateVM`, `BootVM`, `WaitHypervisor` |
| `Stop`, `ForceStop` | `ShutdownServer`, `TerminateVM`, `ForceStop`, `StopLogs`, `TimePasses` |
| `vsock.Dial`, `ListenInitLogs` | `Dial`, `DialerStops` |

What the model showed, and the properties state or leave room for:

- `Shutdown` waits for the agent's open Events stream, and the limit of 30 s is one for all
  calls of `Stop` (runtime.go:76).  A runtime that is observed throughout spends it there;
  `TerminateVM` then fails at once, and the runtime exits with 1 and leaves the hypervisor.
- `Start` stops a hypervisor it finds, and stopping removes the initramfs that was just built:
  the boot fails (`FoundNeverRuns`).  A failed boot leaves its own hypervisor behind, which the
  next launch finds in turn: a machine runs again only after a launch whose pings found nobody,
  an end of that hypervisor by itself, or a `Stop` that came to `ForceStop` in time.
- `Stop` may be past the hypervisor of an earlier launch when `Start` starts its own
  (`GracefulMeansStopped`).
- `Stop` before `Start` made the log manager panics at the end of `stopHypervisor`.
- `dial.go:76-79` says that the dial retries up to a fixed time; `RetryTimeout` is used nowhere,
  and only the context ends it.  `StopEnds` holds, since `logManager.Stop` cancels that context.

## 3. Runs

Every constant of a configuration named `Max...`, `MayLeave`, and the sizes in `LogPipeline`
are bounds.

| Run | Bounds | Distinct states | Properties | What it shows |
|---|---|---|---|---|
| `controller_requests` | two disturbances: requests in any order, or one and a crash | 1.1 M | `PointersMatchGoroutines`, `ConvergedWhenQuiet`, `TerminatedIsClean` | changes of the desired state and a crash, interleaved with the reconciliations they start |
| `controller_listener` | 3 reconcilers, 2 listeners; 3 connections, or 1 and one outdated copy | 2.6 M | `ObservedWhenQuiet`, `OverlapCostsStaleWrites` | the listener connects, loses the stream, counts to error; what the two locks of `SetState` can cost |
| `controller_liveness` | 1 request, 1 failure, fairness | 0.8 M | `MemoryMatchesRow`, `StoppedMeansRecorded`, `LifeSpec`, `EventuallySettled`, `MessagesDrain` | the controller settles, its bus drains, its row tells, and it implements `MachineLife` |
| `network_table` | 2 interfaces, 2 addresses, 2 setups, 1 failure, 1 crash, fairness | 0.4 M | `SlotsMatchRows`, `SetUpStaysUp`, `FreeSlotIsClean`, `ReleaseSucceeds` | addresses, taps and rules change hands; retried releases succeed |
| `init_events` | 2 events, 2 subscribers, one may leave, fairness | 0.1 M | `LiveSendsFindChannelOpen`, `NothingFallsBetween`, `ReachesEverybody` | replay, live events, and leaving |
| `container_run` | 2 runs, retry limits up to 1 | 2.4 M | `ReportedWhenStopped`, `ReportedWhenRunning`, `RestartsAsConfigured`, `ConfinedOnce` | run loop and health workers of both runs interleaved, for every configuration |
| `image_volumes` | 2 machines, 2 failures, 1 crash, fairness | 0.1 M | `OnePullAtATime`, `SnapshotsAreWhole`, `RowKnowsVolume`, `GetsItsVolume` | machines pull and snapshot one image from copies of its row, and get their volumes or are in a named dead end |
| `image_source` | 2 machines, no failure, 1 crash | - | `SnapshotOfSource` | **violated**: see Findings |
| `log_pipeline` | 2 connections, 1 follower, 2 lines, 1 line in a channel and on the wire, 1 fault, fairness | 0.7 M | `ExactlyOnce`, `LogFeedSpec`, `LinesArrive`, `WriterMovesOn` | both services implement `LogFeed`; the file has each line once; lines arrive |
| `log_requests` | 1 request, 2 containers and the console, 3 lines, fairness | 0.3 M | `AnsweredInFull`, `AgentFeedSpec`, `RequestsEnd` | what a client of the agent gets, and what stays of its request |
| `registration` | 1 machine, 2 connections, 2 faults, fairness | 0.2 M | `SyncedMissesNothing`, `AgreesWhenIdle`, `EventuallyHeard`, `TerminationIsLearned` | connections come and go while a machine comes and goes |
| `runtime_life` | 4 launches, 2 faults, fairness | 0.4 M | `OneMachine`, `GracefulMeansStopped`, `FoundNeverRuns`, `StopEnds` | launches meet what earlier ones left |

Why these bounds are enough.  Two changes of the desired state are what it takes to ask
a machine back, and to have their messages overtake each other; one failure or one
crash hits every step of a reconciliation, because it may happen at any; three listener
connections reach the count of three that means error (`MaxTicksHolding` keeps those histories
apart from the ones with an outdated copy: both together are out of reach).  Two reconcilers and two listeners
are enough to see a second goroutine start: with no outdated copy the properties (and the
proofs) exclude it.  One outdated copy is enough to show that a second reconciliation may
begin, three reconcilers that a third does not.  Two interfaces take two addresses in either
order, one after the other on the same address too.  Two subscribers make locks compete (one
replaying, one leaving); of two events one is recorded while the other waits.  Of two machines
one pulls while the other holds an older copy or comes in between (the
proofs of the safety properties are for any number); two failures are a pull that fails
and one that fails when it is tried again.  Two runs are a restart and the decision against
another, with the first run's health worker still there.  Two lines are one stored and one
live, or both on either side; one fault breaks a connection anywhere, and the second
connection is the one that has to skip.  Requests for logs share nothing but the file and the
machine, so one is as good as many; of three lines one is wanted, one another container's and one
comes twice, or live.  For one machine two faults are a stream that ends
and a crash, or a create that fails, in any order; with a second machine the state space is
out of reach, and what machines share is only the order in which one connection brings
them in line.  Four launches are one that leaves a hypervisor, one that meets it and leaves its
own, one that meets that, and one that starts from nothing again.

Deadlock is not checked in any run: a controller with nothing to do, a table with every
interface released, and init without further events wait for ever by design, a log may have
no more lines, and the bounds end what would go on.

### Properties

*Controller.*  `PointersMatchGoroutines`: the pointers in `c.state` are set exactly while
the goroutines run.  `MemoryMatchesRow`: failed saves do not drive memory and row apart.
`ConvergedWhenQuiet`, `EventuallySettled`: with no message on its way the desired state has
been reached - unless the last Assess came between the publication of a result and the
clearing of `c.state.Reconciliation` and was skipped; the code has no timer that would try
again.  `TerminatedIsClean`: a terminated row means no tap, no volume, and no runtime other
than one that is exiting, unless a probe took a live runtime for a stopped one.
`StoppedMeansRecorded`: `Stop` is called on the message and not on what was saved, and still the
row of a stopped controller says terminated, unless that one save failed (*unrecorded*, which
a restart clears); whatever else failed to be saved does not matter.
`LifeSpec`: the refinement of `MachineLife`; its guards contain that a second runtime is started
beside a live one only if a probe overlooked that one (`DoubleStartNeedsBlindProbe`, which is
proved by itself).  `ObservedWhenQuiet`: an accident that can happen, and the one cause it needs.  `MessagesDrain`: `Stop` waits for the dispatcher it was called
from, and its time limit gets both out.

*Network.*  `SlotsMatchRows`, `SetUpStaysUp`, `FreeSlotIsClean`, `ReleaseSucceeds`.  The last
one fails for good after a half-finished setup: the release deletes rules that were never
added, and its retries do the same.

*Init's events.*  `LiveSendsFindChannelOpen`, `NothingFallsBetween`, `ReachesEverybody`.  The
last one has a condition that is a fact about the code: a subscriber that leaves during its
replay makes init panic, and one that leaves while a handler waits to send to it stops the
dispatcher for good.

*Containers.*  `ReportedWhenStopped`: but a process that could not be started is reported as
started, with an error, for ever.  `ReportedWhenRunning`: but a container with a health check
that is restarted, and found as healthy as before, is never reported running again.
`RestartsAsConfigured`: `on_failure` runs again after a failure only, up to its limit, and
stops for nothing but a success or that limit (0, and none, mean no limit).  `ConfinedOnce`: the
command executes in the container's volume in exactly the run that made the root directory.
Every later run finds the directory and executes in init's root; if the first one's setup failed
after the directory was made, no run is ever confined.

*Images.*  `OnePullAtATime`: nothing but the name of the volume keeps two pulls apart, and
it suffices unless two copies say allocated and not pulled, or two machines are loaded with
one copy before the image is pulled: the second one's `Allocate` finds the stamp of the first and
`Pull` goes on to `mkfs` (pull.go:46).  `SnapshotsAreWhole`,
`PulledMeansWhole`: what that costs, and only that (the second follows from the same invariant
and is proved only).  `RowKnowsVolume`: what makes an image
impossible to pull.  `GetsItsVolume`: a machine becomes ready, or is in one of four dead ends
that `Stuck` lists: the image's volume exists and its copy does not know; the row says pulled and
has no path; a failed pull left its mount behind; its own volume exists and its row does
not know.

*Logs.*  `LogFeedSpec`: the refinements.  `ExactlyOnce`: counting lines per
connection is sound as long as no line was lost or doubled once (`flawed`).  `LinesArrive`,
`WriterMovesOn`: unless the process died, or the writer is stuck.  `WriterStuck` is a deadlock
of the guest's log service: the writer holds the read lock and waits for a reader whose server
has returned, and that reader waits for the write lock to take its handler out.
`AgentFeedSpec`: what `LogFeed` promises reaches the client of the agent's API.  `AnsweredInFull`: an
answer has all the lines asked for - but what the agent reads from the file for one container
are the lines of all of them (`get_container_logs.go:65` looks at the kind of source only).
`RequestsEnd`: a request without `follow` ends; through the runtime that means that everything but its
handler has, because nobody closes the handler's channel (`get_container_logs.go:30`).
A client that leaves takes its request with it, except for a goroutine that was
sending on a channel at that moment: that one stays.

*Registration.*  `SyncedMissesNothing`: the subscription comes before the list.
`AgreesWhenIdle`: both sides want the same once nothing is under way.  `EventuallyHeard`,
`TerminationIsLearned`: over all lost connections and panics.

*Runtime.*  `OneMachine`, `GracefulMeansStopped`, `FoundNeverRuns`, `StopEnds`: see above.

### Findings

`image_source`, a bug in the code: `loadMachines` preloads `Volumes.Volume` and
`Volumes.Image.Volume`, not `Volumes.Volume.Source` (service.go:84-85).  `Allocate` takes a
volume without a `Source` for a new one (allocate.go:20, 37).  So when the agent dies after the
creation of a machine and before its volume is made, the machine starts from an empty
volume instead of a snapshot of its image (allocate.go:28).

### Fairness

`MachineController!FairSpec`: weak fairness of each goroutine (the Go scheduler runs every
goroutine that can run), of a booting runtime's socket and a signalled runtime's exit
(the service kills it after 30 seconds), and of the restart after a panic (whoever
supervises the agent; in the run under fairness no listener connects, so nothing panics).
Nothing obliges a call to fail, the API to ask, or the agent to crash.
`NetworkProvider!FairSpec`: a call that runs goes on; strong fairness of taking `p.lock`,
because a Go mutex hands itself over to a goroutine that has waited for a millisecond;
and the controller's retries of a failed release.
`InitEvents!FairSpec`: each goroutine runs on; strong fairness of the two senders of a
channel, which Go serves in the order they came.
`ImageVolumes!FairSpec`: each controller goes on, and reconciles again after an error;
nothing obliges a machine to be created or released.
`LogPipeline!FairSpec`: writer, relay, each connection's goroutines in the guest and each
request run on.  A follower therefore reads until it hangs up; one that does neither stops
the relay and in the end the container, which is a fact about the code and no
promise.  Nothing has to be written, to break or to hang up.
`LogRequests!FairSpec`: the three goroutines of a request run on, and so does the time limit of its
call; the client reads until it hangs up, and the machine may stay as it is.
`Registration!FairSpec`: worker, controllers, event goroutines and receivers run on; a sender
of statistics on a broken stream notices in the end; a panicked agent is started
again.  The control plane is obliged to nothing.
`RuntimeLife!FairSpec`: `main` runs on, the dialer sees the end of its context, and the time
limit of `Stop` passes.  The hypervisor is obliged to nothing.

## 4. Proofs

TLAPS checks these for every value of the constants, under the assumptions the modules
name (`ConstantsAssumption`, `ProviderAssumption`, `EventsAssumption`, `ImageAssumption`,
`ContainerRunAssumption`, `LogPipelineAssumption`, `RegistrationAssumption`,
`RuntimeLifeAssumption`, `LogRequestsAssumption`: bounds are natural numbers, `None` is none of the identifiers and none of
the messages, a network has between three and 2^24 addresses).

- `TypeCorrect`.  `TypeOK` is inductive.  The step that needs an argument is the
  dispatcher's: a message that is being handled was taken from the bag once.
- `PointersCorrect`, `MemoryCorrect`.  By themselves the two are not inductive: that the
  pointer is free when a listener is started follows from the step before it.  The
  invariant is `IInv`, the conjunction of `TypeOK`, the two properties, and
  `ListenerFreeToStart`.  Each conjunct is conditional on `NoStaleWrite`; the lemma about
  `Install` shows that a copy that was not outdated equals the state it replaces.
- `OverlapCorrect`.  `OverlapInv` counts: every running reconciliation is the one in
  `c.state` or was displaced by an outdated copy; cardinalities by the library's finite
  set theorems.
- `StoppedCorrect`.  By the kinds of steps: a reconciliation begins only in `Reconcile`,
  whose guard contains `~ctl.stopping`.
- `StoppedRowCorrect`.  `StopInv` follows `Stop`: it is called while the dispatcher handles the
  message that says terminated (`HandlesEnd`), or was handling it; until `Stop` is done the
  dispatcher receives nothing, and afterwards nobody saves.  From the call on, the row says
  terminated, that save is still to come, or it is the one that failed.  The property alone says
  nothing of the steps in between.
- `DoubleStartCorrect`.  `ProbeInv`, over `IInv`: whoever is about to start a runtime has
  found none, and there is still none, because only a reconciliation starts one and `IInv` says
  that there is no second.
- `TerminatedCorrect`.  `EndInv`, over `IInv` and `CourseInv` (which steps a reconciliation takes
  for which desired state).  `Duty` says what a reconciliation that terminates has done at each of its
  steps; `StaysReleased`, that a release, known in memory or in the row, is not followed by
  a setup; `CleanEnd`, that all of it holds from the publication of `terminated` on
  (`Announced`), the message being on the bus for as long as the dispatcher pleases.
- `LifeCorrect`, the refinement of `MachineLife`.  `LifeInv` is the three invariants above with `ReadyInv`: volumes
  whose stamp, in memory or in the row, says allocated are there unless the machine is leaving, so a
  preparation that skips them is as good as one that makes them.  Most steps are `Still`: they touch
  neither runtime nor resources, and `LifeStill` shows that what they do to the phase is `Leave`, `HasLeft`,
  `Overtaken` or nothing.  A reconciliation's steps do not change the phase until its end (`SamePhase`);
  each is then one action of `MachineLife`, whose guard comes from `ProbeInv` (nobody has started a runtime
  since the probe), `ReadyInv`, or `Duty`.
- `ConvergedCorrect`, `ObservedCorrect`.  `DueInv`: whenever there is something to do, a message that
  leads to an Assess is on the bus or in hand (`Due`), or a reconciliation is at work, whose
  result will be one (`Working`), or the named case has occurred.  Each step that changes a
  column hands the obligation on; the property is what is left of it when nothing is under way.
- `RoundTrip`, a lemma: the offset computed from the address of a slot is that slot, for any
  network address, although neither direction carries or borrows.  `ByteDifference` undoes the
  addition modulo 256 in each octet, `Octets` puts a number below 2^24 together again.
- `ProviderTypeCorrect`, `TableCorrect`.  The invariant `TableInv` adds that a call belongs to
  an interface with a row, and that a saved stamp is a stamp.  The table's equality with the
  rows' slots is then kept by allocation (the slot was free), by the stamp (only this
  interface holds the slot), and by the restart, where the round trip is needed.
- `SetUpCorrect`.  Taps are found by name, so it must be shown that no call for another interface
  has the same slot.  `RowInv` (`TableInv` with `LifeInv`, which call goes with which status,
  and `ReleasedAtRest`) gives every acting interface its slot for itself; `TapInv` then says what link
  and rules are at each step of a setup.
- `FreeSlotCorrect`.  `CleanInv` counts the rules: a slot that is held has exactly those its holder's call
  has come to (`HolderTap`), one that is free has none (`FreeTap`).  A release passes from the one to
  the other only at its last step.
- `EventsTypeCorrect`, `LiveSendsCorrect`.  `LockInv` says what the bus's lock protects: a
  handler runs only for a subscription in `eventHandlers`, and those are the ones not yet
  closing.
- `NoGapCorrect`.  `GapInv` adds that nobody replays before subscribing.  Each step of the
  dispatcher, the recorder and the replay moves an event from one of the three ways it can
  reach a subscriber to the next.
- `ImagesTypeCorrect`.  With the types goes that a controller at work belongs to a machine
  that has a row (`Basic`): without it a save could go into a row that is not there.
- `OnePullCorrect`, `SnapshotsCorrect`, `PulledCorrect`.  One invariant, `PullInv`, yields the
  three.  None of them is inductive: a machine that does not pull now may hold a copy that
  lets it.  `Busy(x)` is therefore said of copies and not of controllers; `OneBusy` says that
  one machine at most is busy, that none is once the row or a copy says pulled, that nobody is
  before the volume exists, what the busy one may rely on at each step, and that a copy that is
  shared says pulled (`Apart`): so a stamp of the busy one is in its own copy only (`StampsAlone`).
- `RowKnowsCorrect`.  Needs `Blank`: before the volume exists no stamp is set anywhere.
- `ContainerTypeCorrect`, `RestartsCorrect`.  The run's number is the restart count and one;
  nothing runs before the server listens (`BootInv`), and what has not begun has no restarts.
- `ConfinedCorrect`.  `ProcessInv`: there is a process exactly while the run loop waits; the run
  that made the root directory is none to come, is an earlier one until this run's process is
  past the setup, and from there on decides whether that process is within the volume.
- `StoppedReportCorrect`, `RunningReportCorrect`.  `ExitInv` says from which step on the cells,
  and the last event, carry the run's exit.  `WorkerInv` is about the workers of all runs: none
  begins before its run, and the last event has the container's health unless some worker is
  about to publish.
- `PipelineTypeCorrect`.  The strengthening `InHand` says that what a server or a wire holds is
  a line that was written.
- `GuestFeedCorrect`, `RuntimeFeedCorrect`, and `LogFeedCorrect` of both.  The two refinements are proved the same way.  `Shape`
  describes what a reader got: the stored lines, each with its number, then live ones that
  rise and are none before the last stored one; `ShapeOfFeed` shows that such a sequence is one
  `LogFeed` allows.  `GuestInv` and `RuntimeInv` say that every reader's lines have that shape, and
  that a line on its way to a handler is later than all that reader got (`Pending`,
  `OnItsWay`); for a follower that includes the lines in its channel (`Coming`).  Then each
  step that appends to a reader's lines is a `Deliver`, each that empties them a `StartAgain`,
  each write a `WriteLine`, and every other step a stutter.
- `OnceCorrect`.  `OnceInv` follows a line from the guest's handlers to the file.  `CountOf`: what a server
  was handed are the first lines, each once, and of a live one all but the line on its way.
  `WireOf`: the lines on the connection in use follow those the relay counted on it (`seq`), and the server
  has sent all it was handed but one.  `FileInv`: the file has the lines counted over all connections, and
  `seq` is never ahead of them.  A line is written when `seq` has caught up with the count, and then it is
  the file's next.  `LinkOf` is what `WireOf` needs: only the connection in use is open, and a
  connection that begins finds its place in the guest free.
- `AnsweredCorrect`, `AgentFeedCorrect`, about `LogRequests`, which `LogPipelineProofs` has as an instance
  (`Api`) with variables of its own.  `Chain` lists the lines of a request from what the client got, over
  the hands of the handler and the goroutine, to the stream; every step hands a line on within it or
  is a `ReadLine`, which makes it longer.  `ChainOf`: while stored lines are read the chain is, in order and
  each once, what was asked for up to the reader's position; turning to the live lines may
  bring the last one again, once.  `HandsOf`: who holds a line, and that the goroutine gives up only at the
  end or with the request.  The answer is full because at the end all hands are empty; it is
  a `LogFeed` because each line the client is sent is the chain's next.
- `RegistrationTypeCorrect`.  `Shape` ties the worker's variables to its step.
- `ListenCorrect`.  `ContextInv`: while machines are synchronised the connection is subscribed and its
  context not cancelled; `AbsentInv`: a machine the node never had has no events.  An event stored before the
  synchronisation is replayed by it, one stored later meets the subscription.
- `AgreementCorrect`.  What both sides hold agrees only when nothing is under way, so `AgreeInv` says what each thing
  under way will do: the machines still to be synchronised (`SyncInv`), the messages sent and held, of
  which a machine's start comes before its end (`QueueInv`), and what they leave to be true when
  they are handled (`OpenInv`).  `LifeInv`, `WantInv` and `TrailInv` relate a machine's row, its controller
  and the events: nothing terminates that the control plane still wants.
- `RuntimeTypeCorrect`, `OneMachineCorrect`.  `OwnerInv`: the socket's file belongs to one launch; only its
  hypervisor listens, and a machine runs in one that listens.
- `GracefulCorrect`.  `GracefulInv` adds what `Stop` has behind it at each step: past the
  hypervisors with one of its own alive, that one was started late.
- `FoundCorrect`.  `FoundInv`: after the launch met a hypervisor the socket is another's, or its own
  initramfs is gone; neither comes back in this launch.

Every safety property of every passing run is proved, and so is that the controller implements
`MachineLife` and each of the three log services the abstract `LogFeed`.  Model-checked only is what holds under fairness (`EventuallySettled`,
`MessagesDrain`, `ReleaseSucceeds`, `ReachesEverybody`, `GetsItsVolume`, `EventuallyHeard`,
`TerminationIsLearned`, `LinesArrive`, `WriterMovesOn`, `StopEnds`, `RequestsEnd`).  Out of TLAPS's reach:
liveness under fairness, `ENABLED`, and induction over data.

## 5. Not modelled, and the plan

Not modelled at all:

- generated code (`vmruntime/internal/chclient`): what the runtime makes of the hypervisor's
  answers is in `RuntimeLife`;
- the gateway server, the command line client, and the API server's calls other than those for
  logs, which keep no state;
- wiring, options, and field-by-field adapters between rows, messages and types;
- the way of a console's lines into the runtime's file, which is that of a container's without
  the counting;
- the listener side of vsock, an adapter to `net.Listener`;
- link and rules of the bridge (`SetupBridge`), configuration written at each start;
- the hourly garbage collection, whose body is commented out;
- which mounts, links, devices and users init and initcontainer set up, the content of
  configuration files and archives, log and HTTP formats.

Hazards without a property: `Connected` and `Disconnected` dereference a listener that may be
gone, and the replay of init's events sends on a channel that may be closed.  In the models these
are actions that end the process; a property could only repeat their guards.

What could be added: `NetworkProvider` and `RuntimeLife` in the place of the link and the process that
`MachineController` has of its own, each as the implementation of a promise like `MachineLife`.
