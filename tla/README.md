# True Tick: a TLA+ verification project

True Tick is a Windows tray application that asks the kernel for a finer system
timer (`NtSetTimerResolution`) while power and the user permit it, and gives the
request back when they do not. This directory holds TLA+ models of the part of it
that decides when a request is made, kept and released, and of the parts around
it that run concurrently or have to survive a crash: the pipe server and its
client, the process with its files, the launcher, the event store with its log
files, and the diagnostic window. With them come the TLC configurations that
check them, and proofs that TLAPS checks of all safety properties: those of the ownership
controller, the tray engine, the pipe server with its wire formats, its rate limiter and its
start, the process, the launcher, the event store and the diagnostic window.

`PROJECT.json` lists the runs, the source lines every definition stands for, the
hazards, the findings and the theorems. This file explains them.

## 1. The system

### Parts, their state and their operations

| Part | State | Operations | Talks to |
|---|---|---|---|
| Native timer adapter (`tick-platform-windows`) | none that matters | `query`, `resolve`, `preflight`, `request` with rollback, `release`, settle probe | the kernel |
| Ownership controller (`tick-ownership`) | ownership, verification, requested and selected interval, release boundary, last reading | `query`, `observe_current`, `start`, `stop`, `clear_release_boundary`, `clamp_requested_interval_floor`, settle probe | the adapter |
| Power policy and tiers (`tick-policy`) | pure; the responsiveness tracker keeps a baseline | `decide`, `evaluate_tier` | the tray engine |
| Power observation (`tick-observation-windows`) | last power state | `refresh_power` | `GetSystemPowerStatus` |
| Tray engine (`tray/tier.rs`, `schedule.rs`, `power.rs`) | the `App`: status, desired intent, handoff tracker, tier and its counters, schedule, debounce, pending resume | intents, guarded release, handoff, reconciliation, surface recovery | controller, policy, window timers |
| Duration coordinator (`pause.rs`) | one scheduled action with a generation | `schedule`, `cancel`, `timer_event` | the duration timer |
| Window and message loop (`tray/controller.rs`, `menu.rs`, `commands.rs`) | shutdown gate, window handles | one handler per message, cleanup, loop exit | everything above |
| IPC bridge (`tray/ipc.rs`, `ipc_queue.rs`) | queue of 64, 8 permits, teardown flag, published token and process marker | accept, read, forward, wait 5 s, reply, flush, publish, retract | pipe clients, the UI thread |
| IPC protocol (`tick-ipc`) | time stamps of 64 callers | encode and decode frames and responses, limit the rate, a client's exchange with deadlines | the bridge, the command line client |
| Command line client (`true-tick-cli`) | none | one exchange; `daemon`: clear stale files, spawn, wait, verify | the bridge, a spawned engine |
| Emergency path (`emergency.rs`) | tracked interval, one-shot cleanup state | cleanup from the console handler, a panic hook, session end | the kernel, the session marker |
| Session marker (`session.rs`) | a file | write, remove, classify on the next start | startup, emergency path, reset |
| Configuration (`config.rs`) | a file | load with recovery, save atomically | settings commands |
| Startup registration (`tick-startup-windows`) | a registry value | register, unregister, roll back | settings commands |
| Factory reset (`tray/reset.rs`, `menu.rs`) | none | remove the files, relaunch, exit | marker, configuration, mutex |
| Launcher (`apps/launcher`) and manifest tool | active slot, failure counters, release counter, signed manifest, checksums | select, verify, roll back, restore, sign | the installed executables |
| Event store (`tick-diagnostics`) | up to 512 hash-chained events | record, coalesce, evict, verify | everything records into it |
| Log files (`logging/mod.rs`) | daily files, last persisted sequence | flush on the calling or on a writer thread, purge | the store |
| Diagnostic window (`ui/`) | rows shown, filter, range, marks, rubber band, pending refresh | refresh, filter, select, copy, export | the store, the message queue |
| Watchdog (`tick-watchdog`) | last kick, stall episodes | kick, evaluate, stop | the UI thread |
| Icons, layout, preset window, multi-client measurement | pixels, records | presentation and measurement | - |

All of the `App` belongs to one UI thread. Its handlers run to completion, so the
hard behaviour is not inside one handler but in the order of messages: the user,
IPC clients, five window timers, power broadcasts, the shell losing and
recreating the tray icon, and anomalies counted by other threads. Around it every
native call can fail, and another process can keep the system timer finer than
this process left it, which is why a release is followed by a *handoff*: a
bounded watch of the system resolution during which new intents are parked.

### What is hard here

* a chain of native calls of which one fails after another has taken effect
  (request, sample, roll back; release, then a watcher that cannot be started);
* intents, schedules and power changes that meet a pending handoff, and which of
  several places picks them up;
* one duration timer shared by successive schedules and by handoffs;
* power broadcasts, their debounce and the machine disagreeing with each other;
* the publication of a status that re-evaluates the operating tier, from inside
  the handlers the tier calls;
* messages between the cleanup that verified the shutdown gate and the process's end;
* eight worker threads, a bounded queue and one message per request: waits that
  end while the command is still queued, posts that fail, a flush without a deadline, a
  window that goes away, and workers that outlive their server;
* overlapped pipe operations that complete while they are being cancelled, and
  clock readings that reach the rate limiter out of order;
* crashes between two file writes of the process, the launcher or the manifest
  tool, a second process or launcher in between, the emergency handler's thread;
* two threads that flush the same event store while it evicts;
* rows that move under a selection, a typed range and a rubber band, and a refresh
  that records events while it shows them.

`PROJECT.json` "hazards" lists them at their lines.

### What makes each part correct

* *Adapter*: a requested interval is supported by the hardware; a request is
  believed only on a majority of readings.
* *Controller*: a kernel request is never in force unnoticed; a release always
  makes a new start possible; the lifecycle diagram is implemented.
* *Tray engine*: no intent, handoff, release window or timer is stranded; nothing
  is acquired against policy, during a pause, or during a handoff; handoffs and
  pauses end; a forbidding power state is obeyed.
* *Shutdown*: the gate opens on a settled release only.
* *IPC bridge*: permits are conserved, the queue stays within its limit and is
  never left without a wake-up, every worker gets as far as its answer, and "carried
  out" is said only of a command that was, once.
* *IPC protocol*: an altered frame is refused, a response that is accepted says
  what its bytes say, no caller exceeds its rate, no event outlives or is outlived by
  its operation.
* *Daemon start*: success means an engine that can be connected to and whose token is
  there, unless that engine is already stopping.
* *Process*: the next start judges the last session rightly if it can read the
  marker; settings in memory and on disk agree; the registration is not lost silently.
* *Launcher*: what is spawned is verified at that moment; the release counter covers
  what ran; a package is given up for lost only when nothing in it can be started.
* *Event store and logs*: the chain holds across evictions; what counts as persisted
  is in a file; a file has no second header.
* *Diagnostic window*: a requested refresh comes, refreshes do not feed on
  themselves, the list shows the newest state, a typed range stays on its events.

## 2. Modules

| Module | Models |
|---|---|
| `TimerPlatform` | the adapter's arithmetic: bounds, validation, resolution of a request, tolerance, the three-sample median and its verdict |
| `TimerController` | `TimerController<P>` as a record and its operations as operators from the record before to the record after |
| `TimerOwnership` | these operations called in any order, against any kernel |
| `OwnershipDiagram` | the abstract specification: the lifecycle of ARCHITECTURE.md and the kernel request it stands for |
| `TimerSampling` | `request()` reading by reading |
| `TickPolicy` | pure decisions: power, reconciliation, tiers, lifecycle status, command enablement |
| `TrayApp` | the `App` as a record, the engine functions as operators on it |
| `TrayEngine` | the UI thread's messages as actions, the environment, fairness and the properties |
| `IpcBridge` | clients, worker threads, the permit pool, the bounded queue and the UI thread that drains it, up to the end of the process |
| `IpcContract` | the abstract specification of the bridge: a command is carried out at most once, an answer is final, and success is said only of what was carried out |
| `IpcCodec` | the wire formats: request frame with CRC-32, responses, errors, token text, and every truncation and some alterations of them |
| `RateLimiter` | `PidRateLimiter` with workers that read the clock before they get the lock |
| `OverlappedIo` | the overlapped reads, writes and connects of both ends with their events, deadlines and cancellation |
| `DaemonStart` | `true-tick-cli daemon` calls beside engines that publish and retract token and marker |
| `ProcessLife` | the process from the mutex to its exit: session marker, configuration file, start-up registration, emergency thread, factory reset, deaths in between |
| `Launcher` | the launcher and the manifest tool over the files of a package, one step per file written |
| `DiagnosticLog` | the event store with its hash chain, and the flushes into daily files |
| `DiagnosticWindow` | the diagnostic window as a record, its handlers as operators on it, the message queue and the user as actions |
| `Selection` | `Retain`: what `Vec::retain` and `Iterator::filter` leave of a sequence, used by the rate limiter, the log files and the diagnostic window |
| `TimerOwnershipProofs`, `TimerSamplingProofs`, `ProcessLifeProofs`, `LauncherProofs`, `TrayEngineProofs`, `SelectionProofs` | the theorems or lemmas about the module of the same name |
| `IpcProofs` | the theorems about `IpcBridge`, `OverlappedIo`, `RateLimiter`, `DaemonStart` and `IpcCodec` |
| `DiagnosticsProofs` | the theorems about `DiagnosticLog` and `DiagnosticWindow` |
| `MCTrayEngine` | constants of the small instances |
| `MCCore`, `MCIpc`, `MCProcess`, `MCDiagnostics` | small instances of several modules that share no state, side by side |

`TrayApp` extends `TimerController`, so the tray engine and the arbitrary caller of
`TimerOwnership` use the same `Start`, `Stop`, clamp and probe.

In the last four modules a variable `part`, chosen at the start, says which part
runs; the others keep still. Their state spaces are thus added, not multiplied,
and every property is checked on the part it is about. The parts really share
nothing: `IpcBridge` says nothing about the bytes of `IpcCodec`, and `TrayEngine`
takes a command as it comes out of the queue of `IpcBridge`.

### How state and actions correspond to the code

* `own, ver, req, sel, bnd` of a controller are the fields of the same meaning;
  `held` is the kernel's side, whether a request of this process is in force.
  `NoInterval` and `NoReading` (-1) are `None` and a failed query, `Automatic`
  (0) is `Hns::ZERO`.
* `Start(c, interval, outcome)` is all of `start()` and `request()`: the outcome
  names the native call that decided. `TimerOwnership` derives it from three
  readings, `TrayApp` from the mishaps of the message.
* One action of `TrayEngine` is one message, with every function it calls. Its set
  of *mishaps* says which native calls in it fail; a mishap strikes every call of
  its kind in that message. Two outcomes of one kind of call in one message are
  thus not combined.
* `armed` abstracts `duration_timer_generation`: it is `Current` if the armed timer
  carries the coordinator's generation. `due` says that the deadline has passed, and
  an unset `due` makes a `WM_TIMER` early.
* A nested `process_desired_intent` is `NothingDesired`, which sets the phase
  `reentrant` if anything were pending there; `NoStrandedIntent` shows nothing is.
* The unbounded recursion of section 4 is the phase `overflow`: the process ends
  and Windows drops its request.
* `publish` skips the icon update when nothing it shows has changed. The model
  lets the update fail in any publication that reaches it, which includes every
  failure the code can see.
* Menu guards are those of the dispatcher (`menu_command_is_enabled_with_pause`).
  The popup greys out a little more, but IPC reaches the same functions without it.
* A `MessageBoxW` answered with no changes nothing and is left out.
* `wake` is the timer of the surface recovery: off, armed, or refused. `SetTimer` may
  fail on entering SurfaceDegraded (the mishap `surfaceTimer`); the code records it and
  never sets the timer again, so `SurfaceIsRetried` names it as a case in which the icon
  stays lost.
* Left out of `TrayEngine`: the replies of IPC commands, a second queued command
  (`IpcBridge` has both), the emergency path's thread (`ProcessLife`).
* `IpcBridge`: a client is one exchange; its `phase` is where its worker thread
  stands, so each read of a flag, each push and each post is a step of its own and
  the UI thread runs between any two. A deadline is a step that is always possible
  while the wait lasts. `answer` is what the client was told; "failed" stands for
  every error code and for a status text, "silent" for a broken pipe or the client's
  own deadline. Whether the engine itself accepts a command is not this module's
  question. After a failed post the worker pops one request per step, since the queue is
  locked for each pop only. `write_pipe` has a deadline for the write; the
  `FlushFileBuffers` after it has none and returns when the client has taken the answer
  or closed its end (`read_answer`).
* `IpcCodec` has no state to speak of: a behaviour sends one frame, one response or
  one token, intact, cut at every length, lengthened, doubled, or with a byte
  changed, and `case` holds what was read back. Bytes are numbers, wider fields
  are sequences of bytes, the CRC register is a set of bit positions. The inner loop of
  `crc32` is tabulated over the low byte (`CrcTable`), for TLC; `ByteIsEight` proves that
  this is the loop.
* `RateLimiter`: `Skew` is how long a worker may take from its clock reading to its
  check, and has to be shorter than the window. The model starts one window after
  boot (see the divergences).
* `OverlappedIo`: `kernel` is the kernel's side of a thread's operation. `strayed`
  becomes true if a completion or a close hits a handle another thread has by then.
* `DaemonStart`: a file is the engine whose token or identifier it holds. Time is in
  the order of steps: a poll may find the file or the deadline may pass. `shutdown` joins
  the accept thread only; `lingering` are the engines whose workers still wait in
  `ConnectNamedPipe`, which a client can reach after the token was retracted and even
  after the mutex was released. An engine whose first pipe instance cannot be created
  runs without a server.
* `ProcessLife`: `at` is the stage of `run()`. A crash is possible at every stage, and
  the emergency thread takes its own steps beside them. A configuration is its
  start-up switch and whether the rest is as shipped; damaged, oversized and legacy
  files are contents of their own. `session` is a history variable for
  `VerdictIsRight`.
* `Launcher`: a file's content is a model value and a digest is its content. Changes
  to the package (an update, damage also of the state files, signing) happen while no
  launcher is under way; the launchers run against each other without restriction. Every
  error of `run()` shows the same dialog. `pc` keeps its reason: `repair` when nothing is
  left to start, `unreadable` for a health file that is no number (which ends the
  selection without a try of the other slot), `failed` for a file operation or a spawn
  that failed, among them the removal of a counter that another launcher removed first.
  Any step that reads, writes, removes, copies or starts may fail and leaves the files as
  they are. A `release-counter.state` that is no number refuses every signed manifest. An
  executable or manifest that cannot be read is not told apart from one that does not
  verify.
* `DiagnosticLog`: a hash is the record of what was hashed, with the predecessor
  standing for its hash, so equal hashes mean equal fields. `details` is the repeat
  count. `written` and `lost` are histories. Whether a daily file is new is looked up
  before the lock (`find_log_file`), the length of the file, which decides about the
  header, under it (`write_log_lines`); a failing write may leave an empty file or a part
  of the header.
* `DiagnosticWindow`: `app` is the part of the `App` the window reads and writes; one
  action is one message. `native` is the list view's own marks, by position, and
  `grid` the sequences the program keeps. A Shift range in this owner-data list may be
  announced as single changes, of which the program hears, or as a range, of which it does
  not (`ShiftRange`). Text is what it parses to. The file dialog
  is the only nested message loop: while `dialog` is not empty, refreshes and tray
  events go on. `typed`, `snap`, `wanted`, `dropped` and `passes` are histories.

## 3. Runs that pass

| Run | Shows | Instance |
|---|---|---|
| `MCCore` (ownership) | `KernelRequestTracked`, `ReleasedCanStart`, `BoundaryWindow`, `FloorHolds`, refinement of the diagram | an automatic request, bounds in both orders and one unusable pair, readings on both sides of the tolerance, two floors, three probe attempts |
| `MCCore` (bridge) | `EveryClientAnswered` | two clients of which one reads, two workers, a backlog of two, two commands |
| `TrayLifecycle` | `NoStrandedIntent`, `HandoffIsReleased`, `WindowIsWatched`, `ArmedIsCurrent`, `PauseWillEnd`, `AcquireAfterHandoff` | AC power, all three scheduled actions, the automatic setting, any two of ten mishaps in every message |
| `TrayPower` | `PauseSuppresses`, `AcquireIsPermitted` | AC, battery and battery saver, lockout toggled, failed releases, power queries and debounce timers |
| `TraySurface` | `ReleaseReachesKernel`, `EmergencyCoversOwned`, `SurfaceIsRetried` | icon loss, refused requests, releases and recovery timers in pairs, one anomaly, two recovery attempts |
| `TrayShutdown` | `GateOpensReleased` | all IPC verbs, settings reset, auto resume toggled, quit, loop exit, battery saver |
| `TrayLiveness` | `HandoffEnds`, `PauseEnds`, `StablePowerIsObeyed` | three power states, pauses, a system that may stay finer for ever |
| `MCIpc` (bridge) | `BridgeInv` (`QueueWithinLimit`, `QueueHasWakeup`), `PermitsConserved`, the refinement `KeepsContract` of `IpcContract` | three clients, two workers, a backlog of two, two commands |
| `MCIpc` (codec) | `CodecInv` (`FrameIntegrity`, `ResponseRoundTrip`, `TokenRoundTrip`) | every verb, response and error; an empty and a full payload; four numbers at the edges of 32 and 64 bits |
| `MCIpc` (limiter) | `LimiterInv` (`RateHolds`) | three callers of which two are tracked, two requests in a window of three ticks |
| `MCIpc` (overlapped) | `IoInv` (`EventOutlivesOperation`, `EventsAreClosed`, `SignalledIsOver`) | two threads, two handles, two operations each |
| `MCIpc` (daemon) | `OkMeansReachable` | two calls, two engines, one fault |
| `MCProcess` (launcher) | `LauncherInv` (`SpawnedIsVerified`, `NewestIsRecorded`), `RepairIsLastResort` | two launchers, threshold two, two releases, two changes to the package or its state files, any number of failed operations |
| `MCProcess` (process) | `LifeInv` (`SettingsAgree`), `VerdictIsRight`, `RegistrationKept` | two processes at a time, three launches, two faults, every initial marker and file |
| `MCProcess` (sampling) | `SamplingInv` (`ResolvedIsSupported`, `VerdictIsMajority`) | requests 0..6, all pairs of bounds from {0,1,3,6}, five readings and failure |
| `MCDiagnostics` (log) | `LogInv` (`ChainHolds`, `PersistedIsWritten`, `HeaderOnce`) | three events retained, the tray and the writer thread, two days, one failing write |
| `MCDiagnostics` (window) | `RefreshSettles` (`RefreshWillCome`, `PassesBounded`, `DisplayIsCurrent`), `SelectionKeepsEvents` (`RangeKeepsEvents`, `MarksCoverSelection`) | six events retained, three ranges, four inputs of which one post may fail |

What the properties say is stated above each of them in the modules; an invariant
with names in parentheses is the conjunction of these and of the module's type
invariant.

**Bounds.** The code's limits are reduced: 12 polls to 2, 3 anomalies and
rejections to 2, 3 surface attempts to 1 or 2. The code only compares these
counters with their limit and with zero, so a limit of 2 has the states below,
at and before the limit; `SurfaceAttempts` is 2 where the recovery is checked.
Intervals are 1 (finest) and 2 (the floor) in the tray runs because the engine
distinguishes only those; 0..6 in the timer runs, where the arithmetic matters.
`MaxMishaps` is the number of kinds of native calls that fail in one message;
two make a failed postcondition with a failed rollback, or a handoff that cannot
be watched during a failed re-arm. `MaxAnomalies` bounds the anomalies of a run;
up to two are there at startup. One IPC command is queued at a time in
`TrayEngine`.

In `MCIpc` three clients exceed two workers and fill a backlog of two; with two
commands a failed post can meet an equal request of another client or none. The
limiter's six ticks let a window pass after one that was used up, and three
callers force an eviction. In `MCProcess` a threshold of two has a counter below,
at and above it, and two releases an upgrade and a downgrade; three launches are a
process, its successor and a rival. Two of each kind of fault cover a failure and
the failure of its recovery. Processes and launchers are interchangeable and used
as symmetry sets; the run checks no liveness. In `MCDiagnostics` the store is small
enough that recording, flushing and the flush's own events evict: an input of the
user records up to four events, so four inputs push the rows of the first out of
six. The window's faults count as inputs, since a refresh whose post fails is
otherwise free. The bridge of `MCCore` has two clients, one of each kind, to keep
the liveness check small; the safety of three is in `MCIpc`.

`CHECK_DEADLOCK FALSE` stands where the system may stop: a tray process that
exited, a request that has its verdict, parts that have used up their bounds.

**Fairness.** `TrayEngine!Fairness` says what Windows and the clock do while the
message loop runs: the handoff timer and the debounce timer fire while armed, the
duration timer fires when its deadline has passed, time passes, and a change of
power is broadcast. The user, the clients and the mishaps owe nothing. Each
conjunct is weak fairness with the condition under which the handler changes
something written out, because TLC evaluates `ENABLED` of such an action by
enumerating all its successors. The debounce conjunct assumes that broadcasts do
not arrive more often than every two seconds for ever, since each restarts the
timer. `IpcBridge!BridgeFairness` says that a worker thread that can take a step
takes one: threads are scheduled, and a worker's read, its wait for the UI thread and its
write have deadlines (`PIPE_READ_DEADLINE_MS`, `IPC_COMMAND_WAIT_MS`,
`PIPE_WRITE_DEADLINE_MS`). The `FlushFileBuffers` after the write (ipc.rs:1131) has none. A
worker in it can take no step until its client has read or closed, and only of the clients
in `Readers` is it assumed that they do, as `IpcClient::exchange` does, which reads with a
deadline and then closes. `EveryClientAnswered` accordingly has two halves: every worker
gets as far as having its answer in the pipe, and the workers of readers end; beside a
client that never reads, whose worker keeps its permit. The UI
thread owes nothing there: both halves hold even if it never drains.
`StablePowerIsObeyed` is checked without failing power queries and
debounce timers: with them the code does leave the timer held until the next
power message (see the hazards).

**Mutants.** Every property has a faulty variant of a modelled definition, named
for what it gets wrong, placed before the definition it varies and listed in
`PROJECT.json`. Put in the definition's place, it must make TLC report the
property violated: a forgotten reset, an off-by-one, an ignored pause, a timer
that is not armed again.

## 4. Runs that show a disagreement

Each checks one sentence of the repository's documentation against the model of
the code, and TLC finds the counterexample.

| Run | The documentation | The code |
|---|---|---|
| `QuiescentReleases` | entering Quiescent while owned releases as a restorative step | the release publishes first, publishing evaluates the tier, which enters Quiescent again: unbounded recursion |
| `ScheduleWillFire` | Stop in / Start in act at a future time | a handoff takes the timer and gives it back only to a pause |
| `ChainVerifies` | the chain makes tampering detectable at an exact index (docs/DEVELOPMENT.md:31) | a repeated layout error rewrites its event's details and keeps the hash, so the window reports tampering at that row |

The modules state further sentences of the documentation or of comments that the
code contradicts. They are not among the runs of `PROJECT.json`; each has a
configuration of its own, with which TLC shows the counterexample:

| Configuration (module) | The documentation | The code |
|---|---|---|
| `PauseSurvivesIconLoss` (`MCTrayEngine`) | docs/UI_AND_INTERACTION.md:52: a pause has a fixed duration | schedule.rs:264: without an icon the timer is not armed, and the icon's return does not arm it |
| `GateMeansReleased` (`MCTrayEngine`) | controller.md:169: the gate verifies after the release settled; ARCHITECTURE.md:192: shutdown drains the queue first | controller.rs:1508: a queued command acquires after the gate verified, the second cleanup returns early |
| `BatteryReleaseResumes` (`MCTrayEngine`) | ARCHITECTURE.md:156: AC reacquires what a battery transition released | schedule.rs:408: not if AC came back during a pause |
| `DestroyAnswersQueued` (`IpcBridge`) | controller.md:173: `WM_DESTROY` sets the teardown flag before draining the queue | controller.rs:1305 clears the pointer the handler needs before it destroys the window: the arm never runs |
| `CounterFollowsLaunch` (`Launcher`) | docs/PORTABLE_PACKAGING.md:154: a failed launch leaves the counter at the previous value | launcher main.rs:827 persists the counter before main.rs:884 spawns |
| `ResetRestarts` (`ProcessLife`) | menu.rs:1443: the reset "relaunches the executable and terminates this process" | menu.rs:1488-1493: the child can meet the mutex of its parent and exit, and no process is left |
| `CredentialsKept` (`DaemonStart`) | true-tick-cli main.rs:621: clearing before spawn keeps the cleanup from deleting a fresh credential | not if another call's or the user's engine starts at the same time |

Smaller divergences met while translating, which no run checks:

* ARCHITECTURE.md:134 says that suspend releases the resolution; `PBT_APMSUSPEND`
  applies the power policy (`release_for_power_change`), so on AC the timer is kept.
  The same line says that resume is debounced before reconciliation; the resume
  branch of `window_proc` reconciles first and debounces afterwards.
* docs/UI_AND_INTERACTION.md:58 says that Resume now resumes timing;
  `cancel_scheduled_action` does so only in automatic mode.
* ARCHITECTURE.md:121 leads from Owned to Uncertain when a release fails; `stop()`
  stays Owned and only the verification becomes Unverified. `OwnershipDiagram` keeps
  the documented edge, which the controller never takes.
* IPC: a failed post removes the first queued request equal to its own, which may be
  another client's; that client is told of a failure and its twin is executed.
  Error numbers are cut to 32 bits on the wire, and responses carry neither a
  checksum nor a length. In the first second after boot the rate limiter counts
  every stamp as old, and an eviction gives the evicted caller a fresh window. The
  busy budget of the client's `connect` is spent anew in every retry.
* The comment of `write_pipe` (ipc.rs:1081) says that a client that never reads its reply
  cannot stall the server; the flush after the write does stall its worker.
* `daemon`: the server's probe instance (ipc.rs:449) exists before the marker is
  written, so a call that connects to it fails for want of a marker.
* Process: a marker that cannot be read warns of an unclean shutdown, also after a clean
  one. A clean exit removes the marker, so every start after one is a
  `FirstRun`, which session.rs:182 describes otherwise. A missing or oversized
  configuration is an error, where docs/IPC_AND_CONFIGURATION.md:122 says that it is
  restored. If the damaged file cannot be renamed, a later save writes over it. The
  settings reset ignores a registration that failed. A relaunch that fails and is
  followed by a crash is not reported at the next start; neither is an aborted
  start-up whose dialog is still open when the emergency path writes "clean". The
  panic hook releases the kernel request of a panic that is caught, and the
  ownership stays Owned.
* Launcher: crashes of a started engine are never counted against its slot, though
  docs/PORTABLE_PACKAGING.md:97 says so; a missing `active-slot.txt` ends in repair
  although slots are there; a restoration can only succeed if the golden master is
  the build that the manifest lists for slot A. A launcher that finds a failure counter
  removed by another one between its test and its removal (main.rs:511) ends in the error
  dialog though its slot is fit. A package that is updated while a
  launcher is between verification and commit could lower the counter; the model
  excludes it.
* Controller: an IPC acquire stores the requested interval in the configuration only
  and answers `Acquired` for any valid timing (controller.rs:1922); a schedule from
  the menu does not move `ipc_schedule_id`, so a client can cancel one that is not
  its own (controller.rs:1951). When cleanup fails, the IPC server, the watchdog and
  the schedules are already gone and the application stays open without them
  (controller.rs:1494).
* Logs: repeat counts that change after a flush never reach the file, and a partial
  write that is retried writes its rows twice. A header that was cut short is never
  completed, against "a fresh log is never left without a header" (logging/mod.rs:209).
* Diagnostic window: the list view keeps marks by position, so after rows have moved
  a Ctrl+click selects rows the user never chose, against "Selection is preserved
  across refresh" (docs/diagrams, diagnostic_window.md); `MarksCoverSelection` is the
  half that holds. Copy and Export read the range's text anew instead of taking the
  preserved events that the summary names. The Row column numbers the visible rows,
  the range the retained ones. Export all is refused while the range's text is
  invalid, an invalid range becomes a selection once enough rows are there, and a
  reopened window shows 100 rows in its field though the limit was kept. An operation
  begun under the save dialog leaves the export's own operation unfinished. The
  comment that a scrolled-up reading position is preserved (diagnostic_window.rs,
  near 1340) does not hold when rows are evicted.

## 5. Proofs

Each theorem holds for every value of the constants that satisfies the named
assumption of the module it is about. These assumptions say that bounds and limits
are natural numbers, that a limit the code sets to a positive number is positive,
that a marker string is not also the name of a thread or a command, and that what is
put on the wire is bytes, texts in UTF-8, tokens of 32 bytes and numbers of eight. Each
module proves an inductive invariant, with one step per action, and reads the
properties of the runs off it; TLC checked each of these invariants on the
instance of the run before the proof.

**`TimerOwnershipProofs`**: every property of the ownership part of `MCCore`.

* `Invariance`: `Spec => []IInv`, which the others rest on. `KernelRequestTracked` alone
  is not inductive: a stop or a probe that finds `own = "Released"` clears `held` without looking,
  and whether a start is refused depends on the verification. `IInv` adds that
  Released means NotCollected, that an open release window means nothing is owned,
  selected or held, and, for `FloorHolds`, that the requested interval has been raised
  to the floor, so that an automatic request resolves to nothing below it.
* `TypeCorrect`, `RequestNeverLost`, `ReleaseUnblocksStart`,
  `WindowOnlyWhenReleased`, `FloorRespected` follow from it.
* `Refinement`: `Spec => Diagram!Spec`, with ownership and the kernel request
  mapped to themselves; each action is an edge of the diagram or a stutter, using
  `IInv` to know what is held before the step.

The lemmas are about the operators: what `resolve_request` can return
(`ResolveRequest`, `ResolutionsFloored`), that a median is one of its readings
(`MedianOfThree`, `LeastOfTwo`, `MedianIsReading`), and what one start does to the
invariant (`StartStep`).

**`TrayEngineProofs`**: every safety invariant and action property of the runs
`TrayLifecycle`, `TrayPower`, `TraySurface` and `TrayShutdown`, for every bound on polls,
attempts, rejections, anomalies and mishaps, every floor and every set of mishaps.

The operators of `TrayApp` are functions on the App, so the proof is about values:
`Good(x, s)` is what holds of an App `s` between two messages, one lemma per operator
says that it leads from good to good (or from the weaker `Base`, `Unsettled` or `Freed`
where it is called in between), and a step of `TrayEngine` is one application of them
(`AppStep`, one step per action). `EngineIInv` is `Good` with `TypeOK` and the state before
the message loop. Its parts are there because of the following:

* `Floored`, `TierFits`: entering MetrologyDegraded clamps the selection even when it is
  owned, and `stop()` without a selection never reaches the kernel. It does not come to
  that because `acquire_timer` publishes before its request, so the tier has already
  been evaluated with the rejections so far (`AtFloor`), and what is then acquired is
  acquired in a tier that will not clamp. `ReleaseReachesKernel` and
  `EmergencyCoversOwned` follow.
* `Watched`: a handoff is pending exactly while a release window is open, and then
  ownership is released. Between the native release and `begin_handoff` this does not hold
  (`Freed`); `WindowClosed` and `HandoffBegun` restore it.
* `IntentWaits`: an intent waits only behind a handoff, except that the cleanup at the
  end of the process may leave one over, with nothing owned and the loop ending.
* `PauseHolds` fails for a moment inside `schedule_duration_action`, between the placing of a
  pause and the release it queues; the lemmas on intents therefore ask for it only when
  the intent is not a release.
* `Lawful` looks at the message: what was released when it came and is not any more
  was acquired with power and pause permitting it. The set `x` of circumstances carries
  this from the start of a message to its end, and also whether the gate was open
  (`GateOpensSettled`) and whether the tray icon can fail.
* `PauseWillEnd` is proved under `"icon" \notin Mishaps` (`PausesAreTimed`), as the run that
  checks it assumes: `arm_duration_timer` does nothing while the icon is lost, and
  `PauseSurvivesIconLoss.cfg` shows a pause without a timer.

**`TimerSamplingProofs`**: `RequestVerdict`, that is `SamplingInv`, for every request,
pair of bounds, tolerance and sequence of readings. The invariant ties the verdict
to the three samples; what remains is a fact about medians, proved by cases on which
reads failed: the median lies within the tolerance exactly when two of three
readings do, the lesser of two exactly when one of them does, and a single reading
never verifies.

**`IpcProofs`**, on the bridge, for any number of clients, workers, commands and any
backlog.

* `PermitsAreConserved` counts the serving workers: each action moves one permit.
* `BacklogIsSound` (`BridgeInv`): the hard part is `QueueHasWakeup`, since a worker
  whose post fails removes the first request *equal* to its own, which may belong to
  another. The invariant `Matched` says that while no wake-up is on its way the
  queued requests can be matched one to one with workers that are about to post
  the same command, or whose post failed and who are popping requests; each pop removes
  one request, the pop of an equal one also its worker, and the proof
  mends the matching by giving that worker's request to the one that lost its own.
* `SuccessIsTrue`, and `BridgeKeepsContract`: `BridgeSpec => Contract!Spec`, with the
  executions and the answers mapped to themselves. Every step carries out one
  command, answers for good, or stutters; that a success is never said too early
  rests on `Truth` (a queued command has not been executed).

**`IpcProofs`**, on the parts around the bridge.

* `EventsAndOperations`, that is `IoInv`, for any number of threads and handles. That no
  operation outlives its event needs that a thread owns its event alone from its creation
  to its close, and that the kernel has an operation exactly while its thread waits or
  cancels; that a new event is not already signalled needs that a free handle never is.
* `RateIsLimited` (`LimiterInv`), for any callers, limits and clock. `RateHolds` is about
  all stamps accepted so far, the code looks only at those it has kept, and these may
  be out of order, since a worker reads the clock before it gets the lock. `Covered`
  joins the two: of the accepted stamps later than any bound not before the last window, the
  caller's record has at least as many, and a caller without a record has none. Pruning
  and filtering keep it because they drop only older stamps; an eviction starts the
  count anew.
* `VerifiedEngineIsReachable` (`OkMeansReachable`), for any calls and engines. An engine past
  its start is the one that holds the mutex (`InstanceIsEngine`), the token file is that
  engine's from its publication to its retraction (`TokenIsPublished`), and nobody knows
  the identifier of an engine that has not yet published its marker
  (`MarkerIsPublished`). Thus the engine a call verifies has published both, and if its
  server has not stopped the token is still there. An engine that stops retracts its files
  under the mutex, so never those of its successor, however long its workers linger.

**`IpcProofs`**, on the wire formats: `WireFormatsAreFaithful` (`CodecInv`), for any tokens,
payloads, texts, numbers and byte differences.

* Frames. `CrcDetects`: data of any length that differ in one byte have different checksums.
  A shift of the register loses nothing, since the polynomial has bit 31 (`ShiftInjective`),
  so registers that differ once stay different, by least counterexample over the position.
  `FrameLayout` gives the place of every field, `Verdict` what `deserialize` asks for, and
  `FrameAltered` combines them: another length contradicts the announced one, a changed byte
  contradicts the checksum whether it is in the body or in the checksum itself.
* Responses. `ResponseSays` holds for all bytes, not only for altered responses: what is
  taken for a response other than an error is the encoding of what was read. An error
  comes back as the variant with its code, because codes are distinct (`Codes`).
* Tokens. `TokenSays` holds for any text: a token that is read has 64 digits before the line
  ends that are trimmed, and these are its digits.

**`ProcessLifeProofs`**: for any number of processes, launches and failures.

* `SettingsAgreeWithFile` (`LifeInv`), `StartJudgesRightly` (`VerdictIsRight`) and
  `RegistrationIsKept` (`RegistrationKept`). The invariant says that one process holds
  the mutex, that the emergency thread belongs to it, that the marker on disk fits
  the way the last session went, and that a process past its load has in memory what
  the file says. A verdict is wrong only when the read of the marker fails (`Unreadable`
  warns as well), which `VerdictIsRight` counts as a fault.
  Only the mutex makes the invariant inductive: whoever writes the
  marker or the file is the only one that has read it.

**`LauncherProofs`**: for any number of launchers that run at the same time.

* `StartedIsVerified` (`LauncherInv`) and `DialogIsLastResort` (`RepairIsLastResort`).
  Launchers share the slots' failure counters without a lock. `Agreement` is what
  holds nevertheless: as long as a slot was not restored, a launcher that accepted it
  and one that rejected it do not coexist, because nothing between their checks
  changes what the checks see; `RestoredIsGolden` covers the slot that was. The
  commit only ever raises the recorded counter to the manifest's (`CounterWaits`), and
  the dialog that gives the package up follows a failed restoration or an
  `active-slot.txt` of no use (`RepairHasReason`). The other two dialogs are told apart from
  it: an unparsable health file stays what it is, since a launcher touches only counters it
  could read (`HealthReadable`), and a failed operation is no verdict on the package.
  As in the model, the package does not change under a running
  launcher.

**`SelectionProofs`**: lemmas on `Retain`. It takes positions and enumerates them by
rank (`Ranks`: of n positions, each number up to n is the rank of exactly one), which says
what `SelectSeq` says without its recursion. Where a proof would be an induction over
data it is one by the least counterexample instead (`LeastNumber`).

**`DiagnosticsProofs`**, on the event store, for any capacity, events, callers and days.

* `LogIsSound` (`LogInv`). The chain is stated over neighbours in the store, which evictions
  and the truncation marker rearrange; the invariant `StoreOK` says instead that two events
  whose *numbers* are neighbours are linked, wherever they stand. For the files,
  `Accounted` says that every number given out is retained, written or lost, and
  `FlushOK` that a flush commits no number before all up to it are written, lost or
  among its own lines. It speaks of each flush alone, so it survives flushes of other
  threads, a commit that lowers `persisted`, and an eviction between snapshot and write.

**`DiagnosticsProofs`**, on the window, for any capacity, limits, ranges and inputs. As for
the tray engine the operators are functions on the App, and one lemma per operator and
handler says that it leads from `Good` to `Good`. `WindowIInv` is `Good(app) /\ Chain(app)`.

* `RefreshesSettle` (`RefreshSettles`). `Calm`: between handlers no refresh runs, and the flag
  of a coming one goes with its one message. `Due`: whatever makes the list outdated
  leaves a refresh on its way or a post that failed, so `Current` is kept. `Chain` bounds the
  refreshes: those run so far, one more for a follow-up or two for a first refresh, and
  two while a typed range may still be dropped, are never more than four; each
  refresh that asks for another lowers what is left, because a follow-up asks for none
  and a range is dropped once.
* `SelectionIsKept` (`SelectionKeepsEvents`). No event has two rows (`ListOK`), which needs that
  the numbers in the store are distinct; `RangeKept` adds to `RangeKeepsEvents` that a range
  once dropped stays dropped until it is typed anew.

**Only model-checked.** Liveness under fairness (`HandoffEnds`, `PauseEnds`,
`StablePowerIsObeyed`, `EveryClientAnswered`) is outside the prover's reach.

## 6. Plan

1. *Done*: timer platform, controller, ownership with its abstract diagram,
   sampling; policy, tray application, tray engine; IPC bridge with its contract,
   codec, rate limiter, overlapped operations, daemon start; process life with marker,
   configuration, registration and reset; launcher; event store, log files and
   diagnostic window. The proofs of section 5.
2. *Open*: the parts that section 7 leaves out, and liveness, which stays with TLC.

## 7. Not modelled

* The watchdog only reports; its order is that of clock readings and sleeps.
* The responsiveness tracker is floating-point statistics.
* The text of the configuration, of presets, of the manifest, of log rows and
  arguments: sequential parsing and formatting, tested on literals.
* SHA-256 and Ed25519 arithmetic: a digest is its content, a signature is valid or not.
* Layout, colours, icons, tooltips, the summary's wording, the preset window:
  presentation.
* The snapshot recorder writes one file on a panic or an anomaly and is read by nobody.
* Path computation at start-up and the multi-client measurement tool.

`PROJECT.json` "components" gives the reason for each.

## 8. Running

    tlc -workers 2 -config TrayLifecycle.cfg MCTrayEngine
    tlc -workers 2 -config MCIpc.cfg MCIpc
    tlc -workers 2 -config ResetRestarts.cfg ProcessLife
    tlapm TrayEngineProofs.tla
    tlapm DiagnosticsProofs.tla

The passing runs end in under four minutes each on two cores.
