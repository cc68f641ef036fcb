# Verification of async-tool-executor

TLA+ models of the tool executor, the daemon's connection loop and life cycle, the
plugin supervisor and store, the client, the shell and the file tools, the TLC
configurations that check them and TLAPS proofs of their safety properties.
`PROJECT.json` lists the components, the runs, the map from definitions to source
lines, the findings, the hazards and the theorems. Paths below are relative to
`src/`.

## 1. The system

A Windows agent runs tools inside WSL. `ate-cli` and `ate-mcp` use
`windows-agent-client`, which dials a resident daemon over local TCP;
`wsl-executor-daemon` gives every connection a session with an executor of its
own (`executor-core`) and registers the built-in tools (`executor-tools`), a shell
(`wsl-runtime`) and the tools of installed plugins (`executor-plugin`). The
messages and their framing are in `executor-protocol`.

| Component | State | Operations | What makes it correct |
|---|---|---|---|
| Scheduler (`executor-core` scheduler.rs, invocation.rs, executor.rs) | a semaphore with `concurrency_limit` permits, one future per request, a token and a deadline per submission | submit, wait for a permit, run, time out, cancel, panic, collect | permits conserved; exclusive tools alone; waiters in order; one report per failure; results in input order; bounded submissions return |
| Observer, tool context (observer.rs, tool.rs) | none; blocking threads | report, run_blocking | reports agree with results; abandoned threads see a cancelled token |
| Registry (registry.rs) | tools by name | register, list, resolve | one tool per name |
| Connection server (server.rs) | session, active map, JoinSet, response channel, global permits | the client messages, end of stream, frame errors, teardown | responses in order; cancels reach what they were acknowledged for; global limit; teardown leaves nothing behind and ends |
| Plugin supervisor (supervisor.rs) | command and event channels, pending calls, the process and its generation, grace timers | invoke, cancel, kill, start, stop, handle a response | no call orphaned; a process stopped only for what it did; cancellation bounded by the grace period; concurrency limit of the manifest |
| Plugin store (package.rs, manifest.rs) | package directories, `.disabled` markers | install, replace, enable, remove, discover | a crash leaves an old or a new package |
| Framing (framing.rs) | a byte stream | read_frame, write_frame | what is written is read; a truncated frame is an error |
| Client (wsl.rs) | pending executions, cancel and tool waiters, a cache of daemons | connect, execute, cancel, list_tools, drop | every call gets its own answer or an error |
| Daemon life cycle (daemon.rs, main.rs) | state file, two locks, a process | ensure_running, status, stop, run_tcp | one daemon; the state file names it |
| Native shell (native.rs, shell.rs) | child, process group, killer | spawn, run, kill | no process outlives its execution; output capped |
| File and web tools (executor-tools) | files read per session, a page cache | read, write, edit, glob, grep, fetch | no write to a file that changed since it was read; no path outside the workspace |
| CLI, MCP server, scripts | none | parse and forward | - |

Interactions: the client and the server exchange frames in both directions; each
Execute becomes a task that waits for a global permit and then calls the
session's executor, which waits for a permit of its own pool; a tool of a plugin
waits for a third permit, sends a command to the manager of its package and
awaits a oneshot channel; cancellation runs the same way through child tokens,
and reports run back through the observer.

Hard behaviours: selects whose branches become ready in the same poll; permits
handed to a waiter that gives up in that moment; futures dropped at any await;
panics while permits are held; threads and processes that outlive their caller;
ids used again while something old still refers to them; bounded channels and
pipes that fill; frames that fail in the middle of everything. `hazards` in
PROJECT.json lists them with their lines.

## 2. Modules

| Module | Models | Extended by |
|---|---|---|
| `Scheduler` | executor-core | `MCScheduler` (instances), `SchedulerProofs` |
| `Session` | server.rs | `MCSession`, `SessionProofs` |
| `PluginSupervisor` | supervisor.rs | `MCPluginSupervisor`, `PluginSupervisorProofs` |
| `WslClient` | wsl.rs (an established client), with what server.rs tells it | `MCWslClient`, `WslClientProofs` |
| `PluginCatalog` | abstract: what the plugin store promises | instantiated by `PluginStore` |
| `PluginStore` | package.rs, register_plugins of daemon.rs | `MCPluginStore`, `PluginStoreProofs` |
| `DaemonLifecycle` | daemon.rs (run_tcp, ensure_running, stop), connect of wsl.rs | `MCDaemonLifecycle`, `DaemonLifecycleProofs` |
| `NativeShell` | native.rs, as shell.rs uses it | `MCNativeShell`, `NativeShellProofs` |
| `FileTools` | Read, Write and Edit of executor-tools | `MCFileTools`, `FileToolsProofs` |

### Scheduler

`phase[r]` is where the future of request `r` (`run_one`) stands. A step is the
stretch of a poll up to the next point at which another thread can matter: each
branch of the biased selects in `acquire_permit` and `invoke` is a step of its own
(`cancel_poll`, `permit_poll`, `deadline_poll`; `select`, `operation`), so a token
cancelled or a permit released in the middle of a poll is covered. Submissions are
batches with one token and one deadline; `childCancelled` holds the requests whose
child token was cancelled by the request itself.

tokio's semaphore is external and modelled by what the code relies on: permits
are tokens `1..PermitCount`, a waiter may hold a part of what it needs, released
permits go to the waiters oldest first (`Deals`), and an acquire future that is
dropped gives its part back (`Release`). The queue is a set with the relation
`ahead`, which states its order without positions and suits the proofs.

Tools are nondeterministic: a tool may be unknown, concurrency safe, exclusive or
panic when asked which; it may succeed, fail in validation or execution, panic,
stay pending, or start a blocking thread. `DropSubmission` is a caller that drops
the future of `execute`, as an aborted server task does.

Abstracted: arguments and output, the texts of errors (their codes are kept), time
(a deadline or a timeout has passed or not), progress events. The two looks of
`invoke` at its token and at its deadline are one step (`Interrupted`); a
cancellation between them counts as coming after both. A tool that fails by itself
gives a validation or an execution error: `invoke` would pass on any other error of
a tool too, but no tool of the repository returns one.

### Session

One action per branch of the loop in `serve`, with every effect of that branch.
A spawned execution goes through `waiting` (for the global permit), `executing`
(inside `executor.execute`, before it has looked at its token), `admitted`,
`running`, `returned`, `released`, `removed` and `ended`. The executor is
represented by its contract, which `Scheduler` establishes: a token cancelled
before the call starts no tool (`CancelledBeforeSubmissionNeverStarts`), one Failed
report per error (`EventsMatchOutcome`), a result in the end. `told[t]` is the
sequence of responses about an execution. The response channel is abstracted to
whether it holds anything (`backlog`): what matters is who still holds a sender
(`HasSenders`), because the writer ends when nobody does.

### PluginSupervisor

The manager handles one command or event at a time but awaits its writes to the
plugin, so `mgr` says what it is busy with while callers, watchers, timers, the
reader and the plugin go on. Commands, events and both pipes are bounded queues.
A queue entry carries the call it stands for, but every lookup of the model goes
through `IdOf`, as the code's lookups go through the id: with `OneId` two calls
share an id, one after the other, which the connection allows once the first
execution has returned. The plugin process is external: it reads, answers,
reports progress, exits, sends up to `MaxStrays` responses that answer nothing, or
does nothing at all.

`start_plugin` is one step with two outcomes, since nobody else can see the
process before it is done, and `stop_process` is two: taking the process, and the
rest, which needs room in the pipe for the shutdown frame.

### WslClient

The calls of one client, its reader and writer tasks and the three maps of
waiters. `execute` and `list_tools` register and send in two steps, `cancel` in one,
as their locks say. `reply[c]` is what went through the oneshot channel of call `c`
and which call it was about (`about`), so that an answer that reaches the wrong call
is visible; the lookups themselves go through the id. A dropped sender gives
`Disconnected`. The reader ends when the stream does or on a frame above the limit,
and then drains its maps one after the other; the drop of the client sends Shutdown
and aborts both tasks. The guest is reduced to the order of responses that
`ResponsesInOrder` establishes in `Session`: Failed, the id freed, Completed.
The channel to the writer and the stream behind it are one queue, and so are the
guest's channel and stream: what is lost with the connection is lost either way.

### PluginStore and PluginCatalog

Several processes use one directory without a lock: `ate-daemon tool` commands and
sessions of the daemon. Each system call that another process can observe is a step,
and `Dies` may come between any two. `dest[i]` is the directory named `i`,
`staging[p]` and `aside[p]` the hidden directories of process `p`; a directory is the
package it was unpacked from, whether all of it is there, and whether it has a marker.
`install` looks at its destination twice (package.rs:80 and 83) before it renames, so
other processes come in between. Every rename may fail, one onto a directory that is
not empty must, and a failed rename back is ignored (package.rs:89). Unpacking, parsing
the manifest and setting the mode bits are one step with two outcomes, because nobody
looks into a staging directory. A package may come with a marker in its archive
(`BornDisabled`); one whose entrypoint is a directory installs, is reported as a failure
by `load_installed` and is never registered, as if a command were missing (`Unusable`).
A directory that cannot be listed refuses the session. Left out: a configuration without
plugins, and a single tool of a plugin that the registry rejects.

`PluginCatalog` is the promise: a map from ids to packages that every operation
changes at one point and reports on truthfully, and that a session reads at once. It
promises this to operations that overlap no other change (`raced` names the others),
and lets a package be lost only by a replacement, one that is killed (`Dies`) or one that
can neither put the new package in place nor the old one back (`Loses`).
`AtomicUnlessRaced` is the refinement: `catalog` is read off `dest`, and between the
two renames of a replacement off its backup.

### DaemonLifecycle

Processes with ids that are used again, the state file, leftover temporary files and
the two locks, which the kernel frees when a process ends. `serve` takes the service
lock without waiting, binds, writes a temporary file and renames it; `ensure-running`
and `stop` wait for the state lock. An instance number stands for the port and the
token of one start. `process_is_daemon` looks at the executable only, so every living
process of this program passes it, and `read_healthy_state` only connects to the recorded
port: `taken` holds the ended instances on whose port somebody else accepts by now
(`PortChanges`). A client's `connect` rejects an invalid workspace, reads the cache of its
process, dials, forgets what failed and asks `ensure-running`, which is a process of
its own and may be killed. A dial succeeds only with the daemon whose token it sends, and
may fail even then, since a daemon refuses a hello for its workspace or when its plugins
cannot be set up (`refused`). Not modelled: a program on a reused port that accepts and
never answers, for which `dial`, which has no timeout, would wait. `unrecorded` is an auxiliary variable: instances whose
record a `stop` removed although it had read another one.

### NativeShell

The future of `run`, its two reader tasks, and the processes of the command, which
are external: they fork, write, close their output and exit in any order. `leader`
is `running`, `zombie` or `reaped`, since the number of the group may belong to
somebody else only after the child was reaped and the group is empty (`stranger`);
`hit` records a signal that went to such a process. `Drop` is a caller that drops the
future at any await, and `DropLocals` what the drop of the killer and of the child then
does. Descendants that leave the process group by themselves are not modelled: no
signal to the group reaches them.

### FileTools

One file, sessions with their read records, and users who change the file. A call
looks at the file, decides, and hands the write to a blocking thread, which truncates
and then fills the file and goes on when the call is dropped. The exclusive slot of a
session (`Admitted`) is what `ExclusiveRunsAlone` establishes in `Scheduler`; calls of
two sessions share nothing but the file. A content is a model value, "blank" (empty or
white space, which a reader may meet between the two halves of a write), "binary" (not
UTF-8), "torn" (two writes mixed) or "absent". `seen[s]` is what the model behind
session `s` was shown in full or made itself.

## 3. Runs

| Run | Instance | Shows |
|---|---|---|
| `SchedulerPermits` | a batch of 2 and a single request, 2 permits, a tool timeout, cancellation and a deadline for the batch, the single one may be dropped | `PermitsConserved`, `ExclusiveRunsAlone`, `NoIdlePermit`, `NoOvertaking`, `ResultsInInputOrder`, `InterruptionIsJustified` |
| `SchedulerReports` | 2 submissions of one request each, limit 0 (clamped to one permit), concurrent, unknown and panicking tools with every behaviour; the first has a deadline and may be cancelled, the second has none and may be dropped; tool timers that need not fire; fairness | `TypeOK`, `EventsMatchOutcome`, `AbandonedWorkerIsCancelled`, `CancelledBeforeSubmissionNeverStarts`, `BoundedSubmissionReturns` |
| `SessionServe` | one connection, 2 ids, 3 executions, 4 messages, 1 global permit, frames may fail | `ResponsesInOrder`, `GlobalLimit`, `ActiveMapExact`, `DrainWaitsForTasks`, `CancelledEnds`, `TeardownDrains` |
| `SessionReturns` | one connection, 2 messages | violation: `ServeReturns` |
| `PluginCalls` | 2 calls, max_concurrency 2, one stray response, dropped callers, channels and pipes of one slot | `NoOrphan`, `NoFalseViolation`, `KilledOnlyIfIgnored` |
| `PluginLiveness` | 2 calls, max_concurrency 1, dropped callers, an input pipe that never fills | `PluginConcurrency`, `CancelledCallReleased`, `CrashReleasesCalls`, `ProcessReaped` |
| `ClientCalls` | 3 of 6 calls (executes, cancels and a list), one id, one oversized result, a caller that gives up | `StrayAnswersOnly`, `IdsFreedByCompletion`, `DisconnectedIsJustified`, `CallsReleased` |
| `ClientCancelReturns` | 2 executes and a cancel | violation: `CancelReturns` |
| `PluginStore` | 3 processes, 2 versions of 2 plugins: one with the tool name of a builtin, disabled in its archive, one with a tool name of the other plugin, one with a missing command; every rename may fail and every process may be killed | `VisibleIsComplete`, `AtomicUnlessRaced` (refinement) |
| `DaemonLifecycle` | 3 process ids, 2 connects, one command typed by hand, 2 starts that get a port, ports that change hands, refused hellos, one crash | `DaemonFindable`, `FailedConnectIsFresh`, `EnsureReportsLive`, `CommandsEnd` |
| `NativeShell` | 2 descendants, 2 streams of up to 4 bytes, a cap of 2, buffers of 2 and pipes of 3 | `KillsOwnGroup`, `EndedEarlyLeavesNothing`, `CaptureExact`, `RunReturns` |
| `FileTools` | 3 calls in 2 sessions, 2 texts, one change by a user | `OverwritesOnlySeen`, `TornOnlyByStrangers` |

Deadlock is not checked: submissions are finite, connections end and hosts may
fall silent, so every system here may stop. What must not stop is stated as
liveness.

Bounds. Two permits and three requests are enough for an exclusive waiter that
holds half of what it needs while another request runs and a third is queued
behind it. Three executions and two ids let an id be used again while the other
is active and the third waits for the single global permit; hello and three more
messages allow execute, cancel, execute with one id. Two calls are enough for one
process to fail with one call pending and another queued or being written, for a
restart with events of the old process still in the channel, and for an id that is
used twice. Capacities of one make every sender wait. In `PluginLiveness` the input
pipe takes five frames, as many as two calls can cause with a shutdown, so it is
never full (see the observations for a pipe that is).
Three calls with one id are enough for an answer that goes astray and releases a
call whose own answer then goes astray as well. Three processes allow two installs
of one plugin and a removal or a session between their steps. Three process ids are
fewer than the processes that want one, so ids in old state files come to belong to
others, and the ports of ended daemons change hands at any time; two starts allow the daemon to be replaced under a `stop` that has read the
first one's record. Four bytes against a cap and a buffer of two give reads that end
before, at and beyond the cap. Two texts and one user are enough for a file that
changes and changes back; the texts are symmetric, and so declared.

Two submissions with one permit are what
a deadline has to get past: the first one is queued behind a tool that never returns.

Fairness. The runtime polls every woken task and fires every timer: weak fairness
for each future, writer, reader, watcher and timer. The exception is the timer of the
tool timeout in `Scheduler`, an executor without that timeout being one whose timer never
fires: `BoundedSubmissionReturns` says that a submission with a deadline returns all the
same, and takes the fairness of the tool timers as a hypothesis for the others. The manager's `select!` is
unbiased and starts at a random branch, which is strong fairness for commands and
for events. Nothing is assumed of tools, plugins, blocking threads or hosts: a tool
may never return, a plugin may hang, a host may never send anything. In `Session`
the executor returns from a cancelled request, which is what
`BoundedSubmissionReturns` and the biased select of `invoke` give. In `WslClient` the
guest reads what is written, which `serve` does while the connection is up. In
`DaemonLifecycle` the kernel runs every process, wakes one that waits for a free lock
and delivers signals; daemons need not be started, and users and clients owe nothing.
In `NativeShell` only `run` and the readers are fair: commands may hang, and
`RunReturns` starts where the child has ended and every process has closed its output.

## 4. Findings and observations

Findings, each with a run that TLC refutes:

1. `serve` never returns after an accepted hello unless a write fails: it awaits the
   writer while its own session keeps a sender (server.rs:246). Neither does the
   session's registry go, so its plugin managers and processes stay.
2. A call made after the client's reader has ended waits for ever: its waiter is
   registered in a map nobody drains, and its send succeeds because the writer still
   runs (wsl.rs:321). A result above 8 MiB is enough to end the reader, and `Read`
   returns files of up to 50 MiB; the MCP server, which keeps one client, then hangs
   with its next call.

Observations, which the passing runs respect as exceptions in their properties or
bounds:

- A frame error leaves `serve` without cancelling or waiting for its executions
  (server.rs:96); `DrainWaitsForTasks` and `TeardownDrains` are about the orderly end.
- A grace timer finds its call by id only (supervisor.rs:257), and a new call replaces
  a pending one with its id (supervisor.rs:240): `KilledOnlyIfIgnored` is checked for
  ids of their own (`DistinctIds`), and fails with `OneId`.
- The manager's writes to a plugin have no timeout (supervisor.rs:245, 500):
  `CancelledCallReleased` is checked with room in the pipe and fails with
  `InCapacity = 1` and two concurrent calls.
- The watcher of a call holds a sender of the command channel and ends when its call
  finishes or is cancelled (supervisor.rs:154-169). A call whose future is dropped without
  a cancellation does neither: after the session has gone, its manager and the plugin
  process stay. `ProcessReaped` exempts exactly these sessions (`Stranded`); without the
  exemption TLC refutes it by one dropped call.
- `ensure-running` takes a state file for healthy when the recorded id is a living process
  of this program and somebody accepts on the recorded port; it does not ask for the token
  (daemon.rs:354-363). When a daemon has crashed and both were taken again, the id for
  example by that very `ensure-running`, it reports the ended daemon, and the connect
  fails. This is the second disjunct of `EnsureReportsLive`; either of the two alone
  misleads nobody.
- When the second rename of a replacement fails and the rename back fails as well, which
  is ignored (package.rs:88-90), the package is gone without any kill: it stays in a
  hidden backup directory nobody looks at (`Loses`).
- A submission that is dropped cancels no token, so a blocking thread it leaves behind is
  not told (`AbandonedWorkerIsCancelled` excludes it).
- An id is safe to use again once Completed has arrived, and not after Failed
  (`IdsFreedByCompletion`, `StrayAnswersOnly`); of two cancels with one id the first is
  told Disconnected and the second gets the first's answer. A message that has gone
  astray releases a call whose own answer then goes astray, so an execute may get the
  refusal of another one, and an execute whose send fails disconnects whatever waits
  under its id by then (wsl.rs, `execute`).
- `stop` removes the state file whatever it says by then (daemon.rs:346): the record of
  a daemon that was started meanwhile may go, and since that daemon holds the service
  lock, every later `ensure-running` fails until it is killed. This is the last
  disjunct of `DaemonFindable`. `stop` also reports before the daemon has ended, and an
  `ensure-running` in that moment starts a daemon that finds the service lock taken.
- A daemon killed between creating its temporary file and renaming it leaves
  `daemon.json.<pid>`; a later daemon with that pid fails on `create_new`
  (daemon.rs:384-388).
- The doc of the group killer (native.rs:187-189) says that a dropped run "still
  terminates every process it spawned". The killer is disarmed once the child is
  reaped (native.rs:273), so descendants that still write are left when the future is
  dropped while it collects their output; `EndedEarlyLeavesNothing` is what holds.
- A replacing install enables a disabled plugin, because the marker goes with the old
  directory; after a race, a rollback may bring back a package that another process
  has removed (package.rs:89). `ActsWhileRaced` allows for that.
- `Write` skips the read-before-write check for a file that is not UTF-8
  (file_write.rs:68), although its description says that existing files must be read
  first. `Edit` records what it finds in the file after its write (file_edit.rs:167),
  so content that another writer put there counts as seen; `unseen` in
  `OverwritesOnlySeen` names it.

## 5. Proofs

`SchedulerProofs` proves, for every finite set of requests, every assignment to
submissions, every mix of tools and every configured limit:

- `PermitsAreConserved`, `NoPermitIsIdle`, `Exclusivity`: the invariants
  `PermitsConserved`, `NoIdlePermit` and `ExclusiveRunsAlone`;
- `Fifo`: the action property `NoOvertaking`;
- `TypeCorrect`: `TypeOK`.

The inductive invariant is `IInv`: the types of the permits, `PermitsConserved`,
`NoIdlePermit` and `Ownership`. `ExclusiveRunsAlone` is not inductive: that two
requests never run beside an exclusive one follows from an exclusive request
holding every permit and any running request holding at least one, which is
`Ownership`; and `Ownership` survives a release only if permits reach waiters in
order and no waiter ever holds more than it asked for, which needs the order of
the queue. `ReleaseKeepsIInv` is the one lemma about the semaphore: whatever set of
requests gives up its permits, they are dealt out so that `IInv` holds again. A
returning request, a waiter that times out or is cancelled and a dropped submission
are then instances of it. `PoolNotEmpty` is where the clamp of the configured limit
enters: with an empty pool an exclusive request would hold all permits by holding
none.

Assumptions: requests are finitely many, indices are distinct within a batch, and
the limits are natural numbers (`BatchAssumption`, `ConfigAssumption`,
`FiniteAssumption`, `PoolAssumption` in `Scheduler`); TLC evaluates them in every
run.

`PluginStoreProofs` proves `VisibleAlwaysComplete`: `Spec => []VisibleIsComplete`, for
any number of processes that install, remove, enable, disable and discover at once and
may be killed at any step. `VisibleIsComplete` is not inductive, since it speaks of the
directories with a plugin's name only, and those are filled by renaming hidden ones.
The inductive invariant is `IInv == FilesOK /\ VisibleIsComplete /\ StagedIsComplete`.
`StagedIsComplete` says that from the check of an unpacked archive until the rename the
staging directory holds all of the package that was asked for, and that between the two
renames of a replacement the backup is whole and has the same id, which is what makes
`Rollback` safe. No other process writes to either directory, because their names are
unique to the process, and that is the argument of every step. `FilesOK` gives the types
of the variables involved. The one assumption is `StoreAssumption` in `PluginStore`:
there are finitely many ids, each package has one and at least one tool, and what is
installed at the beginning is whole. TLC evaluates it in the run `PluginStore`.

The same module proves the refinement, `StoreImplementsCatalog`: `Spec =>
AtomicUnlessRaced`, for any number of processes, ids and packages. `InitIsMapped` maps
the initial states and `NextIsMapped` every step. The steps that take effect in the
catalog are the rename of the staging directory, the rename of a removed directory to
its hidden name and the change of the marker; the first rename of a replacement is a
stutter, because the entry is then read off the backup, a rename back that works shows
nothing either, and one that fails is `Loses` as a process killed there is the `Dies` that
loses a package (`RollbackIsMapped`, `DeathIsMapped`). The mapping needs a second inductive invariant, `RInv`,
beside `IInv`:

- `Own`: what an operation has brought about itself at each label, whoever runs beside
  it (it has its effect after the rename and not before, it has a backup to put back);
- `RaceInv`: of two operations at work of which one changes the store, the other is
  in `raced`;
- `Unraced`: what an operation that is not raced has found still holds when it acts
  on it (`Found`: the destination it looked at twice, the result it is going to
  report), and what a session that is not raced has loaded is what is there (`Loaded`).

`Found` and `Loaded` are the checks before their use, and are stable because of
`RaceInv` only: `FrameStep` says that a step changes a directory only as the target of
an operation that changes the store, so everybody else at work is raced (`OthersKeep`).
For a raced operation the catalog allows any entry of its own id, and `OthersKept` is
what there is to show: it touches no other id. `RegistersTheCatalog` is the one lemma
about data: counting the eligible plugins with a name (`NameCount`) selects those that
share no name with another, which is where the ids have to be finite.

Beside the permits, `SchedulerProofs` proves what is reported of a request:

- `EventsAgree`, `InterruptionsAreJustified`, `AbandonedWorkersAreCancelled`:
  `EventsMatchOutcome`, `InterruptionIsJustified` and `AbandonedWorkerIsCancelled` (which
  is about requests that ended by an error, a cancellation or a timeout, not about
  dropped ones), from the invariant `EndInv`. Its part `ReportInv` says which events and which outcome a
  request has in each phase, since `EventsMatchOutcome` speaks of ended requests only;
  its part `TokenInv` says that the child token of a request is cancelled only by the
  request's own end. `FailureKeepsEndInv` is the one lemma about `fail_with`, through
  which every error path goes;
- `ResultsAreInOrder`: `ResultsInInputOrder`, from `DoneInv`, that the requests collected
  for a batch are the ones that are done;
- `CancelledNeverStarts`: the temporal property `CancelledBeforeSubmissionNeverStarts`,
  from `Doomed(r)`: a request whose submission was cancelled first is in a phase before
  any permit or has ended, and no step leads out of that.

`SessionProofs`, for any connections, ids, tasks, messages and permits
(`BoundsAssumption`):

- `ActiveMapIsExact` and `DrainingWaits`, from `IInv`. `ActiveMapExact` names tasks that
  are live; to keep it one needs `MapInv`, that every task from its start to its removal
  is in the slot of its own id and that nobody else is, also in a failed connection whose
  aborted tasks stay in their map;
- `GlobalLimitHolds`: `GlobalLimit`, from `PermitInv` and `CountInv`. The executor is called
  without a permit for a task that was cancelled while it waited, so the argument is not
  that whoever executes has a permit: such a task is cancelled, and is never admitted;
- `ResponsesComeInOrder`: `ResponsesInOrder`, from `ToldInv`, which lists what the host can
  have been told in each phase.

`PluginSupervisorProofs`, for any number of calls, capacities and limits
(`CallsAssumption`, `LimitsAssumption`, `FlagsAssumption`):

- `NoCallIsOrphaned`: `NoOrphan`, whatever ids the host uses. The invariant `BaseInv` says
  that an invocation is in one place (`PlaceInv`: with its caller, queued, being written or
  pending), that a frame is written only to a process the manager owns, and that whoever
  is past its permit holds one (`PermitInv`);
- `KillsAreJustified`, `ViolationsAreTrue`, `PluginNotOverloaded`: `KilledOnlyIfIgnored`,
  `NoFalseViolation` and `PluginConcurrency`, under the hypothesis `OwnIds` that each call
  has an id of its own. The hypothesis is needed (section 4): with `OneId` a timer of the
  old call finds the new one. `HandledInv` says that a call whose answer was taken is
  not pending again. `WholeInv` follows the frames through both pipes, the reader and
  the event channel: as long as the plugin sends nothing unasked (`strays = 0`), what it
  was given is pending (`GivenInv`), what the present process said is about a pending
  call and an answer is the last thing said about it (`SaidInv`); what an earlier process
  said has an older generation (`GenerationInv`), and a process that is not owned has no
  pipes left (`GoneInv`).

`WslClientProofs`, for any calls and ids (`CallsAssumption`, `NamesAssumption`):

- `DisconnectsAreJustified`: `DisconnectedIsJustified`;
- `StraysAreExplained`: `StrayAnswersOnly`;
- `IdsAreFreed`: `IdsFreedByCompletion`.

Every step is first reduced to its `Effects`: what it does to each reply (nothing,
`CutOff`, `Duplicate` or `Delivered`) and that a call leaves its slot only with a reply.
The inductive invariant `IInv` has the slots (`SlotInv`: what waits is unanswered, under
its own id), the replies (`ReplyInv`), the order of what is on its way (`OrderInv`: a call
is asked once, before anything is said about it; only Failed is followed by another
message; the active execution of an id is under way) and `OutInv`, the heart: a call
that the guest still owes something waits in its slot or was released by something else
than its own last answer. A message that finds another call in the slot is then about
a released one. For the refusals, `RefusedInv` adds that a refusal on its way to a
reader that runs has a call with its id that got a result; here
`DisconnectedIsJustified` is needed, since the reader and the writer still run when the
guest refuses. The attempt to prove an earlier form of `StrayAnswersOnly`, which let the
other call be released only by a stray result or Failed (an execute) or by a later
cancel, failed for a reason: with four executes under one id a refusal can go astray, and
a failed send can disconnect another execute. TLC confirmed both on an instance larger
than that of the run, and the property now says what holds.

`DaemonLifecycleProofs`, for any process ids, clients and bounds (`LifecycleAssumption`;
that no client is called `none` or `user`, which the model uses for commands without a
client, is part of it):

- `DaemonIsFindable`: `DaemonFindable`, from `PInv`. Instances are numbered by a counter
  nobody is ahead of (`ProcNumbers`), only the holder of the service lock has one
  (`ServiceInv`), and a record of an instance that still runs, in the file or as some
  process read it, names its process (`RecordInv`); a `stop` that is about to remove the
  file has signalled that process or has read another record;
- `FailuresAreFresh`: `FailedConnectIsFresh`, and `EnsureNamesLive`: the action property
  `EnsureReportsLive`, from `PInv` and `CInv`, which relates each command to the one
  client that waits for it. Dials may be refused by a living daemon and ports change
  hands, so what is proved is where a failure comes from (the client's own
  `ensure-running` and the daemon that one named, never the cache), and that
  `ensure-running` is misled only by an id and a port that were both taken again: an
  instance that accepts and still runs is that of the holder of the service lock.

`NativeShellProofs`, for any descendants, cap and sizes of buffer and pipe
(`ShellAssumption`): `SignalsStayInGroup` (`KillsOwnGroup`) and `NothingLeftBehind`
(`EndedEarlyLeavesNothing`) from `GroupInv`, whose part `ArmedWhileUnreaped` says that the
killer is armed exactly while the child may be unreaped and that the number of the group
belongs to somebody else only after that; `CaptureIsExact` (`CaptureExact`) from
`CaptureInv`, which accounts for every byte at any time, while the property speaks of a
reader that is done.

`FileToolsProofs`, for any sessions, calls and texts (`FileAssumption`): the action
properties `OverwritesOnlySeen` (`OverwritesAreSeen`) and `TornOnlyByStrangers`
(`TornByStrangers`). Both have the exceptions that their comments name: text that appears
between the look and the write of a call, and what an Edit read back, may be overwritten
unseen, and a write whose call was abandoned may mix with the next. `SeenInv` carries what was seen from the record of the session to the
call that is about to truncate; `AloneInv` is the exclusive slot of a session, and
`SinceInv` who wrote between the truncation and the filling.

Only model-checked: liveness (`BoundedSubmissionReturns`, `CancelledEnds`,
`TeardownDrains`, `CancelledCallReleased`, `CrashReleasesCalls`, `ProcessReaped`,
`CallsReleased`, `CommandsEnd`, `RunReturns`), which is outside the prover's reach. Every
other property of a passing run is stated by a theorem.

## 6. Not modelled, and the plan

Next, in this order:

1. An abstract executor (each request has one outcome) refined by `Scheduler`.
2. The framing of byte streams as an algorithm, and the time a request may wait for the
   global permit (server.rs:200), which needs the clock of `Scheduler` in `Session`.

Left out for good: the CLI, the MCP server and the installation scripts forward
arguments and keep no state; Glob and Grep only read; the page cache of WebFetch is
private to a tool and bounded by time only; the resolution of paths, the rules for
workspaces and the checks on archives are pure functions of the file system that the
repository's unit tests reach; log messages, texts and JSON payloads are data no
property depends on.
