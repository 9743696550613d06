# Verification of free-context

`free-context` keeps a long Codex task going: a daemon runs one app-server per
run, follows its threads, and when a thread's context fills up it replaces the
thread by a fresh one that continues from a written handoff. This directory
models the orchestration engine, the daemon's controller, its app-servers and the
connections to them, the state store and the daemon's lock and socket in TLA+, checks
them with TLC and proves most of the invariants, and a refinement, with TLAPS.

Line numbers refer to the sources of this repository: `engine.go` is
`internal/orchestrator/engine.go`, `controller.go`, `recovery.go` and
`handler.go` are in `internal/daemon`, `socket.go` and `protocol.go` in
`internal/codexrpc`, `manager.go` in `internal/appserver`, `fs.go` in
`internal/store`, `server.go` in `internal/daemon`, `main.go` in `cmd/free-context`, `spec.md` is `docs/spec.md`.

## The system

| Part | State | Operations | Interacts with | Hard behaviour | Correct when |
|---|---|---|---|---|---|
| Engine (`engine.go`, `types.go`) | none of its own; the persisted `Run`: status, root, transition, threads, handoffs | 24 commands: load, check, change, save, return effects | the store; its caller applies the effects | commands in any order and in any state | one root has authority; a transition never leaves an active thread behind; a successor owns what it takes over |
| Controller (`controller.go`) | a mutex, and the effects still to apply | `Execute`, `Recover`, `CheckTimeouts`, `HandleAppServerExit`, `HandleNotification` | engine, store, app-servers, handoff generator | effects nest and fail half way; notifications come late; a decision is taken before the lock | no work is dropped, no transition is abandoned, the mutex is always released |
| Recovery (`recovery.go`) | the runs as listed at start | `RecoverPersistedRuns`, metadata refresh, `stopOwnedAppServer` | engine (once without the mutex), store, controller | runs change between listing and recovery | every unfinished run is taken up; ended threads and resolved handoffs stay so |
| HTTP handler (`handler.go`, `commands.go`) | none | commands, list, read, `DELETE` | controller; the store directly for `DELETE` | `DELETE` takes no lock | a run is deleted only once it is over |
| Store (`store/fs.go`) | one directory per run: `run.json` with a revision, handoff files | `Create`, `Save`, `Load`, `List`, `Delete`, `SaveHandoff` | engine, handler, recovery | a crash between two file operations; check and rename are not one step | a run is never lost, torn or brought back |
| App-server manager (`appserver/manager.go`) | sessions by run | `Start`, `Get`, `Stop`, `StopAll`, exit callback | controller, processes, transport, the daemon's context | an exit that races a stop or a new start; a shutdown during a start; a context that kills what `StopAll` has not yet taken; a daemon that dies between start and registration | one server per run, none left behind, a stop is no crash |
| Transport (`codexrpc`) | pending calls, a queue of 256 notifications, `Client.mu` | call, notify, read loop | app-server, controller | a full queue keeps a reply from being read; late replies; a close in the middle of a call | every call ends, with its own answer; notifications in order |
| Handoff generator (`handoff/runner.go`) | none | one `codex exec` per handoff | controller | may hang while the mutex is held | a valid handoff or an error |
| Hooks (`hooks/handler.go`) | none | `PreCompact`, `PreToolUse` | HTTP handler | a check that is stale when the tool starts | no new tool call in a quiescing run |
| MCP server (`mcp/server.go`) | none | `report_progress`, `accept_handoff`, `resolve_handoff`, `get_run_state` | HTTP handler | agents may call anything at any time | as the engine |
| Daemon process and lock (`main.go`, `server.go`) | pid file and its lock, socket | `ensureDaemon`, `serveDaemon`, `ServeReady`, `daemon stop` | file system, other processes | daemons that start, end, crash and are stopped at the same time | one daemon, which can be reached and stopped |
| Command line, TUI | none | start, stop, attach, list | HTTP handler | none of their own | as the handler |

## Modules

`Engine` — the run and the engine. A command is one action: its guard is the
command's checks, its primed variables what the command saves, and its effects
are put in front of `rest`, the effects its caller still has to apply. `Next`
applies none: it is the engine under a client that may send anything in any
order, internal commands included.

`Controller` EXTENDS `Engine` — the daemon around one run. The goroutine that
holds `Controller.mu` works through the effects of a command depth first, each
effect possibly executing a further command, so `effects` is its continuation:
`Apply` takes the head and leaves the effects of the nested command in front of
the tail, and the mutex is free (`caller = "idle"`) exactly when there are none.
`caller` says which procedure the goroutine is in, because they treat a failure
differently: `Execute` blocks the run and interrupts its tree, `recover` stops
the server and blocks, the monitor and the exit callback give up. `Fail` may
replace any `Apply`. Beside the mutex: the app-server exits, its callback waits
for the lock; `DELETE`; a crash, which drops the continuation but not the run;
the restart, and the recovery at start that lists first and acts later. `RescueMayFail`
says whether what comes to a run's help may fail in its turn: listing the runs, and the
block after a failed effect, after an exit or of a rootless run, whose errors the code
drops.

`RootLease` — the abstract specification: the authority to drive a run is a
lease that passes only to a fresh heir that accepted, and never back. `Controller`
implements it by the mapping `Lease` (`mode` from status, phase and the root's
status; `holder` is the root, `heir` is `Transition.NewRootID`, `spent` the other
threads with the role root).

`LostTools` EXTENDS `Controller` by one history variable: which of the tool calls that the
run counts as in flight belong to an app-server that is gone.

`Transport` — the connection to one app-server: the peer that writes to the socket
what it likes, takes what is written to it or not, hangs up or dies; `readLoop` that hands
replies to pending calls and notifications to a bounded queue and refuses requests; and
the calls, one at a time under `Client.mu`: registered, written, answered. It has actions
and no specification of its own: who calls, and who empties the queue, is `Session`.

`Session` EXTENDS `Transport` — the session of one run: the goroutines (`pc` says where each
is), `Controller.mu`, `Start` with its call of `Initialize` under the mutex before the
session is stored, `Stop`, the exit and the shutdown. What a goroutine does to the run
while it holds the mutex is in `Controller`; here a hold is a number of calls, a start or
a stop, and a release. The dispatcher is one of the goroutines: for `thread/started` it
calls the app-server before it takes the mutex. One server is started in a behaviour.

`Manager` — the app-servers of all runs over several daemons: processes from start to
death, `Manager.sessions`, one `observeExit` for each session with its callback, the
goroutine in `Controller.mu` that starts or stops, the end of the daemon's context that
kills what it started, `StopAll`, a crash anywhere, and what `stopOwnedAppServer` of the
next daemon finds: the recorded pid, and whoever answers at the run's socket. What is
said to a server is `Session`'s.

`Store` — run directories by file operations, and the three that work on them at the
same time: the holder of `Controller.mu`, a `DELETE`, and the recovery at start, which
takes the mutex for `Recover` but not for its list, for blocking a rootless run and for
deleting a completed one. `job` says what each is at; a crash stops all three between
any two operations and leaves the files.

`Daemons` — the processes `daemon serve` of one user from `ensureDaemon` to exit: opening
and locking the pid file, writing the pid, looking at the socket and removing a stale one,
bind and listen, and the deferred calls in their order; beside them the commands that
wait for a daemon, `daemon stop` and crashes. A file is named after the process that
created it, because the lock is on the file and not on its path. What a daemon does
between start and end is in the other modules, where there is one at a time.

`EngineProofs`, `ControllerProofs`, `SessionProofs`, `ManagerProofs`, `StoreProofs`,
`DaemonsProofs` — the theorems about each. Two more continue `ControllerProofs`, each on the
one before: `TransitionProofs` (a tree is handed over whole) and `ProgressProofs` (what a
transition waits for). The `MC` modules — symmetry for TLC.


| Code | Model |
|---|---|
| `Run.Status`, `RootThreadID`, `Recovering`, `BlockedReason`, `AppServerPID` | `status` (and `"deleted"`), `root`, `recovering`, `reason` (the class recovery looks at), `registered` |
| `Run.Transition` | `trans`, a record of phase, old and new root and tree handoff |
| `Run.Threads[t]` | `tstat`, `role`, `parent`, `progress`, `tools`, `due` at `t`; `"absent"` when not in the map |
| `Run.Handoffs[h]` | `hstat`, `hsource`, `howner` at `h` |
| deadlines | set or not; a deadline that is set may have passed at any time |
| `Outcome.Effects` and the call stack of `applyEffect` | `effects` |
| `Manager.sessions[run]` | `server`: none, up, or closed (notifications may still arrive) |
| `HandleNotification` between its load and `Execute` | `notice` (for the root's `thread/started`) |
| `RecoverPersistedRuns` between its list and its action | `boot` |
| `DELETE` between its check and the deletion | `deletion` |
| `SocketTransport.pending` and the channels in it; `Client.mu` | `pending`, `result`, `call`; `clientMu` |
| `SocketTransport.notifications`, and a notification `readLoop` cannot yet put there | `queue`, `hand` |
| an id on the wire, and the request it was given to | `id`, `nr` of a request |
| the session of one run: in `Manager.Start`, in the map, or neither | `session` |
| `Manager.sessions`, `Run.AppServerPID`, the processes | `sessions`, `recorded`, `proc` with `runOf` |
| `observeExit` and `OnExit` of a session | `observer` |
| the context of `serveDaemon`; the sessions `StopAll` has taken | `cancelled`; `closing` |
| `runs/<id>/`, `run.json`, `handoffs/`, `.pending-*.json` | `dir`, `json`, `files`, `temp` |
| a run in `Store` | revision, status (active and transitioning are `"busy"`), the handoffs it refers to |
| `FS.List` between two directories | `listing` |
| the file at `Layout.PIDFile`, an open `pidFile`, the pid in it | `pidFile`, `fd`, `text` |
| a lock on the pid file | `pc` in `Holding`, on `fd` |
| the socket at `Layout.DaemonSocket` | `socket`, the process that bound it |
| `ensureDaemon` and `daemon stop` in progress, and the pid that one read | `start`, `stop`, `victim` |

`life`, `again`, `aside` and `owed` of `Store`, `split` of `Daemons`, `stopped` and `killed` of
`Manager` and `lost` of `LostTools` are history for the properties; no action reads them,
but for `StartRun`, which takes an id that is new.

Left out of the data: turn ids, models, transcripts, prompts, the handoffs'
text, revisions, timestamps. Where the code refuses to go on without one of them
the command fails, as any command may. `Engine` and `Controller` start where `StartRun`
has persisted the run; `Store` has `StartRun` itself.

## Runs

Runs that check no liveness have symmetry over ids. Deadlock is checked in `MCManager`,
where some daemon can always be ended or restarted, and in no other: a run that is deleted
or stopped, with all its ids used up, rightly has nothing more to do, and neither has a
daemon that stopped.

| Run | Asks | Instance | Result |
|---|---|---|---|
| `MCEngine` | does the engine protect authority, quiet and ownership against any order of commands? | 3 threads, 2 handoffs, no tools, progress completed or none | holds, 850 thousand states |
| `MCRecovery` | worker and root rotation, with failing effects and blocks, exits, deadlines, late events and a crash anywhere; refinement of `RootLease` | 3 threads, 3 handoffs, 1 crash, `RescueMayFail` | holds, 570 thousand states |
| `MCCompletion` | tool calls against quiescence, completion against the rest of the tree, runs without a server, if blocks and lists succeed | 2 threads, 1 handoff, 1 tool, 1 crash, agents report completed | holds, 310 thousand states |
| `MCLiveness` | do transitions end, also when blocks and lists fail? | 2 threads, 1 handoff, 1 tool, 1 crash, agents report completed, `RescueMayFail` | holds, 510 thousand states |
| `LostToolHoldsTree` | does a transition wait for executing tools only? | 2 threads, 1 handoff, 1 tool | violated, see Findings |
| `MCSession` | does every reply and notification go where it belongs, does every call end and the mutex come free? | the dispatcher and one other goroutine, queue and socket of 1, 2 notifications, 3 calls, the first of them `Initialize` | holds, 140 thousand states |
| `StuckDaemon` | does whoever waits for the mutex get it? | the same, 3 notifications, 2 calls | violated, see Findings |
| `MCManager` | is a stop silent, does an old exit leave a new session alone, is no server left behind or doubled? | 2 runs, 3 servers, any number of daemons, no late sockets | holds, 250 thousand states |
| `ShutdownBlocksRun` | does a shutdown leave the runs unblocked? | the same | violated, see Findings |
| `MCStore` | are runs and handoffs ever lost, torn, overwritten or passed over? | 2 runs in one workspace, 1 handoff, 3 revisions, 1 crash | holds, 1.3 million states |
| `PoisonedList` | is every unfinished run recovered? | 2 runs in two workspaces, 1 revision, 1 crash | violated, see Findings |
| `MCDaemons` | does one daemon work, reachable and stoppable, leave nothing behind, and does a command that needs one get one? | 3 processes, 1 fault | holds, 570 thousand states |

The bounds. A rotation involves an old root, a replacement and the workers
between them: three threads give one of each. A full transition uses one
handoff per worker and one for the root; with three a recovery can generate
again after a first transition. Two threads are a root with a worker or with its
replacement, which is what completion, exits and tools are about; that what `MCCompletion`
finds of safety holds for more threads is proved. One tool call in flight is enough to hold up
quiescence and to end late. Ids run out: an action that needs a fresh one is then
disabled, while the failure that leads to a blocked run stays possible, so no
behaviour gets stuck in a way the code does not. `MaxCrashes` bounds crashes.
Three servers are two for one run and one for another, or three generations for
one: an old one, one in the way and a new one. `LateSockets` says whether a server that a
dead daemon started may bind its socket only when the next daemon is at work; `MCManager`
and the theorem exclude it, for a reason given under Findings.
The circular wait of `Session` takes a full queue, one notification in the hand of
`readLoop` and one at the dispatcher: three notifications with a queue of 1, as in
`StuckDaemon`; two are enough to fill the queue and to be swapped or lost. A second
call is what a late reply could be mistaken for; with `Initialize` that makes three. In
`Store` a save that is overtaken takes two further revisions, as does a completed run that
is blocked, and a race for the workspace two runs; the crash may hit anything but the
recovery that follows it, and what a second one adds is left to the proofs, which cover
any number. In `Daemons` one process ends while a second has opened its pid file and a third
creates a new one; with a fault as well, one leaves its files to two that start together. The processes are alike, so `StartSucceeds` is checked of one of them.
`Reports` names the kinds of progress agents report in an instance.

What the properties say is in the comment above each of them. In short:
`SingleActiveRoot`, `ActiveRunHasItsRoot`, `AuthorityMovesByAcceptance` and
`ImplementsRootLease` are about who may drive the run; `QuietTree`, `QuietTools`,
`TreeHandedOver`, `SuccessorOwnsTree` about a tree that is at rest, whole and
owned when it is replaced; `WorkNotDropped`, `HandoffLedger`,
`EndedThreadsStayEnded`, `CompletionSettlesAll` about work and handoffs over the
run's whole history; `NoAbandonedTransition`, `TransitionEnds`,
`UnservedRunIsNoticed` about going on. Of a session, `AnswerFits`, `PendingAreWaiting`
and `NotificationsInOrder` are about what is delivered, `MutexComesFree` and
`CallsEndWithConnection` about nobody waiting for ever. Of the app-servers, `StopIsSilent`
and `OnlyTheDeadLeave` are about whose exit is reported and forgotten, `NoOrphanServer` and
`OneServerPerRun` about processes. Of the store, `CreatedRunsStay` and `HandoffsOnDisk` are about
what a crash or a race leaves on disk, `NoLostUpdate`, `OneBusyRun` and `NothingOwed`
about those who read it and act later. Of the daemons, `OneAtWork`, `ServingIsReachable`
and `PidFileNamesServer` are about who has the lock, the socket and the pid file,
`NothingLeftBehind` and `StartSucceeds` about what the next one finds.

Some of these name their exceptions, and those are facts about the code; the run or the
paragraph under Findings that shows one is given in brackets. `MutexComesFree` and
`CallsEndWithConnection` exempt the circular wait (`StuckDaemon`). `NoOrphanServer` exempts
a daemon that ends while a goroutine is starting or stopping the server, or has stored it
after the sweep: `Start` puts the session into the map last, so `StopAll` does not see it.
`StopIsSilent` speaks of sessions that were taken out of the map, not of servers that the
daemon's context kills before (`ShutdownBlocksRun`). `OneServerPerRun` holds if no socket is
late (*late sockets*). `NoLostUpdate` exempts the runs that the recovery at start blocks
without the mutex (*lost update*). `HandoffsOnDisk` exempts a run whose deletion ever began: a
save that races with it may bring `run.json` back without the handoffs. `OneBusyRun` exempts
runs that became busy again: `resumeRun`, `recoverRun` and a late registration do not look
at the workspace. `NothingOwed` speaks of a recovery that got through its list
(`PoisonedList`), and counts a run as dealt with that was stopped after the listing and
recovered all the same (*stale list*). The first three properties of the daemons exempt what
happens after a process has locked a pid file that its owner removed (*two daemons*), and
`StartSucceeds` a start while a daemon is on its way out (*start while ending*).

`RootLease` and `TransitionEnds` allow any block, also the wrong one of a run that has a
new app-server by then (*old exit*). `QuietTools` exempts recovery: `recoverRun`
keeps the in-flight tool ids of a process that is gone, and the tree they belonged to is
stopped, not asked. For the same reason `NoAbandonedTransition` says that a transition
waits for a tool call the run counts as in flight, not for one that somebody executes
(`LostToolHoldsTree`). It is checked with a rescue that does not fail; if that fails as well,
what `MCLiveness` shows remains: the deadline ends the transition. `UnservedRunIsNoticed`
is checked with a rescue that does not fail, because the callback's and the recovery's
block are tried once, and exempts a run whose `BlockedReason` is stale because its root was
registered after it was stopped or blocked.

### Fairness

`MCLiveness` and `MCCompletion` assume: the goroutine holding the mutex goes on (weak fairness of
`Apply \/ Fail`: a call to the app-server or the generator returns or fails);
whoever waits for the mutex gets it (strong fairness of `CheckTimeouts`,
`HandleAppServerExit`, `RecoverOnStart`: Go's `sync.Mutex` hands itself to a
waiter that starves); the monitor ticks every minute (`main.go:654`), and of its ticks one
must now and then list the runs and block this one without an error: a check that fails
at `controller.go:89` changes nothing, and the next tick tries again; the
goroutine that recovers at start runs; and a crashed daemon is restarted by the
next command (`ensureDaemon`). Nothing is assumed of agents, tools and users.
A generator that never returns would hold the mutex for ever: that is outside
this assumption and listed as a hazard.

`MCSession` and `StuckDaemon` make the assumption about calls precise: goroutines run
(weak fairness), a mutex goes to whoever waits for it long enough (strong, as above), an
app-server that lives takes what is written to it and answers its requests once it can
write, one that is started or killed does start or die, and a daemon that stops is gone
in the end. The app-server may die or hang up at any time and is then not waited for. The
contexts of calls need not end: the monitor's, the dispatcher's and the recovery's have no
deadline. What is found is that `Controller`'s assumption holds but for the circular wait.

`PoisonedList` assumes that the three parties go on and that the recovery gets the mutex;
nothing of requests or crashes.

`MCDaemons` assumes that daemon processes run and that a command that waits
polls (weak fairness): a daemon that may lock, probe or bind does so in the end. The
8 seconds after which `ensureDaemon` gives up are left out, which only favours the command.
Nobody need ever start or stop a daemon.

## Findings

Each is a run that checks one property and that TLC must find violated.

1. `StuckDaemon`: `readLoop` puts notifications into a queue of 256 and waits when it is
   full (`socket.go:121`). If the dispatcher then waits for the controller's mutex, or
   holds it, and the holder waits for a reply that is behind them on the socket, nobody
   goes on; the monitor that enforces the deadlines of `spec.md:93` waits for the same
   mutex. Only the caller's own context ends it, and those of the dispatcher, the monitor
   and the recovery never end; the death of the app-server does not: `observeExit`
   leaves the transport open (`manager.go:192`), and `readLoop`, which would see the end of
   the connection, is the one that waits (`socket.go:121`).
2. `PoisonedList`: one directory without `run.json` makes `List` fail for all runs
   (`fs.go:94`), and the recovery at start gives up (`recovery.go:21`), against `spec.md:97`.
   A crash inside `Create` or `Delete` leaves such a directory for good; a `StartRun` that
   is creating one while the daemon lists is enough for that start.
3. `LostToolHoldsTree`: nothing but the end of a tool removes it from `InFlightToolIDs`;
   `recoverRun` (`engine.go:166`) and `completeRootTransfer` (`engine.go:570`) keep the calls
   of an app-server that is gone, and `hasInFlightTools` (`engine.go:144`) counts those of all
   threads. The next transition then waits, up to its deadline, for a call that nobody
   executes, although `README.md:85` speaks of "currently executing" ones.
4. `ShutdownBlocksRun`: app-servers live in the context that SIGTERM ends (`main.go:574`,
   `manager.go:154`), and `StopAll` comes later. `observeExit` may find the killed one still in
   the map, and its callback, which has a context of its own (`main.go:615`), blocks the run.
   The next daemon does not recover a run blocked for this reason, against `spec.md:97`.

More facts were seen while modelling. The models have all of these behaviours, and the
properties that would forbid them name them as exceptions or say less; no run is spent on
showing them.

- *Stopped run revived.* `thread/started` decides on a role from a run read before the mutex
  (`controller.go:421`) and `registerThread` sets the run active (`engine.go:766`): a run
  that was stopped in between comes back, although `engine.go:317` calls it terminal.
- *Deleted with its server.* `DELETE` (`handler.go:169`) takes no lock; between the save of
  the completed run and the effect that stops its app-server it removes the directory, and
  the server is left running; `spec.md:96` gives the opposite order.
- *Stale list.* The recovery at start decides by the status it listed (`recovery.go:42`); a
  run the user stops in between is recovered, and so active again. `spec.md:96` has stopped
  runs "retained until explicitly deleted".
- *Old exit.* The exit callback knows the run and not the session (`controller.go:124`). A
  callback that waits for the mutex while the run is recovered then blocks a run that is
  served, for an app-server that "exited unexpectedly" before.
- *Late sockets.* A daemon killed between starting an app-server and the server's bind
  (`manager.go:159`) leaves a process with neither a recorded pid nor a socket, and the next
  daemon's `stopOwnedAppServer` (`recovery.go:114`) lets a second one start. With
  `LateSockets = TRUE` TLC finds `OneServerPerRun` violated.
- *Lost update.* The recovery at start blocks a rootless run without the mutex
  (`recovery.go:39`); `Save` checks the revision and renames in two steps (`fs.go:56`), so
  this save and a command's can both pass and one is lost, without "run revision conflict".
- *Two daemons.* `serveDaemon` removes the pid file while it holds its lock (`main.go:600`).
  A process that opened it before locks the removed file, the next one a new file, and
  if the second looks at the socket of the first between its `bind` and its `listen` it
  removes it as stale (`server.go:69`): both serve, each with app-servers for the same
  runs, although `main.go:588` has the second end.
- *Start while ending.* A daemon closes its socket before it stops the app-servers and
  unlocks (`server.go:50`, `main.go:617`). A command that finds nobody at the socket in between
  spawns a daemon that fails to lock (`main.go:587`), and polls for one that nobody starts;
  `README.md:39` has it start the daemon "when needed". `daemon stop` reports `stopped` as
  soon as the socket is gone, so a `daemon start` right after it may meet this.

`turnEnded` (`engine.go:603`) does not look at the run's status, so a turn that ends in a
blocked run starts the next one; `spec.md:30` says turns start "while the run is active".

A root transfer retires the owner of an accepted handoff (`engine.go:570`), and since only
ready ones are listed for the successor (`controller.go:228`) it can be resolved only after
a recovery offers it again. The same transfer clears the deadline of a worker whose handoff
still waits for acceptance (`engine.go:590`), so that acceptance has no timeout.

## Proofs

The theorems hold for every finite set of threads and all sets of handoffs,
tools and reports (`EngineAssumption`, `ControllerAssumption`: the empty ids are not
ids, reports are among the three kinds), for every finite set of goroutines and all
positive bounds (`TransportAssumption`: `Nobody` is not a goroutine), for all sets of runs
and servers (`ManagerAssumption`: `Nothing` is none of them), for all sets
of runs and all bounds on revisions and crashes (`StoreAssumption`: a missing file is
not a version of a run), and for all sets of daemon processes (`DaemonsAssumption`:
`Nobody` is none of them).

*The engine.* None of the four safety invariants is inductive by itself. A run that
is blocked half way through a transition keeps it, and may be resumed: that the
resumed run is whole needs `LeavingRootRests` (a root that is active takes part in no
transition). The transfer activates the replacement: that it becomes the only active
root needs `RootIsRoot`, `ReplacementIsRoot` and `TransitionOfRoot` (the two are
different threads, both with the root's role, and the transition is about the
current root). A late registration makes a run active: `NoRootNoTransition` says
that a run without a root has no transition to be caught in. These facts with the
four invariants are `Succession`, and `IInv` is `Succession` with the well-formedness
of the run (`PersistedOK`, `RecordsOK`). There is one lemma per command, `XStep`: the command
with any continuation `rest` keeps `IInv`. `CommandStep` combines them,
`Invariance` is `Spec => []IInv`, and the invariants, `TypeCorrect` and the action
property `AuthorityMoves` follow.

*The controller.* Because the command lemmas hold for every `rest`, they apply to
the commands that effects execute. `SentIsCommand` shows that each step of the
controller that changes the run is a command of the engine, an unlocked block or
a deletion; `CInv` adds `DaemonOK`, the discipline of the mutex.
`ControllerInvariance`, `ControllerTypeCorrect`, `ControllerQuietTree`,
`ControllerSuccessorOwnsTree` and `ControllerAuthority` follow.

*The history.* `EndedThreadsStayEnded`, `HandoffLedger` and `CompletionSettlesAll` speak of a
single step, and `CInv` is enough for them: `EndedStep`, `HandoffStep` and `CompletedBy` say
what one command may do to a thread, to a handoff and to the run, and `SentOrWritten` that a
step of the controller is a command or leaves threads and handoffs alone. That the
completing root is the only active one is `SingleActiveRoot`.

*The hand-over.* `QuietTools`, `TreeHandedOver` and `WorkNotDropped` need more, because the
engine does not record which threads still have to hand over: that is in the effects that
`applyEffect` has yet to apply. `ContinuationStep` and `ApplyStep` describe every step of the
controller by what it does to this continuation. Two invariants relate it to the run.
`StopsAreRecorded`: a thread that is to be stopped has a handoff on record; `WorkNotDropped`
follows. `WholeTreeFirst`: in front of the generation of the root's handoff there is, for
every other live thread, its own generation or its stop; so when the root's is recorded
nobody else is live. `HandOver` joins it to the two invariants, since a tool call or a
thread that starts in the middle would break the order: `HandingOverSent` shows that while a
tree is handed over the clients can send late tool reports, the acceptance of the tree
handoff and resolutions only. `OrderCovers` is the one place that counts: a permutation of the
tree names all of it (`FS_PigeonHole`), whichever order `treeQuiesced` happens to take.

*What a transition waits for.* `ControllerNoAbandonedTransition` rests on `Moving`: `MoverLeft`
names for each phase the effect that ends it and says it is still ahead, unless the phase
waits for a tool call or a replacement; `MonitorBlocked` says that the two procedures that
give up on an error, the timeout check and the exit callback, have blocked the run before
they do; `ToolsOfThreads` that tools in flight belong to threads of the run, so that a tool
that holds up quiescence is one whose end could be reported. The theorem has a hypothesis,
`RescueMayFail = FALSE`, and needs it: `Execute` and `recover` drop the error of the block
that follows a failed effect (`controller.go:171`, `controller.go:82`), and if that fails as
well the effects are gone while the run stays in transition, until its deadline. The bound
on crashes plays no part. That the tool call it names is still executed by somebody is not
proved, because it is false (`LostToolHoldsTree`).

*The refinement.* `ControllerImplementsRootLease` proves that `ControllerSpec`
implements `RootLease!LeaseSpec` under the mapping `Lease`: `LeaseStep` maps every
command to a lease action or a stutter, with a lemma for each group of commands.
It rests on `CInv`, chiefly on `TransitionOfRoot` (the root that leaves is the holder)
and on a replacement being a fresh id.

*The session.* Three invariants, each inductive on its own or on the ones before.
`Matching` follows the ids: `Client.mu` leaves at most one call under way (`Calling`), and
`Numbered` says that what was asked and what is on the wire still carries the number of its
call, so a late reply fits nobody else (`AnswersFit`, `PendingCallsWait`). `Typed` adds the bounds; that a call never exceeds its bound counts
those who wait for `Client.mu` (`CallBound`). `Delivery` is about notifications: the queue
goes on from the last dispatched, the hand of `readLoop` from the queue, and the wire brings the
rest. It is stated element by element, with the set of places at which the wire has a
notification, so that no step needs an induction over a filtered sequence; `Unstarted`,
that a connection which is not open yet has carried nothing, is what it needs besides
(`WrittenInOrder`, `ReadInOrder`, `QueueInOrder`, then `DeliveredInOrder`).

*The app-servers.* `Places` says where a server can be. `BeingStarted`: one that is being
started is unknown to the map and to observers until it is stored. `Mapped`: the servers in
the map are this daemon's, each for its own run, and each has an observer that has not
reported. `Known` and `Located`: a server of this daemon that runs is in the map, in the
hands of the holder of the mutex, or among those that `StopAll` closes, and only those whose
observer watches can be in the map. A session that was stopped is in none of these places
that lead to a report, whatever session its run has by then (`StopsAreSilent`), and a
session leaves the map for its own death or its own stop (`OnlyDeadSessionsLeave`). `Single`
is for one process per run, under `LateSockets = FALSE`: `RoomForOne` says that a holder that
was cleared to start has no running process of its run beside it, and `Booting` that a
process which cannot be found at its socket yet belongs to the holder that starts it
(`OneServerForARun`).

*The store.* No invariant of the store is inductive, because each of the three parties
acts on what it read earlier. `Fits(p)` says what party `p` still relies on: its run was
created and how far it got (`LifeFits`), what it will save is the next version of what it
loaded (`VersionFits`), that still refers only to handoffs that are there (`HandoffsFit`),
and nobody has saved the run meanwhile (`SaveFits`, but for the runs blocked beside the
mutex). `Spares` says what the others' steps leave alone, and `OthersFit` that this is
enough, so that each action has to be looked at for its own party and for the disk only.
`Dealt` adds what the recovery still owes, `Busy` who may make a run busy: a list that a
creation takes names every rival, because nobody but the recovery, which has the mutex
or blocks, saves meanwhile.

*The daemons.* `OneAtWork` is not inductive: that nobody else is at work follows from the
lock only while all locks are on the same file, so `OnThePath` says that whoever is at work
has locked the file at the path, for as long as no removed file was locked. With it the
socket and the path are touched by one process at a time (`SocketIsOurs`); that a pid
stays in its file needs the lock alone (`PidIsOurs`). `NothingLeftBehind` holds even after a
removed file was locked: a pid file at the path always has a user who will remove it
(`PidFileHasUser`), because one that fails to lock leaves it to the holder, and a holder
that has removed its file cannot meet it again (`CreatedOnce`).

*Only model-checked.* Every invariant and every action property that a passing run checks
is proved. Liveness is outside the prover and stays with TLC: `TransitionEnds`,
`UnservedRunIsNoticed`, `MutexComesFree`, `CallsEndWithConnection` and `StartSucceeds`. So do
the four sentences of the documentation that the code violates: there is nothing to prove.

## Not modelled

- The terminal UI, transcripts and token counts: they read and show, or hold data no
  property tells apart.
- `codexrpc/process.go`, a second transport over pipes: only its own test calls `Launch`.
- Reuse of pids: `verifyDaemonProcess` looks at the executable and the command line of the
  process that the pid file names; in `Daemons` and `Manager` a pid names one process for ever. Signals
  come from `daemon stop` only.
- Power failure: a crash is the end of the daemon process, the files stay as the system
  calls left them, so what `fsync` adds is not visible.
- The inside of the handoff generator (`codex exec`, schema, validation): it succeeds or
  fails. In `Controller` so does `stopOwnedAppServer`, which is modelled in `Manager`.
- In `Manager`, descendants of an app-server that outlive it, a SIGKILL without effect, and
  the time between a signal and the death it causes.
- The gap between `PreToolUse` letting a tool go and `item/started` reporting it: the daemon
  knows nothing of the tool in between.
- The HTTP endpoint also decodes the engine's internal commands (`commands.go`); no client in
  the repository sends them, so the controller's model does not, and `MCEngine` checks them.
- `Controller` and `Session` model one run. What several runs share is in `Store` (the
  workspace and the list), in `Manager` (the shutdown) and, for the mutex, in `Session`'s requests, which may be about
  any run.

## Plan

Done: `Engine`, `Controller`, `RootLease`, `LostTools`, `Transport`, `Session`, `Manager`, `Store`,
`Daemons`, and a proof of every safety property their passing runs check. What is left to
prove is between the modules: that the holds of `Session` do to the mutex what `Controller` assumes of it, and that the
saves of `Store` are those of the controller's commands. Eight modules hold theorems; a
further proof extends one of them.
