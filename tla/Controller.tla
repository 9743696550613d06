----------------------------- MODULE Controller -----------------------------
(***************************************************************************)
(* The daemon's controller for one run (internal/daemon): it executes the  *)
(* engine's commands under one mutex and, still holding it, applies the    *)
(* effects they return, depth first, against the run's app-server and the  *)
(* handoff generator.  `effects` is therefore the continuation of the      *)
(* goroutine that holds the mutex, and `caller` says which procedure it is *)
(* in.  A crash drops the continuation; the run it persisted stays.        *)
(*                                                                         *)
(* The app-server, its hooks and its MCP server are the environment: they  *)
(* may send any notification or request at any time, late ones included.   *)
(***************************************************************************)
EXTENDS Engine

CONSTANTS
  RescueMayFail, \* what helps a run in trouble may fail as well: listing the
                 \* runs, loading this one, blocking it
  MaxCrashes     \* daemon crashes in one behaviour

ASSUME ControllerAssumption ==
  /\ RescueMayFail \in BOOLEAN
  /\ MaxCrashes \in Nat

VARIABLES
  caller,       \* who holds Controller.mu, "idle" when it is free
  server,       \* the app-server the daemon manages for the run
  exited,       \* an exit callback of a past app-server waits for the mutex
  boot,         \* RecoverPersistedRuns, "down" when no daemon runs
  deletion,     \* a DELETE request has passed its check of the run's status
  notice,       \* the thread HandleNotification has decided to register as root
  crashes       \* daemon crashes so far

daemonVars == <<server, exited, boot, deletion, notice, crashes>>
controllerVars == <<vars, caller, daemonVars>>

Caller == {"idle", "execute", "recover", "monitor"}
\* "closed": no longer managed, its queued notifications may still arrive
Server == {"none", "up", "closed"}
Boot == {"down", "list", "cleanup", "block", "recover", "done"}

Up == boot # "down"
Idle == Up /\ caller = "idle"

\* The mutex is released once the last effect is applied.
HeldBy(procedure) == caller' = IF effects' = <<>> THEN "idle" ELSE procedure

\* Mutant of Continue: the mutex is never released.
KeepMutex == caller' = caller

Continue == caller' = IF effects' = <<>> THEN "idle" ELSE caller

ControllerInit ==
  /\ Init
  /\ caller = "execute"
  /\ server = "none" /\ exited = FALSE /\ boot = "done" /\ deletion = FALSE
  /\ notice = NoThread /\ crashes = 0

-----------------------------------------------------------------------------
(* Controller.Execute: the commands of the daemon's clients *)

\* Notifications of the app-server, dispatched one at a time.
Notification ==
  \E t \in Threads :
    \/ \E p \in Threads : RegisterWorker(t, p, <<>>)
    \/ ThreadTurnStarted(t, <<>>)
    \/ \E u \in Tools : ToolStarted(t, u, <<>>) \/ ToolEnded(t, u, <<>>)
    \/ TurnEnded(t, <<>>)

WaitingOnUserInput == BlockRun("other", <<>>)

\* Requests of the PreCompact hook, of the MCP server and of the command line.
Request ==
  \/ \E t \in Threads :
       \/ BeginCompaction(t, <<>>)
       \/ \E p \in Reports : ReportProgress(t, p, <<>>)
       \/ \E h \in Handoffs : AcceptHandoff(h, t, <<>>) \/ ResolveHandoff(h, t, <<>>)
  \/ StopRun(<<>>)
  \/ FinalizeReportedCompletion(<<>>)

Execute ==
  /\ Idle
  /\ \/ server # "none" /\ (Notification \/ WaitingOnUserInput)
     \/ Request
  /\ HeldBy("execute")
  /\ UNCHANGED daemonVars

\* thread/started reads the run to choose the thread's role before it takes
\* the mutex: the first parentless thread of a starting run is its root.
DecideRoot(t) ==
  /\ server # "none" /\ notice = NoThread
  /\ status = "starting" /\ root = NoThread /\ tstat[t] = "absent"
  /\ notice' = t
  /\ UNCHANGED <<vars, caller, server, exited, boot, deletion, crashes>>

RegisterDecidedRoot ==
  /\ Idle /\ notice # NoThread
  /\ notice' = NoThread
  /\ \/ RegisterRoot(notice, <<>>)
     \/ ~(Exists /\ tstat[notice] = "absent" /\ root = NoThread) /\ UNCHANGED vars
  /\ HeldBy("execute")
  /\ UNCHANGED <<server, exited, boot, deletion, crashes>>

\* Controller.recover reads the run and completes its threads' metadata; what
\* it still has to do then is the effect "recover_run".
BeginRecovery ==
  /\ effects' = <<Effect("recover_run", root)>>
  /\ caller' = "recover"
  /\ UNCHANGED persisted

\* Controller.Execute(ResumeRun): a run whose app-server is gone is recovered.
Resume ==
  /\ Idle
  /\ \/ server = "up" /\ ResumeRun(<<>>) /\ HeldBy("execute")
     \/ /\ server # "up" /\ status = "blocked"
        /\ RootActive
        /\ BeginRecovery
  /\ UNCHANGED daemonVars

\* Mutant of DeadlinePassed: only the deadlines of threads are watched.
ThreadDeadlinePassed == status = "active" /\ \E t \in Threads : due[t]

\* CheckTimeouts, once a deadline that is set has passed.  A tick that cannot
\* list the runs or block this one does nothing and leaves it to the next.
DeadlinePassed ==
  \/ status = "transitioning"
  \/ status = "active" /\ \E t \in Threads : due[t]

CheckTimeouts ==
  /\ Idle /\ DeadlinePassed
  /\ BlockRun("other", <<>>)
  /\ HeldBy("monitor")
  /\ UNCHANGED daemonVars

-----------------------------------------------------------------------------
(* Controller.applyEffect *)

\* The effect e is next and no other engine command is needed to apply it.
Applied == effects' = Tail(effects) /\ UNCHANGED persisted

\* An id that the app-server has never handed out before.
FreshThread(t) == tstat[t] = "absent" /\ t # notice

StartAppServer ==
  /\ server # "up" /\ server' = "up"
  /\ RegisterAppServer(Tail(effects))
  /\ UNCHANGED <<exited, boot, deletion, notice, crashes>>

GenerateHandoff(t) ==
  /\ Registered(t)
  /\ LET scope == IF role[t] = "root" THEN "tree" ELSE "agent"
     IN \E h \in Handoffs : RecordHandoff(h, t, scope, Tail(effects))
  /\ UNCHANGED daemonVars

\* A recovered thread has no app-server to be interrupted and archived in.
StopThread(t) ==
  /\ recovering \/ server = "up"
  /\ ThreadStopped(t, Tail(effects))
  /\ UNCHANGED daemonVars

\* Mutant of QuiesceTree: the tree is taken to be quiet at once.
QuiesceAtOnce ==
  /\ server = "up"
  /\ \E order \in SetToSeqs(UnfinishedTree) : TreeQuiesced(order, Tail(effects))
  /\ UNCHANGED daemonVars

\* With a tool still in flight the effect is dropped: its end brings it back.
QuiesceTree ==
  /\ \/ ToolsInFlight(tools) /\ Applied
     \/ /\ ~ToolsInFlight(tools) /\ server = "up"
        /\ \E order \in SetToSeqs(UnfinishedTree) : TreeQuiesced(order, Tail(effects))
  /\ UNCHANGED daemonVars

StartRootReadOnly ==
  /\ server = "up"
  /\ \E t \in Threads :
       /\ FreshThread(t)
       /\ RegisterReplacementRoot(t, <<Effect("start_root_turn", t)>> \o Tail(effects))
  /\ UNCHANGED daemonVars

RetireTree ==
  /\ server = "up"
  /\ CompleteRootTransfer(Tail(effects))
  /\ UNCHANGED daemonVars

\* StartTurn against the app-server, then its turn id is recorded.
StartTurn(t) ==
  /\ server = "up"
  /\ ThreadTurnStarted(t, Tail(effects))
  /\ UNCHANGED daemonVars

\* SteerTurn, UpdateThreadSettings and the interrupts of BlockTree only call
\* the app-server.
CallAppServer ==
  /\ server = "up" /\ Exists
  /\ Applied
  /\ UNCHANGED daemonVars

StopAppServer ==
  /\ Exists
  /\ server' = IF server = "up" THEN "closed" ELSE server
  /\ Applied
  /\ UNCHANGED <<exited, boot, deletion, notice, crashes>>

SetDeleted ==
  /\ Exists
  /\ status' = "deleted"
  /\ UNCHANGED <<root, recovering, reason, registered, trans, threadVars, handoffVars>>

DeleteRun ==
  /\ SetDeleted
  /\ effects' = Tail(effects)
  /\ UNCHANGED daemonVars

\* The rest of Controller.recover: the prior app-server stopped, which needs
\* its recorded pid, a new one started and recorded, and the run rewritten.
Recover ==
  /\ registered /\ server # "up" /\ server' = "up"
  /\ \E order \in SetToSeqs(UnfinishedWorkers) : RecoverRun(order, Tail(effects))
  /\ UNCHANGED <<exited, boot, deletion, notice, crashes>>

Apply ==
  /\ Up /\ effects # <<>>
  /\ LET e == Head(effects) IN
       \/ e.kind = "start_app_server" /\ StartAppServer
       \/ e.kind = "generate_handoff" /\ GenerateHandoff(e.thread)
       \/ e.kind = "stop_thread" /\ StopThread(e.thread)
       \/ e.kind = "quiesce_tree" /\ QuiesceTree
       \/ e.kind = "start_root_read_only" /\ StartRootReadOnly
       \/ e.kind \in {"start_root_turn", "start_next_turn"} /\ StartTurn(e.thread)
       \/ e.kind = "retire_tree" /\ RetireTree
       \/ e.kind \in {"steer_parent", "grant_sandbox", "block_tree"} /\ CallAppServer
       \/ e.kind = "stop_app_server" /\ StopAppServer
       \/ e.kind = "delete_run" /\ DeleteRun
       \/ e.kind = "recover_run" /\ Recover
  /\ Continue

-----------------------------------------------------------------------------
(* An effect that fails, as any load, save or external call may *)

Abandon == effects' = <<>> /\ caller' = "idle" /\ UNCHANGED persisted

\* The app-server as a failed effect leaves it: started but not recorded.
ServerAfterFailure ==
  IF Head(effects).kind = "start_app_server" THEN {server, "up"} ELSE {server}

\* Execute blocks the run and interrupts its tree; an error of that is dropped.
FailExecute ==
  /\ caller = "execute"
  /\ server' \in ServerAfterFailure
  /\ \/ status # "completed" /\ BlockRun("other", <<>>) /\ caller' = "monitor"
     \/ (status \in {"completed", "deleted"} \/ RescueMayFail) /\ Abandon
  /\ UNCHANGED <<exited, boot, deletion, notice, crashes>>

\* recover stops the app-server it may have started and blocks the run.
FailRecover ==
  /\ caller = "recover"
  /\ server' = IF server = "up" THEN "closed" ELSE server
  /\ \/ SetBlocked("recovery") /\ effects' = <<>> /\ caller' = "idle"
     \/ (~Exists \/ RescueMayFail) /\ Abandon
  /\ UNCHANGED <<exited, boot, deletion, notice, crashes>>

\* CheckTimeouts, HandleAppServerExit and the block after a failure give up.
FailMonitor ==
  /\ caller = "monitor"
  /\ Abandon
  /\ UNCHANGED daemonVars

Fail ==
  /\ Up /\ effects # <<>>
  /\ FailExecute \/ FailRecover \/ FailMonitor

-----------------------------------------------------------------------------
(* What happens beside the mutex: the app-server exits, a user deletes the  *)
(* run, the daemon crashes, and a new daemon looks at what it finds         *)

AppServerExits ==
  /\ server = "up"
  /\ server' = "closed"
  /\ exited' = TRUE
  /\ UNCHANGED <<vars, caller, boot, deletion, notice, crashes>>

HandleAppServerExit ==
  /\ Idle /\ exited
  /\ exited' = FALSE
  /\ \/ /\ status \in {"completed", "stopped", "blocked", "deleted"} \/ RescueMayFail
        /\ UNCHANGED vars
     \/ /\ status \notin {"completed", "stopped", "blocked", "deleted"}
        /\ BlockRun("other", <<>>)
  /\ HeldBy("monitor")
  /\ UNCHANGED <<server, boot, deletion, notice, crashes>>

\* DELETE /v1/runs/{id} does not take the mutex: it looks at the status, then
\* removes the directory whatever has become of the run.
DeleteRequest ==
  /\ Up /\ ~deletion
  /\ status \in {"completed", "stopped"}
  /\ deletion' = TRUE
  /\ UNCHANGED <<vars, caller, server, exited, boot, notice, crashes>>

DeleteRequested ==
  /\ deletion /\ deletion' = FALSE
  /\ SetDeleted \/ UNCHANGED persisted
  /\ UNCHANGED <<effects, caller, server, exited, boot, notice, crashes>>

Crash ==
  /\ Up /\ crashes < MaxCrashes
  /\ crashes' = crashes + 1
  /\ boot' = "down" /\ effects' = <<>> /\ caller' = "idle"
  /\ server' = "none" /\ exited' = FALSE /\ deletion' = FALSE /\ notice' = NoThread
  /\ UNCHANGED persisted

Restart ==
  /\ boot = "down"
  /\ boot' = "list"
  /\ UNCHANGED <<vars, caller, server, exited, deletion, notice, crashes>>

\* Mutant of RecoverableOnStart: only half-done transitions are picked up.
TransitionOnStart == status = "transitioning"

RecoverableOnStart ==
  \/ status \in {"starting", "active", "transitioning"}
  \/ status = "blocked" /\ reason = "recovery"

\* RecoverPersistedRuns decides on the runs as they are listed, while the
\* daemon already serves requests.  A list that fails ends it.
ListRuns ==
  /\ boot = "list"
  /\ \/ RescueMayFail /\ boot' = "done"
     \/ boot' = CASE status = "completed" -> "cleanup"
                  [] RecoverableOnStart /\ root = NoThread -> "block"
                  [] RecoverableOnStart /\ root # NoThread -> "recover"
                  [] OTHER -> "done"
  /\ UNCHANGED <<vars, caller, server, exited, deletion, notice, crashes>>

\* A completed run: its app-server is stopped and its directory removed; an
\* error leaves it for the next start.
RemoveCompleted ==
  /\ boot = "cleanup"
  /\ boot' = "done"
  /\ SetDeleted \/ UNCHANGED persisted
  /\ UNCHANGED <<effects, caller, server, exited, deletion, notice, crashes>>

\* A run without a root cannot be recovered: blocked without the mutex, an
\* error of that is ignored.
BlockRootless ==
  /\ boot = "block"
  /\ boot' = "done"
  /\ \/ SetBlocked("other")
     \/ (~Exists \/ RescueMayFail) /\ UNCHANGED persisted
  /\ UNCHANGED <<effects, caller, server, exited, deletion, notice, crashes>>

RecoverOnStart ==
  /\ Idle /\ boot = "recover"
  /\ boot' = "done"
  /\ BeginRecovery
  /\ UNCHANGED <<server, exited, deletion, notice, crashes>>

Daemon ==
  \/ AppServerExits \/ HandleAppServerExit \/ DeleteRequest \/ DeleteRequested
  \/ Crash \/ Restart
  \/ ListRuns \/ RemoveCompleted \/ BlockRootless \/ RecoverOnStart

ControllerNext ==
  \/ Execute
  \/ (\E t \in Threads : DecideRoot(t)) \/ RegisterDecidedRoot
  \/ Resume
  \/ CheckTimeouts
  \/ Apply \/ Fail
  \/ Daemon

ControllerSpec == ControllerInit /\ [][ControllerNext]_controllerVars

\* Fairness.  The goroutine that holds the mutex goes on (the app-server and
\* the generator answer or fail).  The mutex is handed to whoever waits for it
\* (sync.Mutex does not starve a waiter), so the monitor's tick, an exit
\* callback and the recovery at start get their turn.  Of the monitor's ticks
\* one must now and then list the runs and block this one without an error, in
\* SF(CheckTimeouts).  The daemon is restarted.  Nothing is assumed of agents
\* and users.
Fairness ==
  /\ WF_controllerVars(Apply \/ Fail)
  /\ SF_controllerVars(CheckTimeouts)
  /\ SF_controllerVars(HandleAppServerExit)
  /\ SF_controllerVars(RecoverOnStart)
  /\ WF_controllerVars(ListRuns \/ BlockRootless \/ RemoveCompleted)
  /\ WF_controllerVars(Restart)

FairControllerSpec == ControllerSpec /\ Fairness

-----------------------------------------------------------------------------
(* The controller implements RootLease *)

LeaseMode ==
  CASE status = "active" -> "held"
    [] status = "transitioning" /\ trans.phase = "retiring" -> "accepted"
    [] status = "transitioning" /\ trans.phase # "retiring" -> "leaving"
    [] OTHER -> IF root \in Threads /\ tstat[root] = "active" THEN "parked" ELSE "stuck"

Lease == INSTANCE RootLease WITH
  mode <- LeaseMode,
  holder <- root,
  heir <- trans.new,
  spent <- {t \in Threads : role[t] = "root" /\ t \notin {root, trans.new}}

\* Root authority is a lease: handed over only to a fresh replacement that has
\* accepted it, never held by two, never returned to a former root.
ImplementsRootLease == Lease!LeaseSpec

-----------------------------------------------------------------------------
(* Properties *)

\* A procedure holds the mutex exactly while it has effects to apply.
DaemonOK ==
  /\ caller \in Caller
  /\ caller = "idle" <=> effects = <<>>
  /\ server \in Server
  /\ exited \in BOOLEAN
  /\ boot \in Boot
  /\ deletion \in BOOLEAN
  /\ notice \in AnyThread
  /\ crashes \in 0..MaxCrashes

\* The type invariant of the controller.
ControllerTypeOK == TypeOK /\ DaemonOK

\* Handoffs are generated from a tree at rest: outside recovery no tool call
\* is in flight once quiescence has ended, whoever reported its end and when.
QuietTools ==
  status = "transitioning" /\ trans.phase # "quiescing" /\ ~recovering =>
    ~ToolsInFlight(tools)

\* A successor is only started for a whole tree: when the tree handoff is
\* recorded every other thread of the run, past trees included, has ended.
TreeHandedOver ==
  status = "transitioning" /\ trans.phase \in {"awaiting_root", "retiring"} =>
    \A t \in Threads \ {trans.old, trans.new} : tstat[t] \notin Live

\* When the mutex is free a transition waits for something that is still to
\* come: for its app-server's exit to be handled, or else, with the app-server
\* up, for a tool call the run counts as in flight or for a registered
\* replacement root to accept.  Exempt are a daemon that has not yet looked at
\* its runs and a run that was revived after a stop or a block (`reason`).  The
\* tool call may be one that ended with an earlier app-server: module LostTools.
NoAbandonedTransition ==
  status = "transitioning" /\ reason = "none" /\ Idle /\ boot = "done" =>
    \/ exited
    \/ /\ server = "up"
       /\ \/ trans.phase = "quiescing" /\ ToolsInFlight(tools)
          \/ trans.phase = "awaiting_root" /\ trans.new # NoThread

\* A worker's unfinished work is never dropped: a live worker is retired only
\* by the user's stop or after a handoff of it is on disk.
WorkNotDropped ==
  [][\A t \in Threads :
       role[t] = "worker" /\ tstat[t] \in Live /\ tstat'[t] = "retired" =>
         \/ status' = "stopped"
         \/ \E h \in Handoffs : hstat[h] # "absent" /\ hsource[h] = t]_controllerVars

\* A thread that has ended never comes back, neither by a late event nor by a
\* recovery: only the run's current root is taken up again.
EndedThreadsStayEnded ==
  [][\A t \in Threads \ {root} : tstat[t] \in Ended => tstat'[t] \in Ended]_controllerVars

\* The ledger of handoffs: a recorded handoff keeps its source, a resolved one
\* its owner and its resolution, and an accepted one is only offered again by
\* a recovery.
HandoffLedger ==
  [][\A h \in Handoffs :
       /\ hstat[h] # "absent" => hstat'[h] # "absent" /\ hsource'[h] = hsource[h]
       /\ hstat[h] = "resolved" => hstat'[h] = "resolved" /\ howner'[h] = howner[h]
       /\ hstat[h] = "accepted" /\ hstat'[h] = "ready" => recovering']_controllerVars

\* A run completes only once its whole history is settled: no other thread of
\* any past tree is live and every handoff ever recorded is resolved.
CompletionSettlesAll ==
  [][status # "completed" /\ status' = "completed" =>
       /\ \A t \in Threads \ {root} : tstat[t] \notin Live
       /\ \A h \in Handoffs : hstat[h] \in {"absent", "resolved"}]_controllerVars

\* Every transition ends, whatever agents and tools do: its work completes or
\* its deadline blocks the run.
TransitionEnds == status = "transitioning" ~> status # "transitioning"

\* A run is not left active without an app-server: after an exit, a failed
\* start or a crash it is blocked, recovered or stopped.  A run that its root
\* revived after it was stopped or blocked keeps the old reason: it is exempt.
UnservedRunIsNoticed ==
  status \in {"starting", "active"} /\ server # "up" /\ reason = "none"
    ~> status \notin {"starting", "active"} \/ server = "up"

=============================================================================
