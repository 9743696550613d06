-------------------------- MODULE ControllerProofs --------------------------
(***************************************************************************)
(* What the engine's invariants become under the daemon's controller, for  *)
(* any number of threads, handoffs, tools and crashes: they survive failed *)
(* effects, crashes, late notifications and what is done beside the mutex, *)
(* and the authority over a run is a RootLease.                            *)
(***************************************************************************)
EXTENDS Controller, EngineProofs

-----------------------------------------------------------------------------
(* What a step of the controller does to the run *)

\* A status alone is written: a run blocked or deleted without a command.
StatusWritten == (\E r \in BlockReason : SetBlocked(r)) \/ SetDeleted

\* The commands as the controller sends them: a replacement root is a thread
\* that the run has never had.
SentCommand(rest) ==
  \/ \E t \in Threads :
       \/ ThreadCommand(t, rest)
       \/ tstat[t] = "absent" /\ RegisterReplacementRoot(t, rest)
  \/ \E h \in Handoffs, t \in Threads : HandoffCommand(h, t, rest)
  \/ RunCommand(rest)

\* A command of the engine, a status written beside it, or nothing.
RunStep ==
  \/ \E rest \in Seq(Effects) : SentCommand(rest)
  \/ StatusWritten /\ effects' \in Seq(Effects)
  \/ UNCHANGED persisted /\ effects' \in Seq(Effects)

\* Any command may be sent with nothing left to apply.
LEMMA ExecuteRunStep ==
  ASSUME effects \in Seq(Effects), Execute
  PROVE  RunStep
<1>1. <<>> \in Seq(Effects)
  BY EmptySeq
<1>2. CASE Notification
  BY <1>1, <1>2 DEF Notification, RunStep, SentCommand, ThreadCommand
<1>3. CASE WaitingOnUserInput
  BY <1>1, <1>3 DEF WaitingOnUserInput, RunStep, SentCommand, RunCommand, Reason, BlockReason
<1>4. CASE Request
  BY <1>1, <1>4 DEF Request, RunStep, SentCommand, ThreadCommand, HandoffCommand, RunCommand
<1> QED
  BY <1>2, <1>3, <1>4 DEF Execute

\* An effect is applied by a command that leaves the rest, or touches no run.
LEMMA ApplyRunStep ==
  ASSUME effects \in Seq(Effects), Apply
  PROVE  RunStep
<1>1. Tail(effects) \in Seq(Effects) /\ Head(effects) \in Effects
  BY DEF Apply
<1>2. Applied => RunStep
  BY <1>1 DEF Applied, RunStep
<1>3. CASE StartAppServer
  BY <1>1, <1>3 DEF StartAppServer, RunStep, SentCommand, RunCommand
<1>4. ASSUME NEW t \in AnyThread, GenerateHandoff(t) PROVE RunStep
  BY <1>1, <1>4 DEF GenerateHandoff, Registered, RunStep, SentCommand, HandoffCommand
<1>5. ASSUME NEW t \in AnyThread, StopThread(t) PROVE RunStep
  BY <1>1, <1>5 DEF StopThread, ThreadStopped, Registered, RunStep, SentCommand, ThreadCommand
<1>6. CASE QuiesceTree
  BY <1>1, <1>2, <1>6 DEF QuiesceTree, RunStep, SentCommand, RunCommand
<1>7. CASE StartRootReadOnly
  <2>1. PICK t \in Threads :
          /\ RegisterReplacementRoot(t, <<Effect("start_root_turn", t)>> \o Tail(effects))
          /\ tstat[t] = "absent"
    BY <1>7 DEF StartRootReadOnly, FreshThread
  <2>2. <<Effect("start_root_turn", t)>> \o Tail(effects) \in Seq(Effects)
    BY <1>1, EffectType, ConcatProperties DEF EffectKind, AnyThread
  <2> QED
    BY <2>1, <2>2 DEF RunStep, SentCommand
<1>8. CASE RetireTree
  BY <1>1, <1>8 DEF RetireTree, RunStep, SentCommand, RunCommand
<1>9. ASSUME NEW t \in AnyThread, StartTurn(t) PROVE RunStep
  BY <1>1, <1>9 DEF StartTurn, ThreadTurnStarted, RunStep
<1>10. CASE DeleteRun
  BY <1>1, <1>10 DEF DeleteRun, RunStep, StatusWritten
<1>11. CASE Recover
  BY <1>1, <1>11 DEF Recover, RunStep, SentCommand, RunCommand
<1>12. Head(effects).thread \in AnyThread
  BY <1>1 DEF Effects
<1> QED
  BY <1>2, <1>3, <1>4, <1>5, <1>6, <1>7, <1>8, <1>9, <1>10, <1>11, <1>12
     DEF Apply, CallAppServer, StopAppServer

\* A failed effect blocks the run or leaves it as it is.
LEMMA FailRunStep ==
  ASSUME effects \in Seq(Effects), Fail
  PROVE  RunStep
<1>1. <<>> \in Seq(Effects)
  BY EmptySeq
<1>2. Abandon => RunStep
  BY <1>1 DEF Abandon, RunStep
<1>3. BlockRun("other", <<>>) => RunStep
  BY <1>1 DEF RunStep, SentCommand, RunCommand, Reason, BlockReason
<1>4. SetBlocked("recovery") /\ effects' = <<>> => RunStep
  BY <1>1 DEF RunStep, StatusWritten, Reason, BlockReason
<1> QED
  BY <1>2, <1>3, <1>4 DEF Fail, FailExecute, FailRecover, FailMonitor

\* A recovery begins with an effect about the run's root.
LEMMA BeginRecoveryRunStep ==
  ASSUME root \in AnyThread, BeginRecovery
  PROVE  RunStep
<1>1. <<Effect("recover_run", root)>> \in Seq(Effects)
  BY EffectType DEF EffectKind
<1> QED
  BY <1>1 DEF BeginRecovery, RunStep

\* What happens beside the mutex changes the run's status at most, what waits
\* for the mutex sends a command.
LEMMA DaemonRunStep ==
  ASSUME effects \in Seq(Effects), root \in AnyThread, Daemon
  PROVE  RunStep
<1>1. <<>> \in Seq(Effects)
  BY EmptySeq
<1>2. UNCHANGED vars => RunStep
  BY DEF vars, RunStep
<1>3. BlockRun("other", <<>>) => RunStep
  BY <1>1 DEF RunStep, SentCommand, RunCommand, Reason, BlockReason
<1>4. CASE AppServerExits \/ DeleteRequest \/ Restart \/ ListRuns
  BY <1>2, <1>4 DEF AppServerExits, DeleteRequest, Restart, ListRuns
<1>5. CASE HandleAppServerExit
  BY <1>2, <1>3, <1>5 DEF HandleAppServerExit
<1>6. CASE Crash
  BY <1>1, <1>6 DEF Crash, RunStep
<1>7. CASE DeleteRequested \/ RemoveCompleted
  BY <1>7 DEF DeleteRequested, RemoveCompleted, RunStep, StatusWritten
<1>8. CASE BlockRootless
  BY <1>8 DEF BlockRootless, RunStep, StatusWritten, Reason, BlockReason
<1>9. CASE RecoverOnStart
  BY <1>9, BeginRecoveryRunStep DEF RecoverOnStart
<1> QED
  BY <1>4, <1>5, <1>6, <1>7, <1>8, <1>9 DEF Daemon

\* Every step of the controller.
LEMMA ControllerRunStep ==
  ASSUME effects \in Seq(Effects), root \in AnyThread, notice \in AnyThread, ControllerNext
  PROVE  RunStep
<1>1. <<>> \in Seq(Effects)
  BY EmptySeq
<1>2. CASE \E t \in Threads : DecideRoot(t)
  BY <1>2 DEF DecideRoot, RunStep, vars
<1>3. CASE RegisterDecidedRoot
  <2>1. CASE UNCHANGED vars
    BY <2>1 DEF RunStep, vars
  <2>2. CASE RegisterRoot(notice, <<>>)
    BY <1>1, <1>3, <2>2 DEF RegisterDecidedRoot, AnyThread, RunStep, SentCommand, ThreadCommand
  <2> QED
    BY <1>3, <2>1, <2>2 DEF RegisterDecidedRoot
<1>4. CASE Resume
  BY <1>1, <1>4, BeginRecoveryRunStep DEF Resume, RunStep, SentCommand, RunCommand
<1>5. CASE CheckTimeouts
  BY <1>1, <1>5 DEF CheckTimeouts, RunStep, SentCommand, RunCommand, Reason, BlockReason
<1> QED
  BY <1>2, <1>3, <1>4, <1>5, ExecuteRunStep, ApplyRunStep, FailRunStep, DaemonRunStep
     DEF ControllerNext

-----------------------------------------------------------------------------
(* The invariants of the engine under the controller *)

\* A deleted run keeps its threads and makes no claim about them.
LEMMA SetDeletedStep ==
  ASSUME IInv, SetDeleted
  PROVE  IInv'
<1> USE DEF IInv, SetDeleted, threadVars, handoffVars
<1>1. PersistedOK' /\ RecordsOK'
  BY DEF PersistedOK, TransitionType, RecordsOK, RunStatus
<1>2. Succession'
  BY DEF Succession, RootIsRoot, ReplacementIsRoot, NoRootNoTransition,
     TransitionOfRoot, LeavingRootRests, SingleActiveRoot, ActiveRunHasItsRoot,
     QuietTree, SuccessorOwnsTree
<1> QED
  BY <1>1, <1>2

\* What the controller sends are commands of the engine.
LEMMA SentIsCommand ==
  ASSUME NEW rest, SentCommand(rest)
  PROVE  Command(rest)
  BY DEF SentCommand, Command

\* Every step of the controller preserves the engine's invariant.
LEMMA RunStepInv ==
  ASSUME IInv, RunStep
  PROVE  IInv' /\ effects' \in Seq(Effects)
<1>1. ASSUME NEW rest \in Seq(Effects), SentCommand(rest)
      PROVE  IInv' /\ effects' \in Seq(Effects)
  BY <1>1, SentIsCommand, CommandStep, CommandEffects
<1>2. ASSUME StatusWritten PROVE IInv'
  BY <1>2, SetBlockedStep, SetDeletedStep DEF StatusWritten, Reason
<1>3. ASSUME UNCHANGED persisted PROVE IInv'
  BY <1>3, UnchangedStep
<1> QED
  BY <1>1, <1>2, <1>3 DEF RunStep

\* An effect put in front of others.
LEMMA NotEmpty ==
  ASSUME NEW kind \in EffectKind, NEW t \in AnyThread, NEW rest \in Seq(Effects)
  PROVE  <<Effect(kind, t)>> \o rest # <<>>
<1>1. <<Effect(kind, t)>> \in Seq(Effects) /\ Len(<<Effect(kind, t)>>) = 1
  BY EffectType
<1>2. Len(<<Effect(kind, t)>> \o rest) = 1 + Len(rest) /\ Len(rest) \in Nat
  BY <1>1, ConcatProperties, LenProperties
<1> QED
  BY <1>2, EmptySeq

\* The mutex is held exactly while effects are left: every procedure that takes
\* it releases it with its last effect, a failure or a crash drops both.
LEMMA DaemonStep ==
  ASSUME DaemonOK, root \in AnyThread, effects \in Seq(Effects), ControllerNext
  PROVE  DaemonOK'
<1> USE DEF DaemonOK, Caller, Server, Boot, daemonVars
<1>1. BlockRun("other", <<>>) => effects' # <<>>
  BY NotEmpty, EmptySeq DEF BlockRun, EffectKind
<1>2. BeginRecovery => effects' # <<>> /\ caller' = "recover"
  BY DEF BeginRecovery
<1>3. CASE Execute
  BY <1>3 DEF Execute, HeldBy
<1>4. CASE \E t \in Threads : DecideRoot(t)
  BY <1>4 DEF DecideRoot, vars, AnyThread
<1>5. CASE RegisterDecidedRoot
  BY <1>5 DEF RegisterDecidedRoot, HeldBy, AnyThread
<1>6. CASE Resume
  BY <1>2, <1>6 DEF Resume, HeldBy
<1>7. CASE CheckTimeouts
  BY <1>7 DEF CheckTimeouts, HeldBy
<1>8. CASE Apply
  <2>1. caller' \in Caller /\ (caller' = "idle" <=> effects' = <<>>)
    BY <1>8 DEF Apply, Continue
  <2>2. /\ server' \in Server /\ exited' = exited /\ boot' = boot
        /\ deletion' = deletion /\ notice' = notice /\ crashes' = crashes
    BY <1>8 DEF Apply, StartAppServer, GenerateHandoff, StopThread, QuiesceTree,
       StartRootReadOnly, RetireTree, StartTurn, CallAppServer, StopAppServer,
       DeleteRun, Recover
  <2> QED
    BY <2>1, <2>2
<1>9. CASE Fail
  BY <1>1, <1>9 DEF Fail, FailExecute, FailRecover, FailMonitor, Abandon,
     ServerAfterFailure
<1>10. CASE AppServerExits \/ Restart \/ ListRuns
  BY <1>10 DEF AppServerExits, Restart, ListRuns, vars
<1>11. CASE HandleAppServerExit
  BY <1>11 DEF HandleAppServerExit, HeldBy
<1>12. CASE DeleteRequest \/ DeleteRequested \/ RemoveCompleted \/ BlockRootless
  BY <1>12 DEF DeleteRequest, DeleteRequested, RemoveCompleted, BlockRootless, vars
<1>13. CASE Crash
  <2>1. crashes' \in 0..MaxCrashes
    BY <1>13, ControllerAssumption DEF Crash
  <2> QED
    BY <1>13, <2>1 DEF Crash, AnyThread
<1>14. CASE RecoverOnStart
  BY <1>2, <1>14 DEF RecoverOnStart
<1> QED
  BY <1>3, <1>4, <1>5, <1>6, <1>7, <1>8, <1>9, <1>10, <1>11, <1>12, <1>13, <1>14
     DEF ControllerNext, Daemon

\* The inductive invariant of the controller.
CInv == IInv /\ ControllerTypeOK

\* The engine's invariant holds in every behaviour of the daemon: with failed
\* effects, crashes and restarts, and requests that race with each other.
THEOREM ControllerInvariance == ControllerSpec => []CInv
<1> USE DEF CInv, ControllerTypeOK, TypeOK, IInv
<1>1. ControllerInit => CInv
  <2> SUFFICES ASSUME ControllerInit PROVE CInv
    OBVIOUS
  <2>1. IInv
    BY InitIInv DEF ControllerInit
  <2>2. effects \in Seq(Effects)
    BY EffectType DEF ControllerInit, Init, EffectKind, AnyThread
  <2>3. DaemonOK
    <3>1. crashes \in 0..MaxCrashes
      BY ControllerAssumption DEF ControllerInit
    <3>2. effects # <<>>
      BY DEF ControllerInit, Init
    <3> QED
      BY <3>1, <3>2 DEF ControllerInit, DaemonOK, Caller, Server, Boot, AnyThread
  <2> QED
    BY <2>1, <2>2, <2>3
<1>2. CInv /\ [ControllerNext]_controllerVars => CInv'
  <2> SUFFICES ASSUME CInv, [ControllerNext]_controllerVars PROVE CInv'
    OBVIOUS
  <2>1. CASE ControllerNext
    <3>1. root \in AnyThread /\ effects \in Seq(Effects) /\ notice \in AnyThread
      BY DEF PersistedOK, DaemonOK
    <3>2. IInv' /\ effects' \in Seq(Effects)
      BY <2>1, <3>1, ControllerRunStep, RunStepInv
    <3> QED
      BY <2>1, <3>1, <3>2, DaemonStep
  <2>2. CASE UNCHANGED controllerVars
    <3>1. IInv'
      BY <2>2, UnchangedStep DEF controllerVars, vars
    <3> QED
      BY <2>2, <3>1 DEF controllerVars, vars, daemonVars, DaemonOK
  <2> QED
    BY <2>1, <2>2
<1> QED
  BY <1>1, <1>2, PTL DEF ControllerSpec

\* The run, the effects and the mutex are always well formed; no procedure
\* keeps the mutex without an effect to apply, and none runs without it.
THEOREM ControllerTypeCorrect == ControllerSpec => []ControllerTypeOK
<1>1. CInv => ControllerTypeOK
  BY DEF CInv
<1> QED
  BY ControllerInvariance, <1>1, PTL

\* The daemon keeps the tree at rest from the first handoff to the transfer.
THEOREM ControllerQuietTree == ControllerSpec => []QuietTree
<1>1. CInv => QuietTree
  BY DEF CInv, IInv, Succession
<1> QED
  BY ControllerInvariance, <1>1, PTL

\* The daemon retires a tree only for the successor that owns its handoff.
THEOREM ControllerSuccessorOwnsTree == ControllerSpec => []SuccessorOwnsTree
<1>1. CInv => SuccessorOwnsTree
  BY DEF CInv, IInv, Succession
<1> QED
  BY ControllerInvariance, <1>1, PTL

\* Root authority moves only by acceptance, under the daemon as well: no crash,
\* recovery, failed effect or late notification moves it.
THEOREM ControllerAuthority == ControllerSpec => AuthorityMovesByAcceptance
<1> DEFINE Move == \/ root = NoThread
                   \/ /\ status = "transitioning" /\ trans.old = root
                      /\ root' = trans.new
                      /\ howner[trans.tree] = root'
<1>1. CInv /\ [ControllerNext]_controllerVars => [root' # root => Move]_vars
  <2> SUFFICES ASSUME CInv, ControllerNext, root' # root PROVE Move
    BY DEF controllerVars, vars, persisted, runVars
  <2>1. RunStep
    BY ControllerRunStep DEF CInv, IInv, ControllerTypeOK, TypeOK, PersistedOK, DaemonOK
  <2>2. ~StatusWritten /\ ~UNCHANGED persisted
    BY DEF StatusWritten, SetBlocked, SetDeleted, persisted, runVars
  <2> QED
    BY <2>1, <2>2, SentIsCommand, AuthorityStep DEF RunStep, CInv
<1> QED
  BY ControllerInvariance, <1>1, PTL DEF ControllerSpec, AuthorityMovesByAcceptance

-----------------------------------------------------------------------------
(* The controller implements RootLease *)

\* A step that the lease does not see.
LEMMA LeaseStutter ==
  ASSUME IInv, UNCHANGED <<status, root>>,
         trans'.new = trans.new,
         trans'.phase = "retiring" <=> trans.phase = "retiring",
         root \in Threads => (tstat'[root] = "active" <=> tstat[root] = "active"),
         \A t \in Threads : role'[t] = "root" <=> role[t] = "root"
  PROVE  UNCHANGED Lease!leaseVars
<1>1. LeaseMode' = LeaseMode
  BY DEF LeaseMode
<1> QED
  BY <1>1 DEF Lease!leaseVars

\* A status written from outside, or a turn's end, suspends the holder.
LEMMA LeaseSuspend ==
  ASSUME IInv, status' \in {"blocked", "completed", "deleted"},
         UNCHANGED <<root, trans, tstat, role>>
  PROVE  Lease!LeaseNext
<1>1. LeaseMode' = IF LeaseMode \in {"held", "parked"} THEN "parked" ELSE "stuck"
  BY DEF LeaseMode, IInv, Succession, ActiveRunHasItsRoot, LeavingRootRests,
     TransitionOfRoot, NoTransition, Transition
<1> QED
  BY <1>1 DEF Lease!LeaseNext, Lease!Suspend

\* What is the lease of a run whose root is known.
LEMMA RootOrNone ==
  ASSUME IInv
  PROVE  /\ root \in Threads \/ root = NoThread
         /\ trans.new \in Threads \/ trans.new = NoThread
         /\ NoThread \notin Threads
         /\ status = "transitioning" => root \in Threads /\ trans.old = root
  BY EngineAssumption DEF IInv, PersistedOK, TransitionType, AnyThread, Succession,
     NoRootNoTransition, TransitionOfRoot

\* The first root is granted the lease.
LEMMA LeaseGrant ==
  ASSUME IInv, NEW t \in Threads, NEW rest, RegisterRoot(t, rest)
  PROVE  Lease!LeaseNext
<1>1. trans = NoTransition
  BY DEF RegisterRoot, IInv, Succession, NoRootNoTransition
<1>2. role[t] = "none" /\ role' = [role EXCEPT ![t] = "root"]
  BY DEF RegisterRoot, PutThread, IInv, RecordsOK
<1>3. {u \in Threads : role'[u] = "root" /\ u \notin {t, trans.new}}
        = {u \in Threads : role[u] = "root" /\ u \notin {root, trans.new}}
  BY <1>2, RootOrNone DEF RegisterRoot, IInv, PersistedOK
<1>4. Lease!Grant(t)
  BY <1>3 DEF Lease!Grant, RegisterRoot, LeaseMode
<1> QED
  BY <1>4 DEF Lease!LeaseNext

\* A root that compacts begins to leave; a worker that does is not seen.
LEMMA LeaseLeave ==
  ASSUME IInv, NEW t \in Threads, NEW rest, BeginCompaction(t, rest)
  PROVE  Lease!LeaseNext \/ UNCHANGED Lease!leaseVars
<1> USE DEF BeginCompaction, ActiveThread
<1>1. root \in Threads /\ trans = NoTransition /\ role[root] = "root"
  BY DEF IInv, Succession, ActiveRunHasItsRoot
<1>2. CASE BeginRootCompaction(t, rest)
  <2>1. LeaseMode = "held" /\ LeaseMode' = "leaving" /\ trans'.new = trans.new
    BY <1>1, <1>2 DEF BeginRootCompaction, LeaseMode, Transition, NoTransition
  <2>2. Lease!Leave
    BY <1>2, <2>1 DEF Lease!Leave, BeginRootCompaction
  <2> QED
    BY <2>2 DEF Lease!LeaseNext
<1>3. CASE BeginWorkerCompaction(t, rest)
  <2>1. t # root
    BY <1>1, <1>3 DEF BeginWorkerCompaction
  <2> QED
    BY <1>3, <2>1, LeaseStutter DEF BeginWorkerCompaction, runVars, IInv, PersistedOK
<1> QED
  BY <1>2, <1>3

\* The replacement is named.  Only the controller's guard makes it fresh: its
\* app-server hands out an id that no thread of the run has had.
LEMMA LeaseName ==
  ASSUME IInv, NEW t \in Threads, NEW rest, RegisterReplacementRoot(t, rest),
         tstat[t] = "absent"
  PROVE  Lease!LeaseNext
<1> USE DEF RegisterReplacementRoot, PutThread
<1>1. role[t] = "none" /\ t # root
  BY RootOrNone DEF IInv, RecordsOK
<1>2. trans' = [trans EXCEPT !.new = t] /\ role' = [role EXCEPT ![t] = "root"]
  OBVIOUS
<1>3. trans'.new = t /\ trans'.phase = trans.phase
  BY <1>2 DEF IInv, PersistedOK, TransitionType
<1>4. {u \in Threads : role'[u] = "root" /\ u \notin {root, t}}
        = {u \in Threads : role[u] = "root" /\ u \notin {root, trans.new}}
  BY <1>1, <1>2, RootOrNone DEF IInv, PersistedOK
<1>5. LeaseMode = "leaving" /\ LeaseMode' = "leaving"
  BY <1>3 DEF LeaseMode
<1>6. Lease!Name(t)
  BY <1>1, <1>3, <1>4, <1>5 DEF Lease!Name
<1> QED
  BY <1>6 DEF Lease!LeaseNext

\* The tree handoff is accepted; any other handoff is not seen.
LEMMA LeaseAccept ==
  ASSUME IInv, NEW h \in Handoffs, NEW t \in Threads, NEW rest, AcceptHandoff(h, t, rest)
  PROVE  Lease!LeaseNext \/ UNCHANGED Lease!leaseVars
<1> USE DEF AcceptHandoff
<1>1. CASE AcceptTreeHandoff(h, t, rest)
  <2> USE <1>1 DEF AcceptTreeHandoff
  <2>1. trans' = [trans EXCEPT !.phase = "retiring"]
    OBVIOUS
  <2>2. trans'.phase = "retiring" /\ trans'.new = trans.new
    BY <2>1 DEF IInv, PersistedOK, TransitionType
  <2>3. LeaseMode = "leaving" /\ LeaseMode' = "accepted"
    BY <2>2 DEF LeaseMode
  <2>4. Lease!Accept
    BY <2>2, <2>3, EngineAssumption DEF Lease!Accept
  <2> QED
    BY <2>4 DEF Lease!LeaseNext
<1>2. CASE AcceptAgentHandoff(h, t, rest)
  BY <1>2, LeaseStutter DEF AcceptAgentHandoff
<1> QED
  BY <1>1, <1>2

\* The transfer passes the lease and spends the old root.
LEMMA LeasePass ==
  ASSUME IInv, NEW rest, CompleteRootTransfer(rest)
  PROVE  Lease!LeaseNext
<1> USE DEF CompleteRootTransfer, Retiring
<1>1. /\ root \in Threads /\ role[root] = "root"
      /\ trans.new # root
  BY RootOrNone DEF IInv, Succession, RootIsRoot, ReplacementIsRoot
<1>2. trans'.new = NoThread /\ NoThread \notin Threads
  BY EngineAssumption DEF NoTransition, Transition
<1>3. {u \in Threads : role[u] = "root" /\ u \notin {trans.new, NoThread}}
        = {u \in Threads : role[u] = "root" /\ u \notin {root, trans.new}} \cup {root}
  BY <1>1, <1>2
<1>4. LeaseMode = "accepted" /\ LeaseMode' = "held"
  BY DEF LeaseMode
<1>5. Lease!Pass
  BY <1>2, <1>3, <1>4 DEF Lease!Pass
<1> QED
  BY <1>5 DEF Lease!LeaseNext

\* A recovery spends the replacement it gives up.
LEMMA LeaseRestore ==
  ASSUME IInv, NEW order, NEW rest, RecoverRun(order, rest)
  PROVE  Lease!LeaseNext
<1> USE DEF RecoverRun
<1>1. trans'.new = NoThread /\ NoThread \notin Threads
  BY EngineAssumption DEF Transition
<1>2. trans.new \in Threads => role[trans.new] = "root" /\ trans.new # root
  BY DEF IInv, Succession, ReplacementIsRoot
<1>3. {u \in Threads : role[u] = "root" /\ u \notin {root, NoThread}}
        = {u \in Threads : role[u] = "root" /\ u \notin {root, trans.new}}
            \cup ({trans.new} \ {NoThread})
  BY <1>1, <1>2, RootOrNone
<1>4. LeaseMode' = "leaving"
  BY DEF LeaseMode, Transition
<1>5. Lease!Restore
  BY <1>1, <1>3, <1>4 DEF Lease!Restore
<1> QED
  BY <1>5 DEF Lease!LeaseNext

\* A run is suspended, resumed or stopped.
LEMMA LeaseRun ==
  ASSUME IInv, NEW rest, RunCommand(rest),
         ~FinalizeReportedCompletion(rest)
  PROVE  Lease!LeaseNext \/ UNCHANGED Lease!leaseVars
<1>1. CASE RegisterAppServer(rest)
  BY <1>1, LeaseStutter DEF RegisterAppServer, threadVars
<1>2. ASSUME NEW r \in Reason, BlockRun(r, rest)
      PROVE  Lease!LeaseNext
  BY <1>2, LeaseSuspend DEF BlockRun, SetBlocked, threadVars
<1>3. CASE StopRun(rest)
  <2>1. LeaseMode' = "stuck"
    <3>1. root \in Threads => tstat'[root] # "active"
      BY <1>3 DEF StopRun, Live
    <3> QED
      BY <1>3, <3>1 DEF StopRun, LeaseMode
  <2>2. Lease!Stop
    BY <1>3, <2>1 DEF StopRun, Lease!Stop
  <2> QED
    BY <2>2 DEF Lease!LeaseNext
<1>4. CASE ResumeRun(rest)
  <2>1. LeaseMode = "parked" /\ LeaseMode' = "held"
    BY <1>4 DEF ResumeRun, RootActive, LeaseMode
  <2>2. Lease!ResumeHolder
    BY <1>4, <2>1 DEF ResumeRun, Lease!ResumeHolder, threadVars
  <2> QED
    BY <2>2 DEF Lease!LeaseNext
<1>5. ASSUME NEW order, TreeQuiesced(order, rest)
      PROVE  UNCHANGED Lease!leaseVars
  <2>1. trans' = [trans EXCEPT !.phase = "generating"]
    BY <1>5 DEF TreeQuiesced
  <2>2. trans'.phase = "generating" /\ trans'.new = trans.new
    BY <2>1 DEF IInv, PersistedOK, TransitionType
  <2>3. trans.old = root /\ (root \in Threads => tstat'[root] = tstat[root])
    BY <1>5, RootOrNone DEF TreeQuiesced, UnfinishedTree
  <2> QED
    BY <1>5, <2>2, <2>3, LeaseStutter DEF TreeQuiesced
<1>6. CASE CompleteRootTransfer(rest)
  BY <1>6, LeasePass
<1>7. ASSUME NEW order, RecoverRun(order, rest)
      PROVE  Lease!LeaseNext
  BY <1>7, LeaseRestore
<1> QED
  BY <1>1, <1>2, <1>3, <1>4, <1>5, <1>6, <1>7 DEF RunCommand, Reason

\* The end of a worker's turn is not seen, that of a root's may suspend it.
LEMMA LeaseTurnEnded ==
  ASSUME IInv, NEW t \in Threads, NEW rest, TurnEnded(t, rest)
  PROVE  Lease!LeaseNext \/ UNCHANGED Lease!leaseVars
<1>1. CASE WorkerTurnEnded(t, rest)
  <2>1. t # root
    BY <1>1 DEF WorkerTurnEnded, IInv, Succession, RootIsRoot
  <2> QED
    BY <1>1, <2>1, LeaseStutter DEF WorkerTurnEnded, runVars, IInv, PersistedOK
<1>2. CASE UNCHANGED persisted
  BY <1>2, LeaseStutter DEF persisted, runVars, threadVars
<1>3. CASE BlockRun("other", rest)
  BY <1>3, LeaseSuspend DEF BlockRun, SetBlocked, threadVars
<1>4. CASE CompleteRun(t, rest)
  BY <1>4, LeaseSuspend DEF CompleteRun, threadVars
<1> QED
  BY <1>1, <1>2, <1>3, <1>4 DEF TurnEnded, RootTurnEnded

\* The remaining commands of a thread are not seen: they never touch the
\* activity or the role of the root.
LEMMA LeaseThread ==
  ASSUME IInv, NEW t \in Threads, NEW rest, ThreadCommand(t, rest)
  PROVE  Lease!LeaseNext \/ UNCHANGED Lease!leaseVars
<1>1. root \in Threads => role[root] = "root" /\ tstat[root] # "absent"
  BY DEF IInv, Succession, RootIsRoot, RecordsOK
<1>2. ASSUME NEW p \in Threads, RegisterWorker(t, p, rest)
      PROVE  UNCHANGED Lease!leaseVars
  <2>1. t # root /\ role[t] = "none" /\ role' = [role EXCEPT ![t] = "worker"]
        /\ tstat' = [tstat EXCEPT ![t] = "active"]
    BY <1>1, <1>2 DEF RegisterWorker, PutThread, IInv, RecordsOK
  <2>2. UNCHANGED runVars
    BY <1>2 DEF RegisterWorker
  <2> QED
    BY <2>1, <2>2, LeaseStutter DEF runVars, IInv, PersistedOK
<1>3. CASE ThreadTurnStarted(t, rest)
  BY <1>3, LeaseStutter DEF ThreadTurnStarted, persisted, runVars, threadVars
<1>4. ASSUME NEW u \in Tools, ToolStarted(t, u, rest) \/ ToolEnded(t, u, rest)
      PROVE  UNCHANGED Lease!leaseVars
  BY <1>4, LeaseStutter DEF ToolStarted, ToolEnded, runVars
<1>5. ASSUME NEW p \in Reports, ReportProgress(t, p, rest)
      PROVE  UNCHANGED Lease!leaseVars
  BY <1>5, LeaseStutter DEF ReportProgress, runVars
<1>6. CASE ThreadStopped(t, rest)
  BY <1>6, LeaseStutter DEF ThreadStopped, runVars, IInv, PersistedOK
<1> QED
  BY <1>2, <1>3, <1>4, <1>5, <1>6, LeaseGrant, LeaseTurnEnded, LeaseLeave
     DEF ThreadCommand

\* A handoff that is recorded or resolved is not seen.
LEMMA LeaseHandoff ==
  ASSUME IInv, NEW h \in Handoffs, NEW t \in Threads, NEW rest, HandoffCommand(h, t, rest)
  PROVE  Lease!LeaseNext \/ UNCHANGED Lease!leaseVars
<1>1. ASSUME NEW scope, RecordHandoff(h, t, scope, rest)
      PROVE  UNCHANGED Lease!leaseVars
  <2> USE <1>1 DEF RecordHandoff
  <2>1. /\ trans'.new = trans.new
        /\ trans'.phase = "retiring" <=> trans.phase = "retiring"
    BY DEF RecordTreeHandoff, RecordAgentHandoff, IInv, PersistedOK, TransitionType
  <2>2. \A u \in Threads : tstat'[u] = "active" <=> tstat[u] = "active"
    BY DEF IInv, PersistedOK
  <2> QED
    BY <2>1, <2>2, LeaseStutter
<1>2. CASE ResolveHandoff(h, t, rest)
  BY <1>2, LeaseStutter DEF ResolveHandoff, runVars
<1> QED
  BY <1>1, <1>2, LeaseAccept DEF HandoffCommand

\* Every step of the controller is a step of the lease or not seen by it.
LEMMA LeaseStep ==
  ASSUME IInv, RunStep
  PROVE  Lease!LeaseNext \/ UNCHANGED Lease!leaseVars
<1>1. ASSUME NEW rest, SentCommand(rest)
      PROVE  Lease!LeaseNext \/ UNCHANGED Lease!leaseVars
  <2>1. CASE FinalizeReportedCompletion(rest)
    BY <2>1, LeaseTurnEnded DEF FinalizeReportedCompletion, RootActive
  <2> QED
    BY <1>1, <2>1, LeaseThread, LeaseName, LeaseHandoff, LeaseRun DEF SentCommand
<1>2. CASE StatusWritten
  BY <1>2, LeaseSuspend DEF StatusWritten, SetBlocked, SetDeleted, threadVars
<1>3. CASE UNCHANGED persisted
  BY <1>3, LeaseStutter DEF persisted, runVars, threadVars
<1> QED
  BY <1>1, <1>2, <1>3 DEF RunStep

\* The daemon implements the lease: the authority over a run passes only to a
\* fresh thread that has accepted it, and nobody who gave it up gets it back.
THEOREM ControllerImplementsRootLease == ControllerSpec => ImplementsRootLease
<1>1. ControllerInit => Lease!LeaseInit
  BY EngineAssumption DEF ControllerInit, Init, Lease!LeaseInit, LeaseMode, NoTransition,
     Transition
<1>2. CInv /\ [ControllerNext]_controllerVars => [Lease!LeaseNext]_(Lease!leaseVars)
  <2> SUFFICES ASSUME CInv, [ControllerNext]_controllerVars
               PROVE  Lease!LeaseNext \/ UNCHANGED Lease!leaseVars
    OBVIOUS
  <2>1. CASE ControllerNext
    BY <2>1, ControllerRunStep, LeaseStep DEF CInv, IInv, PersistedOK, ControllerTypeOK,
       TypeOK, DaemonOK
  <2>2. CASE UNCHANGED controllerVars
    BY <2>2, LeaseStutter DEF CInv, controllerVars, vars, persisted, runVars, threadVars
  <2> QED
    BY <2>1, <2>2
<1> QED
  BY ControllerInvariance, <1>1, <1>2, PTL DEF ControllerSpec, ImplementsRootLease,
     Lease!LeaseSpec

-----------------------------------------------------------------------------
(* What no step of the controller may do to what has been recorded: threads  *)
(* that ended stay ended, handoffs keep their source and their resolution, a *)
(* run completes only once everything is settled.  Each follows from CInv    *)
(* and from what one command does to the run.                                *)

\* What a step of the controller is, under its invariant.
LEMMA SentOrWritten ==
  ASSUME CInv, [ControllerNext]_controllerVars
  PROVE  \/ \E rest \in Seq(Effects) : SentCommand(rest)
         \/ /\ UNCHANGED <<root, recovering, trans, threadVars, handoffVars>>
            /\ status' \in {status, "blocked", "deleted"}
<1>1. CASE ControllerNext
  <2>1. RunStep
    BY <1>1, ControllerRunStep DEF CInv, IInv, ControllerTypeOK, TypeOK, PersistedOK, DaemonOK
  <2> QED
    BY <2>1 DEF RunStep, StatusWritten, SetBlocked, SetDeleted, persisted, runVars
<1>2. CASE UNCHANGED controllerVars
  BY <1>2 DEF controllerVars, vars, persisted, runVars
<1> QED
  BY <1>1, <1>2

-----------------------------------------------------------------------------
(* Threads *)

\* The end of a turn ends the worker it is about and no other thread.
LEMMA TurnEndedThreads ==
  ASSUME IInv, NEW t \in Threads, NEW rest, TurnEnded(t, rest),
         NEW u \in Threads, tstat[u] # "active"
  PROVE  tstat'[u] = tstat[u]
  BY DEF TurnEnded, WorkerTurnEnded, RootTurnEnded, BlockRun, SetBlocked, CompleteRun,
     persisted, threadVars, IInv, PersistedOK

\* No command takes up a thread that has ended, unless it is the current root.
LEMMA EndedStep ==
  ASSUME IInv, NEW rest, SentCommand(rest),
         NEW t \in Threads \ {root}, tstat[t] \in Ended
  PROVE  tstat'[t] \in Ended
<1> USE DEF Ended, Live
<1>1. tstat \in [Threads -> ThreadStatus]
  BY DEF IInv, PersistedOK
<1>2. ASSUME NEW u \in Threads, ThreadCommand(u, rest) PROVE tstat'[t] \in Ended
  <2>1. CASE TurnEnded(u, rest)
    BY <2>1, TurnEndedThreads
  <2> QED
    BY <1>1, <1>2, <2>1 DEF ThreadCommand, RegisterRoot, RegisterWorker, PutThread,
       ThreadTurnStarted, ToolStarted, ToolEnded, ReportProgress, BeginCompaction,
       ActiveThread, ThreadStopped, persisted, threadVars
<1>3. ASSUME NEW u \in Threads, tstat[u] = "absent", RegisterReplacementRoot(u, rest)
      PROVE  tstat'[t] \in Ended
  BY <1>1, <1>3 DEF RegisterReplacementRoot, PutThread
<1>4. ASSUME NEW h \in Handoffs, NEW u \in Threads, HandoffCommand(h, u, rest)
      PROVE  tstat'[t] \in Ended
  BY <1>1, <1>4 DEF HandoffCommand, RecordHandoff, AcceptHandoff, ResolveHandoff
<1>5. CASE RunCommand(rest)
  <2>1. CASE FinalizeReportedCompletion(rest)
    BY <2>1, TurnEndedThreads DEF FinalizeReportedCompletion, RootActive
  <2>2. CASE StopRun(rest)
    BY <2>2 DEF StopRun
  <2>3. ASSUME NEW order, TreeQuiesced(order, rest) PROVE tstat'[t] \in Ended
    BY <2>3 DEF TreeQuiesced, UnfinishedTree
  <2>4. CASE CompleteRootTransfer(rest)
    BY <2>4 DEF CompleteRootTransfer
  <2>5. ASSUME NEW order, RecoverRun(order, rest) PROVE tstat'[t] \in Ended
    BY <2>5 DEF RecoverRun, UnfinishedWorkers
  <2> QED
    BY <1>5, <2>1, <2>2, <2>3, <2>4, <2>5 DEF RunCommand, RegisterAppServer, BlockRun,
       SetBlocked, ResumeRun, threadVars
<1> QED
  BY <1>2, <1>3, <1>4, <1>5 DEF SentCommand

\* A thread that has ended never comes back under the daemon: no late event, no
\* recovery and no transfer takes it up again (engine.go: RecoverRun takes up
\* unfinished workers and the root only).
THEOREM ControllerEndedThreads == ControllerSpec => EndedThreadsStayEnded
<1>1. CInv /\ [ControllerNext]_controllerVars =>
        [\A t \in Threads \ {root} : tstat[t] \in Ended => tstat'[t] \in Ended]_controllerVars
  BY SentOrWritten, EndedStep DEF CInv, threadVars
<1> QED
  BY ControllerInvariance, <1>1, PTL DEF ControllerSpec, EndedThreadsStayEnded

-----------------------------------------------------------------------------
(* Handoffs *)

\* What a command may do to the record of a handoff.
LEMMA HandoffStep ==
  ASSUME IInv, NEW rest, SentCommand(rest), NEW h \in Handoffs, hstat[h] # "absent"
  PROVE  /\ hstat'[h] # "absent" /\ hsource'[h] = hsource[h]
         /\ hstat[h] = "resolved" => hstat'[h] = "resolved" /\ howner'[h] = howner[h]
         /\ hstat[h] = "accepted" /\ hstat'[h] = "ready" => recovering'
<1>1. hstat \in [Handoffs -> HandoffStatus] /\ hsource \in [Handoffs -> AnyThread]
      /\ howner \in [Handoffs -> AnyThread]
  BY DEF IInv, PersistedOK
<1> USE <1>1 DEF handoffVars
<1>2. CASE UNCHANGED handoffVars
  BY <1>2
<1>3. ASSUME NEW t \in Threads, ThreadCommand(t, rest) PROVE UNCHANGED handoffVars
  BY <1>3 DEF ThreadCommand, RegisterRoot, RegisterWorker, ThreadTurnStarted, ToolStarted,
     ToolEnded, ReportProgress, TurnEnded, WorkerTurnEnded, RootTurnEnded, BlockRun,
     SetBlocked, CompleteRun, BeginCompaction, ThreadStopped, persisted
<1>4. ASSUME NEW g \in Handoffs, NEW t \in Threads, NEW scope,
             RecordHandoff(g, t, scope, rest)
      PROVE  g # h /\ hstat'[h] = hstat[h] /\ hsource'[h] = hsource[h] /\ howner' = howner
  BY <1>4 DEF RecordHandoff
<1>5. ASSUME NEW g \in Handoffs, NEW t \in Threads, AcceptHandoff(g, t, rest)
      PROVE  /\ hsource' = hsource
             /\ \/ hstat'[h] = hstat[h] /\ howner'[h] = howner[h]
                \/ hstat[h] = "ready" /\ hstat'[h] = "accepted"
  BY <1>5 DEF AcceptHandoff
<1>6. ASSUME NEW g \in Handoffs, NEW t \in Threads, ResolveHandoff(g, t, rest)
      PROVE  /\ hsource' = hsource /\ howner' = howner
             /\ \/ hstat'[h] = hstat[h]
                \/ hstat[h] = "accepted" /\ hstat'[h] = "resolved"
  BY <1>6 DEF ResolveHandoff
<1>7. ASSUME NEW order, RecoverRun(order, rest)
      PROVE  /\ hsource' = hsource /\ recovering'
             /\ hstat'[h] = RecoveredStatus(h) /\ howner'[h] = RecoveredOwner(h)
  BY <1>7 DEF RecoverRun
<1>8. ASSUME RunCommand(rest), ~\E order : RecoverRun(order, rest)
      PROVE  UNCHANGED handoffVars
  BY <1>8 DEF RunCommand, RegisterAppServer, BlockRun, SetBlocked, StopRun, ResumeRun,
     FinalizeReportedCompletion, TurnEnded, WorkerTurnEnded, RootTurnEnded, CompleteRun,
     TreeQuiesced, CompleteRootTransfer, persisted
<1>9. ASSUME NEW g \in Handoffs, NEW t \in Threads, HandoffCommand(g, t, rest)
      PROVE  /\ hstat'[h] # "absent" /\ hsource'[h] = hsource[h]
             /\ hstat[h] = "resolved" => hstat'[h] = "resolved" /\ howner'[h] = howner[h]
             /\ hstat[h] = "accepted" /\ hstat'[h] = "ready" => recovering'
  BY <1>4, <1>5, <1>6, <1>9 DEF HandoffCommand
<1>10. ASSUME NEW t \in Threads, RegisterReplacementRoot(t, rest)
       PROVE  UNCHANGED handoffVars
  BY <1>10 DEF RegisterReplacementRoot
<1> QED
  BY <1>2, <1>3, <1>7, <1>8, <1>9, <1>10 DEF SentCommand, RecoveredStatus, RecoveredOwner

\* The ledger of handoffs is append-only but for its progress from ready to
\* accepted to resolved, which only a recovery takes back, and never from
\* resolved.
THEOREM ControllerHandoffLedger == ControllerSpec => HandoffLedger
<1> DEFINE Ledger == \A h \in Handoffs :
             /\ hstat[h] # "absent" => hstat'[h] # "absent" /\ hsource'[h] = hsource[h]
             /\ hstat[h] = "resolved" => hstat'[h] = "resolved" /\ howner'[h] = howner[h]
             /\ hstat[h] = "accepted" /\ hstat'[h] = "ready" => recovering'
<1>1. CInv /\ [ControllerNext]_controllerVars => [Ledger]_controllerVars
  <2> SUFFICES ASSUME CInv, [ControllerNext]_controllerVars PROVE Ledger
    OBVIOUS
  <2>1. ASSUME NEW rest \in Seq(Effects), SentCommand(rest) PROVE Ledger
    BY <2>1, HandoffStep DEF CInv
  <2>2. UNCHANGED handoffVars => Ledger
    BY DEF handoffVars
  <2> QED
    BY <2>1, <2>2, SentOrWritten
<1> QED
  BY ControllerInvariance, <1>1, PTL DEF ControllerSpec, HandoffLedger

-----------------------------------------------------------------------------
(* Completion *)

\* Only the end of a turn of the run's root completes a run.
LEMMA CompletedBy ==
  ASSUME IInv, NEW rest, SentCommand(rest), status # "completed", status' = "completed"
  PROVE  root \in Threads /\ CompleteRun(root, rest)
<1> DEFINE Completes == \E t \in Threads : TurnEnded(t, rest) /\ CompleteRun(t, rest)
<1>1. ASSUME NEW t \in Threads, TurnEnded(t, rest) PROVE Completes
  BY <1>1 DEF TurnEnded, WorkerTurnEnded, RootTurnEnded, BlockRun, SetBlocked, persisted,
     runVars
<1>2. ASSUME NEW t \in Threads, ThreadCommand(t, rest) PROVE Completes
  BY <1>1, <1>2 DEF ThreadCommand, RegisterRoot, RegisterWorker, ThreadTurnStarted,
     ToolStarted, ToolEnded, ReportProgress, BeginCompaction, BeginRootCompaction,
     BeginWorkerCompaction, ThreadStopped, persisted, runVars
<1>3. ASSUME NEW h \in Handoffs, NEW t \in Threads, HandoffCommand(h, t, rest)
      PROVE  FALSE
  BY <1>3 DEF HandoffCommand, RecordHandoff, AcceptHandoff, ResolveHandoff, runVars
<1>4. ASSUME RunCommand(rest) PROVE Completes
  BY <1>1, <1>4 DEF RunCommand, RegisterAppServer, BlockRun, SetBlocked, StopRun, ResumeRun,
     FinalizeReportedCompletion, RootActive, TreeQuiesced, CompleteRootTransfer, RecoverRun
<1>5. Completes
  BY <1>2, <1>3, <1>4 DEF SentCommand, RegisterReplacementRoot
<1>6. PICK t \in Threads : TurnEnded(t, rest) /\ CompleteRun(t, rest)
  BY <1>5
<1>7. tstat[t] = "active"
  BY <1>6 DEF TurnEnded
<1>8. role[t] # "worker"
  BY <1>6 DEF TurnEnded, WorkerTurnEnded, RootTurnEnded, CompleteRun, runVars
<1>9. role[t] = "root"
  BY <1>7, <1>8 DEF IInv, PersistedOK, RecordsOK, Role
<1> QED
  BY <1>6, <1>7, <1>9 DEF IInv, Succession, SingleActiveRoot

\* A run is completed by its root alone, when no other thread of any past tree
\* is live and every handoff ever recorded is resolved.
THEOREM ControllerCompletion == ControllerSpec => CompletionSettlesAll
<1> DEFINE Settled == /\ \A t \in Threads \ {root} : tstat[t] \notin Live
                      /\ \A h \in Handoffs : hstat[h] \in {"absent", "resolved"}
<1>1. CInv /\ [ControllerNext]_controllerVars =>
        [status # "completed" /\ status' = "completed" => Settled]_controllerVars
  <2> SUFFICES ASSUME CInv, [ControllerNext]_controllerVars,
                      status # "completed", status' = "completed"
               PROVE  Settled
    OBVIOUS
  <2>1. PICK rest \in Seq(Effects) : SentCommand(rest)
    BY SentOrWritten
  <2>2. CompleteRun(root, rest)
    BY <2>1, CompletedBy DEF CInv
  <2> QED
    BY <2>2 DEF CompleteRun, ReadyToComplete
<1> QED
  BY ControllerInvariance, <1>1, PTL DEF ControllerSpec, CompletionSettlesAll

=============================================================================
