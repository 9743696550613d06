--------------------------- MODULE ProgressProofs ---------------------------
(***************************************************************************)
(* A transition always has someone to move it.  Between two commands that  *)
(* is a tool call in flight or a replacement root; while the mutex is held *)
(* it is an effect of the continuation that has yet to be applied.  This   *)
(* is the invariant behind NoAbandonedTransition, and it says why a failed *)
(* effect has to block the run: only the block may drop a continuation.    *)
(***************************************************************************)
EXTENDS TransitionProofs

\* The daemon has looked at the run after its start, or has started it.
Served == boot \notin {"down", "list", "recover"}

\* An effect of E has yet to be applied.
Ahead(E) == \E i \in 1..Len(effects) : effects[i] \in E
Of(kind) == {Effect(kind, t) : t \in AnyThread}

\* Each phase of a transition and what ends it.
Mover ==
  \/ Ahead(Of("recover_run"))
  \/ trans.phase = "quiescing" /\ (ToolsInFlight(tools) \/ Ahead(Of("quiesce_tree")))
  \/ trans.phase = "generating" /\ Ahead({Generation(trans.old)})
  \/ trans.phase = "awaiting_root" /\ (trans.new # NoThread \/ Ahead(Of("start_root_read_only")))
  \/ trans.phase = "retiring" /\ Ahead(Of("retire_tree"))

MoverLeft == status = "transitioning" /\ Served => Mover

\* The procedures whose failure is dropped have blocked the run and only
\* interrupt its tree.
MonitorBlocked ==
  caller = "monitor" =>
    /\ status # "transitioning"
    /\ \A i \in 1..Len(effects) : effects[i].kind = "block_tree"

\* Only threads of the run have tools in flight.
ToolsOfThreads == \A t \in Threads : tools[t] # {} => tstat[t] # "absent"

\* The inductive invariant.
Moving == MoverLeft /\ MonitorBlocked /\ ToolsOfThreads

-----------------------------------------------------------------------------
(* The procedures of the monitor *)

\* MonitorBlocked is preserved by every step of the controller.
LEMMA MonitorStep ==
  ASSUME CInv, MonitorBlocked, [ControllerNext]_controllerVars
  PROVE  MonitorBlocked'
<1> USE DEF CInv, ControllerTypeOK, TypeOK, DaemonOK
<1>1. CASE caller' # "monitor"
  BY <1>1 DEF MonitorBlocked
<1>2. BlockRun("other", <<>>) => MonitorBlocked'
  <2> SUFFICES ASSUME BlockRun("other", <<>>) PROVE MonitorBlocked'
    OBVIOUS
  <2>1. effects' = <<Effect("block_tree", root)>> /\ status' = "blocked"
    BY DEF BlockRun, SetBlocked
  <2>2. \A i \in 1..Len(effects') : effects'[i].kind = "block_tree"
    BY <2>1 DEF Effect
  <2> QED
    BY <2>1, <2>2 DEF MonitorBlocked
<1>3. UNCHANGED <<vars, caller>> => MonitorBlocked'
  BY DEF vars, persisted, runVars, MonitorBlocked
<1>4. CASE Execute \/ RegisterDecidedRoot \/ Resume
  BY <1>1, <1>4 DEF Execute, RegisterDecidedRoot, Resume, HeldBy, BeginRecovery
<1>5. CASE \E t \in Threads : DecideRoot(t)
  BY <1>3, <1>5 DEF DecideRoot
<1>6. CASE CheckTimeouts
  BY <1>2, <1>6 DEF CheckTimeouts
<1>7. CASE Apply
  <2> SUFFICES ASSUME caller' = "monitor" PROVE MonitorBlocked'
    BY <1>1
  <2>1. caller = "monitor" /\ effects # <<>>
    BY <1>7 DEF Apply, Continue
  <2>2. /\ Head(effects) = effects[1] /\ Len(effects) \in Nat \ {0}
        /\ Len(Tail(effects)) = Len(effects) - 1
        /\ \A i \in 1..Len(Tail(effects)) : Tail(effects)[i] = effects[i + 1]
    BY <2>1, PopEffect
  <2>3. Head(effects).kind = "block_tree"
    BY <2>1, <2>2 DEF MonitorBlocked
  <2>4. effects' = Tail(effects) /\ status' = status
    BY <1>7, <2>3 DEF Apply, CallAppServer, Applied, persisted, runVars
  <2>5. \A i \in 1..Len(Tail(effects)) : Tail(effects)[i].kind = "block_tree"
    BY <2>1, <2>2 DEF MonitorBlocked
  <2> QED
    BY <2>1, <2>4, <2>5 DEF MonitorBlocked
<1>8. CASE Fail
  BY <1>1, <1>2, <1>8 DEF Fail, FailExecute, FailRecover, FailMonitor, Abandon
<1>9. CASE Daemon
  <2>1. CASE AppServerExits \/ DeleteRequest \/ Restart \/ ListRuns
    BY <1>3, <2>1 DEF AppServerExits, DeleteRequest, Restart, ListRuns
  <2>2. CASE HandleAppServerExit
    BY <1>1, <1>2, <2>2 DEF HandleAppServerExit, HeldBy, Idle, vars
  <2>3. CASE DeleteRequested \/ RemoveCompleted \/ BlockRootless
    BY <2>3 DEF DeleteRequested, RemoveCompleted, BlockRootless, SetDeleted, SetBlocked,
       persisted, runVars, MonitorBlocked
  <2>4. CASE Crash \/ RecoverOnStart
    BY <1>1, <2>4 DEF Crash, RecoverOnStart, BeginRecovery
  <2> QED
    BY <1>9, <2>1, <2>2, <2>3, <2>4 DEF Daemon
<1>10. CASE UNCHANGED controllerVars
  BY <1>3, <1>10 DEF controllerVars
<1> QED
  BY <1>4, <1>5, <1>6, <1>7, <1>8, <1>9, <1>10 DEF ControllerNext

-----------------------------------------------------------------------------
(* Tools in flight *)

\* No command gives a tool to an id that is not a thread of the run.
LEMMA ToolsStep ==
  ASSUME CInv, ToolsOfThreads, [ControllerNext]_controllerVars
  PROVE  ToolsOfThreads'
<1> USE DEF CInv, IInv, PersistedOK, ToolsOfThreads
<1>1. CASE UNCHANGED threadVars
  BY <1>1 DEF threadVars
<1>2. ASSUME NEW t \in Threads, NEW rest, ThreadCommand(t, rest) PROVE ToolsOfThreads'
  <2>1. ASSUME NEW u \in Tools, ToolStarted(t, u, rest) \/ ToolEnded(t, u, rest)
        PROVE  ToolsOfThreads'
    BY <2>1 DEF ToolStarted, ActiveThread, ToolEnded, Registered
  <2>2. CASE TurnEnded(t, rest)
    BY <2>2 DEF TurnEnded, WorkerTurnEnded, RootTurnEnded, BlockRun, SetBlocked, CompleteRun,
       persisted, threadVars
  <2> QED
    BY <1>2, <2>1, <2>2 DEF ThreadCommand, RegisterRoot, RegisterWorker, PutThread,
       ThreadTurnStarted, ReportProgress, BeginCompaction, ThreadStopped, persisted, threadVars
<1>3. ASSUME NEW t \in Threads, NEW rest, RegisterReplacementRoot(t, rest)
      PROVE  ToolsOfThreads'
  BY <1>3 DEF RegisterReplacementRoot, PutThread, ReplacementStatus
<1>4. ASSUME NEW h \in Handoffs, NEW t \in Threads, NEW rest, HandoffCommand(h, t, rest)
      PROVE  ToolsOfThreads'
  BY <1>4 DEF HandoffCommand, RecordHandoff, AcceptHandoff, ResolveHandoff
<1>5. ASSUME NEW rest, RunCommand(rest) PROVE ToolsOfThreads'
  <2>1. CASE FinalizeReportedCompletion(rest)
    BY <1>2, <2>1 DEF FinalizeReportedCompletion, RootActive, ThreadCommand
  <2>2. CASE StopRun(rest)
    BY <2>2 DEF StopRun
  <2>3. ASSUME NEW order, TreeQuiesced(order, rest) PROVE ToolsOfThreads'
    BY <2>3 DEF TreeQuiesced
  <2>4. CASE CompleteRootTransfer(rest)
    BY <2>4 DEF CompleteRootTransfer
  <2>5. ASSUME NEW order, RecoverRun(order, rest) PROVE ToolsOfThreads'
    <3>1. \A t \in Threads : tstat'[t] = "absent" => tstat[t] = "absent"
      BY <2>5 DEF RecoverRun
    <3> QED
      BY <2>5, <3>1 DEF RecoverRun
  <2> QED
    BY <1>1, <1>5, <2>1, <2>2, <2>3, <2>4, <2>5 DEF RunCommand, RegisterAppServer, BlockRun,
       SetBlocked, ResumeRun
<1>6. ASSUME NEW rest, SentCommand(rest) PROVE ToolsOfThreads'
  BY <1>2, <1>3, <1>4, <1>5, <1>6 DEF SentCommand
<1> QED
  BY <1>1, <1>6, SentOrWritten

-----------------------------------------------------------------------------
(* What a step leaves ahead *)

\* While a block cannot fail, a run that stays in transition loses no effect: a
\* step sends a command with nothing left to apply, applies the next effect,
\* leaves the run and its effects alone, or begins to recover the run.
LEMMA NothingDropped ==
  ASSUME RescueMayFail = FALSE, CInv, MonitorBlocked, ControllerNext,
         status' = "transitioning", Served'
  PROVE  \/ Served /\ \/ effects = <<>> /\ Sent
                      \/ Apply
                      \/ UNCHANGED vars
         \/ effects' = <<Effect("recover_run", root)>>
<1> USE DEF CInv, ControllerTypeOK, TypeOK, DaemonOK, Served, daemonVars
<1>1. ~BlockRun("other", <<>>) /\ ~SetDeleted /\ \A r : ~SetBlocked(r)
  BY DEF BlockRun, SetBlocked, SetDeleted
<1>2. Idle => effects = <<>>
  BY DEF Idle
<1>3. CASE Execute
  BY <1>1, <1>2, <1>3 DEF Execute, Sent, WaitingOnUserInput
<1>4. CASE \E t \in Threads : DecideRoot(t)
  BY <1>4 DEF DecideRoot
<1>5. CASE RegisterDecidedRoot
  BY <1>2, <1>5 DEF RegisterDecidedRoot, Sent, AnyThread
<1>6. CASE Resume
  BY <1>2, <1>6 DEF Resume, Sent, BeginRecovery
<1>7. CASE CheckTimeouts
  BY <1>1, <1>7 DEF CheckTimeouts
<1>8. CASE Apply
  <2>1. boot' = boot
    BY <1>8 DEF Apply, StartAppServer, GenerateHandoff, StopThread, QuiesceTree,
       StartRootReadOnly, RetireTree, StartTurn, CallAppServer, StopAppServer, DeleteRun,
       Recover
  <2> QED
    BY <1>8, <2>1
<1>9. CASE Fail
  <2>1. Abandon => status = "transitioning"
    BY DEF Abandon, persisted, runVars
  <2>2. ~FailExecute /\ ~FailRecover
    BY <1>1, <2>1 DEF FailExecute, FailRecover, Exists
  <2>3. ~FailMonitor
    BY <2>1 DEF FailMonitor, MonitorBlocked
  <2> QED
    BY <1>9, <2>2, <2>3 DEF Fail
<1>10. CASE Daemon
  <2>1. CASE AppServerExits \/ DeleteRequest
    BY <2>1 DEF AppServerExits, DeleteRequest
  <2>2. CASE HandleAppServerExit
    BY <1>1, <2>2 DEF HandleAppServerExit
  <2>3. ~Crash /\ ~Restart
    BY DEF Crash, Restart
  <2>4. ~ListRuns
    <3> SUFFICES ASSUME ListRuns PROVE FALSE
      OBVIOUS
    <3>1. status = "transitioning"
      BY DEF ListRuns, vars, persisted, runVars
    <3>2. root # NoThread
      BY <3>1, RootOrNone
    <3>3. boot' = "recover"
      BY <3>1, <3>2 DEF ListRuns, RecoverableOnStart
    <3> QED
      BY <3>3
  <2>5. CASE RemoveCompleted \/ BlockRootless \/ DeleteRequested
    BY <1>1, <2>5 DEF RemoveCompleted, BlockRootless, DeleteRequested, vars
  <2>6. CASE RecoverOnStart
    BY <2>6 DEF RecoverOnStart, BeginRecovery
  <2> QED
    BY <1>10, <2>1, <2>2, <2>3, <2>4, <2>5, <2>6 DEF Daemon
<1> QED
  BY <1>3, <1>4, <1>5, <1>6, <1>7, <1>8, <1>9, <1>10 DEF ControllerNext

\* A tree that comes to rest: the end of its last tool call quiesces it, and no
\* other command takes a tool call away.
LEMMA QuiescingSent ==
  ASSUME CInv, ToolsOfThreads, Sent, status' = "transitioning", trans'.phase = "quiescing"
  PROVE  \/ \E t \in AnyThread : effects' = <<Effect("quiesce_tree", t)>>
         \/ /\ status = "transitioning" /\ trans.phase = "quiescing"
            /\ ToolsInFlight(tools) => ToolsInFlight(tools')
<1> USE DEF CInv, IInv, PersistedOK
<1> DEFINE Stays == /\ status = "transitioning" /\ trans.phase = "quiescing"
                    /\ ToolsInFlight(tools) => ToolsInFlight(tools')
           Quiesces == \E t \in AnyThread : effects' = <<Effect("quiesce_tree", t)>>
<1>1. UNCHANGED <<runVars, tools>> => Stays
  BY DEF runVars
<1>2. ASSUME NEW t \in AnyThread, effects' = <<Effect("quiesce_tree", t)>> \o <<>>
      PROVE  Quiesces
  BY <1>2
<1>3. ASSUME NEW t \in Threads, TurnEnded(t, <<>>) PROVE Stays
  <2>1. ~BlockRun("other", <<>>) /\ ~CompleteRun(t, <<>>)
    BY DEF BlockRun, SetBlocked, CompleteRun
  <2> QED
    BY <1>1, <1>3, <2>1 DEF TurnEnded, WorkerTurnEnded, RootTurnEnded, persisted, threadVars
<1>4. ASSUME NEW t \in Threads, NEW u \in Tools, ToolEnded(t, u, <<>>)
      PROVE  Stays \/ Quiesces
  <2>1. status = "transitioning" /\ trans.phase = "quiescing" /\ trans.old \in AnyThread
    BY <1>4 DEF ToolEnded, runVars, TransitionType
  <2>2. CASE ToolsInFlight(tools')
    BY <2>1, <2>2
  <2>3. CASE ~ToolsInFlight(tools')
    BY <1>2, <1>4, <2>1, <2>3 DEF ToolEnded, AfterLastTool
  <2> QED
    BY <2>2, <2>3
<1>5. CASE Notification
  <2>1. ASSUME NEW t \in Threads, NEW p \in Threads, RegisterWorker(t, p, <<>>) PROVE Stays
    BY <2>1 DEF RegisterWorker, PutThread, ToolsOfThreads, ToolsInFlight, runVars
  <2>2. ASSUME NEW t \in Threads, NEW u \in Tools PROVE ~ToolStarted(t, u, <<>>)
    BY DEF ToolStarted, ActiveThread, runVars
  <2>3. ASSUME NEW t \in Threads, ThreadTurnStarted(t, <<>>) PROVE Stays
    BY <1>1, <2>3 DEF ThreadTurnStarted, persisted, threadVars
  <2> QED
    BY <1>3, <1>4, <1>5, <2>1, <2>2, <2>3 DEF Notification
<1>6. CASE Request
  <2>1. ASSUME NEW t \in Threads, BeginCompaction(t, <<>>) PROVE Quiesces
    <3>1. ~BeginWorkerCompaction(t, <<>>)
      BY <2>1 DEF BeginCompaction, ActiveThread, BeginWorkerCompaction, runVars
    <3> QED
      BY <1>2, <2>1, <3>1 DEF BeginCompaction, BeginRootCompaction, AnyThread
  <2>2. ASSUME NEW t \in Threads, NEW p \in Reports, ReportProgress(t, p, <<>>) PROVE Stays
    BY <1>1, <2>2 DEF ReportProgress
  <2>3. ASSUME NEW h \in Handoffs, NEW t \in Threads, AcceptHandoff(h, t, <<>>) PROVE Stays
    <3>1. ~AcceptTreeHandoff(h, t, <<>>)
      BY DEF AcceptTreeHandoff, TransitionType
    <3> QED
      BY <2>3, <3>1 DEF AcceptHandoff, AcceptAgentHandoff
  <2>4. ASSUME NEW h \in Handoffs, NEW t \in Threads, ResolveHandoff(h, t, <<>>) PROVE Stays
    BY <1>1, <2>4 DEF ResolveHandoff
  <2>5. ~StopRun(<<>>)
    BY DEF StopRun
  <2>6. FinalizeReportedCompletion(<<>>) => Stays
    BY <1>3 DEF FinalizeReportedCompletion, RootActive
  <2> QED
    BY <1>6, <2>1, <2>2, <2>3, <2>4, <2>5, <2>6 DEF Request
<1>7. ~ResumeRun(<<>>) /\ \A t \in Threads : ~RegisterRoot(t, <<>>)
  BY DEF ResumeRun, RegisterRoot
<1> QED
  BY <1>5, <1>6, <1>7 DEF Sent

-----------------------------------------------------------------------------
(* Each phase is moved on *)

\* Another effect has been applied: what is ahead stays ahead.
LEMMA TailMoves ==
  ASSUME effects \in Seq(Effects), effects # <<>>, Mover, UNCHANGED <<trans, tools>>,
         Head(effects).kind \notin {"recover_run", "start_root_read_only", "retire_tree"},
         Head(effects).kind = "quiesce_tree" => ToolsInFlight(tools),
         Head(effects) # Generation(trans.old),
         \A i \in 1..Len(Tail(effects)) : \E k \in 1..Len(effects') : effects'[k] = Tail(effects)[i]
  PROVE  Mover'
<1>1. /\ Head(effects) = effects[1] /\ Len(effects) \in Nat \ {0}
      /\ Len(Tail(effects)) = Len(effects) - 1
      /\ \A i \in 1..Len(Tail(effects)) : Tail(effects)[i] = effects[i + 1]
  BY PopEffect
<1>2. ASSUME NEW E, Head(effects) \notin E, NEW i \in 1..Len(effects), effects[i] \in E
      PROVE  \E k \in 1..Len(effects') : effects'[k] \in E
  <2>1. i - 1 \in 1..Len(Tail(effects)) /\ Tail(effects)[i - 1] = effects[i]
    BY <1>1, <1>2
  <2> QED
    BY <1>2, <2>1
<1>3. \A kind : Head(effects) \in Of(kind) => Head(effects).kind = kind
  <2> SUFFICES ASSUME NEW kind, NEW t \in AnyThread, Head(effects) = Effect(kind, t)
               PROVE  Head(effects).kind = kind
    BY DEF Of
  <2> QED
    BY DEF Effect
<1>4. Ahead(Of("recover_run")) => Ahead(Of("recover_run"))'
  BY <1>2, <1>3 DEF Ahead, Of
<1>5. ToolsInFlight(tools) \/ Ahead(Of("quiesce_tree"))
        => ToolsInFlight(tools) \/ Ahead(Of("quiesce_tree"))'
  BY <1>2, <1>3 DEF Ahead, Of
<1>6. Ahead({Generation(trans.old)}) => Ahead({Generation(trans.old)})'
  <2>1. Head(effects) \notin {Generation(trans.old)}
    OBVIOUS
  <2> QED
    BY <1>2, <2>1 DEF Ahead, Generation
<1>7. Ahead(Of("start_root_read_only")) => Ahead(Of("start_root_read_only"))'
  BY <1>2, <1>3 DEF Ahead, Of
<1>8. Ahead(Of("retire_tree")) => Ahead(Of("retire_tree"))'
  BY <1>2, <1>3 DEF Ahead, Of
<1>9. ToolsInFlight(tools)' <=> ToolsInFlight(tools)
  BY DEF ToolsInFlight
<1> QED
  BY <1>4, <1>5, <1>6, <1>7, <1>8, <1>9 DEF Mover

\* The effect a command puts in front is ahead.
LEMMA PushAhead ==
  ASSUME NEW kind \in EffectKind, NEW t \in AnyThread, NEW rest \in Seq(Effects),
         effects' = <<Effect(kind, t)>> \o rest
  PROVE  Ahead(Of(kind))'
<1>1. Len(effects') = 1 + Len(rest) /\ Len(rest) \in Nat /\ effects'[1] = Effect(kind, t)
  BY PushEffect
<1>2. effects'[1] \in Of(kind) /\ 1 \in 1..Len(effects')
  BY <1>1 DEF Of
<1> QED
  BY <1>2 DEF Ahead, Of

\* The generation of a tree has its root's ahead.
LEMMA TreeAhead ==
  ASSUME NEW S \in SUBSET Threads, NEW order \in SetToSeqs(S), NEW r \in Threads,
         NEW rest \in Seq(Effects), effects' = GenerateAll(order, r) \o rest
  PROVE  \E i \in 1..Len(effects') : effects'[i] = Generation(r)
<1>1. order \in Seq(Threads)
  BY OrderCovers
<1>2. /\ Len(order) \in Nat /\ Len(rest) \in Nat /\ Len(effects') = Len(order) + 1 + Len(rest)
      /\ effects'[Len(order) + 1] = Generation(r)
  BY <1>1, PushGenerations
<1> QED
  BY <1>2

\* An applied effect leaves what the next phase needs.
LEMMA ApplyMoves ==
  ASSUME CInv, status = "transitioning" => Mover, Apply, status' = "transitioning"
  PROVE  Mover'
<1> USE DEF CInv, ControllerTypeOK, TypeOK
<1>1. /\ effects # <<>> /\ Tail(effects) \in Seq(Effects) /\ effects \in Seq(Effects)
      /\ Len(Tail(effects)) \in Nat
  BY ApplyStep, PopEffect, LenProperties
<1>2. TransitionType
  BY DEF IInv, PersistedOK
<1>3. effects' = Tail(effects) =>
        \A i \in 1..Len(Tail(effects)) : \E k \in 1..Len(effects') : effects'[k] = Tail(effects)[i]
  OBVIOUS
<1>4. \A t : Generation(t).kind = "generate_handoff" /\ Stop(t).kind = "stop_thread"
  BY DEF Generation, Stop, Effect
<1>5. CASE Passes
  <2>1. UNCHANGED <<status, trans, tools>>
    BY <1>5 DEF Passes, SetDeleted, persisted, runVars, threadVars
  <2> QED
    BY <1>1, <1>3, <1>4, <1>5, <2>1, TailMoves DEF Passes
<1>6. CASE Head(effects).kind = "start_app_server" /\ RegisterAppServer(Tail(effects))
  <2>1. UNCHANGED <<status, trans, tools>> /\ effects' = Tail(effects)
    BY <1>6 DEF RegisterAppServer, threadVars
  <2> QED
    BY <1>1, <1>3, <1>4, <1>6, <2>1, TailMoves
<1>7. ASSUME NEW t \in Threads, Head(effects) = Stop(t), ThreadStopped(t, Tail(effects))
      PROVE  Mover'
  <2>1. UNCHANGED <<status, trans, tools>> /\ effects' = Tail(effects)
    BY <1>7 DEF ThreadStopped, runVars
  <2>2. Head(effects) # Generation(trans.old)
    BY <1>4, <1>7
  <2> QED
    BY <1>1, <1>3, <1>4, <1>7, <2>1, <2>2, TailMoves
<1>8. ASSUME NEW t \in Threads, NEW h \in Handoffs, Head(effects) = Generation(t),
             RecordHandoff(h, t, IF role[t] = "root" THEN "tree" ELSE "agent", Tail(effects))
      PROVE  Mover'
  <2>1. CASE role[t] = "root"
    <3>1. RecordTreeHandoff(h, t, Tail(effects))
      BY <1>8, <2>1 DEF RecordHandoff
    <3>2. trans'.phase = "awaiting_root"
      BY <1>2, <3>1 DEF RecordTreeHandoff, TransitionType
    <3>3. Ahead(Of("start_root_read_only"))'
      BY <1>1, <3>1, PushAhead DEF RecordTreeHandoff, EffectKind, AnyThread
    <3> QED
      BY <3>2, <3>3 DEF Mover
  <2>2. CASE role[t] # "root"
    <3>1. /\ RecordAgentHandoff(t, Tail(effects))
          /\ UNCHANGED <<status, trans, tools>> /\ status = "transitioning"
      BY <1>8, <2>2 DEF RecordHandoff, RecordAgentHandoff
    <3>2. t # trans.old
      BY <2>2, <3>1, RootOrNone DEF IInv, Succession, RootIsRoot
    <3>3. Head(effects) # Generation(trans.old)
      BY <1>8, <3>2 DEF Generation, Effect
    <3>4. effects' = <<Stop(t)>> \o Tail(effects)
      <4>1. SteerParent(t) = <<>>
        BY <3>1 DEF SteerParent
      <4>2. <<Stop(t)>> \in Seq(Effects)
        BY EffectType DEF Stop, EffectKind, AnyThread
      <4> QED
        BY <1>1, <3>1, <4>1, <4>2, ConcatEmptySeq DEF RecordAgentHandoff, Stop
    <3>5. /\ Len(effects') = 1 + Len(Tail(effects))
          /\ \A i \in 2..Len(effects') : effects'[i] = Tail(effects)[i - 1]
      BY <1>1, <3>4, PushEffect DEF Stop, EffectKind, AnyThread
    <3>6. \A i \in 1..Len(Tail(effects)) :
            i + 1 \in 1..Len(effects') /\ effects'[i + 1] = Tail(effects)[i]
      BY <1>1, <3>5
    <3> QED
      BY <1>1, <1>4, <1>8, <3>1, <3>3, <3>6, TailMoves
  <2> QED
    BY <2>1, <2>2
<1>9. ASSUME NEW order \in SetToSeqs(UnfinishedTree), TreeQuiesced(order, Tail(effects))
      PROVE  Mover'
  <2>1. trans'.phase = "generating" /\ trans'.old = trans.old
    BY <1>2, <1>9 DEF TreeQuiesced, TransitionType
  <2>2. UnfinishedTree \in SUBSET Threads /\ trans.old \in Threads
    BY <1>9, RootOrNone DEF UnfinishedTree, TreeQuiesced
  <2>3. effects' = GenerateAll(order, trans.old) \o Tail(effects)
    BY <1>9 DEF TreeQuiesced
  <2>4. \E i \in 1..Len(effects') : effects'[i] = Generation(trans.old)
    BY <1>1, <2>2, <2>3, TreeAhead
  <2> QED
    BY <2>1, <2>4 DEF Mover, Ahead, Generation
<1>10. ASSUME NEW t \in Threads, NEW rest, RegisterReplacementRoot(t, rest)
       PROVE  Mover'
  <2>1. trans'.phase = "awaiting_root" /\ trans'.new = t
    BY <1>2, <1>10 DEF RegisterReplacementRoot, TransitionType
  <2> QED
    BY <2>1, EngineAssumption DEF Mover
<1>11. ~CompleteRootTransfer(Tail(effects))
  BY DEF CompleteRootTransfer
<1>12. ASSUME NEW order \in SetToSeqs(UnfinishedWorkers), RecoverRun(order, Tail(effects))
       PROVE  Mover'
  <2>1. trans'.phase = "generating" /\ trans'.old = root
    BY <1>12 DEF RecoverRun, Transition
  <2>2. UnfinishedWorkers \in SUBSET Threads /\ root \in Threads
    BY <1>12 DEF UnfinishedWorkers, RecoverRun
  <2>3. effects' = GenerateAll(order, root) \o Tail(effects)
    BY <1>12 DEF RecoverRun
  <2>4. \E i \in 1..Len(effects') : effects'[i] = Generation(root)
    BY <1>1, <2>2, <2>3, TreeAhead
  <2> QED
    BY <2>1, <2>4 DEF Mover, Ahead, Generation
<1>13. CASE Moves
  BY <1>7, <1>8, <1>9, <1>10, <1>11, <1>12, <1>13 DEF Moves
<1> QED
  BY <1>1, <1>5, <1>6, <1>13, ApplyStep

\* A command that a client sends starts a phase with what moves it.
LEMMA SentMoves ==
  ASSUME CInv, ToolsOfThreads, effects = <<>>, status = "transitioning" => Mover,
         Sent, status' = "transitioning"
  PROVE  Mover'
<1>1. \A E : ~Ahead(E)
  BY DEF Ahead
<1>2. ASSUME NEW kind, NEW t \in AnyThread, effects' = <<Effect(kind, t)>>
      PROVE  Ahead(Of(kind))'
  <2>1. effects'[1] \in Of(kind) /\ 1 \in 1..Len(effects')
    BY <1>2 DEF Of
  <2> QED
    BY <2>1 DEF Ahead, Of
<1>3. CASE trans'.phase = "quiescing"
  <2>1. CASE \E t \in AnyThread : effects' = <<Effect("quiesce_tree", t)>>
    BY <1>2, <1>3, <2>1 DEF Mover
  <2>2. CASE /\ status = "transitioning" /\ trans.phase = "quiescing"
             /\ ToolsInFlight(tools) => ToolsInFlight(tools')
    <3>1. ToolsInFlight(tools)
      BY <1>1, <2>2 DEF Mover
    <3>2. ToolsInFlight(tools)'
      BY <2>2, <3>1 DEF ToolsInFlight
    <3> QED
      BY <1>3, <3>2 DEF Mover
  <2> QED
    BY <1>3, <2>1, <2>2, QuiescingSent
<1>4. CASE trans'.phase # "quiescing"
  <2>1. /\ HandingOver
        /\ \/ trans' = trans
           \/ trans'.phase = "retiring" /\ effects' = <<Effect("retire_tree", trans.old)>>
    BY <1>4, HandingOverSent DEF HandingOver, CInv
  <2>2. CASE trans' = trans
    BY <1>1, <2>1, <2>2 DEF Mover, HandingOver
  <2>3. CASE trans'.phase = "retiring" /\ effects' = <<Effect("retire_tree", trans.old)>>
    <3>1. trans.old \in AnyThread
      BY DEF CInv, IInv, PersistedOK, TransitionType
    <3> QED
      BY <1>2, <2>3, <3>1 DEF Mover
  <2> QED
    BY <2>1, <2>2, <2>3
<1> QED
  BY <1>3, <1>4

\* MoverLeft is preserved by every step of the controller.
LEMMA MoverStep ==
  ASSUME RescueMayFail = FALSE, CInv, Moving, [ControllerNext]_controllerVars
  PROVE  MoverLeft'
<1> USE DEF Moving
<1>1. UNCHANGED vars /\ Served => MoverLeft'
  <2> SUFFICES ASSUME UNCHANGED vars, Served, status = "transitioning" PROVE Mover'
    BY DEF MoverLeft, vars, persisted, runVars
  <2>1. Mover
    BY DEF MoverLeft
  <2> QED
    BY <2>1 DEF vars, persisted, runVars, threadVars, Mover, Ahead, Of, Generation,
       ToolsInFlight
<1>2. CASE UNCHANGED controllerVars
  BY <1>1, <1>2 DEF controllerVars, daemonVars, Served, MoverLeft, vars
<1>3. CASE ControllerNext
  <2> SUFFICES ASSUME status' = "transitioning", Served' PROVE Mover'
    BY DEF MoverLeft
  <2>1. CASE Served /\ UNCHANGED vars
    BY <1>1, <2>1 DEF MoverLeft
  <2>2. CASE Served /\ Apply
    BY <2>2, ApplyMoves DEF MoverLeft
  <2>3. CASE Served /\ effects = <<>> /\ Sent
    BY <2>3, SentMoves DEF MoverLeft
  <2>4. CASE effects' = <<Effect("recover_run", root)>>
    <3>1. root \in AnyThread
      BY DEF CInv, IInv, PersistedOK
    <3>2. effects'[1] \in Of("recover_run") /\ 1 \in 1..Len(effects')
      BY <2>4, <3>1 DEF Of
    <3> QED
      BY <3>2 DEF Mover, Ahead, Of
  <2> QED
    BY <1>3, <2>1, <2>2, <2>3, <2>4, NothingDropped
<1> QED
  BY <1>2, <1>3

-----------------------------------------------------------------------------
(* The app-server of a run *)

Working == {"starting", "active", "transitioning"}

NoStopIn(s) == \A i \in 1..Len(s) : s[i].kind # "stop_app_server"
StopFirst(s) == \A i \in 1..Len(s) : s[i].kind = "stop_app_server" => i = 1

\* The app-server is only stopped for a run that is over, and at once.
StopOnlyOver == StopFirst(effects) /\ (status \in Working => NoStopIn(effects))

\* A run that works has its app-server, or the news of its exit is on the way,
\* or what starts one is next.  A run that was revived keeps its reason.
ServerThere ==
  boot \in {"cleanup", "done"} /\ reason = "none" /\ status \in Working =>
    \/ exited \/ server = "up"
    \/ effects # <<>> /\ Head(effects).kind \in {"start_app_server", "recover_run"}

\* Another effect in front.
LEMMA PushNoStop ==
  ASSUME NEW kind \in EffectKind, NEW t \in AnyThread, NEW rest \in Seq(Effects),
         NoStopIn(rest)
  PROVE  /\ StopFirst(<<Effect(kind, t)>> \o rest)
         /\ kind # "stop_app_server" => NoStopIn(<<Effect(kind, t)>> \o rest)
<1> DEFINE pushed == <<Effect(kind, t)>> \o rest
<1>1. /\ Len(pushed) = 1 + Len(rest) /\ Len(rest) \in Nat
      /\ pushed[1] = Effect(kind, t)
      /\ \A i \in 2..Len(pushed) : pushed[i] = rest[i - 1]
  BY PushEffect
<1> HIDE DEF pushed
<1>2. \A i \in 1..Len(pushed) : i # 1 => i - 1 \in 1..Len(rest) /\ pushed[i] = rest[i - 1]
  BY <1>1
<1>3. Effect(kind, t).kind = kind
  BY DEF Effect
<1>4. StopFirst(pushed)
  BY <1>2 DEF StopFirst, NoStopIn
<1>5. kind # "stop_app_server" => NoStopIn(pushed)
  BY <1>1, <1>2, <1>3 DEF NoStopIn
<1> QED
  BY <1>4, <1>5 DEF pushed

\* Only the commands that end a run have its app-server stopped.
LEMMA CommandEnds ==
  ASSUME IInv, NEW rest \in Seq(Effects), SentCommand(rest), NoStopIn(rest)
  PROVE  NoStopIn(effects') \/ (status' \notin Working /\ StopFirst(effects'))
<1> DEFINE Ends == NoStopIn(effects') \/ (status' \notin Working /\ StopFirst(effects'))
<1>1. ASSUME NEW kind \in EffectKind \ {"stop_app_server"}, NEW t \in AnyThread,
             effects' = <<Effect(kind, t)>> \o rest
      PROVE  NoStopIn(effects')
  BY <1>1, PushNoStop
<1>2. /\ root \in AnyThread /\ trans.old \in AnyThread /\ trans.new \in AnyThread
      /\ \A t \in Threads : parent[t] \in AnyThread
  BY DEF IInv, PersistedOK, TransitionType
<1>3. ASSUME NEW order \in Seq(Threads), NEW r \in Threads,
             effects' = GenerateAll(order, r) \o rest
      PROVE  NoStopIn(effects')
  <2>1. /\ Len(order) \in Nat /\ Len(effects') = Len(order) + 1 + Len(rest)
        /\ Len(rest) \in Nat
        /\ \A i \in 1..Len(order) : effects'[i] = Generation(order[i])
        /\ effects'[Len(order) + 1] = Generation(r)
        /\ \A i \in (Len(order) + 2)..Len(effects') : effects'[i] = rest[i - Len(order) - 1]
    BY <1>3, PushGenerations
  <2>2. SUFFICES ASSUME NEW i \in 1..Len(effects') PROVE effects'[i].kind # "stop_app_server"
    BY DEF NoStopIn
  <2>3. CASE i > Len(order) + 1
    <3>1. i - Len(order) - 1 \in 1..Len(rest) /\ effects'[i] = rest[i - Len(order) - 1]
      BY <2>1, <2>3
    <3> QED
      BY <3>1 DEF NoStopIn
  <2>4. CASE i <= Len(order) + 1
    <3>1. \A u : Generation(u).kind # "stop_app_server"
      BY DEF Generation, Effect
    <3> QED
      BY <2>1, <2>4, <3>1
  <2> QED
    BY <2>1, <2>3, <2>4
<1>4. ASSUME NEW t \in Threads, TurnEnded(t, rest) PROVE Ends
  <2>1. CASE WorkerTurnEnded(t, rest)
    BY <2>1 DEF WorkerTurnEnded
  <2>2. CASE effects' = <<Effect("start_next_turn", t)>> \o rest
    BY <2>2, <1>1 DEF EffectKind, AnyThread
  <2>3. CASE BlockRun("other", rest)
    BY <2>3, <1>1, <1>2 DEF BlockRun, EffectKind
  <2>4. CASE CompleteRun(t, rest)
    <3>1. effects' = <<Effect("stop_app_server", t)>> \o (<<Effect("delete_run", NoThread)>> \o rest)
      <4>1. Effect("stop_app_server", t) \in Effects /\ Effect("delete_run", NoThread) \in Effects
        BY DEF Effect, Effects, EffectKind, AnyThread
      <4>2. effects' = <<Effect("stop_app_server", t), Effect("delete_run", NoThread)>> \o rest
        BY <2>4 DEF CompleteRun
      <4> QED
        BY <4>1, <4>2
    <3>2. /\ NoStopIn(<<Effect("delete_run", NoThread)>> \o rest)
          /\ <<Effect("delete_run", NoThread)>> \o rest \in Seq(Effects)
      BY PushNoStop, PushEffect DEF EffectKind, AnyThread
    <3>3. StopFirst(effects')
      BY <3>1, <3>2, PushNoStop DEF EffectKind, AnyThread
    <3> QED
      BY <2>4, <3>3 DEF CompleteRun, Working
  <2> QED
    BY <1>4, <2>1, <2>2, <2>3, <2>4 DEF TurnEnded, RootTurnEnded
<1>5. ASSUME NEW t \in Threads, ThreadCommand(t, rest) PROVE Ends
  <2>1. CASE effects' = rest
    BY <2>1
  <2>2. ASSUME NEW u \in Tools, ToolEnded(t, u, rest) PROVE Ends
    <3>1. \/ effects' = <<Effect("quiesce_tree", trans.old)>> \o rest
          \/ effects' = <<>> \o rest
      BY <2>2 DEF ToolEnded, AfterLastTool
    <3>2. <<>> \o rest = rest
      BY ConcatEmptySeq
    <3> QED
      BY <1>1, <1>2, <3>1, <3>2 DEF EffectKind
  <2>3. CASE BeginCompaction(t, rest)
    BY <2>3, <1>1 DEF BeginCompaction, BeginRootCompaction, BeginWorkerCompaction,
       EffectKind, AnyThread
  <2> QED
    BY <1>4, <1>5, <2>1, <2>2, <2>3 DEF ThreadCommand, RegisterRoot, RegisterWorker,
       ThreadTurnStarted, ToolStarted, ReportProgress, ThreadStopped
<1>6. ASSUME NEW h \in Handoffs, NEW t \in Threads, HandoffCommand(h, t, rest)
      PROVE  Ends
  <2>1. CASE RecordTreeHandoff(h, t, rest)
    BY <2>1, <1>1 DEF RecordTreeHandoff, EffectKind, AnyThread
  <2>2. CASE RecordAgentHandoff(t, rest)
    <3>1. /\ NoStopIn(SteerParent(t) \o rest) /\ SteerParent(t) \o rest \in Seq(Effects)
      <4>1. CASE SteerParent(t) = <<Effect("steer_parent", parent[t])>>
        BY <1>2, <4>1, PushNoStop, PushEffect DEF EffectKind
      <4>2. CASE SteerParent(t) = <<>>
        BY <4>2, ConcatEmptySeq
      <4> QED
        BY <4>1, <4>2 DEF SteerParent
    <3>2. effects' = <<Effect("stop_thread", t)>> \o (SteerParent(t) \o rest)
      <4>1. <<Effect("stop_thread", t)>> \in Seq(Effects)
        BY EffectType DEF EffectKind, AnyThread
      <4>2. SteerParent(t) \in Seq(Effects)
        BY <1>2, EffectType, EmptySeq DEF SteerParent, EffectKind
      <4> QED
        BY <2>2, <4>1, <4>2, ConcatAssociative DEF RecordAgentHandoff
    <3> QED
      BY <3>1, <3>2, PushNoStop DEF EffectKind, AnyThread
  <2>3. CASE AcceptTreeHandoff(h, t, rest)
    BY <2>3, <1>1, <1>2 DEF AcceptTreeHandoff, EffectKind
  <2> QED
    BY <1>6, <2>1, <2>2, <2>3 DEF HandoffCommand, RecordHandoff, AcceptHandoff,
       AcceptAgentHandoff, ResolveHandoff
<1>7. ASSUME RunCommand(rest) PROVE Ends
  <2>1. CASE RegisterAppServer(rest)
    BY <2>1 DEF RegisterAppServer
  <2>2. ASSUME NEW r \in Reason, BlockRun(r, rest) PROVE Ends
    BY <2>2, <1>1, <1>2 DEF BlockRun, EffectKind
  <2>3. CASE StopRun(rest)
    <3>1. StopFirst(effects')
      BY <2>3, PushNoStop DEF StopRun, EffectKind, AnyThread
    <3> QED
      BY <2>3, <3>1 DEF StopRun, Working
  <2>4. CASE ResumeRun(rest)
    BY <2>4, <1>1, <1>2 DEF ResumeRun, EffectKind
  <2>5. CASE FinalizeReportedCompletion(rest)
    BY <2>5, <1>4 DEF FinalizeReportedCompletion, RootActive
  <2>6. ASSUME NEW order, TreeQuiesced(order, rest) PROVE Ends
    <3>1. order \in Seq(Threads)
      BY <2>6, OrderType DEF TreeQuiesced, UnfinishedTree
    <3>2. trans.old \in Threads
      BY <2>6, RootOrNone DEF TreeQuiesced
    <3> QED
      BY <1>3, <2>6, <3>1, <3>2 DEF TreeQuiesced
  <2>7. CASE CompleteRootTransfer(rest)
    BY <2>7, <1>1, <1>2 DEF CompleteRootTransfer, EffectKind
  <2>8. ASSUME NEW order, RecoverRun(order, rest) PROVE Ends
    <3>1. order \in Seq(Threads)
      BY <2>8, OrderType DEF RecoverRun, UnfinishedWorkers
    <3> QED
      BY <1>3, <2>8, <3>1 DEF RecoverRun
  <2> QED
    BY <1>7, <2>1, <2>2, <2>3, <2>4, <2>5, <2>6, <2>7, <2>8 DEF RunCommand, Reason
<1> QED
  BY <1>5, <1>6, <1>7 DEF SentCommand, RegisterReplacementRoot

\* StopOnlyOver is preserved by every step of the controller.
LEMMA StopOnlyOverStep ==
  ASSUME CInv, StopOnlyOver, [ControllerNext]_controllerVars
  PROVE  StopOnlyOver'
<1> USE DEF CInv, ControllerTypeOK, TypeOK
<1> DEFINE Ends == NoStopIn(effects') \/ (status' \notin Working /\ StopFirst(effects'))
<1>1. Ends => StopOnlyOver'
  BY DEF StopOnlyOver, NoStopIn, StopFirst
<1>2. NoStopIn(<<>>) /\ <<>> \in Seq(Effects)
  BY EmptySeq DEF NoStopIn
<1>3. CASE UNCHANGED controllerVars
  BY <1>3 DEF controllerVars, vars, persisted, runVars, StopOnlyOver
<1>4. CASE Sent \/ BlockRun("other", <<>>)
  <2>1. SentCommand(<<>>)
    BY <1>4, SentIsSentCommand DEF SentCommand, RunCommand, BlockReason
  <2> QED
    BY <1>1, <1>2, <2>1, CommandEnds
<1>5. CASE Apply
  <2>1. effects # <<>>
    BY <1>5, ApplyStep
  <2>2. NoStopIn(Tail(effects)) /\ Tail(effects) \in Seq(Effects)
    <3>1. /\ Len(effects) \in Nat \ {0} /\ Len(Tail(effects)) = Len(effects) - 1
          /\ \A i \in 1..Len(Tail(effects)) :
               i + 1 \in 1..Len(effects) /\ i + 1 # 1 /\ Tail(effects)[i] = effects[i + 1]
      BY <2>1, PopEffect
    <3> QED
      BY <2>1, <3>1, PopEffect DEF StopOnlyOver, StopFirst, NoStopIn
  <2>3. ASSUME NEW t \in Threads
        PROVE  /\ <<Effect("start_root_turn", t)>> \o Tail(effects) \in Seq(Effects)
               /\ NoStopIn(<<Effect("start_root_turn", t)>> \o Tail(effects))
    BY <2>2, PushEffect, PushNoStop DEF EffectKind, AnyThread
  <2>4. CASE Passes \/ RegisterAppServer(Tail(effects))
    BY <1>1, <2>2, <2>4 DEF Passes, RegisterAppServer
  <2>5. CASE Moves
    <3>1. PICK rest \in Seq(Effects) : SentCommand(rest) /\ NoStopIn(rest)
      BY <2>1, <2>2, <2>3, <2>5, MovesAreSent
    <3> QED
      BY <1>1, <3>1, CommandEnds
  <2> QED
    BY <1>5, <2>4, <2>5, ApplyStep
<1>6. CASE Beside
  <2>1. CASE effects' = <<Effect("recover_run", root)>>
    BY <1>1, <2>1 DEF NoStopIn, Effect
  <2>2. CASE effects' = effects
    BY <1>6, <2>2 DEF Beside, StatusWritten, SetBlocked, SetDeleted, persisted, runVars,
       StopOnlyOver, Working
  <2> QED
    BY <1>1, <1>2, <1>6, <2>1, <2>2 DEF Beside
<1> QED
  BY <1>3, <1>4, <1>5, <1>6, ContinuationStep

\* A run that is blocked or stopped says why, and only a root completes a run.
Settled ==
  /\ status \in {"blocked", "stopped"} => reason # "none"
  /\ status = "completed" => root # NoThread

\* Every command but those that take up a run or block it.
PlainCommand(rest) ==
  \/ \E t \in Threads : ThreadCommand(t, rest) \/ RegisterReplacementRoot(t, rest)
  \/ \E h \in Handoffs, t \in Threads : HandoffCommand(h, t, rest)
  \/ RegisterAppServer(rest) \/ StopRun(rest) \/ FinalizeReportedCompletion(rest)
  \/ \E order \in SetToSeqs(UnfinishedTree) : TreeQuiesced(order, rest)
  \/ CompleteRootTransfer(rest)

\* Such a command revives no run without keeping its reason.
LEMMA PlainSettled ==
  ASSUME IInv, Settled, NEW rest, PlainCommand(rest)
  PROVE  /\ Settled'
         /\ reason' = "none" /\ status' \in Working => reason = "none" /\ status \in Working
<1> USE DEF Settled, Working
<1> DEFINE Keeps ==
      /\ Settled'
      /\ reason' = "none" /\ status' \in Working => reason = "none" /\ status \in Working
<1>1. UNCHANGED <<status, reason, root>> => Keeps
  OBVIOUS
<1>2. UNCHANGED runVars => Keeps
  BY <1>1 DEF runVars
<1>3. ASSUME NEW t \in Threads, TurnEnded(t, rest) PROVE Keeps
  <2>1. CASE BlockRun("other", rest)
    BY <2>1 DEF BlockRun, SetBlocked
  <2>2. CASE RootTurnEnded(t, rest) /\ CompleteRun(t, rest)
    <3>1. t = root
      BY <1>3, <2>2 DEF IInv, PersistedOK, RecordsOK, Succession, SingleActiveRoot, Role,
         RootTurnEnded, TurnEnded
    <3> QED
      BY <2>2, <3>1, EngineAssumption DEF CompleteRun
  <2> QED
    BY <1>2, <1>3, <2>1, <2>2 DEF TurnEnded, WorkerTurnEnded, RootTurnEnded, persisted
<1>4. ASSUME NEW t \in Threads, ThreadCommand(t, rest) PROVE Keeps
  <2>1. CASE RegisterRoot(t, rest)
    <3>1. status \in RunStatus /\ root = NoThread /\ status # "deleted" /\ status' = "active"
          /\ reason' = reason
      BY <2>1 DEF RegisterRoot, Exists, IInv, PersistedOK
    <3> QED
      BY <3>1 DEF RunStatus
  <2>2. CASE BeginCompaction(t, rest)
    BY <1>2, <2>2 DEF BeginCompaction, ActiveThread, BeginRootCompaction,
       BeginWorkerCompaction
  <2> QED
    BY <1>2, <1>3, <1>4, <2>1, <2>2 DEF ThreadCommand, RegisterWorker, ThreadTurnStarted,
       ToolStarted, ToolEnded, ReportProgress, ThreadStopped, persisted
<1>5. ASSUME NEW h \in Handoffs, NEW t \in Threads, HandoffCommand(h, t, rest) PROVE Keeps
  BY <1>1, <1>2, <1>5 DEF HandoffCommand, RecordHandoff, AcceptHandoff, ResolveHandoff
<1>6. ASSUME NEW t \in Threads, RegisterReplacementRoot(t, rest) PROVE Keeps
  BY <1>1, <1>6 DEF RegisterReplacementRoot
<1>7. CASE RegisterAppServer(rest)
  BY <1>1, <1>7 DEF RegisterAppServer
<1>8. CASE StopRun(rest)
  BY <1>8 DEF StopRun
<1>9. ASSUME NEW order, TreeQuiesced(order, rest) PROVE Keeps
  BY <1>1, <1>9 DEF TreeQuiesced
<1>10. CASE CompleteRootTransfer(rest)
  BY <1>10 DEF CompleteRootTransfer, Retiring
<1> QED
  BY <1>3, <1>4, <1>5, <1>6, <1>7, <1>8, <1>9, <1>10
     DEF PlainCommand, FinalizeReportedCompletion, RootActive

\* Settled is preserved by every step of the controller.
LEMMA SettledStep ==
  ASSUME CInv, Settled, [ControllerNext]_controllerVars
  PROVE  Settled'
<1>1. ASSUME NEW rest \in Seq(Effects), SentCommand(rest) PROVE Settled'
  <2>1. CASE PlainCommand(rest)
    BY <2>1, PlainSettled DEF CInv
  <2>2. ASSUME NEW r \in BlockReason, BlockRun(r, rest) PROVE Settled'
    BY <2>2 DEF BlockRun, SetBlocked, Settled, BlockReason
  <2>3. CASE ResumeRun(rest)
    BY <2>3 DEF ResumeRun, Settled
  <2>4. ASSUME NEW order, RecoverRun(order, rest) PROVE Settled'
    BY <2>4 DEF RecoverRun, Settled
  <2> QED
    BY <1>1, <2>1, <2>2, <2>3, <2>4 DEF SentCommand, RunCommand, PlainCommand
<1>2. CASE StatusWritten
  BY <1>2 DEF StatusWritten, SetBlocked, SetDeleted, Settled, BlockReason
<1>3. CASE UNCHANGED persisted
  BY <1>3 DEF persisted, runVars, Settled
<1> QED
  BY <1>1, <1>2, <1>3, ControllerRunStep
     DEF CInv, IInv, ControllerTypeOK, TypeOK, PersistedOK, DaemonOK, RunStep, controllerVars, vars

\* ServerThere is preserved by every step of the controller.
LEMMA ServerStep ==
  ASSUME RescueMayFail = FALSE, CInv, MonitorBlocked, StopOnlyOver, Settled, ServerThere,
         [ControllerNext]_controllerVars
  PROVE  ServerThere'
<1> USE DEF CInv, ControllerTypeOK, TypeOK, DaemonOK
<1> DEFINE Works == reason = "none" /\ status \in Working
           Served2 == exited \/ server = "up"
<1> SUFFICES ASSUME boot' \in {"cleanup", "done"}, reason' = "none", status' \in Working,
                    ~exited', server' # "up"
             PROVE  effects' # <<>> /\ Head(effects').kind \in {"start_app_server", "recover_run"}
  BY DEF ServerThere
<1>1. ~BlockRun("other", <<>>) /\ ~SetDeleted /\ \A r : ~SetBlocked(r)
  BY DEF BlockRun, SetBlocked, SetDeleted, Working
<1>2. UNCHANGED <<vars, server, exited>> /\ boot \in {"cleanup", "done"} => ServerThere'
  BY DEF ServerThere, vars, persisted, runVars
<1>3. BeginRecovery => Head(effects').kind = "recover_run" /\ effects' # <<>>
  BY DEF BeginRecovery, Effect
<1>4. ASSUME NEW rest, PlainCommand(rest), UNCHANGED <<server, exited, boot>>,
             effects # <<>> => Head(effects).kind \notin {"start_app_server", "recover_run"}
      PROVE  FALSE
  BY <1>4, PlainSettled DEF ServerThere
<1>5. ASSUME UNCHANGED <<server, exited, boot, persisted>>,
             effects # <<>> => Head(effects).kind \notin {"start_app_server", "recover_run"}
      PROVE  FALSE
  BY <1>5 DEF ServerThere, persisted, runVars
<1>6. Idle => effects = <<>>
  BY DEF Idle
<1>7. CASE Execute
  <2>1. UNCHANGED <<server, exited, boot>> /\ effects = <<>>
    BY <1>6, <1>7 DEF Execute, daemonVars
  <2>2. PlainCommand(<<>>)
    BY <1>1, <1>7 DEF Execute, Notification, WaitingOnUserInput, Request, PlainCommand,
       ThreadCommand, HandoffCommand
  <2> QED
    BY <1>4, <2>1, <2>2
<1>8. CASE RegisterDecidedRoot
  <2>1. UNCHANGED <<server, exited, boot>> /\ effects = <<>>
    BY <1>6, <1>8 DEF RegisterDecidedRoot
  <2>2. CASE RegisterRoot(notice, <<>>)
    <3>1. PlainCommand(<<>>)
      BY <1>8, <2>2 DEF RegisterDecidedRoot, PlainCommand, ThreadCommand, AnyThread
    <3> QED
      BY <1>4, <2>1, <3>1
  <2> QED
    BY <1>5, <1>8, <2>1, <2>2 DEF RegisterDecidedRoot, vars
<1>9. CASE \E t \in Threads : DecideRoot(t)
  BY <1>2, <1>9 DEF DecideRoot, ServerThere
<1>10. CASE Resume
  BY <1>3, <1>10 DEF Resume, daemonVars
<1>11. CASE CheckTimeouts
  BY <1>1, <1>11 DEF CheckTimeouts
<1>12. CASE Apply
  <2>1. effects # <<>> /\ Head(effects) = effects[1] /\ 1 \in 1..Len(effects)
    BY <1>12, ApplyStep, PopEffect
  <2>2. ~StartAppServer /\ ~Recover
    BY DEF StartAppServer, Recover
  <2>3. ~DeleteRun
    BY <1>1 DEF DeleteRun
  <2>4. ~(Head(effects).kind = "stop_app_server" /\ StopAppServer)
    BY <2>1 DEF StopAppServer, Applied, persisted, runVars, StopOnlyOver, NoStopIn
  <2>5. Head(effects).kind \notin {"start_app_server", "recover_run"}
    BY <1>12, <2>2 DEF Apply
  <2>6. UNCHANGED <<server, exited, boot>>
    BY <1>12, <2>2, <2>3, <2>4 DEF Apply, GenerateHandoff, StopThread, QuiesceTree,
       StartRootReadOnly, RetireTree, StartTurn, CallAppServer, daemonVars
  <2>7. ~\E rest : PlainCommand(rest)
    BY <1>4, <2>5, <2>6
  <2>8. ~UNCHANGED persisted
    BY <1>5, <2>5, <2>6
  <2>9. ASSUME NEW t, GenerateHandoff(t) \/ StopThread(t) \/ StartTurn(t) PROVE FALSE
    BY <2>7, <2>8, <2>9 DEF GenerateHandoff, StopThread, StartTurn, ThreadTurnStarted,
       ThreadStopped, Registered, PlainCommand, HandoffCommand, ThreadCommand
  <2>10. ~QuiesceTree /\ ~StartRootReadOnly /\ ~RetireTree /\ ~CallAppServer
    BY <2>7, <2>8 DEF QuiesceTree, StartRootReadOnly, RetireTree, CallAppServer, Applied,
       PlainCommand
  <2> QED
    BY <1>12, <2>2, <2>3, <2>4, <2>9, <2>10 DEF Apply
<1>13. CASE Fail
  <2>1. Abandon => status \in Working /\ UNCHANGED persisted
    BY DEF Abandon, persisted, runVars
  <2>2. ~FailExecute /\ ~FailRecover
    BY <1>1, <2>1 DEF FailExecute, FailRecover, Exists, Working
  <2>3. ~FailMonitor
    <3> SUFFICES ASSUME FailMonitor PROVE FALSE
      OBVIOUS
    <3>1. effects # <<>> => Head(effects).kind = "block_tree"
      BY PopEffect DEF FailMonitor, MonitorBlocked
    <3> QED
      BY <1>5, <2>1, <3>1 DEF FailMonitor, daemonVars
  <2> QED
    BY <1>13, <2>2, <2>3 DEF Fail
<1>14. CASE Daemon
  <2>1. ~AppServerExits /\ ~Crash /\ ~Restart
    BY DEF AppServerExits, Crash, Restart
  <2>2. ~HandleAppServerExit
    BY <1>1 DEF HandleAppServerExit, Working, vars, persisted, runVars
  <2>3. CASE DeleteRequest
    BY <1>2, <2>3 DEF DeleteRequest, ServerThere
  <2>4. CASE DeleteRequested \/ RemoveCompleted
    BY <1>1, <1>2, <2>4 DEF DeleteRequested, RemoveCompleted, ServerThere, vars
  <2>5. ~ListRuns
    BY DEF ListRuns, RecoverableOnStart, vars, persisted, runVars, Working
  <2>6. ~BlockRootless
    BY <1>1 DEF BlockRootless, Exists, persisted, runVars, Working
  <2>7. CASE RecoverOnStart
    BY <1>3, <2>7 DEF RecoverOnStart
  <2> QED
    BY <1>14, <2>1, <2>2, <2>3, <2>4, <2>5, <2>6, <2>7 DEF Daemon
<1>15. CASE UNCHANGED controllerVars
  BY <1>2, <1>15 DEF controllerVars, daemonVars, ServerThere
<1> QED
  BY <1>7, <1>8, <1>9, <1>10, <1>11, <1>12, <1>13, <1>14, <1>15 DEF ControllerNext

\* If neither listing a run nor blocking it fails, a transition is left to its
\* deadline only by a tool call that is counted although it has been lost with
\* its app-server (module LostTools): whatever else fails, crashes or is
\* recovered, between two commands the exit of the run's app-server is about to
\* be handled, or the app-server is up and has a tool call to report or a
\* replacement root that has yet to accept.  The hypothesis is needed: Execute,
\* recover and the exit callback ignore the error of their block (controller.go).
THEOREM ControllerNoAbandonedTransition ==
  ASSUME RescueMayFail = FALSE
  PROVE  ControllerSpec => []NoAbandonedTransition
<1> DEFINE Served2 == StopOnlyOver /\ Settled /\ ServerThere
<1>1. ControllerInit => Moving /\ Served2
  <2> SUFFICES ASSUME ControllerInit PROVE Moving /\ Served2
    OBVIOUS
  <2>1. Moving
    BY DEF ControllerInit, Init, Moving, MoverLeft, MonitorBlocked, ToolsOfThreads
  <2>2. effects = <<Effect("start_app_server", NoThread)>>
    BY DEF ControllerInit, Init
  <2>3. Head(effects).kind = "start_app_server" /\ effects # <<>> /\ NoStopIn(effects)
    BY <2>2 DEF Effect, NoStopIn
  <2> QED
    BY <2>1, <2>3 DEF ControllerInit, Init, StopOnlyOver, StopFirst, NoStopIn, Settled, ServerThere
<1>2. CInv /\ Moving /\ Served2 /\ [ControllerNext]_controllerVars => (Moving /\ Served2)'
  BY MoverStep, MonitorStep, ToolsStep, StopOnlyOverStep, SettledStep, ServerStep DEF Moving
<1>3. CInv /\ Moving /\ Served2 => NoAbandonedTransition
  <2> SUFFICES ASSUME CInv, Moving, Served2, status = "transitioning", reason = "none", Idle,
                      boot = "done", ~exited
               PROVE  /\ server = "up"
                      /\ \/ trans.phase = "quiescing" /\ ToolsInFlight(tools)
                         \/ trans.phase = "awaiting_root" /\ trans.new # NoThread
    BY DEF NoAbandonedTransition
  <2>1. effects = <<>>
    BY DEF Idle, CInv, ControllerTypeOK, DaemonOK
  <2>2. \A E : ~Ahead(E)
    BY <2>1 DEF CInv, ControllerTypeOK, TypeOK, Ahead
  <2>3. Mover
    BY DEF Moving, MoverLeft, Served
  <2>4. server = "up"
    BY <2>1 DEF ServerThere, Working
  <2> QED
    BY <2>2, <2>3, <2>4 DEF Mover
<1> HIDE DEF Served2
<1> QED
  BY ControllerInvariance, <1>1, <1>2, <1>3, PTL DEF ControllerSpec

=============================================================================
