-------------------------- MODULE TransitionProofs --------------------------
(***************************************************************************)
(* A transition of the run, carried through by the daemon's controller.    *)
(* The engine keeps no record of which threads still have to hand over: it *)
(* is in the effects the controller has left to apply.  The invariants     *)
(* here relate that continuation to the run it will be applied to.         *)
(***************************************************************************)
EXTENDS ControllerProofs

Generation(t) == Effect("generate_handoff", t)
Stop(t) == Effect("stop_thread", t)

\* The tree has come to rest and is being handed over.
HandingOver == status = "transitioning" /\ trans.phase # "quiescing"

\* The root's handoff is generated last: before it, every other thread that is
\* still live has its own generated, or is stopped.
WholeTreeFirst ==
  status = "transitioning" /\ trans.phase = "generating" =>
    \A j \in 1..Len(effects) : effects[j] = Generation(trans.old) =>
      \A t \in Threads \ {trans.old} : tstat[t] \in Live =>
        \E i \in 1..(j - 1) : effects[i] \in {Generation(t), Stop(t)}

\* A thread is only stopped once a handoff of it is recorded.
Recorded(t) == \E h \in Handoffs : hstat[h] # "absent" /\ hsource[h] = t

StopsAreRecorded ==
  \A i \in 1..Len(effects) : effects[i].kind = "stop_thread" => Recorded(effects[i].thread)

\* The inductive invariant of a hand-over.
HandOver == QuietTools /\ TreeHandedOver /\ WholeTreeFirst

-----------------------------------------------------------------------------
(* The continuation *)

\* The next effect and those after it.
LEMMA PopEffect ==
  ASSUME effects \in Seq(Effects), effects # <<>>
  PROVE  /\ Head(effects) = effects[1] /\ Head(effects) \in Effects
         /\ Tail(effects) \in Seq(Effects)
         /\ Len(effects) \in Nat \ {0} /\ Len(Tail(effects)) = Len(effects) - 1
         /\ \A i \in 1..Len(Tail(effects)) : Tail(effects)[i] = effects[i + 1]
  BY HeadTailProperties, LenProperties, EmptySeq

\* An effect put in front of others.
LEMMA PushEffect ==
  ASSUME NEW kind \in EffectKind, NEW t \in AnyThread, NEW rest \in Seq(Effects)
  PROVE  LET pushed == <<Effect(kind, t)>> \o rest IN
         /\ pushed \in Seq(Effects) /\ Len(pushed) = 1 + Len(rest) /\ Len(rest) \in Nat
         /\ pushed[1] = Effect(kind, t)
         /\ \A i \in 2..Len(pushed) : pushed[i] = rest[i - 1]
<1>1. <<Effect(kind, t)>> \in Seq(Effects) /\ Len(<<Effect(kind, t)>>) = 1
  BY EffectType
<1> QED
  BY <1>1, ConcatProperties, LenProperties

\* What the app-server and the daemon's clients send while the mutex is free.
Sent ==
  \/ Notification \/ Request
  \/ \E t \in Threads : RegisterRoot(t, <<>>)
  \/ ResumeRun(<<>>)

\* What is done beside the run: effects are dropped, a recovery is begun, or
\* nothing but the run's status is written.
Beside ==
  /\ UNCHANGED persisted \/ StatusWritten
  /\ effects' \in {effects, <<>>, <<Effect("recover_run", root)>>}

\* A step of the controller sends a command while nothing is left to apply,
\* blocks the run, applies the next effect, or passes the run by.
LEMMA ContinuationStep ==
  ASSUME CInv, ControllerNext
  PROVE  \/ effects = <<>> /\ Sent
         \/ BlockRun("other", <<>>)
         \/ Apply
         \/ Beside
<1>1. Idle => effects = <<>>
  BY DEF CInv, ControllerTypeOK, DaemonOK, Idle
<1>2. UNCHANGED vars => Beside
  BY DEF vars, Beside
<1>3. Abandon => Beside
  BY DEF Abandon, Beside
<1>4. BeginRecovery => Beside
  BY DEF BeginRecovery, Beside
<1>5. CASE Execute
  BY <1>1, <1>5 DEF Execute, Sent, WaitingOnUserInput
<1>6. CASE (\E t \in Threads : DecideRoot(t)) \/ RegisterDecidedRoot
  BY <1>1, <1>2, <1>6 DEF DecideRoot, RegisterDecidedRoot, Sent, CInv, ControllerTypeOK,
     DaemonOK, AnyThread
<1>7. CASE Resume
  BY <1>1, <1>4, <1>7 DEF Resume, Sent
<1>8. CASE CheckTimeouts
  BY <1>8 DEF CheckTimeouts
<1>9. CASE Fail
  <2>1. SetBlocked("recovery") /\ effects' = <<>> => Beside
    BY DEF Beside, StatusWritten, Reason, BlockReason
  <2> QED
    BY <1>3, <1>9, <2>1 DEF Fail, FailExecute, FailRecover, FailMonitor
<1>10. CASE Daemon
  <2>1. CASE AppServerExits \/ DeleteRequest \/ Restart \/ ListRuns
    BY <1>2, <2>1 DEF AppServerExits, DeleteRequest, Restart, ListRuns
  <2>2. CASE HandleAppServerExit
    BY <1>2, <2>2 DEF HandleAppServerExit
  <2>3. CASE Crash
    BY <2>3 DEF Crash, Beside
  <2>4. CASE DeleteRequested \/ RemoveCompleted \/ BlockRootless
    BY <2>4 DEF DeleteRequested, RemoveCompleted, BlockRootless, Beside, StatusWritten,
       Reason, BlockReason
  <2>5. CASE RecoverOnStart
    BY <1>4, <2>5 DEF RecoverOnStart
  <2> QED
    BY <1>10, <2>1, <2>2, <2>3, <2>4, <2>5 DEF Daemon
<1> QED
  BY <1>5, <1>6, <1>7, <1>8, <1>9, <1>10 DEF ControllerNext

\* The generations of a tree in front of other effects.
LEMMA PushGenerations ==
  ASSUME NEW order \in Seq(Threads), NEW r \in Threads, NEW rest \in Seq(Effects)
  PROVE  LET pushed == GenerateAll(order, r) \o rest IN
         /\ Len(order) \in Nat /\ Len(rest) \in Nat
         /\ pushed \in Seq(Effects) /\ Len(pushed) = Len(order) + 1 + Len(rest)
         /\ \A i \in 1..Len(order) : pushed[i] = Generation(order[i])
         /\ pushed[Len(order) + 1] = Generation(r)
         /\ \A i \in (Len(order) + 2)..Len(pushed) : pushed[i] = rest[i - Len(order) - 1]
<1> DEFINE generations == [i \in 1..Len(order) |-> Effect("generate_handoff", order[i])]
           last == <<Effect("generate_handoff", r)>>
<1>1. Len(order) \in Nat /\ order \in [1..Len(order) -> Threads] /\ Len(rest) \in Nat
  BY LenProperties
<1>2. \A i \in 1..Len(order) : Effect("generate_handoff", order[i]) \in Effects
  BY <1>1 DEF Effect, Effects, EffectKind, AnyThread
<1>3. generations \in [1..Len(order) -> Effects]
  BY <1>2
<1>4. generations \in Seq(Effects) /\ Len(generations) = Len(order)
  BY <1>1, <1>3, SeqDef
<1>5. last \in Seq(Effects) /\ Len(last) = 1 /\ last[1] = Generation(r)
  BY EffectType DEF EffectKind, AnyThread, Generation
<1>6. \A i \in 1..Len(order) : generations[i] = Generation(order[i])
  BY DEF Generation
<1> HIDE DEF generations, last
<1>7. /\ generations \o last \in Seq(Effects)
      /\ Len(generations \o last) = Len(generations) + Len(last)
      /\ \A i \in 1..(Len(generations) + Len(last)) : (generations \o last)[i] =
           IF i <= Len(generations) THEN generations[i] ELSE last[i - Len(generations)]
  BY <1>4, <1>5, ConcatProperties
<1>8. GenerateAll(order, r) = generations \o last
  BY DEF GenerateAll, generations, last
<1> DEFINE all == GenerateAll(order, r)
           pushed == all \o rest
<1>9. /\ all \in Seq(Effects) /\ Len(all) = Len(order) + 1
      /\ \A i \in 1..Len(order) : all[i] = Generation(order[i])
      /\ all[Len(order) + 1] = Generation(r)
  BY <1>1, <1>4, <1>5, <1>6, <1>7, <1>8
<1> HIDE DEF all
<1>10. /\ pushed \in Seq(Effects)
       /\ Len(pushed) = Len(all) + Len(rest)
       /\ \A i \in 1..(Len(all) + Len(rest)) : pushed[i] =
            IF i <= Len(all) THEN all[i] ELSE rest[i - Len(all)]
  BY <1>9, ConcatProperties
<1> HIDE DEF pushed
<1>11. \A i \in (Len(order) + 2)..Len(pushed) : pushed[i] = rest[i - Len(order) - 1]
  BY <1>1, <1>9, <1>10
<1>12. \A i \in 1..Len(order) : pushed[i] = Generation(order[i])
  BY <1>1, <1>9, <1>10
<1>13. pushed[Len(order) + 1] = Generation(r) /\ Len(pushed) = Len(order) + 1 + Len(rest)
  BY <1>1, <1>9, <1>10
<1> QED
  BY <1>1, <1>10, <1>11, <1>12, <1>13 DEF pushed, all

-----------------------------------------------------------------------------
(* Threads that are stopped have handed over *)

\* The threads that these effects will stop have a handoff after the step.
RecordedNext(t) == \E h \in Handoffs : hstat'[h] # "absent" /\ hsource'[h] = t
RecordedAfter(s) == \A i \in 1..Len(s) : s[i].kind = "stop_thread" => RecordedNext(s[i].thread)

\* Another effect in front.
LEMMA PushRecorded ==
  ASSUME NEW kind \in EffectKind, NEW t \in AnyThread, NEW rest \in Seq(Effects),
         RecordedAfter(rest), kind = "stop_thread" => RecordedNext(t)
  PROVE  RecordedAfter(<<Effect(kind, t)>> \o rest)
<1> DEFINE pushed == <<Effect(kind, t)>> \o rest
<1>1. /\ Len(pushed) = 1 + Len(rest) /\ Len(rest) \in Nat
      /\ pushed[1] = Effect(kind, t)
      /\ \A i \in 2..Len(pushed) : pushed[i] = rest[i - 1]
  BY PushEffect
<1> HIDE DEF pushed
<1>2. SUFFICES ASSUME NEW i \in 1..Len(pushed), pushed[i].kind = "stop_thread"
               PROVE  RecordedNext(pushed[i].thread)
  BY DEF RecordedAfter, pushed
<1>3. CASE i = 1
  <2>1. kind = "stop_thread" /\ pushed[i].thread = t
    BY <1>1, <1>2, <1>3 DEF Effect
  <2> QED
    BY <2>1
<1>4. CASE i # 1
  <2>1. i - 1 \in 1..Len(rest) /\ pushed[i] = rest[i - 1]
    BY <1>1, <1>4
  <2> QED
    BY <1>2, <2>1 DEF RecordedAfter
<1> QED
  BY <1>3, <1>4

\* A command adds at most the stop of a thread whose handoff it records.
LEMMA CommandStops ==
  ASSUME IInv, NEW rest \in Seq(Effects), SentCommand(rest), RecordedAfter(rest)
  PROVE  RecordedAfter(effects')
<1>1. ASSUME NEW kind \in EffectKind \ {"stop_thread"}, NEW t \in AnyThread,
             effects' = <<Effect(kind, t)>> \o rest
      PROVE  RecordedAfter(effects')
  BY <1>1, PushRecorded
<1>2. /\ root \in AnyThread /\ trans.old \in AnyThread /\ trans.new \in AnyThread
      /\ \A t \in Threads : parent[t] \in AnyThread
  BY DEF IInv, PersistedOK, TransitionType
<1>3. ASSUME NEW order \in Seq(Threads), NEW r \in Threads,
             effects' = GenerateAll(order, r) \o rest
      PROVE  RecordedAfter(effects')
  <2>1. /\ Len(order) \in Nat /\ Len(effects') = Len(order) + 1 + Len(rest)
        /\ Len(rest) \in Nat
        /\ \A i \in 1..Len(order) : effects'[i] = Generation(order[i])
        /\ effects'[Len(order) + 1] = Generation(r)
        /\ \A i \in (Len(order) + 2)..Len(effects') : effects'[i] = rest[i - Len(order) - 1]
    BY <1>3, PushGenerations
  <2>2. SUFFICES ASSUME NEW i \in 1..Len(effects'), effects'[i].kind = "stop_thread"
                 PROVE  RecordedNext(effects'[i].thread)
    BY DEF RecordedAfter
  <2>3. i > Len(order) + 1
    <3>1. \A u : Generation(u).kind # "stop_thread"
      BY DEF Generation, Effect
    <3> QED
      BY <2>1, <2>2, <3>1
  <2>4. i - Len(order) - 1 \in 1..Len(rest) /\ effects'[i] = rest[i - Len(order) - 1]
    BY <2>1, <2>3
  <2> QED
    BY <2>2, <2>4 DEF RecordedAfter
<1>4. ASSUME NEW t \in Threads, TurnEnded(t, rest) PROVE RecordedAfter(effects')
  <2>1. CASE WorkerTurnEnded(t, rest)
    BY <2>1 DEF WorkerTurnEnded
  <2>2. CASE effects' = <<Effect("start_next_turn", t)>> \o rest
    BY <2>2, <1>1 DEF EffectKind, AnyThread
  <2>3. CASE BlockRun("other", rest)
    BY <2>3, <1>1, <1>2 DEF BlockRun, EffectKind
  <2>4. CASE CompleteRun(t, rest)
    <3>1. effects' = <<Effect("stop_app_server", t)>> \o (<<Effect("delete_run", NoThread)>> \o rest)
      <4>1. Effect("stop_app_server", t) \in Effects /\ Effect("delete_run", NoThread) \in Effects
        BY DEF Effect, Effects, EffectKind, AnyThread
      <4>2. effects' = <<Effect("stop_app_server", t), Effect("delete_run", NoThread)>> \o rest
        BY <2>4 DEF CompleteRun
      <4> QED
        BY <4>1, <4>2
    <3>2. /\ RecordedAfter(<<Effect("delete_run", NoThread)>> \o rest)
          /\ <<Effect("delete_run", NoThread)>> \o rest \in Seq(Effects)
      BY PushRecorded, PushEffect DEF EffectKind, AnyThread
    <3> QED
      BY <3>1, <3>2, PushRecorded DEF EffectKind, AnyThread
  <2> QED
    BY <1>4, <2>1, <2>2, <2>3, <2>4 DEF TurnEnded, RootTurnEnded
<1>5. ASSUME NEW t \in Threads, ThreadCommand(t, rest) PROVE RecordedAfter(effects')
  <2>1. CASE effects' = rest
    BY <2>1
  <2>2. ASSUME NEW u \in Tools, ToolEnded(t, u, rest) PROVE RecordedAfter(effects')
    <3>1. \/ effects' = <<Effect("quiesce_tree", trans.old)>> \o rest
          \/ effects' = <<>> \o rest
      BY <2>2 DEF ToolEnded, AfterLastTool
    <3>2. <<>> \o rest = rest
      BY ConcatEmptySeq
    <3> QED
      BY <1>1, <1>2, <3>1, <3>2 DEF EffectKind
  <2>3. CASE BeginCompaction(t, rest)
    BY <2>3, <1>1 DEF BeginCompaction, BeginRootCompaction, BeginWorkerCompaction,
       EffectKind, AnyThread
  <2> QED
    BY <1>4, <1>5, <2>1, <2>2, <2>3 DEF ThreadCommand, RegisterRoot, RegisterWorker,
       ThreadTurnStarted, ToolStarted, ReportProgress, ThreadStopped
<1>6. ASSUME NEW h \in Handoffs, NEW t \in Threads, NEW scope,
             RecordHandoff(h, t, scope, rest)
      PROVE  RecordedAfter(effects')
  <2>1. CASE RecordTreeHandoff(h, t, rest)
    BY <2>1, <1>1 DEF RecordTreeHandoff, EffectKind, AnyThread
  <2>2. CASE RecordAgentHandoff(t, rest)
    <3>1. RecordedNext(t)
      BY <1>6 DEF RecordHandoff, RecordedNext, IInv, PersistedOK
    <3>2. /\ RecordedAfter(SteerParent(t) \o rest) /\ SteerParent(t) \o rest \in Seq(Effects)
      <4>1. CASE SteerParent(t) = <<Effect("steer_parent", parent[t])>>
        BY <1>2, <4>1, PushRecorded, PushEffect DEF EffectKind
      <4>2. CASE SteerParent(t) = <<>>
        BY <4>2, ConcatEmptySeq
      <4> QED
        BY <4>1, <4>2 DEF SteerParent
    <3>3. effects' = <<Effect("stop_thread", t)>> \o (SteerParent(t) \o rest)
      <4>1. <<Effect("stop_thread", t)>> \in Seq(Effects)
        BY EffectType DEF EffectKind, AnyThread
      <4>2. SteerParent(t) \in Seq(Effects)
        BY <1>2, EffectType, EmptySeq DEF SteerParent, EffectKind
      <4> QED
        BY <2>2, <4>1, <4>2, ConcatAssociative DEF RecordAgentHandoff
    <3> QED
      BY <3>1, <3>2, <3>3, PushRecorded DEF EffectKind, AnyThread
  <2> QED
    BY <1>6, <2>1, <2>2 DEF RecordHandoff
<1>7. ASSUME NEW h \in Handoffs, NEW t \in Threads, HandoffCommand(h, t, rest)
      PROVE  RecordedAfter(effects')
  <2>1. CASE AcceptTreeHandoff(h, t, rest)
    BY <2>1, <1>1, <1>2 DEF AcceptTreeHandoff, EffectKind
  <2> QED
    BY <1>6, <1>7, <2>1 DEF HandoffCommand, AcceptHandoff, AcceptAgentHandoff,
       ResolveHandoff
<1>8. ASSUME RunCommand(rest) PROVE RecordedAfter(effects')
  <2>1. CASE RegisterAppServer(rest)
    BY <2>1 DEF RegisterAppServer
  <2>2. ASSUME NEW r \in Reason, BlockRun(r, rest) PROVE RecordedAfter(effects')
    BY <2>2, <1>1, <1>2 DEF BlockRun, EffectKind
  <2>3. CASE StopRun(rest)
    BY <2>3, <1>1 DEF StopRun, EffectKind, AnyThread
  <2>4. CASE ResumeRun(rest)
    BY <2>4, <1>1, <1>2 DEF ResumeRun, EffectKind
  <2>5. CASE FinalizeReportedCompletion(rest)
    BY <2>5, <1>4 DEF FinalizeReportedCompletion, RootActive
  <2>6. ASSUME NEW order, TreeQuiesced(order, rest) PROVE RecordedAfter(effects')
    <3>1. order \in Seq(Threads)
      BY <2>6, OrderType DEF TreeQuiesced, UnfinishedTree
    <3>2. trans.old \in Threads
      BY <2>6, RootOrNone DEF TreeQuiesced
    <3> QED
      BY <1>3, <2>6, <3>1, <3>2 DEF TreeQuiesced
  <2>7. CASE CompleteRootTransfer(rest)
    BY <2>7, <1>1, <1>2 DEF CompleteRootTransfer, EffectKind
  <2>8. ASSUME NEW order, RecoverRun(order, rest) PROVE RecordedAfter(effects')
    <3>1. order \in Seq(Threads)
      BY <2>8, OrderType DEF RecoverRun, UnfinishedWorkers
    <3> QED
      BY <1>3, <2>8, <3>1 DEF RecoverRun
  <2> QED
    BY <1>8, <2>1, <2>2, <2>3, <2>4, <2>5, <2>6, <2>7, <2>8 DEF RunCommand, Reason
<1> QED
  BY <1>5, <1>7, <1>8 DEF SentCommand, RegisterReplacementRoot

-----------------------------------------------------------------------------
(* The effects, applied *)

\* The next effect is an action of the app-server or the store only, or one that
\* waits for the tools in flight.
Passes ==
  /\ effects' = Tail(effects)
  /\ UNCHANGED persisted \/ SetDeleted
  /\ Head(effects).kind \notin {"generate_handoff", "stop_thread", "start_root_read_only",
                               "retire_tree", "recover_run"}
  /\ Head(effects).kind = "quiesce_tree" => ToolsInFlight(tools)

\* The next effect moves the run's threads or its transition.
Moves ==
  \/ \E t \in Threads, h \in Handoffs :
       /\ Head(effects) = Generation(t)
       /\ RecordHandoff(h, t, IF role[t] = "root" THEN "tree" ELSE "agent", Tail(effects))
  \/ \E t \in Threads : Head(effects) = Stop(t) /\ ThreadStopped(t, Tail(effects))
  \/ ~ToolsInFlight(tools) /\ \E order \in SetToSeqs(UnfinishedTree) : TreeQuiesced(order, Tail(effects))
  \/ \E t \in Threads :
       /\ tstat[t] = "absent"
       /\ RegisterReplacementRoot(t, <<Effect("start_root_turn", t)>> \o Tail(effects))
  \/ CompleteRootTransfer(Tail(effects))
  \/ \E order \in SetToSeqs(UnfinishedWorkers) : RecoverRun(order, Tail(effects))

\* What it is to apply an effect: each one moves the run only as its kind says.
LEMMA ApplyStep ==
  ASSUME effects \in Seq(Effects), Apply
  PROVE  /\ effects # <<>>
         /\ \/ Passes
            \/ Head(effects).kind = "start_app_server" /\ RegisterAppServer(Tail(effects))
            \/ Moves
<1> DEFINE e == Head(effects)
<1>1. effects # <<>> /\ e \in Effects
  BY PopEffect DEF Apply
<1> SUFFICES \/ Passes
             \/ Head(effects).kind = "start_app_server" /\ RegisterAppServer(Tail(effects))
             \/ Moves
  BY <1>1
<1>2. e = Effect(e.kind, e.thread)
  BY <1>1 DEF Effects, Effect
<1>3. CASE e.kind = "start_app_server" /\ StartAppServer
  BY <1>3 DEF StartAppServer
<1>4. CASE e.kind = "generate_handoff" /\ GenerateHandoff(e.thread)
  BY <1>2, <1>4 DEF GenerateHandoff, Registered, Moves, Generation
<1>5. CASE e.kind = "stop_thread" /\ StopThread(e.thread)
  BY <1>2, <1>5 DEF StopThread, ThreadStopped, Registered, Moves, Stop
<1>6. CASE e.kind = "quiesce_tree" /\ QuiesceTree
  BY <1>6 DEF QuiesceTree, Applied, Moves, Passes
<1>7. CASE e.kind = "start_root_read_only" /\ StartRootReadOnly
  BY <1>7 DEF StartRootReadOnly, FreshThread, Moves
<1>8. CASE e.kind \in {"start_root_turn", "start_next_turn"} /\ StartTurn(e.thread)
  BY <1>8 DEF StartTurn, ThreadTurnStarted, Passes
<1>9. CASE e.kind = "retire_tree" /\ RetireTree
  BY <1>9 DEF RetireTree, Moves
<1>10. CASE e.kind \in {"steer_parent", "grant_sandbox", "block_tree"} /\ CallAppServer
  BY <1>10 DEF CallAppServer, Applied, Passes
<1>11. CASE e.kind = "stop_app_server" /\ StopAppServer
  BY <1>11 DEF StopAppServer, Applied, Passes
<1>12. CASE e.kind = "delete_run" /\ DeleteRun
  BY <1>12 DEF DeleteRun, Passes
<1>13. CASE e.kind = "recover_run" /\ Recover
  BY <1>13 DEF Recover, Moves
<1> QED
  BY <1>1, <1>3, <1>4, <1>5, <1>6, <1>7, <1>8, <1>9, <1>10, <1>11, <1>12, <1>13 DEF Apply

\* Moving the run is sending a command.
LEMMA MovesAreSent ==
  ASSUME effects \in Seq(Effects), effects # <<>>, Moves
  PROVE  \/ SentCommand(Tail(effects))
         \/ \E t \in Threads : SentCommand(<<Effect("start_root_turn", t)>> \o Tail(effects))
<1>1. ASSUME NEW t \in Threads, NEW h \in Handoffs, NEW scope \in {"tree", "agent"},
             RecordHandoff(h, t, scope, Tail(effects))
      PROVE  SentCommand(Tail(effects))
  BY <1>1 DEF SentCommand, HandoffCommand
<1>2. ASSUME NEW t \in Threads, ThreadStopped(t, Tail(effects))
      PROVE  SentCommand(Tail(effects))
  BY <1>2 DEF SentCommand, ThreadCommand
<1>3. ASSUME NEW t \in Threads, tstat[t] = "absent",
             RegisterReplacementRoot(t, <<Effect("start_root_turn", t)>> \o Tail(effects))
      PROVE  SentCommand(<<Effect("start_root_turn", t)>> \o Tail(effects))
  BY <1>3 DEF SentCommand
<1>4. ASSUME RunCommand(Tail(effects)) PROVE SentCommand(Tail(effects))
  BY <1>4 DEF SentCommand
<1> QED
  BY <1>1, <1>2, <1>3, <1>4 DEF Moves, RunCommand

\* What the clients send are commands with nothing left to apply.
LEMMA SentIsSentCommand ==
  ASSUME Sent
  PROVE  SentCommand(<<>>)
<1>1. CASE Notification
  BY <1>1 DEF Notification, SentCommand, ThreadCommand
<1>2. CASE Request
  BY <1>2 DEF Request, SentCommand, ThreadCommand, HandoffCommand, RunCommand
<1> QED
  BY <1>1, <1>2 DEF Sent, SentCommand, ThreadCommand, RunCommand

\* A recorded handoff stays recorded.
LEMMA RecordedStays ==
  ASSUME CInv, [ControllerNext]_controllerVars, NEW t, Recorded(t)
  PROVE  RecordedNext(t)
<1>1. PICK h \in Handoffs : hstat[h] # "absent" /\ hsource[h] = t
  BY DEF Recorded
<1>2. ASSUME NEW rest \in Seq(Effects), SentCommand(rest)
      PROVE  hstat'[h] # "absent" /\ hsource'[h] = t
  BY <1>1, <1>2, HandoffStep DEF CInv
<1> QED
  BY <1>1, <1>2, SentOrWritten DEF handoffVars, RecordedNext

\* StopsAreRecorded is preserved by every step of the controller.
LEMMA StopsStep ==
  ASSUME CInv, StopsAreRecorded, [ControllerNext]_controllerVars
  PROVE  StopsAreRecorded'
<1> USE DEF CInv, ControllerTypeOK, TypeOK
<1>1. RecordedAfter(effects)
  BY RecordedStays DEF StopsAreRecorded, RecordedAfter
<1>2. SUFFICES RecordedAfter(effects')
  BY DEF StopsAreRecorded, RecordedAfter, RecordedNext, Recorded
<1>3. RecordedAfter(<<>>) /\ <<>> \in Seq(Effects)
  BY EmptySeq DEF RecordedAfter
<1>4. ASSUME NEW rest \in Seq(Effects), SentCommand(rest), RecordedAfter(rest)
      PROVE  RecordedAfter(effects')
  BY <1>4, CommandStops
<1>5. CASE UNCHANGED controllerVars
  BY <1>1, <1>5 DEF controllerVars, vars
<1>6. CASE Sent
  BY <1>3, <1>4, <1>6, SentIsSentCommand
<1>7. CASE BlockRun("other", <<>>)
  BY <1>3, <1>4, <1>7 DEF SentCommand, RunCommand, BlockReason
<1>8. CASE Beside
  <2>1. CASE effects' = <<Effect("recover_run", root)>>
    BY <2>1 DEF RecordedAfter, Effect
  <2> QED
    BY <1>1, <1>3, <1>8, <2>1 DEF Beside
<1>9. CASE Apply
  <2>1. effects # <<>>
    BY <1>9, ApplyStep
  <2>2. RecordedAfter(Tail(effects)) /\ Tail(effects) \in Seq(Effects)
    <3>1. \A i \in 1..Len(Tail(effects)) :
            i + 1 \in 1..Len(effects) /\ Tail(effects)[i] = effects[i + 1]
      BY <2>1, PopEffect
    <3> QED
      BY <1>1, <2>1, <3>1, PopEffect DEF RecordedAfter
  <2>3. ASSUME NEW t \in Threads
        PROVE  /\ <<Effect("start_root_turn", t)>> \o Tail(effects) \in Seq(Effects)
               /\ RecordedAfter(<<Effect("start_root_turn", t)>> \o Tail(effects))
    BY <2>2, PushEffect, PushRecorded DEF EffectKind, AnyThread
  <2>4. CASE Passes
    BY <2>2, <2>4 DEF Passes
  <2>5. CASE RegisterAppServer(Tail(effects))
    BY <2>2, <2>5 DEF RegisterAppServer
  <2>6. CASE Moves
    BY <1>4, <2>1, <2>2, <2>3, <2>6, MovesAreSent
  <2> QED
    BY <1>9, <2>4, <2>5, <2>6, ApplyStep
<1> QED
  BY <1>5, <1>6, <1>7, <1>8, <1>9, ContinuationStep

\* Whatever the controller still has to stop has handed over.
THEOREM StoppedThreadsHandedOver == ControllerSpec => []StopsAreRecorded
<1>1. ControllerInit => StopsAreRecorded
  BY DEF ControllerInit, Init, StopsAreRecorded, Effect
<1>2. CInv /\ StopsAreRecorded /\ [ControllerNext]_controllerVars => StopsAreRecorded'
  BY StopsStep
<1> QED
  BY ControllerInvariance, <1>1, <1>2, PTL DEF ControllerSpec

-----------------------------------------------------------------------------
(* The hand-over of a tree *)

\* What a transition that hands over sees of the clients: late tool reports, the
\* acceptance of its tree handoff, and resolutions of older handoffs.
LEMMA HandingOverSent ==
  ASSUME IInv, Sent, HandingOver'
  PROVE  /\ HandingOver /\ effects' \in {<<>>, <<Effect("retire_tree", trans.old)>>}
         /\ UNCHANGED <<recovering, tstat>>
         /\ trans'.old = trans.old /\ trans'.new = trans.new
         /\ \A t \in Threads : tools'[t] \subseteq tools[t]
         /\ \/ trans' = trans
            \/ /\ trans.phase = "awaiting_root" /\ trans'.phase = "retiring"
               /\ effects' = <<Effect("retire_tree", trans.old)>>
<1> USE DEF HandingOver
<1>1. <<Effect("retire_tree", trans.old)>> \o <<>> = <<Effect("retire_tree", trans.old)>>
  OBVIOUS
<1>2. HandingOver => \A t \in Threads : tstat[t] # "active"
  BY DEF IInv, Succession, QuietTree
<1> DEFINE Seen ==
      /\ HandingOver /\ effects' \in {<<>>, <<Effect("retire_tree", trans.old)>>}
      /\ UNCHANGED <<recovering, tstat>>
      /\ trans'.old = trans.old /\ trans'.new = trans.new
      /\ \A t \in Threads : tools'[t] \subseteq tools[t]
      /\ \/ trans' = trans
         \/ /\ trans.phase = "awaiting_root" /\ trans'.phase = "retiring"
            /\ effects' = <<Effect("retire_tree", trans.old)>>
<1>3. ASSUME NEW t \in Threads, ThreadTurnStarted(t, <<>>) PROVE Seen
  BY <1>3 DEF ThreadTurnStarted, persisted, runVars, threadVars
<1>4. ASSUME NEW t \in Threads, NEW u \in Tools, ToolEnded(t, u, <<>>) PROVE Seen
  <2>1. effects' = <<>> /\ HandingOver /\ trans' = trans
    BY <1>4 DEF ToolEnded, AfterLastTool, runVars
  <2> QED
    BY <1>4, <2>1 DEF ToolEnded, runVars, IInv, PersistedOK
<1>5. ASSUME NEW t \in Threads, TurnEnded(t, <<>>) PROVE FALSE
  BY <1>2, <1>5 DEF TurnEnded, WorkerTurnEnded, RootTurnEnded, BlockRun, SetBlocked,
     CompleteRun, persisted, runVars
<1>6. ASSUME NEW t \in Threads, BeginCompaction(t, <<>>) PROVE FALSE
  BY <1>6 DEF BeginCompaction, ActiveThread, BeginRootCompaction, BeginWorkerCompaction,
     Transition, runVars
<1>7. ASSUME NEW h \in Handoffs, NEW t \in Threads, AcceptHandoff(h, t, <<>>) PROVE Seen
  <2>1. AcceptTreeHandoff(h, t, <<>>)
    BY <1>7 DEF AcceptHandoff, AcceptAgentHandoff, ActiveThread
  <2>2. trans' = [trans EXCEPT !.phase = "retiring"] /\ trans.phase = "awaiting_root"
        /\ HandingOver /\ effects' = <<Effect("retire_tree", trans.old)>>
    BY <1>1, <2>1 DEF AcceptTreeHandoff
  <2>3. trans'.old = trans.old /\ trans'.new = trans.new /\ trans'.phase = "retiring"
    BY <2>2 DEF IInv, PersistedOK, TransitionType
  <2> QED
    BY <1>7, <2>2, <2>3 DEF AcceptHandoff
<1>8. ASSUME NEW h \in Handoffs, NEW t \in Threads, ResolveHandoff(h, t, <<>>) PROVE Seen
  BY <1>8 DEF ResolveHandoff, runVars
<1>9. CASE Notification
  <2>1. ASSUME NEW t \in Threads, NEW p \in Threads, RegisterWorker(t, p, <<>>) PROVE FALSE
    BY <1>2, <2>1 DEF RegisterWorker, runVars
  <2>2. ASSUME NEW t \in Threads, NEW u \in Tools, ToolStarted(t, u, <<>>) PROVE FALSE
    BY <2>2 DEF ToolStarted, ActiveThread, runVars
  <2> QED
    BY <1>3, <1>4, <1>5, <1>9, <2>1, <2>2 DEF Notification
<1>10. CASE Request
  <2>1. ASSUME NEW t \in Threads, NEW p \in Reports, ReportProgress(t, p, <<>>) PROVE FALSE
    BY <1>2, <2>1 DEF ReportProgress, runVars
  <2>2. ~StopRun(<<>>)
    BY DEF StopRun
  <2>3. ~FinalizeReportedCompletion(<<>>)
    BY <1>5 DEF FinalizeReportedCompletion, RootActive
  <2> QED
    BY <1>6, <1>7, <1>8, <1>10, <2>1, <2>2, <2>3 DEF Request
<1>11. ~ResumeRun(<<>>) /\ \A t \in Threads : ~RegisterRoot(t, <<>>)
  BY DEF ResumeRun, RegisterRoot
<1> QED
  BY <1>9, <1>10, <1>11 DEF Sent

\* An order of some threads names each of them, and nobody else.
LEMMA OrderCovers ==
  ASSUME NEW S \in SUBSET Threads, NEW order \in SetToSeqs(S)
  PROVE  /\ order \in Seq(Threads) /\ Len(order) \in Nat
         /\ \A i \in 1..Len(order) : order[i] \in S
         /\ \A t \in S : \E i \in 1..Len(order) : order[i] = t
<1> DEFINE D == 1..Cardinality(S)
<1>1. IsFiniteSet(S) /\ Cardinality(S) \in Nat
  BY FS_Subset, FS_CardinalityType, EngineAssumption
<1>2. order \in [D -> S] /\ \A i, j \in D : i # j => order[i] # order[j]
  BY DEF SetToSeqs
<1>3. order \in Seq(Threads) /\ Len(order) = Cardinality(S)
  BY <1>1, <1>2, OrderType
<1>4. IsFiniteSet(D) /\ Cardinality(D) = Cardinality(S)
  BY <1>1, FS_Interval
<1>5. ASSUME NEW t \in S, \A i \in D : order[i] # t PROVE FALSE
  <2>1. IsFiniteSet(S \ {t}) /\ Cardinality(S \ {t}) = Cardinality(S) - 1
    BY <1>1, FS_RemoveElement
  <2>2. order \in [D -> S \ {t}]
    BY <1>2, <1>5
  <2>3. Cardinality(S \ {t}) < Cardinality(D)
    BY <1>1, <1>4, <2>1
  <2> HIDE DEF D
  <2> QED
    BY <1>2, <1>4, <2>1, <2>2, <2>3, FS_PigeonHole
<1> QED
  BY <1>1, <1>2, <1>3, <1>5

\* The effects of a tree's generation are in the order of WholeTreeFirst, for
\* every thread but the root that the order names.
LEMMA GenerationsWhole ==
  ASSUME NEW S \in SUBSET Threads, NEW order \in SetToSeqs(S), NEW r \in Threads \ S,
         NEW rest \in Seq(Effects)
  PROVE  LET pushed == GenerateAll(order, r) \o rest IN
         \A j \in 1..Len(pushed) : pushed[j] = Generation(r) =>
           \A t \in S : \E i \in 1..(j - 1) : pushed[i] = Generation(t)
<1> DEFINE pushed == GenerateAll(order, r) \o rest
<1> SUFFICES ASSUME NEW j \in 1..Len(pushed), pushed[j] = Generation(r), NEW t \in S
             PROVE  \E i \in 1..(j - 1) : pushed[i] = Generation(t)
  OBVIOUS
<1>1. /\ order \in Seq(Threads) /\ Len(order) \in Nat
      /\ \A i \in 1..Len(order) : order[i] \in S
      /\ \E i \in 1..Len(order) : order[i] = t
  BY OrderCovers
<1>2. /\ Len(pushed) = Len(order) + 1 + Len(rest) /\ Len(rest) \in Nat
      /\ \A i \in 1..Len(order) : pushed[i] = Generation(order[i])
  <2>1. order \in Seq(Threads) /\ r \in Threads
    BY <1>1
  <2> QED
    BY <2>1, PushGenerations
<1> HIDE DEF pushed
<1>3. j \notin 1..Len(order)
  <2>1. SUFFICES ASSUME j \in 1..Len(order) PROVE FALSE
    OBVIOUS
  <2>2. Generation(order[j]) = Generation(r) /\ order[j] \in S
    BY <1>1, <1>2, <2>1
  <2>3. order[j] = r
    BY <2>2 DEF Generation, Effect
  <2> QED
    BY <2>2, <2>3
<1>4. PICK i \in 1..Len(order) : order[i] = t
  BY <1>1
<1>5. i \in 1..(j - 1) /\ pushed[i] = Generation(t)
  BY <1>1, <1>2, <1>3, <1>4
<1> QED
  BY <1>5

\* An effect that neither generates nor stops leaves the order as it is.
LEMMA PassedOver ==
  ASSUME effects \in Seq(Effects), effects # <<>>, WholeTreeFirst,
         effects' = Tail(effects), UNCHANGED <<status, trans, tstat>>,
         Head(effects).kind \notin {"generate_handoff", "stop_thread"}
  PROVE  WholeTreeFirst'
<1> SUFFICES ASSUME status = "transitioning", trans.phase = "generating",
                    NEW j \in 1..Len(Tail(effects)), Tail(effects)[j] = Generation(trans.old),
                    NEW t \in Threads \ {trans.old}, tstat[t] \in Live
             PROVE  \E i \in 1..(j - 1) : Tail(effects)[i] \in {Generation(t), Stop(t)}
  BY DEF WholeTreeFirst
<1>1. /\ Head(effects) = effects[1] /\ Len(effects) \in Nat \ {0}
      /\ Len(Tail(effects)) = Len(effects) - 1
      /\ \A i \in 1..Len(Tail(effects)) : Tail(effects)[i] = effects[i + 1]
  BY PopEffect
<1>2. j + 1 \in 1..Len(effects) /\ effects[j + 1] = Generation(trans.old)
  BY <1>1
<1>3. PICK i \in 1..((j + 1) - 1) : effects[i] \in {Generation(t), Stop(t)}
  BY <1>2 DEF WholeTreeFirst
<1>4. i # 1
  BY <1>1, <1>3 DEF Generation, Stop, Effect
<1>5. i - 1 \in 1..(j - 1) /\ i - 1 \in 1..Len(Tail(effects)) /\ Tail(effects)[i - 1] = effects[i]
  BY <1>1, <1>3, <1>4
<1> QED
  BY <1>3, <1>5

\* The root's handoff is recorded last, when no other thread is live; a worker's
\* makes room for its stop.
LEMMA GenerationHandsOver ==
  ASSUME CInv, HandOver, effects # <<>>, HandingOver',
         NEW h \in Handoffs, NEW t \in Threads, Head(effects) = Generation(t),
         NEW scope \in {"tree", "agent"}, scope = IF role[t] = "root" THEN "tree" ELSE "agent",
         RecordHandoff(h, t, scope, Tail(effects))
  PROVE  HandOver'
<1> USE DEF RecordHandoff
<1>1. /\ effects \in Seq(Effects) /\ Tail(effects) \in Seq(Effects)
      /\ effects[1] = Generation(t) /\ Len(effects) \in Nat \ {0}
      /\ Len(Tail(effects)) = Len(effects) - 1
      /\ \A i \in 1..Len(Tail(effects)) : Tail(effects)[i] = effects[i + 1]
  BY PopEffect DEF CInv, ControllerTypeOK, TypeOK
<1>2. \A u \in Threads : tstat'[u] \in Live <=> tstat[u] \in Live
  BY DEF CInv, IInv, PersistedOK, Live
<1>3. tools' = tools /\ recovering' = recovering /\ status' = status
  OBVIOUS
<1>4. CASE RecordTreeHandoff(h, t, Tail(effects))
  <2>1. /\ status = "transitioning" /\ trans.phase = "generating" /\ trans.old = t
        /\ trans'.phase = "awaiting_root" /\ trans'.old = t /\ trans'.new = trans.new
    BY <1>4 DEF RecordTreeHandoff, CInv, IInv, PersistedOK, TransitionType
  <2>2. \A u \in Threads \ {t} : tstat[u] \notin Live
    <3>1. 1 \in 1..Len(effects) /\ effects[1] = Generation(trans.old) /\ 1..(1 - 1) = {}
      BY <1>1, <2>1
    <3> QED
      BY <2>1, <3>1 DEF HandOver, WholeTreeFirst
  <2>3. QuietTools'
    BY <1>3, <2>1 DEF HandOver, QuietTools
  <2>4. TreeHandedOver'
    BY <1>2, <2>1, <2>2 DEF TreeHandedOver
  <2>5. WholeTreeFirst'
    BY <2>1 DEF WholeTreeFirst
  <2> QED
    BY <2>3, <2>4, <2>5 DEF HandOver
<1>5. CASE RecordAgentHandoff(t, Tail(effects))
  <2>1. status = "transitioning" /\ trans.phase # "quiescing" /\ trans' = trans
    BY <1>3, <1>5 DEF HandingOver, RecordAgentHandoff
  <2>2. QuietTools'
    BY <1>3, <2>1 DEF HandOver, QuietTools
  <2>3. TreeHandedOver'
    BY <1>2, <1>3, <2>1 DEF HandOver, TreeHandedOver
  <2>4. effects' = <<Stop(t)>> \o Tail(effects)
    <3>1. SteerParent(t) = <<>>
      BY <2>1 DEF SteerParent
    <3>2. <<Stop(t)>> \in Seq(Effects)
      BY EffectType DEF Stop, EffectKind, AnyThread
    <3> QED
      BY <1>1, <1>5, <3>1, <3>2, ConcatEmptySeq DEF RecordAgentHandoff, Stop
  <2>5. /\ Len(effects') = Len(effects) /\ effects'[1] = Stop(t)
        /\ \A i \in 2..Len(effects) : effects'[i] = effects[i]
    <3>1. /\ Len(effects') = 1 + Len(Tail(effects)) /\ effects'[1] = Stop(t)
          /\ \A i \in 2..Len(effects') : effects'[i] = Tail(effects)[i - 1]
      BY <1>1, <2>4, PushEffect DEF Stop, EffectKind, AnyThread
    <3> QED
      BY <1>1, <3>1
  <2>6. WholeTreeFirst'
    <3> SUFFICES ASSUME trans.phase = "generating",
                        NEW j \in 1..Len(effects), effects'[j] = Generation(trans.old),
                        NEW u \in Threads \ {trans.old}, tstat[u] \in Live
                 PROVE  \E i \in 1..(j - 1) : effects'[i] \in {Generation(u), Stop(u)}
      BY <1>2, <2>1, <2>5 DEF WholeTreeFirst
    <3>1. j # 1
      BY <2>5 DEF Generation, Stop, Effect
    <3>2. effects[j] = Generation(trans.old)
      BY <2>5, <3>1
    <3>3. PICK i \in 1..(j - 1) : effects[i] \in {Generation(u), Stop(u)}
      BY <2>1, <3>2 DEF HandOver, WholeTreeFirst
    <3>4. CASE i = 1
      <4>1. t = u
        BY <1>1, <3>3, <3>4 DEF Generation, Stop, Effect
      <4> QED
        BY <2>5, <3>3, <3>4, <4>1
    <3>5. CASE i # 1
      BY <1>1, <2>5, <3>3, <3>5
    <3> QED
      BY <3>4, <3>5
  <2> QED
    BY <2>2, <2>3, <2>6 DEF HandOver
<1> QED
  BY <1>4, <1>5

\* A stopped thread is live no more.
LEMMA StopHandsOver ==
  ASSUME CInv, HandOver, effects # <<>>, HandingOver',
         NEW t \in Threads, Head(effects) = Stop(t), ThreadStopped(t, Tail(effects))
  PROVE  HandOver'
<1> USE DEF ThreadStopped, runVars
<1>1. /\ effects \in Seq(Effects) /\ Tail(effects) \in Seq(Effects)
      /\ effects[1] = Stop(t) /\ Len(effects) \in Nat \ {0}
      /\ Len(Tail(effects)) = Len(effects) - 1
      /\ \A i \in 1..Len(Tail(effects)) : Tail(effects)[i] = effects[i + 1]
  BY PopEffect DEF CInv, ControllerTypeOK, TypeOK
<1>2. \A u \in Threads : tstat'[u] \in Live => tstat[u] \in Live /\ u # t
  BY DEF CInv, IInv, PersistedOK, Live
<1>3. QuietTools'
  BY DEF HandOver, QuietTools
<1>4. TreeHandedOver'
  BY <1>2 DEF HandOver, TreeHandedOver
<1>5. WholeTreeFirst'
  <2> SUFFICES ASSUME status = "transitioning", trans.phase = "generating",
                      NEW j \in 1..Len(Tail(effects)), Tail(effects)[j] = Generation(trans.old),
                      NEW u \in Threads \ {trans.old}, tstat'[u] \in Live
               PROVE  \E i \in 1..(j - 1) : Tail(effects)[i] \in {Generation(u), Stop(u)}
    BY DEF WholeTreeFirst
  <2>1. j + 1 \in 1..Len(effects) /\ effects[j + 1] = Generation(trans.old)
    BY <1>1
  <2>2. tstat[u] \in Live /\ u # t
    BY <1>2
  <2>3. PICK i \in 1..((j + 1) - 1) : effects[i] \in {Generation(u), Stop(u)}
    BY <2>1, <2>2 DEF HandOver, WholeTreeFirst
  <2>4. i # 1
    BY <1>1, <2>2, <2>3 DEF Generation, Stop, Effect
  <2>5. i - 1 \in 1..(j - 1) /\ i - 1 \in 1..Len(Tail(effects)) /\ Tail(effects)[i - 1] = effects[i]
    BY <1>1, <2>3, <2>4
  <2> QED
    BY <2>3, <2>5
<1> QED
  BY <1>3, <1>4, <1>5 DEF HandOver

\* A tree that has come to rest is generated whole, without a tool in flight.
LEMMA QuiescedHandsOver ==
  ASSUME CInv, ~ToolsInFlight(tools), NEW rest \in Seq(Effects),
         NEW order \in SetToSeqs(UnfinishedTree), TreeQuiesced(order, rest)
  PROVE  HandOver'
<1> USE DEF TreeQuiesced
<1>1. trans.old \in Threads /\ UnfinishedTree \in SUBSET Threads /\ trans.old \notin UnfinishedTree
  BY RootOrNone DEF UnfinishedTree, CInv
<1>2. trans'.phase = "generating" /\ trans'.old = trans.old
  BY DEF CInv, IInv, PersistedOK, TransitionType
<1>3. QuietTools'
  BY DEF QuietTools, ToolsInFlight
<1>4. TreeHandedOver'
  BY <1>2 DEF TreeHandedOver
<1>5. WholeTreeFirst'
  <2> SUFFICES ASSUME NEW j \in 1..Len(effects'), effects'[j] = Generation(trans.old),
                      NEW t \in Threads \ {trans.old}, tstat'[t] \in Live
               PROVE  \E i \in 1..(j - 1) : effects'[i] = Generation(t)
    BY <1>2 DEF WholeTreeFirst
  <2>1. t \in UnfinishedTree
    BY DEF UnfinishedTree, CInv, IInv, PersistedOK
  <2> DEFINE pushed == GenerateAll(order, trans.old) \o rest
  <2>2. effects' = pushed
    OBVIOUS
  <2>3. \A k \in 1..Len(pushed) : pushed[k] = Generation(trans.old) =>
          \A u \in UnfinishedTree : \E i \in 1..(k - 1) : pushed[i] = Generation(u)
    <3> HIDE DEF TreeQuiesced
    <3>1. trans.old \in Threads \ UnfinishedTree
      BY <1>1
    <3> QED
      BY <1>1, <3>1, GenerationsWhole
  <2> HIDE DEF pushed, TreeQuiesced
  <2> QED
    BY <2>1, <2>2, <2>3
<1> QED
  BY <1>3, <1>4, <1>5 DEF HandOver

\* A recovery generates the root's handoff after those of all unfinished workers.
LEMMA RecoveryHandsOver ==
  ASSUME CInv, NEW rest \in Seq(Effects),
         NEW order \in SetToSeqs(UnfinishedWorkers), RecoverRun(order, rest)
  PROVE  HandOver'
<1> USE DEF RecoverRun
<1>1. UnfinishedWorkers \in SUBSET Threads /\ root \in Threads \ UnfinishedWorkers
  BY DEF UnfinishedWorkers
<1>2. trans'.phase = "generating" /\ trans'.old = root
  BY DEF Transition
<1>3. QuietTools'
  BY DEF QuietTools
<1>4. TreeHandedOver'
  BY <1>2 DEF TreeHandedOver
<1>5. WholeTreeFirst'
  <2> SUFFICES ASSUME NEW j \in 1..Len(effects'), effects'[j] = Generation(root),
                      NEW t \in Threads \ {root}, tstat'[t] \in Live
               PROVE  \E i \in 1..(j - 1) : effects'[i] = Generation(t)
    BY <1>2 DEF WholeTreeFirst
  <2>1. t \in UnfinishedWorkers
    BY DEF UnfinishedWorkers, CInv, IInv, PersistedOK, RecordsOK, Role, Live
  <2> DEFINE pushed == GenerateAll(order, root) \o rest
  <2>2. effects' = pushed
    OBVIOUS
  <2>3. \A k \in 1..Len(pushed) : pushed[k] = Generation(root) =>
          \A u \in UnfinishedWorkers : \E i \in 1..(k - 1) : pushed[i] = Generation(u)
    <3> HIDE DEF RecoverRun
    <3>1. root \in Threads \ UnfinishedWorkers
      BY <1>1
    <3> QED
      BY <1>1, <3>1, GenerationsWhole
  <2> HIDE DEF pushed, RecoverRun
  <2> QED
    BY <2>1, <2>2, <2>3
<1> QED
  BY <1>3, <1>4, <1>5 DEF HandOver

\* HandOver is preserved by every effect that is applied.
LEMMA ApplyHandsOver ==
  ASSUME CInv, HandOver, Apply, HandingOver'
  PROVE  HandOver'
<1>1. effects \in Seq(Effects) /\ effects # <<>> /\ Tail(effects) \in Seq(Effects)
  BY ApplyStep, PopEffect DEF CInv, ControllerTypeOK, TypeOK
<1>2. CASE Passes
  <2>1. UNCHANGED persisted
    BY <1>2 DEF Passes, SetDeleted, HandingOver
  <2>2. WholeTreeFirst'
    BY <1>1, <1>2, <2>1, PassedOver DEF Passes, HandOver, persisted, runVars, threadVars
  <2> QED
    BY <2>1, <2>2 DEF HandOver, QuietTools, TreeHandedOver, persisted, runVars, threadVars
<1>3. CASE Head(effects).kind = "start_app_server" /\ RegisterAppServer(Tail(effects))
  <2>1. WholeTreeFirst'
    BY <1>1, <1>3, PassedOver DEF RegisterAppServer, HandOver, threadVars
  <2> QED
    BY <1>3, <2>1 DEF RegisterAppServer, HandOver, QuietTools, TreeHandedOver, threadVars
<1>4. CASE Moves
  <2>1. ASSUME NEW t \in Threads, tstat[t] = "absent",
               RegisterReplacementRoot(t, <<Effect("start_root_turn", t)>> \o Tail(effects))
        PROVE  HandOver'
    <3> USE <2>1 DEF RegisterReplacementRoot, PutThread
    <3>1. trans'.phase = "awaiting_root" /\ trans'.old = trans.old /\ trans'.new = t
      BY DEF CInv, IInv, PersistedOK, TransitionType
    <3>2. \A u \in Threads : tools'[u] = {} \/ tools'[u] = tools[u]
      BY DEF CInv, IInv, PersistedOK
    <3>3. QuietTools'
      BY <3>2 DEF HandOver, QuietTools, ToolsInFlight
    <3>4. TreeHandedOver'
      BY <3>1, EngineAssumption DEF HandOver, TreeHandedOver, CInv, IInv, PersistedOK
    <3> QED
      BY <3>1, <3>3, <3>4 DEF HandOver, WholeTreeFirst
  <2>2. ~CompleteRootTransfer(Tail(effects))
    BY DEF CompleteRootTransfer, HandingOver
  <2> QED
    BY <1>1, <1>4, <2>1, <2>2, GenerationHandsOver, StopHandsOver, QuiescedHandsOver,
       RecoveryHandsOver DEF Moves
<1> QED
  BY <1>2, <1>3, <1>4, ApplyStep DEF CInv, ControllerTypeOK, TypeOK

\* HandOver is preserved by every step of the controller.
LEMMA HandOverStep ==
  ASSUME CInv, HandOver, [ControllerNext]_controllerVars
  PROVE  HandOver'
<1>1. CASE ~HandingOver'
  BY <1>1 DEF HandingOver, HandOver, QuietTools, TreeHandedOver, WholeTreeFirst
<1>2. CASE UNCHANGED persisted /\ effects' \in {effects, <<>>, <<Effect("recover_run", root)>>}
  <2>1. ASSUME effects' = <<Effect("recover_run", root)>>
        PROVE  \A j \in 1..Len(effects') : effects'[j] # Generation(trans.old)
    BY <2>1 DEF Generation, Effect
  <2>2. WholeTreeFirst'
    BY <1>2, <2>1 DEF HandOver, WholeTreeFirst, persisted, runVars, threadVars
  <2> QED
    BY <1>2, <2>2 DEF HandOver, QuietTools, TreeHandedOver, persisted, runVars, threadVars
<1>3. CASE HandingOver' /\ Sent
  <2>1. /\ HandingOver /\ effects' \in {<<>>, <<Effect("retire_tree", trans.old)>>}
        /\ UNCHANGED <<recovering, tstat>>
        /\ trans'.old = trans.old /\ trans'.new = trans.new
        /\ \A t \in Threads : tools'[t] \subseteq tools[t]
        /\ \/ trans' = trans
           \/ trans.phase = "awaiting_root" /\ trans'.phase = "retiring"
    BY <1>3, HandingOverSent DEF CInv
  <2>2. \A j \in 1..Len(effects') : effects'[j].kind = "retire_tree"
    BY <2>1 DEF Effect
  <2>3. WholeTreeFirst'
    BY <2>2 DEF WholeTreeFirst, Generation, Effect
  <2>4. QuietTools'
    BY <2>1 DEF HandingOver, HandOver, QuietTools, ToolsInFlight
  <2>5. TreeHandedOver'
    BY <2>1 DEF HandingOver, HandOver, TreeHandedOver
  <2> QED
    BY <2>3, <2>4, <2>5 DEF HandOver
<1>4. BlockRun("other", <<>>) => ~HandingOver'
  BY DEF BlockRun, SetBlocked, HandingOver
<1>5. StatusWritten => ~HandingOver'
  BY DEF StatusWritten, SetBlocked, SetDeleted, HandingOver
<1>6. CASE ControllerNext
  BY <1>1, <1>2, <1>3, <1>4, <1>5, <1>6, ContinuationStep, ApplyHandsOver DEF Beside
<1>7. CASE UNCHANGED controllerVars
  BY <1>2, <1>7 DEF controllerVars, vars
<1> QED
  BY <1>6, <1>7

\* The invariant of a hand-over holds in every behaviour of the daemon.
THEOREM HandOverInvariance == ControllerSpec => []HandOver
<1>1. ControllerInit => HandOver
  BY DEF ControllerInit, Init, HandOver, QuietTools, TreeHandedOver, WholeTreeFirst
<1>2. CInv /\ HandOver /\ [ControllerNext]_controllerVars => HandOver'
  BY HandOverStep
<1> QED
  BY ControllerInvariance, <1>1, <1>2, PTL DEF ControllerSpec

\* Handoffs are generated from a tree at rest: only QuiesceTree ends quiescence,
\* it looks at the tools in the step that does, and none starts afterwards.
THEOREM ControllerQuietTools == ControllerSpec => []QuietTools
<1>1. HandOver => QuietTools
  BY DEF HandOver
<1> QED
  BY HandOverInvariance, <1>1, PTL

\* A successor is only started for a whole tree: the effects generate the root's
\* handoff last, whatever failed, crashed or was recovered before.
THEOREM ControllerTreeHandedOver == ControllerSpec => []TreeHandedOver
<1>1. HandOver => TreeHandedOver
  BY DEF HandOver
<1> QED
  BY HandOverInvariance, <1>1, PTL

-----------------------------------------------------------------------------
(* No work is dropped *)

\* No client's command but the user's stop retires a live worker.
LEMMA SentKeepsWork ==
  ASSUME IInv, Sent, status' # "stopped",
         NEW t \in Threads, role[t] = "worker", tstat[t] \in Live
  PROVE  tstat'[t] # "retired"
<1> USE DEF Live
<1>1. tstat \in [Threads -> ThreadStatus] /\ tstat[t] # "retired"
  BY DEF IInv, PersistedOK
<1>2. ASSUME NEW u \in Threads, TurnEnded(u, <<>>) PROVE tstat'[t] # "retired"
  BY <1>1, <1>2 DEF TurnEnded, WorkerTurnEnded, RootTurnEnded, BlockRun, SetBlocked,
     CompleteRun, persisted, threadVars
<1>3. CASE Notification
  BY <1>1, <1>2, <1>3 DEF Notification, RegisterWorker, PutThread, ThreadTurnStarted,
     ToolStarted, ToolEnded, persisted, threadVars
<1>4. CASE Request
  <2>1. ~StopRun(<<>>)
    BY DEF StopRun
  <2>2. FinalizeReportedCompletion(<<>>) => tstat'[t] # "retired"
    BY <1>2 DEF FinalizeReportedCompletion, RootActive
  <2> QED
    BY <1>1, <1>4, <2>1, <2>2 DEF Request, BeginCompaction, ReportProgress, AcceptHandoff,
       ResolveHandoff
<1>5. CASE ResumeRun(<<>>)
  BY <1>1, <1>5 DEF ResumeRun, threadVars
<1>6. CASE \E u \in Threads : RegisterRoot(u, <<>>)
  BY <1>1, <1>6 DEF RegisterRoot, PutThread
<1> QED
  BY <1>3, <1>4, <1>5, <1>6 DEF Sent

\* A live worker that a step of the controller retires has a handoff on disk:
\* an effect stops it, and a transfer finds no worker of its tree live.
LEMMA WorkStep ==
  ASSUME CInv, StopsAreRecorded, HandOver, [ControllerNext]_controllerVars,
         NEW t \in Threads, role[t] = "worker", tstat[t] \in Live, tstat'[t] = "retired",
         status' # "stopped"
  PROVE  Recorded(t)
<1> USE DEF CInv, ControllerTypeOK, TypeOK
<1>1. tstat \in [Threads -> ThreadStatus] /\ tstat[t] \notin {"retired", "absent"}
  BY DEF IInv, PersistedOK, Live
<1>2. CASE UNCHANGED threadVars
  BY <1>1, <1>2 DEF threadVars
<1>3. CASE Moves /\ effects # <<>>
  <2> USE <1>3
  <2>1. ASSUME NEW u \in Threads, Head(effects) = Stop(u), ThreadStopped(u, Tail(effects))
        PROVE  Recorded(t)
    <3>1. u = t
      BY <1>1, <2>1 DEF ThreadStopped
    <3>2. effects[1] = Stop(t) /\ 1 \in 1..Len(effects)
      BY <2>1, <3>1, PopEffect
    <3> QED
      BY <3>2 DEF StopsAreRecorded, Stop, Effect
  <2>2. ASSUME NEW u \in Threads, NEW h \in Handoffs, NEW scope,
               RecordHandoff(h, u, scope, Tail(effects))
        PROVE  FALSE
    BY <1>1, <2>2 DEF RecordHandoff
  <2>3. ASSUME NEW order, TreeQuiesced(order, Tail(effects)) PROVE FALSE
    BY <1>1, <2>3 DEF TreeQuiesced
  <2>4. ASSUME NEW u \in Threads, NEW rest, RegisterReplacementRoot(u, rest) PROVE FALSE
    BY <1>1, <2>4 DEF RegisterReplacementRoot, PutThread, ReplacementStatus
  <2>5. ASSUME NEW order, RecoverRun(order, Tail(effects)) PROVE FALSE
    BY <1>1, <2>5 DEF RecoverRun
  <2>6. ~CompleteRootTransfer(Tail(effects))
    <3> SUFFICES ASSUME CompleteRootTransfer(Tail(effects)) PROVE FALSE
      OBVIOUS
    <3>1. status = "transitioning" /\ trans.phase = "retiring" /\ trans.new \in Threads
      BY DEF CompleteRootTransfer, Retiring
    <3>2. role[trans.old] = "root" /\ role[trans.new] = "root"
      BY <3>1, RootOrNone DEF IInv, Succession, RootIsRoot, ReplacementIsRoot
    <3> QED
      BY <3>1, <3>2 DEF HandOver, TreeHandedOver
  <2> QED
    BY <2>1, <2>2, <2>3, <2>4, <2>5, <2>6 DEF Moves
<1>4. CASE Apply
  BY <1>2, <1>3, <1>4, ApplyStep DEF Passes, RegisterAppServer, SetDeleted, persisted
<1>5. CASE Sent
  BY <1>5, SentKeepsWork
<1>6. CASE BlockRun("other", <<>>)
  BY <1>2, <1>6 DEF BlockRun, SetBlocked
<1>7. CASE Beside
  BY <1>2, <1>7 DEF Beside, StatusWritten, SetBlocked, SetDeleted, persisted
<1>8. CASE UNCHANGED controllerVars
  BY <1>2, <1>8 DEF controllerVars, vars, persisted
<1> QED
  BY <1>4, <1>5, <1>6, <1>7, <1>8, ContinuationStep

\* A worker's unfinished work is never dropped: neither a rotation, whatever
\* fails or crashes in it, nor a recovery retires a live worker that has not
\* left a handoff.
THEOREM ControllerWorkNotDropped == ControllerSpec => WorkNotDropped
<1> DEFINE Kept == \A t \in Threads :
             role[t] = "worker" /\ tstat[t] \in Live /\ tstat'[t] = "retired" =>
               \/ status' = "stopped"
               \/ \E h \in Handoffs : hstat[h] # "absent" /\ hsource[h] = t
<1>1. CInv /\ StopsAreRecorded /\ HandOver /\ [ControllerNext]_controllerVars =>
        [Kept]_controllerVars
  BY WorkStep DEF Recorded
<1> QED
  BY ControllerInvariance, StoppedThreadsHandedOver, HandOverInvariance, <1>1, PTL
     DEF ControllerSpec, WorkNotDropped

=============================================================================
