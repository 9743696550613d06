---------------------------- MODULE EngineProofs ----------------------------
(***************************************************************************)
(* The engine keeps its invariants, for any number of threads, handoffs    *)
(* and tools.  The lemmas about the handlers hold for every continuation   *)
(* `rest`, so that they serve every client of the engine.                  *)
(***************************************************************************)
EXTENDS Engine, TLAPS, FiniteSetTheorems, SequenceTheorems

\* The run's own root thread has the root's role.
RootIsRoot == root \in Threads => role[root] = "root"

\* The replacement named by a transition is another thread with the root's role.
ReplacementIsRoot ==
  trans.new \in Threads => role[trans.new] = "root" /\ trans.new # root

\* A run without a root has nothing to hand over.
NoRootNoTransition ==
  root = NoThread => status # "transitioning" /\ trans = NoTransition

\* A transition is about the run's root and is in one of its phases.
TransitionOfRoot ==
  status = "transitioning" => trans.old = root /\ trans.phase # "none"

\* A root that takes part in a transition, even one that was blocked half way,
\* is not active.
LeavingRootRests ==
  root \in Threads /\ tstat[root] = "active" => trans = NoTransition

\* The inductive invariant.
Succession ==
  /\ RootIsRoot /\ ReplacementIsRoot
  /\ NoRootNoTransition /\ TransitionOfRoot /\ LeavingRootRests
  /\ SingleActiveRoot /\ ActiveRunHasItsRoot /\ QuietTree /\ SuccessorOwnsTree

IInv == PersistedOK /\ RecordsOK /\ Succession

-----------------------------------------------------------------------------

\* A new run (StartRun) has no thread, no handoff and no transition.
LEMMA InitIInv == Init => IInv
<1> SUFFICES ASSUME Init PROVE IInv
  OBVIOUS
<1>1. PersistedOK
  BY DEF Init, PersistedOK, TransitionType, NoTransition, Transition, AnyThread,
         RunStatus, Reason, BlockReason, Phase, ThreadStatus, Role, Progress, HandoffStatus
<1>2. RecordsOK
  BY DEF Init, RecordsOK
<1>3. Succession
  BY EngineAssumption DEF Init, Succession, RootIsRoot, ReplacementIsRoot, NoRootNoTransition,
     TransitionOfRoot, LeavingRootRests, SingleActiveRoot, ActiveRunHasItsRoot,
     QuietTree, SuccessorOwnsTree, NoTransition, Transition
<1> QED
  BY <1>1, <1>2, <1>3 DEF IInv

\* The invariant is about the persisted run only.
LEMMA UnchangedStep ==
  ASSUME IInv, UNCHANGED persisted
  PROVE  IInv'
<1> USE DEF persisted, runVars, threadVars, handoffVars
<1>1. PersistedOK' /\ RecordsOK'
  BY DEF IInv, PersistedOK, TransitionType, RecordsOK
<1>2. Succession'
  BY DEF IInv, Succession, RootIsRoot, ReplacementIsRoot, NoRootNoTransition,
     TransitionOfRoot, LeavingRootRests, SingleActiveRoot, ActiveRunHasItsRoot,
     QuietTree, SuccessorOwnsTree
<1> QED
  BY <1>1, <1>2 DEF IInv

\* A run without a root has no active root either: the new one is the only one.
LEMMA RegisterRootStep ==
  ASSUME IInv, NEW t \in Threads, NEW rest, RegisterRoot(t, rest)
  PROVE  IInv'
<1> USE DEF IInv, RegisterRoot, PutThread, handoffVars
<1>1. PersistedOK'
  BY DEF PersistedOK, TransitionType, AnyThread, RunStatus, ThreadStatus, Live,
         Role, Progress
<1>2. RecordsOK'
  BY DEF RecordsOK, PersistedOK
<1>3. Succession'
  BY EngineAssumption DEF Succession, RootIsRoot, ReplacementIsRoot,
     NoRootNoTransition, TransitionOfRoot, LeavingRootRests, SingleActiveRoot,
     ActiveRunHasItsRoot, QuietTree, SuccessorOwnsTree, PersistedOK, RecordsOK,
     NoTransition, Transition
<1> QED
  BY <1>1, <1>2, <1>3 DEF IInv

\* A worker needs an active parent, so none is born into a quiet tree.
LEMMA RegisterWorkerStep ==
  ASSUME IInv, NEW t \in Threads, NEW p \in Threads, NEW rest, RegisterWorker(t, p, rest)
  PROVE  IInv'
<1> USE DEF IInv, RegisterWorker, PutThread, runVars, handoffVars
<1>1. PersistedOK'
  BY DEF PersistedOK, TransitionType, AnyThread, ThreadStatus, Live, Role,
         Progress
<1>2. RecordsOK'
  BY DEF RecordsOK, PersistedOK
<1>3. Succession'
  BY EngineAssumption DEF Succession, RootIsRoot, ReplacementIsRoot,
     NoRootNoTransition, TransitionOfRoot, LeavingRootRests, SingleActiveRoot,
     ActiveRunHasItsRoot, QuietTree, SuccessorOwnsTree, PersistedOK, RecordsOK,
     NoTransition, Transition
<1> QED
  BY <1>1, <1>2, <1>3 DEF IInv

\* Recording the app-server touches nothing the invariant is about.
LEMMA RegisterAppServerStep ==
  ASSUME IInv, NEW rest, RegisterAppServer(rest)
  PROVE  IInv'
<1> USE DEF IInv, RegisterAppServer, threadVars, handoffVars
<1>1. PersistedOK'
  BY DEF PersistedOK, TransitionType
<1>2. RecordsOK'
  BY DEF RecordsOK, PersistedOK
<1>3. Succession'
  BY EngineAssumption DEF Succession, RootIsRoot, ReplacementIsRoot,
     NoRootNoTransition, TransitionOfRoot, LeavingRootRests, SingleActiveRoot,
     ActiveRunHasItsRoot, QuietTree, SuccessorOwnsTree, PersistedOK, RecordsOK,
     NoTransition, Transition
<1> QED
  BY <1>1, <1>2, <1>3 DEF IInv

\* Tool calls are no part of the succession.
LEMMA ToolStartedStep ==
  ASSUME IInv, NEW t \in Threads, NEW u \in Tools, NEW rest, ToolStarted(t, u, rest)
  PROVE  IInv'
<1> USE DEF IInv, ToolStarted, runVars, handoffVars
<1>1. PersistedOK'
  BY DEF PersistedOK, TransitionType
<1>2. RecordsOK'
  BY DEF RecordsOK, PersistedOK
<1>3. Succession'
  BY EngineAssumption DEF Succession, RootIsRoot, ReplacementIsRoot,
     NoRootNoTransition, TransitionOfRoot, LeavingRootRests, SingleActiveRoot,
     ActiveRunHasItsRoot, QuietTree, SuccessorOwnsTree, PersistedOK, RecordsOK,
     NoTransition, Transition
<1> QED
  BY <1>1, <1>2, <1>3 DEF IInv

\* Nor is the end of one.
LEMMA ToolEndedStep ==
  ASSUME IInv, NEW t \in Threads, NEW u \in Tools, NEW rest, ToolEnded(t, u, rest)
  PROVE  IInv'
<1> USE DEF IInv, ToolEnded, runVars, handoffVars
<1>1. PersistedOK'
  BY DEF PersistedOK, TransitionType
<1>2. RecordsOK'
  BY DEF RecordsOK, PersistedOK
<1>3. Succession'
  BY EngineAssumption DEF Succession, RootIsRoot, ReplacementIsRoot,
     NoRootNoTransition, TransitionOfRoot, LeavingRootRests, SingleActiveRoot,
     ActiveRunHasItsRoot, QuietTree, SuccessorOwnsTree, PersistedOK, RecordsOK,
     NoTransition, Transition
<1> QED
  BY <1>1, <1>2, <1>3 DEF IInv

\* A report changes the thread's progress only.
LEMMA ReportProgressStep ==
  ASSUME IInv, NEW t \in Threads, NEW p \in Reports, NEW rest, ReportProgress(t, p, rest)
  PROVE  IInv'
<1> USE DEF IInv, ReportProgress, runVars, handoffVars
<1>1. PersistedOK'
  BY EngineAssumption DEF PersistedOK, TransitionType, Progress
<1>2. RecordsOK'
  BY DEF RecordsOK, PersistedOK
<1>3. Succession'
  BY EngineAssumption DEF Succession, RootIsRoot, ReplacementIsRoot,
     NoRootNoTransition, TransitionOfRoot, LeavingRootRests, SingleActiveRoot,
     ActiveRunHasItsRoot, QuietTree, SuccessorOwnsTree, PersistedOK, RecordsOK,
     NoTransition, Transition
<1> QED
  BY <1>1, <1>2, <1>3 DEF IInv

\* A blocked run keeps its transition: whether it may be resumed shows in its root.
LEMMA SetBlockedStep ==
  ASSUME IInv, NEW r \in Reason, SetBlocked(r)
  PROVE  IInv'
<1> USE DEF IInv, SetBlocked, threadVars, handoffVars
<1>1. PersistedOK'
  BY DEF PersistedOK, TransitionType, RunStatus
<1>2. RecordsOK'
  BY DEF RecordsOK, PersistedOK
<1>3. Succession'
  BY EngineAssumption DEF Succession, RootIsRoot, ReplacementIsRoot,
     NoRootNoTransition, TransitionOfRoot, LeavingRootRests, SingleActiveRoot,
     ActiveRunHasItsRoot, QuietTree, SuccessorOwnsTree, PersistedOK, RecordsOK,
     NoTransition, Transition
<1> QED
  BY <1>1, <1>2, <1>3 DEF IInv

\* A stopped run has no live thread.
LEMMA StopRunStep ==
  ASSUME IInv, NEW rest, StopRun(rest)
  PROVE  IInv'
<1> USE DEF IInv, StopRun, handoffVars
<1>1. PersistedOK'
  BY DEF PersistedOK, TransitionType, RunStatus, Reason, BlockReason, ThreadStatus, Live,
         Ended
<1>2. RecordsOK'
  BY DEF RecordsOK, PersistedOK, Live
<1>3. Succession'
  BY EngineAssumption DEF Succession, RootIsRoot, ReplacementIsRoot,
     NoRootNoTransition, TransitionOfRoot, LeavingRootRests, SingleActiveRoot,
     ActiveRunHasItsRoot, QuietTree, SuccessorOwnsTree, PersistedOK, RecordsOK,
     NoTransition, Transition
<1> QED
  BY <1>1, <1>2, <1>3 DEF IInv

\* A run is resumed by an active root, which no transition has touched.
LEMMA ResumeRunStep ==
  ASSUME IInv, NEW rest, ResumeRun(rest)
  PROVE  IInv'
<1> USE DEF IInv, ResumeRun, RootActive, threadVars, handoffVars
<1>1. PersistedOK'
  BY DEF PersistedOK, TransitionType, RunStatus, Reason, BlockReason
<1>2. RecordsOK'
  BY DEF RecordsOK, PersistedOK
<1>3. Succession'
  BY EngineAssumption DEF Succession, RootIsRoot, ReplacementIsRoot,
     NoRootNoTransition, TransitionOfRoot, LeavingRootRests, SingleActiveRoot,
     ActiveRunHasItsRoot, QuietTree, SuccessorOwnsTree, PersistedOK, RecordsOK,
     NoTransition, Transition
<1> QED
  BY <1>1, <1>2, <1>3 DEF IInv

\* A worker that ends is not the run's root.
LEMMA WorkerTurnEndedStep ==
  ASSUME IInv, NEW t \in Threads, tstat[t] = "active", NEW rest, WorkerTurnEnded(t, rest)
  PROVE  IInv'
<1> USE DEF IInv, WorkerTurnEnded, runVars, handoffVars
<1>1. PersistedOK'
  BY DEF PersistedOK, TransitionType, ThreadStatus, Live, Ended
<1>2. RecordsOK'
  BY DEF RecordsOK, PersistedOK
<1>3. Succession'
  BY EngineAssumption DEF Succession, RootIsRoot, ReplacementIsRoot,
     NoRootNoTransition, TransitionOfRoot, LeavingRootRests, SingleActiveRoot,
     ActiveRunHasItsRoot, QuietTree, SuccessorOwnsTree, PersistedOK, RecordsOK,
     NoTransition, Transition
<1> QED
  BY <1>1, <1>2, <1>3 DEF IInv

\* A completed run makes no claim about its threads.
LEMMA CompleteRunStep ==
  ASSUME IInv, NEW t \in Threads, NEW rest, CompleteRun(t, rest)
  PROVE  IInv'
<1> USE DEF IInv, CompleteRun, threadVars, handoffVars
<1>1. PersistedOK'
  BY DEF PersistedOK, TransitionType, RunStatus
<1>2. RecordsOK'
  BY DEF RecordsOK, PersistedOK
<1>3. Succession'
  BY EngineAssumption DEF Succession, RootIsRoot, ReplacementIsRoot,
     NoRootNoTransition, TransitionOfRoot, LeavingRootRests, SingleActiveRoot,
     ActiveRunHasItsRoot, QuietTree, SuccessorOwnsTree, PersistedOK, RecordsOK,
     NoTransition, Transition
<1> QED
  BY <1>1, <1>2, <1>3 DEF IInv

\* The only active root is the run's own, so it is the one that leaves.
LEMMA BeginCompactionStep ==
  ASSUME IInv, NEW t \in Threads, NEW rest, BeginCompaction(t, rest)
  PROVE  IInv'
<1> USE DEF IInv, BeginCompaction, ActiveThread, handoffVars
<1>1. CASE BeginRootCompaction(t, rest)
  <2> USE <1>1 DEF BeginRootCompaction
  <2>1. t = root
    BY DEF Succession, SingleActiveRoot
  <2>2. trans' \in [phase : Phase, old : AnyThread, new : AnyThread,
                    tree : Handoffs \cup {NoHandoff}]
    BY DEF Transition, Phase, AnyThread
  <2>3. PersistedOK'
    BY <2>2 DEF PersistedOK, TransitionType, RunStatus, ThreadStatus, Live
  <2>4. RecordsOK'
    BY DEF RecordsOK, PersistedOK
  <2>5. Succession'
    BY <2>1, EngineAssumption DEF Succession, RootIsRoot, ReplacementIsRoot,
       NoRootNoTransition, TransitionOfRoot, LeavingRootRests, SingleActiveRoot,
       ActiveRunHasItsRoot, QuietTree, SuccessorOwnsTree, PersistedOK, Transition
  <2> QED
    BY <2>3, <2>4, <2>5
<1>2. CASE BeginWorkerCompaction(t, rest)
  <2> USE <1>2 DEF BeginWorkerCompaction, runVars
  <2>1. PersistedOK'
    BY DEF PersistedOK, TransitionType, ThreadStatus, Live
  <2>2. RecordsOK'
    BY DEF RecordsOK, PersistedOK
  <2>3. Succession'
    BY DEF Succession, RootIsRoot, ReplacementIsRoot, NoRootNoTransition,
       TransitionOfRoot, LeavingRootRests, SingleActiveRoot, ActiveRunHasItsRoot,
       QuietTree, SuccessorOwnsTree, PersistedOK
  <2> QED
    BY <2>1, <2>2, <2>3
<1> QED
  BY <1>1, <1>2

\* Every thread that was live checkpoints, the leaving root does already.
LEMMA TreeQuiescedStep ==
  ASSUME IInv, NEW order, NEW rest, TreeQuiesced(order, rest)
  PROVE  IInv'
<1> USE DEF IInv, TreeQuiesced, UnfinishedTree, handoffVars
<1>1. PersistedOK'
  BY DEF PersistedOK, TransitionType, ThreadStatus, Live, Phase
<1>2. RecordsOK'
  BY DEF RecordsOK, PersistedOK, Live
<1>3. Succession'
  BY EngineAssumption DEF Succession, RootIsRoot, ReplacementIsRoot,
     NoRootNoTransition, TransitionOfRoot, LeavingRootRests, SingleActiveRoot,
     ActiveRunHasItsRoot, QuietTree, SuccessorOwnsTree, PersistedOK, RecordsOK,
     NoTransition, Transition, Live
<1> QED
  BY <1>1, <1>2, <1>3 DEF IInv

\* The recorded handoff is new, so it is not one a transition waits for.
LEMMA RecordHandoffStep ==
  ASSUME IInv, NEW h \in Handoffs, NEW t \in Threads, NEW scope, NEW rest,
         RecordHandoff(h, t, scope, rest)
  PROVE  IInv'
<1> USE DEF IInv, RecordHandoff
<1>1. /\ trans' \in [phase : Phase, old : AnyThread, new : AnyThread,
                     tree : Handoffs \cup {NoHandoff}]
      /\ trans'.old = trans.old /\ trans'.new = trans.new
      /\ \/ trans' = trans
         \/ trans.phase = "generating" /\ trans'.phase = "awaiting_root" /\ trans.old = t
  BY DEF RecordTreeHandoff, RecordAgentHandoff, PersistedOK, TransitionType, Phase
<1>2. PersistedOK'
  BY <1>1 DEF PersistedOK, TransitionType, AnyThread, ThreadStatus, Live, HandoffStatus
<1>3. RecordsOK'
  BY EngineAssumption DEF RecordsOK, PersistedOK
<1>4. /\ \A u \in Threads : tstat'[u] = "active" <=> tstat[u] = "active"
      /\ \A g \in Handoffs : hstat[g] # "absent" => hstat'[g] = hstat[g]
  BY DEF PersistedOK
<1>5. (RootIsRoot /\ ReplacementIsRoot /\ NoRootNoTransition /\ TransitionOfRoot)'
  <2>1. trans.phase = "generating" => trans # NoTransition
    BY DEF NoTransition, Transition
  <2> QED
    BY <1>1, <2>1 DEF Succession, RootIsRoot, ReplacementIsRoot, NoRootNoTransition,
       TransitionOfRoot, NoTransition, Transition
<1>6. (LeavingRootRests /\ SingleActiveRoot /\ ActiveRunHasItsRoot)'
  BY <1>1, <1>4 DEF Succession, LeavingRootRests, SingleActiveRoot,
     ActiveRunHasItsRoot, NoTransition, Transition
<1>7. QuietTree'
  BY <1>1, <1>4 DEF Succession, QuietTree
<1>8. SuccessorOwnsTree'
  BY <1>1, <1>4 DEF Succession, SuccessorOwnsTree
<1> QED
  BY <1>2, <1>3, <1>5, <1>6, <1>7, <1>8 DEF Succession

\* Only a thread that is already at rest is archived.
LEMMA ThreadStoppedStep ==
  ASSUME IInv, NEW t \in Threads, NEW rest, ThreadStopped(t, rest)
  PROVE  IInv'
<1> USE DEF IInv, ThreadStopped, runVars, handoffVars
<1>1. PersistedOK'
  BY DEF PersistedOK, TransitionType, ThreadStatus, Ended
<1>2. RecordsOK'
  BY DEF RecordsOK, PersistedOK
<1>3. Succession'
  BY EngineAssumption DEF Succession, RootIsRoot, ReplacementIsRoot,
     NoRootNoTransition, TransitionOfRoot, LeavingRootRests, SingleActiveRoot,
     ActiveRunHasItsRoot, QuietTree, SuccessorOwnsTree, PersistedOK, RecordsOK,
     NoTransition, Transition
<1> QED
  BY <1>1, <1>2, <1>3 DEF IInv

\* The replacement is a root that may not act: it is being validated.
LEMMA RegisterReplacementRootStep ==
  ASSUME IInv, NEW t \in Threads, NEW rest, RegisterReplacementRoot(t, rest)
  PROVE  IInv'
<1> USE DEF IInv, RegisterReplacementRoot, ReplacementStatus, PutThread,
            handoffVars
<1>1. PersistedOK'
  BY DEF PersistedOK, TransitionType, AnyThread, ThreadStatus, Live, Role,
         Progress
<1>2. RecordsOK'
  BY DEF RecordsOK, PersistedOK
<1>3. Succession'
  BY EngineAssumption DEF Succession, RootIsRoot, ReplacementIsRoot,
     NoRootNoTransition, TransitionOfRoot, LeavingRootRests, SingleActiveRoot,
     ActiveRunHasItsRoot, QuietTree, SuccessorOwnsTree, PersistedOK, RecordsOK,
     NoTransition, Transition
<1> QED
  BY <1>1, <1>2, <1>3 DEF IInv

\* A tree is accepted by the replacement named in the transition; any other
\* handoff only while the run is active and hands nothing over.
LEMMA AcceptHandoffStep ==
  ASSUME IInv, NEW h \in Handoffs, NEW t \in Threads, NEW rest,
         AcceptHandoff(h, t, rest)
  PROVE  IInv'
<1> USE DEF IInv, AcceptHandoff
<1>1. hsource[h] \in Threads
  BY DEF RecordsOK, PersistedOK, AnyThread
<1>2. due' \in [Threads -> BOOLEAN]
  BY <1>1 DEF PersistedOK
<1>3. hstat' \in [Handoffs -> HandoffStatus] /\ howner' \in [Handoffs -> AnyThread]
  BY DEF PersistedOK, HandoffStatus, AnyThread
<1>4. RecordsOK'
  BY EngineAssumption DEF RecordsOK, PersistedOK
<1>5. CASE AcceptTreeHandoff(h, t, rest)
  <2> USE <1>5 DEF AcceptTreeHandoff
  <2>1. trans' = [trans EXCEPT !.phase = "retiring"]
    OBVIOUS
  <2>2. /\ trans' \in [phase : Phase, old : AnyThread, new : AnyThread,
                       tree : Handoffs \cup {NoHandoff}]
        /\ trans'.phase = "retiring" /\ trans'.old = trans.old
        /\ trans'.new = trans.new /\ trans'.tree = trans.tree
    BY <2>1 DEF PersistedOK, TransitionType, Phase
  <2>3. PersistedOK'
    BY <1>2, <1>3, <2>2 DEF PersistedOK, TransitionType
  <2>4. Succession'
    BY <2>2 DEF Succession, RootIsRoot, ReplacementIsRoot, NoRootNoTransition,
       TransitionOfRoot, LeavingRootRests, SingleActiveRoot, ActiveRunHasItsRoot,
       QuietTree, SuccessorOwnsTree, PersistedOK, NoTransition, Transition
  <2> QED
    BY <1>4, <2>3, <2>4
<1>6. CASE AcceptAgentHandoff(h, t, rest)
  <2> USE <1>6 DEF AcceptAgentHandoff, ActiveThread
  <2>1. PersistedOK'
    BY <1>2, <1>3 DEF PersistedOK, TransitionType
  <2>2. Succession'
    BY DEF Succession, RootIsRoot, ReplacementIsRoot, NoRootNoTransition,
       TransitionOfRoot, LeavingRootRests, SingleActiveRoot, ActiveRunHasItsRoot,
       QuietTree, SuccessorOwnsTree
  <2> QED
    BY <1>4, <2>1, <2>2
<1> QED
  BY <1>5, <1>6

\* A handoff that its owner resolves stays the owner's.
LEMMA ResolveHandoffStep ==
  ASSUME IInv, NEW h \in Handoffs, NEW t \in Threads, NEW rest, ResolveHandoff(h, t, rest)
  PROVE  IInv'
<1> USE DEF IInv, ResolveHandoff, runVars
<1>1. PersistedOK'
  BY DEF PersistedOK, TransitionType, HandoffStatus
<1>2. RecordsOK'
  BY DEF RecordsOK, PersistedOK
<1>3. Succession'
  BY EngineAssumption DEF Succession, RootIsRoot, ReplacementIsRoot,
     NoRootNoTransition, TransitionOfRoot, LeavingRootRests, SingleActiveRoot,
     ActiveRunHasItsRoot, QuietTree, SuccessorOwnsTree, PersistedOK, RecordsOK,
     NoTransition, Transition
<1> QED
  BY <1>1, <1>2, <1>3 DEF IInv

\* The validated replacement becomes the one active thread of the run.
LEMMA CompleteRootTransferStep ==
  ASSUME IInv, NEW rest, CompleteRootTransfer(rest)
  PROVE  IInv'
<1> USE DEF IInv, CompleteRootTransfer, Retiring, handoffVars
<1>1. PersistedOK'
  BY DEF PersistedOK, TransitionType, AnyThread, NoTransition, Transition,
         RunStatus, ThreadStatus, Live, Ended, Phase
<1>2. RecordsOK'
  BY DEF RecordsOK, PersistedOK
<1>3. Succession'
  BY EngineAssumption DEF Succession, RootIsRoot, ReplacementIsRoot,
     NoRootNoTransition, TransitionOfRoot, LeavingRootRests, SingleActiveRoot,
     ActiveRunHasItsRoot, QuietTree, SuccessorOwnsTree, PersistedOK, RecordsOK,
     NoTransition, Transition
<1> QED
  BY <1>1, <1>2, <1>3 DEF IInv

\* A recovery leaves no thread of the run active and starts from its root.
LEMMA RecoverRunStep ==
  ASSUME IInv, NEW order, NEW rest, RecoverRun(order, rest)
  PROVE  IInv'
<1> USE DEF IInv, RecoverRun
<1>1. PersistedOK'
  <2>1. tstat' \in [Threads -> ThreadStatus]
    BY DEF PersistedOK, ThreadStatus, Live, Ended
  <2>2. hstat' \in [Handoffs -> HandoffStatus] /\ howner' \in [Handoffs -> AnyThread]
    BY DEF PersistedOK, HandoffStatus, AnyThread, RecoveredStatus, RecoveredOwner
  <2>3. trans' \in [phase : Phase, old : AnyThread, new : AnyThread,
                    tree : Handoffs \cup {NoHandoff}]
    BY DEF Transition, Phase, AnyThread
  <2> QED
    BY <2>1, <2>2, <2>3 DEF PersistedOK, TransitionType, RunStatus, Reason, BlockReason
<1>2. RecordsOK'
  <2>1. \A t \in Threads : tstat'[t] = "absent" <=> role[t] = "none"
    BY DEF RecordsOK, UnfinishedWorkers
  <2>2. \A h \in Handoffs :
          /\ hstat'[h] = "absent" <=> hsource[h] = NoThread
          /\ hstat'[h] \in {"accepted", "resolved"} <=> howner'[h] # NoThread
    BY DEF RecordsOK, RecoveredStatus, RecoveredOwner
  <2> QED
    BY <2>1, <2>2 DEF RecordsOK
<1>3. \A t \in Threads : tstat'[t] # "active"
  <2> SUFFICES ASSUME NEW t \in Threads, t \notin UnfinishedWorkers \cup {root},
                      role[t] # "root"
               PROVE  tstat[t] # "active"
    OBVIOUS
  <2>1. role[t] = "worker" => tstat[t] \notin Live
    BY DEF UnfinishedWorkers
  <2>2. role[t] = "none" => tstat[t] = "absent"
    BY DEF RecordsOK
  <2> QED
    BY <2>1, <2>2 DEF PersistedOK, Role, Live
<1>4. Succession'
  BY <1>3, EngineAssumption DEF Succession, RootIsRoot, ReplacementIsRoot,
     NoRootNoTransition, TransitionOfRoot, LeavingRootRests, SingleActiveRoot,
     ActiveRunHasItsRoot, QuietTree, SuccessorOwnsTree, Transition
<1> QED
  BY <1>1, <1>2, <1>4

-----------------------------------------------------------------------------
(* Any command *)

\* BlockRun only adds an effect to SetBlocked.
LEMMA BlockRunStep ==
  ASSUME IInv, NEW r \in Reason, NEW rest, BlockRun(r, rest)
  PROVE  IInv'
  BY SetBlockedStep DEF BlockRun

\* The end of a turn ends a worker, or continues, blocks or completes the run.
LEMMA TurnEndedStep ==
  ASSUME IInv, NEW t \in Threads, NEW rest, TurnEnded(t, rest)
  PROVE  IInv'
<1>1. CASE WorkerTurnEnded(t, rest)
  BY <1>1, WorkerTurnEndedStep DEF TurnEnded
<1>2. CASE RootTurnEnded(t, rest)
  <2>1. CASE UNCHANGED persisted
    BY <2>1, UnchangedStep
  <2>2. CASE BlockRun("other", rest)
    BY <2>2, BlockRunStep DEF Reason, BlockReason
  <2>3. CASE CompleteRun(t, rest)
    BY <2>3, CompleteRunStep
  <2> QED
    BY <1>2, <2>1, <2>2, <2>3 DEF RootTurnEnded
<1> QED
  BY <1>1, <1>2 DEF TurnEnded

\* Every command of the engine preserves the inductive invariant, whatever its
\* client still has to do.
THEOREM CommandStep ==
  ASSUME IInv, NEW rest, Command(rest)
  PROVE  IInv'
<1>1. ASSUME NEW t \in Threads, ThreadCommand(t, rest) PROVE IInv'
  <2>1. CASE ThreadTurnStarted(t, rest)
    BY <2>1, UnchangedStep DEF ThreadTurnStarted
  <2>2. CASE \E u \in Tools : ToolStarted(t, u, rest) \/ ToolEnded(t, u, rest)
    BY <2>2, ToolStartedStep, ToolEndedStep
  <2> QED
    BY <1>1, <2>1, <2>2, RegisterRootStep, RegisterWorkerStep, ReportProgressStep,
       TurnEndedStep, BeginCompactionStep, ThreadStoppedStep DEF ThreadCommand
<1>2. ASSUME NEW h \in Handoffs, NEW t \in Threads, HandoffCommand(h, t, rest)
      PROVE  IInv'
  BY <1>2, RecordHandoffStep, AcceptHandoffStep, ResolveHandoffStep DEF HandoffCommand
<1>3. CASE RunCommand(rest)
  <2>1. CASE FinalizeReportedCompletion(rest)
    BY <2>1, TurnEndedStep DEF FinalizeReportedCompletion, RootActive
  <2> QED
    BY <1>3, <2>1, RegisterAppServerStep, BlockRunStep, StopRunStep, ResumeRunStep,
       TreeQuiescedStep, CompleteRootTransferStep, RecoverRunStep DEF RunCommand, Reason
<1> QED
  BY <1>1, <1>2, <1>3, RegisterReplacementRootStep DEF Command

\* The inductive invariant holds in every run of the engine, for any client.
THEOREM Invariance == Spec => []IInv
<1>1. IInv /\ [Next]_vars => IInv'
  BY CommandStep, UnchangedStep DEF Next, vars
<1> QED
  BY InitIInv, <1>1, PTL DEF Spec

\* Only the run's own root thread is ever an active root (engine.go: a
\* replacement is registered as validating, a recovery retires former roots).
THEOREM OneActiveRoot == Spec => []SingleActiveRoot
<1>1. IInv => SingleActiveRoot
  BY DEF IInv, Succession
<1> QED
  BY Invariance, <1>1, PTL

\* Whatever made a run active, it has an active root and nothing half done.
THEOREM ActiveRunsCanGoOn == Spec => []ActiveRunHasItsRoot
<1>1. IInv => ActiveRunHasItsRoot
  BY DEF IInv, Succession
<1> QED
  BY Invariance, <1>1, PTL

\* No thread is active from the first generated handoff to the transfer.
THEOREM TreesStayQuiet == Spec => []QuietTree
<1>1. IInv => QuietTree
  BY DEF IInv, Succession
<1> QED
  BY Invariance, <1>1, PTL

\* The old tree is retired for a successor that owns the tree handoff.
THEOREM SuccessorsOwnTheirTree == Spec => []SuccessorOwnsTree
<1>1. IInv => SuccessorOwnsTree
  BY DEF IInv, Succession
<1> QED
  BY Invariance, <1>1, PTL

\* The two commands that assign RootThreadID do so for a run without a root
\* and for the successor that accepted the tree handoff.
LEMMA AuthorityStep ==
  ASSUME IInv, NEW rest, Command(rest), root' # root
  PROVE  \/ root = NoThread
         \/ /\ status = "transitioning" /\ trans.old = root
            /\ root' = trans.new
            /\ howner[trans.tree] = root'
<1>1. CASE \E t \in Threads : RegisterRoot(t, rest)
  BY <1>1 DEF RegisterRoot
<1>2. CASE CompleteRootTransfer(rest)
  BY <1>2 DEF CompleteRootTransfer, Retiring, IInv, Succession, TransitionOfRoot,
     SuccessorOwnsTree
<1>3. ASSUME NEW t \in Threads, ThreadCommand(t, rest), ~RegisterRoot(t, rest)
      PROVE  FALSE
  BY <1>3 DEF ThreadCommand, RegisterWorker, ThreadTurnStarted, ToolStarted, ToolEnded,
     ReportProgress, TurnEnded, WorkerTurnEnded, RootTurnEnded, BlockRun, SetBlocked,
     CompleteRun, BeginCompaction, BeginRootCompaction, BeginWorkerCompaction,
     ThreadStopped, persisted, runVars
<1>4. ASSUME NEW h \in Handoffs, NEW t \in Threads, HandoffCommand(h, t, rest)
      PROVE  FALSE
  BY <1>4 DEF HandoffCommand, RecordHandoff, AcceptHandoff, ResolveHandoff, runVars
<1>5. ASSUME RunCommand(rest), ~CompleteRootTransfer(rest)
      PROVE  FALSE
  BY <1>5 DEF RunCommand, RegisterAppServer, BlockRun, SetBlocked, StopRun, ResumeRun,
     FinalizeReportedCompletion, TurnEnded, WorkerTurnEnded, RootTurnEnded, CompleteRun,
     TreeQuiesced, RecoverRun, persisted, runVars
<1> QED
  BY <1>1, <1>2, <1>3, <1>4, <1>5 DEF Command, RegisterReplacementRoot

\* Root authority moves by the first registration or by an accepted transfer.
THEOREM AuthorityMoves == Spec => AuthorityMovesByAcceptance
<1>1. IInv /\ [Next]_vars =>
        [root' # root =>
           \/ root = NoThread
           \/ /\ status = "transitioning" /\ trans.old = root
              /\ root' = trans.new
              /\ howner[trans.tree] = root']_vars
  BY AuthorityStep DEF Next
<1> QED
  BY Invariance, <1>1, PTL DEF Spec, AuthorityMovesByAcceptance

-----------------------------------------------------------------------------
(* The effects a command leaves *)

\* An effect of a known kind about a thread, or about none.
LEMMA EffectType ==
  ASSUME NEW kind \in EffectKind, NEW t \in AnyThread
  PROVE  <<Effect(kind, t)>> \in Seq(Effects)
<1>1. Effect(kind, t) \in Effects
  BY DEF Effect, Effects
<1> QED
  BY <1>1

\* An order of some threads is a sequence of threads.
LEMMA OrderType ==
  ASSUME NEW S \in SUBSET Threads, NEW order \in SetToSeqs(S)
  PROVE  order \in Seq(Threads)
<1>1. IsFiniteSet(S)
  BY FS_Subset, EngineAssumption
<1>2. Cardinality(S) \in Nat
  BY <1>1, FS_CardinalityType
<1>3. order \in [1..Cardinality(S) -> Threads]
  BY DEF SetToSeqs
<1> QED
  BY <1>2, <1>3, SeqDef

\* One generation per thread of the tree.
LEMMA GenerateAllType ==
  ASSUME NEW order \in Seq(Threads), NEW r \in Threads
  PROVE  GenerateAll(order, r) \in Seq(Effects)
<1> DEFINE generations == [i \in 1..Len(order) |-> Effect("generate_handoff", order[i])]
<1>1. Len(order) \in Nat /\ order \in [1..Len(order) -> Threads]
  BY LenProperties
<1>2. \A i \in 1..Len(order) : Effect("generate_handoff", order[i]) \in Effects
  BY <1>1 DEF Effect, Effects, EffectKind, AnyThread
<1>3. generations \in [1..Len(order) -> Effects]
  BY <1>2
<1>4. generations \in Seq(Effects)
  BY <1>1, <1>3, SeqDef
<1>5. <<Effect("generate_handoff", r)>> \in Seq(Effects)
  BY EffectType DEF EffectKind, AnyThread
<1> QED
  BY <1>4, <1>5, ConcatProperties DEF GenerateAll

\* A command puts well-formed effects in front of what its client still has
\* to apply.
LEMMA CommandEffects ==
  ASSUME IInv, NEW rest \in Seq(Effects), Command(rest)
  PROVE  effects' \in Seq(Effects)
<1> DEFINE Leaves(new) == effects' = new \o rest
<1>1. ASSUME NEW new \in Seq(Effects), Leaves(new) PROVE effects' \in Seq(Effects)
  BY <1>1, ConcatProperties
<1>2. ASSUME NEW kind \in EffectKind, NEW t \in AnyThread, Leaves(<<Effect(kind, t)>>)
      PROVE  effects' \in Seq(Effects)
  BY <1>1, <1>2, EffectType
<1>3. /\ root \in AnyThread /\ trans.old \in AnyThread /\ trans.new \in AnyThread
      /\ \A t \in Threads : parent[t] \in AnyThread
  BY DEF IInv, PersistedOK, TransitionType
<1>4. ASSUME NEW t \in Threads, TurnEnded(t, rest) PROVE effects' \in Seq(Effects)
  <2>1. CASE WorkerTurnEnded(t, rest)
    BY <2>1 DEF WorkerTurnEnded
  <2>2. CASE effects' = <<Effect("start_next_turn", t)>> \o rest
    BY <2>2, <1>2 DEF EffectKind, AnyThread
  <2>3. CASE BlockRun("other", rest)
    BY <2>3, <1>2, <1>3 DEF BlockRun, EffectKind
  <2>4. CASE CompleteRun(t, rest)
    <3>1. Effect("stop_app_server", t) \in Effects /\ Effect("delete_run", NoThread) \in Effects
      BY DEF Effect, Effects, EffectKind, AnyThread
    <3>2. <<Effect("stop_app_server", t), Effect("delete_run", NoThread)>> \in Seq(Effects)
      BY <3>1
    <3> QED
      BY <1>1, <2>4, <3>2 DEF CompleteRun
  <2> QED
    BY <1>4, <2>1, <2>2, <2>3, <2>4 DEF TurnEnded, RootTurnEnded
<1>5. ASSUME NEW t \in Threads, ThreadCommand(t, rest)
      PROVE  effects' \in Seq(Effects)
  <2>1. CASE effects' = rest
    BY <2>1
  <2>2. ASSUME NEW u \in Tools, ToolEnded(t, u, rest) PROVE effects' \in Seq(Effects)
    <3>1. AfterLastTool(tools') \in Seq(Effects)
      BY <1>3, EffectType, EmptySeq DEF AfterLastTool, EffectKind
    <3> QED
      BY <1>1, <2>2, <3>1 DEF ToolEnded
  <2>3. CASE BeginCompaction(t, rest)
    BY <2>3, <1>2 DEF BeginCompaction, BeginRootCompaction, BeginWorkerCompaction,
       EffectKind, AnyThread
  <2> QED
    BY <1>4, <1>5, <2>1, <2>2, <2>3 DEF ThreadCommand, RegisterRoot, RegisterWorker,
       ThreadTurnStarted, ToolStarted, ReportProgress, ThreadStopped
<1>6. ASSUME NEW h \in Handoffs, NEW t \in Threads, NEW scope,
             RecordHandoff(h, t, scope, rest)
      PROVE  effects' \in Seq(Effects)
  <2>1. CASE RecordTreeHandoff(h, t, rest)
    BY <2>1, <1>2 DEF RecordTreeHandoff, EffectKind, AnyThread
  <2>2. CASE RecordAgentHandoff(t, rest)
    <3>1. <<Effect("stop_thread", t)>> \in Seq(Effects)
      BY EffectType DEF EffectKind, AnyThread
    <3>2. SteerParent(t) \in Seq(Effects)
      BY <1>3, EffectType, EmptySeq DEF SteerParent, EffectKind
    <3>3. SteerParent(t) \o rest \in Seq(Effects)
      BY <3>2, ConcatProperties
    <3>4. <<Effect("stop_thread", t)>> \o SteerParent(t) \o rest \in Seq(Effects)
      BY <3>1, <3>2, ConcatProperties
    <3> QED
      BY <2>2, <3>4 DEF RecordAgentHandoff
  <2> QED
    BY <1>6, <2>1, <2>2 DEF RecordHandoff
<1>7. ASSUME NEW h \in Handoffs, NEW t \in Threads, HandoffCommand(h, t, rest)
      PROVE  effects' \in Seq(Effects)
  <2>1. CASE AcceptTreeHandoff(h, t, rest)
    BY <2>1, <1>2, <1>3 DEF AcceptTreeHandoff, EffectKind
  <2> QED
    BY <1>6, <1>7, <2>1 DEF HandoffCommand, AcceptHandoff, AcceptAgentHandoff,
       ResolveHandoff
<1>8. ASSUME RunCommand(rest) PROVE effects' \in Seq(Effects)
  <2>1. CASE RegisterAppServer(rest)
    BY <2>1 DEF RegisterAppServer
  <2>2. ASSUME NEW r \in Reason, BlockRun(r, rest) PROVE effects' \in Seq(Effects)
    BY <2>2, <1>2, <1>3 DEF BlockRun, EffectKind
  <2>3. CASE StopRun(rest)
    BY <2>3, <1>2 DEF StopRun, EffectKind, AnyThread
  <2>4. CASE ResumeRun(rest)
    BY <2>4, <1>2, <1>3 DEF ResumeRun, EffectKind
  <2>5. CASE FinalizeReportedCompletion(rest)
    BY <2>5, <1>4 DEF FinalizeReportedCompletion, RootActive
  <2>6. ASSUME NEW order, TreeQuiesced(order, rest) PROVE effects' \in Seq(Effects)
    <3>1. order \in Seq(Threads)
      BY <2>6, OrderType DEF TreeQuiesced, UnfinishedTree
    <3>2. trans.old \in Threads
      BY <1>3, <2>6 DEF TreeQuiesced, IInv, Succession, TransitionOfRoot,
         NoRootNoTransition, AnyThread
    <3> QED
      BY <1>1, <2>6, <3>1, <3>2, GenerateAllType DEF TreeQuiesced
  <2>7. CASE CompleteRootTransfer(rest)
    BY <2>7, <1>2, <1>3 DEF CompleteRootTransfer, EffectKind
  <2>8. ASSUME NEW order, RecoverRun(order, rest) PROVE effects' \in Seq(Effects)
    <3>1. order \in Seq(Threads)
      BY <2>8, OrderType DEF RecoverRun, UnfinishedWorkers
    <3> QED
      BY <1>1, <2>8, <3>1, GenerateAllType DEF RecoverRun
  <2> QED
    BY <1>8, <2>1, <2>2, <2>3, <2>4, <2>5, <2>6, <2>7, <2>8 DEF RunCommand, Reason
<1> QED
  BY <1>5, <1>7, <1>8 DEF Command, RegisterReplacementRoot

\* The engine's runs are well formed, and so is every effect it asks for.
THEOREM TypeCorrect == Spec => []TypeOK
<1> DEFINE EffectsOK == effects \in Seq(Effects)
<1>1. Init => EffectsOK
  BY EffectType DEF Init, EffectKind, AnyThread
<1>2. IInv /\ EffectsOK /\ [Next]_vars => EffectsOK'
  BY CommandEffects, EmptySeq DEF Next, vars
<1>3. IInv /\ EffectsOK => TypeOK
  BY DEF IInv, TypeOK
<1> QED
  BY Invariance, <1>1, <1>2, <1>3, PTL DEF Spec

=============================================================================
