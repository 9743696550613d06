------------------------------- MODULE Engine -------------------------------
(***************************************************************************)
(* The deterministic orchestration engine (internal/orchestrator) and the  *)
(* one persisted Run it works on.  A command loads the run, checks its     *)
(* guards, changes it, saves it and returns a list of effects: here it is  *)
(* one action, disabled where the command returns an error.  Every action  *)
(* takes the effects `rest` that its client still has to apply when the    *)
(* command returns, and leaves its own effects in front of them.           *)
(*                                                                         *)
(* Thread, handoff and tool-use ids are members of constant sets; an id    *)
(* that is not yet in the run's maps is "absent".  A deadline is kept as   *)
(* set or zero, a progress report as one of four values.  Turn ids, models *)
(* and transcripts are left out: where the code refuses to go on without   *)
(* one the command fails, as any command may.                              *)
(***************************************************************************)
EXTENDS Naturals, Sequences, FiniteSets, SequencesExt

CONSTANTS
  Threads,     \* thread ids the app-server can hand out
  Handoffs,    \* handoff ids the generator can hand out
  Tools,       \* tool-use ids
  Reports,     \* the kinds of progress agents report
  NoThread,    \* the empty thread id
  NoHandoff    \* the empty handoff id

ASSUME EngineAssumption ==
  /\ IsFiniteSet(Threads)
  /\ NoThread \notin Threads
  /\ NoHandoff \notin Handoffs
  /\ Reports \subseteq {"next_action", "blocked", "completed"}

VARIABLES
  status,      \* Run.Status, or "deleted" once the store has removed the run
  root,        \* Run.RootThreadID
  recovering,  \* Run.Recovering
  reason,      \* the class of Run.BlockedReason
  registered,  \* Run.AppServerPID and AppServerSocket are recorded
  trans,       \* Run.Transition
  tstat,       \* Thread.Status, "absent" when the id is not in Run.Threads
  role,        \* Thread.Role
  parent,      \* Thread.ParentThreadID
  progress,    \* Thread.Progress
  tools,       \* Thread.InFlightToolIDs
  due,         \* Thread.TransitionDeadline is not zero
  hstat,       \* HandoffRecord.Status, "absent" when not in Run.Handoffs
  hsource,     \* HandoffRecord.SourceThreadID
  howner,      \* HandoffRecord.OwnerThreadID
  effects      \* the effects not yet applied, the next one first

runVars == <<status, root, recovering, reason, registered, trans>>
threadVars == <<tstat, role, parent, progress, tools, due>>
handoffVars == <<hstat, hsource, howner>>
persisted == <<runVars, threadVars, handoffVars>>

RunStatus == {"starting", "active", "transitioning", "blocked", "completed",
              "stopped", "deleted"}
\* StopRun has a reason of its own.
BlockReason == {"recovery", "other"}
Reason == BlockReason \cup {"none", "stopped"}
Phase == {"none", "quiescing", "generating", "awaiting_root", "retiring"}
Live == {"active", "checkpointing", "awaiting_parent", "validating"}
Ended == {"retired", "completed", "blocked", "failed"}
ThreadStatus == Live \cup Ended \cup {"absent"}
Role == {"none", "root", "worker"}
Progress == {"next_action", "no_next_action", "blocked", "completed"}
HandoffStatus == {"absent", "ready", "accepted", "resolved"}
EffectKind == {"start_app_server", "generate_handoff", "stop_thread",
               "steer_parent", "quiesce_tree", "start_root_read_only",
               "retire_tree", "grant_sandbox", "start_next_turn", "block_tree",
               "stop_app_server", "delete_run",
               \* the rest of a procedure of the controller (see Controller)
               "recover_run", "start_root_turn"}

AnyThread == Threads \cup {NoThread}
Effect(kind, t) == [kind |-> kind, thread |-> t]
Effects == [kind : EffectKind, thread : AnyThread]

Transition(phase, old, new, tree) ==
  [phase |-> phase, old |-> old, new |-> new, tree |-> tree]
NoTransition == Transition("none", NoThread, NoThread, NoHandoff)

\* What a command that loads the run needs, and what activeThread checks.
Exists == status # "deleted"
Registered(t) == Exists /\ t \in Threads /\ tstat[t] # "absent"
ActiveThread(t) == status = "active" /\ tstat[t] = "active"

\* StartRun persists the run and returns the effect that starts its server.
Init ==
  /\ status = "starting" /\ root = NoThread /\ recovering = FALSE
  /\ reason = "none" /\ registered = FALSE /\ trans = NoTransition
  /\ tstat = [t \in Threads |-> "absent"]
  /\ role = [t \in Threads |-> "none"]
  /\ parent = [t \in Threads |-> NoThread]
  /\ progress = [t \in Threads |-> "no_next_action"]
  /\ tools = [t \in Threads |-> {}]
  /\ due = [t \in Threads |-> FALSE]
  /\ hstat = [h \in Handoffs |-> "absent"]
  /\ hsource = [h \in Handoffs |-> NoThread]
  /\ howner = [h \in Handoffs |-> NoThread]
  /\ effects = <<Effect("start_app_server", NoThread)>>

-----------------------------------------------------------------------------
(* Registration and what the app-server reports about a thread *)

\* Run.Threads[t] = Thread{...} with the given fields, everything else zero
PutThread(t, r, p, st, pr) ==
  /\ tstat' = [tstat EXCEPT ![t] = st]
  /\ role' = [role EXCEPT ![t] = r]
  /\ parent' = [parent EXCEPT ![t] = p]
  /\ progress' = [progress EXCEPT ![t] = pr]
  /\ tools' = [tools EXCEPT ![t] = {}]
  /\ due' = [due EXCEPT ![t] = FALSE]

RegisterRoot(t, rest) ==
  /\ Exists
  /\ tstat[t] = "absent"
  /\ root = NoThread
  /\ root' = t
  /\ status' = "active"
  /\ PutThread(t, "root", NoThread, "active", "no_next_action")
  /\ effects' = rest
  /\ UNCHANGED <<recovering, reason, registered, trans, handoffVars>>

RegisterWorker(t, p, rest) ==
  /\ Exists
  /\ tstat[t] = "absent"
  /\ tstat[p] = "active"
  /\ PutThread(t, "worker", p, "active", "no_next_action")
  /\ effects' = rest
  /\ UNCHANGED <<runVars, handoffVars>>

RegisterAppServer(rest) ==
  /\ Exists
  /\ registered' = TRUE
  /\ effects' = rest
  /\ UNCHANGED <<status, root, recovering, reason, trans, threadVars, handoffVars>>

ThreadTurnStarted(t, rest) ==
  /\ Registered(t)
  /\ effects' = rest
  /\ UNCHANGED persisted

ToolStarted(t, u, rest) ==
  /\ ActiveThread(t)
  /\ u \notin tools[t]
  /\ tools' = [tools EXCEPT ![t] = @ \cup {u}]
  /\ effects' = rest
  /\ UNCHANGED <<runVars, tstat, role, parent, progress, due, handoffVars>>

ToolsInFlight(inFlight) == \E t \in Threads : inFlight[t] # {}

\* Mutant of AfterLastTool: the end of the last tool call is not followed up.
NothingAfterLastTool(inFlight) == <<>>

AfterLastTool(inFlight) ==
  IF status = "transitioning" /\ trans.phase = "quiescing" /\ ~ToolsInFlight(inFlight)
    THEN <<Effect("quiesce_tree", trans.old)>> ELSE <<>>

ToolEnded(t, u, rest) ==
  /\ Registered(t)
  /\ u \in tools[t]
  /\ tools' = [tools EXCEPT ![t] = @ \ {u}]
  /\ effects' = AfterLastTool(tools') \o rest
  /\ UNCHANGED <<runVars, tstat, role, parent, progress, due, handoffVars>>

\* An active report must name its next action.
ReportProgress(t, p, rest) ==
  /\ Exists
  /\ tstat[t] = "active"
  /\ progress' = [progress EXCEPT ![t] = p]
  /\ effects' = rest
  /\ UNCHANGED <<runVars, tstat, role, parent, tools, due, handoffVars>>

-----------------------------------------------------------------------------
(* Blocking, stopping, resuming and the end of a turn *)

\* The change BlockRun makes to the run: the transition and the threads stay.
SetBlocked(r) ==
  /\ Exists
  /\ status' = "blocked"
  /\ reason' = r
  /\ UNCHANGED <<root, recovering, registered, trans, threadVars, handoffVars>>

BlockRun(r, rest) ==
  /\ SetBlocked(r)
  /\ effects' = <<Effect("block_tree", root)>> \o rest

StopRun(rest) ==
  /\ Exists /\ status \notin {"completed", "stopped"}
  /\ tstat' = [t \in Threads |-> IF tstat[t] \in Live THEN "retired" ELSE tstat[t]]
  /\ status' = "stopped"
  /\ reason' = "stopped"
  /\ effects' = <<Effect("stop_app_server", NoThread)>> \o rest
  /\ UNCHANGED <<root, recovering, registered, trans, role, parent, progress, tools, due, handoffVars>>

\* Mutant of RootActive: any registered root will do.
RootRegistered == root \in Threads

RootActive == root \in Threads /\ tstat[root] = "active"

ResumeRun(rest) ==
  /\ status = "blocked" /\ RootActive
  /\ status' = "active"
  /\ reason' = "none"
  /\ effects' = <<Effect("start_next_turn", root)>> \o rest
  /\ UNCHANGED <<root, recovering, registered, trans, threadVars, handoffVars>>

WorkerTurnEnded(t, rest) ==
  /\ role[t] = "worker"
  /\ tstat' = [tstat EXCEPT ![t] =
                 CASE progress[t] = "completed" -> "completed"
                   [] progress[t] = "blocked" -> "blocked"
                   [] OTHER -> "failed"]
  /\ effects' = rest
  /\ UNCHANGED <<runVars, role, parent, progress, tools, due, handoffVars>>

\* Mutant of ReadyToComplete: unresolved handoffs are overlooked.
NoThreadLeft(t) == \A u \in Threads \ {t} : tstat[u] \notin Live

ReadyToComplete(t) ==
  /\ \A u \in Threads \ {t} : tstat[u] \notin Live
  /\ \A h \in Handoffs : hstat[h] \in {"absent", "resolved"}

CompleteRun(t, rest) ==
  /\ progress[t] = "completed" /\ ReadyToComplete(t)
  /\ status' = "completed"
  /\ effects' = <<Effect("stop_app_server", t), Effect("delete_run", NoThread)>> \o rest
  /\ UNCHANGED <<root, recovering, reason, registered, trans, threadVars, handoffVars>>

RootTurnEnded(t, rest) ==
  /\ role[t] # "worker"
  /\ \/ /\ progress[t] = "next_action"
        /\ effects' = <<Effect("start_next_turn", t)>> \o rest
        /\ UNCHANGED persisted
     \/ /\ \/ progress[t] \in {"no_next_action", "blocked"}
           \/ progress[t] = "completed" /\ ~ReadyToComplete(t)
        /\ BlockRun("other", rest)
     \/ CompleteRun(t, rest)

TurnEnded(t, rest) ==
  /\ Exists
  /\ tstat[t] = "active"
  /\ WorkerTurnEnded(t, rest) \/ RootTurnEnded(t, rest)

FinalizeReportedCompletion(rest) ==
  /\ status = "active" /\ RootActive /\ progress[root] = "completed"
  /\ TurnEnded(root, rest)

-----------------------------------------------------------------------------
(* Compaction, quiescence and handoffs *)

\* One generation per worker in some order, then the root's (ids are sorted
\* in the code: an order fixed by ids, which are arbitrary).
\* Mutant of GenerateAll: only the root's handoff is generated.
GenerateRootOnly(order, r) == <<Effect("generate_handoff", r)>>

GenerateAll(order, r) ==
  [i \in 1..Len(order) |-> Effect("generate_handoff", order[i])]
    \o <<Effect("generate_handoff", r)>>

BeginRootCompaction(t, rest) ==
  /\ role[t] = "root"
  /\ status' = "transitioning"
  /\ trans' = Transition("quiescing", t, NoThread, NoHandoff)
  /\ effects' = <<Effect("quiesce_tree", t)>> \o rest
  /\ UNCHANGED <<root, recovering, reason, registered, due>>

BeginWorkerCompaction(t, rest) ==
  /\ role[t] # "root"
  /\ due' = [due EXCEPT ![t] = TRUE]
  /\ effects' = <<Effect("generate_handoff", t)>> \o rest
  /\ UNCHANGED runVars

BeginCompaction(t, rest) ==
  /\ ActiveThread(t)
  /\ tstat' = [tstat EXCEPT ![t] = "checkpointing"]
  /\ BeginRootCompaction(t, rest) \/ BeginWorkerCompaction(t, rest)
  /\ UNCHANGED <<role, parent, progress, tools, handoffVars>>

\* Mutants of UnfinishedTree: only the root's own children; only active threads.
RootChildren == {t \in Threads \ {trans.old} : tstat[t] \in Live /\ parent[t] = trans.old}
ActiveThreads == {t \in Threads \ {trans.old} : tstat[t] = "active"}

\* The threads of the old tree that still have something to hand over.
UnfinishedTree == {t \in Threads \ {trans.old} : tstat[t] \in Live}

TreeQuiesced(order, rest) ==
  /\ status = "transitioning" /\ trans.phase = "quiescing"
  /\ order \in SetToSeqs(UnfinishedTree)
  /\ tstat' = [t \in Threads |-> IF t \in UnfinishedTree THEN "checkpointing" ELSE tstat[t]]
  /\ trans' = [trans EXCEPT !.phase = "generating"]
  /\ effects' = GenerateAll(order, trans.old) \o rest
  /\ UNCHANGED <<status, root, recovering, reason, registered, role, parent,
                 progress, tools, due, handoffVars>>

RecordTreeHandoff(h, t, rest) ==
  /\ status = "transitioning" /\ trans.phase = "generating" /\ trans.old = t
  /\ trans' = [trans EXCEPT !.phase = "awaiting_root", !.tree = h]
  /\ effects' = <<Effect("start_root_read_only", t)>> \o rest

SteerParent(t) ==
  IF role[t] = "worker" /\ status = "active"
    THEN <<Effect("steer_parent", parent[t])>> ELSE <<>>

RecordAgentHandoff(t, rest) ==
  /\ effects' = <<Effect("stop_thread", t)>> \o SteerParent(t) \o rest
  /\ UNCHANGED trans

\* The handoff is durable before its record is: SaveHandoff, then Save.  The
\* child ids a tree handoff lists are checked against the run they were read
\* from under the same lock, so that check never fails and is left out.
RecordHandoff(h, t, scope, rest) ==
  /\ Exists
  /\ hstat[h] = "absent"
  /\ tstat[t] = "checkpointing"
  /\ hstat' = [hstat EXCEPT ![h] = "ready"]
  /\ hsource' = [hsource EXCEPT ![h] = t]
  /\ tstat' = [tstat EXCEPT ![t] = "awaiting_parent"]
  /\ due' = [due EXCEPT ![t] = TRUE]
  /\ \/ scope = "tree" /\ RecordTreeHandoff(h, t, rest)
     \/ scope = "agent" /\ RecordAgentHandoff(t, rest)
  /\ UNCHANGED <<status, root, recovering, reason, registered, role, parent,
                 progress, tools, howner>>

ThreadStopped(t, rest) ==
  /\ Registered(t)
  /\ tstat[t] \in {"awaiting_parent", "checkpointing"}
  /\ tstat' = [tstat EXCEPT ![t] = "retired"]
  /\ effects' = rest
  /\ UNCHANGED <<runVars, role, parent, progress, tools, due, handoffVars>>

-----------------------------------------------------------------------------
(* The replacement root, ownership and recovery *)

\* Mutant of ReplacementStatus: the successor may work before it is validated.
UnvalidatedStatus == "active"

ReplacementStatus == "validating"

RegisterReplacementRoot(t, rest) ==
  /\ status = "transitioning" /\ trans.phase = "awaiting_root"
  /\ t # trans.old
  /\ trans.new = NoThread
  /\ PutThread(t, "root", NoThread, ReplacementStatus, "next_action")
  /\ trans' = [trans EXCEPT !.new = t]
  /\ effects' = rest
  /\ UNCHANGED <<status, root, recovering, reason, registered, handoffVars>>

\* Mutant of AcceptTreeHandoff: whoever asks first owns the tree.
AcceptTreeHandoffByAnyone(h, t, rest) ==
  /\ h = trans.tree
  /\ status = "transitioning" /\ trans.phase = "awaiting_root" /\ trans.new # NoThread
  /\ trans' = [trans EXCEPT !.phase = "retiring"]
  /\ effects' = <<Effect("retire_tree", trans.old)>> \o rest

AcceptTreeHandoff(h, t, rest) ==
  /\ h = trans.tree
  /\ status = "transitioning" /\ trans.phase = "awaiting_root"
  /\ trans.new = t /\ tstat[t] = "validating"
  /\ trans' = [trans EXCEPT !.phase = "retiring"]
  /\ effects' = <<Effect("retire_tree", trans.old)>> \o rest

AcceptAgentHandoff(h, t, rest) ==
  /\ h # trans.tree
  /\ ActiveThread(t)
  /\ role[hsource[h]] = "worker" => parent[hsource[h]] = t
  /\ effects' = rest
  /\ UNCHANGED trans

\* The accepting thread is written back after the source: when they are the
\* same thread the source's new deadline is lost.
AcceptHandoff(h, t, rest) ==
  /\ Registered(t)
  /\ hstat[h] = "ready"
  /\ AcceptTreeHandoff(h, t, rest) \/ AcceptAgentHandoff(h, t, rest)
  /\ hstat' = [hstat EXCEPT ![h] = "accepted"]
  /\ howner' = [howner EXCEPT ![h] = t]
  /\ due' = [due EXCEPT ![hsource[h]] = (@ \/ hsource[h] # t)]
  /\ UNCHANGED <<status, root, recovering, reason, registered, tstat, role,
                 parent, progress, tools, hsource>>

ResolveHandoff(h, t, rest) ==
  /\ Exists
  /\ hstat[h] = "accepted" /\ howner[h] = t
  /\ hstat' = [hstat EXCEPT ![h] = "resolved"]
  /\ due' = [due EXCEPT ![hsource[h]] = FALSE]
  /\ effects' = rest
  /\ UNCHANGED <<runVars, tstat, role, parent, progress, tools, hsource, howner>>

\* Mutant of Retiring: the transfer does not wait for the acceptance.
RetiringEarly == status = "transitioning" /\ trans.phase \in {"awaiting_root", "retiring"}

Retiring == status = "transitioning" /\ trans.phase = "retiring"

CompleteRootTransfer(rest) ==
  /\ Retiring
  /\ trans.new \in Threads /\ tstat[trans.new] = "validating"
  /\ tstat' = [t \in Threads |->
                 IF tstat[t] = "absent" THEN "absent"
                 ELSE IF t = trans.new THEN "active" ELSE "retired"]
  /\ parent' = [t \in Threads |->
                  IF role[t] = "worker" /\ t # trans.new THEN trans.new ELSE parent[t]]
  /\ due' = [t \in Threads |-> t = trans.new /\ due[t]]
  /\ root' = trans.new
  /\ status' = "active"
  /\ recovering' = FALSE
  /\ trans' = NoTransition
  /\ effects' = <<Effect("grant_sandbox", trans.new)>> \o rest
  /\ UNCHANGED <<reason, registered, role, progress, tools, handoffVars>>

\* Mutant of UnfinishedWorkers: every worker is taken over again.
AllWorkers == {t \in Threads \ {root} : role[t] = "worker"}

\* The workers a recovery takes over; every other thread keeps its end.
UnfinishedWorkers ==
  {t \in Threads \ {root} : role[t] = "worker" /\ tstat[t] \in Live}

\* Mutants of RecoveredStatus and RecoveredOwner: resolved handoffs too.
ReopenedStatus(h) == IF hstat[h] = "absent" THEN "absent" ELSE "ready"
ClearedOwner(h) == NoThread

\* An unresolved handoff is offered again, without an owner.
RecoveredStatus(h) == IF hstat[h] = "accepted" THEN "ready" ELSE hstat[h]
RecoveredOwner(h) == IF hstat[h] = "resolved" THEN howner[h] ELSE NoThread

RecoverRun(order, rest) ==
  /\ Exists
  /\ root \in Threads /\ role[root] = "root"
  /\ order \in SetToSeqs(UnfinishedWorkers)
  /\ hstat' = [h \in Handoffs |-> RecoveredStatus(h)]
  /\ howner' = [h \in Handoffs |-> RecoveredOwner(h)]
  /\ tstat' = [t \in Threads |->
                 IF t \in UnfinishedWorkers \cup {root} THEN "checkpointing"
                 ELSE IF role[t] = "root" THEN "retired" ELSE tstat[t]]
  /\ status' = "transitioning"
  /\ recovering' = TRUE
  /\ reason' = "none"
  /\ trans' = Transition("generating", root, NoThread, NoHandoff)
  /\ effects' = GenerateAll(order, root) \o rest
  /\ UNCHANGED <<root, registered, role, parent, progress, tools, due, hsource>>

-----------------------------------------------------------------------------
(* Any command: what a client of the engine may send, in any order *)

ThreadCommand(t, rest) ==
  \/ RegisterRoot(t, rest)
  \/ \E p \in Threads : RegisterWorker(t, p, rest)
  \/ ThreadTurnStarted(t, rest)
  \/ \E u \in Tools : ToolStarted(t, u, rest) \/ ToolEnded(t, u, rest)
  \/ \E p \in Reports : ReportProgress(t, p, rest)
  \/ TurnEnded(t, rest)
  \/ BeginCompaction(t, rest)
  \/ ThreadStopped(t, rest)

HandoffCommand(h, t, rest) ==
  \/ \E scope \in {"agent", "tree"} : RecordHandoff(h, t, scope, rest)
  \/ AcceptHandoff(h, t, rest)
  \/ ResolveHandoff(h, t, rest)

RunCommand(rest) ==
  \/ RegisterAppServer(rest)
  \/ \E r \in BlockReason : BlockRun(r, rest)
  \/ StopRun(rest)
  \/ ResumeRun(rest)
  \/ FinalizeReportedCompletion(rest)
  \/ \E order \in SetToSeqs(UnfinishedTree) : TreeQuiesced(order, rest)
  \/ CompleteRootTransfer(rest)
  \/ \E order \in SetToSeqs(UnfinishedWorkers) : RecoverRun(order, rest)

Command(rest) ==
  \/ \E t \in Threads : ThreadCommand(t, rest) \/ RegisterReplacementRoot(t, rest)
  \/ \E h \in Handoffs, t \in Threads : HandoffCommand(h, t, rest)
  \/ RunCommand(rest)

vars == <<persisted, effects>>

\* A client that applies no effect: each outcome replaces the previous one.
Next == Command(<<>>)

Spec == Init /\ [][Next]_vars

-----------------------------------------------------------------------------
(* Properties of the engine under any client *)

TransitionType ==
  trans \in [phase : Phase, old : AnyThread, new : AnyThread,
             tree : Handoffs \cup {NoHandoff}]

\* The persisted run is well formed.
PersistedOK ==
  /\ status \in RunStatus
  /\ root \in AnyThread
  /\ recovering \in BOOLEAN
  /\ reason \in Reason
  /\ registered \in BOOLEAN
  /\ TransitionType
  /\ tstat \in [Threads -> ThreadStatus]
  /\ role \in [Threads -> Role]
  /\ parent \in [Threads -> AnyThread]
  /\ progress \in [Threads -> Progress]
  /\ tools \in [Threads -> SUBSET Tools]
  /\ due \in [Threads -> BOOLEAN]
  /\ hstat \in [Handoffs -> HandoffStatus]
  /\ hsource \in [Handoffs -> AnyThread]
  /\ howner \in [Handoffs -> AnyThread]

\* Records are whole: an id that is not in Run.Threads has no role, one that is
\* not in Run.Handoffs no source, and exactly the accepted and the resolved
\* handoffs have an owner.
RecordsOK ==
  /\ \A t \in Threads : tstat[t] = "absent" <=> role[t] = "none"
  /\ \A h \in Handoffs :
       /\ hstat[h] = "absent" <=> hsource[h] = NoThread
       /\ hstat[h] \in {"accepted", "resolved"} <=> howner[h] # NoThread

\* The type invariant of the engine.
TypeOK ==
  /\ PersistedOK
  /\ RecordsOK
  /\ effects \in Seq(Effects)

\* Only the run's own root thread may be an active root: neither the old root
\* of a rotation nor a replacement that has not been validated can drive it.
SingleActiveRoot ==
  \A t \in Threads : role[t] = "root" /\ tstat[t] = "active" => t = root

\* An active run has an active root and no half-done transition: whatever
\* blocks, resumes, recovers or transfers a run leaves it one that can go on.
ActiveRunHasItsRoot ==
  status = "active" =>
    /\ root \in Threads /\ role[root] = "root" /\ tstat[root] = "active"
    /\ trans = NoTransition

\* From the moment handoffs are generated until the transfer is complete no
\* thread of the run is active, so none may write: "no unvalidated successor
\* may write, compaction does not proceed".
QuietTree ==
  status = "transitioning" /\ trans.phase # "quiescing" =>
    \A t \in Threads : tstat[t] # "active"

\* The old tree is only retired for a successor that owns its tree handoff.
SuccessorOwnsTree ==
  status = "transitioning" /\ trans.phase = "retiring" =>
    /\ trans.new \in Threads /\ trans.tree \in Handoffs
    /\ hstat[trans.tree] \in {"accepted", "resolved"}
    /\ howner[trans.tree] = trans.new

\* Root authority moves only by the first registration or by the transfer to
\* the replacement that accepted the tree handoff of the current transition.
AuthorityMovesByAcceptance ==
  [][root' # root =>
       \/ root = NoThread
       \/ /\ status = "transitioning" /\ trans.old = root
          /\ root' = trans.new
          /\ howner[trans.tree] = root']_vars

=============================================================================
