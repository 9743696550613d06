------------------------------ MODULE Manager ------------------------------
(***************************************************************************)
(* The app-servers of all runs (appserver.Manager): their processes, the   *)
(* sessions the daemon knows them by, the goroutines that wait for their   *)
(* exits, the shutdown, and what a later daemon makes of the processes an  *)
(* earlier one has left (stopOwnedAppServer).                              *)
(*                                                                         *)
(* A server is one process, started once, with the session that Start      *)
(* makes for it.  Controller.mu admits one goroutine at a time to Start    *)
(* and Stop; it is `hold`.  What is said to a server is the subject of     *)
(* module Session, why a run is started or stopped that of Controller.     *)
(*                                                                         *)
(* Not modelled: a pid that is given to another process, SIGKILL without   *)
(* effect, and descendants of a server that outlive it.                    *)
(***************************************************************************)
CONSTANTS
  Runs, Servers,
  Nothing,      \* no run, no server
  LateSockets   \* a server may bind its socket after its daemon was replaced

ASSUME ManagerAssumption ==
  /\ Nothing \notin Runs \cup Servers
  /\ LateSockets \in BOOLEAN

VARIABLES
  proc,      \* the process of a server
  runOf,     \* the run a server was started for
  recorded,  \* Run.AppServerPID, as persisted
  daemon,    \* serveDaemon: one process after the other
  own,       \* the servers this daemon has started
  sessions,  \* Manager.sessions
  observer,  \* observeExit of a server's session
  hold,      \* the goroutine in Controller.mu
  cancelled, \* the daemon's context
  closing,   \* the sessions StopAll has still to close
  stopped,   \* history: taken out of the map by Stop or StopAll
  killed     \* history: killed by the daemon's context

processes == <<proc, runOf, recorded>>
shutdown == <<daemon, cancelled, closing>>
history == <<stopped, killed>>
managerVars == <<processes, own, sessions, observer, hold, shutdown, history>>

\* "booting": has not yet bound its socket.
Proc == {"none", "booting", "up", "dead"}
Running(s) == proc[s] \in {"booting", "up"}
Daemon == {"serving", "closing", "gone", "killed"}
Alive == daemon \in {"serving", "closing"}

\* "clear": no earlier server is in the way of a start; "starting": in Start;
\* "stored": not yet registered with the run; "closing": in Session.Close.
At == {"free", "hold", "clear", "starting", "stored", "closing"}
Free == [at |-> "free", run |-> Nothing, server |-> Nothing]
HoldFor(r) == [at |-> "hold", run |-> r, server |-> Nothing]
\* Mutant of Goto: the server is not remembered.
GotoOnly(at, s) == hold' = [hold EXCEPT !.at = at]

Goto(at, s) == hold' = [hold EXCEPT !.at = at, !.server = s]

Observer == {"none", "watching", "callback", "blocked", "done"}

Dies(s) == proc' = [proc EXCEPT ![s] = "dead"]

ManagerInit ==
  /\ proc = [s \in Servers |-> "none"]
  /\ runOf = [s \in Servers |-> Nothing]
  /\ recorded = [r \in Runs |-> Nothing]
  /\ daemon = "serving" /\ own = {} /\ hold = Free
  /\ sessions = [r \in Runs |-> Nothing]
  /\ observer = [s \in Servers |-> "none"]
  /\ cancelled = FALSE /\ closing = {} /\ stopped = {} /\ killed = {}

-----------------------------------------------------------------------------
(* The processes *)

Booted(s) ==
  /\ proc[s] = "booting"
  /\ proc' = [proc EXCEPT ![s] = "up"]
  /\ UNCHANGED <<runOf, recorded, own, sessions, observer, hold, shutdown, history>>

\* By itself, or by a signal from outside; the recovery of a completed run stops
\* the recorded process without the mutex.
ServerExits(s) ==
  /\ Running(s) /\ Dies(s)
  /\ UNCHANGED <<runOf, recorded, own, sessions, observer, hold, shutdown, history>>

\* exec.CommandContext: the end of the daemon's context kills what it started.
KilledByContext(s) ==
  /\ Alive /\ cancelled
  /\ s \in own /\ Running(s) /\ Dies(s)
  /\ killed' = killed \cup {s}
  /\ UNCHANGED <<runOf, recorded, own, sessions, observer, hold, shutdown, stopped>>

-----------------------------------------------------------------------------
(* observeExit *)

\* Mutant of Owned: any session of the run will do.
OwnedByRun(s) == sessions[runOf[s]] # Nothing

Owned(s) == sessions[runOf[s]] = s

\* The session is forgotten, and the exit reported, if it is still the run's.
ObserveExit(s) ==
  /\ Alive /\ observer[s] = "watching" /\ proc[s] = "dead"
  /\ IF Owned(s)
       THEN /\ sessions' = [sessions EXCEPT ![runOf[s]] = Nothing]
            /\ observer' = [observer EXCEPT ![s] = "callback"]
       ELSE /\ observer' = [observer EXCEPT ![s] = "done"]
            /\ UNCHANGED sessions
  /\ UNCHANGED <<processes, own, hold, shutdown, history>>

\* OnExit, under Controller.mu: the run is blocked unless it has ended, is
\* blocked already, or cannot be saved.
HandleExit(s) ==
  /\ Alive /\ observer[s] = "callback" /\ hold = Free
  /\ \E outcome \in {"blocked", "done"} : observer' = [observer EXCEPT ![s] = outcome]
  /\ UNCHANGED <<processes, own, sessions, hold, shutdown, history>>

-----------------------------------------------------------------------------
(* Under Controller.mu *)

\* What several holds for a run do one after the other, one hold may do as well.
Enter(r) ==
  /\ Alive /\ hold = Free /\ hold' = HoldFor(r)
  /\ UNCHANGED <<processes, own, sessions, observer, shutdown, history>>

Leave ==
  /\ Alive /\ hold.at = "hold" /\ hold' = Free
  /\ UNCHANGED <<processes, own, sessions, observer, shutdown, history>>

\* Manager.Stop: the session leaves the map, then is closed.
StopBy(r) ==
  IF sessions[r] = Nothing
    THEN hold' = HoldFor(r) /\ UNCHANGED <<sessions, stopped>>
    ELSE /\ sessions' = [sessions EXCEPT ![r] = Nothing]
         /\ stopped' = stopped \cup {sessions[r]}
         /\ Goto("closing", sessions[r])

Stop ==
  /\ Alive /\ hold.at = "hold" /\ StopBy(hold.run)
  /\ UNCHANGED <<processes, own, observer, shutdown, killed>>

\* SIGTERM, SIGKILL after two seconds, and the wait for the process.
Stopped ==
  /\ Alive /\ hold.at = "closing"
  /\ Dies(hold.server) /\ hold' = HoldFor(hold.run)
  /\ UNCHANGED <<runOf, recorded, own, sessions, observer, shutdown, history>>

\* A new run has no server to look for.
StartRun ==
  /\ Alive /\ hold.at = "hold"
  /\ \A s \in Servers : runOf[s] # hold.run
  /\ Goto("clear", Nothing)
  /\ UNCHANGED <<processes, own, sessions, observer, shutdown, history>>

\* Mutant of SocketAccepting: the socket is not tried.
SocketIgnored(r, s) == FALSE

\* Somebody but the recorded process s answers at the socket of the run.
SocketAccepting(r, s) == \E t \in Servers \ {s} : runOf[t] = r /\ proc[t] = "up"

\* stopOwnedAppServer: the recorded process is killed if it still runs, and
\* nobody answers at the run's socket then.
StopOwned ==
  LET s == recorded[hold.run] IN
  /\ Alive /\ hold.at = "hold"
  /\ s # Nothing /\ ~SocketAccepting(hold.run, s)
  /\ Dies(s) /\ Goto("clear", Nothing)
  /\ UNCHANGED <<runOf, recorded, own, sessions, observer, shutdown, history>>

\* A recovery that fails stops the run's server: the ownership was uncertain, a
\* session is there already, or no process could be started.  The start of a new
\* run fails with no session to stop.
StartRefused ==
  /\ Alive
  /\ \/ hold.at = "clear"
     \/ /\ hold.at = "hold"
        /\ recorded[hold.run] = Nothing \/ SocketAccepting(hold.run, recorded[hold.run])
  /\ StopBy(hold.run)
  /\ UNCHANGED <<processes, own, observer, shutdown, killed>>

Spawn(s) ==
  /\ Alive /\ ~cancelled
  /\ hold.at = "clear" /\ sessions[hold.run] = Nothing
  /\ proc[s] = "none" /\ proc' = [proc EXCEPT ![s] = "booting"]
  /\ runOf' = [runOf EXCEPT ![s] = hold.run]
  /\ own' = own \cup {s}
  /\ Goto("starting", s)
  /\ UNCHANGED <<recorded, sessions, observer, shutdown, history>>

\* Mutant of StartFails' kill: the process is left alone.
LeaveAlone(s) == proc' = proc

KillStarted(s) == Dies(s)

\* No socket, no connection or no Initialize: the process is killed.
StartFails ==
  /\ Alive /\ hold.at = "starting"
  /\ KillStarted(hold.server) /\ hold' = HoldFor(hold.run)
  /\ UNCHANGED <<runOf, recorded, own, sessions, observer, shutdown, history>>

\* Initialize was answered: the session is in the map, and its observer starts.
StoreSession ==
  /\ Alive /\ hold.at = "starting" /\ proc[hold.server] = "up"
  /\ sessions' = [sessions EXCEPT ![hold.run] = hold.server]
  /\ observer' = [observer EXCEPT ![hold.server] = "watching"]
  /\ Goto("stored", hold.server)
  /\ UNCHANGED <<processes, own, shutdown, history>>

\* The start of a new run looks the session up again before it registers it.
RegisterAppServer ==
  /\ Alive /\ hold.at = "stored"
  /\ recorded[hold.run] # Nothing \/ sessions[hold.run] = hold.server
  /\ recorded' = [recorded EXCEPT ![hold.run] = hold.server]
  /\ hold' = HoldFor(hold.run)
  /\ UNCHANGED <<proc, runOf, own, sessions, observer, shutdown, history>>

\* A recovery that cannot register its server stops it; a new run keeps it.
RegisterFails ==
  /\ Alive /\ hold.at = "stored"
  /\ IF recorded[hold.run] = Nothing
       THEN hold' = HoldFor(hold.run) /\ UNCHANGED <<sessions, stopped>>
       ELSE StopBy(hold.run)
  /\ UNCHANGED <<processes, own, observer, shutdown, killed>>

-----------------------------------------------------------------------------
(* The daemon *)

\* The signal ends the context at once, long before StopAll is called.
Signal ==
  /\ Alive /\ ~cancelled /\ cancelled' = TRUE
  /\ UNCHANGED <<processes, own, sessions, observer, hold, daemon, closing, history>>

Swept == {sessions[r] : r \in Runs} \ {Nothing}

\* ServeReady has returned, because of the signal or of an error.
StopAll ==
  /\ daemon = "serving" /\ daemon' = "closing"
  /\ closing' = Swept /\ stopped' = stopped \cup Swept
  /\ sessions' = [r \in Runs |-> Nothing]
  /\ UNCHANGED <<processes, own, observer, hold, cancelled, killed>>

CloseNext(s) ==
  /\ daemon = "closing" /\ s \in closing
  /\ Dies(s) /\ closing' = closing \ {s}
  /\ UNCHANGED <<runOf, recorded, own, sessions, observer, hold, daemon, cancelled, history>>

\* The process ends with all its goroutines, wherever they are.
Gone ==
  /\ daemon = "closing" /\ closing = {} /\ daemon' = "gone"
  /\ UNCHANGED <<processes, own, sessions, observer, hold, cancelled, closing, history>>

Crash ==
  /\ Alive /\ daemon' = "killed"
  /\ UNCHANGED <<processes, own, sessions, observer, hold, cancelled, closing, history>>

\* The next daemon knows of earlier servers what the runs have recorded.
Restart ==
  /\ ~Alive /\ daemon' = "serving"
  /\ ~LateSockets => \A s \in Servers : proc[s] # "booting"
  /\ own' = {} /\ hold' = Free
  /\ sessions' = [r \in Runs |-> Nothing]
  /\ observer' = [s \in Servers |-> "none"]
  /\ cancelled' = FALSE /\ closing' = {} /\ stopped' = {} /\ killed' = {}
  /\ UNCHANGED processes

-----------------------------------------------------------------------------

Server(s) ==
  \/ Booted(s) \/ ServerExits(s) \/ KilledByContext(s)
  \/ ObserveExit(s) \/ HandleExit(s)
  \/ Spawn(s) \/ CloseNext(s)

Holder ==
  \/ Leave \/ Stop \/ Stopped
  \/ StartRun \/ StopOwned \/ StartRefused \/ StartFails
  \/ StoreSession \/ RegisterAppServer \/ RegisterFails

ManagerNext ==
  \/ \E s \in Servers : Server(s)
  \/ \E r \in Runs : Enter(r)
  \/ Holder
  \/ Signal \/ StopAll \/ Gone \/ Crash \/ Restart

ManagerSpec == ManagerInit /\ [][ManagerNext]_managerVars

-----------------------------------------------------------------------------
(* Properties *)

\* The type invariant of the manager.
ManagerTypeOK ==
  /\ proc \in [Servers -> Proc]
  /\ runOf \in [Servers -> Runs \cup {Nothing}]
  /\ recorded \in [Runs -> Servers \cup {Nothing}]
  /\ daemon \in Daemon
  /\ sessions \in [Runs -> Servers \cup {Nothing}]
  /\ observer \in [Servers -> Observer]
  /\ hold \in [at : At, run : Runs \cup {Nothing}, server : Servers \cup {Nothing}]
  /\ hold.at = "free" <=> hold.run = Nothing
  /\ hold.at \in {"starting", "stored", "closing"} <=> hold.server # Nothing
  /\ cancelled \in BOOLEAN
  /\ own \cup closing \cup stopped \cup killed \subseteq Servers

\* A stop on purpose is never taken for a crash: of a session that Stop or
\* StopAll took out of the map no exit is reported, also when the run has
\* another session by then.  (A kill by the context may be: ShutdownBlocksNoRun.)
StopIsSilent ==
  \A s \in stopped : observer[s] \notin {"callback", "blocked"}

\* The exit of an earlier server never costs a run its present one: a session
\* leaves the map when its own process is dead, or when it is to be closed.
OnlyTheDeadLeave ==
  [][\A r \in Runs :
       sessions[r] # Nothing /\ sessions'[r] # sessions[r] =>
         proc[sessions[r]] = "dead" \/ sessions[r] \in stopped' \/ ~Alive]_managerVars

\* A daemon that ends in order leaves no server of its own, except one that
\* another goroutine was starting or closing, or stored after StopAll's sweep.
NoOrphanServer ==
  daemon = "gone" =>
    \A s \in own : Running(s) =>
      \/ sessions[runOf[s]] = s
      \/ hold.server = s /\ hold.at \in {"starting", "closing"}

\* "It must first establish that the prior managed app-server is no longer
\* running; uncertain process ownership blocks recovery" (docs/spec.md:97): a run
\* never has two processes, whenever daemons end, crash or stop half-way between
\* a server's start and its registration.
OneServerPerRun ==
  \A s, t \in Servers : Running(s) /\ Running(t) /\ runOf[s] = runOf[t] => s = t

\* "The daemon automatically recovers incomplete runs after restart"
\* (docs/spec.md:97): its own end does not block one.
ShutdownBlocksNoRun ==
  \A s \in killed : observer[s] # "blocked"

=============================================================================
