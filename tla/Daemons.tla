------------------------------ MODULE Daemons ------------------------------
(***************************************************************************)
(* The processes `free-context daemon serve` of one user, and what keeps   *)
(* them apart: the pid file, the lock on it, and the socket.  Commands     *)
(* that find no daemon spawn one (ensureDaemon), `daemon stop` sends       *)
(* SIGTERM to the process that the pid file names, a process may be        *)
(* killed at any time.                                                     *)
(*                                                                         *)
(* A lock is on a file, not on its path: files are named by the process    *)
(* that created them, and pidFile is the one the path stands for.  What a  *)
(* daemon does for its runs between start and shutdown is the subject of   *)
(* the other modules.                                                      *)
(***************************************************************************)
EXTENDS Naturals

CONSTANTS
  Processes,  \* daemon processes, each started once
  Nobody,     \* no process, no file
  MaxFaults   \* bound on crashes and failed system calls

ASSUME DaemonsAssumption == Nobody \notin Processes /\ MaxFaults \in Nat

VARIABLES
  pc,       \* where a process is: what it does next
  fd,       \* the pid file it has open
  term,     \* it was sent SIGTERM
  pidFile,  \* the file at the path of the pid file
  text,     \* the pid in a file
  socket,   \* the process whose socket is at the socket's path
  start,    \* the command that spawned a process: ensureDaemon
  stop,     \* a `daemon stop` in progress: what it has done
  victim,   \* the process it has read the pid of
  faults,
  split     \* history: a process has locked a pid file that is not at the path

files == <<fd, pidFile, text>>
clients == <<start, stop, victim>>
daemonsVars == <<pc, fd, term, pidFile, text, socket, start, stop, victim,
                 faults, split>>

\* Between lock and release; from the first to the last thing done under it.
AtWork ==
  {"truncating", "writing", "looking", "probing", "stale", "binding", "listening",
   "serving", "removing", "stopping", "forgetting"}
\* (mutants) The lock is given back before the pid file, or the socket, is removed.
UnlockingFirst == AtWork \ {"forgetting"}
UnlockingEarly == AtWork \ {"removing", "stopping", "forgetting"}
Holding == AtWork \cup {"unlocking"}
PC == AtWork \cup {"off", "opening", "locking", "unlocking", "gone"}

Process == Processes \cup {Nobody}
StopState == {"idle", "pinged", "read"}

Running(d) == pc[d] \notin {"off", "gone"}
Locked(file) == \E d \in Processes : pc[d] \in Holding /\ fd[d] = file

\* Somebody who connects to the socket reaches a daemon.
Reachable == \E d \in Processes : socket = d /\ pc[d] = "serving"

Goto(d, place) == pc' = [pc EXCEPT ![d] = place]

DaemonsInit ==
  /\ pc = [d \in Processes |-> "off"]
  /\ fd = [d \in Processes |-> Nobody] /\ term = [d \in Processes |-> FALSE]
  /\ pidFile = Nobody /\ text = [f \in Processes |-> Nobody] /\ socket = Nobody
  /\ start = [d \in Processes |-> "none"] /\ stop = "idle" /\ victim = Nobody
  /\ faults = 0 /\ split = FALSE

-----------------------------------------------------------------------------
(* The commands *)

\* A ping that failed, or took too long, spawns a daemon; the command then waits
\* until some daemon answers.
EnsureDaemon(d) ==
  /\ pc[d] = "off" /\ Goto(d, "opening")
  /\ start' = [start EXCEPT ![d] = "waiting"]
  /\ UNCHANGED <<files, term, socket, stop, victim, faults, split>>

Poll(d) ==
  /\ start[d] = "waiting" /\ Reachable
  /\ start' = [start EXCEPT ![d] = "ok"]
  /\ UNCHANGED <<pc, files, term, socket, stop, victim, faults, split>>

\* `daemon stop` goes from one thing to the next, or gives up with an error.
Stop(from, to) ==
  /\ stop = from /\ stop' = to
  /\ UNCHANGED <<pc, files, socket, start, faults, split>>

StopPings ==
  /\ Reachable /\ Stop("idle", "pinged")
  /\ UNCHANGED <<term, victim>>

\* No pid file, or one whose process has not written its pid yet, is an error.
StopReads ==
  /\ LET pid == IF pidFile = Nobody THEN Nobody ELSE text[pidFile] IN
     /\ Stop("pinged", IF pid = Nobody THEN "idle" ELSE "read")
     /\ victim' = pid
  /\ UNCHANGED term

\* The pid must still be that of a daemon process.  No pid is used again, so it makes
\* no difference when, between reading and killing, that is verified.
StopKills ==
  /\ Stop("read", "idle")
  /\ term' = [d \in Processes |-> term[d] \/ (victim = d /\ Running(d))]
  /\ victim' = Nobody

-----------------------------------------------------------------------------
(* A daemon's start: the pid file and its lock *)

OpenPidFile(d) ==
  /\ pc[d] = "opening" /\ Goto(d, "locking")
  /\ pidFile' = IF pidFile = Nobody THEN d ELSE pidFile
  /\ fd' = [fd EXCEPT ![d] = pidFile']
  /\ UNCHANGED <<term, text, socket, clients, faults, split>>

\* (mutant) LOCK_SH.
FlockShared(d) ==
  /\ pc[d] = "locking"
  /\ Goto(d, "truncating")
  /\ split' = (split \/ fd[d] # pidFile)
  /\ UNCHANGED <<files, term, socket, clients, faults>>

Flock(d) ==
  /\ pc[d] = "locking" /\ ~Locked(fd[d])
  /\ Goto(d, "truncating")
  /\ split' = (split \/ fd[d] # pidFile)
  /\ UNCHANGED <<files, term, socket, clients, faults>>

\* (mutant) The removal of the pid file is deferred before the lock is taken.
FlockFailsRemoving(d) ==
  /\ pc[d] = "locking" /\ Locked(fd[d])
  /\ Goto(d, "gone") /\ fd' = [fd EXCEPT ![d] = Nobody] /\ pidFile' = Nobody
  /\ UNCHANGED <<term, text, socket, clients, faults, split>>

FlockFails(d) ==
  /\ pc[d] = "locking" /\ Locked(fd[d])
  /\ Goto(d, "gone") /\ fd' = [fd EXCEPT ![d] = Nobody]
  /\ UNCHANGED <<term, pidFile, text, socket, clients, faults, split>>

Write(d, pid) ==
  /\ text' = [text EXCEPT ![fd[d]] = pid]
  /\ UNCHANGED <<fd, term, pidFile, socket, clients, faults, split>>

TruncatePidFile(d) == pc[d] = "truncating" /\ Goto(d, "writing") /\ Write(d, Nobody)
WritePidFile(d) == pc[d] = "writing" /\ Goto(d, "looking") /\ Write(d, d)

-----------------------------------------------------------------------------
(* The socket *)

\* The process goes on to a next place and may change what is at the path.
Socket(d, from, to, owner) ==
  /\ pc[d] = from /\ Goto(d, to) /\ socket' = owner
  /\ UNCHANGED <<files, term, clients, faults, split>>

\* A socket at the path may be stale: it is when nobody answers there.
LookAtSocket(d) ==
  Socket(d, "looking", IF socket = Nobody THEN "binding" ELSE "probing", socket)
\* (mutant) Any socket at the path is an error.
NoStaleSocket == "stopping"
AfterProbe == IF Reachable THEN "stopping" ELSE "stale"
Probe(d) == Socket(d, "probing", AfterProbe, socket)

\* What is removed is whatever is at the path by now; nothing there is an error.
RemoveStaleSocket(d) ==
  Socket(d, "stale", IF socket = Nobody THEN "stopping" ELSE "binding", Nobody)

\* net.Listen binds, and listens in a second step; until then a probe is refused.
Bind(d) ==
  IF socket = Nobody THEN Socket(d, "binding", "listening", d)
                     ELSE Socket(d, "binding", "stopping", socket)
Listen(d) == Socket(d, "listening", "serving", socket)

\* Closing the listener removes the path, and ServeReady removes it once more.
CloseListener(d) == term[d] /\ Socket(d, "serving", "removing", Nobody)
RemoveSocket(d) == Socket(d, "removing", "stopping", Nobody)

-----------------------------------------------------------------------------
(* A daemon's end: the deferred calls of serveDaemon, and faults *)

\* (mutant) The pid file stays.
StopAndUnlock(d) == Socket(d, "stopping", "unlocking", socket)
StopAll(d) == Socket(d, "stopping", "forgetting", socket)

RemovePidFile(d) ==
  /\ pc[d] = "forgetting" /\ Goto(d, "unlocking")
  /\ pidFile' = Nobody
  /\ UNCHANGED <<fd, term, text, socket, clients, faults, split>>

Unlock(d) ==
  /\ pc[d] = "unlocking" /\ Goto(d, "gone")
  /\ fd' = [fd EXCEPT ![d] = Nobody]
  /\ UNCHANGED <<term, pidFile, text, socket, clients, faults, split>>

Fault == faults < MaxFaults /\ faults' = faults + 1

\* Writing the pid file fails: the deferred removal is not yet in place.
PidFileFails(d) ==
  /\ pc[d] \in {"truncating", "writing"} /\ Goto(d, "unlocking") /\ Fault
  /\ UNCHANGED <<files, term, socket, clients, split>>

\* The listener cannot be secured or stops accepting.
ServeFails(d) ==
  /\ pc[d] = "serving" /\ Goto(d, "removing") /\ Fault
  /\ socket' = Nobody
  /\ UNCHANGED <<files, term, clients, split>>

\* The lock goes with the process; its files stay.
Crash(d) ==
  /\ Running(d) /\ Goto(d, "gone") /\ Fault
  /\ fd' = [fd EXCEPT ![d] = Nobody]
  /\ UNCHANGED <<term, pidFile, text, socket, clients, split>>

-----------------------------------------------------------------------------

Starts(d) ==
  \/ OpenPidFile(d) \/ Flock(d) \/ FlockFails(d) \/ TruncatePidFile(d) \/ WritePidFile(d)
  \/ LookAtSocket(d) \/ Probe(d) \/ RemoveStaleSocket(d) \/ Bind(d) \/ Listen(d)
Ends(d) ==
  CloseListener(d) \/ RemoveSocket(d) \/ StopAll(d) \/ RemovePidFile(d) \/ Unlock(d)

DaemonsNext ==
  \/ \E d \in Processes :
       \/ EnsureDaemon(d) \/ Poll(d) \/ Starts(d) \/ Ends(d)
       \/ PidFileFails(d) \/ ServeFails(d) \/ Crash(d)
  \/ StopPings \/ StopReads \/ StopKills

DaemonsSpec == DaemonsInit /\ [][DaemonsNext]_daemonsVars

\* Processes run, and a command that waits polls.
FairDaemonsSpec ==
  /\ DaemonsSpec
  /\ \A d \in Processes :
       WF_daemonsVars(Starts(d) \/ Ends(d)) /\ WF_daemonsVars(Poll(d))

-----------------------------------------------------------------------------
(* Properties *)

\* Types; a process has the pid file open from open to close, and a file is locked
\* by one process at most (serveDaemon, LOCK_EX).
DaemonsTypeOK ==
  /\ pc \in [Processes -> PC] /\ fd \in [Processes -> Process]
  /\ term \in [Processes -> BOOLEAN]
  /\ pidFile \in Process /\ text \in [Processes -> Process] /\ socket \in Process
  /\ start \in [Processes -> {"none", "waiting", "ok"}] /\ stop \in StopState
  /\ victim \in Process
  /\ faults \in 0..MaxFaults /\ split \in BOOLEAN
  /\ \A d \in Processes : fd[d] # Nobody <=> pc[d] \in Holding \cup {"locking"}
  /\ \A d, e \in Processes :
       d # e /\ pc[d] \in Holding /\ pc[e] \in Holding => fd[d] # fd[e]

\* Two daemons are at work at the same time only after one of them has locked a pid
\* file that its owner removed (the order of serveDaemon's deferred calls: the pid
\* file goes first, then the lock).
OneAtWork ==
  \A d, e \in Processes : d # e /\ pc[d] \in AtWork /\ pc[e] \in AtWork => split

\* A daemon that serves can be reached: nobody has removed or replaced its socket
\* (removeStaleSocket, and the two removals at the end of ServeReady).
ServingIsReachable ==
  \A d \in Processes : pc[d] = "serving" => socket = d \/ split

\* Whom `daemon stop` reaches is whom it stops: while a daemon serves, the pid file
\* is there and names it (daemonCommand, serveDaemon).
PidFileNamesServer ==
  \A d \in Processes : pc[d] = "serving" => (pidFile # Nobody /\ text[pidFile] = d) \/ split

\* Daemons that end without a fault leave neither socket nor pid file, whatever way
\* their start went and whoever else was starting.
NothingLeftBehind ==
  (\A d \in Processes : ~Running(d)) /\ faults = 0 => pidFile = Nobody /\ socket = Nobody

Ending(d) == pc[d] \in {"removing", "stopping", "forgetting", "unlocking"}

\* Whatever faults left behind, and however many start at once: a command that spawns
\* a daemon after the last fault, while none is on its way out, gets one, unless one
\* is stopped meanwhile (ensureDaemon, removeStaleSocket).
StartSucceedsFor(d) ==
  pc[d] = "opening" /\ faults = MaxFaults /\ ~split /\ (\A e \in Processes : ~Ending(e))
    ~> start[d] = "ok" \/ \E e \in Processes : Running(e) /\ term[e]

\* The processes are alike: what one of them may rely on they all may.
StartSucceeds == StartSucceedsFor(CHOOSE d \in Processes : TRUE)

=============================================================================
