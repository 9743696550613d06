---------------------------- MODULE DaemonsProofs ----------------------------
(***************************************************************************)
(* What the pid file, its lock and the socket keep apart, for any number   *)
(* of processes and faults.  Parts names what each invariant needs to be   *)
(* inductive; there is one lemma per part, with a step for every action    *)
(* that the part can be disturbed by.                                      *)
(***************************************************************************)
EXTENDS Daemons, TLAPS

\* While no removed file has been locked, whoever is at work has locked the one at
\* the path.
OnThePath == ~split => \A d \in Processes : pc[d] \in AtWork => fd[d] = pidFile

\* The socket of a daemon, from bind to close.
SocketIsOurs ==
  ~split => \A d \in Processes : pc[d] \in {"listening", "serving"} => socket = d

\* Once written, a pid stays in its file: only the holder of the lock writes.
PidIsOurs ==
  \A d \in Processes :
    pc[d] \in AtWork \ {"truncating", "writing"} => text[fd[d]] = d

\* A file is created when its process opens the path.
CreatedOnce ==
  \A f \in Processes :
    pc[f] \in {"off", "opening"} => pidFile # f /\ \A d \in Processes : fd[d] # f

\* Without faults somebody is there to remove the pid file, and who has removed it
\* has not locked the one at the path.
PidFileHasUser ==
  faults = 0 =>
    /\ pidFile # Nobody =>
         \E d \in Processes : pc[d] \in AtWork \cup {"locking"} /\ fd[d] = pidFile
    /\ \A d \in Processes : pc[d] = "unlocking" => fd[d] # pidFile

\* Without faults the socket at the path is one that is listened on, or will be.
SocketHasOwner ==
  faults = 0 /\ socket # Nobody => pc[socket] \in {"listening", "serving"}

DaemonsInv ==
  /\ DaemonsTypeOK /\ OnThePath /\ SocketIsOurs /\ PidIsOurs
  /\ CreatedOnce /\ PidFileHasUser /\ SocketHasOwner

-----------------------------------------------------------------------------

\* Only one process has locked the file at the path.
LEMMA OneOnThePath ==
  ASSUME DaemonsTypeOK, OnThePath, ~split, NEW d \in Processes, NEW e \in Processes,
         pc[d] \in AtWork, pc[e] \in AtWork
  PROVE  d = e
BY DEF DaemonsTypeOK, OnThePath, Holding

LEMMA InitInv == DaemonsInit => DaemonsInv
<1> SUFFICES ASSUME DaemonsInit PROVE DaemonsInv
  OBVIOUS
<1> USE DaemonsAssumption DEF DaemonsInit, Process
<1>1. DaemonsTypeOK
  <2>1. 0 \in 0..MaxFaults
    OBVIOUS
  <2>2. pc \in [Processes -> PC] /\ fd \in [Processes -> Process] /\ text \in [Processes -> Process]
    BY DEF PC
  <2>3. term \in [Processes -> BOOLEAN] /\ start \in [Processes -> {"none", "waiting", "ok"}]
    OBVIOUS
  <2>4. \A d \in Processes :
          fd[d] = Nobody /\ pc[d] \notin Holding \cup {"locking"}
    BY DEF Holding, AtWork
  <2>5. \A d \in Processes : fd[d] # Nobody <=> pc[d] \in Holding \cup {"locking"}
    BY <2>4
  <2>6. \A d, e \in Processes :
          d # e /\ pc[d] \in Holding /\ pc[e] \in Holding => fd[d] # fd[e]
    BY <2>4
  <2>7. faults \in 0..MaxFaults /\ split \in BOOLEAN
    BY <2>1
  <2>8. pidFile \in Process /\ socket \in Process /\ stop \in StopState /\ victim \in Process
    BY DEF StopState
  <2>q. QED
    BY <2>2, <2>3, <2>5, <2>6, <2>7, <2>8 DEF DaemonsTypeOK
<1>2. OnThePath /\ SocketIsOurs /\ PidIsOurs
  BY DEF OnThePath, SocketIsOurs, PidIsOurs, AtWork
<1>3. CreatedOnce /\ PidFileHasUser /\ SocketHasOwner
  BY DEF CreatedOnce, PidFileHasUser, SocketHasOwner
<1>q. QED
  BY <1>1, <1>2, <1>3 DEF DaemonsInv

\* The steps of a process that touch nothing but the path of the socket.
SocketStep(d) ==
  \/ LookAtSocket(d) \/ Probe(d) \/ RemoveStaleSocket(d) \/ Bind(d) \/ Listen(d)
  \/ CloseListener(d) \/ RemoveSocket(d) \/ StopAll(d)

\* Where they lead, and what they make of the path.
Way ==
  {<<"looking", "binding">>, <<"looking", "probing">>, <<"probing", "stopping">>,
   <<"probing", "stale">>, <<"stale", "stopping">>, <<"stale", "binding">>,
   <<"binding", "listening">>, <<"binding", "stopping">>, <<"listening", "serving">>,
   <<"serving", "removing">>, <<"removing", "stopping">>, <<"stopping", "forgetting">>}

Passes(d, way, owner) ==
  /\ Socket(d, way[1], way[2], owner)
  /\ owner = socket \/ owner = Nobody \/ (owner = d /\ way[2] = "listening")
  /\ way[2] = "listening" => owner = d
  /\ way[2] = "serving" => owner = socket
  /\ way[1] = "serving" => owner = Nobody

LEMMA SocketSteps ==
  ASSUME DaemonsTypeOK, NEW d \in Processes, SocketStep(d)
  PROVE  \E way \in Way, owner \in Process : Passes(d, way, owner)
<1> USE DEF Process, Way, Passes
<1>0. socket \in Process
  BY DEF DaemonsTypeOK
<1>1. CASE LookAtSocket(d)
  BY <1>0, <1>1 DEF LookAtSocket
<1>2. CASE Probe(d)
  BY <1>0, <1>2 DEF Probe, AfterProbe
<1>3. CASE RemoveStaleSocket(d)
  BY <1>0, <1>3 DEF RemoveStaleSocket
<1>4. CASE Bind(d)
  BY <1>0, <1>4 DEF Bind
<1>5. CASE Listen(d)
  BY <1>0, <1>5 DEF Listen
<1>6. CASE CloseListener(d)
  BY <1>0, <1>6 DEF CloseListener
<1>7. CASE RemoveSocket(d)
  BY <1>0, <1>7 DEF RemoveSocket
<1>8. CASE StopAll(d)
  BY <1>0, <1>8 DEF StopAll
<1>q. QED
  BY <1>1, <1>2, <1>3, <1>4, <1>5, <1>6, <1>7, <1>8 DEF SocketStep

\* The types, and one holder of a lock at most.
LEMMA TypeStep == DaemonsTypeOK /\ [DaemonsNext]_daemonsVars => DaemonsTypeOK'
<1> SUFFICES ASSUME DaemonsTypeOK, [DaemonsNext]_daemonsVars PROVE DaemonsTypeOK'
  OBVIOUS
<1> USE DaemonsAssumption DEF files, clients, Goto
<1>1. ASSUME NEW d \in Processes, EnsureDaemon(d) PROVE DaemonsTypeOK'
  BY <1>1 DEF EnsureDaemon, DaemonsTypeOK, PC, Holding, AtWork
<1>2. ASSUME NEW d \in Processes, Poll(d) PROVE DaemonsTypeOK'
  BY <1>2 DEF Poll, DaemonsTypeOK
<1>3. ASSUME NEW d \in Processes, OpenPidFile(d) PROVE DaemonsTypeOK'
  BY <1>3 DEF OpenPidFile, DaemonsTypeOK, PC, Holding, AtWork, Process
<1>4. ASSUME NEW d \in Processes, Flock(d) PROVE DaemonsTypeOK'
  BY <1>4 DEF Flock, Locked, DaemonsTypeOK, PC, Holding, AtWork
<1>5. ASSUME NEW d \in Processes, FlockFails(d) PROVE DaemonsTypeOK'
  BY <1>5 DEF FlockFails, DaemonsTypeOK, PC, Holding, AtWork, Process
<1>6. ASSUME NEW d \in Processes, TruncatePidFile(d) PROVE DaemonsTypeOK'
  BY <1>6 DEF TruncatePidFile, Write, DaemonsTypeOK, PC, Holding, AtWork, Process
<1>7. ASSUME NEW d \in Processes, WritePidFile(d) PROVE DaemonsTypeOK'
  BY <1>7 DEF WritePidFile, Write, DaemonsTypeOK, PC, Holding, AtWork, Process
<1>8. ASSUME NEW d \in Processes, SocketStep(d) PROVE DaemonsTypeOK'
  <2>1. PICK way \in Way, owner \in Process : Passes(d, way, owner)
    BY <1>8, SocketSteps
  <2>2. way[1] \in AtWork /\ way[2] \in AtWork
    BY DEF Way, AtWork
  <2>q. QED
    BY <2>1, <2>2 DEF Passes, Socket, DaemonsTypeOK, PC, Holding
<1>9. ASSUME NEW d \in Processes, RemovePidFile(d) PROVE DaemonsTypeOK'
  BY <1>9 DEF RemovePidFile, DaemonsTypeOK, PC, Holding, AtWork, Process
<1>10. ASSUME NEW d \in Processes, Unlock(d) PROVE DaemonsTypeOK'
  BY <1>10 DEF Unlock, DaemonsTypeOK, PC, Holding, AtWork, Process
<1>11. ASSUME NEW d \in Processes, PidFileFails(d) PROVE DaemonsTypeOK'
  BY <1>11 DEF PidFileFails, Fault, DaemonsTypeOK, PC, Holding, AtWork
<1>12. ASSUME NEW d \in Processes, ServeFails(d) PROVE DaemonsTypeOK'
  BY <1>12 DEF ServeFails, Fault, DaemonsTypeOK, PC, Holding, AtWork, Process
<1>13. ASSUME NEW d \in Processes, Crash(d) PROVE DaemonsTypeOK'
  BY <1>13 DEF Crash, Fault, DaemonsTypeOK, PC, Holding, AtWork, Process
<1>14. ASSUME StopPings \/ StopReads PROVE DaemonsTypeOK'
  BY <1>14 DEF StopPings, StopReads, Stop, StopState, DaemonsTypeOK, Process
<1>15. ASSUME StopKills PROVE DaemonsTypeOK'
  <2>1. term' \in [Processes -> BOOLEAN]
    <3>1. \A d \in Processes : (term[d] \/ (victim = d /\ Running(d))) \in BOOLEAN
      OBVIOUS
    <3>q. QED
      BY <1>15, <3>1, Zenon DEF StopKills
  <2>q. QED
    BY <1>15, <2>1 DEF StopKills, Stop, StopState, DaemonsTypeOK, Process
<1>16. ASSUME UNCHANGED daemonsVars PROVE DaemonsTypeOK'
  BY <1>16 DEF daemonsVars, DaemonsTypeOK
<1>q. QED
  BY <1>1, <1>2, <1>3, <1>4, <1>5, <1>6, <1>7, <1>8, <1>9, <1>10, <1>11, <1>12, <1>13,
     <1>14, <1>15, <1>16
  DEF DaemonsNext, Starts, Ends, SocketStep

\* While no removed file has been locked, whoever is at work goes on with the one at
\* the path: it is removed by the only one at work.
LEMMA PathStep == DaemonsInv /\ [DaemonsNext]_daemonsVars => OnThePath'
<1> SUFFICES ASSUME DaemonsInv, [DaemonsNext]_daemonsVars PROVE OnThePath'
  OBVIOUS
<1> USE DaemonsAssumption DEF DaemonsInv, files, clients, Goto, OnThePath
<1>1. ASSUME NEW d \in Processes, EnsureDaemon(d) PROVE OnThePath'
  BY <1>1 DEF EnsureDaemon, DaemonsTypeOK, AtWork
<1>2. ASSUME NEW d \in Processes, Poll(d) PROVE OnThePath'
  BY <1>2 DEF Poll, DaemonsTypeOK, AtWork
<1>3. ASSUME NEW d \in Processes, OpenPidFile(d) PROVE OnThePath'
  BY <1>3 DEF OpenPidFile, DaemonsTypeOK, AtWork, Holding
<1>4. ASSUME NEW d \in Processes, Flock(d) PROVE OnThePath'
  BY <1>4 DEF Flock, Locked, DaemonsTypeOK, AtWork
<1>5. ASSUME NEW d \in Processes, FlockFails(d) PROVE OnThePath'
  BY <1>5 DEF FlockFails, Locked, DaemonsTypeOK, AtWork
<1>6. ASSUME NEW d \in Processes, TruncatePidFile(d) PROVE OnThePath'
  BY <1>6 DEF TruncatePidFile, Write, DaemonsTypeOK, AtWork
<1>7. ASSUME NEW d \in Processes, WritePidFile(d) PROVE OnThePath'
  BY <1>7 DEF WritePidFile, Write, DaemonsTypeOK, AtWork
<1>8. ASSUME NEW d \in Processes, SocketStep(d) PROVE OnThePath'
  <2>1. PICK way \in Way, owner \in Process : Passes(d, way, owner)
    BY <1>8, SocketSteps
  <2>q. QED
    BY <2>1 DEF Passes, Socket, Way, AtWork
<1>9. ASSUME NEW d \in Processes, RemovePidFile(d) PROVE OnThePath'
  <2>1. ~split => \A e \in Processes : pc[e] \in AtWork => e = d
    BY <1>9, OneOnThePath DEF RemovePidFile, AtWork
  <2>q. QED
    BY <1>9, <2>1 DEF RemovePidFile, DaemonsTypeOK, AtWork
<1>10. ASSUME NEW d \in Processes, Unlock(d) PROVE OnThePath'
  BY <1>10 DEF Unlock, DaemonsTypeOK, AtWork
<1>11. ASSUME NEW d \in Processes, PidFileFails(d) PROVE OnThePath'
  BY <1>11 DEF PidFileFails, Fault, DaemonsTypeOK, AtWork
<1>12. ASSUME NEW d \in Processes, ServeFails(d) PROVE OnThePath'
  BY <1>12 DEF ServeFails, Fault, DaemonsTypeOK, AtWork
<1>13. ASSUME NEW d \in Processes, Crash(d) PROVE OnThePath'
  BY <1>13 DEF Crash, Fault, DaemonsTypeOK, AtWork
<1>14. ASSUME StopPings \/ StopReads \/ StopKills \/ UNCHANGED daemonsVars PROVE OnThePath'
  BY <1>14 DEF StopPings, StopReads, StopKills, Stop, daemonsVars
<1>q. QED
  BY <1>1, <1>2, <1>3, <1>4, <1>5, <1>6, <1>7, <1>8, <1>9, <1>10, <1>11, <1>12, <1>13,
     <1>14
  DEF DaemonsNext, Starts, Ends, SocketStep

\* The socket of a daemon is touched by nobody else: whoever touches it is at work.
LEMMA SocketStays == DaemonsInv /\ [DaemonsNext]_daemonsVars => SocketIsOurs'
<1> SUFFICES ASSUME DaemonsInv, [DaemonsNext]_daemonsVars PROVE SocketIsOurs'
  OBVIOUS
<1> USE DaemonsAssumption DEF DaemonsInv, files, clients, Goto, SocketIsOurs
<1>1. ASSUME NEW d \in Processes, EnsureDaemon(d) PROVE SocketIsOurs'
  BY <1>1 DEF EnsureDaemon, DaemonsTypeOK
<1>2. ASSUME NEW d \in Processes, Poll(d) PROVE SocketIsOurs'
  BY <1>2 DEF Poll, DaemonsTypeOK
<1>3. ASSUME NEW d \in Processes, OpenPidFile(d) PROVE SocketIsOurs'
  BY <1>3 DEF OpenPidFile, DaemonsTypeOK
<1>4. ASSUME NEW d \in Processes, Flock(d) PROVE SocketIsOurs'
  BY <1>4 DEF Flock, Locked, DaemonsTypeOK
<1>5. ASSUME NEW d \in Processes, FlockFails(d) PROVE SocketIsOurs'
  BY <1>5 DEF FlockFails, Locked, DaemonsTypeOK
<1>6. ASSUME NEW d \in Processes, TruncatePidFile(d) PROVE SocketIsOurs'
  BY <1>6 DEF TruncatePidFile, Write, DaemonsTypeOK
<1>7. ASSUME NEW d \in Processes, WritePidFile(d) PROVE SocketIsOurs'
  BY <1>7 DEF WritePidFile, Write, DaemonsTypeOK
<1>8. ASSUME NEW d \in Processes, SocketStep(d) PROVE SocketIsOurs'
  <2>1. PICK way \in Way, owner \in Process : Passes(d, way, owner)
    BY <1>8, SocketSteps
  <2>2. way[1] \in AtWork /\ (way[2] = "serving" => way[1] = "listening")
    BY DEF Way, AtWork
  <2>3. ~split => \A e \in Processes : pc[e] \in AtWork => e = d
    BY <2>1, <2>2, OneOnThePath DEF Passes, Socket
  <2>q. QED
    BY <2>1, <2>2, <2>3 DEF Passes, Socket, DaemonsTypeOK, AtWork
<1>9. ASSUME NEW d \in Processes, RemovePidFile(d) PROVE SocketIsOurs'
  BY <1>9 DEF RemovePidFile, DaemonsTypeOK
<1>10. ASSUME NEW d \in Processes, Unlock(d) PROVE SocketIsOurs'
  BY <1>10 DEF Unlock, DaemonsTypeOK
<1>11. ASSUME NEW d \in Processes, PidFileFails(d) PROVE SocketIsOurs'
  BY <1>11 DEF PidFileFails, Fault, DaemonsTypeOK
<1>12. ASSUME NEW d \in Processes, ServeFails(d) PROVE SocketIsOurs'
  <2>1. ~split => \A e \in Processes : pc[e] \in AtWork => e = d
    BY <1>12, OneOnThePath DEF ServeFails, AtWork
  <2>q. QED
    BY <1>12, <2>1 DEF ServeFails, DaemonsTypeOK, AtWork
<1>13. ASSUME NEW d \in Processes, Crash(d) PROVE SocketIsOurs'
  BY <1>13 DEF Crash, Fault, DaemonsTypeOK
<1>14. ASSUME StopPings \/ StopReads \/ StopKills \/ UNCHANGED daemonsVars PROVE SocketIsOurs'
  BY <1>14 DEF StopPings, StopReads, StopKills, Stop, daemonsVars
<1>q. QED
  BY <1>1, <1>2, <1>3, <1>4, <1>5, <1>6, <1>7, <1>8, <1>9, <1>10, <1>11, <1>12, <1>13,
     <1>14
  DEF DaemonsNext, Starts, Ends, SocketStep

\* A pid is overwritten by the holder of the lock only.
LEMMA PidStays == DaemonsInv /\ [DaemonsNext]_daemonsVars => PidIsOurs'
<1> SUFFICES ASSUME DaemonsInv, [DaemonsNext]_daemonsVars PROVE PidIsOurs'
  OBVIOUS
<1> USE DaemonsAssumption DEF DaemonsInv, files, clients, Goto, PidIsOurs
<1>1. ASSUME NEW d \in Processes, EnsureDaemon(d) PROVE PidIsOurs'
  BY <1>1 DEF EnsureDaemon, DaemonsTypeOK, AtWork, Holding
<1>2. ASSUME NEW d \in Processes, Poll(d) PROVE PidIsOurs'
  BY <1>2 DEF Poll, DaemonsTypeOK, AtWork, Holding
<1>3. ASSUME NEW d \in Processes, OpenPidFile(d) PROVE PidIsOurs'
  BY <1>3 DEF OpenPidFile, DaemonsTypeOK, AtWork, Holding
<1>4. ASSUME NEW d \in Processes, Flock(d) PROVE PidIsOurs'
  BY <1>4 DEF Flock, Locked, DaemonsTypeOK, AtWork, Holding
<1>5. ASSUME NEW d \in Processes, FlockFails(d) PROVE PidIsOurs'
  BY <1>5 DEF FlockFails, Locked, DaemonsTypeOK, AtWork, Holding
<1>6. ASSUME NEW d \in Processes, TruncatePidFile(d) PROVE PidIsOurs'
  BY <1>6 DEF TruncatePidFile, Write, DaemonsTypeOK, AtWork, Holding
<1>7. ASSUME NEW d \in Processes, WritePidFile(d) PROVE PidIsOurs'
  <2>1. pc[d] \in Holding /\ fd[d] \in Processes
    BY <1>7 DEF WritePidFile, DaemonsTypeOK, Holding, AtWork, Process
  <2>2. text'[fd[d]] = d /\ \A f \in Processes : f # fd[d] => text'[f] = text[f]
    BY <1>7, <2>1 DEF WritePidFile, Write, DaemonsTypeOK
  <2>3. \A e \in Processes : e # d /\ pc[e] \in AtWork => fd[e] \in Processes /\ fd[e] # fd[d]
    BY <2>1 DEF DaemonsTypeOK, Holding, Process
  <2>4. fd' = fd /\ \A e \in Processes : e # d => pc'[e] = pc[e]
    BY <1>7 DEF WritePidFile, Write, DaemonsTypeOK
  <2>q. QED
    BY <2>2, <2>3, <2>4
<1>8. ASSUME NEW d \in Processes, SocketStep(d) PROVE PidIsOurs'
  <2>1. PICK way \in Way, owner \in Process : Passes(d, way, owner)
    BY <1>8, SocketSteps
  <2>q. QED
    BY <2>1 DEF Passes, Socket, Way, AtWork
<1>9. ASSUME NEW d \in Processes, RemovePidFile(d) PROVE PidIsOurs'
  BY <1>9 DEF RemovePidFile, DaemonsTypeOK, AtWork, Holding
<1>10. ASSUME NEW d \in Processes, Unlock(d) PROVE PidIsOurs'
  BY <1>10 DEF Unlock, DaemonsTypeOK, AtWork, Holding
<1>11. ASSUME NEW d \in Processes, PidFileFails(d) PROVE PidIsOurs'
  BY <1>11 DEF PidFileFails, Fault, DaemonsTypeOK, AtWork, Holding
<1>12. ASSUME NEW d \in Processes, ServeFails(d) PROVE PidIsOurs'
  BY <1>12 DEF ServeFails, Fault, DaemonsTypeOK, AtWork, Holding
<1>13. ASSUME NEW d \in Processes, Crash(d) PROVE PidIsOurs'
  BY <1>13 DEF Crash, Fault, DaemonsTypeOK, AtWork, Holding
<1>14. ASSUME StopPings \/ StopReads \/ StopKills \/ UNCHANGED daemonsVars PROVE PidIsOurs'
  BY <1>14 DEF StopPings, StopReads, StopKills, Stop, daemonsVars
<1>q. QED
  BY <1>1, <1>2, <1>3, <1>4, <1>5, <1>6, <1>7, <1>8, <1>9, <1>10, <1>11, <1>12, <1>13,
     <1>14
  DEF DaemonsNext, Starts, Ends, SocketStep

\* A file is created by the process it is named after, when it opens the path.
LEMMA CreatedStays == DaemonsInv /\ [DaemonsNext]_daemonsVars => CreatedOnce'
<1> SUFFICES ASSUME DaemonsInv, [DaemonsNext]_daemonsVars PROVE CreatedOnce'
  OBVIOUS
<1> USE DaemonsAssumption DEF DaemonsInv, files, clients, Goto, CreatedOnce
<1>1. ASSUME NEW d \in Processes, EnsureDaemon(d) PROVE CreatedOnce'
  BY <1>1 DEF EnsureDaemon, DaemonsTypeOK, Process
<1>2. ASSUME NEW d \in Processes, Poll(d) PROVE CreatedOnce'
  BY <1>2 DEF Poll, DaemonsTypeOK, Process
<1>3. ASSUME NEW d \in Processes, OpenPidFile(d) PROVE CreatedOnce'
  BY <1>3 DEF OpenPidFile, DaemonsTypeOK, Process
<1>4. ASSUME NEW d \in Processes, Flock(d) PROVE CreatedOnce'
  BY <1>4 DEF Flock, Locked, DaemonsTypeOK, Process
<1>5. ASSUME NEW d \in Processes, FlockFails(d) PROVE CreatedOnce'
  BY <1>5 DEF FlockFails, Locked, DaemonsTypeOK, Process
<1>6. ASSUME NEW d \in Processes, TruncatePidFile(d) PROVE CreatedOnce'
  BY <1>6 DEF TruncatePidFile, Write, DaemonsTypeOK, Process
<1>7. ASSUME NEW d \in Processes, WritePidFile(d) PROVE CreatedOnce'
  BY <1>7 DEF WritePidFile, Write, DaemonsTypeOK, Process
<1>8. ASSUME NEW d \in Processes, SocketStep(d) PROVE CreatedOnce'
  <2>1. PICK way \in Way, owner \in Process : Passes(d, way, owner)
    BY <1>8, SocketSteps
  <2>q. QED
    BY <2>1 DEF Passes, Socket, Way, AtWork
<1>9. ASSUME NEW d \in Processes, RemovePidFile(d) PROVE CreatedOnce'
  BY <1>9 DEF RemovePidFile, DaemonsTypeOK, Process
<1>10. ASSUME NEW d \in Processes, Unlock(d) PROVE CreatedOnce'
  BY <1>10 DEF Unlock, DaemonsTypeOK, Process
<1>11. ASSUME NEW d \in Processes, PidFileFails(d) PROVE CreatedOnce'
  BY <1>11 DEF PidFileFails, Fault, DaemonsTypeOK, Process
<1>12. ASSUME NEW d \in Processes, ServeFails(d) PROVE CreatedOnce'
  BY <1>12 DEF ServeFails, Fault, DaemonsTypeOK, Process
<1>13. ASSUME NEW d \in Processes, Crash(d) PROVE CreatedOnce'
  BY <1>13 DEF Crash, Fault, DaemonsTypeOK, Process
<1>14. ASSUME StopPings \/ StopReads \/ StopKills \/ UNCHANGED daemonsVars PROVE CreatedOnce'
  BY <1>14 DEF StopPings, StopReads, StopKills, Stop, daemonsVars
<1>q. QED
  BY <1>1, <1>2, <1>3, <1>4, <1>5, <1>6, <1>7, <1>8, <1>9, <1>10, <1>11, <1>12, <1>13,
     <1>14
  DEF DaemonsNext, Starts, Ends, SocketStep

\* Without faults the pid file at the path keeps a user: one that fails to lock it
\* leaves it to the holder.
LEMMA UserStays == DaemonsInv /\ [DaemonsNext]_daemonsVars => PidFileHasUser'
<1> SUFFICES ASSUME DaemonsInv, [DaemonsNext]_daemonsVars PROVE PidFileHasUser'
  OBVIOUS
<1> USE DaemonsAssumption DEF DaemonsInv, files, clients, Goto, PidFileHasUser
<1>1. ASSUME NEW d \in Processes, EnsureDaemon(d) PROVE PidFileHasUser'
  BY <1>1 DEF EnsureDaemon, DaemonsTypeOK, AtWork, Holding
<1>2. ASSUME NEW d \in Processes, Poll(d) PROVE PidFileHasUser'
  BY <1>2 DEF Poll, DaemonsTypeOK, AtWork, Holding
<1>3. ASSUME NEW d \in Processes, OpenPidFile(d) PROVE PidFileHasUser'
  <2>1. pc'[d] = "locking" /\ fd'[d] = pidFile' /\ (pidFile' = d \/ pidFile' = pidFile)
    BY <1>3 DEF OpenPidFile, DaemonsTypeOK
  <2>2. \A e \in Processes : pc'[e] = "unlocking" => pc[e] = "unlocking" /\ fd'[e] = fd[e]
    BY <1>3 DEF OpenPidFile, DaemonsTypeOK
  <2>3. \A e \in Processes : fd[e] # d
    BY <1>3 DEF OpenPidFile, CreatedOnce
  <2>q. QED
    BY <1>3, <2>1, <2>2, <2>3 DEF OpenPidFile
<1>4. ASSUME NEW d \in Processes, Flock(d) PROVE PidFileHasUser'
  BY <1>4 DEF Flock, Locked, DaemonsTypeOK, AtWork, Holding
<1>5. ASSUME NEW d \in Processes, FlockFails(d) PROVE PidFileHasUser'
  BY <1>5 DEF FlockFails, Locked, DaemonsTypeOK, AtWork, Holding
<1>6. ASSUME NEW d \in Processes, TruncatePidFile(d) PROVE PidFileHasUser'
  BY <1>6 DEF TruncatePidFile, Write, DaemonsTypeOK, AtWork, Holding
<1>7. ASSUME NEW d \in Processes, WritePidFile(d) PROVE PidFileHasUser'
  BY <1>7 DEF WritePidFile, Write, DaemonsTypeOK, AtWork, Holding
<1>8. ASSUME NEW d \in Processes, SocketStep(d) PROVE PidFileHasUser'
  <2>1. PICK way \in Way, owner \in Process : Passes(d, way, owner)
    BY <1>8, SocketSteps
  <2>q. QED
    BY <2>1 DEF Passes, Socket, Way, AtWork
<1>9. ASSUME NEW d \in Processes, RemovePidFile(d) PROVE PidFileHasUser'
  BY <1>9 DEF RemovePidFile, DaemonsTypeOK, AtWork, Holding
<1>10. ASSUME NEW d \in Processes, Unlock(d) PROVE PidFileHasUser'
  BY <1>10 DEF Unlock, DaemonsTypeOK, AtWork, Holding
<1>11. ASSUME NEW d \in Processes, PidFileFails(d) PROVE PidFileHasUser'
  BY <1>11 DEF PidFileFails, Fault, DaemonsTypeOK, AtWork, Holding
<1>12. ASSUME NEW d \in Processes, ServeFails(d) PROVE PidFileHasUser'
  BY <1>12 DEF ServeFails, Fault, DaemonsTypeOK, AtWork, Holding
<1>13. ASSUME NEW d \in Processes, Crash(d) PROVE PidFileHasUser'
  BY <1>13 DEF Crash, Fault, DaemonsTypeOK, AtWork, Holding
<1>14. ASSUME StopPings \/ StopReads \/ StopKills \/ UNCHANGED daemonsVars PROVE PidFileHasUser'
  BY <1>14 DEF StopPings, StopReads, StopKills, Stop, daemonsVars
<1>q. QED
  BY <1>1, <1>2, <1>3, <1>4, <1>5, <1>6, <1>7, <1>8, <1>9, <1>10, <1>11, <1>12, <1>13,
     <1>14
  DEF DaemonsNext, Starts, Ends, SocketStep

\* Without faults a socket goes from the path when its daemon closes it.
LEMMA OwnerStays == DaemonsInv /\ [DaemonsNext]_daemonsVars => SocketHasOwner'
<1> SUFFICES ASSUME DaemonsInv, [DaemonsNext]_daemonsVars PROVE SocketHasOwner'
  OBVIOUS
<1> USE DaemonsAssumption DEF DaemonsInv, files, clients, Goto, SocketHasOwner
<1>1. ASSUME NEW d \in Processes, EnsureDaemon(d) PROVE SocketHasOwner'
  BY <1>1 DEF EnsureDaemon, DaemonsTypeOK, Process
<1>2. ASSUME NEW d \in Processes, Poll(d) PROVE SocketHasOwner'
  BY <1>2 DEF Poll, DaemonsTypeOK, Process
<1>3. ASSUME NEW d \in Processes, OpenPidFile(d) PROVE SocketHasOwner'
  BY <1>3 DEF OpenPidFile, DaemonsTypeOK, Process
<1>4. ASSUME NEW d \in Processes, Flock(d) PROVE SocketHasOwner'
  BY <1>4 DEF Flock, Locked, DaemonsTypeOK, Process
<1>5. ASSUME NEW d \in Processes, FlockFails(d) PROVE SocketHasOwner'
  BY <1>5 DEF FlockFails, Locked, DaemonsTypeOK, Process
<1>6. ASSUME NEW d \in Processes, TruncatePidFile(d) PROVE SocketHasOwner'
  BY <1>6 DEF TruncatePidFile, Write, DaemonsTypeOK, Process
<1>7. ASSUME NEW d \in Processes, WritePidFile(d) PROVE SocketHasOwner'
  BY <1>7 DEF WritePidFile, Write, DaemonsTypeOK, Process
<1>8. ASSUME NEW d \in Processes, SocketStep(d) PROVE SocketHasOwner'
  <2>1. PICK way \in Way, owner \in Process : Passes(d, way, owner)
    BY <1>8, SocketSteps
  <2>2. way[1] = "listening" => way[2] = "serving"
    BY DEF Way
  <2>3. pc[d] = way[1] /\ pc'[d] = way[2] /\ socket' = owner /\ faults' = faults
    BY <2>1 DEF Passes, Socket, DaemonsTypeOK
  <2>4. \A e \in Processes : e # d => pc'[e] = pc[e]
    BY <2>1 DEF Passes, Socket, DaemonsTypeOK
  <2>q. QED
    BY <2>1, <2>2, <2>3, <2>4 DEF Passes, Process
<1>9. ASSUME NEW d \in Processes, RemovePidFile(d) PROVE SocketHasOwner'
  BY <1>9 DEF RemovePidFile, DaemonsTypeOK, Process
<1>10. ASSUME NEW d \in Processes, Unlock(d) PROVE SocketHasOwner'
  BY <1>10 DEF Unlock, DaemonsTypeOK, Process
<1>11. ASSUME NEW d \in Processes, PidFileFails(d) PROVE SocketHasOwner'
  BY <1>11 DEF PidFileFails, Fault, DaemonsTypeOK, Process
<1>12. ASSUME NEW d \in Processes, ServeFails(d) PROVE SocketHasOwner'
  BY <1>12 DEF ServeFails, Fault, DaemonsTypeOK, Process
<1>13. ASSUME NEW d \in Processes, Crash(d) PROVE SocketHasOwner'
  BY <1>13 DEF Crash, Fault, DaemonsTypeOK, Process
<1>14. ASSUME StopPings \/ StopReads \/ StopKills \/ UNCHANGED daemonsVars PROVE SocketHasOwner'
  BY <1>14 DEF StopPings, StopReads, StopKills, Stop, daemonsVars
<1>q. QED
  BY <1>1, <1>2, <1>3, <1>4, <1>5, <1>6, <1>7, <1>8, <1>9, <1>10, <1>11, <1>12, <1>13,
     <1>14
  DEF DaemonsNext, Starts, Ends, SocketStep

-----------------------------------------------------------------------------

LEMMA StepInv == DaemonsInv /\ [DaemonsNext]_daemonsVars => DaemonsInv'
BY TypeStep, PathStep, SocketStays, PidStays, CreatedStays, UserStays, OwnerStays
DEF DaemonsInv

\* The inductive invariant: who has locked the file at the path, whose socket is there
\* and whose pid is in the file, whatever starts, ends, fails or is stopped meanwhile.
THEOREM DaemonsInvariance == DaemonsSpec => []DaemonsInv
<1>1. DaemonsInit => DaemonsInv
  BY InitInv
<1>2. DaemonsInv /\ [DaemonsNext]_daemonsVars => DaemonsInv'
  BY StepInv
<1>q. QED
  BY <1>1, <1>2, PTL DEF DaemonsSpec

\* The types; a file is locked by one process at most (the lock of serveDaemon).
THEOREM DaemonsTypeCorrect == DaemonsSpec => []DaemonsTypeOK
<1>1. DaemonsInv => DaemonsTypeOK
  BY DEF DaemonsInv
<1>q. QED
  BY <1>1, DaemonsInvariance, PTL

\* As long as no removed pid file is locked, one daemon is at work.
THEOREM OneDaemonAtWork == DaemonsSpec => []OneAtWork
<1>1. DaemonsInv => OneAtWork
  BY OneOnThePath DEF DaemonsInv, OneAtWork
<1>q. QED
  BY <1>1, DaemonsInvariance, PTL

\* As long as no removed pid file is locked, a daemon that serves keeps its socket.
THEOREM ServersAreReachable == DaemonsSpec => []ServingIsReachable
<1>1. DaemonsInv => ServingIsReachable
  BY DEF DaemonsInv, SocketIsOurs, ServingIsReachable
<1>q. QED
  BY <1>1, DaemonsInvariance, PTL

\* As long as no removed pid file is locked, `daemon stop` finds the daemon that serves.
THEOREM PidFilesNameServers == DaemonsSpec => []PidFileNamesServer
<1>1. ASSUME DaemonsInv PROVE PidFileNamesServer
  <2>1. SUFFICES ASSUME NEW d \in Processes, pc[d] = "serving", ~split
                 PROVE  pidFile # Nobody /\ text[pidFile] = d
    BY DEF PidFileNamesServer
  <2>2. fd[d] = pidFile
    BY <1>1, <2>1 DEF DaemonsInv, OnThePath, AtWork
  <2>3. text[fd[d]] = d
    BY <1>1, <2>1 DEF DaemonsInv, PidIsOurs, AtWork
  <2>4. fd[d] # Nobody
    BY <1>1, <2>1 DEF DaemonsInv, DaemonsTypeOK, Holding, AtWork
  <2>q. QED
    BY <2>2, <2>3, <2>4
<1>q. QED
  BY <1>1, DaemonsInvariance, PTL

\* Without faults the last daemon to end leaves nothing behind, removed lock files or not.
THEOREM DaemonsLeaveNothing == DaemonsSpec => []NothingLeftBehind
<1>1. ASSUME DaemonsInv PROVE NothingLeftBehind
  <2>1. SUFFICES ASSUME \A d \in Processes : ~Running(d), faults = 0
                 PROVE  pidFile = Nobody /\ socket = Nobody
    BY DEF NothingLeftBehind
  <2>2. pidFile = Nobody
    BY <1>1, <2>1 DEF DaemonsInv, PidFileHasUser, Running, AtWork
  <2>3. socket = Nobody
    BY <1>1, <2>1 DEF DaemonsInv, DaemonsTypeOK, SocketHasOwner, Running, Process
  <2>q. QED
    BY <2>2, <2>3
<1>q. QED
  BY <1>1, DaemonsInvariance, PTL
=============================================================================
