--------------------------- MODULE ManagerProofs ----------------------------
(***************************************************************************)
(* What the manager keeps, for any number of runs and servers and any      *)
(* number of daemons one after the other.  Each part of the invariant is   *)
(* about one place where a server can be; every step of Manager moves one  *)
(* server, or ends a daemon.                                               *)
(***************************************************************************)
EXTENDS Manager, TLAPS

-----------------------------------------------------------------------------
(* Types *)

HoldOK ==
  /\ hold \in [at : At, run : Runs \cup {Nothing}, server : Servers \cup {Nothing}]
  /\ hold.at = "free" <=> hold.run = Nothing
  /\ hold.at \in {"starting", "stored", "closing"} <=> hold.server # Nothing

LEMMA GotoTyped ==
  ASSUME HoldOK, hold.at # "free",
         NEW at \in At, at # "free", NEW s \in Servers \cup {Nothing}, Goto(at, s),
         at \in {"starting", "stored", "closing"} <=> s # Nothing
  PROVE  HoldOK'
BY ManagerAssumption DEF HoldOK, Goto

LEMMA HoldTyped ==
  ASSUME NEW r \in Runs, hold' = HoldFor(r)
  PROVE  HoldOK'
BY ManagerAssumption DEF HoldOK, HoldFor, At

LEMMA FreeTyped ==
  ASSUME hold' = Free
  PROVE  HoldOK'
BY ManagerAssumption DEF HoldOK, Free, At

LEMMA StopByTyped ==
  ASSUME ManagerTypeOK, hold.at # "free", StopBy(hold.run)
  PROVE  HoldOK' /\ sessions' \in [Runs -> Servers \cup {Nothing}] /\ stopped' \subseteq Servers
<1>1. HoldOK /\ hold.run \in Runs
  BY ManagerAssumption DEF ManagerTypeOK, HoldOK
<1>2. CASE sessions[hold.run] = Nothing
  BY <1>1, <1>2, HoldTyped DEF StopBy, ManagerTypeOK
<1>3. CASE sessions[hold.run] # Nothing
  <2>1. sessions[hold.run] \in Servers
    BY <1>1, <1>3 DEF ManagerTypeOK
  <2>2. HoldOK'
    BY <1>1, <1>3, <2>1, GotoTyped DEF StopBy, At
  <2> QED
    BY <1>3, <2>1, <2>2 DEF StopBy, ManagerTypeOK
<1> QED
  BY <1>2, <1>3

LEMMA TypeStep ==
  ASSUME ManagerTypeOK, [ManagerNext]_managerVars
  PROVE  ManagerTypeOK'
<1> DEFINE RestOK ==
      /\ proc \in [Servers -> Proc]
      /\ runOf \in [Servers -> Runs \cup {Nothing}]
      /\ recorded \in [Runs -> Servers \cup {Nothing}]
      /\ daemon \in Daemon
      /\ sessions \in [Runs -> Servers \cup {Nothing}]
      /\ observer \in [Servers -> Observer]
      /\ cancelled \in BOOLEAN
      /\ own \cup closing \cup stopped \cup killed \subseteq Servers
<1>0. HoldOK /\ (hold.at # "free" => hold.run \in Runs)
  BY ManagerAssumption DEF ManagerTypeOK, HoldOK
<1> SUFFICES HoldOK' /\ RestOK'
  BY DEF ManagerTypeOK, HoldOK
<1>1. CASE UNCHANGED managerVars
  BY <1>0, <1>1
     DEF managerVars, processes, shutdown, history, HoldOK, ManagerTypeOK
<1>2. ASSUME NEW s \in Servers, Server(s)
      PROVE  HoldOK' /\ RestOK'
  <2>1. CASE Booted(s) \/ ServerExits(s) \/ KilledByContext(s)
    <3>1. HoldOK'
      BY <1>0, <2>1 DEF Booted, ServerExits, KilledByContext, HoldOK
    <3> QED
      BY <2>1, <3>1
         DEF Booted, ServerExits, KilledByContext, Dies, Proc, shutdown, history, ManagerTypeOK
  <2>2. CASE ObserveExit(s) \/ HandleExit(s)
    <3>1. HoldOK'
      BY <1>0, <2>2 DEF ObserveExit, HandleExit, HoldOK
    <3> QED
      BY <2>2, <3>1
         DEF ObserveExit, HandleExit, Observer, processes, shutdown, history, ManagerTypeOK
  <2>3. CASE Spawn(s)
    <3>1. HoldOK'
      BY <1>0, <2>3, ManagerAssumption, GotoTyped DEF Spawn, At
    <3> QED
      BY <1>0, <2>3, <3>1 DEF Spawn, Proc, shutdown, history, ManagerTypeOK
  <2>4. CASE CloseNext(s)
    <3>1. HoldOK'
      BY <1>0, <2>4 DEF CloseNext, HoldOK
    <3> QED
      BY <2>4, <3>1 DEF CloseNext, Dies, Proc, history, ManagerTypeOK
  <2> QED
    BY <1>2, <2>1, <2>2, <2>3, <2>4 DEF Server
<1>3. ASSUME NEW r \in Runs, Enter(r)
      PROVE  HoldOK' /\ RestOK'
  BY <1>3, HoldTyped DEF Enter, processes, shutdown, history, ManagerTypeOK
<1>4. ASSUME StopBy(hold.run), hold.at # "free",
             UNCHANGED <<processes, own, observer, shutdown, killed>>
      PROVE  HoldOK' /\ RestOK'
  BY <1>4, StopByTyped DEF processes, shutdown, ManagerTypeOK
<1>5. CASE Holder
  <2>1. CASE Leave
    BY <2>1, FreeTyped DEF Leave, processes, shutdown, history, ManagerTypeOK
  <2>2. CASE StartRun
    <3>1. HoldOK'
      BY <1>0, <2>2, GotoTyped DEF StartRun, At
    <3> QED
      BY <2>2, <3>1 DEF StartRun, processes, shutdown, history, ManagerTypeOK
  <2>3. CASE Stop \/ StartRefused
    BY <1>4, <2>3 DEF Stop, StartRefused
  <2>4. CASE Stopped \/ StartFails
    BY <1>0, <2>4, HoldTyped
       DEF Stopped, StartFails, KillStarted, Dies, Proc, shutdown, history, ManagerTypeOK
  <2>5. CASE StopOwned
    <3>1. HoldOK'
      BY <1>0, <2>5, GotoTyped DEF StopOwned, At
    <3> QED
      BY <2>5, <3>1 DEF StopOwned, Dies, Proc, shutdown, history, ManagerTypeOK
  <2>6. CASE StoreSession
    <3>1. HoldOK'
      BY <1>0, <2>6, GotoTyped DEF StoreSession, At, HoldOK
    <3>2. hold.run \in Runs /\ hold.server \in Servers \cup {Nothing}
      BY <1>0, <2>6 DEF StoreSession, HoldOK
    <3> QED
      BY <2>6, <3>1, <3>2
         DEF StoreSession, Observer, processes, shutdown, history, ManagerTypeOK
  <2>7. CASE RegisterAppServer
    <3>1. hold.run \in Runs /\ hold.server \in Servers \cup {Nothing}
      BY <1>0, <2>7 DEF RegisterAppServer, HoldOK
    <3> QED
      BY <2>7, <3>1, HoldTyped DEF RegisterAppServer, shutdown, history, ManagerTypeOK
  <2>8. CASE RegisterFails
    <3>1. CASE StopBy(hold.run)
      BY <1>4, <2>8, <3>1 DEF RegisterFails
    <3>2. CASE hold' = HoldFor(hold.run) /\ UNCHANGED <<sessions, stopped>>
      BY <1>0, <2>8, <3>2, HoldTyped DEF RegisterFails, processes, shutdown, ManagerTypeOK
    <3> QED
      BY <2>8, <3>1, <3>2 DEF RegisterFails
  <2> QED
    BY <1>5, <2>1, <2>2, <2>3, <2>4, <2>5, <2>6, <2>7, <2>8 DEF Holder
<1>6. CASE Signal \/ Gone \/ Crash
  <2>1. HoldOK'
    BY <1>0, <1>6 DEF Signal, Gone, Crash, HoldOK
  <2> QED
    BY <1>6, <2>1 DEF Signal, Gone, Crash, Daemon, processes, history, ManagerTypeOK
<1>7. CASE StopAll
  <2>1. HoldOK'
    BY <1>0, <1>7 DEF StopAll, HoldOK
  <2>2. Swept \subseteq Servers
    BY DEF Swept, ManagerTypeOK
  <2> QED
    BY <1>7, <2>1, <2>2 DEF StopAll, Daemon, processes, ManagerTypeOK
<1>8. CASE Restart
  BY <1>8, FreeTyped DEF Restart, Daemon, Observer, processes, ManagerTypeOK
<1> QED
  BY <1>1, <1>2, <1>3, <1>5, <1>6, <1>7, <1>8 DEF ManagerNext

\* ManagerTypeOK for any number of runs, servers and daemons.
THEOREM ManagerTypeCorrect == ManagerSpec => []ManagerTypeOK
<1>1. ASSUME ManagerInit PROVE ManagerTypeOK
  <2>1. /\ hold \in [at : At, run : Runs \cup {Nothing}, server : Servers \cup {Nothing}]
        /\ hold.at = "free" /\ hold.run = Nothing /\ hold.server = Nothing
    BY <1>1 DEF ManagerInit, At, Free
  <2> QED
    BY <1>1, <2>1 DEF ManagerInit, ManagerTypeOK, Proc, Daemon, Observer
<1>2. ManagerTypeOK /\ [ManagerNext]_managerVars => ManagerTypeOK'
  BY TypeStep
<1> QED
  BY <1>1, <1>2, PTL DEF ManagerSpec

-----------------------------------------------------------------------------
(* Where a server can be *)

\* A session in the map is observed, and nobody has stopped it.
Mapped ==
  \A r \in Runs : sessions[r] # Nothing =>
    /\ runOf[sessions[r]] = r
    /\ observer[sessions[r]] = "watching"
    /\ sessions[r] \in own /\ sessions[r] \notin stopped

\* A server that is being started is nowhere else.
BeingStarted ==
  hold.at = "starting" =>
    /\ runOf[hold.server] = hold.run /\ sessions[hold.run] = Nothing
    /\ observer[hold.server] = "none"
    /\ hold.server \in own /\ hold.server \notin stopped

\* Only what this daemon has started is observed or stopped by it.
Known ==
  /\ \A s \in own : proc[s] # "none" /\ runOf[s] \in Runs
  /\ \A s \in Servers : s \notin own => observer[s] = "none" /\ s \notin stopped

\* What this daemon has started is dead, in the map, or in somebody's hands.
Located ==
  \A s \in own : Running(s) =>
    \/ sessions[runOf[s]] = s
    \/ hold.server = s /\ hold.at \in {"starting", "closing"}
    \/ s \in closing

NoneLeft == daemon \in {"serving", "gone"} => closing = {}

Places == Mapped /\ BeingStarted /\ Known /\ Located /\ NoneLeft /\ StopIsSilent

LEMMA PlacesInit == ManagerInit => Places
BY DEF ManagerInit, Places, Mapped, BeingStarted, Known, Located, NoneLeft, StopIsSilent, Free

\* What follows of the types wherever a step needs them.
LEMMA TypeFacts ==
  ASSUME ManagerTypeOK
  PROVE  /\ proc \in [Servers -> Proc] /\ observer \in [Servers -> Observer]
         /\ sessions \in [Runs -> Servers \cup {Nothing}]
         /\ runOf \in [Servers -> Runs \cup {Nothing}]
         /\ hold \in [at : At, run : Runs \cup {Nothing}, server : Servers \cup {Nothing}]
         /\ own \subseteq Servers /\ stopped \subseteq Servers /\ closing \subseteq Servers
         /\ Nothing \notin Runs /\ Nothing \notin Servers
         /\ hold.at # "free" => hold.run \in Runs
         /\ hold.at \in {"starting", "stored", "closing"} <=> hold.server \in Servers
BY ManagerAssumption DEF ManagerTypeOK

\* A process that dies leaves all the rest as it is.
LEMMA DeathPlaces ==
  ASSUME ManagerTypeOK, Places, NEW s \in Servers, Dies(s),
         UNCHANGED <<runOf, own, sessions, observer, daemon, closing, stopped>>,
         UNCHANGED hold \/ (hold.server \in {s, Nothing} /\ hold'.at # "starting")
  PROVE  Places'
<1>1. \A t \in Servers : Running(t)' => Running(t) /\ t # s
  BY TypeFacts DEF Dies, Running
<1>2. Located'
  BY <1>1, TypeFacts DEF Places, Located
<1>3. Known'
  BY TypeFacts DEF Places, Known, Dies
<1>4. BeingStarted'
  BY TypeFacts DEF Places, BeingStarted
<1> QED
  BY <1>2, <1>3, <1>4 DEF Places, Mapped, NoneLeft, StopIsSilent

LEMMA StopByPlaces ==
  ASSUME ManagerTypeOK, Places, hold.at \in {"hold", "clear", "stored"}, StopBy(hold.run),
         UNCHANGED <<processes, own, observer, shutdown>>
  PROVE  Places'
<1> USE TypeFacts DEF Places, processes, shutdown
<1>1. CASE sessions[hold.run] = Nothing
  BY <1>1 DEF StopBy, HoldFor, Mapped, BeingStarted, Known, Located, NoneLeft, StopIsSilent, Running
<1>2. CASE sessions[hold.run] # Nothing
  <2> DEFINE s == sessions[hold.run]
  <2>1. /\ s \in own /\ runOf[s] = hold.run /\ observer[s] = "watching"
        /\ stopped' = stopped \cup {s}
        /\ sessions' = [sessions EXCEPT ![hold.run] = Nothing]
        /\ hold'.at = "closing" /\ hold'.server = s
    BY <1>2 DEF StopBy, Goto, Mapped
  <2> HIDE DEF s
  <2>2. Mapped'
    BY <2>1 DEF Mapped
  <2>3. Located'
    <3> SUFFICES ASSUME NEW t \in own, Running(t), t # s
                 PROVE  sessions'[runOf[t]] = t \/ t \in closing
      BY <2>1 DEF Located, Running
    <3>1. sessions[runOf[t]] = t \/ t \in closing
      BY DEF Located
    <3>2. runOf[t] \in Runs /\ (sessions[runOf[t]] = t => runOf[t] # hold.run)
      BY DEF Known, s
    <3> QED
      BY <2>1, <3>1, <3>2
  <2> QED
    BY <2>1, <2>2, <2>3 DEF BeingStarted, Known, NoneLeft, StopIsSilent
<1> QED
  BY <1>1, <1>2

\* Steps that move no server.
LEMMA IdlePlaces ==
  ASSUME ManagerTypeOK, Places,
         UNCHANGED <<processes, own, sessions, observer, closing, stopped>>,
         NoneLeft',
         \/ UNCHANGED hold
         \/ hold'.at # "starting" /\ hold.at \notin {"starting", "closing"}
  PROVE  Places'
BY TypeFacts
   DEF Places, Mapped, BeingStarted, Known, Located, NoneLeft, StopIsSilent, processes, Running

LEMMA PlacesStep ==
  ASSUME ManagerTypeOK, Places, [ManagerNext]_managerVars
  PROVE  Places'
<1>1. CASE UNCHANGED managerVars
  BY <1>1, IdlePlaces DEF managerVars, shutdown, history, Places, NoneLeft
<1>2. ASSUME NEW s \in Servers, Server(s)
      PROVE  Places'
  <2>1. CASE Booted(s)
    <3>1. \A t \in Servers : (Running(t)' <=> Running(t)) /\ (proc'[t] # "none" <=> proc[t] # "none")
      BY <2>1, TypeFacts DEF Booted, Running
    <3> QED
      BY <2>1, <3>1, TypeFacts
         DEF Booted, shutdown, history, Places, Mapped, BeingStarted, Known, Located, NoneLeft,
             StopIsSilent
  <2>2. CASE ServerExits(s) \/ KilledByContext(s)
    BY <2>2, DeathPlaces DEF ServerExits, KilledByContext, shutdown, history
  <2>3. CASE ObserveExit(s) /\ Owned(s)
    <3>1. runOf[s] \in Runs /\ s \notin stopped /\ ~Running(s)
      BY <2>3, TypeFacts DEF ObserveExit, Owned, Places, Mapped, Known, Running
    <3>2. /\ sessions' = [sessions EXCEPT ![runOf[s]] = Nothing]
          /\ observer' = [observer EXCEPT ![s] = "callback"]
          /\ UNCHANGED <<proc, runOf, own, hold, daemon, closing, stopped>>
      BY <2>3 DEF ObserveExit, processes, shutdown, history
    <3>3. Mapped'
      BY <2>3, <3>1, <3>2, TypeFacts DEF Places, Mapped, Owned
    <3>4. Located'
      BY <2>3, <3>1, <3>2, TypeFacts DEF Places, Located, Running, Owned
    <3>5. BeingStarted'
      BY <2>3, <3>1, <3>2, TypeFacts DEF Places, BeingStarted, ObserveExit
    <3> QED
      BY <2>3, <3>1, <3>2, <3>3, <3>4, <3>5, TypeFacts
         DEF ObserveExit, Places, Known, NoneLeft, StopIsSilent
  <2>4. CASE (ObserveExit(s) /\ ~Owned(s)) \/ HandleExit(s)
    <3>1. \/ observer' = [observer EXCEPT ![s] = "done"]
          \/ observer[s] = "callback" /\ observer' = [observer EXCEPT ![s] = "blocked"]
      BY <2>4 DEF ObserveExit, HandleExit
    <3>2. UNCHANGED <<proc, runOf, own, sessions, hold, daemon, closing, stopped>>
      BY <2>4 DEF ObserveExit, HandleExit, processes, shutdown, history
    <3>3. /\ observer[s] # "none" /\ s \in own
          /\ \A r \in Runs : sessions[r] # s
      BY <2>4, TypeFacts DEF ObserveExit, HandleExit, Owned, Places, Mapped, Known
    <3>4. Mapped' /\ BeingStarted' /\ Known' /\ StopIsSilent'
      BY <3>1, <3>2, <3>3, TypeFacts DEF Places, Mapped, BeingStarted, Known, StopIsSilent
    <3> QED
      BY <3>2, <3>4 DEF Places, Located, NoneLeft, Running
  <2>5. CASE Spawn(s)
    <3>1. /\ s \notin own /\ s \notin stopped /\ observer[s] = "none"
          /\ hold.run \in Runs /\ sessions[hold.run] = Nothing
          /\ \A r \in Runs : sessions[r] # s
      BY <2>5, TypeFacts DEF Spawn, Places, Mapped, Known
    <3>2. /\ proc' = [proc EXCEPT ![s] = "booting"]
          /\ runOf' = [runOf EXCEPT ![s] = hold.run] /\ own' = own \cup {s}
          /\ hold'.at = "starting" /\ hold'.run = hold.run /\ hold'.server = s
          /\ UNCHANGED <<sessions, observer, daemon, closing, stopped>>
      BY <2>5, TypeFacts DEF Spawn, Goto, shutdown, history
    <3>3. Mapped' /\ BeingStarted'
      BY <3>1, <3>2, TypeFacts DEF Places, Mapped, BeingStarted
    <3>4. Located'
      BY <2>5, <3>1, <3>2, TypeFacts DEF Places, Located, Running, Spawn
    <3> QED
      BY <3>1, <3>2, <3>3, <3>4, TypeFacts DEF Places, Known, NoneLeft, StopIsSilent
  <2>6. CASE CloseNext(s)
    <3>1. \A t \in Servers : Running(t)' => Running(t) /\ t # s
      BY <2>6, TypeFacts DEF CloseNext, Dies, Running
    <3>2. Located' /\ Known'
      BY <2>6, <3>1, TypeFacts DEF CloseNext, Dies, history, Places, Located, Known
    <3> QED
      BY <2>6, <3>2 DEF CloseNext, history, Places, Mapped, BeingStarted, NoneLeft, StopIsSilent
  <2> QED
    BY <1>2, <2>1, <2>2, <2>3, <2>4, <2>5, <2>6 DEF Server
<1>3. ASSUME NEW r \in Runs, Enter(r)
      PROVE  Places'
  BY <1>3, IdlePlaces DEF Enter, Free, HoldFor, shutdown, history, Places, NoneLeft
<1>4. CASE Holder
  <2>1. CASE Leave \/ StartRun
    <3>0. ASSUME StartRun PROVE hold'.at = "clear"
      <4>1. hold' = [hold EXCEPT !.at = "clear", !.server = Nothing]
        BY <3>0 DEF StartRun, Goto
      <4> QED
        BY <3>0, <4>1, TypeFacts DEF StartRun
    <3>1. hold.at = "hold" /\ hold'.at # "starting"
      BY <2>1, <3>0 DEF Leave, StartRun, Free
    <3>2. UNCHANGED <<processes, own, sessions, observer, daemon, closing, stopped>>
      BY <2>1 DEF Leave, StartRun, shutdown, history
    <3>3. NoneLeft'
      BY <3>2 DEF Places, NoneLeft
    <3> QED
      BY <3>1, <3>2, <3>3, IdlePlaces
  <2>2. CASE Stop \/ StartRefused
    BY <2>2, StopByPlaces DEF Stop, StartRefused
  <2>3. CASE Stopped \/ StartFails
    BY <2>3, TypeFacts, DeathPlaces
       DEF Stopped, StartFails, KillStarted, HoldFor, shutdown, history
  <2>4. CASE StopOwned
    <3>1. recorded[hold.run] \in Servers /\ hold.server = Nothing /\ hold'.at = "clear"
      BY <2>4, TypeFacts DEF StopOwned, Goto, ManagerTypeOK
    <3> QED
      BY <2>4, <3>1, DeathPlaces DEF StopOwned, shutdown, history
  <2>5. CASE StoreSession
    <3> DEFINE s == hold.server
    <3>1. /\ s \in Servers /\ hold.run \in Runs /\ runOf[s] = hold.run /\ s \in own
          /\ s \notin stopped /\ observer[s] = "none" /\ sessions[hold.run] = Nothing
      BY <2>5, TypeFacts DEF StoreSession, Places, BeingStarted
    <3>2. /\ sessions' = [sessions EXCEPT ![hold.run] = s]
          /\ observer' = [observer EXCEPT ![s] = "watching"]
          /\ hold'.at = "stored" /\ hold'.server = s
          /\ UNCHANGED <<proc, runOf, own, daemon, closing, stopped>>
      BY <2>5, TypeFacts DEF StoreSession, Goto, processes, shutdown, history
    <3> HIDE DEF s
    <3>3. Mapped'
      BY <3>1, <3>2, TypeFacts DEF Places, Mapped
    <3>4. Located'
      <4>1. \A t \in own : t # s => ~(hold.server = t)
        BY DEF s
      <4> QED
        BY <3>1, <3>2, <4>1, TypeFacts DEF Places, Located, Running
    <3> QED
      BY <3>1, <3>2, <3>3, <3>4, TypeFacts
         DEF Places, BeingStarted, Known, NoneLeft, StopIsSilent
  <2>6. CASE RegisterAppServer \/ (RegisterFails /\ UNCHANGED <<sessions, stopped>>
                                                 /\ hold' = HoldFor(hold.run))
    BY <2>6, TypeFacts
       DEF RegisterAppServer, RegisterFails, HoldFor, processes, shutdown, history, Places,
           Mapped, BeingStarted, Known, Located, NoneLeft, StopIsSilent, Running
  <2>7. CASE RegisterFails /\ StopBy(hold.run)
    BY <2>7, StopByPlaces DEF RegisterFails
  <2> QED
    BY <1>4, <2>1, <2>2, <2>3, <2>4, <2>5, <2>6, <2>7 DEF Holder, RegisterFails
<1>5. CASE Signal \/ Gone \/ Crash
  BY <1>5, IdlePlaces DEF Signal, Gone, Crash, history, Places, NoneLeft
<1>6. CASE StopAll
  <2>1. \A s \in Swept : s \in own /\ observer[s] = "watching"
    BY TypeFacts DEF Swept, Places, Mapped
  <2>2. \A s \in own : runOf[s] \in Runs /\ sessions[runOf[s]] = s => s \in Swept
    BY TypeFacts DEF Swept
  <2>3. Located'
    BY <1>6, <2>2 DEF StopAll, processes, Places, Known, Located, NoneLeft, Running
  <2>4. UNCHANGED <<proc, runOf, own, observer, hold>> /\ stopped' = stopped \cup Swept
    BY <1>6 DEF StopAll, processes
  <2>5. BeingStarted'
    BY <1>6, <2>1, <2>4, TypeFacts DEF StopAll, Places, BeingStarted
  <2>6. Mapped' /\ NoneLeft'
    BY <1>6, TypeFacts DEF StopAll, Mapped, NoneLeft
  <2> QED
    BY <2>1, <2>3, <2>4, <2>5, <2>6 DEF Places, Known, StopIsSilent
<1>7. CASE Restart
  BY <1>7, TypeFacts
     DEF Restart, Free, Places, Mapped, BeingStarted, Known, Located, NoneLeft, StopIsSilent
<1> QED
  BY <1>1, <1>2, <1>3, <1>4, <1>5, <1>6, <1>7 DEF ManagerNext

LEMMA PlacesInvariance == ManagerSpec => []Places
<1>1. ManagerInit => Places
  BY PlacesInit
<1>2. ManagerTypeOK /\ Places /\ [ManagerNext]_managerVars => Places'
  BY PlacesStep
<1> QED
  BY <1>1, <1>2, ManagerTypeCorrect, PTL DEF ManagerSpec

\* StopIsSilent for any number of runs and servers: of a session that was
\* stopped no exit is reported, whatever sessions its run has had since.
THEOREM StopsAreSilent == ManagerSpec => []StopIsSilent
<1>1. Places => StopIsSilent
  BY DEF Places
<1> QED
  BY <1>1, PlacesInvariance, PTL

\* NoOrphanServer for any number of runs and servers: only a start or a stop
\* under way when the daemon ends leaves an app-server.
THEOREM NoServerOrphaned == ManagerSpec => []NoOrphanServer
<1>1. Places => NoOrphanServer
  BY DEF Places, Located, NoneLeft, NoOrphanServer
<1> QED
  BY <1>1, PlacesInvariance, PTL

\* OnlyTheDeadLeave for any number of runs and servers: the exit of an earlier
\* server does not remove the session of its successor.
THEOREM OnlyDeadSessionsLeave == ManagerSpec => OnlyTheDeadLeave
<1> DEFINE Leaves(r) ==
      sessions[r] # Nothing /\ sessions'[r] # sessions[r] =>
        proc[sessions[r]] = "dead" \/ sessions[r] \in stopped' \/ ~Alive
<1>1. ASSUME ManagerTypeOK, Places, [ManagerNext]_managerVars, NEW r \in Runs
      PROVE  Leaves(r)
  <2>1. CASE UNCHANGED sessions
    BY <2>1
  <2>2. ASSUME StopBy(hold.run) PROVE Leaves(r)
    BY <1>1, <2>2, TypeFacts DEF StopBy
  <2>3. ASSUME NEW s \in Servers, ObserveExit(s) PROVE Leaves(r)
    BY <1>1, <2>3, TypeFacts DEF ObserveExit, Owned
  <2>4. ASSUME StoreSession PROVE Leaves(r)
    BY <1>1, <2>4, TypeFacts DEF StoreSession, Places, BeingStarted
  <2>5. ASSUME StopAll PROVE Leaves(r)
    BY <2>5 DEF StopAll, Swept
  <2>6. ASSUME Restart PROVE Leaves(r)
    BY <2>6 DEF Restart
  <2>7. ASSUME Holder PROVE Leaves(r)
    <3> HIDE DEF Leaves
    <3> QED
      BY <2>1, <2>2, <2>4, <2>7
         DEF Holder, Leave, Stop, Stopped, StartRun, StopOwned, StartRefused, StartFails,
             RegisterAppServer, RegisterFails
  <2>8. ASSUME NEW s \in Servers, Server(s) PROVE Leaves(r)
    <3> HIDE DEF Leaves
    <3> QED
      BY <2>1, <2>3, <2>8
         DEF Server, Booted, ServerExits, KilledByContext, HandleExit, Spawn, CloseNext
  <2> HIDE DEF Leaves
  <2> QED
    BY <1>1, <2>1, <2>5, <2>6, <2>7, <2>8
       DEF ManagerNext, Enter, Signal, Gone, Crash, managerVars
<1>2. ManagerTypeOK /\ Places /\ [ManagerNext]_managerVars =>
        [\A r \in Runs : Leaves(r)]_managerVars
  BY <1>1
<1> QED
  BY <1>2, ManagerTypeCorrect, PlacesInvariance, PTL DEF ManagerSpec, OnlyTheDeadLeave

-----------------------------------------------------------------------------
(* One process per run *)

\* Only the holder of Controller.mu waits for a server to bind its socket.
Booting ==
  \A s \in Servers : proc[s] = "booting" => hold.at = "starting" /\ hold.server = s

\* After stopOwnedAppServer, and for a new run, no process of the run is left.
RoomForOne ==
  hold.at = "clear" => \A s \in Servers : runOf[s] = hold.run => ~Running(s)

Single == Booting /\ RoomForOne /\ OneServerPerRun

\* No process is started here, none is changed but to its end.
LEMMA FewerRunning ==
  ASSUME ManagerTypeOK, Single, UNCHANGED runOf,
         \A s \in Servers : proc'[s] \in {proc[s], "dead"},
         \/ UNCHANGED hold
         \/ hold'.at # "clear" /\ (hold.at = "starting" => proc'[hold.server] # "booting")
  PROVE  Single'
<1>1. \A s \in Servers : Running(s)' => Running(s)
  BY DEF Running
<1> QED
  BY <1>1, TypeFacts DEF Single, Booting, RoomForOne, OneServerPerRun

LEMMA SingleStep ==
  ASSUME LateSockets = FALSE, ManagerTypeOK, Single, [ManagerNext]_managerVars
  PROVE  Single'
<1>1. CASE UNCHANGED <<proc, runOf, hold>>
  BY <1>1, TypeFacts, FewerRunning
<1>2. ASSUME UNCHANGED <<proc, runOf>>, StopBy(hold.run), hold.at # "starting"
      PROVE  Single'
  <2>1. hold'.at # "clear"
    <3>1. CASE hold' = HoldFor(hold.run)
      BY <3>1 DEF HoldFor
    <3>2. CASE Goto("closing", sessions[hold.run])
      BY <3>2, TypeFacts DEF Goto
    <3> QED
      BY <1>2, <3>1, <3>2 DEF StopBy
  <2> QED
    BY <1>2, <2>1, TypeFacts, FewerRunning
<1>3. ASSUME NEW s \in Servers, Server(s)
      PROVE  Single'
  <2>1. CASE Booted(s)
    BY <2>1, TypeFacts
       DEF Booted, Single, Booting, RoomForOne, OneServerPerRun, Running
  <2>2. CASE ServerExits(s) \/ KilledByContext(s) \/ CloseNext(s)
    BY <2>2, TypeFacts, FewerRunning DEF ServerExits, KilledByContext, CloseNext, Dies
  <2>3. CASE Spawn(s)
    <3>1. /\ proc' = [proc EXCEPT ![s] = "booting"]
          /\ runOf' = [runOf EXCEPT ![s] = hold.run]
          /\ hold.at = "clear" /\ hold'.at = "starting" /\ hold'.server = s
      BY <2>3, TypeFacts DEF Spawn, Goto
    <3>2. \A t \in Servers : t # s =>
            /\ Running(t)' <=> Running(t)
            /\ runOf'[t] = runOf[t]
            /\ runOf[t] = hold.run => ~Running(t)
            /\ proc'[t] # "booting"
      BY <3>1, TypeFacts DEF Running, Single, Booting, RoomForOne
    <3> QED
      BY <3>1, <3>2, TypeFacts DEF Single, Booting, RoomForOne, OneServerPerRun
  <2>4. CASE ObserveExit(s) \/ HandleExit(s)
    BY <1>1, <2>4 DEF ObserveExit, HandleExit, processes
  <2> QED
    BY <1>3, <2>1, <2>2, <2>3, <2>4 DEF Server
<1>4. ASSUME NEW r \in Runs, Enter(r)
      PROVE  Single'
  BY <1>4, FewerRunning DEF Enter, Free, HoldFor, processes
<1>5. CASE Holder
  <2>1. CASE Leave
    BY <2>1, FewerRunning DEF Leave, Free, processes
  <2>2. CASE Stop \/ StartRefused
    BY <1>2, <2>2 DEF Stop, StartRefused, processes
  <2>3. CASE Stopped \/ StartFails
    <3>1. proc' = [proc EXCEPT ![hold.server] = "dead"] /\ hold'.at = "hold" /\ UNCHANGED runOf
      BY <2>3 DEF Stopped, StartFails, KillStarted, Dies, HoldFor
    <3> QED
      BY <3>1, TypeFacts, FewerRunning
  <2>4. CASE StartRun
    <3>1. hold.at = "hold" /\ hold'.run = hold.run /\ UNCHANGED <<proc, runOf>>
      BY <2>4, TypeFacts DEF StartRun, Goto, processes
    <3> QED
      BY <2>4, <3>1
         DEF StartRun, Single, Booting, RoomForOne, OneServerPerRun, Running
  <2>5. CASE StopOwned
    <3> DEFINE s == recorded[hold.run]
    <3>1. /\ proc' = [proc EXCEPT ![s] = "dead"]
          /\ hold.at = "hold" /\ hold'.run = hold.run /\ UNCHANGED runOf
      BY <2>5, TypeFacts DEF StopOwned, Dies, Goto
    <3>2. \A t \in Servers : /\ proc[t] # "booting"
                             /\ Running(t)' => Running(t)
                             /\ runOf[t] = hold.run => ~Running(t)'
      BY <2>5, <3>1, TypeFacts
         DEF StopOwned, SocketAccepting, Single, Booting, Running
    <3> HIDE DEF s
    <3> QED
      BY <3>1, <3>2, TypeFacts DEF Single, Booting, RoomForOne, OneServerPerRun
  <2>6. CASE StoreSession
    BY <2>6, TypeFacts, FewerRunning DEF StoreSession, Goto, processes
  <2>7. CASE RegisterAppServer
    BY <2>7, FewerRunning DEF RegisterAppServer, HoldFor
  <2>8. CASE RegisterFails
    BY <1>2, <2>8, FewerRunning DEF RegisterFails, HoldFor, processes
  <2> QED
    BY <1>5, <2>1, <2>2, <2>3, <2>4, <2>5, <2>6, <2>7, <2>8 DEF Holder
<1>6. CASE Signal \/ Gone \/ Crash \/ StopAll
  BY <1>1, <1>6 DEF Signal, Gone, Crash, StopAll, processes
<1>7. CASE Restart
  BY <1>7 DEF Restart, Free, processes, Single, Booting, RoomForOne, OneServerPerRun, Running
<1>8. CASE UNCHANGED managerVars
  BY <1>1, <1>8 DEF managerVars, processes
<1> QED
  BY <1>3, <1>4, <1>5, <1>6, <1>7, <1>8 DEF ManagerNext

\* OneServerPerRun for any number of runs, servers and daemons, if a server has
\* bound its socket before a next daemon is there: a run never has two
\* app-servers, however daemons end and whatever they did not record.
THEOREM OneServerForARun ==
  ASSUME LateSockets = FALSE
  PROVE  ManagerSpec => []OneServerPerRun
<1>1. ManagerInit => Single
  BY DEF ManagerInit, Single, Booting, RoomForOne, OneServerPerRun, Running, Free
<1>2. ManagerTypeOK /\ Single /\ [ManagerNext]_managerVars => Single'
  BY SingleStep
<1>3. Single => OneServerPerRun
  BY DEF Single
<1> QED
  BY <1>1, <1>2, <1>3, ManagerTypeCorrect, PTL DEF ManagerSpec

=============================================================================
