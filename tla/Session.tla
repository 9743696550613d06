------------------------------ MODULE Session ------------------------------
(***************************************************************************)
(* One run's app-server session in the daemon: its connection (Transport)  *)
(* and the goroutines that use it under the controller's mutex: the        *)
(* dispatcher of notifications, and the requests of hooks, agents, users,  *)
(* the monitor and the exit callback.                                      *)
(*                                                                         *)
(* What a goroutine does to the run while it holds the mutex is the        *)
(* subject of module Controller; here a hold is a number of calls to the   *)
(* app-server, a start or a stop of it, and a release.  One app-server is  *)
(* started in a behaviour; which of several the manager knows, and whose   *)
(* exit it reports, is the subject of module Manager.                      *)
(***************************************************************************)
EXTENDS Transport

CONSTANTS
  Dispatcher,  \* the goroutine dispatchNotifications
  Requests     \* goroutines of HTTP handlers, recovery, monitor, callbacks

ASSUME SessionAssumption ==
  /\ Goroutines = Requests \cup {Dispatcher}
  /\ Dispatcher \notin Requests

VARIABLES
  pc,       \* where a goroutine is
  mutex,    \* who holds Controller.mu
  session,  \* the session: in Manager.Start, in Manager.sessions, or neither
  daemon    \* serveDaemon

sessionVars == <<pc, mutex, session, daemon>>
allVars == <<transportVars, sessionVars>>

\* "resume" and "hold": between two calls, without and with the mutex;
\* "client": waits for Client.mu; "write", "wait": writes the request, waits
\* for the reply; "starting", "failing": in Manager.Start, "failing" once
\* Initialize has failed; "closing": in Session.Close.
PC == {"idle", "resume", "lock", "hold", "client", "write", "wait", "starting",
       "failing", "closing", "ended"}
SessionState == {"none", "starting", "managed", "closed"}
DaemonState == {"serving", "closing", "stopped"}

managed == session = "managed"
Alive == daemon # "stopped"
Goto(g, place) == pc' = [pc EXCEPT ![g] = place]

SessionInit ==
  /\ TransportInit
  /\ pc = [g \in Goroutines |-> "idle"]
  /\ mutex = Nobody /\ session = "none" /\ daemon = "serving"

-----------------------------------------------------------------------------
(* The environment and readLoop *)

Peer ==
  /\ Alive
  /\ Notify \/ Babble \/ (\E request \in asked : Answer(request)) \/ ServerDies \/ HangUp
  /\ UNCHANGED sessionVars

ReadLoop == Alive /\ (Read \/ Enqueue \/ ReadFails \/ Rejected) /\ UNCHANGED sessionVars

-----------------------------------------------------------------------------
(* The dispatcher *)

\* A notification is ignored, or waits for the mutex; thread/started first
\* asks the managed app-server for the thread.
Dispatch ==
  /\ Alive /\ reader # "off"
  /\ pc[Dispatcher] = "idle" /\ queue # <<>>
  /\ dispatched' = Head(queue)
  /\ queue' = Tail(queue)
  /\ \E place \in {"idle", "lock"} \cup (IF managed THEN {"resume"} ELSE {}) :
       Goto(Dispatcher, place)
  /\ UNCHANGED <<peerVars, open, done, reader, hand, callVars, mutex, session, daemon>>

DispatcherReturns ==
  /\ Alive /\ done
  /\ pc[Dispatcher] = "idle" /\ Goto(Dispatcher, "ended")
  /\ UNCHANGED <<transportVars, mutex, session, daemon>>

-----------------------------------------------------------------------------
(* Any goroutine: the mutex, and calls to the app-server *)

Arrive(g) ==
  /\ Alive /\ g \in Requests
  /\ pc[g] = "idle" /\ Goto(g, "lock")
  /\ UNCHANGED <<transportVars, mutex, session, daemon>>

Lock(g) ==
  /\ Alive /\ pc[g] = "lock" /\ mutex = Nobody
  /\ mutex' = g /\ Goto(g, "hold")
  /\ UNCHANGED <<transportVars, session, daemon>>

Unlock(g) ==
  /\ Alive /\ pc[g] = "hold"
  /\ mutex' = Nobody /\ Goto(g, "idle")
  /\ UNCHANGED <<transportVars, session, daemon>>

\* The bound on calls counts those that wait for Client.mu.
CallsLeft == calls + Cardinality({g \in Goroutines : pc[g] = "client"}) < MaxCalls

BeginCall(g) ==
  /\ Alive /\ CallsLeft
  /\ pc[g] = "resume" \/ (pc[g] = "hold" /\ managed)
  /\ Goto(g, "client")
  /\ UNCHANGED <<transportVars, mutex, session, daemon>>

\* After its call the dispatcher may find that there is no thread to register,
\* and Start goes on after Initialize, its outcome being `next`.
Resume(g, next) ==
  \E place \in (CASE mutex # g -> {"lock", "idle"}
                 [] mutex = g /\ session = "starting" -> {next}
                 [] OTHER -> {"hold"}) : Goto(g, place)

RegisterCall(g) ==
  /\ Alive /\ pc[g] = "client"
  /\ Register(g) /\ Goto(g, "write")
  /\ UNCHANGED <<mutex, session, daemon>>

WriteCall(g) ==
  /\ Alive /\ pc[g] = "write"
  /\ \/ Written(g) /\ Goto(g, "wait")
     \/ Unwritten(g) /\ Resume(g, "failing")
  /\ UNCHANGED <<mutex, session, daemon>>

EndCall(g) ==
  /\ Alive /\ pc[g] = "wait"
  /\ Returned(g) /\ Resume(g, IF result[g].kind = "answer" THEN "starting" ELSE "failing")
  /\ UNCHANGED <<mutex, session, daemon>>

\* The ResumeThread that could not be begun for the bound on calls.
SkipCall ==
  /\ Alive /\ pc[Dispatcher] = "resume" /\ ~CallsLeft
  /\ \E place \in {"lock", "idle"} : Goto(Dispatcher, place)
  /\ UNCHANGED <<transportVars, mutex, session, daemon>>

\* The context of a request ends with its HTTP connection or the daemon's stop;
\* the dispatcher's never does.
CancelCall(g) ==
  /\ Alive /\ g \in Requests /\ pc[g] = "wait"
  /\ Cancelled(g) /\ Resume(g, "failing")
  /\ UNCHANGED <<mutex, session, daemon>>

-----------------------------------------------------------------------------
(* Manager: Start, Stop and StopAll *)

\* Start finds no session and starts the process.
SpawnServer(g) ==
  /\ Alive /\ g \in Requests /\ pc[g] = "hold"
  /\ session = "none" /\ session' = "starting"
  /\ server' = "up" /\ Goto(g, "starting")
  /\ UNCHANGED <<hungup, wire, asked, sent, readVars, callVars, mutex, daemon>>

\* The socket answers: readLoop and the dispatcher start, and Initialize is the
\* first call, made with the mutex before the session is stored.
DialServer(g) ==
  /\ Alive /\ pc[g] = "starting" /\ reader = "off" /\ CallsLeft
  /\ server = "up"
  /\ open' = TRUE /\ reader' = "reading"
  /\ Goto(g, "client")
  /\ UNCHANGED <<peerVars, done, hand, queue, dispatched, callVars, mutex, session, daemon>>

\* Initialize has succeeded.
StoreSession(g) ==
  /\ Alive /\ pc[g] = "starting" /\ reader # "off"
  /\ session' = "managed" /\ Goto(g, "hold")
  /\ UNCHANGED <<transportVars, mutex, daemon>>

CloseTransport == IF done THEN UNCHANGED <<open, done, pending, result>> ELSE Close

\* No socket: the process is killed.  Initialize failed: the session is closed.
StartFails(g) ==
  /\ Alive /\ pc[g] \in {"starting", "failing"}
  /\ session' = "closed" /\ Goto(g, "hold")
  /\ ServerGone
  /\ IF reader = "off" THEN UNCHANGED <<open, done, pending, result>> ELSE CloseTransport
  /\ UNCHANGED <<wire, asked, sent, reader, hand, queue, dispatched, calls, clientMu,
                 call, mutex, daemon>>

StopServer(g) ==
  /\ Alive /\ pc[g] = "hold" /\ managed
  /\ session' = "closed" /\ CloseTransport
  /\ Goto(g, "closing")
  /\ UNCHANGED <<peerVars, reader, hand, queue, dispatched, calls, clientMu, call,
                 mutex, daemon>>

\* SIGTERM, SIGKILL after two seconds, and the wait for the process.
ServerStopped(g) ==
  /\ Alive /\ pc[g] = "closing"
  /\ ServerGone /\ Goto(g, "hold")
  /\ UNCHANGED <<wire, asked, sent, readVars, callVars, mutex, session, daemon>>

\* observeExit removes the session of a process that is gone, and leaves its
\* transport to readLoop.
ObserveExit ==
  /\ Alive /\ managed /\ server = "dead"
  /\ session' = "closed"
  /\ UNCHANGED <<transportVars, pc, mutex, daemon>>

\* The daemon stops: StopAll closes the session it finds in the map, and the
\* process goes with all its goroutines.
StopAll ==
  /\ daemon = "serving" /\ daemon' = "closing"
  /\ IF managed THEN session' = "closed" /\ CloseTransport
                ELSE UNCHANGED <<session, open, done, pending, result>>
  /\ UNCHANGED <<peerVars, reader, hand, queue, dispatched, calls, clientMu, call, pc, mutex>>

Vanish ==
  /\ daemon = "closing" /\ daemon' = "stopped"
  /\ pc' = [g \in Goroutines |-> "ended"]
  /\ server' \in {server, "dead"} /\ hungup' = TRUE
  /\ wire' = <<>> /\ asked' = {} /\ sent' = 0
  /\ open' = FALSE /\ done' = TRUE /\ reader' = "ended" /\ hand' = 0
  /\ queue' = <<>> /\ dispatched' = 0
  /\ calls' = 0 /\ clientMu' = Nobody /\ pending' = {}
  /\ call' = [g \in Goroutines |-> NoRequest]
  /\ result' = [g \in Goroutines |-> Empty]
  /\ mutex' = Nobody /\ session' = "closed"

-----------------------------------------------------------------------------

Goroutine(g) ==
  \/ Arrive(g) \/ Lock(g) \/ Unlock(g)
  \/ BeginCall(g) \/ RegisterCall(g) \/ WriteCall(g) \/ EndCall(g) \/ CancelCall(g)
  \/ SpawnServer(g) \/ DialServer(g) \/ StoreSession(g) \/ StartFails(g)
  \/ StopServer(g) \/ ServerStopped(g)

SessionNext ==
  \/ Peer \/ ReadLoop
  \/ Dispatch \/ DispatcherReturns \/ SkipCall
  \/ \E g \in Goroutines : Goroutine(g)
  \/ ObserveExit
  \/ StopAll \/ Vanish

SessionSpec == SessionInit /\ [][SessionNext]_allVars

\* What a goroutine does by itself, and what it does once a mutex is its own.
GoesOn(g) ==
  \/ Unlock(g) \/ BeginCall(g) \/ WriteCall(g) \/ EndCall(g)
  \/ DialServer(g) \/ StoreSession(g) \/ StartFails(g) \/ ServerStopped(g)
Acquires(g) == Lock(g) \/ RegisterCall(g)

Answers == Alive /\ (\E request \in asked : Answer(request)) /\ UNCHANGED sessionVars

\* Goroutines run; a mutex is handed to whoever waits long for it; an
\* app-server that lives takes what is written to it (WriteCall, Rejected),
\* answers its requests once it can write, and when started or killed does
\* start or die; a daemon that stops is gone in the end.  Nothing is assumed of
\* notifications, of requests arriving, of contexts ending or of the daemon
\* being stopped.
SessionFairness ==
  /\ WF_allVars(ReadLoop)
  /\ WF_allVars(Dispatch \/ DispatcherReturns \/ SkipCall)
  /\ \A g \in Goroutines : WF_allVars(GoesOn(g)) /\ SF_allVars(Acquires(g))
  /\ SF_allVars(Answers)
  /\ WF_allVars(ObserveExit) /\ WF_allVars(Vanish)

FairSessionSpec == SessionSpec /\ SessionFairness

-----------------------------------------------------------------------------
(* Properties *)

\* The type invariant of the session.
SessionTypeOK ==
  /\ TransportTypeOK
  /\ pc \in [Goroutines -> PC]
  /\ mutex \in Goroutines \cup {Nobody}
  /\ session \in SessionState
  /\ daemon \in DaemonState

\* readLoop holds a notification for a queue that is full, the dispatcher waits
\* for a mutex, and whoever owns that waits for a reply readLoop cannot fetch.
Stuck ==
  /\ hand # 0 /\ Len(queue) = QueueSize /\ ~done
  /\ clientMu # Nobody /\ pc[clientMu] = "wait" /\ result[clientMu] = Empty
  /\ pc[Dispatcher] \in {"lock", "client", "wait"}
  /\ pc[Dispatcher] = "lock" => mutex = clientMu

\* Whatever the app-server sends, refuses or garbles, and whenever it exits,
\* the controller's mutex is released again, with one exception: the circular
\* wait of the caller, readLoop and the dispatcher.
MutexComesFree ==
  mutex # Nobody ~> mutex = Nobody \/ Stuck \/ ~Alive

\* A call does not outlive its connection: once the app-server has closed its
\* end, or died, or the daemon has closed its own, at any point of the call, the
\* caller gets on and gives Client.mu back, with the same exception.  In the
\* circular wait readLoop never sees the end of the connection, and nobody else
\* tells the caller.
CallsEndWithConnection ==
  clientMu # Nobody /\ (hungup \/ ~open) ~> clientMu = Nobody \/ Stuck \/ ~Alive

\* "Quiescence, handoff generation, parent acceptance, and root acceptance each
\* have a fixed 30-minute timeout" (docs/spec.md:93): the monitor that enforces
\* it, as any other goroutine, gets the mutex it waits for.
WaitersGetTheMutex ==
  \A g \in Goroutines : pc[g] = "lock" ~> pc[g] # "lock" \/ ~Alive

=============================================================================
