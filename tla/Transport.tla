----------------------------- MODULE Transport -----------------------------
(***************************************************************************)
(* The daemon's connection to a run's app-server (internal/codexrpc): a    *)
(* SocketTransport and the Client on top of it.  Three kinds of goroutines *)
(* meet here: the callers, one at a time under Client.mu; readLoop, which  *)
(* brings replies to the callers and notifications to a bounded queue; and *)
(* the dispatcher, which empties the queue (module Session).               *)
(*                                                                         *)
(* Bounds: QueueSize stands for the 256 slots of the queue and WireSize    *)
(* for the socket's buffer; MaxNotes and MaxCalls end a behaviour's supply *)
(* of notifications and requests.                                          *)
(***************************************************************************)
EXTENDS Naturals, Sequences, FiniteSets

CONSTANTS
  Goroutines,   \* those that may call the app-server
  Nobody,       \* the owner of a mutex that is free
  QueueSize, WireSize, MaxNotes, MaxCalls

ASSUME TransportAssumption ==
  /\ IsFiniteSet(Goroutines) /\ Nobody \notin Goroutines
  /\ {QueueSize, WireSize, MaxNotes, MaxCalls} \subseteq Nat \ {0}

VARIABLES
  server,     \* the app-server process
  hungup,     \* its end of the connection is closed
  wire,       \* what it wrote and readLoop has not read
  asked,      \* the requests it has still to answer
  sent,       \* notifications it wrote so far, numbered from 1
  open,       \* the daemon's end of the connection is open
  done,       \* the channel `done` is closed
  reader,     \* readLoop
  hand,       \* the notification readLoop is putting into the queue, 0 if none
  queue,      \* SocketTransport.notifications
  dispatched, \* the last notification taken from the queue
  calls,      \* requests sent so far, numbered from 1
  clientMu,   \* who holds Client.mu
  call,       \* the request a goroutine waits for
  pending,    \* the ids in SocketTransport.pending
  result      \* what is in the channel of a goroutine's pending call

peerVars == <<server, hungup, wire, asked, sent>>
readVars == <<open, done, reader, hand, queue, dispatched>>
callVars == <<calls, clientMu, call, pending, result>>
transportVars == <<peerVars, readVars, callVars>>

Server == {"none", "up", "dead"}
\* "rejecting": readLoop writes the refusal of a request of the app-server.
Reader == {"off", "reading", "rejecting", "ended"}

\* A request has the id the code gave it; nr says which one it really is.
Request == [id : 1..MaxCalls, nr : 1..MaxCalls]
NoRequest == [id |-> 0, nr |-> 0]

\* "garbage" is no JSON, "request" one of the app-server to the daemon.
Message == [kind : {"note", "reply", "garbage", "request"},
            id : 0..MaxCalls, nr : 0..(MaxCalls + MaxNotes)]

\* An empty channel, the answer to request nr, or an error.
Result == [kind : {"none", "answer", "error"}, nr : 0..MaxCalls]
Empty == [kind |-> "none", nr |-> 0]
Error == [kind |-> "error", nr |-> 0]

TransportInit ==
  /\ server = "none" /\ hungup = FALSE /\ wire = <<>> /\ asked = {} /\ sent = 0
  /\ open = FALSE /\ done = FALSE /\ reader = "off" /\ hand = 0
  /\ queue = <<>> /\ dispatched = 0
  /\ calls = 0 /\ clientMu = Nobody /\ pending = {}
  /\ call = [g \in Goroutines |-> NoRequest]
  /\ result = [g \in Goroutines |-> Empty]

-----------------------------------------------------------------------------
(* The app-server, which may say anything at any time *)

Writes(kind, id, nr) ==
  /\ server = "up" /\ ~hungup /\ open /\ Len(wire) < WireSize
  /\ wire' = Append(wire, [kind |-> kind, id |-> id, nr |-> nr])
  /\ UNCHANGED <<server, hungup>>

Notify ==
  /\ sent < MaxNotes
  /\ Writes("note", 0, sent + 1)
  /\ sent' = sent + 1
  /\ UNCHANGED <<asked, readVars, callVars>>

Babble ==
  /\ Writes("garbage", 0, 0) \/ Writes("request", 0, 0)
  /\ UNCHANGED <<asked, sent, readVars, callVars>>

Answer(request) ==
  /\ request \in asked
  /\ Writes("reply", request.id, request.nr)
  /\ asked' = asked \ {request}
  /\ UNCHANGED <<sent, readVars, callVars>>

\* Its end of the connection goes with the process.  What it wrote before can
\* still be read.
ServerGone == server' = "dead" /\ hungup' = TRUE

ServerDies ==
  /\ server = "up" /\ ServerGone
  /\ UNCHANGED <<wire, asked, sent, readVars, callVars>>

HangUp ==
  /\ server = "up" /\ open /\ ~hungup /\ hungup' = TRUE
  /\ UNCHANGED <<server, wire, asked, sent, readVars, callVars>>

-----------------------------------------------------------------------------
(* readLoop *)

\* The pending call with this id gets its result and is no longer pending.
Deliver(id, value) ==
  /\ pending' = pending \ {id}
  /\ result' = [g \in Goroutines |->
                  IF id \in pending /\ call[g].id = id THEN value ELSE result[g]]

FailPending ==
  /\ pending' = {}
  /\ result' = [g \in Goroutines |-> IF call[g].id \in pending THEN Error ELSE result[g]]

\* Mutant of Close: those who wait are not told.
CloseSilently ==
  /\ open' = FALSE
  /\ UNCHANGED <<done, pending, result>>

Close ==
  /\ open' = FALSE /\ done' = TRUE
  /\ FailPending

\* A reply goes to its caller if that still waits, a notification is kept for
\* the queue, garbage fails whatever is pending, a request has to be refused.
Read ==
  /\ reader = "reading" /\ hand = 0
  /\ open /\ wire # <<>>
  /\ wire' = Tail(wire)
  /\ LET message == Head(wire) IN
       \/ message.kind = "note" /\ hand' = message.nr /\ UNCHANGED <<reader, pending, result>>
       \/ message.kind = "reply" /\ Deliver(message.id, [kind |-> "answer", nr |-> message.nr])
            /\ UNCHANGED <<reader, hand>>
       \/ message.kind = "garbage" /\ FailPending /\ UNCHANGED <<reader, hand>>
       \/ message.kind = "request" /\ reader' = "rejecting" /\ UNCHANGED <<hand, pending, result>>
  /\ UNCHANGED <<server, hungup, asked, sent, open, done, queue, dispatched,
                 calls, clientMu, call>>

\* The refusal is written once the app-server takes it or the connection is
\* gone; its error is ignored.
Rejected ==
  /\ reader = "rejecting" /\ reader' = "reading"
  /\ UNCHANGED <<peerVars, open, done, hand, queue, dispatched, callVars>>

\* Mutant of RoomInQueue: the channel is not bounded.
AlwaysRoom == TRUE

RoomInQueue == Len(queue) < QueueSize

\* Mutant of Enqueue: a notification that finds the queue full is dropped.
EnqueueOrDrop ==
  /\ hand # 0
  /\ queue' = IF RoomInQueue THEN Append(queue, hand) ELSE queue
  /\ hand' = 0
  /\ UNCHANGED <<peerVars, open, done, reader, dispatched, callVars>>

\* The send into the queue waits for room and for nothing else.
Enqueue ==
  /\ hand # 0 /\ RoomInQueue
  /\ queue' = Append(queue, hand)
  /\ hand' = 0
  /\ UNCHANGED <<peerVars, open, done, reader, dispatched, callVars>>

\* The connection was closed here, or by the app-server and all is read.
ReadFails ==
  /\ reader = "reading" /\ hand = 0
  /\ ~open \/ (hungup /\ wire = <<>>)
  /\ reader' = "ended"
  /\ IF done THEN UNCHANGED <<open, done, pending, result>> ELSE Close
  /\ UNCHANGED <<peerVars, hand, queue, dispatched, calls, clientMu, call>>

-----------------------------------------------------------------------------
(* Client.call and SocketTransport.Call *)

\* Mutant of NewID: the counter is not advanced.
SameID == 1

NewID == calls + 1

\* With Client.mu, which is kept until the call ends: the call is registered.
Register(g) ==
  LET request == [id |-> NewID, nr |-> calls + 1] IN
  /\ clientMu = Nobody /\ clientMu' = g
  /\ calls' = calls + 1
  /\ call' = [call EXCEPT ![g] = request]
  /\ pending' = pending \cup {request.id}
  /\ UNCHANGED <<peerVars, readVars, result>>

\* The write of the request, which waits for the app-server to take it whatever
\* becomes of the caller's context.
Written(g) ==
  /\ open /\ ~hungup
  /\ asked' = asked \cup {call[g]}
  /\ UNCHANGED <<server, hungup, wire, sent, readVars, callVars>>

Waiting(g) == call[g] # NoRequest

\* Mutant of Forget: an abandoned call stays in the map.
ForgetNothing(g) == pending' = pending

\* removePending; nothing to remove when the result is there.
Forget(g) == pending' = pending \ {call[g].id}

\* Mutant of ReleaseClient: Client.mu stays locked.
KeepClient == clientMu' = clientMu

ReleaseClient == clientMu' = Nobody

CallEnds(g) ==
  /\ Forget(g)
  /\ call' = [call EXCEPT ![g] = NoRequest]
  /\ result' = [result EXCEPT ![g] = Empty]
  /\ ReleaseClient
  /\ UNCHANGED <<peerVars, readVars, calls>>

\* The write failed: the connection was closed, here or by the app-server.
Unwritten(g) == (~open \/ hungup) /\ CallEnds(g)

\* The select of Call: the result, `done`, or the caller's own context.
Returned(g) == Waiting(g) /\ (result[g] # Empty \/ done) /\ CallEnds(g)
Cancelled(g) == Waiting(g) /\ CallEnds(g)

-----------------------------------------------------------------------------

TransportTypeOK ==
  /\ server \in Server /\ hungup \in BOOLEAN
  /\ wire \in Seq(Message)
  /\ asked \subseteq Request
  /\ sent \in 0..MaxNotes
  /\ open \in BOOLEAN /\ done \in BOOLEAN
  /\ reader \in Reader
  /\ hand \in 0..MaxNotes
  /\ queue \in Seq(1..MaxNotes) /\ Len(queue) <= QueueSize
  /\ dispatched \in 0..MaxNotes
  /\ calls \in 0..MaxCalls
  /\ clientMu \in Goroutines \cup {Nobody}
  /\ call \in [Goroutines -> Request \cup {NoRequest}]
  /\ pending \subseteq 1..MaxCalls
  /\ result \in [Goroutines -> Result]

\* A caller is given the answer to its own request: the reply to a call that
\* was abandoned, or failed by garbage, is never taken for a later one's.
AnswerFits ==
  \A g \in Goroutines : result[g].kind = "answer" => result[g].nr = call[g].nr

\* The map of pending calls holds exactly the calls that still wait for a
\* result, whichever of the reply, the close and the context ended the others.
PendingAreWaiting ==
  pending = {call[g].id : g \in {h \in Goroutines : Waiting(h) /\ result[h] = Empty}}

\* The notifications that readLoop has taken off the wire so far.
Taken == dispatched + Len(queue) + (IF hand = 0 THEN 0 ELSE 1)

\* As long as the connection lives no notification is lost, repeated or
\* overtaken: the queue goes on from the last dispatched, readLoop's hand from
\* the queue, and the wire brings all the others, in their order.
NotificationsInOrder ==
  open =>
    LET Notes == {i \in 1..Len(wire) : wire[i].kind = "note"}
    IN /\ Taken <= sent
       /\ \A i \in 1..Len(queue) : queue[i] = dispatched + i
       /\ hand # 0 => hand = Taken
       /\ {wire[i].nr : i \in Notes} = (Taken + 1)..sent
       /\ \A i, j \in Notes : i < j => wire[i].nr < wire[j].nr

=============================================================================
