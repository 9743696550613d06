--------------------------- MODULE SessionProofs ----------------------------
(***************************************************************************)
(* What a session keeps, for any number of goroutines and any size of the  *)
(* queue and the socket: its types, the matching of replies with calls,    *)
(* and the order of notifications.  One lemma per part of the invariant,   *)
(* with one step per action.                                               *)
(***************************************************************************)
EXTENDS Session, TLAPS, FiniteSetTheorems

-----------------------------------------------------------------------------
(* Places and states *)

LifeType ==
  /\ pc \in [Goroutines -> PC]
  /\ mutex \in Goroutines \cup {Nobody}
  /\ session \in SessionState
  /\ daemon \in DaemonState
  /\ server \in Server /\ hungup \in BOOLEAN

LEMMA LifeStep ==
  ASSUME LifeType, [SessionNext]_allVars
  PROVE  LifeType'
<1> USE TransportAssumption DEF LifeType, PC, SessionState, DaemonState, Server, Goto
<1>1. CASE UNCHANGED <<peerVars, sessionVars>>
  BY <1>1 DEF peerVars, sessionVars
<1>2. CASE Peer
  BY <1>2 DEF Peer, Notify, Babble, Answer, ServerDies, ServerGone, HangUp, Writes, sessionVars
<1>3. CASE ReadLoop
  BY <1>3 DEF ReadLoop, Read, Enqueue, ReadFails, Rejected, peerVars, sessionVars
<1>4. CASE Dispatch \/ DispatcherReturns \/ SkipCall
  BY <1>4, SessionAssumption
     DEF Dispatch, DispatcherReturns, SkipCall, transportVars, peerVars
<1>5. ASSUME NEW g \in Goroutines, Goroutine(g)
      PROVE  LifeType'
  <2>1. CASE Arrive(g) \/ Lock(g) \/ Unlock(g) \/ BeginCall(g)
    BY <2>1 DEF Arrive, Lock, Unlock, BeginCall, transportVars, peerVars
  <2>2. CASE RegisterCall(g)
    BY <2>2 DEF RegisterCall, Register, peerVars
  <2>3. CASE WriteCall(g)
    BY <2>3 DEF WriteCall, Written, Unwritten, CallEnds, Resume, peerVars
  <2>4. CASE EndCall(g) \/ CancelCall(g)
    BY <2>4 DEF EndCall, CancelCall, Returned, Cancelled, CallEnds, Resume, peerVars
  <2>5. CASE SpawnServer(g) \/ DialServer(g) \/ StoreSession(g) \/ StartFails(g)
    BY <2>5 DEF SpawnServer, DialServer, StoreSession, StartFails, ServerGone,
       transportVars, peerVars
  <2>6. CASE StopServer(g) \/ ServerStopped(g)
    BY <2>6 DEF StopServer, ServerStopped, ServerGone, peerVars
  <2> QED
    BY <1>5, <2>1, <2>2, <2>3, <2>4, <2>5, <2>6 DEF Goroutine
<1>6. CASE ObserveExit \/ StopAll \/ Vanish
  BY <1>6 DEF ObserveExit, StopAll, Vanish, transportVars, peerVars
<1>7. CASE UNCHANGED allVars
  BY <1>1, <1>7 DEF allVars, transportVars
<1> QED
  BY <1>2, <1>3, <1>4, <1>5, <1>6, <1>7 DEF SessionNext

LEMMA LifeInvariance == SessionSpec => []LifeType
<1>1. SessionInit => LifeType
  BY TransportAssumption
     DEF SessionInit, TransportInit, LifeType, PC, SessionState, DaemonState, Server
<1>2. LifeType /\ [SessionNext]_allVars => LifeType'
  BY LifeStep
<1> QED
  BY <1>1, <1>2, PTL DEF SessionSpec

-----------------------------------------------------------------------------
(* Calls and replies *)

\* At most one call is under way, that of the owner of Client.mu; its number is
\* its id, and it is pending until it has a result.
Calling ==
  /\ \A g \in Goroutines : pc[g] \in {"write", "wait"} => g = clientMu
  /\ \A g \in Goroutines : g # clientMu => call[g] = NoRequest /\ result[g] = Empty
  /\ clientMu \in Goroutines =>
       /\ call[clientMu].id = call[clientMu].nr
       /\ call[clientMu].id \in 1..calls
       /\ pending = IF result[clientMu] = Empty THEN {call[clientMu].id} ELSE {}
  /\ clientMu = Nobody => pending = {}

\* What was asked, and what is answered, has a number that is its id.
Numbered ==
  /\ \A request \in asked : request.id = request.nr
  /\ \A i \in 1..Len(wire) : wire[i].kind = "reply" => wire[i].id = wire[i].nr

AMessage == [kind : {"note", "reply", "garbage", "request"}, id : Nat, nr : Nat]

CallType ==
  /\ calls \in Nat
  /\ clientMu \in Goroutines \cup {Nobody}
  /\ call \in [Goroutines -> [id : Nat, nr : Nat]]
  /\ result \in [Goroutines -> [kind : {"none", "answer", "error"}, nr : Nat]]
  /\ asked \subseteq [id : Nat, nr : Nat]
  /\ wire \in Seq(AMessage)
  /\ sent \in Nat

Matching == CallType /\ Calling /\ Numbered /\ AnswerFits

LEMMA MatchingInit == SessionInit => Matching
BY TransportAssumption
   DEF SessionInit, TransportInit, Matching, CallType, Calling, Numbered, AnswerFits,
       NoRequest, Empty

\* The app-server answers what it was asked, once.
LEMMA PeerMatching ==
  ASSUME Matching, Peer
  PROVE  Matching'
<1> USE TransportAssumption
    DEF Matching, CallType, Calling, Numbered, AnswerFits, Peer, callVars, sessionVars, Writes
<1>1. CASE Notify
  BY <1>1 DEF Notify, AMessage
<1>2. CASE Babble
  <2>1. PICK kind \in {"garbage", "request"} : Writes(kind, 0, 0)
    BY <1>2 DEF Babble
  <2>2. wire' = Append(wire, [kind |-> kind, id |-> 0, nr |-> 0])
    BY <2>1
  <2>3. wire' \in Seq(AMessage) /\ Numbered'
    BY <1>2, <2>1, <2>2 DEF Babble, AMessage
  <2> QED
    BY <1>2, <2>3 DEF Babble
<1>3. ASSUME NEW request \in asked, Answer(request)
      PROVE  Matching'
  <2>1. request \in [id : Nat, nr : Nat] /\ request.id = request.nr
    BY <1>3
  <2>2. wire' = Append(wire, [kind |-> "reply", id |-> request.id, nr |-> request.nr])
    BY <1>3 DEF Answer
  <2>3. wire' \in Seq(AMessage) /\ Numbered'
    BY <1>3, <2>1, <2>2 DEF Answer, AMessage
  <2> QED
    BY <1>3, <2>3 DEF Answer
<1>4. CASE ServerDies \/ HangUp
  BY <1>4 DEF ServerDies, HangUp
<1> QED
  BY <1>1, <1>2, <1>3, <1>4

\* Closing the connection fails the call that waits.
LEMMA CloseMatching ==
  ASSUME Matching, Close, UNCHANGED <<wire, asked, sent, calls, clientMu, call>>,
         \A g \in Goroutines : pc'[g] \in {"write", "wait"} => pc[g] \in {"write", "wait"}
  PROVE  Matching'
BY DEF Matching, CallType, Calling, Numbered, AnswerFits, Close, FailPending, Error, Empty, NoRequest

\* What readLoop has read is off the wire; the rest keeps its order.
LEMMA WireRead ==
  ASSUME Matching, Read
  PROVE  /\ Head(wire) \in AMessage
         /\ wire' \in Seq(AMessage)
         /\ Numbered'
         /\ Head(wire).kind = "reply" => Head(wire).id = Head(wire).nr
<1>1. wire \in Seq(AMessage) /\ wire # <<>> /\ wire' = Tail(wire)
  BY DEF Matching, CallType, Read
<1>2. /\ Len(wire) \in Nat /\ Len(wire') = Len(wire) - 1
      /\ Head(wire) = wire[1] /\ 1 \in 1..Len(wire)
      /\ \A i \in 1..Len(wire') : wire'[i] = wire[i + 1] /\ i + 1 \in 1..Len(wire)
  BY <1>1
<1>3. Head(wire) \in AMessage /\ wire' \in Seq(AMessage)
  BY <1>1
<1>4. Numbered' /\ (Head(wire).kind = "reply" => Head(wire).id = Head(wire).nr)
  BY <1>2 DEF Matching, Numbered, Read
<1> QED
  BY <1>3, <1>4

LEMMA ReadMatching ==
  ASSUME Matching, ReadLoop
  PROVE  Matching'
<1>1. CASE Read
  <2> DEFINE message == Head(wire)
  <2>1. message \in AMessage /\ wire' \in Seq(AMessage) /\ Numbered'
    BY <1>1, WireRead
  <2>2. UNCHANGED <<asked, sent, calls, clientMu, call, pc>>
    BY <1>1 DEF Read, ReadLoop, sessionVars
  <2>3. CASE message.kind \in {"note", "request"}
    BY <1>1, <2>1, <2>2, <2>3 DEF Read, Matching, CallType, Calling, AnswerFits
  <2>4. CASE message.kind = "reply"
    <3> DEFINE value == [kind |-> "answer", nr |-> message.nr]
    <3>1. message.id = message.nr /\ value \in [kind : {"none", "answer", "error"}, nr : Nat]
      BY <1>1, <2>1, <2>4, WireRead DEF AMessage
    <3>2. Deliver(message.id, value)
      BY <1>1, <2>4 DEF Read
    <3> HIDE DEF message, value
    <3>3. CallType'
      BY <2>1, <2>2, <3>1, <3>2 DEF Deliver, Matching, CallType
    <3>4. Calling' /\ AnswerFits'
      BY <2>2, <3>1, <3>2, TransportAssumption
         DEF Deliver, Matching, CallType, Calling, AnswerFits, Empty, NoRequest, value
    <3> QED
      BY <2>1, <3>3, <3>4 DEF Matching
  <2>5. CASE message.kind = "garbage"
    <3>1. FailPending
      BY <1>1, <2>5 DEF Read
    <3> HIDE DEF message
    <3>2. CallType'
      BY <2>1, <2>2, <3>1 DEF FailPending, Error, Matching, CallType
    <3>3. Calling' /\ AnswerFits'
      BY <2>2, <3>1, TransportAssumption
         DEF FailPending, Matching, CallType, Calling, AnswerFits, Error, Empty, NoRequest
    <3> QED
      BY <2>1, <3>2, <3>3 DEF Matching
  <2> QED
    BY <2>1, <2>3, <2>4, <2>5 DEF AMessage
<1>2. CASE Enqueue \/ Rejected
  BY <1>2 DEF ReadLoop, Enqueue, Rejected, peerVars, callVars, sessionVars,
     Matching, CallType, Calling, Numbered, AnswerFits
<1>3. CASE ReadFails
  BY <1>3, CloseMatching
     DEF ReadLoop, ReadFails, peerVars, sessionVars, Matching, CallType, Calling, Numbered,
         AnswerFits
<1> QED
  BY <1>1, <1>2, <1>3 DEF ReadLoop

LEMMA CallMatching ==
  ASSUME LifeType, Matching, NEW g \in Goroutines,
         RegisterCall(g) \/ WriteCall(g) \/ EndCall(g) \/ CancelCall(g)
  PROVE  Matching'
<1> USE TransportAssumption
    DEF LifeType, Matching, CallType, Calling, Numbered, AnswerFits, Empty, NoRequest, Goto
<1>1. CASE RegisterCall(g)
  BY <1>1 DEF RegisterCall, Register, NewID, peerVars, readVars
<1>2. ASSUME CallEnds(g), Waiting(g) \/ pc[g] \in {"write", "wait"},
             NEW next, Resume(g, next), next \in {"starting", "failing"}
      PROVE  Matching'
  <2>1. g = clientMu
    BY <1>2 DEF Waiting
  <2>2. \A h \in Goroutines : pc'[h] \notin {"write", "wait"}
    BY <1>2, <2>1 DEF Resume
  <2> QED
    BY <1>2, <2>1, <2>2 DEF CallEnds, Forget, ReleaseClient, peerVars
<1>3. CASE WriteCall(g)
  <2>1. CASE Written(g) /\ Goto(g, "wait")
    <3>1. call[g] \in [id : Nat, nr : Nat] /\ call[g].id = call[g].nr
      OBVIOUS
    <3> QED
      BY <1>3, <2>1, <3>1 DEF WriteCall, Written, callVars
  <2>2. CASE Unwritten(g) /\ Resume(g, "failing")
    BY <1>2, <1>3, <2>2 DEF WriteCall, Unwritten
  <2> QED
    BY <1>3, <2>1, <2>2 DEF WriteCall
<1>4. CASE EndCall(g) \/ CancelCall(g)
  BY <1>2, <1>4 DEF EndCall, CancelCall, Returned, Cancelled
<1> QED
  BY <1>1, <1>3, <1>4

LEMMA MatchingStep ==
  ASSUME LifeType, Matching, [SessionNext]_allVars
  PROVE  Matching'
<1> DEFINE NoCaller ==
      \A g \in Goroutines : pc'[g] \in {"write", "wait"} => pc[g] \in {"write", "wait"}
<1>1. CASE UNCHANGED <<wire, asked, sent, callVars>> /\ NoCaller
  BY <1>1 DEF Matching, CallType, Calling, Numbered, AnswerFits, callVars
<1>2. CASE Peer \/ ReadLoop
  BY <1>2, PeerMatching, ReadMatching
<1>3. CASE Dispatch \/ DispatcherReturns \/ SkipCall
  <2>1. NoCaller
    BY <1>3 DEF Dispatch, DispatcherReturns, SkipCall, LifeType, Goto
  <2> HIDE DEF NoCaller
  <2> QED
    BY <1>1, <1>3, <2>1 DEF Dispatch, DispatcherReturns, SkipCall, transportVars, peerVars
<1>4. ASSUME NEW g \in Goroutines, Goroutine(g)
      PROVE  Matching'
  <2>1. CASE RegisterCall(g) \/ WriteCall(g) \/ EndCall(g) \/ CancelCall(g)
    BY <2>1, CallMatching
  <2>2. ASSUME ~(RegisterCall(g) \/ WriteCall(g) \/ EndCall(g) \/ CancelCall(g))
        PROVE  NoCaller
    BY <1>4, <2>2
       DEF Goroutine, Arrive, Lock, Unlock, BeginCall, SpawnServer, DialServer, StoreSession,
           StartFails, StopServer, ServerStopped, LifeType, Goto
  <2> HIDE DEF NoCaller
  <2>3. CASE Arrive(g) \/ Lock(g) \/ Unlock(g) \/ BeginCall(g) \/ StoreSession(g)
    BY <1>1, <2>1, <2>2, <2>3
       DEF Arrive, Lock, Unlock, BeginCall, StoreSession, transportVars, peerVars
  <2>4. CASE SpawnServer(g) \/ DialServer(g) \/ ServerStopped(g)
    BY <1>1, <2>1, <2>2, <2>4 DEF SpawnServer, DialServer, ServerStopped, peerVars
  <2>5. CASE StartFails(g) \/ StopServer(g)
    <3>1. UNCHANGED <<wire, asked, sent, calls, clientMu, call>>
      BY <2>5 DEF StartFails, StopServer, peerVars
    <3>2. CASE Close
      BY <2>1, <2>2, <3>1, <3>2, CloseMatching DEF NoCaller
    <3>3. CASE UNCHANGED <<pending, result>>
      BY <1>1, <2>1, <2>2, <3>1, <3>3 DEF callVars
    <3> QED
      BY <2>5, <3>2, <3>3 DEF StartFails, StopServer, CloseTransport
  <2> QED
    BY <1>4, <2>1, <2>3, <2>4, <2>5 DEF Goroutine
<1>5. CASE ObserveExit
  BY <1>1, <1>5 DEF ObserveExit, transportVars, peerVars
<1>6. CASE Vanish
  BY <1>6, TransportAssumption
     DEF Vanish, Matching, CallType, Calling, Numbered, AnswerFits, NoRequest, Empty
<1>7. CASE StopAll
  BY <1>1, <1>7, CloseMatching DEF StopAll, CloseTransport, peerVars, callVars
<1>8. CASE UNCHANGED allVars
  BY <1>1, <1>8 DEF allVars, transportVars, peerVars, sessionVars
<1> QED
  BY <1>2, <1>3, <1>4, <1>5, <1>6, <1>7, <1>8 DEF SessionNext

THEOREM MatchingInvariance == SessionSpec => []Matching
<1>1. SessionInit => Matching
  BY MatchingInit
<1>2. LifeType /\ Matching /\ [SessionNext]_allVars => Matching'
  BY MatchingStep
<1> QED
  BY <1>1, <1>2, LifeInvariance, PTL DEF SessionSpec

\* AnswerFits for any number of goroutines and calls: no caller is ever given
\* the answer to another call.
THEOREM AnswersFit == SessionSpec => []AnswerFits
<1>1. Matching => AnswerFits
  BY DEF Matching
<1> QED
  BY <1>1, MatchingInvariance, PTL

\* PendingAreWaiting for any number of goroutines and calls: no entry of the
\* map of pending calls is left behind and none is missing.
THEOREM PendingCallsWait == SessionSpec => []PendingAreWaiting
<1>1. ASSUME Matching PROVE PendingAreWaiting
  <2> DEFINE W == {h \in Goroutines : Waiting(h) /\ result[h] = Empty}
  <2> USE TransportAssumption DEF Matching, CallType, Calling, Waiting, NoRequest
  <2>1. CASE clientMu = Nobody
    <3>1. W = {}
      BY <1>1, <2>1
    <3> QED
      BY <1>1, <2>1, <3>1 DEF PendingAreWaiting
  <2>2. CASE clientMu \in Goroutines
    <3>1. Waiting(clientMu)
      BY <1>1, <2>2
    <3>2. W = IF result[clientMu] = Empty THEN {clientMu} ELSE {}
      BY <1>1, <2>2, <3>1
    <3> QED
      BY <1>1, <2>2, <3>2 DEF PendingAreWaiting
  <2> QED
    BY <1>1, <2>1, <2>2
<1> QED
  BY <1>1, MatchingInvariance, PTL

-----------------------------------------------------------------------------
(* Types and bounds *)

Clients == {g \in Goroutines : pc[g] = "client"}

\* The calls sent and those about to be sent are within the bound.
CallBound == calls + Cardinality(Clients) <= MaxCalls

\* What is on the wire fits where it is going.
WireFits ==
  \A i \in 1..Len(wire) :
    /\ wire[i].kind = "note" => wire[i].nr \in 1..MaxNotes
    /\ wire[i].kind = "reply" => wire[i].id \in 1..MaxCalls /\ wire[i].nr \in 1..MaxCalls

Typed == LifeType /\ TransportTypeOK /\ WireFits /\ CallBound

Constants ==
  /\ IsFiniteSet(Goroutines) /\ Nobody \notin Goroutines
  /\ QueueSize \in Nat /\ QueueSize > 0 /\ MaxNotes \in Nat /\ MaxCalls \in Nat /\ MaxCalls > 0

LEMMA ConstantsFacts == Constants
BY TransportAssumption DEF Constants

LEMMA ClientsFinite == IsFiniteSet(Clients) /\ Cardinality(Clients) \in Nat
<1>1. IsFiniteSet(Clients)
  BY ConstantsFacts, FS_Subset DEF Clients, Constants
<1> QED
  BY <1>1, FS_CardinalityType

LEMMA TypedInit == SessionInit => Typed
<1> SUFFICES ASSUME SessionInit PROVE Typed
  OBVIOUS
<1>1. CallBound
  <2>1. Clients = {}
    BY DEF SessionInit, Clients
  <2> QED
    BY <2>1, FS_EmptySet, ConstantsFacts DEF SessionInit, TransportInit, CallBound, Constants
<1>2. /\ wire \in Seq(Message) /\ WireFits
      /\ queue \in Seq(1..MaxNotes) /\ Len(queue) <= QueueSize
  BY ConstantsFacts DEF SessionInit, TransportInit, WireFits, Constants
<1>3. call \in [Goroutines -> Request \cup {NoRequest}] /\ result \in [Goroutines -> Result]
  <2>1. Empty \in Result
    BY ConstantsFacts DEF Result, Empty, Constants
  <2> QED
    BY <2>1 DEF SessionInit, TransportInit
<1>4. sent \in 0..MaxNotes /\ hand \in 0..MaxNotes /\ dispatched \in 0..MaxNotes /\ calls \in 0..MaxCalls
  BY ConstantsFacts DEF SessionInit, TransportInit, Constants
<1>5. TransportTypeOK
  BY <1>2, <1>3, <1>4
     DEF SessionInit, TransportInit, TransportTypeOK, Server, Reader
<1>6. LifeType
  BY TransportAssumption
     DEF SessionInit, TransportInit, LifeType, PC, SessionState, DaemonState, Server
<1> QED
  BY <1>1, <1>2, <1>5, <1>6 DEF Typed

\* The bound is about the calls and those who wait for Client.mu only.
LEMMA SameClients ==
  ASSUME CallBound, UNCHANGED calls,
         \A g \in Goroutines : pc'[g] = "client" <=> pc[g] = "client"
  PROVE  CallBound'
<1>1. Clients' = Clients
  BY DEF Clients
<1> QED
  BY <1>1 DEF CallBound

LEMMA PeerTyped ==
  ASSUME Typed, Peer
  PROVE  (TransportTypeOK /\ WireFits /\ CallBound)'
<1>1. CallBound'
  BY SameClients
     DEF Typed, Peer, Notify, Babble, Answer, ServerDies, HangUp, callVars, sessionVars
<1>2. wire \in Seq(Message) /\ WireFits /\ TransportTypeOK
  BY DEF Typed, TransportTypeOK
<1>3. ASSUME NEW message \in Message, wire' = Append(wire, message),
             message.kind = "note" => message.nr \in 1..MaxNotes,
             message.kind = "reply" => message.id \in 1..MaxCalls /\ message.nr \in 1..MaxCalls
      PROVE  wire' \in Seq(Message) /\ WireFits'
  <2>1. wire' \in Seq(Message) /\ Len(wire') = Len(wire) + 1 /\ Len(wire) \in Nat
    BY <1>2, <1>3
  <2>2. \A i \in 1..Len(wire) : wire'[i] = wire[i]
    BY <1>2, <1>3
  <2>3. wire'[Len(wire) + 1] = message
    BY <1>2, <1>3
  <2>4. \A i \in 1..Len(wire') : i \in 1..Len(wire) \/ i = Len(wire) + 1
    BY <2>1
  <2> QED
    BY <1>2, <1>3, <2>1, <2>2, <2>3, <2>4 DEF WireFits
<1>4. CASE Notify
  <2> DEFINE message == [kind |-> "note", id |-> 0, nr |-> sent + 1]
  <2>1. sent + 1 \in 1..MaxNotes
    BY <1>2, <1>4, ConstantsFacts DEF Notify, TransportTypeOK, Constants
  <2>2. message \in Message
    BY <2>1, ConstantsFacts DEF Message, Constants
  <2>3. wire' = Append(wire, message)
    BY <1>4 DEF Notify, Writes
  <2>4. wire' \in Seq(Message) /\ WireFits'
    BY <1>3, <2>1, <2>2, <2>3
  <2> QED
    BY <1>1, <1>2, <1>4, <2>1, <2>4 DEF Notify, Writes, TransportTypeOK, readVars, callVars
<1>5. CASE Babble
  <2>1. PICK kind \in {"garbage", "request"} : Writes(kind, 0, 0)
    BY <1>5 DEF Babble
  <2> DEFINE message == [kind |-> kind, id |-> 0, nr |-> 0]
  <2>2. message \in Message /\ wire' = Append(wire, message)
    BY <2>1, ConstantsFacts DEF Message, Constants, Writes
  <2>3. wire' \in Seq(Message) /\ WireFits'
    BY <1>3, <2>2
  <2> QED
    BY <1>1, <1>2, <1>5, <2>3 DEF Babble, Writes, TransportTypeOK, readVars, callVars
<1>6. ASSUME NEW request \in asked, Answer(request)
      PROVE  (TransportTypeOK /\ WireFits /\ CallBound)'
  <2> DEFINE message == [kind |-> "reply", id |-> request.id, nr |-> request.nr]
  <2>1. request.id \in 1..MaxCalls /\ request.nr \in 1..MaxCalls
    BY <1>2, <1>6 DEF TransportTypeOK, Request
  <2>2. message \in Message
    BY <2>1, ConstantsFacts DEF Message, Constants
  <2>3. wire' = Append(wire, message)
    BY <1>6 DEF Answer, Writes
  <2>4. wire' \in Seq(Message) /\ WireFits'
    BY <1>3, <2>1, <2>2, <2>3
  <2> QED
    BY <1>1, <1>2, <1>6, <2>4 DEF Answer, Writes, TransportTypeOK, readVars, callVars
<1>7. CASE ServerDies \/ HangUp
  BY <1>1, <1>2, <1>7 DEF ServerDies, ServerGone, HangUp, TransportTypeOK, WireFits, Server, readVars, callVars
<1> QED
  BY <1>4, <1>5, <1>6, <1>7 DEF Peer

\* Closing keeps the types.
LEMMA CloseTyped ==
  ASSUME TransportTypeOK, Close
  PROVE  /\ open' \in BOOLEAN /\ done' \in BOOLEAN
         /\ pending' \subseteq 1..MaxCalls /\ result' \in [Goroutines -> Result]
<1>1. Error \in Result
  BY ConstantsFacts DEF Error, Result, Constants
<1>2. result' \in [Goroutines -> Result]
  BY <1>1 DEF TransportTypeOK, Close, FailPending
<1> QED
  BY <1>2 DEF Close, FailPending

LEMMA ReadTyped ==
  ASSUME Typed, ReadLoop
  PROVE  (TransportTypeOK /\ WireFits /\ CallBound)'
<1>1. CallBound'
  BY SameClients
     DEF Typed, ReadLoop, Read, Enqueue, ReadFails, Rejected, callVars, sessionVars
<1>2. wire \in Seq(Message) /\ WireFits /\ TransportTypeOK
  BY DEF Typed, TransportTypeOK
<1>3. CASE Read
  <2> DEFINE message == Head(wire)
  <2>1. /\ Len(wire) \in Nat /\ Len(wire') = Len(wire) - 1
        /\ message = wire[1] /\ 1 \in 1..Len(wire)
        /\ \A i \in 1..Len(wire') : wire'[i] = wire[i + 1] /\ i + 1 \in 1..Len(wire)
    BY <1>2, <1>3 DEF Read
  <2>2. message \in Message /\ wire' \in Seq(Message)
    BY <1>2, <1>3 DEF Read
  <2>3. WireFits'
    BY <1>2, <2>1 DEF WireFits
  <2>4. /\ message.kind = "note" => message.nr \in 1..MaxNotes
        /\ message.kind = "reply" => message.nr \in 1..MaxCalls
    BY <1>2, <2>1 DEF WireFits
  <2> HIDE DEF message
  <2>5. hand' \in 0..MaxNotes /\ pending' \subseteq 1..MaxCalls /\ result' \in [Goroutines -> Result]
    <3>1. CASE message.kind = "note"
      <4>1. hand' = message.nr /\ UNCHANGED <<pending, result>>
        BY <1>3, <3>1 DEF Read, message
      <4> QED
        BY <1>2, <2>4, <3>1, <4>1, ConstantsFacts DEF TransportTypeOK, Constants
    <3>2. CASE message.kind = "reply"
      <4>1. [kind |-> "answer", nr |-> message.nr] \in Result
        BY <2>4, <3>2, ConstantsFacts DEF Result, Constants
      <4>2. Deliver(message.id, [kind |-> "answer", nr |-> message.nr]) /\ UNCHANGED hand
        BY <1>3, <3>2 DEF Read, message
      <4> QED
        BY <1>2, <4>1, <4>2 DEF Deliver, TransportTypeOK
    <3>3. CASE message.kind = "garbage"
      <4>1. Error \in Result
        BY ConstantsFacts DEF Error, Result, Constants
      <4>2. FailPending /\ UNCHANGED hand
        BY <1>3, <3>3 DEF Read, message
      <4> QED
        BY <1>2, <4>1, <4>2 DEF FailPending, TransportTypeOK
    <3>4. CASE message.kind = "request"
      BY <1>2, <1>3, <3>4 DEF Read, message, TransportTypeOK
    <3> QED
      BY <2>2, <3>1, <3>2, <3>3, <3>4 DEF Message
  <2>6. reader' \in Reader
    BY <1>3 DEF Read, Reader
  <2> QED
    BY <1>1, <1>2, <1>3, <2>2, <2>3, <2>5, <2>6 DEF Read, TransportTypeOK
<1>4. CASE Enqueue
  <2>1. queue' \in Seq(1..MaxNotes) /\ Len(queue') <= QueueSize
    BY <1>2, <1>4, ConstantsFacts DEF Enqueue, RoomInQueue, TransportTypeOK, Constants
  <2> QED
    BY <1>1, <1>2, <1>4, <2>1, ConstantsFacts
       DEF Enqueue, TransportTypeOK, WireFits, peerVars, callVars, Constants
<1>5. CASE ReadFails
  BY <1>1, <1>2, <1>5, CloseTyped DEF ReadFails, TransportTypeOK, WireFits, Reader, peerVars
<1>6. CASE Rejected
  BY <1>1, <1>2, <1>6 DEF Rejected, TransportTypeOK, WireFits, Reader, peerVars, callVars
<1> QED
  BY <1>3, <1>4, <1>5, <1>6 DEF ReadLoop

LEMMA DispatchTyped ==
  ASSUME Typed, Dispatch \/ DispatcherReturns \/ SkipCall
  PROVE  (TransportTypeOK /\ WireFits /\ CallBound)'
<1>1. CallBound'
  BY SameClients, SessionAssumption
     DEF Typed, LifeType, Dispatch, DispatcherReturns, SkipCall, Goto,
         transportVars, callVars
<1>2. TransportTypeOK /\ WireFits
  BY DEF Typed
<1>3. CASE Dispatch
  <2>1. /\ Head(queue) \in 1..MaxNotes /\ Tail(queue) \in Seq(1..MaxNotes)
        /\ Len(Tail(queue)) <= QueueSize
    BY <1>2, <1>3, ConstantsFacts DEF Dispatch, TransportTypeOK, Constants
  <2>2. queue' \in Seq(1..MaxNotes) /\ Len(queue') <= QueueSize /\ dispatched' \in 0..MaxNotes
    BY <1>3, <2>1, ConstantsFacts DEF Dispatch, Constants
  <2> QED
    BY <1>1, <1>2, <1>3, <2>2 DEF Dispatch, TransportTypeOK, WireFits, peerVars, callVars
<1>4. CASE UNCHANGED transportVars
  BY <1>1, <1>2, <1>4 DEF transportVars, peerVars, readVars, callVars, TransportTypeOK, WireFits
<1> QED
  BY <1>3, <1>4 DEF DispatcherReturns, SkipCall

\* One goroutine more waits for Client.mu.
LEMMA OneMoreClient ==
  ASSUME Typed, NEW g \in Goroutines, pc[g] # "client", Goto(g, "client"),
         CallsLeft, UNCHANGED calls
  PROVE  CallBound'
<1>1. Clients' = Clients \cup {g} /\ g \notin Clients
  BY DEF Typed, LifeType, Goto, Clients
<1>2. Cardinality(Clients') = Cardinality(Clients) + 1
  BY <1>1, ClientsFinite, FS_AddElement
<1>3. calls + Cardinality(Clients) < MaxCalls /\ calls \in Nat
  BY ConstantsFacts DEF CallsLeft, Clients, Typed, TransportTypeOK, Constants
<1> QED
  BY <1>2, <1>3, ClientsFinite, ConstantsFacts DEF CallBound, Constants

LEMMA RegisterTyped ==
  ASSUME Typed, NEW g \in Goroutines, RegisterCall(g)
  PROVE  (TransportTypeOK /\ WireFits /\ CallBound)'
<1>1. TransportTypeOK /\ WireFits /\ CallBound /\ pc \in [Goroutines -> PC]
  BY DEF Typed, LifeType
<1>2. Clients' = Clients \ {g} /\ g \in Clients
  BY <1>1 DEF RegisterCall, Goto, Clients
<1>3. Cardinality(Clients') = Cardinality(Clients) - 1 /\ Cardinality(Clients) >= 1
  <2>1. IsFiniteSet(Clients') /\ Cardinality(Clients') \in Nat
    BY <1>2, ClientsFinite, FS_RemoveElement, FS_CardinalityType
  <2> QED
    BY <1>2, <2>1, ClientsFinite, FS_RemoveElement
<1>4. calls \in Nat /\ calls + 1 \in 1..MaxCalls
  BY <1>1, <1>3, ClientsFinite, ConstantsFacts DEF CallBound, TransportTypeOK, Constants
<1> DEFINE request == [id |-> calls + 1, nr |-> calls + 1]
<1>5. request \in Request
  BY <1>4 DEF Request
<1>6. /\ calls' = calls + 1 /\ clientMu' = g
      /\ call' = [call EXCEPT ![g] = request]
      /\ pending' = pending \cup {calls + 1}
      /\ UNCHANGED <<peerVars, readVars, result>>
  BY DEF RegisterCall, Register, NewID
<1>7. CallBound'
  BY <1>1, <1>3, <1>4, <1>6, ClientsFinite, ConstantsFacts DEF CallBound, Constants
<1> HIDE DEF request
<1>8. /\ call' \in [Goroutines -> Request \cup {NoRequest}]
      /\ pending' \subseteq 1..MaxCalls /\ calls' \in 0..MaxCalls
  BY <1>1, <1>4, <1>5, <1>6 DEF TransportTypeOK
<1> QED
  BY <1>1, <1>6, <1>7, <1>8 DEF TransportTypeOK, WireFits, peerVars, readVars

LEMMA CallTyped ==
  ASSUME Typed, Matching, NEW g \in Goroutines,
         BeginCall(g) \/ WriteCall(g) \/ EndCall(g) \/ CancelCall(g)
  PROVE  (TransportTypeOK /\ WireFits /\ CallBound)'
<1>1. TransportTypeOK /\ WireFits /\ CallBound /\ pc \in [Goroutines -> PC]
  BY DEF Typed, LifeType
<1>2. CASE BeginCall(g)
  <2>1. UNCHANGED transportVars
    BY <1>2 DEF BeginCall
  <2>2. CallBound'
    BY <1>2, <2>1, OneMoreClient DEF BeginCall, transportVars, callVars
  <2> QED
    BY <1>1, <2>1, <2>2
       DEF TransportTypeOK, WireFits, transportVars, peerVars, readVars, callVars
<1>3. CASE WriteCall(g) /\ Written(g) /\ Goto(g, "wait")
  <2>1. CallBound'
    BY <1>1, <1>3, SameClients DEF WriteCall, Written, Goto, callVars
  <2>2. call[g] \in Request
    BY <1>1, <1>3, TransportAssumption DEF WriteCall, Matching, Calling, TransportTypeOK, NoRequest
  <2> QED
    BY <1>1, <1>3, <2>1, <2>2 DEF Written, TransportTypeOK, WireFits, readVars, callVars
<1>4. ASSUME CallEnds(g), pc[g] \in {"write", "wait"}, NEW next, Resume(g, next),
             next \in {"starting", "failing"}
      PROVE  (TransportTypeOK /\ WireFits /\ CallBound)'
  <2>1. CallBound'
    BY <1>1, <1>4, SameClients DEF CallEnds, Resume, Goto
  <2>2. Empty \in Result
    BY ConstantsFacts DEF Empty, Result, Constants
  <2>3. /\ call' \in [Goroutines -> Request \cup {NoRequest}]
        /\ result' \in [Goroutines -> Result]
        /\ pending' \subseteq 1..MaxCalls /\ clientMu' = Nobody
    BY <1>1, <1>4, <2>2 DEF CallEnds, Forget, ReleaseClient, TransportTypeOK
  <2> QED
    BY <1>1, <1>4, <2>1, <2>3 DEF CallEnds, TransportTypeOK, WireFits, peerVars, readVars
<1>5. CASE WriteCall(g) /\ Unwritten(g) /\ Resume(g, "failing")
  BY <1>4, <1>5 DEF WriteCall, Unwritten
<1>6. CASE EndCall(g) \/ CancelCall(g)
  BY <1>4, <1>6 DEF EndCall, CancelCall, Returned, Cancelled
<1> QED
  BY <1>2, <1>3, <1>5, <1>6 DEF WriteCall

LEMMA ManagerTyped ==
  ASSUME Typed, NEW g \in Goroutines,
         \/ Arrive(g) \/ Lock(g) \/ Unlock(g)
         \/ SpawnServer(g) \/ DialServer(g) \/ StoreSession(g) \/ StartFails(g)
         \/ StopServer(g) \/ ServerStopped(g)
  PROVE  (TransportTypeOK /\ WireFits /\ CallBound)'
<1>1. TransportTypeOK /\ WireFits /\ CallBound /\ pc \in [Goroutines -> PC]
  BY DEF Typed, LifeType
<1>2. ASSUME ~DialServer(g) PROVE CallBound'
  BY <1>1, <1>2, SameClients
     DEF Arrive, Lock, Unlock, SpawnServer, StoreSession, StartFails, StopServer, ServerStopped,
         Goto, transportVars, callVars
<1>3. CASE Arrive(g) \/ Lock(g) \/ Unlock(g) \/ StoreSession(g)
  <2>1. UNCHANGED transportVars /\ ~DialServer(g)
    BY <1>1, <1>3 DEF Arrive, Lock, Unlock, StoreSession, DialServer
  <2> QED
    BY <1>1, <1>2, <2>1
       DEF TransportTypeOK, WireFits, transportVars, peerVars, readVars, callVars
<1>4. CASE SpawnServer(g) \/ ServerStopped(g)
  <2>1. ~DialServer(g)
    BY <1>4 DEF SpawnServer, ServerStopped, DialServer
  <2> QED
    BY <1>1, <1>2, <1>4, <2>1
       DEF SpawnServer, ServerStopped, ServerGone, TransportTypeOK, WireFits, Server,
           readVars, callVars
<1>5. CASE DialServer(g)
  <2>1. CallBound'
    BY <1>5, OneMoreClient DEF DialServer, callVars
  <2> QED
    BY <1>1, <1>5, <2>1 DEF DialServer, TransportTypeOK, WireFits, Reader, peerVars, callVars
<1>6. CASE StartFails(g)
  <2>1. ~DialServer(g)
    BY <1>1, <1>6 DEF StartFails, DialServer, Goto
  <2> QED
    BY <1>1, <1>2, <1>6, <2>1, CloseTyped
       DEF StartFails, ServerGone, CloseTransport, TransportTypeOK, WireFits, Server
<1>7. CASE StopServer(g)
  <2>1. ~DialServer(g)
    BY <1>7 DEF StopServer, DialServer
  <2> QED
    BY <1>1, <1>2, <1>7, <2>1, CloseTyped
       DEF StopServer, CloseTransport, TransportTypeOK, WireFits, peerVars
<1> QED
  BY <1>3, <1>4, <1>5, <1>6, <1>7

LEMMA StopTyped ==
  ASSUME Typed, ObserveExit \/ StopAll \/ Vanish
  PROVE  (TransportTypeOK /\ WireFits /\ CallBound)'
<1>1. TransportTypeOK /\ WireFits /\ CallBound /\ pc \in [Goroutines -> PC]
  BY DEF Typed, LifeType
<1>2. CASE ObserveExit
  <2>1. UNCHANGED <<transportVars, pc>>
    BY <1>2 DEF ObserveExit
  <2>2. CallBound'
    BY <1>1, <2>1, SameClients DEF transportVars, callVars
  <2> QED
    BY <1>1, <2>1, <2>2
       DEF TransportTypeOK, WireFits, transportVars, peerVars, readVars, callVars
<1>3. CASE Vanish
  <2>1. Clients' = {}
    BY <1>1, <1>3 DEF Vanish, Clients
  <2>2. CallBound'
    BY <1>3, <2>1, FS_EmptySet, ConstantsFacts DEF Vanish, CallBound, Constants
  <2>3. /\ wire' \in Seq(Message) /\ WireFits'
        /\ queue' \in Seq(1..MaxNotes) /\ Len(queue') <= QueueSize
    BY <1>3, ConstantsFacts DEF Vanish, WireFits, Constants
  <2>4. call' \in [Goroutines -> Request \cup {NoRequest}] /\ result' \in [Goroutines -> Result]
    <3>1. Empty \in Result
      BY ConstantsFacts DEF Result, Empty, Constants
    <3> QED
      BY <1>3, <3>1 DEF Vanish
  <2>5. /\ sent' \in 0..MaxNotes /\ hand' \in 0..MaxNotes /\ dispatched' \in 0..MaxNotes
        /\ calls' \in 0..MaxCalls /\ server' \in Server
    BY <1>1, <1>3, ConstantsFacts DEF Vanish, Constants, TransportTypeOK, Server
  <2> QED
    BY <1>3, <2>2, <2>3, <2>4, <2>5 DEF Vanish, TransportTypeOK, Reader
<1>4. CASE StopAll
  <2>1. /\ CloseTransport \/ UNCHANGED <<open, done, pending, result>>
        /\ UNCHANGED <<peerVars, reader, hand, queue, dispatched, calls, clientMu, call, pc>>
    BY <1>4 DEF StopAll
  <2>2. CallBound'
    BY <1>1, <2>1, SameClients
  <2> QED
    BY <1>1, <2>1, <2>2, CloseTyped DEF CloseTransport, TransportTypeOK, WireFits, peerVars
<1> QED
  BY <1>2, <1>3, <1>4

LEMMA TypedStep ==
  ASSUME Typed, Matching, [SessionNext]_allVars
  PROVE  Typed'
<1>1. LifeType'
  BY LifeStep DEF Typed
<1>2. CASE UNCHANGED allVars
  <2>1. CallBound'
    BY <1>2, SameClients DEF Typed, allVars, sessionVars, transportVars, callVars
  <2> QED
    BY <1>1, <1>2, <2>1
       DEF Typed, TransportTypeOK, WireFits, allVars, transportVars, peerVars, readVars, callVars
<1>3. CASE SessionNext
  BY <1>1, <1>3, PeerTyped, ReadTyped, DispatchTyped, RegisterTyped, CallTyped, ManagerTyped,
     StopTyped
     DEF SessionNext, Goroutine, Typed
<1> QED
  BY <1>2, <1>3

\* SessionTypeOK for any number of goroutines and any bounds: in particular the
\* queue never holds more than it has room for.
THEOREM SessionTypeCorrect == SessionSpec => []SessionTypeOK
<1>1. SessionInit => Typed
  BY TypedInit
<1>2. Typed /\ Matching /\ [SessionNext]_allVars => Typed'
  BY TypedStep
<1>3. Typed => SessionTypeOK
  BY DEF Typed, LifeType, SessionTypeOK
<1> QED
  BY <1>1, <1>2, <1>3, MatchingInvariance, PTL DEF SessionSpec

-----------------------------------------------------------------------------
(* Notifications *)

\* A connection that is not yet opened has carried nothing.
Unstarted ==
  reader = "off" =>
    /\ ~open
    /\ wire = <<>> /\ sent = 0 /\ hand = 0 /\ queue = <<>> /\ dispatched = 0

Delivery == Unstarted /\ NotificationsInOrder

Notes == {i \in 1..Len(wire) : wire[i].kind = "note"}

\* What NotificationsInOrder says while the connection is open.
InOrder ==
  /\ Taken <= sent
  /\ \A i \in 1..Len(queue) : queue[i] = dispatched + i
  /\ hand # 0 => hand = Taken
  /\ {wire[i].nr : i \in Notes} = (Taken + 1)..sent
  /\ \A i, j \in Notes : i < j => wire[i].nr < wire[j].nr

LEMMA IntervalGrows ==
  ASSUME NEW a \in Nat, NEW b \in Nat, a <= b
  PROVE  (a + 1)..(b + 1) = ((a + 1)..b) \cup {b + 1}
OBVIOUS

\* A message of the app-server comes last on the wire.
LEMMA WrittenInOrder ==
  ASSUME TransportTypeOK, InOrder, UNCHANGED <<hand, queue, dispatched>>,
         NEW m \in Message, wire' = Append(wire, m), sent' \in Nat,
         IF m.kind = "note" THEN m.nr = sent + 1 /\ sent' = sent + 1 ELSE sent' = sent
  PROVE  InOrder'
<1> USE DEF TransportTypeOK
<1>1. /\ dispatched \in Nat /\ hand \in Nat /\ sent \in Nat /\ Len(queue) \in Nat /\ Len(wire) \in Nat
      /\ Taken \in Nat /\ Taken' = Taken
  BY ConstantsFacts DEF Taken, Constants
<1>2. /\ Len(wire') = Len(wire) + 1 /\ wire'[Len(wire) + 1] = m
      /\ \A i \in 1..Len(wire) : wire'[i] = wire[i]
  BY <1>1
<1>3. Notes' = IF m.kind = "note" THEN Notes \cup {Len(wire) + 1} ELSE Notes
  BY <1>1, <1>2 DEF Notes
<1>4. \A i \in Notes : i \in 1..Len(wire) /\ wire'[i] = wire[i] /\ wire[i].nr \in (Taken + 1)..sent
  BY <1>2 DEF Notes, InOrder
<1>5. {wire'[i].nr : i \in Notes'} = (Taken + 1)..sent'
  <2>1. CASE m.kind = "note"
    <3>1. {wire'[i].nr : i \in Notes'} = {wire[i].nr : i \in Notes} \cup {sent + 1}
      BY <1>2, <1>3, <1>4, <2>1
    <3>2. (Taken + 1)..(sent + 1) = ((Taken + 1)..sent) \cup {sent + 1}
      <4>1. Taken <= sent
        BY DEF InOrder
      <4> QED
        BY <1>1, <4>1, IntervalGrows
    <3> QED
      BY <2>1, <3>1, <3>2 DEF InOrder
  <2>2. CASE m.kind # "note"
    <3>1. {wire'[i].nr : i \in Notes'} = {wire[i].nr : i \in Notes}
      BY <1>3, <1>4, <2>2
    <3> QED
      BY <2>2, <3>1 DEF InOrder
  <2> QED
    BY <2>1, <2>2
<1>6. \A i, j \in Notes' : i < j => wire'[i].nr < wire'[j].nr
  <2> SUFFICES ASSUME NEW i \in Notes', NEW j \in Notes', i < j PROVE wire'[i].nr < wire'[j].nr
    OBVIOUS
  <2>1. i \in Notes
    BY <1>1, <1>2, <1>3, <1>4 DEF Notes
  <2>2. CASE j \in Notes
    BY <1>4, <2>1, <2>2 DEF InOrder
  <2>3. CASE j = Len(wire) + 1 /\ m.kind = "note"
    BY <1>1, <1>2, <1>4, <2>1, <2>3
  <2> QED
    BY <1>3, <2>2, <2>3
<1>7. Taken' <= sent' /\ (hand' # 0 => hand' = Taken')
  BY <1>1 DEF InOrder
<1>8. \A i \in 1..Len(queue') : queue'[i] = dispatched' + i
  BY DEF InOrder
<1> QED
  BY <1>1, <1>5, <1>6, <1>7, <1>8 DEF InOrder

\* What readLoop takes off the wire is the next notification, or none at all.
LEMMA ReadInOrder ==
  ASSUME TransportTypeOK, InOrder, hand = 0, UNCHANGED <<sent, queue, dispatched>>,
         wire # <<>>, wire' = Tail(wire),
         IF Head(wire).kind = "note" THEN hand' = Head(wire).nr ELSE hand' = 0
  PROVE  InOrder'
<1> USE DEF TransportTypeOK
<1>1. /\ dispatched \in Nat /\ hand \in Nat /\ sent \in Nat /\ Len(queue) \in Nat /\ Len(wire) \in Nat
      /\ Taken \in Nat /\ Taken = dispatched + Len(queue)
  BY ConstantsFacts DEF Taken, Constants
<1>2. /\ Len(wire') = Len(wire) - 1 /\ Head(wire) = wire[1] /\ 1 \in 1..Len(wire)
      /\ \A i \in 1..Len(wire') : wire'[i] = wire[i + 1]
  BY <1>1
<1>3. \A i : i \in Notes' <=> i \in 1..Len(wire') /\ i + 1 \in Notes
  <2>1. \A i \in 1..Len(wire') : i + 1 \in 1..Len(wire) /\ wire'[i] = wire[i + 1]
    BY <1>1, <1>2
  <2> QED
    BY <2>1 DEF Notes
<1>4. \A i \in Notes : /\ i \in 1..Len(wire) /\ wire[i].nr \in (Taken + 1)..sent
                       /\ i # 1 => i - 1 \in Notes' /\ wire'[i - 1] = wire[i]
  <2> SUFFICES ASSUME NEW i \in Notes
               PROVE  /\ i \in 1..Len(wire) /\ wire[i].nr \in (Taken + 1)..sent
                      /\ i # 1 => i - 1 \in Notes' /\ wire'[i - 1] = wire[i]
    OBVIOUS
  <2>1. i \in 1..Len(wire) /\ wire[i].nr \in (Taken + 1)..sent
    BY DEF Notes, InOrder
  <2>2. ASSUME i # 1 PROVE i - 1 \in 1..Len(wire') /\ (i - 1) + 1 = i
    BY <1>1, <1>2, <2>1, <2>2
  <2> QED
    BY <1>2, <1>3, <2>1, <2>2
<1>5. \A i, j \in Notes' : i < j => wire'[i].nr < wire'[j].nr
  <2> SUFFICES ASSUME NEW i \in Notes', NEW j \in Notes', i < j PROVE wire'[i].nr < wire'[j].nr
    OBVIOUS
  <2>1. /\ i + 1 \in Notes /\ j + 1 \in Notes /\ i + 1 < j + 1
        /\ wire'[i] = wire[i + 1] /\ wire'[j] = wire[j + 1]
    BY <1>1, <1>2, <1>3
  <2> QED
    BY <2>1 DEF InOrder
<1>6. CASE Head(wire).kind # "note"
  <2>1. 1 \notin Notes /\ hand' = 0 /\ Taken' = Taken
    BY <1>1, <1>2, <1>6 DEF Notes, Taken
  <2>2. {wire'[i].nr : i \in Notes'} = {wire[i].nr : i \in Notes}
    <3>1. ASSUME NEW i \in Notes' PROVE wire'[i].nr \in {wire[k].nr : k \in Notes}
      BY <1>2, <1>3
    <3>2. ASSUME NEW i \in Notes PROVE wire[i].nr \in {wire'[k].nr : k \in Notes'}
      <4>1. i - 1 \in Notes' /\ wire'[i - 1] = wire[i]
        BY <1>4, <2>1
      <4> QED
        BY <4>1
    <3> QED
      BY <3>1, <3>2
  <2> QED
    BY <1>1, <1>5, <2>1, <2>2 DEF InOrder
<1>7. CASE Head(wire).kind = "note"
  <2>1. 1 \in Notes /\ hand' = wire[1].nr
    BY <1>2, <1>7 DEF Notes
  <2>2. wire[1].nr = Taken + 1
    <3>1. Taken + 1 \in (Taken + 1)..sent
      BY <1>1, <1>4, <2>1
    <3>2. PICK i \in Notes : wire[i].nr = Taken + 1
      BY <3>1 DEF InOrder
    <3>3. i # 1 => wire[1].nr < wire[i].nr
      BY <1>4, <2>1 DEF InOrder
    <3>4. wire[1].nr \in Nat /\ wire[1].nr >= Taken + 1
      BY <1>1, <1>4, <2>1
    <3> QED
      BY <1>1, <3>2, <3>3, <3>4
  <2>3. hand' # 0 /\ hand' = Taken' /\ Taken' = Taken + 1 /\ Taken' <= sent
    BY <1>1, <1>4, <2>1, <2>2 DEF Taken
  <2>4. {wire'[i].nr : i \in Notes'} = (Taken' + 1)..sent
    <3>1. ASSUME NEW i \in Notes' PROVE wire'[i].nr \in (Taken' + 1)..sent
      <4>1. i + 1 \in Notes /\ 1 < i + 1 /\ wire'[i] = wire[i + 1]
        BY <1>1, <1>2, <1>3
      <4>2. wire[i + 1].nr \in (Taken + 1)..sent /\ wire[1].nr < wire[i + 1].nr
        BY <1>4, <2>1, <4>1 DEF InOrder
      <4>3. wire[i + 1].nr \in (Taken + 2)..sent
        BY <1>1, <2>2, <4>2
      <4>4. (Taken + 2)..sent = (Taken' + 1)..sent
        BY <1>1, <2>3
      <4> QED
        BY <4>1, <4>3, <4>4
    <3>2. ASSUME NEW n \in (Taken' + 1)..sent PROVE \E i \in Notes' : wire'[i].nr = n
      <4>1. n \in (Taken + 1)..sent /\ n # Taken + 1
        BY <1>1, <2>3
      <4>2. PICK i \in Notes : wire[i].nr = n
        BY <4>1 DEF InOrder
      <4> QED
        BY <1>4, <2>2, <4>1, <4>2
    <3> QED
      BY <3>1, <3>2
  <2>5. \A i \in 1..Len(queue') : queue'[i] = dispatched' + i
    BY DEF InOrder
  <2> QED
    BY <1>5, <2>3, <2>4, <2>5 DEF InOrder
<1> QED
  BY <1>6, <1>7

\* What is taken from the hand or the queue was next there.
LEMMA QueueInOrder ==
  ASSUME TransportTypeOK, InOrder, UNCHANGED <<wire, sent>>,
         \/ /\ hand # 0 /\ queue' = Append(queue, hand) /\ hand' = 0
            /\ UNCHANGED dispatched
         \/ /\ queue # <<>> /\ queue' = Tail(queue) /\ dispatched' = Head(queue)
            /\ UNCHANGED hand
  PROVE  InOrder'
<1> USE DEF TransportTypeOK
<1>1. /\ dispatched \in Nat /\ hand \in Nat /\ sent \in Nat /\ Len(queue) \in Nat
  BY ConstantsFacts DEF Constants
<1>2. Notes' = Notes
  BY DEF Notes
<1>3. CASE /\ hand # 0 /\ queue' = Append(queue, hand) /\ hand' = 0
           /\ UNCHANGED dispatched
  <2>1. /\ Len(queue') = Len(queue) + 1 /\ queue'[Len(queue) + 1] = hand
        /\ \A i \in 1..Len(queue) : queue'[i] = queue[i]
    BY <1>1, <1>3
  <2>2. Taken' = Taken /\ hand = dispatched + Len(queue) + 1
    BY <1>1, <1>3, <2>1 DEF Taken, InOrder
  <2>3. \A i \in 1..Len(queue) : queue'[i] = dispatched' + i
    BY <1>3, <2>1 DEF InOrder
  <2>4. \A i \in 1..Len(queue') : i \in 1..Len(queue) \/ i = Len(queue) + 1
    BY <1>1, <2>1
  <2>5. queue'[Len(queue) + 1] = dispatched' + (Len(queue) + 1)
    BY <1>1, <1>3, <2>1, <2>2
  <2>6. \A i \in 1..Len(queue') : queue'[i] = dispatched' + i
    BY <2>3, <2>4, <2>5
  <2> QED
    BY <1>2, <1>3, <2>2, <2>6 DEF InOrder
<1>4. CASE /\ queue # <<>> /\ queue' = Tail(queue) /\ dispatched' = Head(queue)
           /\ UNCHANGED hand
  <2>1. /\ Len(queue') = Len(queue) - 1 /\ Head(queue) = queue[1] /\ 1 \in 1..Len(queue)
        /\ \A i \in 1..Len(queue') : queue'[i] = queue[i + 1] /\ i + 1 \in 1..Len(queue)
    BY <1>1, <1>4
  <2>2. dispatched' = dispatched + 1
    BY <1>4, <2>1 DEF InOrder
  <2>3. Taken' = Taken
    <3>1. dispatched' + Len(queue') = dispatched + Len(queue)
      BY <1>1, <2>1, <2>2
    <3> QED
      BY <1>4, <3>1 DEF Taken
  <2>4. \A i \in 1..Len(queue') : queue'[i] = dispatched' + i
    BY <1>1, <2>1, <2>2 DEF InOrder
  <2> QED
    BY <1>2, <1>4, <2>3, <2>4 DEF InOrder
<1> QED
  BY <1>3, <1>4

\* Delivery is preserved by every step of the session.
LEMMA DeliveryStep ==
  ASSUME SessionTypeOK, Delivery, [SessionNext]_allVars
  PROVE  Delivery'
<1> USE DEF Delivery
<1>0. /\ NotificationsInOrder <=> (open => InOrder)
      /\ NotificationsInOrder' <=> (open' => InOrder')
  BY DEF NotificationsInOrder, InOrder, Notes
<1>1. TransportTypeOK
  BY DEF SessionTypeOK
<1>2. ASSUME InOrder, UNCHANGED <<wire, sent, hand, queue, dispatched>> PROVE InOrder'
  BY <1>2 DEF InOrder, Taken, Notes
<1>3. ASSUME UNCHANGED <<wire, sent, hand, queue, dispatched>>, open' \in {open, FALSE}
      PROVE  NotificationsInOrder'
  <2> SUFFICES ASSUME open' PROVE InOrder'
    BY <1>0
  <2> QED
    BY <1>2, <1>3, <1>0
<1>4. CASE UNCHANGED <<reader, wire, sent, hand, queue, dispatched>> /\ open' \in {open, FALSE}
  <2>1. Unstarted'
    BY <1>4 DEF Unstarted
  <2> QED
    BY <1>3, <1>4, <2>1
<1>5. open \in BOOLEAN
  BY <1>1 DEF TransportTypeOK
<1>6. CASE Peer
  <2>1. CASE ServerDies \/ HangUp
    BY <1>4, <1>5, <2>1 DEF ServerDies, HangUp, readVars
  <2>2. ASSUME NEW m \in Message, open, wire' = Append(wire, m), UNCHANGED readVars,
               sent' \in Nat,
               IF m.kind = "note" THEN m.nr = sent + 1 /\ sent' = sent + 1 ELSE sent' = sent
        PROVE  Delivery'
    <3>1. InOrder'
      BY <1>1, <2>2, <1>0, WrittenInOrder DEF readVars
    <3>2. Unstarted'
      BY <2>2 DEF Unstarted, readVars
    <3> QED
      BY <3>1, <3>2, <1>0
  <2>3. CASE Notify
    <3>1. [kind |-> "note", id |-> 0, nr |-> sent + 1] \in Message /\ sent + 1 \in Nat
      BY <1>1, <2>3, ConstantsFacts DEF Notify, TransportTypeOK, Message, Constants
    <3> QED
      BY <2>2, <2>3, <3>1 DEF Notify, Writes
  <2>4. sent \in Nat
    BY <1>1, ConstantsFacts DEF TransportTypeOK, Constants
  <2>5. CASE Babble
    <3>1. PICK kind \in {"garbage", "request"} : Writes(kind, 0, 0)
      BY <2>5 DEF Babble
    <3>2. [kind |-> kind, id |-> 0, nr |-> 0] \in Message
      BY ConstantsFacts DEF Message, Constants
    <3> QED
      BY <2>2, <2>4, <2>5, <3>1, <3>2 DEF Babble, Writes
  <2>6. ASSUME NEW request \in asked, Answer(request) PROVE Delivery'
    <3>1. [kind |-> "reply", id |-> request.id, nr |-> request.nr] \in Message
      BY <1>1, ConstantsFacts DEF TransportTypeOK, Request, Message, Constants
    <3> QED
      BY <2>2, <2>4, <2>6, <3>1 DEF Answer, Writes
  <2> QED
    BY <1>6, <2>1, <2>3, <2>5, <2>6 DEF Peer
<1>7. CASE ReadLoop
  <2>1. Unstarted'
    BY <1>7 DEF ReadLoop, Read, Enqueue, ReadFails, Rejected, Unstarted
  <2>2. CASE Read
    BY <1>1, <2>1, <2>2, <1>0, ReadInOrder DEF Read
  <2>3. CASE Enqueue
    BY <1>1, <2>1, <2>3, <1>0, QueueInOrder DEF Enqueue, peerVars
  <2>4. CASE ReadFails \/ Rejected
    BY <1>3, <1>5, <2>1, <2>4 DEF ReadFails, Rejected, Close, peerVars
  <2> QED
    BY <1>7, <2>2, <2>3, <2>4 DEF ReadLoop
<1>8. CASE Dispatch
  <2>1. Unstarted'
    BY <1>8 DEF Dispatch, Unstarted
  <2> QED
    BY <1>1, <1>8, <2>1, <1>0, QueueInOrder DEF Dispatch, peerVars
<1>9. CASE DispatcherReturns \/ SkipCall
  BY <1>4, <1>5, <1>9 DEF DispatcherReturns, SkipCall, transportVars, peerVars, readVars
<1>10. ASSUME NEW g \in Goroutines, Goroutine(g) PROVE Delivery'
  <2>1. CASE Arrive(g) \/ Lock(g) \/ Unlock(g) \/ BeginCall(g) \/ StoreSession(g)
    BY <1>4, <1>5, <2>1
       DEF Arrive, Lock, Unlock, BeginCall, StoreSession, transportVars, peerVars, readVars
  <2>2. CASE RegisterCall(g) \/ WriteCall(g) \/ EndCall(g) \/ CancelCall(g)
    BY <1>4, <1>5, <2>2
       DEF RegisterCall, Register, WriteCall, Written, Unwritten, EndCall, CancelCall, Returned,
           Cancelled, CallEnds, peerVars, readVars
  <2>3. CASE SpawnServer(g) \/ ServerStopped(g)
    BY <1>4, <1>5, <2>3 DEF SpawnServer, ServerStopped, readVars
  <2>4. CASE DialServer(g)
    <3>1. wire = <<>> /\ sent = 0 /\ hand = 0 /\ queue = <<>> /\ dispatched = 0
      BY <2>4 DEF DialServer, Unstarted
    <3>2. InOrder
      <4>1. Taken = 0
        BY <3>1 DEF Taken
      <4> QED
        BY <3>1, <4>1 DEF InOrder, Notes
    <3>3. InOrder'
      BY <1>2, <2>4, <3>2 DEF DialServer, peerVars
    <3> QED
      BY <2>4, <3>3, <1>0 DEF DialServer, Unstarted
  <2>5. CASE StartFails(g) \/ StopServer(g)
    BY <1>4, <1>5, <2>5 DEF StartFails, StopServer, CloseTransport, Close, peerVars
  <2> QED
    BY <1>10, <2>1, <2>2, <2>3, <2>4, <2>5 DEF Goroutine
<1>11. CASE ObserveExit
  BY <1>4, <1>5, <1>11 DEF ObserveExit, transportVars, peerVars, readVars
<1>12. CASE Vanish
  BY <1>12, <1>0 DEF Vanish, Unstarted
<1>13. CASE StopAll
  BY <1>4, <1>5, <1>13 DEF StopAll, CloseTransport, Close, peerVars
<1>14. CASE UNCHANGED allVars
  BY <1>4, <1>5, <1>14 DEF allVars, transportVars, peerVars, readVars
<1> QED
  BY <1>6, <1>7, <1>8, <1>9, <1>10, <1>11, <1>12, <1>13, <1>14 DEF SessionNext

\* NotificationsInOrder for any size of the queue and the socket: while the
\* connection lives the dispatcher takes every notification, once and in the
\* order in which the app-server wrote them, whatever replies overtake them.
THEOREM DeliveredInOrder == SessionSpec => []NotificationsInOrder
<1>1. SessionInit => Delivery
  <2> SUFFICES ASSUME SessionInit PROVE Delivery
    OBVIOUS
  <2> QED
    BY DEF SessionInit, TransportInit, Delivery, Unstarted, NotificationsInOrder
<1>2. SessionTypeOK /\ Delivery /\ [SessionNext]_allVars => Delivery'
  BY DeliveryStep
<1>3. Delivery => NotificationsInOrder
  BY DEF Delivery
<1> QED
  BY SessionTypeCorrect, <1>1, <1>2, <1>3, PTL DEF SessionSpec

=============================================================================
