------------------------------- MODULE Client -------------------------------
(***************************************************************************)
(* The test client (TestClient: Client.cpp, SimpleClient.cpp, main.cpp):   *)
(* the main thread, and the receive, send and logic threads it starts and  *)
(* joins; two queues under a mutex each, a semaphore that counts the       *)
(* packets to send, and needStop, a plain bool all four read.              *)
(*                                                                         *)
(* A Ping is its place in the order of the pushes; a Pong its number.  What*)
(* the server writes is a stream of units, each the number of the Pong it  *)
(* belongs to, that recv() cuts where it likes.  The server, the socket and*)
(* CRingbuffer are external.  isConnected is written and never read; it is *)
(* left out.  APPEAR_ACTOR and DISAPPEAR_ACTOR, which no server code sends,*)
(* are too.                                                                *)
(***************************************************************************)
EXTENDS Naturals, Sequences, FiniteSets

CONSTANTS Header,    \* df_HEADER_SIZE, in units
          Payload,   \* payloadLength of a Pong, in units
          RecvMax,   \* most units one recv() returns
          RingSize,  \* capacity of CRingbuffer, in units
          MaxSends,  \* bound: SendPacket calls of main (main.cpp has one)
          MaxPongs   \* bound: answers of the server

ASSUME ClientAssumption ==
  /\ {Header, Payload, RecvMax, RingSize, MaxSends, MaxPongs} \subseteq Nat \ {0}
  /\ Header + Payload - 1 + RecvMax <= RingSize

Threads == {"main", "recv", "send", "logic"}
PacketSize == Header + Payload

VARIABLES at,              \* at[t]: where thread t is
          needStop,
          sessionSocket,   \* "open" until closesocket()
          stream,          \* units the server wrote and recv() has not returned
          peerClosed,      \* the server has closed its end
          recvRingBuffer,
          recvBufferQueue,
          recvLeft,        \* rounds left of the loop in RunLogicThread
          sendBufferQueue,
          restSize,        \* the local of DoSend
          buffer,          \* the local of DoSend: the last Ping it popped
          permits,         \* count of the semaphore sendThreadEventHandle
          handleOpen,      \* sendThreadEventHandle has not been closed
          pushed,          \* history: Pings pushed
          mainSends,       \* history: those pushed by main
          sent,            \* history: Pings that send() accepted
          sendFailed,      \* history: send() has returned SOCKET_ERROR
          pongs,           \* history: Pongs the server has written
          handled          \* history: Pongs given to ProcessLogic

vars == <<at, needStop, sessionSocket, stream, peerClosed, recvRingBuffer,
          recvBufferQueue, recvLeft, sendBufferQueue, restSize, buffer, permits,
          handleOpen, pushed, mainSends, sent, sendFailed, pongs, handled>>
peer == <<stream, peerClosed, pongs>>
receiving == <<recvRingBuffer, recvBufferQueue, recvLeft, handled>>
sending == <<sendBufferQueue, restSize, buffer, pushed, mainSends, sent, sendFailed>>
signal == <<permits, handleOpen>>

Init ==
  /\ at = [t \in Threads |-> IF t = "main" THEN "start" ELSE "unborn"]
  /\ needStop = FALSE
  /\ sessionSocket = "open"
  /\ stream = << >>
  /\ peerClosed = FALSE
  /\ recvRingBuffer = << >>
  /\ recvBufferQueue = << >>
  /\ recvLeft = 0
  /\ sendBufferQueue = << >>
  /\ restSize = 0
  /\ buffer = 0
  /\ permits = 0
  /\ handleOpen = TRUE
  /\ pushed = 0
  /\ mainSends = 0
  /\ sent = << >>
  /\ sendFailed = FALSE
  /\ pongs = 0
  /\ handled = << >>

Goto(t, from, to) ==
  /\ at[t] = from
  /\ at' = [at EXCEPT ![t] = to]

(* ReleaseSemaphore(sendThreadEventHandle, 1): fails on a closed handle.   *)
ReleaseSemaphore ==
  /\ permits' = IF handleOpen THEN permits + 1 ELSE permits
  /\ UNCHANGED handleOpen

(* The head of RunRecvThread, RunSendThread and RunLogicThread.            *)
WhileNotNeedStop(t, body) ==
  /\ Goto(t, "check", IF needStop THEN "ended" ELSE body)
  /\ UNCHANGED <<needStop, sessionSocket, peer, receiving, sending, signal>>

----------------------------------------------------------------------------
(* StartClient starts the logic thread before it is known whether there is *)
(* a server.                                                               *)
StartLogicThread ==
  /\ at["main"] = "start"
  /\ at' = [at EXCEPT !["main"] = "connect", !["logic"] = "check"]
  /\ UNCHANGED <<needStop, sessionSocket, peer, receiving, sending, signal>>

(* Start(): connected, CreateAllThreads.                                   *)
Connects ==
  /\ at["main"] = "connect"
  /\ at' = [at EXCEPT !["main"] = "running", !["recv"] = "check", !["send"] = "check"]
  /\ UNCHANGED <<needStop, sessionSocket, peer, receiving, sending, signal>>

(* Start() returns false, main returns -1, and the destructor of the static*)
(* Client joins the logic thread, which nobody has told to stop.           *)
ConnectFails ==
  /\ Goto("main", "connect", "joinLogic")
  /\ sessionSocket' = "closed"
  /\ UNCHANGED <<needStop, peer, receiving, sending, signal>>

(* StopClient and the two steps of WaitStopAllThreads before the joins.    *)
RequestStop ==
  /\ mainSends > 0
  /\ Goto("main", "running", "wake")
  /\ needStop' = TRUE
  /\ UNCHANGED <<sessionSocket, peer, receiving, sending, signal>>

(* Mutant of WakeSender: the send thread is left to wake by itself.        *)
WakeSenderForgotten ==
  /\ Goto("main", "wake", "joinRecv")
  /\ UNCHANGED <<needStop, sessionSocket, peer, receiving, sending, signal>>

WakeSender ==
  /\ Goto("main", "wake", "joinRecv")
  /\ ReleaseSemaphore
  /\ UNCHANGED <<needStop, sessionSocket, peer, receiving, sending>>

JoinRecv ==
  /\ at["recv"] = "ended"
  /\ Goto("main", "joinRecv", "joinSend")
  /\ UNCHANGED <<needStop, sessionSocket, peer, receiving, sending, signal>>

(* Mutant of JoinSend: the handle is closed without waiting for the thread *)
(* that waits on it.                                                       *)
CloseBeforeJoin ==
  /\ Goto("main", "joinSend", "joinLogic")
  /\ handleOpen' = FALSE
  /\ UNCHANGED <<needStop, sessionSocket, peer, receiving, sending, permits>>

(* The handle is closed while the logic thread may still be in SendPacket. *)
JoinSend ==
  /\ at["send"] = "ended"
  /\ Goto("main", "joinSend", "joinLogic")
  /\ handleOpen' = FALSE
  /\ UNCHANGED <<needStop, sessionSocket, peer, receiving, sending, permits>>

JoinLogic ==
  /\ at["logic"] = "ended"
  /\ Goto("main", "joinLogic", "done")
  /\ UNCHANGED <<needStop, sessionSocket, peer, receiving, sending, signal>>

----------------------------------------------------------------------------
(* Where a caller of SendPacket comes from and goes back to.               *)
Before(t) == IF t = "main" THEN "running" ELSE "push"
After(t) == IF t = "main" THEN "running" ELSE "drain"

Enqueue(t) ==
  /\ t = "main" => mainSends < MaxSends
  /\ sendBufferQueue' = Append(sendBufferQueue, pushed + 1)
  /\ pushed' = pushed + 1
  /\ mainSends' = mainSends + (IF t = "main" THEN 1 ELSE 0)
  /\ UNCHANGED <<needStop, sessionSocket, peer, receiving, restSize, buffer,
                 sent, sendFailed, signal>>

(* Mutant of Push: the semaphore is signalled only for a queue that was    *)
(* empty, as if the send thread always emptied it.                         *)
PushSignalsIfEmpty(t) ==
  /\ Goto(t, Before(t), IF sendBufferQueue = << >> THEN "release" ELSE After(t))
  /\ Enqueue(t)

(* SendPacket by main or by a handler of the logic thread: the push ...    *)
Push(t) ==
  /\ Goto(t, Before(t), "release")
  /\ Enqueue(t)

(* ... and, outside the mutex, the signal.                                 *)
Signal(t) ==
  /\ Goto(t, "release", After(t))
  /\ ReleaseSemaphore
  /\ UNCHANGED <<needStop, sessionSocket, peer, receiving, sending>>

----------------------------------------------------------------------------
WaitForSignal ==
  /\ permits > 0
  /\ Goto("send", "wait", "size")
  /\ permits' = permits - 1
  /\ UNCHANGED <<needStop, sessionSocket, peer, receiving, sending, handleOpen>>

(* DoSend: the size is read once; an empty queue is a signal already       *)
(* answered by an earlier round.                                           *)
ReadSendSize ==
  /\ Goto("send", "size", IF sendBufferQueue = << >> THEN "check" ELSE "pop")
  /\ restSize' = Len(sendBufferQueue)
  /\ UNCHANGED <<needStop, sessionSocket, peer, receiving, sendBufferQueue, buffer,
                 pushed, mainSends, sent, sendFailed, signal>>

PopSendBuffer ==
  /\ Goto("send", "pop", "post")
  /\ buffer' = Head(sendBufferQueue)
  /\ sendBufferQueue' = Tail(sendBufferQueue)
  /\ UNCHANGED <<needStop, sessionSocket, peer, receiving, restSize, pushed,
                 mainSends, sent, sendFailed, signal>>

Send ==
  /\ sessionSocket = "open"
  /\ Goto("send", "post", IF restSize > 1 THEN "pop" ELSE "check")
  /\ restSize' = restSize - 1
  /\ sent' = Append(sent, buffer)
  /\ UNCHANGED <<needStop, sessionSocket, peer, receiving, sendBufferQueue, buffer,
                 pushed, mainSends, sendFailed, signal>>

(* Mutant of SendFails: the error is logged and the loop goes on.          *)
SendFailsGoesOn ==
  /\ sessionSocket = "closed" \/ peerClosed
  /\ Goto("send", "post", IF restSize > 1 THEN "pop" ELSE "check")
  /\ restSize' = restSize - 1
  /\ sendFailed' = TRUE
  /\ UNCHANGED <<needStop, sessionSocket, peer, receiving, sendBufferQueue, buffer,
                 pushed, mainSends, sent, signal>>

(* SOCKET_ERROR: the Ping is lost and the client stops.                    *)
SendFails ==
  /\ sessionSocket = "closed" \/ peerClosed
  /\ Goto("send", "post", "check")
  /\ needStop' = TRUE
  /\ sendFailed' = TRUE
  /\ UNCHANGED <<sessionSocket, peer, receiving, sendBufferQueue, restSize, buffer,
                 pushed, mainSends, sent, signal>>

----------------------------------------------------------------------------
(* DoRecv: at most RecvMax units go to the ring buffer; if they do not fit *)
(* they are lost and the client stops.                                     *)
Recv ==
  \E n \in 1 .. RecvMax :
    /\ n <= Len(stream)
    /\ stream' = SubSeq(stream, n + 1, Len(stream))
    /\ IF Len(recvRingBuffer) + n > RingSize
       THEN /\ Goto("recv", "recv", "check")
            /\ needStop' = TRUE
            /\ UNCHANGED recvRingBuffer
       ELSE /\ Goto("recv", "recv", "make")
            /\ recvRingBuffer' = recvRingBuffer \o SubSeq(stream, 1, n)
            /\ UNCHANGED needStop
    /\ UNCHANGED <<sessionSocket, peerClosed, pongs, recvBufferQueue, recvLeft,
                   handled, sending, signal>>

(* recv() returns 0, or fails because the connection was reset.            *)
RecvEnds ==
  /\ peerClosed
  /\ Goto("recv", "recv", "check")
  /\ sessionSocket' = "closed"
  /\ needStop' = TRUE
  /\ UNCHANGED <<peer, receiving, sending, signal>>

(* Mutant of HasPacket: `<=` for `<` in the comparison of line 262.        *)
HasPacketAndMore == Len(recvRingBuffer) > PacketSize

(* Mutant of HasPacket: RecvStreamToBuffer of the server, which goes on    *)
(* with a packet that is not complete.                                     *)
HasHeader == Len(recvRingBuffer) > Header

(* The loop condition of MakePacketsFromRingBuffer and its break.          *)
HasPacket ==
  /\ Len(recvRingBuffer) > Header
  /\ Len(recvRingBuffer) >= PacketSize

WithoutPacket == SubSeq(recvRingBuffer, PacketSize + 1, Len(recvRingBuffer))

MakePacket ==
  /\ HasPacket
  /\ Goto("recv", "make", "make")
  /\ recvRingBuffer' = WithoutPacket
  /\ recvBufferQueue' = Append(recvBufferQueue, Head(recvRingBuffer))
  /\ UNCHANGED <<needStop, sessionSocket, peer, recvLeft, handled, sending, signal>>

(* PacketDecode returns false (the two ends' PACKET_CODE or PACKET_KEY     *)
(* differ): DoRecv closes the socket.                                      *)
DecodeFails ==
  /\ HasPacket
  /\ Goto("recv", "make", "check")
  /\ recvRingBuffer' = WithoutPacket
  /\ sessionSocket' = "closed"
  /\ needStop' = TRUE
  /\ UNCHANGED <<peer, recvBufferQueue, recvLeft, handled, sending, signal>>

NoMorePackets ==
  /\ ~HasPacket
  /\ Goto("recv", "make", "check")
  /\ UNCHANGED <<needStop, sessionSocket, peer, receiving, sending, signal>>

----------------------------------------------------------------------------
(* GetRecvBufferSize in RunLogicThread, and Sleep(33) for an empty queue.  *)
ReadRecvSize ==
  /\ Goto("logic", "size", IF recvBufferQueue = << >> THEN "check" ELSE "drain")
  /\ recvLeft' = Len(recvBufferQueue)
  /\ UNCHANGED <<needStop, sessionSocket, peer, recvRingBuffer, recvBufferQueue,
                 handled, sending, signal>>

(* GetRecvBuffer and ProcessLogic: every Pong is answered with a Ping.     *)
GetRecvBuffer ==
  /\ recvLeft > 0
  /\ Goto("logic", "drain", "push")
  /\ recvLeft' = recvLeft - 1
  /\ handled' = Append(handled, Head(recvBufferQueue))
  /\ recvBufferQueue' = Tail(recvBufferQueue)
  /\ UNCHANGED <<needStop, sessionSocket, peer, recvRingBuffer, sending, signal>>

DrainEnds ==
  /\ recvLeft = 0
  /\ Goto("logic", "drain", "check")
  /\ UNCHANGED <<needStop, sessionSocket, peer, receiving, sending, signal>>

----------------------------------------------------------------------------
(* The server: Player::HandlePing answers a Ping with a Pong.              *)
PeerAnswers ==
  /\ ~peerClosed
  /\ pongs < Len(sent)
  /\ pongs < MaxPongs
  /\ pongs' = pongs + 1
  /\ stream' = stream \o [i \in 1 .. PacketSize |-> pongs + 1]
  /\ UNCHANGED <<at, needStop, sessionSocket, peerClosed, receiving, sending, signal>>

PeerCloses ==
  /\ at["recv"] # "unborn"
  /\ ~peerClosed
  /\ peerClosed' = TRUE
  /\ UNCHANGED <<at, needStop, sessionSocket, stream, pongs, receiving, sending, signal>>

----------------------------------------------------------------------------
(* The steps each thread takes by itself.  A key press (RequestStop), the  *)
(* calls main makes (Push("main")) and the server are not among them.      *)
MainRuns ==
  \/ StartLogicThread \/ Connects \/ ConnectFails
  \/ Signal("main")
  \/ WakeSender \/ JoinRecv \/ JoinSend \/ JoinLogic

RunRecvThread ==
  \/ WhileNotNeedStop("recv", "recv")
  \/ Recv \/ RecvEnds \/ MakePacket \/ DecodeFails \/ NoMorePackets

RunSendThread ==
  \/ WhileNotNeedStop("send", "wait")
  \/ WaitForSignal \/ ReadSendSize \/ PopSendBuffer \/ Send \/ SendFails

RunLogicThread ==
  \/ WhileNotNeedStop("logic", "size")
  \/ ReadRecvSize \/ GetRecvBuffer \/ DrainEnds
  \/ Push("logic") \/ Signal("logic")

Next ==
  \/ MainRuns \/ Push("main") \/ RequestStop
  \/ RunRecvThread \/ RunSendThread \/ RunLogicThread
  \/ PeerAnswers \/ PeerCloses

(* The operating system runs every thread that can run; recv() returns once*)
(* there is something to return.  The server promises nothing.             *)
Spec ==
  /\ Init /\ [][Next]_vars
  /\ WF_vars(MainRuns)
  /\ WF_vars(RunRecvThread)
  /\ WF_vars(RunSendThread)
  /\ WF_vars(RunLogicThread)

----------------------------------------------------------------------------
Numbers(n) == [i \in 1 .. n |-> i]

(* Every thread is at a step of its own function.                         *)
Steps ==
  {"unborn", "start", "connect", "running", "release", "wake", "joinRecv", "joinSend",
   "joinLogic", "done", "check", "recv", "make", "ended", "wait", "size", "pop", "post",
   "drain", "push"}

PlacesOK ==
  /\ at \in [Threads -> Steps]
  /\ at["main"] \in {"start", "connect", "running", "release", "wake", "joinRecv",
                     "joinSend", "joinLogic", "done"}
  /\ at["recv"] \in {"unborn", "check", "recv", "make", "ended"}
  /\ at["send"] \in {"unborn", "check", "wait", "size", "pop", "post", "ended"}
  /\ at["logic"] \in {"unborn", "check", "size", "drain", "push", "release", "ended"}

FlagsOK ==
  /\ needStop \in BOOLEAN /\ peerClosed \in BOOLEAN
  /\ handleOpen \in BOOLEAN /\ sendFailed \in BOOLEAN

DataOK ==
  /\ sessionSocket \in {"open", "closed"}
  /\ permits \in Nat /\ pushed \in Nat /\ mainSends \in Nat
  /\ restSize \in Nat /\ buffer \in Nat /\ recvLeft \in Nat /\ pongs \in Nat
  /\ stream \in Seq(Nat) /\ recvRingBuffer \in Seq(Nat)
  /\ recvBufferQueue \in Seq(Nat) /\ handled \in Seq(Nat)
  /\ sendBufferQueue \in Seq(Nat) /\ sent \in Seq(Nat)

TypeOK == PlacesOK /\ FlagsOK /\ DataOK

(* main is told apart from the threads it starts and joins: they are born  *)
(* once it has connected, needStop is set before it waits for them, and    *)
(* the handle is closed behind both joins.                                 *)
StartsAndJoins ==
  /\ at["main"] = "start" => at["logic"] = "unborn"
  /\ at["main"] \in {"start", "connect"} => at["recv"] = "unborn" /\ at["send"] = "unborn"
  /\ at["main"] \in {"wake", "joinRecv", "joinSend"} => needStop
  /\ at["main"] = "joinSend" => at["recv"] = "ended"
  /\ ~handleOpen => at["recv"] = "ended" /\ at["send"] = "ended"

(* The loop counters of the two consumers never outrun their queues, on    *)
(* which front() and pop() of DoSend and GetRecvBuffer rely, and a failed  *)
(* send() is the last.                                                     *)
LoopsInPlace ==
  /\ recvLeft <= Len(recvBufferQueue)
  /\ at["send"] = "pop" => restSize \in 1 .. Len(sendBufferQueue)
  /\ at["send"] = "post" => restSize \in 1 .. Len(sendBufferQueue) + 1
  /\ sendFailed => needStop /\ at["send"] \in {"check", "ended"}

(* Whoever closes the socket sees to it that the receive thread makes no   *)
(* packet of what it has left.                                             *)
ClosedInPlace ==
  sessionSocket = "closed" =>
    /\ at["main"] \notin {"start", "connect"}
    /\ at["recv"] \in {"unborn", "check", "ended"}
    /\ at["recv"] = "check" => needStop

(* Nothing but a part of a packet is left when MakePacketsFromRingBuffer is*)
(* done.                                                                   *)
LessThanPacketLeft ==
  /\ at["recv"] = "unborn" => recvRingBuffer = << >>
  /\ at["recv"] = "recv" \/ (at["recv"] = "check" /\ ~needStop) =>
       Len(recvRingBuffer) < PacketSize

(* The queue holds a Ping that the drain under way, if any, will not take. *)
Uncovered ==
  \/ at["send"] \in {"unborn", "check", "wait"} /\ sendBufferQueue # << >>
  \/ at["send"] = "pop" /\ Len(sendBufferQueue) > restSize
  \/ at["send"] = "post" /\ Len(sendBufferQueue) >= restSize

SignalOnTheWay == permits > 0 \/ \E t \in {"main", "logic"} : at[t] = "release"

UncoveredIsSignalled == Uncovered /\ ~sendFailed => SignalOnTheWay

(* Pings reach the server in the order they were pushed, whichever thread  *)
(* pushed them, none twice and none lost but the one that a failing send() *)
(* had in its hands (SendPacket, DoSend).                                  *)
PingsInOrder ==
  LET inHand == IF sendFailed \/ at["send"] = "post" THEN <<buffer>> ELSE << >>
  IN  sent \o inHand \o sendBufferQueue = Numbers(pushed)

(* What the server writes for Pongs m + 1 to m + n.                        *)
Units(m, n) == [i \in 1 .. PacketSize * n |-> m + 1 + ((i - 1) \div PacketSize)]

(* However recv() cuts the stream, the logic thread gets the Pongs whole   *)
(* and in order, and what is not yet a packet stays in the ring buffer     *)
(* until the rest has come (DoRecv, MakePacketsFromRingBuffer).            *)
PongsInOrder ==
  LET made == handled \o recvBufferQueue
  IN  /\ made = Numbers(Len(made))
      /\ sessionSocket = "open" =>
           /\ Len(made) <= pongs
           /\ recvRingBuffer \o stream = Units(Len(made), pongs - Len(made))

(* No lost wake-up: when the send thread goes to wait, a Ping in the queue *)
(* has a permit, or its sender is still on the way to ReleaseSemaphore.    *)
NoSleepingSender ==
  at["send"] \in {"check", "wait"} /\ sendBufferQueue # << >> /\ ~sendFailed =>
    SignalOnTheWay

(* The ring buffer has room for a whole recv() each time one is called, so *)
(* "recvRingBuffer is full" (DoRecv) never stops the client: what is left  *)
(* of the packets before is always less than a packet.                     *)
RingHasRoom ==
  at["recv"] = "recv" \/ (at["recv"] = "check" /\ ~needStop) =>
    Len(recvRingBuffer) + RecvMax <= RingSize

(* The inductive invariant behind all of the above.                        *)
ClientInv ==
  /\ TypeOK
  /\ StartsAndJoins
  /\ LoopsInPlace
  /\ ClosedInPlace
  /\ LessThanPacketLeft
  /\ UncoveredIsSignalled
  /\ PingsInOrder
  /\ PongsInOrder

(* A Pong the server wrote gets to ProcessLogic, unless the client stops.  *)
PongIsHandled ==
  \A i \in 1 .. MaxPongs : (pongs >= i) ~> (Len(handled) >= i \/ needStop)

(* StopClient returns if the server closes the connection.  It does not if *)
(* the server stays silent: WaitStopAllThreads joins a thread in recv() and*)
(* nobody closes the socket.                                               *)
StopReturnsOncePeerCloses ==
  (at["main"] \in {"wake", "joinRecv"} /\ peerClosed) ~> (at["main"] = "done")
============================================================================
