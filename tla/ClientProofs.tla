---------------------------- MODULE ClientProofs ----------------------------
(* Proofs about Client for any size of packets, of recv() and of the ring  *)
(* buffer that holds a packet short of a unit and one recv(), and for any  *)
(* number of Pings and Pongs.                                              *)
EXTENDS Client, QueueLemmas

LEMMA Sizes ==
  /\ Header \in Nat \ {0} /\ Payload \in Nat \ {0} /\ RecvMax \in Nat \ {0}
  /\ RingSize \in Nat /\ PacketSize \in Nat \ {0}
BY ClientAssumption DEF ClientAssumption, PacketSize

LEMMA FourThreads ==
  /\ "main" \in Threads /\ "recv" \in Threads
  /\ "send" \in Threads /\ "logic" \in Threads
BY DEF Threads

LEMMA InitInv == Init => ClientInv
<1> SUFFICES ASSUME Init PROVE ClientInv
  OBVIOUS
<1>1. << >> \in Seq(Nat) /\ Len(<< >>) = 0
  BY EmptySeq
<1>2. TypeOK
  BY <1>1, FourThreads DEF Init, TypeOK, PlacesOK, FlagsOK, DataOK, Steps
<1>3. StartsAndJoins
  BY FourThreads DEF Init, StartsAndJoins
<1>4. LoopsInPlace
  BY <1>1, FourThreads DEF Init, LoopsInPlace
<1>5. LessThanPacketLeft
  BY <1>1, FourThreads DEF Init, LessThanPacketLeft
<1>6. UncoveredIsSignalled
  BY FourThreads DEF Init, UncoveredIsSignalled, Uncovered
<1>7. PingsInOrder
  <2>1. Numbers(0) = << >>
    BY DEF Numbers
  <2> QED
    BY <2>1, FourThreads DEF Init, PingsInOrder
<1>8. ClosedInPlace
  BY DEF Init, ClosedInPlace
<1>9. PongsInOrder
  <2>1. << >> \o << >> = << >>
    BY <1>1, ConcatEmptySeq
  <2>2. << >> = Numbers(0)
    BY DEF Numbers
  <2>3. PacketSize * 0 = 0
    BY Sizes
  <2>4. << >> = Units(0, 0)
    BY <2>3 DEF Units
  <2> QED
    BY <1>1, <2>1, <2>2, <2>4 DEF Init, PongsInOrder
<1> QED
  BY <1>2, <1>3, <1>4, <1>5, <1>6, <1>7, <1>8, <1>9 DEF ClientInv

----------------------------------------------------------------------------
(* What the units taken from and put into a stream leave it.               *)
LEMMA StreamTypes ==
  ASSUME TypeOK
  PROVE  /\ \A n \in 1 .. Len(stream) :
              /\ SubSeq(stream, n + 1, Len(stream)) \in Seq(Nat)
              /\ recvRingBuffer \o SubSeq(stream, 1, n) \in Seq(Nat)
         /\ HasPacket => Head(recvRingBuffer) \in Nat /\ WithoutPacket \in Seq(Nat)
         /\ stream \o [i \in 1 .. PacketSize |-> pongs + 1] \in Seq(Nat)
<1>0. stream \in Seq(Nat) /\ recvRingBuffer \in Seq(Nat) /\ pongs \in Nat
  BY DEF TypeOK, DataOK
<1>1. ASSUME NEW n \in 1 .. Len(stream)
      PROVE  /\ SubSeq(stream, n + 1, Len(stream)) \in Seq(Nat)
             /\ recvRingBuffer \o SubSeq(stream, 1, n) \in Seq(Nat)
  <2>1. n \in 0 .. Len(stream)
    BY <1>0
  <2> QED
    BY <1>0, <2>1, CutQueue, ConcatProperties
<1>2. ASSUME HasPacket
      PROVE  Head(recvRingBuffer) \in Nat /\ WithoutPacket \in Seq(Nat)
  <2>1. PacketSize \in 0 .. Len(recvRingBuffer) /\ recvRingBuffer # << >>
    BY <1>0, <1>2, Sizes DEF HasPacket
  <2> QED
    BY <1>0, <2>1, CutQueue, HeadTailProperties DEF WithoutPacket
<1>3. [i \in 1 .. PacketSize |-> pongs + 1] \in Seq(Nat)
  BY <1>0, Sizes
<1> QED
  BY <1>0, <1>1, <1>2, <1>3, ConcatProperties

(* The front of a queue that a thread has found not to be empty.           *)
LEMMA FrontTypes ==
  ASSUME TypeOK, LoopsInPlace
  PROVE  /\ at["send"] = "pop" =>
              /\ sendBufferQueue # << >>
              /\ Head(sendBufferQueue) \in Nat
              /\ Tail(sendBufferQueue) \in Seq(Nat)
              /\ Len(Tail(sendBufferQueue)) = Len(sendBufferQueue) - 1
         /\ recvLeft > 0 =>
              /\ Head(recvBufferQueue) \in Nat
              /\ Tail(recvBufferQueue) \in Seq(Nat)
              /\ Len(Tail(recvBufferQueue)) = Len(recvBufferQueue) - 1
<1>0. /\ sendBufferQueue \in Seq(Nat) /\ recvBufferQueue \in Seq(Nat)
      /\ recvLeft \in Nat /\ restSize \in Nat
  BY DEF TypeOK, DataOK
<1>1. at["send"] = "pop" => sendBufferQueue # << >>
  BY <1>0, EmptySeq DEF LoopsInPlace
<1>2. recvLeft > 0 => recvBufferQueue # << >>
  BY <1>0, EmptySeq DEF LoopsInPlace
<1> QED
  BY <1>0, <1>1, <1>2, HeadTailProperties

LEMMA PlacesStep == PlacesOK /\ [Next]_vars => PlacesOK'
<1> SUFFICES ASSUME PlacesOK, [Next]_vars PROVE PlacesOK'
  OBVIOUS
<1> USE FourThreads DEF PlacesOK, Goto, Steps
<1>1. CASE StartLogicThread \/ Connects \/ ConnectFails
  BY <1>1 DEF StartLogicThread, Connects, ConnectFails
<1>2. CASE RequestStop \/ WakeSender \/ JoinRecv \/ JoinSend \/ JoinLogic
  BY <1>2 DEF RequestStop, WakeSender, JoinRecv, JoinSend, JoinLogic
<1>3. CASE \/ WhileNotNeedStop("recv", "recv") \/ WhileNotNeedStop("send", "wait")
           \/ WhileNotNeedStop("logic", "size")
  BY <1>3 DEF WhileNotNeedStop
<1>4. CASE Push("main") \/ Push("logic") \/ Signal("main") \/ Signal("logic")
  BY <1>4 DEF Push, Signal, Before, After
<1>5. CASE Recv \/ RecvEnds \/ MakePacket \/ DecodeFails \/ NoMorePackets
  BY <1>5 DEF Recv, RecvEnds, MakePacket, DecodeFails, NoMorePackets
<1>6. CASE WaitForSignal \/ ReadSendSize \/ PopSendBuffer \/ Send \/ SendFails
  BY <1>6 DEF WaitForSignal, ReadSendSize, PopSendBuffer, Send, SendFails
<1>7. CASE ReadRecvSize \/ GetRecvBuffer \/ DrainEnds
  BY <1>7 DEF ReadRecvSize, GetRecvBuffer, DrainEnds
<1>8. CASE PeerAnswers \/ PeerCloses \/ UNCHANGED vars
  BY <1>8 DEF PeerAnswers, PeerCloses, vars
<1> QED
  BY <1>1, <1>2, <1>3, <1>4, <1>5, <1>6, <1>7, <1>8
  DEF Next, MainRuns, RunRecvThread, RunSendThread, RunLogicThread

LEMMA FlagsStep == FlagsOK /\ [Next]_vars => FlagsOK'
<1> SUFFICES ASSUME FlagsOK, [Next]_vars PROVE FlagsOK'
  OBVIOUS
<1> USE DEF FlagsOK, peer, receiving, sending, signal
<1>1. CASE StartLogicThread \/ Connects \/ ConnectFails \/ RequestStop \/ WakeSender
           \/ JoinRecv \/ JoinSend \/ JoinLogic
  BY <1>1 DEF StartLogicThread, Connects, ConnectFails, RequestStop, WakeSender,
     JoinRecv, JoinSend, JoinLogic, ReleaseSemaphore
<1>2. CASE Push("main") \/ Push("logic") \/ Signal("main") \/ Signal("logic")
  BY <1>2 DEF Push, Signal, Enqueue, ReleaseSemaphore
<1>3. CASE \/ WhileNotNeedStop("recv", "recv") \/ WhileNotNeedStop("send", "wait")
           \/ WhileNotNeedStop("logic", "size")
  BY <1>3 DEF WhileNotNeedStop
<1>5. CASE Recv \/ RecvEnds \/ MakePacket \/ DecodeFails \/ NoMorePackets
  BY <1>5 DEF Recv, RecvEnds, MakePacket, DecodeFails, NoMorePackets
<1>6. CASE WaitForSignal \/ ReadSendSize \/ PopSendBuffer \/ Send \/ SendFails
  BY <1>6 DEF WaitForSignal, ReadSendSize, PopSendBuffer, Send, SendFails
<1>8. CASE ReadRecvSize \/ GetRecvBuffer \/ DrainEnds
  BY <1>8 DEF ReadRecvSize, GetRecvBuffer, DrainEnds
<1>9. CASE PeerAnswers \/ PeerCloses \/ UNCHANGED vars
  BY <1>9 DEF PeerAnswers, PeerCloses, vars
<1> QED
  BY <1>1, <1>2, <1>3, <1>5, <1>6, <1>8, <1>9
  DEF Next, MainRuns, RunRecvThread, RunSendThread, RunLogicThread

LEMMA DataStep == TypeOK /\ LoopsInPlace /\ [Next]_vars => DataOK'
<1> SUFFICES ASSUME TypeOK, LoopsInPlace, [Next]_vars PROVE DataOK'
  OBVIOUS
<1>0. DataOK
  BY DEF TypeOK
<1> USE DEF DataOK, peer, receiving, sending, signal
<1>1. CASE StartLogicThread \/ Connects \/ ConnectFails \/ RequestStop
  BY <1>0, <1>1 DEF StartLogicThread, Connects, ConnectFails, RequestStop
<1>20. CASE WakeSender
  BY <1>0, <1>20 DEF WakeSender, ReleaseSemaphore
<1>21. CASE JoinRecv \/ JoinSend \/ JoinLogic
  BY <1>0, <1>21 DEF JoinRecv, JoinSend, JoinLogic
<1>2. CASE Push("main") \/ Push("logic")
  <2>1. /\ sendBufferQueue' = Append(sendBufferQueue, pushed + 1)
        /\ pushed' = pushed + 1
        /\ mainSends' \in {mainSends, mainSends + 1}
        /\ UNCHANGED <<sessionSocket, stream, recvRingBuffer, recvBufferQueue, recvLeft,
                       handled, restSize, buffer, sent, pongs, permits>>
    BY <1>0, <1>2 DEF Push, Enqueue
  <2> QED
    BY <1>0, <2>1, AppendProperties
<1>14. CASE Signal("main") \/ Signal("logic")
  <2>1. /\ permits' \in {permits, permits + 1}
        /\ UNCHANGED <<sessionSocket, peer, receiving, sending>>
    BY <1>14 DEF Signal, ReleaseSemaphore
  <2> QED
    BY <1>0, <2>1
<1>3. CASE \/ WhileNotNeedStop("recv", "recv") \/ WhileNotNeedStop("send", "wait")
           \/ WhileNotNeedStop("logic", "size")
  BY <1>0, <1>3 DEF WhileNotNeedStop
<1>4. CASE Recv
  <2>1. stream' \in Seq(Nat) /\ recvRingBuffer' \in Seq(Nat)
    <3>1. PICK n \in 1 .. RecvMax :
            /\ n <= Len(stream)
            /\ stream' = SubSeq(stream, n + 1, Len(stream))
            /\ \/ recvRingBuffer' = recvRingBuffer
               \/ recvRingBuffer' = recvRingBuffer \o SubSeq(stream, 1, n)
      BY <1>4 DEF Recv
    <3>2. n \in 1 .. Len(stream)
      BY <1>0, <3>1, Sizes
    <3> QED
      BY <1>0, <3>1, <3>2, StreamTypes
  <2>2. UNCHANGED <<sessionSocket, permits, pushed, mainSends, restSize, buffer, recvLeft,
                    pongs, recvBufferQueue, handled, sendBufferQueue, sent>>
    BY <1>4 DEF Recv
  <2> QED
    BY <1>0, <2>1, <2>2
<1>5. CASE RecvEnds \/ NoMorePackets
  BY <1>0, <1>5 DEF RecvEnds, NoMorePackets
<1>6. CASE MakePacket
  BY <1>0, <1>6, StreamTypes DEF MakePacket
<1>15. CASE DecodeFails
  BY <1>0, <1>15, StreamTypes DEF DecodeFails
<1>7. CASE WaitForSignal
  BY <1>0, <1>7 DEF WaitForSignal
<1>16. CASE ReadSendSize
  BY <1>0, <1>16 DEF ReadSendSize
<1>8. CASE PopSendBuffer
  BY <1>0, <1>8, FrontTypes DEF PopSendBuffer, Goto
<1>9. CASE Send
  BY <1>0, <1>9 DEF Send, Goto, LoopsInPlace
<1>17. CASE SendFails
  BY <1>0, <1>17 DEF SendFails
<1>10. CASE ReadRecvSize
  BY <1>0, <1>10 DEF ReadRecvSize
<1>18. CASE DrainEnds
  BY <1>0, <1>18 DEF DrainEnds
<1>11. CASE GetRecvBuffer
  BY <1>0, <1>11, FrontTypes DEF GetRecvBuffer
<1>12. CASE PeerAnswers
  <2>1. stream' \in Seq(Nat)
    BY <1>12, StreamTypes, Zenon DEF PeerAnswers
  <2>2. /\ pongs' = pongs + 1
        /\ UNCHANGED <<sessionSocket, permits, pushed, mainSends, restSize, buffer,
                       recvLeft, recvRingBuffer, recvBufferQueue, handled,
                       sendBufferQueue, sent>>
    BY <1>12 DEF PeerAnswers
  <2> QED
    BY <1>0, <2>1, <2>2
<1>13. CASE PeerCloses \/ UNCHANGED vars
  BY <1>0, <1>13 DEF PeerCloses, vars
<1> QED
  BY <1>1, <1>2, <1>3, <1>4, <1>5, <1>6, <1>7, <1>8, <1>9, <1>10, <1>11, <1>12, <1>13,
     <1>14, <1>15, <1>16, <1>17, <1>18, <1>20, <1>21
  DEF Next, MainRuns, RunRecvThread, RunSendThread, RunLogicThread

LEMMA TypeStep == TypeOK /\ LoopsInPlace /\ [Next]_vars => TypeOK'
BY PlacesStep, FlagsStep, DataStep DEF TypeOK

----------------------------------------------------------------------------
(* StartsAndJoins is about where main, recv and send are, needStop and the *)
(* handle: needStop is never reset, and a thread that has ended stays so.  *)
LEMMA StartsStep == PlacesOK /\ FlagsOK /\ StartsAndJoins /\ [Next]_vars => StartsAndJoins'
<1> SUFFICES ASSUME PlacesOK, FlagsOK, StartsAndJoins, [Next]_vars PROVE StartsAndJoins'
  OBVIOUS
<1> USE FourThreads DEF PlacesOK, StartsAndJoins, Goto
<1>1. CASE StartLogicThread \/ Connects \/ ConnectFails
  BY <1>1 DEF StartLogicThread, Connects, ConnectFails, signal
<1>2. CASE RequestStop \/ WakeSender \/ JoinRecv \/ JoinSend \/ JoinLogic
  BY <1>2 DEF RequestStop, WakeSender, JoinRecv, JoinSend, JoinLogic, ReleaseSemaphore,
     signal
<1>3. CASE \/ WhileNotNeedStop("recv", "recv") \/ WhileNotNeedStop("send", "wait")
           \/ WhileNotNeedStop("logic", "size")
  BY <1>3 DEF WhileNotNeedStop, signal
<1>4. CASE Push("main") \/ Push("logic") \/ Signal("main") \/ Signal("logic")
  BY <1>4 DEF Push, Signal, Before, After, Enqueue, ReleaseSemaphore, signal
<1>5. CASE Recv \/ RecvEnds \/ MakePacket \/ DecodeFails \/ NoMorePackets
  BY <1>5 DEF Recv, RecvEnds, MakePacket, DecodeFails, NoMorePackets, signal
<1>6. CASE WaitForSignal \/ ReadSendSize \/ PopSendBuffer \/ Send \/ SendFails
  BY <1>6 DEF WaitForSignal, ReadSendSize, PopSendBuffer, Send, SendFails, signal
<1>7. CASE ReadRecvSize \/ GetRecvBuffer \/ DrainEnds
  BY <1>7 DEF ReadRecvSize, GetRecvBuffer, DrainEnds, signal
<1>8. CASE PeerAnswers \/ PeerCloses \/ UNCHANGED vars
  BY <1>8 DEF PeerAnswers, PeerCloses, signal, vars
<1> QED
  BY <1>1, <1>2, <1>3, <1>4, <1>5, <1>6, <1>7, <1>8
  DEF Next, MainRuns, RunRecvThread, RunSendThread, RunLogicThread

LEMMA LoopsStep == TypeOK /\ LoopsInPlace /\ [Next]_vars => LoopsInPlace'
<1> SUFFICES ASSUME TypeOK, LoopsInPlace, [Next]_vars PROVE LoopsInPlace'
  OBVIOUS
<1>0. PlacesOK /\ FlagsOK /\ DataOK
  BY DEF TypeOK
<1> USE <1>0, FourThreads DEF PlacesOK, DataOK, LoopsInPlace, Goto
<1>1. CASE StartLogicThread \/ Connects \/ ConnectFails
  BY <1>1 DEF StartLogicThread, Connects, ConnectFails, sending, receiving
<1>2. CASE RequestStop \/ WakeSender \/ JoinRecv \/ JoinSend \/ JoinLogic
  BY <1>2 DEF RequestStop, WakeSender, JoinRecv, JoinSend, JoinLogic, sending, receiving
<1>3. CASE \/ WhileNotNeedStop("recv", "recv") \/ WhileNotNeedStop("send", "wait")
           \/ WhileNotNeedStop("logic", "size")
  BY <1>3 DEF WhileNotNeedStop, sending, receiving
<1>4. CASE Push("main") \/ Push("logic")
  <2>1. Len(sendBufferQueue') = Len(sendBufferQueue) + 1
    BY <1>4, AppendProperties DEF Push, Enqueue
  <2>2. /\ UNCHANGED <<recvLeft, recvBufferQueue, restSize, sendFailed, needStop>>
        /\ at'["send"] = at["send"]
    BY <1>4 DEF Push, Before, After, Enqueue, receiving
  <2> QED
    BY <2>1, <2>2
<1>13. CASE Signal("main") \/ Signal("logic")
  <2>1. /\ UNCHANGED <<recvLeft, recvBufferQueue, restSize, sendFailed, needStop,
                       sendBufferQueue>>
        /\ at'["send"] = at["send"]
    BY <1>13 DEF Signal, sending, receiving
  <2> QED
    BY <2>1
<1>5. CASE Recv \/ RecvEnds \/ NoMorePackets
  <2>1. /\ UNCHANGED <<recvLeft, recvBufferQueue, restSize, sendFailed, sendBufferQueue>>
        /\ at'["send"] = at["send"] /\ (needStop => needStop')
    BY <1>5 DEF Recv, RecvEnds, NoMorePackets, sending, receiving
  <2> QED
    BY <2>1
<1>14. CASE MakePacket \/ DecodeFails
  <2>1. Len(recvBufferQueue') >= Len(recvBufferQueue)
    BY <1>14, StreamTypes, AppendProperties DEF MakePacket, DecodeFails
  <2>2. /\ UNCHANGED <<recvLeft, restSize, sendFailed, sendBufferQueue>>
        /\ at'["send"] = at["send"] /\ (needStop => needStop')
        /\ recvLeft \in Nat /\ Len(recvBufferQueue) \in Nat
        /\ Len(recvBufferQueue') \in Nat
    BY <1>14, <2>1, AppendProperties, StreamTypes, LenProperties
       DEF MakePacket, DecodeFails, sending
  <2> QED
    BY <2>1, <2>2
<1>6. CASE WaitForSignal \/ SendFails
  BY <1>6 DEF WaitForSignal, SendFails, sending, receiving
<1>10. CASE ReadSendSize
  BY <1>10, EmptySeq DEF ReadSendSize, receiving
<1>11. CASE Send
  BY <1>11 DEF Send, receiving
<1>9. CASE PopSendBuffer
  BY <1>9, FrontTypes DEF PopSendBuffer, receiving
<1>7. CASE ReadRecvSize
  BY <1>7 DEF ReadRecvSize, sending
<1>15. CASE DrainEnds
  BY <1>15 DEF DrainEnds, sending, receiving
<1>12. CASE GetRecvBuffer
  BY <1>12, FrontTypes DEF GetRecvBuffer, sending
<1>8. CASE PeerAnswers \/ PeerCloses \/ UNCHANGED vars
  <2>1. UNCHANGED <<at, needStop, recvLeft, recvBufferQueue, restSize, sendFailed,
                    sendBufferQueue>>
    BY <1>8 DEF PeerAnswers, PeerCloses, sending, receiving, vars
  <2> QED
    BY <2>1
<1> QED
  BY <1>1, <1>2, <1>3, <1>4, <1>5, <1>6, <1>7, <1>8, <1>9, <1>10, <1>11,
     <1>12, <1>13, <1>14, <1>15
  DEF Next, MainRuns, RunRecvThread, RunSendThread, RunLogicThread

LEMMA LeftStep ==
  TypeOK /\ StartsAndJoins /\ LessThanPacketLeft /\ [Next]_vars => LessThanPacketLeft'
<1> SUFFICES ASSUME TypeOK, StartsAndJoins, LessThanPacketLeft, [Next]_vars
             PROVE  LessThanPacketLeft'
  OBVIOUS
<1>0. PlacesOK /\ recvRingBuffer \in Seq(Nat)
  BY DEF TypeOK, DataOK
<1> USE <1>0, FourThreads DEF PlacesOK, LessThanPacketLeft, Goto
<1>1. CASE StartLogicThread \/ ConnectFails
  BY <1>1 DEF StartLogicThread, ConnectFails, receiving
<1>2. CASE Connects
  BY <1>2, Sizes, EmptySeq DEF Connects, StartsAndJoins, receiving
<1>3. CASE RequestStop \/ WakeSender \/ JoinRecv \/ JoinSend \/ JoinLogic
  BY <1>3 DEF RequestStop, WakeSender, JoinRecv, JoinSend, JoinLogic, receiving
<1>4. CASE \/ WhileNotNeedStop("recv", "recv") \/ WhileNotNeedStop("send", "wait")
           \/ WhileNotNeedStop("logic", "size")
  BY <1>4 DEF WhileNotNeedStop, receiving
<1>5. CASE Push("main") \/ Push("logic") \/ Signal("main") \/ Signal("logic")
  BY <1>5 DEF Push, Signal, Before, After, Enqueue, receiving
<1>6. CASE Recv \/ RecvEnds \/ MakePacket \/ DecodeFails
  BY <1>6 DEF Recv, RecvEnds, MakePacket, DecodeFails, receiving
<1>7. CASE NoMorePackets
  BY <1>7, Sizes DEF NoMorePackets, HasPacket, PacketSize, receiving
<1>8. CASE WaitForSignal \/ ReadSendSize \/ PopSendBuffer \/ Send \/ SendFails
  BY <1>8 DEF WaitForSignal, ReadSendSize, PopSendBuffer, Send, SendFails, receiving
<1>9. CASE ReadRecvSize \/ GetRecvBuffer \/ DrainEnds
  BY <1>9 DEF ReadRecvSize, GetRecvBuffer, DrainEnds, receiving
<1>10. CASE PeerAnswers \/ PeerCloses \/ UNCHANGED vars
  BY <1>10 DEF PeerAnswers, PeerCloses, receiving, vars
<1> QED
  BY <1>1, <1>2, <1>3, <1>4, <1>5, <1>6, <1>7, <1>8, <1>9, <1>10
  DEF Next, MainRuns, RunRecvThread, RunSendThread, RunLogicThread

----------------------------------------------------------------------------
(* A Push is its own signal on the way; a Signal leaves a permit, since the*)
(* handle is open as long as the send thread runs; and the send thread     *)
(* takes a permit only to read the size of the whole queue.                *)
LEMMA UncoveredStep ==
  /\ TypeOK /\ StartsAndJoins /\ LoopsInPlace /\ UncoveredIsSignalled
  /\ [Next]_vars
  => UncoveredIsSignalled'
<1> SUFFICES ASSUME TypeOK, StartsAndJoins, LoopsInPlace, UncoveredIsSignalled,
                    [Next]_vars
             PROVE  UncoveredIsSignalled'
  OBVIOUS
<1>0. /\ PlacesOK /\ permits \in Nat /\ restSize \in Nat
      /\ sendBufferQueue \in Seq(Nat)
  BY DEF TypeOK, DataOK
<1> USE <1>0, FourThreads
    DEF PlacesOK, UncoveredIsSignalled, Uncovered, SignalOnTheWay, Goto
<1>1. CASE StartLogicThread \/ Connects \/ ConnectFails
  BY <1>1 DEF StartLogicThread, Connects, ConnectFails, StartsAndJoins, sending, signal
<1>2. CASE RequestStop \/ JoinRecv \/ JoinLogic
  BY <1>2 DEF RequestStop, JoinRecv, JoinLogic, sending, signal
<1>3. CASE WakeSender
  BY <1>3 DEF WakeSender, ReleaseSemaphore, StartsAndJoins, sending
<1>4. CASE JoinSend
  BY <1>4 DEF JoinSend, sending
<1>5. CASE \/ WhileNotNeedStop("recv", "recv") \/ WhileNotNeedStop("send", "wait")
           \/ WhileNotNeedStop("logic", "size")
  BY <1>5 DEF WhileNotNeedStop, sending, signal
<1>6. CASE Push("main") \/ Push("logic")
  BY <1>6 DEF Push, Before
<1>7. CASE Signal("main") \/ Signal("logic")
  BY <1>7 DEF Signal, After, ReleaseSemaphore, StartsAndJoins, sending
<1>8. CASE Recv \/ RecvEnds \/ MakePacket \/ DecodeFails \/ NoMorePackets
  BY <1>8 DEF Recv, RecvEnds, MakePacket, DecodeFails, NoMorePackets, sending, signal
<1>9. CASE WaitForSignal
  BY <1>9 DEF WaitForSignal, sending
<1>10. CASE ReadSendSize
  BY <1>10, EmptySeq DEF ReadSendSize, signal
<1>11. CASE PopSendBuffer
  BY <1>11, FrontTypes DEF PopSendBuffer, signal
<1>12. CASE Send
  BY <1>12, EmptySeq DEF Send, LoopsInPlace, signal
<1>13. CASE SendFails
  BY <1>13 DEF SendFails
<1>14. CASE ReadRecvSize \/ GetRecvBuffer \/ DrainEnds
  BY <1>14 DEF ReadRecvSize, GetRecvBuffer, DrainEnds, sending, signal
<1>15. CASE PeerAnswers \/ PeerCloses \/ UNCHANGED vars
  BY <1>15 DEF PeerAnswers, PeerCloses, sending, signal, vars
<1> QED
  BY <1>1, <1>2, <1>3, <1>4, <1>5, <1>6, <1>7, <1>8, <1>9, <1>10, <1>11, <1>12, <1>13,
     <1>14, <1>15
  DEF Next, MainRuns, RunRecvThread, RunSendThread, RunLogicThread

----------------------------------------------------------------------------
(* A step that moves no Ping and leaves the send thread in or out of its   *)
(* call of send().                                                         *)
LEMMA NoPingMoves ==
  ASSUME PingsInOrder, UNCHANGED <<sent, sendBufferQueue, buffer, sendFailed, pushed>>,
         at["send"] = "post" <=> at'["send"] = "post"
  PROVE  PingsInOrder'
BY DEF PingsInOrder

LEMMA PingsStep ==
  TypeOK /\ StartsAndJoins /\ LoopsInPlace /\ PingsInOrder /\ [Next]_vars => PingsInOrder'
<1> SUFFICES ASSUME TypeOK, StartsAndJoins, LoopsInPlace, PingsInOrder, [Next]_vars
             PROVE  PingsInOrder'
  OBVIOUS
<1>0. /\ PlacesOK /\ sent \in Seq(Nat) /\ sendBufferQueue \in Seq(Nat)
      /\ buffer \in Nat /\ pushed \in Nat
  BY DEF TypeOK, DataOK
<1> DEFINE unmoved == /\ UNCHANGED <<sent, sendBufferQueue, buffer, sendFailed, pushed>>
                      /\ at["send"] = "post" <=> at'["send"] = "post"
           hand == IF sendFailed \/ at["send"] = "post" THEN <<buffer>> ELSE << >>
<1>1. hand \in Seq(Nat) /\ sent \o hand \in Seq(Nat)
  BY <1>0, EmptySeq, ConcatProperties
<1>2. (sent \o hand) \o sendBufferQueue = Numbers(pushed)
  BY DEF PingsInOrder
<1>3. ASSUME unmoved PROVE PingsInOrder'
  BY <1>3, NoPingMoves
<1>4. CASE StartLogicThread \/ Connects \/ ConnectFails
  <2>1. unmoved
    BY <1>0, <1>4, FourThreads
    DEF StartLogicThread, Connects, ConnectFails, StartsAndJoins, PlacesOK, Goto, sending
  <2> QED
    BY <1>3, <2>1
<1>5. CASE RequestStop \/ WakeSender \/ JoinRecv \/ JoinSend \/ JoinLogic
  <2>1. unmoved
    BY <1>0, <1>5, FourThreads
    DEF RequestStop, WakeSender, JoinRecv, JoinSend, JoinLogic, PlacesOK, Goto, sending
  <2> QED
    BY <1>3, <2>1
<1>6. CASE \/ WhileNotNeedStop("recv", "recv") \/ WhileNotNeedStop("send", "wait")
           \/ WhileNotNeedStop("logic", "size")
  <2>1. unmoved
    BY <1>0, <1>6, FourThreads DEF WhileNotNeedStop, PlacesOK, Goto, sending
  <2> QED
    BY <1>3, <2>1
<1>7. CASE Push("main") \/ Push("logic")
  <2>1. /\ sendBufferQueue' = Append(sendBufferQueue, pushed + 1)
        /\ pushed' = pushed + 1
        /\ sent' = sent /\ hand' = hand
    BY <1>0, <1>7, FourThreads DEF Push, Enqueue, Before, PlacesOK, Goto
  <2>2. (sent \o hand) \o Append(sendBufferQueue, pushed + 1)
          = Append((sent \o hand) \o sendBufferQueue, pushed + 1)
    <3>1. pushed + 1 \in Nat
      BY <1>0
    <3>2. ASSUME NEW s \in Seq(Nat)
          PROVE  s \o Append(sendBufferQueue, pushed + 1)
                   = Append(s \o sendBufferQueue, pushed + 1)
      BY <1>0, <3>1, AppendToLast
    <3> HIDE DEF hand
    <3> QED
      BY <1>1, <3>2
  <2>3. Append(Numbers(pushed), pushed + 1) = Numbers(pushed + 1)
    BY <1>0, AppendNext DEF Numbers
  <2>4. (sent' \o hand') \o sendBufferQueue' = Numbers(pushed')
    BY <1>2, <2>1, <2>2, <2>3
  <2> QED
    BY <2>4 DEF PingsInOrder
<1>8. CASE Signal("main") \/ Signal("logic")
  <2>1. unmoved
    BY <1>0, <1>8, FourThreads DEF Signal, After, PlacesOK, Goto, sending
  <2> QED
    BY <1>3, <2>1
<1>9. CASE Recv \/ RecvEnds \/ MakePacket \/ DecodeFails \/ NoMorePackets
  <2>1. unmoved
    BY <1>0, <1>9, FourThreads
    DEF Recv, RecvEnds, MakePacket, DecodeFails, NoMorePackets, PlacesOK, Goto, sending
  <2> QED
    BY <1>3, <2>1
<1>10. CASE WaitForSignal \/ ReadSendSize
  <2>1. unmoved
    BY <1>0, <1>10, FourThreads DEF WaitForSignal, ReadSendSize, PlacesOK, Goto, sending
  <2> QED
    BY <1>3, <2>1
<1>11. CASE PopSendBuffer
  <2>1. /\ sent' = sent /\ pushed' = pushed
        /\ hand = << >> /\ hand' = <<Head(sendBufferQueue)>>
        /\ sendBufferQueue' = Tail(sendBufferQueue)
        /\ at["send"] = "pop"
    BY <1>0, <1>11, FourThreads DEF PopSendBuffer, LoopsInPlace, PlacesOK, Goto
  <2>2. sendBufferQueue # << >> /\ Head(sendBufferQueue) \in Nat
    BY <2>1, FrontTypes
  <2>3. sent \o <<Head(sendBufferQueue)>> = Append(sent, Head(sendBufferQueue))
    BY <1>0, <2>2, AppendIsConcat
  <2>4. Append(sent, Head(sendBufferQueue)) \o Tail(sendBufferQueue)
          = sent \o sendBufferQueue
    BY <1>0, <2>2, MoveHead
  <2>5. sent \o << >> = sent
    BY <1>0, ConcatEmptySeq
  <2>6. (sent' \o hand') \o sendBufferQueue' = Numbers(pushed')
    BY <1>2, <2>1, <2>3, <2>4, <2>5
  <2> QED
    BY <2>6 DEF PingsInOrder
<1>12. CASE Send
  <2>1. /\ pushed' = pushed /\ sendBufferQueue' = sendBufferQueue
        /\ hand = <<buffer>> /\ hand' = << >>
        /\ sent' = Append(sent, buffer)
    BY <1>0, <1>12, FourThreads DEF Send, LoopsInPlace, PlacesOK, Goto
  <2>2. Append(sent, buffer) \in Seq(Nat) /\ Append(sent, buffer) = sent \o <<buffer>>
    BY <1>0, AppendProperties, AppendIsConcat
  <2>3. Append(sent, buffer) \o << >> = Append(sent, buffer)
    BY <2>2, ConcatEmptySeq
  <2>4. (sent' \o hand') \o sendBufferQueue' = Numbers(pushed')
    BY <1>2, <2>1, <2>2, <2>3
  <2> QED
    BY <2>4 DEF PingsInOrder
<1>13. CASE SendFails
  <2>1. /\ UNCHANGED <<pushed, sendBufferQueue, sent>>
        /\ hand = <<buffer>> /\ hand' = <<buffer>>
    BY <1>0, <1>13, FourThreads DEF SendFails, PlacesOK, Goto
  <2>2. (sent' \o hand') \o sendBufferQueue' = Numbers(pushed')
    BY <1>2, <2>1
  <2> QED
    BY <2>2 DEF PingsInOrder
<1>14. CASE ReadRecvSize \/ GetRecvBuffer \/ DrainEnds
  <2>1. unmoved
    BY <1>0, <1>14, FourThreads
    DEF ReadRecvSize, GetRecvBuffer, DrainEnds, PlacesOK, Goto, sending
  <2> QED
    BY <1>3, <2>1
<1>15. CASE PeerAnswers \/ PeerCloses \/ UNCHANGED vars
  <2>1. unmoved
    BY <1>15 DEF PeerAnswers, PeerCloses, sending, vars
  <2> QED
    BY <1>3, <2>1
<1> QED
  BY <1>4, <1>5, <1>6, <1>7, <1>8, <1>9, <1>10, <1>11, <1>12, <1>13, <1>14, <1>15
  DEF Next, MainRuns, RunRecvThread, RunSendThread, RunLogicThread

----------------------------------------------------------------------------
LEMMA ClosedStep ==
  TypeOK /\ StartsAndJoins /\ ClosedInPlace /\ [Next]_vars => ClosedInPlace'
<1> SUFFICES ASSUME TypeOK, StartsAndJoins, ClosedInPlace, [Next]_vars
             PROVE  ClosedInPlace'
  OBVIOUS
<1>0. PlacesOK
  BY DEF TypeOK
<1> USE <1>0, FourThreads DEF PlacesOK, ClosedInPlace, Goto
<1>1. CASE StartLogicThread \/ Connects \/ ConnectFails
  BY <1>1 DEF StartLogicThread, Connects, ConnectFails, StartsAndJoins
<1>2. CASE RequestStop \/ WakeSender \/ JoinRecv \/ JoinSend \/ JoinLogic
  BY <1>2 DEF RequestStop, WakeSender, JoinRecv, JoinSend, JoinLogic
<1>3. CASE \/ WhileNotNeedStop("recv", "recv") \/ WhileNotNeedStop("send", "wait")
           \/ WhileNotNeedStop("logic", "size")
  BY <1>3 DEF WhileNotNeedStop
<1>4. CASE Push("main") \/ Push("logic") \/ Signal("main") \/ Signal("logic")
  BY <1>4 DEF Push, Signal, Before, After, Enqueue
<1>5. CASE Recv \/ MakePacket \/ NoMorePackets
  BY <1>5 DEF Recv, MakePacket, NoMorePackets
<1>9. CASE RecvEnds \/ DecodeFails
  BY <1>9 DEF RecvEnds, DecodeFails, StartsAndJoins
<1>6. CASE WaitForSignal \/ ReadSendSize \/ PopSendBuffer \/ Send \/ SendFails
  BY <1>6 DEF WaitForSignal, ReadSendSize, PopSendBuffer, Send, SendFails
<1>7. CASE ReadRecvSize \/ GetRecvBuffer \/ DrainEnds
  BY <1>7 DEF ReadRecvSize, GetRecvBuffer, DrainEnds
<1>8. CASE PeerAnswers \/ PeerCloses \/ UNCHANGED vars
  BY <1>8 DEF PeerAnswers, PeerCloses, vars
<1> QED
  BY <1>1, <1>2, <1>3, <1>4, <1>5, <1>6, <1>7, <1>8, <1>9
  DEF Next, MainRuns, RunRecvThread, RunSendThread, RunLogicThread

(* A step that moves no unit and no Pong, and does not open the socket.    *)
LEMMA NoPongMoves ==
  ASSUME PongsInOrder, UNCHANGED <<handled, recvBufferQueue>>,
         sessionSocket' = "open" =>
           sessionSocket = "open" /\ UNCHANGED <<recvRingBuffer, stream, pongs>>
  PROVE  PongsInOrder'
BY DEF PongsInOrder

(* What recv() returns goes from the stream to the ring buffer.            *)
LEMMA RecvMoves ==
  ASSUME TypeOK, LessThanPacketLeft, PongsInOrder, Recv
  PROVE  PongsInOrder'
<1>1. PICK n \in 1 .. RecvMax :
        /\ n <= Len(stream)
        /\ stream' = SubSeq(stream, n + 1, Len(stream))
        /\ Len(recvRingBuffer) + n <= RingSize =>
             recvRingBuffer' = recvRingBuffer \o SubSeq(stream, 1, n)
        /\ UNCHANGED <<sessionSocket, pongs, recvBufferQueue, handled>>
        /\ at["recv"] = "recv"
  <2>1. Len(recvRingBuffer) \in Nat /\ RingSize \in Nat /\ RecvMax \in Nat
    BY Sizes DEF TypeOK, DataOK
  <2>2. ASSUME NEW n \in 1 .. RecvMax
        PROVE  Len(recvRingBuffer) + n <= RingSize => ~(Len(recvRingBuffer) + n > RingSize)
    BY <2>1
  <2> QED
    BY <2>2 DEF Recv, Goto
<1>2. stream \in Seq(Nat) /\ recvRingBuffer \in Seq(Nat)
  BY DEF TypeOK, DataOK
<1>3. n \in 0 .. Len(stream)
  BY <1>1, <1>2, Sizes
<1>4. Len(recvRingBuffer) + n <= RingSize
  <2>1. Len(recvRingBuffer) < Header + Payload /\ Len(recvRingBuffer) \in Nat
    BY <1>1, <1>2 DEF LessThanPacketLeft, PacketSize
  <2>2. Header + Payload - 1 + RecvMax <= RingSize
    BY ClientAssumption DEF ClientAssumption
  <2> QED
    BY <2>1, <2>2, Sizes
<1>5. /\ SubSeq(stream, 1, n) \in Seq(Nat) /\ stream' \in Seq(Nat)
      /\ SubSeq(stream, 1, n) \o stream' = stream
  BY <1>1, <1>2, <1>3, CutQueue
<1>6. recvRingBuffer' \o stream' = recvRingBuffer \o stream
  <2>1. recvRingBuffer' = recvRingBuffer \o SubSeq(stream, 1, n)
    BY <1>1, <1>4
  <2>2. (recvRingBuffer \o SubSeq(stream, 1, n)) \o stream'
          = recvRingBuffer \o (SubSeq(stream, 1, n) \o stream')
    BY <1>2, <1>5, ThreePieces
  <2> QED
    BY <1>5, <2>1, <2>2
<1> QED
  BY <1>1, <1>6 DEF PongsInOrder

(* A packet taken from the ring buffer is the next Pong, and the units     *)
(* behind it are those of the Pongs after that.                            *)
LEMMA PacketMoves ==
  ASSUME TypeOK, ClosedInPlace, PongsInOrder, MakePacket
  PROVE  PongsInOrder'
<1>1. /\ handled \in Seq(Nat) /\ recvBufferQueue \in Seq(Nat) /\ pongs \in Nat
      /\ stream \in Seq(Nat) /\ recvRingBuffer \in Seq(Nat)
      /\ sessionSocket \in {"open", "closed"}
  BY DEF TypeOK, DataOK
<1>2. /\ PacketSize \in 0 .. Len(recvRingBuffer) /\ recvRingBuffer # << >>
      /\ recvRingBuffer' = WithoutPacket
      /\ recvBufferQueue' = Append(recvBufferQueue, Head(recvRingBuffer))
      /\ UNCHANGED <<handled, stream, pongs, sessionSocket>>
      /\ at["recv"] = "make"
  BY <1>1, Sizes DEF MakePacket, HasPacket, Goto, peer
<1>3. sessionSocket = "open"
  BY <1>1, <1>2 DEF ClosedInPlace
<1>4. PICK made \in Seq(Nat) : made = handled \o recvBufferQueue
  BY <1>1, ConcatProperties
<1>5. PICK m \in Nat : m = Len(made)
  BY <1>4, LenProperties
<1>6. /\ made = Numbers(m) /\ m <= pongs
      /\ recvRingBuffer \o stream = Units(m, pongs - m)
  BY <1>3, <1>4, <1>5 DEF PongsInOrder
<1>7. PICK n \in Nat : n = pongs - m
  BY <1>1, <1>6
<1>8. PICK p \in Seq(Nat), q \in Seq(Nat) :
        p = SubSeq(recvRingBuffer, 1, PacketSize) /\ q = WithoutPacket
  BY <1>1, <1>2, CutQueue DEF WithoutPacket
<1>9. p \o q = recvRingBuffer /\ Len(p) = PacketSize
  <2>1. p \o q = recvRingBuffer
    BY <1>1, <1>2, <1>8, CutQueue DEF WithoutPacket
  <2>2. Len(SubSeq(recvRingBuffer, 1, PacketSize)) = PacketSize
    BY <1>1, <1>2, Sizes
  <2> QED
    BY <1>8, <2>1, <2>2
<1>10. PICK r \in Seq(Nat) : r = q \o stream /\ p \o r = recvRingBuffer \o stream
  <2>1. q \o stream \in Seq(Nat) /\ p \o (q \o stream) = (p \o q) \o stream
    <3>1. stream \in Seq(Nat)
      BY <1>1
    <3> QED
      BY <3>1, ThreePieces, SMTT(30)
  <2> QED
    BY <1>9, <2>1
<1>11. IsPackets(p \o r, PacketSize, m, n)
  BY <1>6, <1>7, <1>10 DEF Units, IsPackets
<1>12. n > 0 /\ p[1] = m + 1 /\ IsPackets(r, PacketSize, m + 1, n - 1)
  <2>1. PacketSize \in Nat \ {0} /\ Len(p) = PacketSize
    BY <1>9, Sizes
  <2> QED
    BY <1>11, <2>1, FirstPacket
<1>13. Head(recvRingBuffer) = m + 1
  <2>1. p # << >>
    BY <1>9, Sizes, EmptySeq
  <2>2. Head(p \o q) = Head(p) /\ Head(p) = p[1]
    BY <2>1, HeadOfFirst, HeadTailProperties
  <2> QED
    BY <1>9, <1>12, <2>2
<1>14. handled' \o recvBufferQueue' = Numbers(m + 1)
  <2>1. handled \o Append(recvBufferQueue, m + 1) = Append(made, m + 1)
    BY <1>1, <1>4, AppendToLast, SMTT(30)
  <2>2. Append(Numbers(m), m + 1) = Numbers(m + 1)
    BY AppendNext DEF Numbers
  <2> QED
    BY <1>2, <1>6, <1>13, <2>1, <2>2
<1>15. Len(Numbers(m + 1)) = m + 1
  BY DEF Numbers
<1>16. recvRingBuffer' \o stream' = Units(m + 1, pongs - (m + 1))
  <2>1. pongs - (m + 1) = n - 1
    BY <1>1, <1>7
  <2>2. r = Units(m + 1, n - 1)
    BY <1>12 DEF Units, IsPackets
  <2> QED
    BY <1>2, <1>8, <1>10, <1>12, <2>1, <2>2
<1>17. m + 1 <= pongs
  BY <1>1, <1>7, <1>12
<1> QED
  BY <1>2, <1>14, <1>15, <1>16, <1>17 DEF PongsInOrder

LEMMA AnswerMoves ==
  ASSUME TypeOK, PongsInOrder, PeerAnswers
  PROVE  PongsInOrder'
<1>1. /\ handled \in Seq(Nat) /\ recvBufferQueue \in Seq(Nat) /\ pongs \in Nat
      /\ stream \in Seq(Nat) /\ recvRingBuffer \in Seq(Nat)
  BY DEF TypeOK, DataOK
<1>2. /\ stream' = stream \o [i \in 1 .. PacketSize |-> pongs + 1]
      /\ pongs' = pongs + 1
      /\ UNCHANGED <<handled, recvBufferQueue, recvRingBuffer, sessionSocket>>
  BY DEF PeerAnswers, receiving
<1>3. PICK m \in Nat : m = Len(handled \o recvBufferQueue)
  BY <1>1, ConcatProperties, LenProperties
<1>4. handled' \o recvBufferQueue' = Numbers(m) /\ Len(handled' \o recvBufferQueue') = m
  BY <1>2, <1>3 DEF PongsInOrder
<1>5. ASSUME sessionSocket = "open"
      PROVE  m <= pongs' /\ recvRingBuffer' \o stream' = Units(m, pongs' - m)
  <2>1. m <= pongs /\ recvRingBuffer \o stream = Units(m, pongs - m)
    BY <1>3, <1>5 DEF PongsInOrder
  <2>2. PICK n \in Nat : n = pongs - m
    BY <1>1, <2>1
  <2>3. PICK q \in Seq(Nat) : q = recvRingBuffer \o stream
    BY <1>1, ConcatProperties
  <2>4. PICK r \in Seq(Nat) : r = [i \in 1 .. PacketSize |-> pongs + 1]
    <3>1. [i \in 1 .. PacketSize |-> pongs + 1] \in Seq(Nat)
      BY <1>1, Sizes
    <3> QED
      BY <3>1
  <2>5. r = [i \in 1 .. PacketSize |-> m + n + 1]
    <3>1. pongs + 1 = m + n + 1
      BY <1>1, <2>2
    <3> QED
      BY <2>4, <3>1
  <2>6. IsPackets(q, PacketSize, m, n)
    BY <2>1, <2>2, <2>3 DEF Units, IsPackets
  <2>7. IsPackets(q \o r, PacketSize, m, n + 1)
    BY <2>5, <2>6, Sizes, LastPacket
  <2>8. recvRingBuffer \o (stream \o r) = q \o r
    <3>1. recvRingBuffer \o (stream \o r) = (recvRingBuffer \o stream) \o r
      <4>1. stream \in Seq(Nat) /\ recvRingBuffer \in Seq(Nat)
        BY <1>1
      <4> QED
        BY <4>1, ThreePieces, SMTT(30)
    <3> QED
      BY <2>3, <3>1
  <2>9. n + 1 = pongs' - m /\ m <= pongs'
    BY <1>1, <1>2, <2>1, <2>2
  <2> QED
    BY <1>2, <2>4, <2>7, <2>8, <2>9 DEF Units, IsPackets
<1> QED
  BY <1>2, <1>4, <1>5 DEF PongsInOrder

LEMMA PongsStep ==
  /\ TypeOK /\ LoopsInPlace /\ ClosedInPlace /\ LessThanPacketLeft /\ PongsInOrder
  /\ [Next]_vars
  => PongsInOrder'
<1> SUFFICES ASSUME TypeOK, LoopsInPlace, ClosedInPlace, LessThanPacketLeft,
                    PongsInOrder, [Next]_vars
             PROVE  PongsInOrder'
  OBVIOUS
<1>1. CASE StartLogicThread \/ Connects \/ ConnectFails
  BY <1>1, NoPongMoves DEF StartLogicThread, Connects, ConnectFails, receiving, peer
<1>2. CASE RequestStop \/ WakeSender \/ JoinRecv \/ JoinSend \/ JoinLogic
  BY <1>2, NoPongMoves
  DEF RequestStop, WakeSender, JoinRecv, JoinSend, JoinLogic, receiving, peer
<1>3. CASE \/ WhileNotNeedStop("recv", "recv") \/ WhileNotNeedStop("send", "wait")
           \/ WhileNotNeedStop("logic", "size")
  BY <1>3, NoPongMoves DEF WhileNotNeedStop, receiving, peer
<1>4. CASE Push("main") \/ Push("logic") \/ Signal("main") \/ Signal("logic")
  BY <1>4, NoPongMoves DEF Push, Signal, Enqueue, receiving, peer
<1>5. CASE Recv
  BY <1>5, RecvMoves
<1>6. CASE MakePacket
  BY <1>6, PacketMoves
<1>7. CASE RecvEnds \/ DecodeFails \/ NoMorePackets
  BY <1>7, NoPongMoves DEF RecvEnds, DecodeFails, NoMorePackets, receiving, peer
<1>8. CASE WaitForSignal \/ ReadSendSize \/ PopSendBuffer \/ Send \/ SendFails
  BY <1>8, NoPongMoves
  DEF WaitForSignal, ReadSendSize, PopSendBuffer, Send, SendFails, receiving, peer
<1>9. CASE ReadRecvSize \/ DrainEnds
  BY <1>9, NoPongMoves DEF ReadRecvSize, DrainEnds, receiving, peer
<1>10. CASE GetRecvBuffer
  <2>1. handled \in Seq(Nat) /\ recvBufferQueue \in Seq(Nat)
    BY DEF TypeOK, DataOK
  <2>2. recvBufferQueue # << >>
    BY <1>10, <2>1, EmptySeq DEF GetRecvBuffer, LoopsInPlace, TypeOK, DataOK
  <2>3. handled' \o recvBufferQueue' = handled \o recvBufferQueue
    BY <1>10, <2>1, <2>2, MoveHead DEF GetRecvBuffer
  <2>4. UNCHANGED <<recvRingBuffer, stream, pongs, sessionSocket>>
    BY <1>10 DEF GetRecvBuffer, peer
  <2> QED
    BY <2>3, <2>4 DEF PongsInOrder
<1>11. CASE PeerAnswers
  BY <1>11, AnswerMoves
<1>12. CASE PeerCloses \/ UNCHANGED vars
  BY <1>12, NoPongMoves DEF PeerCloses, receiving, vars
<1> QED
  BY <1>1, <1>2, <1>3, <1>4, <1>5, <1>6, <1>7, <1>8, <1>9, <1>10, <1>11, <1>12
  DEF Next, MainRuns, RunRecvThread, RunSendThread, RunLogicThread

----------------------------------------------------------------------------
(* The inductive invariant of the client (StartClient, StopClient, the     *)
(* loops of its threads and both queues).                                  *)
THEOREM ClientInvariant == Spec => []ClientInv
<1>1. ClientInv /\ [Next]_vars => ClientInv'
  <2> SUFFICES ASSUME ClientInv, [Next]_vars PROVE ClientInv'
    OBVIOUS
  <2>1. TypeOK /\ StartsAndJoins /\ LoopsInPlace /\ ClosedInPlace
        /\ LessThanPacketLeft /\ UncoveredIsSignalled /\ PingsInOrder /\ PongsInOrder
    BY DEF ClientInv
  <2>2. TypeOK' /\ StartsAndJoins' /\ LoopsInPlace'
    BY <2>1, TypeStep, StartsStep, LoopsStep DEF TypeOK
  <2>3. LessThanPacketLeft' /\ UncoveredIsSignalled' /\ PingsInOrder'
    BY <2>1, LeftStep, UncoveredStep, PingsStep
  <2>4. ClosedInPlace' /\ PongsInOrder'
    BY <2>1, ClosedStep, PongsStep
  <2> QED
    BY <2>2, <2>3, <2>4 DEF ClientInv
<1> QED
  BY <1>1, InitInv, PTL DEF Spec

(* DoSend sends what SendPacket pushed, in that order and once, whichever  *)
(* threads push, up to a send() that fails.                                *)
THEOREM PingsInOrderHolds == Spec => []PingsInOrder
<1>1. ClientInv => PingsInOrder
  BY DEF ClientInv
<1> QED
  BY <1>1, ClientInvariant, PTL

(* However recv() cuts what the server writes, the Pongs get to the logic  *)
(* thread whole, in order and once (DoRecv, MakePacketsFromRingBuffer and  *)
(* RunLogicThread).                                                        *)
THEOREM PongsInOrderHolds == Spec => []PongsInOrder
<1>1. ClientInv => PongsInOrder
  BY DEF ClientInv
<1> QED
  BY <1>1, ClientInvariant, PTL

(* The send thread does not wait on the semaphore with a Ping in the queue *)
(* that nobody has signalled or is about to.                               *)
THEOREM NoSleepingSenderHolds == Spec => []NoSleepingSender
<1>1. ClientInv => NoSleepingSender
  BY DEF ClientInv, UncoveredIsSignalled, Uncovered, NoSleepingSender
<1> QED
  BY <1>1, ClientInvariant, PTL

(* MakePacketsFromRingBuffer leaves room in the ring buffer for whatever   *)
(* the next recv() returns.                                                *)
THEOREM RingHasRoomHolds == Spec => []RingHasRoom
<1>1. ClientInv => RingHasRoom
  <2> SUFFICES ASSUME ClientInv, at["recv"] = "recv" \/ (at["recv"] = "check" /\ ~needStop)
               PROVE  Len(recvRingBuffer) + RecvMax <= RingSize
    BY DEF RingHasRoom
  <2>1. recvRingBuffer \in Seq(Nat) /\ Len(recvRingBuffer) < Header + Payload
    BY DEF ClientInv, TypeOK, DataOK, LessThanPacketLeft, PacketSize
  <2>2. Header + Payload - 1 + RecvMax <= RingSize
    BY ClientAssumption DEF ClientAssumption
  <2> QED
    BY <2>1, <2>2, Sizes
<1> QED
  BY <1>1, ClientInvariant, PTL
============================================================================
