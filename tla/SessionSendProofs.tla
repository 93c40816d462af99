------------------------- MODULE SessionSendProofs -------------------------
(* Proofs about SessionSend for any finite sets of threads, any batch size *)
(* and any number of packets.                                              *)
EXTENDS SessionSend, QueueLemmas, FiniteSetTheorems

USE SendAssumption DEF NONE, SENDING, NoBuffer

LEMMA InitInv == Init => SendInv
<1> SUFFICES ASSUME Init PROVE SendInv
  OBVIOUS
<1>1. TypeOK
  <2>1. << >> \in Seq(Nat)
    BY EmptySeq
  <2>2. pc \in [Threads -> {"idle", "take", "decrease"} \cup OwnerPcs]
    BY DEF Init
  <2>3. expected \in [Threads -> {NONE, SENDING}] /\ restSize \in [Threads -> Nat]
    BY DEF Init
  <2>4. sendBufferStore \in [1 .. ONE_SEND_WSABUF_MAX -> Nat]
    BY DEF Init
  <2> QED
    BY <2>1, <2>2, <2>3, <2>4 DEF Init, TypeOK
<1>2. OneSendAtATime /\ StoreBounded /\ SizeStillValid
  BY DEF Init, OneSendAtATime, StoreBounded, SizeStillValid, Owns, OwnerPcs
<1>3. PacketsInOrder
  <2>1. Stored = << >> /\ [i \in 1 .. enqueued |-> i] = << >>
    BY DEF Init, Stored
  <2> QED
    BY <2>1 DEF Init, PacketsInOrder
<1>4. IoCountIsReferences
  <2>1. Counting = {}
    BY DEF Init, Counting
  <2> QED
    BY <2>1, FS_EmptySet DEF Init, IoCountIsReferences
<1> QED
  BY <1>1, <1>2, <1>3, <1>4 DEF SendInv

----------------------------------------------------------------------------
(* A step moves one thread and leaves the locals of the others alone.      *)
LEMMA OneThreadMoves ==
  ASSUME TypeOK, NEW t \in Threads,
         SendPacket(t) \/ SendIoCompleted(t) \/ SendIoFailed(t) \/ ThreadStep(t)
  PROVE  \A u \in Threads : u # t => pc'[u] = pc[u] /\ expected'[u] = expected[u]
BY DEF TypeOK, ThreadStep, DoSendStep, CompletionStep, SendPacket, EnterDoSend,
   SendIoCompleted, SendIoFailed, TakeMode, ReadSize, ReleaseMode, FillStore,
   PostSend, PostFails, FreeBuffers, SetNoneSending, DecreaseAndDoSend, locals

(* Who counts, after thread t has moved.                                   *)
LEMMA CountingStep ==
  ASSUME NEW t \in Threads, \A u \in Threads : u # t => pc'[u] = pc[u]
  PROVE  /\ Cardinality(Counting) \in Nat
         /\ t \in Counting => Cardinality(Counting) >= 1
         /\ (t \in Counting <=> t \in Counting')
              => Cardinality(Counting') = Cardinality(Counting)
         /\ t \in Counting /\ t \notin Counting'
              => Cardinality(Counting') = Cardinality(Counting) - 1
         /\ t \notin Counting /\ t \in Counting'
              => Cardinality(Counting') = Cardinality(Counting) + 1
<1>1. IsFiniteSet(Threads)
  BY FS_Union DEF Threads
<1>2. IsFiniteSet(Counting) /\ Cardinality(Counting) \in Nat
  BY <1>1, FS_Subset, FS_CardinalityType DEF Counting
<1>3. t \in Counting' => Counting' = Counting \cup {t}
  BY DEF Counting
<1>4. t \notin Counting' => Counting' = Counting \ {t}
  BY DEF Counting
<1>5. t \in Counting => Cardinality(Counting) >= 1
  BY <1>2, FS_EmptySet
<1>6. /\ Cardinality(Counting \cup {t})
           = IF t \in Counting THEN Cardinality(Counting) ELSE Cardinality(Counting) + 1
      /\ Cardinality(Counting \ {t})
           = IF t \in Counting THEN Cardinality(Counting) - 1 ELSE Cardinality(Counting)
  BY <1>2, FS_AddElement, FS_RemoveElement
<1> QED
  BY <1>2, <1>3, <1>4, <1>5, <1>6

LEMMA CountStep ==
  ASSUME SendInv, NEW t \in Threads,
         SendPacket(t) \/ SendIoCompleted(t) \/ SendIoFailed(t) \/ ThreadStep(t)
  PROVE  IoCountIsReferences' /\ ioCount' \in Nat /\ inFlight' \in Nat
<1> DEFINE n == Cardinality(Counting)
           in == t \in Counting
           stays == n' = n
           leaves == n' = n - 1
           joins == n' = n + 1
<1>0. TypeOK /\ ioCount \in Nat /\ inFlight \in Nat /\ ioCount = 1 + inFlight + n
  BY DEF TypeOK, SendInv, IoCountIsReferences
<1>1. /\ n \in Nat
      /\ in => n >= 1
      /\ (in <=> in') => stays
      /\ in /\ ~in' => leaves
      /\ ~in /\ in' => joins
  BY <1>0, OneThreadMoves, CountingStep
<1>2. /\ in <=> pc[t] \in {"post", "free", "mode", "decrease"}
      /\ in' <=> pc'[t] \in {"post", "free", "mode", "decrease"}
  BY DEF Counting
<1>3. IoCountIsReferences' <=> ioCount' = 1 + inFlight' + n'
  BY DEF IoCountIsReferences
<1> USE DEF TypeOK
<1>4. CASE SendPacket(t) \/ TakeMode(t) \/ ReadSize(t) \/ ReleaseMode(t)
           \/ FreeBuffers(t) \/ SetNoneSending(t)
  <2>1. UNCHANGED <<ioCount, inFlight>>
    BY <1>4 DEF SendPacket, TakeMode, ReadSize, ReleaseMode, FreeBuffers,
       SetNoneSending
  <2>2. in <=> in'
    BY <1>0, <1>2, <1>4 DEF SendPacket, EnterDoSend, TakeMode, ReadSize,
       ReleaseMode, FreeBuffers, SetNoneSending
  <2> QED
    BY <1>0, <1>1, <1>3, <2>1, <2>2
<1>5. CASE FillStore(t)
  <2>1. ioCount' = ioCount + 1 /\ inFlight' = inFlight /\ ~in /\ in'
    BY <1>0, <1>2, <1>5 DEF FillStore
  <2> QED
    BY <1>0, <1>1, <1>3, <2>1
<1>6. CASE PostSend(t)
  <2>1. ioCount' = ioCount /\ inFlight' = inFlight + 1 /\ in /\ ~in'
    BY <1>0, <1>2, <1>6 DEF PostSend
  <2> QED
    BY <1>0, <1>1, <1>3, <2>1
<1>7. CASE PostFails(t) \/ DecreaseAndDoSend(t)
  <2>1. ioCount' = ioCount - 1 /\ inFlight' = inFlight /\ in /\ ~in'
    BY <1>0, <1>2, <1>7 DEF PostFails, DecreaseAndDoSend, EnterDoSend
  <2> QED
    BY <1>0, <1>1, <1>3, <2>1
<1>8. CASE SendIoCompleted(t)
  <2>1. ioCount' = ioCount /\ inFlight' = inFlight - 1 /\ inFlight > 0 /\ ~in /\ in'
    BY <1>0, <1>2, <1>8 DEF SendIoCompleted
  <2> QED
    BY <1>0, <1>1, <1>3, <2>1
<1>9. CASE SendIoFailed(t)
  <2>1. /\ ioCount' = ioCount - 1 /\ inFlight' = inFlight - 1 /\ inFlight > 0
        /\ in <=> in'
    BY <1>0, <1>2, <1>9 DEF SendIoFailed
  <2> QED
    BY <1>0, <1>1, <1>3, <2>1
<1> QED
  BY <1>4, <1>5, <1>6, <1>7, <1>8, <1>9 DEF ThreadStep, DoSendStep, CompletionStep

----------------------------------------------------------------------------
(* What FillStore moves: the head of the queue, into an empty store.       *)
LEMMA FillStoreMoves ==
  ASSUME SendInv, NEW t \in Threads, FillStore(t)
  PROVE  /\ bufferCount = 0 /\ bufferCount' \in 0 .. ONE_SEND_WSABUF_MAX
         /\ sendQueue' \in Seq(Nat)
         /\ sendBufferStore' \in [1 .. ONE_SEND_WSABUF_MAX -> Nat]
         /\ Stored' \in Seq(Nat)
         /\ Stored' \o sendQueue' = sendQueue
<1> DEFINE n == Smaller(ONE_SEND_WSABUF_MAX, restSize[t])
<1>1. bufferCount = 0
  BY DEF FillStore, SendInv, StoreBounded, Owns, OwnerPcs
<1>2. sendQueue \in Seq(Nat) /\ Len(sendQueue) \in Nat
  BY LenProperties DEF SendInv, TypeOK
<1>3. restSize[t] \in 1 .. Len(sendQueue)
  BY DEF FillStore, SendInv, SizeStillValid
<1>4. n \in 1 .. Len(sendQueue) /\ n \in 1 .. ONE_SEND_WSABUF_MAX
  BY <1>2, <1>3 DEF Smaller
<1>5. /\ bufferCount' = n
      /\ sendQueue' = SubSeq(sendQueue, n + 1, Len(sendQueue))
      /\ sendBufferStore' = [i \in 1 .. ONE_SEND_WSABUF_MAX |->
                               IF i <= n THEN sendQueue[i] ELSE sendBufferStore[i]]
  BY <1>1, <1>4 DEF FillStore
<1> HIDE DEF n
<1>6. \A i \in 1 .. n : sendBufferStore'[i] = sendQueue[i]
  BY <1>4, <1>5
<1>7. sendBufferStore' \in [1 .. ONE_SEND_WSABUF_MAX -> Nat]
  <2>1. \A i \in 1 .. ONE_SEND_WSABUF_MAX : sendBufferStore[i] \in Nat
    BY DEF SendInv, TypeOK
  <2>2. \A i \in 1 .. ONE_SEND_WSABUF_MAX : i <= n => sendQueue[i] \in Nat
    BY <1>2, <1>4, ElementOfSeq
  <2> QED
    BY <1>5, <2>1, <2>2
<1>8. Stored' = [i \in 1 .. n |-> sendQueue[i]]
  BY <1>4, <1>5, <1>6 DEF Stored
<1>9. /\ SubSeq(sendQueue, 1, n) \in Seq(Nat)
      /\ sendQueue' \in Seq(Nat)
      /\ SubSeq(sendQueue, 1, n) \o sendQueue' = sendQueue
  BY <1>2, <1>4, <1>5, CutQueue
<1>10. SubSeq(sendQueue, 1, n) = [i \in 1 .. n |-> sendQueue[i]]
  <2>1. /\ Len(SubSeq(sendQueue, 1, n)) = n
        /\ \A i \in 1 .. n : SubSeq(sendQueue, 1, n)[i] = sendQueue[i]
    BY <1>2, <1>4
  <2> QED
    BY <1>9, <2>1
<1>11. Stored' = SubSeq(sendQueue, 1, n)
  BY <1>8, <1>10
<1>12. bufferCount' \in 0 .. ONE_SEND_WSABUF_MAX
  BY <1>4, <1>5
<1> QED
  BY <1>1, <1>7, <1>9, <1>11, <1>12

(* The sequence of buffers in the store is a sequence of packets.          *)
LEMMA StoredType ==
  ASSUME TypeOK, bufferCount <= ONE_SEND_WSABUF_MAX
  PROVE  /\ Stored \in Seq(Nat)
         /\ bufferCount = 0 => Stored = << >>
BY DEF TypeOK, Stored

LEMMA TypeStep ==
  ASSUME SendInv, NEW t \in Threads,
         SendPacket(t) \/ SendIoCompleted(t) \/ SendIoFailed(t) \/ ThreadStep(t)
  PROVE  TypeOK'
<1> USE DEF SendInv, buffers, locals
<1>1. ioCount' \in Nat /\ inFlight' \in Nat
  BY CountStep
<1>2. CASE SendPacket(t)
  BY <1>1, <1>2, AppendProperties DEF SendPacket, EnterDoSend, TypeOK
<1>3. CASE TakeMode(t) \/ ReleaseMode(t)
  BY <1>1, <1>3 DEF TakeMode, ReleaseMode, TypeOK, OwnerPcs
<1>4. CASE ReadSize(t)
  BY <1>1, <1>4, LenProperties DEF ReadSize, TypeOK, OwnerPcs
<1>5. CASE FillStore(t)
  <2>1. bufferCount' \in Nat
    BY <1>5, FillStoreMoves
  <2> QED
    BY <1>1, <1>5, <2>1, FillStoreMoves DEF FillStore, TypeOK, OwnerPcs
<1>6. CASE PostSend(t) \/ PostFails(t)
  BY <1>1, <1>6 DEF PostSend, PostFails, TypeOK
<1>7. CASE SendIoCompleted(t) \/ SendIoFailed(t)
  BY <1>1, <1>7 DEF SendIoCompleted, SendIoFailed, TypeOK, OwnerPcs
<1>8. CASE FreeBuffers(t)
  <2>1. freed' \in Seq(Nat)
    BY <1>8, StoredType, ConcatProperties DEF FreeBuffers, Stored, TypeOK, StoreBounded
  <2> QED
    BY <1>1, <1>8, <2>1 DEF FreeBuffers, TypeOK, OwnerPcs
<1>9. CASE SetNoneSending(t) \/ DecreaseAndDoSend(t)
  BY <1>1, <1>9 DEF SetNoneSending, DecreaseAndDoSend, EnterDoSend, TypeOK
<1> QED
  BY <1>2, <1>3, <1>4, <1>5, <1>6, <1>7, <1>8, <1>9
     DEF ThreadStep, DoSendStep, CompletionStep

(* The ways ioMode and the posted send change hands.                       *)
LEMMA Handover ==
  ASSUME TypeOK, OneSendAtATime, NEW t \in Threads,
         \A u \in Threads : u # t => (Owns(u)' <=> Owns(u)),
         sendFailed => sendFailed',
         \/ (Owns(t)' <=> Owns(t)) /\ UNCHANGED <<inFlight, ioMode>>
         \/ /\ Owns(t)' /\ (ioMode = NONE \/ Owns(t))
            /\ ioMode' = SENDING /\ UNCHANGED inFlight
         \/ Owns(t) /\ ~Owns(t)' /\ ioMode' = NONE /\ UNCHANGED inFlight
         \/ Owns(t) /\ ~Owns(t)' /\ inFlight' = inFlight + 1 /\ UNCHANGED ioMode
         \/ Owns(t) /\ ~Owns(t)' /\ sendFailed' /\ UNCHANGED <<inFlight, ioMode>>
         \/ /\ inFlight > 0 /\ inFlight' = inFlight - 1 /\ UNCHANGED ioMode
            /\ Owns(t)' \/ (sendFailed' /\ (Owns(t)' <=> Owns(t)))
  PROVE  OneSendAtATime'
<1> inFlight \in Nat
  BY DEF TypeOK
<1> QED
  BY DEF OneSendAtATime

(* One exchange wins at a time, and only the owner gives ioMode back.      *)
LEMMA OneSendStep ==
  ASSUME SendInv, NEW t \in Threads,
         SendPacket(t) \/ SendIoCompleted(t) \/ SendIoFailed(t) \/ ThreadStep(t)
  PROVE  OneSendAtATime'
<1>0. TypeOK /\ OneSendAtATime
  BY DEF SendInv
<1>1. \A u \in Threads : u # t => (Owns(u)' <=> Owns(u))
  BY <1>0, OneThreadMoves DEF Owns
<1>2. Owns(t) => ioMode = SENDING
  BY <1>0 DEF OneSendAtATime
<1> USE DEF TypeOK, Owns, OwnerPcs
<1>3. CASE SendPacket(t) \/ ReadSize(t) \/ FillStore(t) \/ FreeBuffers(t)
           \/ DecreaseAndDoSend(t)
  <2>1. (Owns(t)' <=> Owns(t)) /\ UNCHANGED <<inFlight, ioMode, sendFailed>>
    BY <1>0, <1>3 DEF SendPacket, EnterDoSend, ReadSize, FillStore, FreeBuffers,
       DecreaseAndDoSend, locals
  <2> QED
    BY <1>0, <1>1, <2>1, Handover
<1>4. CASE TakeMode(t)
  <2>1. /\ UNCHANGED <<inFlight, sendFailed>>
        /\ \/ (Owns(t)' <=> Owns(t)) /\ UNCHANGED ioMode
           \/ Owns(t)' /\ (ioMode = NONE \/ Owns(t)) /\ ioMode' = SENDING
    BY <1>0, <1>2, <1>4 DEF TakeMode
  <2> QED
    BY <1>0, <1>1, <2>1, Handover
<1>5. CASE ReleaseMode(t) \/ SetNoneSending(t)
  <2>1. /\ UNCHANGED <<inFlight, sendFailed>>
        /\ \/ (Owns(t)' <=> Owns(t)) /\ UNCHANGED ioMode
           \/ Owns(t) /\ ~Owns(t)' /\ ioMode' = NONE
    BY <1>0, <1>2, <1>5 DEF ReleaseMode, SetNoneSending
  <2> QED
    BY <1>0, <1>1, <2>1, Handover
<1>6. CASE PostSend(t) \/ PostFails(t)
  <2>1. /\ Owns(t) /\ ~Owns(t)' /\ UNCHANGED ioMode /\ (sendFailed => sendFailed')
        /\ \/ inFlight' = inFlight + 1
           \/ sendFailed' /\ UNCHANGED inFlight
    BY <1>0, <1>6 DEF PostSend, PostFails
  <2> QED
    BY <1>0, <1>1, <2>1, Handover
<1>7. CASE SendIoCompleted(t) \/ SendIoFailed(t)
  <2>1. /\ inFlight > 0 /\ inFlight' = inFlight - 1 /\ UNCHANGED ioMode
        /\ Owns(t)' \/ (sendFailed' /\ (Owns(t)' <=> Owns(t)))
        /\ sendFailed => sendFailed'
    BY <1>0, <1>7 DEF SendIoCompleted, SendIoFailed, locals
  <2> QED
    BY <1>0, <1>1, <2>1, Handover
<1> QED
  BY <1>3, <1>4, <1>5, <1>6, <1>7 DEF ThreadStep, DoSendStep, CompletionStep

LEMMA StoreStep ==
  ASSUME SendInv, NEW t \in Threads,
         SendPacket(t) \/ SendIoCompleted(t) \/ SendIoFailed(t) \/ ThreadStep(t)
  PROVE  StoreBounded' /\ SizeStillValid'
<1> USE DEF SendInv, OneSendAtATime, StoreBounded, SizeStillValid, TypeOK, Owns,
        OwnerPcs, buffers, locals
<1>1. CASE SendPacket(t)
  <2>1. Len(sendQueue') = Len(sendQueue) + 1
    BY <1>1, AppendProperties DEF SendPacket
  <2> QED
    BY <1>1, <2>1, LenProperties DEF SendPacket, EnterDoSend
<1>2. CASE TakeMode(t)
  <2>1. UNCHANGED <<sendQueue, bufferCount, restSize>>
    BY <1>2 DEF TakeMode
  <2>2. /\ \A u \in Threads :
             u # t => pc'[u] = pc[u] /\ expected'[u] = expected[u]
        /\ pc'[t] \in {"size", "idle"} /\ ioMode' \in {ioMode, SENDING}
        /\ pc'[t] = "size" => ioMode = expected[t]
    BY <1>2 DEF TakeMode
  <2>3. pc'[t] = "size" => bufferCount = 0
    BY <1>2, <2>2 DEF TakeMode
  <2>4. StoreBounded /\ SizeStillValid
    OBVIOUS
  <2> HIDE DEF SendInv, TypeOK, OneSendAtATime
  <2> QED
    BY <2>1, <2>2, <2>3, <2>4
<1>3. CASE ReadSize(t)
  BY <1>3, EmptySeq DEF ReadSize
<1>4. CASE ReleaseMode(t)
  BY <1>4 DEF ReleaseMode
<1>5. CASE FillStore(t)
  <2>1. bufferCount' <= ONE_SEND_WSABUF_MAX
    BY <1>5, FillStoreMoves
  <2>2. /\ ioMode' = SENDING
        /\ \A u \in Threads : pc'[u] = IF u = t THEN "post" ELSE pc[u]
        /\ \A u \in Threads : u # t => ~Owns(u)
    BY <1>5 DEF FillStore
  <2> QED
    BY <1>5, <2>1, <2>2 DEF FillStore
<1>6. CASE PostSend(t) \/ PostFails(t)
  BY <1>6 DEF PostSend, PostFails
<1>7. CASE SendIoCompleted(t) \/ SendIoFailed(t)
  BY <1>7 DEF SendIoCompleted, SendIoFailed
<1>8. CASE FreeBuffers(t)
  BY <1>8 DEF FreeBuffers
<1>9. CASE SetNoneSending(t)
  BY <1>9 DEF SetNoneSending
<1>10. CASE DecreaseAndDoSend(t)
  BY <1>10 DEF DecreaseAndDoSend, EnterDoSend
<1> QED
  BY <1>1, <1>2, <1>3, <1>4, <1>5, <1>6, <1>7, <1>8, <1>9, <1>10
     DEF ThreadStep, DoSendStep, CompletionStep

LEMMA JoinAfter ==
  ASSUME NEW r \in Seq(Nat)
  PROVE  \A a, b \in Seq(Nat) : (r \o << >>) \o (a \o b) = (r \o a) \o b
<1> SUFFICES ASSUME NEW a \in Seq(Nat), NEW b \in Seq(Nat)
             PROVE  (r \o << >>) \o (a \o b) = (r \o a) \o b
  OBVIOUS
<1> QED
  BY JoinPieces

(* Packets move from the queue to the store to freed, in that order.       *)
LEMMA OrderStep ==
  ASSUME SendInv, NEW t \in Threads,
         SendPacket(t) \/ SendIoCompleted(t) \/ SendIoFailed(t) \/ ThreadStep(t)
  PROVE  PacketsInOrder'
<1> USE DEF SendInv
<1>0. /\ freed \in Seq(Nat) /\ sendQueue \in Seq(Nat) /\ Stored \in Seq(Nat)
      /\ freed \o Stored \in Seq(Nat)
      /\ enqueued \in Nat
  BY StoredType, ConcatProperties DEF TypeOK, StoreBounded
<1>a. \A a, b \in Seq(Nat) : (freed \o << >>) \o (a \o b) = (freed \o a) \o b
  BY <1>0, JoinAfter
<1>1. CASE SendPacket(t)
  <2>1. Stored' = Stored
    BY <1>1 DEF SendPacket, Stored
  <2>2. freed \o Stored \o Append(sendQueue, enqueued + 1)
          = Append(freed \o Stored \o sendQueue, enqueued + 1)
    BY <1>0, AppendToLast
  <2>3. Append([i \in 1 .. enqueued |-> i], enqueued + 1)
          = [i \in 1 .. enqueued + 1 |-> i]
    BY <1>0, AppendNext
  <2> QED
    BY <1>1, <2>1, <2>2, <2>3 DEF SendPacket, PacketsInOrder
<1>2. CASE FillStore(t)
  <2>1. Stored = << >>
    BY <1>2, FillStoreMoves, StoredType DEF StoreBounded
  <2> PICK a \in Seq(Nat), b \in Seq(Nat) :
        a = Stored' /\ b = sendQueue' /\ a \o b = sendQueue
    BY <1>2, FillStoreMoves
  <2> QED
    BY <1>2, <1>a, <2>1 DEF FillStore, PacketsInOrder
<1>3. CASE FreeBuffers(t)
  <2>1. Stored' = << >>
    BY <1>3 DEF FreeBuffers, Stored
  <2>2. freed' = freed \o Stored
    BY <1>3 DEF FreeBuffers, Stored
  <2>3. (freed \o Stored) \o << >> = freed \o Stored
    BY <1>0, ConcatEmptySeq
  <2> QED
    BY <1>3, <2>1, <2>2, <2>3 DEF FreeBuffers, PacketsInOrder
<1>4. CASE UNCHANGED <<sendQueue, sendBufferStore, bufferCount, enqueued, freed>>
  BY <1>4 DEF PacketsInOrder, Stored
<1> QED
  BY <1>1, <1>2, <1>3, <1>4 DEF buffers, ThreadStep, DoSendStep, CompletionStep,
     TakeMode, ReadSize, ReleaseMode, PostSend, PostFails, SendIoCompleted,
     SendIoFailed, SetNoneSending, DecreaseAndDoSend

LEMMA NextInv == SendInv /\ [Next]_vars => SendInv'
<1> SUFFICES ASSUME SendInv, [Next]_vars PROVE SendInv'
  OBVIOUS
<1>1. CASE UNCHANGED vars
  BY <1>1 DEF vars, SendInv, TypeOK, OneSendAtATime, StoreBounded,
     SizeStillValid, PacketsInOrder, IoCountIsReferences, Owns, Stored, Counting
<1>2. CASE Next
  BY <1>2, TypeStep, OneSendStep, StoreStep, OrderStep, CountStep
     DEF Next, SendInv
<1> QED
  BY <1>1, <1>2

----------------------------------------------------------------------------
(* The inductive invariant of sending.                                     *)
THEOREM SendInvariant == Spec => []SendInv
<1>1. Init => SendInv
  BY InitInv
<1>2. SendInv /\ [Next]_vars => SendInv'
  BY NextInv
<1> QED
  BY <1>1, <1>2, PTL DEF Spec

(* ioMode never lets two threads post, nor a thread post while a WSASend   *)
(* is in flight: sendIOData.overlapped is never reused.                    *)
THEOREM OneSendAtATimeHolds == Spec => []OneSendAtATime
<1>1. SendInv => OneSendAtATime
  BY DEF SendInv
<1> QED
  BY <1>1, SendInvariant, PTL

(* sendBufferStore[0..bufferCount-1] never exceeds ONE_SEND_WSABUF_MAX.    *)
THEOREM StoreBoundedHolds == Spec => []StoreBounded
<1>1. SendInv => StoreBounded
  BY DEF SendInv
<1> QED
  BY <1>1, SendInvariant, PTL

(* Packets are sent and freed exactly once, in the order of SendPacket.    *)
THEOREM PacketsInOrderHolds == Spec => []PacketsInOrder
<1>1. SendInv => PacketsInOrder
  BY DEF SendInv
<1> QED
  BY <1>1, SendInvariant, PTL

(* ioCount is never wrong: every path of a send returns its reference.     *)
THEOREM IoCountIsReferencesHolds == Spec => []IoCountIsReferences
<1>1. SendInv => IoCountIsReferences
  BY DEF SendInv
<1> QED
  BY <1>1, SendInvariant, PTL
============================================================================
