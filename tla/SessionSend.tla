---------------------------- MODULE SessionSend ----------------------------
(***************************************************************************)
(* Sending on one session (Session.cpp SendPacket, DoSend; ServerCore.cpp  *)
(* OnSendIoCompleted and the failed completion of RunIoThread): a queue    *)
(* that any caller fills, and ioMode, a compare-and-swap flag that lets    *)
(* one thread at a time post a WSASend.                                    *)
(*                                                                         *)
(* A packet is its place in the order of the Enqueue calls.  CLockFreeQueue*)
(* is external: its Enqueue, GetRestSize and Dequeue are atomic.  The      *)
(* receive of the connection holds one reference of ioCount throughout; the*)
(* module ends where the session is released (see SessionLifecycle).       *)
(***************************************************************************)
EXTENDS Naturals, Sequences, FiniteSets

CONSTANTS Callers,             \* threads that call SendPacket
          IoThreads,           \* threads that run RunIoThread
          ONE_SEND_WSABUF_MAX,
          MaxPackets           \* bound: SendPacket calls

ASSUME SendAssumption ==
  /\ ONE_SEND_WSABUF_MAX \in Nat \ {0}
  /\ MaxPackets \in Nat
  /\ IsFiniteSet(Callers)
  /\ IsFiniteSet(IoThreads)

Threads == Callers \cup IoThreads
NONE == "IO_NONE_SENDING"
SENDING == "IO_SENDING"

(* A slot of sendBufferStore that was never written.                       *)
NoBuffer == 0

VARIABLES sendQueue,       \* CLockFreeQueue
          sendBufferStore, \* NetBuffer*[ONE_SEND_WSABUF_MAX]
          bufferCount,
          ioMode,
          ioCount,
          inFlight,        \* WSASend calls posted and not completed
          pc,              \* pc[t]: where t is in DoSend or OnSendIoCompleted
          expected,        \* expected[t]: the local of DoSend
          restSize,        \* restSize[t]: the local of DoSend
          enqueued,        \* history: number of packets enqueued
          freed,           \* history: buffers given to NetBuffer::Free
          sendFailed       \* history: a WSASend or its completion failed

vars == <<sendQueue, sendBufferStore, bufferCount, ioMode, ioCount, inFlight,
          pc, expected, restSize, enqueued, freed, sendFailed>>
buffers == <<sendQueue, sendBufferStore, bufferCount, enqueued, freed>>
locals == <<expected, restSize>>

Init ==
  /\ sendQueue = << >>
  /\ sendBufferStore = [i \in 1 .. ONE_SEND_WSABUF_MAX |-> NoBuffer]
  /\ bufferCount = 0
  /\ ioMode = NONE
  /\ ioCount = 1
  /\ inFlight = 0
  /\ pc = [t \in Threads |-> "idle"]
  /\ expected = [t \in Threads |-> NONE]
  /\ restSize = [t \in Threads |-> 0]
  /\ enqueued = 0
  /\ freed = << >>
  /\ sendFailed = FALSE

Smaller(m, n) == IF m < n THEN m ELSE n

EnterDoSend(t) ==
  /\ pc' = [pc EXCEPT ![t] = "take"]
  /\ expected' = [expected EXCEPT ![t] = NONE]

----------------------------------------------------------------------------
SendPacket(t) ==
  /\ t \in Callers
  /\ pc[t] = "idle"
  /\ enqueued < MaxPackets
  /\ enqueued' = enqueued + 1
  /\ sendQueue' = Append(sendQueue, enqueued + 1)
  /\ EnterDoSend(t)
  /\ UNCHANGED <<sendBufferStore, bufferCount, ioMode, ioCount, inFlight,
                 restSize, freed, sendFailed>>

(* Mutant of TakeMode: a spin lock, waiting for the flag to be given back. *)
TakeModeSpins(t) ==
  /\ pc[t] = "take"
  /\ ioMode = NONE
  /\ ioMode' = SENDING
  /\ pc' = [pc EXCEPT ![t] = "size"]
  /\ UNCHANGED <<buffers, ioCount, inFlight, locals, sendFailed>>

(* The first compare_exchange_strong.  When it fails, somebody else posts. *)
(* After `continue` expected is SENDING, and the exchange succeeds.        *)
TakeMode(t) ==
  /\ pc[t] = "take"
  /\ IF ioMode = expected[t]
     THEN /\ ioMode' = SENDING
          /\ pc' = [pc EXCEPT ![t] = "size"]
          /\ UNCHANGED expected
     ELSE /\ expected' = [expected EXCEPT ![t] = ioMode]
          /\ pc' = [pc EXCEPT ![t] = "idle"]
          /\ UNCHANGED ioMode
  /\ UNCHANGED <<buffers, ioCount, inFlight, restSize, sendFailed>>

ReadSize(t) ==
  /\ pc[t] = "size"
  /\ restSize' = [restSize EXCEPT ![t] = Len(sendQueue)]
  /\ pc' = [pc EXCEPT ![t] = IF sendQueue = << >> THEN "release" ELSE "fill"]
  /\ UNCHANGED <<buffers, ioMode, ioCount, inFlight, expected, sendFailed>>

(* Mutant of ReleaseMode: `continue` with a fresh expected, as if it were  *)
(* declared inside the loop.                                               *)
ReleaseModeFreshExpected(t) ==
  /\ pc[t] = "release"
  /\ pc' = [pc EXCEPT ![t] = "take"]
  /\ expected' = [expected EXCEPT ![t] = NONE]
  /\ UNCHANGED <<buffers, ioMode, ioCount, inFlight, restSize, sendFailed>>

(* The second compare_exchange_strong: it fails the first time round,      *)
(* because expected is still NONE, and leaves SENDING in expected.         *)
ReleaseMode(t) ==
  /\ pc[t] = "release"
  /\ IF ioMode = expected[t]
     THEN /\ ioMode' = NONE
          /\ pc' = [pc EXCEPT ![t] = "idle"]
          /\ UNCHANGED expected
     ELSE /\ expected' = [expected EXCEPT ![t] = ioMode]
          /\ pc' = [pc EXCEPT ![t] = "take"]
          /\ UNCHANGED ioMode
  /\ UNCHANGED <<buffers, ioCount, inFlight, restSize, sendFailed>>

(* Mutant of FillStore: the whole queue is dequeued but the store keeps    *)
(* only ONE_SEND_WSABUF_MAX of it.                                         *)
FillStoreDropsRest(t) ==
  LET n == Smaller(ONE_SEND_WSABUF_MAX, restSize[t]) IN
  /\ pc[t] = "fill"
  /\ sendBufferStore' = [i \in 1 .. ONE_SEND_WSABUF_MAX |->
                           IF i <= n THEN sendQueue[i] ELSE sendBufferStore[i]]
  /\ sendQueue' = SubSeq(sendQueue, restSize[t] + 1, Len(sendQueue))
  /\ bufferCount' = bufferCount + n
  /\ ioCount' = ioCount + 1
  /\ pc' = [pc EXCEPT ![t] = "post"]
  /\ UNCHANGED <<ioMode, inFlight, locals, enqueued, freed, sendFailed>>

(* min(ONE_SEND_WSABUF_MAX, restSize) buffers go to sendBufferStore[0..],  *)
(* bufferCount is increased, not set; then IncreaseIOCount.                *)
FillStore(t) ==
  LET n == Smaller(ONE_SEND_WSABUF_MAX, restSize[t]) IN
  /\ pc[t] = "fill"
  /\ sendBufferStore' = [i \in 1 .. ONE_SEND_WSABUF_MAX |->
                           IF i <= n THEN sendQueue[i] ELSE sendBufferStore[i]]
  /\ sendQueue' = SubSeq(sendQueue, n + 1, Len(sendQueue))
  /\ bufferCount' = bufferCount + n
  /\ ioCount' = ioCount + 1
  /\ pc' = [pc EXCEPT ![t] = "post"]
  /\ UNCHANGED <<ioMode, inFlight, locals, enqueued, freed, sendFailed>>

(* WSASend: posted (at once or ERROR_IO_PENDING).                          *)
PostSend(t) ==
  /\ pc[t] = "post"
  /\ inFlight' = inFlight + 1
  /\ pc' = [pc EXCEPT ![t] = "idle"]
  /\ UNCHANGED <<buffers, ioMode, ioCount, locals, sendFailed>>

(* WSASend fails: the reference is returned; ioMode and the store are not. *)
PostFails(t) ==
  /\ pc[t] = "post"
  /\ ioCount' = ioCount - 1
  /\ sendFailed' = TRUE
  /\ pc' = [pc EXCEPT ![t] = "idle"]
  /\ UNCHANGED <<buffers, ioMode, inFlight, locals>>

----------------------------------------------------------------------------
(* A completion of the send overlapped reaches an IO thread ...            *)
SendIoCompleted(t) ==
  /\ t \in IoThreads
  /\ pc[t] = "idle"
  /\ inFlight > 0
  /\ inFlight' = inFlight - 1
  /\ pc' = [pc EXCEPT ![t] = "free"]
  /\ UNCHANGED <<buffers, ioMode, ioCount, locals, sendFailed>>

(* ... failed, or with 0 bytes transferred: DecreaseIOCount and no more.   *)
SendIoFailed(t) ==
  /\ t \in IoThreads
  /\ pc[t] = "idle"
  /\ inFlight > 0
  /\ inFlight' = inFlight - 1
  /\ ioCount' = ioCount - 1
  /\ sendFailed' = TRUE
  /\ UNCHANGED <<buffers, ioMode, pc, locals>>

(* OnSendIoCompleted: free what the store holds, and bufferCount = 0.      *)
FreeBuffers(t) ==
  /\ pc[t] = "free"
  /\ freed' = freed \o [i \in 1 .. bufferCount |-> sendBufferStore[i]]
  /\ bufferCount' = 0
  /\ pc' = [pc EXCEPT ![t] = "mode"]
  /\ UNCHANGED <<sendQueue, sendBufferStore, enqueued, ioMode, ioCount,
                 inFlight, locals, sendFailed>>

SetNoneSending(t) ==
  /\ pc[t] = "mode"
  /\ ioMode' = NONE
  /\ pc' = [pc EXCEPT ![t] = "decrease"]
  /\ UNCHANGED <<buffers, ioCount, inFlight, locals, sendFailed>>

(* DecreaseIOCount, then DoSend for what was queued meanwhile.             *)
DecreaseAndDoSend(t) ==
  /\ pc[t] = "decrease"
  /\ ioCount' = ioCount - 1
  /\ EnterDoSend(t)
  /\ UNCHANGED <<buffers, ioMode, inFlight, restSize, sendFailed>>

----------------------------------------------------------------------------
DoSendStep(t) ==
  \/ TakeMode(t) \/ ReadSize(t) \/ ReleaseMode(t) \/ FillStore(t)
  \/ PostSend(t) \/ PostFails(t)

CompletionStep(t) ==
  FreeBuffers(t) \/ SetNoneSending(t) \/ DecreaseAndDoSend(t)

ThreadStep(t) == DoSendStep(t) \/ CompletionStep(t)

Next ==
  \E t \in Threads :
    \/ SendPacket(t)
    \/ SendIoCompleted(t) \/ SendIoFailed(t)
    \/ ThreadStep(t)

(* A thread inside DoSend or OnSendIoCompleted keeps running, and the      *)
(* kernel completes a posted send.                                         *)
Spec ==
  /\ Init
  /\ [][Next]_vars
  /\ \A t \in Threads : WF_vars(ThreadStep(t))
  /\ WF_vars(\E t \in IoThreads : SendIoCompleted(t) \/ SendIoFailed(t))
----------------------------------------------------------------------------
(* Where a thread owns ioMode; the kernel owns it while a send is posted.  *)
OwnerPcs == {"size", "release", "fill", "post", "free", "mode"}

Owns(t) == pc[t] \in OwnerPcs \/ (pc[t] = "take" /\ expected[t] = SENDING)

(* The threads between IncreaseIOCount and the matching DecreaseIOCount.   *)
Counting == {t \in Threads : pc[t] \in {"post", "free", "mode", "decrease"}}

TypeOK ==
  /\ sendQueue \in Seq(Nat)
  /\ sendBufferStore \in [1 .. ONE_SEND_WSABUF_MAX -> Nat]
  /\ bufferCount \in Nat
  /\ ioMode \in {NONE, SENDING}
  /\ ioCount \in Nat
  /\ inFlight \in Nat
  /\ pc \in [Threads -> {"idle", "take", "decrease"} \cup OwnerPcs]
  /\ expected \in [Threads -> {NONE, SENDING}]
  /\ restSize \in [Threads -> Nat]
  /\ enqueued \in Nat
  /\ freed \in Seq(Nat)
  /\ sendFailed \in BOOLEAN

(* One WSASend at a time: the threads between a won exchange and the       *)
(* release, and the sends in flight, are one at most; ioMode says SENDING  *)
(* exactly while there is one, or for ever after a failed send.            *)
OneSendAtATime ==
  /\ inFlight <= 1
  /\ \A t, u \in Threads : Owns(t) /\ Owns(u) => t = u
  /\ \A t \in Threads : Owns(t) => inFlight = 0 /\ ioMode = SENDING
  /\ inFlight = 1 => ioMode = SENDING
  /\ ioMode = SENDING => \/ inFlight = 1
                         \/ sendFailed
                         \/ \E t \in Threads : Owns(t)

(* The buffers the store holds.                                            *)
Stored == [i \in 1 .. bufferCount |-> sendBufferStore[i]]

(* Every packet is, in order, freed after its send completed, in the store *)
(* or in the queue: none is lost, freed twice, or overtaken.               *)
PacketsInOrder ==
  freed \o Stored \o sendQueue = [i \in 1 .. enqueued |-> i]

(* The store never overflows, although bufferCount is only ever added to:  *)
(* it is empty whenever a thread is on its way to fill it.                 *)
StoreBounded ==
  /\ bufferCount <= ONE_SEND_WSABUF_MAX
  /\ ioMode = NONE => bufferCount = 0
  /\ \A t \in Threads :
       Owns(t) /\ pc[t] \notin {"post", "free"} => bufferCount = 0

(* Only the owner dequeues: what it read of the queue is still there.      *)
SizeStillValid ==
  \A t \in Threads : pc[t] = "fill" => restSize[t] \in 1 .. Len(sendQueue)

(* ioCount is the receive's reference, one for each send in flight and one *)
(* for each thread between IncreaseIOCount and DecreaseIOCount.            *)
IoCountIsReferences ==
  ioCount = 1 + inFlight + Cardinality(Counting)

(* The inductive invariant.                                                *)
SendInv ==
  /\ TypeOK
  /\ OneSendAtATime
  /\ StoreBounded
  /\ SizeStillValid
  /\ PacketsInOrder
  /\ IoCountIsReferences

(* DoSend returns: the `continue` of its loop is taken at most once.       *)
DoSendReturns == \A t \in Threads : pc[t] = "take" ~> pc[t] = "idle"

(* MessageFlow.md:120: "구현상 연결이 유지되는 동안 반복 왕복됩니다" (the ping-pong  *)
(* goes on for as long as the connection lives): a packet must not wait in *)
(* sendQueue with nobody left to send it.                                  *)
NoStrandedPacket ==
  (/\ \A t \in Threads : pc[t] = "idle"
   /\ inFlight = 0
   /\ ~sendFailed)
    => sendQueue = << >>
============================================================================
