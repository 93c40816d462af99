---------------------------- MODULE ActorProofs ----------------------------
(* Proofs about Actor for every set of threads and every MaxSends.         *)
EXTENDS Actor, QueueLemmas

USE ActorAssumption

LEMMA InitInv == Init => ActorInv
<1> SUFFICES ASSUME Init PROVE ActorInv
  OBVIOUS
<1>1. TypeOK
  <2>1. << >> \in Seq(Messages)
    BY EmptySeq
  <2>2. outgoing \in [Senders -> SUBSET Messages]
    BY DEF Init
  <2>3. sent \in [Senders -> 0 .. MaxSends]
    BY DEF Init
  <2> QED
    BY <2>1, <2>2, <2>3 DEF Init, TypeOK
<1>2. FifoExactlyOnce
  BY DEF Init, FifoExactlyOnce
<1>3. /\ DrainedBetweenCalls /\ HandlerAtFront /\ OneCallAtATime
      /\ AcceptedBeforeCall /\ AcceptedInOrder
  BY DEF Init, DrainedBetweenCalls, HandlerAtFront, OneCallAtATime,
         AcceptedBeforeCall, AcceptedInOrder
<1> QED
  BY <1>1, <1>2, <1>3 DEF ActorInv

(* SendMessage: one more call begins, with a larger number than any        *)
(* accepted message of its thread.                                         *)
LEMMA SendMessageInv ==
  ASSUME ActorInv, NEW t \in Senders, SendMessage(t)
  PROVE  ActorInv'
<1> USE DEF ActorInv, queues
<1>d. sent[t] \in 0 .. MaxSends /\ sent[t] < MaxSends
  BY DEF TypeOK, SendMessage
<1>0. t \in Senders /\ sent[t] \in 0 .. MaxSends /\ sent[t] + 1 \in 1 .. MaxSends
  BY <1>d, ActorAssumption DEF ActorAssumption
<1>a. \A e \in BOOLEAN : [from |-> t, num |-> sent[t] + 1, empty |-> e] \in Messages
  BY <1>0 DEF Messages
<1>b. outgoing' \in [Senders -> SUBSET Messages]
  <2>3. outgoing \in [Senders -> SUBSET Messages]
    BY DEF TypeOK
  <2> HIDE DEF ActorInv, queues
  <2>1. \/ UNCHANGED outgoing
        \/ \E e \in BOOLEAN :
             outgoing' = [outgoing EXCEPT
                            ![t] = {[from |-> t, num |-> sent[t] + 1, empty |-> e]}]
    BY DEF SendMessage
  <2>2. \A e \in BOOLEAN :
          {[from |-> t, num |-> sent[t] + 1, empty |-> e]} \in SUBSET Messages
    BY <1>a
  <2> QED
    BY <2>1, <2>2, <2>3
<1>c. sent' \in [Senders -> 0 .. MaxSends]
  BY <1>0 DEF TypeOK, SendMessage
<1>1. TypeOK'
  BY <1>b, <1>c DEF TypeOK, SendMessage
<1>2. (DrainedBetweenCalls /\ HandlerAtFront /\ AcceptedInOrder /\ FifoExactlyOnce)'
  BY DEF SendMessage, DrainedBetweenCalls, HandlerAtFront, AcceptedInOrder,
         FifoExactlyOnce
<1>3. OneCallAtATime'
  BY <1>0 DEF SendMessage, TypeOK, OneCallAtATime
<1>4. AcceptedBeforeCall'
  <2> SUFFICES ASSUME NEW i \in 1 .. Len(accepted)
               PROVE  /\ accepted[i].num <= sent'[accepted[i].from]
                      /\ outgoing'[accepted[i].from] # {}
                           => accepted[i].num < sent'[accepted[i].from]
    BY DEF SendMessage, AcceptedBeforeCall
  <2>1. accepted[i] \in Messages
    BY DEF TypeOK
  <2>2. accepted[i].num \in Nat /\ accepted[i].from \in Senders
    BY <2>1 DEF Messages
  <2>3. accepted[i].num <= sent[accepted[i].from]
    BY DEF AcceptedBeforeCall
  <2>4. outgoing[accepted[i].from] # {} => accepted[i].num < sent[accepted[i].from]
    BY DEF AcceptedBeforeCall
  <2>5. CASE accepted[i].from = t
    BY <1>0, <2>2, <2>3, <2>5 DEF SendMessage, TypeOK
  <2>6. CASE accepted[i].from # t
    BY <2>2, <2>3, <2>4, <2>6 DEF SendMessage, TypeOK
  <2> QED
    BY <2>5, <2>6
<1> QED
  BY <1>1, <1>2, <1>3, <1>4

(* PushMessage: the message joins the end of the queue, and of the order   *)
(* of acceptance.                                                          *)
LEMMA PushMessageInv ==
  ASSUME ActorInv, NEW t \in Senders, PushMessage(t)
  PROVE  ActorInv'
<1> USE DEF ActorInv, queues
<1> PICK m \in outgoing[t] : /\ storeQueue' = Append(storeQueue, m)
                             /\ accepted' = Append(accepted, m)
  BY DEF PushMessage
<1>0. m \in Messages /\ m.from = t /\ m.num = sent[t] /\ sent[t] \in Nat
  BY DEF TypeOK, OneCallAtATime
<1>a. /\ accepted \in Seq(Messages)
      /\ Len(accepted') = Len(accepted) + 1
      /\ accepted'[Len(accepted) + 1] = m
      /\ \A i \in 1 .. Len(accepted) : accepted'[i] = accepted[i]
  BY <1>0, AppendProperties DEF TypeOK
<1>1. TypeOK'
  BY <1>0, <1>a, AppendProperties DEF TypeOK, PushMessage
<1>2. (DrainedBetweenCalls /\ HandlerAtFront)'
  BY DEF PushMessage, DrainedBetweenCalls, HandlerAtFront
<1>3. OneCallAtATime'
  BY DEF PushMessage, TypeOK, OneCallAtATime
<1>b. \A i \in 1 .. Len(accepted') :
        \/ i \in 1 .. Len(accepted) /\ accepted'[i] = accepted[i]
        \/ i = Len(accepted) + 1 /\ accepted'[i] = m
  BY <1>a, LenProperties
<1>c. \A i \in 1 .. Len(accepted) :
        accepted[i].num \in Nat /\ accepted[i].from \in Senders
  <2>1. \A i \in 1 .. Len(accepted) : accepted[i] \in Messages
    BY <1>a, ElementOfSeq
  <2> QED
    BY <2>1 DEF Messages
<1>4. AcceptedBeforeCall'
  <2> SUFFICES ASSUME NEW i \in 1 .. Len(accepted')
               PROVE  /\ accepted'[i].num <= sent[accepted'[i].from]
                      /\ outgoing'[accepted'[i].from] # {}
                           => accepted'[i].num < sent[accepted'[i].from]
    BY DEF PushMessage, AcceptedBeforeCall
  <2>1. CASE i \in 1 .. Len(accepted) /\ accepted'[i] = accepted[i]
    BY <1>c, <2>1 DEF AcceptedBeforeCall, PushMessage, TypeOK
  <2>2. CASE i = Len(accepted) + 1 /\ accepted'[i] = m
    BY <1>0, <2>2 DEF PushMessage, TypeOK
  <2> QED
    BY <1>b, <2>1, <2>2
<1>5. AcceptedInOrder'
  <2> SUFFICES ASSUME NEW i \in 1 .. Len(accepted'), NEW j \in 1 .. Len(accepted'),
                      i < j, accepted'[i].from = accepted'[j].from
               PROVE  accepted'[i].num < accepted'[j].num
    BY DEF AcceptedInOrder
  <2>1. i \in 1 .. Len(accepted) /\ accepted'[i] = accepted[i]
    BY <1>a, <1>b, LenProperties
  <2>2. CASE j \in 1 .. Len(accepted) /\ accepted'[j] = accepted[j]
    BY <2>1, <2>2 DEF AcceptedInOrder
  <2>3. CASE j = Len(accepted) + 1 /\ accepted'[j] = m
    BY <1>0, <2>1, <2>3 DEF AcceptedBeforeCall
  <2> QED
    BY <1>b, <2>2, <2>3
<1>6. FifoExactlyOnce'
  <2>1. handled \o consumerQueue \in Seq(Messages)
    BY ConcatProperties DEF TypeOK
  <2>2. (handled \o consumerQueue) \o Append(storeQueue, m)
          = Append((handled \o consumerQueue) \o storeQueue, m)
    BY <1>0, <2>1, AppendToLast, SMTT(30) DEF TypeOK
  <2> QED
    BY <2>2 DEF FifoExactlyOnce, PushMessage
<1> QED
  BY <1>1, <1>2, <1>3, <1>4, <1>5, <1>6

(* SwapQueues: consumerQueue is empty, so the swap moves the whole queue.  *)
LEMMA SwapQueuesInv ==
  ASSUME ActorInv, SwapQueues
  PROVE  ActorInv'
<1> USE DEF ActorInv
<1>1. consumerQueue = << >> /\ consumerQueue' = storeQueue /\ storeQueue' = << >>
  BY DEF DrainedBetweenCalls, SwapQueues
<1>2. TypeOK'
  BY DEF TypeOK, SwapQueues
<1>3. FifoExactlyOnce'
  <2>1. handled \o storeQueue \in Seq(Messages)
    BY ConcatProperties DEF TypeOK
  <2>2. (handled \o << >>) \o storeQueue = handled \o storeQueue
    BY ConcatEmptySeq DEF TypeOK
  <2>3. (handled \o storeQueue) \o << >> = handled \o storeQueue
    BY <2>1, ConcatEmptySeq
  <2> QED
    BY <1>1, <2>2, <2>3 DEF FifoExactlyOnce, SwapQueues
<1>4. /\ (DrainedBetweenCalls /\ HandlerAtFront /\ OneCallAtATime)'
      /\ (AcceptedBeforeCall /\ AcceptedInOrder)'
  BY DEF SwapQueues, DrainedBetweenCalls, HandlerAtFront, OneCallAtATime,
         AcceptedBeforeCall, AcceptedInOrder
<1> QED
  BY <1>2, <1>3, <1>4

(* A pop moves the front of consumerQueue to the end of handled.           *)
LEMMA PopFrontFifo ==
  ASSUME TypeOK, FifoExactlyOnce, consumerQueue # << >>, PopFront,
         UNCHANGED <<storeQueue, accepted>>
  PROVE  /\ FifoExactlyOnce'
         /\ consumerQueue' \in Seq(Messages)
         /\ handled' \in Seq(Messages)
<1>1. Head(consumerQueue) \in Messages /\ Tail(consumerQueue) \in Seq(Messages)
  BY HeadTailProperties DEF TypeOK
<1>2. Append(handled, Head(consumerQueue)) \o Tail(consumerQueue)
        = handled \o consumerQueue
  BY MoveHead DEF TypeOK
<1> QED
  BY <1>1, <1>2, AppendProperties DEF FifoExactlyOnce, PopFront, TypeOK

(* Every step of the owner other than the swap.                            *)
LEMMA OwnerInv ==
  ASSUME ActorInv,
         \/ ProcessMessageStopped \/ ProcessMessage \/ CallHandler
         \/ SkipEmptyMessage \/ HandlerReturns \/ DrainEnds
  PROVE  ActorInv'
<1> USE DEF ActorInv, queues
<1>1. CASE ProcessMessageStopped
  BY <1>1 DEF ProcessMessageStopped, vars, TypeOK, DrainedBetweenCalls,
     HandlerAtFront, OneCallAtATime, AcceptedBeforeCall, AcceptedInOrder,
     FifoExactlyOnce
<1>2. CASE ProcessMessage \/ CallHandler \/ DrainEnds
  BY <1>2 DEF ProcessMessage, CallHandler, DrainEnds, TypeOK,
     DrainedBetweenCalls, HandlerAtFront, OneCallAtATime, AcceptedBeforeCall,
     AcceptedInOrder, FifoExactlyOnce
<1>3. CASE SkipEmptyMessage \/ HandlerReturns
  <2>1. /\ consumerQueue # << >>
        /\ PopFront
        /\ ownerAt' = "drain"
        /\ UNCHANGED <<storeQueue, isStop, outgoing, sent, accepted>>
    BY <1>3 DEF SkipEmptyMessage, HandlerReturns, HandlerAtFront
  <2>2. /\ FifoExactlyOnce'
        /\ consumerQueue' \in Seq(Messages)
        /\ handled' \in Seq(Messages)
    BY <2>1, PopFrontFifo
  <2> QED
    BY <2>1, <2>2 DEF TypeOK, DrainedBetweenCalls, HandlerAtFront,
       OneCallAtATime, AcceptedBeforeCall, AcceptedInOrder
<1> QED
  BY <1>1, <1>2, <1>3

LEMMA StopInv ==
  ASSUME ActorInv, NEW t \in Senders, Stop(t)
  PROVE  ActorInv'
<1> USE DEF ActorInv, Stop, queues
<1>1. TypeOK'
  BY DEF TypeOK
<1>2. DrainedBetweenCalls' /\ HandlerAtFront' /\ FifoExactlyOnce'
  BY DEF DrainedBetweenCalls, HandlerAtFront, FifoExactlyOnce
<1>3. OneCallAtATime' /\ AcceptedBeforeCall' /\ AcceptedInOrder'
  BY DEF OneCallAtATime, AcceptedBeforeCall, AcceptedInOrder
<1> QED
  BY <1>1, <1>2, <1>3

LEMMA NextInv == ActorInv /\ [Next]_vars => ActorInv'
<1> SUFFICES ASSUME ActorInv, [Next]_vars PROVE ActorInv'
  OBVIOUS
<1>1. CASE OwnerStep
  BY <1>1, SwapQueuesInv, OwnerInv DEF OwnerStep
<1>2. ASSUME NEW t \in Senders, SendMessage(t) \/ PushMessage(t) \/ Stop(t)
      PROVE  ActorInv'
  BY <1>2, SendMessageInv, PushMessageInv, StopInv
<1>3. CASE UNCHANGED vars
  BY <1>3 DEF vars, ActorInv, TypeOK, DrainedBetweenCalls, HandlerAtFront,
     OneCallAtATime, AcceptedBeforeCall, AcceptedInOrder, FifoExactlyOnce
<1> QED
  BY <1>1, <1>2, <1>3 DEF Next

(* ActorInv holds throughout: the types, exactly-once FIFO delivery        *)
(* across swaps of the two queues, and what makes them inductive.          *)
THEOREM ActorInvariant == Spec => []ActorInv
<1>1. Init => ActorInv
  BY InitInv
<1>2. ActorInv /\ [Next]_vars => ActorInv'
  BY NextInv
<1> QED
  BY <1>1, <1>2, PTL DEF Spec

(* What SendMessage accepted is what was popped, then consumerQueue, then  *)
(* storeQueue: nothing is lost, doubled or overtaken by ProcessMessage.    *)
THEOREM FifoExactlyOnceHolds == Spec => []FifoExactlyOnce
<1>1. ActorInv => FifoExactlyOnce
  BY DEF ActorInv
<1> QED
  BY <1>1, ActorInvariant, PTL

(* The messages of one sender are handled in the order of its calls.       *)
THEOREM SenderOrderHolds == Spec => []SenderOrder
<1>1. ActorInv => SenderOrder
  <2> SUFFICES ASSUME ActorInv,
                      NEW i \in 1 .. Len(handled), NEW j \in 1 .. Len(handled),
                      i < j, handled[i].from = handled[j].from
               PROVE  handled[i].num < handled[j].num
    BY DEF SenderOrder
  <2>1. /\ handled \in Seq(Messages) /\ consumerQueue \in Seq(Messages)
        /\ storeQueue \in Seq(Messages)
    BY DEF ActorInv, TypeOK
  <2>2. accepted = handled \o (consumerQueue \o storeQueue)
    BY <2>1, ConcatAssociative DEF ActorInv, FifoExactlyOnce
  <2>3. consumerQueue \o storeQueue \in Seq(Messages)
    BY <2>1, ConcatProperties
  <2>4. /\ Len(accepted) = Len(handled) + Len(consumerQueue \o storeQueue)
        /\ \A k \in 1 .. Len(handled) : accepted[k] = handled[k]
        /\ Len(handled) \in Nat
        /\ Len(consumerQueue \o storeQueue) \in Nat
    BY <2>1, <2>2, <2>3, ConcatProperties, LenProperties
  <2>5. i \in 1 .. Len(accepted) /\ j \in 1 .. Len(accepted)
    BY <2>4
  <2> QED
    BY <2>4, <2>5 DEF ActorInv, AcceptedInOrder
<1> QED
  BY <1>1, ActorInvariant, PTL

----------------------------------------------------------------------------
(* Refinement: the two queues and the swap implement the one of Mailbox.   *)

LEMMA BoxQueue ==
  ASSUME TypeOK, consumerQueue # << >>
  PROVE  /\ consumerQueue \o storeQueue # << >>
         /\ Head(consumerQueue \o storeQueue) = Head(consumerQueue)
         /\ Tail(consumerQueue \o storeQueue) = Tail(consumerQueue) \o storeQueue
BY HeadOfFirst DEF TypeOK

LEMMA SendMessageRefines ==
  ASSUME ActorInv, NEW t \in Senders, SendMessage(t)
  PROVE  [Box!Next]_(Box!mailboxVars)
<1> USE DEF queues
<1>1. CASE isStop
  BY <1>1 DEF SendMessage, Box!mailboxVars
<1>2. CASE ~isStop
  <2>1. \A e \in BOOLEAN : [from |-> t, num |-> sent[t] + 1, empty |-> e] \in Messages
    BY DEF SendMessage, ActorInv, TypeOK, Messages
  <2> PICK m \in Messages : outgoing' = [outgoing EXCEPT ![t] = {m}]
    BY <1>2, <2>1 DEF SendMessage
  <2>2. \A u \in Senders : outgoing'[u] = IF u = t THEN {m} ELSE outgoing[u]
    BY DEF ActorInv, TypeOK
  <2>3. outgoing[t] = {}
    BY DEF SendMessage
  <2>4. UNION {outgoing'[u] : u \in Senders}
          = (UNION {outgoing[u] : u \in Senders}) \cup {m}
    BY <2>2, <2>3
  <2>5. Box!Admit(m)
    BY <1>2, <2>4 DEF SendMessage, Box!Admit
  <2> QED
    BY <2>5 DEF Box!Next
<1> QED
  BY <1>1, <1>2

LEMMA PushMessageRefines ==
  ASSUME ActorInv, NEW t \in Senders, PushMessage(t)
  PROVE  [Box!Next]_(Box!mailboxVars)
<1> PICK m \in outgoing[t] : storeQueue' = Append(storeQueue, m)
  BY DEF PushMessage
<1>1. m \in Messages
  BY DEF ActorInv, TypeOK
<1>2. \A u \in Senders : outgoing'[u] = IF u = t THEN {} ELSE outgoing[u]
  BY DEF PushMessage, ActorInv, TypeOK
<1>3. outgoing[t] = {m}
  BY DEF ActorInv, OneCallAtATime
<1>4. \A u \in Senders : u # t => m \notin outgoing[u]
  BY DEF ActorInv, OneCallAtATime
<1>5. UNION {outgoing'[u] : u \in Senders}
        = (UNION {outgoing[u] : u \in Senders}) \ {m}
  BY <1>2, <1>3, <1>4
<1>6. m \in UNION {outgoing[u] : u \in Senders}
  BY <1>3
<1>7. consumerQueue \o Append(storeQueue, m)
        = Append(consumerQueue \o storeQueue, m)
  BY <1>1, AppendToLast DEF ActorInv, TypeOK
<1>8. Box!Enqueue(m)
  BY <1>5, <1>6, <1>7 DEF PushMessage, Box!Enqueue
<1> QED
  BY <1>1, <1>8 DEF Box!Next

LEMMA OwnerRefines ==
  ASSUME ActorInv, OwnerStep
  PROVE  [Box!Next]_(Box!mailboxVars)
<1> USE DEF queues
<1>1. CASE ProcessMessageStopped \/ ProcessMessage \/ CallHandler \/ DrainEnds
  BY <1>1 DEF ProcessMessageStopped, ProcessMessage, CallHandler, DrainEnds,
     vars, Box!mailboxVars
<1>2. CASE SwapQueues
  <2>1. consumerQueue = << >>
    BY <1>2 DEF ActorInv, DrainedBetweenCalls, SwapQueues
  <2>2. << >> \o storeQueue = storeQueue /\ storeQueue \o << >> = storeQueue
    BY ConcatEmptySeq DEF ActorInv, TypeOK
  <2> QED
    BY <1>2, <2>1, <2>2 DEF SwapQueues, Box!mailboxVars
<1>3. CASE SkipEmptyMessage \/ HandlerReturns
  <2>1. /\ consumerQueue # << >>
        /\ PopFront
        /\ UNCHANGED <<storeQueue, isStop, outgoing>>
    BY <1>3 DEF SkipEmptyMessage, HandlerReturns, ActorInv, HandlerAtFront
  <2>2. Box!Handle
    BY <2>1, BoxQueue DEF ActorInv, PopFront, Box!Handle
  <2> QED
    BY <2>2 DEF Box!Next
<1> QED
  BY <1>1, <1>2, <1>3 DEF OwnerStep

LEMMA NextRefines ==
  ActorInv /\ [Next]_vars => [Box!Next]_(Box!mailboxVars)
<1> SUFFICES ASSUME ActorInv, [Next]_vars
             PROVE  [Box!Next]_(Box!mailboxVars)
  OBVIOUS
<1>1. ASSUME NEW t \in Senders, Stop(t)
      PROVE  [Box!Next]_(Box!mailboxVars)
  BY <1>1 DEF Stop, queues, Box!Next, Box!Close
<1>2. CASE UNCHANGED vars
  BY <1>2 DEF vars, Box!mailboxVars
<1> QED
  BY <1>1, <1>2, SendMessageRefines, PushMessageRefines, OwnerRefines DEF Next

(* Every behaviour of the actor is one of Mailbox, its fairness aside:     *)
(* SendMessage admits, the push under queueMutex enqueues, the pop handles *)
(* and the swap of the two queues is invisible.                            *)
THEOREM ImplementsMailboxSafety ==
  Spec => Box!Init /\ [][Box!Next]_(Box!mailboxVars)
<1>1. Init => Box!Init
  <2>1. Init => UNION {outgoing[t] : t \in Senders} = {}
    BY DEF Init
  <2> QED
    BY <2>1 DEF Init, Box!Init
<1>2. ActorInv /\ [Next]_vars => [Box!Next]_(Box!mailboxVars)
  BY NextRefines
<1> QED
  BY <1>1, <1>2, ActorInvariant, PTL DEF Spec

(* A call of ProcessMessage only handles what its swap took: handlers      *)
(* cannot lengthen the drain they run in.                                  *)
THEOREM DrainNeverGrowsHolds == Spec => DrainNeverGrows
<1>1. ActorInv /\ [Next]_vars
        => [(ownerAt \in {"drain", "handler"}) =>
              Len(handled' \o consumerQueue') <= Len(handled \o consumerQueue)]_vars
  <2> SUFFICES ASSUME ActorInv, [Next]_vars, ownerAt \in {"drain", "handler"}
               PROVE  Len(handled' \o consumerQueue') <= Len(handled \o consumerQueue)
    OBVIOUS
  <2>1. Len(handled \o consumerQueue) \in Nat
    BY ConcatProperties, LenProperties DEF ActorInv, TypeOK
  <2>2. CASE UNCHANGED <<handled, consumerQueue>>
    BY <2>1, <2>2
  <2>3. CASE consumerQueue # << >> /\ PopFront
    BY <2>1, <2>3, MoveHead DEF PopFront, ActorInv, TypeOK
  <2> QED
    BY <2>2, <2>3 DEF Next, OwnerStep, ProcessMessageStopped, ProcessMessage,
       SwapQueues, SkipEmptyMessage, CallHandler, HandlerReturns, DrainEnds,
       SendMessage, PushMessage, Stop, vars, queues, ActorInv, HandlerAtFront
<1> QED
  BY <1>1, ActorInvariant, PTL DEF Spec, DrainNeverGrows
============================================================================
