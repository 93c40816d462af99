------------------------------- MODULE Actor -------------------------------
(***************************************************************************)
(* One actor of the core library (Actor.h, Actor.cpp): the two message     *)
(* queues, the isStop flag, SendMessage called from any thread and         *)
(* ProcessMessage called from OnTimer by the logic thread that owns the    *)
(* actor.                                                                  *)
(*                                                                         *)
(* A message is a std::function; only who sent it and whether it is empty  *)
(* are kept.  A handler is user code: between its call and its return it   *)
(* may call SendMessage on its own actor and Stop() any number of times.   *)
(***************************************************************************)
EXTENDS Naturals, Sequences, FiniteSets

CONSTANTS Threads,  \* threads other than the owner that hold the actor
          Owner,    \* the logic thread of GetTargetThreadId(actorId)
          MaxSends  \* bound: SendMessage calls per thread

ASSUME ActorAssumption ==
  /\ Owner \notin Threads
  /\ MaxSends \in Nat

Senders == Threads \cup {Owner}

(* empty: the std::function holds nothing (messageFunction == nullptr).    *)
Messages == [from : Senders, num : 1 .. MaxSends, empty : BOOLEAN]

VARIABLES storeQueue,    \* filled by SendMessage under queueMutex
          consumerQueue, \* drained by the owner, no lock
          isStop,
          outgoing,      \* outgoing[t]: the messages of the SendMessage call
                         \* of t that has passed its isStop check
          sent,          \* sent[t]: SendMessage calls t has begun
          ownerAt,       \* where the owner is in ProcessMessage
          accepted,      \* history: messages in the order they were pushed
          handled        \* history: messages in the order they were popped

vars == <<storeQueue, consumerQueue, isStop, outgoing, sent, ownerAt,
          accepted, handled>>
queues == <<storeQueue, consumerQueue, accepted, handled>>

Init ==
  /\ storeQueue = << >>
  /\ consumerQueue = << >>
  /\ isStop = FALSE
  /\ outgoing = [t \in Senders |-> {}]
  /\ sent = [t \in Senders |-> 0]
  /\ ownerAt = "idle"
  /\ accepted = << >>
  /\ handled = << >>

----------------------------------------------------------------------------
(* The owner runs user code only inside a handler.                         *)
InUserCode(t) == t = Owner => ownerAt = "handler"

(* Mutant of SendMessage: the isStop check is forgotten.                   *)
SendMessageUnchecked(t) ==
  /\ InUserCode(t)
  /\ outgoing[t] = {}
  /\ sent[t] < MaxSends
  /\ sent' = [sent EXCEPT ![t] = @ + 1]
  /\ \E e \in BOOLEAN :
       outgoing' = [outgoing EXCEPT
         ![t] = {[from |-> t, num |-> sent[t] + 1, empty |-> e]}]
  /\ UNCHANGED <<queues, isStop, ownerAt>>

(* SendMessage: isStop is read before the lock is taken, so the check and  *)
(* the push are two steps.  A stopped actor refuses (returns false).       *)
SendMessage(t) ==
  /\ InUserCode(t)
  /\ outgoing[t] = {}
  /\ sent[t] < MaxSends
  /\ sent' = [sent EXCEPT ![t] = @ + 1]
  /\ IF isStop
     THEN UNCHANGED outgoing
     ELSE \E e \in BOOLEAN :
            outgoing' = [outgoing EXCEPT
              ![t] = {[from |-> t, num |-> sent[t] + 1, empty |-> e]}]
  /\ UNCHANGED <<queues, isStop, ownerAt>>

PushMessage(t) ==
  /\ \E m \in outgoing[t] :
       /\ storeQueue' = Append(storeQueue, m)
       /\ accepted' = Append(accepted, m)
  /\ outgoing' = [outgoing EXCEPT ![t] = {}]
  /\ UNCHANGED <<consumerQueue, isStop, sent, ownerAt, handled>>

(* Any thread may stop the actor, its own handler included.                *)
Stop(t) ==
  /\ InUserCode(t)
  /\ outgoing[t] = {}
  /\ isStop' = TRUE
  /\ UNCHANGED <<queues, outgoing, sent, ownerAt>>

----------------------------------------------------------------------------
(* ProcessMessage of a stopped actor returns at once.                      *)
ProcessMessageStopped ==
  /\ ownerAt = "idle"
  /\ isStop
  /\ UNCHANGED vars

ProcessMessage ==
  /\ ownerAt = "idle"
  /\ ~isStop
  /\ ownerAt' = "swap"
  /\ UNCHANGED <<queues, isStop, outgoing, sent>>

SwapQueues ==
  /\ ownerAt = "swap"
  /\ consumerQueue' = storeQueue
  /\ storeQueue' = consumerQueue
  /\ ownerAt' = "drain"
  /\ UNCHANGED <<isStop, outgoing, sent, accepted, handled>>

PopFront ==
  /\ consumerQueue' = Tail(consumerQueue)
  /\ handled' = Append(handled, Head(consumerQueue))

(* An empty function is popped without being called.                       *)
SkipEmptyMessage ==
  /\ ownerAt = "drain"
  /\ consumerQueue # << >>
  /\ Head(consumerQueue).empty
  /\ PopFront
  /\ UNCHANGED <<storeQueue, isStop, outgoing, sent, ownerAt, accepted>>

CallHandler ==
  /\ ownerAt = "drain"
  /\ consumerQueue # << >>
  /\ ~Head(consumerQueue).empty
  /\ ownerAt' = "handler"
  /\ UNCHANGED <<queues, isStop, outgoing, sent>>

(* The message stays at the front while its handler runs; pop comes after. *)
HandlerReturns ==
  /\ ownerAt = "handler"
  /\ outgoing[Owner] = {}
  /\ PopFront
  /\ ownerAt' = "drain"
  /\ UNCHANGED <<storeQueue, isStop, outgoing, sent, accepted>>

(* Mutant of DrainEnds: the drain gives up after some of its messages.     *)
DrainEndsEarly ==
  /\ ownerAt = "drain"
  /\ ownerAt' = "idle"
  /\ UNCHANGED <<queues, isStop, outgoing, sent>>

DrainEnds ==
  /\ ownerAt = "drain"
  /\ consumerQueue = << >>
  /\ ownerAt' = "idle"
  /\ UNCHANGED <<queues, isStop, outgoing, sent>>

OwnerStep ==
  \/ ProcessMessageStopped \/ ProcessMessage \/ SwapQueues
  \/ SkipEmptyMessage \/ CallHandler \/ HandlerReturns \/ DrainEnds

Next ==
  \/ OwnerStep
  \/ \E t \in Senders : SendMessage(t) \/ PushMessage(t) \/ Stop(t)

(* The logic thread wakes every 33 ms and its handlers return; a thread    *)
(* that is inside SendMessage finishes the call.  Nobody has to send or to *)
(* stop.                                                                   *)
Fairness ==
  /\ WF_vars(OwnerStep)
  /\ \A t \in Senders : WF_vars(PushMessage(t))

Spec == Init /\ [][Next]_vars /\ Fairness
----------------------------------------------------------------------------
TypeOK ==
  /\ storeQueue \in Seq(Messages)
  /\ consumerQueue \in Seq(Messages)
  /\ accepted \in Seq(Messages)
  /\ handled \in Seq(Messages)
  /\ isStop \in BOOLEAN
  /\ outgoing \in [Senders -> SUBSET Messages]
  /\ sent \in [Senders -> 0 .. MaxSends]
  /\ ownerAt \in {"idle", "swap", "drain", "handler"}

(* Exactly once, in push order: what SendMessage accepted is what was      *)
(* popped, then what the owner is draining, then what waits for the next   *)
(* swap.  The swap must find consumerQueue drained, or it reorders.        *)
FifoExactlyOnce == accepted = handled \o consumerQueue \o storeQueue

(* The messages of one thread are handled in the order it sent them: a     *)
(* later call of the same thread never overtakes an earlier one.           *)
SenderOrder ==
  \A i, j \in 1 .. Len(handled) :
    (i < j /\ handled[i].from = handled[j].from)
      => handled[i].num < handled[j].num

(* What makes the two above inductive: nothing is left in consumerQueue    *)
(* between calls of ProcessMessage, the message of a running handler is    *)
(* still at the front, and a thread makes one SendMessage call at a time.  *)
DrainedBetweenCalls == ownerAt \in {"idle", "swap"} => consumerQueue = << >>

HandlerAtFront == ownerAt = "handler" => consumerQueue # << >>

OneCallAtATime ==
  \A t \in Senders :
    /\ \A m \in outgoing[t] : m.from = t /\ m.num = sent[t]
    /\ \A m, n \in outgoing[t] : m = n

AcceptedBeforeCall ==
  \A i \in 1 .. Len(accepted) :
    /\ accepted[i].num <= sent[accepted[i].from]
    /\ outgoing[accepted[i].from] # {}
         => accepted[i].num < sent[accepted[i].from]

AcceptedInOrder ==
  \A i, j \in 1 .. Len(accepted) :
    (i < j /\ accepted[i].from = accepted[j].from)
      => accepted[i].num < accepted[j].num

(* The inductive invariant: types, the three couplings above, and order.   *)
ActorInv ==
  /\ TypeOK
  /\ DrainedBetweenCalls
  /\ HandlerAtFront
  /\ OneCallAtATime
  /\ AcceptedBeforeCall
  /\ AcceptedInOrder
  /\ FifoExactlyOnce

(* A call to ProcessMessage handles only messages pushed before its swap:  *)
(* a handler that sends to its own actor cannot keep the logic thread, and *)
(* every other actor of that thread, in one drain.                         *)
DrainNeverGrows ==
  [][(ownerAt \in {"drain", "handler"}) =>
       Len(handled' \o consumerQueue') <= Len(handled \o consumerQueue)]_vars

Box == INSTANCE Mailbox WITH
         admitted <- UNION {outgoing[t] : t \in Senders},
         queue <- consumerQueue \o storeQueue,
         log <- handled,
         closed <- isStop

(* The double-buffered actor implements the single queue of Mailbox.       *)
ImplementsMailbox == Box!Spec
============================================================================
