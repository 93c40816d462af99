------------------------- MODULE SessionLifecycle --------------------------
(***************************************************************************)
(* The life of the sessions of one thread index, from accept() to          *)
(* OnDisconnected(): the accept thread, the IO threads, the logic thread   *)
(* and the release thread of ServerCore, the ioCount that keeps a session  *)
(* alive, sessionMap and its shared mutex, and the release queue with its  *)
(* mutex and its event.                                                    *)
(*                                                                         *)
(* Abstracted: the packets (SessionSend has them), so DoSend either finds  *)
(* something to send or does not; the received stream, so a receive either *)
(* yields messages or breaks the session; Disconnect(), which returns at   *)
(* once because nothing ever sets isUsingSession (OnConnected() has no     *)
(* caller).  External: the kernel completes what was posted, in any order; *)
(* CreateIoCompletionPort succeeds and a completion carries the key of its *)
(* session.  FindSession and ReleaseSession lock, act and unlock: each is  *)
(* one step, enabled while its mutex can be taken.                         *)
(***************************************************************************)
EXTENDS Integers, Sequences, FiniteSets

CONSTANTS Sessions,   \* the connections a client may open
          IoThreads,
          Accept,     \* the accept thread
          Logic,      \* the logic thread of this index
          MaxSends,   \* bound: packets sent per session
          None        \* no session

ASSUME LifecycleAssumption ==
  /\ None \notin Sessions
  /\ Accept # Logic
  /\ {Accept, Logic} \cap IoThreads = {}
  /\ IsFiniteSet(IoThreads)
  /\ MaxSends \in Nat

Threads == IoThreads \cup {Accept, Logic}

VARIABLES ioCount,      \* ioCount[s]
          ioMode,       \* ioMode[s]: "IO_NONE_SENDING" or "IO_SENDING"
          recvPosted,   \* sessions with a WSARecv in the kernel
          sendPosted,   \* sessions with a WSASend in the kernel
          sends,        \* sends[s]: packets sent so far (bounded)
          sessionMap,
          numOfUser,
          accepted,     \* sessions accept() has returned
          disconnected, \* disconnected[s]: calls of OnDisconnected()
          at,           \* at[t]: [pc, s, op, then] of each thread
          logicTodo,    \* sessions the logic thread has still to visit
          releaseQueue,
          releaseEvent, \* the auto-reset event of the release thread
          releaseAt,    \* where the release thread is
          releaseTarget

kernel == <<recvPosted, sendPosted>>
map == <<sessionMap, numOfUser>>
release == <<releaseQueue, releaseEvent, releaseAt, releaseTarget>>
vars == <<ioCount, ioMode, kernel, sends, map, accepted, disconnected, at,
          logicTodo, release>>

Idle == [pc |-> "idle", s |-> None, op |-> "none", then |-> "idle"]

Init ==
  /\ ioCount = [s \in Sessions |-> 0]
  /\ ioMode = [s \in Sessions |-> "IO_NONE_SENDING"]
  /\ recvPosted = {}
  /\ sendPosted = {}
  /\ sends = [s \in Sessions |-> 0]
  /\ sessionMap = {}
  /\ numOfUser = 0
  /\ accepted = {}
  /\ disconnected = [s \in Sessions |-> 0]
  /\ at = [t \in Threads |-> Idle]
  /\ logicTodo = {}
  /\ releaseQueue = << >>
  /\ releaseEvent = FALSE
  /\ releaseAt = "wait"
  /\ releaseTarget = None

----------------------------------------------------------------------------
(* The locks.  The release thread holds releaseThreadsQueueMutex from its  *)
(* wake-up until the queue is empty; the logic thread holds sessionMapMutex*)
(* shared for a whole pass over the map.                                   *)
QueueMutexFree == releaseAt \in {"wait", "lock"}
MapMutexFree == at[Logic].pc = "idle"

Goto(t, pc) == at' = [at EXCEPT ![t].pc = pc]

(* What a thread does after a call: the IO threads go back to the IO loop,  *)
(* or to the DoSend that ends OnSendIoCompleted; the logic thread goes on   *)
(* with its pass over the map.                                              *)
InPass == [pc |-> "pass", s |-> None, op |-> "none", then |-> "pass"]

Return(t) ==
  at' = [at EXCEPT ![t] = IF @.then = "dosend"
                          THEN [@ EXCEPT !.pc = "dosend", !.then = "idle"]
                          ELSE IF @.then = "pass" THEN InPass ELSE Idle]

(* DecreaseIOCount: the last reference releases the session.               *)
DecreaseIOCount(t) ==
  LET s == at[t].s IN
  /\ at[t].pc = "decrease"
  /\ ioCount' = [ioCount EXCEPT ![s] = @ - 1]
  /\ IF ioCount[s] = 1 THEN Goto(t, "release") ELSE Return(t)
  /\ UNCHANGED <<ioMode, kernel, sends, map, accepted, disconnected, logicTodo,
                 release>>

(* Mutant of ReleaseSession: one key in the queue is taken to be enough.   *)
ReleaseSessionDropped(t) ==
  /\ at[t].pc = "release"
  /\ QueueMutexFree
  /\ IF releaseQueue = << >>
     THEN releaseQueue' = <<at[t].s>> /\ releaseEvent' = TRUE
     ELSE UNCHANGED <<releaseQueue, releaseEvent>>
  /\ Return(t)
  /\ UNCHANGED <<ioCount, ioMode, kernel, sends, map, accepted, disconnected,
                 logicTodo, releaseAt, releaseTarget>>

(* ReleaseSession: queue the key under the queue mutex and wake the        *)
(* release thread.                                                         *)
ReleaseSession(t) ==
  /\ at[t].pc = "release"
  /\ QueueMutexFree
  /\ releaseQueue' = Append(releaseQueue, at[t].s)
  /\ releaseEvent' = TRUE
  /\ Return(t)
  /\ UNCHANGED <<ioCount, ioMode, kernel, sends, map, accepted, disconnected,
                 logicTodo, releaseAt, releaseTarget>>

(* DoSend of any thread: nothing to do (another thread is sending, or the  *)
(* queue is empty) ...                                                     *)
DoSendNothing(t) ==
  /\ at[t].pc = "dosend"
  /\ Return(t)
  /\ UNCHANGED <<ioCount, ioMode, kernel, sends, map, accepted, disconnected,
                 logicTodo, release>>

(* ... or ioMode is taken and a reference counted ...                      *)
DoSendTakes(t) ==
  LET s == at[t].s IN
  /\ at[t].pc = "dosend"
  /\ ioMode[s] = "IO_NONE_SENDING"
  /\ sends[s] < MaxSends
  /\ ioMode' = [ioMode EXCEPT ![s] = "IO_SENDING"]
  /\ ioCount' = [ioCount EXCEPT ![s] = @ + 1]
  /\ sends' = [sends EXCEPT ![s] = @ + 1]
  /\ Goto(t, "wsasend")
  /\ UNCHANGED <<kernel, map, accepted, disconnected, logicTodo, release>>

(* ... and WSASend is called; on a closed socket it can only fail.         *)
WSASendPosted(t) ==
  /\ at[t].pc = "wsasend"
  /\ disconnected[at[t].s] = 0
  /\ sendPosted' = sendPosted \cup {at[t].s}
  /\ Return(t)
  /\ UNCHANGED <<ioCount, ioMode, recvPosted, sends, map, accepted,
                 disconnected, logicTodo, release>>

WSASendFails(t) ==
  /\ at[t].pc = "wsasend"
  /\ Goto(t, "decrease")
  /\ UNCHANGED <<ioCount, ioMode, kernel, sends, map, accepted, disconnected,
                 logicTodo, release>>

----------------------------------------------------------------------------
(* Mutant of AcceptSession: the accept thread has no reference of its own. *)
AcceptSessionUncounted(s) ==
  /\ at[Accept].pc = "idle"
  /\ s \notin accepted
  /\ accepted' = accepted \cup {s}
  /\ at' = [at EXCEPT ![Accept] =
              [pc |-> "insert", s |-> s, op |-> "none", then |-> "idle"]]
  /\ UNCHANGED <<ioCount, ioMode, kernel, sends, map, disconnected, logicTodo,
                 release>>

(* The accept thread.  CreateSession and IncreaseIOCount ...               *)
AcceptSession(s) ==
  /\ at[Accept].pc = "idle"
  /\ s \notin accepted
  /\ accepted' = accepted \cup {s}
  /\ ioCount' = [ioCount EXCEPT ![s] = 1]
  /\ at' = [at EXCEPT ![Accept] =
              [pc |-> "insert", s |-> s, op |-> "none", then |-> "idle"]]
  /\ UNCHANGED <<ioMode, kernel, sends, map, disconnected, logicTodo, release>>

(* ... InsertSession, under the unique lock ...                            *)
InsertSession ==
  /\ at[Accept].pc = "insert"
  /\ MapMutexFree
  /\ sessionMap' = sessionMap \cup {at[Accept].s}
  /\ numOfUser' = numOfUser + 1
  /\ Goto(Accept, "wsarecv")
  /\ UNCHANGED <<ioCount, ioMode, kernel, sends, accepted, disconnected,
                 logicTodo, release>>

(* ... DoRecv, which counts a reference unless WSARecv fails; then the     *)
(* reference of the accept thread is dropped.                              *)
FirstRecv ==
  LET s == at[Accept].s IN
  /\ at[Accept].pc = "wsarecv"
  /\ \/ /\ ioCount' = [ioCount EXCEPT ![s] = @ + 1]
        /\ recvPosted' = recvPosted \cup {s}
     \/ UNCHANGED <<ioCount, recvPosted>>
  /\ Goto(Accept, "decrease")
  /\ UNCHANGED <<ioMode, sendPosted, sends, map, accepted, disconnected,
                 logicTodo, release>>

----------------------------------------------------------------------------
(* An IO thread takes a completion: of a receive or a send, good or bad    *)
(* (failed, or 0 bytes).                                                   *)
TakeCompletion(t, s, op, good) ==
  /\ at[t].pc = "idle"
  /\ IF op = "recv"
     THEN /\ s \in recvPosted
          /\ recvPosted' = recvPosted \ {s}
          /\ UNCHANGED sendPosted
     ELSE /\ s \in sendPosted
          /\ sendPosted' = sendPosted \ {s}
          /\ UNCHANGED recvPosted
  /\ (disconnected[s] > 0 => ~good)
  /\ at' = [at EXCEPT ![t] =
              [pc |-> "find", s |-> s, op |-> IF good THEN op ELSE "bad",
               then |-> "idle"]]
  /\ UNCHANGED <<ioCount, ioMode, sends, map, accepted, disconnected,
                 logicTodo, release>>

(* RunIoThread and OnIoCompleted: a bad completion only drops its reference.*)
HandlerOf(op) ==
  IF op = "recv" THEN "received" ELSE IF op = "send" THEN "sent" ELSE "decrease"

(* FindSession: a session that is no longer in the map is only logged, its *)
(* reference is not dropped.                                               *)
FindSession(t) ==
  /\ at[t].pc = "find"
  /\ IF at[t].s \in sessionMap
     THEN Goto(t, HandlerOf(at[t].op))
     ELSE at' = [at EXCEPT ![t] = Idle]
  /\ UNCHANGED <<ioCount, ioMode, kernel, sends, map, accepted, disconnected,
                 logicTodo, release>>

(* Mutant of RecvCompleted: the next receive is posted without a reference *)
(* of its own.                                                             *)
RecvCompletedUncounted(t) ==
  /\ at[t].pc = "received"
  /\ \/ recvPosted' = recvPosted \cup {at[t].s}
     \/ UNCHANGED recvPosted
  /\ Goto(t, "decrease")
  /\ UNCHANGED <<ioCount, ioMode, sendPosted, sends, map, accepted,
                 disconnected, logicTodo, release>>

(* OnRecvIoCompleted: messages go to the actor's queue and DoRecv posts    *)
(* the next receive; a bad stream, a refused message or a failed WSARecv   *)
(* posts none.  Either way the reference of this receive is dropped last.  *)
RecvCompleted(t) ==
  LET s == at[t].s IN
  /\ at[t].pc = "received"
  /\ \/ /\ disconnected[s] = 0
        /\ ioCount' = [ioCount EXCEPT ![s] = @ + 1]
        /\ recvPosted' = recvPosted \cup {s}
     \/ UNCHANGED <<ioCount, recvPosted>>
  /\ Goto(t, "decrease")
  /\ UNCHANGED <<ioMode, sendPosted, sends, map, accepted, disconnected,
                 logicTodo, release>>

(* OnSendIoCompleted: ioMode is given back, the reference dropped, and     *)
(* DoSend called again.                                                    *)
SendCompleted(t) ==
  /\ at[t].pc = "sent"
  /\ ioMode' = [ioMode EXCEPT ![at[t].s] = "IO_NONE_SENDING"]
  /\ at' = [at EXCEPT ![t].pc = "decrease", ![t].then = "dosend"]
  /\ UNCHANGED <<ioCount, kernel, sends, map, accepted, disconnected,
                 logicTodo, release>>

----------------------------------------------------------------------------
(* The logic thread: one pass over sessionMap under the shared lock ...    *)
LogicLocks ==
  /\ at[Logic].pc = "idle"
  /\ logicTodo' = sessionMap
  /\ at' = [at EXCEPT ![Logic] = InPass]
  /\ UNCHANGED <<ioCount, ioMode, kernel, sends, map, accepted, disconnected,
                 release>>

(* ... each session in turn: its timers, its messages and their handlers,  *)
(* which may call SendPacket ...                                           *)
LogicVisits(s) ==
  /\ at[Logic].pc = "pass"
  /\ s \in logicTodo
  /\ logicTodo' = logicTodo \ {s}
  /\ \/ UNCHANGED at
     \/ at' = [at EXCEPT ![Logic].pc = "dosend", ![Logic].s = s]
  /\ UNCHANGED <<ioCount, ioMode, kernel, sends, map, accepted, disconnected,
                 release>>

(* ... and the unlock.                                                     *)
LogicUnlocks ==
  /\ at[Logic].pc = "pass"
  /\ logicTodo = {}
  /\ at' = [at EXCEPT ![Logic] = Idle]
  /\ UNCHANGED <<ioCount, ioMode, kernel, sends, map, accepted, disconnected,
                 logicTodo, release>>

----------------------------------------------------------------------------
(* The release thread: woken by the event, it takes the queue mutex ...    *)
ReleaseWakes ==
  /\ releaseAt = "wait"
  /\ releaseEvent
  /\ releaseEvent' = FALSE
  /\ releaseAt' = "lock"
  /\ UNCHANGED <<ioCount, ioMode, kernel, sends, map, accepted, disconnected,
                 at, logicTodo, releaseQueue, releaseTarget>>

ReleaseLocks ==
  /\ releaseAt = "lock"
  /\ releaseAt' = "drain"
  /\ UNCHANGED <<ioCount, ioMode, kernel, sends, map, accepted, disconnected,
                 at, logicTodo, releaseQueue, releaseEvent, releaseTarget>>

(* Mutant of ReleaseFinds: the key is trusted, nothing is looked up.       *)
ReleaseFindsUnchecked ==
  /\ releaseAt = "drain"
  /\ releaseQueue # << >>
  /\ releaseAt' = "erase"
  /\ releaseTarget' = Head(releaseQueue)
  /\ UNCHANGED <<ioCount, ioMode, kernel, sends, map, accepted, disconnected,
                 at, logicTodo, releaseQueue, releaseEvent>>

(* ... looks up the session at the front; one already erased is popped ... *)
ReleaseFinds ==
  /\ releaseAt = "drain"
  /\ releaseQueue # << >>
  /\ IF Head(releaseQueue) \in sessionMap
     THEN /\ releaseAt' = "erase"
          /\ releaseTarget' = Head(releaseQueue)
          /\ UNCHANGED releaseQueue
     ELSE /\ releaseQueue' = Tail(releaseQueue)
          /\ UNCHANGED <<releaseAt, releaseTarget>>
  /\ UNCHANGED <<ioCount, ioMode, kernel, sends, map, accepted, disconnected,
                 at, logicTodo, releaseEvent>>

(* Mutant of ReleaseErases: the erase takes the lock shared.               *)
ReleaseErasesShared ==
  /\ releaseAt = "erase"
  /\ sessionMap' = sessionMap \ {releaseTarget}
  /\ numOfUser' = numOfUser - 1
  /\ releaseAt' = "disconnect"
  /\ UNCHANGED <<ioCount, ioMode, kernel, sends, accepted, disconnected, at,
                 logicTodo, releaseQueue, releaseEvent, releaseTarget>>

(* ... EraseSession under the unique lock, which waits for the pass of the *)
(* logic thread while the queue mutex stays held ...                       *)
ReleaseErases ==
  /\ releaseAt = "erase"
  /\ MapMutexFree
  /\ sessionMap' = sessionMap \ {releaseTarget}
  /\ numOfUser' = numOfUser - 1
  /\ releaseAt' = "disconnect"
  /\ UNCHANGED <<ioCount, ioMode, kernel, sends, accepted, disconnected, at,
                 logicTodo, releaseQueue, releaseEvent, releaseTarget>>

(* Mutant of ReleaseDisconnects: one key per wake-up.                      *)
ReleaseDisconnectsOne ==
  /\ releaseAt = "disconnect"
  /\ disconnected' = [disconnected EXCEPT ![releaseTarget] = @ + 1]
  /\ releaseQueue' = Tail(releaseQueue)
  /\ releaseAt' = "wait"
  /\ releaseTarget' = None
  /\ UNCHANGED <<ioCount, ioMode, kernel, sends, map, accepted, at, logicTodo,
                 releaseEvent>>

(* ... OnDisconnected: the socket is closed and the buffers are freed ...  *)
ReleaseDisconnects ==
  /\ releaseAt = "disconnect"
  /\ disconnected' = [disconnected EXCEPT ![releaseTarget] = @ + 1]
  /\ releaseQueue' = Tail(releaseQueue)
  /\ releaseAt' = "drain"
  /\ releaseTarget' = None
  /\ UNCHANGED <<ioCount, ioMode, kernel, sends, map, accepted, at, logicTodo,
                 releaseEvent>>

(* ... until the queue is empty.                                           *)
ReleaseUnlocks ==
  /\ releaseAt = "drain"
  /\ releaseQueue = << >>
  /\ releaseAt' = "wait"
  /\ UNCHANGED <<ioCount, ioMode, kernel, sends, map, accepted, disconnected,
                 at, logicTodo, releaseQueue, releaseEvent, releaseTarget>>

----------------------------------------------------------------------------
SendStep(t) ==
  DoSendNothing(t) \/ DoSendTakes(t) \/ WSASendPosted(t) \/ WSASendFails(t)

CountStep(t) == DecreaseIOCount(t) \/ ReleaseSession(t)

AcceptStep ==
  InsertSession \/ FirstRecv \/ CountStep(Accept)

IoStep(t) ==
  \/ FindSession(t) \/ RecvCompleted(t) \/ SendCompleted(t)
  \/ SendStep(t) \/ CountStep(t)

LogicStep ==
  \/ LogicUnlocks
  \/ \E s \in Sessions : LogicVisits(s)
  \/ SendStep(Logic) \/ CountStep(Logic)

ReleaseStep ==
  \/ ReleaseWakes \/ ReleaseLocks \/ ReleaseFinds \/ ReleaseErases
  \/ ReleaseDisconnects \/ ReleaseUnlocks

Completions(t) ==
  \E s \in Sessions, op \in {"recv", "send"}, good \in BOOLEAN :
    TakeCompletion(t, s, op, good)

Next ==
  \/ \E s \in Sessions : AcceptSession(s)
  \/ AcceptStep
  \/ \E t \in IoThreads : Completions(t) \/ IoStep(t)
  \/ LogicLocks \/ LogicStep
  \/ ReleaseStep

(* Every thread that has a call to finish finishes it: the logic thread    *)
(* wakes every 33 ms and sleeps between its passes, so a thread that waits *)
(* for sessionMapMutex gets it in between (strong fairness).  Nothing makes*)
(* a client connect or the kernel complete a posted operation.             *)
Spec ==
  /\ Init
  /\ [][Next]_vars
  /\ SF_vars(AcceptStep)
  /\ \A t \in IoThreads : WF_vars(IoStep(t))
  /\ WF_vars(LogicLocks)
  /\ WF_vars(LogicStep)
  /\ SF_vars(ReleaseStep)

----------------------------------------------------------------------------
(* The references ioCount stands for: a posted operation each, and each    *)
(* thread between counting or taking one and dropping it.                  *)
Holding == {"insert", "wsarecv", "find", "received", "sent", "wsasend",
            "decrease"}

Holders(s) == {t \in Threads : at[t].s = s /\ at[t].pc \in Holding}

References(s) ==
  Cardinality(Holders(s)) + Cardinality({s} \cap recvPosted)
                          + Cardinality({s} \cap sendPosted)

Queued(s) == \E i \in 1 .. Len(releaseQueue) : releaseQueue[i] = s

Receiving(s) == {t \in IoThreads : at[t].s = s /\ at[t].op = "recv"
                                    /\ at[t].pc \in {"find", "received"}}

Where ==
  [pc : {"idle", "pass", "insert", "wsarecv", "find", "received", "sent",
         "dosend", "wsasend", "decrease", "release"},
   s : Sessions \cup {None},
   op : {"none", "recv", "send", "bad"},
   then : {"idle", "pass", "dosend"}]

Sending(s) == {t \in Threads : /\ at[t].s = s
                               /\ \/ at[t].pc = "wsasend"
                                  \/ at[t].pc \in {"find", "sent"} /\ at[t].op = "send"}

TypeOK ==
  /\ ioCount \in [Sessions -> Int]
  /\ ioMode \in [Sessions -> {"IO_NONE_SENDING", "IO_SENDING"}]
  /\ recvPosted \subseteq Sessions
  /\ sendPosted \subseteq Sessions
  /\ sessionMap \subseteq accepted
  /\ accepted \subseteq Sessions
  /\ disconnected \in [Sessions -> Nat]
  /\ at \in [Threads -> Where]
  /\ releaseQueue \in Seq(Sessions)
  /\ releaseEvent \in BOOLEAN
  /\ releaseAt \in {"wait", "lock", "drain", "erase", "disconnect"}

(* Each kind of thread stays in its own code, and works on a session that  *)
(* was accepted.                                                           *)
InPlace(t) ==
  /\ IF at[t].pc \in {"idle", "pass"} THEN at[t].s = None ELSE at[t].s \in accepted
  /\ t = Accept => /\ at[t].pc \in {"idle", "insert", "wsarecv", "decrease", "release"}
                   /\ at[t].then = "idle"
  /\ t = Logic => /\ at[t].pc \in {"idle", "pass", "dosend", "wsasend", "decrease",
                                   "release"}
                  /\ at[t].then = IF at[t].pc = "idle" THEN "idle" ELSE "pass"
  /\ t \in IoThreads => /\ at[t].pc \notin {"pass", "insert", "wsarecv"}
                        /\ at[t].then # "pass"
  /\ at[t].pc = "received" => at[t].op = "recv"
  /\ at[t].pc = "sent" => at[t].op = "send"

ThreadsInPlace == \A t \in Threads : InPlace(t)

(* The release thread works on the key at the front of its queue.          *)
ReleaseInPlace ==
  /\ releaseAt \in {"erase", "disconnect"} =>
       releaseQueue # << >> /\ releaseTarget = Head(releaseQueue)
  /\ releaseAt = "erase" => releaseTarget \in sessionMap
  /\ releaseAt = "disconnect" =>
       releaseTarget \in accepted \ sessionMap /\ disconnected[releaseTarget] = 0

(* Nobody but the accept thread knows of a session before it is inserted.  *)
Untouched(s) ==
  /\ s \notin sessionMap \cup recvPosted \cup sendPosted
  /\ ~Queued(s)
  /\ disconnected[s] = 0
  /\ \A t \in Threads \ {Accept} : at[t].s # s

NewInPlace ==
  /\ \A s \in Sessions \ accepted : Untouched(s)
  /\ at[Accept].pc = "insert" =>
       Untouched(at[Accept].s) /\ ioCount[at[Accept].s] = 1

(* One thread, or the kernel, has the receive of a session, and that       *)
(* includes the accept thread until it has posted the first.               *)
ReceiverInPlace ==
  \A s \in Sessions :
    /\ \A t, u \in Receiving(s) : t = u
    /\ s \in recvPosted => Receiving(s) = {}
    /\ at[Accept].s = s /\ at[Accept].pc = "wsarecv" =>
         s \notin recvPosted /\ Receiving(s) = {}

(* One thread, or the kernel, has the send of a session that ioMode stands *)
(* for; nobody has one while it is not taken.                              *)
SenderInPlace ==
  \A s \in Sessions :
    /\ \A t, u \in Sending(s) : t = u
    /\ s \in sendPosted => Sending(s) = {}
    /\ ioMode[s] = "IO_NONE_SENDING" => s \notin sendPosted /\ Sending(s) = {}

(* numOfUser is the size of sessionMap, although an erase does not look    *)
(* whether there was anything to erase.                                    *)
UsersCounted == IsFiniteSet(sessionMap) /\ numOfUser = Cardinality(sessionMap)

(* While a session is in sessionMap its ioCount is exactly the number of   *)
(* references: no path of the accept, receive or send handlers, failures   *)
(* included, drops one twice or forgets one (Session::DecreaseIOCount).    *)
IoCountIsReferences ==
  \A s \in sessionMap : ioCount[s] = References(s)

(* A queued key has the release thread awake or the event set.             *)
ReleaserAwake == releaseQueue # << >> => releaseEvent \/ releaseAt # "wait"

(* A session nobody refers to is on its way out: its key is queued, or the *)
(* release thread has it, or a thread is about to queue it; and a key that *)
(* is queued has the release thread awake or the event set (no lost wake-  *)
(* up between ServerCore::ReleaseSession and RunReleaseThread).            *)
NoReleaseLost ==
  /\ \A s \in sessionMap : ioCount[s] = 0 =>
       \/ Queued(s)
       \/ \E t \in Threads : at[t].s = s /\ at[t].pc = "release"
  /\ ReleaserAwake

(* A key may be queued more than once (the count goes 0, 1, 0 when the     *)
(* logic thread sends to a session being released): OnDisconnected() runs  *)
(* once all the same, after the erase.                                     *)
DisconnectedAtMostOnce ==
  \A s \in Sessions :
    disconnected[s] <= (IF s \in accepted \ sessionMap THEN 1 ELSE 0)

(* The logic thread never works on a session that has been erased or       *)
(* disconnected: the shared lock of its pass keeps EraseSession out.       *)
LogicNeverInClosedSession ==
  \A s \in Sessions :
    at[Logic].s = s \/ s \in logicTodo => s \in sessionMap

(* The ring buffer of a session has one user at a time: the kernel with a  *)
(* posted receive, or one IO thread with a completed one.                  *)
OneReceiverAtATime ==
  \A s \in Sessions : Cardinality(Receiving(s)) + Cardinality({s} \cap recvPosted) <= 1

(* The logic thread's list is empty between its passes.                    *)
PassInPlace ==
  /\ logicTodo \subseteq Sessions
  /\ at[Logic].pc = "idle" => logicTodo = {}

(* The inductive invariant behind all of the above but what ioCount says   *)
(* (IoCountIsReferences and the first half of NoReleaseLost), which needs  *)
(* this one.                                                               *)
LifecycleInv ==
  /\ TypeOK
  /\ ThreadsInPlace
  /\ ReleaseInPlace
  /\ NewInPlace
  /\ ReceiverInPlace
  /\ SenderInPlace
  /\ PassInPlace
  /\ UsersCounted
  /\ LogicNeverInClosedSession
  /\ DisconnectedAtMostOnce
  /\ ReleaserAwake

(* The accept thread has not yet started to receive from s.                *)
NotHeardYet(s) == at[Accept].s = s /\ at[Accept].pc \in {"insert", "wsarecv"}

StageOf(s) ==
  IF s \notin accepted THEN "none"
  ELSE IF s \in sessionMap THEN "open"
  ELSE IF disconnected[s] > 0 THEN "closed"
  ELSE IF at[Accept].s = s /\ at[Accept].pc = "insert" THEN "new"
  ELSE "erased"

HearsOf(s) ==
  IF s \notin accepted \/ NotHeardYet(s) THEN "not yet"
  ELSE IF s \in recvPosted \/ Receiving(s) # {} THEN "yes"
  ELSE "no more"

Stages == [s \in Sessions |-> StageOf(s)]
Hearing == [s \in Sessions |-> HearsOf(s)]

(* The sessions the logic thread works on, or will in this pass.           *)
Served == logicTodo \cup ({at[Logic].s} \ {None})

Promised == INSTANCE Connection WITH
  stage <- Stages, hears <- Hearing, served <- Served, users <- numOfUser

(* The accept, IO, logic and release threads together keep what Connection *)
(* promises: no session is erased under a running handler, closed twice or *)
(* before it is erased, received from again after a failure, or counted    *)
(* wrongly (RunAcceptThread, RunIoThread, RunLogicThread, RunReleaseThread).*)
ImplementsConnection == Promised!Spec

(* The lock-order deadlock: the logic thread holds sessionMapMutex shared  *)
(* and waits in ReleaseSession for the queue mutex, which the release      *)
(* thread holds while it waits in EraseSession for sessionMapMutex.        *)
Deadlocked == at[Logic].pc = "release" /\ releaseAt = "erase"

(* A session whose count has reached 0 is erased, unless the two threads   *)
(* are deadlocked: nothing else loses a release.                           *)
CleanupUnlessDeadlocked ==
  \A s \in Sessions :
    (s \in sessionMap /\ ioCount[s] = 0) ~> (s \notin sessionMap \/ Deadlocked)
============================================================================
