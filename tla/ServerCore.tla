----------------------------- MODULE ServerCore -----------------------------
(***************************************************************************)
(* ServerCore as a whole: the order in which StartServer brings up the     *)
(* listening socket, the threads, their tables, the session factory and    *)
(* the completion port, the threads that run meanwhile, and StopServer.    *)
(*                                                                         *)
(* Abstracted: what is sent and received (IoThread, SessionSend), so an IO *)
(* thread ends a receive by posting the next one or by dropping the last   *)
(* reference; one receive per session keeps it alive.  An option file or a *)
(* network that fails makes StartServer return before anything runs.       *)
(* isStop is never assigned: a logic thread that finds the stop event set  *)
(* spins in its loop, an accept thread that was outside accept() when the  *)
(* listening socket was closed spins in its own (both are stuttering       *)
(* here), and StopServer waits for the logic threads for ever: CloseHandle *)
(* and WSACleanup after that are never reached.                            *)
(* External: the kernel hands completions and close keys out in any order; *)
(* a socket associated while the port does not exist completes nothing.    *)
(***************************************************************************)
EXTENDS Naturals, Integers, FiniteSets

CONSTANTS NumOfWorkerThread, NumOfLogicThread,
          MaxConnections    \* bound: clients that connect

ASSUME ServerAssumption ==
  /\ NumOfWorkerThread \in Nat \ {0}
  /\ NumOfLogicThread \in Nat \ {0}
  /\ MaxConnections \in Nat

Workers == 1 .. NumOfWorkerThread
Indices == 1 .. NumOfLogicThread
Sessions == 1 .. MaxConnections
IndexOf(s) == (s % NumOfLogicThread) + 1    \* GetTargetThreadId
None == 0

VARIABLES main,            \* [pc, i] of the thread in StartServer or StopServer
          listenSocket, factorySet, portOpen, stopEvent,
          tables,          \* indices with a sessionMap and its mutex
          releaseQueues,   \* indices with a release queue and its mutex
          acceptAt, accepted,
          ioAt,            \* ioAt[w]: [pc, s]
          closeKeys,       \* close keys in the port
          logicAt,         \* logicAt[i]: outside or inside a pass
          releaseAt,       \* releaseAt[i]
          posted,          \* sessions with a WSARecv in the kernel
          sessionMap, numOfUser, releaseQueue,
          disconnected     \* disconnected[s]: calls of OnDisconnected()

server == <<listenSocket, factorySet, portOpen, stopEvent, tables, releaseQueues>>
accept == <<acceptAt, accepted>>
sessions == <<sessionMap, numOfUser, releaseQueue, disconnected>>
vars == <<main, server, accept, ioAt, closeKeys, logicAt, releaseAt, posted,
          sessions>>

Init ==
  /\ main = [pc |-> "network", i |-> 1]
  /\ listenSocket = "none"
  /\ factorySet = FALSE
  /\ portOpen = FALSE
  /\ stopEvent = FALSE
  /\ tables = {}
  /\ releaseQueues = {}
  /\ acceptAt = "none"
  /\ accepted = 0
  /\ ioAt = [w \in Workers |-> [pc |-> "none", s |-> None]]
  /\ closeKeys = 0
  /\ logicAt = [i \in Indices |-> "none"]
  /\ releaseAt = [i \in Indices |-> "none"]
  /\ posted = {}
  /\ sessionMap = {}
  /\ numOfUser = 0
  /\ releaseQueue = {}
  /\ disconnected = [s \in Sessions |-> 0]

(* The process ends with an exception out of the accept thread, or where a  *)
(* thread reads a vector that is growing.                                  *)
Running == acceptAt # "crashed"

MainAt(pc) == Running /\ main.pc = pc
MainTo(pc) == main' = [pc |-> pc, i |-> 1]

(* The next iteration of a loop over the threads, or what follows it.      *)
MainLoops(n, body, after) ==
  main' = IF main.i < n THEN [pc |-> body, i |-> main.i + 1]
          ELSE [pc |-> after, i |-> 1]

----------------------------------------------------------------------------
(* StartServer.  InitNetwork listens; InitThreads starts the accept thread *)
(* at once ...                                                             *)
InitNetwork ==
  /\ MainAt("network")
  /\ MainTo("accept")
  /\ listenSocket' = "open"
  /\ UNCHANGED <<factorySet, portOpen, stopEvent, tables, releaseQueues, accept,
                 ioAt, closeKeys, logicAt, releaseAt, posted, sessions>>

(* Mutant of StartAcceptThread: the factory is set before the threads run. *)
StartAcceptThreadReady ==
  /\ MainAt("accept")
  /\ MainTo("io")
  /\ acceptAt' = "call"
  /\ factorySet' = TRUE
  /\ UNCHANGED <<listenSocket, portOpen, stopEvent, tables, releaseQueues,
                 accepted, ioAt, closeKeys, logicAt, releaseAt, posted, sessions>>

StartAcceptThread ==
  /\ MainAt("accept")
  /\ MainTo("io")
  /\ acceptAt' = "call"
  /\ UNCHANGED <<server, accepted, ioAt, closeKeys, logicAt, releaseAt, posted,
                 sessions>>

(* ... the IO threads ...                                                  *)
StartIoThread ==
  /\ MainAt("io")
  /\ ioAt' = [ioAt EXCEPT ![main.i].pc = "call"]
  /\ MainLoops(NumOfWorkerThread, "io", "tables")
  /\ UNCHANGED <<server, accept, closeKeys, logicAt, releaseAt, posted, sessions>>

(* ... and for each index the maps, the release thread, its queue and the  *)
(* logic thread, in this order.                                            *)
AddTables ==
  /\ MainAt("tables")
  /\ tables' = tables \cup {main.i}
  /\ releaseAt' = [releaseAt EXCEPT ![main.i] = "wait"]
  /\ main' = [main EXCEPT !.pc = "queue"]
  /\ UNCHANGED <<listenSocket, factorySet, portOpen, stopEvent, releaseQueues,
                 accept, ioAt, closeKeys, logicAt, posted, sessions>>

AddReleaseQueue ==
  /\ MainAt("queue")
  /\ releaseQueues' = releaseQueues \cup {main.i}
  /\ logicAt' = [logicAt EXCEPT ![main.i] = "wait"]
  /\ MainLoops(NumOfLogicThread, "tables", "factory")
  /\ UNCHANGED <<listenSocket, factorySet, portOpen, stopEvent, tables, accept,
                 ioAt, closeKeys, releaseAt, posted, sessions>>

(* SetSessionFactory refuses a null factory, and StartServer returns false *)
(* with every thread running.                                              *)
SetSessionFactory ==
  /\ MainAt("factory")
  /\ \/ MainTo("port") /\ factorySet' = TRUE
     \/ MainTo("refused") /\ UNCHANGED factorySet
  /\ UNCHANGED <<listenSocket, portOpen, stopEvent, tables, releaseQueues, accept,
                 ioAt, closeKeys, logicAt, releaseAt, posted, sessions>>

(* A logic or release thread reads the vectors of its index while they grow *)
(* for the next one: a data race, which may go well or end the process.    *)
TablesGrowUnderThread(i) ==
  /\ MainAt("tables")
  /\ logicAt[i] = "wait"
  /\ acceptAt' = "crashed"
  /\ UNCHANGED <<main, server, accepted, ioAt, closeKeys, logicAt, releaseAt,
                 posted, sessions>>

CreatePort ==
  /\ MainAt("port")
  /\ MainTo("started")
  /\ portOpen' = TRUE
  /\ UNCHANGED <<listenSocket, factorySet, stopEvent, tables, releaseQueues,
                 accept, ioAt, closeKeys, logicAt, releaseAt, posted, sessions>>

----------------------------------------------------------------------------
(* StopServer: close the listening socket, wait for the accept thread ...  *)
CloseListenSocket ==
  /\ MainAt("started")
  /\ MainTo("joinAccept")
  /\ listenSocket' = "closed"
  /\ UNCHANGED <<factorySet, portOpen, stopEvent, tables, releaseQueues, accept,
                 ioAt, closeKeys, logicAt, releaseAt, posted, sessions>>

(* Mutant of JoinAccept: the event is set before the IO threads are waited  *)
(* for.                                                                    *)
JoinAcceptSignals ==
  /\ MainAt("joinAccept")
  /\ acceptAt = "ended"
  /\ MainTo("post")
  /\ stopEvent' = TRUE
  /\ UNCHANGED <<listenSocket, factorySet, portOpen, tables, releaseQueues, accept,
                 ioAt, closeKeys, logicAt, releaseAt, posted, sessions>>

JoinAccept ==
  /\ MainAt("joinAccept")
  /\ acceptAt = "ended"
  /\ MainTo("post")
  /\ UNCHANGED <<server, accept, ioAt, closeKeys, logicAt, releaseAt, posted,
                 sessions>>

(* ... for each IO thread post a close key and wait for that thread ...    *)
PostCloseKey ==
  /\ MainAt("post")
  /\ closeKeys' = closeKeys + 1
  /\ main' = [main EXCEPT !.pc = "joinIo"]
  /\ UNCHANGED <<server, accept, ioAt, logicAt, releaseAt, posted, sessions>>

JoinIoThread ==
  /\ MainAt("joinIo")
  /\ ioAt[main.i].pc = "ended"
  /\ MainLoops(NumOfWorkerThread, "post", "event")
  /\ UNCHANGED <<server, accept, ioAt, closeKeys, logicAt, releaseAt, posted,
                 sessions>>

(* ... and set the event for the logic and the release threads.            *)
SetStopEvent ==
  /\ MainAt("event")
  /\ MainTo("joinLogic")
  /\ stopEvent' = TRUE
  /\ UNCHANGED <<listenSocket, factorySet, portOpen, tables, releaseQueues, accept,
                 ioAt, closeKeys, logicAt, releaseAt, posted, sessions>>

----------------------------------------------------------------------------
(* The accept thread enters accept(); it leaves it with a connection, or   *)
(* with WSAEINTR when the socket is closed under it.                       *)
CallAccept ==
  /\ acceptAt = "call"
  /\ listenSocket = "open"
  /\ acceptAt' = "inside"
  /\ UNCHANGED <<main, server, accepted, ioAt, closeKeys, logicAt, releaseAt,
                 posted, sessions>>

(* Mutant of AcceptInterrupted: the error is logged like any other.        *)
AcceptInterruptedRetries ==
  /\ acceptAt = "inside"
  /\ listenSocket = "closed"
  /\ acceptAt' = "call"
  /\ UNCHANGED <<main, server, accepted, ioAt, closeKeys, logicAt, releaseAt,
                 posted, sessions>>

AcceptInterrupted ==
  /\ acceptAt = "inside"
  /\ listenSocket = "closed"
  /\ acceptAt' = "ended"
  /\ UNCHANGED <<main, server, accepted, ioAt, closeKeys, logicAt, releaseAt,
                 posted, sessions>>

(* CreateSession throws out of the thread, and ends the process, where     *)
(* there is no factory yet.                                                *)
AcceptConnection ==
  /\ acceptAt = "inside"
  /\ listenSocket = "open"
  /\ accepted < MaxConnections
  /\ accepted' = accepted + 1
  /\ acceptAt' = IF factorySet THEN "insert" ELSE "crashed"
  /\ UNCHANGED <<main, server, ioAt, closeKeys, logicAt, releaseAt, posted,
                 sessions>>

(* InsertSession needs the unique lock, so no pass on its index; then the  *)
(* first receive, whose completion is lost where there was no port.        *)
InsertSession ==
  /\ acceptAt = "insert"
  /\ logicAt[IndexOf(accepted)] # "pass"
  /\ sessionMap' = sessionMap \cup {accepted}
  /\ numOfUser' = numOfUser + 1
  /\ posted' = IF portOpen THEN posted \cup {accepted} ELSE posted
  /\ acceptAt' = "call"
  /\ UNCHANGED <<main, server, accepted, ioAt, closeKeys, logicAt, releaseAt,
                 releaseQueue, disconnected>>

----------------------------------------------------------------------------
IoTo(w, pc, s) == ioAt' = [ioAt EXCEPT ![w] = [pc |-> pc, s |-> s]]

(* An IO thread calls GetQueuedCompletionStatus, which fails at once while *)
(* there is no port: the thread ends.                                      *)
WaitForCompletion(w) ==
  /\ Running
  /\ ioAt[w].pc = "call"
  /\ IoTo(w, IF portOpen THEN "wait" ELSE "ended", None)
  /\ UNCHANGED <<main, server, accept, closeKeys, logicAt, releaseAt, posted,
                 sessions>>

(* A close key comes with a null OVERLAPPED: the thread ends before it     *)
(* looks at the key, and so does not post it again.                        *)
TakeCloseKey(w) ==
  /\ ioAt[w].pc = "wait"
  /\ closeKeys > 0
  /\ closeKeys' = closeKeys - 1
  /\ IoTo(w, "ended", None)
  /\ UNCHANGED <<main, server, accept, logicAt, releaseAt, posted, sessions>>

TakeCompletion(w, s) ==
  /\ ioAt[w].pc = "wait"
  /\ s \in posted
  /\ posted' = posted \ {s}
  /\ IoTo(w, "handle", s)
  /\ UNCHANGED <<main, server, accept, closeKeys, logicAt, releaseAt, sessions>>

(* OnIoCompleted: another receive, or the last reference dropped and the   *)
(* session queued for release under the mutex of the queue.                *)
HandleCompletion(w) ==
  LET s == ioAt[w].s IN
  /\ ioAt[w].pc = "handle"
  /\ \/ posted' = posted \cup {s} /\ UNCHANGED releaseQueue
     \/ /\ releaseAt[IndexOf(s)] # "drain"
        /\ releaseQueue' = releaseQueue \cup {s}
        /\ UNCHANGED posted
  /\ IoTo(w, "call", None)
  /\ UNCHANGED <<main, server, accept, closeKeys, logicAt, releaseAt, sessionMap,
                 numOfUser, disconnected>>

----------------------------------------------------------------------------
(* A logic thread: a pass every 33 ms under the shared lock of its map,    *)
(* until the stop event is set.                                            *)
StartPass(i) ==
  /\ Running
  /\ logicAt[i] = "wait"
  /\ ~stopEvent
  /\ logicAt' = [logicAt EXCEPT ![i] = "pass"]
  /\ UNCHANGED <<main, server, accept, ioAt, closeKeys, releaseAt, posted,
                 sessions>>

EndPass(i) ==
  /\ Running
  /\ logicAt[i] = "pass"
  /\ logicAt' = [logicAt EXCEPT ![i] = "wait"]
  /\ UNCHANGED <<main, server, accept, ioAt, closeKeys, releaseAt, posted,
                 sessions>>

(* A release thread: its own event comes first in the wait, then the stop  *)
(* event, which stays set.                                                 *)
ReleaseTo(i, at) == releaseAt' = [releaseAt EXCEPT ![i] = at]

QueueOf(i) == {s \in releaseQueue : IndexOf(s) = i}

(* Mutant of WakeRelease: the stop event resets itself.                     *)
WakeReleaseResets(i) ==
  /\ releaseAt[i] = "wait"
  /\ \/ QueueOf(i) # {} /\ ReleaseTo(i, "drain") /\ UNCHANGED stopEvent
     \/ QueueOf(i) = {} /\ stopEvent /\ ReleaseTo(i, "sleep") /\ stopEvent' = FALSE
  /\ UNCHANGED <<main, listenSocket, factorySet, portOpen, tables, releaseQueues,
                 accept, ioAt, closeKeys, logicAt, posted, sessions>>

WakeRelease(i) ==
  /\ releaseAt[i] = "wait"
  /\ \/ QueueOf(i) # {} /\ ReleaseTo(i, "drain")
     \/ QueueOf(i) = {} /\ stopEvent /\ ReleaseTo(i, "sleep")
  /\ UNCHANGED <<main, server, accept, ioAt, closeKeys, logicAt, posted, sessions>>

(* FindSession, EraseSession under the unique lock, and OnDisconnected.    *)
EraseSession(i, s) ==
  LET found == Cardinality({s} \cap sessionMap) IN
  /\ releaseAt[i] = "drain"
  /\ s \in QueueOf(i)
  /\ logicAt[i] # "pass"
  /\ sessionMap' = sessionMap \ {s}
  /\ numOfUser' = numOfUser - found
  /\ disconnected' = [disconnected EXCEPT ![s] = @ + found]
  /\ releaseQueue' = releaseQueue \ {s}
  /\ UNCHANGED <<main, server, accept, ioAt, closeKeys, logicAt, releaseAt, posted>>

Drained(i) ==
  /\ releaseAt[i] = "drain"
  /\ QueueOf(i) = {}
  /\ ReleaseTo(i, "wait")
  /\ UNCHANGED <<main, server, accept, ioAt, closeKeys, logicAt, posted, sessions>>

(* Mutant of EraseAllSession: the users are not counted down.              *)
EraseAllSessionKeepsCount(i) ==
  LET mine == {s \in sessionMap : IndexOf(s) = i} IN
  /\ releaseAt[i] = "sleep"
  /\ logicAt[i] # "pass"
  /\ disconnected' = [s \in Sessions |-> disconnected[s] + Cardinality({s} \cap mine)]
  /\ sessionMap' = sessionMap \ mine
  /\ ReleaseTo(i, "wait")
  /\ UNCHANGED <<main, server, accept, ioAt, closeKeys, logicAt, posted,
                 releaseQueue, numOfUser>>

(* EraseAllSession after the sleep, again and again.  It sets numOfUser to *)
(* 0 for all indices.                                                      *)
EraseAllSession(i) ==
  LET mine == {s \in sessionMap : IndexOf(s) = i} IN
  /\ releaseAt[i] = "sleep"
  /\ logicAt[i] # "pass"
  /\ disconnected' = [s \in Sessions |-> disconnected[s] + Cardinality({s} \cap mine)]
  /\ sessionMap' = sessionMap \ mine
  /\ numOfUser' = 0
  /\ ReleaseTo(i, "wait")
  /\ UNCHANGED <<main, server, accept, ioAt, closeKeys, logicAt, posted,
                 releaseQueue>>

----------------------------------------------------------------------------
StartServer ==
  \/ InitNetwork \/ StartAcceptThread \/ StartIoThread
  \/ AddTables \/ AddReleaseQueue \/ SetSessionFactory \/ CreatePort

StopServer == JoinAccept \/ PostCloseKey \/ JoinIoThread \/ SetStopEvent

AcceptStep == CallAccept \/ AcceptInterrupted \/ InsertSession

IoStep(w) == WaitForCompletion(w) \/ TakeCloseKey(w) \/ HandleCompletion(w)

ReleaseStep(i) ==
  \/ WakeRelease(i)
  \/ \E s \in Sessions : EraseSession(i, s)
  \/ Drained(i)
  \/ EraseAllSession(i)

Next ==
  \/ StartServer \/ CloseListenSocket \/ StopServer
  \/ AcceptStep \/ AcceptConnection
  \/ \E w \in Workers : IoStep(w)
  \/ \E w \in Workers, s \in Sessions : TakeCompletion(w, s)
  \/ \E i \in Indices :
       TablesGrowUnderThread(i) \/ StartPass(i) \/ EndPass(i) \/ ReleaseStep(i)

(* Main and the threads run on; a thread that waits for the lock of a map  *)
(* gets it between two passes, and a close key is handed out between two   *)
(* completions, for the port is a queue (strong fairness).  Nobody has to  *)
(* connect, to send, or to call StopServer.                                *)
Spec ==
  /\ Init
  /\ [][Next]_vars
  /\ WF_vars(StopServer)
  /\ SF_vars(AcceptStep)
  /\ \A w \in Workers : SF_vars(IoStep(w)) /\ SF_vars(TakeCloseKey(w))
  /\ \A i \in Indices : WF_vars(EndPass(i)) /\ SF_vars(ReleaseStep(i))

----------------------------------------------------------------------------
(* OnDisconnected() has run once for each session that left a map, however *)
(* it left it and however often EraseAllSession comes back.                *)
EverInserted ==
  1 .. (IF acceptAt \in {"insert", "crashed"} THEN accepted - 1 ELSE accepted)

DisconnectedOnceErased ==
  \A s \in Sessions :
    disconnected[s] = IF s \in EverInserted \ sessionMap THEN 1 ELSE 0

ServerTypeOK ==
  /\ main \in [pc : {"network", "accept", "io", "tables", "queue", "factory",
                     "port", "refused", "started", "joinAccept", "post",
                     "joinIo", "event", "joinLogic"},
               i : Workers \cup Indices]
  /\ listenSocket \in {"none", "open", "closed"}
  /\ acceptAt \in {"none", "call", "inside", "insert", "crashed", "ended"}
  /\ accepted \in 0 .. MaxConnections
  /\ ioAt \in [Workers -> [pc : {"none", "call", "wait", "handle", "ended"},
                           s : Sessions \cup {None}]]
  /\ closeKeys \in Nat
  /\ logicAt \in [Indices -> {"none", "wait", "pass"}]
  /\ releaseAt \in [Indices -> {"none", "wait", "drain", "sleep"}]
  /\ numOfUser \in Int
  /\ disconnected \in [Sessions -> Nat]

(* A session exists only where every table and every queue does: the       *)
(* threads start before the tables do, but the factory comes after both.   *)
SessionsNeedTables ==
  sessionMap # {} \/ acceptAt = "insert" => releaseQueues = Indices

(* How far StartServer has come; a process that crashed had no session.    *)
BeforeTables == {"network", "accept", "io"}
TableLoop == {"tables", "queue"}
BeforeFactory == BeforeTables \cup TableLoop \cup {"factory"}

StartServerInPlace ==
  /\ main.pc \in BeforeTables => releaseQueues = {}
  /\ main.pc \in TableLoop => main.i \in Indices /\ releaseQueues = {i \in Indices : i < main.i}
  /\ main.pc \notin BeforeTables \cup TableLoop => releaseQueues = Indices
  /\ main.pc \in {"network", "accept"} => acceptAt = "none"
  /\ factorySet => main.pc \notin BeforeFactory
  /\ factorySet \/ accepted = 0 \/ ~Running
  /\ ~Running => sessionMap = {}
  /\ acceptAt = "insert" => accepted > 0
  /\ SessionsNeedTables

(* How far StopServer has come, and what has ended before its event.       *)
IoEnded == {"event", "joinLogic"}

StopServerInPlace ==
  /\ main.pc \in {"post", "joinIo"} \cup IoEnded => acceptAt = "ended"
  /\ main.pc \in {"post", "joinIo"} =>
       \A w \in Workers : w < main.i => ioAt[w].pc = "ended"
  /\ main.pc \in IoEnded => \A w \in Workers : ioAt[w].pc = "ended"
  /\ stopEvent => main.pc = "joinLogic"
  /\ \A i \in Indices : releaseAt[i] = "sleep" => stopEvent

(* A session is received for once: in the kernel, in one IO thread, or,    *)
(* when that was the last reference, queued for release.                   *)
Handles(w) == ioAt[w].pc = "handle"

SessionsInPlace ==
  /\ sessionMap \cup posted \cup releaseQueue \subseteq EverInserted
  /\ posted \cap releaseQueue = {}
  /\ \A w \in Workers :
       Handles(w) => ioAt[w].s \in sessionMap \ (posted \cup releaseQueue)
  /\ \A v, w \in Workers :
       Handles(v) /\ Handles(w) /\ ioAt[v].s = ioAt[w].s => v = w
  /\ (\E w \in Workers : ioAt[w].pc # "ended") => posted \subseteq sessionMap

(* Types; sessions come after the tables (ServerCore::StartServer), have   *)
(* one receive, and are disconnected once, when they leave their map       *)
(* (RunReleaseThread).                                                     *)
ServerInv ==
  /\ ServerTypeOK
  /\ StartServerInPlace
  /\ StopServerInPlace
  /\ SessionsInPlace
  /\ DisconnectedOnceErased

(* EraseAllSession never meets a thread that works on a session: when the  *)
(* stop event is set the accept thread and every IO thread have ended      *)
(* (ServerCore::StopServer).                                               *)
EraseAllAfterIo ==
  (\E i \in Indices : releaseAt[i] = "sleep") =>
    acceptAt = "ended" /\ \A w \in Workers : ioAt[w].pc = "ended"

(* GetUserCount() is the number of sessions in all maps, until one release *)
(* thread has erased its sessions and zeroed the count for all: after that *)
(* it is never too high (ServerCore::EraseAllSession).                     *)
UserCountIsSessions ==
  /\ ~stopEvent => numOfUser = Cardinality(sessionMap)
  /\ numOfUser <= Cardinality(sessionMap)

(* Once StopServer has set its event, no session stays in a map, not even  *)
(* one whose completions nobody takes any more.                            *)
SessionsClosedAtStop == stopEvent ~> sessionMap = {}

(* StopServer, called while the accept thread is inside accept(), gets as  *)
(* far as its event, unless a close key ends another IO thread than the    *)
(* one it waits for: the key is not posted again (README.md:82 has it      *)
(* broadcast).                                                             *)
KeyTakenByAnother ==
  MainAt("joinIo") /\ closeKeys = 0 /\ ioAt[main.i].pc # "ended"

StopReachesItsEvent ==
  (MainAt("joinAccept") /\ acceptAt = "inside") ~> (stopEvent \/ KeyTakenByAnother)
============================================================================
