------------------------------ MODULE IoThread ------------------------------
(***************************************************************************)
(* What the IO threads of ServerCore do with a receive: the completion key *)
(* that leads from the socket to a session, FindSession, OnIoCompleted and *)
(* the assembly of packets out of the byte stream in OnRecvIoCompleted.    *)
(* The accept thread writes the keys, the release thread erases sessions.  *)
(*                                                                         *)
(* Abstracted: a stream is the offsets of its bytes; every packet has      *)
(* HeaderSize + PayloadSize bytes, so packet i ends at i * PacketSize and  *)
(* the bytes in the ring buffer are those from read + 1 to written.  Sends *)
(* are in SessionSend; the locks, which every step here takes and gives    *)
(* back, are in SessionLifecycle.  DoRecv and the DecreaseIOCount of its    *)
(* caller are one step: their changes of ioCount commute with those of     *)
(* other threads.                                                          *)
(* External: the kernel ends a receive after any bytes that are there, and *)
(* may fail it or end the stream; CTLSMemoryPool::Alloc gives any slot that*)
(* was given back more often than taken; NetBuffer::Decode accepts a packet*)
(* and may or may not accept what is not one (its checksum is one byte).   *)
(***************************************************************************)
EXTENDS Naturals, Integers, Sequences, FiniteSets

CONSTANTS IoThreads,
          Keys,              \* slots of ioCompletionKeyPool
          NoKey,
          NumOfLogicThread,
          MaxSessions,       \* bound: connections, accepted in order
          HeaderSize,        \* df_HEADER_SIZE
          PayloadSize,
          MaxPackets         \* bound: MaxPackets[s] packets from client s

ASSUME IoAssumption ==
  /\ NumOfLogicThread \in Nat \ {0}
  /\ MaxSessions \in Nat \ {0}
  /\ HeaderSize \in Nat \ {0}
  /\ PayloadSize \in Nat \ {0}
  /\ NoKey \notin Keys
  /\ IsFiniteSet(Keys) /\ Cardinality(Keys) >= MaxSessions

Sessions == 1 .. MaxSessions
ASSUME PacketsAssumption == MaxPackets \in [Sessions -> Nat]

PacketSize == HeaderSize + PayloadSize
StreamEnd(s) == MaxPackets[s] * PacketSize
ThreadId(s) == s % NumOfLogicThread
None == 0
Broken == 0     \* a message made of something that is not a packet

(* The result of a receive: a number of bytes, or 0 where it was given none *)
(* or failed, which RunIoThread and OnIoCompleted treat alike.             *)
Ended == 0
NoResult == -1

VARIABLES accepted,      \* connections accepted so far
          acceptAt,      \* the accept thread
          key,           \* key[k]: what the slot holds
          pooled,        \* pooled[k]: how often the slot is in the pool
          keyOf,         \* keyOf[s]: the slot the socket of s carries
          posted,        \* sessions with a WSARecv in the kernel
          port,          \* port[s]: the result of a completed receive of s
          arrived,       \* arrived[s]: bytes the kernel has handed over
          written, read, \* the ring buffer of s, as offsets in its stream
          storeQueue,    \* storeQueue[s]: the messages made of its packets
          ioCount, sessionMap, releaseQueue,
          disconnected,  \* sessions that OnDisconnected() has closed
          io,            \* io[t]: where each IO thread is
          keyShared,     \* history: a slot went to two sessions of the map
          cut            \* history: a receive ended inside a payload

stream == <<arrived, written, read, storeQueue, cut>>
keys == <<key, pooled, keyOf, keyShared>>
sessions == <<sessionMap, releaseQueue, disconnected>>
vars == <<accepted, acceptAt, keys, posted, port, stream, ioCount, sessions, io>>

Waiting == [pc |-> "wait", s |-> None, k |-> NoKey, n |-> NoResult, found |-> None]

Init ==
  /\ accepted = 0
  /\ acceptAt = "accept"
  /\ key = [k \in Keys |-> [sessionId |-> None, threadId |-> 0]]
  /\ pooled = [k \in Keys |-> 1]
  /\ keyOf = [s \in Sessions |-> NoKey]
  /\ posted = {}
  /\ port = [s \in Sessions |-> NoResult]
  /\ arrived = [s \in Sessions |-> 0]
  /\ written = [s \in Sessions |-> 0]
  /\ read = [s \in Sessions |-> 0]
  /\ storeQueue = [s \in Sessions |-> << >>]
  /\ ioCount = [s \in Sessions |-> 0]
  /\ sessionMap = {}
  /\ releaseQueue = {}
  /\ disconnected = {}
  /\ io = [t \in IoThreads |-> Waiting]
  /\ keyShared = FALSE
  /\ cut = [s \in Sessions |-> FALSE]

----------------------------------------------------------------------------
(* The accept thread.  A connection gets a session with one reference and  *)
(* a slot of the pool, into which first the session id is written ...      *)
AcceptConnection(k) ==
  LET s == accepted + 1 IN
  /\ acceptAt = "accept"
  /\ s \in Sessions
  /\ pooled[k] > 0
  /\ pooled' = [pooled EXCEPT ![k] = @ - 1]
  /\ accepted' = s
  /\ ioCount' = [ioCount EXCEPT ![s] = 1]
  /\ key' = [key EXCEPT ![k].sessionId = s]
  /\ keyOf' = [keyOf EXCEPT ![s] = k]
  /\ keyShared' = (keyShared \/ \E other \in sessionMap : keyOf[other] = k)
  /\ acceptAt' = "key"
  /\ UNCHANGED <<posted, port, stream, sessions, io>>

(* ... then the thread id; the socket is associated with the port and the  *)
(* session inserted ...                                                    *)
InsertSession ==
  /\ acceptAt = "key"
  /\ key' = [key EXCEPT ![keyOf[accepted]].threadId = ThreadId(accepted)]
  /\ sessionMap' = sessionMap \cup {accepted}
  /\ acceptAt' = "recv"
  /\ UNCHANGED <<accepted, pooled, keyOf, keyShared, posted, port, stream,
                 ioCount, releaseQueue, disconnected, io>>

(* DecreaseIOCount on counts already raised by DoRecv: the last reference  *)
(* queues the session for release.                                         *)
DecreaseIOCount(s, raised) ==
  /\ ioCount' = [ioCount EXCEPT ![s] = @ + raised - 1]
  /\ releaseQueue' = IF ioCount[s] + raised = 1
                     THEN releaseQueue \cup {s} ELSE releaseQueue

(* Mutant of DoRecv: a posted receive is not counted.                      *)
DoRecvUncounted(s, posts) ==
  /\ posted' = IF posts THEN posted \cup {s} ELSE posted
  /\ DecreaseIOCount(s, 0)

(* DoRecv, which posts the next receive or fails, and the DecreaseIOCount  *)
(* of its caller.  On a closed socket it fails.                            *)
DoRecv(s, posts) ==
  /\ posts => s \notin disconnected
  /\ posted' = IF posts THEN posted \cup {s} ELSE posted
  /\ DecreaseIOCount(s, IF posts THEN 1 ELSE 0)

(* ... and its first receive posted.                                       *)
FirstRecv ==
  /\ acceptAt = "recv"
  /\ \E posts \in BOOLEAN : DoRecv(accepted, posts)
  /\ acceptAt' = "accept"
  /\ UNCHANGED <<accepted, keys, port, stream, sessionMap, disconnected, io>>

----------------------------------------------------------------------------
(* The kernel completes a receive: with the next bytes of the stream, with *)
(* 0 bytes, or with an error; after closesocket only with an error.        *)
InsidePayload(offset) == offset % PacketSize > HeaderSize

Receive(s, n) ==
  /\ s \in posted
  /\ s \notin disconnected
  /\ n <= StreamEnd(s) - arrived[s]
  /\ posted' = posted \ {s}
  /\ port' = [port EXCEPT ![s] = n]
  /\ arrived' = [arrived EXCEPT ![s] = @ + n]
  /\ cut' = [cut EXCEPT ![s] = @ \/ InsidePayload(arrived'[s])]
  /\ UNCHANGED <<accepted, acceptAt, keys, written, read, storeQueue, ioCount,
                 sessions, io>>

EndReceive(s) ==
  /\ s \in posted
  /\ posted' = posted \ {s}
  /\ port' = [port EXCEPT ![s] = Ended]
  /\ UNCHANGED <<accepted, acceptAt, keys, stream, ioCount, sessions, io>>

----------------------------------------------------------------------------
(* RunIoThread.  GetQueuedCompletionStatus gives the key of the socket ... *)
TakeCompletion(t, s) ==
  /\ io[t].pc = "wait"
  /\ port[s] # NoResult
  /\ port' = [port EXCEPT ![s] = NoResult]
  /\ io' = [io EXCEPT ![t] = [pc |-> "find", s |-> s, k |-> keyOf[s],
                              n |-> port[s], found |-> None]]
  /\ UNCHANGED <<accepted, acceptAt, keys, posted, stream, ioCount, sessions>>

(* ... and the key a session: the one it names now, if it is in the map of *)
(* the thread id it holds now.                                             *)
Found(k) ==
  LET s == key[k].sessionId IN
  IF s \in sessionMap /\ key[k].threadId = ThreadId(s) THEN s ELSE None

FindSession(t) ==
  /\ io[t].pc = "find"
  /\ LET found == Found(io[t].k) IN
     io' = [io EXCEPT ![t].found = found,
                      ![t].pc = IF found = None THEN "free" ELSE "complete"]
  /\ UNCHANGED <<accepted, acceptAt, keys, posted, port, stream, ioCount,
                 sessions>>

(* A failed receive, or one of 0 bytes, drops a reference of the session   *)
(* the key led to.                                                         *)
DropReference(t) ==
  /\ io[t].pc = "complete"
  /\ io[t].n = Ended
  /\ DecreaseIOCount(io[t].found, 0)
  /\ io' = [io EXCEPT ![t].pc = "free"]
  /\ UNCHANGED <<accepted, acceptAt, keys, posted, port, stream, sessionMap,
                 disconnected>>

(* Bytes whose OVERLAPPED is not the found session's are left alone, and so *)
(* is the reference of the session they belong to.                         *)
NotItsOverlapped(t) ==
  /\ io[t].pc = "complete"
  /\ io[t].n > 0
  /\ io[t].found # io[t].s
  /\ io' = [io EXCEPT ![t].pc = "free"]
  /\ UNCHANGED <<accepted, acceptAt, keys, posted, port, stream, ioCount,
                 sessions>>

----------------------------------------------------------------------------
(* RecvStreamToBuffer on the bytes from r + 1 to w: how many it takes.  A  *)
(* packet that is not all there is taken as far as it goes; bytes that do  *)
(* not start a packet are read as a header with any length.                *)
Aligned(r) == r % PacketSize = 0

Dequeued(r, w) ==
  IF Aligned(r)
  THEN {IF w - r < PacketSize THEN w - r ELSE PacketSize}
  ELSE HeaderSize .. w - r

(* Mutant of Remains: a header with nothing behind it is taken as well.    *)
RemainsHeader(r, w) == w - r >= HeaderSize

(* The condition of the loop: more than a header in the ring buffer.       *)
Remains(r, w) == w - r > HeaderSize

(* A packet that was read whole is the next one of the client.             *)
MessageOf(r, d) ==
  IF Aligned(r) /\ d = PacketSize THEN r \div PacketSize + 1 ELSE Broken

(* Mutant of OnRecvIoCompleted: the bytes go to the session that was found, *)
(* whosever OVERLAPPED it is.                                              *)
OnRecvIoCompletedUnchecked(t) ==
  LET s == io[t].found IN
  /\ io[t].pc = "complete"
  /\ io[t].n > 0
  /\ written' = [written EXCEPT ![s] = @ + io[t].n]
  /\ io' = [io EXCEPT ![t].pc = "assemble"]
  /\ UNCHANGED <<accepted, acceptAt, keys, posted, port, arrived, read, storeQueue,
                 cut, ioCount, sessions>>

(* OnRecvIoCompleted: the bytes enter the ring buffer ...                  *)
OnRecvIoCompleted(t) ==
  LET s == io[t].found IN
  /\ io[t].pc = "complete"
  /\ io[t].n > 0
  /\ io[t].s = s
  /\ written' = [written EXCEPT ![s] = @ + io[t].n]
  /\ io' = [io EXCEPT ![t].pc = "assemble"]
  /\ UNCHANGED <<accepted, acceptAt, keys, posted, port, arrived, read, storeQueue,
                 cut, ioCount, sessions>>

(* ... one packet after another goes to the mailbox of the session, as long *)
(* as more than a header is left ...                                       *)
MakePacket(t) ==
  LET s == io[t].found IN
  /\ io[t].pc = "assemble"
  /\ Remains(read[s], written[s])
  /\ \E d \in Dequeued(read[s], written[s]) :
       /\ read' = [read EXCEPT ![s] = @ + d]
       /\ storeQueue' = [storeQueue EXCEPT ![s] = Append(@, MessageOf(read[s], d))]
  /\ UNCHANGED <<accepted, acceptAt, keys, posted, port, arrived, written, cut,
                 ioCount, sessions, io>>

(* ... but a packet may fail: what is none in RecvStreamToBuffer, which then *)
(* takes nothing, in Decode or in CreateMessageFromPacket, and any in      *)
(* SendMessage, once a handler has stopped the actor.  No receive follows. *)
PacketFails(t) ==
  LET s == io[t].found IN
  /\ io[t].pc = "assemble"
  /\ Remains(read[s], written[s])
  /\ \E d \in Dequeued(read[s], written[s]) \cup {0} :
       /\ Aligned(read[s]) => d > 0
       /\ read' = [read EXCEPT ![s] = @ + d]
  /\ DecreaseIOCount(s, 0)
  /\ io' = [io EXCEPT ![t].pc = "free"]
  /\ UNCHANGED <<accepted, acceptAt, keys, posted, port, arrived, written,
                 storeQueue, cut, sessionMap, disconnected>>

(* Mutant of PostNextRecv: one packet per receive.                         *)
PostNextRecvEarly(t) ==
  /\ io[t].pc = "assemble"
  /\ \E posts \in BOOLEAN : DoRecv(io[t].found, posts)
  /\ io' = [io EXCEPT ![t].pc = "free"]
  /\ UNCHANGED <<accepted, acceptAt, keys, port, stream, sessionMap, disconnected>>

(* ... then the next receive is posted and the reference of this one       *)
(* dropped.                                                                *)
PostNextRecv(t) ==
  /\ io[t].pc = "assemble"
  /\ ~Remains(read[io[t].found], written[io[t].found])
  /\ \E posts \in BOOLEAN : DoRecv(io[t].found, posts)
  /\ io' = [io EXCEPT ![t].pc = "free"]
  /\ UNCHANGED <<accepted, acceptAt, keys, port, stream, sessionMap, disconnected>>

(* At the top of the loop the key goes back to the pool, while the socket  *)
(* goes on carrying it.                                                    *)
FreeKey(t) ==
  /\ io[t].pc = "free"
  /\ pooled' = [pooled EXCEPT ![io[t].k] = @ + 1]
  /\ io' = [io EXCEPT ![t] = Waiting]
  /\ UNCHANGED <<accepted, acceptAt, key, keyOf, keyShared, posted, port, stream,
                 ioCount, sessions>>

----------------------------------------------------------------------------
(* The release thread: a queued session that is still in the map is erased *)
(* and its socket closed.                                                  *)
EraseSession(s) ==
  /\ s \in releaseQueue
  /\ releaseQueue' = releaseQueue \ {s}
  /\ sessionMap' = sessionMap \ {s}
  /\ disconnected' = disconnected \cup ({s} \cap sessionMap)
  /\ UNCHANGED <<accepted, acceptAt, keys, posted, port, stream, ioCount, io>>

AcceptStep == InsertSession \/ FirstRecv

IoStep(t) ==
  \/ FindSession(t) \/ DropReference(t) \/ NotItsOverlapped(t)
  \/ OnRecvIoCompleted(t) \/ MakePacket(t) \/ PacketFails(t) \/ PostNextRecv(t)
  \/ FreeKey(t)

TakeStep == \E t \in IoThreads, s \in Sessions : TakeCompletion(t, s)

Next ==
  \/ \E k \in Keys : AcceptConnection(k)
  \/ AcceptStep
  \/ \E s \in Sessions : \E n \in 1 .. StreamEnd(s) : Receive(s, n)
  \/ \E s \in Sessions : EndReceive(s)
  \/ TakeStep
  \/ \E t \in IoThreads : IoStep(t)
  \/ \E s \in Sessions : EraseSession(s)

Spec == Init /\ [][Next]_vars

----------------------------------------------------------------------------
(* The references of a session: the accept thread, the kernel, the port or  *)
(* an IO thread has its receive.                                           *)
Pending(s) == accepted = s /\ acceptAt # "accept"
Holds(t, s) == io[t].s = s /\ io[t].pc \in {"find", "complete", "assemble"}

References(s) ==
  (IF Pending(s) THEN 1 ELSE 0)
  + Cardinality({s} \cap posted)
  + (IF port[s] # NoResult THEN 1 ELSE 0)
  + Cardinality({t \in IoThreads : Holds(t, s)})

Referenced(s) ==
  \/ Pending(s) \/ s \in posted \/ port[s] # NoResult
  \/ \E t \in IoThreads : Holds(t, s)

Places == [pc : {"wait", "find", "complete", "assemble", "free"},
           s : Sessions \cup {None}, k : Keys \cup {NoKey},
           n : {NoResult} \cup Nat, found : Sessions \cup {None}]

IoTypeOK ==
  /\ accepted \in 0 .. MaxSessions
  /\ acceptAt \in {"accept", "key", "recv"}
  /\ acceptAt # "accept" => accepted \in Sessions
  /\ key \in [Keys -> [sessionId : Sessions \cup {None}, threadId : Nat]]
  /\ pooled \in [Keys -> Nat]
  /\ keyOf \in [Sessions -> Keys \cup {NoKey}]
  /\ \A s \in 1 .. accepted : keyOf[s] \in Keys
  /\ posted \cup sessionMap \cup releaseQueue \cup disconnected \subseteq 1 .. accepted
  /\ sessionMap \cap disconnected = {}
  /\ acceptAt = "key" => accepted \notin sessionMap \cup disconnected
  /\ port \in [Sessions -> {NoResult} \cup Nat]
  /\ arrived \in [Sessions -> Nat]
  /\ written \in [Sessions -> Nat]
  /\ read \in [Sessions -> Nat]
  /\ storeQueue \in [Sessions -> Seq(Nat)]
  /\ ioCount \in [Sessions -> Int]
  /\ io \in [IoThreads -> Places]
  /\ keyShared \in BOOLEAN
  /\ cut \in [Sessions -> BOOLEAN]

(* A session has at most one reference at a time; an IO thread has the key *)
(* of the socket whose receive it took, and assembles for that socket.     *)
OneReference ==
  /\ \A s \in Sessions :
       /\ Pending(s) => s \notin posted
       /\ Pending(s) \/ s \in posted => port[s] = NoResult
       /\ \A t \in IoThreads :
            Holds(t, s) => ~Pending(s) /\ s \notin posted /\ port[s] = NoResult
       /\ \A t, u \in IoThreads : Holds(t, s) /\ Holds(u, s) => t = u
       /\ port[s] # NoResult => s <= accepted
  /\ \A t \in IoThreads :
       /\ io[t].pc # "wait" => io[t].s \in 1 .. accepted /\ io[t].k = keyOf[io[t].s]
       /\ io[t].pc \in {"find", "complete"} => io[t].n >= 0
       /\ io[t].pc = "complete" => io[t].found \in 1 .. accepted
       /\ io[t].pc = "assemble" => io[t].found = io[t].s

(* Who holds the receive of s accounts for the bytes that have arrived.    *)
BytesInPlace ==
  /\ \A s \in Sessions :
       /\ read[s] <= written[s] /\ written[s] <= arrived[s]
       /\ s > accepted \/ Pending(s) => arrived[s] = 0
       /\ s \in posted => written[s] = arrived[s]
       /\ port[s] # NoResult => written[s] + port[s] = arrived[s]
       /\ s \in posted => written[s] - read[s] <= HeaderSize
  /\ \A t \in IoThreads :
       /\ io[t].pc \in {"find", "complete"} =>
            written[io[t].s] + io[t].n = arrived[io[t].s]
       /\ io[t].pc = "assemble" => written[io[t].s] = arrived[io[t].s]

(* Until a receive ends inside a payload, read stays at the end of a packet *)
(* and a packet is taken only when it is all there.                        *)
PacketsInPlace ==
  \A s \in Sessions : ~cut[s] =>
    /\ ~InsidePayload(arrived[s])
    /\ storeQueue[s] = [i \in 1 .. Len(storeQueue[s]) |-> i]
    /\ s > accepted \/ Referenced(s) => read[s] = Len(storeQueue[s]) * PacketSize

(* Until a key is shared, the key of a session in the map leads to it, and *)
(* the release queue has it once its only reference is gone.               *)
Tracked(s) == s \in sessionMap \/ Pending(s)

KeysInPlace ==
  keyShared \/
    /\ \A s \in 1 .. accepted :
         /\ Tracked(s) => /\ ioCount[s] = IF Referenced(s) THEN 1 ELSE 0
                          /\ s \in releaseQueue <=> ~Referenced(s)
                          /\ key[keyOf[s]].sessionId = s
         /\ s \in sessionMap => key[keyOf[s]].threadId = ThreadId(s)
         /\ ~Tracked(s) => ~Referenced(s)
    /\ \A r, s \in 1 .. accepted :
         Tracked(r) /\ Tracked(s) /\ keyOf[r] = keyOf[s] => r = s
    /\ acceptAt = "recv" => accepted \in sessionMap
    /\ \A t \in IoThreads : io[t].pc = "complete" => io[t].found = io[t].s

(* Types; a session has one reference and an account of its bytes.  The    *)
(* ring buffer never runs ahead of the stream, and whenever a receive is   *)
(* posted it holds at most a header, so there is room for more             *)
(* (ServerCore::RunIoThread, OnIoCompleted and OnRecvIoCompleted).         *)
IoInv == IoTypeOK /\ OneReference /\ BytesInPlace /\ PacketsInPlace /\ KeysInPlace

(* A session takes bytes of its own connection only, and each once, whatever *)
(* session a shared completion key leads to (the OVERLAPPED check of       *)
(* ServerCore::OnIoCompleted).                                             *)
BytesStayWithTheirSession ==
  \A s \in Sessions : written[s] <= arrived[s]

(* As long as no receive ends inside a payload, the mailbox holds the      *)
(* packets of the client, whole and in order, however the stream is split  *)
(* (ServerCore::OnRecvIoCompleted and RecvStreamToBuffer).                 *)
WholePacketsInOrder ==
  \A s \in Sessions :
    ~cut[s] => storeQueue[s] = [i \in 1 .. Len(storeQueue[s]) |-> i]

(* As long as no slot of the key pool serves two sessions of the map,      *)
(* every completion drops the reference of its own session: ioCount is     *)
(* exact, and a session without references is queued for its release       *)
(* (RunIoThread gives a key back after its first completion).              *)
CountExactUntilKeyShared ==
  keyShared \/ \A s \in sessionMap :
                 /\ ioCount[s] = References(s)
                 /\ ioCount[s] = 0 => s \in releaseQueue
============================================================================
