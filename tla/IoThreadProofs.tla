--------------------------- MODULE IoThreadProofs ---------------------------
(***************************************************************************)
(* Proofs about IoThread, for any number of IO threads, keys, sessions and *)
(* packets of any size: its invariant, whose bytes a session takes, what   *)
(* its mailbox holds, and when its reference count is exact.               *)
(***************************************************************************)
EXTENDS IoThread, QueueLemmas, FiniteSetTheorems

LEMMA SizesAreNumbers ==
  /\ HeaderSize \in Nat \ {0} /\ PacketSize \in Nat \ {0} /\ HeaderSize < PacketSize
  /\ MaxSessions \in Nat \ {0} /\ Sessions \subseteq Nat \ {0} /\ None \notin Sessions
  /\ NoResult \notin Nat /\ NoResult < 0
  /\ NoKey \notin Keys
BY IoAssumption DEF PacketSize, Sessions, None, NoResult

LEMMA ThreadIdIsNumber == \A s \in Sessions : ThreadId(s) \in Nat
<1> SUFFICES ASSUME NEW s \in Sessions PROVE s % NumOfLogicThread \in Nat
  BY DEF ThreadId
<1> QED
  BY IoAssumption, SizesAreNumbers, SplitOffset

(* An IO thread goes on with the receive it has, or lets go of it.         *)
LEMMA PcTo ==
  ASSUME IoInv, NEW t \in IoThreads,
         NEW pc \in {"wait", "find", "complete", "assemble", "free"},
         io' = [io EXCEPT ![t].pc = pc]
  PROVE  /\ io' \in [IoThreads -> Places]
         /\ io'[t].pc = pc /\ io'[t].s = io[t].s /\ io'[t].k = io[t].k
         /\ io'[t].n = io[t].n /\ io'[t].found = io[t].found
         /\ \A u \in IoThreads \ {t} : io'[u] = io[u]
BY DEF IoInv, IoTypeOK, Places

LEMMA AcceptedAreSessions ==
  IoInv => accepted \in Nat /\ 1 .. accepted \subseteq Sessions
<1> SUFFICES ASSUME IoInv PROVE accepted \in Nat /\ 1 .. accepted \subseteq Sessions
  OBVIOUS
<1>1. accepted \in 0 .. MaxSessions
  BY DEF IoInv, IoTypeOK
<1> QED
  BY <1>1, SizesAreNumbers DEF Sessions

(* What an IO thread has.                                                  *)
LEMMA Holder ==
  ASSUME IoInv, NEW t \in IoThreads, io[t].pc # "wait"
  PROVE  /\ io[t].s \in 1 .. accepted /\ io[t].s \in Sessions
         /\ io[t].k = keyOf[io[t].s] /\ io[t].k \in Keys
         /\ io[t].pc # "free" => Holds(t, io[t].s)
         /\ io[t].pc = "complete" => io[t].found \in 1 .. accepted
         /\ io[t].pc = "assemble" => io[t].found = io[t].s
<1>1. io[t].s \in 1 .. accepted /\ accepted \in 0 .. MaxSessions
  BY DEF IoInv, IoTypeOK, OneReference
<1>2. io[t].s \in Sessions
  BY <1>1, SizesAreNumbers DEF Sessions
<1>3. io[t].pc \in {"wait", "find", "complete", "assemble", "free"}
  BY DEF IoInv, IoTypeOK, Places
<1> QED
  BY <1>1, <1>2, <1>3 DEF IoInv, IoTypeOK, OneReference, Holds

(* Who holds what after an IO thread has let go of its receive.            *)
LEMMA LetGo ==
  ASSUME IoInv, NEW t \in IoThreads, io' = [io EXCEPT ![t].pc = "free"],
         NEW s \in Sessions, Holds(t, s)
  PROVE  /\ s = io[t].s /\ s \in 1 .. accepted
         /\ ~Pending(s) /\ s \notin posted /\ port[s] = NoResult
         /\ \A u \in IoThreads, r \in Sessions : Holds(u, r)' <=> u # t /\ Holds(u, r)
         /\ \A u \in IoThreads : ~Holds(u, s)'
         /\ \A r \in Sessions \ {s} : ~Holds(t, r)
<1>1. \A u \in IoThreads, r \in Sessions : Holds(u, r)' <=> u # t /\ Holds(u, r)
  BY PcTo DEF Holds
<1>2. /\ ~Pending(s) /\ s \notin posted /\ port[s] = NoResult
      /\ \A u \in IoThreads : Holds(u, s) => u = t
      /\ s = io[t].s /\ s \in 1 .. accepted
  BY DEF IoInv, OneReference, Holds
<1> QED
  BY <1>1, <1>2 DEF Holds

(* What a session is owed depends on these alone.                          *)
LEMMA KeysUnchanged ==
  ASSUME KeysInPlace,
         UNCHANGED <<accepted, acceptAt, keyShared, key, keyOf, ioCount, sessionMap,
                     releaseQueue>>,
         \A s \in 1 .. accepted : Referenced(s)' <=> Referenced(s),
         \A t \in IoThreads :
           io'[t].pc = "complete" =>
             io'[t].found = io'[t].s \/ (io[t].pc = "complete" /\ io'[t] = io[t])
  PROVE  KeysInPlace'
BY DEF KeysInPlace, Tracked, Pending

LEMMA IoInitInv == Init => IoInv
<1> SUFFICES ASSUME Init PROVE IoInv
  OBVIOUS
<1>0. /\ \A t \in IoThreads : io[t].pc = "wait"
      /\ \A t \in IoThreads, s \in Sessions : ~Holds(t, s)
      /\ \A s \in Sessions : ~Pending(s) /\ s \notin posted /\ port[s] = NoResult
  BY DEF Init, Waiting, Holds, Pending
<1>1. IoTypeOK
  <2>1. << >> \in Seq(Nat) /\ Waiting \in Places
    BY DEF Waiting, Places
  <2>2. /\ storeQueue \in [Sessions -> Seq(Nat)] /\ io \in [IoThreads -> Places]
        /\ key \in [Keys -> [sessionId : Sessions \cup {None}, threadId : Nat]]
    BY <2>1 DEF Init
  <2>3. /\ pooled \in [Keys -> Nat] /\ keyOf \in [Sessions -> Keys \cup {NoKey}]
        /\ port \in [Sessions -> {NoResult} \cup Nat] /\ ioCount \in [Sessions -> Int]
        /\ arrived \in [Sessions -> Nat] /\ written \in [Sessions -> Nat]
        /\ read \in [Sessions -> Nat] /\ cut \in [Sessions -> BOOLEAN]
    BY DEF Init
  <2>4. accepted \in 0 .. MaxSessions /\ 1 .. accepted = {}
    BY SizesAreNumbers DEF Init
  <2> QED
    BY <2>2, <2>3, <2>4 DEF Init, IoTypeOK
<1>2. OneReference
  BY <1>0 DEF OneReference
<1>3. BytesInPlace
  BY <1>0 DEF Init, BytesInPlace
<1>4. PacketsInPlace
  <2>1. Len(<< >>) = 0 /\ << >> = [i \in 1 .. 0 |-> i] /\ 0 * PacketSize = 0
    BY SizesAreNumbers, EndOfPacket
  <2>2. ~InsidePayload(0)
    BY SizesAreNumbers, EndOfPacket, <2>1 DEF InsidePayload
  <2> QED
    BY <2>1, <2>2 DEF Init, PacketsInPlace
<1>5. KeysInPlace
  BY <1>0 DEF Init, KeysInPlace, Tracked
<1> QED
  BY <1>1, <1>2, <1>3, <1>4, <1>5 DEF IoInv

(* The accept thread.                                                      *)
LEMMA AcceptConnectionInv ==
  ASSUME IoInv, NEW k \in Keys, AcceptConnection(k)
  PROVE  IoInv'
<1> PICK new \in Sessions : new = accepted + 1
  BY DEF AcceptConnection
<1>0. /\ new \in Sessions /\ new = accepted + 1
      /\ accepted \in Nat /\ new \in Nat \ {0}
      /\ acceptAt = "accept" /\ accepted' = new /\ acceptAt' = "key"
      /\ 1 .. new = (1 .. accepted) \cup {new} /\ new \notin 1 .. accepted
      /\ UNCHANGED <<posted, port, stream, sessions, io>>
  BY SizesAreNumbers DEF IoInv, IoTypeOK, AcceptConnection
<1>1. /\ new \notin posted \cup sessionMap \cup releaseQueue \cup disconnected
      /\ port[new] = NoResult /\ \A t \in IoThreads : ~Holds(t, new)
      /\ arrived[new] = 0 /\ written[new] = 0
  <2>1. \A t \in IoThreads : ~Holds(t, new)
    BY <1>0 DEF IoInv, OneReference, Holds
  <2>2. port[new] = NoResult /\ new > accepted
    BY <1>0 DEF IoInv, OneReference
  <2>3. arrived[new] = 0 /\ written[new] = 0
    BY <1>0, <2>2 DEF IoInv, IoTypeOK, BytesInPlace
  <2> QED
    BY <1>0, <2>1, <2>2, <2>3 DEF IoInv, IoTypeOK
<1>2. \A s \in Sessions : /\ ~Pending(s) /\ (Pending(s)' <=> s = new)
                          /\ \A t \in IoThreads : Holds(t, s)' <=> Holds(t, s)
                          /\ s # new => (Referenced(s)' <=> Referenced(s))
                          /\ s > new => s > accepted
  <2> SUFFICES ASSUME NEW s \in Sessions
               PROVE  /\ ~Pending(s) /\ (Pending(s)' <=> s = new)
                      /\ \A t \in IoThreads : Holds(t, s)' <=> Holds(t, s)
                      /\ s # new => (Referenced(s)' <=> Referenced(s))
                      /\ s > new => s > accepted
    OBVIOUS
  <2>1. ~Pending(s) /\ (Pending(s)' <=> s = new)
    BY <1>0 DEF Pending
  <2>2. \A t \in IoThreads : Holds(t, s)' <=> Holds(t, s)
    BY <1>0 DEF Holds
  <2>3. s # new => (Referenced(s)' <=> Referenced(s))
    BY <1>0, <2>1, <2>2 DEF Referenced
  <2>4. s > new => s > accepted
    BY <1>0, SizesAreNumbers
  <2> QED
    BY <2>1, <2>2, <2>3, <2>4
<1>3. IoTypeOK'
  <2>1. key' \in [Keys -> [sessionId : Sessions \cup {None}, threadId : Nat]]
    <3>1. key' = [key EXCEPT ![k].sessionId = new]
      BY <1>0 DEF AcceptConnection
    <3>2. key \in [Keys -> [sessionId : Sessions \cup {None}, threadId : Nat]]
      BY DEF IoInv, IoTypeOK
    <3> QED
      BY <3>1, <3>2
  <2>2. pooled' \in [Keys -> Nat] /\ ioCount' \in [Sessions -> Int]
        /\ keyOf' = [keyOf EXCEPT ![new] = k]
    BY <1>0 DEF IoInv, IoTypeOK, AcceptConnection
  <2>3. /\ accepted' \in 0 .. MaxSessions /\ accepted' \in Sessions
        /\ pooled' \in [Keys -> Nat] /\ ioCount' \in [Sessions -> Int]
        /\ keyShared' \in BOOLEAN
    BY <1>0, <2>2, SizesAreNumbers DEF IoInv, IoTypeOK, AcceptConnection, Sessions
  <2>4. keyOf' \in [Sessions -> Keys \cup {NoKey}] /\ \A s \in 1 .. new : keyOf'[s] \in Keys
    <3>1. keyOf \in [Sessions -> Keys \cup {NoKey}] /\ \A s \in 1 .. accepted : keyOf[s] \in Keys
      BY DEF IoInv, IoTypeOK
    <3>2. \A s \in 1 .. new : s \in Sessions /\ (s = new \/ s \in 1 .. accepted)
      BY <1>0, SizesAreNumbers DEF IoInv, IoTypeOK, Sessions
    <3> QED
      BY <1>0, <2>2, <3>1, <3>2
  <2>5. /\ (posted \cup sessionMap \cup releaseQueue \cup disconnected)' \subseteq 1 .. new
        /\ sessionMap' \cap disconnected' = {}
        /\ new \notin sessionMap' \cup disconnected'
    BY <1>0, <1>1 DEF IoInv, IoTypeOK, sessions
  <2>6. /\ port' \in [Sessions -> {NoResult} \cup Nat]
        /\ arrived' \in [Sessions -> Nat] /\ written' \in [Sessions -> Nat]
        /\ read' \in [Sessions -> Nat] /\ storeQueue' \in [Sessions -> Seq(Nat)]
        /\ io' \in [IoThreads -> Places] /\ cut' \in [Sessions -> BOOLEAN]
    BY <1>0 DEF IoInv, IoTypeOK, stream
  <2> QED
    BY <1>0, <2>1, <2>3, <2>4, <2>5, <2>6 DEF IoTypeOK
<1>4. OneReference'
  <2>1. \A s \in 1 .. accepted : keyOf'[s] = keyOf[s]
    BY <1>0, SizesAreNumbers DEF IoInv, IoTypeOK, AcceptConnection, Sessions
  <2> QED
    BY <1>0, <1>1, <1>2, <2>1, SizesAreNumbers DEF IoInv, OneReference
<1>5. BytesInPlace'
  BY <1>0, <1>1, <1>2 DEF IoInv, BytesInPlace, stream
<1>6. PacketsInPlace'
  <2>1. \A s \in Sessions : s > new \/ Referenced(s)' => s > accepted \/ Referenced(s)
    BY <1>0, <1>2, SizesAreNumbers
  <2> QED
    BY <1>0, <2>1 DEF IoInv, PacketsInPlace, InsidePayload, stream
<1>7. KeysInPlace'
  <2> SUFFICES ASSUME ~keyShared' PROVE KeysInPlace'
    BY DEF KeysInPlace
  <2>1. ~keyShared /\ \A s \in sessionMap : keyOf[s] # k
    BY DEF AcceptConnection
  <2>2. /\ keyOf' = [keyOf EXCEPT ![new] = k]
        /\ key' = [key EXCEPT ![k].sessionId = new]
        /\ ioCount' = [ioCount EXCEPT ![new] = 1]
    BY <1>0 DEF AcceptConnection
  <2>3. /\ \A s \in 1 .. accepted : s # new /\ s \in Sessions /\ keyOf'[s] = keyOf[s]
                                    /\ ioCount'[s] = ioCount[s]
        /\ keyOf'[new] = k /\ ioCount'[new] = 1 /\ key'[k].sessionId = new
        /\ \A l \in Keys \ {k} : key'[l] = key[l]
    <3>1. \A s \in 1 .. accepted : s # new /\ s \in Sessions
      BY <1>0, SizesAreNumbers DEF IoInv, IoTypeOK, Sessions
    <3>2. keyOf'[new] = k /\ \A s \in Sessions : s # new => keyOf'[s] = keyOf[s]
      BY <1>0, <2>2 DEF IoInv, IoTypeOK
    <3>3. ioCount'[new] = 1 /\ \A s \in Sessions : s # new => ioCount'[s] = ioCount[s]
      BY <1>0, <2>2 DEF IoInv, IoTypeOK
    <3>4. key'[k].sessionId = new /\ \A l \in Keys \ {k} : key'[l] = key[l]
      BY <2>2 DEF IoInv, IoTypeOK
    <3> QED
      BY <3>1, <3>2, <3>3, <3>4
  <2>4. \A s \in 1 .. accepted : Tracked(s)' <=> s \in sessionMap /\ Tracked(s)
    BY <1>0, <1>2, <2>3 DEF Tracked, sessions
  <2>5. Tracked(new)' /\ Referenced(new)'
    <3>1. Pending(new)'
      BY <1>0, <1>2
    <3> QED
      BY <3>1 DEF Tracked, Referenced
  <2>6. \A s \in 1 .. accepted : keyOf[s] \in Keys
    BY DEF IoInv, IoTypeOK
  <2>7. ASSUME NEW s \in 1 .. new
        PROVE  /\ Tracked(s)' => /\ ioCount'[s] = IF Referenced(s)' THEN 1 ELSE 0
                                 /\ s \in releaseQueue' <=> ~Referenced(s)'
                                 /\ key'[keyOf'[s]].sessionId = s
               /\ s \in sessionMap' => key'[keyOf'[s]].threadId = ThreadId(s)
               /\ ~Tracked(s)' => ~Referenced(s)'
    <3>1. CASE s = new
      BY <1>0, <1>1, <2>3, <2>5, <3>1 DEF sessions
    <3>2. CASE s \in 1 .. accepted
      <4>1. Referenced(s)' <=> Referenced(s)
        BY <1>2, <2>3, <3>2
      <4>2. Tracked(s) <=> s \in sessionMap
        BY <1>2, <2>3, <3>2 DEF Tracked
      <4> QED
        BY <1>0, <2>1, <2>3, <2>4, <2>6, <3>2, <4>1, <4>2 DEF IoInv, KeysInPlace, sessions
    <3> QED
      BY <1>0, <3>1, <3>2
  <2>8. ASSUME NEW r \in 1 .. new, NEW s \in 1 .. new, Tracked(r)', Tracked(s)',
               keyOf'[r] = keyOf'[s]
        PROVE  r = s
    <3>1. \A q \in 1 .. new : q = new \/ (q \in 1 .. accepted /\ q # new)
      BY <1>0
    <3> QED
      BY <2>1, <2>3, <2>4, <2>8, <3>1 DEF IoInv, KeysInPlace
  <2> QED
    BY <1>0, <2>1, <2>7, <2>8 DEF IoInv, KeysInPlace
<1> QED
  BY <1>3, <1>4, <1>5, <1>6, <1>7 DEF IoInv

LEMMA InsertSessionInv ==
  ASSUME IoInv, InsertSession
  PROVE  IoInv'
<1>0. /\ acceptAt = "key" /\ acceptAt' = "recv" /\ accepted \in Sessions
      /\ accepted \in 1 .. accepted
      /\ accepted \notin sessionMap \cup disconnected
      /\ sessionMap' = sessionMap \cup {accepted}
      /\ key' = [key EXCEPT ![keyOf[accepted]].threadId = ThreadId(accepted)]
      /\ UNCHANGED <<accepted, pooled, keyOf, keyShared, posted, port, stream,
                     ioCount, releaseQueue, disconnected, io>>
  BY SizesAreNumbers DEF IoInv, IoTypeOK, InsertSession
<1>1. \A s \in Sessions : /\ Pending(s)' <=> Pending(s)
                          /\ \A t \in IoThreads : Holds(t, s)' <=> Holds(t, s)
                          /\ Referenced(s)' <=> Referenced(s)
  BY <1>0 DEF Pending, Holds, Referenced
<1>2. IoTypeOK'
  <2>1. key' \in [Keys -> [sessionId : Sessions \cup {None}, threadId : Nat]]
    BY <1>0, ThreadIdIsNumber DEF IoInv, IoTypeOK
  <2>2. /\ posted \cup sessionMap' \cup releaseQueue \cup disconnected \subseteq 1 .. accepted
        /\ sessionMap' \cap disconnected = {}
    BY <1>0 DEF IoInv, IoTypeOK
  <2> QED
    BY <1>0, <2>1, <2>2 DEF IoInv, IoTypeOK, stream
<1>3. OneReference'
  BY <1>0, <1>1 DEF IoInv, OneReference
<1>4. BytesInPlace'
  BY <1>0, <1>1 DEF IoInv, BytesInPlace, stream
<1>5. PacketsInPlace'
  BY <1>0, <1>1 DEF IoInv, PacketsInPlace, InsidePayload, stream
<1>6. KeysInPlace'
  <2> SUFFICES ASSUME ~keyShared PROVE KeysInPlace'
    BY <1>0 DEF KeysInPlace
  <2>1. Tracked(accepted) /\ \A s \in 1 .. accepted : Tracked(s)' <=> Tracked(s)
    BY <1>0, <1>1, SizesAreNumbers DEF Tracked, Pending
  <2>2. /\ \A l \in Keys : key'[l].sessionId = key[l].sessionId
        /\ \A l \in Keys \ {keyOf[accepted]} : key'[l] = key[l]
        /\ key'[keyOf[accepted]].threadId = ThreadId(accepted)
    BY <1>0 DEF IoInv, IoTypeOK
  <2>3. \A s \in 1 .. accepted : keyOf[s] \in Keys /\ s \in Sessions
    BY <1>0, SizesAreNumbers DEF IoInv, IoTypeOK, Sessions
  <2>4. \A s \in sessionMap : s \in 1 .. accepted /\ keyOf[s] # keyOf[accepted]
    BY <1>0, <2>1 DEF IoInv, IoTypeOK, KeysInPlace, Tracked
  <2> QED
    BY <1>0, <1>1, <2>1, <2>2, <2>3, <2>4 DEF IoInv, KeysInPlace
<1> QED
  BY <1>2, <1>3, <1>4, <1>5, <1>6 DEF IoInv

(* DecreaseIOCount after DoRecv: where the key is not shared, the count    *)
(* follows the one reference of the session, which goes or is passed on.   *)
LEMMA CountFollows ==
  ASSUME IoInv, NEW s \in 1 .. accepted, NEW posts \in BOOLEAN,
         DecreaseIOCount(s, IF posts THEN 1 ELSE 0),
         UNCHANGED <<accepted, keyShared, key, keyOf, sessionMap>>,
         acceptAt' = acceptAt \/ acceptAt' = "accept",
         keyShared \/ Referenced(s),
         keyShared \/ (Referenced(s)' <=> posts),
         \A r \in 1 .. accepted : keyShared \/ (Tracked(r)' <=> Tracked(r)),
         \A r \in 1 .. accepted :
           r # s => keyShared \/ (Referenced(r)' <=> Referenced(r)),
         \A t \in IoThreads : io'[t].pc = "complete" => io'[t] = io[t]
  PROVE  /\ KeysInPlace'
         /\ ioCount' \in [Sessions -> Int]
         /\ releaseQueue' \subseteq 1 .. accepted
<1>0. /\ 1 .. accepted \subseteq Sessions
      /\ ioCount \in [Sessions -> Int] /\ releaseQueue \subseteq 1 .. accepted
  <2>1. ioCount \in [Sessions -> Int] /\ releaseQueue \subseteq 1 .. accepted
    BY DEF IoInv, IoTypeOK
  <2> QED
    BY <2>1, AcceptedAreSessions
<1>1. /\ ioCount' \in [Sessions -> Int]
      /\ ioCount'[s] = ioCount[s] + (IF posts THEN 1 ELSE 0) - 1
      /\ \A r \in Sessions \ {s} : ioCount'[r] = ioCount[r]
      /\ releaseQueue' = IF ioCount[s] + (IF posts THEN 1 ELSE 0) = 1
                         THEN releaseQueue \cup {s} ELSE releaseQueue
  BY <1>0 DEF DecreaseIOCount
<1>2. KeysInPlace'
  <2> SUFFICES ASSUME ~keyShared PROVE KeysInPlace'
    BY DEF KeysInPlace
  <2>1. Tracked(s)
    BY DEF IoInv, KeysInPlace
  <2>2. ioCount[s] = 1 /\ s \notin releaseQueue
    BY <2>1 DEF IoInv, KeysInPlace
  <2>3. /\ ioCount'[s] = (IF Referenced(s)' THEN 1 ELSE 0)
        /\ s \in releaseQueue' <=> ~Referenced(s)'
        /\ \A r \in 1 .. accepted : r # s => (r \in releaseQueue' <=> r \in releaseQueue)
    BY <1>1, <2>2
  <2>4. ASSUME NEW r \in 1 .. accepted
        PROVE  /\ Tracked(r)' => /\ ioCount'[r] = IF Referenced(r)' THEN 1 ELSE 0
                                 /\ r \in releaseQueue' <=> ~Referenced(r)'
                                 /\ key[keyOf[r]].sessionId = r
               /\ ~Tracked(r)' => ~Referenced(r)'
    <3>1. CASE r = s
      BY <2>1, <2>3, <3>1 DEF IoInv, KeysInPlace
    <3>2. CASE r # s
      BY <1>0, <1>1, <2>3, <3>2 DEF IoInv, KeysInPlace
    <3> QED
      BY <3>1, <3>2
  <2> QED
    BY <2>4 DEF IoInv, KeysInPlace
<1> QED
  BY <1>0, <1>1, <1>2

LEMMA FirstRecvInv ==
  ASSUME IoInv, FirstRecv
  PROVE  IoInv'
<1> PICK posts \in BOOLEAN : DoRecv(accepted, posts)
  BY DEF FirstRecv
<1>0. /\ acceptAt = "recv" /\ acceptAt' = "accept" /\ accepted \in Sessions
      /\ accepted \in 1 .. accepted /\ accepted \in Nat
      /\ posted' = IF posts THEN posted \cup {accepted} ELSE posted
      /\ DecreaseIOCount(accepted, IF posts THEN 1 ELSE 0)
      /\ UNCHANGED <<accepted, keys, port, stream, sessionMap, disconnected, io>>
  <2>1. accepted \in Sessions /\ accepted \in Nat
    BY SizesAreNumbers DEF IoInv, IoTypeOK, FirstRecv
  <2>2. accepted \in 1 .. accepted
    BY <2>1, SizesAreNumbers
  <2> QED
    BY <2>1, <2>2 DEF FirstRecv, DoRecv
<1>1. /\ \A s \in Sessions : ~Pending(s)' /\ (Pending(s) <=> s = accepted)
      /\ \A t \in IoThreads, s \in Sessions : Holds(t, s)' <=> Holds(t, s)
  BY <1>0 DEF Pending, Holds
<1>2. \A s \in Sessions \ {accepted} : Referenced(s)' <=> Referenced(s)
  <2> SUFFICES ASSUME NEW s \in Sessions \ {accepted}
               PROVE  Referenced(s)' <=> Referenced(s)
    OBVIOUS
  <2> QED
    BY <1>0, <1>1 DEF Referenced
<1>3. /\ accepted \notin posted /\ port[accepted] = NoResult
      /\ \A t \in IoThreads : ~Holds(t, accepted)
  BY <1>0, <1>1 DEF IoInv, OneReference
<1>4. Referenced(accepted) /\ (Referenced(accepted)' <=> posts)
  BY <1>0, <1>1, <1>3 DEF Referenced
<1>5. KeysInPlace' /\ ioCount' \in [Sessions -> Int] /\ releaseQueue' \subseteq 1 .. accepted
  <2>1. \A r \in 1 .. accepted : keyShared \/ (Tracked(r)' <=> Tracked(r))
    BY <1>0, <1>1, SizesAreNumbers DEF IoInv, IoTypeOK, KeysInPlace, Tracked, Sessions
  <2>2. \A r \in 1 .. accepted : r \in Sessions
    BY <1>0, SizesAreNumbers DEF Sessions
  <2> QED
    BY <1>0, <1>2, <1>4, <2>1, <2>2, CountFollows DEF IoInv, OneReference, keys
<1>6. IoTypeOK'
  BY <1>0, <1>5 DEF IoInv, IoTypeOK, keys, stream
<1>7. OneReference'
  BY <1>0, <1>1, <1>3 DEF IoInv, OneReference, keys
<1>8. BytesInPlace'
  <2>1. arrived[accepted] = 0 /\ written[accepted] = 0 /\ read[accepted] = 0
    BY <1>0, <1>1 DEF IoInv, IoTypeOK, BytesInPlace
  <2> QED
    BY <1>0, <1>1, <2>1, SizesAreNumbers DEF IoInv, BytesInPlace, stream
<1>9. PacketsInPlace'
  BY <1>0, <1>2, <1>4 DEF IoInv, PacketsInPlace, InsidePayload, stream
<1> QED
  BY <1>5, <1>6, <1>7, <1>8, <1>9 DEF IoInv

(* The kernel.                                                             *)
LEMMA ReceiveInv ==
  ASSUME IoInv, NEW s \in Sessions, NEW n \in 1 .. StreamEnd(s), Receive(s, n)
  PROVE  IoInv'
<1>0. /\ s \in posted /\ posted' = posted \ {s} /\ n \in Nat \ {0}
      /\ port' = [port EXCEPT ![s] = n]
      /\ arrived' = [arrived EXCEPT ![s] = @ + n]
      /\ cut' = [cut EXCEPT ![s] = @ \/ InsidePayload(arrived'[s])]
      /\ UNCHANGED <<accepted, acceptAt, keys, written, read, storeQueue, ioCount,
                     sessions, io>>
  BY DEF Receive
<1>1. /\ s <= accepted /\ port[s] = NoResult /\ ~Pending(s)
      /\ \A t \in IoThreads : ~Holds(t, s)
      /\ port'[s] = n /\ arrived'[s] = arrived[s] + n
      /\ \A r \in Sessions \ {s} : /\ port'[r] = port[r] /\ arrived'[r] = arrived[r]
                                   /\ cut'[r] = cut[r]
      /\ cut'[s] = (cut[s] \/ InsidePayload(arrived'[s]))
      /\ arrived[s] \in Nat /\ n # NoResult
  BY <1>0, SizesAreNumbers DEF IoInv, IoTypeOK, OneReference
<1>2. /\ \A r \in Sessions : Pending(r)' <=> Pending(r)
      /\ \A t \in IoThreads, r \in Sessions : Holds(t, r)' <=> Holds(t, r)
  BY <1>0 DEF Pending, Holds
<1>3. \A r \in Sessions : Referenced(r)' <=> Referenced(r)
  <2> SUFFICES ASSUME NEW r \in Sessions
               PROVE  Referenced(r)' <=> Referenced(r)
    OBVIOUS
  <2>1. CASE r = s
    BY <1>0, <1>1, <2>1 DEF Referenced
  <2>2. CASE r # s
    BY <1>0, <1>1, <1>2, <2>2 DEF Referenced
  <2> QED
    BY <2>1, <2>2
<1>4. IoTypeOK'
  <2>1. /\ port' \in [Sessions -> {NoResult} \cup Nat] /\ arrived' \in [Sessions -> Nat]
        /\ cut' \in [Sessions -> BOOLEAN]
    BY <1>0 DEF IoInv, IoTypeOK, InsidePayload
  <2> QED
    BY <1>0, <2>1 DEF IoInv, IoTypeOK, keys, sessions
<1>5. OneReference'
  BY <1>0, <1>1, <1>2 DEF IoInv, OneReference, keys
<1>6. BytesInPlace'
  <2>1. written[s] = arrived[s] /\ read[s] \in Nat /\ written[s] \in Nat
    BY <1>0, <1>1 DEF IoInv, IoTypeOK, BytesInPlace
  <2>2. ASSUME NEW t \in IoThreads, io[t].pc \in {"find", "complete", "assemble"}
        PROVE  arrived'[io[t].s] = arrived[io[t].s]
    <3>1. io[t].s \in Sessions /\ Holds(t, io[t].s)
      BY <2>2, Holder
    <3> QED
      BY <1>1, <3>1
  <2>3. ASSUME NEW r \in Sessions
        PROVE  /\ read[r] <= written[r] /\ written[r] <= arrived'[r]
               /\ r > accepted \/ Pending(r) => arrived'[r] = 0
               /\ r \in posted' => written[r] = arrived'[r]
               /\ port'[r] # NoResult => written[r] + port'[r] = arrived'[r]
               /\ r \in posted' => written[r] - read[r] <= HeaderSize
    <3>1. CASE r = s
      BY <1>0, <1>1, <2>1, <3>1, SizesAreNumbers DEF IoInv, IoTypeOK, BytesInPlace
    <3>2. CASE r # s
      BY <1>0, <1>1, <3>2 DEF IoInv, BytesInPlace
    <3> QED
      BY <3>1, <3>2
  <2> QED
    BY <1>0, <1>2, <2>2, <2>3 DEF IoInv, BytesInPlace
<1>7. PacketsInPlace'
  <2>1. \A r \in Sessions : ~cut'[r] => ~cut[r] /\ ~InsidePayload(arrived'[r])
    BY <1>1 DEF IoInv, PacketsInPlace
  <2>2. \A r \in Sessions : InsidePayload(arrived[r])' <=> InsidePayload(arrived'[r])
    BY DEF InsidePayload
  <2> QED
    BY <1>0, <1>3, <2>1, <2>2 DEF IoInv, PacketsInPlace
<1>8. KeysInPlace'
  <2>1. \A r \in 1 .. accepted : r \in Sessions
    BY AcceptedAreSessions
  <2> QED
    BY <1>0, <1>3, <2>1, KeysUnchanged DEF IoInv, keys, sessions
<1> QED
  BY <1>4, <1>5, <1>6, <1>7, <1>8 DEF IoInv

LEMMA EndReceiveInv ==
  ASSUME IoInv, NEW s \in Sessions, EndReceive(s)
  PROVE  IoInv'
<1>0. /\ s \in posted /\ posted' = posted \ {s}
      /\ port' = [port EXCEPT ![s] = Ended]
      /\ UNCHANGED <<accepted, acceptAt, keys, stream, ioCount, sessions, io>>
  BY DEF EndReceive
<1>1. /\ s <= accepted /\ port[s] = NoResult /\ ~Pending(s)
      /\ \A t \in IoThreads : ~Holds(t, s)
      /\ port'[s] = 0 /\ \A r \in Sessions \ {s} : port'[r] = port[r]
      /\ 0 # NoResult
  BY <1>0, SizesAreNumbers DEF IoInv, IoTypeOK, OneReference, Ended
<1>2. /\ \A r \in Sessions : Pending(r)' <=> Pending(r)
      /\ \A t \in IoThreads, r \in Sessions : Holds(t, r)' <=> Holds(t, r)
  BY <1>0 DEF Pending, Holds
<1>3. ASSUME NEW r \in Sessions
      PROVE  Referenced(r)' <=> Referenced(r)
  <2>1. CASE r = s
    BY <1>0, <1>1, <2>1 DEF Referenced
  <2>2. CASE r # s
    BY <1>0, <1>1, <1>2, <2>2 DEF Referenced
  <2> QED
    BY <2>1, <2>2
<1>4. IoTypeOK'
  <2>1. port' \in [Sessions -> {NoResult} \cup Nat]
    BY <1>0 DEF IoInv, IoTypeOK, Ended
  <2> QED
    BY <1>0, <2>1 DEF IoInv, IoTypeOK, keys, sessions, stream
<1>5. OneReference'
  BY <1>0, <1>1, <1>2 DEF IoInv, OneReference, keys
<1>6. BytesInPlace'
  <2>1. written[s] = arrived[s] /\ written[s] \in Nat
    BY <1>0, <1>1 DEF IoInv, IoTypeOK, BytesInPlace
  <2>2. ASSUME NEW r \in Sessions
        PROVE  /\ r \in posted' => written[r] = arrived[r]
               /\ port'[r] # NoResult => written[r] + port'[r] = arrived[r]
               /\ r \in posted' => written[r] - read[r] <= HeaderSize
    <3>1. CASE r = s
      BY <1>0, <1>1, <2>1, <3>1
    <3>2. CASE r # s
      BY <1>0, <1>1, <3>2 DEF IoInv, BytesInPlace
    <3> QED
      BY <3>1, <3>2
  <2> QED
    BY <1>0, <1>2, <2>2 DEF IoInv, BytesInPlace, stream
<1>7. PacketsInPlace'
  BY <1>0, <1>3 DEF IoInv, PacketsInPlace, InsidePayload, stream
<1>8. KeysInPlace'
  <2>1. \A r \in 1 .. accepted : r \in Sessions
    BY AcceptedAreSessions
  <2> QED
    BY <1>0, <1>3, <2>1, KeysUnchanged DEF IoInv, keys, sessions
<1> QED
  BY <1>4, <1>5, <1>6, <1>7, <1>8 DEF IoInv

(* The IO threads.                                                         *)
LEMMA TakeCompletionInv ==
  ASSUME IoInv, NEW t \in IoThreads, NEW s \in Sessions, TakeCompletion(t, s)
  PROVE  IoInv'
<1>0. /\ io[t].pc = "wait" /\ port[s] # NoResult
      /\ port' = [port EXCEPT ![s] = NoResult]
      /\ io' = [io EXCEPT ![t] = [pc |-> "find", s |-> s, k |-> keyOf[s],
                                  n |-> port[s], found |-> None]]
      /\ UNCHANGED <<accepted, acceptAt, keys, posted, stream, ioCount, sessions>>
  BY DEF TakeCompletion
<1>1. /\ s \in 1 .. accepted /\ ~Pending(s) /\ s \notin posted
      /\ \A u \in IoThreads : ~Holds(u, s)
      /\ port[s] \in Nat /\ keyOf[s] \in Keys
  <2>1. s <= accepted /\ accepted \in Nat /\ s \in Nat \ {0}
    BY <1>0, SizesAreNumbers DEF IoInv, IoTypeOK, OneReference
  <2>2. s \in 1 .. accepted
    BY <2>1
  <2>3. ~Pending(s) /\ s \notin posted /\ \A u \in IoThreads : ~Holds(u, s)
    BY <1>0 DEF IoInv, OneReference
  <2> QED
    BY <1>0, <2>2, <2>3 DEF IoInv, IoTypeOK
<1>2. /\ port'[s] = NoResult /\ \A r \in Sessions \ {s} : port'[r] = port[r]
      /\ port' \in [Sessions -> {NoResult} \cup Nat]
  BY <1>0 DEF IoInv, IoTypeOK
<1>3. /\ io' \in [IoThreads -> Places]
      /\ io'[t].pc = "find" /\ io'[t].s = s /\ io'[t].k = keyOf[s] /\ io'[t].n = port[s]
      /\ \A u \in IoThreads \ {t} : io'[u] = io[u]
  BY <1>0, <1>1 DEF IoInv, IoTypeOK, Places
<1>4. /\ \A r \in Sessions : Pending(r)' <=> Pending(r)
      /\ \A u \in IoThreads, r \in Sessions :
           Holds(u, r)' <=> IF u = t THEN r = s ELSE Holds(u, r)
      /\ \A r \in Sessions : ~Holds(t, r)
  BY <1>0, <1>3 DEF Pending, Holds
<1>5. ASSUME NEW r \in Sessions
      PROVE  Referenced(r)' <=> Referenced(r)
  <2>1. CASE r = s
    <3>1. Referenced(s)
      BY <1>0 DEF Referenced
    <3>2. Holds(t, s)'
      BY <1>4
    <3>3. Referenced(s)'
      BY <3>2 DEF Referenced
    <3> QED
      BY <2>1, <3>1, <3>3
  <2>2. CASE r # s
    BY <1>0, <1>2, <1>4, <2>2 DEF Referenced
  <2> QED
    BY <2>1, <2>2
<1>6. IoTypeOK'
  BY <1>0, <1>2, <1>3 DEF IoInv, IoTypeOK, keys, sessions, stream
<1>7. OneReference'
  <2>1. ASSUME NEW r \in Sessions
        PROVE  /\ Pending(r)' => r \notin posted'
               /\ Pending(r)' \/ r \in posted' => port'[r] = NoResult
               /\ \A u \in IoThreads :
                    Holds(u, r)' => ~Pending(r)' /\ r \notin posted' /\ port'[r] = NoResult
               /\ \A u, v \in IoThreads : Holds(u, r)' /\ Holds(v, r)' => u = v
               /\ port'[r] # NoResult => r <= accepted'
    <3>1. CASE r = s
      BY <1>0, <1>1, <1>2, <1>4, <3>1 DEF IoInv, OneReference
    <3>2. CASE r # s
      BY <1>0, <1>2, <1>4, <3>2 DEF IoInv, OneReference
    <3> QED
      BY <3>1, <3>2
  <2>2. ASSUME NEW u \in IoThreads
        PROVE  /\ io'[u].pc # "wait" =>
                    io'[u].s \in 1 .. accepted /\ io'[u].k = keyOf[io'[u].s]
               /\ io'[u].pc \in {"find", "complete"} => io'[u].n >= 0
               /\ io'[u].pc = "complete" => io'[u].found \in 1 .. accepted
               /\ io'[u].pc = "assemble" => io'[u].found = io'[u].s
    <3>1. CASE u = t
      BY <1>1, <1>3, <3>1
    <3>2. CASE u # t
      BY <1>3, <3>2 DEF IoInv, OneReference
    <3> QED
      BY <3>1, <3>2
  <2> QED
    BY <1>0, <2>1, <2>2 DEF OneReference, keys
<1>8. BytesInPlace'
  <2>1. written[s] + port[s] = arrived[s]
    BY <1>0 DEF IoInv, BytesInPlace
  <2>2. ASSUME NEW u \in IoThreads
        PROVE  /\ io'[u].pc \in {"find", "complete"} =>
                    written[io'[u].s] + io'[u].n = arrived[io'[u].s]
               /\ io'[u].pc = "assemble" => written[io'[u].s] = arrived[io'[u].s]
    <3>1. CASE u = t
      BY <1>3, <2>1, <3>1
    <3>2. CASE u # t
      BY <1>3, <3>2 DEF IoInv, BytesInPlace
    <3> QED
      BY <3>1, <3>2
  <2> QED
    BY <1>0, <1>2, <1>4, <2>2 DEF IoInv, BytesInPlace, stream
<1>9. PacketsInPlace'
  BY <1>0, <1>5 DEF IoInv, PacketsInPlace, InsidePayload, stream
<1>10. KeysInPlace'
  <2>1. \A r \in 1 .. accepted : r \in Sessions
    BY AcceptedAreSessions
  <2> QED
    BY <1>0, <1>3, <1>5, <2>1, KeysUnchanged DEF IoInv, keys, sessions
<1> QED
  BY <1>6, <1>7, <1>8, <1>9, <1>10 DEF IoInv

(* The one reference of s ends with its receive, or is that of the next.   *)
LEMMA PassOn ==
  ASSUME IoInv, NEW t \in IoThreads, NEW s \in Sessions, Holds(t, s),
         NEW posts \in BOOLEAN,
         io' = [io EXCEPT ![t].pc = "free"],
         posted' = IF posts THEN posted \cup {s} ELSE posted,
         UNCHANGED <<accepted, acceptAt, keyOf, port>>
  PROVE  /\ OneReference'
         /\ posted' \subseteq 1 .. accepted
         /\ Referenced(s) /\ (Referenced(s)' <=> posts)
         /\ \A r \in Sessions \ {s} : Referenced(r)' <=> Referenced(r)
<1>1. /\ s = io[t].s /\ s \in 1 .. accepted
      /\ ~Pending(s) /\ s \notin posted /\ port[s] = NoResult
      /\ \A u \in IoThreads, r \in Sessions : Holds(u, r)' <=> u # t /\ Holds(u, r)
      /\ \A u \in IoThreads : ~Holds(u, s)'
      /\ \A r \in Sessions \ {s} : ~Holds(t, r)
  BY LetGo
<1>2. \A r \in Sessions : Pending(r)' <=> Pending(r)
  BY DEF Pending
<1>3. Referenced(s) /\ (Referenced(s)' <=> posts)
  BY <1>1, <1>2 DEF Referenced
<1>4. ASSUME NEW r \in Sessions \ {s}
      PROVE  Referenced(r)' <=> Referenced(r)
  <2>1. \A u \in IoThreads : Holds(u, r)' <=> Holds(u, r)
    BY <1>1
  <2>2. r \in posted' <=> r \in posted
    OBVIOUS
  <2> QED
    BY <1>2, <2>1, <2>2 DEF Referenced
<1>5. OneReference'
  <2>1. \A r \in Sessions :
          /\ Pending(r)' => r \notin posted'
          /\ Pending(r)' \/ r \in posted' => port'[r] = NoResult
          /\ \A u \in IoThreads :
               Holds(u, r)' => ~Pending(r)' /\ r \notin posted' /\ port'[r] = NoResult
          /\ \A u, v \in IoThreads : Holds(u, r)' /\ Holds(v, r)' => u = v
          /\ port'[r] # NoResult => r <= accepted'
    BY <1>1, <1>2 DEF IoInv, OneReference
  <2>2. \A u \in IoThreads :
          /\ io'[u].pc # "wait" => io'[u].s \in 1 .. accepted /\ io'[u].k = keyOf[io'[u].s]
          /\ io'[u].pc \in {"find", "complete"} => io'[u].n >= 0
          /\ io'[u].pc = "complete" => io'[u].found \in 1 .. accepted
          /\ io'[u].pc = "assemble" => io'[u].found = io'[u].s
    <3>1. io[t].pc # "wait"
      BY DEF Holds
    <3> QED
      BY PcTo, <3>1 DEF IoInv, OneReference
  <2> QED
    BY <2>1, <2>2 DEF OneReference
<1>6. posted' \subseteq 1 .. accepted
  BY <1>1 DEF IoInv, IoTypeOK
<1> QED
  BY <1>3, <1>4, <1>5, <1>6

(* An unshared key leads to the session whose receive has completed.       *)
LEMMA KeyLeadsToItsSession ==
  ASSUME IoInv, ~keyShared, NEW t \in IoThreads, io[t].pc = "find"
  PROVE  Found(io[t].k) = io[t].s
<1>1. /\ io[t].s \in 1 .. accepted /\ io[t].s \in Sessions /\ io[t].k = keyOf[io[t].s]
      /\ Holds(t, io[t].s)
  BY Holder
<1>2. Referenced(io[t].s) /\ ~Pending(io[t].s)
  BY <1>1 DEF Referenced, IoInv, OneReference
<1>3. Tracked(io[t].s) /\ io[t].s \in sessionMap
  BY <1>1, <1>2 DEF IoInv, KeysInPlace, Tracked
<1> QED
  BY <1>1, <1>3 DEF IoInv, KeysInPlace, Found

LEMMA FindSessionInv ==
  ASSUME IoInv, NEW t \in IoThreads, FindSession(t)
  PROVE  IoInv'
<1>1. PICK found \in (1 .. accepted) \cup {None} : found = Found(io[t].k)
  BY DEF Found, IoInv, IoTypeOK
<1>2. PICK pc \in {"free", "complete"} : pc = IF found = None THEN "free" ELSE "complete"
  OBVIOUS
<1>3. found # None => found \in 1 .. accepted
  OBVIOUS
<1>4. found \in Sessions \cup {None}
  BY SizesAreNumbers DEF IoInv, IoTypeOK, Sessions
<1>5. /\ io[t].pc = "find"
      /\ io' = [io EXCEPT ![t].found = found, ![t].pc = pc]
      /\ UNCHANGED <<accepted, acceptAt, keys, posted, port, stream, ioCount, sessions>>
  BY <1>1, <1>2 DEF FindSession
<1>6. /\ io' \in [IoThreads -> Places]
      /\ io'[t].pc = pc /\ io'[t].s = io[t].s /\ io'[t].k = io[t].k
      /\ io'[t].n = io[t].n /\ io'[t].found = found
      /\ \A u \in IoThreads \ {t} : io'[u] = io[u]
  BY <1>4, <1>5 DEF IoInv, IoTypeOK, Places
<1>7. /\ \A r \in Sessions : Pending(r)' <=> Pending(r)
      /\ \A u \in IoThreads, r \in Sessions : Holds(u, r)' => Holds(u, r)
      /\ pc = "complete" => \A u \in IoThreads, r \in Sessions : Holds(u, r)' <=> Holds(u, r)
  BY <1>5, <1>6 DEF Pending, Holds
<1>8. \A r \in Sessions : /\ Referenced(r)' => Referenced(r)
                          /\ pc = "complete" => (Referenced(r)' <=> Referenced(r))
  <2> SUFFICES ASSUME NEW r \in Sessions
               PROVE  /\ Referenced(r)' => Referenced(r)
                      /\ pc = "complete" => (Referenced(r)' <=> Referenced(r))
    OBVIOUS
  <2> QED
    BY <1>5, <1>7 DEF Referenced
<1>9. IoTypeOK'
  BY <1>5, <1>6 DEF IoInv, IoTypeOK, keys, sessions, stream
<1>10. \A u \in IoThreads :
         /\ io'[u].pc # "wait" =>
              /\ io[u].pc # "wait" /\ io'[u].s = io[u].s /\ io'[u].k = io[u].k
         /\ io'[u].pc \in {"find", "complete"} =>
              io[u].pc \in {"find", "complete"} /\ io'[u].n = io[u].n
         /\ io'[u].pc = "complete" => io'[u].found \in 1 .. accepted
         /\ io'[u].pc = "assemble" => io'[u] = io[u]
  <2> SUFFICES ASSUME NEW u \in IoThreads
               PROVE  /\ io'[u].pc # "wait" =>
                           /\ io[u].pc # "wait" /\ io'[u].s = io[u].s
                           /\ io'[u].k = io[u].k
                      /\ io'[u].pc \in {"find", "complete"} =>
                           io[u].pc \in {"find", "complete"} /\ io'[u].n = io[u].n
                      /\ io'[u].pc = "complete" => io'[u].found \in 1 .. accepted
                      /\ io'[u].pc = "assemble" => io'[u] = io[u]
    OBVIOUS
  <2>1. CASE u # t
    <3>1. io'[u] = io[u]
      BY <1>6, <2>1
    <3>2. io[u].pc = "complete" => io[u].found \in 1 .. accepted
      BY DEF IoInv, OneReference
    <3> QED
      BY <3>1, <3>2
  <2>2. CASE u = t
    <3>1. io[t].pc = "find" /\ (pc = "complete" => found \in 1 .. accepted)
      BY <1>2, <1>3, <1>5
    <3>2. /\ io'[t].s = io[t].s /\ io'[t].k = io[t].k /\ io'[t].n = io[t].n
          /\ io'[t].found = found /\ io'[t].pc = pc
      BY <1>6
    <3>3. pc # "assemble"
      BY <1>2
    <3> QED
      BY <2>2, <3>1, <3>2, <3>3
  <2> QED
    BY <2>1, <2>2
<1>11. OneReference'
  <2>1. \A r \in Sessions :
          /\ Pending(r)' => r \notin posted'
          /\ Pending(r)' \/ r \in posted' => port'[r] = NoResult
          /\ \A u \in IoThreads :
               Holds(u, r)' => ~Pending(r)' /\ r \notin posted' /\ port'[r] = NoResult
          /\ \A u, v \in IoThreads : Holds(u, r)' /\ Holds(v, r)' => u = v
          /\ port'[r] # NoResult => r <= accepted'
    BY <1>5, <1>7 DEF IoInv, OneReference
  <2>2. \A u \in IoThreads :
          /\ io'[u].pc # "wait" =>
               io'[u].s \in 1 .. accepted' /\ io'[u].k = keyOf'[io'[u].s]
          /\ io'[u].pc \in {"find", "complete"} => io'[u].n >= 0
          /\ io'[u].pc = "complete" => io'[u].found \in 1 .. accepted'
          /\ io'[u].pc = "assemble" => io'[u].found = io'[u].s
    <3>1. accepted' = accepted /\ keyOf' = keyOf
      BY <1>5 DEF keys
    <3>2. \A u \in IoThreads :
            /\ io[u].pc # "wait" => io[u].s \in 1 .. accepted /\ io[u].k = keyOf[io[u].s]
            /\ io[u].pc \in {"find", "complete"} => io[u].n >= 0
            /\ io[u].pc = "assemble" => io[u].found = io[u].s
      BY DEF IoInv, OneReference
    <3> QED
      BY <1>10, <3>1, <3>2
  <2> QED
    BY <2>1, <2>2 DEF OneReference
<1>12. BytesInPlace'
  <2>1. \A r \in Sessions :
          /\ read'[r] <= written'[r] /\ written'[r] <= arrived'[r]
          /\ r > accepted' \/ Pending(r)' => arrived'[r] = 0
          /\ r \in posted' => written'[r] = arrived'[r]
          /\ port'[r] # NoResult => written'[r] + port'[r] = arrived'[r]
          /\ r \in posted' => written'[r] - read'[r] <= HeaderSize
    BY <1>5, <1>7 DEF IoInv, BytesInPlace, stream
  <2>2. \A u \in IoThreads :
          /\ io'[u].pc \in {"find", "complete"} =>
               written'[io'[u].s] + io'[u].n = arrived'[io'[u].s]
          /\ io'[u].pc = "assemble" => written'[io'[u].s] = arrived'[io'[u].s]
    <3>1. /\ written' = written /\ arrived' = arrived
          /\ \A u \in IoThreads :
               io'[u].pc \in {"find", "complete"} => io'[u].pc # "wait"
      BY <1>5 DEF stream
    <3> QED
      BY <1>10, <3>1 DEF IoInv, BytesInPlace
  <2> QED
    BY <2>1, <2>2 DEF BytesInPlace
<1>13. PacketsInPlace'
  BY <1>5, <1>8 DEF IoInv, PacketsInPlace, InsidePayload, stream
<1>14. KeysInPlace'
  <2> SUFFICES ASSUME ~keyShared PROVE KeysInPlace'
    BY <1>5 DEF KeysInPlace, keys
  <2>1. found = io[t].s /\ pc = "complete"
    <3>1. found = io[t].s /\ io[t].s \in Sessions
      BY <1>1, <1>5, KeyLeadsToItsSession, Holder
    <3> QED
      BY <1>2, <3>1, SizesAreNumbers
  <2>2. \A r \in 1 .. accepted : r \in Sessions
    BY AcceptedAreSessions
  <2> QED
    BY <1>5, <1>6, <1>8, <2>1, <2>2, KeysUnchanged DEF IoInv, keys, sessions
<1> QED
  BY <1>9, <1>11, <1>12, <1>13, <1>14 DEF IoInv

LEMMA DropReferenceInv ==
  ASSUME IoInv, NEW t \in IoThreads, DropReference(t)
  PROVE  IoInv'
<1>1. PICK s \in Sessions : s = io[t].s /\ Holds(t, s)
  BY Holder DEF DropReference
<1>2. PICK found \in 1 .. accepted : found = io[t].found
  BY Holder DEF DropReference
<1>3. /\ io[t].pc = "complete"
      /\ io' = [io EXCEPT ![t].pc = "free"]
      /\ DecreaseIOCount(found, IF FALSE THEN 1 ELSE 0)
      /\ posted' = IF FALSE THEN posted \cup {s} ELSE posted
      /\ UNCHANGED <<accepted, acceptAt, keys, posted, port, stream, sessionMap,
                     disconnected>>
      /\ UNCHANGED <<key, pooled, keyOf, keyShared>>
  BY <1>2 DEF DropReference, keys
<1>4. /\ OneReference' /\ Referenced(s) /\ ~Referenced(s)'
      /\ \A r \in Sessions \ {s} : Referenced(r)' <=> Referenced(r)
  BY <1>1, <1>3, PassOn
<1>5. keyShared \/ found = s
  BY <1>1, <1>2, <1>3 DEF IoInv, KeysInPlace
<1>6. /\ io' \in [IoThreads -> Places] /\ io'[t].pc = "free"
      /\ \A u \in IoThreads \ {t} : io'[u] = io[u]
  BY <1>3, PcTo
<1>7. KeysInPlace' /\ ioCount' \in [Sessions -> Int] /\ releaseQueue' \subseteq 1 .. accepted
  <2>1. \A r \in 1 .. accepted : Tracked(r)' <=> Tracked(r)
    BY <1>3 DEF Tracked, Pending
  <2>2. \A r \in 1 .. accepted :
          r # found => keyShared \/ (Referenced(r)' <=> Referenced(r))
    BY <1>4, <1>5, AcceptedAreSessions
  <2> QED
    BY <1>2, <1>3, <1>4, <1>5, <1>6, <2>1, <2>2, CountFollows
<1>8. IoTypeOK'
  BY <1>3, <1>6, <1>7 DEF IoInv, IoTypeOK, stream
<1>9. BytesInPlace'
  BY <1>3, <1>6 DEF IoInv, BytesInPlace, Pending, stream
<1>10. PacketsInPlace'
  BY <1>3, <1>4 DEF IoInv, PacketsInPlace, InsidePayload, stream
<1> QED
  BY <1>4, <1>7, <1>8, <1>9, <1>10 DEF IoInv

LEMMA NotItsOverlappedInv ==
  ASSUME IoInv, NEW t \in IoThreads, NotItsOverlapped(t)
  PROVE  IoInv'
<1>1. PICK s \in Sessions : s = io[t].s /\ Holds(t, s)
  BY Holder DEF NotItsOverlapped
<1>2. /\ io[t].pc = "complete" /\ io[t].found # io[t].s
      /\ io' = [io EXCEPT ![t].pc = "free"]
      /\ posted' = IF FALSE THEN posted \cup {s} ELSE posted
      /\ UNCHANGED <<accepted, acceptAt, keys, posted, port, stream, ioCount, sessions>>
      /\ UNCHANGED <<key, pooled, keyOf, keyShared>>
  BY DEF NotItsOverlapped, keys
<1>3. keyShared
  BY <1>2 DEF IoInv, KeysInPlace
<1>4. /\ OneReference' /\ Referenced(s) /\ ~Referenced(s)'
      /\ \A r \in Sessions \ {s} : Referenced(r)' <=> Referenced(r)
  BY <1>1, <1>2, PassOn
<1>5. /\ io' \in [IoThreads -> Places] /\ io'[t].pc = "free"
      /\ \A u \in IoThreads \ {t} : io'[u] = io[u]
  BY <1>2, PcTo
<1>6. IoTypeOK'
  BY <1>2, <1>5 DEF IoInv, IoTypeOK, stream, sessions
<1>7. BytesInPlace'
  BY <1>2, <1>5 DEF IoInv, BytesInPlace, Pending, stream
<1>8. PacketsInPlace'
  BY <1>2, <1>4 DEF IoInv, PacketsInPlace, InsidePayload, stream
<1>9. KeysInPlace'
  BY <1>2, <1>3 DEF KeysInPlace
<1> QED
  BY <1>4, <1>6, <1>7, <1>8, <1>9 DEF IoInv

LEMMA OnRecvIoCompletedInv ==
  ASSUME IoInv, NEW t \in IoThreads, OnRecvIoCompleted(t)
  PROVE  IoInv'
<1>1. PICK s \in Sessions : /\ s = io[t].s /\ s = io[t].found /\ Holds(t, s)
                            /\ s \in 1 .. accepted
  BY Holder DEF OnRecvIoCompleted
<1>2. PICK n \in Nat \ {0} : n = io[t].n
  <2>1. io[t].n > 0 /\ io[t].n \in {NoResult} \cup Nat
    BY DEF OnRecvIoCompleted, IoInv, IoTypeOK, Places
  <2> QED
    BY <2>1 DEF NoResult
<1>3. /\ io[t].pc = "complete" /\ io' = [io EXCEPT ![t].pc = "assemble"]
      /\ written' = [written EXCEPT ![s] = @ + n]
      /\ UNCHANGED <<accepted, acceptAt, keys, posted, port, arrived, read,
                     storeQueue, cut, ioCount, sessions>>
  BY <1>1, <1>2 DEF OnRecvIoCompleted
<1>4. /\ io' \in [IoThreads -> Places]
      /\ io'[t].pc = "assemble" /\ io'[t].s = s /\ io'[t].k = io[t].k
      /\ io'[t].n = n /\ io'[t].found = s
      /\ \A u \in IoThreads \ {t} : io'[u] = io[u]
  BY <1>1, <1>2, <1>3, PcTo
<1>5. /\ \A r \in Sessions : Pending(r)' <=> Pending(r)
      /\ \A u \in IoThreads, r \in Sessions : Holds(u, r)' <=> Holds(u, r)
  BY <1>1, <1>3, <1>4 DEF Pending, Holds
<1>6. ASSUME NEW r \in Sessions
      PROVE  Referenced(r)' <=> Referenced(r)
  BY <1>3, <1>5 DEF Referenced
<1>7. /\ written' \in [Sessions -> Nat] /\ written'[s] = written[s] + n
      /\ \A r \in Sessions \ {s} : written'[r] = written[r]
      /\ written[s] \in Nat /\ arrived[s] \in Nat /\ read[s] \in Nat
      /\ written[s] + n = arrived[s]
  <2>1. written \in [Sessions -> Nat] /\ arrived[s] \in Nat /\ read[s] \in Nat
    BY DEF IoInv, IoTypeOK
  <2>2. written[s] + n = arrived[s]
    BY <1>1, <1>2, <1>3 DEF IoInv, BytesInPlace
  <2> QED
    BY <1>3, <2>1, <2>2
<1>8. IoTypeOK'
  BY <1>3, <1>4, <1>7 DEF IoInv, IoTypeOK, keys, sessions
<1>9. \A u \in IoThreads \ {t} : /\ io'[u] = io[u]
                                 /\ io[u].pc \in {"find", "complete", "assemble"} =>
                                      io[u].s \in Sessions /\ io[u].s # s
  <2>1. \A u \in IoThreads \ {t} : ~Holds(u, s)
    BY <1>1 DEF IoInv, OneReference
  <2> QED
    BY <1>4, <2>1, Holder DEF Holds
<1>10. OneReference'
  <2>1. ASSUME NEW u \in IoThreads
        PROVE  /\ io'[u].pc # "wait" =>
                    io'[u].s \in 1 .. accepted /\ io'[u].k = keyOf[io'[u].s]
               /\ io'[u].pc \in {"find", "complete"} => io'[u].n >= 0
               /\ io'[u].pc = "complete" => io'[u].found \in 1 .. accepted
               /\ io'[u].pc = "assemble" => io'[u].found = io'[u].s
    <3>1. CASE u = t
      BY <1>1, <1>3, <1>4, <3>1, Holder
    <3>2. CASE u # t
      BY <1>4, <3>2 DEF IoInv, OneReference
    <3> QED
      BY <3>1, <3>2
  <2> QED
    BY <1>3, <1>5, <2>1 DEF IoInv, OneReference, keys
<1>11. BytesInPlace'
  <2>1. ASSUME NEW r \in Sessions
        PROVE  /\ read[r] <= written'[r] /\ written'[r] <= arrived[r]
               /\ r > accepted \/ Pending(r) => arrived[r] = 0
               /\ r \in posted => written'[r] = arrived[r]
               /\ port[r] # NoResult => written'[r] + port[r] = arrived[r]
               /\ r \in posted => written'[r] - read[r] <= HeaderSize
    <3>1. CASE r = s
      <4>1. ~Pending(s) /\ s \notin posted /\ port[s] = NoResult /\ ~(s > accepted)
        BY <1>1, AcceptedAreSessions DEF IoInv, OneReference
      <4>2. read[s] <= written[s]
        BY DEF IoInv, BytesInPlace
      <4> QED
        BY <1>7, <3>1, <4>1, <4>2
    <3>2. CASE r # s
      BY <1>7, <3>2 DEF IoInv, BytesInPlace
    <3> QED
      BY <3>1, <3>2
  <2>2. ASSUME NEW u \in IoThreads
        PROVE  /\ io'[u].pc \in {"find", "complete"} =>
                    written'[io'[u].s] + io'[u].n = arrived[io'[u].s]
               /\ io'[u].pc = "assemble" => written'[io'[u].s] = arrived[io'[u].s]
    <3>1. CASE u = t
      BY <1>4, <1>7, <3>1
    <3>2. CASE u # t
      BY <1>7, <1>9, <3>2 DEF IoInv, BytesInPlace
    <3> QED
      BY <3>1, <3>2
  <2> QED
    BY <1>3, <1>5, <2>1, <2>2 DEF BytesInPlace
<1>12. PacketsInPlace'
  BY <1>3, <1>6 DEF IoInv, PacketsInPlace, InsidePayload
<1>13. KeysInPlace'
  <2>1. \A r \in 1 .. accepted : r \in Sessions
    BY AcceptedAreSessions
  <2> QED
    BY <1>3, <1>4, <1>6, <2>1, KeysUnchanged DEF IoInv, keys, sessions
<1> QED
  BY <1>8, <1>10, <1>11, <1>12, <1>13 DEF IoInv

(* What RecvStreamToBuffer takes is there; where the stream was read up to *)
(* the end of a packet, and more than a header of what has come but no     *)
(* more than one is left over, it is the next packet.                      *)
LEMMA DequeuedIsThere ==
  ASSUME NEW r \in Nat, NEW w \in Nat, Remains(r, w), NEW d \in Dequeued(r, w)
  PROVE  d \in Nat \ {0} /\ r + d <= w /\ MessageOf(r, d) \in Nat
<1>1. r \div PacketSize \in Nat
  BY SizesAreNumbers, SplitOffset
<1>2. MessageOf(r, d) \in Nat
  BY <1>1 DEF MessageOf, Broken
<1> QED
  BY <1>2, SizesAreNumbers DEF Dequeued, Remains

LEMMA DequeuedIsNextPacket ==
  ASSUME NEW k \in Nat, NEW w \in Nat, Remains(k * PacketSize, w), ~InsidePayload(w),
         NEW d \in Dequeued(k * PacketSize, w)
  PROVE  d = PacketSize /\ MessageOf(k * PacketSize, d) = k + 1
<1>1. /\ k * PacketSize \in Nat /\ (k * PacketSize) % PacketSize = 0
      /\ (k * PacketSize) \div PacketSize = k
  BY SizesAreNumbers, EndOfPacket
<1>2. w % PacketSize \in Nat
  BY SizesAreNumbers, SplitOffset
<1>3. w - k * PacketSize >= PacketSize
  <2>1. w % PacketSize <= HeaderSize
    BY <1>2, SizesAreNumbers DEF InsidePayload
  <2>2. w - k * PacketSize > HeaderSize
    BY DEF Remains
  <2>3. HeaderSize \in Nat
    BY SizesAreNumbers
  <2> QED
    BY <2>1, <2>2, <2>3, SizesAreNumbers, WholePacketFollows
<1>4. Aligned(k * PacketSize)
  BY <1>1 DEF Aligned
<1>5. d = PacketSize
  BY <1>1, <1>3, <1>4, SizesAreNumbers DEF Dequeued
<1> QED
  BY <1>1, <1>4, <1>5 DEF MessageOf

LEMMA MakePacketInv ==
  ASSUME IoInv, NEW t \in IoThreads, MakePacket(t)
  PROVE  IoInv'
<1>1. PICK s \in Sessions : /\ s = io[t].s /\ s = io[t].found /\ Holds(t, s)
                            /\ s \in 1 .. accepted
  BY Holder DEF MakePacket
<1>2. /\ read \in [Sessions -> Nat] /\ written[s] \in Nat /\ arrived[s] \in Nat
      /\ storeQueue \in [Sessions -> Seq(Nat)]
  BY DEF IoInv, IoTypeOK
<1>3. PICK r \in Nat, w \in Nat : r = read[s] /\ w = written[s]
  BY <1>2
<1>4. PICK d \in Dequeued(r, w) :
        /\ read' = [read EXCEPT ![s] = @ + d]
        /\ storeQueue' = [storeQueue EXCEPT ![s] = Append(@, MessageOf(r, d))]
  BY <1>1, <1>3 DEF MakePacket
<1>5. /\ io[t].pc = "assemble" /\ Remains(r, w)
      /\ UNCHANGED <<accepted, acceptAt, keys, posted, port, arrived, written, cut,
                     ioCount, sessions, io>>
  BY <1>1, <1>3 DEF MakePacket
<1>6. d \in Nat \ {0} /\ r + d <= w /\ MessageOf(r, d) \in Nat
  BY <1>5, DequeuedIsThere
<1>7. /\ read' \in [Sessions -> Nat] /\ read'[s] = r + d
      /\ storeQueue' \in [Sessions -> Seq(Nat)]
      /\ storeQueue'[s] = Append(storeQueue[s], MessageOf(r, d))
      /\ \A q \in Sessions \ {s} : read'[q] = read[q] /\ storeQueue'[q] = storeQueue[q]
  <2>1. read' \in [Sessions -> Nat] /\ read'[s] = r + d
    BY <1>2, <1>3, <1>4, <1>6
  <2>2. Append(storeQueue[s], MessageOf(r, d)) \in Seq(Nat)
    BY <1>2, <1>6
  <2> QED
    BY <1>2, <1>4, <2>1, <2>2
<1>8. /\ \A q \in Sessions : Pending(q)' <=> Pending(q)
      /\ \A u \in IoThreads, q \in Sessions : Holds(u, q)' <=> Holds(u, q)
      /\ s \notin posted
  BY <1>1, <1>5 DEF Pending, Holds, IoInv, OneReference
<1>9. ASSUME NEW q \in Sessions
      PROVE  Referenced(q)' <=> Referenced(q)
  BY <1>5, <1>8 DEF Referenced
<1>10. IoTypeOK'
  BY <1>5, <1>7 DEF IoInv, IoTypeOK, keys, sessions
<1>11. OneReference'
  BY <1>5, <1>8 DEF IoInv, OneReference, keys
<1>12. BytesInPlace'
  <2>1. ASSUME NEW q \in Sessions
        PROVE  /\ read'[q] <= written[q]
               /\ q \in posted => written[q] - read'[q] <= HeaderSize
    <3>1. CASE q = s
      BY <1>3, <1>6, <1>7, <1>8, <3>1
    <3>2. CASE q # s
      BY <1>7, <3>2 DEF IoInv, BytesInPlace
    <3> QED
      BY <3>1, <3>2
  <2> QED
    BY <1>5, <1>8, <2>1 DEF IoInv, BytesInPlace
<1>13. PacketsInPlace'
  <2>1. ASSUME NEW q \in Sessions, ~cut[q]
        PROVE  /\ ~InsidePayload(arrived[q])
               /\ storeQueue'[q] = [i \in 1 .. Len(storeQueue'[q]) |-> i]
               /\ q > accepted \/ Referenced(q) =>
                    read'[q] = Len(storeQueue'[q]) * PacketSize
    <3>1. CASE q # s
      BY <1>7, <2>1, <3>1 DEF IoInv, PacketsInPlace
    <3>2. CASE q = s
      <4>1. PICK k \in Nat : k = Len(storeQueue[s])
        BY <1>2
      <4>2. /\ storeQueue[s] = [i \in 1 .. k |-> i] /\ ~InsidePayload(arrived[s])
            /\ r = k * PacketSize
        BY <1>1, <1>3, <2>1, <3>2, <4>1 DEF IoInv, PacketsInPlace, Referenced
      <4>3. w = arrived[s]
        BY <1>1, <1>3, <1>5 DEF IoInv, BytesInPlace
      <4>4. d = PacketSize /\ MessageOf(r, d) = k + 1
        BY <1>5, <4>2, <4>3, DequeuedIsNextPacket
      <4>5. storeQueue'[s] = [i \in 1 .. k + 1 |-> i]
        BY <1>7, <4>2, <4>4, AppendNext
      <4>6. Len(storeQueue'[s]) = k + 1
        BY <1>2, <1>6, <1>7, <4>1
      <4>7. read'[s] = (k + 1) * PacketSize
        BY <1>7, <4>2, <4>4, SizesAreNumbers, EndOfPacket
      <4> QED
        BY <3>2, <4>2, <4>5, <4>6, <4>7
    <3> QED
      BY <3>1, <3>2
  <2> QED
    BY <1>5, <1>9, <2>1 DEF PacketsInPlace, InsidePayload
<1>14. KeysInPlace'
  <2>1. \A q \in 1 .. accepted : q \in Sessions
    BY AcceptedAreSessions
  <2> QED
    BY <1>5, <1>9, <2>1, KeysUnchanged DEF IoInv, keys, sessions
<1> QED
  BY <1>10, <1>11, <1>12, <1>13, <1>14 DEF IoInv

LEMMA PacketFailsInv ==
  ASSUME IoInv, NEW t \in IoThreads, PacketFails(t)
  PROVE  IoInv'
<1>1. PICK s \in Sessions : /\ s = io[t].s /\ s = io[t].found /\ Holds(t, s)
                            /\ s \in 1 .. accepted
  BY Holder DEF PacketFails
<1>2. read \in [Sessions -> Nat] /\ written[s] \in Nat
  BY DEF IoInv, IoTypeOK
<1>3. PICK r \in Nat, w \in Nat : r = read[s] /\ w = written[s]
  BY <1>2
<1>4. PICK d \in Dequeued(r, w) \cup {0} : read' = [read EXCEPT ![s] = @ + d]
  BY <1>1, <1>3 DEF PacketFails
<1>5. /\ io[t].pc = "assemble" /\ Remains(r, w)
      /\ io' = [io EXCEPT ![t].pc = "free"]
      /\ DecreaseIOCount(s, IF FALSE THEN 1 ELSE 0)
      /\ posted' = IF FALSE THEN posted \cup {s} ELSE posted
      /\ UNCHANGED <<accepted, acceptAt, keys, posted, port, arrived, written,
                     storeQueue, cut, sessionMap, disconnected>>
      /\ UNCHANGED <<key, pooled, keyOf, keyShared>>
  BY <1>1, <1>3 DEF PacketFails, keys
<1>6. d \in Nat /\ r + d <= w
  <2>1. r <= w
    BY <1>3 DEF IoInv, BytesInPlace
  <2> QED
    BY <1>5, <2>1, DequeuedIsThere
<1>7. /\ read' \in [Sessions -> Nat] /\ read'[s] = r + d
      /\ \A q \in Sessions \ {s} : read'[q] = read[q]
  BY <1>2, <1>3, <1>4, <1>6
<1>8. /\ OneReference' /\ Referenced(s) /\ ~Referenced(s)'
      /\ \A q \in Sessions \ {s} : Referenced(q)' <=> Referenced(q)
  BY <1>1, <1>5, PassOn
<1>9. /\ io' \in [IoThreads -> Places] /\ io'[t].pc = "free"
      /\ \A u \in IoThreads \ {t} : io'[u] = io[u]
  BY <1>5, PcTo
<1>10. KeysInPlace' /\ ioCount' \in [Sessions -> Int] /\ releaseQueue' \subseteq 1 .. accepted
  <2>1. \A q \in 1 .. accepted : Tracked(q)' <=> Tracked(q)
    BY <1>5 DEF Tracked, Pending
  <2>2. \A q \in 1 .. accepted : q # s => (Referenced(q)' <=> Referenced(q))
    BY <1>8, AcceptedAreSessions
  <2> QED
    BY <1>1, <1>5, <1>8, <1>9, <2>1, <2>2, CountFollows
<1>11. IoTypeOK'
  BY <1>5, <1>7, <1>9, <1>10 DEF IoInv, IoTypeOK
<1>12. BytesInPlace'
  <2>1. s \notin posted
    BY <1>1 DEF IoInv, OneReference
  <2>2. ASSUME NEW q \in Sessions
        PROVE  /\ read'[q] <= written[q]
               /\ q \in posted => written[q] - read'[q] <= HeaderSize
    <3>1. CASE q = s
      BY <1>3, <1>6, <1>7, <2>1, <3>1
    <3>2. CASE q # s
      BY <1>7, <3>2 DEF IoInv, BytesInPlace
    <3> QED
      BY <3>1, <3>2
  <2> QED
    BY <1>5, <1>9, <2>2 DEF IoInv, BytesInPlace, Pending
<1>13. PacketsInPlace'
  <2>1. ~(s > accepted)
    BY <1>1, AcceptedAreSessions
  <2>2. ASSUME NEW q \in Sessions, ~cut[q]
        PROVE  q > accepted \/ Referenced(q)' =>
                 read'[q] = Len(storeQueue[q]) * PacketSize
    <3>1. CASE q = s
      BY <1>8, <2>1, <3>1
    <3>2. CASE q # s
      BY <1>7, <1>8, <2>2, <3>2 DEF IoInv, PacketsInPlace
    <3> QED
      BY <3>1, <3>2
  <2> QED
    BY <1>5, <2>2 DEF IoInv, PacketsInPlace, InsidePayload
<1> QED
  BY <1>8, <1>10, <1>11, <1>12, <1>13 DEF IoInv

LEMMA PostNextRecvInv ==
  ASSUME IoInv, NEW t \in IoThreads, PostNextRecv(t)
  PROVE  IoInv'
<1>1. PICK s \in Sessions : /\ s = io[t].s /\ s = io[t].found /\ Holds(t, s)
                            /\ s \in 1 .. accepted
  BY Holder DEF PostNextRecv
<1>2. PICK posts \in BOOLEAN : DoRecv(s, posts)
  BY <1>1 DEF PostNextRecv
<1>3. /\ io[t].pc = "assemble" /\ ~Remains(read[s], written[s])
      /\ io' = [io EXCEPT ![t].pc = "free"]
      /\ DecreaseIOCount(s, IF posts THEN 1 ELSE 0)
      /\ posted' = IF posts THEN posted \cup {s} ELSE posted
      /\ UNCHANGED <<accepted, acceptAt, keys, port, stream, sessionMap, disconnected>>
      /\ UNCHANGED <<key, pooled, keyOf, keyShared>>
  BY <1>1, <1>2 DEF PostNextRecv, DoRecv, keys
<1>4. /\ OneReference' /\ posted' \subseteq 1 .. accepted
      /\ Referenced(s) /\ (Referenced(s)' <=> posts)
      /\ \A q \in Sessions \ {s} : Referenced(q)' <=> Referenced(q)
  BY <1>1, <1>3, PassOn
<1>5. /\ io' \in [IoThreads -> Places] /\ io'[t].pc = "free"
      /\ \A u \in IoThreads \ {t} : io'[u] = io[u]
  BY <1>3, PcTo
<1>6. KeysInPlace' /\ ioCount' \in [Sessions -> Int] /\ releaseQueue' \subseteq 1 .. accepted
  <2>1. \A q \in 1 .. accepted : Tracked(q)' <=> Tracked(q)
    BY <1>3 DEF Tracked, Pending
  <2>2. \A q \in 1 .. accepted : q # s => (Referenced(q)' <=> Referenced(q))
    BY <1>4, AcceptedAreSessions
  <2> QED
    BY <1>1, <1>3, <1>4, <1>5, <2>1, <2>2, CountFollows
<1>7. IoTypeOK'
  BY <1>3, <1>4, <1>5, <1>6 DEF IoInv, IoTypeOK, stream
<1>8. BytesInPlace'
  <2>1. written[s] = arrived[s] /\ written[s] - read[s] <= HeaderSize
    <3>1. written[s] \in Nat /\ read[s] \in Nat /\ HeaderSize \in Nat
      BY SizesAreNumbers DEF IoInv, IoTypeOK
    <3>2. ~(written[s] - read[s] > HeaderSize)
      BY <1>3 DEF Remains
    <3>3. written[s] = arrived[s]
      BY <1>1, <1>3 DEF IoInv, BytesInPlace
    <3> QED
      BY <3>1, <3>2, <3>3
  <2>2. port[s] = NoResult
    BY <1>1 DEF IoInv, OneReference
  <2>3. \A q \in Sessions : q \in posted' => q \in posted \/ q = s
    BY <1>3
  <2> QED
    BY <1>3, <1>5, <2>1, <2>2, <2>3 DEF IoInv, BytesInPlace, Pending, stream
<1>9. PacketsInPlace'
  BY <1>3, <1>4 DEF IoInv, PacketsInPlace, InsidePayload, stream
<1> QED
  BY <1>4, <1>6, <1>7, <1>8, <1>9 DEF IoInv

LEMMA FreeKeyInv ==
  ASSUME IoInv, NEW t \in IoThreads, FreeKey(t)
  PROVE  IoInv'
<1>1. /\ io[t].pc = "free"
      /\ pooled' = [pooled EXCEPT ![io[t].k] = @ + 1]
      /\ io' = [io EXCEPT ![t] = Waiting]
      /\ UNCHANGED <<accepted, acceptAt, key, keyOf, keyShared, posted, port, stream,
                     ioCount, sessions>>
  BY DEF FreeKey
<1>2. /\ io' \in [IoThreads -> Places] /\ io'[t].pc = "wait"
      /\ \A u \in IoThreads \ {t} : io'[u] = io[u]
  <2>1. Waiting \in Places /\ Waiting.pc = "wait"
    BY DEF Waiting, Places
  <2> QED
    BY <1>1, <2>1 DEF IoInv, IoTypeOK
<1>3. /\ \A q \in Sessions : Pending(q)' <=> Pending(q)
      /\ \A u \in IoThreads, q \in Sessions : Holds(u, q)' <=> Holds(u, q)
  BY <1>1, <1>2 DEF Pending, Holds
<1>4. ASSUME NEW q \in Sessions
      PROVE  Referenced(q)' <=> Referenced(q)
  BY <1>1, <1>3 DEF Referenced
<1>5. \A u \in IoThreads : io'[u].pc # "wait" => io'[u] = io[u]
  BY <1>2
<1>6. IoTypeOK'
  <2>1. pooled' \in [Keys -> Nat]
    BY <1>1, Holder DEF IoInv, IoTypeOK
  <2> QED
    BY <1>1, <1>2, <2>1 DEF IoInv, IoTypeOK, sessions, stream
<1>7. OneReference'
  BY <1>1, <1>3, <1>5 DEF IoInv, OneReference
<1>8. BytesInPlace'
  BY <1>1, <1>3, <1>5 DEF IoInv, BytesInPlace, stream
<1>9. PacketsInPlace'
  BY <1>1, <1>4 DEF IoInv, PacketsInPlace, InsidePayload, stream
<1>10. KeysInPlace'
  <2>1. \A q \in 1 .. accepted : q \in Sessions
    BY AcceptedAreSessions
  <2>2. \A u \in IoThreads : io'[u].pc = "complete" =>
                                io[u].pc = "complete" /\ io'[u] = io[u]
    BY <1>5
  <2> QED
    BY <1>1, <1>4, <2>1, <2>2, KeysUnchanged DEF IoInv, sessions
<1> QED
  BY <1>6, <1>7, <1>8, <1>9, <1>10 DEF IoInv

(* The release thread.                                                     *)
LEMMA EraseSessionInv ==
  ASSUME IoInv, NEW s \in Sessions, EraseSession(s)
  PROVE  IoInv'
<1>1. /\ s \in releaseQueue /\ releaseQueue' = releaseQueue \ {s}
      /\ sessionMap' = sessionMap \ {s}
      /\ disconnected' = disconnected \cup ({s} \cap sessionMap)
      /\ UNCHANGED <<accepted, acceptAt, keys, posted, port, stream, ioCount, io>>
  BY DEF EraseSession
<1>2. /\ \A q \in Sessions : Pending(q)' <=> Pending(q)
      /\ \A u \in IoThreads, q \in Sessions : Holds(u, q)' <=> Holds(u, q)
  BY <1>1 DEF Pending, Holds
<1>3. ASSUME NEW q \in Sessions
      PROVE  Referenced(q)' <=> Referenced(q)
  BY <1>1, <1>2 DEF Referenced
<1>4. IoTypeOK'
  <2>1. /\ posted \cup sessionMap' \cup releaseQueue' \cup disconnected' \subseteq 1 .. accepted
        /\ sessionMap' \cap disconnected' = {}
        /\ acceptAt = "key" => accepted \notin sessionMap' \cup disconnected'
    BY <1>1 DEF IoInv, IoTypeOK
  <2> QED
    BY <1>1, <2>1 DEF IoInv, IoTypeOK, keys, stream
<1>5. OneReference'
  BY <1>1, <1>2 DEF IoInv, OneReference, keys
<1>6. BytesInPlace'
  BY <1>1, <1>2 DEF IoInv, BytesInPlace, stream
<1>7. PacketsInPlace'
  BY <1>1, <1>3 DEF IoInv, PacketsInPlace, InsidePayload, stream
<1>8. KeysInPlace'
  <2> SUFFICES ASSUME ~keyShared PROVE KeysInPlace'
    BY <1>1 DEF KeysInPlace, keys
  <2>1. s \in 1 .. accepted
    BY <1>1 DEF IoInv, IoTypeOK
  <2>2. ~Referenced(s) /\ ~Pending(s)
    <3>1. ~Referenced(s)
      BY <1>1, <2>1 DEF IoInv, KeysInPlace
    <3> QED
      BY <3>1 DEF Referenced
  <2>3. \A q \in 1 .. accepted : Tracked(q)' <=> q # s /\ Tracked(q)
    BY <1>1, <1>2, <2>2, AcceptedAreSessions DEF Tracked
  <2>4. acceptAt = "recv" => accepted \in sessionMap'
    BY <1>1, <2>2 DEF IoInv, KeysInPlace, Pending
  <2>5. \A q \in 1 .. accepted : Referenced(q)' <=> Referenced(q)
    BY <1>3, AcceptedAreSessions
  <2>6. ASSUME NEW q \in 1 .. accepted
        PROVE  /\ Tracked(q)' => /\ ioCount[q] = IF Referenced(q)' THEN 1 ELSE 0
                                 /\ q \in releaseQueue' <=> ~Referenced(q)'
                                 /\ key[keyOf[q]].sessionId = q
               /\ q \in sessionMap' => key[keyOf[q]].threadId = ThreadId(q)
               /\ ~Tracked(q)' => ~Referenced(q)'
    <3>1. CASE q = s
      BY <1>1, <2>2, <2>3, <2>5, <3>1
    <3>2. CASE q # s
      BY <1>1, <2>3, <2>5, <3>2 DEF IoInv, KeysInPlace
    <3> QED
      BY <3>1, <3>2
  <2> QED
    BY <1>1, <2>3, <2>4, <2>6 DEF IoInv, KeysInPlace, keys
<1> QED
  BY <1>4, <1>5, <1>6, <1>7, <1>8 DEF IoInv

----------------------------------------------------------------------------
LEMMA IoStutterInv ==
  ASSUME IoInv, UNCHANGED vars
  PROVE  IoInv'
<1>1. UNCHANGED <<accepted, acceptAt, keys, posted, port, stream, ioCount, sessions, io>>
  BY DEF vars
<1>2. /\ \A q : Pending(q)' <=> Pending(q)
      /\ \A t, q : Holds(t, q)' <=> Holds(t, q)
      /\ \A q : Tracked(q)' <=> Tracked(q)
  BY <1>1 DEF Pending, Holds, Tracked, sessions
<1>3. \A q : Referenced(q)' <=> Referenced(q)
  BY <1>1, <1>2 DEF Referenced
<1>4. IoTypeOK'
  BY <1>1 DEF IoInv, IoTypeOK, keys, stream, sessions
<1>5. OneReference'
  BY <1>1, <1>2 DEF IoInv, OneReference, keys
<1>6. BytesInPlace'
  BY <1>1, <1>2 DEF IoInv, BytesInPlace, stream
<1>7. PacketsInPlace'
  BY <1>1, <1>3 DEF IoInv, PacketsInPlace, InsidePayload, stream
<1>8. KeysInPlace'
  BY <1>1, <1>2, <1>3 DEF IoInv, KeysInPlace, keys, sessions
<1> QED
  BY <1>4, <1>5, <1>6, <1>7, <1>8 DEF IoInv

LEMMA IoNextInv == IoInv /\ [Next]_vars => IoInv'
<1> SUFFICES ASSUME IoInv, [Next]_vars PROVE IoInv'
  OBVIOUS
<1>1. CASE \E k \in Keys : AcceptConnection(k)
  BY <1>1, AcceptConnectionInv
<1>2. CASE AcceptStep
  BY <1>2, InsertSessionInv, FirstRecvInv DEF AcceptStep
<1>3. CASE \E s \in Sessions : \E n \in 1 .. StreamEnd(s) : Receive(s, n)
  BY <1>3, ReceiveInv
<1>4. CASE \E s \in Sessions : EndReceive(s)
  BY <1>4, EndReceiveInv
<1>5. CASE TakeStep
  BY <1>5, TakeCompletionInv DEF TakeStep
<1>6. ASSUME NEW t \in IoThreads, IoStep(t)
      PROVE  IoInv'
  BY <1>6, FindSessionInv, DropReferenceInv, NotItsOverlappedInv, OnRecvIoCompletedInv,
     MakePacketInv, PacketFailsInv, PostNextRecvInv, FreeKeyInv DEF IoStep
<1>7. CASE \E s \in Sessions : EraseSession(s)
  BY <1>7, EraseSessionInv
<1>8. CASE UNCHANGED vars
  BY <1>8, IoStutterInv
<1> QED
  BY <1>1, <1>2, <1>3, <1>4, <1>5, <1>6, <1>7, <1>8 DEF Next

(* Types; a session has one reference and an account of its bytes; read    *)
(* stays at the end of a packet and a key leads to its session for as long *)
(* as they can (RunIoThread, OnIoCompleted and OnRecvIoCompleted).         *)
THEOREM IoInvariant == Spec => []IoInv
<1>1. Init => IoInv
  BY IoInitInv
<1>2. IoInv /\ [Next]_vars => IoInv'
  BY IoNextInv
<1> QED
  BY <1>1, <1>2, PTL DEF Spec

(* A session takes bytes of its own connection only, and each once,        *)
(* whatever session a shared key leads to (ServerCore::OnIoCompleted).     *)
THEOREM BytesStayHolds == Spec => []BytesStayWithTheirSession
<1>1. IoInv => BytesStayWithTheirSession
  BY DEF IoInv, BytesInPlace, BytesStayWithTheirSession
<1> QED
  BY <1>1, IoInvariant, PTL

(* As long as no receive ends inside a payload, the mailbox holds the      *)
(* packets of the client, whole and in order, however the stream is split  *)
(* (ServerCore::OnRecvIoCompleted).                                        *)
THEOREM WholePacketsInOrderHolds == Spec => []WholePacketsInOrder
<1>1. IoInv => WholePacketsInOrder
  BY DEF IoInv, PacketsInPlace, WholePacketsInOrder
<1> QED
  BY <1>1, IoInvariant, PTL

(* A session has at most one reference, which References counts.           *)
LEMMA AtMostOneReference ==
  ASSUME IoInv, NEW s \in Sessions
  PROVE  References(s) = IF Referenced(s) THEN 1 ELSE 0
<1> DEFINE H == {t \in IoThreads : Holds(t, s)}
<1>1. /\ Pending(s) => s \notin posted
      /\ Pending(s) \/ s \in posted => port[s] = NoResult
      /\ \A t \in IoThreads : Holds(t, s) => ~Pending(s) /\ s \notin posted /\ port[s] = NoResult
      /\ \A t, u \in IoThreads : Holds(t, s) /\ Holds(u, s) => t = u
  BY DEF IoInv, OneReference
<1>2. Cardinality(H) = IF H = {} THEN 0 ELSE 1
  <2>1. CASE H = {}
    BY <2>1, FS_EmptySet
  <2>2. CASE H # {}
    <3>1. PICK t : H = {t}
      BY <1>1, <2>2
    <3> QED
      BY <2>2, <3>1, FS_Singleton
  <2> QED
    BY <2>1, <2>2
<1>3. Cardinality({s} \cap posted) = IF s \in posted THEN 1 ELSE 0
  <2>1. CASE s \in posted
    <3>1. {s} \cap posted = {s}
      BY <2>1
    <3> QED
      BY <2>1, <3>1, FS_Singleton
  <2>2. CASE s \notin posted
    <3>1. {s} \cap posted = {}
      BY <2>2
    <3> QED
      BY <2>2, <3>1, FS_EmptySet
  <2> QED
    BY <2>1, <2>2
<1>4. Referenced(s) <=> Pending(s) \/ s \in posted \/ port[s] # NoResult \/ H # {}
  BY DEF Referenced
<1>5. H # {} => ~Pending(s) /\ s \notin posted /\ port[s] = NoResult
  BY <1>1
<1>6. References(s) = (IF Pending(s) THEN 1 ELSE 0) + Cardinality({s} \cap posted)
                      + (IF port[s] # NoResult THEN 1 ELSE 0) + Cardinality(H)
  BY DEF References
<1> HIDE DEF H
<1> QED
  BY <1>1, <1>2, <1>3, <1>4, <1>5, <1>6

(* As long as no slot of the key pool serves two sessions of the map, the  *)
(* count of a session is its references, and one without references is     *)
(* queued for its release (ServerCore::RunIoThread, DecreaseIOCount).      *)
THEOREM CountExactHolds == Spec => []CountExactUntilKeyShared
<1>1. IoInv => CountExactUntilKeyShared
  <2> SUFFICES ASSUME IoInv, ~keyShared, NEW s \in sessionMap
               PROVE  ioCount[s] = References(s) /\ (ioCount[s] = 0 => s \in releaseQueue)
    BY DEF CountExactUntilKeyShared
  <2>1. s \in 1 .. accepted /\ s \in Sessions
    BY AcceptedAreSessions DEF IoInv, IoTypeOK
  <2>2. /\ ioCount[s] = IF Referenced(s) THEN 1 ELSE 0
        /\ s \in releaseQueue <=> ~Referenced(s)
    BY <2>1 DEF IoInv, KeysInPlace, Tracked
  <2> QED
    BY <2>1, <2>2, AtMostOneReference
<1> QED
  BY <1>1, IoInvariant, PTL
=============================================================================
