----------------------- MODULE SessionLifecycleProofs -----------------------
(***************************************************************************)
(* Proofs about SessionLifecycle, for any number of sessions and IO        *)
(* threads.                                                                *)
(***************************************************************************)
EXTENDS SessionLifecycle, FiniteSetTheorems, SequenceTheorems, TLAPS

(* What a step does to the places of the threads, without the records.     *)
Apart(t) == at' \in [Threads -> Where] /\ \A u \in Threads \ {t} : at'[u] = at[u]

Moved(t, pc) ==
  /\ Apart(t)
  /\ at'[t].pc = pc
  /\ at'[t].s = at[t].s
  /\ at'[t].op = at[t].op
  /\ at'[t].then = at[t].then

Returned(t) ==
  /\ Apart(t)
  /\ at[t].then = "dosend" => /\ at'[t].pc = "dosend"
                              /\ at'[t].s = at[t].s
                              /\ at'[t].then = "idle"
  /\ at[t].then # "dosend" => /\ at'[t].pc = at[t].then
                              /\ at'[t].s = None
                              /\ at'[t].then = at[t].then

(* The fields of a place have their types.                                 *)
LEMMA Fields ==
  ASSUME NEW r \in Where
  PROVE  /\ r.pc \in {"idle", "pass", "insert", "wsarecv", "find", "received",
                      "sent", "dosend", "wsasend", "decrease", "release"}
         /\ r.s \in Sessions \cup {None}
         /\ r.op \in {"none", "recv", "send", "bad"}
         /\ r.then \in {"idle", "pass", "dosend"}
  BY DEF Where

(* One thread is put in a place.                                           *)
LEMMA Puts ==
  ASSUME at \in [Threads -> Where], NEW t \in Threads, NEW r \in Where,
         at' = [at EXCEPT ![t] = r]
  PROVE  Apart(t) /\ at'[t] = r
  BY DEF Apart

(* Goto changes one program counter.                                       *)
LEMMA Goes ==
  ASSUME at \in [Threads -> Where], NEW t \in Threads,
         NEW pc \in {"idle", "pass", "insert", "wsarecv", "find", "received",
                     "sent", "dosend", "wsasend", "decrease", "release"},
         Goto(t, pc)
  PROVE  Moved(t, pc)
<1> DEFINE r == [at[t] EXCEPT !.pc = pc]
<1>1. at[t] \in Where
  OBVIOUS
<1>2. /\ r \in Where
      /\ r.pc = pc /\ r.s = at[t].s /\ r.op = at[t].op /\ r.then = at[t].then
  BY <1>1 DEF Where
<1>3. at' = [at EXCEPT ![t] = r]
  BY DEF Goto
<1> HIDE DEF r
<1> QED
  BY <1>2, <1>3, Puts DEF Moved

(* Return goes back to where the call came from.                           *)
LEMMA Returns ==
  ASSUME at \in [Threads -> Where], NEW t \in Threads, Return(t)
  PROVE  Returned(t)
<1>1. at[t] \in Where
  OBVIOUS
<1>2. Idle \in Where /\ InPass \in Where
  BY DEF Where, Idle, InPass
<1>3. CASE at[t].then = "dosend"
  <2> DEFINE r == [at[t] EXCEPT !.pc = "dosend", !.then = "idle"]
  <2>1. r \in Where /\ r.pc = "dosend" /\ r.s = at[t].s /\ r.then = "idle"
    BY <1>1 DEF Where
  <2>2. at' = [at EXCEPT ![t] = r]
    BY <1>3 DEF Return
  <2> HIDE DEF r
  <2> QED
    BY <1>3, <2>1, <2>2, Puts DEF Returned
<1>4. CASE at[t].then = "pass"
  <2>1. at' = [at EXCEPT ![t] = InPass]
    BY <1>4 DEF Return
  <2> QED
    BY <1>2, <1>4, <2>1, Puts DEF Returned, InPass
<1>5. CASE at[t].then = "idle"
  <2>1. at' = [at EXCEPT ![t] = Idle]
    BY <1>5 DEF Return
  <2> QED
    BY <1>2, <1>5, <2>1, Puts DEF Returned, Idle
<1> QED
  BY <1>1, <1>3, <1>4, <1>5, Fields

(* Every session starts unknown and every thread idle.                     *)
LEMMA InitInv == Init => LifecycleInv
<1> SUFFICES ASSUME Init PROVE LifecycleInv
  OBVIOUS
<1>1. \A t \in Threads : at[t] = Idle
  BY DEF Init
<1>2. Accept \in Threads /\ Logic \in Threads /\ None \notin Sessions
  BY LifecycleAssumption DEF Threads
<1>3. TypeOK
  <2>1. ioCount \in [Sessions -> Int] /\ disconnected \in [Sessions -> Nat]
    BY DEF Init
  <2>2. ioMode \in [Sessions -> {"IO_NONE_SENDING", "IO_SENDING"}]
    BY DEF Init
  <2>3. Idle \in Where
    BY DEF Idle, Where
  <2>4. at \in [Threads -> Where]
    BY <2>3 DEF Init
  <2>5. releaseQueue \in Seq(Sessions)
    BY DEF Init
  <2> QED
    BY <2>1, <2>2, <2>4, <2>5 DEF Init, TypeOK
<1>4. ThreadsInPlace /\ PassInPlace /\ ReleaseInPlace
  BY <1>1, <1>2, LifecycleAssumption
  DEF Init, ThreadsInPlace, InPlace, PassInPlace, ReleaseInPlace, Idle
<1>5. NewInPlace /\ ReceiverInPlace /\ ReleaserAwake
  BY <1>1, <1>2 DEF Init, NewInPlace, Untouched, Queued, Idle, Threads,
     ReceiverInPlace, Receiving, ReleaserAwake
<1>8. SenderInPlace
  BY <1>1, <1>2 DEF Init, SenderInPlace, Sending, Idle
<1>6. UsersCounted
  BY FS_EmptySet DEF Init, UsersCounted
<1>7. LogicNeverInClosedSession /\ DisconnectedAtMostOnce
  BY <1>1, <1>2
  DEF Init, Idle, LogicNeverInClosedSession, DisconnectedAtMostOnce
<1> QED
  BY <1>3, <1>4, <1>5, <1>6, <1>7, <1>8 DEF LifecycleInv

(* What a step of thread t leaves alone: everything but its own session.   *)
Local(t) ==
  /\ Apart(t)
  /\ at[t].s \in accepted
  /\ at'[t].s \in {None, at[t].s}
  /\ UNCHANGED <<accepted, disconnected, releaseAt, releaseTarget, logicTodo>>
  /\ \A s \in Sessions \ {at[t].s} :
       /\ ioCount'[s] = ioCount[s]
       /\ ioMode'[s] = ioMode[s]
       /\ s \in recvPosted' <=> s \in recvPosted
       /\ s \in sendPosted' <=> s \in sendPosted
       /\ s \in sessionMap' <=> s \in sessionMap
       /\ Queued(s)' <=> Queued(s)

(* The key at the front of the release queue is queued.                    *)
LEMMA HeadQueued ==
  ASSUME releaseQueue \in Seq(Sessions), releaseQueue # << >>
  PROVE  Head(releaseQueue) \in Sessions /\ Queued(Head(releaseQueue))
<1>1. Len(releaseQueue) \in Nat /\ Len(releaseQueue) # 0
  BY EmptySeq, LenProperties
<1>2. 1 \in 1 .. Len(releaseQueue) /\ Head(releaseQueue) = releaseQueue[1]
  BY <1>1
<1> QED
  BY <1>2, ElementOfSeq DEF Queued

(* Taking the key at the front leaves the others queued.                   *)
LEMMA TailQueued ==
  ASSUME releaseQueue \in Seq(Sessions), releaseQueue # << >>,
         releaseQueue' = Tail(releaseQueue)
  PROVE  /\ releaseQueue' \in Seq(Sessions)
         /\ \A s : Queued(s)' => Queued(s)
         /\ \A s : Queued(s) => Queued(s)' \/ s = Head(releaseQueue)
<1>1. Len(releaseQueue) \in Nat /\ Head(releaseQueue) = releaseQueue[1]
  BY LenProperties
<1>2. /\ releaseQueue' \in Seq(Sessions)
      /\ Len(releaseQueue') = Len(releaseQueue) - 1
      /\ \A i \in 1 .. Len(releaseQueue') : releaseQueue'[i] = releaseQueue[i + 1]
  BY HeadTailProperties
<1>3. ASSUME NEW s, NEW i \in 1 .. Len(releaseQueue'), releaseQueue'[i] = s
      PROVE  Queued(s)
  <2>1. i + 1 \in 1 .. Len(releaseQueue) /\ releaseQueue[i + 1] = s
    BY <1>1, <1>2, <1>3
  <2> QED
    BY <2>1 DEF Queued
<1>4. ASSUME NEW s, NEW i \in 1 .. Len(releaseQueue), releaseQueue[i] = s,
             s # Head(releaseQueue)
      PROVE  Queued(s)'
  <2>1. i # 1
    BY <1>1, <1>4
  <2>2. i - 1 \in 1 .. Len(releaseQueue')
    BY <1>1, <1>2, <2>1
  <2>3. releaseQueue'[i - 1] = releaseQueue[(i - 1) + 1]
    BY <1>2, <2>2
  <2>4. (i - 1) + 1 = i
    BY <1>1
  <2> QED
    BY <1>4, <2>2, <2>3, <2>4 DEF Queued
<1> QED
  BY <1>2, <1>3, <1>4 DEF Queued

(* A key added at the back is queued, and so are those before it.          *)
LEMMA AppendQueued ==
  ASSUME releaseQueue \in Seq(Sessions), NEW x \in Sessions,
         releaseQueue' = Append(releaseQueue, x)
  PROVE  /\ releaseQueue' \in Seq(Sessions)
         /\ releaseQueue' # << >>
         /\ releaseQueue # << >> => Head(releaseQueue') = Head(releaseQueue)
         /\ \A s : Queued(s)' <=> Queued(s) \/ s = x
<1>1. Len(releaseQueue) \in Nat
  BY LenProperties
<1>2. /\ releaseQueue' \in Seq(Sessions)
      /\ Len(releaseQueue') = Len(releaseQueue) + 1
      /\ \A i \in 1 .. Len(releaseQueue) : releaseQueue'[i] = releaseQueue[i]
      /\ releaseQueue'[Len(releaseQueue) + 1] = x
  BY AppendProperties
<1>3. Len(releaseQueue) + 1 \in 1 .. Len(releaseQueue')
  BY <1>1, <1>2
<1>4. \A s : Queued(s)' => Queued(s) \/ s = x
  <2> SUFFICES ASSUME NEW s, NEW i \in 1 .. Len(releaseQueue'), releaseQueue'[i] = s
               PROVE  Queued(s) \/ s = x
    BY DEF Queued
  <2>1. i \in 1 .. Len(releaseQueue) \/ i = Len(releaseQueue) + 1
    BY <1>1, <1>2
  <2> QED
    BY <1>2, <2>1 DEF Queued
<1>5. \A s : Queued(s) => Queued(s)'
  <2> SUFFICES ASSUME NEW s, NEW i \in 1 .. Len(releaseQueue), releaseQueue[i] = s
               PROVE  Queued(s)'
    BY DEF Queued
  <2>1. i \in 1 .. Len(releaseQueue') /\ releaseQueue'[i] = s
    BY <1>1, <1>2
  <2> QED
    BY <2>1 DEF Queued
<1>6. Queued(x)'
  BY <1>2, <1>3 DEF Queued
<1>7. releaseQueue' # << >>
  BY <1>1, <1>2, EmptySeq
<1>8. ASSUME releaseQueue # << >>
      PROVE  Head(releaseQueue') = Head(releaseQueue)
  <2>1. Len(releaseQueue) # 0
    BY <1>8, EmptySeq
  <2>2. 1 \in 1 .. Len(releaseQueue)
    BY <1>1, <2>1
  <2>3. Head(releaseQueue) = releaseQueue[1] /\ Head(releaseQueue') = releaseQueue'[1]
    BY <1>1, <1>2
  <2> QED
    BY <1>2, <2>2, <2>3
<1> QED
  BY <1>2, <1>4, <1>5, <1>6, <1>7, <1>8

(* A session in the hands of the accept thread is no other thread's.       *)
LEMMA LocalNew ==
  ASSUME TypeOK, ThreadsInPlace, NewInPlace, NEW t \in Threads, Local(t),
         t = Accept => at'[t].pc # "insert"
  PROVE  NewInPlace'
<1>1. ASSUME NEW s \in Sessions, s # at[t].s, Untouched(s)
      PROVE  Untouched(s)'
  <2>1. s # None
    BY LifecycleAssumption
  <2>2. \A u \in Threads \ {Accept} : at'[u].s # s
    BY <1>1, <2>1 DEF Local, Apart, Untouched
  <2> QED
    BY <1>1, <2>2 DEF Local, Untouched
<1>2. \A s \in Sessions \ accepted' : Untouched(s)'
  BY <1>1 DEF Local, NewInPlace
<1>3. (at[Accept].pc = "insert" =>
         Untouched(at[Accept].s) /\ ioCount[at[Accept].s] = 1)'
  <2> SUFFICES ASSUME at'[Accept].pc = "insert"
               PROVE  (Untouched(at[Accept].s) /\ ioCount[at[Accept].s] = 1)'
    OBVIOUS
  <2>1. t # Accept /\ Accept \in Threads
    BY DEF Threads
  <2>2. at'[Accept] = at[Accept]
    BY <2>1 DEF Local, Apart
  <2>3. /\ Untouched(at[Accept].s) /\ ioCount[at[Accept].s] = 1
        /\ at[Accept].s \in accepted
    BY <2>1, <2>2 DEF NewInPlace, ThreadsInPlace, InPlace
  <2>4. at[Accept].s # at[t].s /\ at[Accept].s \in Sessions
    BY <2>1, <2>3 DEF Untouched, TypeOK
  <2>5. Untouched(at[Accept].s)'
    <3> DEFINE x == at[Accept].s
    <3>1. (x \in Sessions /\ x # at[t].s /\ Untouched(x)) /\ x' = x
      BY <2>2, <2>3, <2>4
    <3>2. /\ x \notin sessionMap' \cup recvPosted' \cup sendPosted'
          /\ ~Queued(x)'
          /\ disconnected'[x] = 0
          /\ x # None
      BY <2>2, <2>3, <2>4, LifecycleAssumption DEF Local, Untouched, Queued
    <3>3. \A u \in Threads \ {Accept} : at'[u].s # x
      BY <3>1, <3>2 DEF Local, Apart, Untouched
    <3> QED
      BY <2>2, <3>2, <3>3 DEF Untouched, Queued
  <2> QED
    BY <2>2, <2>3, <2>4, <2>5 DEF Local
<1> QED
  BY <1>2, <1>3 DEF NewInPlace

(* A step of one thread makes no second receiver of its session.           *)
LEMMA LocalReceiver ==
  ASSUME ReceiverInPlace, NEW t \in Threads, Local(t), NEW x \in Sessions, x = at[t].s,
         t \in Receiving(x)' => t \in Receiving(x),
         x \in recvPosted' =>
           \/ x \in recvPosted
           \/ t \in Receiving(x) /\ t \notin Receiving(x)'
           \/ t = Accept /\ at[t].pc = "wsarecv",
         t = Accept /\ at'[t].pc = "wsarecv" =>
           x \notin recvPosted' /\ Receiving(x) = {}
  PROVE  ReceiverInPlace'
<1>1. \A s \in Sessions : s # None
  BY LifecycleAssumption
<1>2. \A u \in Threads : u # t => at'[u] = at[u]
  BY DEF Local, Apart
<1>3. x \in accepted /\ at'[t].s \in {None, x}
  BY DEF Local
<1>4. \A s \in Sessions \ {x} : s \in recvPosted' <=> s \in recvPosted
  BY DEF Local
<1>5. ASSUME NEW s \in Sessions
      PROVE  Receiving(s)' \subseteq Receiving(s)
  <2> SUFFICES ASSUME NEW u \in Receiving(s)'
               PROVE  u \in Receiving(s)
    OBVIOUS
  <2>1. /\ u \in IoThreads /\ at'[u].s = s /\ at'[u].op = "recv"
        /\ at'[u].pc \in {"find", "received"}
    BY DEF Receiving
  <2>2. CASE u # t
    BY <1>2, <2>1, <2>2 DEF Receiving, Threads
  <2>3. CASE u = t
    <3>1. s = x
      BY <1>1, <1>3, <2>1, <2>3
    <3> QED
      BY <2>3, <3>1
  <2> QED
    BY <2>2, <2>3
<1>6. ASSUME NEW s \in Sessions, s \in recvPosted'
      PROVE  Receiving(s)' = {}
  <2>1. CASE s \in recvPosted
    BY <1>5, <2>1 DEF ReceiverInPlace
  <2>2. CASE s \notin recvPosted
    <3>1. s = x
      BY <1>4, <1>6, <2>2
    <3>2. CASE t \in Receiving(s) /\ t \notin Receiving(s)'
      <4>1. \A u \in Receiving(s) : u = t
        BY <3>2 DEF ReceiverInPlace
      <4> QED
        BY <1>5, <3>2, <4>1
    <3>3. CASE t = Accept /\ at[t].pc = "wsarecv"
      <4>1. Receiving(s) = {}
        BY <3>1, <3>3 DEF ReceiverInPlace
      <4> QED
        BY <1>5, <4>1
    <3> QED
      BY <1>6, <2>2, <3>1, <3>2, <3>3
  <2> QED
    BY <2>1, <2>2
<1>7. ASSUME NEW s \in Sessions, at'[Accept].s = s, at'[Accept].pc = "wsarecv"
      PROVE  s \notin recvPosted' /\ Receiving(s)' = {}
  <2>1. CASE t = Accept
    <3>1. s = x
      BY <1>1, <1>3, <1>7, <2>1
    <3> QED
      BY <1>5, <1>7, <2>1, <3>1
  <2>2. CASE t # Accept
    <3>1. at[Accept].s = s /\ at[Accept].pc = "wsarecv"
      BY <1>2, <1>7, <2>2 DEF Threads
    <3>2. s \notin recvPosted /\ Receiving(s) = {}
      BY <3>1 DEF ReceiverInPlace
    <3>3. s \notin recvPosted'
      BY <1>4, <2>2, <3>2
    <3> QED
      BY <1>5, <3>2, <3>3
  <2> QED
    BY <2>1, <2>2
<1>8. ASSUME NEW s \in Sessions, NEW u \in Receiving(s)', NEW v \in Receiving(s)'
      PROVE  u = v
  BY <1>5 DEF ReceiverInPlace
<1> QED
  BY <1>6, <1>7, <1>8 DEF ReceiverInPlace

(* A step of one thread starts a send only where there was none.           *)
LEMMA LocalSender ==
  ASSUME SenderInPlace, NEW t \in Threads, Local(t), NEW x \in Sessions, x = at[t].s,
         t \in Sending(x)' => t \in Sending(x) \/ ioMode[x] = "IO_NONE_SENDING",
         x \in sendPosted' =>
           x \in sendPosted \/ (t \in Sending(x) /\ t \notin Sending(x)'),
         ioMode'[x] = "IO_NONE_SENDING" =>
           /\ ioMode[x] = "IO_NONE_SENDING" \/ t \in Sending(x)
           /\ t \notin Sending(x)'
           /\ x \in sendPosted' => x \in sendPosted
  PROVE  SenderInPlace'
<1>1. \A s \in Sessions : s # None
  BY LifecycleAssumption
<1>2. \A u \in Threads : u # t => at'[u] = at[u]
  BY DEF Local, Apart
<1>3. at'[t].s \in {None, x}
  BY DEF Local
<1>4. \A s \in Sessions : Sending(s)' \ {t} = Sending(s) \ {t}
  BY <1>2 DEF Sending
<1>5. \A s \in Sessions \ {x} : Sending(s)' = Sending(s)
  <2>1. \A s \in Sessions \ {x} : t \notin Sending(s) /\ t \notin Sending(s)'
    BY <1>1, <1>3 DEF Sending
  <2> QED
    BY <1>4, <2>1
<1>6. \A s \in Sessions \ {x} : /\ s \in sendPosted' <=> s \in sendPosted
                                /\ ioMode'[s] = ioMode[s]
  BY DEF Local
<1>7. /\ \A u, v \in Sending(x) : u = v
      /\ x \in sendPosted => Sending(x) = {}
      /\ ioMode[x] = "IO_NONE_SENDING" => x \notin sendPosted /\ Sending(x) = {}
  BY DEF SenderInPlace
<1>8. /\ \A u, v \in Sending(x)' : u = v
      /\ x \in sendPosted' => Sending(x)' = {}
      /\ ioMode'[x] = "IO_NONE_SENDING" => x \notin sendPosted' /\ Sending(x)' = {}
  BY <1>4, <1>7
<1> QED
  BY <1>5, <1>6, <1>8 DEF SenderInPlace

(* A step of one thread leaves the pass of the logic thread alone.         *)
LEMMA LocalPass ==
  ASSUME PassInPlace, LogicNeverInClosedSession, NEW t \in Threads, Local(t),
         sessionMap \subseteq sessionMap',
         t = Logic => at'[t].pc # "idle"
  PROVE  PassInPlace' /\ LogicNeverInClosedSession'
<1>1. Logic \in Threads /\ \A s \in Sessions : s # None
  BY LifecycleAssumption DEF Threads
<1>2. at'[Logic].pc = "idle" => at[Logic].pc = "idle"
  BY <1>1 DEF Local, Apart
<1>3. \A s \in Sessions : at'[Logic].s = s => at[Logic].s = s
  BY <1>1 DEF Local, Apart
<1> QED
  BY <1>2, <1>3 DEF Local, PassInPlace, LogicNeverInClosedSession

(* What is left to show of a step that leaves other sessions alone.        *)
LEMMA LocalInv ==
  ASSUME LifecycleInv, NEW t \in Threads, Local(t), NEW x \in Sessions, x = at[t].s,
         t = Accept => at'[t].pc # "insert",
         t = Logic => at'[t].pc # "idle",
         t \in Receiving(x)' => t \in Receiving(x),
         x \in recvPosted' =>
           \/ x \in recvPosted
           \/ t \in Receiving(x) /\ t \notin Receiving(x)'
           \/ t = Accept /\ at[t].pc = "wsarecv",
         t = Accept /\ at'[t].pc = "wsarecv" =>
           x \notin recvPosted' /\ Receiving(x) = {},
         t \in Sending(x)' => t \in Sending(x) \/ ioMode[x] = "IO_NONE_SENDING",
         x \in sendPosted' =>
           x \in sendPosted \/ (t \in Sending(x) /\ t \notin Sending(x)'),
         ioMode'[x] = "IO_NONE_SENDING" =>
           /\ ioMode[x] = "IO_NONE_SENDING" \/ t \in Sending(x)
           /\ t \notin Sending(x)'
           /\ x \in sendPosted' => x \in sendPosted,
         sessionMap \subseteq sessionMap',
         TypeOK', InPlace(t)', ReleaseInPlace', ReleaserAwake', UsersCounted',
         DisconnectedAtMostOnce'
  PROVE  LifecycleInv'
<1> USE DEF LifecycleInv
<1>1. ThreadsInPlace'
  BY DEF Local, Apart, ThreadsInPlace, InPlace
<1>2. NewInPlace'
  BY LocalNew
<1>3. ReceiverInPlace' /\ SenderInPlace'
  BY LocalReceiver, LocalSender
<1>4. PassInPlace' /\ LogicNeverInClosedSession'
  BY LocalPass
<1> QED
  BY <1>1, <1>2, <1>3, <1>4

LEMMA DecreaseIOCountLocal ==
  ASSUME LifecycleInv, NEW t \in Threads, DecreaseIOCount(t)
  PROVE  /\ IF ioCount[at[t].s] = 1 THEN Moved(t, "release") ELSE Returned(t)
         /\ Local(t)
         /\ releaseQueue' \in Seq(Sessions)
<1> USE DEF LifecycleInv
<1>1. /\ t \in Threads /\ at[t] \in Where /\ at \in [Threads -> Where]
      /\ at[t].s \in accepted /\ at[t].s \in Sessions
  BY DEF Threads, TypeOK, ThreadsInPlace, InPlace, DecreaseIOCount
<1>2. IF ioCount[at[t].s] = 1 THEN Moved(t, "release") ELSE Returned(t)
  BY <1>1, Goes, Returns DEF DecreaseIOCount
<1>3. /\ releaseQueue' \in Seq(Sessions)
      /\ \A s \in Sessions \ {at[t].s} : Queued(s)' <=> Queued(s)
  BY <1>1 DEF DecreaseIOCount, release, TypeOK, Queued
<1>4. Local(t)
  BY <1>1, <1>2, <1>3
  DEF Local, DecreaseIOCount, TypeOK, kernel, map, release, Moved, Returned,
     Apart
<1> QED
  BY <1>2, <1>3, <1>4

LEMMA DecreaseIOCountInv ==
  ASSUME LifecycleInv, NEW t \in Threads, DecreaseIOCount(t)
  PROVE  LifecycleInv'
<1> USE DEF LifecycleInv
<1>1. /\ t \in Threads /\ at[t] \in Where /\ at[t].s \in Sessions
      /\ InPlace(t)
  BY DEF Threads, TypeOK, ThreadsInPlace, InPlace, DecreaseIOCount
<1>2. IF ioCount[at[t].s] = 1 THEN Moved(t, "release") ELSE Returned(t)
  BY DecreaseIOCountLocal
<1>3. releaseQueue' \in Seq(Sessions)
  BY DecreaseIOCountLocal
<1>4. Local(t)
  BY DecreaseIOCountLocal
<1>5. TypeOK'
  BY <1>1, <1>3, <1>4
  DEF Local, Apart, DecreaseIOCount, TypeOK, kernel, map, release
<1>6. InPlace(t)'
  BY <1>1, <1>2, Fields, LifecycleAssumption
  DEF DecreaseIOCount, InPlace, Moved, Returned
<1>7. PICK x \in Sessions : x = at[t].s
  BY <1>1
<1>8. /\ t = Accept => at'[t].pc # "insert"
      /\ t = Logic => at'[t].pc # "idle"
  BY <1>1, <1>2, Fields, LifecycleAssumption
  DEF DecreaseIOCount, InPlace, Moved, Returned, Threads
<1>9. t \in Receiving(x)' => t \in Receiving(x)
  BY <1>1, <1>2, <1>7, LifecycleAssumption, Fields
  DEF DecreaseIOCount, Receiving, Moved, Returned, InPlace, Threads
<1>10. x \in recvPosted' =>
         \/ x \in recvPosted
         \/ t \in Receiving(x) /\ t \notin Receiving(x)'
         \/ t = Accept /\ at[t].pc = "wsarecv"
  BY <1>1, <1>2, <1>7, LifecycleAssumption
  DEF DecreaseIOCount, kernel, Receiving, Moved, InPlace
<1>11. t = Accept /\ at'[t].pc = "wsarecv" => x \notin recvPosted' /\ Receiving(x) = {}
  BY <1>1, <1>2, <1>6, <1>7, LifecycleAssumption
  DEF DecreaseIOCount, kernel, Receiving, Moved, Returned, InPlace, Threads
<1>12. sessionMap \subseteq sessionMap' /\ DisconnectedAtMostOnce' /\ ReleaseInPlace' /\ ReleaserAwake'
  BY <1>1
  DEF DecreaseIOCount, map, ReleaserAwake, release, TypeOK,
     DisconnectedAtMostOnce, ReleaseInPlace
<1>13. UsersCounted'
  BY DEF UsersCounted, DecreaseIOCount, map
<1>14. t \in Sending(x)' => t \in Sending(x) \/ ioMode[x] = "IO_NONE_SENDING"
  BY <1>1, <1>2, <1>7, LifecycleAssumption
  DEF DecreaseIOCount, Sending, Moved, Returned, InPlace
<1>15. x \in sendPosted' =>
         x \in sendPosted \/ (t \in Sending(x) /\ t \notin Sending(x)')
  BY <1>1, <1>2, <1>7, Fields
  DEF DecreaseIOCount, kernel, Sending, Moved, Returned
<1>16. ioMode'[x] = "IO_NONE_SENDING" =>
         /\ ioMode[x] = "IO_NONE_SENDING" \/ t \in Sending(x)
         /\ t \notin Sending(x)'
         /\ x \in sendPosted' => x \in sendPosted
  BY <1>1, <1>2, <1>7, LifecycleAssumption
  DEF DecreaseIOCount, kernel, Sending, Moved, Returned, InPlace, TypeOK,
     SenderInPlace
<1> QED
  BY <1>1, <1>4, <1>5, <1>6, <1>7, <1>8, <1>9, <1>10, <1>11, <1>12, <1>13,
     <1>14, <1>15, <1>16, LocalInv

LEMMA ReleaseSessionLocal ==
  ASSUME LifecycleInv, NEW t \in Threads, ReleaseSession(t)
  PROVE  /\ Returned(t)
         /\ Local(t)
         /\ releaseQueue' \in Seq(Sessions)
<1> USE DEF LifecycleInv
<1>1. /\ t \in Threads /\ at[t] \in Where /\ at \in [Threads -> Where]
      /\ at[t].s \in accepted /\ at[t].s \in Sessions
  BY DEF Threads, TypeOK, ThreadsInPlace, InPlace, ReleaseSession
<1>2. Returned(t)
  BY <1>1, Returns DEF ReleaseSession
<1>3. /\ releaseQueue' \in Seq(Sessions)
      /\ \A s \in Sessions \ {at[t].s} : Queued(s)' <=> Queued(s)
  BY <1>1, AppendQueued DEF ReleaseSession, release, TypeOK, Queued
<1>4. Local(t)
  BY <1>1, <1>2, <1>3
  DEF Local, ReleaseSession, TypeOK, kernel, map, release, Returned, Apart,
     QueueMutexFree
<1> QED
  BY <1>2, <1>3, <1>4

LEMMA ReleaseSessionInv ==
  ASSUME LifecycleInv, NEW t \in Threads, ReleaseSession(t)
  PROVE  LifecycleInv'
<1> USE DEF LifecycleInv
<1>1. /\ t \in Threads /\ at[t] \in Where /\ at[t].s \in Sessions
      /\ InPlace(t)
  BY DEF Threads, TypeOK, ThreadsInPlace, InPlace, ReleaseSession
<1>2. Returned(t)
  BY ReleaseSessionLocal
<1>3. releaseQueue' \in Seq(Sessions)
  BY ReleaseSessionLocal
<1>4. Local(t)
  BY ReleaseSessionLocal
<1>5. TypeOK'
  BY <1>1, <1>3, <1>4
  DEF Local, Apart, ReleaseSession, TypeOK, kernel, map, release
<1>6. InPlace(t)'
  BY <1>1, <1>2, Fields, LifecycleAssumption
  DEF ReleaseSession, InPlace, Returned, QueueMutexFree
<1>7. PICK x \in Sessions : x = at[t].s
  BY <1>1
<1>8. /\ t = Accept => at'[t].pc # "insert"
      /\ t = Logic => at'[t].pc # "idle"
  BY <1>1, <1>2, Fields, LifecycleAssumption
  DEF ReleaseSession, InPlace, Returned, Threads, QueueMutexFree
<1>9. t \in Receiving(x)' => t \in Receiving(x)
  BY <1>1, <1>2, <1>7, LifecycleAssumption, Fields
  DEF ReleaseSession, Receiving, Returned, InPlace, Threads, QueueMutexFree
<1>10. x \in recvPosted' =>
         \/ x \in recvPosted
         \/ t \in Receiving(x) /\ t \notin Receiving(x)'
         \/ t = Accept /\ at[t].pc = "wsarecv"
  BY <1>1, <1>2, <1>7, LifecycleAssumption
  DEF ReleaseSession, kernel, Receiving, InPlace, QueueMutexFree
<1>11. t = Accept /\ at'[t].pc = "wsarecv" => x \notin recvPosted' /\ Receiving(x) = {}
  BY <1>1, <1>2, <1>6, <1>7, LifecycleAssumption
  DEF ReleaseSession, kernel, Receiving, Returned, InPlace, Threads,
     QueueMutexFree
<1>12. sessionMap \subseteq sessionMap' /\ DisconnectedAtMostOnce' /\ ReleaseInPlace' /\ ReleaserAwake'
  BY <1>1, AppendQueued
  DEF ReleaseSession, map, ReleaserAwake, release, TypeOK,
     DisconnectedAtMostOnce, ReleaseInPlace
<1>13. UsersCounted'
  BY DEF UsersCounted, ReleaseSession, map
<1>14. t \in Sending(x)' => t \in Sending(x) \/ ioMode[x] = "IO_NONE_SENDING"
  BY <1>1, <1>2, <1>7, LifecycleAssumption
  DEF ReleaseSession, Sending, Returned, InPlace, QueueMutexFree
<1>15. x \in sendPosted' =>
         x \in sendPosted \/ (t \in Sending(x) /\ t \notin Sending(x)')
  BY <1>1, <1>2, <1>7, Fields
  DEF ReleaseSession, kernel, Sending, Returned, QueueMutexFree
<1>16. ioMode'[x] = "IO_NONE_SENDING" =>
         /\ ioMode[x] = "IO_NONE_SENDING" \/ t \in Sending(x)
         /\ t \notin Sending(x)'
         /\ x \in sendPosted' => x \in sendPosted
  BY <1>1, <1>2, <1>7, LifecycleAssumption
  DEF ReleaseSession, kernel, Sending, Returned, InPlace, TypeOK,
     SenderInPlace, QueueMutexFree
<1> QED
  BY <1>1, <1>4, <1>5, <1>6, <1>7, <1>8, <1>9, <1>10, <1>11, <1>12, <1>13,
     <1>14, <1>15, <1>16, LocalInv

LEMMA DoSendNothingLocal ==
  ASSUME LifecycleInv, NEW t \in Threads, DoSendNothing(t)
  PROVE  /\ Returned(t)
         /\ Local(t)
         /\ releaseQueue' \in Seq(Sessions)
<1> USE DEF LifecycleInv
<1>1. /\ t \in Threads /\ at[t] \in Where /\ at \in [Threads -> Where]
      /\ at[t].s \in accepted /\ at[t].s \in Sessions
  BY DEF Threads, TypeOK, ThreadsInPlace, InPlace, DoSendNothing
<1>2. Returned(t)
  BY <1>1, Returns DEF DoSendNothing
<1>3. /\ releaseQueue' \in Seq(Sessions)
      /\ \A s \in Sessions \ {at[t].s} : Queued(s)' <=> Queued(s)
  BY <1>1 DEF DoSendNothing, release, TypeOK, Queued
<1>4. Local(t)
  BY <1>1, <1>2, <1>3
  DEF Local, DoSendNothing, TypeOK, kernel, map, release, Returned, Apart
<1> QED
  BY <1>2, <1>3, <1>4

LEMMA DoSendNothingInv ==
  ASSUME LifecycleInv, NEW t \in Threads, DoSendNothing(t)
  PROVE  LifecycleInv'
<1> USE DEF LifecycleInv
<1>1. /\ t \in Threads /\ at[t] \in Where /\ at[t].s \in Sessions
      /\ InPlace(t)
  BY DEF Threads, TypeOK, ThreadsInPlace, InPlace, DoSendNothing
<1>2. Returned(t)
  BY DoSendNothingLocal
<1>3. releaseQueue' \in Seq(Sessions)
  BY DoSendNothingLocal
<1>4. Local(t)
  BY DoSendNothingLocal
<1>5. TypeOK'
  BY <1>1, <1>3, <1>4
  DEF Local, Apart, DoSendNothing, TypeOK, kernel, map, release
<1>6. InPlace(t)'
  BY <1>1, <1>2, Fields, LifecycleAssumption
  DEF DoSendNothing, InPlace, Returned
<1>7. PICK x \in Sessions : x = at[t].s
  BY <1>1
<1>8. /\ t = Accept => at'[t].pc # "insert"
      /\ t = Logic => at'[t].pc # "idle"
  BY <1>1, <1>2, Fields, LifecycleAssumption
  DEF DoSendNothing, InPlace, Returned, Threads
<1>9. t \in Receiving(x)' => t \in Receiving(x)
  BY <1>1, <1>2, <1>7, LifecycleAssumption, Fields
  DEF DoSendNothing, Receiving, Returned, InPlace, Threads
<1>10. x \in recvPosted' =>
         \/ x \in recvPosted
         \/ t \in Receiving(x) /\ t \notin Receiving(x)'
         \/ t = Accept /\ at[t].pc = "wsarecv"
  BY <1>1, <1>2, <1>7, LifecycleAssumption
  DEF DoSendNothing, kernel, Receiving, InPlace
<1>11. t = Accept /\ at'[t].pc = "wsarecv" => x \notin recvPosted' /\ Receiving(x) = {}
  BY <1>1, <1>2, <1>6, <1>7, LifecycleAssumption
  DEF DoSendNothing, kernel, Receiving, Returned, InPlace, Threads
<1>12. sessionMap \subseteq sessionMap' /\ DisconnectedAtMostOnce' /\ ReleaseInPlace' /\ ReleaserAwake'
  BY <1>1
  DEF DoSendNothing, map, ReleaserAwake, release, TypeOK,
     DisconnectedAtMostOnce, ReleaseInPlace
<1>13. UsersCounted'
  BY DEF UsersCounted, DoSendNothing, map
<1>14. t \in Sending(x)' => t \in Sending(x) \/ ioMode[x] = "IO_NONE_SENDING"
  BY <1>1, <1>2, <1>7, LifecycleAssumption
  DEF DoSendNothing, Sending, Returned, InPlace
<1>15. x \in sendPosted' =>
         x \in sendPosted \/ (t \in Sending(x) /\ t \notin Sending(x)')
  BY <1>1, <1>2, <1>7, Fields DEF DoSendNothing, kernel, Sending, Returned
<1>16. ioMode'[x] = "IO_NONE_SENDING" =>
         /\ ioMode[x] = "IO_NONE_SENDING" \/ t \in Sending(x)
         /\ t \notin Sending(x)'
         /\ x \in sendPosted' => x \in sendPosted
  BY <1>1, <1>2, <1>7, LifecycleAssumption
  DEF DoSendNothing, kernel, Sending, Returned, InPlace, TypeOK, SenderInPlace
<1> QED
  BY <1>1, <1>4, <1>5, <1>6, <1>7, <1>8, <1>9, <1>10, <1>11, <1>12, <1>13,
     <1>14, <1>15, <1>16, LocalInv

LEMMA DoSendTakesLocal ==
  ASSUME LifecycleInv, NEW t \in Threads, DoSendTakes(t)
  PROVE  /\ Moved(t, "wsasend")
         /\ Local(t)
         /\ releaseQueue' \in Seq(Sessions)
<1> USE DEF LifecycleInv
<1>1. /\ t \in Threads /\ at[t] \in Where /\ at \in [Threads -> Where]
      /\ at[t].s \in accepted /\ at[t].s \in Sessions
  BY DEF Threads, TypeOK, ThreadsInPlace, InPlace, DoSendTakes
<1>2. Moved(t, "wsasend")
  BY <1>1, Goes DEF DoSendTakes
<1>3. /\ releaseQueue' \in Seq(Sessions)
      /\ \A s \in Sessions \ {at[t].s} : Queued(s)' <=> Queued(s)
  BY <1>1 DEF DoSendTakes, release, TypeOK, Queued
<1>4. Local(t)
  BY <1>1, <1>2, <1>3
  DEF Local, DoSendTakes, TypeOK, kernel, map, release, Moved, Apart
<1> QED
  BY <1>2, <1>3, <1>4

LEMMA DoSendTakesInv ==
  ASSUME LifecycleInv, NEW t \in Threads, DoSendTakes(t)
  PROVE  LifecycleInv'
<1> USE DEF LifecycleInv
<1>1. /\ t \in Threads /\ at[t] \in Where /\ at[t].s \in Sessions
      /\ InPlace(t)
  BY DEF Threads, TypeOK, ThreadsInPlace, InPlace, DoSendTakes
<1>2. Moved(t, "wsasend")
  BY DoSendTakesLocal
<1>3. releaseQueue' \in Seq(Sessions)
  BY DoSendTakesLocal
<1>4. Local(t)
  BY DoSendTakesLocal
<1>5. TypeOK'
  BY <1>1, <1>3, <1>4
  DEF Local, Apart, DoSendTakes, TypeOK, kernel, map, release
<1>6. InPlace(t)'
  BY <1>1, <1>2, Fields, LifecycleAssumption DEF DoSendTakes, InPlace, Moved
<1>7. PICK x \in Sessions : x = at[t].s
  BY <1>1
<1>8. /\ t = Accept => at'[t].pc # "insert"
      /\ t = Logic => at'[t].pc # "idle"
  BY <1>1, <1>2, Fields, LifecycleAssumption
  DEF DoSendTakes, InPlace, Moved, Threads
<1>9. t \in Receiving(x)' => t \in Receiving(x)
  BY <1>1, <1>2, <1>7, LifecycleAssumption, Fields
  DEF DoSendTakes, Receiving, Moved, InPlace, Threads
<1>10. x \in recvPosted' =>
         \/ x \in recvPosted
         \/ t \in Receiving(x) /\ t \notin Receiving(x)'
         \/ t = Accept /\ at[t].pc = "wsarecv"
  BY <1>1, <1>2, <1>7, LifecycleAssumption
  DEF DoSendTakes, kernel, Receiving, Moved, InPlace
<1>11. t = Accept /\ at'[t].pc = "wsarecv" => x \notin recvPosted' /\ Receiving(x) = {}
  BY <1>1, <1>2, <1>6, <1>7, LifecycleAssumption
  DEF DoSendTakes, kernel, Receiving, Moved, InPlace, Threads
<1>12. sessionMap \subseteq sessionMap' /\ DisconnectedAtMostOnce' /\ ReleaseInPlace' /\ ReleaserAwake'
  BY <1>1
  DEF DoSendTakes, map, ReleaserAwake, release, TypeOK,
     DisconnectedAtMostOnce, ReleaseInPlace
<1>13. UsersCounted'
  BY DEF UsersCounted, DoSendTakes, map
<1>14. t \in Sending(x)' => t \in Sending(x) \/ ioMode[x] = "IO_NONE_SENDING"
  BY <1>1, <1>2, <1>7, LifecycleAssumption
  DEF DoSendTakes, Sending, Moved, InPlace
<1>15. x \in sendPosted' =>
         x \in sendPosted \/ (t \in Sending(x) /\ t \notin Sending(x)')
  BY <1>1, <1>2, <1>7, Fields DEF DoSendTakes, kernel, Sending, Moved
<1>16. ioMode'[x] = "IO_NONE_SENDING" =>
         /\ ioMode[x] = "IO_NONE_SENDING" \/ t \in Sending(x)
         /\ t \notin Sending(x)'
         /\ x \in sendPosted' => x \in sendPosted
  BY <1>1, <1>2, <1>7, LifecycleAssumption
  DEF DoSendTakes, kernel, Sending, Moved, InPlace, TypeOK, SenderInPlace
<1> QED
  BY <1>1, <1>4, <1>5, <1>6, <1>7, <1>8, <1>9, <1>10, <1>11, <1>12, <1>13,
     <1>14, <1>15, <1>16, LocalInv

LEMMA WSASendPostedLocal ==
  ASSUME LifecycleInv, NEW t \in Threads, WSASendPosted(t)
  PROVE  /\ Returned(t)
         /\ Local(t)
         /\ releaseQueue' \in Seq(Sessions)
<1> USE DEF LifecycleInv
<1>1. /\ t \in Threads /\ at[t] \in Where /\ at \in [Threads -> Where]
      /\ at[t].s \in accepted /\ at[t].s \in Sessions
  BY DEF Threads, TypeOK, ThreadsInPlace, InPlace, WSASendPosted
<1>2. Returned(t)
  BY <1>1, Returns DEF WSASendPosted
<1>3. /\ releaseQueue' \in Seq(Sessions)
      /\ \A s \in Sessions \ {at[t].s} : Queued(s)' <=> Queued(s)
  BY <1>1 DEF WSASendPosted, release, TypeOK, Queued
<1>4. Local(t)
  BY <1>1, <1>2, <1>3
  DEF Local, WSASendPosted, TypeOK, kernel, map, release, Returned, Apart
<1> QED
  BY <1>2, <1>3, <1>4

LEMMA WSASendPostedInv ==
  ASSUME LifecycleInv, NEW t \in Threads, WSASendPosted(t)
  PROVE  LifecycleInv'
<1> USE DEF LifecycleInv
<1>1. /\ t \in Threads /\ at[t] \in Where /\ at[t].s \in Sessions
      /\ InPlace(t)
  BY DEF Threads, TypeOK, ThreadsInPlace, InPlace, WSASendPosted
<1>2. Returned(t)
  BY WSASendPostedLocal
<1>3. releaseQueue' \in Seq(Sessions)
  BY WSASendPostedLocal
<1>4. Local(t)
  BY WSASendPostedLocal
<1>5. TypeOK'
  BY <1>1, <1>3, <1>4
  DEF Local, Apart, WSASendPosted, TypeOK, kernel, map, release
<1>6. InPlace(t)'
  BY <1>1, <1>2, Fields, LifecycleAssumption
  DEF WSASendPosted, InPlace, Returned
<1>7. PICK x \in Sessions : x = at[t].s
  BY <1>1
<1>8. /\ t = Accept => at'[t].pc # "insert"
      /\ t = Logic => at'[t].pc # "idle"
  BY <1>1, <1>2, Fields, LifecycleAssumption
  DEF WSASendPosted, InPlace, Returned, Threads
<1>9. t \in Receiving(x)' => t \in Receiving(x)
  BY <1>1, <1>2, <1>7, LifecycleAssumption, Fields
  DEF WSASendPosted, Receiving, Returned, InPlace, Threads
<1>10. x \in recvPosted' =>
         \/ x \in recvPosted
         \/ t \in Receiving(x) /\ t \notin Receiving(x)'
         \/ t = Accept /\ at[t].pc = "wsarecv"
  BY <1>1, <1>2, <1>7, LifecycleAssumption
  DEF WSASendPosted, kernel, Receiving, InPlace
<1>11. t = Accept /\ at'[t].pc = "wsarecv" => x \notin recvPosted' /\ Receiving(x) = {}
  BY <1>1, <1>2, <1>6, <1>7, LifecycleAssumption
  DEF WSASendPosted, kernel, Receiving, Returned, InPlace, Threads
<1>12. sessionMap \subseteq sessionMap' /\ DisconnectedAtMostOnce' /\ ReleaseInPlace' /\ ReleaserAwake'
  BY <1>1
  DEF WSASendPosted, map, ReleaserAwake, release, TypeOK,
     DisconnectedAtMostOnce, ReleaseInPlace
<1>13. UsersCounted'
  BY DEF UsersCounted, WSASendPosted, map
<1>14. t \in Sending(x)' => t \in Sending(x) \/ ioMode[x] = "IO_NONE_SENDING"
  BY <1>1, <1>2, <1>7, LifecycleAssumption
  DEF WSASendPosted, Sending, Returned, InPlace
<1>15. x \in sendPosted' =>
         x \in sendPosted \/ (t \in Sending(x) /\ t \notin Sending(x)')
  BY <1>1, <1>2, <1>7, Fields DEF WSASendPosted, kernel, Sending, Returned
<1>16. ioMode'[x] = "IO_NONE_SENDING" =>
         /\ ioMode[x] = "IO_NONE_SENDING" \/ t \in Sending(x)
         /\ t \notin Sending(x)'
         /\ x \in sendPosted' => x \in sendPosted
  BY <1>1, <1>2, <1>7, LifecycleAssumption
  DEF WSASendPosted, kernel, Sending, Returned, InPlace, TypeOK, SenderInPlace
<1> QED
  BY <1>1, <1>4, <1>5, <1>6, <1>7, <1>8, <1>9, <1>10, <1>11, <1>12, <1>13,
     <1>14, <1>15, <1>16, LocalInv

LEMMA WSASendFailsLocal ==
  ASSUME LifecycleInv, NEW t \in Threads, WSASendFails(t)
  PROVE  /\ Moved(t, "decrease")
         /\ Local(t)
         /\ releaseQueue' \in Seq(Sessions)
<1> USE DEF LifecycleInv
<1>1. /\ t \in Threads /\ at[t] \in Where /\ at \in [Threads -> Where]
      /\ at[t].s \in accepted /\ at[t].s \in Sessions
  BY DEF Threads, TypeOK, ThreadsInPlace, InPlace, WSASendFails
<1>2. Moved(t, "decrease")
  BY <1>1, Goes DEF WSASendFails
<1>3. /\ releaseQueue' \in Seq(Sessions)
      /\ \A s \in Sessions \ {at[t].s} : Queued(s)' <=> Queued(s)
  BY <1>1 DEF WSASendFails, release, TypeOK, Queued
<1>4. Local(t)
  BY <1>1, <1>2, <1>3
  DEF Local, WSASendFails, TypeOK, kernel, map, release, Moved, Apart
<1> QED
  BY <1>2, <1>3, <1>4

LEMMA WSASendFailsInv ==
  ASSUME LifecycleInv, NEW t \in Threads, WSASendFails(t)
  PROVE  LifecycleInv'
<1> USE DEF LifecycleInv
<1>1. /\ t \in Threads /\ at[t] \in Where /\ at[t].s \in Sessions
      /\ InPlace(t)
  BY DEF Threads, TypeOK, ThreadsInPlace, InPlace, WSASendFails
<1>2. Moved(t, "decrease")
  BY WSASendFailsLocal
<1>3. releaseQueue' \in Seq(Sessions)
  BY WSASendFailsLocal
<1>4. Local(t)
  BY WSASendFailsLocal
<1>5. TypeOK'
  BY <1>1, <1>3, <1>4
  DEF Local, Apart, WSASendFails, TypeOK, kernel, map, release
<1>6. InPlace(t)'
  BY <1>1, <1>2, Fields, LifecycleAssumption DEF WSASendFails, InPlace, Moved
<1>7. PICK x \in Sessions : x = at[t].s
  BY <1>1
<1>8. /\ t = Accept => at'[t].pc # "insert"
      /\ t = Logic => at'[t].pc # "idle"
  BY <1>1, <1>2, Fields, LifecycleAssumption
  DEF WSASendFails, InPlace, Moved, Threads
<1>9. t \in Receiving(x)' => t \in Receiving(x)
  BY <1>1, <1>2, <1>7, LifecycleAssumption, Fields
  DEF WSASendFails, Receiving, Moved, InPlace, Threads
<1>10. x \in recvPosted' =>
         \/ x \in recvPosted
         \/ t \in Receiving(x) /\ t \notin Receiving(x)'
         \/ t = Accept /\ at[t].pc = "wsarecv"
  BY <1>1, <1>2, <1>7, LifecycleAssumption
  DEF WSASendFails, kernel, Receiving, Moved, InPlace
<1>11. t = Accept /\ at'[t].pc = "wsarecv" => x \notin recvPosted' /\ Receiving(x) = {}
  BY <1>1, <1>2, <1>6, <1>7, LifecycleAssumption
  DEF WSASendFails, kernel, Receiving, Moved, InPlace, Threads
<1>12. sessionMap \subseteq sessionMap' /\ DisconnectedAtMostOnce' /\ ReleaseInPlace' /\ ReleaserAwake'
  BY <1>1
  DEF WSASendFails, map, ReleaserAwake, release, TypeOK,
     DisconnectedAtMostOnce, ReleaseInPlace
<1>13. UsersCounted'
  BY DEF UsersCounted, WSASendFails, map
<1>14. t \in Sending(x)' => t \in Sending(x) \/ ioMode[x] = "IO_NONE_SENDING"
  BY <1>1, <1>2, <1>7, LifecycleAssumption
  DEF WSASendFails, Sending, Moved, InPlace
<1>15. x \in sendPosted' =>
         x \in sendPosted \/ (t \in Sending(x) /\ t \notin Sending(x)')
  BY <1>1, <1>2, <1>7, Fields DEF WSASendFails, kernel, Sending, Moved
<1>16. ioMode'[x] = "IO_NONE_SENDING" =>
         /\ ioMode[x] = "IO_NONE_SENDING" \/ t \in Sending(x)
         /\ t \notin Sending(x)'
         /\ x \in sendPosted' => x \in sendPosted
  BY <1>1, <1>2, <1>7, LifecycleAssumption
  DEF WSASendFails, kernel, Sending, Moved, InPlace, TypeOK, SenderInPlace
<1> QED
  BY <1>1, <1>4, <1>5, <1>6, <1>7, <1>8, <1>9, <1>10, <1>11, <1>12, <1>13,
     <1>14, <1>15, <1>16, LocalInv

LEMMA InsertSessionLocal ==
  ASSUME LifecycleInv, InsertSession
  PROVE  /\ Moved(Accept, "wsarecv")
         /\ Local(Accept)
         /\ releaseQueue' \in Seq(Sessions)
<1> USE DEF LifecycleInv
<1>1. /\ Accept \in Threads /\ at[Accept] \in Where /\ at \in [Threads -> Where]
      /\ at[Accept].s \in accepted /\ at[Accept].s \in Sessions
  BY DEF Threads, TypeOK, ThreadsInPlace, InPlace, InsertSession
<1>2. Moved(Accept, "wsarecv")
  BY <1>1, Goes DEF InsertSession
<1>3. /\ releaseQueue' \in Seq(Sessions)
      /\ \A s \in Sessions \ {at[Accept].s} : Queued(s)' <=> Queued(s)
  BY <1>1 DEF InsertSession, release, TypeOK, Queued
<1>4. Local(Accept)
  BY <1>1, <1>2, <1>3
  DEF Local, InsertSession, TypeOK, kernel, map, release, Moved, Apart,
     MapMutexFree
<1> QED
  BY <1>2, <1>3, <1>4

LEMMA InsertSessionInv ==
  ASSUME LifecycleInv, InsertSession
  PROVE  LifecycleInv'
<1> USE DEF LifecycleInv
<1>1. /\ Accept \in Threads /\ at[Accept] \in Where /\ at[Accept].s \in Sessions
      /\ InPlace(Accept)
  BY DEF Threads, TypeOK, ThreadsInPlace, InPlace, InsertSession
<1>2. Moved(Accept, "wsarecv")
  BY InsertSessionLocal
<1>3. releaseQueue' \in Seq(Sessions)
  BY InsertSessionLocal
<1>4. Local(Accept)
  BY InsertSessionLocal
<1>5. TypeOK'
  BY <1>1, <1>3, <1>4
  DEF Local, Apart, InsertSession, TypeOK, kernel, map, release
<1>6. InPlace(Accept)'
  BY <1>1, <1>2, Fields, LifecycleAssumption
  DEF InsertSession, InPlace, Moved, MapMutexFree
<1>7. PICK x \in Sessions : x = at[Accept].s
  BY <1>1
<1>8. /\ Accept = Accept => at'[Accept].pc # "insert"
      /\ Accept = Logic => at'[Accept].pc # "idle"
  BY <1>1, <1>2, Fields, LifecycleAssumption
  DEF InsertSession, InPlace, Moved, Threads, MapMutexFree
<1>9. Accept \in Receiving(x)' => Accept \in Receiving(x)
  BY <1>1, <1>2, <1>7, LifecycleAssumption, Fields
  DEF InsertSession, Receiving, Moved, InPlace, Threads, MapMutexFree
<1>10. x \in recvPosted' =>
         \/ x \in recvPosted
         \/ Accept \in Receiving(x) /\ Accept \notin Receiving(x)'
         \/ Accept = Accept /\ at[Accept].pc = "wsarecv"
  BY <1>1, <1>2, <1>7, LifecycleAssumption
  DEF InsertSession, kernel, Receiving, Moved, InPlace, MapMutexFree
<1>11. Accept = Accept /\ at'[Accept].pc = "wsarecv" => x \notin recvPosted' /\ Receiving(x) = {}
  BY <1>1, <1>2, <1>6, <1>7, LifecycleAssumption
  DEF InsertSession, kernel, Receiving, Moved, InPlace, NewInPlace, Untouched,
     Threads, MapMutexFree
<1>12. sessionMap \subseteq sessionMap' /\ DisconnectedAtMostOnce' /\ ReleaseInPlace' /\ ReleaserAwake'
  BY <1>1, HeadQueued
  DEF InsertSession, map, NewInPlace, Untouched, ReleaserAwake, release,
     TypeOK, DisconnectedAtMostOnce, ReleaseInPlace
<1>13. UsersCounted'
  BY <1>1, FS_AddElement
  DEF UsersCounted, InsertSession, map, NewInPlace, Untouched
<1>14. Accept \in Sending(x)' => Accept \in Sending(x) \/ ioMode[x] = "IO_NONE_SENDING"
  BY <1>1, <1>2, <1>7, LifecycleAssumption
  DEF InsertSession, Sending, Moved, InPlace, MapMutexFree
<1>15. x \in sendPosted' =>
         x \in sendPosted \/ (Accept \in Sending(x) /\ Accept \notin Sending(x)')
  BY <1>1, <1>2, <1>7, Fields
  DEF InsertSession, kernel, Sending, Moved, MapMutexFree
<1>16. ioMode'[x] = "IO_NONE_SENDING" =>
         /\ ioMode[x] = "IO_NONE_SENDING" \/ Accept \in Sending(x)
         /\ Accept \notin Sending(x)'
         /\ x \in sendPosted' => x \in sendPosted
  BY <1>1, <1>2, <1>7, LifecycleAssumption
  DEF InsertSession, kernel, Sending, Moved, InPlace, TypeOK, SenderInPlace,
     MapMutexFree
<1> QED
  BY <1>1, <1>4, <1>5, <1>6, <1>7, <1>8, <1>9, <1>10, <1>11, <1>12, <1>13,
     <1>14, <1>15, <1>16, LocalInv

LEMMA FirstRecvLocal ==
  ASSUME LifecycleInv, FirstRecv
  PROVE  /\ Moved(Accept, "decrease")
         /\ Local(Accept)
         /\ releaseQueue' \in Seq(Sessions)
<1> USE DEF LifecycleInv
<1>1. /\ Accept \in Threads /\ at[Accept] \in Where /\ at \in [Threads -> Where]
      /\ at[Accept].s \in accepted /\ at[Accept].s \in Sessions
  BY DEF Threads, TypeOK, ThreadsInPlace, InPlace, FirstRecv
<1>2. Moved(Accept, "decrease")
  BY <1>1, Goes DEF FirstRecv
<1>3. /\ releaseQueue' \in Seq(Sessions)
      /\ \A s \in Sessions \ {at[Accept].s} : Queued(s)' <=> Queued(s)
  BY <1>1 DEF FirstRecv, release, TypeOK, Queued
<1>4. Local(Accept)
  BY <1>1, <1>2, <1>3
  DEF Local, FirstRecv, TypeOK, kernel, map, release, Moved, Apart
<1> QED
  BY <1>2, <1>3, <1>4

LEMMA FirstRecvInv ==
  ASSUME LifecycleInv, FirstRecv
  PROVE  LifecycleInv'
<1> USE DEF LifecycleInv
<1>1. /\ Accept \in Threads /\ at[Accept] \in Where /\ at[Accept].s \in Sessions
      /\ InPlace(Accept)
  BY DEF Threads, TypeOK, ThreadsInPlace, InPlace, FirstRecv
<1>2. Moved(Accept, "decrease")
  BY FirstRecvLocal
<1>3. releaseQueue' \in Seq(Sessions)
  BY FirstRecvLocal
<1>4. Local(Accept)
  BY FirstRecvLocal
<1>5. TypeOK'
  BY <1>1, <1>3, <1>4 DEF Local, Apart, FirstRecv, TypeOK, kernel, map, release
<1>6. InPlace(Accept)'
  BY <1>1, <1>2, Fields, LifecycleAssumption DEF FirstRecv, InPlace, Moved
<1>7. PICK x \in Sessions : x = at[Accept].s
  BY <1>1
<1>8. /\ Accept = Accept => at'[Accept].pc # "insert"
      /\ Accept = Logic => at'[Accept].pc # "idle"
  BY <1>1, <1>2, Fields, LifecycleAssumption
  DEF FirstRecv, InPlace, Moved, Threads
<1>9. Accept \in Receiving(x)' => Accept \in Receiving(x)
  BY <1>1, <1>2, <1>7, LifecycleAssumption, Fields
  DEF FirstRecv, Receiving, Moved, InPlace, Threads
<1>10. x \in recvPosted' =>
         \/ x \in recvPosted
         \/ Accept \in Receiving(x) /\ Accept \notin Receiving(x)'
         \/ Accept = Accept /\ at[Accept].pc = "wsarecv"
  BY <1>1, <1>2, <1>7, LifecycleAssumption
  DEF FirstRecv, kernel, Receiving, Moved, InPlace
<1>11. Accept = Accept /\ at'[Accept].pc = "wsarecv" => x \notin recvPosted' /\ Receiving(x) = {}
  BY <1>1, <1>2, <1>6, <1>7, LifecycleAssumption
  DEF FirstRecv, kernel, Receiving, Moved, InPlace, Threads
<1>12. sessionMap \subseteq sessionMap' /\ DisconnectedAtMostOnce' /\ ReleaseInPlace' /\ ReleaserAwake'
  BY <1>1
  DEF FirstRecv, map, ReleaserAwake, release, TypeOK, DisconnectedAtMostOnce,
     ReleaseInPlace
<1>13. UsersCounted'
  BY DEF UsersCounted, FirstRecv, map
<1>14. Accept \in Sending(x)' => Accept \in Sending(x) \/ ioMode[x] = "IO_NONE_SENDING"
  BY <1>1, <1>2, <1>7, LifecycleAssumption
  DEF FirstRecv, Sending, Moved, InPlace
<1>15. x \in sendPosted' =>
         x \in sendPosted \/ (Accept \in Sending(x) /\ Accept \notin Sending(x)')
  BY <1>1, <1>2, <1>7, Fields DEF FirstRecv, kernel, Sending, Moved
<1>16. ioMode'[x] = "IO_NONE_SENDING" =>
         /\ ioMode[x] = "IO_NONE_SENDING" \/ Accept \in Sending(x)
         /\ Accept \notin Sending(x)'
         /\ x \in sendPosted' => x \in sendPosted
  BY <1>1, <1>2, <1>7, LifecycleAssumption
  DEF FirstRecv, kernel, Sending, Moved, InPlace, TypeOK, SenderInPlace
<1> QED
  BY <1>1, <1>4, <1>5, <1>6, <1>7, <1>8, <1>9, <1>10, <1>11, <1>12, <1>13,
     <1>14, <1>15, <1>16, LocalInv

LEMMA FindSessionLocal ==
  ASSUME LifecycleInv, NEW t \in IoThreads, FindSession(t)
  PROVE  /\ IF at[t].s \in sessionMap THEN Moved(t, HandlerOf(at[t].op)) ELSE Apart(t) /\ at'[t] = Idle
         /\ Local(t)
         /\ releaseQueue' \in Seq(Sessions)
<1> USE DEF LifecycleInv
<1>1. /\ t \in Threads /\ at[t] \in Where /\ at \in [Threads -> Where]
      /\ at[t].s \in accepted /\ at[t].s \in Sessions
  BY DEF Threads, TypeOK, ThreadsInPlace, InPlace, FindSession
<1>2. IF at[t].s \in sessionMap THEN Moved(t, HandlerOf(at[t].op)) ELSE Apart(t) /\ at'[t] = Idle
  BY <1>1, Goes, Puts DEF FindSession, HandlerOf, Idle, Where
<1>3. /\ releaseQueue' \in Seq(Sessions)
      /\ \A s \in Sessions \ {at[t].s} : Queued(s)' <=> Queued(s)
  BY <1>1 DEF FindSession, release, TypeOK, Queued
<1>4. Local(t)
  BY <1>1, <1>2, <1>3
  DEF Local, FindSession, TypeOK, kernel, map, release, Moved, Apart,
     HandlerOf, Idle
<1> QED
  BY <1>2, <1>3, <1>4

LEMMA FindSessionInv ==
  ASSUME LifecycleInv, NEW t \in IoThreads, FindSession(t)
  PROVE  LifecycleInv'
<1> USE DEF LifecycleInv
<1>1. /\ t \in Threads /\ at[t] \in Where /\ at[t].s \in Sessions
      /\ InPlace(t)
  BY DEF Threads, TypeOK, ThreadsInPlace, InPlace, FindSession
<1>2. IF at[t].s \in sessionMap THEN Moved(t, HandlerOf(at[t].op)) ELSE Apart(t) /\ at'[t] = Idle
  BY FindSessionLocal
<1>3. releaseQueue' \in Seq(Sessions)
  BY FindSessionLocal
<1>4. Local(t)
  BY FindSessionLocal
<1>5. TypeOK'
  BY <1>1, <1>3, <1>4
  DEF Local, Apart, FindSession, TypeOK, kernel, map, release
<1>6. InPlace(t)'
  BY <1>1, <1>2, Fields, LifecycleAssumption
  DEF FindSession, InPlace, Moved, HandlerOf, Idle
<1>7. PICK x \in Sessions : x = at[t].s
  BY <1>1
<1>8. /\ t = Accept => at'[t].pc # "insert"
      /\ t = Logic => at'[t].pc # "idle"
  BY <1>1, <1>2, Fields, LifecycleAssumption
  DEF FindSession, InPlace, Moved, Threads, HandlerOf, Idle
<1>9. t \in Receiving(x)' => t \in Receiving(x)
  BY <1>1, <1>2, <1>7, LifecycleAssumption, Fields
  DEF FindSession, Receiving, Moved, InPlace, Threads, HandlerOf, Idle
<1>10. x \in recvPosted' =>
         \/ x \in recvPosted
         \/ t \in Receiving(x) /\ t \notin Receiving(x)'
         \/ t = Accept /\ at[t].pc = "wsarecv"
  BY <1>1, <1>2, <1>7, LifecycleAssumption
  DEF FindSession, kernel, Receiving, Moved, InPlace, HandlerOf, Idle
<1>11. t = Accept /\ at'[t].pc = "wsarecv" => x \notin recvPosted' /\ Receiving(x) = {}
  BY <1>1, <1>2, <1>6, <1>7, LifecycleAssumption
  DEF FindSession, kernel, Receiving, Moved, InPlace, Threads, HandlerOf, Idle
<1>12. sessionMap \subseteq sessionMap' /\ DisconnectedAtMostOnce' /\ ReleaseInPlace' /\ ReleaserAwake'
  BY <1>1
  DEF FindSession, map, ReleaserAwake, release, TypeOK,
     DisconnectedAtMostOnce, ReleaseInPlace
<1>13. UsersCounted'
  BY DEF UsersCounted, FindSession, map
<1>14. t \in Sending(x)' => t \in Sending(x) \/ ioMode[x] = "IO_NONE_SENDING"
  BY <1>1, <1>2, <1>7, LifecycleAssumption
  DEF FindSession, Sending, Moved, InPlace, HandlerOf, Idle
<1>15. x \in sendPosted' =>
         x \in sendPosted \/ (t \in Sending(x) /\ t \notin Sending(x)')
  BY <1>1, <1>2, <1>7, Fields
  DEF FindSession, kernel, Sending, Moved, HandlerOf, Idle
<1>16. ioMode'[x] = "IO_NONE_SENDING" =>
         /\ ioMode[x] = "IO_NONE_SENDING" \/ t \in Sending(x)
         /\ t \notin Sending(x)'
         /\ x \in sendPosted' => x \in sendPosted
  BY <1>1, <1>2, <1>7, LifecycleAssumption
  DEF FindSession, kernel, Sending, Moved, InPlace, TypeOK, SenderInPlace,
     HandlerOf, Idle
<1> QED
  BY <1>1, <1>4, <1>5, <1>6, <1>7, <1>8, <1>9, <1>10, <1>11, <1>12, <1>13,
     <1>14, <1>15, <1>16, LocalInv

LEMMA RecvCompletedLocal ==
  ASSUME LifecycleInv, NEW t \in IoThreads, RecvCompleted(t)
  PROVE  /\ Moved(t, "decrease")
         /\ Local(t)
         /\ releaseQueue' \in Seq(Sessions)
<1> USE DEF LifecycleInv
<1>1. /\ t \in Threads /\ at[t] \in Where /\ at \in [Threads -> Where]
      /\ at[t].s \in accepted /\ at[t].s \in Sessions
  BY DEF Threads, TypeOK, ThreadsInPlace, InPlace, RecvCompleted
<1>2. Moved(t, "decrease")
  BY <1>1, Goes DEF RecvCompleted
<1>3. /\ releaseQueue' \in Seq(Sessions)
      /\ \A s \in Sessions \ {at[t].s} : Queued(s)' <=> Queued(s)
  BY <1>1 DEF RecvCompleted, release, TypeOK, Queued
<1>4. Local(t)
  BY <1>1, <1>2, <1>3
  DEF Local, RecvCompleted, TypeOK, kernel, map, release, Moved, Apart
<1> QED
  BY <1>2, <1>3, <1>4

LEMMA RecvCompletedInv ==
  ASSUME LifecycleInv, NEW t \in IoThreads, RecvCompleted(t)
  PROVE  LifecycleInv'
<1> USE DEF LifecycleInv
<1>1. /\ t \in Threads /\ at[t] \in Where /\ at[t].s \in Sessions
      /\ InPlace(t)
  BY DEF Threads, TypeOK, ThreadsInPlace, InPlace, RecvCompleted
<1>2. Moved(t, "decrease")
  BY RecvCompletedLocal
<1>3. releaseQueue' \in Seq(Sessions)
  BY RecvCompletedLocal
<1>4. Local(t)
  BY RecvCompletedLocal
<1>5. TypeOK'
  BY <1>1, <1>3, <1>4
  DEF Local, Apart, RecvCompleted, TypeOK, kernel, map, release
<1>6. InPlace(t)'
  BY <1>1, <1>2, Fields, LifecycleAssumption DEF RecvCompleted, InPlace, Moved
<1>7. PICK x \in Sessions : x = at[t].s
  BY <1>1
<1>8. /\ t = Accept => at'[t].pc # "insert"
      /\ t = Logic => at'[t].pc # "idle"
  BY <1>1, <1>2, Fields, LifecycleAssumption
  DEF RecvCompleted, InPlace, Moved, Threads
<1>9. t \in Receiving(x)' => t \in Receiving(x)
  BY <1>1, <1>2, <1>7, LifecycleAssumption, Fields
  DEF RecvCompleted, Receiving, Moved, InPlace, Threads
<1>10. x \in recvPosted' =>
         \/ x \in recvPosted
         \/ t \in Receiving(x) /\ t \notin Receiving(x)'
         \/ t = Accept /\ at[t].pc = "wsarecv"
  BY <1>1, <1>2, <1>7, LifecycleAssumption
  DEF RecvCompleted, kernel, Receiving, Moved, InPlace
<1>11. t = Accept /\ at'[t].pc = "wsarecv" => x \notin recvPosted' /\ Receiving(x) = {}
  BY <1>1, <1>2, <1>6, <1>7, LifecycleAssumption
  DEF RecvCompleted, kernel, Receiving, Moved, InPlace, Threads
<1>12. sessionMap \subseteq sessionMap' /\ DisconnectedAtMostOnce' /\ ReleaseInPlace' /\ ReleaserAwake'
  BY <1>1
  DEF RecvCompleted, map, ReleaserAwake, release, TypeOK,
     DisconnectedAtMostOnce, ReleaseInPlace
<1>13. UsersCounted'
  BY DEF UsersCounted, RecvCompleted, map
<1>14. t \in Sending(x)' => t \in Sending(x) \/ ioMode[x] = "IO_NONE_SENDING"
  BY <1>1, <1>2, <1>7, LifecycleAssumption
  DEF RecvCompleted, Sending, Moved, InPlace
<1>15. x \in sendPosted' =>
         x \in sendPosted \/ (t \in Sending(x) /\ t \notin Sending(x)')
  BY <1>1, <1>2, <1>7, Fields DEF RecvCompleted, kernel, Sending, Moved
<1>16. ioMode'[x] = "IO_NONE_SENDING" =>
         /\ ioMode[x] = "IO_NONE_SENDING" \/ t \in Sending(x)
         /\ t \notin Sending(x)'
         /\ x \in sendPosted' => x \in sendPosted
  BY <1>1, <1>2, <1>7, LifecycleAssumption
  DEF RecvCompleted, kernel, Sending, Moved, InPlace, TypeOK, SenderInPlace
<1> QED
  BY <1>1, <1>4, <1>5, <1>6, <1>7, <1>8, <1>9, <1>10, <1>11, <1>12, <1>13,
     <1>14, <1>15, <1>16, LocalInv

LEMMA SendCompletedLocal ==
  ASSUME LifecycleInv, NEW t \in IoThreads, SendCompleted(t)
  PROVE  /\ Apart(t) /\ at'[t].pc = "decrease" /\ at'[t].then = "dosend"
            /\ at'[t].s = at[t].s /\ at'[t].op = at[t].op
         /\ Local(t)
         /\ releaseQueue' \in Seq(Sessions)
<1> USE DEF LifecycleInv
<1>1. /\ t \in Threads /\ at[t] \in Where /\ at \in [Threads -> Where]
      /\ at[t].s \in accepted /\ at[t].s \in Sessions
  BY DEF Threads, TypeOK, ThreadsInPlace, InPlace, SendCompleted
<1>2. Apart(t) /\ at'[t].pc = "decrease" /\ at'[t].then = "dosend"
            /\ at'[t].s = at[t].s /\ at'[t].op = at[t].op
  BY <1>1, Puts DEF SendCompleted, Where
<1>3. /\ releaseQueue' \in Seq(Sessions)
      /\ \A s \in Sessions \ {at[t].s} : Queued(s)' <=> Queued(s)
  BY <1>1 DEF SendCompleted, release, TypeOK, Queued
<1>4. Local(t)
  BY <1>1, <1>2, <1>3
  DEF Local, SendCompleted, TypeOK, kernel, map, release, Apart
<1> QED
  BY <1>2, <1>3, <1>4

LEMMA SendCompletedInv ==
  ASSUME LifecycleInv, NEW t \in IoThreads, SendCompleted(t)
  PROVE  LifecycleInv'
<1> USE DEF LifecycleInv
<1>1. /\ t \in Threads /\ at[t] \in Where /\ at[t].s \in Sessions
      /\ InPlace(t)
  BY DEF Threads, TypeOK, ThreadsInPlace, InPlace, SendCompleted
<1>2. Apart(t) /\ at'[t].pc = "decrease" /\ at'[t].then = "dosend"
            /\ at'[t].s = at[t].s /\ at'[t].op = at[t].op
  BY SendCompletedLocal
<1>3. releaseQueue' \in Seq(Sessions)
  BY SendCompletedLocal
<1>4. Local(t)
  BY SendCompletedLocal
<1>5. TypeOK'
  BY <1>1, <1>3, <1>4
  DEF Local, Apart, SendCompleted, TypeOK, kernel, map, release
<1>6. InPlace(t)'
  BY <1>1, <1>2, Fields, LifecycleAssumption DEF SendCompleted, InPlace
<1>7. PICK x \in Sessions : x = at[t].s
  BY <1>1
<1>8. /\ t = Accept => at'[t].pc # "insert"
      /\ t = Logic => at'[t].pc # "idle"
  BY <1>1, <1>2, Fields, LifecycleAssumption
  DEF SendCompleted, InPlace, Threads
<1>9. t \in Receiving(x)' => t \in Receiving(x)
  BY <1>1, <1>2, <1>7, LifecycleAssumption, Fields
  DEF SendCompleted, Receiving, InPlace, Threads
<1>10. x \in recvPosted' =>
         \/ x \in recvPosted
         \/ t \in Receiving(x) /\ t \notin Receiving(x)'
         \/ t = Accept /\ at[t].pc = "wsarecv"
  BY <1>1, <1>2, <1>7, LifecycleAssumption
  DEF SendCompleted, kernel, Receiving, InPlace
<1>11. t = Accept /\ at'[t].pc = "wsarecv" => x \notin recvPosted' /\ Receiving(x) = {}
  BY <1>1, <1>2, <1>6, <1>7, LifecycleAssumption
  DEF SendCompleted, kernel, Receiving, InPlace, Threads
<1>12. sessionMap \subseteq sessionMap' /\ DisconnectedAtMostOnce' /\ ReleaseInPlace' /\ ReleaserAwake'
  BY <1>1
  DEF SendCompleted, map, ReleaserAwake, release, TypeOK,
     DisconnectedAtMostOnce, ReleaseInPlace
<1>13. UsersCounted'
  BY DEF UsersCounted, SendCompleted, map
<1>14. t \in Sending(x)' => t \in Sending(x) \/ ioMode[x] = "IO_NONE_SENDING"
  BY <1>1, <1>2, <1>7, LifecycleAssumption DEF SendCompleted, Sending, InPlace
<1>15. x \in sendPosted' =>
         x \in sendPosted \/ (t \in Sending(x) /\ t \notin Sending(x)')
  BY <1>1, <1>2, <1>7, Fields DEF SendCompleted, kernel, Sending
<1>16. ioMode'[x] = "IO_NONE_SENDING" =>
         /\ ioMode[x] = "IO_NONE_SENDING" \/ t \in Sending(x)
         /\ t \notin Sending(x)'
         /\ x \in sendPosted' => x \in sendPosted
  BY <1>1, <1>2, <1>7, LifecycleAssumption
  DEF SendCompleted, kernel, Sending, InPlace, TypeOK, SenderInPlace
<1> QED
  BY <1>1, <1>4, <1>5, <1>6, <1>7, <1>8, <1>9, <1>10, <1>11, <1>12, <1>13,
     <1>14, <1>15, <1>16, LocalInv

(* A session that stays untouched keeps NewInPlace.                        *)
LEMMA NewKept ==
  ASSUME TypeOK, ThreadsInPlace, NewInPlace, at'[Accept] = at[Accept],
         accepted' = accepted, ioCount' = ioCount,
         \A u \in Sessions : Untouched(u) => Untouched(u)'
  PROVE  NewInPlace'
<1>1. \A u \in Sessions \ accepted' : Untouched(u)'
  BY DEF NewInPlace
<1>2. (at[Accept].pc = "insert" =>
         Untouched(at[Accept].s) /\ ioCount[at[Accept].s] = 1)'
  <2> SUFFICES ASSUME at[Accept].pc = "insert"
               PROVE  (Untouched(at[Accept].s) /\ ioCount[at[Accept].s] = 1)'
    OBVIOUS
  <2>1. PICK x \in Sessions : x = at[Accept].s
    BY DEF ThreadsInPlace, InPlace, Threads, TypeOK
  <2>2. Untouched(x)' /\ ioCount'[x] = 1 /\ at'[Accept].s = x
    BY <2>1 DEF NewInPlace
  <2> QED
    BY <2>2
<1> QED
  BY <1>1, <1>2 DEF NewInPlace

(* A new session is the accept thread's own.                               *)
LEMMA AcceptSessionInv ==
  ASSUME LifecycleInv, NEW s \in Sessions, AcceptSession(s)
  PROVE  LifecycleInv'
<1> USE DEF LifecycleInv
<1>1. /\ Accept \in Threads /\ Accept # Logic /\ Accept \notin IoThreads
      /\ None \notin Sessions /\ Logic \in Threads
  BY LifecycleAssumption DEF Threads
<1>2. /\ Apart(Accept)
      /\ at'[Accept] = [pc |-> "insert", s |-> s, op |-> "none", then |-> "idle"]
  BY <1>1, Puts DEF AcceptSession, TypeOK, Where
<1>3. /\ s \notin accepted /\ accepted' = accepted \cup {s}
      /\ ioCount' = [ioCount EXCEPT ![s] = 1]
      /\ UNCHANGED <<ioMode, recvPosted, sendPosted, sends, sessionMap, numOfUser,
                     disconnected, logicTodo, releaseQueue, releaseEvent,
                     releaseAt, releaseTarget>>
  BY DEF AcceptSession, kernel, map, release
<1>4. TypeOK'
  BY <1>2, <1>3 DEF TypeOK, Apart
<1>5. ThreadsInPlace'
  BY <1>1, <1>2, <1>3 DEF ThreadsInPlace, InPlace, Apart
<1>6. Untouched(s)
  BY <1>3 DEF NewInPlace
<1>7. \A u \in Sessions : Untouched(u) => Untouched(u)'
  BY <1>2, <1>3 DEF Untouched, Apart, Queued
<1>8. NewInPlace'
  <2>1. \A u \in Sessions \ accepted' : Untouched(u)'
    BY <1>3, <1>7 DEF NewInPlace
  <2>2. Untouched(s)' /\ at'[Accept].s = s /\ ioCount'[s] = 1
    BY <1>2, <1>3, <1>6, <1>7 DEF TypeOK
  <2>3. (Untouched(at[Accept].s) /\ ioCount[at[Accept].s] = 1)'
    BY <2>2
  <2> QED
    BY <2>1, <2>3 DEF NewInPlace
<1>9. ReceiverInPlace'
  <2>1. \A u \in Sessions : Receiving(u)' = Receiving(u)
    BY <1>1, <1>2 DEF Receiving, Apart, Threads
  <2> QED
    BY <1>2, <1>3, <2>1 DEF ReceiverInPlace
<1>12. SenderInPlace'
  <2>1. \A u \in Sessions : Sending(u)' = Sending(u)
    BY <1>1, <1>2 DEF Sending, Apart, AcceptSession
  <2> QED
    BY <1>3, <2>1 DEF SenderInPlace
<1>10. PassInPlace' /\ LogicNeverInClosedSession'
  BY <1>1, <1>2, <1>3 DEF PassInPlace, LogicNeverInClosedSession, Apart
<1>11. DisconnectedAtMostOnce' /\ ReleaseInPlace' /\ ReleaserAwake' /\ UsersCounted'
  <2>1. DisconnectedAtMostOnce'
    BY <1>3 DEF DisconnectedAtMostOnce, TypeOK
  <2>2. ReleaseInPlace' /\ ReleaserAwake' /\ UsersCounted'
    BY <1>3 DEF ReleaseInPlace, ReleaserAwake, UsersCounted
  <2> QED
    BY <2>1, <2>2
<1> QED
  BY <1>4, <1>5, <1>8, <1>9, <1>10, <1>11, <1>12

(* A completion moves the receive, or the send, from the kernel to the     *)
(* thread that takes it.                                                   *)
LEMMA TakeCompletionInv ==
  ASSUME LifecycleInv, NEW t \in IoThreads, NEW s \in Sessions,
         NEW op \in {"recv", "send"}, NEW good \in BOOLEAN,
         TakeCompletion(t, s, op, good)
  PROVE  LifecycleInv'
<1> USE DEF LifecycleInv
<1>1. /\ t \in Threads /\ t # Accept /\ t # Logic /\ None \notin Sessions
      /\ Accept \in Threads /\ Logic \in Threads
  BY LifecycleAssumption DEF Threads
<1>2. PICK b \in {"recv", "send", "bad"} :
        /\ b = IF good THEN op ELSE "bad"
        /\ at' = [at EXCEPT ![t] = [pc |-> "find", s |-> s, op |-> b, then |-> "idle"]]
  BY DEF TakeCompletion
<1>3. /\ Apart(t)
      /\ at'[t] = [pc |-> "find", s |-> s, op |-> b, then |-> "idle"]
  BY <1>1, <1>2, Puts DEF TypeOK, Where
<1>4. /\ recvPosted' = recvPosted \ (IF op = "recv" THEN {s} ELSE {})
      /\ sendPosted' = sendPosted \ (IF op = "send" THEN {s} ELSE {})
      /\ s \in (IF op = "recv" THEN recvPosted ELSE sendPosted)
      /\ at[t].pc = "idle"
      /\ UNCHANGED <<ioCount, ioMode, sends, sessionMap, numOfUser, accepted,
                     disconnected, logicTodo, releaseQueue, releaseEvent,
                     releaseAt, releaseTarget>>
  BY DEF TakeCompletion, map, release
<1>5. TypeOK'
  BY <1>3, <1>4 DEF TypeOK, Apart
<1>6. s \in accepted
  BY <1>4 DEF NewInPlace, Untouched
<1>7. ThreadsInPlace'
  BY <1>1, <1>3, <1>4, <1>6 DEF ThreadsInPlace, InPlace, Apart
<1>8. NewInPlace'
  <2>1. ~Untouched(s)
    BY <1>4 DEF Untouched
  <2>2. \A u \in Sessions : Untouched(u) => Untouched(u)'
    BY <1>1, <1>3, <1>4, <2>1 DEF Untouched, Apart, Queued
  <2> QED
    BY <1>1, <1>3, <1>4, <2>2, NewKept DEF Apart
<1>9. ReceiverInPlace'
  <2>1. \A u \in Sessions \ {s} : Receiving(u)' \subseteq Receiving(u)
    BY <1>3 DEF Receiving, Apart, Threads
  <2>2. Receiving(s)' \subseteq Receiving(s) \cup {t}
    BY <1>3 DEF Receiving, Apart, Threads
  <2>3. op # "recv" => Receiving(s)' \subseteq Receiving(s)
    BY <1>2, <1>3 DEF Receiving, Apart, Threads
  <2>4. op = "recv" => Receiving(s) = {} /\ s \notin recvPosted'
    BY <1>4 DEF ReceiverInPlace
  <2>5. op # "recv" => recvPosted' = recvPosted
    BY <1>4
  <2>6. \A u \in Sessions \ {s} : u \in recvPosted' <=> u \in recvPosted
    BY <1>4
  <2>7. at'[Accept] = at[Accept]
    BY <1>1, <1>3 DEF Apart
  <2>8. op = "recv" => ~(at[Accept].s = s /\ at[Accept].pc = "wsarecv")
    BY <1>4 DEF ReceiverInPlace
  <2> QED
    BY <2>1, <2>2, <2>3, <2>4, <2>5, <2>6, <2>7, <2>8 DEF ReceiverInPlace
<1>12. SenderInPlace'
  <2>1. \A u \in Sessions \ {s} : Sending(u)' = Sending(u)
    BY <1>1, <1>3, <1>4 DEF Sending, Apart
  <2>2. Sending(s)' \subseteq Sending(s) \cup {t}
    BY <1>3 DEF Sending, Apart
  <2>3. op # "send" => Sending(s)' \subseteq Sending(s)
    BY <1>2, <1>3 DEF Sending, Apart
  <2>4. op = "send" => /\ Sending(s) = {} /\ s \notin sendPosted'
                       /\ ioMode[s] # "IO_NONE_SENDING"
    BY <1>4 DEF SenderInPlace
  <2>5. op # "send" => sendPosted' = sendPosted
    BY <1>4
  <2>6. \A u \in Sessions \ {s} : u \in sendPosted' <=> u \in sendPosted
    BY <1>4
  <2> QED
    BY <1>4, <2>1, <2>2, <2>3, <2>4, <2>5, <2>6 DEF SenderInPlace
<1>10. PassInPlace' /\ LogicNeverInClosedSession'
  BY <1>1, <1>3, <1>4 DEF PassInPlace, LogicNeverInClosedSession, Apart
<1>11. DisconnectedAtMostOnce' /\ ReleaseInPlace' /\ ReleaserAwake' /\ UsersCounted'
  BY <1>4
  DEF DisconnectedAtMostOnce, ReleaseInPlace, ReleaserAwake, UsersCounted
<1> QED
  BY <1>5, <1>7, <1>8, <1>9, <1>10, <1>11, <1>12

(* The logic thread's own steps: the lock, a visit, the unlock.            *)
LEMMA LogicInv ==
  ASSUME LifecycleInv,
         LogicLocks \/ LogicUnlocks \/ (\E s \in Sessions : LogicVisits(s))
  PROVE  LifecycleInv'
<1> USE DEF LifecycleInv
<1>1. /\ Logic \in Threads /\ Logic # Accept /\ Logic \notin IoThreads
      /\ None \notin Sessions /\ Accept \in Threads
      /\ at[Logic] \in Where /\ at \in [Threads -> Where]
  BY LifecycleAssumption DEF Threads, TypeOK
<1>2. UNCHANGED <<ioCount, ioMode, recvPosted, sendPosted, sends, sessionMap,
                  numOfUser, accepted, disconnected, releaseQueue, releaseEvent,
                  releaseAt, releaseTarget>>
  BY DEF LogicLocks, LogicUnlocks, LogicVisits, kernel, map, release
<1>3. /\ Apart(Logic)
      /\ \/ /\ at'[Logic].pc = "idle" /\ at'[Logic].s = None
            /\ at'[Logic].then = "idle" /\ logicTodo' = {}
         \/ /\ at'[Logic].pc = "pass" /\ at'[Logic].s = None
            /\ at'[Logic].then = "pass" /\ logicTodo' \subseteq sessionMap
         \/ /\ at'[Logic].pc = "dosend" /\ at'[Logic].s \in sessionMap
            /\ at'[Logic].then = "pass" /\ logicTodo' \subseteq sessionMap
      /\ at[Logic].pc \in {"idle", "pass"}
  <2>1. CASE LogicLocks
    <3>1. InPass \in Where /\ at' = [at EXCEPT ![Logic] = InPass]
      BY <2>1 DEF LogicLocks, InPass, Where
    <3>2. Apart(Logic) /\ at'[Logic] = InPass /\ logicTodo' = sessionMap
      BY <1>1, <2>1, <3>1, Puts DEF LogicLocks
    <3> QED
      BY <2>1, <3>2 DEF InPass, LogicLocks
  <2>2. CASE LogicUnlocks
    <3>1. Idle \in Where /\ at' = [at EXCEPT ![Logic] = Idle]
      BY <2>2 DEF LogicUnlocks, Idle, Where
    <3>2. Apart(Logic) /\ at'[Logic] = Idle /\ logicTodo' = {}
      BY <1>1, <2>2, <3>1, Puts DEF LogicUnlocks
    <3> QED
      BY <2>2, <3>2 DEF Idle, LogicUnlocks
  <2>3. ASSUME NEW s \in Sessions, LogicVisits(s)
        PROVE  <1>3
    <3>1. /\ at[Logic].pc = "pass" /\ at[Logic].s = None /\ at[Logic].then = "pass"
          /\ s \in sessionMap /\ logicTodo' \subseteq sessionMap
      BY <1>1, <2>3 DEF LogicVisits, ThreadsInPlace, InPlace,
         LogicNeverInClosedSession, PassInPlace
    <3>2. CASE UNCHANGED at
      BY <1>1, <3>1, <3>2 DEF Apart
    <3>3. CASE at' = [at EXCEPT ![Logic].pc = "dosend", ![Logic].s = s]
      <4> DEFINE r == [at[Logic] EXCEPT !.pc = "dosend", !.s = s]
      <4>1. r \in Where /\ r.pc = "dosend" /\ r.s = s /\ r.then = "pass"
        BY <1>1, <3>1 DEF Where
      <4>2. at' = [at EXCEPT ![Logic] = r]
        BY <1>1, <3>3
      <4> HIDE DEF r
      <4>3. Apart(Logic) /\ at'[Logic] = r
        BY <1>1, <4>1, <4>2, Puts
      <4> QED
        BY <3>1, <4>1, <4>3
    <3> QED
      BY <2>3, <3>2, <3>3 DEF LogicVisits
  <2> QED
    BY <2>1, <2>2, <2>3
<1>4. TypeOK'
  BY <1>2, <1>3 DEF TypeOK, Apart
<1>5. ThreadsInPlace'
  BY <1>1, <1>2, <1>3 DEF ThreadsInPlace, InPlace, Apart, TypeOK
<1>6. NewInPlace'
  <2>1. \A u \in Sessions : Untouched(u) => Untouched(u)'
    BY <1>1, <1>2, <1>3 DEF Untouched, Apart, Queued
  <2> QED
    BY <1>1, <1>2, <1>3, <2>1, NewKept DEF Apart
<1>7. ReceiverInPlace'
  <2>1. \A u \in Sessions : Receiving(u)' = Receiving(u)
    BY <1>1, <1>3 DEF Receiving, Apart, Threads
  <2> QED
    BY <1>1, <1>2, <1>3, <2>1 DEF ReceiverInPlace, Apart
<1>10. SenderInPlace'
  <2>1. \A u \in Sessions : Sending(u)' = Sending(u)
    BY <1>1, <1>3 DEF Sending, Apart
  <2> QED
    BY <1>2, <2>1 DEF SenderInPlace
<1>8. PassInPlace' /\ LogicNeverInClosedSession'
  BY <1>1, <1>2, <1>3 DEF PassInPlace, LogicNeverInClosedSession, TypeOK
<1>9. DisconnectedAtMostOnce' /\ ReleaseInPlace' /\ ReleaserAwake' /\ UsersCounted'
  BY <1>2
  DEF DisconnectedAtMostOnce, ReleaseInPlace, ReleaserAwake, UsersCounted
<1> QED
  BY <1>4, <1>5, <1>6, <1>7, <1>8, <1>9, <1>10

(* The steps of the release thread that take nothing from the queue and    *)
(* nothing from the map.                                                   *)
LEMMA ReleaseMovesInv ==
  ASSUME LifecycleInv, ReleaseWakes \/ ReleaseLocks \/ ReleaseUnlocks
  PROVE  LifecycleInv'
<1> USE DEF LifecycleInv
<1>1. UNCHANGED <<ioCount, ioMode, recvPosted, sendPosted, sends, sessionMap,
                  numOfUser, accepted, disconnected, at, logicTodo,
                  releaseQueue, releaseTarget>>
  BY DEF ReleaseWakes, ReleaseLocks, ReleaseUnlocks, kernel, map
<1>2. /\ releaseAt' \in {"wait", "lock", "drain"} /\ releaseEvent' \in BOOLEAN
      /\ releaseQueue # << >> => releaseAt' # "wait"
  BY DEF ReleaseWakes, ReleaseLocks, ReleaseUnlocks, TypeOK
<1>3. TypeOK' /\ ThreadsInPlace'
  BY <1>1, <1>2 DEF TypeOK, ThreadsInPlace, InPlace
<1>4. NewInPlace' /\ ReceiverInPlace' /\ SenderInPlace'
  BY <1>1 DEF NewInPlace, Untouched, Queued, ReceiverInPlace, Receiving,
     SenderInPlace, Sending
<1>5. PassInPlace' /\ LogicNeverInClosedSession' /\ UsersCounted'
  BY <1>1 DEF PassInPlace, LogicNeverInClosedSession, UsersCounted
<1>6. DisconnectedAtMostOnce' /\ ReleaseInPlace' /\ ReleaserAwake'
  BY <1>1, <1>2 DEF DisconnectedAtMostOnce, ReleaseInPlace, ReleaserAwake
<1> QED
  BY <1>3, <1>4, <1>5, <1>6

(* The key at the front is looked up.                                      *)
LEMMA ReleaseFindsInv ==
  ASSUME LifecycleInv, ReleaseFinds
  PROVE  LifecycleInv'
<1> USE DEF LifecycleInv
<1>1. UNCHANGED <<ioCount, ioMode, recvPosted, sendPosted, sends, sessionMap,
                  numOfUser, accepted, disconnected, at, logicTodo, releaseEvent>>
  BY DEF ReleaseFinds, kernel, map
<1>2. /\ releaseQueue' \in Seq(Sessions)
      /\ \A s : Queued(s)' => Queued(s)
  BY TailQueued DEF ReleaseFinds, TypeOK, Queued
<1>3. TypeOK' /\ ThreadsInPlace'
  BY <1>1, <1>2 DEF TypeOK, ThreadsInPlace, InPlace, ReleaseFinds
<1>4. \A s \in Sessions : Untouched(s) => Untouched(s)'
  BY <1>1, <1>2 DEF Untouched
<1>5. NewInPlace'
  BY <1>1, <1>2, <1>4
  DEF NewInPlace, TypeOK, ThreadsInPlace, InPlace, Untouched
<1>6. ReceiverInPlace' /\ SenderInPlace'
  BY <1>1 DEF ReceiverInPlace, Receiving, SenderInPlace, Sending
<1>7. PassInPlace' /\ LogicNeverInClosedSession' /\ UsersCounted'
  BY <1>1 DEF PassInPlace, LogicNeverInClosedSession, UsersCounted
<1>8. DisconnectedAtMostOnce' /\ ReleaseInPlace' /\ ReleaserAwake'
  BY <1>1
  DEF DisconnectedAtMostOnce, ReleaseInPlace, ReleaserAwake, ReleaseFinds
<1> QED
  BY <1>3, <1>5, <1>6, <1>7, <1>8

(* The erase waits for the pass of the logic thread to end.                *)
LEMMA ReleaseErasesInv ==
  ASSUME LifecycleInv, ReleaseErases
  PROVE  LifecycleInv'
<1> USE DEF LifecycleInv
<1>1. /\ sessionMap' = sessionMap \ {releaseTarget} /\ numOfUser' = numOfUser - 1
      /\ releaseAt = "erase" /\ releaseAt' = "disconnect"
      /\ UNCHANGED <<ioCount, ioMode, recvPosted, sendPosted, sends, accepted,
                     disconnected, at, logicTodo, releaseQueue, releaseEvent,
                     releaseTarget>>
  BY DEF ReleaseErases, kernel
<1>2. /\ at[Logic].pc = "idle" /\ at[Logic].s = None /\ logicTodo = {}
      /\ None \notin Sessions
  BY LifecycleAssumption
  DEF ReleaseErases, MapMutexFree, ThreadsInPlace, InPlace,
     Threads, PassInPlace
<1>3. releaseTarget \in sessionMap /\ releaseTarget \in accepted
  BY <1>1 DEF ReleaseInPlace, TypeOK
<1>4. TypeOK' /\ ThreadsInPlace'
  BY <1>1 DEF TypeOK, ThreadsInPlace, InPlace
<1>5. NewInPlace' /\ ReceiverInPlace' /\ SenderInPlace'
  BY <1>1 DEF NewInPlace, Untouched, Queued, ReceiverInPlace, Receiving,
     SenderInPlace, Sending
<1>6. PassInPlace' /\ LogicNeverInClosedSession'
  BY <1>1, <1>2 DEF PassInPlace, LogicNeverInClosedSession
<1>7. UsersCounted'
  <2>1. /\ IsFiniteSet(sessionMap \ {releaseTarget})
        /\ Cardinality(sessionMap \ {releaseTarget}) = Cardinality(sessionMap) - 1
    BY <1>3, FS_RemoveElement DEF UsersCounted
  <2> QED
    BY <1>1, <2>1 DEF UsersCounted
<1>8. DisconnectedAtMostOnce'
  BY <1>1 DEF DisconnectedAtMostOnce, TypeOK
<1>9. ReleaseInPlace' /\ ReleaserAwake'
  <2>1. disconnected[releaseTarget] <= 0 /\ disconnected[releaseTarget] \in Nat
    BY <1>3 DEF DisconnectedAtMostOnce, TypeOK
  <2> QED
    BY <1>1, <1>3, <2>1 DEF ReleaseInPlace, ReleaserAwake
<1> QED
  BY <1>4, <1>5, <1>6, <1>7, <1>8, <1>9

(* OnDisconnected runs for the key at the front, which then leaves.        *)
LEMMA ReleaseDisconnectsInv ==
  ASSUME LifecycleInv, ReleaseDisconnects
  PROVE  LifecycleInv'
<1> USE DEF LifecycleInv
<1>1. /\ disconnected' = [disconnected EXCEPT ![releaseTarget] = @ + 1]
      /\ releaseQueue' = Tail(releaseQueue)
      /\ releaseAt = "disconnect" /\ releaseAt' = "drain"
      /\ UNCHANGED <<ioCount, ioMode, recvPosted, sendPosted, sends, sessionMap,
                     numOfUser, accepted, at, logicTodo, releaseEvent>>
  BY DEF ReleaseDisconnects, kernel, map
<1>2. /\ releaseQueue # << >> /\ releaseTarget = Head(releaseQueue)
      /\ releaseTarget \in accepted /\ releaseTarget \notin sessionMap
      /\ disconnected[releaseTarget] = 0
      /\ releaseTarget \in Sessions
  BY <1>1 DEF ReleaseInPlace, TypeOK
<1>3. /\ releaseQueue' \in Seq(Sessions)
      /\ \A s : Queued(s)' => Queued(s)
      /\ Queued(releaseTarget)
  BY <1>1, <1>2, TailQueued, HeadQueued DEF TypeOK
<1>4. TypeOK' /\ ThreadsInPlace'
  BY <1>1, <1>2, <1>3 DEF TypeOK, ThreadsInPlace, InPlace
<1>5. \A s \in Sessions : Untouched(s) => Untouched(s)'
  BY <1>1, <1>2, <1>3 DEF Untouched, TypeOK
<1>6. NewInPlace'
  BY <1>1, <1>5
  DEF NewInPlace, TypeOK, ThreadsInPlace, InPlace, Untouched, Threads
<1>7. ReceiverInPlace' /\ SenderInPlace'
  BY <1>1 DEF ReceiverInPlace, Receiving, SenderInPlace, Sending
<1>8. PassInPlace' /\ LogicNeverInClosedSession' /\ UsersCounted'
  BY <1>1 DEF PassInPlace, LogicNeverInClosedSession, UsersCounted
<1>9. DisconnectedAtMostOnce' /\ ReleaseInPlace' /\ ReleaserAwake'
  BY <1>1, <1>2
  DEF DisconnectedAtMostOnce, ReleaseInPlace, ReleaserAwake, TypeOK
<1> QED
  BY <1>4, <1>6, <1>7, <1>8, <1>9

(* Every step keeps the invariant.                                         *)
LEMMA StepInv == LifecycleInv /\ [Next]_vars => LifecycleInv'
<1> SUFFICES ASSUME LifecycleInv, [Next]_vars PROVE LifecycleInv'
  OBVIOUS
<1>0. Accept \in Threads /\ Logic \in Threads /\ IoThreads \subseteq Threads
  BY DEF Threads
<1>1. CASE \E s \in Sessions : AcceptSession(s)
  BY <1>1, AcceptSessionInv
<1>2. CASE AcceptStep
  BY <1>0, <1>2, InsertSessionInv, FirstRecvInv, DecreaseIOCountInv,
     ReleaseSessionInv
  DEF AcceptStep, CountStep
<1>3. ASSUME NEW t \in IoThreads, Completions(t)
      PROVE  LifecycleInv'
  BY <1>3, TakeCompletionInv DEF Completions
<1>4. ASSUME NEW t \in Threads, SendStep(t) \/ CountStep(t)
      PROVE  LifecycleInv'
  BY <1>4, DoSendNothingInv, DoSendTakesInv, WSASendPostedInv, WSASendFailsInv,
     DecreaseIOCountInv, ReleaseSessionInv DEF SendStep, CountStep
<1>5. ASSUME NEW t \in IoThreads, IoStep(t)
      PROVE  LifecycleInv'
  BY <1>0, <1>4, <1>5, FindSessionInv, RecvCompletedInv, SendCompletedInv
  DEF IoStep
<1>6. CASE LogicLocks \/ LogicStep
  BY <1>0, <1>4, <1>6, LogicInv DEF LogicStep
<1>7. CASE ReleaseStep
  BY <1>7, ReleaseMovesInv, ReleaseFindsInv, ReleaseErasesInv,
     ReleaseDisconnectsInv
  DEF ReleaseStep
<1>8. CASE UNCHANGED vars
  BY <1>8 DEF vars, kernel, map, release, LifecycleInv, TypeOK, ThreadsInPlace,
     InPlace, ReleaseInPlace, NewInPlace, Untouched, Queued, ReceiverInPlace,
     Receiving, SenderInPlace, Sending, PassInPlace, UsersCounted, LogicNeverInClosedSession,
     DisconnectedAtMostOnce, ReleaserAwake
<1> QED
  BY <1>1, <1>2, <1>3, <1>5, <1>6, <1>7, <1>8 DEF Next

(* The invariant of the session life cycle: the accept, IO, logic and      *)
(* release threads of ServerCore stay in their own code, the key that is   *)
(* being released is the front of the queue, and numOfUser is the size of  *)
(* sessionMap.                                                             *)
THEOREM LifecycleInvariant == Spec => []LifecycleInv
  BY InitInv, StepInv, PTL DEF Spec

(* The logic thread never works on a session EraseSession has taken out.   *)
THEOREM LogicNeverInClosedSessionHolds == Spec => []LogicNeverInClosedSession
<1>1. LifecycleInv => LogicNeverInClosedSession
  BY DEF LifecycleInv
<1> QED
  BY <1>1, LifecycleInvariant, PTL

(* OnDisconnected runs at most once for a session, and only after the      *)
(* erase, although its key may be queued more than once.                   *)
THEOREM DisconnectedAtMostOnceHolds == Spec => []DisconnectedAtMostOnce
<1>1. LifecycleInv => DisconnectedAtMostOnce
  BY DEF LifecycleInv
<1> QED
  BY <1>1, LifecycleInvariant, PTL

(* The receive ring buffer of a session never has two users: the kernel    *)
(* with a posted WSARecv, or one IO thread with a completed one.           *)
THEOREM OneReceiverAtATimeHolds == Spec => []OneReceiverAtATime
<1>1. ASSUME LifecycleInv, NEW s \in Sessions
      PROVE  Cardinality(Receiving(s)) + Cardinality({s} \cap recvPosted) <= 1
  <2>1. Cardinality({}) = 0 /\ \A x : Cardinality({x}) = 1
    BY FS_EmptySet, FS_Singleton
  <2>2. Receiving(s) = {} \/ \E t : Receiving(s) = {t}
    BY <1>1 DEF LifecycleInv, ReceiverInPlace
  <2>3. {s} \cap recvPosted = IF s \in recvPosted THEN {s} ELSE {}
    OBVIOUS
  <2>4. s \in recvPosted => Receiving(s) = {}
    BY <1>1 DEF LifecycleInv, ReceiverInPlace
  <2>5. Cardinality(Receiving(s)) = 0 \/ Cardinality(Receiving(s)) = 1
    BY <2>1, <2>2
  <2>6. CASE s \in recvPosted
    <3>1. Cardinality(Receiving(s)) = 0 /\ Cardinality({s} \cap recvPosted) = 1
      BY <2>1, <2>3, <2>4, <2>6
    <3> QED
      BY <3>1
  <2>7. CASE s \notin recvPosted
    <3>1. Cardinality({s} \cap recvPosted) = 0
      BY <2>1, <2>3, <2>7
    <3> QED
      BY <2>5, <3>1
  <2> QED
    BY <2>6, <2>7
<1>2. LifecycleInv => OneReceiverAtATime
  BY <1>1 DEF OneReceiverAtATime
<1> QED
  BY <1>2, LifecycleInvariant, PTL

----------------------------------------------------------------------------
(* What ioCount says: it is the number of references to a session for as   *)
(* long as the session is in the map, and a session whose count is 0 is on *)
(* its way out.  Both are inductive together with LifecycleInv.            *)
Bit(b) == IF b THEN 1 ELSE 0

CountInv == LifecycleInv /\ IoCountIsReferences /\ NoReleaseLost

(* There are finitely many threads, hence holders of a session.            *)
LEMMA ThreadsFinite == IsFiniteSet(Threads)
<1>1. IsFiniteSet(IoThreads)
  BY LifecycleAssumption
<1>2. IsFiniteSet(IoThreads \cup {Accept})
  BY <1>1, FS_AddElement
<1>3. IsFiniteSet((IoThreads \cup {Accept}) \cup {Logic})
  BY <1>2, FS_AddElement
<1>4. Threads = (IoThreads \cup {Accept}) \cup {Logic}
  BY DEF Threads
<1> QED
  BY <1>3, <1>4

(* The size of a set and one of its possible members.                      *)
LEMMA CardWithout ==
  ASSUME NEW S, IsFiniteSet(S), NEW t
  PROVE  /\ Cardinality(S) \in Nat
         /\ Cardinality(S \ {t}) \in Nat
         /\ Cardinality(S) = Cardinality(S \ {t}) + Bit(t \in S)
<1>1. IsFiniteSet(S \ {t})
  BY FS_Subset
<1>2. Cardinality(S) \in Nat /\ Cardinality(S \ {t}) \in Nat
  BY <1>1, FS_CardinalityType
<1>3. CASE t \in S
  <2>1. Cardinality(S \ {t}) = Cardinality(S) - 1
    BY <1>3, FS_RemoveElement
  <2> QED
    BY <1>2, <1>3, <2>1 DEF Bit
<1>4. CASE t \notin S
  <2>1. S \ {t} = S
    BY <1>4
  <2>2. Bit(t \in S) = 0
    BY <1>4 DEF Bit
  <2>3. Cardinality(S \ {t}) = Cardinality(S)
    BY <2>1
  <2> QED
    BY <1>2, <2>2, <2>3
<1> QED
  BY <1>3, <1>4

LEMMA CardPoint ==
  ASSUME NEW s, NEW A
  PROVE  Cardinality({s} \cap A) = Bit(s \in A)
<1>1. {s} \cap A = IF s \in A THEN {s} ELSE {}
  OBVIOUS
<1> QED
  BY <1>1, FS_EmptySet, FS_Singleton DEF Bit

(* How the references to a session change when one thread moves.           *)
LEMMA Recount ==
  ASSUME NEW t \in Threads, NEW s, \A u \in Threads \ {t} : at'[u] = at[u]
  PROVE  /\ References(s) \in Nat
         /\ References(s) >= Bit(t \in Holders(s))
         /\ References(s)' = References(s)
              + (Bit(t \in Holders(s)') - Bit(t \in Holders(s)))
              + (Bit(s \in recvPosted') - Bit(s \in recvPosted))
              + (Bit(s \in sendPosted') - Bit(s \in sendPosted))
<1>1. Holders(s) \subseteq Threads /\ Holders(s)' \subseteq Threads
  BY DEF Holders
<1>2. IsFiniteSet(Holders(s)) /\ IsFiniteSet(Holders(s)')
  BY <1>1, ThreadsFinite, FS_Subset
<1>3. Holders(s)' \ {t} = Holders(s) \ {t}
  BY DEF Holders
<1>4. PICK n \in Nat : n = Cardinality(Holders(s) \ {t})
  BY <1>2, CardWithout
<1>5. Cardinality(Holders(s)) = n + Bit(t \in Holders(s))
  BY <1>2, <1>4, CardWithout
<1>6. Cardinality(Holders(s)') = n + Bit(t \in Holders(s)')
  BY <1>2, <1>3, <1>4, CardWithout
<1>7. References(s) = (n + Bit(t \in Holders(s))) + Bit(s \in recvPosted)
                        + Bit(s \in sendPosted)
  BY <1>5, CardPoint DEF References
<1>8. References(s)' = (n + Bit(t \in Holders(s)')) + Bit(s \in recvPosted')
                         + Bit(s \in sendPosted')
  BY <1>6, CardPoint DEF References
<1> QED
  BY <1>7, <1>8 DEF Bit

(* Nothing of what References counts has changed.                          *)
LEMMA SameReferences ==
  ASSUME NEW s, UNCHANGED <<at, recvPosted, sendPosted>>
  PROVE  References(s)' = References(s)
  BY DEF References, Holders

(* A step of one thread leaves the counts of other sessions right.         *)
LEMMA LocalCount ==
  ASSUME LifecycleInv, IoCountIsReferences, NEW t \in Threads, Local(t),
         NEW x \in Sessions, x = at[t].s, sessionMap' \subseteq Sessions,
         x \in sessionMap' => ioCount'[x] = References(x)'
  PROVE  IoCountIsReferences'
<1>1. ASSUME NEW s \in sessionMap', s # x
      PROVE  ioCount'[s] = References(s)'
  <2>1. s \in Sessions /\ s # None
    BY LifecycleAssumption
  <2>2. /\ ioCount'[s] = ioCount[s] /\ s \in sessionMap
        /\ s \in recvPosted' <=> s \in recvPosted
        /\ s \in sendPosted' <=> s \in sendPosted
        /\ \A u \in Threads \ {t} : at'[u] = at[u]
    BY <1>1, <2>1 DEF Local, Apart
  <2>3. t \notin Holders(s) /\ t \notin Holders(s)'
    BY <1>1, <2>1 DEF Holders, Local
  <2>4. References(s) \in Nat /\ References(s)' = References(s)
    BY <2>2, <2>3, Recount DEF Bit
  <2> QED
    BY <2>2, <2>4 DEF IoCountIsReferences
<1> QED
  BY <1>1 DEF IoCountIsReferences

(* A session on its way out stays on its way out.                          *)
LEMMA LocalRelease ==
  ASSUME NoReleaseLost, NEW t \in Threads, Local(t),
         NEW x \in Sessions, x = at[t].s, sessionMap' \subseteq Sessions,
         x \in sessionMap' /\ ioCount'[x] = 0 =>
           \/ Queued(x)'
           \/ at'[t].s = x /\ at'[t].pc = "release"
           \/ /\ ioCount[x] = 0
              /\ x \in sessionMap
              /\ at[t].pc # "release"
              /\ Queued(x) => Queued(x)',
         ReleaserAwake'
  PROVE  NoReleaseLost'
<1>1. \A u \in Threads \ {t} : at'[u] = at[u]
  BY DEF Local, Apart
<1>2. ASSUME NEW s \in sessionMap', s # x, ioCount'[s] = 0
      PROVE  Queued(s)' \/ \E u \in Threads : at'[u].s = s /\ at'[u].pc = "release"
  <2>1. s \in Sessions /\ s \in sessionMap /\ ioCount[s] = 0 /\ (Queued(s)' <=> Queued(s))
    BY <1>2 DEF Local
  <2>2. Queued(s) \/ \E u \in Threads : at[u].s = s /\ at[u].pc = "release"
    BY <2>1 DEF NoReleaseLost
  <2>3. \A u \in Threads : at[u].s = s => at'[u] = at[u]
    BY <1>1, <1>2
  <2> QED
    BY <2>1, <2>2, <2>3
<1>3. ASSUME x \in sessionMap', ioCount'[x] = 0
      PROVE  Queued(x)' \/ \E u \in Threads : at'[u].s = x /\ at'[u].pc = "release"
  <2>1. CASE Queued(x)' \/ (at'[t].s = x /\ at'[t].pc = "release")
    BY <2>1
  <2>2. CASE /\ ioCount[x] = 0
             /\ x \in sessionMap
             /\ at[t].pc # "release"
             /\ Queued(x) => Queued(x)'
    <3>1. Queued(x) \/ \E u \in Threads : at[u].s = x /\ at[u].pc = "release"
      BY <2>2 DEF NoReleaseLost
    <3>2. \A u \in Threads : at[u].pc = "release" => at'[u] = at[u]
      BY <1>1, <2>2
    <3> QED
      BY <2>2, <3>1, <3>2
  <2> QED
    BY <1>3, <2>1, <2>2
<1> QED
  BY <1>2, <1>3 DEF NoReleaseLost

(* The thread that drops its reference is one of those counted.            *)
LEMMA DecreaseIOCountCounts ==
  ASSUME CountInv, NEW t \in Threads, DecreaseIOCount(t)
  PROVE  CountInv'
<1> USE DEF CountInv
<1>1. /\ t \in Threads /\ at[t] \in Where /\ at[t].s \in Sessions
      /\ InPlace(t) /\ Local(t) /\ TypeOK
  BY DecreaseIOCountLocal
  DEF Threads, LifecycleInv, TypeOK, ThreadsInPlace, InPlace, DecreaseIOCount
<1>2. IF ioCount[at[t].s] = 1 THEN Moved(t, "release") ELSE Returned(t)
  BY DecreaseIOCountLocal
<1>3. LifecycleInv' /\ sessionMap' \subseteq Sessions /\ ReleaserAwake'
  BY <1>1, DecreaseIOCountInv DEF LifecycleInv, TypeOK
<1>4. PICK x \in Sessions : x = at[t].s
  BY <1>1
<1>5. /\ References(x) \in Nat
      /\ References(x) >= Bit(t \in Holders(x))
      /\ References(x)' = References(x)
           + (Bit(t \in Holders(x)') - Bit(t \in Holders(x)))
           + (Bit(x \in recvPosted') - Bit(x \in recvPosted))
           + (Bit(x \in sendPosted') - Bit(x \in sendPosted))
  BY <1>1, Recount DEF Local, Apart
<1>6. t \in Holders(x) /\ t \notin Holders(x)'
  BY <1>1, <1>2, <1>4, Fields, LifecycleAssumption
  DEF DecreaseIOCount, Holders, Holding, Moved, Returned, InPlace
<1>8. x \in sessionMap' => ioCount'[x] = References(x)'
  BY <1>1, <1>4, <1>5, <1>6, Fields
  DEF DecreaseIOCount, IoCountIsReferences, Bit, TypeOK, kernel, map
<1>9. IoCountIsReferences'
  BY <1>1, <1>3, <1>4, <1>8, LocalCount
<1>10. x \in sessionMap' /\ ioCount'[x] = 0 => at'[t].s = x /\ at'[t].pc = "release"
  BY <1>1, <1>2, <1>4, Fields DEF DecreaseIOCount, TypeOK, Moved
<1> QED
  BY <1>1, <1>3, <1>4, <1>9, <1>10, LocalRelease

(* The thread that queues a key holds no reference any more.               *)
LEMMA ReleaseSessionCounts ==
  ASSUME CountInv, NEW t \in Threads, ReleaseSession(t)
  PROVE  CountInv'
<1> USE DEF CountInv
<1>1. /\ t \in Threads /\ at[t] \in Where /\ at[t].s \in Sessions
      /\ InPlace(t) /\ Local(t) /\ TypeOK
  BY ReleaseSessionLocal
  DEF Threads, LifecycleInv, TypeOK, ThreadsInPlace, InPlace, ReleaseSession
<1>2. Returned(t)
  BY ReleaseSessionLocal
<1>3. LifecycleInv' /\ sessionMap' \subseteq Sessions /\ ReleaserAwake'
  BY <1>1, ReleaseSessionInv DEF LifecycleInv, TypeOK
<1>4. PICK x \in Sessions : x = at[t].s
  BY <1>1
<1>5. /\ References(x) \in Nat
      /\ References(x) >= Bit(t \in Holders(x))
      /\ References(x)' = References(x)
           + (Bit(t \in Holders(x)') - Bit(t \in Holders(x)))
           + (Bit(x \in recvPosted') - Bit(x \in recvPosted))
           + (Bit(x \in sendPosted') - Bit(x \in sendPosted))
  BY <1>1, Recount DEF Local, Apart
<1>6. t \notin Holders(x) /\ t \notin Holders(x)'
  BY <1>1, <1>2, <1>4, Fields, LifecycleAssumption
  DEF ReleaseSession, Holders, Holding, Returned, InPlace, QueueMutexFree
<1>8. x \in sessionMap' => ioCount'[x] = References(x)'
  BY <1>1, <1>4, <1>5, <1>6, Fields
  DEF ReleaseSession, IoCountIsReferences, Bit, TypeOK, kernel, map
<1>9. IoCountIsReferences'
  BY <1>1, <1>3, <1>4, <1>8, LocalCount
<1>10. Queued(x)'
  BY <1>1, <1>4, AppendQueued DEF ReleaseSession, TypeOK
<1> QED
  BY <1>1, <1>3, <1>4, <1>9, <1>10, LocalRelease

(* A DoSend that does nothing counts nothing.                              *)
LEMMA DoSendNothingCounts ==
  ASSUME CountInv, NEW t \in Threads, DoSendNothing(t)
  PROVE  CountInv'
<1> USE DEF CountInv
<1>1. /\ t \in Threads /\ at[t] \in Where /\ at[t].s \in Sessions
      /\ InPlace(t) /\ Local(t) /\ TypeOK
  BY DoSendNothingLocal
  DEF Threads, LifecycleInv, TypeOK, ThreadsInPlace, InPlace, DoSendNothing
<1>2. Returned(t)
  BY DoSendNothingLocal
<1>3. LifecycleInv' /\ sessionMap' \subseteq Sessions /\ ReleaserAwake'
  BY <1>1, DoSendNothingInv DEF LifecycleInv, TypeOK
<1>4. PICK x \in Sessions : x = at[t].s
  BY <1>1
<1>5. /\ References(x) \in Nat
      /\ References(x) >= Bit(t \in Holders(x))
      /\ References(x)' = References(x)
           + (Bit(t \in Holders(x)') - Bit(t \in Holders(x)))
           + (Bit(x \in recvPosted') - Bit(x \in recvPosted))
           + (Bit(x \in sendPosted') - Bit(x \in sendPosted))
  BY <1>1, Recount DEF Local, Apart
<1>6. t \notin Holders(x) /\ t \notin Holders(x)'
  BY <1>1, <1>2, <1>4, Fields, LifecycleAssumption
  DEF DoSendNothing, Holders, Holding, Returned, InPlace
<1>8. x \in sessionMap' => ioCount'[x] = References(x)'
  BY <1>1, <1>4, <1>5, <1>6, Fields
  DEF DoSendNothing, IoCountIsReferences, Bit, TypeOK, kernel, map
<1>9. IoCountIsReferences'
  BY <1>1, <1>3, <1>4, <1>8, LocalCount
<1>10. /\ ioCount'[x] = ioCount[x] /\ (x \in sessionMap' => x \in sessionMap)
       /\ at[t].pc # "release" /\ (Queued(x) => Queued(x)')
  BY <1>4 DEF DoSendNothing, map, release, Queued
<1> QED
  BY <1>1, <1>3, <1>4, <1>9, <1>10, LocalRelease

(* The new reference is the sending thread's.                              *)
LEMMA DoSendTakesCounts ==
  ASSUME CountInv, NEW t \in Threads, DoSendTakes(t)
  PROVE  CountInv'
<1> USE DEF CountInv
<1>1. /\ t \in Threads /\ at[t] \in Where /\ at[t].s \in Sessions
      /\ InPlace(t) /\ Local(t) /\ TypeOK
  BY DoSendTakesLocal
  DEF Threads, LifecycleInv, TypeOK, ThreadsInPlace, InPlace, DoSendTakes
<1>2. Moved(t, "wsasend")
  BY DoSendTakesLocal
<1>3. LifecycleInv' /\ sessionMap' \subseteq Sessions /\ ReleaserAwake'
  BY <1>1, DoSendTakesInv DEF LifecycleInv, TypeOK
<1>4. PICK x \in Sessions : x = at[t].s
  BY <1>1
<1>5. /\ References(x) \in Nat
      /\ References(x) >= Bit(t \in Holders(x))
      /\ References(x)' = References(x)
           + (Bit(t \in Holders(x)') - Bit(t \in Holders(x)))
           + (Bit(x \in recvPosted') - Bit(x \in recvPosted))
           + (Bit(x \in sendPosted') - Bit(x \in sendPosted))
  BY <1>1, Recount DEF Local, Apart
<1>6. t \notin Holders(x) /\ t \in Holders(x)'
  BY <1>1, <1>2, <1>4, Fields, LifecycleAssumption
  DEF DoSendTakes, Holders, Holding, Moved, InPlace
<1>8. x \in sessionMap' => ioCount'[x] = References(x)'
  BY <1>1, <1>4, <1>5, <1>6, Fields
  DEF DoSendTakes, IoCountIsReferences, Bit, TypeOK, kernel, map
<1>9. IoCountIsReferences'
  BY <1>1, <1>3, <1>4, <1>8, LocalCount
<1>10. x \in sessionMap' => References(x)' # 0
  BY <1>5, <1>6, <1>1 DEF Bit, DoSendTakes, kernel
<1> QED
  BY <1>1, <1>3, <1>4, <1>8, <1>9, <1>10, LocalRelease

(* The reference of the sending thread becomes that of the posted send.    *)
LEMMA WSASendPostedCounts ==
  ASSUME CountInv, NEW t \in Threads, WSASendPosted(t)
  PROVE  CountInv'
<1> USE DEF CountInv
<1>1. /\ t \in Threads /\ at[t] \in Where /\ at[t].s \in Sessions
      /\ InPlace(t) /\ Local(t) /\ TypeOK
  BY WSASendPostedLocal
  DEF Threads, LifecycleInv, TypeOK, ThreadsInPlace, InPlace, WSASendPosted
<1>2. Returned(t)
  BY WSASendPostedLocal
<1>3. LifecycleInv' /\ sessionMap' \subseteq Sessions /\ ReleaserAwake'
  BY <1>1, WSASendPostedInv DEF LifecycleInv, TypeOK
<1>4. PICK x \in Sessions : x = at[t].s
  BY <1>1
<1>5. /\ References(x) \in Nat
      /\ References(x) >= Bit(t \in Holders(x))
      /\ References(x)' = References(x)
           + (Bit(t \in Holders(x)') - Bit(t \in Holders(x)))
           + (Bit(x \in recvPosted') - Bit(x \in recvPosted))
           + (Bit(x \in sendPosted') - Bit(x \in sendPosted))
  BY <1>1, Recount DEF Local, Apart
<1>6. t \in Holders(x) /\ t \notin Holders(x)'
  BY <1>1, <1>2, <1>4, Fields, LifecycleAssumption
  DEF WSASendPosted, Holders, Holding, Returned, InPlace
<1>7. x \notin sendPosted
  <2>1. t \in Sending(x)
    BY <1>1, <1>4 DEF WSASendPosted, Sending
  <2> QED
    BY <2>1 DEF LifecycleInv, SenderInPlace
<1>8. x \in sessionMap' => ioCount'[x] = References(x)'
  BY <1>1, <1>4, <1>5, <1>6, <1>7, Fields
  DEF WSASendPosted, IoCountIsReferences, Bit, TypeOK, kernel, map
<1>9. IoCountIsReferences'
  BY <1>1, <1>3, <1>4, <1>8, LocalCount
<1>10. /\ ioCount'[x] = ioCount[x] /\ (x \in sessionMap' => x \in sessionMap)
       /\ at[t].pc # "release" /\ (Queued(x) => Queued(x)')
  BY <1>4 DEF WSASendPosted, map, release, Queued
<1> QED
  BY <1>1, <1>3, <1>4, <1>9, <1>10, LocalRelease

(* A failed WSASend leaves the reference to be dropped by its thread.      *)
LEMMA WSASendFailsCounts ==
  ASSUME CountInv, NEW t \in Threads, WSASendFails(t)
  PROVE  CountInv'
<1> USE DEF CountInv
<1>1. /\ t \in Threads /\ at[t] \in Where /\ at[t].s \in Sessions
      /\ InPlace(t) /\ Local(t) /\ TypeOK
  BY WSASendFailsLocal
  DEF Threads, LifecycleInv, TypeOK, ThreadsInPlace, InPlace, WSASendFails
<1>2. Moved(t, "decrease")
  BY WSASendFailsLocal
<1>3. LifecycleInv' /\ sessionMap' \subseteq Sessions /\ ReleaserAwake'
  BY <1>1, WSASendFailsInv DEF LifecycleInv, TypeOK
<1>4. PICK x \in Sessions : x = at[t].s
  BY <1>1
<1>5. /\ References(x) \in Nat
      /\ References(x) >= Bit(t \in Holders(x))
      /\ References(x)' = References(x)
           + (Bit(t \in Holders(x)') - Bit(t \in Holders(x)))
           + (Bit(x \in recvPosted') - Bit(x \in recvPosted))
           + (Bit(x \in sendPosted') - Bit(x \in sendPosted))
  BY <1>1, Recount DEF Local, Apart
<1>6. t \in Holders(x) /\ t \in Holders(x)'
  BY <1>1, <1>2, <1>4, Fields, LifecycleAssumption
  DEF WSASendFails, Holders, Holding, Moved, InPlace
<1>8. x \in sessionMap' => ioCount'[x] = References(x)'
  BY <1>1, <1>4, <1>5, <1>6, Fields
  DEF WSASendFails, IoCountIsReferences, Bit, TypeOK, kernel, map
<1>9. IoCountIsReferences'
  BY <1>1, <1>3, <1>4, <1>8, LocalCount
<1>10. /\ ioCount'[x] = ioCount[x] /\ (x \in sessionMap' => x \in sessionMap)
       /\ at[t].pc # "release" /\ (Queued(x) => Queued(x)')
  BY <1>4 DEF WSASendFails, map, release, Queued
<1> QED
  BY <1>1, <1>3, <1>4, <1>9, <1>10, LocalRelease

(* The one reference of a new session is the accept thread's.              *)
LEMMA InsertSessionCounts ==
  ASSUME CountInv, InsertSession
  PROVE  CountInv'
<1> USE DEF CountInv
<1>1. /\ Accept \in Threads /\ at[Accept] \in Where /\ at[Accept].s \in Sessions
      /\ InPlace(Accept) /\ Local(Accept) /\ TypeOK
  BY InsertSessionLocal
  DEF Threads, LifecycleInv, TypeOK, ThreadsInPlace, InPlace, InsertSession
<1>2. Moved(Accept, "wsarecv")
  BY InsertSessionLocal
<1>3. LifecycleInv' /\ sessionMap' \subseteq Sessions /\ ReleaserAwake'
  BY <1>1, InsertSessionInv DEF LifecycleInv, TypeOK
<1>4. PICK x \in Sessions : x = at[Accept].s
  BY <1>1
<1>5. /\ References(x) \in Nat
      /\ References(x) >= Bit(Accept \in Holders(x))
      /\ References(x)' = References(x)
           + (Bit(Accept \in Holders(x)') - Bit(Accept \in Holders(x)))
           + (Bit(x \in recvPosted') - Bit(x \in recvPosted))
           + (Bit(x \in sendPosted') - Bit(x \in sendPosted))
  BY <1>1, Recount DEF Local, Apart
<1>6. Accept \in Holders(x) /\ Accept \in Holders(x)'
  BY <1>1, <1>2, <1>4, Fields, LifecycleAssumption
  DEF InsertSession, Holders, Holding, Moved, InPlace, MapMutexFree
<1>7. References(x) = 1 /\ ioCount[x] = 1
  <2>1. Untouched(x) /\ ioCount[x] = 1
    BY <1>4 DEF InsertSession, LifecycleInv, NewInPlace
  <2>2. Holders(x) = {Accept}
    BY <1>6, <2>1 DEF Holders, Untouched
  <2> QED
    BY <2>1, <2>2, FS_Singleton, CardPoint DEF References, Untouched, Bit
<1>8. x \in sessionMap' => ioCount'[x] = References(x)'
  BY <1>1, <1>4, <1>5, <1>6, <1>7, Fields
  DEF InsertSession, IoCountIsReferences, Bit, TypeOK, kernel, map
<1>9. IoCountIsReferences'
  BY <1>1, <1>3, <1>4, <1>8, LocalCount
<1>10. x \in sessionMap' => References(x)' # 0
  BY <1>5, <1>6, <1>7, <1>1 DEF Bit, InsertSession, kernel
<1> QED
  BY <1>1, <1>3, <1>4, <1>8, <1>9, <1>10, LocalRelease

(* The first receive has a reference besides the accept thread's.          *)
LEMMA FirstRecvCounts ==
  ASSUME CountInv, FirstRecv
  PROVE  CountInv'
<1> USE DEF CountInv
<1>1. /\ Accept \in Threads /\ at[Accept] \in Where /\ at[Accept].s \in Sessions
      /\ InPlace(Accept) /\ Local(Accept) /\ TypeOK
  BY FirstRecvLocal
  DEF Threads, LifecycleInv, TypeOK, ThreadsInPlace, InPlace, FirstRecv
<1>2. Moved(Accept, "decrease")
  BY FirstRecvLocal
<1>3. LifecycleInv' /\ sessionMap' \subseteq Sessions /\ ReleaserAwake'
  BY <1>1, FirstRecvInv DEF LifecycleInv, TypeOK
<1>4. PICK x \in Sessions : x = at[Accept].s
  BY <1>1
<1>5. /\ References(x) \in Nat
      /\ References(x) >= Bit(Accept \in Holders(x))
      /\ References(x)' = References(x)
           + (Bit(Accept \in Holders(x)') - Bit(Accept \in Holders(x)))
           + (Bit(x \in recvPosted') - Bit(x \in recvPosted))
           + (Bit(x \in sendPosted') - Bit(x \in sendPosted))
  BY <1>1, Recount DEF Local, Apart
<1>6. Accept \in Holders(x) /\ Accept \in Holders(x)'
  BY <1>1, <1>2, <1>4, Fields, LifecycleAssumption
  DEF FirstRecv, Holders, Holding, Moved, InPlace
<1>7. x \notin recvPosted
  BY <1>4 DEF FirstRecv, LifecycleInv, ReceiverInPlace
<1>8. x \in sessionMap' => ioCount'[x] = References(x)'
  BY <1>1, <1>4, <1>5, <1>6, <1>7, Fields
  DEF FirstRecv, IoCountIsReferences, Bit, TypeOK, kernel, map
<1>9. IoCountIsReferences'
  BY <1>1, <1>3, <1>4, <1>8, LocalCount
<1>10. x \in sessionMap' => References(x)' # 0
  BY <1>5, <1>6, <1>7, <1>1 DEF Bit, FirstRecv, kernel
<1> QED
  BY <1>1, <1>3, <1>4, <1>8, <1>9, <1>10, LocalRelease

(* A session that is found keeps the reference of the completion.          *)
LEMMA FindSessionCounts ==
  ASSUME CountInv, NEW t \in IoThreads, FindSession(t)
  PROVE  CountInv'
<1> USE DEF CountInv
<1>1. /\ t \in Threads /\ at[t] \in Where /\ at[t].s \in Sessions
      /\ InPlace(t) /\ Local(t) /\ TypeOK
  BY FindSessionLocal
  DEF Threads, LifecycleInv, TypeOK, ThreadsInPlace, InPlace, FindSession
<1>2. IF at[t].s \in sessionMap THEN Moved(t, HandlerOf(at[t].op)) ELSE Apart(t) /\ at'[t] = Idle
  BY FindSessionLocal
<1>3. LifecycleInv' /\ sessionMap' \subseteq Sessions /\ ReleaserAwake'
  BY <1>1, FindSessionInv DEF LifecycleInv, TypeOK
<1>4. PICK x \in Sessions : x = at[t].s
  BY <1>1
<1>5. /\ References(x) \in Nat
      /\ References(x) >= Bit(t \in Holders(x))
      /\ References(x)' = References(x)
           + (Bit(t \in Holders(x)') - Bit(t \in Holders(x)))
           + (Bit(x \in recvPosted') - Bit(x \in recvPosted))
           + (Bit(x \in sendPosted') - Bit(x \in sendPosted))
  BY <1>1, Recount DEF Local, Apart
<1>6. t \in Holders(x) /\ (x \in sessionMap => t \in Holders(x)')
  BY <1>1, <1>2, <1>4, Fields, LifecycleAssumption
  DEF FindSession, Holders, Holding, Moved, InPlace, HandlerOf, Idle
<1>8. x \in sessionMap' => ioCount'[x] = References(x)'
  BY <1>1, <1>4, <1>5, <1>6, Fields
  DEF FindSession, IoCountIsReferences, Bit, TypeOK, kernel, map
<1>9. IoCountIsReferences'
  BY <1>1, <1>3, <1>4, <1>8, LocalCount
<1>10. /\ ioCount'[x] = ioCount[x] /\ (x \in sessionMap' => x \in sessionMap)
       /\ at[t].pc # "release" /\ (Queued(x) => Queued(x)')
  BY <1>4 DEF FindSession, map, release, Queued
<1> QED
  BY <1>1, <1>3, <1>4, <1>9, <1>10, LocalRelease

(* The next receive has a reference besides that of the completed one.     *)
LEMMA RecvCompletedCounts ==
  ASSUME CountInv, NEW t \in IoThreads, RecvCompleted(t)
  PROVE  CountInv'
<1> USE DEF CountInv
<1>1. /\ t \in Threads /\ at[t] \in Where /\ at[t].s \in Sessions
      /\ InPlace(t) /\ Local(t) /\ TypeOK
  BY RecvCompletedLocal
  DEF Threads, LifecycleInv, TypeOK, ThreadsInPlace, InPlace, RecvCompleted
<1>2. Moved(t, "decrease")
  BY RecvCompletedLocal
<1>3. LifecycleInv' /\ sessionMap' \subseteq Sessions /\ ReleaserAwake'
  BY <1>1, RecvCompletedInv DEF LifecycleInv, TypeOK
<1>4. PICK x \in Sessions : x = at[t].s
  BY <1>1
<1>5. /\ References(x) \in Nat
      /\ References(x) >= Bit(t \in Holders(x))
      /\ References(x)' = References(x)
           + (Bit(t \in Holders(x)') - Bit(t \in Holders(x)))
           + (Bit(x \in recvPosted') - Bit(x \in recvPosted))
           + (Bit(x \in sendPosted') - Bit(x \in sendPosted))
  BY <1>1, Recount DEF Local, Apart
<1>6. t \in Holders(x) /\ t \in Holders(x)'
  BY <1>1, <1>2, <1>4, Fields, LifecycleAssumption
  DEF RecvCompleted, Holders, Holding, Moved, InPlace
<1>7. x \notin recvPosted
  <2>1. t \in Receiving(x)
    BY <1>1, <1>4 DEF RecvCompleted, Receiving, InPlace
  <2> QED
    BY <2>1 DEF LifecycleInv, ReceiverInPlace
<1>8. x \in sessionMap' => ioCount'[x] = References(x)'
  BY <1>1, <1>4, <1>5, <1>6, <1>7, Fields
  DEF RecvCompleted, IoCountIsReferences, Bit, TypeOK, kernel, map
<1>9. IoCountIsReferences'
  BY <1>1, <1>3, <1>4, <1>8, LocalCount
<1>10. x \in sessionMap' => References(x)' # 0
  BY <1>5, <1>6, <1>7, <1>1 DEF Bit, RecvCompleted, kernel
<1> QED
  BY <1>1, <1>3, <1>4, <1>8, <1>9, <1>10, LocalRelease

(* The reference of a completed send is dropped by its thread.             *)
LEMMA SendCompletedCounts ==
  ASSUME CountInv, NEW t \in IoThreads, SendCompleted(t)
  PROVE  CountInv'
<1> USE DEF CountInv
<1>1. /\ t \in Threads /\ at[t] \in Where /\ at[t].s \in Sessions
      /\ InPlace(t) /\ Local(t) /\ TypeOK
  BY SendCompletedLocal
  DEF Threads, LifecycleInv, TypeOK, ThreadsInPlace, InPlace, SendCompleted
<1>2. Apart(t) /\ at'[t].pc = "decrease" /\ at'[t].then = "dosend"
            /\ at'[t].s = at[t].s /\ at'[t].op = at[t].op
  BY SendCompletedLocal
<1>3. LifecycleInv' /\ sessionMap' \subseteq Sessions /\ ReleaserAwake'
  BY <1>1, SendCompletedInv DEF LifecycleInv, TypeOK
<1>4. PICK x \in Sessions : x = at[t].s
  BY <1>1
<1>5. /\ References(x) \in Nat
      /\ References(x) >= Bit(t \in Holders(x))
      /\ References(x)' = References(x)
           + (Bit(t \in Holders(x)') - Bit(t \in Holders(x)))
           + (Bit(x \in recvPosted') - Bit(x \in recvPosted))
           + (Bit(x \in sendPosted') - Bit(x \in sendPosted))
  BY <1>1, Recount DEF Local, Apart
<1>6. t \in Holders(x) /\ t \in Holders(x)'
  BY <1>1, <1>2, <1>4, Fields, LifecycleAssumption
  DEF SendCompleted, Holders, Holding, InPlace
<1>8. x \in sessionMap' => ioCount'[x] = References(x)'
  BY <1>1, <1>4, <1>5, <1>6, Fields
  DEF SendCompleted, IoCountIsReferences, Bit, TypeOK, kernel, map
<1>9. IoCountIsReferences'
  BY <1>1, <1>3, <1>4, <1>8, LocalCount
<1>10. /\ ioCount'[x] = ioCount[x] /\ (x \in sessionMap' => x \in sessionMap)
       /\ at[t].pc # "release" /\ (Queued(x) => Queued(x)')
  BY <1>4 DEF SendCompleted, map, release, Queued
<1> QED
  BY <1>1, <1>3, <1>4, <1>9, <1>10, LocalRelease

(* What is left of the invariant when no count and no reference changes.   *)
LEMMA QuietCounts ==
  ASSUME CountInv, LifecycleInv', UNCHANGED <<ioCount, recvPosted, sendPosted>>,
         sessionMap' \subseteq sessionMap,
         \A s \in sessionMap' : References(s)' = References(s),
         \A s \in sessionMap' : Queued(s) => Queued(s)',
         \A t \in Threads : at[t].pc = "release" => at'[t] = at[t]
  PROVE  CountInv'
<1>1. IoCountIsReferences'
  BY DEF CountInv, IoCountIsReferences
<1>2. NoReleaseLost'
  <2>1. ASSUME NEW s \in sessionMap', ioCount'[s] = 0
        PROVE  Queued(s)' \/ \E u \in Threads : at'[u].s = s /\ at'[u].pc = "release"
    <3>1. Queued(s) \/ \E u \in Threads : at[u].s = s /\ at[u].pc = "release"
      BY <2>1 DEF CountInv, NoReleaseLost
    <3> QED
      BY <3>1
  <2> QED
    BY <2>1 DEF NoReleaseLost, LifecycleInv
<1> QED
  BY <1>1, <1>2 DEF CountInv

(* The accept thread's reference is to a session not yet in the map.       *)
LEMMA AcceptSessionCounts ==
  ASSUME CountInv, NEW s \in Sessions, AcceptSession(s)
  PROVE  CountInv'
<1> USE DEF CountInv
<1>1. /\ Accept \in Threads /\ at \in [Threads -> Where] /\ TypeOK
      /\ [pc |-> "insert", s |-> s, op |-> "none", then |-> "idle"] \in Where
  BY DEF Threads, LifecycleInv, TypeOK, Where
<1>2. /\ \A u \in Threads \ {Accept} : at'[u] = at[u]
      /\ at'[Accept] = [pc |-> "insert", s |-> s, op |-> "none", then |-> "idle"]
      /\ at[Accept].pc = "idle"
  BY <1>1, Puts DEF AcceptSession, Apart
<1>3. /\ s \notin sessionMap
      /\ ioCount' = [ioCount EXCEPT ![s] = 1]
      /\ UNCHANGED <<recvPosted, sendPosted, sessionMap, releaseQueue>>
  BY <1>1 DEF AcceptSession, TypeOK, kernel, map, release
<1>4. LifecycleInv'
  BY AcceptSessionInv
<1>5. ASSUME NEW u \in sessionMap
      PROVE  ioCount'[u] = ioCount[u] /\ References(u)' = References(u)
  <2>1. u \in Sessions /\ u # s
    BY <1>1, <1>3 DEF TypeOK
  <2>2. Accept \notin Holders(u) /\ Accept \notin Holders(u)'
    BY <1>2, <2>1 DEF Holders, Holding
  <2> QED
    BY <1>1, <1>2, <1>3, <2>1, <2>2, Recount DEF TypeOK, Bit
<1>6. IoCountIsReferences'
  BY <1>3, <1>5 DEF IoCountIsReferences
<1>7. \A u \in sessionMap : Queued(u)' <=> Queued(u)
  BY <1>3 DEF Queued
<1>8. \A t \in Threads : at[t].pc = "release" => at'[t] = at[t]
  BY <1>2
<1>9. NoReleaseLost'
  <2>1. ASSUME NEW u \in sessionMap, ioCount'[u] = 0
        PROVE  Queued(u)' \/ \E t \in Threads : at'[t].s = u /\ at'[t].pc = "release"
    <3>1. Queued(u) \/ \E t \in Threads : at[t].s = u /\ at[t].pc = "release"
      BY <1>5, <2>1 DEF NoReleaseLost
    <3> QED
      BY <1>7, <1>8, <3>1
  <2> QED
    BY <1>3, <1>4, <2>1 DEF NoReleaseLost, LifecycleInv
<1> QED
  BY <1>4, <1>6, <1>9

(* A completion hands its reference to the thread that takes it.           *)
LEMMA TakeCompletionCounts ==
  ASSUME CountInv, NEW t \in IoThreads, NEW s \in Sessions,
         NEW op \in {"recv", "send"}, NEW good \in BOOLEAN,
         TakeCompletion(t, s, op, good)
  PROVE  CountInv'
<1> USE DEF CountInv
<1>1. PICK b \in {"recv", "send", "bad"} :
        /\ b = IF good THEN op ELSE "bad"
        /\ at' = [at EXCEPT ![t] = [pc |-> "find", s |-> s, op |-> b, then |-> "idle"]]
  BY DEF TakeCompletion
<1>2. /\ t \in Threads /\ \A u \in Threads \ {t} : at'[u] = at[u]
      /\ at'[t] = [pc |-> "find", s |-> s, op |-> b, then |-> "idle"]
      /\ at[t].pc = "idle"
  BY <1>1, Puts DEF TakeCompletion, LifecycleInv, TypeOK, Where, Threads, Apart
<1>3. /\ recvPosted' = recvPosted \ (IF op = "recv" THEN {s} ELSE {})
      /\ sendPosted' = sendPosted \ (IF op = "send" THEN {s} ELSE {})
      /\ s \in (IF op = "recv" THEN recvPosted ELSE sendPosted)
      /\ UNCHANGED <<ioCount, sessionMap, releaseQueue>>
  BY DEF TakeCompletion, map, release
<1>4. LifecycleInv' /\ sessionMap \subseteq Sessions
  BY TakeCompletionInv DEF LifecycleInv, TypeOK
<1>5. ASSUME NEW u \in Sessions
      PROVE  References(u)' = References(u)
  <2>1. CASE u = s
    <3>1. t \notin Holders(u) /\ t \in Holders(u)'
      BY <1>2, <2>1 DEF Holders, Holding
    <3> QED
      BY <1>2, <1>3, <2>1, <3>1, Recount DEF Bit
  <2>2. CASE u # s
    <3>1. t \notin Holders(u) /\ t \notin Holders(u)'
      BY <1>2, <2>2 DEF Holders, Holding
    <3> QED
      BY <1>2, <1>3, <2>2, <3>1, Recount DEF Bit
  <2> QED
    BY <2>1, <2>2
<1>6. IoCountIsReferences'
  BY <1>3, <1>4, <1>5 DEF IoCountIsReferences
<1>7. NoReleaseLost'
  <2>1. ASSUME NEW u \in sessionMap, ioCount[u] = 0
        PROVE  Queued(u)' \/ \E v \in Threads : at'[v].s = u /\ at'[v].pc = "release"
    <3>1. Queued(u) \/ \E v \in Threads : at[v].s = u /\ at[v].pc = "release"
      BY <2>1 DEF NoReleaseLost
    <3>2. Queued(u)' <=> Queued(u)
      BY <1>3 DEF Queued
    <3>3. \A v \in Threads : at[v].pc = "release" => at'[v] = at[v]
      BY <1>2
    <3> QED
      BY <3>1, <3>2, <3>3
  <2> QED
    BY <1>3, <1>4, <2>1 DEF NoReleaseLost, LifecycleInv
<1> QED
  BY <1>4, <1>6, <1>7

(* The lock, the visits and the unlock of the logic thread.                *)
LEMMA LogicCounts ==
  ASSUME CountInv,
         LogicLocks \/ LogicUnlocks \/ (\E s \in Sessions : LogicVisits(s))
  PROVE  CountInv'
<1> USE DEF CountInv
<1>1. Logic \in Threads /\ at \in [Threads -> Where] /\ at[Logic] \in Where
  BY DEF Threads, LifecycleInv, TypeOK
<1>2. UNCHANGED <<ioCount, recvPosted, sendPosted, sessionMap, releaseQueue>>
  BY DEF LogicLocks, LogicUnlocks, LogicVisits, kernel, map, release
<1>3. /\ at[Logic].pc \in {"idle", "pass"}
      /\ at'[Logic].pc \in {"idle", "pass", "dosend"}
      /\ \A u \in Threads \ {Logic} : at'[u] = at[u]
  BY <1>1 DEF LogicLocks, LogicUnlocks, LogicVisits, Idle, InPass, Where
<1>4. LifecycleInv'
  BY LogicInv
<1>5. ASSUME NEW s \in sessionMap
      PROVE  References(s)' = References(s) /\ (Queued(s) => Queued(s)')
  <2>1. Logic \notin Holders(s) /\ Logic \notin Holders(s)'
    BY <1>3 DEF Holders, Holding
  <2> QED
    BY <1>1, <1>2, <1>3, <2>1, Recount DEF Bit, Queued
<1>6. \A t \in Threads : at[t].pc = "release" => at'[t] = at[t]
  BY <1>3
<1> QED
  BY <1>2, <1>4, <1>5, <1>6, QuietCounts

(* The release thread counts nothing, and takes from the queue only keys   *)
(* of sessions that are not in the map.                                    *)
LEMMA ReleaseCounts ==
  ASSUME CountInv, ReleaseStep
  PROVE  CountInv'
<1> USE DEF CountInv
<1>1. UNCHANGED <<ioCount, recvPosted, sendPosted, at>> /\ sessionMap' \subseteq sessionMap
  BY DEF ReleaseStep, ReleaseWakes, ReleaseLocks, ReleaseFinds, ReleaseErases,
     ReleaseDisconnects, ReleaseUnlocks, kernel, map
<1>2. LifecycleInv'
  BY ReleaseMovesInv, ReleaseFindsInv, ReleaseErasesInv, ReleaseDisconnectsInv
  DEF ReleaseStep
<1>3. \A s \in sessionMap' : References(s)' = References(s)
  BY <1>1, SameReferences
<1>4. \A s \in sessionMap' : Queued(s) => Queued(s)'
  <2>1. CASE UNCHANGED releaseQueue
    BY <2>1 DEF Queued
  <2>2. CASE /\ releaseQueue # << >> /\ releaseQueue' = Tail(releaseQueue)
             /\ Head(releaseQueue) \notin sessionMap
    <3>1. \A s : Queued(s) => Queued(s)' \/ s = Head(releaseQueue)
      BY <2>2, TailQueued DEF LifecycleInv, TypeOK
    <3> QED
      BY <1>1, <2>2, <3>1
  <2>3. ReleaseFinds \/ ReleaseDisconnects =>
          \/ UNCHANGED releaseQueue
          \/ /\ releaseQueue # << >> /\ releaseQueue' = Tail(releaseQueue)
             /\ Head(releaseQueue) \notin sessionMap
    BY DEF ReleaseFinds, ReleaseDisconnects, LifecycleInv, ReleaseInPlace
  <2> QED
    BY <2>1, <2>2, <2>3
    DEF ReleaseStep, ReleaseWakes, ReleaseLocks, ReleaseErases,
       ReleaseUnlocks
<1> QED
  BY <1>1, <1>2, <1>3, <1>4, QuietCounts

(* Every step keeps the counts.                                            *)
LEMMA StepCounts == CountInv /\ [Next]_vars => CountInv'
<1> SUFFICES ASSUME CountInv, [Next]_vars PROVE CountInv'
  OBVIOUS
<1>0. Accept \in Threads /\ Logic \in Threads /\ IoThreads \subseteq Threads
  BY DEF Threads
<1>1. CASE \E s \in Sessions : AcceptSession(s)
  BY <1>1, AcceptSessionCounts
<1>2. CASE AcceptStep
  BY <1>0, <1>2, InsertSessionCounts, FirstRecvCounts, DecreaseIOCountCounts,
     ReleaseSessionCounts DEF AcceptStep, CountStep
<1>3. ASSUME NEW t \in IoThreads, Completions(t)
      PROVE  CountInv'
  BY <1>3, TakeCompletionCounts DEF Completions
<1>4. ASSUME NEW t \in Threads, SendStep(t) \/ CountStep(t)
      PROVE  CountInv'
  BY <1>4, DoSendNothingCounts, DoSendTakesCounts, WSASendPostedCounts,
     WSASendFailsCounts, DecreaseIOCountCounts, ReleaseSessionCounts
  DEF SendStep, CountStep
<1>5. ASSUME NEW t \in IoThreads, IoStep(t)
      PROVE  CountInv'
  BY <1>0, <1>4, <1>5, FindSessionCounts, RecvCompletedCounts,
     SendCompletedCounts
  DEF IoStep
<1>6. CASE LogicLocks \/ LogicStep
  BY <1>0, <1>4, <1>6, LogicCounts DEF LogicStep
<1>7. CASE ReleaseStep
  BY <1>7, ReleaseCounts
<1>8. CASE UNCHANGED vars
  <2>1. LifecycleInv'
    BY <1>8, StepInv DEF CountInv
  <2>2. UNCHANGED <<ioCount, recvPosted, sendPosted, sessionMap, at, releaseQueue>>
    BY <1>8 DEF vars, kernel, map, release
  <2>3. \A s \in sessionMap' : References(s)' = References(s) /\ (Queued(s) => Queued(s)')
    BY <2>2, SameReferences DEF Queued
  <2> QED
    BY <2>1, <2>2, <2>3, QuietCounts
<1> QED
  BY <1>1, <1>2, <1>3, <1>5, <1>6, <1>7, <1>8 DEF Next

LEMMA CountInvariant == Spec => []CountInv
<1>1. Init => CountInv
  BY InitInv
  DEF Init, CountInv, IoCountIsReferences, NoReleaseLost, LifecycleInv
<1> QED
  BY <1>1, StepCounts, PTL DEF Spec

(* While a session is in sessionMap its ioCount is the number of           *)
(* references to it: no path of the accept, receive and send handlers      *)
(* drops one twice or forgets one.                                         *)
THEOREM IoCountIsReferencesHolds == Spec => []IoCountIsReferences
<1>1. CountInv => IoCountIsReferences
  BY DEF CountInv
<1> QED
  BY <1>1, CountInvariant, PTL

(* A session nobody refers to is on its way out, and whoever has to take   *)
(* it there is awake.                                                      *)
THEOREM NoReleaseLostHolds == Spec => []NoReleaseLost
<1>1. CountInv => NoReleaseLost
  BY DEF CountInv
<1> QED
  BY <1>1, CountInvariant, PTL

----------------------------------------------------------------------------
(* SessionLifecycle implements Connection.                                 *)

(* A session whose first receive is not posted yet is in the map and not   *)
(* on its way out of it: the accept thread still holds a reference.        *)
FirstRecvInPlace ==
  \A s \in Sessions : at[Accept].s = s /\ at[Accept].pc = "wsarecv" =>
    /\ s \in sessionMap
    /\ ~Queued(s)
    /\ \A t \in Threads : at[t].s = s => at[t].pc # "release"

(* Steps that queue no key, and send nobody to queue one.                  *)
LEMMA FirstRecvKept ==
  ASSUME FirstRecvInPlace, at'[Accept] = at[Accept],
         \A s \in sessionMap : s \in sessionMap' \/ Queued(s),
         \A s \in Sessions : Queued(s)' => Queued(s),
         \A t \in Threads : at'[t].pc = "release" => at'[t] = at[t]
  PROVE  FirstRecvInPlace'
  BY DEF FirstRecvInPlace

(* The accept thread at any other place.                                   *)
LEMMA FirstRecvElsewhere ==
  ASSUME at'[Accept].pc # "wsarecv"
  PROVE  FirstRecvInPlace'
  BY DEF FirstRecvInPlace

(* The last reference is never dropped while the accept thread has one.    *)
LEMMA FirstRecvDecrease ==
  ASSUME CountInv, FirstRecvInPlace, NEW t \in Threads, DecreaseIOCount(t)
  PROVE  FirstRecvInPlace'
<1>1. /\ Accept \in Threads /\ Local(t) /\ at[t] \in Where /\ at'[t] \in Where
      /\ IF ioCount[at[t].s] = 1 THEN Moved(t, "release") ELSE Returned(t)
      /\ at[t].s \in Sessions /\ at[t].pc = "decrease"
      /\ UNCHANGED <<sessionMap, releaseQueue>>
  BY DecreaseIOCountLocal
  DEF Threads, CountInv, LifecycleInv, TypeOK, ThreadsInPlace, InPlace,
     DecreaseIOCount, Local, Apart, map, release
<1>2. PICK x \in Sessions : x = at[t].s
  BY <1>1
<1>3. CASE t = Accept
  <2>1. at'[Accept].pc # "wsarecv"
    BY <1>1, <1>3, Fields DEF Moved, Returned
  <2> QED
    BY <2>1, FirstRecvElsewhere
<1>4. CASE t # Accept
  <2>1. at'[Accept] = at[Accept]
    BY <1>1, <1>4 DEF Local, Apart
  <2>2. ASSUME at[Accept].pc = "wsarecv", at[Accept].s = x, ioCount[x] = 1
        PROVE  FALSE
    <3>1. x \in sessionMap
      BY <2>2 DEF FirstRecvInPlace
    <3>2. References(x) = 1
      BY <2>2, <3>1 DEF CountInv, IoCountIsReferences
    <3>3. Accept \in Holders(x) /\ t \in Holders(x)
      BY <1>1, <1>2, <2>2 DEF Holders, Holding
    <3>4. Holders(x) \subseteq Threads
      BY DEF Holders
    <3>5. IsFiniteSet(Holders(x))
      BY <3>4, ThreadsFinite, FS_Subset
    <3>6. IsFiniteSet(Holders(x) \ {t})
      BY <3>5, FS_Subset
    <3>7. /\ Cardinality(Holders(x)) = Cardinality(Holders(x) \ {t}) + Bit(t \in Holders(x))
          /\ Cardinality(Holders(x) \ {t}) =
               Cardinality((Holders(x) \ {t}) \ {Accept}) + Bit(Accept \in Holders(x) \ {t})
          /\ Cardinality((Holders(x) \ {t}) \ {Accept}) \in Nat
      BY <3>5, <3>6, CardWithout
    <3>8. Cardinality(Holders(x)) >= 2 /\ Cardinality(Holders(x)) \in Nat
      BY <1>4, <3>3, <3>7 DEF Bit
    <3>9. References(x) >= 2
      BY <3>8, CardPoint DEF References, Bit
    <3> QED
      BY <3>2, <3>9
  <2>3. ASSUME NEW s \in Sessions, at[Accept].s = s, at[Accept].pc = "wsarecv"
        PROVE  /\ s \in sessionMap' /\ ~Queued(s)'
               /\ \A u \in Threads : at'[u].s = s => at'[u].pc # "release"
    <3>1. s \in sessionMap' /\ ~Queued(s)'
      BY <1>1, <2>3 DEF FirstRecvInPlace, Queued
    <3>2. ASSUME at'[t].s = s PROVE at'[t].pc # "release"
      <4>1. s = x
        BY <1>1, <1>2, <3>2, LifecycleAssumption DEF Local
      <4>2. Returned(t)
        BY <1>1, <1>2, <2>2, <2>3, <4>1
      <4> QED
        BY <1>1, <4>2, Fields DEF Returned
    <3>3. \A u \in Threads \ {t} : at'[u] = at[u]
      BY <1>1 DEF Local, Apart
    <3> QED
      BY <2>3, <3>1, <3>2, <3>3 DEF FirstRecvInPlace
  <2> QED
    BY <2>1, <2>3 DEF FirstRecvInPlace
<1> QED
  BY <1>3, <1>4

(* A key is queued by a thread at "release".                               *)
LEMMA FirstRecvRelease ==
  ASSUME CountInv, FirstRecvInPlace, NEW t \in Threads, ReleaseSession(t)
  PROVE  FirstRecvInPlace'
<1>1. /\ Accept \in Threads /\ Local(t) /\ at[t] \in Where /\ at'[t] \in Where
      /\ Returned(t) /\ at[t].pc = "release" /\ UNCHANGED sessionMap
  BY ReleaseSessionLocal
  DEF Threads, CountInv, LifecycleInv, TypeOK, ReleaseSession, Local, Apart, map
<1>2. at'[t].pc \notin {"release", "wsarecv"}
  BY <1>1, Fields DEF Returned
<1>3. CASE t = Accept
  BY <1>2, <1>3, FirstRecvElsewhere
<1>4. CASE t # Accept
  <2>1. \A u \in Threads \ {t} : at'[u] = at[u]
    BY <1>1 DEF Local, Apart
  <2>2. ASSUME NEW s \in Sessions, at[Accept].s = s, at[Accept].pc = "wsarecv"
        PROVE  /\ s \in sessionMap' /\ ~Queued(s)'
               /\ \A u \in Threads : at'[u].s = s => at'[u].pc # "release"
    <3>1. s # at[t].s /\ s \in sessionMap /\ ~Queued(s)
      BY <1>1, <2>2 DEF FirstRecvInPlace
    <3>2. ~Queued(s)'
      BY <1>1, <3>1 DEF Local
    <3> QED
      BY <1>1, <1>2, <2>1, <2>2, <3>1, <3>2 DEF FirstRecvInPlace
  <2> QED
    BY <1>1, <1>4, <2>1, <2>2 DEF FirstRecvInPlace
<1> QED
  BY <1>3, <1>4

(* DoSend, by whatever thread, and what IO threads do with a completion.   *)
Quietly(t) ==
  /\ Local(t)
  /\ UNCHANGED <<sessionMap, numOfUser, releaseQueue>>
  /\ at[t].pc # "wsarecv" /\ at'[t].pc \notin {"release", "wsarecv"}

LEMMA FirstRecvQuiet ==
  ASSUME FirstRecvInPlace, NEW t \in Threads, Quietly(t)
  PROVE  FirstRecvInPlace'
<1>1. /\ \A u \in Threads \ {t} : at'[u] = at[u]
      /\ \A s \in Sessions : Queued(s)' => Queued(s)
  BY DEF Quietly, Local, Apart, Queued
<1>2. CASE t = Accept
  BY <1>2, FirstRecvElsewhere DEF Quietly
<1>3. CASE t # Accept
  BY <1>1, <1>3, FirstRecvKept DEF Quietly, Threads
<1> QED
  BY <1>2, <1>3

LEMMA SendQuietly ==
  ASSUME LifecycleInv, NEW t \in Threads, SendStep(t)
  PROVE  /\ Quietly(t)
         /\ UNCHANGED recvPosted
         /\ at[t].pc \in {"dosend", "wsasend"}
         /\ \/ at'[t].pc \in {"wsasend", "decrease"} /\ at'[t].s = at[t].s
            \/ Returned(t)
<1>1. /\ at[t] \in Where /\ at[t].pc \in {"dosend", "wsasend"}
      /\ UNCHANGED <<recvPosted, sessionMap, numOfUser, releaseQueue>>
  BY DEF LifecycleInv, TypeOK, SendStep, DoSendNothing, DoSendTakes,
     WSASendPosted, WSASendFails, kernel, map, release
<1>2. /\ Local(t)
      /\ Moved(t, "wsasend") \/ Moved(t, "decrease") \/ Returned(t)
  BY DoSendNothingLocal, DoSendTakesLocal, WSASendPostedLocal, WSASendFailsLocal
  DEF SendStep
<1>3. \/ at'[t].pc \in {"wsasend", "decrease"} /\ at'[t].s = at[t].s
      \/ Returned(t)
  BY <1>2 DEF Moved
<1>4. at'[t].pc \notin {"release", "wsarecv"}
  BY <1>1, <1>3, Fields DEF Returned
<1> QED
  BY <1>1, <1>2, <1>3, <1>4 DEF Quietly

LEMMA IoQuietly ==
  ASSUME LifecycleInv, NEW t \in IoThreads,
         FindSession(t) \/ RecvCompleted(t) \/ SendCompleted(t)
  PROVE  /\ Quietly(t)
         /\ t # Accept /\ t # Logic /\ t \in Threads
<1>1. /\ t \in Threads /\ t # Accept /\ t # Logic /\ at[t] \in Where
      /\ at[t].pc \in {"find", "received", "sent"}
      /\ UNCHANGED <<sessionMap, numOfUser, releaseQueue>>
  BY LifecycleAssumption
  DEF LifecycleInv, TypeOK, Threads, FindSession, RecvCompleted, SendCompleted,
     map, release
<1>2. CASE FindSession(t)
  <2>1. Local(t) /\ at'[t].pc \in {"received", "sent", "decrease", "idle"}
    BY <1>2, FindSessionLocal DEF Moved, HandlerOf, Idle
  <2> QED
    BY <1>1, <2>1 DEF Quietly
<1>3. CASE RecvCompleted(t)
  BY <1>1, <1>3, RecvCompletedLocal DEF Quietly, Moved
<1>4. CASE SendCompleted(t)
  <2>1. Local(t) /\ at'[t].pc = "decrease"
    BY <1>1, <1>4, SendCompletedLocal
    DEF SendCompleted, LifecycleInv, TypeOK
  <2> QED
    BY <1>1, <2>1 DEF Quietly
<1> QED
  BY <1>2, <1>3, <1>4

ConnectionInv == CountInv /\ FirstRecvInPlace

LEMMA StepConnection == ConnectionInv /\ [Next]_vars => ConnectionInv'
<1> SUFFICES ASSUME CountInv, FirstRecvInPlace, [Next]_vars
             PROVE  FirstRecvInPlace'
  BY StepCounts DEF ConnectionInv
<1>0. /\ Accept \in Threads /\ Logic \in Threads /\ IoThreads \subseteq Threads
      /\ Logic # Accept /\ Accept \notin IoThreads
      /\ at \in [Threads -> Where] /\ LifecycleInv
  BY LifecycleAssumption DEF Threads, CountInv, LifecycleInv, TypeOK
<1>1. ASSUME NEW s \in Sessions, AcceptSession(s)
      PROVE  FirstRecvInPlace'
  <2>1. at'[Accept].pc = "insert"
    BY <1>0, <1>1 DEF AcceptSession
  <2> QED
    BY <2>1, FirstRecvElsewhere
<1>2. CASE InsertSession
  <2>1. PICK x \in Sessions : x = at[Accept].s
    BY <1>0, <1>2 DEF InsertSession, LifecycleInv, TypeOK, ThreadsInPlace, InPlace
  <2>2. /\ Apart(Accept) /\ at'[Accept].s = x
        /\ x \in sessionMap' /\ UNCHANGED releaseQueue /\ at'[Accept].pc = "wsarecv"
    BY <1>0, <1>2, <2>1, InsertSessionLocal DEF InsertSession, Moved, release
  <2>3. Untouched(x)
    BY <1>0, <1>2, <2>1 DEF InsertSession, LifecycleInv, NewInPlace
  <2> QED
    BY <2>2, <2>3 DEF FirstRecvInPlace, Untouched, Apart, Queued
<1>3. CASE FirstRecv
  <2>1. at'[Accept].pc = "decrease"
    BY <1>0, <1>3, FirstRecvLocal DEF Moved
  <2> QED
    BY <2>1, FirstRecvElsewhere
<1>4. ASSUME NEW t \in Threads, SendStep(t) \/ CountStep(t)
      PROVE  FirstRecvInPlace'
  BY <1>0, <1>4, SendQuietly, FirstRecvQuiet, FirstRecvDecrease, FirstRecvRelease
  DEF CountStep
<1>5. ASSUME NEW t \in IoThreads, IoStep(t)
      PROVE  FirstRecvInPlace'
  BY <1>0, <1>4, <1>5, IoQuietly, FirstRecvQuiet DEF IoStep
<1>6. ASSUME NEW t \in IoThreads, Completions(t)
      PROVE  FirstRecvInPlace'
  <2>1. t \in Threads /\ t # Accept /\ UNCHANGED <<sessionMap, releaseQueue>>
    BY <1>0, <1>6 DEF Completions, TakeCompletion, map, release
  <2>2. at'[t].pc = "find" /\ \A u \in Threads \ {t} : at'[u] = at[u]
    BY <1>0, <1>6, <2>1 DEF Completions, TakeCompletion
  <2> QED
    BY <1>0, <2>1, <2>2, FirstRecvKept DEF Queued
<1>7. CASE LogicLocks \/ LogicUnlocks \/ \E s \in Sessions : LogicVisits(s)
  <2>1. UNCHANGED <<sessionMap, releaseQueue>>
    BY <1>7 DEF LogicLocks, LogicUnlocks, LogicVisits, map, release
  <2>2. /\ at'[Logic].pc # "release"
        /\ \A u \in Threads \ {Logic} : at'[u] = at[u]
    BY <1>0, <1>7 DEF LogicLocks, LogicUnlocks, LogicVisits, Idle, InPass, Where
  <2> QED
    BY <1>0, <2>1, <2>2, FirstRecvKept DEF Queued
<1>8. CASE ReleaseStep
  <2>1. UNCHANGED at
    BY <1>8 DEF ReleaseStep, ReleaseWakes, ReleaseLocks, ReleaseFinds,
       ReleaseErases, ReleaseDisconnects, ReleaseUnlocks
  <2>2. \A s \in Sessions : Queued(s)' => Queued(s)
    <3>1. CASE UNCHANGED releaseQueue
      BY <3>1 DEF Queued
    <3>2. CASE releaseQueue # << >> /\ releaseQueue' = Tail(releaseQueue)
      BY <1>0, <3>2, TailQueued DEF LifecycleInv, TypeOK
    <3>3. \/ UNCHANGED releaseQueue
          \/ releaseQueue # << >> /\ releaseQueue' = Tail(releaseQueue)
      BY <1>0, <1>8 DEF ReleaseStep, ReleaseWakes, ReleaseLocks, ReleaseFinds,
         ReleaseErases, ReleaseDisconnects, ReleaseUnlocks, LifecycleInv,
         ReleaseInPlace
    <3> QED
      BY <3>1, <3>2, <3>3
  <2>3. \A s \in sessionMap : s \in sessionMap' \/ Queued(s)
    <3>1. \/ UNCHANGED sessionMap
          \/ /\ sessionMap' = sessionMap \ {releaseTarget}
             /\ releaseQueue # << >> /\ releaseTarget = Head(releaseQueue)
      BY <1>0, <1>8 DEF ReleaseStep, ReleaseWakes, ReleaseLocks, ReleaseFinds,
         ReleaseErases, ReleaseDisconnects, ReleaseUnlocks, map, LifecycleInv,
         ReleaseInPlace
    <3> QED
      BY <1>0, <3>1, HeadQueued DEF LifecycleInv, TypeOK
  <2> QED
    BY <1>0, <2>1, <2>2, <2>3, FirstRecvKept
<1>9. CASE UNCHANGED vars
  BY <1>0, <1>9, FirstRecvKept DEF vars, map, release, Queued
<1> QED
  BY <1>0, <1>1, <1>2, <1>3, <1>4, <1>5, <1>6, <1>7, <1>8, <1>9
  DEF Next, AcceptStep, LogicStep

----------------------------------------------------------------------------
(* What a step does to the stages and to what is heard, session by session.*)
LEMMA StagesMove ==
  ASSUME NEW x \in Sessions, NEW to,
         \A s \in Sessions : StageOf(s)' = IF s = x THEN to ELSE StageOf(s)
  PROVE  Stages' = [Stages EXCEPT ![x] = to] /\ Stages[x] = StageOf(x)
  BY DEF Stages

LEMMA StagesStay ==
  ASSUME \A s \in Sessions : StageOf(s)' = StageOf(s)
  PROVE  Stages' = Stages
  BY DEF Stages

LEMMA HearingMoves ==
  ASSUME NEW x \in Sessions, NEW to,
         \A s \in Sessions : HearsOf(s)' = IF s = x THEN to ELSE HearsOf(s)
  PROVE  Hearing' = [Hearing EXCEPT ![x] = to] /\ Hearing[x] = HearsOf(x)
  BY DEF Hearing

LEMMA HearingStays ==
  ASSUME \A s \in Sessions : HearsOf(s)' = HearsOf(s)
  PROVE  Hearing' = Hearing
  BY DEF Hearing

(* A thread that works on one session leaves the others where they are.    *)
LEMMA LocalOthers ==
  ASSUME NEW t \in Threads, Local(t), NEW s \in Sessions, s # at[t].s
  PROVE  StageOf(s)' = StageOf(s) /\ HearsOf(s)' = HearsOf(s)
<1>1. /\ \A u \in Threads \ {t} : at'[u] = at[u]
      /\ at'[t].s # s
      /\ UNCHANGED <<accepted, disconnected>>
      /\ s \in recvPosted' <=> s \in recvPosted
      /\ s \in sessionMap' <=> s \in sessionMap
  BY LifecycleAssumption DEF Local, Apart
<1>2. at'[Accept].s = s <=> at[Accept].s = s
  BY <1>1 DEF Threads
<1>3. at[Accept].s = s => at'[Accept] = at[Accept]
  BY <1>1 DEF Threads
<1>4. Receiving(s)' = Receiving(s)
  BY <1>1 DEF Receiving, Threads
<1> QED
  BY <1>1, <1>2, <1>3, <1>4 DEF StageOf, HearsOf, NotHeardYet

(* So does it its own, as long as it neither moves it in the map nor       *)
(* receives.                                                               *)
LEMMA LocalStage ==
  ASSUME NEW t \in Threads, Local(t), UNCHANGED sessionMap,
         t = Accept => at[t].pc # "insert" /\ at'[t].pc # "insert"
  PROVE  Stages' = Stages
<1>1. /\ \A u \in Threads \ {t} : at'[u] = at[u]
      /\ UNCHANGED <<accepted, disconnected>>
  BY DEF Local, Apart
<1>2. t # Accept => at'[Accept] = at[Accept]
  BY <1>1 DEF Threads
<1>3. \A s \in Sessions : StageOf(s)' = StageOf(s)
  BY <1>1, <1>2 DEF StageOf
<1> QED
  BY <1>3, StagesStay

LEMMA LocalHearing ==
  ASSUME NEW t \in Threads, Local(t), UNCHANGED recvPosted,
         t = Accept => /\ at[t].pc \notin {"insert", "wsarecv"}
                       /\ at'[t].pc \notin {"insert", "wsarecv"},
         at[t].pc \notin {"find", "received"},
         at'[t].pc \notin {"find", "received"}
  PROVE  Hearing' = Hearing
<1>1. /\ \A u \in Threads \ {t} : at'[u] = at[u]
      /\ UNCHANGED accepted
  BY DEF Local, Apart
<1>2. t # Accept => at'[Accept] = at[Accept]
  BY <1>1 DEF Threads
<1>3. \A s \in Sessions : Receiving(s)' = Receiving(s)
  BY <1>1 DEF Receiving, Threads
<1>4. \A s \in Sessions : HearsOf(s)' = HearsOf(s)
  BY <1>1, <1>2, <1>3 DEF HearsOf, NotHeardYet
<1> QED
  BY <1>4, HearingStays

(* What the other threads do does not touch the pass.                      *)
LEMMA ServedStays ==
  ASSUME NEW t \in Threads, Local(t), t # Logic
  PROVE  Served' = Served
<1>1. at'[Logic] = at[Logic] /\ logicTodo' = logicTodo
  BY DEF Local, Apart, Threads
<1> QED
  BY <1>1 DEF Served

(* The logic thread stays with its session, or leaves it.                  *)
LEMMA ServedLeaves ==
  ASSUME Local(Logic), at[Logic].s \in Sessions,
         at'[Logic].s = at[Logic].s \/ at'[Logic].s = None,
         UNCHANGED <<Stages, Hearing, numOfUser>>
  PROVE  Promised!Next \/ UNCHANGED Promised!connectionVars
<1>1. PICK x \in Sessions : x = at[Logic].s
  OBVIOUS
<1>2. logicTodo' = logicTodo /\ None \notin Sessions
  BY LifecycleAssumption DEF Local
<1>3. Served' = Served \/ Served' = Served \ {x}
  BY <1>1, <1>2 DEF Served
<1>4. x \in Served
  BY <1>1, <1>2 DEF Served
<1>5. CASE Served' = Served
  BY <1>5 DEF Promised!connectionVars
<1>6. CASE Served' = Served \ {x}
  <2>1. Promised!Leave(x)
    BY <1>4, <1>6 DEF Promised!Leave
  <2> QED
    BY <2>1 DEF Promised!Next
<1> QED
  BY <1>3, <1>5, <1>6

(* DoSend, DecreaseIOCount and ReleaseSession end a visit, or nothing.     *)
LEMMA CallRefines ==
  ASSUME LifecycleInv, NEW t \in Threads, SendStep(t) \/ CountStep(t)
  PROVE  Promised!Next \/ UNCHANGED Promised!connectionVars
<1>1. /\ Local(t) /\ at[t].s \in Sessions
      /\ UNCHANGED <<recvPosted, sessionMap, numOfUser>>
      /\ at[t].pc \in {"dosend", "wsasend", "decrease", "release"}
      /\ \/ at'[t].pc \in {"wsasend", "decrease", "release"} /\ at'[t].s = at[t].s
         \/ Returned(t)
  <2>1. CASE SendStep(t)
    BY <2>1, SendQuietly
    DEF Quietly, LifecycleInv, TypeOK, ThreadsInPlace, InPlace
  <2>2. CASE DecreaseIOCount(t)
    BY <2>2, DecreaseIOCountLocal
    DEF DecreaseIOCount, Moved, kernel, map, LifecycleInv, TypeOK,
       ThreadsInPlace, InPlace
  <2>3. CASE ReleaseSession(t)
    BY <2>3, ReleaseSessionLocal
    DEF ReleaseSession, kernel, map, LifecycleInv, TypeOK, ThreadsInPlace, InPlace
  <2> QED
    BY <2>1, <2>2, <2>3 DEF CountStep
<1>2. /\ at'[t].pc \notin {"insert", "wsarecv", "find", "received"}
      /\ at'[t].s = at[t].s \/ at'[t].s = None
  <2>1. at[t] \in Where
    BY DEF LifecycleInv, TypeOK
  <2> QED
    BY <1>1, <2>1, Fields DEF Returned
<1>3. Stages' = Stages /\ Hearing' = Hearing
  BY <1>1, <1>2, LocalStage, LocalHearing
<1>4. CASE t = Logic
  BY <1>1, <1>2, <1>3, <1>4, ServedLeaves
<1>5. CASE t # Logic
  BY <1>1, <1>3, <1>5, ServedStays DEF Promised!connectionVars
<1> QED
  BY <1>4, <1>5

(* The accept thread takes a session through its first stages.             *)
LEMMA AcceptRefines ==
  ASSUME LifecycleInv, NEW s \in Sessions, AcceptSession(s)
  PROVE  Promised!Next
<1>1. /\ Accept \in Threads /\ Logic \in Threads /\ Accept # Logic
      /\ at[Accept].s = None /\ None \notin Sessions
  BY LifecycleAssumption
  DEF Threads, AcceptSession, LifecycleInv, ThreadsInPlace, InPlace
<1>2. /\ \A u \in Threads \ {Accept} : at'[u] = at[u]
      /\ at'[Accept].s = s /\ at'[Accept].pc = "insert"
      /\ s \notin accepted /\ accepted' = accepted \cup {s}
      /\ UNCHANGED <<recvPosted, sessionMap, numOfUser, disconnected, logicTodo>>
  BY <1>1 DEF AcceptSession, LifecycleInv, TypeOK, kernel, map
<1>3. Untouched(s)
  BY <1>2 DEF LifecycleInv, NewInPlace
<1>4. \A u \in Sessions : StageOf(u)' = IF u = s THEN "new" ELSE StageOf(u)
  BY <1>1, <1>2, <1>3 DEF StageOf, Untouched
<1>5. StageOf(s) = "none"
  BY <1>2 DEF StageOf
<1>6. \A u \in Sessions : HearsOf(u)' = HearsOf(u)
  <2>1. \A u \in Sessions \ {s} : Receiving(u)' = Receiving(u)
    BY <1>1, <1>2 DEF Receiving, Threads
  <2> QED
    BY <1>1, <1>2, <2>1 DEF HearsOf, NotHeardYet
<1>7. Served' = Served
  BY <1>1, <1>2 DEF Served
<1>8. Promised!Create(s)
  BY <1>2, <1>4, <1>5, <1>6, <1>7, StagesMove, HearingStays
  DEF Promised!Create, Promised!Advance
<1> QED
  BY <1>8 DEF Promised!Next

LEMMA InsertRefines ==
  ASSUME LifecycleInv, InsertSession
  PROVE  Promised!Next
<1>1. /\ Accept \in Threads /\ Accept # Logic /\ Local(Accept)
      /\ at[Accept].pc = "insert" /\ at'[Accept].pc = "wsarecv"
      /\ at'[Accept].s = at[Accept].s
      /\ UNCHANGED <<accepted, disconnected, recvPosted>>
      /\ numOfUser' = numOfUser + 1
  BY LifecycleAssumption, InsertSessionLocal
  DEF Threads, InsertSession, Moved, kernel
<1>2. PICK x \in Sessions : x = at[Accept].s
  BY <1>1 DEF LifecycleInv, TypeOK, Local
<1>3. /\ x \in accepted /\ x \notin sessionMap /\ x \in sessionMap'
      /\ disconnected[x] = 0
  BY <1>1, <1>2
  DEF InsertSession, LifecycleInv, NewInPlace, Untouched, Local
<1>4. StageOf(x) = "new" /\ StageOf(x)' = "open"
  BY <1>1, <1>2, <1>3 DEF StageOf
<1>5. HearsOf(x)' = HearsOf(x)
  BY <1>1, <1>2 DEF HearsOf, NotHeardYet
<1>6. \A s \in Sessions \ {x} : StageOf(s)' = StageOf(s) /\ HearsOf(s)' = HearsOf(s)
  BY <1>1, <1>2, LocalOthers
<1>7. Promised!Open(x)
  BY <1>1, <1>4, <1>5, <1>6, StagesMove, HearingStays, ServedStays
  DEF Promised!Open, Promised!Advance
<1> QED
  BY <1>7 DEF Promised!Next

LEMMA FirstRecvRefines ==
  ASSUME LifecycleInv, FirstRecvInPlace, FirstRecv
  PROVE  Promised!Next
<1>1. /\ Accept \in Threads /\ Accept # Logic /\ Local(Accept)
      /\ at[Accept].pc = "wsarecv" /\ at'[Accept].pc = "decrease"
      /\ at'[Accept].s = at[Accept].s
      /\ UNCHANGED <<accepted, sessionMap, numOfUser>>
  BY LifecycleAssumption, FirstRecvLocal DEF Threads, FirstRecv, Moved, map
<1>2. PICK x \in Sessions : x = at[Accept].s
  BY <1>1 DEF LifecycleInv, TypeOK, Local
<1>3. x \in accepted /\ x \in sessionMap /\ Receiving(x) = {}
  BY <1>1, <1>2 DEF FirstRecvInPlace, Local, LifecycleInv, ReceiverInPlace
<1>4. StageOf(x) = "open" /\ HearsOf(x) = "not yet"
  BY <1>1, <1>2, <1>3 DEF StageOf, HearsOf, NotHeardYet
<1>5. HearsOf(x)' \in {"yes", "no more"}
  BY <1>1, <1>3 DEF HearsOf, NotHeardYet
<1>6. \A s \in Sessions \ {x} : HearsOf(s)' = HearsOf(s)
  BY <1>1, <1>2, LocalOthers
<1>7. PICK now \in {"yes", "no more"} : now = HearsOf(x)'
  BY <1>5
<1>8. /\ Hearing' = [Hearing EXCEPT ![x] = now] /\ Hearing[x] = "not yet"
      /\ Stages[x] = "open" /\ Stages' = Stages /\ Served' = Served
  BY <1>1, <1>4, <1>6, <1>7, HearingMoves, LocalStage, ServedStays DEF Stages
<1>9. Promised!Listen(x)
  BY <1>1, <1>8 DEF Promised!Listen
<1> QED
  BY <1>9 DEF Promised!Next

(* A receive ends, or goes on, in the hands of one IO thread.              *)
LEMMA HearsEnds ==
  ASSUME NEW x \in Sessions, HearsOf(x) = "yes", HearsOf(x)' \in {"yes", "no more"},
         \A s \in Sessions \ {x} : HearsOf(s)' = HearsOf(s),
         UNCHANGED <<Stages, Served, numOfUser>>
  PROVE  Promised!Next \/ UNCHANGED Promised!connectionVars
<1>1. CASE HearsOf(x)' = "yes"
  BY <1>1, HearingStays DEF Promised!connectionVars
<1>2. CASE HearsOf(x)' = "no more"
  <2>1. Promised!StopListening(x)
    BY <1>2, HearingMoves DEF Promised!StopListening
  <2> QED
    BY <2>1 DEF Promised!Next
<1> QED
  BY <1>1, <1>2

(* Only what has been heard of has a receive.                              *)
LEMMA ReceivingHeard ==
  ASSUME LifecycleInv, NEW x \in Sessions, x \in recvPosted \/ Receiving(x) # {}
  PROVE  x \in accepted /\ ~NotHeardYet(x)
<1>1. x \in accepted
  BY LifecycleAssumption
  DEF LifecycleInv, NewInPlace, Untouched, Receiving, Threads
<1>2. at[Accept].s = x => at[Accept].pc # "insert"
  <2> SUFFICES ASSUME at[Accept].s = x, at[Accept].pc = "insert" PROVE FALSE
    OBVIOUS
  <2>1. Untouched(x)
    BY DEF LifecycleInv, NewInPlace
  <2> QED
    BY <2>1, LifecycleAssumption DEF Untouched, Receiving, Threads
<1>3. at[Accept].s = x => at[Accept].pc # "wsarecv"
  BY DEF LifecycleInv, ReceiverInPlace
<1> QED
  BY <1>1, <1>2, <1>3 DEF NotHeardYet

LEMMA IoRefines ==
  ASSUME LifecycleInv, NEW t \in IoThreads,
         FindSession(t) \/ RecvCompleted(t) \/ SendCompleted(t)
  PROVE  Promised!Next \/ UNCHANGED Promised!connectionVars
<1>1. /\ t \in Threads /\ t # Accept /\ t # Logic /\ Local(t)
      /\ UNCHANGED <<sessionMap, numOfUser, accepted>>
  BY IoQuietly DEF Quietly, Local
<1>2. PICK x \in Sessions : x = at[t].s
  BY <1>1 DEF LifecycleInv, TypeOK, Local
<1>3. /\ Stages' = Stages /\ Served' = Served
      /\ \A s \in Sessions \ {x} : HearsOf(s)' = HearsOf(s)
  BY <1>1, <1>2, LocalStage, ServedStays, LocalOthers
<1>4. /\ at'[Accept] = at[Accept] /\ Accept \in Threads
      /\ \A u \in Threads \ {t} : at'[u] = at[u]
  BY <1>1 DEF Local, Apart, Threads
<1>5. Receiving(x)' \ {t} = Receiving(x) \ {t}
  BY <1>4 DEF Receiving, Threads
<1>6. CASE t \in Receiving(x)
  <2>1. x \in accepted /\ ~NotHeardYet(x) /\ HearsOf(x) = "yes"
    BY <1>6, ReceivingHeard DEF HearsOf
  <2>2. HearsOf(x)' \in {"yes", "no more"}
    BY <1>1, <1>4, <2>1 DEF HearsOf, NotHeardYet
  <2> QED
    BY <1>1, <1>3, <2>1, <2>2, HearsEnds
<1>7. CASE t \notin Receiving(x)
  <2>1. /\ FindSession(t) \/ SendCompleted(t)
        /\ UNCHANGED recvPosted
        /\ t \notin Receiving(x)'
    <3>1. CASE FindSession(t)
      <4>1. IF at[t].s \in sessionMap THEN Moved(t, HandlerOf(at[t].op))
                                      ELSE at'[t] = Idle
        BY <3>1, FindSessionLocal
      <4> QED
        BY <1>1, <1>2, <1>7, <3>1, <4>1
        DEF FindSession, kernel, Receiving, Moved, HandlerOf, Idle
    <3>2. CASE SendCompleted(t)
      BY <1>1, <3>2, SendCompletedLocal
      DEF SendCompleted, kernel, Receiving, LifecycleInv, TypeOK
    <3>3. CASE RecvCompleted(t)
      BY <1>1, <1>2, <1>7, <3>3
      DEF RecvCompleted, Receiving, LifecycleInv, ThreadsInPlace, InPlace
    <3> QED
      BY <3>1, <3>2, <3>3
  <2>2. Receiving(x)' = Receiving(x)
    BY <1>5, <1>7, <2>1
  <2>3. HearsOf(x)' = HearsOf(x)
    BY <1>1, <1>4, <2>1, <2>2 DEF HearsOf, NotHeardYet
  <2>4. Hearing' = Hearing
    BY <1>3, <2>3, HearingStays
  <2> QED
    BY <1>1, <1>3, <2>4 DEF Promised!connectionVars
<1> QED
  BY <1>6, <1>7

LEMMA TakeRefines ==
  ASSUME LifecycleInv, NEW t \in IoThreads, NEW x \in Sessions,
         NEW op \in {"recv", "send"}, NEW good \in BOOLEAN,
         TakeCompletion(t, x, op, good)
  PROVE  Promised!Next \/ UNCHANGED Promised!connectionVars
<1>1. /\ t \in Threads /\ t # Accept /\ t # Logic /\ None \notin Sessions
      /\ Accept \in Threads /\ Logic \in Threads
  BY LifecycleAssumption DEF Threads
<1>2. PICK b \in {"recv", "send", "bad"} :
        /\ b = IF good THEN op ELSE "bad"
        /\ at' = [at EXCEPT ![t] = [pc |-> "find", s |-> x, op |-> b, then |-> "idle"]]
  BY DEF TakeCompletion
<1>3. /\ \A u \in Threads \ {t} : at'[u] = at[u]
      /\ at'[t] = [pc |-> "find", s |-> x, op |-> b, then |-> "idle"]
      /\ at[t].pc = "idle"
      /\ UNCHANGED <<accepted, disconnected, sessionMap, numOfUser, logicTodo>>
      /\ \A s \in Sessions \ {x} : s \in recvPosted' <=> s \in recvPosted
  BY <1>1, <1>2 DEF TakeCompletion, LifecycleInv, TypeOK, map
<1>4. Stages' = Stages
  <2>1. \A s \in Sessions : StageOf(s)' = StageOf(s)
    BY <1>1, <1>3 DEF StageOf
  <2> QED
    BY <2>1, StagesStay
<1>5. Served' = Served
  BY <1>1, <1>3 DEF Served
<1>6. \A s \in Sessions \ {x} : HearsOf(s)' = HearsOf(s)
  <2>1. \A s \in Sessions \ {x} : Receiving(s)' = Receiving(s)
    BY <1>3 DEF Receiving, Threads
  <2> QED
    BY <1>1, <1>3, <2>1 DEF HearsOf, NotHeardYet
<1>7. CASE op = "recv"
  <2>1. x \in recvPosted
    BY <1>7 DEF TakeCompletion
  <2>2. x \in accepted /\ ~NotHeardYet(x) /\ HearsOf(x) = "yes"
    BY <2>1, ReceivingHeard DEF HearsOf
  <2>3. HearsOf(x)' \in {"yes", "no more"}
    BY <1>1, <1>3, <2>2 DEF HearsOf, NotHeardYet
  <2> QED
    BY <1>3, <1>4, <1>5, <1>6, <2>2, <2>3, HearsEnds
<1>8. CASE op = "send"
  <2>1. UNCHANGED recvPosted
    BY <1>8 DEF TakeCompletion
  <2>2. Receiving(x)' = Receiving(x)
    BY <1>2, <1>3, <1>8 DEF Receiving
  <2>3. HearsOf(x)' = HearsOf(x)
    BY <1>1, <1>3, <2>1, <2>2 DEF HearsOf, NotHeardYet
  <2>4. Hearing' = Hearing
    BY <1>6, <2>3, HearingStays
  <2> QED
    BY <1>3, <1>4, <1>5, <2>4 DEF Promised!connectionVars
<1> QED
  BY <1>7, <1>8

(* The logic thread's pass serves the sessions in the map, one by one.     *)
LEMMA LogicRefines ==
  ASSUME LifecycleInv,
         LogicLocks \/ LogicUnlocks \/ (\E s \in Sessions : LogicVisits(s))
  PROVE  Promised!Next \/ UNCHANGED Promised!connectionVars
<1>1. /\ Logic \in Threads /\ Accept # Logic /\ Accept \in Threads
      /\ None \notin Sessions /\ at[Logic].s = None
      /\ at[Logic].pc \in {"idle", "pass"}
      /\ UNCHANGED <<accepted, disconnected, sessionMap, numOfUser, recvPosted>>
  BY LifecycleAssumption
  DEF Threads, LogicLocks, LogicUnlocks, LogicVisits, kernel, map,
     LifecycleInv, ThreadsInPlace, InPlace
<1>2. /\ \A u \in Threads \ {Logic} : at'[u] = at[u]
      /\ at'[Logic].pc \in {"idle", "pass", "dosend"}
  BY <1>1
  DEF LogicLocks, LogicUnlocks, LogicVisits, Idle, InPass, LifecycleInv, TypeOK,
     Where
<1>3. Stages' = Stages
  <2>1. \A s \in Sessions : StageOf(s)' = StageOf(s)
    BY <1>1, <1>2 DEF StageOf
  <2> QED
    BY <2>1, StagesStay
<1>4. Hearing' = Hearing
  <2>1. \A s \in Sessions : Receiving(s)' = Receiving(s)
    BY <1>1, <1>2 DEF Receiving, Threads
  <2>2. \A s \in Sessions : HearsOf(s)' = HearsOf(s)
    BY <1>1, <1>2, <2>1 DEF HearsOf, NotHeardYet
  <2> QED
    BY <2>2, HearingStays
<1>5. CASE LogicLocks
  <2>1. at'[Logic].s = None /\ logicTodo' = sessionMap /\ logicTodo = {}
    BY <1>1, <1>5 DEF LogicLocks, InPass, LifecycleInv, TypeOK, PassInPlace
  <2>2. Served = {} /\ Served' = sessionMap
    BY <1>1, <2>1 DEF Served
  <2>3. sessionMap = {s \in Sessions : Stages[s] = "open"}
    BY DEF Stages, StageOf, LifecycleInv, TypeOK
  <2>4. Promised!StartPass
    BY <1>1, <1>3, <1>4, <2>2, <2>3 DEF Promised!StartPass
  <2> QED
    BY <2>4 DEF Promised!Next
<1>6. CASE LogicUnlocks
  <2>1. at'[Logic].s = None /\ logicTodo' = {} /\ logicTodo = {}
    BY <1>1, <1>6 DEF LogicUnlocks, Idle, LifecycleInv, TypeOK
  <2>2. Served' = Served
    BY <1>1, <2>1 DEF Served
  <2> QED
    BY <1>1, <1>3, <1>4, <2>2 DEF Promised!connectionVars
<1>7. ASSUME NEW s \in Sessions, LogicVisits(s)
      PROVE  Promised!Next \/ UNCHANGED Promised!connectionVars
  <2>1. /\ s \in logicTodo /\ logicTodo' = logicTodo \ {s}
        /\ at'[Logic].s = s \/ at'[Logic].s = None
    BY <1>1, <1>7 DEF LogicVisits, LifecycleInv, TypeOK, Where
  <2>2. s \in Served /\ (Served' = Served \/ Served' = Served \ {s})
    BY <1>1, <2>1 DEF Served
  <2>3. CASE Served' = Served
    BY <1>1, <1>3, <1>4, <2>3 DEF Promised!connectionVars
  <2>4. CASE Served' = Served \ {s}
    <3>1. Promised!Leave(s)
      BY <1>1, <1>3, <1>4, <2>2, <2>4 DEF Promised!Leave
    <3> QED
      BY <3>1 DEF Promised!Next
  <2> QED
    BY <2>2, <2>3, <2>4
<1> QED
  BY <1>5, <1>6, <1>7

(* The release thread takes a session out of the map, and closes it.       *)
LEMMA ReleaseRefines ==
  ASSUME LifecycleInv, ReleaseStep
  PROVE  Promised!Next \/ UNCHANGED Promised!connectionVars
<1>1. UNCHANGED <<accepted, at, recvPosted, logicTodo>>
  BY DEF ReleaseStep, ReleaseWakes, ReleaseLocks, ReleaseFinds, ReleaseErases,
     ReleaseDisconnects, ReleaseUnlocks, kernel
<1>2. Hearing' = Hearing /\ Served' = Served
  <2>1. \A s \in Sessions : HearsOf(s)' = HearsOf(s)
    BY <1>1 DEF HearsOf, NotHeardYet, Receiving
  <2> QED
    BY <1>1, <2>1, HearingStays DEF Served
<1>3. CASE ReleaseErases
  <2>1. PICK x \in Sessions : x = releaseTarget /\ x \in sessionMap /\ x \in accepted
    BY <1>3 DEF ReleaseErases, LifecycleInv, ReleaseInPlace, TypeOK
  <2>2. /\ sessionMap' = sessionMap \ {x} /\ numOfUser' = numOfUser - 1
        /\ UNCHANGED disconnected
    BY <1>3, <2>1 DEF ReleaseErases
  <2>3. /\ ~(disconnected[x] > 0)
        /\ ~(at[Accept].s = x /\ at[Accept].pc = "insert")
    BY <2>1
    DEF LifecycleInv, DisconnectedAtMostOnce, TypeOK, NewInPlace, Untouched
  <2>4. StageOf(x) = "open" /\ StageOf(x)' = "erased"
    BY <1>1, <2>1, <2>2, <2>3 DEF StageOf
  <2>5. \A s \in Sessions \ {x} : StageOf(s)' = StageOf(s)
    BY <1>1, <2>2 DEF StageOf
  <2>6. x \notin Served
    BY <1>3, <2>1
    DEF ReleaseErases, MapMutexFree, Served, LifecycleInv, PassInPlace,
       ThreadsInPlace, InPlace, Threads
  <2>7. Promised!Erase(x)
    BY <1>2, <2>2, <2>4, <2>5, <2>6, StagesMove DEF Promised!Erase, Promised!Advance
  <2> QED
    BY <2>7 DEF Promised!Next
<1>4. CASE ReleaseDisconnects
  <2>1. PICK x \in Sessions :
          /\ x = releaseTarget /\ x \in accepted /\ x \notin sessionMap
          /\ disconnected[x] = 0 /\ Queued(x)
    BY <1>4, HeadQueued
    DEF ReleaseDisconnects, LifecycleInv, ReleaseInPlace, TypeOK
  <2>2. /\ disconnected' = [disconnected EXCEPT ![x] = @ + 1]
        /\ UNCHANGED <<sessionMap, numOfUser>>
    BY <1>4, <2>1 DEF ReleaseDisconnects, map
  <2>3. ~(at[Accept].s = x /\ at[Accept].pc = "insert")
    BY <2>1 DEF LifecycleInv, NewInPlace, Untouched
  <2>4. disconnected'[x] > 0 /\ \A s \in Sessions \ {x} : disconnected'[s] = disconnected[s]
    BY <2>1, <2>2 DEF LifecycleInv, TypeOK
  <2>5. StageOf(x) = "erased" /\ StageOf(x)' = "closed"
    BY <1>1, <2>1, <2>2, <2>3, <2>4 DEF StageOf
  <2>6. \A s \in Sessions \ {x} : StageOf(s)' = StageOf(s)
    BY <1>1, <2>2, <2>4 DEF StageOf
  <2>7. Promised!Close(x)
    BY <1>2, <2>2, <2>5, <2>6, StagesMove DEF Promised!Close, Promised!Advance
  <2> QED
    BY <2>7 DEF Promised!Next
<1>5. CASE ReleaseWakes \/ ReleaseLocks \/ ReleaseFinds \/ ReleaseUnlocks
  <2>1. UNCHANGED <<sessionMap, numOfUser, disconnected>>
    BY <1>5 DEF ReleaseWakes, ReleaseLocks, ReleaseFinds, ReleaseUnlocks, map
  <2>2. \A s \in Sessions : StageOf(s)' = StageOf(s)
    BY <1>1, <2>1 DEF StageOf
  <2> QED
    BY <1>2, <2>1, <2>2, StagesStay DEF Promised!connectionVars
<1> QED
  BY <1>3, <1>4, <1>5 DEF ReleaseStep

(* Nobody is connected at the start ...                                    *)
LEMMA InitRefines == Init => Promised!Init
<1> SUFFICES ASSUME Init PROVE Promised!Init
  OBVIOUS
<1>1. Served = {}
  BY DEF Init, Served, Idle, Threads
<1>2. \A s \in Sessions : StageOf(s) = "none" /\ HearsOf(s) = "not yet"
  BY DEF Init, StageOf, HearsOf
<1> QED
  BY <1>1, <1>2 DEF Promised!Init, Stages, Hearing, Init

(* ... and every step is one that Connection allows.                       *)
LEMMA NextRefines ==
  ConnectionInv /\ [Next]_vars => [Promised!Next]_(Promised!connectionVars)
<1> SUFFICES ASSUME LifecycleInv, FirstRecvInPlace, [Next]_vars
             PROVE  Promised!Next \/ UNCHANGED Promised!connectionVars
  BY DEF ConnectionInv, CountInv
<1>0. Accept \in Threads /\ Logic \in Threads /\ IoThreads \subseteq Threads
  BY DEF Threads
<1>1. CASE \E s \in Sessions : AcceptSession(s)
  BY <1>1, AcceptRefines
<1>2. CASE AcceptStep
  BY <1>0, <1>2, InsertRefines, FirstRecvRefines, CallRefines DEF AcceptStep
<1>3. ASSUME NEW t \in IoThreads, Completions(t) \/ IoStep(t)
      PROVE  Promised!Next \/ UNCHANGED Promised!connectionVars
  BY <1>0, <1>3, TakeRefines, IoRefines, CallRefines DEF Completions, IoStep
<1>4. CASE LogicLocks \/ LogicStep
  BY <1>0, <1>4, LogicRefines, CallRefines DEF LogicStep
<1>5. CASE ReleaseStep
  BY <1>5, ReleaseRefines
<1>6. CASE UNCHANGED vars
  <2>1. UNCHANGED <<accepted, sessionMap, numOfUser, disconnected, at,
                    recvPosted, logicTodo>>
    BY <1>6 DEF vars, map, kernel
  <2>2. \A s \in Sessions : StageOf(s)' = StageOf(s) /\ HearsOf(s)' = HearsOf(s)
    BY <2>1 DEF StageOf, HearsOf, NotHeardYet, Receiving
  <2> QED
    BY <2>1, <2>2, StagesStay, HearingStays DEF Promised!connectionVars, Served
<1> QED
  BY <1>1, <1>2, <1>3, <1>4, <1>5, <1>6 DEF Next

(* The server keeps what it promises its connections: each is opened once, *)
(* served and listened to only while it is open, listened to once, erased  *)
(* while no handler of it runs, closed once, and counted exactly.          *)
THEOREM ImplementsConnectionHolds == Spec => ImplementsConnection
<1>1. Init => ConnectionInv
  <2>1. Init => CountInv
    BY InitInv DEF Init, CountInv, IoCountIsReferences, NoReleaseLost, LifecycleInv
  <2>2. Init => FirstRecvInPlace
    BY DEF Init, FirstRecvInPlace, Idle, Threads
  <2> QED
    BY <2>1, <2>2 DEF ConnectionInv
<1>2. Spec => []ConnectionInv
  BY <1>1, StepConnection, PTL DEF Spec
<1> QED
  BY <1>2, InitRefines, NextRefines, PTL DEF Spec, ImplementsConnection, Promised!Spec
============================================================================
