---------------------------- MODULE ServerProofs ----------------------------
(***************************************************************************)
(* Proofs about the server and two of the parts it starts, for any number  *)
(* of threads, clients, events and logs.  Of Ticker: its invariant, how    *)
(* late an event may fire after it has been unregistered, and how soon     *)
(* after it has fired or been registered.  Of Logger: its invariant, and   *)
(* what is in the file when StopLoggerThread returns.  Of ServerCore: its  *)
(* invariant, what EraseAllSession meets, and what the user count is.      *)
(***************************************************************************)
EXTENDS Ticker, Logger, ServerCore, QueueLemmas, FiniteSetTheorems

----------------------------------------------------------------------------
(* Ticker.                                                                 *)

Sizes == Interval \in Nat \ {0} /\ 2 * Interval \in Nat

LEMMA SizesAreNumbers == Sizes
BY TickerAssumption DEF Sizes

LEMMA NoEventIsNone == NoEvent \notin Events
BY TickerAssumption DEF NoEvent

(* The scan goes on with one event.                                        *)
LEMMA NextIsUnique ==
  ASSUME TickerInv, NEW e \in Events, NEW f \in Events, IsNext(e), IsNext(f)
  PROVE  e = f
<1>1. e <= f /\ f <= e /\ e \in Nat /\ f \in Nat
  BY TickerAssumption DEF IsNext
<1> QED
  BY <1>1

LEMMA TickerInitInv == TickerInit => TickerInv
<1> SUFFICES ASSUME TickerInit PROVE TickerInv
  OBVIOUS
<1>1. TickerTypeOK
  <2>1. 0 \in 0 .. 2 * Interval /\ 0 \in 0 .. Interval /\ 0 \in 0 .. 2
    BY SizesAreNumbers DEF Sizes
  <2> QED
    BY <2>1 DEF TickerInit, TickerTypeOK
<1>2. ScanInPlace /\ IntervalKept /\ RemovalPending
  BY DEF TickerInit, ScanInPlace, IntervalKept, RemovalPending
<1> QED
  BY <1>1, <1>2 DEF TickerInv

(* The thread is created and begins to run.                                *)
LEMMA StartInv ==
  ASSUME TickerInv, Start
  PROVE  TickerInv'
<1>1. TickerTypeOK'
  BY DEF TickerInv, TickerTypeOK, Start, events, history
<1>2. ScanInPlace'
  BY DEF TickerInv, ScanInPlace, Start, Scanning
<1>3. IntervalKept'
  BY DEF TickerInv, IntervalKept, Start, events, history
<1>4. RemovalPending'
  BY DEF TickerInv, RemovalPending, Start, Listed, events, history
<1> QED
  BY <1>1, <1>2, <1>3, <1>4 DEF TickerInv

LEMMA ThreadStartsInv ==
  ASSUME TickerInv, ThreadStarts
  PROVE  TickerInv'
<1>1. TickerTypeOK'
  BY DEF TickerInv, TickerTypeOK, ThreadStarts, events, history
<1>2. ScanInPlace'
  BY DEF TickerInv, ScanInPlace, ThreadStarts, Scanning
<1>3. IntervalKept'
  BY DEF TickerInv, IntervalKept, ThreadStarts, events, history
<1>4. RemovalPending'
  BY DEF TickerInv, RemovalPending, ThreadStarts, Listed, events, history
<1> QED
  BY <1>1, <1>2, <1>3, <1>4 DEF TickerInv

(* A tick begins: what is waited and what has been waited change alike.    *)
LEMMA TickInv ==
  ASSUME TickerInv, NEW delay \in 1 .. MaxDelay, Tick(delay)
  PROVE  TickerInv'
<1>1. TickerTypeOK'
  BY SizesAreNumbers, TickerAssumption
  DEF TickerInv, TickerTypeOK, Tick, Sizes, Least
<1>2. ScanInPlace'
  BY DEF TickerInv, ScanInPlace, Tick, Scanning
<1>3. IntervalKept'
  <2> SUFFICES ASSUME NEW e \in timerEvents \cup registering
               PROVE  due'[e] + since'[e] >= Interval
    BY DEF Tick, IntervalKept
  <2>1. e \in Events /\ due[e] + since[e] >= Interval
    BY DEF TickerInv, TickerTypeOK, IntervalKept, Tick
  <2>2. due[e] \in Nat /\ since[e] \in Nat /\ delay \in Nat /\ Interval \in Nat
    BY <2>1, SizesAreNumbers, TickerAssumption DEF TickerInv, TickerTypeOK, Sizes
  <2>3. due'[e] = IF due[e] > delay THEN due[e] - delay ELSE 0
    BY <2>1 DEF Tick
  <2>4. since'[e] = IF since[e] + delay < Interval THEN since[e] + delay ELSE Interval
    BY <2>1 DEF Tick, Least
  <2> QED
    BY <2>1, <2>2, <2>3, <2>4
<1>4. RemovalPending'
  BY DEF TickerInv, RemovalPending, Tick, Listed
<1> QED
  BY <1>1, <1>2, <1>3, <1>4 DEF TickerInv

(* The ids to remove are swapped out, and then erased, outside any scan.   *)
LEMMA TakeUnregisteredInv ==
  ASSUME TickerInv, TakeUnregistered
  PROVE  TickerInv'
<1>1. TickerTypeOK'
  BY DEF TickerInv, TickerTypeOK, TakeUnregistered, history
<1>2. ScanInPlace'
  BY DEF TickerInv, ScanInPlace, TakeUnregistered, Scanning
<1>3. IntervalKept'
  BY DEF TickerInv, IntervalKept, TakeUnregistered, history
<1>4. RemovalPending'
  BY DEF TickerInv, ScanInPlace, RemovalPending, TakeUnregistered, Listed, history
<1> QED
  BY <1>1, <1>2, <1>3, <1>4 DEF TickerInv

LEMMA EraseUnregisteredInv ==
  ASSUME TickerInv, EraseUnregistered
  PROVE  TickerInv'
<1>1. TickerTypeOK'
  BY DEF TickerInv, TickerTypeOK, EraseUnregistered, history
<1>2. ScanInPlace'
  BY DEF TickerInv, ScanInPlace, EraseUnregistered, Scanning
<1>3. IntervalKept'
  BY DEF TickerInv, IntervalKept, EraseUnregistered, history
<1>4. RemovalPending'
  BY DEF TickerInv, RemovalPending, EraseUnregistered, Listed, history
<1> QED
  BY <1>1, <1>2, <1>3, <1>4 DEF TickerInv

(* The scan begins, and none of the events it will see has fired late.     *)
LEMMA LockEventsInv ==
  ASSUME TickerInv, LockEvents
  PROVE  TickerInv'
<1>1. TickerTypeOK'
  BY DEF TickerInv, TickerTypeOK, LockEvents, events, history
<1>2. ScanInPlace'
  BY DEF TickerInv, ScanInPlace, LockEvents, Scanning, events
<1>3. IntervalKept'
  BY DEF TickerInv, IntervalKept, LockEvents, events, history
<1>4. RemovalPending'
  BY DEF TickerInv, RemovalPending, LockEvents, Listed, events, history
<1> QED
  BY <1>1, <1>2, <1>3, <1>4 DEF TickerInv

LEMMA SkipEventInv ==
  ASSUME TickerInv, NEW e \in Events, SkipEvent(e)
  PROVE  TickerInv'
<1>1. TickerTypeOK'
  BY DEF TickerInv, TickerTypeOK, SkipEvent, events, history
<1>2. ScanInPlace'
  BY DEF TickerInv, ScanInPlace, SkipEvent, Scanning, events
<1>3. IntervalKept'
  BY DEF TickerInv, IntervalKept, SkipEvent, events, history
<1>4. RemovalPending'
  BY DEF TickerInv, RemovalPending, SkipEvent, Listed, events, history
<1> QED
  BY <1>1, <1>2, <1>3, <1>4 DEF TickerInv

(* An event fires: if nobody wants it, for the first and only time.        *)
LEMMA FireInv ==
  ASSUME TickerInv, NEW e \in Events, Fire(e)
  PROVE  TickerInv'
<1>1. TickerTypeOK'
  BY SizesAreNumbers DEF TickerInv, TickerTypeOK, Fire, Sizes, Least, events
<1>2. ScanInPlace'
  BY DEF TickerInv, ScanInPlace, Fire, Scanning, IsNext, events
<1>3. IntervalKept'
  BY DEF TickerInv, IntervalKept, Fire, events
<1>4. RemovalPending'
  <2>1. e \in todo /\ e \in timerEvents /\ pc = "scan"
    BY DEF TickerInv, ScanInPlace, Fire, IsNext
  <2>2. wanted[e] = "no" => late[e] = 0
    BY <2>1 DEF TickerInv, TickerTypeOK, RemovalPending
  <2>3. late'[e] <= 1 /\ \A f \in Events \ {e} : late'[f] = late[f]
    BY <2>2 DEF TickerInv, TickerTypeOK, RemovalPending, Fire, Least, events
  <2>4. ASSUME NEW f \in Events, wanted[f] = "no", f \in timerEvents, f # e
        PROVE  late[f] = 1 => f \notin todo
    BY <2>1, <2>4 DEF TickerInv, RemovalPending
  <2> QED
    BY <2>1, <2>3, <2>4 DEF TickerInv, TickerTypeOK, RemovalPending, Fire, Listed, events
<1> QED
  BY <1>1, <1>2, <1>3, <1>4 DEF TickerInv

LEMMA SetNextTickInv ==
  ASSUME TickerInv, NEW e \in Events, SetNextTick(e)
  PROVE  TickerInv'
<1>0. e = lastFired
  <2>1. lastFired \in Events /\ IsNext(lastFired)
    BY DEF TickerInv, TickerTypeOK, ScanInPlace, SetNextTick, IsNext
  <2> QED
    BY <2>1, NextIsUnique DEF SetNextTick
<1>1. TickerTypeOK'
  BY SizesAreNumbers DEF TickerInv, TickerTypeOK, SetNextTick, Sizes, history
<1>2. ScanInPlace'
  BY DEF TickerInv, ScanInPlace, SetNextTick, Scanning
<1>3. IntervalKept'
  BY <1>0, SizesAreNumbers DEF TickerInv, TickerTypeOK, IntervalKept, SetNextTick, Sizes, history
<1>4. RemovalPending'
  BY <1>0 DEF TickerInv, TickerTypeOK, ScanInPlace, RemovalPending, SetNextTick, Listed, history
<1> QED
  BY <1>1, <1>2, <1>3, <1>4 DEF TickerInv

LEMMA EndTickInv ==
  ASSUME TickerInv, EndTick
  PROVE  TickerInv'
<1>1. TickerTypeOK'
  BY DEF TickerInv, TickerTypeOK, EndTick, events, history
<1>2. ScanInPlace'
  BY DEF TickerInv, ScanInPlace, EndTick
<1>3. IntervalKept'
  BY DEF TickerInv, IntervalKept, EndTick, events, history
<1>4. RemovalPending'
  BY DEF TickerInv, RemovalPending, EndTick, Listed, events, history
<1> QED
  BY <1>1, <1>2, <1>3, <1>4 DEF TickerInv

(* The calls of other threads.                                            *)
LEMMA RegisterTimerEventInv ==
  ASSUME TickerInv, NEW e \in Events, RegisterTimerEvent(e)
  PROVE  TickerInv'
<1>1. TickerTypeOK'
  BY SizesAreNumbers DEF TickerInv, TickerTypeOK, RegisterTimerEvent, Sizes, ticker
<1>2. ScanInPlace'
  BY DEF TickerInv, ScanInPlace, RegisterTimerEvent, Scanning, IsNext, ticker
<1>3. IntervalKept'
  BY SizesAreNumbers DEF TickerInv, TickerTypeOK, IntervalKept, RegisterTimerEvent, Sizes, ticker
<1>4. RemovalPending'
  BY DEF TickerInv, RemovalPending, RegisterTimerEvent, Listed, ticker
<1> QED
  BY <1>1, <1>2, <1>3, <1>4 DEF TickerInv

LEMMA EmplaceEventInv ==
  ASSUME TickerInv, NEW e \in Events, EmplaceEvent(e)
  PROVE  TickerInv'
<1>1. TickerTypeOK'
  BY DEF TickerInv, TickerTypeOK, EmplaceEvent, ticker
<1>2. ScanInPlace'
  BY DEF TickerInv, ScanInPlace, EmplaceEvent, IsNext, ticker
<1>3. IntervalKept'
  BY DEF TickerInv, IntervalKept, EmplaceEvent, ticker
<1>4. RemovalPending'
  BY DEF TickerInv, TickerTypeOK, RemovalPending, EmplaceEvent, Listed, ticker
<1> QED
  BY <1>1, <1>2, <1>3, <1>4 DEF TickerInv

LEMMA UnregisterTimerEventInv ==
  ASSUME TickerInv, NEW e \in Events, UnregisterTimerEvent(e)
  PROVE  TickerInv'
<1>1. TickerTypeOK'
  BY DEF TickerInv, TickerTypeOK, UnregisterTimerEvent, ticker
<1>2. ScanInPlace'
  BY DEF TickerInv, ScanInPlace, UnregisterTimerEvent, Scanning, IsNext, ticker
<1>3. IntervalKept'
  BY DEF TickerInv, IntervalKept, UnregisterTimerEvent, ticker
<1>4. RemovalPending'
  BY DEF TickerInv, TickerTypeOK, RemovalPending, UnregisterTimerEvent, Listed, ticker
<1> QED
  BY <1>1, <1>2, <1>3, <1>4 DEF TickerInv

(* Stop().                                                                 *)
LEMMA StopTickerInv ==
  ASSUME TickerInv, StopTicker
  PROVE  TickerInv'
<1>1. TickerTypeOK'
  BY DEF TickerInv, TickerTypeOK, StopTicker, events, history
<1>2. ScanInPlace'
  BY DEF TickerInv, ScanInPlace, StopTicker, Scanning, IsNext, events, history
<1>3. IntervalKept'
  BY DEF TickerInv, IntervalKept, StopTicker, events, history
<1>4. RemovalPending'
  BY DEF TickerInv, RemovalPending, StopTicker, Listed, events, history
<1> QED
  BY <1>1, <1>2, <1>3, <1>4 DEF TickerInv

LEMMA StopClearsListInv ==
  ASSUME TickerInv, StopClearsList
  PROVE  TickerInv'
<1>1. TickerTypeOK'
  BY DEF TickerInv, TickerTypeOK, StopClearsList, ticker, history
<1>2. ScanInPlace'
  BY DEF TickerInv, ScanInPlace, StopClearsList, Scanning, ticker
<1>3. IntervalKept'
  BY DEF TickerInv, IntervalKept, StopClearsList, history
<1>4. RemovalPending'
  BY DEF TickerInv, RemovalPending, StopClearsList, ticker, history
<1> QED
  BY <1>1, <1>2, <1>3, <1>4 DEF TickerInv

LEMMA StopClearsEventsInv ==
  ASSUME TickerInv, StopClearsEvents
  PROVE  TickerInv'
<1>1. TickerTypeOK'
  BY DEF TickerInv, TickerTypeOK, StopClearsEvents, ticker, history
<1>2. ScanInPlace'
  BY DEF TickerInv, ScanInPlace, StopClearsEvents, Scanning, ticker
<1>3. IntervalKept'
  BY DEF TickerInv, IntervalKept, StopClearsEvents, ticker, history
<1>4. RemovalPending'
  BY DEF TickerInv, RemovalPending, StopClearsEvents, history
<1> QED
  BY <1>1, <1>2, <1>3, <1>4 DEF TickerInv

LEMMA TickerStepInv == TickerInv /\ [TickerNext]_tickerVars => TickerInv'
<1> SUFFICES ASSUME TickerInv, [TickerNext]_tickerVars PROVE TickerInv'
  OBVIOUS
<1>1. CASE UpdateTick
  BY <1>1, ThreadStartsInv, TickInv, TakeUnregisteredInv, EraseUnregisteredInv,
     LockEventsInv, SkipEventInv, FireInv, SetNextTickInv, EndTickInv DEF UpdateTick
<1>2. CASE Stop
  BY <1>2, StopTickerInv, StopClearsListInv, StopClearsEventsInv DEF Stop
<1>3. CASE UNCHANGED tickerVars
  BY <1>3 DEF tickerVars, ticker, events, history, TickerInv, TickerTypeOK, ScanInPlace,
              IntervalKept, RemovalPending, Listed, Scanning, IsNext
<1> QED
  BY <1>1, <1>2, <1>3, StartInv, RegisterTimerEventInv, EmplaceEventInv,
     UnregisterTimerEventInv DEF TickerNext

(* The invariant of the ticker: the scan of UpdateTick never sees an event *)
(* that is not in the map, and every event that was unregistered and is    *)
(* still in the map is listed to be erased.                                *)
THEOREM TickerInvariant == TickerSpec => []TickerInv
  BY TickerInitInv, TickerStepInv, PTL DEF TickerSpec

(* After UnregisterTimerEvent an event fires at most once more: in the     *)
(* scan going on, if that has not come to it yet; before the next scan     *)
(* UnregisterTimerEventImpl has erased it.                                 *)
THEOREM AtMostOneLateFireHolds == TickerSpec => []AtMostOneLateFire
<1>1. TickerInv => AtMostOneLateFire
  BY DEF TickerInv, RemovalPending, AtMostOneLateFire
<1> QED
  BY <1>1, TickerInvariant, PTL

(* ShouldFire and SetNextTick, with the nowMs of one tick for both, never  *)
(* let an event fire twice within its interval, nor within one of its      *)
(* registration, however long the ticks take.                              *)
THEOREM FiresAtLeastIntervalApartHolds == TickerSpec => FiresAtLeastIntervalApart
<1> DEFINE Apart ==
      \A e \in Events : lastFired # e /\ lastFired' = e => since[e] = Interval
<1>1. TickerInv /\ [TickerNext]_tickerVars => [Apart]_tickerVars
  <2> SUFFICES ASSUME TickerInv, TickerNext, NEW e \in Events,
                      lastFired # e, lastFired' = e
               PROVE  since[e] = Interval
    BY DEF Apart
  <2>1. Fire(e)
    BY NoEventIsNone
    DEF TickerNext, UpdateTick, Stop, Start, ThreadStarts, Tick, TakeUnregistered,
        EraseUnregistered, LockEvents, SkipEvent, Fire, SetNextTick, EndTick,
        RegisterTimerEvent, EmplaceEvent, UnregisterTimerEvent, StopTicker,
        StopClearsList, StopClearsEvents, ticker, events, history
  <2>2. e \in timerEvents /\ due[e] = 0 /\ pc = "scan"
    BY <2>1 DEF Fire, IsNext, TickerInv, ScanInPlace
  <2>3. due[e] + since[e] >= Interval /\ since[e] \in 0 .. Interval
    BY <2>2 DEF TickerInv, TickerTypeOK, IntervalKept
  <2> QED
    BY <2>2, <2>3, SizesAreNumbers DEF Sizes
<1>2. TickerSpec => [][Apart]_tickerVars
  BY <1>1, TickerInvariant, PTL DEF TickerSpec
<1> QED
  BY <1>2 DEF FiresAtLeastIntervalApart
----------------------------------------------------------------------------
(* Logger.                                                                 *)

(* What is in a queue, and stays in it when it is appended to.             *)
LEMMA InConcat ==
  ASSUME NEW S, NEW s \in Seq(S), NEW t \in Seq(S), NEW x
  PROVE  In(x, s \o t) <=> In(x, s) \/ In(x, t)
<1>1. /\ Len(s) \in Nat /\ Len(t) \in Nat
      /\ Len(s \o t) = Len(s) + Len(t)
      /\ \A i \in 1 .. Len(s) + Len(t) :
           (s \o t)[i] = IF i <= Len(s) THEN s[i] ELSE t[i - Len(s)]
  BY ConcatProperties, LenProperties
<1>2. In(x, s \o t) => In(x, s) \/ In(x, t)
  <2> SUFFICES ASSUME NEW i \in 1 .. Len(s) + Len(t), (s \o t)[i] = x
               PROVE  In(x, s) \/ In(x, t)
    BY <1>1 DEF In
  <2>1. CASE i <= Len(s)
    BY <1>1, <2>1 DEF In
  <2>2. CASE ~(i <= Len(s))
    <3>1. i - Len(s) \in 1 .. Len(t) /\ t[i - Len(s)] = x
      BY <1>1, <2>2
    <3> QED
      BY <3>1 DEF In
  <2> QED
    BY <2>1, <2>2
<1>3. In(x, s) => In(x, s \o t)
  <2> SUFFICES ASSUME NEW i \in 1 .. Len(s), s[i] = x
               PROVE  In(x, s \o t)
    BY DEF In
  <2>1. i \in 1 .. Len(s) + Len(t) /\ (s \o t)[i] = x
    BY <1>1
  <2> QED
    BY <1>1, <2>1 DEF In
<1>4. In(x, t) => In(x, s \o t)
  <2> SUFFICES ASSUME NEW i \in 1 .. Len(t), t[i] = x
               PROVE  In(x, s \o t)
    BY DEF In
  <2>1. /\ i + Len(s) \in 1 .. Len(s) + Len(t) /\ ~(i + Len(s) <= Len(s))
        /\ (i + Len(s)) - Len(s) = i
    BY <1>1
  <2>2. (s \o t)[i + Len(s)] = x
    BY <1>1, <2>1
  <2> QED
    BY <1>1, <2>1, <2>2 DEF In
<1> QED
  BY <1>2, <1>3, <1>4

LEMMA InAppend ==
  ASSUME NEW S, NEW s \in Seq(S), NEW e \in S, NEW x
  PROVE  In(x, Append(s, e)) <=> In(x, s) \/ x = e
<1> DEFINE t == <<e>>
<1>1. t \in Seq(S) /\ Append(s, e) = s \o t
  BY AppendIsConcat
<1>2. In(x, t) <=> x = e
  <2>1. Len(t) = 1 /\ t[1] = e /\ 1 .. 1 = {1}
    OBVIOUS
  <2> QED
    BY <2>1 DEF In
<1> HIDE DEF t
<1> QED
  BY <1>1, <1>2, InConcat

LEMMA LoggerInitInv == LoggerInit => LoggerInv
<1> SUFFICES ASSUME LoggerInit PROVE LoggerInv
  OBVIOUS
<1>0. << >> \in Seq(Clients \X Nat) /\ Len(<< >>) = 0 /\ << >> \o << >> = << >>
  <2>1. << >> \in Seq(Clients \X Nat)
    BY EmptySeq
  <2>2. << >> \o << >> = << >>
    BY <2>1, ConcatEmptySeq
  <2> QED
    BY <2>1, <2>2, EmptySeq
<1>1. LoggerTypeOK
  <2>1. unsignalled \in 0 .. Len(logged)
    BY <1>0 DEF LoggerInit
  <2>2. /\ clientAt \in [Clients -> {"run", "events", "thread", "running", "join", "stopped"}]
        /\ logs \in [Clients -> Nat]
    BY DEF LoggerInit
  <2> QED
    BY <1>0, <2>1, <2>2 DEF LoggerInit, LoggerTypeOK
<1>2. QueuesInPlace
  <2>1. \A c \in Clients : 1 .. logs[c] = {}
    BY DEF LoggerInit
  <2>2. written \o copyLogWaitingQueue \o logWaitingQueue = logged
    BY <1>0 DEF LoggerInit
  <2> QED
    BY <1>0, <2>1, <2>2 DEF LoggerInit, QueuesInPlace
<1>3. CountInPlace /\ StopInPlace
  BY DEF LoggerInit, CountInPlace, StopInPlace, Came, Starts, Waits
<1> QED
  BY <1>1, <1>2, <1>3 DEF LoggerInv

(* A step that leaves the queues alone leaves the logs in their places.    *)
LEMMA QueuesUnchanged ==
  ASSUME QueuesInPlace, UNCHANGED <<logs, queues, logged>>,
         copyLogWaitingQueue = << >> \/ (workerAt = "write" => workerAt' = "write")
  PROVE  QueuesInPlace'
BY DEF QueuesInPlace, queues

(* The calls of the clients.                                               *)
LEMMA RunLoggerThreadInv ==
  ASSUME LoggerInv, NEW c \in Clients, RunLoggerThread(c)
  PROVE  LoggerInv'
<1>1. LoggerTypeOK'
  BY DEF LoggerInv, LoggerTypeOK, RunLoggerThread, ClientTo, handles, queues, logHistory
<1>2. QueuesInPlace'
  BY QueuesUnchanged DEF LoggerInv, RunLoggerThread, logHistory
<1>3. CountInPlace'
  BY DEF LoggerInv, LoggerTypeOK, CountInPlace, RunLoggerThread, ClientTo, Came, Starts,
         handles
<1>4. StopInPlace'
  BY DEF LoggerInv, LoggerTypeOK, StopInPlace, RunLoggerThread, ClientTo, Waits, handles,
         queues
<1> QED
  BY <1>1, <1>2, <1>3, <1>4 DEF LoggerInv

LEMMA CreateEventsInv ==
  ASSUME LoggerInv, NEW c \in Clients, CreateEvents(c)
  PROVE  LoggerInv'
<1>1. LoggerTypeOK'
  BY DEF LoggerInv, LoggerTypeOK, CreateEvents, ClientTo, queues, logHistory
<1>2. QueuesInPlace'
  BY QueuesUnchanged DEF LoggerInv, CreateEvents, logHistory
<1>3. CountInPlace'
  BY DEF LoggerInv, LoggerTypeOK, CountInPlace, CreateEvents, ClientTo, Came, Starts
<1>4. StopInPlace'
  BY DEF LoggerInv, LoggerTypeOK, StopInPlace, CreateEvents, ClientTo, Waits, queues
<1> QED
  BY <1>1, <1>2, <1>3, <1>4 DEF LoggerInv

LEMMA CreateThreadInv ==
  ASSUME LoggerInv, NEW c \in Clients, CreateThread(c)
  PROVE  LoggerInv'
<1>1. LoggerTypeOK'
  BY DEF LoggerInv, LoggerTypeOK, CreateThread, ClientTo, handles, queues, logHistory
<1>2. QueuesInPlace'
  BY QueuesUnchanged
  DEF LoggerInv, QueuesInPlace, CountInPlace, CreateThread, Starts, logHistory
<1>3. CountInPlace'
  BY DEF LoggerInv, LoggerTypeOK, CountInPlace, CreateThread, ClientTo, Came, Starts,
         handles
<1>4. StopInPlace'
  BY DEF LoggerInv, LoggerTypeOK, CountInPlace, StopInPlace, CreateThread, ClientTo,
         Starts, Waits, handles, queues
<1> QED
  BY <1>1, <1>2, <1>3, <1>4 DEF LoggerInv

LEMMA WriteLogInv ==
  ASSUME LoggerInv, NEW c \in Clients, WriteLog(c)
  PROVE  LoggerInv'
<1> DEFINE log == <<c, logs[c] + 1>>
           S == Clients \X Nat
<1>0. /\ log \in S
      /\ logged \in Seq(S) /\ logWaitingQueue \in Seq(S)
      /\ copyLogWaitingQueue \in Seq(S) /\ written \in Seq(S)
      /\ logWaitingQueue' = Append(logWaitingQueue, log)
      /\ logged' = Append(logged, log)
  BY DEF LoggerInv, LoggerTypeOK, QueuesInPlace, WriteLog
<1>1. LoggerTypeOK'
  <2>1. Len(logged') = Len(logged) + 1 /\ Len(logged) \in Nat
    BY <1>0
  <2>2. logWaitingQueue' \in Seq(S)
    BY <1>0
  <2> QED
    BY <2>1, <2>2 DEF LoggerInv, LoggerTypeOK, WriteLog, client
<1>2. QueuesInPlace'
  <2>1. logged' \in Seq(S)
    BY <1>0
  <2>2. (written \o copyLogWaitingQueue \o logWaitingQueue)' = logged'
    <3>1. written \o copyLogWaitingQueue \in Seq(S)
      BY <1>0
    <3>2. (written \o copyLogWaitingQueue) \o Append(logWaitingQueue, log)
            = Append((written \o copyLogWaitingQueue) \o logWaitingQueue, log)
      BY <1>0, <3>1, AppendToLast, SMTT(30)
    <3> QED
      BY <1>0, <3>2 DEF LoggerInv, QueuesInPlace, WriteLog
  <2>3. ASSUME NEW d \in Clients, NEW n \in 1 .. logs'[d]
        PROVE  In(<<d, n>>, logged')
    <3>1. In(<<d, n>>, logged) \/ (d = c /\ n = logs[c] + 1)
      <4>1. logs[c] \in Nat /\ logs' = [logs EXCEPT ![c] = logs[c] + 1]
        BY DEF LoggerInv, LoggerTypeOK, WriteLog
      <4>2. d # c \/ n # logs[c] + 1 => n \in 1 .. logs[d]
        BY <4>1 DEF LoggerInv, LoggerTypeOK
      <4> QED
        BY <4>2 DEF LoggerInv, QueuesInPlace
    <3>2. In(<<d, n>>, Append(logged, log)) <=> In(<<d, n>>, logged) \/ <<d, n>> = log
      <4> HIDE DEF log, S
      <4> QED
        BY <1>0, InAppend
    <3>3. d = c /\ n = logs[c] + 1 => <<d, n>> = log
      OBVIOUS
    <3> HIDE DEF log
    <3> QED
      BY <1>0, <3>1, <3>2, <3>3
  <2> QED
    BY <2>1, <2>2, <2>3 DEF LoggerInv, QueuesInPlace, WriteLog
<1>3. CountInPlace'
  BY DEF LoggerInv, CountInPlace, WriteLog, Came, Starts, client
<1>4. StopInPlace'
  <2>1. ~Waits(c)
    BY DEF LoggerInv, StopInPlace, WriteLog
  <2>2. \A d \in Clients \ {c} : logs'[d] = logs[d]
    BY DEF LoggerInv, LoggerTypeOK, WriteLog
  <2>3. \A d \in Clients : Waits(d)' <=> Waits(d)
    BY DEF WriteLog, Waits, client
  <2> QED
    BY <2>1, <2>2, <2>3 DEF LoggerInv, StopInPlace, WriteLog, client
<1> QED
  BY <1>1, <1>2, <1>3, <1>4 DEF LoggerInv

(* Who stops the worker is the only client that ever came: nobody has      *)
(* stopped it yet.                                                         *)
LEMMA StopLoggerThreadInv ==
  ASSUME LoggerInv, NEW c \in Clients, StopLoggerThread(c)
  PROVE  LoggerInv'
<1>1. LoggerTypeOK'
  BY DEF LoggerInv, LoggerTypeOK, StopLoggerThread, ClientTo, queues, logHistory
<1>2. QueuesInPlace'
  BY QueuesUnchanged DEF LoggerInv, StopLoggerThread, logHistory
<1>3. CountInPlace'
  BY DEF LoggerInv, LoggerTypeOK, CountInPlace, StopLoggerThread, ClientTo, Came, Starts
<1>4. ~Waits(c) /\ \A d \in Clients \ {c} : Waits(d)' <=> Waits(d)
  BY DEF LoggerInv, LoggerTypeOK, StopInPlace, StopLoggerThread, ClientTo, Waits
<1>5. CASE currentConnectedClientCount = 1
  <2>1. \A d \in Clients \ {c} : ~Came(d)
    BY <1>5 DEF LoggerInv, CountInPlace, StopLoggerThread, Came
  <2>2. \A d \in Clients : ~Waits(d)
    BY <1>4, <2>1 DEF LoggerInv, StopInPlace, Came
  <2>3. result # "STOP_HANDLE" /\ joined = {}
    BY <2>2 DEF LoggerInv, StopInPlace, CountInPlace, Waits
  <2>4. stopHandle' /\ Waits(c)' /\ clientAt'[c] = "join"
    BY <1>5 DEF LoggerInv, LoggerTypeOK, StopLoggerThread, ClientTo, Waits
  <2> QED
    BY <1>1, <1>2, <1>3, <1>4, <2>2, <2>3, <2>4
    DEF LoggerInv, StopInPlace, StopLoggerThread
<1>6. CASE currentConnectedClientCount # 1
  <2>1. ~Waits(c)' /\ UNCHANGED stopHandle
    BY <1>4, <1>6 DEF LoggerInv, LoggerTypeOK, StopLoggerThread, ClientTo, Waits
  <2>2. \A d \in Clients \ {c} : clientAt'[d] = clientAt[d]
    BY DEF LoggerInv, LoggerTypeOK, StopLoggerThread, ClientTo
  <2> QED
    BY <1>1, <1>2, <1>3, <1>4, <2>1, <2>2
    DEF LoggerInv, StopInPlace, StopLoggerThread, queues
<1> QED
  BY <1>5, <1>6

LEMMA JoinInv ==
  ASSUME LoggerInv, NEW c \in Clients, Join(c)
  PROVE  LoggerInv'
<1>1. LoggerTypeOK'
  BY DEF LoggerInv, LoggerTypeOK, Join, ClientTo, handles, queues, logHistory
<1>2. QueuesInPlace'
  BY QueuesUnchanged DEF LoggerInv, Join, logHistory
<1>3. CountInPlace'
  BY DEF LoggerInv, LoggerTypeOK, CountInPlace, Join, ClientTo, Came, Starts, handles
<1>4. \A d \in Clients : Waits(d)' <=> Waits(d)
  BY DEF LoggerInv, LoggerTypeOK, Join, ClientTo, Waits
<1>5. StopInPlace'
  BY <1>4 DEF LoggerInv, LoggerTypeOK, StopInPlace, Join, ClientTo, handles, queues
<1> QED
  BY <1>1, <1>2, <1>3, <1>5 DEF LoggerInv

(* The worker.                                                             *)
LEMMA WorkerWakesInv ==
  ASSUME LoggerInv, WorkerWakes
  PROVE  LoggerInv'
<1>1. LoggerTypeOK'
  BY DEF LoggerInv, LoggerTypeOK, WorkerWakes, client, queues, logHistory
<1>2. QueuesInPlace'
  BY QueuesUnchanged DEF LoggerInv, WorkerWakes, logHistory
<1>3. CountInPlace'
  BY DEF LoggerInv, CountInPlace, WorkerWakes, Came, Starts, client
<1>4. StopInPlace'
  BY DEF LoggerInv, LoggerTypeOK, StopInPlace, WorkerWakes, Waits, client, queues
<1> QED
  BY <1>1, <1>2, <1>3, <1>4 DEF LoggerInv

LEMMA WorkerSwapsInv ==
  ASSUME LoggerInv, WorkerSwaps
  PROVE  LoggerInv'
<1> DEFINE S == Clients \X Nat
<1>0. /\ logWaitingQueue \in Seq(S) /\ written \in Seq(S)
      /\ copyLogWaitingQueue = << >> /\ << >> \in Seq(S)
      /\ copyLogWaitingQueue' = logWaitingQueue
      /\ logWaitingQueue' = << >> /\ written' = written
  BY DEF LoggerInv, LoggerTypeOK, QueuesInPlace, WorkerSwaps
<1>1. LoggerTypeOK'
  BY <1>0 DEF LoggerInv, LoggerTypeOK, WorkerSwaps, client, handles, logHistory
<1>2. /\ (written \o copyLogWaitingQueue)' = logged
      /\ (written \o copyLogWaitingQueue \o logWaitingQueue)' = logged
  <2>1. written \o << >> = written /\ written \o logWaitingQueue \in Seq(S)
    BY <1>0, ConcatEmptySeq
  <2>2. (written \o logWaitingQueue) \o << >> = written \o logWaitingQueue
    BY <2>1, ConcatEmptySeq
  <2> QED
    BY <1>0, <2>1, <2>2 DEF LoggerInv, QueuesInPlace
<1>3. QueuesInPlace'
  BY <1>2 DEF LoggerInv, QueuesInPlace, WorkerSwaps, logHistory
<1>4. CountInPlace'
  BY DEF LoggerInv, CountInPlace, WorkerSwaps, Came, Starts, client, handles
<1>5. StopInPlace'
  <2>1. workerAt' = "write" /\ \A c \in Clients : Waits(c)' <=> Waits(c)
    BY DEF WorkerSwaps, Waits, client
  <2>2. ASSUME NEW c \in Clients
        PROVE  \A n \in 1 .. logs'[c] : In(<<c, n>>, (written \o copyLogWaitingQueue)')
    BY <1>2 DEF LoggerInv, QueuesInPlace, WorkerSwaps
  <2> QED
    BY <2>1, <2>2 DEF LoggerInv, StopInPlace, WorkerSwaps, client, handles
<1> QED
  BY <1>1, <1>3, <1>4, <1>5 DEF LoggerInv

LEMMA WriteLogImplInv ==
  ASSUME LoggerInv, WriteLogImpl
  PROVE  LoggerInv'
<1> DEFINE S == Clients \X Nat
<1>0. /\ logWaitingQueue \in Seq(S) /\ written \in Seq(S)
      /\ copyLogWaitingQueue \in Seq(S) /\ << >> \in Seq(S)
      /\ written' = written \o copyLogWaitingQueue
      /\ copyLogWaitingQueue' = << >> /\ logWaitingQueue' = logWaitingQueue
  BY DEF LoggerInv, LoggerTypeOK, WriteLogImpl
<1>1. LoggerTypeOK'
  <2>1. written' \in Seq(S)
    BY <1>0
  <2> QED
    BY <1>0, <2>1 DEF LoggerInv, LoggerTypeOK, WriteLogImpl, client, handles, logHistory
<1>2. QueuesInPlace'
  <2>1. (written \o copyLogWaitingQueue) \o << >> = written \o copyLogWaitingQueue
    BY <1>0, ConcatEmptySeq
  <2> QED
    BY <1>0, <2>1 DEF LoggerInv, QueuesInPlace, WriteLogImpl, logHistory
<1>3. CountInPlace'
  BY DEF LoggerInv, CountInPlace, WriteLogImpl, Came, Starts, client, handles
<1>4. StopInPlace'
  <2>1. \A c \in Clients : Waits(c)' <=> Waits(c)
    BY DEF WriteLogImpl, Waits, client
  <2>2. workerAt' \in {"wait", "ended"} /\ (workerAt' = "wait" <=> result = "LOG_HANDLE")
    BY DEF WriteLogImpl
  <2> QED
    BY <1>0, <2>1, <2>2
    DEF LoggerInv, LoggerTypeOK, StopInPlace, WriteLogImpl, client, handles
<1> QED
  BY <1>1, <1>2, <1>3, <1>4 DEF LoggerInv

LEMMA LoggerStepInv == LoggerInv /\ [LoggerNext]_loggerVars => LoggerInv'
<1> SUFFICES ASSUME LoggerInv, [LoggerNext]_loggerVars PROVE LoggerInv'
  OBVIOUS
<1>1. CASE UNCHANGED loggerVars
  BY <1>1 DEF loggerVars, client, handles, queues, logHistory, LoggerInv, LoggerTypeOK,
              QueuesInPlace, CountInPlace, StopInPlace, Came, Starts, Waits
<1> QED
  BY <1>1, RunLoggerThreadInv, CreateEventsInv, CreateThreadInv, WriteLogInv,
     StopLoggerThreadInv, JoinInv, WorkerWakesInv, WorkerSwapsInv, WriteLogImplInv
  DEF LoggerNext, ClientStep, Worker

(* Every log is in the file, the worker's copy or the queue, once and in   *)
(* the order of WriteLog; and only the sole client that ever called        *)
(* RunLoggerThread waits for the worker in StopLoggerThread.               *)
THEOREM LoggerInvariant == LoggerSpec => []LoggerInv
  BY LoggerInitInv, LoggerStepInv, PTL DEF LoggerSpec

(* When StopLoggerThread has joined the worker, the file holds all that    *)
(* client has logged: the worker's last copy is taken after the stop event *)
(* was set, and whoever set it logs no more.                               *)
THEOREM StopFlushesHolds == LoggerSpec => []StopFlushes
<1>1. LoggerInv => StopFlushes
  <2> SUFFICES ASSUME LoggerInv, NEW c \in joined, NEW n \in 1 .. logs[c]
               PROVE  In(<<c, n>>, written)
    BY DEF StopFlushes
  <2>1. c \in Clients /\ Waits(c) /\ workerAt = "ended" /\ result = "STOP_HANDLE"
    BY DEF LoggerInv, LoggerTypeOK, StopInPlace, Waits
  <2> QED
    BY <2>1 DEF LoggerInv, StopInPlace
<1> QED
  BY <1>1, LoggerInvariant, PTL
----------------------------------------------------------------------------
(* ServerCore.                                                             *)

LEMMA ServerSizes ==
  /\ NumOfWorkerThread \in Nat \ {0}
  /\ NumOfLogicThread \in Nat \ {0}
  /\ MaxConnections \in Nat
  /\ Workers \subseteq Nat \ {0} /\ 1 \in Workers
  /\ Indices \subseteq Nat \ {0} /\ 1 \in Indices
BY ServerAssumption DEF Workers, Indices

(* What is one element of a finite set, and how many it adds.              *)
LEMMA CountOne ==
  ASSUME NEW S, NEW x
  PROVE  Cardinality({x} \cap S) = IF x \in S THEN 1 ELSE 0
<1>1. CASE x \in S
  <2>1. {x} \cap S = {x}
    BY <1>1
  <2> QED
    BY <1>1, <2>1, FS_Singleton
<1>2. CASE x \notin S
  <2>1. {x} \cap S = {}
    BY <1>2
  <2> QED
    BY <1>2, <2>1, FS_EmptySet
<1> QED
  BY <1>1, <1>2

LEMMA ServerInitInv == Init => ServerInv
<1> SUFFICES ASSUME Init PROVE ServerInv
  OBVIOUS
<1>1. ServerTypeOK
  BY ServerSizes DEF Init, ServerTypeOK
<1>2. StartServerInPlace
  BY ServerSizes DEF Init, StartServerInPlace, BeforeTables, TableLoop, BeforeFactory,
     SessionsNeedTables, Running
<1>3. StopServerInPlace
  BY DEF Init, StopServerInPlace, IoEnded
<1>4. SessionsInPlace /\ DisconnectedOnceErased
  BY DEF Init, SessionsInPlace, Handles, DisconnectedOnceErased, EverInserted
<1> QED
  BY <1>1, <1>2, <1>3, <1>4 DEF ServerInv

(* Where main or a logic thread goes changes nothing of the sessions.      *)
LEMMA SessionsUnchanged ==
  ASSUME ServerInv, UNCHANGED <<accept, ioAt, posted, sessions>>
  PROVE  SessionsInPlace' /\ DisconnectedOnceErased'
BY DEF ServerInv, SessionsInPlace, Handles, DisconnectedOnceErased, EverInserted,
       accept, sessions

(* A thread that changes sessions leaves main where it is, and what it has *)
(* made.                                                                   *)
LEMMA StartUnchanged ==
  ASSUME ServerInv, UNCHANGED <<main, factorySet, releaseQueues, acceptAt, accepted>>,
         sessionMap' \subseteq sessionMap
  PROVE  StartServerInPlace'
BY DEF ServerInv, StartServerInPlace, SessionsNeedTables, Running

(* StartServer.                                                            *)
LEMMA InitNetworkInv ==
  ASSUME ServerInv, InitNetwork
  PROVE  ServerInv'
<1>1. ServerTypeOK'
  BY ServerSizes DEF ServerInv, ServerTypeOK, InitNetwork, MainTo, accept, sessions
<1>2. StartServerInPlace'
  BY DEF ServerInv, StartServerInPlace, SessionsNeedTables, Running, BeforeTables,
         TableLoop, BeforeFactory, InitNetwork, MainAt, MainTo, accept, sessions
<1>3. StopServerInPlace'
  BY DEF ServerInv, StopServerInPlace, IoEnded, InitNetwork, MainAt, MainTo
<1> QED
  BY <1>1, <1>2, <1>3, SessionsUnchanged DEF ServerInv, InitNetwork

LEMMA StartAcceptThreadInv ==
  ASSUME ServerInv, StartAcceptThread
  PROVE  ServerInv'
<1>0. acceptAt = "none"
  BY DEF ServerInv, StartServerInPlace, StartAcceptThread, MainAt
<1>1. ServerTypeOK'
  BY ServerSizes DEF ServerInv, ServerTypeOK, StartAcceptThread, MainTo, server, sessions
<1>2. StartServerInPlace'
  BY <1>0 DEF ServerInv, StartServerInPlace, SessionsNeedTables, Running, BeforeTables,
         TableLoop, BeforeFactory, StartAcceptThread, MainAt, MainTo, server, sessions
<1>3. StopServerInPlace'
  BY DEF ServerInv, StopServerInPlace, IoEnded, StartAcceptThread, MainAt, MainTo, server
<1>4. SessionsInPlace' /\ DisconnectedOnceErased'
  BY <1>0 DEF ServerInv, SessionsInPlace, Handles, DisconnectedOnceErased, EverInserted,
              StartAcceptThread, sessions
<1> QED
  BY <1>1, <1>2, <1>3, <1>4 DEF ServerInv

LEMMA StartIoThreadInv ==
  ASSUME ServerInv, StartIoThread
  PROVE  ServerInv'
<1>0. /\ main.pc = "io" /\ main.i \in Nat \ {0}
      /\ \/ main' = [pc |-> "io", i |-> main.i + 1] /\ main.i + 1 \in Workers
         \/ main' = [pc |-> "tables", i |-> 1]
  BY ServerSizes DEF ServerInv, ServerTypeOK, StartIoThread, MainAt, MainLoops, Workers
<1>1. ServerTypeOK'
  <2>1. ioAt' \in [Workers -> [pc : {"none", "call", "wait", "handle", "ended"},
                              s : Sessions \cup {None}]]
    BY DEF ServerInv, ServerTypeOK, StartIoThread
  <2>2. main'.pc \in {"io", "tables"} /\ main'.i \in Workers \cup Indices
    BY <1>0, ServerSizes
  <2> QED
    BY <1>0, <2>1, <2>2 DEF ServerInv, ServerTypeOK, StartIoThread, server, accept, sessions
<1>2. StartServerInPlace'
  <2>1. main'.pc \in {"io", "tables"} /\ (main'.pc = "tables" => main'.i = 1)
    BY <1>0
  <2>2. 1 \in Indices /\ {i \in Indices : i < 1} = {}
    <3>1. \A i \in Indices : i \in Nat \ {0}
      BY ServerSizes
    <3>2. \A i \in Indices : ~(i < 1)
      BY <3>1
    <3> QED
      BY <3>2, ServerSizes
  <2> QED
    BY <1>0, <2>1, <2>2
    DEF ServerInv, StartServerInPlace, SessionsNeedTables, Running, BeforeTables,
        TableLoop, BeforeFactory, StartIoThread, server, accept, sessions
<1>3. StopServerInPlace'
  BY <1>0 DEF ServerInv, StopServerInPlace, IoEnded, StartIoThread, server
<1>4. SessionsInPlace' /\ DisconnectedOnceErased'
  <2>1. sessionMap = {} /\ posted = {}
    BY <1>0 DEF ServerInv, StartServerInPlace, SessionsInPlace, EverInserted, BeforeTables,
                BeforeFactory, StartIoThread, MainAt
  <2>2. \A w \in Workers : ~Handles(w)
    BY <2>1 DEF ServerInv, SessionsInPlace
  <2>3. \A w \in Workers : ~Handles(w)'
    BY <2>2 DEF ServerInv, ServerTypeOK, StartIoThread, Handles
  <2> QED
    BY <2>1, <2>3 DEF ServerInv, SessionsInPlace, DisconnectedOnceErased, EverInserted,
                      StartIoThread, accept, sessions
<1> QED
  BY <1>1, <1>2, <1>3, <1>4 DEF ServerInv

LEMMA AddTablesInv ==
  ASSUME ServerInv, AddTables
  PROVE  ServerInv'
<1>0. main' = [pc |-> "queue", i |-> main.i] /\ main.pc = "tables"
  BY DEF ServerInv, ServerTypeOK, AddTables, MainAt
<1>1. ServerTypeOK'
  BY <1>0 DEF ServerInv, ServerTypeOK, AddTables, accept, sessions
<1>2. StartServerInPlace'
  BY <1>0 DEF ServerInv, StartServerInPlace, SessionsNeedTables, Running, BeforeTables,
              TableLoop, BeforeFactory, AddTables, accept, sessions
<1>3. StopServerInPlace'
  BY <1>0 DEF ServerInv, ServerTypeOK, StopServerInPlace, IoEnded, AddTables
<1> QED
  BY <1>1, <1>2, <1>3, SessionsUnchanged DEF ServerInv, AddTables

LEMMA AddReleaseQueueInv ==
  ASSUME ServerInv, AddReleaseQueue
  PROVE  ServerInv'
<1>0. /\ main.pc = "queue" /\ main.i \in Indices
      /\ releaseQueues = {i \in Indices : i < main.i}
      /\ releaseQueues' = releaseQueues \cup {main.i}
  BY DEF ServerInv, StartServerInPlace, TableLoop, AddReleaseQueue, MainAt
<1>1. \/ /\ main' = [pc |-> "tables", i |-> main.i + 1] /\ main.i + 1 \in Indices
         /\ releaseQueues' = {i \in Indices : i < main.i + 1}
      \/ main' = [pc |-> "factory", i |-> 1] /\ releaseQueues' = Indices
  BY <1>0, ServerSizes DEF AddReleaseQueue, MainLoops, Indices
<1>2. ServerTypeOK'
  BY <1>1, ServerSizes DEF ServerInv, ServerTypeOK, AddReleaseQueue, accept, sessions
<1>3. StartServerInPlace'
  <2>1. ~factorySet /\ sessionMap = {} /\ acceptAt # "insert"
    BY <1>0 DEF ServerInv, StartServerInPlace, SessionsInPlace, EverInserted, TableLoop,
                BeforeFactory, AddReleaseQueue, MainAt
  <2>2. /\ main'.pc \in {"tables", "factory"}
        /\ main'.pc = "tables" =>
             main'.i \in Indices /\ releaseQueues' = {i \in Indices : i < main'.i}
        /\ main'.pc = "factory" => releaseQueues' = Indices
    BY <1>1
  <2> QED
    BY <2>1, <2>2
    DEF ServerInv, StartServerInPlace, SessionsNeedTables, Running, BeforeTables,
        TableLoop, BeforeFactory, AddReleaseQueue, accept, sessions
<1>4. StopServerInPlace'
  BY <1>0, <1>1 DEF ServerInv, StopServerInPlace, IoEnded, AddReleaseQueue
<1> QED
  BY <1>2, <1>3, <1>4, SessionsUnchanged DEF ServerInv, AddReleaseQueue

LEMMA SetSessionFactoryInv ==
  ASSUME ServerInv, SetSessionFactory
  PROVE  ServerInv'
<1>1. ServerTypeOK'
  BY ServerSizes DEF ServerInv, ServerTypeOK, SetSessionFactory, MainTo, accept, sessions
<1>2. StartServerInPlace'
  BY DEF ServerInv, StartServerInPlace, SessionsNeedTables, Running, BeforeTables,
         TableLoop, BeforeFactory, SetSessionFactory, MainAt, MainTo, accept, sessions
<1>3. StopServerInPlace'
  BY DEF ServerInv, StopServerInPlace, IoEnded, SetSessionFactory, MainAt, MainTo
<1> QED
  BY <1>1, <1>2, <1>3, SessionsUnchanged DEF ServerInv, SetSessionFactory

LEMMA CreatePortInv ==
  ASSUME ServerInv, CreatePort
  PROVE  ServerInv'
<1>1. ServerTypeOK'
  BY ServerSizes DEF ServerInv, ServerTypeOK, CreatePort, MainTo, accept, sessions
<1>2. StartServerInPlace'
  BY DEF ServerInv, StartServerInPlace, SessionsNeedTables, Running, BeforeTables,
         TableLoop, BeforeFactory, CreatePort, MainAt, MainTo, accept, sessions
<1>3. StopServerInPlace'
  BY DEF ServerInv, StopServerInPlace, IoEnded, CreatePort, MainAt, MainTo
<1> QED
  BY <1>1, <1>2, <1>3, SessionsUnchanged DEF ServerInv, CreatePort

(* The process ends before there are sessions.                             *)
LEMMA TablesGrowUnderThreadInv ==
  ASSUME ServerInv, NEW i \in Indices, TablesGrowUnderThread(i)
  PROVE  ServerInv'
<1>0. main.pc = "tables" /\ accepted = 0 /\ EverInserted = {} /\ EverInserted' = {}
  BY DEF ServerInv, StartServerInPlace, TableLoop, BeforeFactory, EverInserted,
         TablesGrowUnderThread, MainAt
<1>1. ServerTypeOK'
  BY DEF ServerInv, ServerTypeOK, TablesGrowUnderThread, server, sessions
<1>2. SessionsInPlace' /\ DisconnectedOnceErased'
  BY <1>0 DEF ServerInv, SessionsInPlace, Handles, DisconnectedOnceErased,
              TablesGrowUnderThread, sessions
<1>3. StartServerInPlace'
  BY <1>0 DEF ServerInv, StartServerInPlace, SessionsInPlace, SessionsNeedTables, Running,
              TablesGrowUnderThread, server, sessions
<1>4. StopServerInPlace'
  BY <1>0 DEF ServerInv, StopServerInPlace, IoEnded, TablesGrowUnderThread, server
<1> QED
  BY <1>1, <1>2, <1>3, <1>4 DEF ServerInv

(* StopServer.                                                             *)
LEMMA CloseListenSocketInv ==
  ASSUME ServerInv, CloseListenSocket
  PROVE  ServerInv'
<1>1. ServerTypeOK'
  BY ServerSizes DEF ServerInv, ServerTypeOK, CloseListenSocket, MainTo, accept, sessions
<1>2. StartServerInPlace'
  BY DEF ServerInv, StartServerInPlace, SessionsNeedTables, Running, BeforeTables,
         TableLoop, BeforeFactory, CloseListenSocket, MainAt, MainTo, accept, sessions
<1>3. StopServerInPlace'
  BY DEF ServerInv, StopServerInPlace, IoEnded, CloseListenSocket, MainAt, MainTo
<1> QED
  BY <1>1, <1>2, <1>3, SessionsUnchanged DEF ServerInv, CloseListenSocket

LEMMA StopServerInv ==
  ASSUME ServerInv, StopServer
  PROVE  ServerInv'
<1>0. /\ main.pc \in {"joinAccept", "post", "joinIo", "event"}
      /\ main'.pc \in {"post", "joinIo", "event", "joinLogic"}
      /\ main'.i \in Workers \cup Indices
      /\ main' \in [pc : {main'.pc}, i : {main'.i}]
      /\ closeKeys' \in Nat
  <2>1. main.i \in Nat \ {0} /\ main = [pc |-> main.pc, i |-> main.i]
    BY ServerSizes DEF ServerInv, ServerTypeOK
  <2>2. /\ main \in [pc : {main.pc}, i : {main.i}]
        /\ main.i \in Workers \cup Indices /\ closeKeys \in Nat /\ 1 \in Workers
    BY <2>1, ServerSizes DEF ServerInv, ServerTypeOK, Workers
  <2>3. CASE JoinAccept
    BY <2>1, <2>2, <2>3 DEF JoinAccept, MainAt, MainTo
  <2>4. CASE PostCloseKey
    BY <2>1, <2>2, <2>4, ServerSizes
    DEF PostCloseKey, MainAt, MainTo, MainLoops, Workers
  <2>5. CASE JoinIoThread
    BY <2>1, <2>2, <2>5, ServerSizes
    DEF JoinIoThread, MainAt, MainTo, MainLoops, Workers, server
  <2>6. CASE SetStopEvent
    BY <2>1, <2>2, <2>6 DEF SetStopEvent, MainAt, MainTo
  <2> QED
    BY <2>3, <2>4, <2>5, <2>6 DEF StopServer
<1>1. UNCHANGED <<listenSocket, factorySet, releaseQueues, accept, ioAt, logicAt,
                  releaseAt, posted, sessions>>
  BY DEF StopServer, JoinAccept, PostCloseKey, JoinIoThread, SetStopEvent, server
<1>2. ServerTypeOK'
  BY <1>0, <1>1 DEF ServerInv, ServerTypeOK, accept, sessions
<1>3. StartServerInPlace'
  BY <1>0, <1>1 DEF ServerInv, StartServerInPlace, SessionsNeedTables, Running,
                    BeforeTables, TableLoop, BeforeFactory, accept, sessions
<1>4. StopServerInPlace'
  <2>1. main.i \in Nat \ {0} /\ \A w \in Workers : w \in 1 .. NumOfWorkerThread
    BY ServerSizes DEF ServerInv, ServerTypeOK, Workers
  <2>2. CASE JoinAccept
    BY <2>2, ServerSizes DEF ServerInv, StopServerInPlace, IoEnded, JoinAccept, MainAt, MainTo,
                server, accept
  <2>3. CASE PostCloseKey
    BY <2>3 DEF ServerInv, ServerTypeOK, StopServerInPlace, IoEnded, PostCloseKey, MainAt,
                server, accept
  <2>4. CASE JoinIoThread
    BY <2>1, <2>4, ServerSizes
    DEF ServerInv, StopServerInPlace, IoEnded, JoinIoThread, MainAt, MainLoops, server, accept
  <2>5. CASE SetStopEvent
    BY <2>5 DEF ServerInv, StopServerInPlace, IoEnded, SetStopEvent, MainAt, MainTo, accept
  <2> QED
    BY <2>2, <2>3, <2>4, <2>5 DEF StopServer
<1> QED
  BY <1>1, <1>2, <1>3, <1>4, SessionsUnchanged DEF ServerInv
(* The accept thread.                                                      *)
LEMMA AcceptWaitsInv ==
  ASSUME ServerInv, CallAccept \/ AcceptInterrupted
  PROVE  ServerInv'
<1>0. /\ acceptAt \in {"call", "inside"} /\ acceptAt' \in {"inside", "ended"}
      /\ UNCHANGED <<main, server, accepted, ioAt, closeKeys, logicAt, releaseAt,
                     posted, sessions>>
  BY DEF CallAccept, AcceptInterrupted
<1>1. ServerTypeOK'
  BY <1>0 DEF ServerInv, ServerTypeOK, server, sessions
<1>2. StartServerInPlace'
  BY <1>0 DEF ServerInv, StartServerInPlace, SessionsNeedTables, Running, server, sessions
<1>3. StopServerInPlace'
  BY <1>0 DEF ServerInv, StopServerInPlace, IoEnded, server
<1>4. SessionsInPlace' /\ DisconnectedOnceErased'
  BY <1>0 DEF ServerInv, SessionsInPlace, Handles, DisconnectedOnceErased, EverInserted,
              sessions
<1> QED
  BY <1>1, <1>2, <1>3, <1>4 DEF ServerInv

(* A connection that comes before the factory is the first, and ends the   *)
(* process without a session.                                              *)
LEMMA AcceptConnectionInv ==
  ASSUME ServerInv, AcceptConnection
  PROVE  ServerInv'
<1>0. /\ acceptAt = "inside" /\ accepted \in Nat
      /\ accepted' = accepted + 1 /\ accepted' \in 0 .. MaxConnections
      /\ acceptAt' \in {"insert", "crashed"}
      /\ UNCHANGED <<main, server, ioAt, closeKeys, logicAt, releaseAt, posted, sessions>>
  BY ServerSizes DEF ServerInv, ServerTypeOK, AcceptConnection
<1>1. EverInserted' = EverInserted
  BY <1>0 DEF EverInserted
<1>2. ServerTypeOK'
  BY <1>0 DEF ServerInv, ServerTypeOK, server, sessions
<1>3. StartServerInPlace'
  <2>1. ~factorySet => accepted = 0 /\ EverInserted = {}
    BY <1>0 DEF ServerInv, StartServerInPlace, Running, EverInserted
  <2>2. ~factorySet => sessionMap = {}
    BY <2>1 DEF ServerInv, SessionsInPlace
  <2>3. /\ factorySet => acceptAt' = "insert" /\ releaseQueues = Indices
        /\ ~factorySet => acceptAt' = "crashed"
    BY DEF ServerInv, StartServerInPlace, BeforeFactory, AcceptConnection
  <2>4. accepted' > 0
    BY <1>0
  <2> QED
    BY <1>0, <2>2, <2>3, <2>4
    DEF ServerInv, StartServerInPlace, SessionsNeedTables, Running, server, sessions
<1>4. StopServerInPlace'
  BY <1>0 DEF ServerInv, StopServerInPlace, IoEnded, server
<1>5. SessionsInPlace' /\ DisconnectedOnceErased'
  BY <1>0, <1>1 DEF ServerInv, SessionsInPlace, Handles, DisconnectedOnceErased, sessions
<1> QED
  BY <1>2, <1>3, <1>4, <1>5 DEF ServerInv

LEMMA InsertSessionInv ==
  ASSUME ServerInv, InsertSession
  PROVE  ServerInv'
<1>0. /\ acceptAt = "insert" /\ acceptAt' = "call"
      /\ accepted \in Sessions /\ accepted \in Nat \ {0}
      /\ EverInserted' = EverInserted \cup {accepted} /\ accepted \notin EverInserted
      /\ sessionMap' = sessionMap \cup {accepted}
      /\ posted' \in {posted, posted \cup {accepted}}
      /\ UNCHANGED <<main, server, accepted, ioAt, closeKeys, logicAt, releaseAt,
                     releaseQueue, disconnected>>
  <2>1. acceptAt = "insert" /\ accepted \in Nat \ {0} /\ accepted <= MaxConnections
    BY ServerSizes DEF ServerInv, ServerTypeOK, StartServerInPlace, InsertSession
  <2>2. EverInserted = 1 .. accepted - 1
    BY <2>1 DEF EverInserted
  <2>3. EverInserted' = 1 .. accepted
    BY DEF EverInserted, InsertSession
  <2>4. accepted \in Sessions
    BY <2>1, ServerSizes DEF Sessions
  <2>5. 1 .. accepted = (1 .. accepted - 1) \cup {accepted} /\ accepted \notin 1 .. accepted - 1
    BY <2>1
  <2>6. EverInserted' = EverInserted \cup {accepted} /\ accepted \notin EverInserted
    BY <2>2, <2>3, <2>5
  <2> QED
    BY <2>1, <2>4, <2>6 DEF InsertSession
<1>1. ServerTypeOK'
  BY <1>0, ServerSizes DEF ServerInv, ServerTypeOK, InsertSession, server
<1>2. StartServerInPlace'
  BY <1>0 DEF ServerInv, StartServerInPlace, SessionsNeedTables, Running, server
<1>3. StopServerInPlace'
  BY <1>0 DEF ServerInv, StopServerInPlace, IoEnded, server
<1>4. SessionsInPlace'
  BY <1>0 DEF ServerInv, SessionsInPlace, Handles
<1>5. DisconnectedOnceErased'
  BY <1>0 DEF ServerInv, DisconnectedOnceErased
<1> QED
  BY <1>1, <1>2, <1>3, <1>4, <1>5 DEF ServerInv

(* The IO threads.                                                         *)
LEMMA IoUnchanged ==
  ASSUME ServerInv, NEW w \in Workers, NEW pc1 \in {"wait", "ended", "handle", "call"},
         NEW s \in Sessions \cup {None}, IoTo(w, pc1, s),
         ioAt[w].pc \in {"call", "wait", "handle"},
         UNCHANGED <<main, server, accept, logicAt, releaseAt>>
  PROVE  /\ ioAt'[w] = [pc |-> pc1, s |-> s]
         /\ \A v \in Workers \ {w} : ioAt'[v] = ioAt[v]
         /\ ioAt' \in [Workers -> [pc : {"none", "call", "wait", "handle", "ended"},
                                   s : Sessions \cup {None}]]
         /\ StopServerInPlace'
<1>1. /\ ioAt'[w] = [pc |-> pc1, s |-> s]
      /\ \A v \in Workers \ {w} : ioAt'[v] = ioAt[v]
      /\ ioAt' \in [Workers -> [pc : {"none", "call", "wait", "handle", "ended"},
                                s : Sessions \cup {None}]]
  BY DEF ServerInv, ServerTypeOK, IoTo
<1>2. StopServerInPlace'
  BY <1>1 DEF ServerInv, StopServerInPlace, IoEnded, server, accept
<1> QED
  BY <1>1, <1>2

LEMMA IoWaitsInv ==
  ASSUME ServerInv, NEW w \in Workers, WaitForCompletion(w) \/ TakeCloseKey(w)
  PROVE  ServerInv'
<1>0. /\ \E pc1 \in {"wait", "ended"} : IoTo(w, pc1, None)
      /\ ioAt[w].pc \in {"call", "wait"} /\ closeKeys' \in Nat
      /\ UNCHANGED <<main, server, accept, logicAt, releaseAt, posted, sessions>>
  BY DEF ServerInv, ServerTypeOK, WaitForCompletion, TakeCloseKey
<1>1. /\ ~Handles(w)' /\ \A v \in Workers \ {w} : ioAt'[v] = ioAt[v]
      /\ ioAt' \in [Workers -> [pc : {"none", "call", "wait", "handle", "ended"},
                                s : Sessions \cup {None}]]
      /\ StopServerInPlace'
  <2>1. PICK pc1 \in {"wait", "ended"} : IoTo(w, pc1, None)
    BY <1>0
  <2>2. pc1 \in {"wait", "ended", "handle", "call"} /\ pc1 # "handle"
    OBVIOUS
  <2>3. ioAt'[w] = [pc |-> pc1, s |-> None]
    BY <1>0, <2>1, <2>2, IoUnchanged
  <2>4. ~Handles(w)'
    BY <2>2, <2>3 DEF Handles
  <2> QED
    BY <1>0, <2>1, <2>2, <2>4, IoUnchanged
<1>2. ServerTypeOK'
  BY <1>0, <1>1 DEF ServerInv, ServerTypeOK, server, accept, sessions
<1>3. StartServerInPlace'
  BY <1>0, StartUnchanged DEF server, accept, sessions
<1>4. SessionsInPlace' /\ DisconnectedOnceErased'
  BY <1>0, <1>1 DEF ServerInv, SessionsInPlace, Handles, DisconnectedOnceErased,
                    EverInserted, accept, sessions
<1> QED
  BY <1>1, <1>2, <1>3, <1>4 DEF ServerInv

LEMMA TakeCompletionInv ==
  ASSUME ServerInv, NEW w \in Workers, NEW s \in Sessions, TakeCompletion(w, s)
  PROVE  ServerInv'
<1>0. /\ IoTo(w, "handle", s) /\ ioAt[w].pc = "wait"
      /\ s \in posted /\ posted' = posted \ {s}
      /\ UNCHANGED <<main, server, accept, closeKeys, logicAt, releaseAt, sessions>>
  BY DEF TakeCompletion
<1>1. /\ ioAt'[w] = [pc |-> "handle", s |-> s]
      /\ \A v \in Workers \ {w} : ioAt'[v] = ioAt[v]
      /\ ioAt' \in [Workers -> [pc : {"none", "call", "wait", "handle", "ended"},
                                s : Sessions \cup {None}]]
      /\ StopServerInPlace'
  BY <1>0, IoUnchanged
<1>2. ServerTypeOK'
  BY <1>0, <1>1 DEF ServerInv, ServerTypeOK, server, accept, sessions
<1>3. StartServerInPlace'
  BY <1>0, StartUnchanged DEF server, accept, sessions
<1>4. SessionsInPlace'
  <2>1. s \in sessionMap \ releaseQueue /\ posted \subseteq sessionMap
    BY <1>0 DEF ServerInv, SessionsInPlace
  <2>2. \A v \in Workers : Handles(v) => ioAt[v].s # s
    BY <1>0 DEF ServerInv, SessionsInPlace
  <2>3. \A v \in Workers : Handles(v)' <=> v = w \/ Handles(v)
    BY <1>1 DEF Handles
  <2> QED
    BY <1>0, <1>1, <2>1, <2>2, <2>3 DEF ServerInv, SessionsInPlace, EverInserted, accept,
                                        sessions
<1>5. DisconnectedOnceErased'
  BY <1>0 DEF ServerInv, DisconnectedOnceErased, EverInserted, accept, sessions
<1> QED
  BY <1>1, <1>2, <1>3, <1>4, <1>5 DEF ServerInv

LEMMA HandleCompletionInv ==
  ASSUME ServerInv, NEW w \in Workers, HandleCompletion(w)
  PROVE  ServerInv'
<1> DEFINE s == ioAt[w].s
<1>0. /\ IoTo(w, "call", None) /\ ioAt[w].pc = "handle"
      /\ \/ posted' = posted \cup {s} /\ releaseQueue' = releaseQueue
         \/ posted' = posted /\ releaseQueue' = releaseQueue \cup {s}
      /\ UNCHANGED <<main, server, accept, closeKeys, logicAt, releaseAt, sessionMap,
                     numOfUser, disconnected>>
  BY DEF HandleCompletion
<1>1. /\ ioAt'[w] = [pc |-> "call", s |-> None]
      /\ \A v \in Workers \ {w} : ioAt'[v] = ioAt[v]
      /\ ioAt' \in [Workers -> [pc : {"none", "call", "wait", "handle", "ended"},
                                s : Sessions \cup {None}]]
      /\ StopServerInPlace'
  BY <1>0, IoUnchanged
<1>2. ServerTypeOK'
  BY <1>0, <1>1 DEF ServerInv, ServerTypeOK, server, accept
<1>3. StartServerInPlace'
  BY <1>0, StartUnchanged DEF server, accept
<1>4. SessionsInPlace'
  <2>1. /\ s \in sessionMap \ (posted \cup releaseQueue) /\ s \in EverInserted
        /\ posted \subseteq sessionMap
    BY <1>0 DEF ServerInv, SessionsInPlace, Handles
  <2>2. \A v \in Workers \ {w} : Handles(v) => ioAt[v].s # s
    BY <1>0 DEF ServerInv, SessionsInPlace, Handles
  <2>3. \A v \in Workers : Handles(v)' <=> v # w /\ Handles(v)
    BY <1>1 DEF Handles
  <2> HIDE DEF s
  <2> QED
    BY <1>0, <1>1, <2>1, <2>2, <2>3 DEF ServerInv, SessionsInPlace, EverInserted, accept
<1>5. DisconnectedOnceErased'
  BY <1>0 DEF ServerInv, DisconnectedOnceErased, EverInserted, accept
<1> QED
  BY <1>1, <1>2, <1>3, <1>4, <1>5 DEF ServerInv

(* The logic and the release threads.                                      *)
LEMMA PassInv ==
  ASSUME ServerInv, NEW i \in Indices, StartPass(i) \/ EndPass(i)
  PROVE  ServerInv'
<1>0. UNCHANGED <<main, server, accept, ioAt, closeKeys, releaseAt, posted, sessions>>
  BY DEF StartPass, EndPass
<1>1. ServerTypeOK'
  BY <1>0 DEF ServerInv, ServerTypeOK, StartPass, EndPass, server, accept, sessions
<1>2. StartServerInPlace'
  BY <1>0, StartUnchanged DEF server, accept, sessions
<1>3. StopServerInPlace'
  BY <1>0 DEF ServerInv, StopServerInPlace, server, accept
<1> QED
  BY <1>0, <1>1, <1>2, <1>3, SessionsUnchanged DEF ServerInv

LEMMA ReleaseWaitsInv ==
  ASSUME ServerInv, NEW i \in Indices, WakeRelease(i) \/ Drained(i)
  PROVE  ServerInv'
<1>0. /\ \E at1 \in {"wait", "drain", "sleep"} :
           ReleaseTo(i, at1) /\ (at1 = "sleep" => stopEvent)
      /\ UNCHANGED <<main, server, accept, ioAt, closeKeys, logicAt, posted, sessions>>
  BY DEF WakeRelease, Drained
<1>1. ServerTypeOK'
  BY <1>0 DEF ServerInv, ServerTypeOK, ReleaseTo, server, accept, sessions
<1>2. StartServerInPlace'
  BY <1>0, StartUnchanged DEF server, accept, sessions
<1>3. StopServerInPlace'
  <2>1. \A j \in Indices : releaseAt'[j] = "sleep" => stopEvent
    BY <1>0 DEF ServerInv, ServerTypeOK, StopServerInPlace, ReleaseTo
  <2> QED
    BY <1>0, <2>1 DEF ServerInv, StopServerInPlace, server, accept
<1> QED
  BY <1>0, <1>1, <1>2, <1>3, SessionsUnchanged DEF ServerInv

LEMMA EraseSessionInv ==
  ASSUME ServerInv, NEW i \in Indices, NEW s \in Sessions, EraseSession(i, s)
  PROVE  ServerInv'
<1>0. /\ s \in releaseQueue /\ releaseQueue' = releaseQueue \ {s}
      /\ sessionMap' = sessionMap \ {s}
      /\ numOfUser' = numOfUser - Cardinality({s} \cap sessionMap)
      /\ disconnected' = [disconnected EXCEPT ![s] = @ + Cardinality({s} \cap sessionMap)]
      /\ UNCHANGED <<main, server, accept, ioAt, closeKeys, logicAt, releaseAt, posted>>
  BY DEF EraseSession, QueueOf
<1>1. Cardinality({s} \cap sessionMap) = IF s \in sessionMap THEN 1 ELSE 0
  BY CountOne
<1>2. ServerTypeOK'
  BY <1>0, <1>1 DEF ServerInv, ServerTypeOK, server, accept
<1>3. StartServerInPlace'
  BY <1>0, StartUnchanged DEF server, accept
<1>4. StopServerInPlace'
  BY <1>0 DEF ServerInv, StopServerInPlace, server, accept
<1>5. SessionsInPlace'
  BY <1>0 DEF ServerInv, SessionsInPlace, Handles, EverInserted, accept
<1>6. DisconnectedOnceErased'
  <2>1. s \in EverInserted /\ EverInserted' = EverInserted
    BY <1>0 DEF ServerInv, SessionsInPlace, EverInserted, accept
  <2>2. /\ disconnected'[s] = disconnected[s] + (IF s \in sessionMap THEN 1 ELSE 0)
        /\ \A t \in Sessions \ {s} : disconnected'[t] = disconnected[t]
    BY <1>0, <1>1 DEF ServerInv, ServerTypeOK
  <2> QED
    BY <1>0, <2>1, <2>2 DEF ServerInv, DisconnectedOnceErased
<1> QED
  BY <1>2, <1>3, <1>4, <1>5, <1>6 DEF ServerInv

(* A session that EraseAllSession erases may have a receive in the kernel, *)
(* whose completion no IO thread takes any more.                           *)
LEMMA EraseAllSessionInv ==
  ASSUME ServerInv, NEW i \in Indices, EraseAllSession(i)
  PROVE  ServerInv'
<1> DEFINE mine == {s \in sessionMap : IndexOf(s) = i}
<1>0. /\ releaseAt[i] = "sleep" /\ sessionMap' = sessionMap \ mine
      /\ disconnected' = [s \in Sessions |-> disconnected[s] + Cardinality({s} \cap mine)]
      /\ numOfUser' = 0 /\ ReleaseTo(i, "wait")
      /\ UNCHANGED <<main, server, accept, ioAt, closeKeys, logicAt, posted, releaseQueue>>
  BY DEF EraseAllSession
<1>1. \A w \in Workers : ioAt[w].pc = "ended"
  BY <1>0 DEF ServerInv, StopServerInPlace, IoEnded
<1> HIDE DEF mine
<1>2. \A s \in Sessions : Cardinality({s} \cap mine) = IF s \in mine THEN 1 ELSE 0
  BY CountOne
<1>3. mine \subseteq sessionMap
  BY DEF mine
<1>4. ServerTypeOK'
  BY <1>0, <1>2 DEF ServerInv, ServerTypeOK, ReleaseTo, server, accept
<1>5. StartServerInPlace'
  BY <1>0, StartUnchanged DEF server, accept
<1>6. StopServerInPlace'
  BY <1>0 DEF ServerInv, ServerTypeOK, StopServerInPlace, ReleaseTo, server, accept
<1>7. SessionsInPlace'
  BY <1>0, <1>1 DEF ServerInv, SessionsInPlace, Handles, EverInserted, accept
<1>8. DisconnectedOnceErased'
  <2>1. EverInserted' = EverInserted /\ sessionMap \subseteq EverInserted
    BY <1>0 DEF ServerInv, SessionsInPlace, EverInserted, accept
  <2>2. \A s \in Sessions :
          disconnected'[s] = disconnected[s] + (IF s \in mine THEN 1 ELSE 0)
    BY <1>0, <1>2
  <2> QED
    BY <1>0, <1>3, <2>1, <2>2 DEF ServerInv, ServerTypeOK, DisconnectedOnceErased
<1> QED
  BY <1>4, <1>5, <1>6, <1>7, <1>8 DEF ServerInv

LEMMA ServerStepInv == ServerInv /\ [Next]_vars => ServerInv'
<1> SUFFICES ASSUME ServerInv, [Next]_vars PROVE ServerInv'
  OBVIOUS
<1>1. CASE StartServer
  BY <1>1, InitNetworkInv, StartAcceptThreadInv, StartIoThreadInv, AddTablesInv,
     AddReleaseQueueInv, SetSessionFactoryInv, CreatePortInv DEF StartServer
<1>2. CASE AcceptStep \/ AcceptConnection
  BY <1>2, AcceptWaitsInv, AcceptConnectionInv, InsertSessionInv DEF AcceptStep
<1>3. ASSUME NEW w \in Workers, IoStep(w) \/ \E s \in Sessions : TakeCompletion(w, s)
      PROVE  ServerInv'
  BY <1>3, IoWaitsInv, HandleCompletionInv, TakeCompletionInv DEF IoStep
<1>4. ASSUME NEW i \in Indices, ReleaseStep(i)
      PROVE  ServerInv'
  BY <1>4, ReleaseWaitsInv, EraseSessionInv, EraseAllSessionInv DEF ReleaseStep
<1>5. CASE UNCHANGED vars
  BY <1>5, SessionsUnchanged
  DEF vars, server, accept, sessions, ServerInv, ServerTypeOK, StartServerInPlace,
      SessionsNeedTables, Running, StopServerInPlace
<1> QED
  BY <1>1, <1>2, <1>3, <1>4, <1>5, CloseListenSocketInv, StopServerInv,
     TablesGrowUnderThreadInv, PassInv DEF Next

(* There is no session before its table and its release queue, a session   *)
(* has one receive, and OnDisconnected runs once for each that leaves its  *)
(* map, by the release queue or by EraseAllSession.                        *)
THEOREM ServerInvariant == Spec => []ServerInv
  BY ServerInitInv, ServerStepInv, PTL DEF Spec

(* The event that makes the release threads erase what is left is set only *)
(* when StopServer has seen the accept thread and every IO thread end.     *)
THEOREM EraseAllAfterIoHolds == Spec => []EraseAllAfterIo
<1>1. ServerInv => EraseAllAfterIo
  BY DEF ServerInv, StopServerInPlace, IoEnded, EraseAllAfterIo
<1> QED
  BY <1>1, ServerInvariant, PTL

(* The maps are finite, and the count goes with them.                      *)
LEMMA MapIsFinite ==
  ASSUME ServerInv
  PROVE  IsFiniteSet(sessionMap) /\ Cardinality(sessionMap) \in Nat
<1>1. sessionMap \subseteq 1 .. accepted /\ accepted \in Int
  BY DEF ServerInv, ServerTypeOK, SessionsInPlace, EverInserted
<1>2. IsFiniteSet(1 .. accepted)
  BY <1>1, FS_Interval
<1> QED
  BY <1>1, <1>2, FS_Subset, FS_CardinalityType

LEMMA UserCountStep ==
  ServerInv /\ UserCountIsSessions /\ [Next]_vars => UserCountIsSessions'
<1> SUFFICES ASSUME ServerInv, UserCountIsSessions, [Next]_vars
             PROVE  UserCountIsSessions'
  OBVIOUS
<1>1. numOfUser \in Int /\ IsFiniteSet(sessionMap) /\ Cardinality(sessionMap) \in Nat
  BY MapIsFinite DEF ServerInv, ServerTypeOK
<1>2. CASE InsertSession
  <2>1. accepted \notin sessionMap
    <3>1. accepted \in Nat /\ sessionMap \subseteq 1 .. accepted - 1
      BY <1>2 DEF ServerInv, ServerTypeOK, SessionsInPlace, EverInserted, InsertSession
    <3> QED
      BY <3>1
  <2>2. Cardinality(sessionMap \cup {accepted}) = Cardinality(sessionMap) + 1
    BY <1>1, <2>1, FS_AddElement
  <2> QED
    BY <1>1, <1>2, <2>2 DEF InsertSession, UserCountIsSessions, server
<1>3. ASSUME NEW i \in Indices, NEW s \in Sessions, EraseSession(i, s)
      PROVE  UserCountIsSessions'
  <2>1. Cardinality({s} \cap sessionMap) = IF s \in sessionMap THEN 1 ELSE 0
    BY CountOne
  <2>2. Cardinality(sessionMap \ {s})
          = Cardinality(sessionMap) - (IF s \in sessionMap THEN 1 ELSE 0)
    <3>1. s \notin sessionMap => sessionMap \ {s} = sessionMap
      OBVIOUS
    <3>2. s \in sessionMap => Cardinality(sessionMap \ {s}) = Cardinality(sessionMap) - 1
      BY <1>1, FS_RemoveElement
    <3> QED
      BY <1>1, <3>1, <3>2
  <2> QED
    BY <1>1, <1>3, <2>1, <2>2 DEF EraseSession, UserCountIsSessions, server
<1>4. ASSUME NEW i \in Indices, EraseAllSession(i)
      PROVE  UserCountIsSessions'
  <2>1. stopEvent' /\ numOfUser' = 0
    BY <1>4 DEF ServerInv, StopServerInPlace, EraseAllSession, server
  <2>2. Cardinality(sessionMap') \in Nat
    <3>1. sessionMap' \subseteq sessionMap
      BY <1>4 DEF EraseAllSession
    <3> QED
      BY <1>1, <3>1, FS_Subset, FS_CardinalityType
  <2> QED
    BY <2>1, <2>2 DEF UserCountIsSessions
<1>5. CASE UNCHANGED <<numOfUser, sessionMap>> /\ (stopEvent => stopEvent')
  BY <1>5 DEF UserCountIsSessions
<1>6. CASE UNCHANGED vars
  BY <1>5, <1>6 DEF vars, server, sessions
<1> QED
  BY <1>2, <1>3, <1>4, <1>5, <1>6
  DEF Next, StartServer, InitNetwork, StartAcceptThread, StartIoThread, AddTables,
      AddReleaseQueue, SetSessionFactory, CreatePort, CloseListenSocket, StopServer,
      JoinAccept, PostCloseKey, JoinIoThread, SetStopEvent, AcceptStep, CallAccept,
      AcceptInterrupted, AcceptConnection, IoStep, WaitForCompletion, TakeCloseKey,
      TakeCompletion, HandleCompletion, TablesGrowUnderThread, StartPass, EndPass,
      ReleaseStep, WakeRelease, Drained, server, sessions

(* GetUserCount() is exact until StopServer sets its event, and is never   *)
(* too high after it, although EraseAllSession zeroes it for all indices.  *)
THEOREM UserCountIsSessionsHolds == Spec => []UserCountIsSessions
<1>1. Init => UserCountIsSessions
  <2>1. Cardinality({}) = 0
    BY FS_EmptySet
  <2> QED
    BY <2>1 DEF Init, UserCountIsSessions
<1> QED
  BY <1>1, UserCountStep, ServerInvariant, PTL DEF Spec
=============================================================================
