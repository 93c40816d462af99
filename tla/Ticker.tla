------------------------------- MODULE Ticker -------------------------------
(***************************************************************************)
(* Ticker: the thread that fires the registered timer events, and the      *)
(* threads that register and unregister them while it runs.                *)
(*                                                                         *)
(* Time is relative.  The code compares times with nowMs only, which moves *)
(* once per tick: due[e] is nextTick - nowMs, cut at 0, and a tick takes   *)
(* 1 to MaxDelay from every due[e].  timerEventsMutex is held shared for   *)
(* the whole scan, Fire() included; every other critical section is one    *)
(* step.  In RegisterTimerEvent the read of nowMs and the write of nextTick*)
(* are one step, the emplace under the mutex another.                      *)
(*                                                                         *)
(* A call from within Fire() is not told apart from a call of another      *)
(* thread at that moment; RegisterTimerEvent from within Fire() waits for  *)
(* the scan it is part of, which no model is needed to see.  Start() and   *)
(* Stop() are called once, and events are registered after Start().        *)
(***************************************************************************)
EXTENDS Integers, FiniteSets

CONSTANTS Events,   \* timer event ids; the map is scanned in id order
          Interval, \* intervalMs of every event, in units of time
          MaxDelay  \* bound: the longest time between two ticks

ASSUME TickerAssumption ==
  /\ Events \subseteq Nat
  /\ Interval \in Nat \ {0}
  /\ MaxDelay \in Nat \ {0}

VARIABLES pc,            \* where the ticker thread is
          isRunning,
          timerEvents,
          todo,          \* events the current scan has still to look at
          due,           \* due[e]: nextTick of e minus nowMs, or 0
          unregisterTargetList,
          copied,        \* copyUnregisterTargetList
          registering,   \* events whose registration waits for the mutex
          stopping,      \* how far Stop() is
          wanted,        \* history: the last call about e; "racing", "raced":
                         \* a registration while its removal was pending
          lastFired,     \* history: the event fired last in this tick
          since,         \* history: time since e fired or was registered
          late           \* history: times e fired since it was unregistered

ticker == <<pc, isRunning, todo, copied>>
events == <<timerEvents, due, unregisterTargetList, registering>>
history == <<wanted, lastFired, since, late>>
tickerVars == <<ticker, events, stopping, history>>

NoEvent == -1
Least(x, y) == IF x < y THEN x ELSE y
Scanning == pc \in {"scan", "fired"}

(* The removal of e has been asked for and not been carried out.           *)
Listed(e) == e \in unregisterTargetList \cup copied

TickerInit ==
  /\ pc = "off"
  /\ isRunning = FALSE
  /\ timerEvents = {}
  /\ todo = {}
  /\ due = [e \in Events |-> 0]
  /\ unregisterTargetList = {}
  /\ copied = {}
  /\ registering = {}
  /\ stopping = "no"
  /\ wanted = [e \in Events |-> "no"]
  /\ lastFired = NoEvent
  /\ since = [e \in Events |-> 0]
  /\ late = [e \in Events |-> 0]

----------------------------------------------------------------------------
(* Start: the thread exists, but it is the thread that sets isRunning.     *)
Start ==
  /\ pc = "off"
  /\ pc' = "starting"
  /\ UNCHANGED <<isRunning, todo, copied, events, stopping, history>>

ThreadStarts ==
  /\ pc = "starting"
  /\ pc' = "top"
  /\ isRunning' = TRUE
  /\ UNCHANGED <<todo, copied, events, stopping, history>>

(* Mutant of Tick: the thread goes on while events are registered.         *)
TickWhileDue(delay) ==
  /\ pc = "top"
  /\ pc' = IF isRunning \/ timerEvents # {} THEN "unregister" ELSE "done"
  /\ due' = [e \in Events |-> IF due[e] > delay THEN due[e] - delay ELSE 0]
  /\ since' = [e \in Events |-> Least(since[e] + delay, Interval)]
  /\ lastFired' = NoEvent
  /\ UNCHANGED <<isRunning, todo, copied, timerEvents, unregisterTargetList,
                 registering, stopping, wanted, late>>

(* A tick begins, delay after the last: nowMs moves.                       *)
Tick(delay) ==
  /\ pc = "top"
  /\ pc' = IF isRunning THEN "unregister" ELSE "done"
  /\ due' = [e \in Events |-> IF due[e] > delay THEN due[e] - delay ELSE 0]
  /\ since' = [e \in Events |-> Least(since[e] + delay, Interval)]
  /\ lastFired' = NoEvent
  /\ UNCHANGED <<isRunning, todo, copied, timerEvents, unregisterTargetList,
                 registering, stopping, wanted, late>>

(* Mutant of TakeUnregistered: one id is taken and the rest stay listed.   *)
TakeUnregisteredOne ==
  /\ pc = "unregister"
  /\ IF unregisterTargetList = {}
     THEN pc' = "lock" /\ UNCHANGED <<copied, unregisterTargetList>>
     ELSE LET e == CHOOSE f \in unregisterTargetList : TRUE IN
          /\ pc' = "erase"
          /\ copied' = {e}
          /\ unregisterTargetList' = unregisterTargetList \ {e}
  /\ UNCHANGED <<isRunning, todo, timerEvents, due, registering, stopping,
                 history>>

(* UnregisterTimerEventImpl: the list is swapped out under its own mutex,  *)
(* and the ids are erased under the other.                                 *)
TakeUnregistered ==
  /\ pc = "unregister"
  /\ pc' = IF unregisterTargetList = {} THEN "lock" ELSE "erase"
  /\ copied' = unregisterTargetList
  /\ unregisterTargetList' = {}
  /\ UNCHANGED <<isRunning, todo, timerEvents, due, registering, stopping,
                 history>>

EraseUnregistered ==
  /\ pc = "erase"
  /\ pc' = "lock"
  /\ timerEvents' = timerEvents \ copied
  /\ copied' = {}
  /\ UNCHANGED <<isRunning, todo, due, unregisterTargetList, registering,
                 stopping, history>>

(* The scan, under the shared lock.                                        *)
LockEvents ==
  /\ pc = "lock"
  /\ pc' = "scan"
  /\ todo' = timerEvents
  /\ UNCHANGED <<isRunning, copied, events, stopping, history>>

IsNext(e) == e \in todo /\ \A f \in todo : e <= f

SkipEvent(e) ==
  /\ pc = "scan"
  /\ IsNext(e)
  /\ due[e] > 0
  /\ todo' = todo \ {e}
  /\ UNCHANGED <<pc, isRunning, copied, events, stopping, history>>

Fire(e) ==
  /\ pc = "scan"
  /\ IsNext(e)
  /\ due[e] = 0
  /\ pc' = "fired"
  /\ lastFired' = e
  /\ since' = [since EXCEPT ![e] = 0]
  /\ late' = [late EXCEPT ![e] = IF wanted[e] = "no" THEN Least(@ + 1, 2) ELSE @]
  /\ UNCHANGED <<isRunning, todo, copied, events, stopping, wanted>>

(* Mutant of SetNextTick: a late event catches up, it is due at once.      *)
SetNextTickCatchUp(e) ==
  /\ pc = "fired"
  /\ IsNext(e)
  /\ pc' = "scan"
  /\ due' = [due EXCEPT ![e] = Interval - 1]
  /\ todo' = todo \ {e}
  /\ UNCHANGED <<isRunning, copied, timerEvents, unregisterTargetList,
                 registering, stopping, history>>

SetNextTick(e) ==
  /\ pc = "fired"
  /\ IsNext(e)
  /\ pc' = "scan"
  /\ due' = [due EXCEPT ![e] = Interval]
  /\ todo' = todo \ {e}
  /\ UNCHANGED <<isRunning, copied, timerEvents, unregisterTargetList,
                 registering, stopping, history>>

(* tickCount, unlock and sleep.                                            *)
EndTick ==
  /\ pc = "scan"
  /\ todo = {}
  /\ pc' = "top"
  /\ UNCHANGED <<isRunning, todo, copied, events, stopping, history>>

----------------------------------------------------------------------------
(* RegisterTimerEvent: the interval counts twice, once in the argument and *)
(* once in SetNextTick ...                                                 *)
RegisterTimerEvent(e) ==
  /\ pc # "off"
  /\ e \notin registering
  /\ registering' = registering \cup {e}
  /\ due' = [due EXCEPT ![e] = 2 * Interval]
  /\ wanted' = [wanted EXCEPT ![e] = IF Listed(e) THEN "racing" ELSE "registering"]
  /\ since' = [since EXCEPT ![e] = 0]
  /\ UNCHANGED <<ticker, timerEvents, unregisterTargetList, stopping, lastFired,
                 late>>

(* Mutant of EmplaceEvent: nothing is put in the map while an id waits to  *)
(* be erased, although true is returned.                                   *)
EmplaceEventUnlessBusy(e) ==
  /\ e \in registering
  /\ ~Scanning
  /\ registering' = registering \ {e}
  /\ timerEvents' = IF unregisterTargetList = {} THEN timerEvents \cup {e}
                                                 ELSE timerEvents
  /\ wanted' = [wanted EXCEPT ![e] = CASE ~Listed(e) -> "yes"
                                        [] Listed(e) /\ @ = "racing" -> "raced"
                                        [] OTHER -> "no"]
  /\ late' = [late EXCEPT ![e] = 0]
  /\ UNCHANGED <<ticker, due, unregisterTargetList, stopping, lastFired, since>>

(* ... and emplace under the unique lock.  Whatever is listed for erasure  *)
(* stays listed.                                                           *)
EmplaceEvent(e) ==
  /\ e \in registering
  /\ ~Scanning
  /\ registering' = registering \ {e}
  /\ timerEvents' = timerEvents \cup {e}
  /\ wanted' = [wanted EXCEPT ![e] = CASE ~Listed(e) -> "yes"
                                        [] Listed(e) /\ @ = "racing" -> "raced"
                                        [] OTHER -> "no"]
  /\ late' = [late EXCEPT ![e] = 0]
  /\ UNCHANGED <<ticker, due, unregisterTargetList, stopping, lastFired, since>>

(* Mutant of UnregisterTimerEvent: the event is erased there and then.     *)
UnregisterTimerEventNow(e) ==
  /\ timerEvents' = timerEvents \ {e}
  /\ wanted' = [wanted EXCEPT ![e] = "no"]
  /\ late' = [late EXCEPT ![e] = IF wanted[e] = "no" THEN @ ELSE 0]
  /\ UNCHANGED <<ticker, due, unregisterTargetList, registering, stopping,
                 lastFired, since>>

(* UnregisterTimerEvent lists the id.                                      *)
UnregisterTimerEvent(e) ==
  /\ unregisterTargetList' = unregisterTargetList \cup {e}
  /\ wanted' = [wanted EXCEPT ![e] = "no"]
  /\ late' = [late EXCEPT ![e] = IF wanted[e] = "no" THEN @ ELSE 0]
  /\ UNCHANGED <<ticker, timerEvents, due, registering, stopping, lastFired,
                 since>>

(* Stop: isRunning is cleared, the thread joined, both tables emptied.     *)
StopTicker ==
  /\ pc # "off"
  /\ stopping = "no"
  /\ stopping' = "joining"
  /\ isRunning' = FALSE
  /\ UNCHANGED <<pc, todo, copied, events, history>>

StopClearsList ==
  /\ stopping = "joining"
  /\ pc = "done"
  /\ stopping' = "clearing"
  /\ unregisterTargetList' = {}
  /\ UNCHANGED <<ticker, timerEvents, due, registering, history>>

StopClearsEvents ==
  /\ stopping = "clearing"
  /\ stopping' = "done"
  /\ timerEvents' = {}
  /\ UNCHANGED <<ticker, due, unregisterTargetList, registering, history>>

----------------------------------------------------------------------------
UpdateTick ==
  \/ ThreadStarts
  \/ \E delay \in 1 .. MaxDelay : Tick(delay)
  \/ TakeUnregistered \/ EraseUnregistered \/ LockEvents
  \/ \E e \in Events : SkipEvent(e) \/ Fire(e) \/ SetNextTick(e)
  \/ EndTick

Stop == StopTicker \/ StopClearsList \/ StopClearsEvents

TickerNext ==
  \/ Start
  \/ UpdateTick
  \/ \E e \in Events :
       RegisterTimerEvent(e) \/ EmplaceEvent(e) \/ UnregisterTimerEvent(e)
  \/ Stop

(* The ticker thread runs; a Stop() that was called goes on when it can.   *)
TickerSpec ==
  /\ TickerInit
  /\ [][TickerNext]_tickerVars
  /\ WF_tickerVars(UpdateTick)
  /\ WF_tickerVars(StopClearsList)
  /\ WF_tickerVars(StopClearsEvents)

----------------------------------------------------------------------------
TickerTypeOK ==
  /\ pc \in {"off", "starting", "top", "unregister", "erase", "lock", "scan",
             "fired", "done"}
  /\ isRunning \in BOOLEAN
  /\ timerEvents \cup unregisterTargetList \cup registering \cup copied \subseteq Events
  /\ due \in [Events -> 0 .. 2 * Interval]
  /\ stopping \in {"no", "joining", "clearing", "done"}
  /\ wanted \in [Events -> {"no", "registering", "racing", "yes", "raced"}]
  /\ lastFired \in Events \cup {NoEvent}
  /\ since \in [Events -> 0 .. Interval]
  /\ late \in [Events -> 0 .. 2]

(* The scan sees only events that are in the map: nothing is erased under  *)
(* it, by the ticker or by Stop().                                         *)
ScanInPlace ==
  /\ todo \subseteq timerEvents
  /\ todo # {} => Scanning
  /\ pc = "fired" => IsNext(lastFired)
  /\ copied # {} => pc = "erase"
  /\ stopping \in {"clearing", "done"} => pc = "done"

(* What an event has still to wait and what it has waited make an interval.*)
IntervalKept ==
  \A e \in timerEvents \cup registering :
    due[e] + since[e] >= Interval \/ (pc = "fired" /\ lastFired = e)

(* An event nobody wants is on its way out of the map, and one that has    *)
(* fired since is not seen by another scan.                                *)
RemovalPending ==
  \A e \in Events :
    /\ late[e] <= 1
    /\ wanted[e] = "no" /\ e \in timerEvents =>
         /\ Listed(e) \/ pc = "done"
         /\ late[e] = 1 => /\ e \in todo => pc = "fired" /\ lastFired = e
                           /\ pc = "erase" => e \in copied
                           /\ pc # "lock"

(* Types, and what the two lists, the map and the scan over it owe each    *)
(* other while other threads register and unregister (Ticker::UpdateTick,  *)
(* UnregisterTimerEventImpl, Stop).                                        *)
TickerInv == TickerTypeOK /\ ScanInPlace /\ IntervalKept /\ RemovalPending

(* An event never fires twice within its interval, nor within an interval  *)
(* of its registration, however the ticks come (TimerEvent::ShouldFire and *)
(* SetNextTick).                                                           *)
FiresAtLeastIntervalApart ==
  [][\A e \in Events : lastFired # e /\ lastFired' = e => since[e] = Interval]_tickerVars

(* Unregistering is deferred, but by no more than the scan in progress: an *)
(* event fires at most once after UnregisterTimerEvent has returned.       *)
AtMostOneLateFire == \A e \in Events : late[e] <= 1

(* An event registered while no removal of its id is pending fires, and    *)
(* fires again, until somebody calls about it or the ticker stops.         *)
RegisteredEventFires ==
  \A e \in Events :
    wanted[e] = "yes" /\ stopping = "no" ~>
      lastFired = e \/ wanted[e] # "yes" \/ stopping # "no"

(* Stop() returns if the thread it stops has begun to run.                 *)
StopReturnsOnceRunning ==
  stopping = "joining" /\ pc # "starting" /\ ~isRunning ~> stopping = "done"
============================================================================
