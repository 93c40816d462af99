------------------------------ MODULE Registry ------------------------------
(***************************************************************************)
(* The registry of non-network actors: nonNetworkActorMap with one shared  *)
(* mutex per thread index, the passes of the logic threads over it, and    *)
(* RegisterNonNetworkActor, UnregisterNonNetworkActor and                  *)
(* FindNonNetworkActor, called from outside or by a timer inside a pass.   *)
(*                                                                         *)
(* Abstracted: PreWake-, OnWake- and PostWakeLogicThread take the lock one *)
(* after the other, so each is a pass; what a timer does besides calling   *)
(* the registry is not modelled (the timers of a NonNetworkActor are empty *)
(* unless a class overrides them).  What was found is used without a lock. *)
(* Tester actors never enter the registry.                                 *)
(* External: a shared_mutex (an SRW lock) that a writer waits for lets no  *)
(* new reader in; locking one that the thread itself holds in a            *)
(* conflicting mode blocks for ever.                                       *)
(***************************************************************************)
EXTENDS Naturals, FiniteSets

CONSTANTS NumOfLogicThread,
          Outside,      \* threads that are not logic threads
          NumOfActors,
          MaxCalls      \* bound: calls of the registry

Indices == 1 .. NumOfLogicThread
Threads == Indices \cup Outside      \* logic thread i serves index i
Actors == 1 .. NumOfActors
Calls == {"register", "unregister", "find"}

ASSUME RegistryAssumption ==
  /\ NumOfLogicThread \in Nat \ {0}
  /\ NumOfActors \in Nat \ {0}
  /\ Outside \cap Indices = {}
  /\ MaxCalls \in Nat

VARIABLES nonNetworkActorMap,  \* the actors in the maps
          created, destroyed,  \* calls of OnActorCreated, OnActorDestroyed
          at,                  \* at[t]: [pc, op, a], a call or a pass
          held,                \* held[t]: the locks of its call, [i, mode]
          inPass,              \* logic threads inside a pass
          todo,                \* todo[i]: actors the pass has still to visit
          calls                \* calls so far (bounded)

map == <<nonNetworkActorMap, created, destroyed>>
registryVars == <<map, at, held, inPass, todo, calls>>

IndexOf(a) == (a % NumOfLogicThread) + 1
None == 0
Idle == [pc |-> "idle", op |-> "none", a |-> None]

RegistryInit ==
  /\ nonNetworkActorMap = {}
  /\ created = [a \in Actors |-> 0]
  /\ destroyed = [a \in Actors |-> 0]
  /\ at = [t \in Threads |-> Idle]
  /\ held = [t \in Threads |-> {}]
  /\ inPass = {}
  /\ todo = [i \in Indices |-> {}]
  /\ calls = 0

----------------------------------------------------------------------------
(* The shared mutexes.  A logic thread holds its own for a whole pass; any *)
(* thread holds the one of the actor it looks up or changes.               *)
Lock(t) == IF at[t].op = "pass" THEN t ELSE IndexOf(at[t].a)

(* Mutant of Exclusive: an actor is unregistered under the shared lock.    *)
ExclusiveToInsert(t) == at[t].op = "register"

Exclusive(t) == at[t].op \in {"register", "unregister"}

Mode(t) == IF Exclusive(t) THEN "unique" ELSE "shared"

Wants(t, i) == at[t].pc = "lock" /\ Lock(t) = i
HoldsShared(t, i) == [i |-> i, mode |-> "shared"] \in held[t] \/ (t = i /\ t \in inPass)
HoldsUnique(t, i) == [i |-> i, mode |-> "unique"] \in held[t]

(* u keeps t from the lock t waits for; u may be t itself.                 *)
Blocks(u, t) ==
  LET i == Lock(t) IN
  /\ at[t].pc = "lock"
  /\ \/ HoldsUnique(u, i)
     \/ Exclusive(t) /\ HoldsShared(u, i)
     \/ ~Exclusive(t) /\ Wants(u, i) /\ Exclusive(u)

CanLock(t) == \A u \in Threads : ~Blocks(u, t)

(* A call ends: its lock is given back, and the thread goes on with its    *)
(* pass, or waits.                                                         *)
Unlock(t) == held' = [held EXCEPT ![t] = {}]

Return(t) ==
  at' = [at EXCEPT ![t] =
           IF t \in inPass THEN [pc |-> "pass", op |-> "pass", a |-> None] ELSE Idle]

----------------------------------------------------------------------------
(* A logic thread wakes up and asks for the shared lock of its index.      *)
WakeLogicThread(i) ==
  /\ at[i].pc = "idle"
  /\ at' = [at EXCEPT ![i] = [pc |-> "lock", op |-> "pass", a |-> None]]
  /\ UNCHANGED <<map, held, inPass, todo, calls>>

StartPass(i) ==
  /\ at[i].pc = "lock" /\ at[i].op = "pass"
  /\ CanLock(i)
  /\ inPass' = inPass \cup {i}
  /\ todo' = [todo EXCEPT ![i] = {a \in nonNetworkActorMap : IndexOf(a) = i}]
  /\ at' = [at EXCEPT ![i].pc = "pass"]
  /\ UNCHANGED <<map, held, calls>>

(* The timers of an actor, one of which may call the registry.             *)
Visit(i, a) ==
  /\ at[i].pc = "pass"
  /\ a \in todo[i]
  /\ todo' = [todo EXCEPT ![i] = @ \ {a}]
  /\ \/ UNCHANGED <<at, calls>>
     \/ /\ calls < MaxCalls
        /\ calls' = calls + 1
        /\ \E op \in Calls, b \in Actors :
             at' = [at EXCEPT ![i] = [pc |-> "lock", op |-> op, a |-> b]]
  /\ UNCHANGED <<map, held, inPass>>

EndPass(i) ==
  /\ at[i].pc = "pass"
  /\ todo[i] = {}
  /\ inPass' = inPass \ {i}
  /\ at' = [at EXCEPT ![i] = Idle]
  /\ UNCHANGED <<map, held, todo, calls>>

(* A call from outside any such pass: ActorCreator::Create, or a handler of *)
(* a session, which runs on a logic thread under another lock.             *)
OutsideCall(t, op, a) ==
  /\ at[t].pc = "idle"
  /\ calls < MaxCalls
  /\ calls' = calls + 1
  /\ at' = [at EXCEPT ![t] = [pc |-> "lock", op |-> op, a |-> a]]
  /\ UNCHANGED <<map, held, inPass, todo>>

TakeLock(t) ==
  /\ at[t].pc = "lock" /\ at[t].op # "pass"
  /\ CanLock(t)
  /\ held' = [held EXCEPT ![t] = @ \cup {[i |-> Lock(t), mode |-> Mode(t)]}]
  /\ at' = [at EXCEPT ![t].pc = "locked"]
  /\ UNCHANGED <<map, inPass, todo, calls>>

(* insert() keeps the actor that has the id already; OnActorCreated runs   *)
(* in any case, under the lock.                                            *)
Register(t) ==
  /\ at[t].pc = "locked" /\ at[t].op = "register"
  /\ nonNetworkActorMap' = nonNetworkActorMap \cup {at[t].a}
  /\ created' = [created EXCEPT ![at[t].a] = @ + 1]
  /\ Unlock(t) /\ Return(t)
  /\ UNCHANGED <<destroyed, inPass, todo, calls>>

(* OnActorDestroyed runs only for an actor that was in the map.            *)
Unregister(t) ==
  /\ at[t].pc = "locked" /\ at[t].op = "unregister"
  /\ nonNetworkActorMap' = nonNetworkActorMap \ {at[t].a}
  /\ destroyed' = IF at[t].a \in nonNetworkActorMap
                  THEN [destroyed EXCEPT ![at[t].a] = @ + 1] ELSE destroyed
  /\ Unlock(t) /\ Return(t)
  /\ UNCHANGED <<created, inPass, todo, calls>>

(* Mutant of Find: the lock of an actor that is found is not given back.   *)
FindKeepsLock(t) ==
  /\ at[t].pc = "locked" /\ at[t].op = "find"
  /\ Return(t)
  /\ IF at[t].a \in nonNetworkActorMap THEN UNCHANGED held ELSE Unlock(t)
  /\ UNCHANGED <<map, inPass, todo, calls>>

(* FindNonNetworkActor, of FindActor as well.                              *)
Find(t) ==
  /\ at[t].pc = "locked" /\ at[t].op = "find"
  /\ Return(t)
  /\ Unlock(t)
  /\ UNCHANGED <<map, inPass, todo, calls>>

----------------------------------------------------------------------------
CallStep(t) == TakeLock(t) \/ Register(t) \/ Unregister(t) \/ Find(t)

PassStep(i) ==
  WakeLogicThread(i) \/ StartPass(i) \/ EndPass(i) \/ \E a \in Actors : Visit(i, a)

RegistryNext ==
  \/ \E t \in Threads : CallStep(t)
  \/ \E i \in Indices : PassStep(i)
  \/ \E t \in Threads, op \in Calls, a \in Actors : OutsideCall(t, op, a)

(* The logic threads wake every 33 ms and finish their passes; a thread    *)
(* that waits for a lock gets it if it is free again and again.  Nobody    *)
(* has to call the registry.                                               *)
RegistrySpec ==
  /\ RegistryInit
  /\ [][RegistryNext]_registryVars
  /\ \A t \in Threads : SF_registryVars(CallStep(t))
  /\ \A i \in Indices : SF_registryVars(PassStep(i))

----------------------------------------------------------------------------
(* A set of threads each of which is kept waiting by one of them.          *)
Deadlock(D) == D # {} /\ \A t \in D : \E u \in D : Blocks(u, t)
Deadlocked == \E D \in SUBSET Threads : Deadlock(D)

RegistryTypeOK ==
  /\ nonNetworkActorMap \subseteq Actors
  /\ created \in [Actors -> Nat] /\ destroyed \in [Actors -> Nat]
  /\ at \in [Threads -> [pc : {"idle", "lock", "locked", "pass"},
                         op : Calls \cup {"none", "pass"},
                         a : Actors \cup {None}]]
  /\ held \in [Threads -> SUBSET [i : Indices, mode : {"shared", "unique"}]]
  /\ inPass \subseteq Indices
  /\ todo \in [Indices -> SUBSET Actors]

(* A thread holds the lock of the call it is in and no other, a pass holds *)
(* its own, and nobody changes the map of an index under its pass.         *)
InPlace(t) ==
  /\ held[t] = IF at[t].pc = "locked" THEN {[i |-> Lock(t), mode |-> Mode(t)]} ELSE {}
  /\ at[t].pc = "locked" => at[t].op \in Calls
  /\ at[t].pc = "lock" => at[t].op \in Calls \cup {"pass"}
  /\ at[t].op \in Calls => at[t].a \in Actors
  /\ at[t].op = "pass" => t \in Indices
  /\ at[t].pc = "pass" => at[t].op = "pass" /\ t \in inPass
  /\ at[t].pc = "idle" => at[t].op = "none"
  /\ t \in inPass => at[t].pc = "pass" \/ at[t].op \in Calls
  /\ at[t].pc = "locked" /\ Exclusive(t) => Lock(t) \notin inPass

LocksInPlace ==
  /\ \A t \in Threads : InPlace(t)
  /\ \A i \in Indices : todo[i] # {} => i \in inPass

(* An actor in a map has been created, and destroyed less often.           *)
CreatedFirst ==
  /\ \A a \in Actors : destroyed[a] <= created[a]
  /\ \A a \in nonNetworkActorMap : destroyed[a] < created[a]

(* What a pass has still to visit is in the map: no timer runs before      *)
(* OnActorCreated has returned or after OnActorDestroyed has begun.        *)
PassSeesMap ==
  \A i \in Indices : todo[i] \subseteq {a \in nonNetworkActorMap : IndexOf(a) = i}

(* The registry's state and its locks agree, through every interleaving of *)
(* calls and passes: the unique lock of Register- and Unregister-          *)
(* NonNetworkActor keeps the map of an index, and the callbacks of its     *)
(* actors, out of a pass over it.                                          *)
RegistryInv == RegistryTypeOK /\ LocksInPlace /\ CreatedFirst /\ PassSeesMap

(* Other threads can call the registry at any time: whenever threads       *)
(* wait for each other, one of them is a logic thread whose timer called   *)
(* the registry inside a pass (ServerCore.cpp:617, 631 and 656 under the   *)
(* shared lock of On-, Pre- and PostWakeLogicThread).                      *)
DeadlockNeedsAPass ==
  \A D \in SUBSET Threads : Deadlock(D) => D \cap inPass # {}

(* Every call of the registry returns and every pass gets its lock, unless *)
(* there is such a deadlock.                                               *)
CallsReturnUnlessDeadlocked ==
  \A t \in Threads : (at[t].pc = "lock") ~> (at[t].pc # "lock" \/ Deadlocked)
============================================================================
