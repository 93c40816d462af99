----------------------------- MODULE Connection -----------------------------
(***************************************************************************)
(* What the server promises each of its connections.  A session is opened  *)
(* once and counted as a user; it starts to listen once, while it is open, *)
(* and once it has stopped it never does again; its handlers run only      *)
(* while it is open; it leaves its map only while none of them runs, is    *)
(* closed once, and is gone for good.                                      *)
(*                                                                         *)
(* SessionLifecycle.tla implements this module.                            *)
(***************************************************************************)
EXTENDS Integers

CONSTANT Sessions

VARIABLES stage,   \* stage[s]: how far s has come
          hears,   \* hears[s]: whether bytes of s are received
          served,  \* sessions whose handlers may run now
          users    \* the number of sessions that are open

connectionVars == <<stage, hears, served, users>>

Init ==
  /\ stage = [s \in Sessions |-> "none"]
  /\ hears = [s \in Sessions |-> "not yet"]
  /\ served = {}
  /\ users = 0

Advance(s, from, to) ==
  /\ stage[s] = from
  /\ stage' = [stage EXCEPT ![s] = to]
  /\ UNCHANGED hears

Create(s) == Advance(s, "none", "new") /\ UNCHANGED <<served, users>>

Open(s) == Advance(s, "new", "open") /\ users' = users + 1 /\ UNCHANGED served

(* The first receive may fail: then nothing is ever heard of the session.  *)
Listen(s) ==
  /\ stage[s] = "open"
  /\ hears[s] = "not yet"
  /\ \E now \in {"yes", "no more"} : hears' = [hears EXCEPT ![s] = now]
  /\ UNCHANGED <<stage, served, users>>

StopListening(s) ==
  /\ hears[s] = "yes"
  /\ hears' = [hears EXCEPT ![s] = "no more"]
  /\ UNCHANGED <<stage, served, users>>

(* The handlers of all open sessions run in one pass, in any order.        *)
StartPass ==
  /\ served = {}
  /\ served' = {s \in Sessions : stage[s] = "open"}
  /\ UNCHANGED <<stage, hears, users>>

Leave(s) ==
  /\ s \in served
  /\ served' = served \ {s}
  /\ UNCHANGED <<stage, hears, users>>

Erase(s) ==
  /\ s \notin served
  /\ Advance(s, "open", "erased")
  /\ users' = users - 1
  /\ UNCHANGED served

Close(s) == Advance(s, "erased", "closed") /\ UNCHANGED <<served, users>>

Next ==
  \/ \E s \in Sessions :
       \/ Create(s) \/ Open(s) \/ Listen(s) \/ StopListening(s)
       \/ Leave(s) \/ Erase(s) \/ Close(s)
  \/ StartPass

Spec == Init /\ [][Next]_connectionVars
============================================================================
