------------------------------ MODULE Mailbox ------------------------------
(***************************************************************************)
(* What an actor promises to the threads that call SendMessage: one FIFO   *)
(* queue.  A message is admitted while the mailbox is open, is queued some *)
(* time later, and is handled exactly once, in queue order.  Closing ends  *)
(* admission; it does not recall what was already admitted.                *)
(*                                                                         *)
(* Actor.tla, with its two queues and its swap, implements this module.    *)
(***************************************************************************)
EXTENDS Sequences

CONSTANT Messages   \* every message any thread may send

VARIABLES admitted, \* messages past the isStop check, not queued yet
          queue,    \* messages queued, oldest first
          log,      \* messages handled, in the order they were handled
          closed    \* Stop() was called

mailboxVars == <<admitted, queue, log, closed>>

Init ==
  /\ admitted = {}
  /\ queue = << >>
  /\ log = << >>
  /\ closed = FALSE

Admit(m) ==
  /\ ~closed
  /\ admitted' = admitted \cup {m}
  /\ UNCHANGED <<queue, log, closed>>

Enqueue(m) ==
  /\ m \in admitted
  /\ admitted' = admitted \ {m}
  /\ queue' = Append(queue, m)
  /\ UNCHANGED <<log, closed>>

Handle ==
  /\ queue # << >>
  /\ log' = Append(log, Head(queue))
  /\ queue' = Tail(queue)
  /\ UNCHANGED <<admitted, closed>>

Close ==
  /\ closed' = TRUE
  /\ UNCHANGED <<admitted, queue, log>>

Next ==
  \/ \E m \in Messages : Admit(m) \/ Enqueue(m)
  \/ Handle
  \/ Close

(* An open mailbox keeps handling; an admitted message is always queued.   *)
Spec ==
  /\ Init
  /\ [][Next]_mailboxVars
  /\ \A m \in Messages : WF_mailboxVars(Enqueue(m))
  /\ WF_mailboxVars(~closed /\ Handle)
============================================================================
