---------------------------- MODULE AtomicCommit ----------------------------
(***************************************************************************)
(* What a mediator promises the participants of its transactions: of one   *)
(* transaction, either everybody may come to hold the result or everybody  *)
(* may come to drop it, never some of each.                                *)
(*                                                                         *)
(* Mediator.tla implements this module.                                    *)
(***************************************************************************)
CONSTANTS Transactions, Participants

VARIABLES members, \* members[t]: who takes part in t, {} before t starts
          stage    \* stage[t][p]: how far p has come with t

atomicVars == <<members, stage>>

Init ==
  /\ members = [t \in Transactions |-> {}]
  /\ stage = [t \in Transactions |-> [p \in Participants |-> "undecided"]]

Begin(t, ps) ==
  /\ members[t] = {}
  /\ members' = [members EXCEPT ![t] = ps]
  /\ UNCHANGED stage

Move(t, p, new) ==
  /\ stage' = [stage EXCEPT ![t][p] = new]
  /\ UNCHANGED members

(* A participant makes up its own mind ...                                 *)
Promise(t, p) == stage[t][p] = "undecided" /\ Move(t, p, "promised")
Refuse(t, p)  == stage[t][p] = "undecided" /\ Move(t, p, "dropped")

(* ... may keep the result once all others have promised or kept it ...    *)
Keep(t, p) ==
  /\ stage[t][p] = "promised"
  /\ \A q \in members[t] : stage[t][q] \in {"promised", "kept"}
  /\ Move(t, p, "kept")

(* ... and may drop it while nobody has kept it.                           *)
Drop(t, p) ==
  /\ stage[t][p] = "promised"
  /\ \A q \in members[t] : stage[t][q] # "kept"
  /\ Move(t, p, "dropped")

Next ==
  \E t \in Transactions :
    \/ \E ps \in SUBSET Participants : Begin(t, ps)
    \/ \E p \in members[t] :
         Promise(t, p) \/ Refuse(t, p) \/ Keep(t, p) \/ Drop(t, p)

Spec == Init /\ [][Next]_atomicVars
============================================================================
