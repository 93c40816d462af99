------------------------------ MODULE Mediator ------------------------------
(***************************************************************************)
(* MediatorBase: the two-phase commit coordinator of ContentsServer, with  *)
(* TradeMediator::RequestTrade on top of it.                               *)
(*                                                                         *)
(* The mediator runs on one logic thread and its handlers do not yield:    *)
(* each is one action.  Time is abstract: the timeout of an active         *)
(* transaction may pass at any moment, and OnTimer() rolls back what has   *)
(* timed out.                                                              *)
(*                                                                         *)
(* External: the derived class and the participants, as README.md:212 and  *)
(* MediatorBase.h:66-77 have them.  OnTransactionStarted() sends the       *)
(* prepare requests, a participant answers each with one vote, requests    *)
(* and votes arrive in any order, later than anything, or after the        *)
(* transaction is gone.                                                    *)
(***************************************************************************)
EXTENDS Integers, Sequences, FiniteSets

CONSTANTS Participants,
          LastId        \* bound: the last transaction id handed out

ASSUME MediatorAssumption == LastId \in Nat

(* ++transactionIdGenerator starts from 1.                                 *)
Transactions == 2 .. LastId

VARIABLES transactionIdGenerator,
          activeTransactions,
          participants, \* participants[t]: the map of t; empty before and after
          timedOut,     \* active transactions older than their timeout
          members,      \* history: who took part in t
          outcome,      \* history: the outcome callbacks made for t
          requests,     \* prepare, commit and rollback requests on their way
          votes,        \* OnParticipantReady calls on their way
          stateOf       \* stateOf[t][p]: the participant's own view of t

mediator == <<transactionIdGenerator, activeTransactions, participants,
              timedOut, members, outcome>>
network == <<requests, votes>>
vars == <<mediator, network, stateOf>>

Request(kind, t, p) == [kind |-> kind, t |-> t, p |-> p]
Vote(t, p, success) == [t |-> t, p |-> p, success |-> success]
NoParticipants == [p \in {} |-> "WAITING"]

Init ==
  /\ transactionIdGenerator = 1
  /\ activeTransactions = {}
  /\ participants = [t \in Transactions |-> NoParticipants]
  /\ timedOut = {}
  /\ members = [t \in Transactions |-> {}]
  /\ outcome = [t \in Transactions |-> << >>]
  /\ requests = {}
  /\ votes = {}
  /\ stateOf = [t \in Transactions |-> [p \in Participants |-> "idle"]]

----------------------------------------------------------------------------
(* StartTransaction, up to the virtual OnTransactionStarted(), which asks  *)
(* the participants in asked to prepare.                                   *)
Begin(ps, asked) ==
  LET t == transactionIdGenerator + 1 IN
  /\ t \in Transactions
  /\ transactionIdGenerator' = t
  /\ activeTransactions' = activeTransactions \cup {t}
  /\ participants' = [participants EXCEPT ![t] = [p \in ps |-> "WAITING"]]
  /\ members' = [members EXCEPT ![t] = ps]
  /\ requests' = requests \cup {Request("prepare", t, p) : p \in asked}
  /\ UNCHANGED <<timedOut, outcome, votes, stateOf>>

StartTransaction(ps) == Begin(ps, ps)

(* RequestTrade: FindActor<Player>(id, false) searches nonNetworkActorMap  *)
(* and casts to Player, a Session: nullptr.  It returns false and the      *)
(* transaction stays.                                                      *)
RequestTrade(buyer, seller) == Begin({buyer, seller}, {})

(* What commit and rollback have in common: the outcome callback and the   *)
(* erase from activeTransactions.                                          *)
Finish(ts, callback) ==
  /\ activeTransactions' = activeTransactions \ ts
  /\ timedOut' = timedOut \ ts
  /\ participants' = [t \in Transactions |->
                        IF t \in ts THEN NoParticipants ELSE participants[t]]
  /\ outcome' = [t \in Transactions |->
                   IF t \in ts THEN Append(outcome[t], callback) ELSE outcome[t]]

AllParticipantsPrepared(states) ==
  \A p \in DOMAIN states : states[p] = "PREPARED"

(* Mutant of RollbackRequests: everybody is told, whether they voted or not*)
RollbackRequestsAll(t, states) == {Request("rollback", t, p) : p \in DOMAIN states}

(* CommitTransaction asks every participant; RollbackTransaction asks      *)
(* those that have voted yes.                                              *)
CommitRequests(t, states) == {Request("commit", t, p) : p \in DOMAIN states}

RollbackRequests(t, states) ==
  {Request("rollback", t, p) : p \in {q \in DOMAIN states : states[q] = "PREPARED"}}

(* Mutant of Ready: a no is recorded, the rollback is left to the timer.    *)
ReadyOnlyMarksFailed(t, p, success) ==
  LET states == [participants[t] EXCEPT ![p] = IF success THEN "PREPARED" ELSE "FAILED"]
  IN
  IF success /\ AllParticipantsPrepared(states)
  THEN /\ requests' = requests \cup CommitRequests(t, states)
       /\ Finish({t}, "completed")
  ELSE /\ participants' = [participants EXCEPT ![t] = states]
       /\ UNCHANGED <<activeTransactions, timedOut, outcome, requests>>

(* OnParticipantReady of a known participant of an active transaction: the *)
(* last yes commits, a no rolls back.                                      *)
Ready(t, p, success) ==
  LET states == [participants[t] EXCEPT ![p] = IF success THEN "PREPARED" ELSE "FAILED"]
  IN
  IF ~success
  THEN /\ requests' = requests \cup RollbackRequests(t, states)
       /\ Finish({t}, "failed")
  ELSE IF AllParticipantsPrepared(states)
  THEN /\ requests' = requests \cup CommitRequests(t, states)
       /\ Finish({t}, "completed")
  ELSE /\ participants' = [participants EXCEPT ![t] = states]
       /\ UNCHANGED <<activeTransactions, timedOut, outcome, requests>>

(* A vote arrives; one for a transaction that is gone changes nothing.     *)
OnParticipantReady(v) ==
  /\ v \in votes
  /\ votes' = votes \ {v}
  /\ IF v.t \in activeTransactions /\ v.p \in DOMAIN participants[v.t]
     THEN Ready(v.t, v.p, v.success)
     ELSE UNCHANGED <<activeTransactions, participants, timedOut, outcome, requests>>
  /\ UNCHANGED <<transactionIdGenerator, members, stateOf>>

(* Mutant of OnTimer: a transaction nobody has voted on has nothing to roll *)
(* back and is left alone.                                                 *)
OnTimerSkipsUnvoted ==
  LET ts == {t \in timedOut : \E p \in DOMAIN participants[t] :
                                participants[t][p] = "PREPARED"} IN
  /\ ts # {}
  /\ requests' = requests \cup
       (UNION {RollbackRequests(t, participants[t]) : t \in ts})
  /\ Finish(ts, "failed")
  /\ UNCHANGED <<transactionIdGenerator, members, votes, stateOf>>

(* OnTimer: every transaction past its timeout is rolled back.             *)
OnTimer ==
  /\ timedOut # {}
  /\ requests' = requests \cup
       (UNION {RollbackRequests(t, participants[t]) : t \in timedOut})
  /\ Finish(timedOut, "failed")
  /\ UNCHANGED <<transactionIdGenerator, members, votes, stateOf>>

(* now - startTime > timeout becomes true.                                 *)
TimePasses(t) ==
  /\ t \in activeTransactions \ timedOut
  /\ timedOut' = timedOut \cup {t}
  /\ UNCHANGED <<transactionIdGenerator, activeTransactions, participants,
                 members, outcome, network, stateOf>>

----------------------------------------------------------------------------
(* The participants.                                                       *)
Prepare(r, success) ==
  /\ r \in requests
  /\ r.kind = "prepare"
  /\ requests' = requests \ {r}
  /\ votes' = votes \cup {Vote(r.t, r.p, success)}
  /\ stateOf' = [stateOf EXCEPT ![r.t][r.p] = IF success THEN "ready" ELSE "refused"]
  /\ UNCHANGED mediator

Learn(r) ==
  /\ r \in requests
  /\ r.kind \in {"commit", "rollback"}
  /\ requests' = requests \ {r}
  /\ stateOf' = [stateOf EXCEPT ![r.t][r.p] =
                   IF r.kind = "commit" THEN "committed" ELSE "rolledback"]
  /\ UNCHANGED <<mediator, votes>>

----------------------------------------------------------------------------
Next ==
  \/ \E ps \in SUBSET Participants : StartTransaction(ps)
  \/ \E buyer, seller \in Participants : RequestTrade(buyer, seller)
  \/ \E v \in votes : OnParticipantReady(v)
  \/ \E t \in Transactions : TimePasses(t)
  \/ OnTimer
  \/ \E r \in requests : (\E success \in BOOLEAN : Prepare(r, success)) \/ Learn(r)

(* The logic loop calls OnTimer() every 33 ms, time passes, and a request  *)
(* the mediator has sent is handled; a vote need never come.               *)
Spec ==
  /\ Init
  /\ [][Next]_vars
  /\ WF_vars(OnTimer)
  /\ \A t \in Transactions : WF_vars(TimePasses(t))
  /\ WF_vars(\E r \in requests : Learn(r))

----------------------------------------------------------------------------
Started == 2 .. transactionIdGenerator

TypeOK ==
  /\ transactionIdGenerator \in Nat \ {0}
  /\ activeTransactions \subseteq Transactions
  /\ timedOut \subseteq activeTransactions
  /\ members \in [Transactions -> SUBSET Participants]
  /\ outcome \in [Transactions -> {<< >>, <<"completed">>, <<"failed">>}]
  /\ requests \subseteq [kind : {"prepare", "commit", "rollback"},
                         t : Transactions, p : Participants]
  /\ votes \subseteq [t : Transactions, p : Participants, success : BOOLEAN]
  /\ stateOf \in [Transactions ->
       [Participants -> {"idle", "ready", "refused", "committed", "rolledback"}]]

(* Only an active transaction has participants in its table, and one is    *)
(* PREPARED there only after a yes.                                        *)
TablesAgree ==
  /\ participants = [t \in Transactions |-> participants[t]]
  /\ \A t \in Transactions :
       /\ t \notin Started => members[t] = {} /\ t \notin activeTransactions
       /\ participants[t] \in [IF t \in activeTransactions THEN members[t] ELSE {}
                                 -> {"WAITING", "PREPARED"}]
       /\ \A p \in DOMAIN participants[t] :
            participants[t][p] = "PREPARED" => stateOf[t][p] = "ready"

(* A participant that a commit or rollback request is on its way to waits   *)
(* for it, and the request says what the outcome was.                       *)
RequestsAgree ==
  \A r \in requests :
    /\ r.p \in members[r.t]
    /\ stateOf[r.t][r.p] = IF r.kind = "prepare" THEN "idle" ELSE "ready"
    /\ r.kind = "commit" => outcome[r.t] = <<"completed">>
    /\ r.kind = "rollback" => outcome[r.t] = <<"failed">>

(* A vote on its way is the only message between its sender and the         *)
(* mediator, who has not counted it.                                        *)
VotesAgree ==
  \A v \in votes :
    /\ v.p \in members[v.t]
    /\ stateOf[v.t][v.p] = IF v.success THEN "ready" ELSE "refused"
    /\ v.t \in activeTransactions => participants[v.t][v.p] = "WAITING"
    /\ \A r \in requests : <<r.t, r.p>> # <<v.t, v.p>>

(* What the participants have learnt is the outcome, and a completed        *)
(* transaction has the promise of every member.                             *)
OutcomesAgree ==
  \A t \in Transactions, p \in Participants :
    /\ p \notin members[t] => stateOf[t][p] = "idle"
    /\ stateOf[t][p] = "committed" => outcome[t] = <<"completed">>
    /\ stateOf[t][p] = "rolledback" => outcome[t] = <<"failed">>
    /\ outcome[t] = <<"completed">> /\ p \in members[t] =>
         stateOf[t][p] \in {"ready", "committed"}

(* A transaction ends once: a late vote, a second no, or a timeout that    *)
(* races with the last vote never makes a second outcome callback, and one *)
(* that was made has the transaction erased.                               *)
OneOutcome ==
  \A t \in Transactions :
    Len(outcome[t]) = IF t \in Started \ activeTransactions THEN 1 ELSE 0

(* The inductive invariant: how the mediator's tables, the messages on     *)
(* their way and the participants' own states go together.                 *)
MediatorInv ==
  /\ TypeOK
  /\ TablesAgree
  /\ OneOutcome
  /\ RequestsAgree
  /\ VotesAgree
  /\ OutcomesAgree

(* SendCommitRequest goes out only when every participant of the           *)
(* transaction has promised; a promise is not taken back by then.          *)
CommitsUnanimously ==
  \A t \in Transactions, p \in Participants :
    Request("commit", t, p) \in requests \/ stateOf[t][p] = "committed" =>
      \A q \in members[t] : stateOf[t][q] \in {"ready", "committed"}

(* No transaction stays in activeTransactions: votes may be lost, but      *)
(* OnTimer() gets to it.                                                   *)
TransactionsEnd ==
  \A t \in Transactions :
    t \in activeTransactions ~> t \notin activeTransactions

(* The mediator and its participants implement atomic commitment.          *)
StageOf(state) ==
  IF state = "idle" THEN "undecided"
  ELSE IF state = "ready" THEN "promised"
  ELSE IF state = "committed" THEN "kept"
  ELSE "dropped"

Atomic == INSTANCE AtomicCommit WITH
  stage <- [t \in Transactions |-> [p \in Participants |-> StageOf(stateOf[t][p])]]

ImplementsAtomicCommit == Atomic!Spec
============================================================================
