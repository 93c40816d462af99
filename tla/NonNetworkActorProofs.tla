----------------------- MODULE NonNetworkActorProofs ------------------------
(***************************************************************************)
(* Proofs about the actors that are not sessions, for any number of        *)
(* threads, actors, participants and transactions.  Of Mediator: its       *)
(* invariant, the properties that follow from it, and that it implements   *)
(* AtomicCommit.  Of Registry: its invariant, and who takes part in a      *)
(* deadlock.                                                               *)
(***************************************************************************)
EXTENDS Mediator, Registry, TLAPS

----------------------------------------------------------------------------
(* Mediator.                                                               *)

(* The first state has no transactions, no messages and idle participants. *)
LEMMA InitInv == Init => MediatorInv
<1> SUFFICES ASSUME Init PROVE MediatorInv
  OBVIOUS
<1> USE DEF Init
<1>1. TypeOK
  BY DEF TypeOK
<1>2. TablesAgree
  BY DEF TablesAgree, NoParticipants, Started, Transactions
<1>3. OneOutcome
  BY DEF OneOutcome, Started, Transactions
<1>4. RequestsAgree /\ VotesAgree
  BY DEF RequestsAgree, VotesAgree
<1>5. OutcomesAgree
  BY DEF OutcomesAgree
<1> QED
  BY <1>1, <1>2, <1>3, <1>4, <1>5 DEF MediatorInv

(* What OneOutcome says, without the length.                               *)
LEMMA OutcomeLength ==
  ASSUME NEW o \in {<< >>, <<"completed">>, <<"failed">>}
  PROVE  /\ Len(o) = 0 <=> o = << >>
         /\ Len(o) = 1 <=> o # << >>
<1>1. Len(<< >>) = 0 /\ Len(<<"completed">>) = 1 /\ Len(<<"failed">>) = 1
  OBVIOUS
<1>2. <<"completed">> # << >> /\ <<"failed">> # << >>
  BY <1>1
<1> QED
  BY <1>1, <1>2

Over(t) == t \in Started \ activeTransactions

LEMMA OutcomeOver ==
  ASSUME TypeOK
  PROVE  OneOutcome <=> \A t \in Transactions : outcome[t] # << >> <=> Over(t)
BY OutcomeLength DEF TypeOK, OneOutcome, Over

LEMMA OutcomeOverNext ==
  ASSUME TypeOK'
  PROVE  OneOutcome' <=> \A t \in Transactions : outcome'[t] # << >> <=> Over(t)'
BY OutcomeLength DEF TypeOK, OneOutcome, Over

(* StartTransaction and RequestTrade: a new id, nothing of which has been  *)
(* heard before.                                                           *)
LEMMA BeginInv ==
  ASSUME MediatorInv, NEW ps \in SUBSET Participants, NEW asked \in SUBSET ps,
         Begin(ps, asked)
  PROVE  MediatorInv'
<1> PICK t \in Transactions : t = transactionIdGenerator + 1
  BY DEF Begin
<1>1. t \notin Started /\ t \notin activeTransactions /\ members[t] = {}
        /\ transactionIdGenerator \in Nat \ {0}
  BY DEF Begin, MediatorInv, TypeOK, TablesAgree, Started, Transactions
<1>2. outcome[t] = << >>
  BY <1>1, OutcomeOver DEF MediatorInv, Over
<1>3. \A r \in requests : r.t # t
  BY <1>1 DEF MediatorInv, RequestsAgree
<1>4. \A v \in votes : v.t # t
  BY <1>1 DEF MediatorInv, VotesAgree
<1>5. \A p \in Participants : stateOf[t][p] = "idle"
  BY <1>1 DEF MediatorInv, OutcomesAgree
<1>6. TypeOK'
  BY <1>1 DEF MediatorInv, TypeOK, Begin, Request
<1>7. Started' = Started \cup {t}
  BY <1>1 DEF Started, Begin
<1>8. \A u \in Transactions : Over(u)' <=> Over(u)
  BY <1>1, <1>7 DEF Over, Begin, MediatorInv, TypeOK
<1>9. OneOutcome'
  BY <1>6, <1>8, OutcomeOver, OutcomeOverNext DEF MediatorInv, Begin
<1>10. TablesAgree'
  BY <1>1, <1>7 DEF MediatorInv, TablesAgree, TypeOK, Begin
<1>11. RequestsAgree'
  BY <1>1, <1>3, <1>5 DEF MediatorInv, RequestsAgree, TypeOK, Begin, Request
<1>12. VotesAgree'
  BY <1>1, <1>4 DEF MediatorInv, VotesAgree, TypeOK, Begin, Request
<1>13. OutcomesAgree'
  BY <1>1, <1>2, <1>5 DEF MediatorInv, OutcomesAgree, TypeOK, Begin
<1> QED
  BY <1>6, <1>9, <1>10, <1>11, <1>12, <1>13 DEF MediatorInv

(* What Finish does to the tables: the transactions in ts are over.        *)
LEMMA FinishTables ==
  ASSUME MediatorInv, NEW ts \in SUBSET activeTransactions,
         NEW callback \in {"completed", "failed"}, Finish(ts, callback),
         UNCHANGED <<transactionIdGenerator, members, stateOf>>,
         requests' \subseteq [kind : {"prepare", "commit", "rollback"},
                              t : Transactions, p : Participants],
         votes' \subseteq votes
  PROVE  /\ TypeOK' /\ TablesAgree' /\ OneOutcome'
         /\ \A t \in Transactions :
              /\ t \in ts => outcome[t] = << >> /\ outcome'[t] = <<callback>>
              /\ t \notin ts => outcome'[t] = outcome[t]
<1>1. \A t \in ts : t \in Transactions /\ t \in Started /\ ~Over(t)
  BY DEF MediatorInv, TypeOK, TablesAgree, Over
<1>2. \A t \in ts : outcome[t] = << >>
  BY <1>1, OutcomeOver DEF MediatorInv
<1>3. \A t \in Transactions :
        outcome'[t] = IF t \in ts THEN <<callback>> ELSE outcome[t]
  <2>1. Append(<< >>, callback) = <<callback>>
    OBVIOUS
  <2> QED
    BY <1>2, <2>1 DEF Finish
<1>4. TypeOK'
  <2>1. outcome' \in [Transactions -> {<< >>, <<"completed">>, <<"failed">>}]
    BY <1>3 DEF MediatorInv, TypeOK, Finish
  <2> QED
    BY <2>1 DEF MediatorInv, TypeOK, Finish
<1>5. TablesAgree'
  BY DEF MediatorInv, TypeOK, TablesAgree, Finish, NoParticipants, Started
<1>6. \A t \in Transactions : Over(t)' <=> Over(t) \/ t \in ts
  BY <1>1 DEF Over, Started, Finish
<1>7. OneOutcome'
  <2>1. <<callback>> # << >>
    BY OutcomeLength
  <2> QED
    BY <2>1, <1>3, <1>4, <1>6, OutcomeOver, OutcomeOverNext DEF MediatorInv
<1> QED
  BY <1>2, <1>3, <1>4, <1>5, <1>7

(* A rollback, of one transaction or of all that have timed out: fresh are *)
(* the requests to those that had voted yes.                               *)
LEMMA RollbackInv ==
  ASSUME MediatorInv, NEW ts \in SUBSET activeTransactions, Finish(ts, "failed"),
         UNCHANGED <<transactionIdGenerator, members, stateOf>>,
         NEW fresh, requests' = requests \cup fresh, votes' \subseteq votes,
         \A r \in fresh :
           /\ r \in [kind : {"rollback"}, t : ts, p : Participants]
           /\ r.p \in DOMAIN participants[r.t]
           /\ participants[r.t][r.p] = "PREPARED"
  PROVE  MediatorInv'
<1>1. ts \subseteq Transactions
  BY DEF MediatorInv, TypeOK
<1>2. \A r \in fresh : r.kind = "rollback" /\ r.t \in ts /\ r.p \in members[r.t]
                         /\ stateOf[r.t][r.p] = "ready"
  BY <1>1 DEF MediatorInv, TablesAgree
<1>3. /\ TypeOK' /\ TablesAgree' /\ OneOutcome'
      /\ \A t \in Transactions :
           /\ t \in ts => outcome[t] = << >> /\ outcome'[t] = <<"failed">>
           /\ t \notin ts => outcome'[t] = outcome[t]
  <2>1. requests' \subseteq [kind : {"prepare", "commit", "rollback"},
                             t : Transactions, p : Participants]
    BY <1>1 DEF MediatorInv, TypeOK
  <2> QED
    BY <2>1, FinishTables
<1>4. <<"completed">> # << >> /\ <<"failed">> # << >> /\ <<"failed">> # <<"completed">>
  BY OutcomeLength
<1>5. RequestsAgree'
  BY <1>1, <1>2, <1>3, <1>4 DEF MediatorInv, RequestsAgree, TypeOK
<1>6. VotesAgree'
  <2>1. \A v \in votes, r \in fresh : <<r.t, r.p>> # <<v.t, v.p>>
    BY DEF MediatorInv, VotesAgree
  <2> QED
    BY <2>1, <1>1 DEF MediatorInv, VotesAgree, TypeOK, Finish
<1>7. OutcomesAgree'
  BY <1>3, <1>4 DEF MediatorInv, OutcomesAgree
<1> QED
  BY <1>3, <1>5, <1>6, <1>7 DEF MediatorInv

(* A commit: every participant has voted yes, and nothing else is on its   *)
(* way between them and the mediator but their commit requests.            *)
LEMMA CommitInv ==
  ASSUME MediatorInv, NEW t \in activeTransactions, Finish({t}, "completed"),
         UNCHANGED <<transactionIdGenerator, members, stateOf>>,
         NEW fresh, requests' = requests \cup fresh, votes' \subseteq votes,
         fresh = {Request("commit", t, q) : q \in members[t]},
         \A q \in members[t] : stateOf[t][q] = "ready",
         \A v \in votes' : v.t # t
  PROVE  MediatorInv'
<1>1. t \in Transactions /\ members[t] \subseteq Participants
  BY DEF MediatorInv, TypeOK
<1>2. /\ TypeOK' /\ TablesAgree' /\ OneOutcome'
      /\ \A u \in Transactions :
           /\ u \in {t} => outcome[u] = << >> /\ outcome'[u] = <<"completed">>
           /\ u \notin {t} => outcome'[u] = outcome[u]
  <2>1. requests' \subseteq [kind : {"prepare", "commit", "rollback"},
                             t : Transactions, p : Participants]
    BY <1>1 DEF MediatorInv, TypeOK, Request
  <2> QED
    BY <2>1, FinishTables
<1>3. <<"completed">> # << >> /\ <<"failed">> # << >> /\ <<"failed">> # <<"completed">>
  BY OutcomeLength
<1>4. RequestsAgree'
  BY <1>1, <1>2, <1>3 DEF MediatorInv, RequestsAgree, TypeOK, Request
<1>5. VotesAgree'
  <2>1. \A v \in votes', r \in fresh : <<r.t, r.p>> # <<v.t, v.p>>
    BY DEF Request
  <2> QED
    BY <2>1, <1>1 DEF MediatorInv, VotesAgree, TypeOK, Finish
<1>6. OutcomesAgree'
  BY <1>1, <1>2, <1>3 DEF MediatorInv, OutcomesAgree
<1> QED
  BY <1>2, <1>4, <1>5, <1>6 DEF MediatorInv

(* A counted vote: the last yes commits, a no rolls back, any other yes    *)
(* makes its sender PREPARED.                                              *)
LEMMA ReadyInv ==
  ASSUME MediatorInv, NEW v \in votes, votes' = votes \ {v},
         v.t \in activeTransactions, Ready(v.t, v.p, v.success),
         UNCHANGED <<transactionIdGenerator, members, stateOf>>
  PROVE  MediatorInv'
<1> PICK t \in Transactions, p \in Participants, success \in BOOLEAN :
           v = [t |-> t, p |-> p, success |-> success]
  BY DEF MediatorInv, TypeOK
<1>1. t \in activeTransactions /\ p \in members[t]
        /\ participants[t] \in [members[t] -> {"WAITING", "PREPARED"}]
        /\ participants[t][p] = "WAITING"
        /\ stateOf[t][p] = IF success THEN "ready" ELSE "refused"
  BY DEF MediatorInv, VotesAgree, TablesAgree
<1>2. \A w \in votes' : w.t = t => w.p # p
  BY DEF MediatorInv, VotesAgree, TypeOK
<1> DEFINE states == [participants[t] EXCEPT ![p] = IF success THEN "PREPARED"
                                                              ELSE "FAILED"]
<1>3. CASE ~success
  <2>1. \A r \in RollbackRequests(t, states) :
          /\ r \in [kind : {"rollback"}, t : {t}, p : Participants]
          /\ r.p \in DOMAIN participants[r.t]
          /\ participants[r.t][r.p] = "PREPARED"
    BY <1>1, <1>3 DEF RollbackRequests, Request, MediatorInv, TypeOK
  <2>2. Finish({t}, "failed") /\ requests' = requests \cup RollbackRequests(t, states)
    BY <1>3 DEF Ready
  <2> QED
    BY <1>1, <2>1, <2>2, RollbackInv
<1>4. CASE success /\ AllParticipantsPrepared(states)
  <2>1. Finish({t}, "completed") /\ requests' = requests \cup CommitRequests(t, states)
    BY <1>4 DEF Ready
  <2>2. CommitRequests(t, states) = {Request("commit", t, q) : q \in members[t]}
    BY <1>1 DEF CommitRequests
  <2>3. \A q \in members[t] : q # p => participants[t][q] = "PREPARED"
    BY <1>1, <1>4 DEF AllParticipantsPrepared
  <2>4. \A q \in members[t] : stateOf[t][q] = "ready"
    BY <1>1, <1>4, <2>3 DEF MediatorInv, TablesAgree
  <2>5. \A w \in votes' : w.t # t
    BY <1>1, <1>2, <2>3 DEF MediatorInv, VotesAgree
  <2> QED
    BY <1>1, <2>1, <2>2, <2>4, <2>5, CommitInv
<1>5. CASE success /\ ~AllParticipantsPrepared(states)
  <2>1. participants' = [participants EXCEPT ![t] = states]
          /\ UNCHANGED <<activeTransactions, timedOut, outcome, requests>>
    BY <1>5 DEF Ready
  <2>2. states \in [members[t] -> {"WAITING", "PREPARED"}]
    BY <1>1, <1>5
  <2>3. TypeOK' /\ OneOutcome' /\ RequestsAgree' /\ OutcomesAgree'
    BY <2>1 DEF MediatorInv, TypeOK, OneOutcome, RequestsAgree, OutcomesAgree, Started
  <2>4. TablesAgree'
    <3>1. \A q \in members[t] : states[q] = "PREPARED" => stateOf[t][q] = "ready"
      BY <1>1, <1>5 DEF MediatorInv, TablesAgree
    <3>2. participants' = [u \in Transactions |-> IF u = t THEN states
                                                          ELSE participants[u]]
      BY <2>1 DEF MediatorInv, TablesAgree
    <3> HIDE DEF states
    <3> QED
      BY <1>1, <2>1, <2>2, <3>1, <3>2 DEF MediatorInv, TablesAgree, Started
  <2>5. VotesAgree'
    BY <1>1, <1>2, <2>1 DEF MediatorInv, VotesAgree, TypeOK, TablesAgree
  <2> QED
    BY <2>3, <2>4, <2>5 DEF MediatorInv
<1> QED
  BY <1>3, <1>4, <1>5

(* OnTimer rolls back all that have timed out.                             *)
LEMMA OnTimerInv == MediatorInv /\ OnTimer => MediatorInv'
<1> SUFFICES ASSUME MediatorInv, OnTimer PROVE MediatorInv'
  OBVIOUS
<1> DEFINE fresh == UNION {RollbackRequests(t, participants[t]) : t \in timedOut}
<1>1. timedOut \in SUBSET activeTransactions
  BY DEF MediatorInv, TypeOK
<1>2. \A t \in timedOut : DOMAIN participants[t] \subseteq Participants
  BY <1>1 DEF MediatorInv, TypeOK, TablesAgree
<1>3. ASSUME NEW r \in fresh
      PROVE  /\ r \in [kind : {"rollback"}, t : timedOut, p : Participants]
             /\ r.p \in DOMAIN participants[r.t]
             /\ participants[r.t][r.p] = "PREPARED"
  <2>1. PICK t \in timedOut : r \in RollbackRequests(t, participants[t])
    BY <1>3
  <2> QED
    BY <1>2, <2>1 DEF RollbackRequests, Request
<1>4. /\ Finish(timedOut, "failed") /\ requests' = requests \cup fresh
      /\ votes' \subseteq votes
      /\ UNCHANGED <<transactionIdGenerator, members, stateOf>>
  BY DEF OnTimer
<1> HIDE DEF fresh
<1> QED
  BY <1>1, <1>3, <1>4, RollbackInv

(* A participant prepares: it is idle, and its vote is the only message    *)
(* between it and the mediator.                                            *)
LEMMA PrepareInv ==
  ASSUME MediatorInv, NEW r \in requests, NEW success \in BOOLEAN, Prepare(r, success)
  PROVE  MediatorInv'
<1> PICK t \in Transactions, p \in Participants :
           r = [kind |-> "prepare", t |-> t, p |-> p]
  BY DEF MediatorInv, TypeOK, Prepare
<1> DEFINE new == IF success THEN "ready" ELSE "refused"
<1>1. p \in members[t] /\ stateOf[t][p] = "idle"
  BY DEF MediatorInv, RequestsAgree
<1>2. /\ UNCHANGED mediator
      /\ requests' = requests \ {r}
      /\ votes' = votes \cup {Vote(t, p, success)}
      /\ stateOf' = [stateOf EXCEPT ![t][p] = new]
  BY DEF Prepare
<1>3. \A u \in Transactions, q \in Participants :
        stateOf'[u][q] = IF u = t /\ q = p THEN new ELSE stateOf[u][q]
  BY <1>2 DEF MediatorInv, TypeOK
<1>4. \A s \in requests' : <<s.t, s.p>> # <<t, p>>
  BY <1>1, <1>2 DEF MediatorInv, RequestsAgree, TypeOK
<1>5. \A v \in votes : <<v.t, v.p>> # <<t, p>>
  BY <1>1 DEF MediatorInv, VotesAgree
<1>6. t \in activeTransactions => participants[t][p] = "WAITING"
  BY <1>1 DEF MediatorInv, TablesAgree
<1>7. TypeOK' /\ OneOutcome'
  BY <1>2 DEF MediatorInv, TypeOK, OneOutcome, Vote, mediator, Started
<1>8. TablesAgree'
  <2>1. ASSUME NEW u \in Transactions, NEW q \in DOMAIN participants[u],
               participants[u][q] = "PREPARED"
        PROVE  stateOf'[u][q] = "ready"
    BY <1>1, <1>3, <2>1 DEF MediatorInv, TablesAgree, TypeOK
  <2> QED
    BY <1>2, <2>1 DEF MediatorInv, TablesAgree, mediator, Started
<1>9. RequestsAgree'
  BY <1>2, <1>3, <1>4 DEF MediatorInv, RequestsAgree, TypeOK, mediator
<1>10. VotesAgree'
  <2>1. ASSUME NEW v \in votes
        PROVE  /\ v.p \in members'[v.t]
               /\ stateOf'[v.t][v.p] = IF v.success THEN "ready" ELSE "refused"
               /\ v.t \in activeTransactions' => participants'[v.t][v.p] = "WAITING"
               /\ \A s \in requests' : <<s.t, s.p>> # <<v.t, v.p>>
    BY <1>2, <1>3, <1>5 DEF MediatorInv, VotesAgree, TypeOK, mediator
  <2>2. LET v == Vote(t, p, success) IN
        /\ v.p \in members'[v.t]
        /\ stateOf'[v.t][v.p] = IF v.success THEN "ready" ELSE "refused"
        /\ v.t \in activeTransactions' => participants'[v.t][v.p] = "WAITING"
        /\ \A s \in requests' : <<s.t, s.p>> # <<v.t, v.p>>
    BY <1>1, <1>2, <1>3, <1>4, <1>6 DEF Vote, mediator
  <2> QED
    BY <1>2, <2>1, <2>2 DEF VotesAgree
<1>11. OutcomesAgree'
  BY <1>1, <1>2, <1>3 DEF MediatorInv, OutcomesAgree, mediator
<1> QED
  BY <1>7, <1>8, <1>9, <1>10, <1>11 DEF MediatorInv

(* A participant learns the outcome, which takes the last message there is *)
(* for it.                                                                 *)
LEMMA LearnInv ==
  ASSUME MediatorInv, NEW r \in requests, Learn(r)
  PROVE  MediatorInv'
<1> PICK t \in Transactions, p \in Participants, kind \in {"commit", "rollback"} :
           r = [kind |-> kind, t |-> t, p |-> p]
  BY DEF MediatorInv, TypeOK, Learn
<1> DEFINE new == IF kind = "commit" THEN "committed" ELSE "rolledback"
<1>1. /\ p \in members[t]
      /\ stateOf[t][p] = "ready"
      /\ outcome[t] = IF kind = "commit" THEN <<"completed">> ELSE <<"failed">>
  BY DEF MediatorInv, RequestsAgree
<1>2. /\ UNCHANGED <<mediator, votes>>
      /\ requests' = requests \ {r}
      /\ stateOf' = [stateOf EXCEPT ![t][p] = new]
  BY DEF Learn
<1>3. \A u \in Transactions, q \in Participants :
        stateOf'[u][q] = IF u = t /\ q = p THEN new ELSE stateOf[u][q]
  BY <1>2 DEF MediatorInv, TypeOK
<1>4. <<"completed">> # << >> /\ <<"failed">> # << >> /\ <<"failed">> # <<"completed">>
  BY OutcomeLength
<1>5. \A s \in requests' : <<s.t, s.p>> # <<t, p>>
  BY <1>1, <1>2, <1>4 DEF MediatorInv, RequestsAgree, TypeOK
<1>6. \A v \in votes : <<v.t, v.p>> # <<t, p>>
  BY DEF MediatorInv, VotesAgree
<1>7. t \notin activeTransactions
  BY <1>1, <1>4, OutcomeOver DEF MediatorInv, Over
<1>8. TypeOK' /\ OneOutcome'
  BY <1>2 DEF MediatorInv, TypeOK, OneOutcome, mediator, Started
<1>9. TablesAgree'
  <2>1. ASSUME NEW u \in Transactions, NEW q \in DOMAIN participants[u],
               participants[u][q] = "PREPARED"
        PROVE  stateOf'[u][q] = "ready"
    BY <1>3, <1>7, <2>1 DEF MediatorInv, TablesAgree, TypeOK
  <2> QED
    BY <1>2, <2>1 DEF MediatorInv, TablesAgree, mediator, Started
<1>10. RequestsAgree'
  BY <1>2, <1>3, <1>5 DEF MediatorInv, RequestsAgree, TypeOK, mediator
<1>11. VotesAgree'
  BY <1>2, <1>3, <1>6 DEF MediatorInv, VotesAgree, TypeOK, mediator
<1>12. OutcomesAgree'
  BY <1>1, <1>2, <1>3, <1>4 DEF MediatorInv, OutcomesAgree, mediator
<1> QED
  BY <1>8, <1>9, <1>10, <1>11, <1>12 DEF MediatorInv

LEMMA NextInv == MediatorInv /\ [Next]_vars => MediatorInv'
<1> SUFFICES ASSUME MediatorInv, [Next]_vars PROVE MediatorInv'
  OBVIOUS
<1>1. CASE \E ps \in SUBSET Participants : StartTransaction(ps)
  BY <1>1, BeginInv DEF StartTransaction
<1>2. CASE \E buyer, seller \in Participants : RequestTrade(buyer, seller)
  BY <1>2, BeginInv DEF RequestTrade
<1>3. ASSUME NEW v \in votes, OnParticipantReady(v) PROVE MediatorInv'
  <2>1. CASE v.t \in activeTransactions /\ v.p \in DOMAIN participants[v.t]
    BY <1>3, <2>1, ReadyInv DEF OnParticipantReady
  <2>2. CASE ~(v.t \in activeTransactions /\ v.p \in DOMAIN participants[v.t])
    <3>1. UNCHANGED <<transactionIdGenerator, activeTransactions, participants,
                      timedOut, members, outcome, requests, stateOf>>
            /\ votes' \subseteq votes
      BY <1>3, <2>2 DEF OnParticipantReady
    <3> QED
      BY <3>1 DEF MediatorInv, TypeOK, TablesAgree, OneOutcome, RequestsAgree,
         VotesAgree, OutcomesAgree, Started
  <2> QED
    BY <2>1, <2>2
<1>4. ASSUME NEW t \in Transactions, TimePasses(t) PROVE MediatorInv'
  BY <1>4 DEF TimePasses, network, MediatorInv, TypeOK, TablesAgree, OneOutcome,
     RequestsAgree, VotesAgree, OutcomesAgree, Started
<1>5. CASE OnTimer
  BY <1>5, OnTimerInv
<1>6. ASSUME NEW r \in requests, NEW success \in BOOLEAN, Prepare(r, success)
      PROVE  MediatorInv'
  BY <1>6, PrepareInv
<1>7. ASSUME NEW r \in requests, Learn(r) PROVE MediatorInv'
  BY <1>7, LearnInv
<1>8. CASE UNCHANGED vars
  BY <1>8 DEF vars, mediator, network, MediatorInv, TypeOK, TablesAgree, OneOutcome,
     RequestsAgree, VotesAgree, OutcomesAgree, Started
<1> QED
  BY <1>1, <1>2, <1>3, <1>4, <1>5, <1>6, <1>7, <1>8 DEF Next

(* The tables of the mediator, the messages on their way and what the      *)
(* participants know always agree (MediatorBase.cpp as a whole).           *)
THEOREM MediatorInvariant == Spec => []MediatorInv
BY InitInv, NextInv, PTL DEF Spec

(* Each transaction ends with one outcome callback, whatever races with    *)
(* its timeout.                                                            *)
THEOREM OneOutcomeHolds == Spec => []OneOutcome
<1>1. MediatorInv => OneOutcome
  BY DEF MediatorInv
<1> QED
  BY <1>1, MediatorInvariant, PTL

(* Commit requests go out, and are obeyed, only when every member of the   *)
(* transaction has promised.                                               *)
THEOREM CommitsUnanimouslyHolds == Spec => []CommitsUnanimously
<1>1. MediatorInv => CommitsUnanimously
  <2> SUFFICES ASSUME MediatorInv,
                      NEW t \in Transactions, NEW p \in Participants,
                      Request("commit", t, p) \in requests \/ stateOf[t][p] = "committed",
                      NEW q \in members[t]
               PROVE  stateOf[t][q] \in {"ready", "committed"}
    BY DEF CommitsUnanimously
  <2>1. outcome[t] = <<"completed">>
    BY DEF MediatorInv, RequestsAgree, OutcomesAgree, Request
  <2> QED
    BY <2>1 DEF MediatorInv, OutcomesAgree, TypeOK
<1> QED
  BY <1>1, MediatorInvariant, PTL
----------------------------------------------------------------------------
(* The refinement: what the participants' own states show.                 *)
StagesOf(states) ==
  [t \in Transactions |-> [p \in Participants |-> StageOf(states[t][p])]]

LEMMA InitRefines == Init => Atomic!Init
BY DEF Init, Atomic!Init, StageOf

LEMMA BeginRefines ==
  ASSUME MediatorInv, NEW ps \in SUBSET Participants, NEW asked, Begin(ps, asked)
  PROVE  Atomic!Next
<1> PICK t \in Transactions : t = transactionIdGenerator + 1
  BY DEF Begin
<1>1. members[t] = {} /\ members' = [members EXCEPT ![t] = ps]
  BY DEF Begin, MediatorInv, TypeOK, TablesAgree, Started, Transactions
<1>2. Atomic!Begin(t, ps)
  BY <1>1 DEF Atomic!Begin, Begin
<1> QED
  BY <1>2 DEF Atomic!Next

(* The table in which one entry of f is replaced.                          *)
LEMMA UpdateAt ==
  ASSUME NEW S, NEW T, NEW s \in S, NEW t \in T, NEW x,
         NEW f, f = [u \in S |-> [q \in T |-> f[u][q]]]
  PROVE  [f EXCEPT ![s][t] = x] =
           [u \in S |-> [q \in T |-> IF u = s /\ q = t THEN x ELSE f[u][q]]]
<1> DEFINE row(u) == [q \in T |-> IF u = s /\ q = t THEN x ELSE f[u][q]]
<1>1. [f[s] EXCEPT ![t] = x] = row(s)
  OBVIOUS
<1>2. ASSUME NEW u \in S, u # s PROVE f[u] = row(u)
  BY <1>2
<1>3. [f EXCEPT ![s][t] = x] = [u \in S |-> IF u = s THEN [f[s] EXCEPT ![t] = x]
                                                     ELSE f[u]]
  OBVIOUS
<1> HIDE DEF row
<1>4. [f EXCEPT ![s][t] = x] = [u \in S |-> row(u)]
  BY <1>1, <1>2, <1>3
<1> QED
  BY <1>4 DEF row

(* A participant that changes its mind moves one stage.                    *)
LEMMA StateMoves ==
  ASSUME MediatorInv, NEW t \in Transactions, NEW p \in Participants, NEW new,
         stateOf' = [stateOf EXCEPT ![t][p] = new], members' = members
  PROVE  Atomic!Move(t, p, StageOf(new))
<1>1. \A u \in Transactions, q \in Participants :
        stateOf'[u][q] = IF u = t /\ q = p THEN new ELSE stateOf[u][q]
  BY DEF MediatorInv, TypeOK
<1>2. StagesOf(stateOf') = [StagesOf(stateOf) EXCEPT ![t][p] = StageOf(new)]
  <2>1. StagesOf(stateOf) = [u \in Transactions |-> [q \in Participants |->
                              StagesOf(stateOf)[u][q]]]
    BY DEF StagesOf
  <2>2. \A u \in Transactions, q \in Participants :
          StagesOf(stateOf)[u][q] = StageOf(stateOf[u][q])
    BY DEF StagesOf
  <2>3. [StagesOf(stateOf) EXCEPT ![t][p] = StageOf(new)] =
          [u \in Transactions |-> [q \in Participants |->
             IF u = t /\ q = p THEN StageOf(new) ELSE StagesOf(stateOf)[u][q]]]
    BY ONLY <2>1, UpdateAt, t \in Transactions, p \in Participants
  <2> QED
    BY <1>1, <2>2, <2>3 DEF StagesOf
<1> QED
  BY <1>2 DEF Atomic!Move, StagesOf

(* A vote is a promise or a refusal ...                                    *)
LEMMA PrepareRefines ==
  ASSUME MediatorInv, NEW r \in requests, NEW success \in BOOLEAN, Prepare(r, success)
  PROVE  Atomic!Next
<1> PICK t \in Transactions, p \in Participants :
           r = [kind |-> "prepare", t |-> t, p |-> p]
  BY DEF MediatorInv, TypeOK, Prepare
<1>1. p \in members[t] /\ stateOf[t][p] = "idle"
  BY DEF MediatorInv, RequestsAgree
<1>2. Atomic!Move(t, p, StageOf(IF success THEN "ready" ELSE "refused"))
  BY StateMoves DEF Prepare, mediator
<1>3. Atomic!Promise(t, p) \/ Atomic!Refuse(t, p)
  BY <1>1, <1>2 DEF Atomic!Promise, Atomic!Refuse, StageOf
<1> QED
  BY <1>1, <1>3 DEF Atomic!Next

(* ... a commit keeps the result when all members have promised, and a     *)
(* rollback drops it when nobody has kept it.                              *)
LEMMA LearnRefines ==
  ASSUME MediatorInv, NEW r \in requests, Learn(r)
  PROVE  Atomic!Next
<1> PICK t \in Transactions, p \in Participants, kind \in {"commit", "rollback"} :
           r = [kind |-> kind, t |-> t, p |-> p]
  BY DEF MediatorInv, TypeOK, Learn
<1>1. p \in members[t] /\ stateOf[t][p] = "ready" /\ members[t] \subseteq Participants
  BY DEF MediatorInv, TypeOK, RequestsAgree
<1>2. Atomic!Move(t, p, StageOf(IF kind = "commit" THEN "committed" ELSE "rolledback"))
  BY StateMoves DEF Learn, mediator
<1>3. CASE kind = "commit"
  <2>1. \A q \in members[t] : stateOf[t][q] \in {"ready", "committed"}
    BY <1>1, <1>3 DEF MediatorInv, RequestsAgree, OutcomesAgree
  <2>2. Atomic!Keep(t, p)
    BY <1>1, <1>2, <1>3, <2>1 DEF Atomic!Keep, StageOf
  <2> QED
    BY <1>1, <2>2 DEF Atomic!Next
<1>4. CASE kind = "rollback"
  <2>1. outcome[t] = <<"failed">> /\ <<"failed">> # <<"completed">>
    BY <1>4, OutcomeLength DEF MediatorInv, RequestsAgree
  <2>2. \A q \in members[t] : stateOf[t][q] # "committed"
    BY <1>1, <2>1 DEF MediatorInv, OutcomesAgree
  <2>3. Atomic!Drop(t, p)
    BY <1>1, <1>2, <1>4, <2>2 DEF Atomic!Drop, StageOf
  <2> QED
    BY <1>1, <2>3 DEF Atomic!Next
<1> QED
  BY <1>3, <1>4

LEMMA NextRefines == MediatorInv /\ [Next]_vars => [Atomic!Next]_(Atomic!atomicVars)
<1> SUFFICES ASSUME MediatorInv, [Next]_vars
             PROVE  Atomic!Next \/ UNCHANGED Atomic!atomicVars
  OBVIOUS
<1>1. UNCHANGED <<members, stateOf>> => UNCHANGED Atomic!atomicVars
  BY DEF Atomic!atomicVars
<1>2. CASE \E ps \in SUBSET Participants : StartTransaction(ps)
  BY <1>2, BeginRefines DEF StartTransaction
<1>3. CASE \E buyer, seller \in Participants : RequestTrade(buyer, seller)
  BY <1>3, BeginRefines DEF RequestTrade
<1>4. CASE \E v \in votes : OnParticipantReady(v)
  BY <1>1, <1>4 DEF OnParticipantReady
<1>5. CASE \E t \in Transactions : TimePasses(t)
  BY <1>1, <1>5 DEF TimePasses
<1>6. CASE OnTimer
  BY <1>1, <1>6 DEF OnTimer
<1>7. CASE \E r \in requests : (\E success \in BOOLEAN : Prepare(r, success)) \/ Learn(r)
  BY <1>7, PrepareRefines, LearnRefines
<1>8. CASE UNCHANGED vars
  BY <1>1, <1>8 DEF vars, mediator
<1> QED
  BY <1>2, <1>3, <1>4, <1>5, <1>6, <1>7, <1>8 DEF Next

(* The mediator and its participants implement atomic commitment: nobody   *)
(* keeps the result of a transaction that somebody drops.                  *)
THEOREM ImplementsAtomicCommitHolds == Spec => ImplementsAtomicCommit
BY InitRefines, NextRefines, MediatorInvariant, PTL
   DEF Spec, ImplementsAtomicCommit, Atomic!Spec

----------------------------------------------------------------------------
(* Registry.                                                               *)

(* Every actor has an index, and every thread that wants a lock has one.   *)
LEMMA IndexOfIsIndex == \A a \in Actors : IndexOf(a) \in Indices
BY RegistryAssumption DEF IndexOf, Indices, Actors

LEMMA NoCallIsAPass == /\ "pass" \notin Calls /\ "none" \notin Calls
                       /\ "pass" # "none"
BY DEF Calls

LEMMA LockIsIndex ==
  ASSUME RegistryInv, NEW t \in Threads, at[t].pc \in {"lock", "locked"}
  PROVE  Lock(t) \in Indices
<1>1. at[t].op \in Calls \cup {"pass"}
  BY DEF RegistryInv, LocksInPlace, InPlace
<1> QED
  BY <1>1, IndexOfIsIndex, NoCallIsAPass DEF RegistryInv, LocksInPlace, InPlace, Lock

(* What one thread's step does to the places and the locks of the others.  *)
LEMMA Others ==
  ASSUME RegistryInv, NEW t \in Threads, NEW r,
         at' = [at EXCEPT ![t] = r]
  PROVE  /\ at'[t] = r
         /\ \A u \in Threads \ {t} : at'[u] = at[u]
         /\ \A u \in Threads \ {t} : /\ Lock(u)' = Lock(u)
                                     /\ Mode(u)' = Mode(u)
                                     /\ Exclusive(u)' <=> Exclusive(u)
<1>1. at'[t] = r /\ \A u \in Threads \ {t} : at'[u] = at[u]
  BY DEF RegistryInv, RegistryTypeOK
<1> QED
  BY <1>1 DEF Lock, Mode, Exclusive

(* A step of t leaves the others in their places, unless it begins a pass  *)
(* over a map that one of them is changing.                                *)
LEMMA OthersInPlace ==
  ASSUME RegistryInv, NEW t \in Threads, NEW r,
         at' = [at EXCEPT ![t] = r],
         \A u \in Threads \ {t} : held'[u] = held[u] /\ (u \in inPass' <=> u \in inPass),
         \A u \in Threads : at[u].pc = "locked" /\ Exclusive(u)
                              => Lock(u) \notin inPass' \/ Lock(u) \in inPass
  PROVE  \A u \in Threads \ {t} : InPlace(u)'
<1> SUFFICES ASSUME NEW u \in Threads \ {t} PROVE InPlace(u)'
  OBVIOUS
<1>1. InPlace(u)
  BY DEF RegistryInv, LocksInPlace, InPlace
<1>2. at'[u] = at[u]
  BY Others
<1>3. Lock(u)' = Lock(u) /\ Mode(u)' = Mode(u)
  BY Others
<1>4. Exclusive(u)' <=> Exclusive(u)
  BY Others
<1>5. held'[u] = held[u] /\ (u \in inPass' <=> u \in inPass)
  OBVIOUS
<1>6. at[u].pc = "locked" /\ Exclusive(u) => Lock(u) \notin inPass'
  BY <1>1 DEF InPlace
<1> QED
  BY <1>1, <1>2, <1>3, <1>4, <1>5, <1>6 DEF InPlace

(* The first state: no actors, no locks, everybody idle.                   *)
LEMMA RegistryInitInv == RegistryInit => RegistryInv
<1> SUFFICES ASSUME RegistryInit PROVE RegistryInv
  OBVIOUS
<1>1. RegistryTypeOK
  BY DEF RegistryInit, RegistryTypeOK, Idle, None
<1>2. LocksInPlace
  BY NoCallIsAPass DEF RegistryInit, LocksInPlace, InPlace, Idle
<1>3. CreatedFirst /\ PassSeesMap
  BY DEF RegistryInit, CreatedFirst, PassSeesMap
<1> QED
  BY <1>1, <1>2, <1>3 DEF RegistryInv

(* A thread asks for a lock.                                               *)
LEMMA AsksForLock ==
  ASSUME RegistryInv, NEW t \in Threads, NEW op \in Calls \cup {"pass"},
         NEW a \in Actors \cup {None},
         at' = [at EXCEPT ![t] = [pc |-> "lock", op |-> op, a |-> a]],
         op = "pass" => t \in Indices /\ t \notin inPass,
         op \in Calls => a \in Actors,
         at[t].pc \in {"idle", "pass"},
         UNCHANGED <<map, held, inPass>>,
         todo' \in [Indices -> SUBSET Actors],
         \A i \in Indices : todo'[i] \subseteq todo[i]
  PROVE  RegistryInv'
<1>1. RegistryTypeOK'
  BY DEF RegistryInv, RegistryTypeOK, map
<1>2. LocksInPlace'
  <2>1. \A u \in Threads \ {t} : InPlace(u)'
    BY OthersInPlace
  <2>2. at'[t] = [pc |-> "lock", op |-> op, a |-> a] /\ held'[t] = {}
    <3>1. at'[t] = [pc |-> "lock", op |-> op, a |-> a]
      BY Others
    <3> QED
      BY <3>1 DEF RegistryInv, LocksInPlace, InPlace
  <2>3. t \in inPass => op \in Calls
    OBVIOUS
  <2>4. InPlace(t)'
    BY <2>2, <2>3 DEF InPlace
  <2>5. \A i \in Indices : todo'[i] # {} => i \in inPass'
    BY DEF RegistryInv, LocksInPlace
  <2> QED
    BY <2>1, <2>4, <2>5 DEF LocksInPlace
<1>3. CreatedFirst' /\ PassSeesMap'
  BY DEF RegistryInv, CreatedFirst, PassSeesMap, map
<1> QED
  BY <1>1, <1>2, <1>3 DEF RegistryInv

LEMMA WakeLogicThreadInv ==
  ASSUME RegistryInv, NEW i \in Indices, WakeLogicThread(i)
  PROVE  RegistryInv'
<1>1. i \in Threads /\ at[i].pc = "idle"
  BY DEF Threads, WakeLogicThread
<1>2. i \notin inPass
  BY <1>1, NoCallIsAPass DEF RegistryInv, LocksInPlace, InPlace
<1> QED
  BY <1>1, <1>2, AsksForLock, NoCallIsAPass
  DEF WakeLogicThread, RegistryInv, RegistryTypeOK

LEMMA OutsideCallInv ==
  ASSUME RegistryInv, NEW t \in Threads, NEW op \in Calls, NEW a \in Actors,
         OutsideCall(t, op, a)
  PROVE  RegistryInv'
BY AsksForLock, NoCallIsAPass DEF OutsideCall, RegistryInv, RegistryTypeOK

(* A pass begins: the shared lock it gets is held by nobody uniquely.      *)
LEMMA StartPassInv ==
  ASSUME RegistryInv, NEW i \in Indices, StartPass(i)
  PROVE  RegistryInv'
<1>1. i \in Threads /\ Lock(i) = i
  BY DEF Threads, StartPass, Lock
<1>2. \A u \in Threads : ~(at[u].pc = "locked" /\ Exclusive(u) /\ Lock(u) = i)
  <2> SUFFICES ASSUME NEW u \in Threads, at[u].pc = "locked", Exclusive(u), Lock(u) = i
               PROVE  FALSE
    OBVIOUS
  <2>0. held[u] = {[i |-> Lock(u), mode |-> Mode(u)]} /\ Mode(u) = "unique"
    BY DEF RegistryInv, LocksInPlace, InPlace, Mode
  <2>1. [i |-> i, mode |-> "unique"] \in held[u]
    BY <2>0
  <2> QED
    BY <1>1, <2>1 DEF StartPass, CanLock, Blocks, HoldsUnique
<1>3. at' = [at EXCEPT ![i] = [at[i] EXCEPT !.pc = "pass"]]
  BY DEF StartPass
<1>4. RegistryTypeOK'
  BY <1>1, <1>3 DEF RegistryInv, RegistryTypeOK, StartPass, map
<1>5. LocksInPlace'
  <2>1. at'[i].pc = "pass" /\ at'[i].op = "pass" /\ held'[i] = {}
    BY <1>1, <1>3 DEF RegistryInv, RegistryTypeOK, LocksInPlace, InPlace, StartPass
  <2>2. InPlace(i)'
    BY <2>1, NoCallIsAPass DEF InPlace, StartPass
  <2>3. \A u \in Threads \ {i} : InPlace(u)'
    BY <1>1, <1>2, <1>3, OthersInPlace DEF StartPass
  <2>4. \A j \in Indices : todo'[j] # {} => j \in inPass'
    BY DEF RegistryInv, RegistryTypeOK, LocksInPlace, InPlace, StartPass
  <2> QED
    BY <2>2, <2>3, <2>4 DEF LocksInPlace, InPlace
<1>6. CreatedFirst' /\ PassSeesMap'
  BY DEF RegistryInv, RegistryTypeOK, CreatedFirst, PassSeesMap, StartPass, map
<1> QED
  BY <1>4, <1>5, <1>6 DEF RegistryInv

LEMMA VisitInv ==
  ASSUME RegistryInv, NEW i \in Indices, NEW a \in Actors, Visit(i, a)
  PROVE  RegistryInv'
<1>1. /\ i \in Threads
      /\ todo' \in [Indices -> SUBSET Actors]
      /\ \A j \in Indices : todo'[j] \subseteq todo[j]
  BY DEF Threads, Visit, RegistryInv, RegistryTypeOK
<1>2. CASE UNCHANGED at
  <2>1. RegistryTypeOK'
    BY <1>1, <1>2 DEF RegistryInv, RegistryTypeOK, Visit, map
  <2>2. LocksInPlace'
    BY <1>1, <1>2 DEF RegistryInv, LocksInPlace, InPlace, Visit, Lock, Mode, Exclusive
  <2>3. CreatedFirst' /\ PassSeesMap'
    BY <1>1 DEF RegistryInv, CreatedFirst, PassSeesMap, Visit, map
  <2> QED
    BY <2>1, <2>2, <2>3 DEF RegistryInv
<1>3. CASE \E op \in Calls, b \in Actors :
             at' = [at EXCEPT ![i] = [pc |-> "lock", op |-> op, a |-> b]]
  BY <1>1, <1>3, AsksForLock, NoCallIsAPass DEF Visit
<1> QED
  BY <1>2, <1>3 DEF Visit

LEMMA EndPassInv ==
  ASSUME RegistryInv, NEW i \in Indices, EndPass(i)
  PROVE  RegistryInv'
<1>1. i \in Threads /\ at[i].op = "pass"
  BY DEF Threads, EndPass, RegistryInv, LocksInPlace, InPlace
<1>2. RegistryTypeOK'
  BY <1>1 DEF RegistryInv, RegistryTypeOK, EndPass, map, Idle, None
<1>3. LocksInPlace'
  <2>1. at'[i] = Idle /\ held'[i] = {}
    BY <1>1, Others DEF RegistryInv, LocksInPlace, InPlace, EndPass
  <2>2. InPlace(i)'
    BY <2>1, NoCallIsAPass DEF InPlace, EndPass, Idle
  <2>3. \A u \in Threads \ {i} : InPlace(u)'
    BY <1>1, OthersInPlace DEF EndPass
  <2>4. \A j \in Indices : todo'[j] # {} => j \in inPass'
    BY DEF RegistryInv, LocksInPlace, EndPass
  <2> QED
    BY <2>2, <2>3, <2>4 DEF LocksInPlace
<1>4. CreatedFirst' /\ PassSeesMap'
  BY DEF RegistryInv, CreatedFirst, PassSeesMap, EndPass, map
<1> QED
  BY <1>2, <1>3, <1>4 DEF RegistryInv

(* A call gets its lock: if the unique one, no pass is on.                 *)
LEMMA TakeLockInv ==
  ASSUME RegistryInv, NEW t \in Threads, TakeLock(t)
  PROVE  RegistryInv'
<1>1. at' = [at EXCEPT ![t] = [at[t] EXCEPT !.pc = "locked"]]
  BY DEF TakeLock
<1>2. /\ at[t].op \in Calls /\ at[t].a \in Actors /\ held[t] = {}
      /\ Lock(t) \in Indices
  BY LockIsIndex DEF RegistryInv, LocksInPlace, InPlace, TakeLock
<1>3. /\ Lock(t)' = Lock(t) /\ Mode(t)' = Mode(t) /\ (Exclusive(t)' <=> Exclusive(t))
      /\ at'[t].pc = "locked" /\ at'[t].op = at[t].op /\ at'[t].a = at[t].a
  BY <1>1 DEF RegistryInv, RegistryTypeOK, Lock, Mode, Exclusive
<1>4. Mode(t) \in {"shared", "unique"}
  BY DEF Mode
<1>5. held'[t] = {[i |-> Lock(t), mode |-> Mode(t)]}
        /\ \A u \in Threads \ {t} : held'[u] = held[u]
  BY <1>2 DEF RegistryInv, RegistryTypeOK, TakeLock
<1>6. Exclusive(t) => Lock(t) \notin inPass
  <2> SUFFICES ASSUME Exclusive(t), Lock(t) \in inPass PROVE FALSE
    OBVIOUS
  <2>1. Lock(t) \in Threads /\ HoldsShared(Lock(t), Lock(t))
    BY <1>2 DEF Threads, HoldsShared
  <2> QED
    BY <2>1 DEF TakeLock, CanLock, Blocks
<1>7. RegistryTypeOK'
  BY <1>1, <1>2, <1>4 DEF RegistryInv, RegistryTypeOK, TakeLock, map
<1>8. LocksInPlace'
  <2>1. InPlace(t)
    BY DEF RegistryInv, LocksInPlace
  <2>2. InPlace(t)'
    BY <1>2, <1>3, <1>5, <1>6, <2>1, NoCallIsAPass DEF InPlace, TakeLock
  <2>3. \A u \in Threads \ {t} : InPlace(u)'
    BY <1>1, <1>5, OthersInPlace DEF TakeLock
  <2>4. \A i \in Indices : todo'[i] # {} => i \in inPass'
    BY DEF RegistryInv, LocksInPlace, TakeLock
  <2> QED
    BY <2>2, <2>3, <2>4 DEF LocksInPlace
<1>9. CreatedFirst' /\ PassSeesMap'
  BY DEF RegistryInv, CreatedFirst, PassSeesMap, TakeLock, map
<1> QED
  BY <1>7, <1>8, <1>9 DEF RegistryInv

(* A call ends.                                                            *)
LEMMA ReturnInPlace ==
  ASSUME RegistryInv, NEW t \in Threads, at[t].pc = "locked", Unlock(t), Return(t),
         UNCHANGED <<inPass, todo>>
  PROVE  LocksInPlace' /\ at' \in [Threads -> [pc : {"idle", "lock", "locked", "pass"},
                                               op : Calls \cup {"none", "pass"},
                                               a : Actors \cup {None}]]
<1> DEFINE r == IF t \in inPass THEN [pc |-> "pass", op |-> "pass", a |-> None] ELSE Idle
<1>1. at' = [at EXCEPT ![t] = r] /\ r.pc \in {"idle", "pass"}
      /\ r \in [pc : {"idle", "lock", "locked", "pass"},
                op : Calls \cup {"none", "pass"}, a : Actors \cup {None}]
  BY DEF Return, Idle, None
<1>2. t \in inPass => t \in Indices
  BY DEF RegistryInv, RegistryTypeOK
<1>3. held'[t] = {} /\ \A u \in Threads \ {t} : held'[u] = held[u]
  BY DEF RegistryInv, RegistryTypeOK, Unlock
<1>4. /\ r.pc = "pass" => r.op = "pass" /\ t \in inPass
      /\ r.pc = "idle" => r.op = "none" /\ t \notin inPass
  BY DEF Idle
<1> HIDE DEF r
<1>5. at'[t] = r /\ \A u \in Threads \ {t} : at'[u] = at[u]
  BY <1>1, Others
<1>6. LocksInPlace'
  <2>1. InPlace(t)'
    BY <1>2, <1>3, <1>4, <1>5, <1>1, NoCallIsAPass DEF InPlace
  <2>2. \A u \in Threads \ {t} : InPlace(u)'
    BY <1>1, <1>3, OthersInPlace
  <2>3. \A i \in Indices : todo'[i] # {} => i \in inPass'
    BY DEF RegistryInv, LocksInPlace
  <2> QED
    BY <2>1, <2>2, <2>3 DEF LocksInPlace
<1> QED
  BY <1>1, <1>6 DEF RegistryInv, RegistryTypeOK

LEMMA RegisterInv ==
  ASSUME RegistryInv, NEW t \in Threads, Register(t)
  PROVE  RegistryInv'
<1>1. LocksInPlace'
  BY ReturnInPlace DEF Register
<1>2. at[t].a \in Actors
  BY DEF RegistryInv, LocksInPlace, InPlace, Register, Calls
<1>3. RegistryTypeOK'
  <2>1. at' \in [Threads -> [pc : {"idle", "lock", "locked", "pass"},
                             op : Calls \cup {"none", "pass"},
                             a : Actors \cup {None}]]
    BY ReturnInPlace DEF Register
  <2>2. /\ nonNetworkActorMap' \subseteq Actors
        /\ created' \in [Actors -> Nat] /\ destroyed' \in [Actors -> Nat]
    BY <1>2 DEF RegistryInv, RegistryTypeOK, Register
  <2> QED
    BY <2>1, <2>2 DEF RegistryInv, RegistryTypeOK, Register, Unlock
<1>4. CreatedFirst'
  BY <1>2 DEF RegistryInv, RegistryTypeOK, CreatedFirst, Register
<1>5. PassSeesMap'
  BY DEF RegistryInv, PassSeesMap, Register
<1> QED
  BY <1>1, <1>3, <1>4, <1>5 DEF RegistryInv

(* The actor unregistered is one no pass has still to visit.               *)
LEMMA UnregisterInv ==
  ASSUME RegistryInv, NEW t \in Threads, Unregister(t)
  PROVE  RegistryInv'
<1>1. LocksInPlace'
  BY ReturnInPlace DEF Unregister
<1>2. at[t].a \in Actors /\ Lock(t) = IndexOf(at[t].a)
  BY DEF RegistryInv, LocksInPlace, InPlace, Unregister, Calls, Lock
<1>3. RegistryTypeOK'
  <2>1. at' \in [Threads -> [pc : {"idle", "lock", "locked", "pass"},
                             op : Calls \cup {"none", "pass"},
                             a : Actors \cup {None}]]
    BY ReturnInPlace DEF Unregister
  <2>2. /\ nonNetworkActorMap' \subseteq Actors
        /\ created' \in [Actors -> Nat] /\ destroyed' \in [Actors -> Nat]
    BY <1>2 DEF RegistryInv, RegistryTypeOK, Unregister
  <2> QED
    BY <2>1, <2>2 DEF RegistryInv, RegistryTypeOK, Unregister, Unlock
<1>4. CreatedFirst'
  BY <1>2 DEF RegistryInv, RegistryTypeOK, CreatedFirst, Unregister
<1>5. PassSeesMap'
  <2>1. Lock(t) \in Indices /\ Lock(t) \notin inPass
    BY LockIsIndex DEF RegistryInv, LocksInPlace, InPlace, Unregister, Exclusive
  <2>2. todo[Lock(t)] = {}
    BY <2>1 DEF RegistryInv, LocksInPlace, InPlace
  <2> QED
    BY <1>2, <2>1, <2>2 DEF RegistryInv, PassSeesMap, Unregister
<1> QED
  BY <1>1, <1>3, <1>4, <1>5 DEF RegistryInv

LEMMA FindInv ==
  ASSUME RegistryInv, NEW t \in Threads, Find(t)
  PROVE  RegistryInv'
<1>1. LocksInPlace'
  BY ReturnInPlace DEF Find
<1>2. RegistryTypeOK'
  BY ReturnInPlace DEF RegistryInv, RegistryTypeOK, Find, Unlock, map
<1>3. CreatedFirst' /\ PassSeesMap'
  BY DEF RegistryInv, CreatedFirst, PassSeesMap, Find, map
<1> QED
  BY <1>1, <1>2, <1>3 DEF RegistryInv

LEMMA RegistryStepInv == RegistryInv /\ [RegistryNext]_registryVars => RegistryInv'
<1> SUFFICES ASSUME RegistryInv, [RegistryNext]_registryVars PROVE RegistryInv'
  OBVIOUS
<1>1. ASSUME NEW t \in Threads, CallStep(t) PROVE RegistryInv'
  BY <1>1, TakeLockInv, RegisterInv, UnregisterInv, FindInv DEF CallStep
<1>2. ASSUME NEW i \in Indices, PassStep(i) PROVE RegistryInv'
  BY <1>2, WakeLogicThreadInv, StartPassInv, EndPassInv, VisitInv DEF PassStep
<1>3. CASE UNCHANGED registryVars
  BY <1>3 DEF registryVars, map, RegistryInv, RegistryTypeOK, LocksInPlace, InPlace, CreatedFirst, PassSeesMap,
              Lock, Mode, Exclusive
<1> QED
  BY <1>1, <1>2, <1>3, OutsideCallInv DEF RegistryNext

(* The invariant of the registry: a map, and the OnActorCreated and        *)
(* OnActorDestroyed of its actors, are never touched inside a pass of the  *)
(* logic thread over it, whoever calls Register- or                        *)
(* UnregisterNonNetworkActor.                                              *)
THEOREM RegistryInvariant == RegistrySpec => []RegistryInv
  BY RegistryInitInv, RegistryStepInv, PTL DEF RegistrySpec

(* A deadlock of the registry's locks always has a logic thread in it that *)
(* called the registry from a timer inside its pass: a thread that waits   *)
(* holds no lock of a call, so a writer among them waits for a pass, and a *)
(* reader for such a writer or for a pass.                                 *)
THEOREM DeadlockNeedsAPassHolds == RegistrySpec => []DeadlockNeedsAPass
<1>1. ASSUME RegistryInv, NEW D \in SUBSET Threads, Deadlock(D), D \cap inPass = {}
      PROVE  FALSE
  <2>1. \A t \in D : at[t].pc = "lock" /\ held[t] = {}
    BY <1>1 DEF Deadlock, Blocks, RegistryInv, LocksInPlace, InPlace
  <2>2. ASSUME NEW t \in D, NEW u \in D, Blocks(u, t)
        PROVE  ~Exclusive(t) /\ Exclusive(u)
    <3>1. ~HoldsUnique(u, Lock(t)) /\ ~HoldsShared(u, Lock(t))
      BY <1>1, <2>1 DEF HoldsUnique, HoldsShared
    <3> QED
      BY <2>2, <3>1 DEF Blocks
  <2>3. PICK t \in D : TRUE
    BY <1>1 DEF Deadlock
  <2>4. PICK u \in D : Blocks(u, t)
    BY <1>1 DEF Deadlock
  <2>5. PICK v \in D : Blocks(v, u)
    BY <1>1 DEF Deadlock
  <2> QED
    BY <2>2, <2>4, <2>5
<1>2. RegistryInv => DeadlockNeedsAPass
  BY <1>1 DEF DeadlockNeedsAPass
<1> QED
  BY <1>2, RegistryInvariant, PTL
=============================================================================
