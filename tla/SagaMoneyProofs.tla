-------------------------- MODULE SagaMoneyProofs --------------------------
(***************************************************************************)
(* Where the money of a withdrawal goes, for every set of accounts, keys,  *)
(* amounts, concurrent requests and recovery runs: events and legs are     *)
(* committed together, no account is overdrawn and, as long as handlers    *)
(* are prompt, money moves once and the saga implements HeldFunds.         *)
(*                                                                         *)
(* TableStep says what a step commits; everything else is argued from its  *)
(* four cases.  Ledger, events and balances need no assumption on timing   *)
(* (TablesInv, FundsIInv).  The two results about prompt handlers rest on  *)
(* OwnerInv: a row is driven by its handler, or by the one recovery run    *)
(* that has locked it, never by both.                                      *)
(***************************************************************************)
EXTENDS WithdrawalSagaProofs, LedgerProofs

-----------------------------------------------------------------------------
(* What a step does to the tables *)

\* Somebody is about to complete k: its rail call succeeded, or its row has a reference.
Completing(k) ==
    \/ \E r \in Reqs : pc[r] = "accepted" /\ req[r].key = k /\ rowLock[k] = Nobody
    \/ \E w \in Workers : wpc[w] = "accepted" /\ rowLock[k] = w
    \/ row[k].status = "submitted" /\ row[k].external_reference

\* Somebody is about to compensate k: its rail call failed, or its row is unfinished.
Failing(k) ==
    \/ \E r \in Reqs : pc[r] = "rejected" /\ req[r].key = k /\ rowLock[k] = Nobody
    \/ \E w \in Workers : wpc[w] = "rejected" /\ rowLock[k] = w
    \/ row[k].status \in {"pending", "submitted"}

\* The step is no commit of the saga, or only one of status and age.
Quiet ==
    /\ UNCHANGED <<ledger, outbox>>
    /\ row' = row \/ (\E r \in Reqs : MarkSubmitted(r)) \/ (\E k \in Keys : Age(k))

\* The step commits a completion of k.
Completes(k) ==
    /\ Completing(k)
    /\ UNCHANGED ledger
    /\ row' = [row EXCEPT ![k] = CompletedRow(@)]
    /\ Publish(k, "withdrawal.completed")

\* The step commits a compensation of k.
Fails(k) ==
    /\ Failing(k)
    /\ ~UniqueViolation(ledger, ReversalLegs(k))
    /\ ledger' = ledger \cup ReversalLegs(k)
    /\ row' = [row EXCEPT ![k] = FailedRow(@)]
    /\ Publish(k, "withdrawal.failed")

\* Every step reserves funds, completes a withdrawal, compensates one, or is quiet.
LEMMA TableStep ==
    ASSUME TypeOK, [Next]_vars
    PROVE  \/ Quiet
           \/ \E r \in Reqs : ReserveFunds(r)
           \/ \E k \in Keys : Completes(k)
           \/ \E k \in Keys : Fails(k)
<1> DEFINE Goal == \/ Quiet
                   \/ \E r \in Reqs : ReserveFunds(r)
                   \/ \E k \in Keys : Completes(k)
                   \/ \E k \in Keys : Fails(k)
<1>1. ASSUME UNCHANGED tables PROVE Goal
  BY <1>1 DEF Quiet, tables
<1>2. ASSUME NEW k \in Keys, WriteCompensation(k), Failing(k) PROVE Goal
  BY <1>1, <1>2 DEF WriteCompensation, Fails
<1>3. ASSUME NEW k \in Keys, Completing(k), UNCHANGED ledger,
             row' = [row EXCEPT ![k] = CompletedRow(@)], Publish(k, "withdrawal.completed")
      PROVE  Goal
  BY <1>3 DEF Completes
<1> HIDE DEF Goal
<1>4. ASSUME UNCHANGED vars PROVE Goal
  BY <1>1, <1>4 DEF vars, tables
<1>5. ASSUME NEW r \in Reqs, RequestStep(r) PROVE Goal
  <2>1. ASSUME pc[r] # "idle" PROVE req[r].key \in Keys
    BY <2>1 DEF TypeOK, HandlersTyped, Requests
  <2>2. CASE ReserveFunds(r)
    BY <2>2 DEF Goal
  <2>3. CASE MarkSubmitted(r)
    BY <2>3 DEF Goal, Quiet, MarkSubmitted
  <2>4. CASE Complete(r)
    <3>1. req[r].key \in Keys /\ Completing(req[r].key)
      BY <2>1, <2>4 DEF Complete, Completing
    <3> QED
      BY <1>3, <2>4, <3>1 DEF Complete
  <2>5. CASE Compensate(r)
    <3>1. req[r].key \in Keys /\ Failing(req[r].key)
      BY <2>1, <2>5 DEF Compensate, Failing
    <3> QED
      BY <1>2, <2>5, <3>1 DEF Compensate
  <2>6. CASE \/ CacheHit(r) \/ CacheMiss(r) \/ LockAccount(r) \/ RefuseInsufficient(r)
             \/ BalanceSuffices(r) \/ ReturnExisting(r) \/ CacheResponse(r)
             \/ RailAccepts(r) \/ RailRejects(r)
    BY <1>1, <2>6 DEF CacheHit, CacheMiss, LockAccount, RefuseInsufficient, BalanceSuffices,
       ReturnExisting, CacheResponse, RailAccepts, RailRejects
  <2> QED
    BY <1>5, <2>2, <2>3, <2>4, <2>5, <2>6 DEF RequestStep
<1>6. ASSUME NEW w \in Workers, ResolveStep(w) PROVE Goal
  <2> PICK k \in Keys :
        \/ SkipResolved(w, k)
        \/ RecoverPendingCircuitOpen(w, k) \/ RecoverPendingSend(w, k)
        \/ WorkerRailAccepts(w, k) \/ WorkerRailRejects(w, k)
        \/ WorkerComplete(w, k) \/ WorkerCompensate(w, k)
        \/ RecoverSubmittedNoReference(w, k)
        \/ \E state \in QueryStates : RecoverSubmittedByReference(w, k, state)
    BY <1>6 DEF ResolveStep
  <2>1. CASE \/ SkipResolved(w, k) \/ RecoverPendingSend(w, k)
             \/ WorkerRailAccepts(w, k) \/ WorkerRailRejects(w, k)
    BY <1>1, <2>1 DEF SkipResolved, RecoverPendingSend, WorkerRailAccepts, WorkerRailRejects
  <2>2. CASE RecoverPendingCircuitOpen(w, k) \/ WorkerCompensate(w, k)
    BY <1>2, <2>2 DEF RecoverPendingCircuitOpen, WorkerCompensate, Failing
  <2>3. CASE WorkerComplete(w, k)
    BY <1>3, <2>3 DEF WorkerComplete, Completing
  <2>4. CASE RecoverSubmittedNoReference(w, k)
    BY <1>1, <1>2, <2>4 DEF RecoverSubmittedNoReference, Failing
  <2>5. ASSUME NEW state \in QueryStates, RecoverSubmittedByReference(w, k, state) PROVE Goal
    <3>0. row[k].status = "submitted" /\ row[k].external_reference
      BY <2>5 DEF RecoverSubmittedByReference
    <3>1. CASE state = "completed"
      <4>1. /\ UNCHANGED ledger /\ row' = [row EXCEPT ![k] = CompletedRow(@)]
            /\ Publish(k, "withdrawal.completed")
        BY <2>5, <3>1 DEF RecoverSubmittedByReference
      <4> QED
        BY <1>3, <3>0, <4>1 DEF Completing
    <3>2. CASE state = "failed" \/ (state = "error" /\ row[k].age = "expired")
      <4>1. WriteCompensation(k)
        BY <2>5, <3>2 DEF RecoverSubmittedByReference
      <4> QED
        BY <1>2, <3>0, <4>1 DEF Failing
    <3>3. CASE state # "completed" /\ state # "failed"
               /\ ~(state = "error" /\ row[k].age = "expired")
      BY <1>1, <2>5, <3>3 DEF RecoverSubmittedByReference
    <3> QED
      BY <3>1, <3>2, <3>3
  <2> QED
    BY <2>1, <2>2, <2>3, <2>4, <2>5
<1>7. ASSUME NEW r \in Reqs, CrashRequest(r) \/ \E k \in Keys, p \in Params : Receive(r, k, p)
      PROVE  Goal
  BY <1>1, <1>7 DEF CrashRequest, Receive
<1>8. ASSUME NEW w \in Workers, Claim(w) \/ CrashWorker(w) PROVE Goal
  BY <1>1, <1>8 DEF Claim, CrashWorker
<1>9. ASSUME NEW k \in Keys, CacheExpire(k) PROVE Goal
  BY <1>1, <1>9 DEF CacheExpire
<1>10. ASSUME NEW k \in Keys, Age(k) PROVE Goal
  BY <1>10 DEF Goal, Quiet, Age
<1>11. Goal
  BY <1>4, <1>5, <1>6, <1>7, <1>8, <1>9, <1>10 DEF Next
<1> QED
  BY <1>11 DEF Goal

\* What a published event does to the counters of the outbox.
LEMMA PublishEffect ==
    ASSUME TypeOK, NEW k \in Keys, NEW t \in EventTypes, Publish(k, t),
           NEW j \in Keys, NEW u \in EventTypes
    PROVE  outbox'[j][u] = IF j = k /\ u = t THEN outbox[j][u] + 1 ELSE outbox[j][u]
BY DEF TypeOK, TablesTyped, Publish

-----------------------------------------------------------------------------
(* The legs of a withdrawal *)

(***************************************************************************)
(* A withdrawal without a row has no debit, and whoever posted a reversal  *)
(* posted both of its legs: the legs about to be posted are always new.    *)
(***************************************************************************)
LegInv ==
    \A k \in Keys :
        /\ row[k].status = "none" => LegsOf(ledger, "withdrawal", k) = {}
        /\ LegsOf(ledger, "withdrawal_reversal", k) # {} => Reversed(k)

\* The debit of TX 1 adds to the legs of its withdrawal and to no others.
LEMMA DebitPosting ==
    ASSUME NEW k \in Keys, NEW p \in Params
    PROVE  /\ LegsOf(ledger \cup DebitLegs(k, p), "withdrawal", k)
                = LegsOf(ledger, "withdrawal", k) \cup DebitLegs(k, p)
           /\ \A j : j # k => LegsOf(ledger \cup DebitLegs(k, p), "withdrawal", j)
                                = LegsOf(ledger, "withdrawal", j)
           /\ \A j : LegsOf(ledger \cup DebitLegs(k, p), "withdrawal_reversal", j)
                       = LegsOf(ledger, "withdrawal_reversal", j)
<1>1. LegsAre(DebitLegs(k, p), "withdrawal", k)
  BY LegPairFields DEF DebitLegs, LegsAre
<1> QED
  BY <1>1, LegsAfterPosting, OtherLegsAfterPosting

\* A compensation adds to the reversal legs of its withdrawal and to no others.
LEMMA ReversalPosting ==
    ASSUME NEW k \in Keys
    PROVE  /\ LegsOf(ledger \cup ReversalLegs(k), "withdrawal_reversal", k)
                = LegsOf(ledger, "withdrawal_reversal", k) \cup ReversalLegs(k)
           /\ \A j : j # k => LegsOf(ledger \cup ReversalLegs(k), "withdrawal_reversal", j)
                                = LegsOf(ledger, "withdrawal_reversal", j)
           /\ \A j : LegsOf(ledger \cup ReversalLegs(k), "withdrawal", j)
                       = LegsOf(ledger, "withdrawal", j)
<1>1. LegsAre(ReversalLegs(k), "withdrawal_reversal", k)
  BY LegPairFields DEF ReversalLegs, LegsAre
<1> QED
  BY <1>1, LegsAfterPosting, OtherLegsAfterPosting

\* A compensation that commits is the first of its withdrawal, and leaves one reversal.
LEMMA FirstReversal ==
    ASSUME ReversalInv, LegInv, NEW k \in Keys, Fails(k)
    PROVE  /\ LegsOf(ledger, "withdrawal_reversal", k) = {}
           /\ Reversals(k) = {}
           /\ \E c : Reversals(k)' = {c}
           /\ \A j \in Keys : j # k => Reversals(j)' = Reversals(j)
<1>1. PICK c \in ReversalLegs(k) :
            /\ c.direction = "credit" /\ c.reference_id = k
            /\ c.entry_type = "withdrawal_reversal"
            /\ c.idempotency_key = <<"reversal", k>>
            /\ \A l \in ReversalLegs(k) : l.direction = "credit" => l = c
  BY ReversalLegsShape
<1>2. Reversals(k) = {}
  <2>1. \A l \in Reversals(k) : l \in ledger /\ l.idempotency_key = <<"reversal", k>>
    BY DEF ReversalInv, Reversals, LegsOf
  <2>2. <<"reversal", k>> # NullKey
    BY DEF NullKey
  <2> QED
    BY <1>1, <2>1, <2>2 DEF UniqueViolation, Fails
<1>3. LegsOf(ledger, "withdrawal_reversal", k) = {}
  BY <1>2 DEF LegInv, Reversed
<1>4. ledger' = ledger \cup ReversalLegs(k)
  BY DEF Fails
<1>5. LegsOf(ledger', "withdrawal_reversal", k) = ReversalLegs(k)
  BY <1>3, <1>4, ReversalPosting
<1>6. Reversals(k)' = {c}
  BY <1>1, <1>5 DEF Reversals
<1>7. \A j \in Keys : j # k => Reversals(j)' = Reversals(j)
  BY <1>4, ReversalPosting DEF Reversals
<1> QED
  BY <1>2, <1>3, <1>6, <1>7

\* A step makes no row vanish.
LEMMA RowsRemain ==
    ASSUME TypeOK, PaidInv, [Next]_vars, NEW k \in Keys, row'[k].status = "none"
    PROVE  row[k].status = "none"
BY RowKeepsParams

\* No step posts a debit without its row or one leg of a reversal.
LEMMA LegStep == TypeOK /\ PaidInv /\ ReversalInv /\ LegInv /\ [Next]_vars => LegInv'
<1> SUFFICES ASSUME TypeOK, PaidInv, ReversalInv, LegInv, [Next]_vars, NEW j \in Keys
             PROVE  /\ row'[j].status = "none" => LegsOf(ledger', "withdrawal", j) = {}
                    /\ LegsOf(ledger', "withdrawal_reversal", j) # {} => Reversed(j)'
  BY DEF LegInv
<1>1. row'[j].status = "none" => LegsOf(ledger, "withdrawal", j) = {}
  BY RowsRemain DEF LegInv
<1>2. LegsOf(ledger, "withdrawal_reversal", j) # {} => Reversed(j)
  BY DEF LegInv
<1>3. CASE ledger' = ledger
  BY <1>1, <1>2, <1>3 DEF Reversed, Reversals
<1>4. ASSUME NEW r \in Reqs, ReserveFunds(r)
      PROVE  /\ row'[j].status = "none" => LegsOf(ledger', "withdrawal", j) = {}
             /\ LegsOf(ledger', "withdrawal_reversal", j) # {} => Reversed(j)'
  <2>1. req[r].key \in Keys /\ req[r].params \in Params
    BY <1>4 DEF TypeOK, HandlersTyped, ReserveFunds, Requests
  <2>2. ledger' = ledger \cup DebitLegs(req[r].key, req[r].params)
    BY <1>4 DEF ReserveFunds
  <2>3. row'[req[r].key].status = "pending"
    BY <1>4, <2>1 DEF ReserveFunds, TypeOK, TablesTyped
  <2>4. LegsOf(ledger', "withdrawal_reversal", j) = LegsOf(ledger, "withdrawal_reversal", j)
    BY <2>1, <2>2, DebitPosting
  <2>5. j # req[r].key => LegsOf(ledger', "withdrawal", j) = LegsOf(ledger, "withdrawal", j)
    BY <2>1, <2>2, DebitPosting
  <2> QED
    BY <1>1, <1>2, <2>3, <2>4, <2>5 DEF Reversed, Reversals
<1>5. ASSUME NEW k \in Keys, Fails(k)
      PROVE  /\ row'[j].status = "none" => LegsOf(ledger', "withdrawal", j) = {}
             /\ LegsOf(ledger', "withdrawal_reversal", j) # {} => Reversed(j)'
  <2>1. ledger' = ledger \cup ReversalLegs(k)
    BY <1>5 DEF Fails
  <2>2. LegsOf(ledger', "withdrawal", j) = LegsOf(ledger, "withdrawal", j)
    BY <2>1, ReversalPosting
  <2>3. CASE j = k
    BY <1>1, <1>5, <2>2, <2>3, FirstReversal DEF Reversed
  <2>4. CASE j # k
    <3>1. LegsOf(ledger', "withdrawal_reversal", j) = LegsOf(ledger, "withdrawal_reversal", j)
      BY <2>1, <2>4, ReversalPosting
    <3> QED
      BY <1>1, <1>2, <2>2, <3>1 DEF Reversed, Reversals
  <2> QED
    BY <2>3, <2>4
<1> QED
  BY <1>3, <1>4, <1>5, TableStep DEF Quiet, Completes

\* The seeds are no withdrawals.
LEMMA LegInit == Init => LegInv
<1> SUFFICES ASSUME Init PROVE LegInv
  OBVIOUS
<1>1. \A l \in ledger : l.entry_type = "seed"
  BY DEF Init, LegPair
<1> QED
  BY <1>1 DEF LegInv, LegsOf

-----------------------------------------------------------------------------
(* Events and the ledger *)

\* No step separates an event from the legs it announces.
LEMMA OutboxStep ==
    TypeOK /\ PaidInv /\ ReversalInv /\ LegInv /\ OutboxMatchesLedger /\ [Next]_vars
        => OutboxMatchesLedger'
<1> SUFFICES ASSUME TypeOK, PaidInv, ReversalInv, LegInv, OutboxMatchesLedger, [Next]_vars,
                    NEW j \in Keys
             PROVE  /\ outbox'[j]["withdrawal.failed"] = Cardinality(Reversals(j)')
                    /\ 2 * outbox'[j]["withdrawal.initiated"]
                         = Cardinality(LegsOf(ledger', "withdrawal", j))
  BY DEF OutboxMatchesLedger
<1> DEFINE Goal == /\ outbox'[j]["withdrawal.failed"] = Cardinality(Reversals(j)')
                   /\ 2 * outbox'[j]["withdrawal.initiated"]
                         = Cardinality(LegsOf(ledger', "withdrawal", j))
<1>1. /\ outbox[j]["withdrawal.failed"] = Cardinality(Reversals(j))
      /\ 2 * outbox[j]["withdrawal.initiated"] = Cardinality(LegsOf(ledger, "withdrawal", j))
  BY DEF OutboxMatchesLedger
<1>2. outbox[j]["withdrawal.failed"] \in Nat /\ outbox[j]["withdrawal.initiated"] \in Nat
  BY DEF TypeOK, TablesTyped, EventTypes
<1>3. ASSUME ledger' = ledger,
             outbox'[j]["withdrawal.failed"] = outbox[j]["withdrawal.failed"],
             outbox'[j]["withdrawal.initiated"] = outbox[j]["withdrawal.initiated"]
      PROVE  Goal
  BY <1>1, <1>3 DEF Reversals
<1>4. CASE Quiet
  BY <1>3, <1>4 DEF Quiet
<1>5. ASSUME NEW k \in Keys, Completes(k) PROVE Goal
  <2>1. ledger' = ledger /\ Publish(k, "withdrawal.completed")
    BY <1>5 DEF Completes
  <2>2. /\ outbox'[j]["withdrawal.failed"] = outbox[j]["withdrawal.failed"]
        /\ outbox'[j]["withdrawal.initiated"] = outbox[j]["withdrawal.initiated"]
    BY <2>1, PublishEffect DEF EventTypes
  <2> QED
    BY <1>3, <2>1, <2>2
<1>6. ASSUME NEW r \in Reqs, ReserveFunds(r) PROVE Goal
  <2>k. PICK k \in Keys : k = req[r].key
    BY <1>6 DEF TypeOK, HandlersTyped, ReserveFunds, Requests
  <2>p. PICK p \in Params : p = req[r].params
    BY <1>6 DEF TypeOK, HandlersTyped, ReserveFunds, Requests
  <2>1. /\ ledger' = ledger \cup DebitLegs(k, p)
        /\ Publish(k, "withdrawal.initiated")
        /\ row[k].status = "none"
    BY <1>6, <2>k, <2>p DEF ReserveFunds
  <2>2. /\ outbox'[j]["withdrawal.failed"] = outbox[j]["withdrawal.failed"]
        /\ outbox'[j]["withdrawal.initiated"] =
             IF j = k THEN outbox[j]["withdrawal.initiated"] + 1
                      ELSE outbox[j]["withdrawal.initiated"]
    BY <2>1, PublishEffect DEF EventTypes
  <2>3. Reversals(j)' = Reversals(j)
    BY <2>1, DebitPosting DEF Reversals
  <2>4. CASE j # k
    <3>1. LegsOf(ledger', "withdrawal", j) = LegsOf(ledger, "withdrawal", j)
      BY <2>1, <2>4, DebitPosting
    <3> QED
      BY <1>1, <2>2, <2>3, <2>4, <3>1
  <2>5. CASE j = k
    <3>1. LegsOf(ledger, "withdrawal", j) = {}
      BY <2>1, <2>5 DEF LegInv
    <3>2. LegsOf(ledger', "withdrawal", j) = DebitLegs(k, p)
      BY <2>1, <2>5, <3>1, DebitPosting
    <3>3. Cardinality(DebitLegs(k, p)) = 2
      BY LegPairSize DEF DebitLegs
    <3>4. outbox[j]["withdrawal.initiated"] = 0
      <4>1. 2 * outbox[j]["withdrawal.initiated"] = 0
        BY <1>1, <3>1, FS_EmptySet
      <4>2. \A n \in Nat : 2 * n = 0 => n = 0
        OBVIOUS
      <4> QED
        BY <1>2, <4>1, <4>2
    <3>5. 2 * outbox'[j]["withdrawal.initiated"] = 2
      BY <2>2, <2>5, <3>4
    <3> QED
      BY <1>1, <2>2, <2>3, <3>2, <3>3, <3>5
  <2> QED
    BY <2>4, <2>5
<1>7. ASSUME NEW k \in Keys, Fails(k) PROVE Goal
  <2>1. /\ ledger' = ledger \cup ReversalLegs(k)
        /\ Publish(k, "withdrawal.failed")
    BY <1>7 DEF Fails
  <2>2. /\ outbox'[j]["withdrawal.initiated"] = outbox[j]["withdrawal.initiated"]
        /\ outbox'[j]["withdrawal.failed"] =
             IF j = k THEN outbox[j]["withdrawal.failed"] + 1
                      ELSE outbox[j]["withdrawal.failed"]
    BY <2>1, PublishEffect DEF EventTypes
  <2>3. LegsOf(ledger', "withdrawal", j) = LegsOf(ledger, "withdrawal", j)
    BY <2>1, ReversalPosting
  <2>4. CASE j # k
    <3>1. Reversals(j)' = Reversals(j)
      BY <1>7, <2>4, FirstReversal
    <3> QED
      BY <1>1, <2>2, <2>3, <2>4, <3>1
  <2>5. CASE j = k
    <3>1. PICK c : Reversals(k) = {} /\ Reversals(k)' = {c}
      BY <1>7, FirstReversal
    <3>2. outbox[j]["withdrawal.failed"] = 0
      BY <1>1, <2>5, <3>1, FS_EmptySet
    <3>3. Cardinality(Reversals(j)') = 1
      BY <2>5, <3>1, FS_Singleton
    <3> QED
      BY <1>1, <2>2, <2>3, <2>5, <3>2, <3>3
  <2> QED
    BY <2>4, <2>5
<1> QED
  BY <1>4, <1>5, <1>6, <1>7, TableStep

\* The saga's inductive invariant as far as the ledger and its events are concerned.
TablesInv == TypeOK /\ LockInv /\ PaidInv /\ ReversalInv /\ LegInv

\* It holds initially,
LEMMA TablesInit == Init => TablesInv
<1> SUFFICES ASSUME Init PROVE TablesInv
  OBVIOUS
<1>1. LockInv
  BY NobodyAssumption DEF Init, LockInv
<1>2. PaidInv
  BY DEF Init, PaidInv, NoRow
<1> QED
  BY InitTyped, <1>1, <1>2, ReversalInit, LegInit DEF TablesInv

\* and every step keeps it.
LEMMA TablesStep == TablesInv /\ [Next]_vars => TablesInv'
BY TypeStep, LockStep, PaidStep, ReversalStep, LegStep DEF TablesInv

\* Whatever crashes and however handlers and recovery race, consumers see exactly one
\* withdrawal.initiated for each debit and one withdrawal.failed for each reversal that
\* the ledger holds: the transactional outbox of TX 1 and of _compensate.
THEOREM SagaOutboxMatchesLedger == Spec => []OutboxMatchesLedger
<1>1. Init => OutboxMatchesLedger
  <2> SUFFICES ASSUME Init, NEW k \in Keys
               PROVE  /\ outbox[k]["withdrawal.failed"] = Cardinality(Reversals(k))
                      /\ 2 * outbox[k]["withdrawal.initiated"]
                           = Cardinality(LegsOf(ledger, "withdrawal", k))
    BY DEF OutboxMatchesLedger
  <2>1. \A l \in ledger : l.entry_type = "seed"
    BY DEF Init, LegPair
  <2>2. Reversals(k) = {} /\ LegsOf(ledger, "withdrawal", k) = {}
    BY <2>1 DEF Reversals, LegsOf
  <2>3. outbox[k]["withdrawal.failed"] = 0 /\ outbox[k]["withdrawal.initiated"] = 0
    BY DEF Init, EventTypes
  <2> QED
    BY <2>2, <2>3, FS_EmptySet
<1>2. TablesInv /\ OutboxMatchesLedger /\ [Next]_vars => (TablesInv /\ OutboxMatchesLedger)'
  BY TablesStep, OutboxStep DEF TablesInv
<1> QED
  BY <1>1, <1>2, TablesInit, PTL DEF Spec

-----------------------------------------------------------------------------
(* No account is overdrawn *)

\* Amounts are positive integers.
LEMMA AmountsAreNumbers == \A x \in Amounts : x \in Int /\ x \in Nat /\ x > 0
BY AmountsAssumption

\* The legs of the ledger can be summed.
LEMMA GoodSagaLedger ==
    ASSUME TypeOK
    PROVE  GoodLedger(ledger)
BY DEF TypeOK, TablesTyped, Legs, GoodLedger

\* TX 1 takes the amount from the account it debits and from no other.
LEMMA DebitMoves ==
    ASSUME TypeOK, LegInv, NEW k \in Keys, NEW p \in Params, row[k].status = "none",
           ledger' = ledger \cup DebitLegs(k, p), NEW a \in Accounts
    PROVE  GetBalance(ledger', a) = IF a = p.account THEN GetBalance(ledger, a) - p.amount
                                                     ELSE GetBalance(ledger, a)
<1>1. p.account \in Accounts /\ p.amount \in Amounts
  BY DEF Params
<1>2. p.amount \in Int
  BY <1>1, AmountsAreNumbers
<1>3. GoodLedger(ledger)
  BY GoodSagaLedger
<1>4. GetBalance(ledger, a) \in Int
  BY <1>3, BalanceType
<1>t. PICK txn : txn = FreshTxn(ledger, "withdrawal", k)
  OBVIOUS
<1>d. PICK d : d = p.account
  OBVIOUS
<1>m. PICK amt \in Int : amt = p.amount
  BY <1>2
<1>5. LegsOf(ledger, "withdrawal", k) = {}
  BY DEF LegInv
<1>6. DebitLegs(k, p) = LegPair(txn, "withdrawal", k, d, SYSTEM, amt, NullKey)
  BY <1>t, <1>d, <1>m DEF DebitLegs
<1>7. ledger \cap LegPair(txn, "withdrawal", k, d, SYSTEM, amt, NullKey) = {}
  BY <1>5, FirstPostingFresh
<1>8. GetBalance(ledger \cup LegPair(txn, "withdrawal", k, d, SYSTEM, amt, NullKey), a)
        = GetBalance(ledger, a) + (IF d = a THEN -amt ELSE 0) + (IF SYSTEM = a THEN amt ELSE 0)
  BY <1>3, <1>7, PostingMoves
<1>9. SYSTEM # a
  BY SystemAssumption
<1>10. GetBalance(ledger', a) = GetBalance(ledger, a) + (IF d = a THEN -amt ELSE 0) + 0
  BY <1>6, <1>8, <1>9
<1> QED
  BY <1>4, <1>d, <1>m, <1>10

\* A compensation gives the amount back to the account of the row and to no other.
LEMMA ReversalMoves ==
    ASSUME TypeOK, LegInv, ReversalInv, NEW k \in Keys, Fails(k), NEW a \in Accounts
    PROVE  /\ row[k].params.amount \in Nat
           /\ GetBalance(ledger', a) = IF a = row[k].params.account
                                       THEN GetBalance(ledger, a) + row[k].params.amount
                                       ELSE GetBalance(ledger, a)
<1>1. row[k].params.amount \in Nat
  <2>1. row[k].params \in Params \cup {NoParams}
    BY DEF TypeOK, TablesTyped, Rows
  <2>2. CASE row[k].params \in Params
    BY <2>2, AmountsAssumption DEF Params
  <2>3. CASE row[k].params = NoParams
    BY <2>3 DEF NoParams
  <2> QED
    BY <2>1, <2>2, <2>3
<1>3. GoodLedger(ledger)
  BY GoodSagaLedger
<1>4. GetBalance(ledger, a) \in Int
  BY <1>3, BalanceType
<1>t. PICK txn : txn = FreshTxn(ledger, "withdrawal_reversal", k)
  OBVIOUS
<1>c. PICK c : c = row[k].params.account
  OBVIOUS
<1>m. PICK amt \in Int : amt = row[k].params.amount
  BY <1>1
<1>i. PICK idem : idem = <<"reversal", k>>
  OBVIOUS
<1>s. PICK d : d = SYSTEM
  OBVIOUS
<1>e. PICK e : e = "withdrawal_reversal"
  OBVIOUS
<1>5. LegsOf(ledger, e, k) = {}
  BY <1>e, FirstReversal
<1>6. ReversalLegs(k) = LegPair(txn, e, k, d, c, amt, idem)
  BY <1>t, <1>c, <1>m, <1>i, <1>s, <1>e DEF ReversalLegs
<1>7. PICK M : M = ledger \cup LegPair(txn, e, k, d, c, amt, idem)
  OBVIOUS
<1>8. GetBalance(M, a) = GetBalance(ledger, a) + (IF d = a THEN -amt ELSE 0)
                                               + (IF c = a THEN amt ELSE 0)
  BY <1>3, <1>5, <1>7, FirstPostingMoves
<1>9. d # a
  BY <1>s, SystemAssumption
<1>11. ledger' = ledger \cup ReversalLegs(k)
  BY DEF Fails
<1>10. GetBalance(ledger', a) = GetBalance(ledger, a) + 0 + (IF c = a THEN amt ELSE 0)
  BY <1>6, <1>7, <1>8, <1>9, <1>11
<1> QED
  BY <1>1, <1>4, <1>c, <1>m, <1>10

\* A request that has read the balance, or is past it, holds the account until TX 1 ends.
AccountInv ==
    \A r \in Reqs : pc[r] \in {"balance", "insert"} => acctLock[req[r].params.account] = r

\* The balance a request has decided on is still there.
FundsInv ==
    \A r \in Reqs : pc[r] = "insert" =>
        GetBalance(ledger, req[r].params.account) >= req[r].params.amount

\* No step takes the lock of an account from the request that holds it.
LEMMA AccountStep == TypeOK /\ AccountInv /\ [Next]_vars => AccountInv'
<1> SUFFICES ASSUME TypeOK, AccountInv, [Next]_vars PROVE AccountInv'
  OBVIOUS
<1>1. ASSUME UNCHANGED apiVars PROVE AccountInv'
  BY <1>1 DEF AccountInv, apiVars
<1>2. CASE UNCHANGED vars
  BY <1>1, <1>2 DEF vars, apiVars
<1>3. ASSUME NEW r \in Reqs, Finish(r) PROVE AccountInv'
  <2>1. ASSUME NEW s \in Reqs, pc'[s] \in {"balance", "insert"}
        PROVE  acctLock'[req'[s].params.account] = s
    <3>1. s # r /\ pc[s] = pc'[s] /\ req'[s] = req[s]
      BY <1>3, <2>1 DEF Finish, TypeOK, HandlersTyped
    <3>2. req[s].params.account \in Accounts
      BY <2>1, <3>1 DEF TypeOK, HandlersTyped, Requests, Params
    <3>3. acctLock[req[s].params.account] = s
      BY <2>1, <3>1 DEF AccountInv
    <3> QED
      BY <1>3, <3>1, <3>2, <3>3 DEF Finish
  <2> QED
    BY <2>1 DEF AccountInv
<1>4. ASSUME NEW r \in Reqs, NEW point, Goto(r, point), UNCHANGED <<req, acctLock>>,
             point \in {"balance", "insert"} => pc[r] \in {"balance", "insert"}
      PROVE  AccountInv'
  BY <1>4 DEF AccountInv, Goto, TypeOK, HandlersTyped
<1>5. ASSUME NEW r \in Reqs, RequestStep(r) PROVE AccountInv'
  <2>1. CASE \/ CacheHit(r) \/ RefuseInsufficient(r) \/ ReturnExisting(r) \/ Complete(r)
             \/ Compensate(r)
    BY <1>3, <2>1 DEF CacheHit, RefuseInsufficient, ReturnExisting, Complete, Compensate
  <2>2. CASE CacheMiss(r)
    BY <1>4, <2>2 DEF CacheMiss
  <2>3. CASE BalanceSuffices(r)
    BY <1>4, <2>3 DEF BalanceSuffices
  <2>4. CASE CacheResponse(r)
    BY <1>4, <2>4 DEF CacheResponse
  <2>5. CASE MarkSubmitted(r)
    BY <1>4, <2>5 DEF MarkSubmitted
  <2>6. CASE RailAccepts(r)
    BY <1>4, <2>6 DEF RailAccepts
  <2>7. CASE RailRejects(r)
    BY <1>4, <2>7 DEF RailRejects
  <2>8. CASE LockAccount(r)
    <3>1. /\ pc' = [pc EXCEPT ![r] = "balance"] /\ req' = req
          /\ acctLock[req[r].params.account] = Nobody
          /\ acctLock' = [acctLock EXCEPT ![req[r].params.account] = r]
      BY <2>8 DEF LockAccount, Goto
    <3>2. req[r].params.account \in Accounts
      BY <2>8 DEF LockAccount, TypeOK, HandlersTyped, Requests, Params
    <3>3. ASSUME NEW s \in Reqs, pc'[s] \in {"balance", "insert"}
          PROVE  acctLock'[req[s].params.account] = s
      <4>1. CASE s = r
        BY <3>1, <3>2, <4>1 DEF TypeOK, HandlersTyped
      <4>2. CASE s # r
        <5>1. pc[s] \in {"balance", "insert"}
          BY <3>1, <3>3, <4>2 DEF TypeOK, HandlersTyped
        <5>2. acctLock[req[s].params.account] = s
          BY <5>1 DEF AccountInv
        <5>3. req[s].params.account # req[r].params.account
          BY <3>1, <5>2, NobodyAssumption
        <5> QED
          BY <3>1, <5>2, <5>3 DEF TypeOK, HandlersTyped
      <4> QED
        BY <4>1, <4>2
    <3> QED
      BY <3>1, <3>3 DEF AccountInv
  <2>9. CASE ReserveFunds(r)
    <3>1. /\ pc' = [pc EXCEPT ![r] = "cache_set"] /\ req' = req /\ pc[r] = "insert"
          /\ acctLock' = [acctLock EXCEPT ![req[r].params.account] = Nobody]
      BY <2>9 DEF ReserveFunds, Goto
    <3>2. acctLock[req[r].params.account] = r
      BY <3>1 DEF AccountInv
    <3>3. ASSUME NEW s \in Reqs, pc'[s] \in {"balance", "insert"}
          PROVE  acctLock'[req[s].params.account] = s
      <4>1. s # r /\ pc[s] \in {"balance", "insert"}
        BY <3>1, <3>3 DEF TypeOK, HandlersTyped
      <4>2. acctLock[req[s].params.account] = s
        BY <4>1 DEF AccountInv
      <4>3. req[s].params.account # req[r].params.account
        BY <3>2, <4>1, <4>2
      <4> QED
        BY <3>1, <4>2, <4>3 DEF TypeOK, HandlersTyped
    <3> QED
      BY <3>1, <3>3 DEF AccountInv
  <2> QED
    BY <1>5, <2>1, <2>2, <2>3, <2>4, <2>5, <2>6, <2>7, <2>8, <2>9 DEF RequestStep
<1>6. ASSUME NEW r \in Reqs, CrashRequest(r) PROVE AccountInv'
  BY <1>3, <1>6 DEF CrashRequest
<1>7. ASSUME NEW r \in Reqs, NEW k \in Keys, NEW p \in Params, Receive(r, k, p) PROVE AccountInv'
  BY <1>7 DEF AccountInv, Receive, Goto, TypeOK, HandlersTyped
<1>8. ASSUME NEW w \in Workers, Claim(w) \/ ResolveStep(w) \/ CrashWorker(w) PROVE AccountInv'
  BY <1>1, <1>8 DEF ResolveStep, SkipResolved, RecoverPendingCircuitOpen, RecoverPendingSend,
     WorkerRailAccepts, WorkerRailRejects, WorkerComplete, WorkerCompensate,
     RecoverSubmittedNoReference, RecoverSubmittedByReference, Claim, CrashWorker
<1>9. ASSUME NEW k \in Keys, Age(k) \/ CacheExpire(k) PROVE AccountInv'
  BY <1>1, <1>9 DEF Age, CacheExpire
<1> QED
  BY <1>2, <1>5, <1>6, <1>7, <1>8, <1>9 DEF Next

\* Balances only change where a request has the lock, or upwards.
LEMMA FundsStep ==
    TablesInv /\ AccountInv /\ FundsInv /\ NoOverdraft /\ [Next]_vars => FundsInv' /\ NoOverdraft'
<1> SUFFICES ASSUME TablesInv, AccountInv, FundsInv, NoOverdraft, [Next]_vars
             PROVE  FundsInv' /\ NoOverdraft'
  OBVIOUS
<1> USE DEF TablesInv
<1>1. \A a \in Accounts : GetBalance(ledger, a) \in Int
  BY GoodSagaLedger, BalanceType
<1>2. TypeOK'
  BY TypeStep
<1>3. \A s \in Reqs : pc'[s] = "insert" =>
          /\ req'[s].params.account \in Accounts /\ req'[s].params.amount \in Int
  <2> SUFFICES ASSUME NEW s \in Reqs, pc'[s] = "insert"
               PROVE  req'[s].params.account \in Accounts /\ req'[s].params.amount \in Int
    OBVIOUS
  <2>1. req'[s].params \in Params
    BY <1>2 DEF TypeOK, HandlersTyped, Requests
  <2>2. req'[s].params.account \in Accounts /\ req'[s].params.amount \in Amounts
    BY <2>1 DEF Params
  <2> QED
    BY <2>2, AmountsAreNumbers

\* A request that gets past its balance check has just seen the balance.
<1>4. ASSUME NEW s \in Reqs, pc'[s] = "insert"
      PROVE  req'[s] = req[s] /\ GetBalance(ledger, req[s].params.account) >= req[s].params.amount
  <2> DEFINE Seen == req'[s] = req[s]
                     /\ GetBalance(ledger, req[s].params.account) >= req[s].params.amount
  <2>1. CASE pc[s] = "insert" /\ req'[s] = req[s]
    BY <2>1 DEF FundsInv
  <2>2. ASSUME NEW r \in Reqs, BalanceSuffices(r) PROVE Seen
    <3>1. CASE s = r
      BY <2>2, <3>1 DEF BalanceSuffices
    <3>2. CASE s # r
      BY <1>4, <2>1, <2>2, <3>2 DEF BalanceSuffices, Goto, TypeOK, HandlersTyped
    <3> QED
      BY <3>1, <3>2
  <2>3. ASSUME NEW r \in Reqs, ~BalanceSuffices(r),
               RequestStep(r) \/ CrashRequest(r) \/ \E k \in Keys, p \in Params : Receive(r, k, p)
        PROVE  Seen
    <3>1. \E point \in Points \ {"insert"} : pc' = [pc EXCEPT ![r] = point]
      BY <2>3 DEF RequestStep, CacheHit, CacheMiss, LockAccount, RefuseInsufficient,
         ReturnExisting, ReserveFunds, CacheResponse, MarkSubmitted, RailAccepts,
         RailRejects, Complete, Compensate, CrashRequest, Receive, Finish, Goto, Points,
         SagaPoints
    <3>2. req' = req \/ \E x : req' = [req EXCEPT ![r] = x]
      BY <2>3 DEF RequestStep, CacheHit, CacheMiss, LockAccount, RefuseInsufficient,
         ReturnExisting, ReserveFunds, CacheResponse, MarkSubmitted, RailAccepts,
         RailRejects, Complete, Compensate, CrashRequest, Receive, Finish
    <3>3. pc[s] = "insert" /\ req'[s] = req[s]
      BY <1>4, <3>1, <3>2 DEF TypeOK, HandlersTyped
    <3> QED
      BY <2>1, <3>3
  <2>4. ASSUME UNCHANGED apiVars PROVE Seen
    BY <1>4, <2>1, <2>4 DEF apiVars
  <2>5. ASSUME NEW w \in Workers, Claim(w) \/ ResolveStep(w) \/ CrashWorker(w)
        PROVE  UNCHANGED apiVars
    BY <2>5 DEF ResolveStep, SkipResolved, RecoverPendingCircuitOpen, RecoverPendingSend,
       WorkerRailAccepts, WorkerRailRejects, WorkerComplete, WorkerCompensate,
       RecoverSubmittedNoReference, RecoverSubmittedByReference, Claim, CrashWorker
  <2>6. ASSUME NEW k \in Keys, Age(k) \/ CacheExpire(k) PROVE UNCHANGED apiVars
    BY <2>6 DEF Age, CacheExpire
  <2>7. ASSUME UNCHANGED vars PROVE UNCHANGED apiVars
    BY <2>7 DEF vars, apiVars
  <2> QED
    BY <2>2, <2>3, <2>4, <2>5, <2>6, <2>7 DEF Next
<1>5. CASE ledger' = ledger
  <2>1. FundsInv'
    BY <1>4, <1>5 DEF FundsInv
  <2> QED
    BY <1>5, <2>1 DEF NoOverdraft
<1>6. ASSUME NEW r \in Reqs, ReserveFunds(r) PROVE FundsInv' /\ NoOverdraft'
  <2>k. PICK k \in Keys : k = req[r].key
    BY <1>6 DEF TypeOK, HandlersTyped, ReserveFunds, Requests
  <2>p. PICK p \in Params : p = req[r].params
    BY <1>6 DEF TypeOK, HandlersTyped, ReserveFunds, Requests
  <2>1. /\ ledger' = ledger \cup DebitLegs(k, p)
        /\ row[k].status = "none"
        /\ pc[r] = "insert"
        /\ pc' = [pc EXCEPT ![r] = "cache_set"]
        /\ req' = req
    BY <1>6, <2>k, <2>p DEF ReserveFunds, Goto
  <2>2. \A a \in Accounts :
            GetBalance(ledger', a) = IF a = p.account THEN GetBalance(ledger, a) - p.amount
                                                      ELSE GetBalance(ledger, a)
    BY <2>1, DebitMoves
  <2>3. GetBalance(ledger, p.account) >= p.amount
    BY <2>1, <2>p DEF FundsInv
  <2>4. p.amount \in Int
    <3>1. p.amount \in Amounts
      BY DEF Params
    <3> QED
      BY <3>1, AmountsAreNumbers
  <2>5. NoOverdraft'
    <3>1. ASSUME NEW a \in Accounts PROVE GetBalance(ledger', a) >= 0
      <4>1. CASE a = p.account
        BY <1>1, <2>2, <2>3, <2>4, <4>1
      <4>2. CASE a # p.account
        BY <2>2, <4>2 DEF NoOverdraft
      <4> QED
        BY <4>1, <4>2
    <3> QED
      BY <3>1 DEF NoOverdraft
  <2>6. ASSUME NEW s \in Reqs, pc'[s] = "insert"
        PROVE  GetBalance(ledger', req'[s].params.account) >= req'[s].params.amount
    <3>1. s # r /\ pc[s] = "insert"
      BY <2>1, <2>6 DEF TypeOK, HandlersTyped
    <3>2. acctLock[req[s].params.account] = s /\ acctLock[p.account] = r
      BY <2>1, <2>p, <3>1 DEF AccountInv
    <3>3. req[s].params.account # p.account
      BY <3>1, <3>2
    <3>4. req[s].params.account \in Accounts
      BY <1>3, <2>1, <2>6
    <3>5. GetBalance(ledger', req[s].params.account) = GetBalance(ledger, req[s].params.account)
      BY <2>2, <3>3, <3>4
    <3> QED
      BY <1>4, <2>6, <3>5
  <2> QED
    BY <2>5, <2>6 DEF FundsInv
<1>7. ASSUME NEW k \in Keys, Fails(k) PROVE FundsInv' /\ NoOverdraft'
  <2>1. ASSUME NEW a \in Accounts PROVE GetBalance(ledger', a) \in Int
                                        /\ GetBalance(ledger', a) >= GetBalance(ledger, a)
    <3>1. row[k].params.amount \in Nat
      BY <1>7, ReversalMoves
    <3>2. GetBalance(ledger', a) = IF a = row[k].params.account
                                   THEN GetBalance(ledger, a) + row[k].params.amount
                                   ELSE GetBalance(ledger, a)
      BY <1>7, ReversalMoves
    <3> QED
      BY <1>1, <3>1, <3>2
  <2>2. ASSUME NEW a \in Accounts PROVE GetBalance(ledger', a) >= 0
    <3>1. GetBalance(ledger, a) >= 0
      BY DEF NoOverdraft
    <3> QED
      BY <1>1, <2>1, <3>1
  <2>3. ASSUME NEW s \in Reqs, pc'[s] = "insert"
        PROVE  GetBalance(ledger', req'[s].params.account) >= req'[s].params.amount
    <3>1. PICK a \in Accounts : a = req'[s].params.account
      BY <1>3, <2>3
    <3>2. req'[s].params.amount \in Int
      BY <1>3, <2>3
    <3>3. GetBalance(ledger, a) >= req'[s].params.amount
      BY <1>4, <2>3, <3>1
    <3> QED
      BY <1>1, <2>1, <3>1, <3>2, <3>3
  <2> QED
    BY <2>2, <2>3 DEF FundsInv, NoOverdraft
<1> QED
  BY <1>5, <1>6, <1>7, TableStep DEF Quiet, Completes

\* Every account starts with the balance it was seeded with.
LEMMA OpeningBalance ==
    ASSUME Init, NEW a \in Accounts
    PROVE  GetBalance(ledger, a) = Opening
<1>c. PICK c : c = [txn |-> 0, account |-> a, direction |-> "credit", amount |-> Opening,
                    entry_type |-> "seed", reference_id |-> a,
                    idempotency_key |-> <<"seed", a>>]
  OBVIOUS
<1>1. { l \in ledger : l.account = a } = {c}
  <2>1. ledger = UNION { LegPair(0, "seed", b, SYSTEM, b, Opening, <<"seed", b>>) : b \in Accounts }
    BY DEF Init
  <2>2. c \in LegPair(0, "seed", a, SYSTEM, a, Opening, <<"seed", a>>) /\ c.account = a
    BY <1>c DEF LegPair
  <2>3. ASSUME NEW b \in Accounts, NEW l \in LegPair(0, "seed", b, SYSTEM, b, Opening, <<"seed", b>>),
               l.account = a
        PROVE  l = c
    <3>1. a # SYSTEM
      BY SystemAssumption
    <3>2. CASE l = [txn |-> 0, account |-> SYSTEM, direction |-> "debit", amount |-> Opening,
                    entry_type |-> "seed", reference_id |-> b, idempotency_key |-> NullKey]
      <4>1. l.account = SYSTEM
        BY <3>2
      <4> QED
        BY <2>3, <3>1, <4>1
    <3>3. CASE l = [txn |-> 0, account |-> b, direction |-> "credit", amount |-> Opening,
                    entry_type |-> "seed", reference_id |-> b, idempotency_key |-> <<"seed", b>>]
      <4>1. b = a
        BY <2>3, <3>3
      <4> QED
        BY <1>c, <3>3, <4>1
    <3> QED
      BY <2>3, <3>2, <3>3 DEF LegPair
  <2> QED
    BY <2>1, <2>2, <2>3
<1>2. SignedAmount(c) = Opening /\ c.amount \in Int
  BY <1>c, OpeningAssumption DEF SignedAmount
<1>3. Total({c}) = Opening
  <2>1. IsFiniteSet({}) /\ {} \cup {c} = {c} /\ c \notin {}
    BY FS_EmptySet
  <2>2. Total({} \cup {c}) = Total({}) + SignedAmount(c)
    BY <1>2, <2>1, TotalAdd
  <2> QED
    BY <1>2, <2>1, <2>2, TotalEmpty, OpeningAssumption
<1> QED
  BY <1>1, <1>3, BalanceIsTotal

\* The inductive invariant of NoOverdraft.
FundsIInv == TablesInv /\ AccountInv /\ FundsInv /\ NoOverdraft

\* It holds initially,
LEMMA FundsInit == Init => FundsIInv
<1> SUFFICES ASSUME Init PROVE FundsIInv
  OBVIOUS
<1>1. AccountInv /\ FundsInv
  BY DEF Init, AccountInv, FundsInv
<1>2. NoOverdraft
  BY OpeningBalance, OpeningAssumption DEF NoOverdraft
<1> QED
  BY <1>1, <1>2, TablesInit DEF FundsIInv

\* and every step keeps it.
LEMMA FundsIStep == FundsIInv /\ [Next]_vars => FundsIInv'
BY TablesStep, AccountStep, FundsStep DEF FundsIInv, TablesInv

\* However many requests of a user run at once, and whatever recovery gives back meanwhile,
\* no account goes below zero: SELECT ... FOR UPDATE in create_withdrawal spans the check
\* and TX 1.
THEOREM SagaNoOverdraft == Spec => []NoOverdraft
BY FundsInit, FundsIStep, PTL DEF FundsIInv, Spec

-----------------------------------------------------------------------------
(* Prompt handlers: one owner per withdrawal *)

\* Program points before the commit of status 'submitted'.
Early == {"cache_set", "submit"}

\* Two live handlers never drive one withdrawal.
OneHandler ==
    \A r, s \in Reqs : pc[r] \in SagaPoints /\ pc[s] \in SagaPoints /\ req[r].key = req[s].key
                           => r = s

\* A live handler finds its row as it left it, too fresh to have been claimed.
HandledRow ==
    \A r \in Reqs : pc[r] \in SagaPoints =>
        /\ row[req[r].key].status = IF pc[r] \in Early THEN "pending" ELSE "submitted"
        /\ row[req[r].key].age = "fresh"
        /\ \A w \in Workers : req[r].key \notin batch[w]

\* A claimed row exists, and stays pending while a recovery run calls the rail for it.
ClaimedRow ==
    \A w \in Workers, k \in Keys :
        /\ k \in batch[w] => row[k].status # "none"
        /\ rowLock[k] = w => k \in batch[w] /\ row[k].status = "pending"

\* Only a completed row has a reference: recovery never has to ask the rail.
ReferenceRow == \A k \in Keys : row[k].external_reference => row[k].status = "completed"

\* Every withdrawal has one owner at a time.
OwnerInv == OneHandler /\ HandledRow /\ ClaimedRow /\ ReferenceRow

\* OwnerInv survives a step that moves handlers only within their transactions.
LEMMA OwnerFrame ==
    ASSUME TypeOK, OwnerInv, TypeOK', UNCHANGED <<row, batch, rowLock>>,
           \A s \in Reqs : pc'[s] \in SagaPoints =>
               /\ pc[s] \in SagaPoints /\ req'[s].key = req[s].key
               /\ pc'[s] \in Early <=> pc[s] \in Early
    PROVE  OwnerInv'
<1>1. OneHandler'
  BY DEF OwnerInv, OneHandler
<1>2. HandledRow'
  BY DEF OwnerInv, HandledRow
<1>3. ClaimedRow' /\ ReferenceRow'
  BY DEF OwnerInv, ClaimedRow, ReferenceRow
<1> QED
  BY <1>1, <1>2, <1>3 DEF OwnerInv

\* OwnerInv survives the commit of a handler's transaction on its own row.
LEMMA OwnerHandler ==
    ASSUME TypeOK, OwnerInv, TypeOK', UNCHANGED <<batch, rowLock>>,
           NEW r \in Reqs, pc[r] \in SagaPoints, NEW x,
           row' = [row EXCEPT ![req[r].key] = x], x.status # "none",
           x.external_reference => x.status = "completed",
           \A s \in Reqs : s # r => pc'[s] = pc[s] /\ req'[s] = req[s],
           \/ pc'[r] \notin SagaPoints
           \/ pc'[r] = "send" /\ x.status = "submitted" /\ x.age = "fresh" /\ req'[r] = req[r]
    PROVE  OwnerInv'
<1>k. PICK k \in Keys : k = req[r].key
  BY DEF TypeOK, HandlersTyped, Requests, Points, SagaPoints
<1>1. row'[k] = x /\ \A j \in Keys : j # k => row'[j] = row[j]
  BY <1>k DEF TypeOK, TablesTyped
<1>2. \A w \in Workers : k \notin batch[w] /\ rowLock[k] # w
  BY <1>k DEF OwnerInv, HandledRow, ClaimedRow
<1>3. \A s \in Reqs : s # r /\ pc[s] \in SagaPoints => req[s].key # k
  BY <1>k DEF OwnerInv, OneHandler
<1>4. \A s \in Reqs : pc[s] \in SagaPoints => req[s].key \in Keys
  BY DEF TypeOK, HandlersTyped, Requests, Points, SagaPoints
<1>5. OneHandler'
  <2>1. ASSUME NEW s \in Reqs, NEW t \in Reqs, pc'[s] \in SagaPoints, pc'[t] \in SagaPoints,
               req'[s].key = req'[t].key
        PROVE  s = t
    <3>1. pc[s] \in SagaPoints /\ pc[t] \in SagaPoints /\ req[s].key = req[t].key
      BY <2>1
    <3> QED
      BY <3>1 DEF OwnerInv, OneHandler
  <2> QED
    BY <2>1 DEF OneHandler
<1>6. HandledRow'
  <2>1. ASSUME NEW s \in Reqs, pc'[s] \in SagaPoints
        PROVE  /\ row'[req'[s].key].status = IF pc'[s] \in Early THEN "pending" ELSE "submitted"
               /\ row'[req'[s].key].age = "fresh"
               /\ \A w \in Workers : req'[s].key \notin batch'[w]
    <3>1. CASE s = r
      BY <1>k, <1>1, <1>2, <2>1, <3>1 DEF Early
    <3>2. CASE s # r
      <4>1. pc'[s] = pc[s] /\ req'[s] = req[s] /\ row'[req[s].key] = row[req[s].key]
        BY <1>1, <1>3, <1>4, <2>1, <3>2
      <4> QED
        BY <2>1, <4>1 DEF OwnerInv, HandledRow
    <3> QED
      BY <3>1, <3>2
  <2> QED
    BY <2>1 DEF HandledRow
<1>7. ClaimedRow' /\ ReferenceRow'
  BY <1>1, <1>2 DEF OwnerInv, ClaimedRow, ReferenceRow
<1> QED
  BY <1>5, <1>6, <1>7 DEF OwnerInv

\* OwnerInv survives the end of a recovery run's work on a row it has claimed.
LEMMA OwnerRelease ==
    ASSUME TypeOK, OwnerInv, TypeOK', UNCHANGED <<pc, req>>,
           NEW w \in Workers, NEW k \in Keys, k \in batch[w], Release(w, k), NEW x,
           row' = [row EXCEPT ![k] = x], x.status # "none",
           x.external_reference => x.status = "completed"
    PROVE  OwnerInv'
<1>1. row'[k] = x /\ \A j \in Keys : j # k => row'[j] = row[j]
  BY DEF TypeOK, TablesTyped
<1>2. \A s \in Reqs : pc[s] \in SagaPoints => req[s].key # k
  BY DEF OwnerInv, HandledRow
<1>3. \A s \in Reqs : pc[s] \in SagaPoints => req[s].key \in Keys
  BY DEF TypeOK, HandlersTyped, Requests, Points, SagaPoints
<1>4. /\ \A v \in Workers : batch'[v] \subseteq batch[v]
      /\ \A v \in Workers, j \in Keys : rowLock'[j] = v =>
             rowLock[j] = v /\ j # k /\ (j \in batch[v] => j \in batch'[v])
  BY NobodyAssumption DEF Release, TypeOK, WorkersTyped
<1>5. OneHandler'
  BY DEF OwnerInv, OneHandler
<1>6. HandledRow'
  <2>1. ASSUME NEW s \in Reqs, pc[s] \in SagaPoints
        PROVE  /\ row'[req[s].key].status = IF pc[s] \in Early THEN "pending" ELSE "submitted"
               /\ row'[req[s].key].age = "fresh"
               /\ \A v \in Workers : req[s].key \notin batch'[v]
    <3>1. row'[req[s].key] = row[req[s].key]
      BY <1>1, <1>2, <1>3, <2>1
    <3> QED
      BY <1>4, <2>1, <3>1 DEF OwnerInv, HandledRow
  <2> QED
    BY <2>1 DEF HandledRow
<1>7. ClaimedRow'
  <2>1. ASSUME NEW v \in Workers, NEW j \in Keys
        PROVE  /\ j \in batch'[v] => row'[j].status # "none"
               /\ rowLock'[j] = v => j \in batch'[v] /\ row'[j].status = "pending"
    BY <1>1, <1>4 DEF OwnerInv, ClaimedRow
  <2> QED
    BY <2>1 DEF ClaimedRow
<1>8. ReferenceRow'
  BY <1>1 DEF OwnerInv, ReferenceRow
<1> QED
  BY <1>5, <1>6, <1>7, <1>8 DEF OwnerInv

\* What the updates write into a row.
LEMMA UpdatedRows ==
    ASSUME NEW x \in Rows
    PROVE  /\ CompletedRow(x).status = "completed"
           /\ FailedRow(x).status = "failed"
           /\ FailedRow(x).external_reference = x.external_reference
           /\ CompletedRow(x).params = x.params /\ FailedRow(x).params = x.params
BY DEF CompletedRow, FailedRow, Rows

\* The compensation of an unfinished row leaves it as it was or failed.
LEMMA CompensatedRow ==
    ASSUME TypeOK, OwnerInv, NEW k \in Keys, row[k].status \in {"pending", "submitted"},
           WriteCompensation(k)
    PROVE  \E x : /\ row' = [row EXCEPT ![k] = x] /\ x.status # "none"
                  /\ x.external_reference => x.status = "completed"
<1>1. row[k] \in Rows /\ row = [row EXCEPT ![k] = row[k]]
  BY DEF TypeOK, TablesTyped
<1>2. ~row[k].external_reference
  BY DEF OwnerInv, ReferenceRow
<1>3. CASE UNCHANGED tables
  BY <1>1, <1>2, <1>3 DEF tables
<1>4. CASE row' = [row EXCEPT ![k] = FailedRow(@)]
  <2>1. PICK x : x = FailedRow(row[k])
    OBVIOUS
  <2>2. x.status = "failed" /\ x.external_reference = row[k].external_reference
    BY <1>1, <2>1, UpdatedRows
  <2>3. row' = [row EXCEPT ![k] = x]
    BY <1>4, <2>1
  <2> QED
    BY <1>2, <2>2, <2>3
<1> QED
  BY <1>3, <1>4, CompensationEffect

\* The steps of a handler keep OwnerInv.
LEMMA OwnerRequestStep ==
    ASSUME TypeOK, LockInv, OwnerInv, TypeOK', NEW r \in Reqs, RequestStep(r)
    PROVE  OwnerInv'
<1>0. ASSUME pc[r] # "idle" PROVE req[r].key \in Keys
  BY <1>0 DEF TypeOK, HandlersTyped, Requests
<1>1. ASSUME Finish(r), UNCHANGED <<row, batch, rowLock>> PROVE OwnerInv'
  <2>1. \A s \in Reqs : pc'[s] \in SagaPoints => s # r /\ pc'[s] = pc[s] /\ req'[s] = req[s]
    BY <1>1 DEF Finish, TypeOK, HandlersTyped, SagaPoints
  <2> QED
    BY <1>1, <2>1, OwnerFrame
<1>2. ASSUME NEW point, Goto(r, point), UNCHANGED <<req, row, batch, rowLock>>,
             point \in SagaPoints => pc[r] \in SagaPoints,
             point \in SagaPoints => (point \in Early <=> pc[r] \in Early)
      PROVE  OwnerInv'
  <2>1. pc'[r] = point /\ \A s \in Reqs : s # r => pc'[s] = pc[s]
    BY <1>2 DEF Goto, TypeOK, HandlersTyped
  <2>2. \A s \in Reqs : pc'[s] \in SagaPoints =>
            /\ pc[s] \in SagaPoints /\ req'[s].key = req[s].key
            /\ pc'[s] \in Early <=> pc[s] \in Early
    BY <1>2, <2>1
  <2> QED
    BY <1>2, <2>2, OwnerFrame
<1>3. CASE CacheHit(r) \/ RefuseInsufficient(r) \/ ReturnExisting(r)
  BY <1>1, <1>3 DEF CacheHit, RefuseInsufficient, ReturnExisting, tables, workerVars
<1>4. CASE CacheMiss(r)
  BY <1>2, <1>4 DEF CacheMiss, tables, workerVars, SagaPoints
<1>5. CASE LockAccount(r)
  BY <1>2, <1>5 DEF LockAccount, tables, workerVars, SagaPoints
<1>6. CASE BalanceSuffices(r)
  BY <1>2, <1>6 DEF BalanceSuffices, tables, workerVars, SagaPoints
<1>7. CASE CacheResponse(r)
  BY <1>2, <1>7 DEF CacheResponse, tables, workerVars, SagaPoints, Early
<1>8. CASE RailAccepts(r)
  BY <1>2, <1>8 DEF RailAccepts, tables, workerVars, SagaPoints, Early
<1>9. CASE RailRejects(r)
  BY <1>2, <1>9 DEF RailRejects, tables, workerVars, SagaPoints, Early
<1>10. CASE ReserveFunds(r)
  <2>k. PICK k \in Keys : k = req[r].key
    BY <1>0, <1>10 DEF ReserveFunds
  <2>x. PICK x : x = [status |-> "pending", params |-> req[r].params,
                      external_reference |-> FALSE, age |-> "fresh"]
    OBVIOUS
  <2>1. x.status = "pending" /\ ~x.external_reference /\ x.age = "fresh"
    BY <2>x
  <2>2. /\ row[k].status = "none"
        /\ row' = [row EXCEPT ![k] = x]
        /\ pc[r] = "insert"
        /\ pc' = [pc EXCEPT ![r] = "cache_set"]
        /\ UNCHANGED <<req, batch, rowLock>>
    BY <1>10, <2>k, <2>x DEF ReserveFunds, Goto, workerVars
  <2>3. row'[k] = x /\ \A j \in Keys : j # k => row'[j] = row[j]
    BY <2>2 DEF TypeOK, TablesTyped
  <2>4. \A w \in Workers : k \notin batch[w] /\ rowLock[k] # w
    BY <2>2 DEF OwnerInv, ClaimedRow
  <2>5. \A s \in Reqs : pc[s] \in SagaPoints => req[s].key \in Keys /\ req[s].key # k
    BY <2>2 DEF OwnerInv, HandledRow, TypeOK, HandlersTyped, Requests, Points, SagaPoints
  <2>6. /\ pc'[r] = "cache_set"
        /\ \A s \in Reqs : s # r => pc'[s] = pc[s]
    BY <2>2 DEF TypeOK, HandlersTyped
  <2>7. OneHandler'
    BY <2>k, <2>2, <2>5, <2>6 DEF OwnerInv, OneHandler
  <2>8. HandledRow'
    <3>1. ASSUME NEW s \in Reqs, pc'[s] \in SagaPoints
          PROVE  /\ row'[req[s].key].status = IF pc'[s] \in Early THEN "pending" ELSE "submitted"
                 /\ row'[req[s].key].age = "fresh"
                 /\ \A w \in Workers : req[s].key \notin batch[w]
      <4>1. CASE s = r
        BY <2>k, <2>1, <2>3, <2>4, <2>6, <4>1 DEF Early
      <4>2. CASE s # r
        <5>1. pc'[s] = pc[s] /\ row'[req[s].key] = row[req[s].key]
          BY <2>3, <2>5, <2>6, <3>1, <4>2
        <5> QED
          BY <3>1, <5>1 DEF OwnerInv, HandledRow
      <4> QED
        BY <4>1, <4>2
    <3> QED
      BY <2>2, <3>1 DEF HandledRow
  <2>9. ClaimedRow' /\ ReferenceRow'
    BY <2>1, <2>2, <2>3, <2>4 DEF OwnerInv, ClaimedRow, ReferenceRow
  <2> QED
    BY <2>7, <2>8, <2>9 DEF OwnerInv
<1>11. CASE MarkSubmitted(r)
  <2>k. PICK k \in Keys : k = req[r].key
    BY <1>0, <1>11 DEF MarkSubmitted
  <2>x. PICK x : x = [row[k] EXCEPT !.status = "submitted", !.age = "fresh"]
    OBVIOUS
  <2>1. /\ pc[r] = "submit" /\ pc[r] \in SagaPoints
        /\ row' = [row EXCEPT ![req[r].key] = x]
        /\ pc' = [pc EXCEPT ![r] = "send"]
        /\ UNCHANGED <<req, batch, rowLock>>
    BY <1>11, <2>k, <2>x DEF MarkSubmitted, Goto, workerVars, SagaPoints
  <2>2. /\ x.status = "submitted" /\ x.age = "fresh"
        /\ x.external_reference = row[k].external_reference
    BY <2>x DEF TypeOK, TablesTyped, Rows
  <2>3. ~row[k].external_reference
    BY <2>k, <2>1 DEF OwnerInv, HandledRow, ReferenceRow, Early
  <2>4. pc'[r] = "send" /\ req'[r] = req[r]
        /\ \A s \in Reqs : s # r => pc'[s] = pc[s] /\ req'[s] = req[s]
    BY <2>1 DEF TypeOK, HandlersTyped
  <2>5. x.status # "none" /\ (x.external_reference => x.status = "completed")
    BY <2>2, <2>3
  <2> QED
    BY <2>1, <2>2, <2>4, <2>5, OwnerHandler
<1>12. CASE Complete(r)
  <2>k. PICK k \in Keys : k = req[r].key
    BY <1>0, <1>12 DEF Complete
  <2>x. PICK x : x = CompletedRow(row[k])
    OBVIOUS
  <2>1. /\ pc[r] \in SagaPoints
        /\ row' = [row EXCEPT ![req[r].key] = x]
        /\ pc' = [pc EXCEPT ![r] = "idle"] /\ req' = [req EXCEPT ![r] = Idle]
        /\ UNCHANGED <<batch, rowLock>>
    BY <1>12, <2>k, <2>x DEF Complete, Finish, workerVars, SagaPoints
  <2>2. row[k] \in Rows
    BY DEF TypeOK, TablesTyped
  <2>3. x.status = "completed"
    BY <2>2, <2>x, UpdatedRows
  <2>4. pc'[r] \notin SagaPoints /\ \A s \in Reqs : s # r => pc'[s] = pc[s] /\ req'[s] = req[s]
    BY <2>1 DEF TypeOK, HandlersTyped, SagaPoints
  <2>5. x.status # "none" /\ (x.external_reference => x.status = "completed")
    BY <2>3
  <2> QED
    BY <2>1, <2>4, <2>5, OwnerHandler
<1>13. CASE Compensate(r)
  <2>k. PICK k \in Keys : k = req[r].key
    BY <1>0, <1>13 DEF Compensate
  <2>1. /\ pc[r] = "rejected" /\ pc[r] \in SagaPoints
        /\ WriteCompensation(k)
        /\ pc' = [pc EXCEPT ![r] = "idle"] /\ req' = [req EXCEPT ![r] = Idle]
        /\ UNCHANGED <<batch, rowLock>>
    BY <1>13, <2>k DEF Compensate, Finish, workerVars, SagaPoints
  <2>2. row[k].status \in {"pending", "submitted"}
    BY <2>k, <2>1 DEF OwnerInv, HandledRow
  <2>3. PICK x : /\ row' = [row EXCEPT ![k] = x] /\ x.status # "none"
                 /\ x.external_reference => x.status = "completed"
    BY <2>1, <2>2, CompensatedRow
  <2>4. pc'[r] \notin SagaPoints /\ \A s \in Reqs : s # r => pc'[s] = pc[s] /\ req'[s] = req[s]
    BY <2>1 DEF TypeOK, HandlersTyped, SagaPoints
  <2> QED
    BY <2>k, <2>1, <2>3, <2>4, OwnerHandler
<1> QED
  BY <1>3, <1>4, <1>5, <1>6, <1>7, <1>8, <1>9, <1>10, <1>11, <1>12, <1>13 DEF RequestStep

\* The steps of a recovery run keep OwnerInv.
LEMMA OwnerResolveStep ==
    ASSUME TypeOK, LockInv, OwnerInv, TypeOK', NEW w \in Workers, ResolveStep(w)
    PROVE  OwnerInv'
<1> PICK k \in Keys :
        \/ SkipResolved(w, k)
        \/ RecoverPendingCircuitOpen(w, k) \/ RecoverPendingSend(w, k)
        \/ WorkerRailAccepts(w, k) \/ WorkerRailRejects(w, k)
        \/ WorkerComplete(w, k) \/ WorkerCompensate(w, k)
        \/ RecoverSubmittedNoReference(w, k)
        \/ \E state \in QueryStates : RecoverSubmittedByReference(w, k, state)
  BY DEF ResolveStep
<1>0. row[k] \in Rows /\ row = [row EXCEPT ![k] = row[k]]
  BY DEF TypeOK, TablesTyped
<1>1. ASSUME k \in batch[w], Release(w, k), UNCHANGED <<row, pc, req>> PROVE OwnerInv'
  <2>1. row' = [row EXCEPT ![k] = row[k]]
    BY <1>0, <1>1
  <2>2. /\ row[k].status # "none"
        /\ row[k].external_reference => row[k].status = "completed"
    BY <1>1 DEF OwnerInv, ClaimedRow, ReferenceRow
  <2> QED
    BY <1>1, <2>1, <2>2, OwnerRelease
<1>2. ASSUME k \in batch[w], Release(w, k), UNCHANGED <<pc, req>>, WriteCompensation(k),
             row[k].status \in {"pending", "submitted"}
      PROVE  OwnerInv'
  <2>1. PICK x : /\ row' = [row EXCEPT ![k] = x] /\ x.status # "none"
                 /\ x.external_reference => x.status = "completed"
    BY <1>2, CompensatedRow
  <2> QED
    BY <1>2, <2>1, OwnerRelease
<1>3. CASE SkipResolved(w, k)
  BY <1>1, <1>3 DEF SkipResolved, CanResolve, tables, apiVars
<1>4. CASE RecoverPendingCircuitOpen(w, k)
  BY <1>2, <1>4 DEF RecoverPendingCircuitOpen, CanResolve, apiVars
<1>5. CASE WorkerCompensate(w, k)
  <2>1. k \in batch[w] /\ row[k].status = "pending"
    BY <1>5 DEF WorkerCompensate, OwnerInv, ClaimedRow
  <2> QED
    BY <1>2, <1>5, <2>1 DEF WorkerCompensate, apiVars
<1>6. CASE WorkerComplete(w, k)
  <2>1. k \in batch[w] /\ row[k].status = "pending"
    BY <1>6 DEF WorkerComplete, OwnerInv, ClaimedRow
  <2>x. PICK x : x = CompletedRow(row[k])
    OBVIOUS
  <2>2. x.status = "completed"
    BY <1>0, <2>x, UpdatedRows
  <2>3. x.status # "none" /\ (x.external_reference => x.status = "completed")
    BY <2>2
  <2>4. /\ row' = [row EXCEPT ![k] = x] /\ Release(w, k) /\ UNCHANGED <<pc, req>>
    BY <1>6, <2>x DEF WorkerComplete, apiVars
  <2> QED
    BY <2>1, <2>3, <2>4, OwnerRelease
<1>7. CASE RecoverSubmittedNoReference(w, k)
  <2>1. /\ k \in batch[w] /\ Release(w, k) /\ UNCHANGED <<pc, req>>
        /\ row[k].status = "submitted"
        /\ WriteCompensation(k) \/ row' = row
    BY <1>7 DEF RecoverSubmittedNoReference, CanResolve, apiVars, tables
  <2> QED
    BY <1>1, <1>2, <2>1
<1>8. ASSUME NEW state \in QueryStates, RecoverSubmittedByReference(w, k, state) PROVE FALSE
  BY <1>8 DEF RecoverSubmittedByReference, OwnerInv, ReferenceRow
<1>9. CASE WorkerRailAccepts(w, k) \/ WorkerRailRejects(w, k)
  <2>1. UNCHANGED <<row, batch, rowLock, pc, req>>
    BY <1>9 DEF WorkerRailAccepts, WorkerRailRejects, tables, apiVars
  <2> QED
    BY <2>1, OwnerFrame
<1>10. CASE RecoverPendingSend(w, k)
  <2>1. /\ k \in batch[w] /\ row[k].status = "pending"
        /\ rowLock' = [rowLock EXCEPT ![k] = w]
        /\ UNCHANGED <<row, batch, pc, req>>
    BY <1>10 DEF RecoverPendingSend, CanResolve, tables, apiVars
  <2>2. rowLock'[k] = w /\ \A j \in Keys : j # k => rowLock'[j] = rowLock[j]
    BY <2>1 DEF TypeOK, WorkersTyped
  <2>3. OneHandler' /\ HandledRow' /\ ReferenceRow'
    BY <2>1 DEF OwnerInv, OneHandler, HandledRow, ReferenceRow
  <2>4. ClaimedRow'
    <3>1. ASSUME NEW v \in Workers, NEW j \in Keys
          PROVE  /\ j \in batch'[v] => row'[j].status # "none"
                 /\ rowLock'[j] = v => j \in batch'[v] /\ row'[j].status = "pending"
      BY <2>1, <2>2 DEF OwnerInv, ClaimedRow
    <3> QED
      BY <3>1 DEF ClaimedRow
  <2> QED
    BY <2>3, <2>4 DEF OwnerInv
<1> QED
  BY <1>3, <1>4, <1>5, <1>6, <1>7, <1>8, <1>9, <1>10

\* So do the claim and the crash of a recovery run: what it claims has no live handler.
LEMMA OwnerWorkerStep ==
    ASSUME TypeOK, LockInv, OwnerInv, TypeOK', NEW w \in Workers, Claim(w) \/ CrashWorker(w)
    PROVE  OwnerInv'
<1>1. CASE Claim(w)
  <2>1. PICK ids \in SUBSET Keys : /\ \A k \in ids : Stuck(k)
                                   /\ batch' = [batch EXCEPT ![w] = ids]
    BY <1>1 DEF Claim
  <2>2. UNCHANGED <<row, rowLock, pc, req>> /\ wpc[w] = "idle"
    BY <1>1 DEF Claim, tables, apiVars
  <2>3. batch'[w] = ids /\ \A v \in Workers : v # w => batch'[v] = batch[v]
    BY <2>1 DEF TypeOK, WorkersTyped
  <2>4. \A k \in Keys : rowLock[k] # w
    BY <2>2 DEF LockInv
  <2>5. \A s \in Reqs : pc[s] \in SagaPoints => req[s].key \notin ids
    BY <2>1 DEF Stuck, OwnerInv, HandledRow
  <2>6. OneHandler' /\ ReferenceRow'
    BY <2>2 DEF OwnerInv, OneHandler, ReferenceRow
  <2>7. HandledRow'
    BY <2>2, <2>3, <2>5 DEF OwnerInv, HandledRow
  <2>8. ClaimedRow'
    <3>1. ASSUME NEW v \in Workers, NEW j \in Keys
          PROVE  /\ j \in batch'[v] => row[j].status # "none"
                 /\ rowLock[j] = v => j \in batch'[v] /\ row[j].status = "pending"
      <4>1. CASE v = w
        BY <2>1, <2>3, <2>4, <4>1 DEF Stuck
      <4>2. CASE v # w
        BY <2>3, <4>2 DEF OwnerInv, ClaimedRow
      <4> QED
        BY <4>1, <4>2
    <3> QED
      BY <2>2, <3>1 DEF ClaimedRow
  <2> QED
    BY <2>6, <2>7, <2>8 DEF OwnerInv
<1>2. CASE CrashWorker(w)
  <2>1. /\ rowLock' = [k \in Keys |-> IF rowLock[k] = w THEN Nobody ELSE rowLock[k]]
        /\ batch' = [batch EXCEPT ![w] = {}]
        /\ UNCHANGED <<row, pc, req>>
    BY <1>2 DEF CrashWorker, tables, apiVars
  <2>2. batch'[w] = {} /\ \A v \in Workers : v # w => batch'[v] = batch[v]
    BY <2>1 DEF TypeOK, WorkersTyped
  <2>3. \A v \in Workers, j \in Keys : rowLock'[j] = v => v # w /\ rowLock[j] = v
    BY <2>1, NobodyAssumption
  <2>4. OneHandler' /\ ReferenceRow'
    BY <2>1 DEF OwnerInv, OneHandler, ReferenceRow
  <2>5. HandledRow'
    BY <2>1, <2>2 DEF OwnerInv, HandledRow
  <2>6. ClaimedRow'
    BY <2>1, <2>2, <2>3 DEF OwnerInv, ClaimedRow
  <2> QED
    BY <2>4, <2>5, <2>6 DEF OwnerInv
<1> QED
  BY <1>1, <1>2

\* With prompt handlers no step lets two actors drive one withdrawal.
LEMMA OwnerStep ==
    ASSUME PromptHandlers
    PROVE  TypeOK /\ LockInv /\ OwnerInv /\ [Next]_vars => OwnerInv'
<1> SUFFICES ASSUME TypeOK, LockInv, OwnerInv, [Next]_vars PROVE OwnerInv'
  OBVIOUS
<1>1. TypeOK'
  BY TypeStep
<1>2. ASSUME UNCHANGED <<row, batch, rowLock, pc, req>> PROVE OwnerInv'
  BY <1>1, <1>2, OwnerFrame
<1>3. CASE UNCHANGED vars
  BY <1>2, <1>3 DEF vars
<1>4. ASSUME NEW r \in Reqs, CrashRequest(r) PROVE OwnerInv'
  <2>1. \A s \in Reqs : pc'[s] \in SagaPoints => s # r /\ pc'[s] = pc[s] /\ req'[s] = req[s]
    BY <1>4 DEF CrashRequest, Finish, TypeOK, HandlersTyped, SagaPoints
  <2>2. UNCHANGED <<row, batch, rowLock>>
    BY <1>4 DEF CrashRequest, tables, workerVars
  <2> QED
    BY <1>1, <2>1, <2>2, OwnerFrame
<1>5. ASSUME NEW r \in Reqs, NEW k \in Keys, NEW p \in Params, Receive(r, k, p) PROVE OwnerInv'
  <2>1. \A s \in Reqs : pc'[s] \in SagaPoints => s # r /\ pc'[s] = pc[s] /\ req'[s] = req[s]
    BY <1>5 DEF Receive, Goto, TypeOK, HandlersTyped, SagaPoints
  <2>2. UNCHANGED <<row, batch, rowLock>>
    BY <1>5 DEF Receive, tables, workerVars
  <2> QED
    BY <1>1, <2>1, <2>2, OwnerFrame
<1>6. ASSUME NEW k \in Keys, CacheExpire(k) PROVE OwnerInv'
  BY <1>2, <1>6 DEF CacheExpire, tables, apiVars, workerVars
<1>7. ASSUME NEW k \in Keys, Age(k) PROVE OwnerInv'
  <2>a. PICK age : age = IF row[k].age = "fresh" THEN "stuck" ELSE "expired"
    OBVIOUS
  <2>x. PICK x : x = [row[k] EXCEPT !.age = age]
    OBVIOUS
  <2>1. /\ row' = [row EXCEPT ![k] = x]
        /\ row[k].status \in {"pending", "submitted"}
        /\ \A s \in Reqs : ~(pc[s] \in SagaPoints /\ req[s].key = k)
        /\ UNCHANGED <<batch, rowLock, pc, req>>
    BY <1>7, <2>a, <2>x DEF Age, HandlerOf, apiVars, workerVars
  <2>2. x.status = row[k].status /\ x.external_reference = row[k].external_reference
    BY <2>x DEF TypeOK, TablesTyped, Rows
  <2>3. row'[k] = x /\ \A j \in Keys : j # k => row'[j] = row[j]
    BY <2>1 DEF TypeOK, TablesTyped
  <2>4. \A j \in Keys : /\ row'[j].status = row[j].status
                        /\ row'[j].external_reference = row[j].external_reference
    BY <2>2, <2>3
  <2>5. \A s \in Reqs : pc[s] \in SagaPoints => row'[req[s].key] = row[req[s].key]
    BY <2>1, <2>3 DEF TypeOK, HandlersTyped, Requests, Points, SagaPoints
  <2>6. OneHandler'
    BY <2>1 DEF OwnerInv, OneHandler
  <2>7. HandledRow'
    BY <2>1, <2>5 DEF OwnerInv, HandledRow
  <2>8. ClaimedRow' /\ ReferenceRow'
    BY <2>1, <2>4 DEF OwnerInv, ClaimedRow, ReferenceRow
  <2> QED
    BY <2>6, <2>7, <2>8 DEF OwnerInv
<1> QED
  BY <1>1, <1>3, <1>4, <1>5, <1>6, <1>7, OwnerRequestStep, OwnerResolveStep, OwnerWorkerStep
  DEF Next

-----------------------------------------------------------------------------
(* Prompt handlers: money moves once *)

\* Whoever completes or compensates a row does so to one that is unfinished.
LEMMA SettlesUnfinished ==
    ASSUME TypeOK, OwnerInv, NEW k \in Keys, Completes(k) \/ Fails(k)
    PROVE  row[k].status \in {"pending", "submitted"}
<1>1. ASSUME NEW r \in Reqs, pc[r] \in SagaPoints, req[r].key = k
      PROVE  row[k].status \in {"pending", "submitted"}
  BY <1>1 DEF OwnerInv, HandledRow
<1>2. ASSUME NEW w \in Workers, rowLock[k] = w
      PROVE  row[k].status \in {"pending", "submitted"}
  BY <1>2 DEF OwnerInv, ClaimedRow
<1> QED
  BY <1>1, <1>2 DEF Completes, Fails, Completing, Failing, SagaPoints

\* What a step does to a row when every row has one owner.
OwnedRowEffect(k) ==
    \/ row'[k].status = row[k].status /\ row'[k].params = row[k].params
    \/ /\ {row[k].status, row'[k].status} \subseteq {"pending", "submitted"}
       /\ row'[k].params = row[k].params

\* A quiet step finishes no withdrawal and reopens none.
LEMMA QuietRows ==
    ASSUME TypeOK, OwnerInv, Quiet, NEW j \in Keys
    PROVE  OwnedRowEffect(j)
<1>1. CASE row' = row
  BY <1>1 DEF OwnedRowEffect
<1>2. ASSUME NEW r \in Reqs, MarkSubmitted(r) PROVE OwnedRowEffect(j)
  <2>k. PICK k \in Keys : k = req[r].key
    BY <1>2 DEF MarkSubmitted, TypeOK, HandlersTyped, Requests
  <2>x. PICK x : x = [row[k] EXCEPT !.status = "submitted", !.age = "fresh"]
    OBVIOUS
  <2>1. row' = [row EXCEPT ![k] = x] /\ pc[r] = "submit"
    BY <1>2, <2>k, <2>x DEF MarkSubmitted
  <2>2. x.status = "submitted" /\ x.params = row[k].params
    BY <2>x DEF TypeOK, TablesTyped, Rows
  <2>3. row'[k] = x /\ \A i \in Keys : i # k => row'[i] = row[i]
    BY <2>1 DEF TypeOK, TablesTyped
  <2>4. row[k].status = "pending"
    BY <2>k, <2>1 DEF OwnerInv, HandledRow, SagaPoints, Early
  <2>5. CASE j = k
    BY <2>2, <2>3, <2>4, <2>5 DEF OwnedRowEffect
  <2>6. CASE j # k
    BY <2>3, <2>6 DEF OwnedRowEffect
  <2> QED
    BY <2>5, <2>6
<1>3. ASSUME NEW k \in Keys, Age(k) PROVE OwnedRowEffect(j)
  <2>a. PICK age : age = IF row[k].age = "fresh" THEN "stuck" ELSE "expired"
    OBVIOUS
  <2>x. PICK x : x = [row[k] EXCEPT !.age = age]
    OBVIOUS
  <2>1. row' = [row EXCEPT ![k] = x]
    BY <1>3, <2>a, <2>x DEF Age
  <2>2. x.status = row[k].status /\ x.params = row[k].params
    BY <2>x DEF TypeOK, TablesTyped, Rows
  <2>3. row'[k] = x /\ \A i \in Keys : i # k => row'[i] = row[i]
    BY <2>1 DEF TypeOK, TablesTyped
  <2> QED
    BY <2>2, <2>3 DEF OwnedRowEffect
<1> QED
  BY <1>1, <1>2, <1>3 DEF Quiet

\* A withdrawal has been given back exactly if its row says so.
ReturnedInv == \A k \in Keys : Reversed(k) <=> row[k].status = "failed"

\* A row is marked failed by the transaction that posts its reversal, and a row that is
\* failed is never written again: its handler has gone and recovery skips it.
LEMMA ReturnedStep ==
    TablesInv /\ OwnerInv /\ ReturnedInv /\ [Next]_vars => ReturnedInv'
<1> SUFFICES ASSUME TablesInv, OwnerInv, ReturnedInv, [Next]_vars, NEW j \in Keys
             PROVE  Reversed(j)' <=> row'[j].status = "failed"
  BY DEF ReturnedInv
<1> USE DEF TablesInv
<1>1. Reversed(j) <=> row[j].status = "failed"
  BY DEF ReturnedInv
<1>2. CASE Quiet
  <2>1. Reversed(j)' <=> Reversed(j)
    BY <1>2 DEF Quiet, Reversed, Reversals
  <2>2. OwnedRowEffect(j)
    BY <1>2, QuietRows
  <2> QED
    BY <1>1, <2>1, <2>2 DEF OwnedRowEffect
<1>3. ASSUME NEW r \in Reqs, ReserveFunds(r) PROVE Reversed(j)' <=> row'[j].status = "failed"
  <2>k. PICK k \in Keys : k = req[r].key
    BY <1>3 DEF TypeOK, HandlersTyped, ReserveFunds, Requests
  <2>p. PICK p \in Params : p = req[r].params
    BY <1>3 DEF TypeOK, HandlersTyped, ReserveFunds, Requests
  <2>1. ledger' = ledger \cup DebitLegs(k, p) /\ row[k].status = "none"
    BY <1>3, <2>k, <2>p DEF ReserveFunds
  <2>2. row'[k].status = "pending" /\ \A i \in Keys : i # k => row'[i] = row[i]
    BY <1>3, <2>k DEF ReserveFunds, TypeOK, TablesTyped
  <2>3. Reversed(j)' <=> Reversed(j)
    BY <2>1, DebitPosting DEF Reversed, Reversals
  <2> QED
    BY <1>1, <2>1, <2>2, <2>3
<1>4. ASSUME NEW k \in Keys, Completes(k) PROVE Reversed(j)' <=> row'[j].status = "failed"
  <2>1. Reversed(j)' <=> Reversed(j)
    BY <1>4 DEF Completes, Reversed, Reversals
  <2>2. row[k].status \in {"pending", "submitted"}
    BY <1>4, SettlesUnfinished
  <2>3. row[k] \in Rows
    BY DEF TypeOK, TablesTyped
  <2>4. row'[k].status = "completed" /\ \A i \in Keys : i # k => row'[i] = row[i]
    BY <1>4, <2>3, UpdatedRows DEF Completes, TypeOK, TablesTyped
  <2> QED
    BY <1>1, <2>1, <2>2, <2>4
<1>5. ASSUME NEW k \in Keys, Fails(k) PROVE Reversed(j)' <=> row'[j].status = "failed"
  <2>1. row[k] \in Rows
    BY DEF TypeOK, TablesTyped
  <2>2. row'[k].status = "failed" /\ \A i \in Keys : i # k => row'[i] = row[i]
    BY <1>5, <2>1, UpdatedRows DEF Fails, TypeOK, TablesTyped
  <2>3. CASE j = k
    BY <1>5, <2>2, <2>3, FirstReversal DEF Reversed
  <2>4. CASE j # k
    <3>1. Reversals(j)' = Reversals(j)
      BY <1>5, <2>4, FirstReversal
    <3> QED
      BY <1>1, <2>2, <2>4, <3>1 DEF Reversed
  <2> QED
    BY <2>3, <2>4
<1> QED
  BY <1>2, <1>3, <1>4, <1>5, TableStep

\* Somebody alive knows of a payout of k that no row records yet.
KnownPayout(k) ==
    \/ \E r \in Reqs : pc[r] = "accepted" /\ req[r].key = k
    \/ \E w \in Workers : wpc[w] = "accepted" /\ rowLock[k] = w

\* Unless a success was lost, the rail has paid what is recorded or about to be, once.
PayoutInv ==
    \A k \in Keys \ lost :
        payouts[k] = IF row[k].status = "completed" \/ KnownPayout(k) THEN 1 ELSE 0

\* A row is completed by a commit of its completion, and stays completed.
LEMMA CompletedRows ==
    ASSUME TypeOK, OwnerInv, [Next]_vars, NEW j \in Keys, ~Completes(j)
    PROVE  row'[j].status = "completed" <=> row[j].status = "completed"
<1>1. CASE Quiet
  BY <1>1, QuietRows DEF OwnedRowEffect
<1>2. ASSUME NEW r \in Reqs, ReserveFunds(r)
      PROVE  row'[j].status = "completed" <=> row[j].status = "completed"
  <2>k. PICK k \in Keys : k = req[r].key
    BY <1>2 DEF TypeOK, HandlersTyped, ReserveFunds, Requests
  <2>1. row'[k].status = "pending" /\ \A i \in Keys : i # k => row'[i] = row[i]
    BY <1>2, <2>k DEF ReserveFunds, TypeOK, TablesTyped
  <2>2. row[k].status = "none"
    BY <1>2, <2>k DEF ReserveFunds
  <2> QED
    BY <2>1, <2>2
<1>3. ASSUME NEW k \in Keys, Completes(k)
      PROVE  row'[j].status = "completed" <=> row[j].status = "completed"
  BY <1>3 DEF Completes, TypeOK, TablesTyped
<1>4. ASSUME NEW k \in Keys, Fails(k)
      PROVE  row'[j].status = "completed" <=> row[j].status = "completed"
  <2>1. row[k] \in Rows
    BY DEF TypeOK, TablesTyped
  <2>2. row'[k].status = "failed" /\ \A i \in Keys : i # k => row'[i] = row[i]
    BY <1>4, <2>1, UpdatedRows DEF Fails, TypeOK, TablesTyped
  <2>3. row[k].status \in {"pending", "submitted"}
    BY <1>4, SettlesUnfinished
  <2> QED
    BY <2>2, <2>3
<1> QED
  BY <1>1, <1>2, <1>3, <1>4, TableStep

\* A payout that somebody knows of is of an unfinished row.
LEMMA KnownIsUnfinished ==
    ASSUME TypeOK, OwnerInv, NEW k \in Keys, KnownPayout(k)
    PROVE  row[k].status \in {"pending", "submitted"}
BY DEF OwnerInv, HandledRow, ClaimedRow, KnownPayout, SagaPoints, Early

\* PayoutInv survives, for one withdrawal, a step that neither pays, records nor forgets.
LEMMA PayoutFrame ==
    ASSUME TypeOK, OwnerInv, PayoutInv, [Next]_vars, NEW j \in Keys, j \notin lost,
           ~Completes(j), payouts'[j] = payouts[j], KnownPayout(j)' <=> KnownPayout(j)
    PROVE  payouts'[j] = IF row'[j].status = "completed" \/ KnownPayout(j)' THEN 1 ELSE 0
<1>1. row'[j].status = "completed" <=> row[j].status = "completed"
  BY CompletedRows
<1>2. payouts[j] = IF row[j].status = "completed" \/ KnownPayout(j) THEN 1 ELSE 0
  BY DEF PayoutInv
<1> QED
  BY <1>1, <1>2

\* A handler's step that is neither a payout nor the end of one leaves what is known.
LEMMA KnownByHandlers ==
    ASSUME TypeOK, UNCHANGED <<wpc, rowLock>>, NEW j \in Keys,
           \A s \in Reqs : (pc'[s] = "accepted" /\ req'[s].key = j)
                             <=> (pc[s] = "accepted" /\ req[s].key = j)
    PROVE  KnownPayout(j)' <=> KnownPayout(j)
BY DEF KnownPayout

\* So does such a step of a recovery run.
LEMMA KnownByWorkers ==
    ASSUME TypeOK, UNCHANGED <<pc, req>>, NEW j \in Keys,
           \A v \in Workers : (wpc'[v] = "accepted" /\ rowLock'[j] = v)
                                <=> (wpc[v] = "accepted" /\ rowLock[j] = v)
    PROVE  KnownPayout(j)' <=> KnownPayout(j)
BY DEF KnownPayout

\* The steps of a handler keep PayoutInv.
LEMMA PayoutRequestStep ==
    ASSUME TypeOK, OwnerInv, PayoutInv, [Next]_vars, NEW r \in Reqs,
           RequestStep(r) \/ CrashRequest(r) \/ (\E k \in Keys, p \in Params : Receive(r, k, p)),
           NEW j \in Keys, j \notin lost'
    PROVE  payouts'[j] = IF row'[j].status = "completed" \/ KnownPayout(j)' THEN 1 ELSE 0
<1> DEFINE Goal == payouts'[j] = IF row'[j].status = "completed" \/ KnownPayout(j)' THEN 1 ELSE 0
<1>0. ASSUME pc[r] # "idle" PROVE req[r].key \in Keys
  BY <1>0 DEF TypeOK, HandlersTyped, Requests
<1>1. /\ j \notin lost
      /\ UNCHANGED <<wpc, rowLock>>
  BY DEF RequestStep, CacheHit, CacheMiss, LockAccount, RefuseInsufficient, BalanceSuffices,
     ReturnExisting, ReserveFunds, CacheResponse, MarkSubmitted, RailAccepts, RailRejects,
     Complete, Compensate, CrashRequest, Receive, workerVars
<1>p. payouts[j] = IF row[j].status = "completed" \/ KnownPayout(j) THEN 1 ELSE 0
  BY <1>1 DEF PayoutInv
<1>n. ASSUME NEW i \in Keys, Completes(i) PROVE Complete(r) /\ i = req[r].key
  <2>1. row[i].status \in {"pending", "submitted"} /\ row[i] \in Rows
    BY <1>n, SettlesUnfinished DEF TypeOK, TablesTyped
  <2>2. row'[i].status = "completed"
    BY <1>n, <2>1, UpdatedRows DEF Completes, TypeOK, TablesTyped
  <2>3. CASE Complete(r)
    <3>1. row' = [row EXCEPT ![req[r].key] = CompletedRow(@)] /\ req[r].key \in Keys
      BY <1>0, <2>3 DEF Complete
    <3>2. i # req[r].key => row'[i] = row[i]
      BY <3>1 DEF TypeOK, TablesTyped
    <3> QED
      BY <2>1, <2>2, <2>3, <3>2
  <2>4. CASE ReserveFunds(r)
    <3>1. row'[req[r].key].status = "pending" /\ (i # req[r].key => row'[i] = row[i])
      BY <1>0, <2>4 DEF ReserveFunds, TypeOK, TablesTyped
    <3> QED
      BY <2>1, <2>2, <3>1
  <2>5. CASE MarkSubmitted(r)
    <3>1. row'[req[r].key].status = "submitted" /\ (i # req[r].key => row'[i] = row[i])
      BY <1>0, <2>5 DEF MarkSubmitted, TypeOK, TablesTyped, Rows
    <3> QED
      BY <2>1, <2>2, <3>1
  <2>6. CASE Compensate(r)
    <3>1. PICK k \in Keys : k = req[r].key /\ WriteCompensation(k)
      BY <1>0, <2>6 DEF Compensate
    <3>2. row[k] \in Rows
      BY DEF TypeOK, TablesTyped
    <3>3. row' = row \/ row' = [row EXCEPT ![k] = FailedRow(@)]
      BY <3>1, CompensationEffect DEF tables
    <3>4. row'[i] = row[i] \/ row'[i].status = "failed"
      BY <3>2, <3>3, UpdatedRows DEF TypeOK, TablesTyped
    <3> QED
      BY <2>1, <2>2, <3>4
  <2>7. ASSUME ~Complete(r), ~ReserveFunds(r), ~MarkSubmitted(r), ~Compensate(r)
        PROVE  row' = row
    BY <2>7 DEF RequestStep, CacheHit, CacheMiss, LockAccount, RefuseInsufficient,
       BalanceSuffices, ReturnExisting, CacheResponse, RailAccepts, RailRejects, CrashRequest,
       Receive, tables
  <2> QED
    BY <2>1, <2>2, <2>3, <2>4, <2>5, <2>6, <2>7
<1>2. CASE RailAccepts(r)
  <2>k. PICK k \in Keys : k = req[r].key
    BY <1>0, <1>2 DEF RailAccepts
  <2>1. /\ pc[r] = "send" /\ UNCHANGED <<row, req>>
        /\ payouts' = [payouts EXCEPT ![k] = @ + 1]
        /\ pc' = [pc EXCEPT ![r] = "accepted"]
    BY <1>2, <2>k DEF RailAccepts, Goto, tables
  <2>2. pc'[r] = "accepted" /\ \A s \in Reqs : s # r => pc'[s] = pc[s]
    BY <2>1 DEF TypeOK, HandlersTyped
  <2>3. CASE j = k
    <3>1. row[k].status = "submitted" /\ \A w \in Workers : rowLock[k] # w
      BY <2>k, <2>1 DEF OwnerInv, HandledRow, ClaimedRow, SagaPoints, Early
    <3>2. \A s \in Reqs : pc[s] = "accepted" => req[s].key # k
      BY <2>k, <2>1 DEF OwnerInv, OneHandler, SagaPoints
    <3>3. ~KnownPayout(j)
      BY <2>3, <3>1, <3>2 DEF KnownPayout
    <3>4. payouts[j] = 0
      BY <1>p, <2>3, <3>1, <3>3
    <3>5. payouts'[j] = 1
      BY <2>1, <2>3, <3>4 DEF TypeOK, HistoryTyped
    <3>6. KnownPayout(j)'
      BY <2>k, <2>1, <2>2, <2>3 DEF KnownPayout
    <3> QED
      BY <3>5, <3>6
  <2>4. CASE j # k
    <3>1. payouts'[j] = payouts[j]
      BY <2>1, <2>4 DEF TypeOK, HistoryTyped
    <3>2. \A s \in Reqs : (pc'[s] = "accepted" /\ req'[s].key = j)
                             <=> (pc[s] = "accepted" /\ req[s].key = j)
      BY <2>k, <2>1, <2>2, <2>4
    <3>3. KnownPayout(j)' <=> KnownPayout(j)
      BY <1>1, <3>2, KnownByHandlers
    <3>4. ~Completes(j)
      BY <1>2, <1>n DEF RailAccepts, Complete
    <3> QED
      BY <1>1, <3>1, <3>3, <3>4, PayoutFrame
  <2> QED
    BY <2>3, <2>4
<1>3. CASE Complete(r)
  <2>k. PICK k \in Keys : k = req[r].key
    BY <1>0, <1>3 DEF Complete
  <2>1. /\ pc[r] = "accepted" /\ payouts' = payouts
        /\ row' = [row EXCEPT ![k] = CompletedRow(@)]
        /\ pc' = [pc EXCEPT ![r] = "idle"] /\ req' = [req EXCEPT ![r] = Idle]
    BY <1>3, <2>k DEF Complete, Finish
  <2>2. CASE j = k
    <3>1. KnownPayout(j)
      BY <2>k, <2>1, <2>2 DEF KnownPayout
    <3>2. payouts'[j] = 1
      BY <1>p, <2>1, <3>1
    <3>3. row[k] \in Rows
      BY DEF TypeOK, TablesTyped
    <3>4. row'[j].status = "completed"
      BY <2>1, <2>2, <3>3, UpdatedRows DEF TypeOK, TablesTyped
    <3> QED
      BY <3>2, <3>4
  <2>3. CASE j # k
    <3>1. \A s \in Reqs : (pc'[s] = "accepted" /\ req'[s].key = j)
                             <=> (pc[s] = "accepted" /\ req[s].key = j)
      BY <2>k, <2>1, <2>3 DEF TypeOK, HandlersTyped
    <3>2. KnownPayout(j)' <=> KnownPayout(j)
      BY <1>1, <3>1, KnownByHandlers
    <3>3. ~Completes(j)
      BY <1>n, <2>k, <2>3
    <3> QED
      BY <1>1, <2>1, <3>2, <3>3, PayoutFrame
  <2> QED
    BY <2>2, <2>3
<1>4. CASE CrashRequest(r)
  <2>1. /\ payouts' = payouts
        /\ pc' = [pc EXCEPT ![r] = "idle"] /\ req' = [req EXCEPT ![r] = Idle]
        /\ pc[r] = "accepted" => req[r].key # j
    BY <1>4 DEF CrashRequest, Finish
  <2>2. \A s \in Reqs : (pc'[s] = "accepted" /\ req'[s].key = j)
                           <=> (pc[s] = "accepted" /\ req[s].key = j)
    BY <2>1 DEF TypeOK, HandlersTyped
  <2>3. KnownPayout(j)' <=> KnownPayout(j)
    BY <1>1, <2>2, KnownByHandlers
  <2>4. ~Completes(j)
    <3>1. row' = row /\ row[j] \in Rows
      BY <1>4 DEF CrashRequest, tables, TypeOK, TablesTyped
    <3>2. ASSUME Completes(j) PROVE FALSE
      <4>1. row'[j].status = "completed" /\ row[j].status # "completed"
        BY <3>1, <3>2, UpdatedRows, SettlesUnfinished DEF Completes, TypeOK, TablesTyped
      <4> QED
        BY <3>1, <4>1
    <3> QED
      BY <3>2
  <2> QED
    BY <1>1, <2>1, <2>3, <2>4, PayoutFrame
<1>5. ASSUME ~RailAccepts(r), ~Complete(r), ~CrashRequest(r) PROVE Goal
  <2>1. payouts' = payouts /\ pc[r] # "accepted"
    BY <1>5 DEF RequestStep, CacheHit, CacheMiss, LockAccount, RefuseInsufficient,
       BalanceSuffices, ReturnExisting, ReserveFunds, CacheResponse, MarkSubmitted,
       RailRejects, Compensate, Receive
  <2>2. \E point \in Points \ {"accepted"} : pc' = [pc EXCEPT ![r] = point]
    BY <1>5 DEF RequestStep, CacheHit, CacheMiss, LockAccount, RefuseInsufficient,
       BalanceSuffices, ReturnExisting, ReserveFunds, CacheResponse, MarkSubmitted,
       RailRejects, Compensate, Receive, Finish, Goto, Points, SagaPoints
  <2>3. req' = req \/ \E x : req' = [req EXCEPT ![r] = x]
    BY <1>5 DEF RequestStep, CacheHit, CacheMiss, LockAccount, RefuseInsufficient,
       BalanceSuffices, ReturnExisting, ReserveFunds, CacheResponse, MarkSubmitted,
       RailRejects, Compensate, Receive, Finish
  <2>4. \A s \in Reqs : (pc'[s] = "accepted" /\ req'[s].key = j)
                           <=> (pc[s] = "accepted" /\ req[s].key = j)
    BY <2>1, <2>2, <2>3 DEF TypeOK, HandlersTyped
  <2>5. KnownPayout(j)' <=> KnownPayout(j)
    BY <1>1, <2>4, KnownByHandlers
  <2>6. ~Completes(j)
    BY <1>5, <1>n
  <2> QED
    BY <1>1, <2>1, <2>5, <2>6, PayoutFrame
<1> QED
  BY <1>2, <1>3, <1>4, <1>5

\* The steps of a recovery run keep PayoutInv.
LEMMA PayoutWorkerStep ==
    ASSUME TypeOK, LockInv, OwnerInv, PayoutInv, [Next]_vars, NEW w \in Workers,
           Claim(w) \/ ResolveStep(w) \/ CrashWorker(w), NEW j \in Keys, j \notin lost'
    PROVE  payouts'[j] = IF row'[j].status = "completed" \/ KnownPayout(j)' THEN 1 ELSE 0
<1> DEFINE Goal == payouts'[j] = IF row'[j].status = "completed" \/ KnownPayout(j)' THEN 1 ELSE 0
<1>1. /\ j \notin lost
      /\ UNCHANGED <<pc, req>>
  BY DEF ResolveStep, SkipResolved, RecoverPendingCircuitOpen, RecoverPendingSend,
     WorkerRailAccepts, WorkerRailRejects, WorkerComplete, WorkerCompensate,
     RecoverSubmittedNoReference, RecoverSubmittedByReference, Claim, CrashWorker, apiVars
<1>p. payouts[j] = IF row[j].status = "completed" \/ KnownPayout(j) THEN 1 ELSE 0
  BY <1>1 DEF PayoutInv

\* A row that is not completed by the step has not been the object of a completion.
<1>n. ASSUME row'[j].status # "completed" \/ row' = row PROVE ~Completes(j)
  <2>1. ASSUME Completes(j) PROVE FALSE
    <3>1. row[j] \in Rows /\ row[j].status # "completed"
      BY <2>1, SettlesUnfinished DEF TypeOK, TablesTyped
    <3>2. row'[j].status = "completed"
      BY <2>1, <3>1, UpdatedRows DEF Completes, TypeOK, TablesTyped
    <3> QED
      BY <1>n, <3>1, <3>2
  <2> QED
    BY <2>1
<1>2. ASSUME payouts' = payouts, ~Completes(j),
             \A v \in Workers : (wpc'[v] = "accepted" /\ rowLock'[j] = v)
                                  <=> (wpc[v] = "accepted" /\ rowLock[j] = v)
      PROVE  Goal
  <2>1. KnownPayout(j)' <=> KnownPayout(j)
    BY <1>1, <1>2, KnownByWorkers
  <2>2. payouts'[j] = payouts[j]
    BY <1>2
  <2> QED
    BY <1>1, <1>2, <2>1, <2>2, PayoutFrame

\* The end of work on a row that the run had not paid out.
<1>3. ASSUME NEW k \in Keys, Release(w, k), payouts' = payouts, ~Completes(j),
             wpc[w] # "accepted", CanResolve(w, k) \/ rowLock[k] = w
      PROVE  Goal
  <2>1. /\ rowLock' = [rowLock EXCEPT ![k] = Nobody]
        /\ \E point \in {"idle", "resolve"} : wpc' = [wpc EXCEPT ![w] = point]
    BY <1>3 DEF Release, WGoto
  <2>2. wpc'[w] # "accepted" /\ \A v \in Workers : v # w => wpc'[v] = wpc[v]
    BY <2>1 DEF TypeOK, WorkersTyped
  <2>3. \A v \in Workers : v # w => (rowLock'[j] = v <=> rowLock[j] = v)
    BY <1>3, <2>1, NobodyAssumption DEF CanResolve, TypeOK, WorkersTyped
  <2> QED
    BY <1>2, <1>3, <2>2, <2>3
<1>4. CASE Claim(w)
  <2>1. /\ UNCHANGED <<row, payouts, rowLock>> /\ wpc[w] = "idle"
        /\ wpc' = [wpc EXCEPT ![w] = "resolve"]
    BY <1>4 DEF Claim, WGoto, tables
  <2>2. \A v \in Workers : wpc'[v] = "accepted" <=> wpc[v] = "accepted"
    BY <2>1 DEF TypeOK, WorkersTyped
  <2> QED
    BY <1>2, <1>n, <2>1, <2>2
<1>5. CASE CrashWorker(w)
  <2>1. /\ UNCHANGED <<row, payouts>>
        /\ rowLock' = [k \in Keys |-> IF rowLock[k] = w THEN Nobody ELSE rowLock[k]]
        /\ wpc' = [wpc EXCEPT ![w] = "idle"]
        /\ ~(wpc[w] = "accepted" /\ rowLock[j] = w)
    BY <1>5 DEF CrashWorker, WGoto, tables
  <2>2. \A v \in Workers : (wpc'[v] = "accepted" /\ rowLock'[j] = v)
                             <=> (wpc[v] = "accepted" /\ rowLock[j] = v)
    BY <2>1, NobodyAssumption DEF TypeOK, WorkersTyped
  <2> QED
    BY <1>2, <1>n, <2>1, <2>2
<1>6. CASE ResolveStep(w)
  <2> PICK k \in Keys :
        \/ SkipResolved(w, k)
        \/ RecoverPendingCircuitOpen(w, k) \/ RecoverPendingSend(w, k)
        \/ WorkerRailAccepts(w, k) \/ WorkerRailRejects(w, k)
        \/ WorkerComplete(w, k) \/ WorkerCompensate(w, k)
        \/ RecoverSubmittedNoReference(w, k)
        \/ \E state \in QueryStates : RecoverSubmittedByReference(w, k, state)
    BY <1>6 DEF ResolveStep
  <2>0. row[k] \in Rows
    BY DEF TypeOK, TablesTyped
  <2>c. ASSUME WriteCompensation(k), row[k].status \in {"pending", "submitted"}
        PROVE  ~Completes(j)
    <3>1. row' = row \/ row' = [row EXCEPT ![k] = FailedRow(@)]
      BY <2>c, CompensationEffect DEF tables
    <3>2. CASE row' = row
      BY <1>n, <3>2
    <3>3. CASE row' = [row EXCEPT ![k] = FailedRow(@)]
      <4>1. row'[k].status = "failed" /\ \A i \in Keys : i # k => row'[i] = row[i]
        BY <2>0, <3>3, UpdatedRows DEF TypeOK, TablesTyped
      <4>2. ASSUME Completes(j) PROVE FALSE
        <5>1. row[j].status \in {"pending", "submitted"}
          BY <4>2, SettlesUnfinished
        <5>2. row'[j].status = "completed"
          BY <1>n, <4>2
        <5> QED
          BY <4>1, <5>1, <5>2
      <4> QED
        BY <4>2
    <3> QED
      BY <3>1, <3>2, <3>3
  <2>1. CASE SkipResolved(w, k)
    <3>1. /\ Release(w, k) /\ UNCHANGED <<row, payouts>> /\ CanResolve(w, k)
          /\ wpc[w] = "resolve"
      BY <2>1 DEF SkipResolved, CanResolve, tables
    <3> QED
      BY <1>3, <1>n, <3>1
  <2>2. CASE RecoverPendingCircuitOpen(w, k)
    <3>1. /\ Release(w, k) /\ payouts' = payouts /\ CanResolve(w, k)
          /\ wpc[w] = "resolve" /\ WriteCompensation(k) /\ row[k].status = "pending"
      BY <2>2 DEF RecoverPendingCircuitOpen, CanResolve
    <3> QED
      BY <1>3, <2>c, <3>1
  <2>3. CASE WorkerCompensate(w, k)
    <3>1. /\ Release(w, k) /\ payouts' = payouts /\ rowLock[k] = w
          /\ wpc[w] = "rejected" /\ WriteCompensation(k)
      BY <2>3 DEF WorkerCompensate
    <3>2. row[k].status = "pending"
      BY <3>1 DEF OwnerInv, ClaimedRow
    <3> QED
      BY <1>3, <2>c, <3>1, <3>2
  <2>4. CASE RecoverSubmittedNoReference(w, k)
    <3>1. /\ Release(w, k) /\ payouts' = payouts /\ CanResolve(w, k)
          /\ wpc[w] = "resolve" /\ row[k].status = "submitted"
          /\ WriteCompensation(k) \/ row' = row
      BY <2>4 DEF RecoverSubmittedNoReference, CanResolve, tables
    <3>2. ~Completes(j)
      BY <1>n, <2>c, <3>1
    <3> QED
      BY <1>3, <3>1, <3>2
  <2>5. ASSUME NEW state \in QueryStates, RecoverSubmittedByReference(w, k, state) PROVE FALSE
    BY <2>5 DEF RecoverSubmittedByReference, OwnerInv, ReferenceRow
  <2>6. CASE RecoverPendingSend(w, k)
    <3>1. /\ UNCHANGED <<row, payouts>> /\ wpc[w] = "resolve" /\ rowLock[k] = Nobody
          /\ rowLock' = [rowLock EXCEPT ![k] = w]
          /\ wpc' = [wpc EXCEPT ![w] = "calling"]
      BY <2>6 DEF RecoverPendingSend, CanResolve, WGoto, tables
    <3>2. \A v \in Workers : (wpc'[v] = "accepted" /\ rowLock'[j] = v)
                               <=> (wpc[v] = "accepted" /\ rowLock[j] = v)
      BY <3>1, NobodyAssumption DEF TypeOK, WorkersTyped
    <3> QED
      BY <1>2, <1>n, <3>1, <3>2
  <2>7. CASE WorkerRailRejects(w, k)
    <3>1. /\ UNCHANGED <<row, payouts, rowLock>> /\ wpc[w] = "calling"
          /\ wpc' = [wpc EXCEPT ![w] = "rejected"]
      BY <2>7 DEF WorkerRailRejects, WGoto, tables
    <3>2. \A v \in Workers : wpc'[v] = "accepted" <=> wpc[v] = "accepted"
      BY <3>1 DEF TypeOK, WorkersTyped
    <3> QED
      BY <1>2, <1>n, <3>1, <3>2
  <2>8. CASE WorkerRailAccepts(w, k)
    <3>1. /\ UNCHANGED <<row, rowLock>> /\ wpc[w] = "calling" /\ rowLock[k] = w
          /\ payouts' = [payouts EXCEPT ![k] = @ + 1]
          /\ wpc' = [wpc EXCEPT ![w] = "accepted"]
      BY <2>8 DEF WorkerRailAccepts, WGoto, tables
    <3>2. wpc'[w] = "accepted" /\ \A v \in Workers : v # w => wpc'[v] = wpc[v]
      BY <3>1 DEF TypeOK, WorkersTyped
    <3>3. CASE j = k
      <4>1. row[k].status = "pending" /\ k \in batch[w]
        BY <3>1 DEF OwnerInv, ClaimedRow
      <4>2. \A s \in Reqs : pc[s] = "accepted" => req[s].key # k
        BY <4>1 DEF OwnerInv, HandledRow, SagaPoints
      <4>3. ~KnownPayout(j)
        BY <3>1, <3>3, <4>2 DEF KnownPayout
      <4>4. payouts[j] = 0
        BY <1>p, <3>3, <4>1, <4>3
      <4>5. payouts'[j] = 1
        BY <3>1, <3>3, <4>4 DEF TypeOK, HistoryTyped
      <4>6. KnownPayout(j)'
        BY <3>1, <3>2, <3>3 DEF KnownPayout
      <4> QED
        BY <4>5, <4>6
    <3>4. CASE j # k
      <4>1. payouts'[j] = payouts[j]
        BY <3>1, <3>4 DEF TypeOK, HistoryTyped
      <4>2. rowLock[j] # w
        BY <3>1, <3>4 DEF LockInv
      <4>3. \A v \in Workers : (wpc'[v] = "accepted" /\ rowLock'[j] = v)
                                 <=> (wpc[v] = "accepted" /\ rowLock[j] = v)
        BY <3>1, <3>2, <4>2
      <4>4. KnownPayout(j)' <=> KnownPayout(j)
        BY <1>1, <4>3, KnownByWorkers
      <4>5. ~Completes(j)
        BY <1>n, <3>1
      <4> QED
        BY <1>1, <4>1, <4>4, <4>5, PayoutFrame
    <3> QED
      BY <3>3, <3>4
  <2>9. CASE WorkerComplete(w, k)
    <3>1. /\ payouts' = payouts /\ wpc[w] = "accepted" /\ rowLock[k] = w
          /\ row' = [row EXCEPT ![k] = CompletedRow(@)]
          /\ rowLock' = [rowLock EXCEPT ![k] = Nobody]
          /\ \E point \in {"idle", "resolve"} : wpc' = [wpc EXCEPT ![w] = point]
      BY <2>9 DEF WorkerComplete, Release, WGoto
    <3>2. CASE j = k
      <4>1. KnownPayout(j)
        BY <3>1, <3>2 DEF KnownPayout
      <4>2. payouts'[j] = 1
        BY <1>p, <3>1, <4>1
      <4>3. row'[j].status = "completed"
        BY <2>0, <3>1, <3>2, UpdatedRows DEF TypeOK, TablesTyped
      <4> QED
        BY <4>2, <4>3
    <3>3. CASE j # k
      <4>1. rowLock[j] # w
        BY <3>1, <3>3 DEF LockInv
      <4>2. rowLock'[j] = rowLock[j] /\ row'[j] = row[j]
        BY <3>1, <3>3 DEF TypeOK, WorkersTyped, TablesTyped
      <4>3. \A v \in Workers : (wpc'[v] = "accepted" /\ rowLock'[j] = v)
                                 <=> (wpc[v] = "accepted" /\ rowLock[j] = v)
        BY <3>1, <4>1, <4>2 DEF TypeOK, WorkersTyped
      <4>4. ~Completes(j)
        <5>1. ASSUME Completes(j) PROVE FALSE
          <6>1. row[j].status \in {"pending", "submitted"}
            BY <5>1, SettlesUnfinished
          <6>2. row'[j].status = "completed"
            BY <1>n, <5>1
          <6> QED
            BY <4>2, <6>1, <6>2
        <5> QED
          BY <5>1
      <4> QED
        BY <1>2, <3>1, <4>3, <4>4
    <3> QED
      BY <3>2, <3>3
  <2> QED
    BY <2>1, <2>2, <2>3, <2>4, <2>5, <2>6, <2>7, <2>8, <2>9
<1> QED
  BY <1>4, <1>5, <1>6

\* No step pays out a withdrawal that has been paid out, unless that was forgotten.
LEMMA PayoutStep ==
    TypeOK /\ LockInv /\ OwnerInv /\ PayoutInv /\ [Next]_vars => PayoutInv'
<1> SUFFICES ASSUME TypeOK, LockInv, OwnerInv, PayoutInv, [Next]_vars,
                    NEW j \in Keys, j \notin lost'
             PROVE  payouts'[j] = IF row'[j].status = "completed" \/ KnownPayout(j)' THEN 1 ELSE 0
  BY DEF PayoutInv
<1>1. ASSUME UNCHANGED <<row, payouts, lost, pc, req, wpc, rowLock>>
      PROVE  payouts'[j] = IF row'[j].status = "completed" \/ KnownPayout(j)' THEN 1 ELSE 0
  <2>1. KnownPayout(j)' <=> KnownPayout(j)
    BY <1>1 DEF KnownPayout
  <2> QED
    BY <1>1, <2>1 DEF PayoutInv
<1>2. CASE UNCHANGED vars
  BY <1>1, <1>2 DEF vars
<1>3. ASSUME NEW k \in Keys, CacheExpire(k)
      PROVE  payouts'[j] = IF row'[j].status = "completed" \/ KnownPayout(j)' THEN 1 ELSE 0
  BY <1>1, <1>3 DEF CacheExpire, tables, apiVars, workerVars
<1>4. ASSUME NEW k \in Keys, Age(k)
      PROVE  payouts'[j] = IF row'[j].status = "completed" \/ KnownPayout(j)' THEN 1 ELSE 0
  <2>1. UNCHANGED <<payouts, lost, pc, req, wpc, rowLock, ledger, outbox>>
    BY <1>4 DEF Age, apiVars, workerVars
  <2>2. KnownPayout(j)' <=> KnownPayout(j)
    BY <2>1 DEF KnownPayout
  <2>3. Quiet
    BY <1>4, <2>1 DEF Quiet
  <2>4. row'[j].status = "completed" <=> row[j].status = "completed"
    BY <2>3, QuietRows DEF OwnedRowEffect
  <2> QED
    BY <2>1, <2>2, <2>4 DEF PayoutInv
<1> QED
  BY <1>2, <1>3, <1>4, PayoutRequestStep, PayoutWorkerStep DEF Next

\* The inductive invariant of MoneyMovesOnce.
OnceInv == TablesInv /\ OwnerInv /\ ReturnedInv /\ PayoutInv

\* It holds initially,
LEMMA OnceInit == Init => OnceInv
<1> SUFFICES ASSUME Init PROVE OnceInv
  OBVIOUS
<1>1. OwnerInv
  BY NobodyAssumption DEF Init, OwnerInv, OneHandler, HandledRow, ClaimedRow, ReferenceRow,
     SagaPoints, NoRow
<1>2. ReturnedInv
  <2>1. \A l \in ledger : l.entry_type = "seed"
    BY DEF Init, LegPair
  <2>2. \A k \in Keys : ~Reversed(k)
    BY <2>1 DEF Reversed, Reversals, LegsOf
  <2>3. \A k \in Keys : row[k].status = "none"
    BY DEF Init, NoRow
  <2> QED
    BY <2>2, <2>3 DEF ReturnedInv
<1>3. PayoutInv
  BY DEF Init, PayoutInv, KnownPayout, NoRow
<1> QED
  BY <1>1, <1>2, <1>3, TablesInit DEF OnceInv

\* every step of a system with prompt handlers keeps it,
LEMMA OnceStep ==
    ASSUME PromptHandlers
    PROVE  OnceInv /\ [Next]_vars => OnceInv'
BY TablesStep, OwnerStep, ReturnedStep, PayoutStep DEF OnceInv, TablesInv

\* and it leaves room for one movement of money only.
LEMMA OnceImplies == OnceInv => MoneyMovesOnce
<1> SUFFICES ASSUME OnceInv, NEW k \in Keys, k \notin lost
             PROVE  payouts[k] + Cardinality(Reversals(k)) <= 1
  BY DEF MoneyMovesOnce
<1> USE DEF OnceInv, TablesInv
<1>1. payouts[k] = IF row[k].status = "completed" \/ KnownPayout(k) THEN 1 ELSE 0
  BY DEF PayoutInv
<1>2. CASE Reversals(k) = {}
  <2>1. Cardinality(Reversals(k)) = 0
    BY <1>2, FS_EmptySet
  <2> QED
    BY <1>1, <2>1
<1>3. ASSUME NEW l \in Reversals(k) PROVE payouts[k] + Cardinality(Reversals(k)) <= 1
  <2>1. Reversals(k) = {l}
    BY <1>3 DEF ReversalInv
  <2>2. Cardinality(Reversals(k)) = 1
    BY <2>1, FS_Singleton
  <2>3. row[k].status = "failed"
    BY <2>1 DEF ReturnedInv, Reversed
  <2>4. ~KnownPayout(k)
    BY <2>3, KnownIsUnfinished
  <2> QED
    BY <1>1, <2>2, <2>3, <2>4
<1> QED
  BY <1>2, <1>3

\* As long as no live handler leaves its row alone for five minutes, recovery and the
\* handlers never both move the money of one withdrawal: it is paid out twice, or paid out
\* and given back, only after a crash lost a success of the rail that nobody had recorded.
THEOREM SagaMoneyMovesOnce ==
    ASSUME PromptHandlers
    PROVE  Spec => []MoneyMovesOnce
BY OnceInit, OnceStep, OnceImplies, PTL DEF Spec

-----------------------------------------------------------------------------
(* Prompt handlers: the saga implements one hold per withdrawal *)

\* The refinement mapping of Holds, part by part.
BalanceMap == [a \in Accounts |-> GetBalance(ledger, a)]

HoldMap == [k \in Keys |-> CASE row[k].status = "none" -> "none"
                             [] row[k].status = "completed" -> "paid"
                             [] row[k].status = "failed" -> "returned"
                             [] OTHER -> "held"]

ParamsMap == [k \in Keys |-> row[k].params]

\* What a row stands for, status by status.
LEMMA HoldMapValues ==
    ASSUME NEW k \in Keys
    PROVE  /\ row[k].status = "none" => HoldMap[k] = "none"
           /\ row[k].status = "completed" => HoldMap[k] = "paid"
           /\ row[k].status = "failed" => HoldMap[k] = "returned"
           /\ row[k].status \in {"pending", "submitted"} => HoldMap[k] = "held"
BY DEF HoldMap

\* The same in the next state.
LEMMA HoldMapValuesPrime ==
    ASSUME NEW k \in Keys
    PROVE  /\ row'[k].status = "none" => HoldMap'[k] = "none"
           /\ row'[k].status = "completed" => HoldMap'[k] = "paid"
           /\ row'[k].status = "failed" => HoldMap'[k] = "returned"
           /\ row'[k].status \in {"pending", "submitted"} => HoldMap'[k] = "held"
BY DEF HoldMap

\* Rows with the same status and parameters look the same.
LEMMA SameHold ==
    ASSUME NEW k \in Keys, row'[k] = row[k]
    PROVE  HoldMap'[k] = HoldMap[k] /\ ParamsMap'[k] = ParamsMap[k]
BY DEF HoldMap, ParamsMap

\* A committed withdrawal is about an account and an amount.
ParamsInv == \A k \in Keys : row[k].status # "none" => row[k].params \in Params

\* A row gets its parameters from the request that inserts it and keeps them.
LEMMA ParamsStep == TypeOK /\ OwnerInv /\ ParamsInv /\ [Next]_vars => ParamsInv'
<1> SUFFICES ASSUME TypeOK, OwnerInv, ParamsInv, [Next]_vars, NEW j \in Keys,
                    row'[j].status # "none"
             PROVE  row'[j].params \in Params
  BY DEF ParamsInv
<1>1. ASSUME row[j].status # "none", row'[j].params = row[j].params PROVE row'[j].params \in Params
  BY <1>1 DEF ParamsInv
<1>2. CASE Quiet
  BY <1>1, <1>2, QuietRows DEF OwnedRowEffect
<1>3. ASSUME NEW r \in Reqs, ReserveFunds(r) PROVE row'[j].params \in Params
  <2>1. req[r].key \in Keys /\ req[r].params \in Params
    BY <1>3 DEF TypeOK, HandlersTyped, ReserveFunds, Requests
  <2>2. /\ row'[req[r].key].params = req[r].params
        /\ j # req[r].key => row'[j] = row[j]
    BY <1>3, <2>1 DEF ReserveFunds, TypeOK, TablesTyped
  <2> QED
    BY <1>1, <2>1, <2>2
<1>4. ASSUME NEW k \in Keys, Completes(k) \/ Fails(k) PROVE row'[j].params \in Params
  <2>1. row[k].status \in {"pending", "submitted"} /\ row[k] \in Rows
    BY <1>4, SettlesUnfinished DEF TypeOK, TablesTyped
  <2>2. row'[k].params = row[k].params /\ (j # k => row'[j] = row[j])
    BY <1>4, <2>1, UpdatedRows DEF Completes, Fails, TypeOK, TablesTyped
  <2> QED
    BY <1>1, <2>1, <2>2
<1> QED
  BY <1>2, <1>3, <1>4, TableStep

\* The funds reserved by TX 1 are a hold.
LEMMA ReserveIsHold ==
    ASSUME FundsIInv, NEW r \in Reqs, ReserveFunds(r)
    PROVE  \E k \in Keys, p \in Params : Holds!Hold(k, p)
<1> USE DEF FundsIInv, TablesInv
<1>k. PICK k \in Keys : k = req[r].key
  BY DEF TypeOK, HandlersTyped, ReserveFunds, Requests
<1>p. PICK p \in Params : p = req[r].params
  BY DEF TypeOK, HandlersTyped, ReserveFunds, Requests
<1>1. /\ ledger' = ledger \cup DebitLegs(k, p) /\ row[k].status = "none" /\ pc[r] = "insert"
      /\ row' = [row EXCEPT ![k] = [status |-> "pending", params |-> p,
                                    external_reference |-> FALSE, age |-> "fresh"]]
  BY <1>k, <1>p DEF ReserveFunds
<1>2. /\ row'[k].status = "pending" /\ row'[k].params = p
      /\ \A j \in Keys : j # k => row'[j] = row[j]
  BY <1>1 DEF TypeOK, TablesTyped
<1>3. p.account \in Accounts
  BY DEF Params
<1>4. BalanceMap[p.account] >= p.amount
  BY <1>p, <1>1, <1>3 DEF FundsInv, BalanceMap
<1>5. BalanceMap' = [BalanceMap EXCEPT ![p.account] = @ - p.amount]
  <2>1. \A a \in Accounts :
            GetBalance(ledger', a) = IF a = p.account THEN GetBalance(ledger, a) - p.amount
                                                      ELSE GetBalance(ledger, a)
    BY <1>1, DebitMoves
  <2> QED
    BY <1>3, <2>1 DEF BalanceMap
<1>6. HoldMap[k] = "none"
  BY <1>1, HoldMapValues
<1>7. HoldMap' = [HoldMap EXCEPT ![k] = "held"]
  <2>1. HoldMap'[k] = "held"
    BY <1>2, HoldMapValuesPrime
  <2>2. \A j \in Keys : j # k => HoldMap'[j] = HoldMap[j]
    BY <1>2, SameHold
  <2>3. HoldMap = [j \in Keys |-> HoldMap[j]] /\ HoldMap' = [j \in Keys |-> HoldMap'[j]]
    BY DEF HoldMap
  <2> QED
    BY <2>1, <2>2, <2>3
<1>8. ParamsMap' = [ParamsMap EXCEPT ![k] = p]
  BY <1>2 DEF ParamsMap
<1>9. Holds!Hold(k, p)
  BY <1>4, <1>5, <1>6, <1>7, <1>8 DEF Holds!Hold, BalanceMap, HoldMap, ParamsMap
<1> QED
  BY <1>9

\* A completion ends its hold in a payout.
LEMMA CompleteIsPay ==
    ASSUME FundsIInv, OwnerInv, NEW k \in Keys, Completes(k)
    PROVE  Holds!Pay(k)
<1> USE DEF FundsIInv, TablesInv
<1>1. row[k].status \in {"pending", "submitted"} /\ row[k] \in Rows
  BY SettlesUnfinished DEF TypeOK, TablesTyped
<1>2. /\ row'[k].status = "completed" /\ row'[k].params = row[k].params
      /\ \A j \in Keys : j # k => row'[j] = row[j]
  BY <1>1, UpdatedRows DEF Completes, TypeOK, TablesTyped
<1>3. HoldMap[k] = "held"
  BY <1>1, HoldMapValues
<1>4. HoldMap' = [HoldMap EXCEPT ![k] = "paid"]
  <2>1. HoldMap'[k] = "paid"
    BY <1>2, HoldMapValuesPrime
  <2>2. \A j \in Keys : j # k => HoldMap'[j] = HoldMap[j]
    BY <1>2, SameHold
  <2>3. HoldMap = [j \in Keys |-> HoldMap[j]] /\ HoldMap' = [j \in Keys |-> HoldMap'[j]]
    BY DEF HoldMap
  <2> QED
    BY <2>1, <2>2, <2>3
<1>5. BalanceMap' = BalanceMap
  BY DEF Completes, BalanceMap
<1>6. ParamsMap' = ParamsMap
  BY <1>2 DEF ParamsMap
<1> QED
  BY <1>3, <1>4, <1>5, <1>6 DEF Holds!Pay, BalanceMap, HoldMap, ParamsMap

\* A compensation ends its hold with the money back.
LEMMA FailIsGiveBack ==
    ASSUME FundsIInv, OwnerInv, ParamsInv, NEW k \in Keys, Fails(k)
    PROVE  Holds!GiveBack(k)
<1> USE DEF FundsIInv, TablesInv
<1>1. row[k].status \in {"pending", "submitted"} /\ row[k] \in Rows
  BY SettlesUnfinished DEF TypeOK, TablesTyped
<1>2. /\ row'[k].status = "failed" /\ row'[k].params = row[k].params
      /\ \A j \in Keys : j # k => row'[j] = row[j]
  BY <1>1, UpdatedRows DEF Fails, TypeOK, TablesTyped
<1>3. HoldMap[k] = "held"
  BY <1>1, HoldMapValues
<1>4. HoldMap' = [HoldMap EXCEPT ![k] = "returned"]
  <2>1. HoldMap'[k] = "returned"
    BY <1>2, HoldMapValuesPrime
  <2>2. \A j \in Keys : j # k => HoldMap'[j] = HoldMap[j]
    BY <1>2, SameHold
  <2>3. HoldMap = [j \in Keys |-> HoldMap[j]] /\ HoldMap' = [j \in Keys |-> HoldMap'[j]]
    BY DEF HoldMap
  <2> QED
    BY <2>1, <2>2, <2>3
<1>p. PICK p \in Params : p = row[k].params
  BY <1>1 DEF ParamsInv
<1>5. p.account \in Accounts /\ ParamsMap[k] = p
  BY <1>p DEF Params, ParamsMap
<1>6. BalanceMap' = [BalanceMap EXCEPT ![ParamsMap[k].account] = @ + ParamsMap[k].amount]
  <2>1. \A a \in Accounts :
            GetBalance(ledger', a) = IF a = p.account THEN GetBalance(ledger, a) + p.amount
                                                      ELSE GetBalance(ledger, a)
    BY <1>p, ReversalMoves
  <2>2. BalanceMap' = [BalanceMap EXCEPT ![p.account] = @ + p.amount]
    BY <1>5, <2>1 DEF BalanceMap
  <2> QED
    BY <1>5, <2>2
<1>7. ParamsMap' = ParamsMap
  BY <1>2 DEF ParamsMap
<1> QED
  BY <1>3, <1>4, <1>6, <1>7 DEF Holds!GiveBack, BalanceMap, HoldMap, ParamsMap

\* A step that settles nothing is not seen.
LEMMA QuietStutters ==
    ASSUME TypeOK, OwnerInv, Quiet
    PROVE  UNCHANGED Holds!vars
<1>1. BalanceMap' = BalanceMap
  BY DEF Quiet, BalanceMap
<1>2. ASSUME NEW k \in Keys PROVE HoldMap'[k] = HoldMap[k] /\ row'[k].params = row[k].params
  <2>1. OwnedRowEffect(k)
    BY QuietRows
  <2>2. CASE row'[k].status = row[k].status /\ row'[k].params = row[k].params
    BY <2>2 DEF HoldMap
  <2>3. CASE /\ {row[k].status, row'[k].status} \subseteq {"pending", "submitted"}
             /\ row'[k].params = row[k].params
    BY <2>3, HoldMapValues, HoldMapValuesPrime
  <2> QED
    BY <2>1, <2>2, <2>3 DEF OwnedRowEffect
<1>3. HoldMap' = HoldMap
  <2>1. HoldMap = [j \in Keys |-> HoldMap[j]] /\ HoldMap' = [j \in Keys |-> HoldMap'[j]]
    BY DEF HoldMap
  <2> QED
    BY <1>2, <2>1
<1>4. ParamsMap' = ParamsMap
  BY <1>2 DEF ParamsMap
<1> QED
  BY <1>1, <1>3, <1>4 DEF Holds!vars, BalanceMap, HoldMap, ParamsMap

\* The inductive invariant of the refinement.
HeldInv == FundsIInv /\ OwnerInv /\ ParamsInv

\* The initial states are states without holds.
LEMMA HeldInit == Init => HeldInv /\ Holds!Init
<1> SUFFICES ASSUME Init PROVE HeldInv /\ Holds!Init
  OBVIOUS
<1>1. OwnerInv
  BY OnceInit DEF OnceInv
<1>2. \A k \in Keys : row[k].status = "none" /\ row[k].params = NoParams
  BY DEF Init, NoRow
<1>3. ParamsInv
  BY <1>2 DEF ParamsInv
<1>4. BalanceMap = [a \in Accounts |-> Opening]
  BY OpeningBalance DEF BalanceMap
<1>5. HoldMap = [k \in Keys |-> "none"]
  BY <1>2 DEF HoldMap
<1>6. ParamsMap = [k \in Keys |-> NoParams]
  BY <1>2 DEF ParamsMap
<1>7. Holds!Init
  BY <1>4, <1>5, <1>6 DEF Holds!Init, BalanceMap, HoldMap, ParamsMap
<1> QED
  BY <1>1, <1>3, <1>7, FundsInit DEF HeldInv

\* The step of a system with prompt handlers is a step of at most one hold.
LEMMA HeldStep ==
    ASSUME PromptHandlers
    PROVE  HeldInv /\ [Next]_vars => HeldInv' /\ [Holds!Next]_(Holds!vars)
<1> SUFFICES ASSUME HeldInv, [Next]_vars PROVE HeldInv' /\ [Holds!Next]_(Holds!vars)
  OBVIOUS
<1>1. HeldInv'
  BY FundsIStep, OwnerStep, ParamsStep DEF HeldInv, FundsIInv, TablesInv
<1>2. CASE Quiet
  BY <1>1, <1>2, QuietStutters DEF HeldInv, FundsIInv, TablesInv
<1>3. ASSUME NEW r \in Reqs, ReserveFunds(r) PROVE Holds!Next
  BY <1>3, ReserveIsHold DEF HeldInv, Holds!Next
<1>4. ASSUME NEW k \in Keys, Completes(k) PROVE Holds!Next
  BY <1>4, CompleteIsPay DEF HeldInv, Holds!Next
<1>5. ASSUME NEW k \in Keys, Fails(k) PROVE Holds!Next
  BY <1>5, FailIsGiveBack DEF HeldInv, Holds!Next
<1>6. TypeOK
  BY DEF HeldInv, FundsIInv, TablesInv
<1> QED
  BY <1>1, <1>2, <1>3, <1>4, <1>5, <1>6, TableStep

\* As long as no live handler leaves its row alone for five minutes, a user sees of the saga,
\* its retries, crashes and recovery runs only this: the amount is held from a balance that
\* covers it, and the hold ends at most once, paid out or with the money back (the status
\* chain pending -> submitted -> completed | failed and the derived balance).
THEOREM SagaImplementsHolds ==
    ASSUME PromptHandlers
    PROVE  Spec => Holds!SafetySpec
BY HeldInit, HeldStep, PTL DEF Spec, Holds!SafetySpec
=============================================================================
