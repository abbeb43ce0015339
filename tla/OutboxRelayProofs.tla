------------------------- MODULE OutboxRelayProofs -------------------------
(***************************************************************************)
(* Safety of the outbox relay for every number of events and relays, every *)
(* batch size and retry limit, with or without lost acknowledgements, and  *)
(* any number of crashes.                                                  *)
(***************************************************************************)
EXTENDS OutboxRelay, TLAPS

-----------------------------------------------------------------------------
(* Rows, batches and the log *)

\* The oldest rows of a set are rows of the set.
LEMMA OldestSubset == \A S : Oldest(S) \subseteq S
  BY DEF Oldest

\* Giving a row a status leaves a row with that status and the same attempts.
LEMMA WithStatus ==
    ASSUME NEW row \in Rows, NEW s \in Statuses
    PROVE  /\ [row EXCEPT !.status = s] \in Rows
           /\ [row EXCEPT !.status = s].status = s
           /\ [row EXCEPT !.status = s].retry_count = row.retry_count
  BY DEF Rows

\* A row that failed once more is pending, or failed with MAX_OUTBOX_RETRIES attempts.
LEMMA RetriedRow ==
    ASSUME NEW row \in Rows
    PROVE  /\ Retried(row) \in Rows
           /\ Retried(row).status \in {"pending", "failed"}
           /\ Retried(row).status = "failed" => Retried(row).retry_count >= MaxRetries
  BY RetriesAssumption DEF Rows, Retried, Statuses

\* Storing a message delivers its event and changes nothing for the others.
LEMMA DeliveredAppend ==
    ASSUME log \in Seq(Events), NEW e \in Events, log' = Append(log, e)
    PROVE  /\ log' \in Seq(Events)
           /\ \A f \in Events : Delivered(f)' <=> Delivered(f) \/ f = e
<1>1. /\ log' \in Seq(Events)
      /\ DOMAIN log = 1..Len(log) /\ DOMAIN log' = 1..(Len(log) + 1)
      /\ \A i \in 1..Len(log) : log'[i] = log[i]
      /\ log'[Len(log) + 1] = e
      /\ Len(log) \in Nat
  OBVIOUS
<1>2. ASSUME NEW f \in Events PROVE Delivered(f)' <=> Delivered(f) \/ f = e
  <2>1. ASSUME Delivered(f)' PROVE Delivered(f) \/ f = e
    BY <1>1, <2>1 DEF Delivered
  <2>2. ASSUME Delivered(f) PROVE Delivered(f)'
    BY <1>1, <2>2 DEF Delivered
  <2>3. ASSUME f = e PROVE Delivered(f)'
    BY <1>1, <2>3 DEF Delivered
  <2> QED
    BY <2>1, <2>2, <2>3
<1> QED
  BY <1>1, <1>2

\* A log that stays the same delivers the same events.
LEMMA DeliveredUnchanged ==
    ASSUME log' = log
    PROVE  \A f \in Events : Delivered(f)' <=> Delivered(f)
  BY DEF Delivered

-----------------------------------------------------------------------------
(* Types *)

\* Types hold at the start,
LEMMA TypeInit == Init => TypeOK
<1> NewRow \in Rows
  BY DEF NewRow, Rows, Statuses
<1> QED
  BY AckLossAssumption DEF Init, TypeOK

\* The steps of a relay that sends or confirms preserve the types.
LEMMA TypeSending ==
    ASSUME TypeOK, NEW r \in Relays,
           \/ ConfirmBatch(r)
           \/ \E e \in Events : SendOk(r, e) \/ \E stored \in BOOLEAN : SendError(r, e, stored)
    PROVE  TypeOK'
<1>1. CASE ConfirmBatch(r)
  <2>1. NewRow \in Rows
    BY DEF NewRow, Rows, Statuses
  <2> QED
    BY <1>1, <2>1 DEF ConfirmBatch, TypeOK
<1>2. ASSUME NEW e \in Events, SendOk(r, e) PROVE TypeOK'
  <2>1. [copy[r][e] EXCEPT !.status = "published"] \in Rows
    <3>1. copy[r][e] \in Rows /\ "published" \in Statuses
      BY DEF TypeOK, Statuses
    <3> QED
      BY <3>1, WithStatus
  <2>2. copy' = [copy EXCEPT ![r] = [copy[r] EXCEPT ![e] = [copy[r][e] EXCEPT !.status = "published"]]]
    BY <1>2 DEF SendOk
  <2>3. copy' \in [Relays -> [Events -> Rows]]
    BY <2>1, <2>2 DEF TypeOK
  <2>4. log' \in Seq(Events)
    BY <1>2, DeliveredAppend DEF SendOk, TypeOK
  <2> QED
    BY <1>2, <2>3, <2>4 DEF SendOk, TypeOK
<1>3. ASSUME NEW e \in Events, NEW stored \in BOOLEAN, SendError(r, e, stored) PROVE TypeOK'
  <2>1. Retried(copy[r][e]) \in Rows
    BY RetriedRow DEF TypeOK
  <2>2. copy' = [copy EXCEPT ![r] = [copy[r] EXCEPT ![e] = Retried(copy[r][e])]]
    BY <1>3 DEF SendError
  <2>3. copy' \in [Relays -> [Events -> Rows]]
    BY <2>1, <2>2 DEF TypeOK
  <2>4. log' \in Seq(Events)
    BY <1>3, DeliveredAppend DEF SendError, TypeOK
  <2> QED
    BY <1>3, <2>3, <2>4 DEF SendError, TypeOK
<1> QED
  BY <1>1, <1>2, <1>3

\* So do the steps that claim, recover and clean up, and those that only lose state.
LEMMA TypeTable ==
    ASSUME TypeOK, NEW r \in Relays,
           ClaimBatch(r) \/ RecoverStuckRows(r) \/ Cleanup(r) \/ Crash(r)
    PROVE  TypeOK'
<1>1. NewRow \in Rows
  BY DEF NewRow, Rows, Statuses
<1>2. \A e \in Events, s \in Statuses : [outbox[e] EXCEPT !.status = s] \in Rows
  BY WithStatus DEF TypeOK
<1>3. Pending \subseteq Events /\ StuckRows \subseteq Events
  BY DEF Pending, StuckRows, TypeOK
<1>4. CASE ClaimBatch(r)
  <2>1. outbox' \in [Events -> Rows]
    BY <1>2, <1>4 DEF ClaimBatch, TypeOK, Statuses
  <2> QED
    BY <1>1, <1>3, <1>4, <2>1, OldestSubset DEF ClaimBatch, TypeOK
<1>5. CASE RecoverStuckRows(r)
  BY <1>2, <1>3, <1>5 DEF RecoverStuckRows, TypeOK, Statuses
<1>6. CASE Cleanup(r)
  <2>1. PICK D : outbox' = [e \in Events |-> IF e \in D
                                              THEN [outbox[e] EXCEPT !.status = "deleted"]
                                              ELSE outbox[e]]
    BY <1>6 DEF Cleanup
  <2>2. outbox' \in [Events -> Rows]
    BY <1>2, <2>1 DEF TypeOK, Statuses
  <2> QED
    BY <1>6, <2>2 DEF Cleanup, TypeOK
<1>7. CASE Crash(r)
  BY <1>1, <1>7, AckLossAssumption DEF Crash, TypeOK
<1> QED
  BY <1>4, <1>5, <1>6, <1>7

\* And so do the steps of services and time.
LEMMA TypeEnvironment ==
    ASSUME TypeOK, NEW e \in Events, PublishEvent(e) \/ Age(e)
    PROVE  TypeOK'
<1>1. CASE PublishEvent(e)
  <2>1. [outbox[e] EXCEPT !.status = "pending"] \in Rows
    BY WithStatus DEF TypeOK, Statuses
  <2>2. outbox' = [outbox EXCEPT ![e] = [outbox[e] EXCEPT !.status = "pending"]]
    BY <1>1 DEF PublishEvent
  <2> QED
    BY <1>1, <2>1, <2>2 DEF PublishEvent, TypeOK
<1>2. CASE Age(e)
  BY <1>2 DEF Age, TypeOK
<1> QED
  BY <1>1, <1>2

\* and every step keeps them.
LEMMA TypeStep == TypeOK /\ [Next]_vars => TypeOK'
<1> SUFFICES ASSUME TypeOK, [Next]_vars PROVE TypeOK'
  OBVIOUS
<1>1. ASSUME NEW r \in Relays, RelayStep(r) PROVE TypeOK'
  BY <1>1, TypeSending, TypeTable DEF RelayStep
<1>2. CASE UNCHANGED vars
  BY <1>2 DEF vars, TypeOK
<1> QED
  BY <1>1, <1>2, TypeTable, TypeEnvironment DEF Next

\* Every variable keeps its type, whatever relays, crashes and time do (relay_loop).
THEOREM RelayTypeOK == Spec => []TypeOK
  BY TypeInit, TypeStep, PTL DEF Spec

-----------------------------------------------------------------------------
(* Published rows are delivered, and nothing vanishes *)

\* A row may claim to be published, given up or deleted.
Honest(e, row) ==
    /\ row.status = "published" => Delivered(e)
    /\ row.status \in {"failed", "deleted"} => Delivered(e) \/ row.retry_count >= MaxRetries

\* The strengthening both invariants need: the copies a relay will merge are honest too.
HonestInv ==
    /\ \A e \in Events : Honest(e, outbox[e])
    /\ \A r \in Relays : \A e \in claimed[r] : Honest(e, copy[r][e])

\* What is delivered stays delivered.
LEMMA DeliveredStays ==
    ASSUME TypeOK, [Next]_vars
    PROVE  \A e \in Events : Delivered(e) => Delivered(e)'
<1>1. ASSUME NEW e \in Events, log' = Append(log, e) PROVE \A f \in Events : Delivered(f) => Delivered(f)'
  BY <1>1, DeliveredAppend DEF TypeOK
<1>2. CASE log' = log
  BY <1>2, DeliveredUnchanged
<1>3. log' = log \/ \E e \in Events : log' = Append(log, e)
  BY DEF Next, vars, RelayStep, PublishEvent, Age, ClaimBatch, ConfirmBatch, SendOk, SendError,
         RecoverStuckRows, Cleanup, Crash
<1> QED
  BY <1>1, <1>2, <1>3

\* Nothing is published at the start.
LEMMA HonestInit == Init => HonestInv
  BY DEF Init, HonestInv, Honest, NewRow

\* No step makes a row or a copy claim a delivery that did not happen.
LEMMA HonestStep ==
    ASSUME TypeOK, HonestInv, [Next]_vars
    PROVE  HonestInv'
<1> USE DEF Honest
<1>1. /\ \A e \in Events : Delivered(e) => Delivered(e)'
      /\ \A e \in Events : outbox[e] \in Rows
      /\ \A q \in Relays, e \in Events : copy[q][e] \in Rows
      /\ \A q \in Relays : claimed[q] \subseteq Events /\ todo[q] \subseteq claimed[q]
  BY DeliveredStays DEF TypeOK
<1>2. ASSUME NEW e \in Events, PublishEvent(e) PROVE HonestInv'
  <2>1. \A f \in Events : outbox'[f] = outbox[f] \/ outbox'[f].status = "pending"
    BY <1>1, <1>2, WithStatus DEF PublishEvent, TypeOK, Statuses
  <2> QED
    BY <1>1, <1>2, <2>1 DEF HonestInv, PublishEvent
<1>3. ASSUME NEW r \in Relays, ClaimBatch(r) PROVE HonestInv'
  <2>1. \A f \in Events :
            outbox'[f] = outbox[f] \/ (f \in Oldest(Pending) /\ outbox'[f].status = "publishing")
    BY <1>1, <1>3, WithStatus DEF ClaimBatch, TypeOK, Statuses
  <2>2. \A f \in Oldest(Pending) : f \in Events /\ outbox'[f].status = "publishing"
    BY <1>1, <1>3, WithStatus, OldestSubset DEF ClaimBatch, TypeOK, Statuses, Pending
  <2>3. \A q \in Relays : \A f \in claimed'[q] :
            \/ q = r /\ f \in Oldest(Pending) /\ copy'[q][f] = outbox'[f]
            \/ f \in claimed[q] /\ copy'[q][f] = copy[q][f]
    BY <1>3, <2>2 DEF ClaimBatch, TypeOK
  <2> QED
    BY <1>1, <2>1, <2>2, <2>3 DEF HonestInv
<1>4. ASSUME NEW r \in Relays, NEW e \in Events, SendOk(r, e) PROVE HonestInv'
  <2>1. Delivered(e)'
    BY <1>4, DeliveredAppend DEF SendOk, TypeOK
  <2>2. \A q \in Relays : \A f \in claimed[q] : f = e \/ copy'[q][f] = copy[q][f]
    BY <1>1, <1>4 DEF SendOk, TypeOK
  <2> QED
    BY <1>1, <1>4, <2>1, <2>2 DEF HonestInv, SendOk
<1>5. ASSUME NEW r \in Relays, NEW e \in Events, NEW stored \in BOOLEAN, SendError(r, e, stored)
      PROVE HonestInv'
  <2>1. \A q \in Relays : \A f \in claimed[q] :
            copy'[q][f] = copy[q][f] \/ copy'[q][f] = Retried(copy[q][f])
    BY <1>1, <1>5 DEF SendError, TypeOK
  <2> QED
    BY <1>1, <1>5, <2>1, RetriedRow DEF HonestInv, SendError
<1>6. ASSUME NEW r \in Relays, ConfirmBatch(r) PROVE HonestInv'
  <2>1. \A f \in Events : outbox'[f] = outbox[f] \/ (f \in claimed[r] /\ outbox'[f] = copy[r][f])
    BY <1>6 DEF ConfirmBatch, TypeOK
  <2>2. \A q \in Relays : \A f \in claimed'[q] : f \in claimed[q] /\ copy'[q][f] = copy[q][f]
    BY <1>6 DEF ConfirmBatch, TypeOK
  <2> QED
    BY <1>1, <2>1, <2>2 DEF HonestInv
<1>7. ASSUME NEW r \in Relays, RecoverStuckRows(r) PROVE HonestInv'
  <2>1. \A f \in Events : outbox'[f] = outbox[f] \/ outbox'[f].status = "pending"
    BY <1>1, <1>7, WithStatus DEF RecoverStuckRows, TypeOK, Statuses
  <2> QED
    BY <1>1, <1>7, <2>1 DEF HonestInv, RecoverStuckRows
<1>8. ASSUME NEW r \in Relays, Cleanup(r) PROVE HonestInv'
  <2>1. PICK D \in SUBSET { e \in aged : outbox[e].status \in {"published", "failed"} } :
            outbox' = [e \in Events |-> IF e \in D THEN [outbox[e] EXCEPT !.status = "deleted"]
                                                   ELSE outbox[e]]
    BY <1>8 DEF Cleanup
  <2>2. \A f \in Events :
            \/ outbox'[f] = outbox[f]
            \/ /\ outbox[f].status \in {"published", "failed"}
               /\ outbox'[f].status = "deleted" /\ outbox'[f].retry_count = outbox[f].retry_count
    BY <1>1, <2>1, WithStatus DEF Statuses
  <2> QED
    BY <1>1, <1>8, <2>2 DEF HonestInv, Cleanup
<1>9. ASSUME NEW r \in Relays, Crash(r) PROVE HonestInv'
  <2>1. \A q \in Relays : \A f \in claimed'[q] : f \in claimed[q] /\ copy'[q][f] = copy[q][f]
    BY <1>9 DEF Crash, TypeOK
  <2> QED
    BY <1>1, <1>9, <2>1 DEF HonestInv, Crash
<1>10. CASE UNCHANGED vars \/ \E e \in Events : Age(e)
  BY <1>1, <1>10 DEF HonestInv, vars, Age
<1> QED
  BY <1>2, <1>3, <1>4, <1>5, <1>6, <1>7, <1>8, <1>9, <1>10 DEF Next, RelayStep

\* A row marked published has been stored by Kafka, for any number of relays whose merges
\* overwrite each other (relay_loop, confirm_batch).
THEOREM RelayPublishedIsDelivered == Spec => []PublishedIsDelivered
<1>1. HonestInv => PublishedIsDelivered
  BY DEF HonestInv, Honest, PublishedIsDelivered
<1> QED
  BY <1>1, HonestInit, HonestStep, RelayTypeOK, PTL DEF Spec

\* A row is given up or deleted only once its event is stored or its attempts are used up
\* (relay_loop, cleanup_published_rows).
THEOREM RelayNothingVanishes == Spec => []NothingVanishes
<1>1. HonestInv => NothingVanishes
  BY DEF HonestInv, Honest, NothingVanishes
<1> QED
  BY <1>1, HonestInit, HonestStep, RelayTypeOK, PTL DEF Spec

-----------------------------------------------------------------------------
(* Duplicates are explained *)

(***************************************************************************)
(* For an event that was neither recovered as stuck nor stored without an  *)
(* acknowledgement, the claim is exclusive: one relay has it, its row says *)
(* publishing as long as it does, and once Kafka has the event nobody is   *)
(* about to send it and nobody can claim it again.                         *)
(***************************************************************************)
Exclusive(e) ==
    /\ \A q, s \in Relays : e \in claimed[q] /\ e \in claimed[s] => q = s
    /\ \A q \in Relays : e \in claimed[q] => outbox[e].status = "publishing"
    /\ Delivered(e) => outbox[e].status \in {"publishing", "published", "deleted"}
    /\ \A q \in Relays : Delivered(e) /\ e \in claimed[q]
                             => e \notin todo[q] /\ copy[q][e].status = "published"

\* Every event is exclusive until a recovery or a lost acknowledgement redoes it.
ExclusiveInv == \A e \in Events : e \notin redone => Exclusive(e)

\* Nothing is claimed or delivered at the start.
LEMMA ExclusiveInit == Init => ExclusiveInv /\ DuplicatesExplained
  BY DEF Init, ExclusiveInv, Exclusive, DuplicatesExplained, Delivered

\* Sending an event that nobody has delivered, or that is redone, explains its copies.
LEMMA AppendExplained ==
    ASSUME TypeOK, DuplicatesExplained, NEW e \in Events, log' = Append(log, e),
           redone \subseteq redone', Delivered(e) => e \in redone'
    PROVE  DuplicatesExplained'
<1>1. /\ DOMAIN log = 1..Len(log) /\ DOMAIN log' = 1..(Len(log) + 1)
      /\ \A i \in 1..Len(log) : log'[i] = log[i]
      /\ log'[Len(log) + 1] = e
      /\ Len(log) \in Nat
  BY DEF TypeOK
<1> SUFFICES ASSUME NEW i \in DOMAIN log', NEW j \in DOMAIN log', log'[i] = log'[j], i # j
             PROVE  log'[i] \in redone'
  BY DEF DuplicatesExplained
<1>2. CASE i \in DOMAIN log /\ j \in DOMAIN log
  BY <1>1, <1>2 DEF DuplicatesExplained
<1>3. CASE ~(i \in DOMAIN log /\ j \in DOMAIN log)
  <2>1. log'[i] = e /\ \E k \in DOMAIN log : log[k] = e
    BY <1>1, <1>3
  <2> QED
    BY <2>1 DEF Delivered
<1> QED
  BY <1>2, <1>3

\* A second copy of an event is explained.
LEMMA DuplicatesStep ==
    ASSUME TypeOK, ExclusiveInv, DuplicatesExplained, [Next]_vars
    PROVE  DuplicatesExplained'
<1>1. ASSUME NEW r \in Relays, NEW e \in Events, SendOk(r, e) PROVE DuplicatesExplained'
  <2>1. e \in claimed[r] /\ e \in todo[r]
    BY <1>1 DEF SendOk, Sending, TypeOK
  <2>2. Delivered(e) => e \in redone
    BY <2>1 DEF ExclusiveInv, Exclusive
  <2> QED
    BY <1>1, <2>2, AppendExplained DEF SendOk
<1>2. ASSUME NEW r \in Relays, NEW e \in Events, NEW stored \in BOOLEAN, SendError(r, e, stored)
      PROVE DuplicatesExplained'
  <2>1. CASE stored
    BY <1>2, <2>1, AppendExplained DEF SendError
  <2>2. CASE ~stored
    BY <1>2, <2>2 DEF SendError, DuplicatesExplained
  <2> QED
    BY <2>1, <2>2
<1>3. CASE log' = log /\ redone \subseteq redone'
  BY <1>3 DEF DuplicatesExplained
<1> QED
  BY <1>1, <1>2, <1>3 DEF Next, vars, RelayStep, PublishEvent, Age, ClaimBatch, ConfirmBatch,
                          RecoverStuckRows, Cleanup, Crash

\* No step shares an event that is not redone.
LEMMA ExclusiveStep ==
    ASSUME TypeOK, ExclusiveInv, [Next]_vars
    PROVE  ExclusiveInv'
<1>0. redone \subseteq redone'
  BY DEF Next, vars, RelayStep, PublishEvent, Age, ClaimBatch, ConfirmBatch, SendOk, SendError,
         RecoverStuckRows, Cleanup, Crash
<1> SUFFICES ASSUME NEW f \in Events, f \notin redone' PROVE Exclusive(f)'
  BY DEF ExclusiveInv
<1>1. Exclusive(f) /\ outbox[f] \in Rows
  BY <1>0 DEF ExclusiveInv, TypeOK
<1>2. ASSUME NEW e \in Events, PublishEvent(e) PROVE Exclusive(f)'
  <2>1. outbox'[f] = outbox[f] \/ outbox[f].status = "absent"
    BY <1>2 DEF PublishEvent, TypeOK
  <2>2. Delivered(f)' <=> Delivered(f)
    BY <1>2, DeliveredUnchanged DEF PublishEvent
  <2> QED
    BY <1>1, <1>2, <2>1, <2>2 DEF Exclusive, PublishEvent
<1>3. ASSUME NEW r \in Relays, ClaimBatch(r) PROVE Exclusive(f)'
  <2>1. Delivered(f)' <=> Delivered(f)
    BY <1>3, DeliveredUnchanged DEF ClaimBatch
  <2>2. CASE f \in Oldest(Pending)
    <3>1. outbox[f].status = "pending"
      BY <2>2, OldestSubset DEF Pending
    <3>2. outbox'[f].status = "publishing"
      BY <1>1, <1>3, <2>2, WithStatus DEF ClaimBatch, Statuses
    <3>3. \A q \in Relays : f \in claimed'[q] => q = r
      BY <1>1, <1>3, <3>1 DEF Exclusive, ClaimBatch, TypeOK
    <3>4. ~Delivered(f)
      BY <1>1, <3>1 DEF Exclusive
    <3> QED
      BY <2>1, <3>2, <3>3, <3>4 DEF Exclusive
  <2>3. CASE f \notin Oldest(Pending)
    <3>1. outbox'[f] = outbox[f]
      BY <1>3, <2>3 DEF ClaimBatch
    <3>2. \A q \in Relays : f \in claimed'[q] =>
              f \in claimed[q] /\ todo'[q] = todo[q] /\ copy'[q][f] = copy[q][f]
      BY <1>3, <2>3 DEF ClaimBatch, TypeOK
    <3> QED
      BY <1>1, <2>1, <3>1, <3>2 DEF Exclusive
  <2> QED
    BY <2>2, <2>3
<1>4. ASSUME NEW r \in Relays, NEW e \in Events, SendOk(r, e) PROVE Exclusive(f)'
  <2>1. Delivered(f)' <=> Delivered(f) \/ f = e
    BY <1>4, DeliveredAppend DEF SendOk, TypeOK
  <2>2. e \in claimed[r] /\ outbox' = outbox /\ claimed' = claimed
    BY <1>4 DEF SendOk, Sending, TypeOK
  <2>3. /\ copy[r][e] \in Rows /\ copy'[r][e] = [copy[r][e] EXCEPT !.status = "published"]
        /\ e \notin todo'[r]
    BY <1>4 DEF SendOk, TypeOK
  <2>4. copy'[r][e].status = "published"
    BY <2>3, WithStatus DEF Statuses
  <2>5. CASE f = e
    BY <1>1, <2>1, <2>2, <2>3, <2>4, <2>5 DEF Exclusive
  <2>6. CASE f # e
    <3>1. \A q \in Relays : copy'[q][f] = copy[q][f] /\ (f \in todo'[q] => f \in todo[q])
      BY <1>4, <2>6 DEF SendOk, TypeOK
    <3> QED
      BY <1>1, <2>1, <2>2, <2>6, <3>1 DEF Exclusive
  <2> QED
    BY <2>5, <2>6
<1>5. ASSUME NEW r \in Relays, NEW e \in Events, NEW stored \in BOOLEAN, SendError(r, e, stored)
      PROVE Exclusive(f)'
  <2>1. Delivered(f)' <=> Delivered(f)
    <3>1. CASE stored
      <4>1. f # e
        BY <1>5, <3>1 DEF SendError
      <4> QED
        BY <1>5, <3>1, <4>1, DeliveredAppend DEF SendError, TypeOK
    <3>2. CASE ~stored
      BY <1>5, <3>2, DeliveredUnchanged DEF SendError
    <3> QED
      BY <3>1, <3>2
  <2>2. e \in todo[r] /\ e \in claimed[r] /\ outbox' = outbox /\ claimed' = claimed
    BY <1>5 DEF SendError, Sending, TypeOK
  <2>3. CASE f = e
    <3>1. ~Delivered(f)
      BY <1>1, <2>2, <2>3 DEF Exclusive
    <3> QED
      BY <1>1, <2>1, <2>2, <3>1 DEF Exclusive
  <2>4. CASE f # e
    <3>1. \A q \in Relays : copy'[q][f] = copy[q][f] /\ (f \in todo'[q] => f \in todo[q])
      BY <1>5, <2>4 DEF SendError, TypeOK
    <3> QED
      BY <1>1, <2>1, <2>2, <3>1 DEF Exclusive
  <2> QED
    BY <2>3, <2>4
<1>6. ASSUME NEW r \in Relays, ConfirmBatch(r) PROVE Exclusive(f)'
  <2>1. Delivered(f)' <=> Delivered(f)
    BY <1>6, DeliveredUnchanged DEF ConfirmBatch
  <2>2. \A q \in Relays : f \in claimed'[q] =>
            q # r /\ f \in claimed[q] /\ todo'[q] = todo[q] /\ copy'[q][f] = copy[q][f]
    BY <1>6 DEF ConfirmBatch, TypeOK
  <2>3. CASE f \in claimed[r]
    <3>1. outbox'[f] = copy[r][f]
      BY <1>6, <2>3 DEF ConfirmBatch
    <3>2. \A q \in Relays : f \notin claimed'[q]
      BY <1>1, <2>2, <2>3 DEF Exclusive
    <3> QED
      BY <1>1, <2>1, <2>3, <3>1, <3>2 DEF Exclusive
  <2>4. CASE f \notin claimed[r]
    <3>1. outbox'[f] = outbox[f]
      BY <1>6, <2>4 DEF ConfirmBatch
    <3> QED
      BY <1>1, <2>1, <2>2, <3>1 DEF Exclusive
  <2> QED
    BY <2>3, <2>4
<1>7. ASSUME NEW r \in Relays, RecoverStuckRows(r) PROVE Exclusive(f)'
  <2>1. outbox'[f] = outbox[f]
    BY <1>7 DEF RecoverStuckRows
  <2>2. Delivered(f)' <=> Delivered(f)
    BY <1>7, DeliveredUnchanged DEF RecoverStuckRows
  <2> QED
    BY <1>1, <1>7, <2>1, <2>2 DEF Exclusive, RecoverStuckRows
<1>8. ASSUME NEW r \in Relays, Cleanup(r) PROVE Exclusive(f)'
  <2>1. PICK D \in SUBSET { e \in aged : outbox[e].status \in {"published", "failed"} } :
            outbox' = [e \in Events |-> IF e \in D THEN [outbox[e] EXCEPT !.status = "deleted"]
                                                   ELSE outbox[e]]
    BY <1>8 DEF Cleanup
  <2>2. \/ outbox'[f] = outbox[f]
        \/ outbox[f].status \in {"published", "failed"} /\ outbox'[f].status = "deleted"
    BY <1>1, <2>1, WithStatus DEF Statuses
  <2>3. Delivered(f)' <=> Delivered(f)
    BY <1>8, DeliveredUnchanged DEF Cleanup
  <2> QED
    BY <1>1, <1>8, <2>2, <2>3 DEF Exclusive, Cleanup
<1>9. ASSUME NEW r \in Relays, Crash(r) PROVE Exclusive(f)'
  <2>1. Delivered(f)' <=> Delivered(f)
    BY <1>9, DeliveredUnchanged DEF Crash
  <2>2. \A q \in Relays : f \in claimed'[q] =>
            f \in claimed[q] /\ todo'[q] = todo[q] /\ copy'[q][f] = copy[q][f]
    BY <1>9 DEF Crash, TypeOK
  <2> QED
    BY <1>1, <1>9, <2>1, <2>2 DEF Exclusive, Crash
<1>10. CASE UNCHANGED vars \/ \E e \in Events : Age(e)
  <2>1. Delivered(f)' <=> Delivered(f)
    BY <1>10, DeliveredUnchanged DEF vars, Age
  <2> QED
    BY <1>1, <1>10, <2>1 DEF Exclusive, vars, Age
<1> QED
  BY <1>2, <1>3, <1>4, <1>5, <1>6, <1>7, <1>8, <1>9, <1>10 DEF Next, RelayStep

\* With any number of relays, crashes and merges, Kafka stores an event twice only after a
\* recovery of its row or a lost acknowledgement (claim_batch, recover_stuck_rows).
THEOREM RelayDuplicatesExplained == Spec => []DuplicatesExplained
<1>1. TypeOK /\ ExclusiveInv /\ DuplicatesExplained /\ [Next]_vars
          => (ExclusiveInv /\ DuplicatesExplained)'
  BY ExclusiveStep, DuplicatesStep
<1> QED
  BY <1>1, ExclusiveInit, RelayTypeOK, PTL DEF Spec

\* A published row that was never recovered stays published until the cleanup: nobody holds
\* a copy of it that could be merged over it (confirm_batch).
THEOREM RelayPublishedIsFinal == Spec => PublishedIsFinal
<1>1. ASSUME TypeOK, ExclusiveInv, [Next]_vars
      PROVE  \A e \in Events : outbox[e].status = "published"
                 => outbox'[e].status \in {"published", "deleted"} \/ e \in redone
  <2> SUFFICES ASSUME NEW f \in Events, outbox[f].status = "published", f \notin redone
               PROVE  outbox'[f].status \in {"published", "deleted"}
    OBVIOUS
  <2>1. \A q \in Relays : f \notin claimed[q]
    BY <1>1 DEF ExclusiveInv, Exclusive
  <2>2. outbox[f] \in Rows
    BY <1>1 DEF TypeOK
  <2>3. ASSUME NEW r \in Relays, Cleanup(r) PROVE outbox'[f].status \in {"published", "deleted"}
    BY <2>2, <2>3, WithStatus DEF Cleanup, Statuses
  <2>4. ASSUME NEW r \in Relays, ClaimBatch(r) PROVE outbox'[f] = outbox[f]
    BY <2>4, OldestSubset DEF ClaimBatch, Pending
  <2>5. ASSUME NEW r \in Relays, RecoverStuckRows(r) PROVE outbox'[f] = outbox[f]
    BY <2>5 DEF RecoverStuckRows, StuckRows
  <2>6. ASSUME NEW r \in Relays, ConfirmBatch(r) PROVE outbox'[f] = outbox[f]
    BY <2>1, <2>6 DEF ConfirmBatch
  <2>7. ASSUME NEW e \in Events, PublishEvent(e) PROVE outbox'[f] = outbox[f]
    BY <1>1, <2>7 DEF PublishEvent, TypeOK
  <2> QED
    BY <1>1, <2>3, <2>4, <2>5, <2>6, <2>7 DEF Next, vars, RelayStep, Age, SendOk, SendError, Crash
<1>2. TypeOK /\ ExclusiveInv /\ [Next]_vars => ExclusiveInv'
  BY ExclusiveStep
<1>3. Spec => []ExclusiveInv
  BY <1>2, ExclusiveInit, RelayTypeOK, PTL DEF Spec
<1> QED
  BY <1>1, <1>3, RelayTypeOK, PTL DEF Spec, PublishedIsFinal
=============================================================================
