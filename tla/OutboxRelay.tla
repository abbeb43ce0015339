---------------------------- MODULE OutboxRelay ----------------------------
(***************************************************************************)
(* The transactional outbox (app/events/publisher.py, app/models/outbox.py) *)
(* and the relays that deliver it to Kafka (workers/outbox_relay.py).  Any *)
(* number of relay processes poll one table; each claims a batch in a      *)
(* short transaction, publishes it with no lock held, and merges its own   *)
(* detached copies of the rows back.                                       *)
(*                                                                         *)
(* An event is named by its created_at rank, 1, 2, ...  created_at is the  *)
(* start of the writing transaction, so rows may appear in any order.      *)
(***************************************************************************)
EXTENDS Integers, FiniteSets, Sequences

CONSTANTS
    NEvents,      \* bound: events written in a behaviour
    Relays,       \* relay processes
    BatchSize,    \* BATCH_SIZE
    MaxRetries,   \* MAX_OUTBOX_RETRIES
    AckLoss,      \* TRUE: a KafkaError may be raised for a message Kafka stored
    MaxCrashes    \* bound: relay crashes in a behaviour

ASSUME EventsAssumption == NEvents \in Nat
ASSUME BatchSizeAssumption == BatchSize \in Nat \ {0}
ASSUME RetriesAssumption == MaxRetries \in Nat \ {0}
ASSUME AckLossAssumption == AckLoss \in BOOLEAN /\ MaxCrashes \in Nat

VARIABLES
    outbox,    \* the table: status and retry_count of each event's row
    aged,      \* events whose created_at is more than five minutes old
    claimed,   \* rows each relay has claimed and not yet confirmed
    todo,      \* those of them it has not yet sent
    copy,      \* its detached copies of them
    log,       \* external: the messages Kafka has stored, in order
    redone,    \* history: events recovered as stuck, or stored without an acknowledgement
    crashes    \* crashes so far

vars == <<outbox, aged, claimed, todo, copy, log, redone, crashes>>

Events == 1..NEvents

\* "absent": not written yet; "deleted": removed by the cleanup.
Statuses == {"absent", "pending", "publishing", "published", "failed", "deleted"}

Rows == [status : Statuses, retry_count : Nat]

NewRow == [status |-> "absent", retry_count |-> 0]

Init ==
    /\ outbox = [e \in Events |-> NewRow]
    /\ aged = {}
    /\ claimed = [r \in Relays |-> {}]
    /\ todo = [r \in Relays |-> {}]
    /\ copy = [r \in Relays |-> [e \in Events |-> NewRow]]
    /\ log = <<>>
    /\ redone = {}
    /\ crashes = 0

-----------------------------------------------------------------------------
\* publish_event: the row commits with the state change it reports.
PublishEvent(e) ==
    /\ outbox[e].status = "absent"
    /\ outbox' = [outbox EXCEPT ![e].status = "pending"]
    /\ UNCHANGED <<aged, claimed, todo, copy, log, redone, crashes>>

\* A relay is at the top of its loop.
AtTop(r) == claimed[r] = {}

\* Faulty variant: the poll also takes rows that are published.
FaultyPoll == { e \in Events : outbox[e].status \in {"pending", "published"} }

Pending == { e \in Events : outbox[e].status = "pending" }

\* ORDER BY created_at LIMIT BATCH_SIZE.
Oldest(S) == { e \in S : Cardinality({ f \in S : f < e }) < BatchSize }

\* claim_batch: pending -> publishing; the relay keeps detached copies.
ClaimBatch(r) ==
    /\ AtTop(r)
    /\ Pending # {}
    /\ outbox' = [e \in Events |-> IF e \in Oldest(Pending)
                                   THEN [outbox[e] EXCEPT !.status = "publishing"]
                                   ELSE outbox[e]]
    /\ claimed' = [claimed EXCEPT ![r] = Oldest(Pending)]
    /\ todo' = [todo EXCEPT ![r] = Oldest(Pending)]
    /\ copy' = [copy EXCEPT ![r] = [e \in Events |-> IF e \in Oldest(Pending)
                                                    THEN outbox'[e] ELSE NewRow]]
    /\ UNCHANGED <<aged, log, redone, crashes>>

\* e is the row the publishing loop of r is at: batches are sent in claim order.
Sending(r, e) == e \in todo[r] /\ \A f \in todo[r] : e <= f

\* send_and_wait returns: the broker has stored the message.
SendOk(r, e) ==
    /\ Sending(r, e)
    /\ log' = Append(log, e)
    /\ copy' = [copy EXCEPT ![r][e].status = "published"]
    /\ todo' = [todo EXCEPT ![r] = @ \ {e}]
    /\ UNCHANGED <<outbox, aged, claimed, redone, crashes>>

\* Faulty variant: a row is given up one attempt early.
FaultyGiveUpEarly(old) ==
    [status |-> IF old.retry_count + 2 >= MaxRetries THEN "failed" ELSE "pending",
     retry_count |-> old.retry_count + 1]

\* The copy of a row after one more KafkaError.
Retried(old) ==
    [status |-> IF old.retry_count + 1 >= MaxRetries THEN "failed" ELSE "pending",
     retry_count |-> old.retry_count + 1]

\* Faulty variant: the row is marked published whatever the broker says.
FaultyMarkedAnyway(r, e, stored) ==
    /\ Sending(r, e)
    /\ stored => AckLoss
    /\ log' = IF stored THEN Append(log, e) ELSE log
    /\ copy' = [copy EXCEPT ![r][e].status = "published"]
    /\ todo' = [todo EXCEPT ![r] = @ \ {e}]
    /\ redone' = IF stored THEN redone \cup {e} ELSE redone
    /\ UNCHANGED <<outbox, aged, claimed, crashes>>

\* send_and_wait raises KafkaError; with AckLoss the message may be stored all the same.
SendError(r, e, stored) ==
    /\ Sending(r, e)
    /\ stored => AckLoss
    /\ log' = IF stored THEN Append(log, e) ELSE log
    /\ copy' = [copy EXCEPT ![r][e] = Retried(@)]
    /\ todo' = [todo EXCEPT ![r] = @ \ {e}]
    /\ redone' = IF stored THEN redone \cup {e} ELSE redone
    /\ UNCHANGED <<outbox, aged, claimed, crashes>>

\* Faulty variant: the batch is confirmed before all of it was sent.
FaultyEarlyConfirm(r) ==
    /\ claimed[r] # {}
    /\ outbox' = [e \in Events |-> IF e \in claimed[r] THEN copy[r][e] ELSE outbox[e]]
    /\ claimed' = [claimed EXCEPT ![r] = {}]
    /\ copy' = [copy EXCEPT ![r] = [e \in Events |-> NewRow]]
    /\ UNCHANGED <<aged, todo, log, redone, crashes>>

\* confirm_batch: db.merge writes every column of the copies over whatever the rows
\* have become, and inserts again a row that was deleted.
ConfirmBatch(r) ==
    /\ claimed[r] # {} /\ todo[r] = {}
    /\ outbox' = [e \in Events |-> IF e \in claimed[r] THEN copy[r][e] ELSE outbox[e]]
    /\ claimed' = [claimed EXCEPT ![r] = {}]
    /\ copy' = [copy EXCEPT ![r] = [e \in Events |-> NewRow]]
    /\ UNCHANGED <<aged, todo, log, redone, crashes>>

\* Faulty variant: only rows that have been retried count as stuck.
FaultyStuckRows ==
    { e \in aged : outbox[e].status = "publishing" /\ outbox[e].retry_count > 0 }

\* recover_stuck_rows: by age of the row alone, whoever is publishing it.
StuckRows == { e \in aged : outbox[e].status = "publishing" }

RecoverStuckRows(r) ==
    /\ AtTop(r)
    /\ StuckRows # {}
    /\ outbox' = [e \in Events |-> IF e \in StuckRows
                                   THEN [outbox[e] EXCEPT !.status = "pending"]
                                   ELSE outbox[e]]
    /\ redone' = redone \cup StuckRows
    /\ UNCHANGED <<aged, claimed, todo, copy, log, crashes>>

\* cleanup_published_rows: published more than 7, or failed and created more than 30
\* days ago; D are the rows that old by now.
Cleanup(r) ==
    /\ AtTop(r)
    /\ \E D \in (SUBSET { e \in aged : outbox[e].status \in {"published", "failed"} }) \ {{}} :
           outbox' = [e \in Events |-> IF e \in D
                                       THEN [outbox[e] EXCEPT !.status = "deleted"]
                                       ELSE outbox[e]]
    /\ UNCHANGED <<aged, claimed, todo, copy, log, redone, crashes>>

\* The process dies or relay_loop raises something else: the copies are gone.
Crash(r) ==
    /\ ~AtTop(r)
    /\ crashes < MaxCrashes
    /\ crashes' = crashes + 1
    /\ claimed' = [claimed EXCEPT ![r] = {}]
    /\ todo' = [todo EXCEPT ![r] = {}]
    /\ copy' = [copy EXCEPT ![r] = [e \in Events |-> NewRow]]
    /\ UNCHANGED <<outbox, aged, log, redone>>

\* Five minutes have passed since a row was created.
Age(e) ==
    /\ e \notin aged /\ outbox[e].status # "absent"
    /\ aged' = aged \cup {e}
    /\ UNCHANGED <<outbox, claimed, todo, copy, log, redone, crashes>>

-----------------------------------------------------------------------------
RelayStep(r) ==
    \/ ClaimBatch(r) \/ ConfirmBatch(r)
    \/ \E e \in Events : SendOk(r, e) \/ \E stored \in BOOLEAN : SendError(r, e, stored)

Next ==
    \/ \E e \in Events : PublishEvent(e) \/ Age(e)
    \/ \E r \in Relays : RelayStep(r) \/ RecoverStuckRows(r) \/ Cleanup(r) \/ Crash(r)

\* Each relay keeps looping and runs its recovery every five minutes; time passes.
\* Nothing says Kafka ever accepts a message.
Fairness ==
    /\ \A r \in Relays : WF_vars(RelayStep(r)) /\ WF_vars(RecoverStuckRows(r))
    /\ \A e \in Events : WF_vars(Age(e))

Spec == Init /\ [][Next]_vars /\ Fairness

-----------------------------------------------------------------------------
(* Correctness *)

\* Every variable has its type; a relay sends only rows it has claimed.
TypeOK ==
    /\ outbox \in [Events -> Rows]
    /\ aged \subseteq Events
    /\ claimed \in [Relays -> SUBSET Events]
    /\ todo \in [Relays -> SUBSET Events]
    /\ \A r \in Relays : todo[r] \subseteq claimed[r]
    /\ copy \in [Relays -> [Events -> Rows]]
    /\ log \in Seq(Events)
    /\ redone \subseteq Events
    /\ crashes \in 0..MaxCrashes

Delivered(e) == \E i \in DOMAIN log : log[i] = e

\* The relay never marks a row published that Kafka has not stored ("silently losing
\* the event"), however merges of several relays overwrite each other (relay_loop).
PublishedIsDelivered == \A e \in Events : outbox[e].status = "published" => Delivered(e)

\* A row leaves the table, or is given up, only once Kafka has stored its event or
\* MAX_OUTBOX_RETRIES attempts have failed (cleanup_published_rows, relay_loop).
NothingVanishes ==
    \A e \in Events : outbox[e].status \in {"failed", "deleted"}
                         => Delivered(e) \/ outbox[e].retry_count >= MaxRetries

\* Every committed event is delivered or ends up failed, through any crash and any
\* interleaving of relays (recover_stuck_rows).
DeliveredOrFailed ==
    \A e \in Events : outbox[e].status = "pending"
                         ~> Delivered(e) \/ outbox[e].status \in {"failed", "deleted"}

\* The claim keeps relays apart: Kafka stores an event twice only after it was recovered
\* as stuck or its acknowledgement was lost (claim_batch, recover_stuck_rows).
DuplicatesExplained ==
    \A i, j \in DOMAIN log : log[i] = log[j] /\ i # j => log[i] \in redone

\* The lifecycle in the module's header ends at published: no merge of a stale copy and
\* no poll takes a row out of it, unless it was recovered while a relay still had it.
PublishedIsFinal ==
    [][\A e \in Events : outbox[e].status = "published"
          => outbox'[e].status \in {"published", "deleted"} \/ e \in redone]_vars
=============================================================================
