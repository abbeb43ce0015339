--------------------------- MODULE EventConsumer ---------------------------
(***************************************************************************)
(* The Kafka consumers: BaseConsumer with its manual commits, its retry by *)
(* re-publishing and its dead-letter topics (consumers/consumer_base.py),  *)
(* and the process() methods of the audit, activity and notification       *)
(* consumers (workers/*_consumer.py) by what they leave behind.            *)
(*                                                                         *)
(* One topic, which create-topics.sh gives one partition: an append-only   *)
(* log that every group reads through its own offset.  Of the bytes of a   *)
(* message only what the consumers make of them is kept: the event they    *)
(* carry, whether json.loads and parse_event accept them, and if not, with *)
(* which exception, since handle_message catches one and lets others out.  *)
(***************************************************************************)
EXTENDS Integers, Sequences, FiniteSets

CONSTANTS
    Events,         \* events the outbox relay delivers
    Unreadable,     \* those of them that arrive as bytes no consumer can read
    Groups,         \* consumer groups
    Tables,         \* the groups whose process() inserts rows under a UNIQUE constraint
    MaxRetries,     \* MAX_RETRIES
    MaxDeliveries,  \* bound: how often the relay delivers one event
    MaxFaults       \* bound: consumer stops and failed commits in a behaviour

ASSUME UnreadableAssumption == Unreadable \subseteq Events
ASSUME GroupsAssumption == Tables \subseteq Groups /\ "relay" \notin Groups
ASSUME BoundsAssumption == MaxRetries \in Nat /\ MaxDeliveries \in Nat /\ MaxFaults \in Nat

VARIABLES
    log,        \* the topic: messages in offset order
    pos,        \* how many messages each running consumer has been handed
    committed,  \* the group's committed offset
    pc,         \* where its handle_message is
    effects,    \* how often process() took effect for an event: rows, or notifications
    dlq,        \* events in the group's dead-letter topic
    base,       \* history: the offset at which the group began to read
    faults      \* stops and failed commits so far

vars == <<log, pos, committed, pc, effects, dlq, base, faults>>

Points == {"down", "polling", "got", "processed", "failed", "sent"}

\* What becomes of the bytes.  "invalid": process() raises, as parse_event does with a
\* ValidationError; "garbled": json.loads raises JSONDecodeError, the text is not JSON;
\* "undecodable": it raises another exception, as UnicodeDecodeError where there is no text.
Values == {"valid", "invalid", "garbled", "undecodable"}

\* The header x-retry-count is absent on what the relay sends and counts as 0.  sender
\* is history: neither Kafka nor the consumers keep it.
Messages == [event : Events, value : Values, retry_count : 0..MaxRetries,
             sender : Groups \cup {"relay"}]

NoOffset == -1

Init ==
    /\ log = <<>>
    /\ pos = [g \in Groups |-> 0]
    /\ committed = [g \in Groups |-> NoOffset]
    /\ pc = [g \in Groups |-> "down"]
    /\ effects = [g \in Groups |-> [e \in Events |-> 0]]
    /\ dlq = [g \in Groups |-> {}]
    /\ base = [g \in Groups |-> 0]
    /\ faults = 0

-----------------------------------------------------------------------------
\* Messages of an event with a retry count, from some of the senders.
Copies(e, n, senders) ==
    { i \in DOMAIN log : /\ log[i].event = e /\ log[i].retry_count = n
                         /\ log[i].sender \in senders }

\* The relay delivers an event, at least once (OutboxRelay).
Deliver(e, v) ==
    /\ v = "valid" <=> e \notin Unreadable
    /\ Cardinality(Copies(e, 0, {"relay"})) < MaxDeliveries
    /\ log' = Append(log, [event |-> e, value |-> v, retry_count |-> 0, sender |-> "relay"])
    /\ UNCHANGED <<pos, committed, pc, effects, dlq, base, faults>>

Goto(g, point) == pc' = [pc EXCEPT ![g] = point]

\* The message handle_message is working on.
InHand(g) == log[pos[g]]

\* Faulty variant: after a restart the consumer reads on from the end of the topic.
FaultyStartLatest(g) ==
    /\ pc[g] = "down"
    /\ pos' = [pos EXCEPT ![g] = Len(log)]
    /\ base' = IF committed[g] = NoOffset THEN [base EXCEPT ![g] = Len(log)] ELSE base
    /\ Goto(g, "polling")
    /\ UNCHANGED <<log, committed, effects, dlq, faults>>

\* run(), at the start of the process and at every restart: a group without a committed
\* offset begins at the end of the topic (auto_offset_reset="latest").
Start(g) ==
    /\ pc[g] = "down"
    /\ IF committed[g] = NoOffset
       THEN /\ pos' = [pos EXCEPT ![g] = Len(log)]
            /\ base' = [base EXCEPT ![g] = Len(log)]
       ELSE /\ pos' = [pos EXCEPT ![g] = committed[g]]
            /\ UNCHANGED base
    /\ Goto(g, "polling")
    /\ UNCHANGED <<log, committed, effects, dlq, faults>>

\* Faulty variant: enable_auto_commit left at its default.
FaultyAutoCommit(g) ==
    /\ pc[g] = "polling"
    /\ pos[g] < Len(log)
    /\ pos' = [pos EXCEPT ![g] = @ + 1]
    /\ committed' = [committed EXCEPT ![g] = pos[g] + 1]
    /\ Goto(g, "got")
    /\ UNCHANGED <<log, effects, dlq, base, faults>>

\* async for message in consumer: the position moves with the hand-over.
Poll(g) ==
    /\ pc[g] = "polling"
    /\ pos[g] < Len(log)
    /\ pos' = [pos EXCEPT ![g] = @ + 1]
    /\ Goto(g, "got")
    /\ UNCHANGED <<log, committed, effects, dlq, base, faults>>

\* process() took effect; a second row of the same event meets UNIQUE and is swallowed.
Effect(g, e) ==
    effects' = IF g \in Tables /\ effects[g][e] > 0
               THEN effects
               ELSE [effects EXCEPT ![g][e] = @ + 1]

\* await self.process(event) returns.
Process(g) ==
    /\ pc[g] = "got"
    /\ InHand(g).value = "valid"
    /\ Effect(g, InHand(g).event)
    /\ Goto(g, "processed")
    /\ UNCHANGED <<log, pos, committed, dlq, base, faults>>

\* process() raises: parse_event refuses the event, or the database fails a group that
\* writes to it, with its transaction committed or not.
ProcessRaises(g, stored) ==
    /\ pc[g] = "got"
    /\ \/ InHand(g).value = "invalid" /\ ~stored
       \/ InHand(g).value = "valid" /\ g \in Tables
    /\ IF stored THEN Effect(g, InHand(g).event) ELSE UNCHANGED effects
    /\ Goto(g, "failed")
    /\ UNCHANGED <<log, pos, committed, dlq, base, faults>>

\* Faulty variant: commits are saved up until the topic is read to its end.
FaultyBatchedCommit(g) ==
    /\ pc[g] = "processed"
    /\ committed' = IF pos[g] = Len(log) THEN [committed EXCEPT ![g] = pos[g]] ELSE committed
    /\ Goto(g, "polling")
    /\ UNCHANGED <<log, pos, effects, dlq, base, faults>>

\* consumer.commit() after process().
Commit(g) ==
    /\ pc[g] = "processed"
    /\ committed' = [committed EXCEPT ![g] = pos[g]]
    /\ Goto(g, "polling")
    /\ UNCHANGED <<log, pos, effects, dlq, base, faults>>

\* That commit raises, in the same try as process(): what was processed is now handled
\* as a failure.  The broker may have stored the offset.
CommitRaises(g, stored) ==
    /\ pc[g] = "processed"
    /\ faults < MaxFaults
    /\ faults' = faults + 1
    /\ committed' = IF stored THEN [committed EXCEPT ![g] = pos[g]] ELSE committed
    /\ Goto(g, "failed")
    /\ UNCHANGED <<log, pos, effects, dlq, base>>

\* Faulty variant: the header is not counted up.
FaultySameCount(g) ==
    /\ pc[g] = "failed"
    /\ InHand(g).retry_count < MaxRetries
    /\ log' = Append(log, [InHand(g) EXCEPT !.sender = g])
    /\ Goto(g, "sent")
    /\ UNCHANGED <<pos, committed, effects, dlq, base, faults>>

\* Faulty variant: one retry too many.
FaultyRetryAtLimit(g) ==
    /\ pc[g] = "failed"
    /\ InHand(g).retry_count <= MaxRetries
    /\ log' = Append(log, [InHand(g) EXCEPT !.retry_count = @ + 1, !.sender = g])
    /\ Goto(g, "sent")
    /\ UNCHANGED <<pos, committed, effects, dlq, base, faults>>

\* A failure with retries left: the message is appended to the topic every group reads.
Republish(g) ==
    /\ pc[g] = "failed"
    /\ InHand(g).retry_count < MaxRetries
    /\ log' = Append(log, [InHand(g) EXCEPT !.retry_count = @ + 1, !.sender = g])
    /\ Goto(g, "sent")
    /\ UNCHANGED <<pos, committed, effects, dlq, base, faults>>

\* Faulty variant: the last retry is not made.
FaultyDeadLetterEarly(g) ==
    /\ \/ pc[g] = "got" /\ InHand(g).value = "garbled"
       \/ pc[g] = "failed" /\ InHand(g).retry_count + 1 >= MaxRetries
    /\ dlq' = [dlq EXCEPT ![g] = @ \cup {InHand(g).event}]
    /\ Goto(g, "sent")
    /\ UNCHANGED <<log, pos, committed, effects, base, faults>>

\* JSONDecodeError, or the retries are used up: to the group's own dead-letter topic.
DeadLetter(g) ==
    /\ \/ pc[g] = "got" /\ InHand(g).value = "garbled"
       \/ pc[g] = "failed" /\ InHand(g).retry_count >= MaxRetries
    /\ dlq' = [dlq EXCEPT ![g] = @ \cup {InHand(g).event}]
    /\ Goto(g, "sent")
    /\ UNCHANGED <<log, pos, committed, effects, base, faults>>

\* consumer.commit() after the message was sent on.
CommitSent(g) ==
    /\ pc[g] = "sent"
    /\ committed' = [committed EXCEPT ![g] = pos[g]]
    /\ Goto(g, "polling")
    /\ UNCHANGED <<log, pos, effects, dlq, base, faults>>

\* Any other exception of json.loads is caught nowhere: it leaves handle_message and run(),
\* which stops the consumer, with nothing sent on and nothing committed.
DecodeRaises(g) ==
    /\ pc[g] = "got"
    /\ InHand(g).value = "undecodable"
    /\ Goto(g, "down")
    /\ pos' = [pos EXCEPT ![g] = 0]
    /\ UNCHANGED <<log, committed, effects, dlq, base, faults>>

\* The process dies, or send_and_wait or the commit after it raises out of run().
Stop(g) ==
    /\ pc[g] # "down"
    /\ faults < MaxFaults
    /\ faults' = faults + 1
    /\ Goto(g, "down")
    /\ pos' = [pos EXCEPT ![g] = 0]
    /\ UNCHANGED <<log, committed, effects, dlq, base>>

-----------------------------------------------------------------------------
GroupStep(g) ==
    \/ Start(g) \/ Poll(g) \/ DecodeRaises(g)
    \/ Process(g) \/ \E stored \in BOOLEAN : ProcessRaises(g, stored)
    \/ Commit(g) \/ Republish(g) \/ DeadLetter(g) \/ CommitSent(g)

Next ==
    \/ \E e \in Events, v \in Values : Deliver(e, v)
    \/ \E g \in Groups :
           GroupStep(g) \/ Stop(g) \/ \E stored \in BOOLEAN : CommitRaises(g, stored)

\* Every consumer keeps polling and is restarted ("restart: unless-stopped").  Nothing
\* says process() ever succeeds, and nothing need be delivered.
Fairness == \A g \in Groups : WF_vars(GroupStep(g))

Spec == Init /\ [][Next]_vars /\ Fairness

-----------------------------------------------------------------------------
(* Correctness *)

\* Every variable has its type; offsets point into the topic.
TypeOK ==
    /\ log \in Seq(Messages)
    /\ pos \in [Groups -> 0..Len(log)]
    /\ committed \in [Groups -> (0..Len(log)) \cup {NoOffset}]
    /\ pc \in [Groups -> Points]
    /\ effects \in [Groups -> [Events -> Nat]]
    /\ dlq \in [Groups -> SUBSET Events]
    /\ base \in [Groups -> 0..Len(log)]
    /\ faults \in 0..MaxFaults

\* What handling the message at offset i can have left behind.
Handled(g, i) ==
    \/ effects[g][log[i].event] > 0
    \/ log[i].event \in dlq[g]
    \/ \E j \in Copies(log[i].event, log[i].retry_count + 1, {g}) : i < j

\* A committed offset never moves past a message that came to nothing: it took effect,
\* is queued again behind the offset, or is in the dead-letter topic (handle_message).
NothingSkipped ==
    \A g \in Groups : committed[g] # NoOffset =>
        \A i \in (base[g] + 1)..committed[g] : Handled(g, i)

\* "Dead-letter routing after 3 retries": all MAX_RETRIES retries of a dead letter were
\* made.  They need not be the group's own: groups count each other's retries up.
DeadLetterAfterRetries ==
    \A g \in Groups : \A e \in dlq[g] :
        \/ \A n \in 1..MaxRetries : Copies(e, n, Groups) # {}
        \/ \E i \in DOMAIN log : log[i].event = e /\ log[i].value = "garbled"

\* A retry is queued for every group, yet the storm dies out: a group sends at most one
\* copy for each copy it reads, plus one per interrupted commit (handle_message).
RetriesBounded ==
    \A e \in Events, g \in Groups :
        /\ Copies(e, 0, {g}) = {}
        /\ \A n \in 1..MaxRetries :
               Cardinality(Copies(e, n, {g}))
                   <= Cardinality(Copies(e, n - 1, Groups \cup {"relay"})) + faults

\* A user is notified, or a row written, at most once per copy of the event in the topic
\* and once per interrupted commit (at-least-once without idempotence).
EffectsExplained ==
    \A e \in Events, g \in Groups :
        effects[g][e] <= Cardinality({ i \in DOMAIN log : log[i].event = e }) + faults

\* The message a restarted consumer is handed first stops it again.
Stuck(g) == /\ committed[g] + 1 \in DOMAIN log
            /\ log[committed[g] + 1].value = "undecodable"

\* Once a group has committed, every later event takes effect or becomes a dead letter,
\* whatever else fails and however often its consumer stops: only undecodable bytes at the
\* group's own offset keep it from an event (at-least-once delivery).
EveryEventHandled ==
    \A e \in Events, g \in Groups :
        (committed[g] # NoOffset /\ \E i \in DOMAIN log : i > committed[g] /\ log[i].event = e)
            ~> (effects[g][e] > 0 \/ e \in dlq[g] \/ Stuck(g))
=============================================================================
