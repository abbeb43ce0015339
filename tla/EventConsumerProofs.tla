------------------------ MODULE EventConsumerProofs ------------------------
(***************************************************************************)
(* Safety of the consumers for every set of events and groups, every retry *)
(* limit, and any number of deliveries, stops and failed commits.          *)
(***************************************************************************)
EXTENDS EventConsumer, FiniteSetTheorems, TLAPS

-----------------------------------------------------------------------------
(* Types *)

\* handle_message is at work on a message of the topic.
Working == {"got", "processed", "failed", "sent"}

\* The message in hand is in the topic.
HandInv == \A g \in Groups : pc[g] \in Working => pos[g] \in 1..Len(log)

\* Types, and the message in hand.
TypeInv == TypeOK /\ HandInv

\* The message in hand is a message.
LEMMA InHandTyped ==
    ASSUME TypeInv, NEW g \in Groups, pc[g] \in Working
    PROVE  /\ pos[g] \in DOMAIN log /\ InHand(g) \in Messages
           /\ InHand(g).event \in Events /\ InHand(g).retry_count \in 0..MaxRetries
           /\ InHand(g).value \in Values
<1>1. pos[g] \in DOMAIN log /\ log[pos[g]] \in Messages
  BY DEF TypeInv, TypeOK, HandInv
<1> QED
  BY <1>1 DEF InHand, Messages

\* Appending keeps what the log has.
LEMMA Appended ==
    ASSUME log \in Seq(Messages), NEW m \in Messages, log' = Append(log, m)
    PROVE  /\ log' \in Seq(Messages) /\ Len(log') = Len(log) + 1 /\ Len(log) \in Nat
           /\ DOMAIN log = 1..Len(log) /\ DOMAIN log' = 1..(Len(log) + 1)
           /\ \A i \in DOMAIN log : log'[i] = log[i]
           /\ log'[Len(log) + 1] = m
  OBVIOUS

\* The message of a retry is a message, of the same event.
LEMMA RetryTyped ==
    ASSUME NEW m \in Messages, m.retry_count < MaxRetries, NEW g \in Groups
    PROVE  LET n == [m EXCEPT !.retry_count = @ + 1, !.sender = g]
           IN  /\ n \in Messages /\ n.event = m.event /\ n.value = m.value /\ n.sender = g
               /\ n.retry_count = m.retry_count + 1
<1>1. m.retry_count + 1 \in 0..MaxRetries
  BY BoundsAssumption DEF Messages
<1>2. ASSUME NEW k \in 0..MaxRetries
      PROVE  LET n == [m EXCEPT !.retry_count = k]
             IN  /\ n \in Messages /\ n.event = m.event /\ n.value = m.value
                 /\ n.retry_count = k
  BY DEF Messages
<1>3. ASSUME NEW k \in Messages
      PROVE  LET n == [k EXCEPT !.sender = g]
             IN  /\ n \in Messages /\ n.event = k.event /\ n.value = k.value
                 /\ n.retry_count = k.retry_count /\ n.sender = g
  BY DEF Messages
<1>4. [m EXCEPT !.retry_count = @ + 1, !.sender = g]
          = [[m EXCEPT !.retry_count = m.retry_count + 1] EXCEPT !.sender = g]
  OBVIOUS
<1> QED
  BY <1>1, <1>2, <1>3, <1>4

\* process() leaves something behind, and takes nothing back.
LEMMA EffectStays ==
    ASSUME TypeOK, NEW g \in Groups, NEW e \in Events, Effect(g, e)
    PROVE  /\ effects' \in [Groups -> [Events -> Nat]]
           /\ effects'[g][e] > 0
           /\ \A h \in Groups, f \in Events : effects[h][f] > 0 => effects'[h][f] > 0
<1>1. CASE g \in Tables /\ effects[g][e] > 0
  BY <1>1 DEF Effect, TypeOK
<1>2. CASE ~(g \in Tables /\ effects[g][e] > 0)
  <2>1. effects' = [effects EXCEPT ![g] = [effects[g] EXCEPT ![e] = effects[g][e] + 1]]
    BY <1>2 DEF Effect
  <2>2. effects[g] \in [Events -> Nat] /\ effects[g][e] + 1 \in Nat
    BY DEF TypeOK
  <2>3. effects' \in [Groups -> [Events -> Nat]]
    BY <2>1, <2>2 DEF TypeOK
  <2>4. effects'[g][e] = effects[g][e] + 1
    BY <2>1, <2>2 DEF TypeOK
  <2>5. \A h \in Groups, f \in Events : effects'[h][f] = effects[h][f] \/ (h = g /\ f = e)
    BY <2>1, <2>2 DEF TypeOK
  <2>6. effects[g][e] \in Nat
    BY <2>2
  <2>7. effects'[g][e] > 0
    BY <2>4, <2>6
  <2>8. ASSUME NEW h \in Groups, NEW f \in Events, effects[h][f] > 0 PROVE effects'[h][f] > 0
    BY <2>5, <2>7, <2>8
  <2> QED
    BY <2>3, <2>7, <2>8
<1> QED
  BY <1>1, <1>2

\* They hold at the start,
LEMMA TypeInit == Init => TypeInv
  BY BoundsAssumption DEF Init, TypeInv, TypeOK, HandInv, Points, NoOffset, Working, Messages

\* Steps that append to the topic preserve the types.
LEMMA TypeAppend ==
    ASSUME TypeInv,
           \/ \E e \in Events, v \in Values : Deliver(e, v)
           \/ \E g \in Groups : Republish(g)
    PROVE  TypeInv'
<1>1. ASSUME NEW e \in Events, NEW v \in Values, Deliver(e, v) PROVE TypeInv'
  <2>1. [event |-> e, value |-> v, retry_count |-> 0, sender |-> "relay"] \in Messages
    BY BoundsAssumption DEF Messages
  <2>2. log' \in Seq(Messages) /\ Len(log') = Len(log) + 1 /\ Len(log) \in Nat
    BY <1>1, <2>1, Appended DEF Deliver, TypeInv, TypeOK
  <2> QED
    BY <1>1, <2>2 DEF Deliver, TypeInv, TypeOK, HandInv
<1>2. ASSUME NEW g \in Groups, Republish(g) PROVE TypeInv'
  <2>1. InHand(g) \in Messages /\ pos[g] \in 1..Len(log)
    BY <1>2, InHandTyped DEF Republish, Working, TypeInv, HandInv
  <2>2. [InHand(g) EXCEPT !.retry_count = @ + 1, !.sender = g] \in Messages
    BY <1>2, <2>1, RetryTyped DEF Republish
  <2>3. log' \in Seq(Messages) /\ Len(log') = Len(log) + 1 /\ Len(log) \in Nat
    BY <1>2, <2>2, Appended DEF Republish, TypeInv, TypeOK
  <2>4. pc' \in [Groups -> Points] /\ \A h \in Groups : pc'[h] = pc[h] \/ h = g
    BY <1>2 DEF Republish, Goto, TypeInv, TypeOK, Points
  <2>5. UNCHANGED <<pos, committed, effects, dlq, base, faults>>
    BY <1>2 DEF Republish
  <2>6. 0..Len(log) \subseteq 0..Len(log')
    BY <2>3
  <2>7. TypeOK'
    BY <2>3, <2>4, <2>5, <2>6 DEF TypeInv, TypeOK
  <2>8. ASSUME NEW h \in Groups, pc'[h] \in Working PROVE pos'[h] \in 1..Len(log')
    <3>1. pos[h] \in 1..Len(log)
      BY <2>1, <2>4, <2>8 DEF TypeInv, HandInv
    <3> QED
      BY <2>3, <2>5, <3>1
  <2> QED
    BY <2>7, <2>8 DEF TypeInv, HandInv
<1> QED
  BY <1>1, <1>2

\* Steps of a consumer that leave the topic alone preserve the types.
LEMMA TypeConsumer ==
    ASSUME TypeInv, NEW g \in Groups,
           \/ Start(g) \/ Poll(g) \/ Process(g)
           \/ \E stored \in BOOLEAN : ProcessRaises(g, stored) \/ CommitRaises(g, stored)
           \/ Commit(g) \/ DeadLetter(g) \/ CommitSent(g) \/ DecodeRaises(g) \/ Stop(g)
    PROVE  TypeInv'
<1> USE DEF Goto, TypeInv, TypeOK, HandInv, Points, Working
<1>0. Len(log) \in Nat /\ Len(log) \in 0..Len(log)
  OBVIOUS
<1>1. CASE Start(g)
  <2>1. pc' \in [Groups -> Points] /\ \A h \in Groups : pc'[h] = pc[h] \/ h = g
    BY <1>1 DEF Start
  <2>2. pos' \in [Groups -> 0..Len(log)] /\ \A h \in Groups : pos'[h] = pos[h] \/ h = g
    <3>1. CASE committed[g] = NoOffset
      BY <1>0, <1>1, <3>1 DEF Start
    <3>2. CASE committed[g] # NoOffset
      BY <1>0, <1>1, <3>2 DEF Start
    <3> QED
      BY <3>1, <3>2
  <2>3. base' \in [Groups -> 0..Len(log)]
    BY <1>0, <1>1 DEF Start
  <2>4. pc'[g] = "polling"
    BY <1>1 DEF Start
  <2> QED
    BY <1>1, <2>1, <2>2, <2>3, <2>4 DEF Start
<1>2. CASE Poll(g)
  BY <1>0, <1>2 DEF Poll
<1>3. CASE Process(g)
  <2>1. effects' \in [Groups -> [Events -> Nat]]
    BY <1>3, InHandTyped, EffectStays DEF Process
  <2> QED
    BY <1>3, <2>1 DEF Process
<1>4. ASSUME NEW stored \in BOOLEAN, ProcessRaises(g, stored) PROVE TypeInv'
  <2>1. effects' \in [Groups -> [Events -> Nat]]
    BY <1>4, InHandTyped, EffectStays DEF ProcessRaises
  <2> QED
    BY <1>4, <2>1 DEF ProcessRaises
<1>5. ASSUME NEW stored \in BOOLEAN, CommitRaises(g, stored) PROVE TypeInv'
  BY <1>0, <1>5, BoundsAssumption DEF CommitRaises
<1>6. CASE Commit(g)
  BY <1>6 DEF Commit
<1>7. CASE DeadLetter(g)
  <2>1. InHand(g).event \in Events
    BY <1>7, InHandTyped DEF DeadLetter
  <2> QED
    BY <1>7, <2>1 DEF DeadLetter
<1>8. CASE CommitSent(g)
  BY <1>8 DEF CommitSent
<1>9. CASE Stop(g)
  BY <1>0, <1>9, BoundsAssumption DEF Stop
<1>10. CASE DecodeRaises(g)
  BY <1>0, <1>10 DEF DecodeRaises
<1> QED
  BY <1>1, <1>2, <1>3, <1>4, <1>5, <1>6, <1>7, <1>8, <1>9, <1>10

\* every step keeps them,
LEMMA TypeStep == TypeInv /\ [Next]_vars => TypeInv'
<1> SUFFICES ASSUME TypeInv, [Next]_vars PROVE TypeInv'
  OBVIOUS
<1>1. CASE UNCHANGED vars
  BY <1>1 DEF vars, TypeInv, TypeOK, HandInv
<1> QED
  BY <1>1, TypeAppend, TypeConsumer DEF Next, GroupStep

\* and so they hold always.
LEMMA TypeInvariant == Spec => []TypeInv
  BY TypeInit, TypeStep, PTL DEF Spec

\* Every variable keeps its type, and offsets point into the topic (run, handle_message).
THEOREM ConsumerTypeOK == Spec => []TypeOK
  BY TypeInvariant, PTL DEF TypeInv

-----------------------------------------------------------------------------
(* What no step takes back *)

\* Each step leaves the topic alone or appends a message to it.
LEMMA TopicSteps ==
    ASSUME TypeInv, [Next]_vars
    PROVE  log' = log \/ \E m \in Messages : log' = Append(log, m)
<1>1. ASSUME NEW e \in Events, NEW v \in Values, Deliver(e, v)
      PROVE  \E m \in Messages : log' = Append(log, m)
  <2>1. [event |-> e, value |-> v, retry_count |-> 0, sender |-> "relay"] \in Messages
    BY BoundsAssumption DEF Messages
  <2> QED
    BY <1>1, <2>1 DEF Deliver
<1>2. ASSUME NEW g \in Groups, Republish(g) PROVE \E m \in Messages : log' = Append(log, m)
  <2>1. InHand(g) \in Messages
    BY <1>2, InHandTyped DEF Republish, Working
  <2>2. [InHand(g) EXCEPT !.retry_count = @ + 1, !.sender = g] \in Messages
    BY <1>2, <2>1, RetryTyped DEF Republish
  <2> QED
    BY <1>2, <2>2 DEF Republish
<1> QED
  BY <1>1, <1>2 DEF Next, vars, GroupStep, Start, Poll, Process, ProcessRaises, Commit, CommitRaises,
                    DeadLetter, CommitSent, Stop, DecodeRaises

\* Messages stay in the topic, effects and dead letters stay.
LEMMA Grows ==
    ASSUME TypeInv, [Next]_vars
    PROVE  /\ \A i \in DOMAIN log : i \in DOMAIN log' /\ log'[i] = log[i]
           /\ \A h \in Groups, f \in Events : effects[h][f] > 0 => effects'[h][f] > 0
           /\ \A h \in Groups : dlq[h] \subseteq dlq'[h]
<1>1. \A i \in DOMAIN log : i \in DOMAIN log' /\ log'[i] = log[i]
  <2>1. ASSUME NEW m \in Messages, log' = Append(log, m)
        PROVE  \A i \in DOMAIN log : i \in DOMAIN log' /\ log'[i] = log[i]
    BY <2>1, Appended DEF TypeInv, TypeOK
  <2> QED
    BY <2>1, TopicSteps
<1>2. \A h \in Groups, f \in Events : effects[h][f] > 0 => effects'[h][f] > 0
  <2>1. ASSUME NEW g \in Groups, Process(g) \/ \E stored \in BOOLEAN : ProcessRaises(g, stored)
        PROVE  \A h \in Groups, f \in Events : effects[h][f] > 0 => effects'[h][f] > 0
    <3>1. InHand(g).event \in Events
      BY <2>1, InHandTyped DEF Process, ProcessRaises, Working
    <3>2. Effect(g, InHand(g).event) \/ effects' = effects
      BY <2>1 DEF Process, ProcessRaises
    <3> QED
      BY <3>1, <3>2, EffectStays DEF TypeInv
  <2> QED
    BY <2>1 DEF Next, vars, GroupStep, Deliver, Start, Poll, Commit, CommitRaises, Republish,
                DeadLetter, CommitSent, Stop, DecodeRaises
<1>3. \A h \in Groups : dlq[h] \subseteq dlq'[h]
  BY DEF TypeInv, TypeOK, Next, vars, GroupStep, Deliver, Start, Poll, Process, ProcessRaises, Commit,
         CommitRaises, Republish, DeadLetter, CommitSent, Stop, DecodeRaises
<1> QED
  BY <1>1, <1>2, <1>3

\* So a message that was handled stays handled.
LEMMA HandledStays ==
    ASSUME TypeInv, [Next]_vars, NEW g \in Groups, NEW i \in DOMAIN log, Handled(g, i)
    PROVE  Handled(g, i)'
<1>1. log'[i] = log[i] /\ log[i].event \in Events
  <2>1. log[i] \in Messages
    BY DEF TypeInv, TypeOK
  <2> QED
    BY <2>1, Grows DEF Messages
<1>2. \A e, n : Copies(e, n, {g}) \subseteq Copies(e, n, {g})'
  BY Grows DEF Copies
<1> QED
  BY <1>1, <1>2, Grows DEF Handled

-----------------------------------------------------------------------------
(* Nothing is skipped *)

\* The strengthening NothingSkipped needs: what a running consumer has been handed is
\* handled too, but for the message it is working on.
ReadInv ==
    \A g \in Groups : pc[g] # "down" =>
        \A i \in (base[g] + 1)..pos[g] :
            i < pos[g] \/ pc[g] \in {"polling", "processed", "sent"} => Handled(g, i)

\* Nothing is committed or read at the start.
LEMMA SkipInit == Init => NothingSkipped /\ ReadInv
  BY DEF Init, NothingSkipped, ReadInv

\* The two invariants for one group.
Behind(g) == committed[g] # NoOffset =>
                 \A i \in (base[g] + 1)..committed[g] : Handled(g, i)

Read(g) == pc[g] # "down" =>
               \A i \in (base[g] + 1)..pos[g] :
                   i < pos[g] \/ pc[g] \in {"polling", "processed", "sent"} => Handled(g, i)

\* No step passes over a message that came to nothing.
LEMMA SkipStep ==
    ASSUME TypeInv, NothingSkipped, ReadInv, [Next]_vars
    PROVE  NothingSkipped' /\ ReadInv'
<1> SUFFICES ASSUME NEW g \in Groups PROVE Behind(g)' /\ Read(g)'
  BY DEF NothingSkipped, ReadInv, Behind, Read
<1>1. /\ Behind(g) /\ Read(g)
      /\ pos[g] \in 0..Len(log) /\ base[g] \in 0..Len(log)
      /\ committed[g] \in (0..Len(log)) \cup {NoOffset}
      /\ Len(log) \in Nat /\ DOMAIN log = 1..Len(log)
  BY DEF NothingSkipped, ReadInv, Behind, Read, TypeInv, TypeOK
<1>2. /\ committed[g] # NoOffset => \A i \in (base[g] + 1)..committed[g] : Handled(g, i)'
      /\ pc[g] # "down" =>
             \A i \in (base[g] + 1)..pos[g] :
                 i < pos[g] \/ pc[g] \in {"polling", "processed", "sent"} => Handled(g, i)'
  <2>1. \A i \in (base[g] + 1)..committed[g] : committed[g] # NoOffset => i \in DOMAIN log
    BY <1>1
  <2>2. \A i \in (base[g] + 1)..pos[g] : i \in DOMAIN log
    BY <1>1
  <2> QED
    BY <1>1, <2>1, <2>2, HandledStays DEF Behind, Read
<1>3. CASE /\ pos'[g] = pos[g] /\ committed'[g] = committed[g] /\ base'[g] = base[g]
           /\ pc'[g] = pc[g]
  BY <1>2, <1>3 DEF Behind, Read
<1>4. CASE Start(g)
  <2>1. pc'[g] = "polling" /\ committed'[g] = committed[g]
    BY <1>4 DEF Start, Goto, TypeInv, TypeOK
  <2>2. CASE committed[g] = NoOffset
    <3>1. pos'[g] = Len(log) /\ base'[g] = Len(log)
      BY <1>4, <2>2 DEF Start, TypeInv, TypeOK
    <3> QED
      BY <1>1, <2>1, <2>2, <3>1 DEF Behind, Read
  <2>3. CASE committed[g] # NoOffset
    <3>1. pos'[g] = committed[g] /\ base'[g] = base[g]
      BY <1>4, <2>3 DEF Start, TypeInv, TypeOK
    <3> QED
      BY <1>2, <2>1, <2>3, <3>1 DEF Behind, Read
  <2> QED
    BY <2>2, <2>3
<1>5. CASE Poll(g)
  <2>1. /\ pos'[g] = pos[g] + 1 /\ pc[g] = "polling" /\ pc'[g] = "got"
        /\ committed'[g] = committed[g] /\ base'[g] = base[g]
    BY <1>5 DEF Poll, Goto, TypeInv, TypeOK
  <2> QED
    BY <1>1, <1>2, <2>1 DEF Behind, Read
<1>6. CASE Process(g) \/ DeadLetter(g) \/ Republish(g)
  <2>1. /\ pos'[g] = pos[g] /\ committed'[g] = committed[g] /\ base'[g] = base[g]
        /\ pc[g] \in {"got", "failed"} /\ pc'[g] \in {"processed", "sent"}
    BY <1>6 DEF Process, DeadLetter, Republish, Goto, TypeInv, TypeOK
  <2>2. /\ pos[g] \in DOMAIN log /\ InHand(g) = log[pos[g]] /\ InHand(g) \in Messages
        /\ InHand(g).event \in Events /\ log'[pos[g]] = log[pos[g]]
    BY <2>1, InHandTyped, Grows DEF Working, InHand
  <2>3. Handled(g, pos[g])'
    <3>1. CASE Process(g)
      BY <2>2, <3>1, EffectStays DEF Process, Handled, TypeInv
    <3>2. CASE DeadLetter(g)
      BY <2>2, <3>2 DEF DeadLetter, Handled, TypeInv, TypeOK
    <3>3. CASE Republish(g)
      <4> DEFINE m == [InHand(g) EXCEPT !.retry_count = @ + 1, !.sender = g]
      <4>1. /\ m \in Messages /\ m.event = InHand(g).event /\ m.sender = g
            /\ m.retry_count = InHand(g).retry_count + 1
        BY <2>2, <3>3, RetryTyped DEF Republish
      <4>2. log' = Append(log, m)
        BY <3>3 DEF Republish
      <4> HIDE DEF m
      <4>3. Len(log) + 1 \in DOMAIN log' /\ log'[Len(log) + 1] = m /\ pos[g] < Len(log) + 1
        BY <1>1, <2>2, <4>1, <4>2, Appended DEF TypeInv, TypeOK
      <4>4. Len(log) + 1 \in Copies(log[pos[g]].event, log[pos[g]].retry_count + 1, {g})'
        BY <2>1, <2>2, <4>1, <4>3 DEF Copies
      <4> QED
        BY <2>1, <2>2, <4>3, <4>4 DEF Handled
    <3> QED
      BY <1>6, <3>1, <3>2, <3>3
  <2> QED
    BY <1>1, <1>2, <2>1, <2>3 DEF Behind, Read
<1>7. ASSUME NEW stored \in BOOLEAN, ProcessRaises(g, stored) PROVE Behind(g)' /\ Read(g)'
  <2>1. /\ pos'[g] = pos[g] /\ committed'[g] = committed[g] /\ base'[g] = base[g]
        /\ pc[g] = "got" /\ pc'[g] = "failed"
    BY <1>7 DEF ProcessRaises, Goto, TypeInv, TypeOK
  <2> QED
    BY <1>2, <2>1 DEF Behind, Read
<1>8. CASE Commit(g) \/ CommitSent(g) \/ \E stored \in BOOLEAN : CommitRaises(g, stored)
  <2>1. /\ pos'[g] = pos[g] /\ base'[g] = base[g]
        /\ committed'[g] \in {committed[g], pos[g]}
        /\ pc[g] \in {"processed", "sent"} /\ pc'[g] \in {"polling", "failed"}
    BY <1>8 DEF Commit, CommitSent, CommitRaises, Goto, TypeInv, TypeOK
  <2> QED
    BY <1>2, <2>1 DEF Behind, Read
<1>9. CASE Stop(g) \/ DecodeRaises(g)
  <2>1. /\ committed'[g] = committed[g] /\ base'[g] = base[g] /\ pc'[g] = "down"
    BY <1>9 DEF Stop, DecodeRaises, Goto, TypeInv, TypeOK
  <2> QED
    BY <1>2, <2>1 DEF Behind, Read
<1>10. ASSUME NEW h \in Groups, h # g,
              \/ GroupStep(h) \/ Stop(h) \/ \E stored \in BOOLEAN : CommitRaises(h, stored)
       PROVE  /\ pos'[g] = pos[g] /\ committed'[g] = committed[g] /\ base'[g] = base[g]
              /\ pc'[g] = pc[g]
  <2>1. CASE Start(h)
    BY <1>10, <2>1 DEF Start, Goto, TypeInv, TypeOK
  <2>2. CASE Poll(h) \/ Stop(h) \/ DecodeRaises(h)
    BY <1>10, <2>2 DEF Poll, Stop, DecodeRaises, Goto, TypeInv, TypeOK
  <2>3. CASE Commit(h) \/ CommitSent(h) \/ \E stored \in BOOLEAN : CommitRaises(h, stored)
    BY <1>10, <2>3 DEF Commit, CommitSent, CommitRaises, Goto, TypeInv, TypeOK
  <2>4. CASE \/ Process(h) \/ DeadLetter(h) \/ Republish(h)
            \/ \E stored \in BOOLEAN : ProcessRaises(h, stored)
    BY <1>10, <2>4 DEF Process, DeadLetter, Republish, ProcessRaises, Goto, TypeInv, TypeOK
  <2> QED
    BY <1>10, <2>1, <2>2, <2>3, <2>4 DEF GroupStep
<1>11. CASE UNCHANGED vars \/ \E e \in Events, v \in Values : Deliver(e, v)
  BY <1>3, <1>11 DEF vars, Deliver
<1> QED
  BY <1>3, <1>4, <1>5, <1>6, <1>7, <1>8, <1>9, <1>10, <1>11 DEF Next, GroupStep

\* For any number of groups that read each other's retries, and any stops and failed commits:
\* a group's committed offset never passes a message that came to nothing (handle_message).
THEOREM ConsumerNothingSkipped == Spec => []NothingSkipped
<1>1. TypeInv /\ NothingSkipped /\ ReadInv /\ [Next]_vars => (NothingSkipped /\ ReadInv)'
  BY SkipStep
<1> QED
  BY <1>1, SkipInit, TypeInvariant, PTL DEF Spec

-----------------------------------------------------------------------------
(* Dead letters come after the retries *)

\* The strengthening: below every retry in the topic are all the earlier ones.
LadderInv ==
    \A i \in DOMAIN log : \A n \in 1..log[i].retry_count : Copies(log[i].event, n, Groups) # {}

\* The topic is empty at the start.
LEMMA LadderInit == Init => LadderInv /\ DeadLetterAfterRetries
  BY DEF Init, LadderInv, DeadLetterAfterRetries

\* Copies stay in the topic.
LEMMA CopiesStay ==
    ASSUME TypeInv, [Next]_vars
    PROVE  \A e, n : Copies(e, n, Groups) # {} => Copies(e, n, Groups)' # {}
<1>1. \A e, n : Copies(e, n, Groups) \subseteq Copies(e, n, Groups)'
  BY Grows DEF Copies
<1> QED
  BY <1>1

\* A retry is sent one above the copy that failed, which is in the topic.
LEMMA LadderStep ==
    ASSUME TypeInv, LadderInv, [Next]_vars
    PROVE  LadderInv'
<1>1. ASSUME NEW m \in Messages, log' = Append(log, m),
             \A n \in 1..m.retry_count : Copies(m.event, n, Groups)' # {}
      PROVE  LadderInv'
  <2> SUFFICES ASSUME NEW i \in DOMAIN log', NEW n \in 1..log'[i].retry_count,
                      NEW e, e = log'[i].event
               PROVE  Copies(e, n, Groups)' # {}
    BY DEF LadderInv, Copies
  <2>1. /\ i \in DOMAIN log => log'[i] = log[i]
        /\ i \notin DOMAIN log => log'[i] = m
    BY <1>1, Appended DEF TypeInv, TypeOK
  <2>2. CASE i \in DOMAIN log
    BY <2>1, <2>2, CopiesStay DEF LadderInv
  <2>3. CASE i \notin DOMAIN log
    BY <1>1, <2>1, <2>3
  <2> QED
    BY <2>2, <2>3
<1>2. ASSUME NEW e \in Events, NEW v \in Values, Deliver(e, v) PROVE LadderInv'
  <2> DEFINE m == [event |-> e, value |-> v, retry_count |-> 0, sender |-> "relay"]
  <2>1. m \in Messages /\ 1..m.retry_count = {}
    BY BoundsAssumption DEF Messages
  <2>2. log' = Append(log, m)
    BY <1>2 DEF Deliver
  <2> HIDE DEF m
  <2> QED
    BY <1>1, <2>1, <2>2
<1>3. ASSUME NEW g \in Groups, Republish(g) PROVE LadderInv'
  <2>1. /\ pos[g] \in DOMAIN log /\ InHand(g) = log[pos[g]] /\ InHand(g) \in Messages
        /\ InHand(g).retry_count \in Nat
    BY <1>3, InHandTyped, BoundsAssumption DEF Republish, Working, InHand
  <2>2. PICK m \in Messages : /\ m = [InHand(g) EXCEPT !.retry_count = @ + 1, !.sender = g]
                              /\ m.event = InHand(g).event /\ m.sender = g
                              /\ m.retry_count = InHand(g).retry_count + 1
    BY <1>3, <2>1, RetryTyped DEF Republish
  <2>3. log' = Append(log, m)
    BY <1>3, <2>2 DEF Republish
  <2>4. Len(log) + 1 \in DOMAIN log' /\ log'[Len(log) + 1] = m
    BY <2>2, <2>3, Appended DEF TypeInv, TypeOK
  <2>5. Len(log) + 1 \in { i \in DOMAIN log' : /\ log'[i].event = m.event
                                               /\ log'[i].retry_count = m.retry_count
                                               /\ log'[i].sender \in Groups }
    BY <2>2, <2>4
  <2>6. ASSUME NEW n \in 1..m.retry_count PROVE Copies(m.event, n, Groups)' # {}
    <3>1. { i \in DOMAIN log' : /\ log'[i].event = m.event /\ log'[i].retry_count = n
                                /\ log'[i].sender \in Groups } # {}
      <4>1. CASE n = m.retry_count
        BY <2>5, <4>1
      <4>2. CASE n # m.retry_count
        <5>1. n \in 1..log[pos[g]].retry_count
          BY <2>1, <2>2, <4>2
        <5>2. Copies(log[pos[g]].event, n, Groups) # {}
          BY <2>1, <5>1 DEF LadderInv
        <5>3. PICK j \in DOMAIN log : /\ log[j].event = m.event /\ log[j].retry_count = n
                                      /\ log[j].sender \in Groups
          BY <2>1, <2>2, <5>2 DEF Copies
        <5> QED
          BY <5>3, Grows
      <4> QED
        BY <4>1, <4>2
    <3> QED
      BY <3>1 DEF Copies
  <2> QED
    BY <1>1, <2>2, <2>3, <2>6
<1>4. CASE log' = log
  BY <1>4 DEF LadderInv, Copies
<1> QED
  BY <1>2, <1>3, <1>4 DEF Next, vars, GroupStep, Start, Poll, Process, ProcessRaises, Commit,
                          CommitRaises, DeadLetter, CommitSent, Stop, DecodeRaises

\* A dead letter is sent for a copy at MAX_RETRIES, or one that is not JSON.
LEMMA DeadLetterStep ==
    ASSUME TypeInv, LadderInv, DeadLetterAfterRetries, [Next]_vars
    PROVE  DeadLetterAfterRetries'
<1> DEFINE Retried(e) == \/ \A n \in 1..MaxRetries : Copies(e, n, Groups) # {}
                         \/ \E i \in DOMAIN log : log[i].event = e /\ log[i].value = "garbled"
<1>1. \A e : Retried(e) => Retried(e)'
  <2> SUFFICES ASSUME NEW e, Retried(e) PROVE Retried(e)'
    OBVIOUS
  <2>1. CASE \A n \in 1..MaxRetries : Copies(e, n, Groups) # {}
    BY <2>1, CopiesStay
  <2>2. CASE \E i \in DOMAIN log : log[i].event = e /\ log[i].value = "garbled"
    BY <2>2, Grows
  <2> QED
    BY <2>1, <2>2
<1>2. ASSUME NEW g \in Groups, DeadLetter(g) PROVE Retried(InHand(g).event)
  <2>1. /\ pos[g] \in DOMAIN log /\ InHand(g) = log[pos[g]]
        /\ InHand(g).retry_count \in 0..MaxRetries
    BY <1>2, InHandTyped DEF DeadLetter, Working, InHand
  <2>2. CASE InHand(g).value = "garbled"
    BY <2>1, <2>2
  <2>3. CASE InHand(g).retry_count >= MaxRetries
    <3>1. 1..MaxRetries \subseteq 1..log[pos[g]].retry_count
      BY <2>1, <2>3, BoundsAssumption
    <3> QED
      BY <2>1, <3>1 DEF LadderInv
  <2> QED
    BY <1>2, <2>2, <2>3 DEF DeadLetter
<1>3. ASSUME NEW h \in Groups, NEW e \in dlq'[h] PROVE Retried(e)
  <2>1. e \in dlq[h] \/ \E g \in Groups : DeadLetter(g) /\ e = InHand(g).event
    <3>1. ASSUME NEW g \in Groups, DeadLetter(g) PROVE e \in dlq[h] \/ e = InHand(g).event
      BY <1>3, <3>1 DEF DeadLetter, TypeInv, TypeOK
    <3>2. dlq' = dlq \/ \E g \in Groups : DeadLetter(g)
      BY DEF Next, vars, GroupStep, Deliver, Start, Poll, Process, ProcessRaises, Commit,
             CommitRaises, Republish, CommitSent, Stop, DecodeRaises
    <3> QED
      BY <1>3, <3>1, <3>2
  <2> QED
    BY <1>2, <2>1 DEF DeadLetterAfterRetries
<1> QED
  BY <1>1, <1>3 DEF DeadLetterAfterRetries

\* An event is in a dead-letter topic only when all MAX_RETRIES retries of it were queued, by
\* whichever groups, or when it is not JSON (handle_message).
THEOREM ConsumerDeadLetterAfterRetries == Spec => []DeadLetterAfterRetries
<1>1. TypeInv /\ LadderInv /\ DeadLetterAfterRetries /\ [Next]_vars
          => (LadderInv /\ DeadLetterAfterRetries)'
  BY LadderStep, DeadLetterStep
<1> QED
  BY <1>1, LadderInit, TypeInvariant, PTL DEF Spec
-----------------------------------------------------------------------------
(* How often: effects and retries against the copies in the topic *)

\* Elements of a set of offsets up to one of them.
UpTo(S, x) == { i \in S : i <= x }

\* A larger set up to a later offset has no fewer.
LEMMA UpToGrows ==
    ASSUME NEW S, NEW T, IsFiniteSet(T), T \subseteq Nat, S \subseteq T,
           NEW x \in Int, NEW y \in Int, x <= y
    PROVE  /\ Cardinality(UpTo(S, x)) \in Nat /\ Cardinality(UpTo(T, y)) \in Nat
           /\ Cardinality(UpTo(S, x)) <= Cardinality(UpTo(T, y))
<1>1. UpTo(S, x) \subseteq UpTo(T, y) /\ UpTo(T, y) \subseteq T
  <2>1. ASSUME NEW i \in UpTo(S, x) PROVE i \in UpTo(T, y)
    <3>1. i \in T /\ i \in Nat /\ i <= x
      BY <2>1 DEF UpTo
    <3> QED
      BY <3>1 DEF UpTo
  <2> QED
    BY <2>1 DEF UpTo
<1>2. IsFiniteSet(UpTo(T, y))
  BY <1>1, FS_Subset
<1>3. IsFiniteSet(UpTo(S, x)) /\ Cardinality(UpTo(S, x)) <= Cardinality(UpTo(T, y))
  BY <1>1, <1>2, FS_Subset
<1> QED
  BY <1>2, <1>3, FS_CardinalityType

\* One offset further back is one fewer at most, and one fewer if it was in the set.
LEMMA UpToBack ==
    ASSUME NEW S, IsFiniteSet(S), S \subseteq Nat, NEW x \in Int
    PROVE  /\ Cardinality(UpTo(S, x)) <= Cardinality(UpTo(S, x - 1)) + 1
           /\ x \in S => Cardinality(UpTo(S, x)) = Cardinality(UpTo(S, x - 1)) + 1
<1>1. IsFiniteSet(UpTo(S, x - 1)) /\ Cardinality(UpTo(S, x - 1)) \in Nat
  <2>1. UpTo(S, x - 1) \subseteq S
    BY DEF UpTo
  <2> QED
    BY <2>1, FS_Subset, FS_CardinalityType
<1>a. \A i \in S : i \in Int
  OBVIOUS
<1>2. x \notin UpTo(S, x - 1)
  <2>1. ~(x <= x - 1)
    OBVIOUS
  <2> QED
    BY <2>1 DEF UpTo
<1>b. \A i \in S : i <= x <=> i <= x - 1 \/ i = x
  BY <1>a
<1>3. x \in S => UpTo(S, x) = UpTo(S, x - 1) \cup {x}
  BY <1>b DEF UpTo
<1>4. x \notin S => UpTo(S, x) = UpTo(S, x - 1)
  BY <1>b DEF UpTo
<1>5. Cardinality(UpTo(S, x - 1) \cup {x}) = Cardinality(UpTo(S, x - 1)) + 1
  BY <1>1, <1>2, FS_AddElement
<1>6. CASE x \in S
  <2>1. Cardinality(UpTo(S, x)) = Cardinality(UpTo(S, x - 1)) + 1
    BY <1>3, <1>5, <1>6
  <2>2. \A n \in Nat : n + 1 <= n + 1
    OBVIOUS
  <2> QED
    BY <1>1, <2>1, <2>2
<1>7. CASE x \notin S
  BY <1>1, <1>4, <1>7
<1> QED
  BY <1>6, <1>7

\* A counter stays below the copies read so far and the faults.  It goes up with a copy
\* read, and a copy is read again at the price of a fault.
LEMMA CounterStaysBelow ==
    ASSUME NEW S, NEW T, IsFiniteSet(T), T \subseteq Nat, S \subseteq T,
           NEW x \in Int, NEW y \in Int, NEW c \in Nat, NEW d \in Nat, NEW f \in Nat, NEW h \in Nat,
           c <= Cardinality(UpTo(S, x)) + f,
           \/ d <= c /\ x <= y /\ f <= h
           \/ d <= c /\ x <= y + 1 /\ h = f + 1
           \/ d <= c + 1 /\ y = x + 1 /\ f = h /\ y \in S
    PROVE  d <= Cardinality(UpTo(T, y)) + h
<1>1. IsFiniteSet(S) /\ S \subseteq Nat
  BY FS_Subset
<1>n. \A z \in Int : Cardinality(UpTo(S, z)) \in Nat
  <2> TAKE z \in Int
  <2>1. S \subseteq S /\ z <= z
    OBVIOUS
  <2> QED
    BY <1>1, <2>1, UpToGrows
<1>2. CASE d <= c /\ x <= y /\ f <= h
  <2>1. /\ Cardinality(UpTo(S, x)) \in Nat /\ Cardinality(UpTo(T, y)) \in Nat
        /\ Cardinality(UpTo(S, x)) <= Cardinality(UpTo(T, y))
    BY <1>2, UpToGrows
  <2> QED
    BY <1>2, <2>1
<1>3. CASE d <= c /\ x <= y + 1 /\ h = f + 1
  <2>1. /\ Cardinality(UpTo(S, x - 1)) \in Nat /\ Cardinality(UpTo(T, y)) \in Nat
        /\ Cardinality(UpTo(S, x - 1)) <= Cardinality(UpTo(T, y))
    <3>1. x - 1 \in Int /\ x - 1 <= y
      BY <1>3
    <3> QED
      BY <3>1, UpToGrows
  <2>2. Cardinality(UpTo(S, x)) <= Cardinality(UpTo(S, x - 1)) + 1
    BY <1>1, UpToBack
  <2>3. Cardinality(UpTo(S, x)) \in Nat
    BY <1>n
  <2> QED
    BY <1>3, <2>1, <2>2, <2>3
<1>4. CASE d <= c + 1 /\ y = x + 1 /\ f = h /\ y \in S
  <2>1. /\ Cardinality(UpTo(S, y)) \in Nat /\ Cardinality(UpTo(T, y)) \in Nat
        /\ Cardinality(UpTo(S, y)) <= Cardinality(UpTo(T, y))
    <3>1. y <= y
      OBVIOUS
    <3> QED
      BY <3>1, UpToGrows
  <2>2. Cardinality(UpTo(S, y)) = Cardinality(UpTo(S, y - 1)) + 1
    BY <1>1, <1>4, UpToBack
  <2>3. y - 1 = x
    BY <1>4
  <2>4. Cardinality(UpTo(S, x)) \in Nat
    BY <1>n
  <2> QED
    BY <1>4, <2>1, <2>2, <2>3, <2>4
<1> QED
  BY <1>2, <1>3, <1>4

\* Copies of an event with one of some retry counts.
Found(e, counts) == { i \in DOMAIN log : log[i].event = e /\ log[i].retry_count \in counts }

\* They are finitely many offsets, and stay.
LEMMA FoundStays ==
    ASSUME TypeInv, [Next]_vars, NEW e, NEW counts
    PROVE  /\ IsFiniteSet(Found(e, counts)') /\ Found(e, counts)' \subseteq Nat
           /\ Found(e, counts) \subseteq Found(e, counts)'
<1>1. log' \in Seq(Messages)
  BY TypeStep DEF TypeInv, TypeOK
<1>2. DOMAIN log' = 1..Len(log') /\ Len(log') \in Nat
  BY <1>1
<1>3. IsFiniteSet(1..Len(log'))
  BY <1>2, FS_Interval
<1>4. Found(e, counts)' \subseteq 1..Len(log')
  BY <1>2 DEF Found
<1>5. Found(e, counts) \subseteq Found(e, counts)'
  BY Grows DEF Found
<1> QED
  BY <1>2, <1>3, <1>4, <1>5, FS_Subset

\* Where a restart reads on, but for what it would skip.
Offset(g) == IF committed[g] = NoOffset THEN base[g] ELSE committed[g]

\* At most one message is in hand: the position is never two past the offset.
OneInHand ==
    \A g \in Groups :
        /\ pc[g] = "polling" => pos[g] = Offset(g)
        /\ pc[g] = "got" => pos[g] = Offset(g) + 1
        /\ pc[g] \in {"processed", "failed", "sent"} => pos[g] \in {Offset(g), Offset(g) + 1}

\* The last message that may have had its effect.
EffectMark(g) == IF pc[g] \in {"processed", "failed", "sent"} THEN pos[g] ELSE Offset(g)

\* The last message that may have been sent on.
SentMark(g) == IF pc[g] = "sent" THEN pos[g]
               ELSE IF pc[g] \in {"got", "processed", "failed"} THEN pos[g] - 1 ELSE Offset(g)

\* What a step may do to one group: nothing, or it is a step of its own.
LEMMA OwnSteps ==
    ASSUME TypeInv, [Next]_vars, NEW g \in Groups
    PROVE  \/ /\ pos'[g] = pos[g] /\ committed'[g] = committed[g] /\ base'[g] = base[g]
              /\ pc'[g] = pc[g] /\ effects'[g] = effects[g] /\ faults' \in {faults, faults + 1}
              /\ ~Republish(g)
           \/ GroupStep(g) \/ Stop(g) \/ \E stored \in BOOLEAN : CommitRaises(g, stored)
<1> DEFINE Quiet == /\ pos'[g] = pos[g] /\ committed'[g] = committed[g] /\ base'[g] = base[g]
                    /\ pc'[g] = pc[g] /\ effects'[g] = effects[g] /\ faults' \in {faults, faults + 1}
<1>1. ASSUME NEW h \in Groups, h # g,
             \/ GroupStep(h) \/ Stop(h) \/ \E stored \in BOOLEAN : CommitRaises(h, stored)
      PROVE  Quiet
  <2>1. CASE Start(h)
    BY <1>1, <2>1 DEF Start, Goto, TypeInv, TypeOK
  <2>2. CASE Poll(h) \/ Stop(h) \/ DecodeRaises(h)
    BY <1>1, <2>2 DEF Poll, Stop, DecodeRaises, Goto, TypeInv, TypeOK
  <2>3. CASE Commit(h) \/ CommitSent(h) \/ \E stored \in BOOLEAN : CommitRaises(h, stored)
    BY <1>1, <2>3 DEF Commit, CommitSent, CommitRaises, Goto, TypeInv, TypeOK
  <2>4. CASE DeadLetter(h) \/ Republish(h)
    BY <1>1, <2>4 DEF DeadLetter, Republish, Goto, TypeInv, TypeOK
  <2>5. CASE Process(h) \/ \E stored \in BOOLEAN : ProcessRaises(h, stored)
    <3>1. effects'[g] = effects[g]
      <4>1. effects' = effects \/ Effect(h, InHand(h).event)
        BY <2>5 DEF Process, ProcessRaises
      <4> QED
        BY <1>1, <4>1 DEF Effect, TypeInv, TypeOK
    <3> QED
      BY <1>1, <2>5, <3>1 DEF Process, ProcessRaises, Goto, TypeInv, TypeOK
  <2> QED
    BY <1>1, <2>1, <2>2, <2>3, <2>4, <2>5 DEF GroupStep
<1>2. ASSUME UNCHANGED vars \/ \E e \in Events, v \in Values : Deliver(e, v) PROVE Quiet
  BY <1>2 DEF vars, Deliver
<1>3. Quiet \/ GroupStep(g) \/ Stop(g) \/ \E stored \in BOOLEAN : CommitRaises(g, stored)
  <2> HIDE DEF Quiet
  <2> QED
    BY <1>1, <1>2 DEF Next
<1>4. Republish(g) => GroupStep(g)
  BY DEF GroupStep
<1> QED
  BY <1>3, <1>4

\* One group's part of OneInHand.
InHandOne(g) ==
    /\ pc[g] = "polling" => pos[g] = Offset(g)
    /\ pc[g] = "got" => pos[g] = Offset(g) + 1
    /\ pc[g] \in {"processed", "failed", "sent"} => pos[g] \in {Offset(g), Offset(g) + 1}

\* The marks go on, or back by one in a fault; an effect and a retry move theirs on.
MarksMove(g) ==
    /\ \/ /\ effects'[g] = effects[g]
          /\ \/ EffectMark(g) <= EffectMark(g)' /\ faults <= faults'
             \/ EffectMark(g) <= EffectMark(g)' + 1 /\ faults' = faults + 1
       \/ /\ pc[g] = "got" /\ Effect(g, InHand(g).event) /\ faults' = faults
          /\ EffectMark(g)' = EffectMark(g) + 1 /\ EffectMark(g)' = pos[g]
    /\ \/ /\ ~Republish(g)
          /\ \/ SentMark(g) <= SentMark(g)' /\ faults <= faults'
             \/ SentMark(g) <= SentMark(g)' + 1 /\ faults' = faults + 1
       \/ /\ Republish(g) /\ faults' = faults
          /\ SentMark(g)' = SentMark(g) + 1 /\ SentMark(g)' = pos[g]

\* Every step does so to every group.
LEMMA MarksStep ==
    ASSUME TypeInv, OneInHand, [Next]_vars, NEW g \in Groups
    PROVE  /\ InHandOne(g)' /\ MarksMove(g)
           /\ EffectMark(g) \in Int /\ SentMark(g) \in Int
           /\ EffectMark(g)' \in Int /\ SentMark(g)' \in Int
<1>1. /\ pos[g] \in Nat /\ base[g] \in Nat /\ committed[g] \in Nat \cup {NoOffset}
      /\ pos'[g] \in Nat /\ base'[g] \in Nat /\ committed'[g] \in Nat \cup {NoOffset}
      /\ faults \in Nat /\ faults' \in Nat /\ Len(log) \in Nat
      /\ base[g] <= Len(log)
  <2>1. TypeOK /\ TypeOK'
    BY TypeStep DEF TypeInv
  <2>2. Len(log) \in Nat /\ Len(log') \in Nat
    BY <2>1 DEF TypeOK
  <2>3. \A n \in Nat : 0..n \subseteq Nat
    OBVIOUS
  <2>4. faults \in Nat /\ faults' \in Nat
    BY <2>1, <2>3, BoundsAssumption DEF TypeOK
  <2> QED
    BY <2>1, <2>2, <2>3, <2>4 DEF TypeOK
<1>2. /\ Offset(g) \in Nat /\ Offset(g)' \in Nat
  BY <1>1 DEF Offset
<1>3. /\ EffectMark(g) \in Int /\ SentMark(g) \in Int
      /\ EffectMark(g)' \in Int /\ SentMark(g)' \in Int
  BY <1>1, <1>2 DEF EffectMark, SentMark
<1>4. InHandOne(g)
  BY DEF OneInHand, InHandOne
<1> DEFINE Goal == InHandOne(g)' /\ MarksMove(g)
<1>5. ASSUME pos'[g] = pos[g], committed'[g] = committed[g], base'[g] = base[g], pc'[g] = pc[g],
             effects'[g] = effects[g], faults' \in {faults, faults + 1}, ~Republish(g)
      PROVE  Goal
  <2>1. Offset(g)' = Offset(g)
    BY <1>5 DEF Offset
  <2>2. EffectMark(g)' = EffectMark(g) /\ SentMark(g)' = SentMark(g) /\ InHandOne(g)'
    BY <1>4, <1>5, <2>1 DEF EffectMark, SentMark, InHandOne
  <2>3. faults <= faults' /\ EffectMark(g) <= EffectMark(g) /\ SentMark(g) <= SentMark(g)
    BY <1>1, <1>3, <1>5
  <2> QED
    BY <1>5, <2>2, <2>3 DEF MarksMove
<1>6. ASSUME Start(g) PROVE Goal
  <2>1. /\ pc[g] = "down" /\ pc'[g] = "polling" /\ committed'[g] = committed[g]
        /\ effects' = effects /\ faults' = faults /\ ~Republish(g)
    BY <1>6 DEF Start, Republish, Goto, TypeInv, TypeOK
  <2>2. /\ committed[g] = NoOffset => pos'[g] = Len(log) /\ base'[g] = Len(log)
        /\ committed[g] # NoOffset => pos'[g] = committed[g] /\ base'[g] = base[g]
    BY <1>6 DEF Start, TypeInv, TypeOK
  <2>3. pos'[g] = Offset(g)' /\ Offset(g) <= Offset(g)'
    BY <1>1, <2>1, <2>2 DEF Offset
  <2> QED
    BY <1>1, <1>2, <2>1, <2>3 DEF InHandOne, MarksMove, EffectMark, SentMark
<1>7. ASSUME Poll(g) PROVE Goal
  <2>1. /\ pc[g] = "polling" /\ pc'[g] = "got" /\ pos'[g] = pos[g] + 1
        /\ committed'[g] = committed[g] /\ base'[g] = base[g]
        /\ effects' = effects /\ faults' = faults /\ ~Republish(g)
    BY <1>7 DEF Poll, Republish, Goto, TypeInv, TypeOK
  <2>2. Offset(g)' = Offset(g)
    BY <2>1 DEF Offset
  <2> QED
    BY <1>1, <1>2, <1>4, <2>1, <2>2 DEF InHandOne, MarksMove, EffectMark, SentMark
<1>8. ASSUME Process(g) \/ \E stored \in BOOLEAN : ProcessRaises(g, stored) PROVE Goal
  <2>1. /\ pc[g] = "got" /\ pc'[g] \in {"processed", "failed"} /\ pos'[g] = pos[g]
        /\ committed'[g] = committed[g] /\ base'[g] = base[g]
        /\ faults' = faults /\ ~Republish(g)
        /\ effects' = effects \/ Effect(g, InHand(g).event)
    BY <1>8 DEF Process, ProcessRaises, Republish, Goto, TypeInv, TypeOK
  <2>2. Offset(g)' = Offset(g)
    BY <2>1 DEF Offset
  <2>3. InHandOne(g)' /\ EffectMark(g)' = EffectMark(g) + 1 /\ EffectMark(g)' = pos[g]
    BY <1>1, <1>2, <1>4, <2>1, <2>2 DEF InHandOne, EffectMark
  <2>4. SentMark(g)' = SentMark(g)
    BY <2>1 DEF SentMark
  <2>5. EffectMark(g) <= EffectMark(g)' /\ SentMark(g) <= SentMark(g)' /\ faults <= faults'
    BY <1>1, <1>3, <2>1, <2>3, <2>4
  <2> QED
    BY <2>1, <2>3, <2>5 DEF MarksMove
<1>9. ASSUME Commit(g) \/ CommitSent(g) PROVE Goal
  <2>1. /\ pc[g] \in {"processed", "sent"} /\ pc'[g] = "polling" /\ pos'[g] = pos[g]
        /\ committed'[g] = pos[g] /\ base'[g] = base[g]
        /\ effects' = effects /\ faults' = faults /\ ~Republish(g)
    BY <1>9 DEF Commit, CommitSent, Republish, Goto, TypeInv, TypeOK
  <2>2. Offset(g)' = pos[g]
    BY <1>1, <2>1 DEF Offset, NoOffset
  <2> QED
    BY <1>1, <1>2, <1>4, <2>1, <2>2 DEF InHandOne, MarksMove, EffectMark, SentMark
<1>10. ASSUME NEW stored \in BOOLEAN, CommitRaises(g, stored) PROVE Goal
  <2>1. /\ pc[g] = "processed" /\ pc'[g] = "failed" /\ pos'[g] = pos[g]
        /\ committed'[g] \in {committed[g], pos[g]} /\ base'[g] = base[g]
        /\ effects' = effects /\ faults' = faults + 1 /\ ~Republish(g)
    BY <1>10 DEF CommitRaises, Republish, Goto, TypeInv, TypeOK
  <2>2. Offset(g)' \in {Offset(g), pos[g]}
    BY <1>1, <2>1 DEF Offset, NoOffset
  <2>3. EffectMark(g)' = EffectMark(g) /\ SentMark(g)' = SentMark(g)
    BY <2>1 DEF EffectMark, SentMark
  <2>4. InHandOne(g)'
    BY <1>1, <1>2, <1>4, <2>1, <2>2 DEF InHandOne
  <2>5. faults <= faults' /\ EffectMark(g) <= EffectMark(g)' /\ SentMark(g) <= SentMark(g)'
    BY <1>1, <1>3, <2>1, <2>3
  <2> QED
    BY <2>1, <2>4, <2>5 DEF MarksMove
<1>11. ASSUME Republish(g) PROVE Goal
  <2>1. /\ pc[g] = "failed" /\ pc'[g] = "sent" /\ pos'[g] = pos[g]
        /\ committed'[g] = committed[g] /\ base'[g] = base[g]
        /\ effects' = effects /\ faults' = faults
    BY <1>11 DEF Republish, Goto, TypeInv, TypeOK
  <2>2. Offset(g)' = Offset(g)
    BY <2>1 DEF Offset
  <2>3. EffectMark(g)' = EffectMark(g) /\ InHandOne(g)'
    BY <1>4, <2>1, <2>2 DEF EffectMark, InHandOne
  <2>4. SentMark(g)' = SentMark(g) + 1 /\ SentMark(g)' = pos[g]
    BY <1>1, <2>1 DEF SentMark
  <2>5. faults <= faults' /\ EffectMark(g) <= EffectMark(g)'
    BY <1>1, <1>3, <2>1, <2>3
  <2> QED
    BY <1>11, <2>1, <2>3, <2>4, <2>5 DEF MarksMove
<1>12. ASSUME DeadLetter(g) PROVE Goal
  <2>1. /\ pc[g] \in {"got", "failed"} /\ pc'[g] = "sent" /\ pos'[g] = pos[g]
        /\ committed'[g] = committed[g] /\ base'[g] = base[g]
        /\ effects' = effects /\ faults' = faults
    BY <1>12 DEF DeadLetter, Goto, TypeInv, TypeOK
  <2>2. Offset(g)' = Offset(g)
    BY <2>1 DEF Offset
  <2>3. ~Republish(g)
    <3>1. CASE pc[g] = "got"
      BY <3>1 DEF Republish
    <3>2. CASE pc[g] = "failed"
      <4>1. InHand(g).retry_count >= MaxRetries
        BY <1>12, <3>2 DEF DeadLetter
      <4>2. InHand(g).retry_count \in 0..MaxRetries
        BY <3>2, InHandTyped DEF Working
      <4>3. ~(InHand(g).retry_count < MaxRetries)
        BY <4>1, <4>2, BoundsAssumption
      <4> QED
        BY <4>3 DEF Republish
    <3> QED
      BY <2>1, <3>1, <3>2
  <2>4. InHandOne(g)' /\ EffectMark(g) <= EffectMark(g)' /\ SentMark(g) <= SentMark(g)'
    BY <1>1, <1>2, <1>4, <2>1, <2>2 DEF InHandOne, EffectMark, SentMark
  <2>5. faults <= faults'
    BY <1>1, <2>1
  <2> QED
    BY <2>1, <2>3, <2>4, <2>5 DEF MarksMove
<1>13. ASSUME Stop(g) PROVE Goal
  <2>1. /\ pc[g] # "down" /\ pc'[g] = "down"
        /\ committed'[g] = committed[g] /\ base'[g] = base[g]
        /\ effects' = effects /\ faults' = faults + 1 /\ pc[g] \in Points
    BY <1>13 DEF Stop, Goto, TypeInv, TypeOK
  <2>2. Offset(g)' = Offset(g)
    BY <2>1 DEF Offset
  <2>3. ~Republish(g)
    BY <2>1 DEF Republish, Goto, TypeInv, TypeOK
  <2>4. InHandOne(g)'
    BY <2>1 DEF InHandOne
  <2>5. EffectMark(g) <= EffectMark(g)' + 1 /\ SentMark(g) <= SentMark(g)' + 1
    BY <1>1, <1>2, <1>4, <2>1, <2>2 DEF InHandOne, EffectMark, SentMark, Points
  <2> QED
    BY <2>1, <2>3, <2>4, <2>5 DEF MarksMove
<1>14. ASSUME DecodeRaises(g) PROVE Goal
  <2>1. /\ pc[g] = "got" /\ pc'[g] = "down"
        /\ committed'[g] = committed[g] /\ base'[g] = base[g]
        /\ effects' = effects /\ faults' = faults /\ ~Republish(g)
    BY <1>14 DEF DecodeRaises, Republish, Goto, TypeInv, TypeOK
  <2>2. Offset(g)' = Offset(g)
    BY <2>1 DEF Offset
  <2>3. InHandOne(g)'
    BY <2>1 DEF InHandOne
  <2>4. EffectMark(g) <= EffectMark(g)' /\ SentMark(g) <= SentMark(g)' /\ faults <= faults'
    BY <1>1, <1>2, <1>4, <2>1, <2>2 DEF InHandOne, EffectMark, SentMark
  <2> QED
    BY <2>1, <2>3, <2>4 DEF MarksMove
<1>15. Goal
  <2> HIDE DEF Goal
  <2> QED
    BY <1>5, <1>6, <1>7, <1>8, <1>9, <1>10, <1>11, <1>12, <1>13, <1>14, OwnSteps DEF GroupStep
<1> QED
  BY <1>3, <1>15

\* So at most one message is in hand.
LEMMA OneInHandStep ==
    ASSUME TypeInv, OneInHand, [Next]_vars
    PROVE  OneInHand'
<1>1. \A g \in Groups : InHandOne(g)'
  BY MarksStep
<1> QED
  BY <1>1 DEF OneInHand, InHandOne

\* The strengthening EffectsExplained needs: only copies up to the mark count.
EffectsInv ==
    \A e \in Events, g \in Groups :
        effects[g][e] <= Cardinality(UpTo(Found(e, 0..MaxRetries), EffectMark(g))) + faults

\* Every step keeps it.
LEMMA EffectsStep ==
    ASSUME TypeInv, OneInHand, EffectsInv, [Next]_vars
    PROVE  EffectsInv'
<1> SUFFICES ASSUME NEW e \in Events, NEW g \in Groups
             PROVE  effects'[g][e]
                        <= Cardinality(UpTo(Found(e, 0..MaxRetries)', EffectMark(g)')) + faults'
  BY DEF EffectsInv
<1>1. PICK S, T : S = Found(e, 0..MaxRetries) /\ T = Found(e, 0..MaxRetries)'
  OBVIOUS
<1>2. IsFiniteSet(T) /\ T \subseteq Nat /\ S \subseteq T
  BY <1>1, FoundStays
<1>3. PICK x \in Int, y \in Int : x = EffectMark(g) /\ y = EffectMark(g)'
  BY MarksStep
<1>4. PICK f \in Nat, h \in Nat : f = faults /\ h = faults'
  <2>1. faults \in 0..MaxFaults /\ faults' \in 0..MaxFaults
    BY TypeStep DEF TypeInv, TypeOK
  <2> QED
    BY <2>1, BoundsAssumption
<1>5. PICK c \in Nat, d \in Nat : c = effects[g][e] /\ d = effects'[g][e]
  <2>1. effects \in [Groups -> [Events -> Nat]] /\ effects' \in [Groups -> [Events -> Nat]]
    BY TypeStep DEF TypeInv, TypeOK
  <2> QED
    BY <2>1
<1>6. c <= Cardinality(UpTo(S, x)) + f
  BY <1>1, <1>3, <1>4, <1>5 DEF EffectsInv
<1>7. \/ d <= c /\ x <= y /\ f <= h
      \/ d <= c /\ x <= y + 1 /\ h = f + 1
      \/ d <= c + 1 /\ y = x + 1 /\ f = h /\ y \in S
  <2>1. MarksMove(g)
    BY MarksStep
  <2>2. CASE effects'[g] = effects[g]
    <3>1. d <= c
      BY <1>5, <2>2
    <3>2. \/ x <= y /\ f <= h
          \/ x <= y + 1 /\ h = f + 1
          \/ pc[g] = "got" /\ h = f /\ y = x + 1
      BY <1>3, <1>4, <2>1 DEF MarksMove
    <3> QED
      BY <3>1, <3>2
  <2>3. CASE /\ pc[g] = "got" /\ Effect(g, InHand(g).event) /\ faults' = faults
             /\ EffectMark(g)' = EffectMark(g) + 1 /\ EffectMark(g)' = pos[g]
    <3>1. y = x + 1 /\ f = h /\ y = pos[g]
      BY <1>3, <1>4, <2>3
    <3>2. /\ pos[g] \in DOMAIN log /\ InHand(g) = log[pos[g]] /\ InHand(g).event \in Events
          /\ InHand(g).retry_count \in 0..MaxRetries
      BY <2>3, InHandTyped DEF Working, InHand
    <3>3. CASE InHand(g).event = e
      <4>1. y \in S
        BY <1>1, <3>1, <3>2, <3>3 DEF Found
      <4>2. d <= c + 1
        <5>1. effects' = effects \/ effects' = [effects EXCEPT ![g][e] = effects[g][e] + 1]
          BY <2>3, <3>3 DEF Effect
        <5>2. effects'[g][e] = effects[g][e] \/ effects'[g][e] = effects[g][e] + 1
          BY <5>1 DEF TypeInv, TypeOK
        <5> QED
          BY <1>5, <5>2
      <4> QED
        BY <3>1, <4>1, <4>2
    <3>4. CASE InHand(g).event # e
      <4>1. effects'[g][e] = effects[g][e]
        <5>1. PICK i \in Events : i = InHand(g).event
          BY <3>2
        <5>2. effects' = effects \/ effects' = [effects EXCEPT ![g][i] = effects[g][i] + 1]
          BY <2>3, <5>1 DEF Effect
        <5> QED
          BY <3>4, <5>1, <5>2 DEF TypeInv, TypeOK
      <4> QED
        BY <1>5, <3>1, <4>1
    <3> QED
      BY <3>3, <3>4
  <2> QED
    BY <2>1, <2>2, <2>3 DEF MarksMove
<1>8. d <= Cardinality(UpTo(T, y)) + h
  BY <1>2, <1>6, <1>7, CounterStaysBelow
<1> QED
  BY <1>1, <1>3, <1>4, <1>5, <1>8

\* The start: nothing has been read.
LEMMA CountsInit == Init => OneInHand
  BY DEF Init, OneInHand

\* The counts of a set of offsets are numbers, and a part has no more than the whole.
LEMMA CountsLess ==
    ASSUME TypeInv, NEW S, NEW T, S \subseteq T, T \subseteq DOMAIN log
    PROVE  /\ IsFiniteSet(T) /\ T \subseteq Nat
           /\ Cardinality(S) \in Nat /\ Cardinality(T) \in Nat /\ Cardinality(S) <= Cardinality(T)
<1>1. DOMAIN log = 1..Len(log) /\ Len(log) \in Nat
  BY DEF TypeInv, TypeOK
<1>2. IsFiniteSet(1..Len(log))
  BY <1>1, FS_Interval
<1>3. IsFiniteSet(T) /\ T \subseteq Nat
  BY <1>1, <1>2, FS_Subset
<1>4. IsFiniteSet(S) /\ Cardinality(S) <= Cardinality(T)
  BY <1>3, FS_Subset
<1> QED
  BY <1>3, <1>4, FS_CardinalityType

\* For any groups, retries, stops and failed commits: process() takes effect for an event at
\* most once per copy of it in the topic and once per stop or failed commit (handle_message).
THEOREM ConsumerEffectsExplained == Spec => []EffectsExplained
<1>1. Init => EffectsInv
  <2> SUFFICES ASSUME Init, NEW e \in Events, NEW g \in Groups
               PROVE  effects[g][e]
                          <= Cardinality(UpTo(Found(e, 0..MaxRetries), EffectMark(g))) + faults
    BY DEF EffectsInv
  <2>1. effects[g][e] = 0 /\ faults = 0
    BY DEF Init
  <2>2. UpTo(Found(e, 0..MaxRetries), EffectMark(g)) = {}
    BY DEF Init, UpTo, Found
  <2>3. Cardinality(UpTo(Found(e, 0..MaxRetries), EffectMark(g))) = 0
    BY <2>2, FS_EmptySet
  <2> QED
    BY <2>1, <2>3
<1>2. TypeInv /\ OneInHand /\ EffectsInv /\ [Next]_vars => (OneInHand /\ EffectsInv)'
  BY OneInHandStep, EffectsStep
<1>3. TypeInv /\ EffectsInv => EffectsExplained
  <2> SUFFICES ASSUME TypeInv, EffectsInv, NEW e \in Events, NEW g \in Groups
               PROVE  effects[g][e] <= Cardinality({ i \in DOMAIN log : log[i].event = e }) + faults
    BY DEF EffectsExplained
  <2>1. PICK S, T : /\ S = UpTo(Found(e, 0..MaxRetries), EffectMark(g))
                    /\ T = { i \in DOMAIN log : log[i].event = e }
    OBVIOUS
  <2>2. S \subseteq T /\ T \subseteq DOMAIN log
    BY <2>1 DEF UpTo, Found
  <2>3. Cardinality(S) \in Nat /\ Cardinality(T) \in Nat /\ Cardinality(S) <= Cardinality(T)
    BY <2>2, CountsLess
  <2>4. effects[g][e] <= Cardinality(S) + faults
    BY <2>1 DEF EffectsInv
  <2>5. effects[g][e] \in Nat /\ faults \in Nat
    <3>1. faults \in 0..MaxFaults
      BY DEF TypeInv, TypeOK
    <3> QED
      BY <3>1, BoundsAssumption DEF TypeInv, TypeOK
  <2>6. effects[g][e] <= Cardinality(T) + faults
    BY <2>3, <2>4, <2>5
  <2> QED
    BY <2>1, <2>6
<1> QED
  BY <1>1, <1>2, <1>3, CountsInit, TypeInvariant, PTL DEF Spec

\* The copies a group has sent, after a message is appended.
LEMMA CopiesAppended ==
    ASSUME TypeInv, NEW m \in Messages, log' = Append(log, m), NEW e, NEW n, NEW g
    PROVE  \/ Copies(e, n, {g})' = Copies(e, n, {g})
           \/ Copies(e, n, {g})' = Copies(e, n, {g}) \cup {Len(log) + 1}
<1>1. /\ DOMAIN log' = DOMAIN log \cup {Len(log) + 1} /\ Len(log) + 1 \notin DOMAIN log
      /\ \A i \in DOMAIN log : log'[i] = log[i]
      /\ log'[Len(log) + 1] = m
  BY Appended DEF TypeInv, TypeOK
<1> QED
  BY <1>1 DEF Copies

\* A message is a copy with that count and from that group.
IsCopy(m, e, n, g) == m.event = e /\ m.retry_count = n /\ m.sender = g

\* A message that is not such a copy adds none.
LEMMA OtherAppended ==
    ASSUME TypeInv, NEW m \in Messages, log' = Append(log, m), NEW e, NEW n, NEW g,
           ~IsCopy(m, e, n, g)
    PROVE  Copies(e, n, {g})' = Copies(e, n, {g})
<1>1. /\ DOMAIN log' = DOMAIN log \cup {Len(log) + 1} /\ Len(log) + 1 \notin DOMAIN log
      /\ \A i \in DOMAIN log : log'[i] = log[i]
      /\ log'[Len(log) + 1] = m
  BY Appended DEF TypeInv, TypeOK
<1> QED
  BY <1>1 DEF Copies, IsCopy

\* A group's copies grow by its own retries only.
LEMMA CopiesOfOthers ==
    ASSUME TypeInv, [Next]_vars, NEW g \in Groups, ~Republish(g), NEW e, NEW n
    PROVE  Copies(e, n, {g})' = Copies(e, n, {g})
<1>1. ASSUME NEW f \in Events, NEW v \in Values, Deliver(f, v)
      PROVE  Copies(e, n, {g})' = Copies(e, n, {g})
  <2>1. PICK m : m = [event |-> f, value |-> v, retry_count |-> 0, sender |-> "relay"]
    OBVIOUS
  <2>2. m \in Messages /\ m.sender # g /\ log' = Append(log, m)
    BY <1>1, <2>1, BoundsAssumption, GroupsAssumption DEF Messages, Deliver
  <2>3. ~IsCopy(m, e, n, g)
    BY <2>2 DEF IsCopy
  <2> QED
    BY <2>2, <2>3, OtherAppended
<1>2. ASSUME NEW h \in Groups, Republish(h) PROVE Copies(e, n, {g})' = Copies(e, n, {g})
  <2>1. h # g
    BY <1>2
  <2>2. InHand(h) \in Messages
    BY <1>2, InHandTyped DEF Republish, Working
  <2>3. PICK m \in Messages : m = [InHand(h) EXCEPT !.retry_count = @ + 1, !.sender = h] /\ m.sender = h
    BY <1>2, <2>2, RetryTyped DEF Republish
  <2>4. log' = Append(log, m)
    BY <1>2, <2>3 DEF Republish
  <2>5. ~IsCopy(m, e, n, g)
    BY <2>1, <2>3 DEF IsCopy
  <2> QED
    BY <2>4, <2>5, OtherAppended
<1>3. CASE log' = log
  BY <1>3 DEF Copies
<1> QED
  BY <1>1, <1>2, <1>3 DEF Next, vars, GroupStep, Start, Poll, Process, ProcessRaises, Commit,
                          CommitRaises, DeadLetter, CommitSent, Stop, DecodeRaises

\* The strengthening RetriesBounded needs: only copies up to the mark count.
SentInv ==
    \A e \in Events, g \in Groups :
        /\ Copies(e, 0, {g}) = {}
        /\ \A n \in 1..MaxRetries :
               Cardinality(Copies(e, n, {g}))
                   <= Cardinality(UpTo(Found(e, {n - 1}), SentMark(g))) + faults

\* What a retry appends.
LEMMA RetryAppends ==
    ASSUME TypeInv, NEW g \in Groups, Republish(g)
    PROVE  \E m \in Messages :
               /\ log' = Append(log, m) /\ pos[g] \in DOMAIN log
               /\ m.event = log[pos[g]].event /\ m.retry_count = log[pos[g]].retry_count + 1
               /\ log[pos[g]].retry_count \in Nat
<1>1. /\ pos[g] \in DOMAIN log /\ InHand(g) = log[pos[g]] /\ InHand(g) \in Messages
      /\ InHand(g).retry_count \in Nat
  BY InHandTyped, BoundsAssumption DEF Republish, Working, InHand
<1>2. PICK m \in Messages : /\ m = [InHand(g) EXCEPT !.retry_count = @ + 1, !.sender = g]
                            /\ m.event = InHand(g).event
                            /\ m.retry_count = InHand(g).retry_count + 1
  BY <1>1, RetryTyped DEF Republish
<1>3. log' = Append(log, m)
  BY <1>2 DEF Republish
<1> QED
  BY <1>1, <1>2, <1>3

\* Every step keeps it.
LEMMA SentStep ==
    ASSUME TypeInv, OneInHand, SentInv, [Next]_vars
    PROVE  SentInv'
<1> SUFFICES ASSUME NEW e \in Events, NEW g \in Groups
             PROVE  /\ Copies(e, 0, {g})' = {}
                    /\ \A n \in 1..MaxRetries :
                           Cardinality(Copies(e, n, {g})')
                               <= Cardinality(UpTo(Found(e, {n - 1})', SentMark(g)')) + faults'
  BY DEF SentInv
<1>1. Copies(e, 0, {g})' = {}
  <2>1. Copies(e, 0, {g}) = {}
    BY DEF SentInv
  <2>2. CASE ~Republish(g)
    <3>1. Copies(e, 0, {g})' = Copies(e, 0, {g})
      BY <2>2, CopiesOfOthers
    <3> QED
      BY <2>1, <3>1
  <2>3. CASE Republish(g)
    <3>1. PICK m \in Messages :
              /\ log' = Append(log, m) /\ pos[g] \in DOMAIN log
              /\ m.event = log[pos[g]].event /\ m.retry_count = log[pos[g]].retry_count + 1
              /\ log[pos[g]].retry_count \in Nat
      BY <2>3, RetryAppends
    <3>2. m.retry_count # 0
      BY <3>1
    <3>3. ~IsCopy(m, e, 0, g)
      BY <3>2 DEF IsCopy
    <3>4. Copies(e, 0, {g})' = Copies(e, 0, {g})
      BY <3>1, <3>3, OtherAppended
    <3> QED
      BY <2>1, <3>4
  <2> QED
    BY <2>2, <2>3
<1>2. ASSUME NEW n \in 1..MaxRetries
      PROVE  Cardinality(Copies(e, n, {g})')
                 <= Cardinality(UpTo(Found(e, {n - 1})', SentMark(g)')) + faults'
  <2>1. PICK S, T : S = Found(e, {n - 1}) /\ T = Found(e, {n - 1})'
    OBVIOUS
  <2>2. IsFiniteSet(T) /\ T \subseteq Nat /\ S \subseteq T
    BY <2>1, FoundStays
  <2>3. PICK x \in Int, y \in Int : x = SentMark(g) /\ y = SentMark(g)'
    BY MarksStep
  <2>4. PICK f \in Nat, h \in Nat : f = faults /\ h = faults'
    <3>1. faults \in 0..MaxFaults /\ faults' \in 0..MaxFaults
      BY TypeStep DEF TypeInv, TypeOK
    <3> QED
      BY <3>1, BoundsAssumption
  <2>5. PICK C, D : C = Copies(e, n, {g}) /\ D = Copies(e, n, {g})'
    OBVIOUS
  <2>6. IsFiniteSet(C) /\ Cardinality(C) \in Nat
    <3>1. C \subseteq C /\ C \subseteq DOMAIN log
      BY <2>5 DEF Copies
    <3> QED
      BY <3>1, CountsLess
  <2>7. Cardinality(C) <= Cardinality(UpTo(S, x)) + f
    BY <1>2, <2>1, <2>3, <2>4, <2>5 DEF SentInv
  <2>8. /\ Cardinality(D) \in Nat
        /\ \/ Cardinality(D) <= Cardinality(C) /\ x <= y /\ f <= h
           \/ Cardinality(D) <= Cardinality(C) /\ x <= y + 1 /\ h = f + 1
           \/ Cardinality(D) <= Cardinality(C) + 1 /\ y = x + 1 /\ f = h /\ y \in S
    <3>1. MarksMove(g)
      BY MarksStep
    <3>2. CASE ~Republish(g)
      <4>1. D = C
        BY <2>5, <3>2, CopiesOfOthers
      <4>2. \/ x <= y /\ f <= h
            \/ x <= y + 1 /\ h = f + 1
        BY <2>3, <2>4, <3>1, <3>2 DEF MarksMove
      <4>3. Cardinality(D) \in Nat /\ Cardinality(D) <= Cardinality(C)
        <5>1. \A i \in Nat : i <= i
          OBVIOUS
        <5> QED
          BY <2>6, <4>1, <5>1
      <4> QED
        BY <4>2, <4>3
    <3>3. CASE Republish(g)
      <4>1. y = x + 1 /\ f = h /\ y = pos[g]
        BY <2>3, <2>4, <3>1, <3>3 DEF MarksMove
      <4>2. PICK m \in Messages :
                /\ log' = Append(log, m) /\ pos[g] \in DOMAIN log
                /\ m.event = log[pos[g]].event /\ m.retry_count = log[pos[g]].retry_count + 1
                /\ log[pos[g]].retry_count \in Nat
        BY <3>3, RetryAppends
      <4>3. CASE m.event = e /\ m.retry_count = n
        <5>1. y \in S
          <6>1. n - 1 = log[pos[g]].retry_count
            BY <4>2, <4>3
          <6> QED
            BY <2>1, <4>1, <4>2, <4>3, <6>1 DEF Found
        <5>2. D = C \cup {Len(log) + 1} \/ D = C
          BY <2>5, <4>2, CopiesAppended
        <5>3. Cardinality(C \cup {Len(log) + 1}) \in {Cardinality(C), Cardinality(C) + 1}
          BY <2>6, FS_AddElement
        <5>4. Cardinality(D) \in {Cardinality(C), Cardinality(C) + 1}
          BY <5>2, <5>3
        <5>5. Cardinality(D) \in Nat /\ Cardinality(D) <= Cardinality(C) + 1
          BY <2>6, <5>4
        <5> QED
          BY <4>1, <5>1, <5>5
      <4>4. CASE ~(m.event = e /\ m.retry_count = n)
        <5>4. ~IsCopy(m, e, n, g)
          BY <4>4 DEF IsCopy
        <5>5. Copies(e, n, {g})' = Copies(e, n, {g})
          BY <4>2, <5>4, OtherAppended
        <5>1. D = C
          BY <2>5, <5>5
        <5>2. Cardinality(D) \in Nat /\ Cardinality(D) <= Cardinality(C)
          <6>1. \A i \in Nat : i <= i
            OBVIOUS
          <6> QED
            BY <2>6, <5>1, <6>1
        <5>3. x <= y /\ f <= h
          BY <4>1
        <5> QED
          BY <5>2, <5>3
      <4> QED
        BY <4>3, <4>4
    <3> QED
      BY <3>2, <3>3
  <2>9. Cardinality(D) <= Cardinality(UpTo(T, y)) + h
    <3>1. PICK c \in Nat, d \in Nat : c = Cardinality(C) /\ d = Cardinality(D)
      BY <2>6, <2>8
    <3>2. c <= Cardinality(UpTo(S, x)) + f
      BY <2>7, <3>1
    <3>3. \/ d <= c /\ x <= y /\ f <= h
          \/ d <= c /\ x <= y + 1 /\ h = f + 1
          \/ d <= c + 1 /\ y = x + 1 /\ f = h /\ y \in S
      BY <2>8, <3>1
    <3>4. d <= Cardinality(UpTo(T, y)) + h
      BY <2>2, <3>2, <3>3, CounterStaysBelow
    <3> QED
      BY <3>1, <3>4
  <2> QED
    BY <2>1, <2>3, <2>4, <2>5, <2>9
<1> QED
  BY <1>1, <1>2

\* For any groups that read each other's retries: a group queues at most one retry for each copy
\* that can be read, plus one per stop or failed commit, so the storm dies out (handle_message).
THEOREM ConsumerRetriesBounded == Spec => []RetriesBounded
<1>1. Init => SentInv
  <2> SUFFICES ASSUME Init, NEW e \in Events, NEW g \in Groups
               PROVE  /\ Copies(e, 0, {g}) = {}
                      /\ \A n \in 1..MaxRetries :
                             Cardinality(Copies(e, n, {g}))
                                 <= Cardinality(UpTo(Found(e, {n - 1}), SentMark(g))) + faults
    BY DEF SentInv
  <2>1. \A n : Copies(e, n, {g}) = {}
    BY DEF Init, Copies
  <2>2. \A n : UpTo(Found(e, {n - 1}), SentMark(g)) = {}
    BY DEF Init, UpTo, Found
  <2>3. faults = 0
    BY DEF Init
  <2>4. ASSUME NEW n \in 1..MaxRetries
        PROVE  Cardinality(Copies(e, n, {g}))
                   <= Cardinality(UpTo(Found(e, {n - 1}), SentMark(g))) + faults
    <3>1. Copies(e, n, {g}) = {} /\ UpTo(Found(e, {n - 1}), SentMark(g)) = {}
      BY <2>1, <2>2
    <3>2. /\ Cardinality(Copies(e, n, {g})) = 0
          /\ Cardinality(UpTo(Found(e, {n - 1}), SentMark(g))) = 0
      BY <3>1, FS_EmptySet
    <3> QED
      BY <2>3, <3>2
  <2> QED
    BY <2>1, <2>4
<1>2. TypeInv /\ OneInHand /\ SentInv /\ [Next]_vars => (OneInHand /\ SentInv)'
  BY OneInHandStep, SentStep
<1>3. TypeInv /\ SentInv => RetriesBounded
  <2> SUFFICES ASSUME TypeInv, SentInv, NEW e \in Events, NEW g \in Groups, NEW n \in 1..MaxRetries
               PROVE  Cardinality(Copies(e, n, {g}))
                          <= Cardinality(Copies(e, n - 1, Groups \cup {"relay"})) + faults
    BY DEF RetriesBounded, SentInv
  <2>1. PICK S, T, C : /\ S = UpTo(Found(e, {n - 1}), SentMark(g))
                       /\ T = Copies(e, n - 1, Groups \cup {"relay"})
                       /\ C = Copies(e, n, {g})
    OBVIOUS
  <2>2. S \subseteq T /\ T \subseteq DOMAIN log
    <3>1. \A i \in DOMAIN log : log[i].sender \in Groups \cup {"relay"}
      <4>1. \A i \in DOMAIN log : log[i] \in Messages
        BY DEF TypeInv, TypeOK
      <4> QED
        BY <4>1 DEF Messages
    <3> QED
      BY <2>1, <3>1 DEF UpTo, Found, Copies
  <2>3. Cardinality(S) \in Nat /\ Cardinality(T) \in Nat /\ Cardinality(S) <= Cardinality(T)
    BY <2>2, CountsLess
  <2>4. Cardinality(C) <= Cardinality(S) + faults
    BY <2>1 DEF SentInv
  <2>5. faults \in Nat
    <3>1. faults \in 0..MaxFaults
      BY DEF TypeInv, TypeOK
    <3> QED
      BY <3>1, BoundsAssumption
  <2>6. Cardinality(C) \in Nat
    <3>1. C \subseteq C /\ C \subseteq DOMAIN log
      BY <2>1 DEF Copies
    <3> QED
      BY <3>1, CountsLess
  <2>7. Cardinality(C) <= Cardinality(T) + faults
    BY <2>3, <2>4, <2>5, <2>6
  <2> QED
    BY <2>1, <2>7
<1> QED
  BY <1>1, <1>2, <1>3, CountsInit, TypeInvariant, PTL DEF Spec
=============================================================================
