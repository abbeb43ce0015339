------------------------ MODULE CircuitBreakerProofs ------------------------
(***************************************************************************)
(* The safety of the circuit breaker for any number of callers and any     *)
(* threshold.  TypeOK alone is inductive; the two properties of the Redis  *)
(* keys are inductive together with it, and SingleProbe needs one          *)
(* strengthening.                                                          *)
(***************************************************************************)
EXTENDS CircuitBreaker, TLAPS

\* The initial keys and program points are typed.
LEMMA InitTyped == Init => TypeOK
<1> SUFFICES ASSUME Init PROVE TypeOK
  OBVIOUS
<1>1. probe_active \in BOOLEAN
  BY Zenon DEF Init
<1>2. /\ state \in States /\ failure_count \in Nat
      /\ last_failure_at \in {"none", "recent", "old"}
      /\ pc \in [Callers -> Points]
      /\ probing \subseteq { c \in Callers : pc[c] = "run" }
  BY DEF Init, States, Points
<1> QED
  BY <1>1, <1>2 DEF TypeOK

\* Every step of every caller, the clock and Redis keeps the variables typed.
LEMMA TypeStep == TypeOK /\ [Next]_vars => TypeOK'
<1> SUFFICES ASSUME TypeOK, [Next]_vars PROVE TypeOK'
  OBVIOUS
<1> USE DEF TypeOK, States, Points, keys
<1>1. ASSUME NEW c \in Callers, GetState(c) PROVE TypeOK'
  BY <1>1 DEF GetState, Goto
<1>2. ASSUME NEW c \in Callers, CheckCooldown(c) PROVE TypeOK'
  BY <1>2 DEF CheckCooldown, Goto
<1>3. ASSUME NEW c \in Callers, ClaimProbe(c) PROVE TypeOK'
  BY <1>3 DEF ClaimProbe, Goto
<1>4. ASSUME NEW c \in Callers, ClaimRefused(c) PROVE TypeOK'
  BY <1>4 DEF ClaimRefused, Goto
<1>5. ASSUME NEW c \in Callers, CheckProbe(c) PROVE TypeOK'
  BY <1>5 DEF CheckProbe, Goto
<1>6. ASSUME NEW c \in Callers, SetProbe(c) PROVE TypeOK'
  BY <1>6 DEF SetProbe, Goto
<1>7. ASSUME NEW c \in Callers, RecordSuccess(c) PROVE TypeOK'
  BY <1>7 DEF RecordSuccess, Goto
<1>8. ASSUME NEW c \in Callers, RecordFailure(c) PROVE TypeOK'
  <2>1. probe_active' \in BOOLEAN
    BY <1>8, Zenon DEF RecordFailure, Reopen, CountFailure
  <2>2. state' \in States /\ failure_count' \in Nat /\ last_failure_at' = "recent"
    BY <1>8, ThresholdAssumption DEF RecordFailure, Reopen, CountFailure
  <2>3. pc' \in [Callers -> Points] /\ probing' \subseteq { d \in Callers : pc'[d] = "run" }
    BY <1>8 DEF RecordFailure, Reopen, CountFailure, Goto
  <2> QED
    BY <2>1, <2>2, <2>3
<1>9. ASSUME NEW c \in Callers, Abandon(c) PROVE TypeOK'
  BY <1>9 DEF Abandon, Goto
<1>10. CASE CooldownPasses
  BY <1>10 DEF CooldownPasses
<1>11. CASE ProbeExpires
  BY <1>11 DEF ProbeExpires
<1>12. CASE Flush
  BY <1>12 DEF Flush
<1>13. CASE UNCHANGED vars
  BY <1>13 DEF vars
<1> QED
  BY <1>1, <1>2, <1>3, <1>4, <1>5, <1>6, <1>7, <1>8, <1>9, <1>10, <1>11, <1>12, <1>13
  DEF Next, Step

\* Type correctness of the Redis keys and of every caller's program point.
THEOREM BreakerTypeOK == Spec => []TypeOK
<1>1. Init => TypeOK
  BY InitTyped
<1> QED
  BY <1>1, TypeStep, PTL DEF Spec

\* What holds of the four Redis keys together.
KeysConsistent == TypeOK /\ ClosedBelowThreshold /\ TrippedIsDated

\* Only the outcome scripts, the probe claim and a flush write the keys the two
\* properties read; each of them is checked, the rest leave the keys alone.
LEMMA KeysStep == KeysConsistent /\ [Next]_vars => KeysConsistent'
<1> SUFFICES ASSUME KeysConsistent, [Next]_vars
             PROVE ClosedBelowThreshold' /\ TrippedIsDated'
  BY TypeStep DEF KeysConsistent
<1> USE ThresholdAssumption DEF KeysConsistent, TypeOK, States, ClosedBelowThreshold, TrippedIsDated
<1>1. ASSUME NEW c \in Callers, RecordSuccess(c)
      PROVE ClosedBelowThreshold' /\ TrippedIsDated'
  BY <1>1 DEF RecordSuccess
<1>2. ASSUME NEW c \in Callers, RecordFailure(c)
      PROVE ClosedBelowThreshold' /\ TrippedIsDated'
  <2>1. CASE state = "HALF_OPEN"
    BY <1>2, <2>1 DEF RecordFailure, Reopen, CountFailure
  <2>2. CASE state # "HALF_OPEN"
    BY <1>2, <2>2 DEF RecordFailure, Reopen, CountFailure
  <2> QED
    BY <2>1, <2>2
<1>3. ASSUME NEW c \in Callers, ClaimProbe(c)
      PROVE ClosedBelowThreshold' /\ TrippedIsDated'
  BY <1>3 DEF ClaimProbe
<1>4. CASE Flush
  BY <1>4 DEF Flush
<1>5. CASE CooldownPasses
  BY <1>5 DEF CooldownPasses
<1>6. CASE ProbeExpires
  BY <1>6 DEF ProbeExpires
<1>7. ASSUME NEW c \in Callers,
             GetState(c) \/ CheckCooldown(c) \/ ClaimRefused(c) \/ CheckProbe(c)
                \/ SetProbe(c) \/ Abandon(c)
      PROVE ClosedBelowThreshold' /\ TrippedIsDated'
  BY <1>7 DEF GetState, CheckCooldown, ClaimRefused, CheckProbe, SetProbe, Abandon, keys
<1>8. CASE UNCHANGED vars
  BY <1>8 DEF vars, keys
<1> QED
  BY <1>1, <1>2, <1>3, <1>4, <1>5, <1>6, <1>7, <1>8 DEF Next, Step

\* The keys are consistent, always.
LEMMA KeysAlwaysConsistent == Spec => []KeysConsistent
<1>1. Init => KeysConsistent
  <2> SUFFICES ASSUME Init PROVE ClosedBelowThreshold /\ TrippedIsDated
    BY InitTyped DEF KeysConsistent
  <2> QED
    BY ThresholdAssumption DEF Init, ClosedBelowThreshold, TrippedIsDated
<1> QED
  BY <1>1, KeysStep, PTL DEF Spec

\* A CLOSED circuit has seen fewer failures than the threshold, for any number of
\* callers whose late results arrive in any order.
THEOREM BreakerClosedBelowThreshold == Spec => []ClosedBelowThreshold
  BY KeysAlwaysConsistent, PTL DEF KeysConsistent

\* A tripped circuit always has a dated failure, so the cooldown is never skipped for
\* want of a date.
THEOREM BreakerTrippedIsDated == Spec => []TrippedIsDated
  BY KeysAlwaysConsistent, PTL DEF KeysConsistent

(***************************************************************************)
(* The strengthening of SingleProbe: a caller counted as a probe means that *)
(* its key is still there, so that SET NX and the claim script refuse the  *)
(* next one.                                                               *)
(***************************************************************************)
ProbeInv == SingleProbe /\ (probing # {} => probe_active)

\* Only a claim adds a probe, and only when there is no key; what removes the key
\* removes the probe.
LEMMA ProbeStep == TypeOK /\ ProbeInv /\ [Next]_vars => ProbeInv'
<1> SUFFICES ASSUME TypeOK, ProbeInv, [Next]_vars PROVE ProbeInv'
  OBVIOUS
<1> USE DEF ProbeInv, SingleProbe
<1>1. ASSUME NEW c \in Callers, ClaimProbe(c) PROVE ProbeInv'
  BY <1>1, Zenon DEF ClaimProbe
<1>2. ASSUME NEW c \in Callers, SetProbe(c) PROVE ProbeInv'
  <2>1. CASE probe_active
    BY <1>2, <2>1, Zenon DEF SetProbe
  <2>2. CASE ~probe_active
    BY <1>2, <2>2, Zenon DEF SetProbe
  <2> QED
    BY <2>1, <2>2
<1>3. ASSUME probing' = {} PROVE ProbeInv'
  BY <1>3
<1>4. ASSUME NEW c \in Callers, probing' = probing \ {c}, probe_active' = probe_active
      PROVE  ProbeInv'
  BY <1>4, Zenon
<1>5. ASSUME UNCHANGED <<probing, probe_active>> PROVE ProbeInv'
  BY <1>5
<1>6. ASSUME NEW c \in Callers, RecordSuccess(c) \/ RecordFailure(c) \/ Abandon(c)
      PROVE  ProbeInv'
  BY <1>3, <1>4, <1>6 DEF RecordSuccess, RecordFailure, Reopen, CountFailure, Abandon, keys
<1>7. ASSUME NEW c \in Callers,
             GetState(c) \/ CheckCooldown(c) \/ ClaimRefused(c) \/ CheckProbe(c)
      PROVE  ProbeInv'
  BY <1>5, <1>7 DEF GetState, CheckCooldown, ClaimRefused, CheckProbe, keys
<1>8. CASE CooldownPasses \/ ProbeExpires \/ Flush
  BY <1>3, <1>5, <1>8 DEF CooldownPasses, ProbeExpires, Flush
<1>9. CASE UNCHANGED vars
  BY <1>5, <1>9 DEF vars, keys
<1> QED
  BY <1>1, <1>2, <1>6, <1>7, <1>8, <1>9 DEF Next, Step

\* For any number of callers and any interleaving of their Redis commands, one probe key
\* lets one caller through.
THEOREM BreakerSingleProbe == Spec => []SingleProbe
<1>1. Init => TypeOK /\ ProbeInv
  BY InitTyped DEF Init, ProbeInv, SingleProbe
<1>2. TypeOK /\ ProbeInv /\ [Next]_vars => (TypeOK /\ ProbeInv)'
  BY TypeStep, ProbeStep
<1>3. ProbeInv => SingleProbe
  BY DEF ProbeInv
<1> QED
  BY <1>1, <1>2, <1>3, PTL DEF Spec
=============================================================================
