--------------------------- MODULE CircuitBreaker ---------------------------
(***************************************************************************)
(* The Redis-backed circuit breaker in front of the bank rail              *)
(* (app/circuit_breaker.py).  Its state is four Redis keys shared by every *)
(* coroutine of every API process.  Each Redis command and each Lua script *)
(* is one step; what a caller read before an await may be stale after it.  *)
(*                                                                         *)
(* The clock is abstracted to whether last_failure_at lies within the      *)
(* cooldown ("recent") or before it ("old"), and to the expiry of the      *)
(* probe key.                                                              *)
(***************************************************************************)
EXTENDS Integers, FiniteSets

CONSTANTS
    Callers,            \* coroutines that call the rail through the breaker
    FailureThreshold    \* failure_threshold

ASSUME ThresholdAssumption == FailureThreshold \in Nat \ {0}

VARIABLES
    state,            \* circuit_breaker:state, CLOSED when absent
    failure_count,    \* circuit_breaker:failure_count, 0 when absent
    last_failure_at,  \* circuit_breaker:last_failure_at
    probe_active,     \* circuit_breaker:probe_active exists
    pc,               \* where each caller is in call()
    probing           \* history: callers in flight let in on the present probe key

keys == <<state, failure_count, last_failure_at, probe_active>>
vars == <<keys, pc, probing>>

States == {"CLOSED", "OPEN", "HALF_OPEN"}

Points == {"idle", "cooldown", "claim", "exists", "setnx", "run"}

Init ==
    /\ state = "CLOSED"
    /\ failure_count = 0
    /\ last_failure_at = "none"
    /\ probe_active = FALSE
    /\ pc = [c \in Callers |-> "idle"]
    /\ probing = {}

-----------------------------------------------------------------------------
(* call(): admission *)

Goto(c, point) == pc' = [pc EXCEPT ![c] = point]

\* GET state, and the branch taken on it.  A CLOSED circuit lets the call through.
GetState(c) ==
    /\ pc[c] = "idle"
    /\ Goto(c, CASE state = "CLOSED" -> "run"
                 [] state = "OPEN" -> "cooldown"
                 [] state = "HALF_OPEN" -> "exists")
    /\ UNCHANGED <<keys, probing>>

\* _cooldown_elapsed: no recorded failure counts as elapsed.
CooldownElapsed == last_failure_at # "recent"

\* OPEN was read: CircuitOpenError unless the cooldown has elapsed.
CheckCooldown(c) ==
    /\ pc[c] = "cooldown"
    /\ Goto(c, IF CooldownElapsed THEN "claim" ELSE "idle")
    /\ UNCHANGED <<keys, probing>>

\* _CLAIM_PROBE_LUA succeeds: OPEN and nobody holds the probe key.
ClaimProbe(c) ==
    /\ pc[c] = "claim"
    /\ state = "OPEN" /\ ~probe_active
    /\ state' = "HALF_OPEN"
    /\ probe_active' = TRUE
    /\ probing' = probing \cup {c}
    /\ Goto(c, "run")
    /\ UNCHANGED <<failure_count, last_failure_at>>

\* _CLAIM_PROBE_LUA returns 0: CircuitOpenError.
ClaimRefused(c) ==
    /\ pc[c] = "claim"
    /\ state # "OPEN" \/ probe_active
    /\ Goto(c, "idle")
    /\ UNCHANGED <<keys, probing>>

\* HALF_OPEN was read: EXISTS probe_active raises CircuitOpenError.
CheckProbe(c) ==
    /\ pc[c] = "exists"
    /\ Goto(c, IF probe_active THEN "idle" ELSE "setnx")
    /\ UNCHANGED <<keys, probing>>

\* Faulty variant: SET without NX, relying on the EXISTS before it.
FaultySetProbe(c) ==
    /\ pc[c] = "setnx"
    /\ probe_active' = TRUE
    /\ probing' = probing \cup {c}
    /\ Goto(c, "run")
    /\ UNCHANGED <<state, failure_count, last_failure_at>>

\* SET probe_active NX EX, whatever the state has become since it was read.
SetProbe(c) ==
    /\ pc[c] = "setnx"
    /\ probe_active' = TRUE
    /\ IF probe_active
       THEN Goto(c, "idle") /\ UNCHANGED probing
       ELSE Goto(c, "run") /\ probing' = probing \cup {c}
    /\ UNCHANGED <<state, failure_count, last_failure_at>>

-----------------------------------------------------------------------------
(* call(): outcome *)

\* Faulty variant: a success takes one failure back instead of resetting the count.
FaultyDecrement(c) ==
    /\ pc[c] = "run"
    /\ state' = "CLOSED"
    /\ failure_count' = failure_count - 1
    /\ last_failure_at' = "none"
    /\ probe_active' = FALSE
    /\ probing' = {}
    /\ Goto(c, "idle")

\* The rail succeeded: _RECORD_SUCCESS_LUA, in any state.
RecordSuccess(c) ==
    /\ pc[c] = "run"
    /\ state' = "CLOSED"
    /\ failure_count' = 0
    /\ last_failure_at' = "none"
    /\ probe_active' = FALSE
    /\ probing' = {}
    /\ Goto(c, "idle")

\* _RECORD_FAILURE_LUA in HALF_OPEN: any failure reopens the circuit.
Reopen ==
    /\ state = "HALF_OPEN"
    /\ state' = "OPEN"
    /\ failure_count' = 1
    /\ last_failure_at' = "recent"
    /\ probe_active' = FALSE
    /\ probing' = {}

\* Faulty variant: the circuit opens one failure too late.
FaultyLateTrip(c) ==
    /\ state # "HALF_OPEN"
    /\ failure_count' = failure_count + 1
    /\ state' = IF failure_count' > FailureThreshold THEN "OPEN" ELSE state
    /\ last_failure_at' = "recent"
    /\ probing' = probing \ {c}
    /\ UNCHANGED probe_active

\* Faulty variant: only the failure of a probe is dated.
FaultyUndated(c) ==
    /\ state # "HALF_OPEN"
    /\ failure_count' = failure_count + 1
    /\ state' = IF failure_count' >= FailureThreshold THEN "OPEN" ELSE state
    /\ probing' = probing \ {c}
    /\ UNCHANGED <<probe_active, last_failure_at>>

\* _RECORD_FAILURE_LUA otherwise: count the failure, open the circuit at the threshold.
CountFailure(c) ==
    /\ state # "HALF_OPEN"
    /\ failure_count' = failure_count + 1
    /\ state' = IF failure_count' >= FailureThreshold THEN "OPEN" ELSE state
    /\ last_failure_at' = "recent"
    /\ probing' = probing \ {c}
    /\ UNCHANGED probe_active

\* The rail raised RailError.
RecordFailure(c) ==
    /\ pc[c] = "run"
    /\ Reopen \/ CountFailure(c)
    /\ Goto(c, "idle")

\* The caller dies, is cancelled, or fn raises something else: nothing is recorded.
Abandon(c) ==
    /\ pc[c] # "idle"
    /\ probing' = probing \ {c}
    /\ Goto(c, "idle")
    /\ UNCHANGED keys

-----------------------------------------------------------------------------
(* The clock and Redis *)

\* cooldown_seconds pass after the last recorded failure.
CooldownPasses ==
    /\ last_failure_at = "recent"
    /\ last_failure_at' = "old"
    /\ UNCHANGED <<state, failure_count, probe_active, pc, probing>>

\* Faulty variant: the probe key is set without a TTL.
FaultyNoTTL == probe_active /\ UNCHANGED vars

\* _PROBE_TTL_SECONDS pass after the probe key was set.
ProbeExpires ==
    /\ probe_active
    /\ probe_active' = FALSE
    /\ probing' = {}
    /\ UNCHANGED <<state, failure_count, last_failure_at, pc>>

\* A fresh Redis or FLUSHDB: every key is absent.
Flush ==
    /\ state' = "CLOSED"
    /\ failure_count' = 0
    /\ last_failure_at' = "none"
    /\ probe_active' = FALSE
    /\ probing' = {}
    /\ UNCHANGED pc

-----------------------------------------------------------------------------
Step(c) ==
    \/ GetState(c) \/ CheckCooldown(c) \/ ClaimProbe(c) \/ ClaimRefused(c)
    \/ CheckProbe(c) \/ SetProbe(c)
    \/ RecordSuccess(c) \/ RecordFailure(c) \/ Abandon(c)

Next == (\E c \in Callers : Step(c)) \/ CooldownPasses \/ ProbeExpires \/ Flush

\* Time passes; no caller need ever call, return or survive.
Spec == Init /\ [][Next]_vars /\ WF_vars(CooldownPasses) /\ WF_vars(ProbeExpires)

\* is_call_allowed, the pre-flight check of the endpoint and of the recovery worker.
IsCallAllowed ==
    \/ state = "CLOSED"
    \/ state = "OPEN" /\ CooldownElapsed
    \/ state = "HALF_OPEN" /\ ~probe_active

-----------------------------------------------------------------------------
(* Correctness *)

\* Every variable has its type.
TypeOK ==
    /\ state \in States
    /\ failure_count \in Nat
    /\ last_failure_at \in {"none", "recent", "old"}
    /\ probe_active \in BOOLEAN
    /\ pc \in [Callers -> Points]
    /\ probing \subseteq { c \in Callers : pc[c] = "run" }

\* A CLOSED circuit has seen fewer than failure_threshold failures since it was last
\* reset, however late results of older calls interleave (_RECORD_FAILURE_LUA,
\* _RECORD_SUCCESS_LUA).
ClosedBelowThreshold == state = "CLOSED" => failure_count < FailureThreshold

\* A tripped circuit always has a dated failure behind it, so _cooldown_elapsed never
\* takes its "no failure recorded" exit for an OPEN circuit and lets a call through.
TrippedIsDated == state # "CLOSED" => last_failure_at # "none" /\ failure_count > 0

\* A call made now, with no other step in between, would reach the rail.
WouldPass == IsCallAllowed /\ (state = "OPEN" => ~probe_active)

\* The circuit never stays shut: whatever callers do or however they die, again and
\* again a call would get through or does ("TTL for self-healing").
SelfHeals ==
    \/ []<>WouldPass
    \/ []<><<\E c \in Callers : pc[c] # "run" /\ pc'[c] = "run">>_vars

\* README: HALF_OPEN allows "one request to test recovery".  However callers interleave
\* between reading the state, EXISTS and SET NX, one probe key admits one caller.
SingleProbe == \A c, d \in probing : c = d
=============================================================================
