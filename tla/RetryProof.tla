----------------------------- MODULE RetryProof -----------------------------
(***************************************************************************)
(* The safety properties of WithRetry, for every configuration.            *)
(***************************************************************************)
EXTENDS Retry, TLAPS

(* How far the counters are at each place of the loop.                     *)
Progress ==
    /\ attempt <= config.attempts
    /\ pc \in {"check", "call"} => calls = attempt - 1
    /\ pc = "wait" => calls = attempt /\ attempt < config.attempts
    /\ calls <= attempt
    /\ pc # "done" <=> result = "none"

(* Before its last call the context had not ended.                         *)
Lateness ==
    /\ pc \in {"check", "call"} /\ ~cancelled => late = 0
    /\ pc = "call" => late = 0
    /\ pc = "wait" /\ ~cancelled => late = 0

IInv == TypeOK /\ AppliedOnce /\ AttemptsBounded /\ OneLateCall /\ BackoffBounded /\ Progress /\ Lateness

(* Defaults make every field positive.                                     *)
LEMMA DefaultsApplied ==
    ASSUME NEW c \in Config
    PROVE  WithDefaults(c) \in Config /\ Positive(WithDefaults(c))
BY DefaultsAssumption DEF WithDefaults, Or, Config, Positive

LEMMA InitIInv == Init => IInv
<1> SUFFICES ASSUME Init PROVE IInv
    OBVIOUS
<1>1. config \in Config /\ Positive(config)
    BY DefaultsApplied, ConfigsAssumption DEF Init
<1>2. config.attempts \in Nat \ {0} /\ config.initial \in Nat \ {0}
    BY <1>1 DEF Config, Positive
<1>3. TypeOK
    <2>1. cancelled \in BOOLEAN
        BY Zenon DEF Init
    <2>2. /\ pc = "check" /\ attempt = 1 /\ backoff = config.initial
          /\ applied = 0 /\ calls = 0 /\ late = 0 /\ result = "none"
        BY Zenon DEF Init
    <2> QED
        BY <1>1, <1>2, <2>1, <2>2 DEF TypeOK
<1> QED
    BY <1>2, <1>3 DEF Init, IInv, AppliedOnce, AttemptsBounded, OneLateCall, BackoffBounded,
                      Progress, Lateness

(* The next wait is positive, and within the limit.                        *)
LEMMA NextBackoffBounded ==
    ASSUME config \in Config, Positive(config), NEW b \in Nat \ {0}
    PROVE  NextBackoff(b) \in Nat \ {0} /\ NextBackoff(b) <= config.max
<1>1. config.multiplier \in Nat \ {0} /\ config.max \in Nat \ {0}
    BY DEF Config, Positive
<1>2. b * config.multiplier \in Nat \ {0}
    BY <1>1
<1> QED
    BY <1>1, <1>2 DEF NextBackoff

LEMMA NextIInv == IInv /\ [Next]_vars => IInv'
<1> SUFFICES ASSUME IInv, [Next]_vars PROVE IInv'
    OBVIOUS
<1> USE DEF IInv, TypeOK, AppliedOnce, AttemptsBounded, OneLateCall, Progress, Lateness
<1>1. config.attempts \in Nat \ {0}
    BY DEF Config, Positive
<1>2. CASE CheckContext
    BY <1>1, <1>2 DEF CheckContext, Return, Stays, BackoffBounded
<1>3. CASE Attempt
    <2>1. calls + 1 <= config.attempts /\ calls' = calls + 1 /\ late = 0 /\ late' \in {0, 1}
        BY <1>1, <1>3 DEF Attempt, Count
    <2>2. UNCHANGED <<config, cancelled, attempt, backoff>> /\ pc = "call" /\ (~cancelled => late' = 0)
        BY <1>3 DEF Attempt, Stays
    <2>3. CASE applied' = applied + 1 /\ Return("ok")
        BY <1>1, <2>1, <2>2, <2>3 DEF Return, BackoffBounded
    <2>4. CASE Uncertain
        BY <1>1, <2>1, <2>2, <2>4 DEF Uncertain, Return, BackoffBounded
    <2>5. CASE Again /\ UNCHANGED applied
        BY <1>1, <2>1, <2>2, <2>5 DEF Again, Return, BackoffBounded
    <2>6. CASE Return("fatal") /\ UNCHANGED applied
        BY <1>1, <2>1, <2>2, <2>6 DEF Return, BackoffBounded
    <2> QED
        BY <1>3, <2>3, <2>4, <2>5, <2>6 DEF Attempt
<1>4. CASE WaitOver
    <2>1. backoff' \in Nat \ {0} /\ backoff' <= config'.max
        BY <1>4, NextBackoffBounded DEF WaitOver, Stays
    <2> QED
        BY <1>1, <1>4, <2>1 DEF WaitOver, Stays, BackoffBounded
<1>5. CASE WaitCancelled
    BY <1>1, <1>5 DEF WaitCancelled, Return, Stays, BackoffBounded
<1>6. CASE Cancel
    BY <1>1, <1>6 DEF Cancel, BackoffBounded
<1>7. CASE UNCHANGED vars
    BY <1>1, <1>7 DEF vars, BackoffBounded
<1> QED
    BY <1>2, <1>3, <1>4, <1>5, <1>6, <1>7 DEF Next, WithRetry

(* Every reachable state has the declared shape: with defaults applied     *)
(* every field of the configuration is positive.                           *)
THEOREM RetryTypeCorrect == Spec => []TypeOK
<1>1. IInv => TypeOK
    BY DEF IInv
<1> QED
    BY InitIInv, NextIInv, <1>1, PTL DEF Spec

(* A mutation is carried out at most once, whatever fn answers, and the    *)
(* result tells the caller as much as can be known.                        *)
THEOREM RetryAppliesOnce == Spec => []AppliedOnce
<1>1. IInv => AppliedOnce
    BY DEF IInv
<1> QED
    BY InitIInv, NextIInv, <1>1, PTL DEF Spec

(* fn is never called more than MaxAttempts times.                         *)
THEOREM RetryIsBounded == Spec => []AttemptsBounded
<1>1. IInv => AttemptsBounded
    BY DEF IInv
<1> QED
    BY InitIInv, NextIInv, <1>1, PTL DEF Spec

(* At most one call of fn comes after the end of the context, although the *)
(* select may take the timer when both of its cases are ready.             *)
THEOREM RetryStopsWithContext == Spec => []OneLateCall
<1>1. IInv => OneLateCall
    BY DEF IInv
<1> QED
    BY InitIInv, NextIInv, <1>1, PTL DEF Spec

(* Every wait but the first is within MaxBackoff.                          *)
THEOREM RetryWaitsAreBounded == Spec => []BackoffBounded
<1>1. IInv => BackoffBounded
    BY DEF IInv
<1> QED
    BY InitIInv, NextIInv, <1>1, PTL DEF Spec
=============================================================================
