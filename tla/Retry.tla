-------------------------------- MODULE Retry --------------------------------
(***************************************************************************)
(* WithRetry of pkg/retry/retry.go around one mutation of the backend: the *)
(* loop, its waits and the context that may end at any moment.  An attempt *)
(* succeeds, fails without an effect, or fails with                        *)
(* nastyapi.ErrUncertainOutcome, when nobody knows whether the backend has *)
(* carried it out.                                                         *)
(***************************************************************************)
EXTENDS Integers

CONSTANTS
    Configs,      \* what callers pass; fields that are not positive are unset
    Defaults      \* what WithRetry puts in their place

(* attempts, initial, max, multiplier: MaxAttempts and the backoff, with   *)
(* time in units.  retryable: what RetryableFunc lets through ("all" when  *)
(* it is nil).                                                             *)
Policies == {"all", "transient"}
Config == [attempts : Int, initial : Int, max : Int, multiplier : Int, retryable : Policies]

Positive(c) == c.attempts > 0 /\ c.initial > 0 /\ c.max > 0 /\ c.multiplier > 0

ASSUME ConfigsAssumption == Configs \subseteq Config
ASSUME DefaultsAssumption == Defaults \in Config /\ Positive(Defaults)

VARIABLES
    config,     \* with defaults applied
    pc,         \* "check", "call", "wait", "done"
    attempt, backoff,
    cancelled,  \* ctx.Err() # nil
    applied,    \* times the backend has carried out the mutation
    calls,      \* calls of fn, counted to one more than config.attempts
    late,       \* calls of fn after the context ended, counted to two
    result      \* "none", "ok", "uncertain", "fatal", "cancelled", "exhausted"

vars == <<config, pc, attempt, backoff, cancelled, applied, calls, late, result>>

Or(x, default) == IF x > 0 THEN x ELSE default

WithDefaults(c) ==
    [c EXCEPT !.attempts = Or(@, Defaults.attempts), !.initial = Or(@, Defaults.initial),
              !.max = Or(@, Defaults.max), !.multiplier = Or(@, Defaults.multiplier)]

Init ==
    /\ config \in {WithDefaults(c) : c \in Configs}
    /\ pc = "check" /\ attempt = 1 /\ backoff = config.initial
    /\ cancelled = FALSE /\ result = "none"
    /\ applied = 0 /\ calls = 0 /\ late = 0

Return(r) == pc' = "done" /\ result' = r
Stays == UNCHANGED <<config, cancelled>>

(* Mutant: the context is only looked at while waiting.                    *)
NoCheck ==
    /\ pc = "check" /\ pc' = "call"
    /\ UNCHANGED <<attempt, backoff, applied, calls, late, result>> /\ Stays

(* Before each attempt.                                                    *)
CheckContext ==
    /\ pc = "check"
    /\ IF cancelled THEN Return("cancelled") ELSE pc' = "call" /\ UNCHANGED result
    /\ UNCHANGED <<attempt, backoff, applied, calls, late>> /\ Stays

(* A failure that may be repeated: wait, but not after the last attempt.   *)
Again == IF attempt < config.attempts THEN pc' = "wait" /\ UNCHANGED result ELSE Return("exhausted")

(* Mutant: an uncertain outcome is like any other.                         *)
UncertainAgain == applied' \in {applied, applied + 1} /\ Again

(* Never repeated, whatever the policy says.                               *)
Uncertain == applied' \in {applied, applied + 1} /\ Return("uncertain")

Count(n, limit) == IF n > limit THEN n ELSE n + 1

(* fn and what follows.  IsRetryableDeletionError and the other policies   *)
(* tell transient errors from fatal ones.                                  *)
Attempt ==
    /\ pc = "call"
    /\ calls' = Count(calls, config.attempts) /\ late' = IF cancelled THEN Count(late, 1) ELSE late
    /\ \/ applied' = applied + 1 /\ Return("ok")
       \/ Uncertain
       \/ Again /\ UNCHANGED applied
       \/ config.retryable # "all" /\ Return("fatal") /\ UNCHANGED applied
    /\ UNCHANGED <<attempt, backoff>> /\ Stays

NextBackoff(b) ==
    IF b * config.multiplier > config.max THEN config.max ELSE b * config.multiplier

(* Mutant: the attempts are not counted.                                   *)
WaitUncounted ==
    /\ pc = "wait" /\ pc' = "check" /\ backoff' = NextBackoff(backoff)
    /\ UNCHANGED <<attempt, applied, calls, late, result>> /\ Stays

(* The two cases of the select; when both are ready either one is taken.   *)
WaitOver ==
    /\ pc = "wait" /\ pc' = "check"
    /\ attempt' = attempt + 1 /\ backoff' = NextBackoff(backoff)
    /\ UNCHANGED <<applied, calls, late, result>> /\ Stays

WaitCancelled ==
    /\ pc = "wait" /\ cancelled /\ Return("cancelled")
    /\ UNCHANGED <<attempt, backoff, applied, calls, late>> /\ Stays

(* The caller's context ends.                                              *)
Cancel ==
    /\ pc # "done" /\ ~cancelled /\ cancelled' = TRUE
    /\ UNCHANGED <<config, pc, attempt, backoff, applied, calls, late, result>>

WithRetry == CheckContext \/ Attempt \/ WaitOver \/ WaitCancelled
Next == WithRetry \/ Cancel
Spec == Init /\ [][Next]_vars

(* fn returns and timers fire.                                             *)
FairSpec == Spec /\ WF_vars(WithRetry)

-----------------------------------------------------------------------------
(* Properties.                                                             *)

(* Every variable has the shape its declaration promises.                  *)
TypeOK ==
    /\ config \in Config /\ Positive(config)
    /\ pc \in {"check", "call", "wait", "done"}
    /\ attempt \in Nat \ {0} /\ backoff \in Nat \ {0}
    /\ cancelled \in BOOLEAN
    /\ applied \in Nat /\ calls \in Nat /\ late \in Nat
    /\ result \in {"none", "ok", "uncertain", "fatal", "cancelled", "exhausted"}

(* The loop "return[s] to the CSI reconciliation boundary rather than      *)
(* replaying a mutation": the backend carries out the mutation at most     *)
(* once, exactly once when the caller is told so, and not at all when it   *)
(* is told of any other end than an uncertain one.                         *)
AppliedOnce ==
    /\ applied <= 1
    /\ result = "ok" => applied = 1
    /\ result \in {"none", "fatal", "exhausted", "cancelled"} => applied = 0

(* fn is called at most MaxAttempts times, and that often before the       *)
(* caller is told that the retries are exhausted.                          *)
AttemptsBounded ==
    /\ calls <= config.attempts
    /\ result = "exhausted" => calls = config.attempts

(* After the context has ended fn is called at most once more, by the      *)
(* attempt whose check came before.                                        *)
OneLateCall == late <= 1

(* A wait is no longer than MaxBackoff, or it is InitialBackoff, to which  *)
(* the limit is not applied.                                               *)
BackoffBounded == backoff <= config.max \/ backoff = config.initial

(* WithRetry returns, whatever fn answers and whenever the context ends.   *)
Returns == <>(pc = "done")
=============================================================================
