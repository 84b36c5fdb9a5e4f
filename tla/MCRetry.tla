------------------------------- MODULE MCRetry -------------------------------
(* Configurations for model checking.  Time is in units of a second.       *)
EXTENDS Retry

DefaultConfig == [attempts |-> 3, initial |-> 1, max |-> 30, multiplier |-> 2, retryable |-> "all"]
DeletionConfig == [attempts |-> 12, initial |-> 5, max |-> 5, multiplier |-> 1, retryable |-> "transient"]
SeedMetrics == [DefaultConfig EXCEPT !.attempts = 10]
Unset == [attempts |-> 0, initial |-> 0, max |-> 0, multiplier |-> 0, retryable |-> "all"]
Negative == [attempts |-> -1, initial |-> 4, max |-> -1, multiplier |-> 3, retryable |-> "transient"]

(* connectNVMeOFTarget, with a multiplier of 2 in place of 1.5.            *)
Connect == [attempts |-> 6, initial |-> 2, max |-> 10, multiplier |-> 2, retryable |-> "transient"]

(* MaxBackoff left unset below the first wait.                             *)
LongFirst == [attempts |-> 3, initial |-> 45, max |-> 0, multiplier |-> 2, retryable |-> "all"]

InUse == {DefaultConfig, DeletionConfig, SeedMetrics, Unset, Negative, Connect, LongFirst}
=============================================================================
