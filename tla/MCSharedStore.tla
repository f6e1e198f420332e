--------------------------- MODULE MCSharedStore ---------------------------
(* An instance of SharedStore for TLC.                                      *)
EXTENDS SharedStore

CONSTANTS a, u, v, p, q, NULL

Default == [max_attempts |-> 2, retryable |-> {"transient"}, terminal |-> {}]
Policies == {Default}
Errors == {[failure_class |-> "transient", retryable |-> "unset"]}
NoDelay(policy, attempt) == {0}

=============================================================================
