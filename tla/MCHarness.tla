----------------------------- MODULE MCHarness -----------------------------
(* Instances of Harness for TLC.                                            *)
EXTENDS Harness, TLC

CONSTANTS a, b, u, v, NULL

Defaults == {"transient", "resource_unavailable"}
Default == [max_attempts |-> 2, retryable |-> Defaults, terminal |-> {}]
Policies == {Default}

\* One failure that is retried and one that is not.
Errors == {[failure_class |-> "transient", retryable |-> "true"],
           [failure_class |-> "eval_exception", retryable |-> "unset"]}

Symmetry == Permutations({u, v})

NoDelay(policy, n) == {0}
\* Backoff of one second, with and without what jitter takes off it.
Delay(policy, n) == {0, 1}

Everything == {Task}
\* A second map over the same dataset may be restricted to one category.
Categories == {Task, {a}}
\* One shell: a run is started only when the one before it has ended.
Busy(w) == \E t \in Task : pc[w][t] \in Active \cup {"queued"}
OneAtATime == \A w1, w2 \in Worker : Busy(w1) /\ Busy(w2) => w1 = w2
SequentialSpec == HInit /\ [][HNext /\ OneAtATime']_hvars

=============================================================================
