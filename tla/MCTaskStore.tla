---------------------------- MODULE MCTaskStore ----------------------------
(* An instance of TaskStore for TLC, with the delays of Backoff.            *)
EXTENDS TaskStore, TLC

CONSTANTS a, u, v, NULL

\* The retryable classes that a policy gets when its JSON names none.
Defaults == {"transient", "resource_unavailable"}
P(max, terminal, base) ==
    [max_attempts |-> max, retryable |-> Defaults, terminal |-> terminal,
     base_delay_ms |-> base, max_delay_ms |-> 3000, jitter |-> TRUE]
E(class, retryable) == [failure_class |-> class, retryable |-> retryable]

\* Two and three attempts, with and without a wait, and a terminal class.  With no
\* attempts at all every row could be terminal, and TerminalHasCause would say nothing.
Default == P(2, {}, 2000)
Policies == {Default, P(3, {}, 0), P(2, {"transient"}, 0)}

\* An exception of the harness, one that a classify hook named transient, a
\* TransientError, and a TerminalError, which carry their own verdict.
Errors ==
    {E("eval_exception", "unset"), E("transient", "unset"),
     E("transient", "true"), E("eval_exception", "false")}

Powers == [n \in 0..MaxAttempts |-> 2 ^ n]
Backoff == INSTANCE Backoff
    WITH PerSecond <- 1000, WordMax <- 2147483647, MaxExponent <- MaxAttempts, Shift <- Powers,
         JitterSteps <- 1000, LastStamp <- 1000
\* The smallest and the largest jitter.
Delay(policy, attempt) == {Backoff!DelaySecs(policy, attempt, seed) : seed \in {0, 999}}

Symmetry == Permutations({u, v})

=============================================================================
