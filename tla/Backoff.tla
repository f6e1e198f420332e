------------------------------- MODULE Backoff -------------------------------
(***************************************************************************)
(* RetryPolicy::backoff_delay_ms (core/src/types.rs) and what `fail` makes *)
(* of it (core/src/sqlite.rs): how long a failed task has to wait before   *)
(* `begin` hands it out again.                                             *)
(*                                                                         *)
(* Durations are in ticks, of which a second has PerSecond: 1000 in the    *)
(* code, whose tick is the millisecond.  The code scales a delay by its    *)
(* jitter in f64 and truncates; here the same quotient is taken exactly.   *)
(***************************************************************************)
EXTENDS Integers

CONSTANTS
    PerSecond,    \* ticks per second
    WordMax,      \* the largest u64
    MaxExponent,  \* the largest shift of the factor: 32
    Shift,        \* 1u64 << n, for n up to MaxExponent
    JitterSteps,  \* the number of jitter fractions: 1000
    LastStamp     \* the last second that SQLite's datetime writes: the end of 9999

ASSUME BackoffAssumption ==
    /\ PerSecond \in Nat \ {0}
    /\ WordMax \in Nat
    /\ MaxExponent \in Nat
    /\ Shift \in [0..MaxExponent -> 1..WordMax]
    /\ Shift[0] = 1 /\ \A n \in 1..MaxExponent : Shift[n] = 2 * Shift[n - 1]
    /\ JitterSteps \in Nat \ {0}
    /\ LastStamp \in Nat

\* The part of a RetryPolicy that is about delays.
BackoffPolicy ==
    [base_delay_ms : 0..WordMax, max_delay_ms : 0..WordMax, jitter : BOOLEAN]

Least(x, y) == IF x <= y THEN x ELSE y

-----------------------------------------------------------------------------
\* Mutant: the product wraps around.
WrappingMul(x, y) == (x * y) % (WordMax + 1)
\* u64::saturating_mul
SaturatingMul(x, y) == Least(x * y, WordMax)

\* attempt.saturating_sub(1).min(32)
Exponent(attempt) == Least(IF attempt = 0 THEN 0 ELSE attempt - 1, MaxExponent)

\* max_delay_ms = 0 is no cap.
Capped(policy, delay) ==
    IF policy.max_delay_ms > 0 THEN Least(delay, policy.max_delay_ms) ELSE delay

\* Mutant: the fraction is seed % 1000 / 1000.
JitteredToZero(policy, delay, seed) ==
    IF policy.jitter THEN (delay * (seed % JitterSteps)) \div JitterSteps ELSE delay

\* The fraction is 0.5 + (seed % 1000) / 1000 * 0.5.
Jittered(policy, delay, seed) ==
    IF policy.jitter
    THEN (delay * (JitterSteps + (seed % JitterSteps))) \div (2 * JitterSteps)
    ELSE delay

FullDelay(policy, attempt) ==
    IF policy.base_delay_ms = 0 THEN 0
    ELSE Capped(policy, SaturatingMul(policy.base_delay_ms, Shift[Exponent(attempt)]))

BackoffDelay(policy, attempt, seed) == Jittered(policy, FullDelay(policy, attempt), seed)

\* Mutant: the delay is rounded down to seconds.
SecondsDown(ticks) == ticks \div PerSecond
\* u64::div_ceil(1000)
Seconds(ticks) == (ticks + PerSecond - 1) \div PerSecond

DelaySecs(policy, attempt, seed) == Seconds(BackoffDelay(policy, attempt, seed))

\* Mutant: the range of dates is forgotten.
RetryAtAnyDate(instant, secs) == IF secs = 0 THEN 0 ELSE instant \div PerSecond + secs

\* datetime('now', '+N seconds') at an instant; 0 stands for NULL.  There is no
\* stamp without a delay, and none beyond the range of SQLite's dates.
RetryAt(instant, secs) ==
    LET stamp == instant \div PerSecond + secs IN
    IF secs = 0 \/ stamp > LastStamp THEN 0 ELSE stamp

=============================================================================
