----------------------------- MODULE RetryClock -----------------------------
(***************************************************************************)
(* The retries of one task against a clock that is finer than the table's  *)
(* stamps: `fail` schedules the next attempt, `begin` refuses it before    *)
(* its time, and the client that is told retry_later sleeps until then     *)
(* (core/src/sqlite.rs, clients/python/.../eval.py).  TaskStore, whose     *)
(* clock has whole seconds, takes the delays from here.                    *)
(*                                                                         *)
(* No lease runs out in this module, and the two clocks agree.             *)
(***************************************************************************)
EXTENDS Backoff

CONSTANTS
    Policies,     \* the policies of begin requests
    Seeds,        \* the values of jitter_seed
    MaxAttempts   \* max_attempts, of every policy

VARIABLES
    clock,        \* in ticks
    status,       \* the task's
    attempt,
    policy,       \* retry_json: the policy of the last begin
    retry_at,     \* in seconds; 0 is NULL
    client,       \* "working": on the attempt; "asking": begin comes next; "sleeping"
    rested,       \* the client has slept until retry_at since the failure
    failed_at,    \* history: the instant of the last failure
    delay         \* history: the delay that backoff_delay_ms gave for it

vars == <<clock, status, attempt, policy, retry_at, client, rested, failed_at, delay>>

ASSUME RetryAssumption ==
    /\ Policies \subseteq BackoffPolicy
    /\ Seeds \subseteq Nat
    /\ MaxAttempts \in Nat \ {0}

TypeOK ==
    /\ clock \in Nat
    /\ status \in {"running", "failed", "terminal"}
    /\ attempt \in 1..MaxAttempts
    /\ policy \in Policies
    /\ retry_at \in 0..LastStamp
    /\ client \in {"working", "asking", "sleeping"}
    /\ rested \in BOOLEAN
    /\ failed_at \in Nat
    /\ delay \in Nat

\* The first attempt, begun at any instant of the first second.
Init ==
    /\ clock \in 0..(PerSecond - 1)
    /\ status = "running"
    /\ attempt = 1
    /\ policy \in Policies
    /\ retry_at = 0
    /\ client = "working"
    /\ rested = FALSE
    /\ failed_at = 0
    /\ delay = 0

\* Mutant: a stamp counts until its second is over.
InFutureLong(stamp) == (stamp + 1) * PerSecond > clock
\* in_future: a stamp is the beginning of its second.
InFuture(stamp) == stamp * PerSecond > clock

\* Mutant: a failed task without a stamp is taken to be waiting.
RetryPendingNull == status = "failed" /\ (retry_at = 0 \/ InFuture(retry_at))
RetryPending == status = "failed" /\ InFuture(retry_at)

-----------------------------------------------------------------------------
\* A retryable failure.
Fail(seed) ==
    /\ client = "working"
    /\ status' = "failed"
    /\ delay' = BackoffDelay(policy, attempt, seed)
    /\ retry_at' = RetryAt(clock, DelaySecs(policy, attempt, seed))
    /\ failed_at' = clock
    /\ client' = "asking"
    /\ rested' = FALSE
    /\ UNCHANGED <<clock, attempt, policy>>

\* begin, the retry is due.
Execute(request) ==
    /\ client = "asking"
    /\ status = "failed" /\ attempt < MaxAttempts
    /\ ~RetryPending
    /\ status' = "running"
    /\ attempt' = attempt + 1
    /\ policy' = request
    /\ retry_at' = 0
    /\ client' = "working"
    /\ rested' = FALSE
    /\ UNCHANGED <<clock, failed_at, delay>>

\* begin, the attempts are used up: this comes before the look at retry_at.
Exhaust ==
    /\ client = "asking"
    /\ status = "failed" /\ attempt >= MaxAttempts
    /\ status' = "terminal"
    /\ UNCHANGED <<clock, attempt, policy, retry_at, client, rested, failed_at, delay>>

\* begin, too early: the client is told retry_at and sleeps.
RetryLater ==
    /\ client = "asking"
    /\ RetryPending /\ attempt < MaxAttempts
    /\ client' = "sleeping"
    /\ UNCHANGED <<clock, status, attempt, policy, retry_at, rested, failed_at, delay>>

\* The sleep is the difference of retry_at and the client's clock; it may take
\* longer, and it ends at once if retry_at has passed in the meantime.
Wake ==
    /\ client = "sleeping"
    /\ clock >= retry_at * PerSecond
    /\ client' = "asking"
    /\ rested' = TRUE
    /\ UNCHANGED <<clock, status, attempt, policy, retry_at, failed_at, delay>>

\* The sleeping run is killed and the script run again; it asks at any time.
Rerun ==
    /\ client = "sleeping"
    /\ client' = "asking"
    /\ rested' = FALSE
    /\ UNCHANGED <<clock, status, attempt, policy, retry_at, failed_at, delay>>

\* Time matters until a second after the retry is due, which bounds the clock.
Tick ==
    /\ status = "failed"
    /\ clock < (retry_at + 1) * PerSecond
    /\ clock' = clock + 1
    /\ UNCHANGED <<status, attempt, policy, retry_at, client, rested, failed_at, delay>>

Next ==
    \/ \E seed \in Seeds : Fail(seed)
    \/ \E request \in Policies : Execute(request)
    \/ Exhaust \/ RetryLater \/ Wake \/ Rerun \/ Tick

Spec == Init /\ [][Next]_vars

\* Calls are answered, sleeps end and time passes; nobody is made to fail or to
\* be killed.
Fairness ==
    /\ WF_vars(\E request \in Policies : Execute(request))
    /\ WF_vars(Exhaust) /\ WF_vars(RetryLater) /\ WF_vars(Wake) /\ WF_vars(Tick)
FairSpec == Spec /\ Fairness

-----------------------------------------------------------------------------
(* Properties *)

\* What the doc comment of backoff_delay_ms asks for, without machine words: the
\* base doubled once per earlier attempt, and the cap.
Doubled[n \in Nat] == IF n = 0 THEN 1 ELSE 2 * Doubled[n - 1]
Documented(p, a) == Capped(p, p.base_delay_ms * Doubled[a - 1])

\* Apart from the jitter the delay is the documented one, except that the factor
\* stops doubling at MaxExponent and the product stops growing at WordMax: the
\* widths of the code shorten a delay and never wrap it around.
DelayAsDocumented ==
    status = "failed" =>
        LET full == FullDelay(policy, attempt) IN
        /\ full <= Documented(policy, attempt)
        /\ \/ full = Documented(policy, attempt)
           \/ attempt - 1 > MaxExponent
           \/ full = WordMax

\* Whatever the saturations do, a later attempt under a policy is never asked to
\* wait less than an earlier one, the jitter takes at most half of a delay, and
\* the cap holds.
DelayWithinPolicy ==
    status = "failed" =>
        LET full == FullDelay(policy, attempt) IN
        /\ delay <= full /\ full <= 2 * delay + 1
        /\ attempt > 1 => FullDelay(policy, attempt - 1) <= full
        /\ policy.max_delay_ms > 0 => delay <= policy.max_delay_ms

\* No retry starts earlier than asked for by a second or more, although the stamp
\* drops the fraction of the second in which the attempt failed.  The exception
\* is a delay that leaves the range of SQLite's dates, which is no delay at all.
NotASecondEarly ==
    [][status = "failed" /\ status' = "running" =>
          \/ clock - failed_at > delay - PerSecond
          \/ failed_at + delay > LastStamp * PerSecond]_vars

\* A client that has slept until the instant it was told is not told to wait
\* again.
SleepSuffices == client = "asking" /\ rested => ~RetryPending

\* A failed task is begun again, or given up.
FailedIsRetried == status = "failed" ~> status # "failed"

=============================================================================
