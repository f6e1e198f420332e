-------------------------- MODULE RetryClockProofs --------------------------
(***************************************************************************)
(* Bounds on the backoff, and safety of RetryClock, for every instance of  *)
(* the constants: any policies, seeds, word width and range of dates.      *)
(***************************************************************************)
EXTENDS RetryClock, WellFoundedInduction, TLAPS

-----------------------------------------------------------------------------
(* The delay *)

LEMMA ExponentInRange ==
    ASSUME NEW a \in Nat
    PROVE  Exponent(a) \in 0..MaxExponent /\ Shift[Exponent(a)] \in 1..WordMax
  <1>1. Exponent(a) \in 0..MaxExponent
    BY BackoffAssumption DEF Exponent, Least
  <1> QED
    BY <1>1, BackoffAssumption

\* One more attempt doubles the factor, or leaves it as it is.
LEMMA FactorGrows ==
    ASSUME NEW a \in Nat \ {0}
    PROVE  \/ Shift[Exponent(a + 1)] = Shift[Exponent(a)]
           \/ Shift[Exponent(a + 1)] = 2 * Shift[Exponent(a)]
  <1>1. Exponent(a) = Least(a - 1, MaxExponent) /\ Exponent(a + 1) = Least(a, MaxExponent)
    BY DEF Exponent
  <1>2. CASE a <= MaxExponent
    <2>1. Exponent(a) = a - 1 /\ Exponent(a + 1) = a /\ a \in 1..MaxExponent
      BY <1>1, <1>2, BackoffAssumption DEF Least
    <2> QED
      BY <2>1, BackoffAssumption
  <1>3. CASE a > MaxExponent
    BY <1>1, <1>3, BackoffAssumption DEF Least
  <1> QED
    BY <1>2, <1>3, BackoffAssumption

LEMMA FullDelayIsNat ==
    ASSUME NEW p \in BackoffPolicy, NEW a \in Nat
    PROVE  /\ FullDelay(p, a) \in 0..WordMax
           /\ p.max_delay_ms > 0 => FullDelay(p, a) <= p.max_delay_ms
  <1>1. p.base_delay_ms \in 0..WordMax /\ p.max_delay_ms \in 0..WordMax /\ WordMax \in Nat
    BY BackoffAssumption DEF BackoffPolicy
  <1> DEFINE x == p.base_delay_ms * Shift[Exponent(a)]
  <1>2. Shift[Exponent(a)] \in Nat
    BY ExponentInRange
  <1>3. x \in Nat
    BY <1>1, <1>2
  <1>4. SaturatingMul(p.base_delay_ms, Shift[Exponent(a)]) = Least(x, WordMax)
    BY DEF SaturatingMul
  <1> HIDE DEF x
  <1> QED
    BY <1>1, <1>3, <1>4 DEF FullDelay, Capped, Least

\* A later attempt does not wait less.
THEOREM LaterWaitsLonger ==
    ASSUME NEW p \in BackoffPolicy, NEW a \in Nat \ {0}
    PROVE  FullDelay(p, a) <= FullDelay(p, a + 1)
  <1> DEFINE f == Shift[Exponent(a)]
             g == Shift[Exponent(a + 1)]
             x == p.base_delay_ms * f
             y == p.base_delay_ms * g
  <1>1. p.base_delay_ms \in Nat /\ p.max_delay_ms \in Nat /\ WordMax \in Nat
    BY BackoffAssumption DEF BackoffPolicy
  <1>2. f \in Nat /\ g \in Nat /\ (g = f \/ g = 2 * f)
    BY ExponentInRange, FactorGrows
  <1>3. x \in Nat /\ y \in Nat /\ x <= y
    <2> HIDE DEF f, g
    <2>1. p.base_delay_ms * f \in Nat
      BY <1>1, <1>2
    <2>2. CASE g = f
      BY <2>1, <2>2
    <2>3. CASE g = 2 * f
      <3>1. p.base_delay_ms * (2 * f) = 2 * (p.base_delay_ms * f)
        BY <1>1, <1>2
      <3> QED
        BY <2>1, <2>3, <3>1
    <2> QED
      BY <1>2, <2>2, <2>3
  <1>4. /\ SaturatingMul(p.base_delay_ms, f) = Least(x, WordMax)
        /\ SaturatingMul(p.base_delay_ms, g) = Least(y, WordMax)
    BY DEF SaturatingMul
  <1>5. /\ FullDelay(p, a) = IF p.base_delay_ms = 0 THEN 0 ELSE Capped(p, Least(x, WordMax))
        /\ FullDelay(p, a + 1) = IF p.base_delay_ms = 0 THEN 0 ELSE Capped(p, Least(y, WordMax))
    BY <1>4 DEF FullDelay
  <1> HIDE DEF x, y
  <1> QED
    BY <1>1, <1>3, <1>5 DEF Capped, Least

\* Division rounds down to less than one divisor below.
LEMMA Quotient ==
    ASSUME NEW n \in Nat, NEW k \in Nat \ {0}
    PROVE  /\ n \div k \in Nat
           /\ (n \div k) * k <= n
           /\ n < (n \div k) * k + k
  OBVIOUS

\* The jitter takes at most half of the delay.
LEMMA JitterHalves ==
    ASSUME NEW p \in BackoffPolicy, NEW d \in Nat, NEW seed \in Nat
    PROVE  /\ Jittered(p, d, seed) \in Nat
           /\ Jittered(p, d, seed) <= d
           /\ d <= 2 * Jittered(p, d, seed) + 1
  <1>1. CASE ~p.jitter
    BY <1>1 DEF Jittered
  <1>2. CASE p.jitter
    <2> DEFINE J == JitterSteps
               r == seed % J
               q == (d * (J + r)) \div (2 * J)
    <2>1. J \in Nat \ {0} /\ r \in 0..(J - 1)
      BY BackoffAssumption
    <2>2. Jittered(p, d, seed) = q
      BY <1>2 DEF Jittered
    <2> HIDE DEF J, r
    <2>3. d * (J + r) \in Nat /\ 2 * J \in Nat \ {0}
      BY <2>1
    <2>4. q \in Nat /\ q * (2 * J) <= d * (J + r) /\ d * (J + r) < q * (2 * J) + 2 * J
      BY <2>3, Quotient
    <2> HIDE DEF q
    <2> DEFINE qJ == q * J
               dJ == d * J
               dr == d * r
    <2>5. /\ qJ \in Nat /\ dJ \in Nat /\ dr \in Nat /\ dr <= dJ
          /\ d * (J + r) = dJ + dr /\ q * (2 * J) = 2 * qJ
      BY <2>1, <2>4
    <2>6. (2 * q + 2) * J = 2 * qJ + 2 * J
      BY <2>1, <2>4
    <2>7. qJ <= dJ /\ dJ < (2 * q + 2) * J
      <3> HIDE DEF qJ, dJ, dr
      <3> QED
        BY <2>1, <2>4, <2>5, <2>6
    <2>8. q * J <= d * J /\ d * J < (2 * q + 2) * J
      BY <2>7
    <2> HIDE DEF qJ, dJ, dr
    <2>9. q <= d
      BY <2>1, <2>4, <2>8
    <2>10. d < 2 * q + 2
      BY <2>1, <2>4, <2>8
    <2> QED
      BY <2>2, <2>4, <2>9, <2>10
  <1> QED
    BY <1>1, <1>2

\* Seconds are rounded up by less than one.
LEMMA SecondsRoundUp ==
    ASSUME NEW d \in Nat
    PROVE  /\ Seconds(d) \in Nat
           /\ d <= Seconds(d) * PerSecond
           /\ Seconds(d) * PerSecond < d + PerSecond
           /\ Seconds(d) = 0 => d = 0
  <1> DEFINE n == d + PerSecond - 1
  <1>1. PerSecond \in Nat \ {0} /\ n \in Nat
    BY BackoffAssumption
  <1>2. /\ n \div PerSecond \in Nat
        /\ n < (n \div PerSecond) * PerSecond + PerSecond
        /\ (n \div PerSecond) * PerSecond <= n
    BY <1>1, Quotient
  <1>3. Seconds(d) = n \div PerSecond
    BY DEF Seconds
  <1>4. (n \div PerSecond) * PerSecond \in Nat
    BY <1>1, <1>2
  <1>5. d <= Seconds(d) * PerSecond /\ Seconds(d) * PerSecond < d + PerSecond
    BY <1>1, <1>2, <1>3, <1>4
  <1>6. Seconds(d) = 0 => d = 0
    <2>1. SUFFICES ASSUME Seconds(d) = 0 PROVE d = 0
      OBVIOUS
    <2>2. 0 * PerSecond = 0
      BY <1>1
    <2> QED
      BY <1>5, <2>1, <2>2
  <1> QED
    BY <1>2, <1>3, <1>5, <1>6

\* What TaskStore assumes of its constant BackoffSecs: a delay is a number of
\* seconds.
THEOREM DelaysAreNaturals ==
    ASSUME NEW p \in BackoffPolicy, NEW a \in Nat, NEW seed \in Nat
    PROVE  BackoffDelay(p, a, seed) \in Nat /\ DelaySecs(p, a, seed) \in Nat
  <1> DEFINE full == FullDelay(p, a)
  <1>1. full \in Nat
    BY FullDelayIsNat, BackoffAssumption
  <1>2. BackoffDelay(p, a, seed) = Jittered(p, full, seed)
    BY DEF BackoffDelay
  <1> HIDE DEF full
  <1>3. BackoffDelay(p, a, seed) \in Nat
    BY <1>1, <1>2, JitterHalves
  <1> QED
    BY <1>3, SecondsRoundUp DEF DelaySecs

-----------------------------------------------------------------------------
(* The retries *)

\* What a failed task knows of its failure, and a rested client of the time.
FailedInv ==
    status = "failed" =>
        /\ failed_at <= clock
        /\ retry_at = RetryAt(failed_at, Seconds(delay))
        /\ \E seed \in Seeds : delay = BackoffDelay(policy, attempt, seed)
RestedInv == client = "asking" /\ rested => clock >= retry_at * PerSecond
RInv == TypeOK /\ FailedInv /\ RestedInv

LEMMA StampInRange ==
    ASSUME NEW instant \in Nat, NEW secs \in Nat
    PROVE  RetryAt(instant, secs) \in 0..LastStamp
  <1>1. instant \div PerSecond \in Nat /\ LastStamp \in Nat
    BY BackoffAssumption, Quotient
  <1> QED
    BY <1>1 DEF RetryAt

\* A failure is scheduled for a stamp, from a delay.
LEMMA FailSchedules ==
    ASSUME TypeOK, NEW seed \in Seeds, Fail(seed)
    PROVE  RInv'
  <1>1. policy \in BackoffPolicy /\ attempt \in Nat /\ seed \in Nat /\ clock \in Nat
    BY RetryAssumption DEF TypeOK
  <1>2. delay' \in Nat /\ DelaySecs(policy, attempt, seed) = Seconds(delay')
    BY <1>1, DelaysAreNaturals DEF Fail, DelaySecs
  <1>3. retry_at' = RetryAt(clock, Seconds(delay')) /\ retry_at' \in 0..LastStamp
    BY <1>1, <1>2, StampInRange, SecondsRoundUp DEF Fail
  <1>4. TypeOK'
    BY <1>2, <1>3 DEF Fail, TypeOK
  <1>5. FailedInv'
    BY <1>1, <1>3 DEF Fail, FailedInv
  <1>6. RestedInv'
    BY DEF Fail, RestedInv
  <1> QED
    BY <1>4, <1>5, <1>6 DEF RInv

LEMMA RInvInductive == Spec => []RInv
  <1>1. Init => RInv
    <2> SUFFICES ASSUME Init PROVE RInv
      OBVIOUS
    <2>1. TypeOK
      <3>1. clock \in Nat /\ 1 \in 1..MaxAttempts /\ 0 \in 0..LastStamp
        BY BackoffAssumption, RetryAssumption DEF Init
      <3> QED
        BY <3>1 DEF Init, TypeOK
    <2> QED
      BY <2>1 DEF Init, RInv, FailedInv, RestedInv
  <1>2. RInv /\ [Next]_vars => RInv'
    <2> SUFFICES ASSUME RInv, [Next]_vars PROVE RInv'
      OBVIOUS
    <2> USE RetryAssumption DEF RInv, TypeOK
    <2>1. ASSUME NEW seed \in Seeds, Fail(seed) PROVE RInv'
      BY <2>1, FailSchedules
    <2>2. ASSUME NEW request \in Policies, Execute(request) PROVE RInv'
      <3>1. attempt + 1 \in 1..MaxAttempts /\ 0 \in 0..LastStamp
        BY <2>2, BackoffAssumption DEF Execute
      <3>2. TypeOK'
        BY <2>2, <3>1 DEF Execute
      <3> QED
        BY <2>2, <3>2 DEF Execute, FailedInv, RestedInv
    <2>3. CASE Exhaust
      BY <2>3 DEF Exhaust, FailedInv, RestedInv
    <2>4. CASE RetryLater
      BY <2>4 DEF RetryLater, FailedInv, RestedInv
    <2>5. CASE Wake
      BY <2>5 DEF Wake, FailedInv, RestedInv
    <2>6. CASE Rerun
      BY <2>6 DEF Rerun, FailedInv, RestedInv
    <2>7. CASE Tick
      <3>1. retry_at * PerSecond \in Nat
        BY BackoffAssumption
      <3> QED
        BY <2>7, <3>1 DEF Tick, FailedInv, RestedInv
    <2>8. CASE UNCHANGED vars
      BY <2>8 DEF vars, FailedInv, RestedInv
    <2> QED
      BY <2>1, <2>2, <2>3, <2>4, <2>5, <2>6, <2>7, <2>8 DEF Next
  <1> QED
    BY <1>1, <1>2, PTL DEF Spec

\* The variables keep their types: in particular no stamp is beyond SQLite's dates.
THEOREM RetryTypes == Spec => []TypeOK
  BY RInvInductive, PTL DEF RInv

\* A client that slept as long as it was told to is not told to wait again.
THEOREM SleepingSuffices == Spec => []SleepSuffices
  <1>1. RInv => SleepSuffices
    <2> SUFFICES ASSUME RInv PROVE SleepSuffices
      OBVIOUS
    <2>1. retry_at * PerSecond \in Nat /\ clock \in Nat
      BY BackoffAssumption DEF RInv, TypeOK
    <2> QED
      BY <2>1 DEF RInv, RestedInv, SleepSuffices, RetryPending, InFuture
  <1> QED
    BY <1>1, RInvInductive, PTL

\* The delays that are asked for keep to the policy.
THEOREM DelaysKeepToPolicy == Spec => []DelayWithinPolicy
  <1>1. RInv => DelayWithinPolicy
    <2> SUFFICES ASSUME RInv, status = "failed" PROVE
            LET full == FullDelay(policy, attempt) IN
            /\ delay <= full /\ full <= 2 * delay + 1
            /\ attempt > 1 => FullDelay(policy, attempt - 1) <= full
            /\ policy.max_delay_ms > 0 => delay <= policy.max_delay_ms
      BY DEF DelayWithinPolicy
    <2> DEFINE full == FullDelay(policy, attempt)
    <2>1. /\ policy \in BackoffPolicy /\ attempt \in Nat \ {0} /\ delay \in Nat
          /\ policy.max_delay_ms \in Nat
      BY RetryAssumption, BackoffAssumption DEF RInv, TypeOK, BackoffPolicy
    <2>2. PICK seed \in Seeds : delay = Jittered(policy, full, seed)
      BY DEF RInv, FailedInv, BackoffDelay
    <2>3. full \in Nat /\ (policy.max_delay_ms > 0 => full <= policy.max_delay_ms)
      <3>1. attempt \in Nat
        BY <2>1
      <3>2. /\ full \in 0..WordMax
            /\ policy.max_delay_ms > 0 => full <= policy.max_delay_ms
        BY <2>1, <3>1, FullDelayIsNat
      <3> HIDE DEF full
      <3> QED
        BY <3>2, BackoffAssumption
    <2>4. attempt > 1 => FullDelay(policy, attempt - 1) <= full
      <3> SUFFICES ASSUME attempt > 1 PROVE FullDelay(policy, attempt - 1) <= full
        OBVIOUS
      <3>1. attempt - 1 \in Nat \ {0} /\ (attempt - 1) + 1 = attempt
        BY <2>1
      <3> QED
        BY <2>1, <3>1, LaterWaitsLonger
    <2> HIDE DEF full
    <2>5. delay <= full /\ full <= 2 * delay + 1
      BY <2>1, <2>2, <2>3, JitterHalves, RetryAssumption
    <2>6. policy.max_delay_ms > 0 => delay <= policy.max_delay_ms
      BY <2>1, <2>3, <2>5
    <2> QED
      BY <2>4, <2>5, <2>6 DEF full
  <1> QED
    BY <1>1, RInvInductive, PTL

\* The stamp of a failure is less than a second before, and less than a second
\* after, the instant that the delay leads to.
LEMMA StampNearInstant ==
    ASSUME NEW f \in Nat, NEW d \in Nat
    PROVE  LET stamp == f \div PerSecond + Seconds(d) IN
           /\ stamp \in Nat
           /\ stamp * PerSecond > f + d - PerSecond
           /\ stamp * PerSecond < f + d + PerSecond
  <1> DEFINE q == f \div PerSecond
             s == Seconds(d)
  <1>1. PerSecond \in Nat \ {0}
    BY BackoffAssumption
  <1>2. q \in Nat /\ q * PerSecond <= f /\ f < q * PerSecond + PerSecond
    BY <1>1, Quotient
  <1>3. s \in Nat /\ d <= s * PerSecond /\ s * PerSecond < d + PerSecond
    BY SecondsRoundUp
  <1> HIDE DEF q, s
  <1>4. /\ (q + s) * PerSecond = q * PerSecond + s * PerSecond
        /\ q * PerSecond \in Nat /\ s * PerSecond \in Nat
    BY <1>1, <1>2, <1>3
  <1>5. /\ q + s \in Nat
        /\ (q + s) * PerSecond > f + d - PerSecond
        /\ (q + s) * PerSecond < f + d + PerSecond
    BY <1>1, <1>2, <1>3, <1>4
  <1> QED
    BY <1>5 DEF q, s

\* No retry starts a second or more before its delay is over.
THEOREM RetriesAreNotEarly == Spec => NotASecondEarly
  <1> DEFINE Early == clock - failed_at > delay - PerSecond
             Beyond == failed_at + delay > LastStamp * PerSecond
             Step == status = "failed" /\ status' = "running" => Early \/ Beyond
  <1>1. RInv /\ [Next]_vars => [Step]_vars
    <2> SUFFICES ASSUME RInv, Next, status = "failed", status' = "running"
                 PROVE  Early \/ Beyond
      OBVIOUS
    <2>1. ~RetryPending
      <3>1. \E request \in Policies : Execute(request)
        BY DEF Next, Fail, Execute, Exhaust, RetryLater, Wake, Rerun, Tick
      <3> QED
        BY <3>1 DEF Execute
    <2>2. /\ clock \in Nat /\ failed_at \in Nat /\ delay \in Nat /\ failed_at <= clock
          /\ retry_at = RetryAt(failed_at, Seconds(delay))
          /\ PerSecond \in Nat \ {0} /\ LastStamp \in Nat /\ retry_at \in Nat
      BY BackoffAssumption DEF RInv, TypeOK, FailedInv
    <2> DEFINE stamp == failed_at \div PerSecond + Seconds(delay)
    <2>3. /\ stamp \in Nat
          /\ stamp * PerSecond > failed_at + delay - PerSecond
          /\ stamp * PerSecond < failed_at + delay + PerSecond
      BY <2>2, StampNearInstant
    <2>4. CASE Seconds(delay) = 0
      BY <2>2, <2>4, SecondsRoundUp
    <2>5. CASE Seconds(delay) # 0 /\ stamp > LastStamp
      <3> HIDE DEF stamp
      <3>1. stamp * PerSecond >= (LastStamp + 1) * PerSecond
        BY <2>2, <2>3, <2>5
      <3>2. (LastStamp + 1) * PerSecond = LastStamp * PerSecond + PerSecond
        BY <2>2
      <3> QED
        BY <2>2, <2>3, <3>1, <3>2
    <2>6. CASE Seconds(delay) # 0 /\ stamp <= LastStamp
      <3>1. retry_at = stamp
        BY <2>2, <2>3, <2>6 DEF RetryAt
      <3>2. clock >= stamp * PerSecond
        <4>1. retry_at * PerSecond \in Nat
          BY <2>2
        <4> QED
          BY <2>1, <2>2, <3>1, <4>1 DEF RetryPending, InFuture
      <3> HIDE DEF stamp
      <3>3. stamp * PerSecond \in Nat
        BY <2>2, <2>3
      <3> QED
        BY <2>2, <2>3, <3>2, <3>3
    <2> QED
      BY <2>2, <2>3, <2>4, <2>5, <2>6
  <1> QED
    BY <1>1, RInvInductive, PTL DEF Spec, NotASecondEarly

-----------------------------------------------------------------------------
(* The documented delay.  Doubled is defined by recursion on the numbers, so  *)
(* that there is such a function, and what it shares with Shift, is by        *)
(* induction: by the least number for which it fails.                         *)

LEMMA LeastNumber ==
    ASSUME NEW S, S \subseteq Nat, S # {}
    PROVE  \E x \in S : \A y \in S : x <= y
  <1> DEFINE Less == {p \in Nat \X Nat : p[1] < p[2]}
  <1>1. IsWellFoundedOn(Less, Nat)
    <2>1. Less = OpToRel(<, Nat)
      BY DEF OpToRel
    <2> QED
      BY <2>1, NatLessThanWellFounded
  <1>2. PICK x \in S : \A y \in S : <<y, x>> \notin Less
    <2> HIDE DEF Less
    <2> QED
      BY <1>1, WFMin
  <1>3. ASSUME NEW y \in S PROVE x <= y
    <2>1. <<y, x>> \notin Less
      BY <1>2
    <2>2. x \in Nat /\ y \in Nat
      BY <1>2
    <2>3. <<y, x>> \in Less <=> y < x
      BY <2>2
    <2> QED
      BY <2>1, <2>2, <2>3
  <1> QED
    BY <1>2, <1>3

\* f is Doubled up to n.
DoublesTo(f, n) ==
    /\ f \in [0..n -> Nat]
    /\ f[0] = 1
    /\ \A i \in 1..n : f[i] = 2 * f[i - 1]

LEMMA DoublingExists ==
    ASSUME NEW n \in Nat
    PROVE  \E f : DoublesTo(f, n)
  <1> DEFINE Bad == {m \in Nat : ~\E f : DoublesTo(f, m)}
  <1> SUFFICES Bad = {}
    OBVIOUS
  <1> SUFFICES ASSUME Bad # {} PROVE FALSE
    OBVIOUS
  <1>1. PICK m \in Bad : \A k \in Bad : m <= k
    <2>1. Bad \subseteq Nat
      OBVIOUS
    <2> HIDE DEF Bad
    <2> QED
      BY <2>1, LeastNumber
  <1>2. m # 0
    <2> DEFINE one == [i \in 0..0 |-> 1]
    <2>1. DoublesTo(one, 0)
      BY DEF DoublesTo
    <2> QED
      BY <1>1, <2>1
  <1>3. m \in Nat /\ m - 1 \in Nat /\ m - 1 \notin Bad
    BY <1>1, <1>2
  <1>4. PICK f : DoublesTo(f, m - 1)
    BY <1>3
  <1> DEFINE g == [i \in 0..m |-> IF i = m THEN 2 * f[m - 1] ELSE f[i]]
  <1>5. f \in [0..(m - 1) -> Nat] /\ f[m - 1] \in Nat
    BY <1>3, <1>4 DEF DoublesTo
  <1>6. g \in [0..m -> Nat]
    BY <1>3, <1>5
  <1>7. g[0] = 1
    BY <1>2, <1>3, <1>4 DEF DoublesTo
  <1>8. ASSUME NEW i \in 1..m
        PROVE  g[i] = 2 * g[i - 1]
    <2>1. g[i - 1] = f[i - 1]
      BY <1>3
    <2>2. CASE i = m
      BY <1>3, <2>1, <2>2
    <2>3. CASE i # m
      <3>1. i \in 1..(m - 1) /\ g[i] = f[i]
        BY <1>3, <2>3
      <3> QED
        BY <1>4, <2>1, <3>1 DEF DoublesTo
    <2> QED
      BY <2>2, <2>3
  <1>9. DoublesTo(g, m)
    BY <1>6, <1>7, <1>8 DEF DoublesTo
  <1> QED
    BY <1>1, <1>9

\* Two of them agree as far as both go.
LEMMA DoublingIsUnique ==
    ASSUME NEW n \in Nat, NEW m \in Nat, NEW f, NEW g, DoublesTo(f, n), DoublesTo(g, m),
           NEW i \in 0..n, i \in 0..m
    PROVE  f[i] = g[i]
  <1> DEFINE Bad == {j \in 0..n : j \in 0..m /\ f[j] # g[j]}
  <1> SUFFICES ASSUME Bad # {} PROVE FALSE
    OBVIOUS
  <1>1. PICK j \in Bad : \A k \in Bad : j <= k
    <2>1. Bad \subseteq Nat
      OBVIOUS
    <2> HIDE DEF Bad
    <2> QED
      BY <2>1, LeastNumber
  <1>2. j # 0
    BY <1>1 DEF DoublesTo
  <1>3. j - 1 \in 0..n /\ j - 1 \in 0..m /\ j \in 1..n /\ j \in 1..m /\ j - 1 \notin Bad
    BY <1>1, <1>2
  <1>4. f[j] = 2 * f[j - 1] /\ g[j] = 2 * g[j - 1] /\ f[j - 1] = g[j - 1]
    BY <1>3 DEF DoublesTo
  <1> QED
    BY <1>1, <1>4

\* The definition of Doubled defines a function.
LEMMA DoubledIsDefined ==
    Doubled = [n \in Nat |-> IF n = 0 THEN 1 ELSE 2 * Doubled[n - 1]]
  <1> DEFINE Upto(n) == CHOOSE f : DoublesTo(f, n)
             all == [n \in Nat |-> Upto(n)[n]]
  <1>1. \A n \in Nat : DoublesTo(Upto(n), n)
    BY DoublingExists
  <1>2. ASSUME NEW n \in Nat
        PROVE  all[n] = IF n = 0 THEN 1 ELSE 2 * all[n - 1]
    <2> HIDE DEF Upto
    <2>1. CASE n = 0
      BY <1>1, <2>1 DEF DoublesTo
    <2>2. CASE n # 0
      <3>1. n \in 1..n /\ n - 1 \in Nat /\ n - 1 \in 0..n /\ n - 1 \in 0..(n - 1)
        BY <2>2
      <3>2. Upto(n)[n] = 2 * Upto(n)[n - 1]
        BY <1>1, <3>1 DEF DoublesTo
      <3>3. Upto(n)[n - 1] = Upto(n - 1)[n - 1]
        BY <1>1, <3>1, DoublingIsUnique
      <3> QED
        BY <2>2, <3>1, <3>2, <3>3
    <2> QED
      BY <2>1, <2>2
  <1>3. all = [n \in Nat |-> IF n = 0 THEN 1 ELSE 2 * all[n - 1]]
    <2>1. all = [n \in Nat |-> all[n]]
      OBVIOUS
    <2> HIDE DEF all
    <2> QED
      BY <1>2, <2>1, Zenon
  <1> HIDE DEF all
  <1> QED
    BY <1>3 DEF Doubled

\* Doubled is what the shifted factor is, as long as the shift is not cut off, and
\* not less than that from then on.
LEMMA DoubledIsShifted ==
    /\ Doubled \in [Nat -> Nat]
    /\ \A n \in 0..MaxExponent : Doubled[n] = Shift[n]
    /\ \A n \in Nat : n >= MaxExponent => Doubled[n] >= Shift[MaxExponent]
  <1>0. /\ MaxExponent \in Nat /\ Shift \in [0..MaxExponent -> Nat]
        /\ Shift[0] = 1 /\ \A n \in 1..MaxExponent : Shift[n] = 2 * Shift[n - 1]
    BY BackoffAssumption
  <1>1. Doubled[0] = 1 /\ \A n \in Nat \ {0} : n - 1 \in Nat /\ Doubled[n] = 2 * Doubled[n - 1]
    BY DoubledIsDefined
  <1> DEFINE Fine(n) == /\ Doubled[n] \in Nat
                        /\ n <= MaxExponent => Doubled[n] = Shift[n]
                        /\ n >= MaxExponent => Doubled[n] >= Shift[MaxExponent]
             Bad == {n \in Nat : ~Fine(n)}
  <1>2. Bad = {}
    <2> SUFFICES ASSUME Bad # {} PROVE FALSE
      OBVIOUS
    <2>1. PICK n \in Bad : \A k \in Bad : n <= k
      <3>1. Bad \subseteq Nat
        OBVIOUS
      <3> HIDE DEF Bad
      <3> QED
        BY <3>1, LeastNumber
    <2>2. n # 0
      BY <1>0, <1>1, <2>1
    <2>3. n \in Nat /\ n - 1 \in Nat /\ n - 1 \notin Bad
      BY <2>1, <2>2
    <2>4. Fine(n - 1)
      BY <2>3
    <2>5. Doubled[n] = 2 * Doubled[n - 1]
      BY <1>1, <2>2, <2>3
    <2>6. Shift[MaxExponent] \in Nat
      BY <1>0
    <2>7. n <= MaxExponent => Doubled[n] = Shift[n]
      BY <1>0, <2>2, <2>3, <2>4, <2>5
    <2>8. Fine(n)
      BY <1>0, <2>3, <2>4, <2>5, <2>6, <2>7
    <2> QED
      BY <2>1, <2>8
  <1>3. \A n \in Nat : Fine(n)
    BY <1>2
  <1>4. Doubled = [n \in Nat |-> Doubled[n]]
    BY DoubledIsDefined
  <1> QED
    BY <1>0, <1>3, <1>4

\* The saturated product and the full one, both capped.
LEMMA SaturationShortens ==
    ASSUME NEW p, p.max_delay_ms \in 0..WordMax, NEW low \in Nat, NEW high \in Nat, low <= high
    PROVE  /\ Capped(p, Least(low, WordMax)) <= Capped(p, high)
           /\ low = high => \/ Capped(p, Least(low, WordMax)) = Capped(p, high)
                            \/ Capped(p, Least(low, WordMax)) = WordMax
  <1> DEFINE cap == p.max_delay_ms
  <1>1. cap \in Nat /\ WordMax \in Nat /\ cap <= WordMax
    BY BackoffAssumption
  <1>2. CASE cap > 0
    BY <1>1, <1>2 DEF Capped, Least
  <1>3. CASE cap = 0
    BY <1>1, <1>3 DEF Capped, Least
  <1> QED
    BY <1>1, <1>2, <1>3

\* Apart from the jitter the delay is the documented one, up to the widths of the
\* code, which only ever shorten it.
THEOREM DelaysAreAsDocumented == Spec => []DelayAsDocumented
  <1>1. ASSUME TypeOK
        PROVE  LET full == FullDelay(policy, attempt) IN
               /\ full <= Documented(policy, attempt)
               /\ \/ full = Documented(policy, attempt)
                  \/ attempt - 1 > MaxExponent
                  \/ full = WordMax
    <2> DEFINE base == policy.base_delay_ms
               factor == Shift[Exponent(attempt)]
               asked == base * Doubled[attempt - 1]
    <2>1. /\ policy \in BackoffPolicy /\ base \in Nat /\ policy.max_delay_ms \in 0..WordMax
          /\ attempt \in Nat \ {0} /\ attempt - 1 \in Nat /\ WordMax \in Nat
      BY <1>1, RetryAssumption, BackoffAssumption DEF TypeOK, BackoffPolicy
    <2>2. /\ Exponent(attempt) = Least(attempt - 1, MaxExponent)
          /\ factor \in Nat /\ MaxExponent \in Nat
      BY <2>1, ExponentInRange, BackoffAssumption DEF Exponent
    <2>3. /\ Doubled[attempt - 1] \in Nat /\ factor <= Doubled[attempt - 1]
          /\ attempt - 1 <= MaxExponent => factor = Doubled[attempt - 1]
      BY <2>1, <2>2, DoubledIsShifted DEF Least
    <2> HIDE DEF factor
    <2>4. /\ base * factor \in Nat /\ asked \in Nat /\ base * factor <= asked
          /\ attempt - 1 <= MaxExponent => base * factor = asked
          /\ base = 0 => asked = 0
      <3>1. base * factor <= asked
        <4> DEFINE d == Doubled[attempt - 1]
        <4> HIDE DEF base, d
        <4>1. d - factor \in Nat /\ factor + (d - factor) = d /\ d \in Nat /\ base \in Nat
          BY <2>1, <2>2, <2>3 DEF d
        <4>2. base * (d - factor) \in Nat /\ base * d = base * factor + base * (d - factor)
          BY <2>2, <4>1
        <4>3. base * factor \in Nat /\ base * d \in Nat
          BY <2>2, <4>1
        <4> QED
          BY <4>2, <4>3 DEF d
      <3> QED
        BY <2>1, <2>2, <2>3, <3>1
    <2> HIDE DEF base, asked
    <2>5. /\ FullDelay(policy, attempt) =
                 IF base = 0 THEN 0 ELSE Capped(policy, Least(base * factor, WordMax))
          /\ Documented(policy, attempt) = Capped(policy, asked)
      BY DEF FullDelay, SaturatingMul, Documented, base, factor, asked
    <2>6. CASE base = 0
      BY <2>1, <2>4, <2>5, <2>6 DEF Capped, Least
    <2>7. CASE base # 0
      <3>1. FullDelay(policy, attempt) = Capped(policy, Least(base * factor, WordMax))
        BY <2>5, <2>7
      <3>2. attempt - 1 <= MaxExponent \/ attempt - 1 > MaxExponent
        BY <2>1, <2>2
      <3> QED
        BY <2>1, <2>4, <2>5, <3>1, <3>2, SaturationShortens
    <2> QED
      BY <2>6, <2>7
  <1>2. RInv => DelayAsDocumented
    BY <1>1 DEF RInv, DelayAsDocumented
  <1> QED
    BY <1>2, RInvInductive, PTL

=============================================================================
