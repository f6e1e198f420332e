--------------------------- MODULE HarnessProofs ---------------------------
(***************************************************************************)
(* Harness uses the store as TaskStore is specified, so what is proved of  *)
(* the store holds of harnesses; and what the runs of a script report and  *)
(* release, for any number of runs, digests and faults.                    *)
(***************************************************************************)
EXTENDS Harness, TaskStoreFencedProofs

\* The places where a thread has, or a lost request carries, a claim.
Holding == {"setup", "run", "complete", "fail", "lost_complete", "lost_fail"}

\* Such a claim is one that begin handed out.
ClaimInv ==
    \A w \in Worker, t \in Task : pc[w][t] \in Holding => ClaimOf(w, t) \in claims

-----------------------------------------------------------------------------
(* How threads move *)

LEMMA GotoMoves ==
    ASSUME HTypeOK, NEW w \in Worker, NEW t \in Task, NEW place \in PC, Goto(w, t, place)
    PROVE  /\ pc' \in [Worker -> [Task -> PC]]
           /\ pc'[w][t] = place
           /\ \A v \in Worker, s \in Task : v # w \/ s # t => pc'[v][s] = pc[v][s]
  BY DEF HTypeOK, Goto

LEMMA RaiseMoves ==
    ASSUME HTypeOK, NEW w \in Worker, NEW t \in Task, NEW place \in PC, Raise(w, t, place)
    PROVE  /\ pc' \in [Worker -> [Task -> PC]]
           /\ pc'[w][t] = place
           /\ \A v \in Worker, s \in Task : v # w \/ s # t =>
                 pc'[v][s] = pc[v][s] \/ (pc[v][s] = "queued" /\ pc'[v][s] = "dropped")
  <1>1. pc \in [Worker -> [Task -> PC]] /\ "dropped" \in PC
    BY DEF HTypeOK, PC, Over
  <1> DEFINE row == [s \in Task |->
                        IF s = t THEN place
                        ELSE IF kind = "loop" /\ pc[w][s] = "queued" THEN "dropped"
                        ELSE pc[w][s]]
  <1>2. pc' = [pc EXCEPT ![w] = row]
    BY DEF Raise
  <1>3. row \in [Task -> PC]
    BY <1>1
  <1>4. /\ row[t] = place
        /\ \A s \in Task : s # t =>
              row[s] = pc[w][s] \/ (pc[w][s] = "queued" /\ row[s] = "dropped")
    OBVIOUS
  <1> HIDE DEF row
  <1> QED
    BY <1>1, <1>2, <1>3, <1>4

\* What a step of another thread may do to a thread: stop it, losing its call.
Bystander(v, s) ==
    \/ pc'[v][s] = pc[v][s]
    \/ pc[v][s] = "queued" /\ pc'[v][s] = "dropped"
    \/ pc[v][s] \notin Over /\ pc'[v][s] = "dead"
    \/ pc[v][s] \in Calling /\ pc'[v][s] = LostAt(pc[v][s])

LEMMA CrashMoves ==
    ASSUME HTypeOK, NEW w \in Worker, Crash(w)
    PROVE  /\ pc' \in [Worker -> [Task -> PC]]
           /\ \A v \in Worker, s \in Task : Bystander(v, s)
  <1> DEFINE row == [t \in Task |->
                        CASE pc[w][t] \in Calling -> LostAt(pc[w][t])
                          [] pc[w][t] \in Over -> pc[w][t]
                          [] OTHER -> "dead"]
  <1>1. pc \in [Worker -> [Task -> PC]]
    BY DEF HTypeOK
  <1>2. pc' = [pc EXCEPT ![w] = row]
    BY DEF Crash
  <1>3. ASSUME NEW t \in Task
        PROVE  /\ row[t] \in PC
               /\ \/ row[t] = pc[w][t] \/ (pc[w][t] \notin Over /\ row[t] = "dead")
                  \/ pc[w][t] \in Calling /\ row[t] = LostAt(pc[w][t])
    <2>1. CASE pc[w][t] \in Calling
      <3>1. row[t] = LostAt(pc[w][t])
        <4>1. pc[w][t] \notin Over
          BY <2>1 DEF Calling, Over, Lost
        <4> QED
          BY <2>1, <4>1
      <3>2. LostAt(pc[w][t]) \in PC
        BY <2>1 DEF Calling, LostAt, PC, Over, Lost
      <3> QED
        BY <2>1, <3>1, <3>2
    <2>2. CASE pc[w][t] \notin Calling
      <3>1. row[t] = pc[w][t] \/ (pc[w][t] \notin Over /\ row[t] = "dead")
        <4>1. CASE pc[w][t] \in Over
          BY <2>2, <4>1
        <4>2. CASE pc[w][t] \notin Over
          <5>1. row[t] = "dead"
            BY <2>2, <4>2, Zenon
          <5> QED
            BY <4>2, <5>1
        <4> QED
          BY <4>1, <4>2
      <3>2. "dead" \in PC
        BY DEF PC, Over
      <3> QED
        BY <1>1, <3>1, <3>2
    <2> QED
      BY <2>1, <2>2
  <1>4. row \in [Task -> PC]
    BY <1>3
  <1> HIDE DEF row
  <1>5. pc' \in [Worker -> [Task -> PC]]
    BY <1>1, <1>2, <1>4
  <1>6. \A v \in Worker, s \in Task : pc'[v][s] = IF v = w THEN row[s] ELSE pc[v][s]
    BY <1>1, <1>2, <1>4
  <1> QED
    BY <1>3, <1>5, <1>6 DEF Bystander

LEMMA StartMoves ==
    ASSUME HTypeOK, NEW w \in Worker, NEW selection \in Selections, StartMap(w, selection)
    PROVE  /\ pc' \in [Worker -> [Task -> PC]]
           /\ \A v \in Worker, s \in Task :
                 \/ pc'[v][s] = pc[v][s]
                 \/ pc[v][s] = "idle" /\ pc'[v][s] \in {"queued", "dropped"}
  <1>1. pc \in [Worker -> [Task -> PC]] /\ {"queued", "dropped"} \subseteq PC
    BY DEF HTypeOK, PC, Over
  <1> DEFINE row == [t \in Task |-> IF t \in selection THEN "queued" ELSE "dropped"]
  <1>2. pc' = [pc EXCEPT ![w] = row] /\ \A t \in Task : pc[w][t] = "idle"
    BY DEF StartMap
  <1>3. row \in [Task -> PC] /\ \A t \in Task : row[t] \in {"queued", "dropped"}
    BY <1>1
  <1> HIDE DEF row
  <1> QED
    BY <1>1, <1>2, <1>3

\* A thread that moves leaves the other threads what they have.
LEMMA ActingThread ==
    ASSUME HTypeOK, NEW w \in Worker, NEW t \in Task,
           ThreadStep(w, t) \/ ThreadFault(w, t) \/ CallStep(w, t)
    PROVE  /\ pc' \in [Worker -> [Task -> PC]]
           /\ \A v \in Worker, s \in Task : v # w \/ s # t =>
                 /\ Bystander(v, s)
                 /\ attempt'[v][s] = attempt[v][s]
                 /\ outputs'[v][s] = outputs[v][s]
                 /\ held'[v][s] = held[v][s]
  <1> DEFINE Moves == /\ pc' \in [Worker -> [Task -> PC]]
                      /\ \A v \in Worker, s \in Task : v # w \/ s # t => Bystander(v, s)
             Writes1(f, g) == \A v \in Worker, s \in Task : v # w \/ s # t => g[v][s] = f[v][s]
  <1>1. ASSUME \E place \in PC : Goto(w, t, place) \/ Raise(w, t, place)
        PROVE  Moves
    BY <1>1, GotoMoves, RaiseMoves DEF Bystander
  <1>2. /\ attempt \in [Worker -> [Task -> Nat]]
        /\ outputs \in [Worker -> [Task -> Nat]]
        /\ held \in [Worker -> [Task -> BOOLEAN]]
    BY DEF HTypeOK
  <1>3. CASE CallStep(w, t)
    <2>1. Goto(w, t, "begin") /\ "begin" \in PC
      BY <1>3 DEF CallStep, Goto, PC, Active, Calling
    <2> QED
      BY <1>1, <1>3, <2>1 DEF CallStep
  <1>4. CASE Enter(w, t) \/ SkipCompleted(w, t) \/ RetryLater(w, t) \/ Execute(w, t) \/ Wake(w, t)
    <2>1. \E place \in PC : Goto(w, t, place)
      BY <1>4 DEF Enter, SkipCompleted, RetryLater, Execute, Wake, PC, Active, Over, Calling
    <2>2. Writes1(attempt, attempt') /\ Writes1(outputs, outputs') /\ held' = held
      BY <1>2, <1>4 DEF Enter, SkipCompleted, RetryLater, Execute, Wake
    <2> QED
      BY <1>1, <2>1, <2>2
  <1>5. CASE Setup(w, t) \/ RunReturns(w, t) \/ CallbackRaises(w, t) \/ CompleteAttempt(w, t)
             \/ FailAttempt(w, t) \/ ResetAndTeardown(w, t) \/ Teardown(w, t)
    <2>1. \E place \in PC : Goto(w, t, place)
      BY <1>5 DEF Setup, RunReturns, CallbackRaises, CompleteAttempt, FailAttempt,
                  ResetAndTeardown, Teardown, PC, Active, Over, Calling
    <2>2. attempt' = attempt /\ Writes1(outputs, outputs') /\ Writes1(held, held')
      BY <1>2, <1>5 DEF Setup, RunReturns, CallbackRaises, CompleteAttempt, FailAttempt,
                        ResetAndTeardown, Teardown
    <2> QED
      BY <1>1, <2>1, <2>2
  <1>6. CASE LeaveNone(w, t) \/ ClaimLost(w, t) \/ RaisesUnrecorded(w, t)
             \/ ProgressRaises(w, t) \/ FailKillsServer(w, t)
    <2>1. \E place \in PC : Goto(w, t, place) \/ Raise(w, t, place)
      BY <1>6 DEF LeaveNone, ClaimLost, RaisesUnrecorded, ProgressRaises, FailKillsServer, PC, Over
    <2>2. attempt' = attempt /\ outputs' = outputs /\ held' = held
      BY <1>6 DEF LeaveNone, ClaimLost, RaisesUnrecorded, ProgressRaises, FailKillsServer
    <2> QED
      BY <1>1, <2>1, <2>2
  <1>7. CASE CallRaises(w, t) \/ ArriveLate(w, t)
    <2>1. \E place \in PC : Goto(w, t, place) \/ Raise(w, t, place)
      <3>1. CASE CallRaises(w, t)
        <4>1. LostAt(pc[w][t]) \in PC
          BY <3>1 DEF CallRaises, Calling, LostAt, PC, Over, Lost
        <4> QED
          BY <3>1, <4>1 DEF CallRaises
      <3>2. CASE ArriveLate(w, t)
        BY <3>2 DEF ArriveLate, PC, Over
      <3> QED
        BY <1>7, <3>1, <3>2
    <2>2. attempt' = attempt /\ outputs' = outputs /\ held' = held
      BY <1>7 DEF CallRaises, ArriveLate
    <2> QED
      BY <1>1, <2>1, <2>2
  <1> QED
    BY <1>3, <1>4, <1>5, <1>6, <1>7 DEF ThreadStep, Proceed, Answered, ThreadFault

-----------------------------------------------------------------------------
(* The store sees only the calls it is specified for *)

LEMMA CallsOfTheStore ==
    ASSUME ClaimInv, [HNext]_hvars
    PROVE  [Next]_vars
  <1> USE HarnessAssumption
  <1>1. ASSUME NEW w \in Worker, NEW t \in Task, pc[w][t] \in Holding,
               \/ Complete(ClaimOf(w, t))
               \/ \E error \in Error : Fail(ClaimOf(w, t), error)
               \/ \E error \in Error : FailAndCrash(ClaimOf(w, t), error)
        PROVE  Next
    BY <1>1 DEF ClaimInv, Next, Resolve
  <1>2. ASSUME NEW w \in Worker, NEW t \in Task,
               \/ BeginExhausted(t, RequestPolicy)
               \/ BeginExecute(w, t, RequestPolicy, DefaultLease)
               \/ BeginInsert(w, t, RequestPolicy, DefaultLease)
        PROVE  Next
    BY <1>2 DEF Next, Begin
  <1>3. ASSUME NEW w \in Worker, NEW t \in Task, ThreadStep(w, t)
        PROVE  [Next]_vars
    <2>1. CASE Enter(w, t) \/ SkipCompleted(w, t) \/ RetryLater(w, t) \/ Wake(w, t) \/ Setup(w, t)
               \/ RunReturns(w, t) \/ CallbackRaises(w, t) \/ ClaimLost(w, t)
               \/ ResetAndTeardown(w, t) \/ Teardown(w, t)
      BY <2>1 DEF Enter, SkipCompleted, RetryLater, Wake, Setup, RunReturns, CallbackRaises,
                  ClaimLost, ResetAndTeardown, Teardown
    <2>2. CASE LeaveNone(w, t) \/ Execute(w, t)
      BY <1>2, <2>2 DEF LeaveNone, Execute
    <2>3. CASE CompleteAttempt(w, t) \/ FailAttempt(w, t)
      BY <1>1, <2>3 DEF CompleteAttempt, FailAttempt, Holding
    <2> QED
      BY <1>3, <2>1, <2>2, <2>3 DEF ThreadStep, Proceed, Answered
  <1>4. ASSUME NEW w \in Worker, NEW t \in Task, ThreadFault(w, t)
        PROVE  [Next]_vars
    <2>1. CASE RaisesUnrecorded(w, t) \/ ProgressRaises(w, t) \/ CallRaises(w, t)
      BY <2>1 DEF RaisesUnrecorded, ProgressRaises, CallRaises
    <2>2. CASE FailKillsServer(w, t)
      BY <1>1, <2>2 DEF FailKillsServer, Holding
    <2>3. CASE ArriveLate(w, t)
      BY <1>1, <1>2, <2>3 DEF ArriveLate, Holding
    <2> QED
      BY <1>4, <2>1, <2>2, <2>3 DEF ThreadFault
  <1>5. ASSUME NEW w \in Worker, Crash(w)
        PROVE  [Next]_vars
    BY <1>5 DEF Crash
  <1>6. ASSUME NEW w \in Worker, NEW selection \in Selections, StartMap(w, selection)
        PROVE  [Next]_vars
    BY <1>6 DEF StartMap, Next
  <1>7. ASSUME NEW w \in Worker, NEW t \in Task, CallStep(w, t)
        PROVE  [Next]_vars
    BY <1>7 DEF CallStep
  <1>8. CASE Elapse
    BY <1>8 DEF Elapse, Next
  <1>9. CASE UNCHANGED hvars
    BY <1>9 DEF hvars
  <1> QED
    BY <1>3, <1>4, <1>5, <1>6, <1>7, <1>8, <1>9 DEF HNext, Start

\* No call of a client takes a claim back.
LEMMA ClaimsStay ==
    ASSUME [Next]_vars
    PROVE  claims \subseteq claims'
  <1>1. ASSUME NEW w \in Worker, NEW t \in Task, Begin(w, t)
        PROVE  claims \subseteq claims'
    BY <1>1 DEF Begin, BeginExhausted, BeginExecute, BeginInsert, Grant, GrantAs
  <1>2. ASSUME NEW c \in claims, Resolve(c)
        PROVE  claims \subseteq claims'
    BY <1>2 DEF Resolve, Complete, Fail, FailAndCrash, FailUpdate, FailUpdateAt
  <1>3. ASSUME NEW w \in Worker, NEW t \in Task, NEW lease \in Lease, Heartbeat(w, t, lease)
        PROVE  claims \subseteq claims'
    BY <1>3 DEF Heartbeat
  <1>4. ASSUME NEW digests \in SUBSET Task, RegisterDataset(digests)
        PROVE  claims \subseteq claims'
    BY <1>4 DEF RegisterDataset
  <1>5. CASE Tick \/ UNCHANGED vars
    BY <1>5 DEF Tick, vars
  <1> QED
    BY <1>1, <1>2, <1>3, <1>4, <1>5 DEF Next

LEMMA NextHTypeOK ==
    ASSUME TypeInv, HTypeOK, [HNext]_hvars
    PROVE  HTypeOK'
  <1>0. /\ kind \in Kinds
        /\ attempt \in [Worker -> [Task -> Nat]]
        /\ wake \in [Worker -> [Task -> Nat]]
        /\ outputs \in [Worker -> [Task -> Nat]]
        /\ held \in [Worker -> [Task -> BOOLEAN]]
        /\ \A t \in Task : /\ tasks[t].attempt \in Nat /\ tasks[t].attempt + 1 \in Nat
                           /\ tasks[t].output \in Nat /\ tasks[t].retry_at \in Nat
    BY DEF HTypeOK, TypeInv, TypeOK, TaskRow
  <1>1. ASSUME NEW w \in Worker, NEW t \in Task, ThreadStep(w, t)
        PROVE  HTypeOK'
    <2>1. pc' \in [Worker -> [Task -> PC]] /\ kind' = kind
      BY <1>1, ActingThread DEF ThreadStep
    <2>2. CASE SkipCompleted(w, t)
      <3>1. outputs' \in [Worker -> [Task -> Nat]] /\ UNCHANGED <<attempt, wake, held>>
        BY <1>0, <2>2 DEF SkipCompleted
      <3> QED
        BY <1>0, <2>1, <3>1 DEF HTypeOK
    <2>3. CASE RetryLater(w, t) \/ Execute(w, t)
      <3>1. /\ attempt' \in [Worker -> [Task -> Nat]] /\ wake' \in [Worker -> [Task -> Nat]]
            /\ UNCHANGED <<outputs, held>>
        <4>1. CASE RetryLater(w, t)
          BY <1>0, <4>1 DEF RetryLater
        <4>2. CASE Execute(w, t)
          BY <1>0, <4>2 DEF Execute
        <4> QED
          BY <2>3, <4>1, <4>2
      <3> QED
        BY <1>0, <2>1, <3>1 DEF HTypeOK
    <2>4. CASE CompleteAttempt(w, t)
      <3>1. attempt[w][t] \in Nat
        BY <1>0
      <3>2. outputs' \in [Worker -> [Task -> Nat]] /\ UNCHANGED <<attempt, wake, held>>
        BY <1>0, <2>4, <3>1 DEF CompleteAttempt
      <3> QED
        BY <1>0, <2>1, <3>2 DEF HTypeOK
    <2>5. CASE Setup(w, t) \/ ResetAndTeardown(w, t) \/ Teardown(w, t) \/ CallbackRaises(w, t)
      <3>1. PICK acquired \in BOOLEAN : held' = [held EXCEPT ![w][t] = acquired]
        <4>1. CASE Setup(w, t) \/ ResetAndTeardown(w, t) \/ Teardown(w, t)
          BY <4>1 DEF Setup, ResetAndTeardown, Teardown
        <4>2. CASE CallbackRaises(w, t)
          <5>1. held[w][t] \in BOOLEAN
            BY <1>0
          <5> QED
            BY <4>2, <5>1 DEF CallbackRaises
        <4> QED
          BY <2>5, <4>1, <4>2
      <3>2. held' \in [Worker -> [Task -> BOOLEAN]]
        BY <1>0, <3>1
      <3>3. UNCHANGED <<attempt, wake, outputs>>
        BY <2>5 DEF Setup, ResetAndTeardown, Teardown, CallbackRaises
      <3> QED
        BY <1>0, <2>1, <3>2, <3>3 DEF HTypeOK
    <2>6. CASE Enter(w, t) \/ LeaveNone(w, t) \/ Wake(w, t) \/ RunReturns(w, t)
               \/ FailAttempt(w, t) \/ ClaimLost(w, t)
      BY <1>0, <2>1, <2>6 DEF Enter, LeaveNone, Wake, RunReturns, FailAttempt, ClaimLost, HTypeOK
    <2> QED
      BY <1>1, <2>2, <2>3, <2>4, <2>5, <2>6 DEF ThreadStep, Proceed, Answered
  <1>2. ASSUME NEW w \in Worker, NEW t \in Task, ThreadFault(w, t), UNCHANGED kind
        PROVE  HTypeOK'
    BY <1>0, <1>2, ActingThread
    DEF ThreadFault, RaisesUnrecorded, ProgressRaises, FailKillsServer, CallRaises, ArriveLate,
        HTypeOK
  <1>3. ASSUME NEW w \in Worker, Crash(w), UNCHANGED kind
        PROVE  HTypeOK'
    BY <1>0, <1>3, CrashMoves DEF Crash, HTypeOK
  <1>4. ASSUME NEW w \in Worker, NEW selection \in Selections, StartMap(w, selection), UNCHANGED kind
        PROVE  HTypeOK'
    BY <1>0, <1>4, StartMoves DEF StartMap, HTypeOK
  <1>5. ASSUME NEW w \in Worker, NEW t \in Task, CallStep(w, t), UNCHANGED kind
        PROVE  HTypeOK'
    BY <1>0, <1>5, ActingThread DEF CallStep, HTypeOK
  <1>6. CASE Elapse \/ UNCHANGED hvars
    BY <1>6 DEF Elapse, clientVars, hvars, HTypeOK
  <1> QED
    BY <1>1, <1>2, <1>3, <1>4, <1>5, <1>6 DEF HNext, Start

LEMMA NextClaimInv ==
    ASSUME TypeInv, HTypeOK, ClaimInv, [HNext]_hvars
    PROVE  ClaimInv'
  <1>0. claims \subseteq claims'
    BY CallsOfTheStore, ClaimsStay
  <1>1. ASSUME NEW v \in Worker, NEW s \in Task, attempt'[v][s] = attempt[v][s],
               pc'[v][s] \in Holding => pc[v][s] \in Holding
        PROVE  pc'[v][s] \in Holding => ClaimOf(v, s)' \in claims'
    BY <1>0, <1>1 DEF ClaimInv, ClaimOf
  <1>2. ASSUME NEW v \in Worker, NEW s \in Task, Bystander(v, s)
        PROVE  pc'[v][s] \in Holding => pc[v][s] \in Holding
    BY <1>2 DEF Bystander, Calling, LostAt, Holding
  <1>3. ASSUME NEW w \in Worker, NEW t \in Task,
               ThreadStep(w, t) \/ ThreadFault(w, t) \/ CallStep(w, t)
        PROVE  ClaimInv'
    <2>1. \A v \in Worker, s \in Task : v # w \/ s # t =>
             Bystander(v, s) /\ attempt'[v][s] = attempt[v][s]
      BY <1>3, ActingThread
    <2>2. \A v \in Worker, s \in Task : v # w \/ s # t =>
             (pc'[v][s] \in Holding => ClaimOf(v, s)' \in claims')
      BY <1>1, <1>2, <2>1
    <2>3. SUFFICES pc'[w][t] \in Holding => ClaimOf(w, t)' \in claims'
      BY <2>2 DEF ClaimInv
    <2>4. pc \in [Worker -> [Task -> PC]] /\ attempt \in [Worker -> [Task -> Nat]]
      BY DEF HTypeOK
    <2>5. CASE Execute(w, t)
      <3>1. attempt'[w][t] = tasks[t].attempt + 1
        BY <2>4, <2>5 DEF Execute
      <3>2. Grant(w, t, RequestPolicy, DefaultLease)
        BY <2>5 DEF Execute, BeginExecute, BeginInsert
      <3> QED
        BY <3>1, <3>2 DEF Grant, GrantAs, ClaimOf
    <2>6. CASE CallStep(w, t) \/ Enter(w, t) \/ SkipCompleted(w, t) \/ RetryLater(w, t) \/ Wake(w, t)
      BY <2>4, <2>6 DEF CallStep, Enter, SkipCompleted, RetryLater, Wake, Goto, Holding
    <2>7. CASE Setup(w, t) \/ RunReturns(w, t) \/ CallbackRaises(w, t)
      <3>1. pc[w][t] \in Holding /\ attempt' = attempt
        BY <2>7 DEF Setup, RunReturns, CallbackRaises, Holding
      <3> QED
        BY <1>1, <3>1
    <2>8. CASE CompleteAttempt(w, t) \/ FailAttempt(w, t) \/ ResetAndTeardown(w, t) \/ Teardown(w, t)
      BY <2>4, <2>8 DEF CompleteAttempt, FailAttempt, ResetAndTeardown, Teardown, Goto, Holding
    <2>9. CASE LeaveNone(w, t) \/ ClaimLost(w, t) \/ RaisesUnrecorded(w, t)
               \/ ProgressRaises(w, t) \/ FailKillsServer(w, t)
      <3>1. Goto(w, t, "returned") \/ Raise(w, t, "raised")
        BY <2>9 DEF LeaveNone, ClaimLost, RaisesUnrecorded, ProgressRaises, FailKillsServer
      <3>2. pc'[w][t] \in {"returned", "raised"}
        BY <3>1, GotoMoves, RaiseMoves DEF PC, Over
      <3> QED
        BY <3>2 DEF Holding
    <2>10. CASE CallRaises(w, t)
      <3>1. LostAt(pc[w][t]) \in PC /\ (LostAt(pc[w][t]) \in Holding => pc[w][t] \in Holding)
        BY <2>10 DEF CallRaises, Calling, LostAt, PC, Over, Lost, Holding
      <3>2. pc'[w][t] = LostAt(pc[w][t]) /\ attempt' = attempt
        BY <2>10, <3>1, RaiseMoves DEF CallRaises
      <3> QED
        BY <1>1, <3>1, <3>2
    <2>11. CASE ArriveLate(w, t)
      BY <2>4, <2>11 DEF ArriveLate, Goto, Holding
    <2> QED
      BY <1>3, <2>5, <2>6, <2>7, <2>8, <2>9, <2>10, <2>11
      DEF ThreadStep, Proceed, Answered, ThreadFault
  <1>4. ASSUME NEW w \in Worker, Crash(w)
        PROVE  ClaimInv'
    <2>1. \A v \in Worker, s \in Task : Bystander(v, s) /\ attempt'[v][s] = attempt[v][s]
      BY <1>4, CrashMoves DEF Crash
    <2> QED
      BY <1>1, <1>2, <2>1 DEF ClaimInv
  <1>5. ASSUME NEW w \in Worker, NEW selection \in Selections, StartMap(w, selection)
        PROVE  ClaimInv'
    <2>1. \A v \in Worker, s \in Task :
             /\ attempt'[v][s] = attempt[v][s]
             /\ pc'[v][s] \in Holding => pc[v][s] \in Holding
      BY <1>5, StartMoves DEF StartMap, Holding
    <2> QED
      BY <1>1, <2>1 DEF ClaimInv
  <1>6. CASE Elapse \/ UNCHANGED hvars
    <2>1. pc' = pc /\ attempt' = attempt
      BY <1>6 DEF Elapse, clientVars, hvars
    <2> QED
      BY <1>1, <2>1 DEF ClaimInv
  <1> QED
    BY <1>3, <1>4, <1>5, <1>6 DEF HNext, Start

HarnessInv == TypeInv /\ HTypeOK /\ ClaimInv

LEMMA HarnessInvariant == HSpec => []HarnessInv
  <1>1. HInit => HarnessInv
    <2> SUFFICES ASSUME HInit PROVE HarnessInv
      OBVIOUS
    <2>1. TypeInv
      BY InitTypeInv DEF HInit
    <2>2. HTypeOK
      BY DEF HInit, HTypeOK, PerThread, PC, NoAttempt, NoStamp, None, NoOutput
    <2>3. ClaimInv
      BY DEF HInit, ClaimInv, PerThread, Holding
    <2> QED
      BY <2>1, <2>2, <2>3 DEF HarnessInv
  <1>2. HarnessInv /\ [HNext]_hvars => HarnessInv'
    BY CallsOfTheStore, NextTypeInv, NextHTypeOK, NextClaimInv DEF HarnessInv
  <1> QED
    BY <1>1, <1>2, PTL DEF HSpec

\* Every variable of the clients keeps its type.
THEOREM HarnessTypes == HSpec => []HTypeOK
  <1>1. HarnessInv => HTypeOK
    BY DEF HarnessInv
  <1> QED
    BY <1>1, HarnessInvariant, PTL

\* Harnesses use the store only as TaskStore says its clients do: late requests
\* and those of killed runs carry claims that begin handed out.  So every theorem
\* about the store holds of them.
THEOREM HarnessImplementsStore == HSpec => Spec
  <1>1. HInit => Init
    BY DEF HInit
  <1>2. HarnessInv /\ [HNext]_hvars => [Next]_vars
    BY CallsOfTheStore DEF HarnessInv
  <1> QED
    BY <1>1, <1>2, HarnessInvariant, PTL DEF HSpec, Spec

\* Whatever harnesses do, lose or send late, a task is started, finished with the
\* output of its last attempt or given up, once: DurableTask, for which all that a
\* run does is a step of it or leaves it unchanged.
THEOREM HarnessesImplementDurableTask == HSpec => ImplementsDurableTask
  <1>1. Spec => ImplementsDurableTask
    BY StoreImplementsDurableTask, HarnessAssumption
  <1> QED
    BY <1>1, HarnessImplementsStore, PTL

-----------------------------------------------------------------------------
(* What runs report *)

\* Every output that a run reports is, and stays, the one that the store keeps.
THEOREM ReportedOutputsAreStored == HSpec => []ReportedOutputIsStored
  <1> DEFINE Final == \A t \in Task : tasks[t].status \in Resolved =>
                         /\ tasks'[t].status = tasks[t].status
                         /\ tasks'[t].attempt = tasks[t].attempt
                         /\ tasks'[t].output = tasks[t].output
             Stored(v, s) == outputs[v][s] # None =>
                 tasks[s].status = "succeeded" /\ tasks[s].output = outputs[v][s]
  <1>1. HInit => ReportedOutputIsStored
    BY DEF HInit, PerThread, ReportedOutputIsStored
  <1>2. ASSUME HarnessInv, ReportedOutputIsStored, [HNext]_hvars, [Final]_vars
        PROVE  ReportedOutputIsStored'
    <2>0. /\ HTypeOK /\ TypeInv /\ ClaimInv
          /\ outputs \in [Worker -> [Task -> Nat]]
          /\ \A v \in Worker, s \in Task : Stored(v, s)
      BY <1>2 DEF HarnessInv, HTypeOK, ReportedOutputIsStored
    <2>1. \A s \in Task : tasks[s].status = "succeeded" =>
             tasks'[s].status = "succeeded" /\ tasks'[s].output = tasks[s].output
      BY <1>2 DEF vars, Resolved
    <2>2. \A v \in Worker, s \in Task : outputs'[v][s] = outputs[v][s] => Stored(v, s)'
      BY <2>0, <2>1
    <2>3. CASE outputs' = outputs
      BY <2>2, <2>3 DEF ReportedOutputIsStored
    <2>4. ASSUME NEW w \in Worker, NEW t \in Task, SkipCompleted(w, t)
          PROVE  ReportedOutputIsStored'
      <3>1. /\ outputs' = [outputs EXCEPT ![w][t] = tasks[t].output]
            /\ tasks' = tasks /\ tasks[t].status = "succeeded"
        BY <2>4 DEF SkipCompleted, SkipsCompleted, vars
      <3>2. \A v \in Worker, s \in Task : Stored(v, s)'
        BY <2>0, <2>2, <3>1
      <3> QED
        BY <3>2 DEF ReportedOutputIsStored
    <2>5. ASSUME NEW w \in Worker, NEW t \in Task, CompleteAttempt(w, t)
          PROVE  ReportedOutputIsStored'
      <3>1. /\ outputs' = [outputs EXCEPT ![w][t] = attempt[w][t]]
            /\ Complete(ClaimOf(w, t)) /\ ClaimOf(w, t) \in claims
            /\ ClaimOf(w, t).task = t /\ ClaimOf(w, t).attempt = attempt[w][t]
        BY <2>0, <2>5 DEF CompleteAttempt, ClaimInv, ClaimOf, Holding
      <3>2. PICK row : /\ Writes(t, row) /\ RowInv(row)
                       /\ row.status = "succeeded" /\ row.output = attempt[w][t]
        BY <2>0, <3>1, CompleteWrites
      <3>3. tasks'[t].status = "succeeded" /\ tasks'[t].output = attempt[w][t]
        BY <2>0, <3>2, WriteKeepsTypes
      <3>4. \A v \in Worker, s \in Task : Stored(v, s)'
        BY <2>0, <2>2, <3>1, <3>3
      <3> QED
        BY <3>4 DEF ReportedOutputIsStored
    <2>6. ASSUME NEW w \in Worker, NEW t \in Task, ThreadStep(w, t)
          PROVE  outputs' = outputs \/ SkipCompleted(w, t) \/ CompleteAttempt(w, t)
      BY <2>6 DEF ThreadStep, Proceed, Answered, Enter, LeaveNone, RetryLater, Execute, Wake, Setup,
                  RunReturns, CallbackRaises, FailAttempt, ClaimLost, ResetAndTeardown, Teardown
    <2>7. ASSUME NEW w \in Worker, NEW t \in Task, ThreadFault(w, t) \/ CallStep(w, t)
          PROVE  outputs' = outputs
      BY <2>7 DEF ThreadFault, RaisesUnrecorded, ProgressRaises, FailKillsServer, CallRaises,
                  ArriveLate, CallStep
    <2>8. ASSUME NEW w \in Worker, Crash(w) \/ \E selection \in Selections : StartMap(w, selection)
          PROVE  outputs' = outputs
      BY <2>8 DEF Crash, StartMap
    <2>9. CASE Elapse \/ UNCHANGED hvars
      BY <2>3, <2>9 DEF Elapse, clientVars, hvars
    <2> QED
      BY <1>2, <2>3, <2>4, <2>5, <2>6, <2>7, <2>8, <2>9 DEF HNext, Start
  <1>3. HSpec => [][Final]_vars
    BY HarnessImplementsStore, ResolvedTasksAreFinal, PTL DEF ResolvedIsFinal
  <1> HIDE DEF Final
  <1> QED
    BY <1>1, <1>2, <1>3, HarnessInvariant, PTL DEF HSpec

-----------------------------------------------------------------------------
(* What runs hold *)

\* Only maps have hooks, and a thread holds an environment only between its setup
\* and its teardown, or where an exception has left it.
EnvironmentInv ==
    \A w \in Worker, t \in Task :
        /\ held[w][t] =>
              /\ kind # "step"
              /\ pc[w][t] \notin {"idle", "queued", "begin", "sleep", "setup", "returned"}
        /\ pc[w][t] \in {"setup", "cleanup", "done"} => kind # "step"

LEMMA NextEnvironmentInv ==
    ASSUME HarnessInv, EnvironmentInv, [HNext]_hvars
    PROVE  EnvironmentInv'
  <1> DEFINE Fine(v, s) ==
        /\ held[v][s] =>
              /\ kind # "step"
              /\ pc[v][s] \notin {"idle", "queued", "begin", "sleep", "setup", "returned"}
        /\ pc[v][s] \in {"setup", "cleanup", "done"} => kind # "step"
  <1>0. /\ HTypeOK /\ kind' = kind /\ kind \in {"loop", "pool", "step"}
        /\ pc \in [Worker -> [Task -> PC]] /\ held \in [Worker -> [Task -> BOOLEAN]]
    BY HarnessAssumption DEF HarnessInv, HTypeOK, HNext, ThreadStep, Elapse, clientVars, hvars
  <1>1. \A v \in Worker, s \in Task : Fine(v, s)
    BY DEF EnvironmentInv
  <1>2. ASSUME NEW v \in Worker, NEW s \in Task, Bystander(v, s), held'[v][s] = held[v][s]
        PROVE  Fine(v, s)'
    BY <1>0, <1>1, <1>2 DEF Bystander, Calling, LostAt
  <1>3. ASSUME NEW w \in Worker, NEW t \in Task,
               ThreadStep(w, t) \/ ThreadFault(w, t) \/ CallStep(w, t)
        PROVE  EnvironmentInv'
    <2>1. \A v \in Worker, s \in Task : v # w \/ s # t => Fine(v, s)'
      BY <1>0, <1>2, <1>3, ActingThread
    <2>2. SUFFICES Fine(w, t)'
      BY <2>1 DEF EnvironmentInv
    <2>3. CASE Setup(w, t) \/ ResetAndTeardown(w, t) \/ Teardown(w, t)
      BY <1>0, <1>1, <2>3 DEF Setup, ResetAndTeardown, Teardown, Goto
    <2>4. CASE CallbackRaises(w, t)
      <3>1. pc[w][t] \in {"setup", "run"} /\ pc'[w][t] = "fail"
        BY <1>0, <2>4 DEF CallbackRaises, Goto
      <3>2. held'[w][t] => held[w][t] \/ pc[w][t] = "setup"
        BY <1>0, <2>4 DEF CallbackRaises
      <3> QED
        BY <1>0, <1>1, <3>1, <3>2
    <2>5. CASE Enter(w, t) \/ SkipCompleted(w, t) \/ RetryLater(w, t) \/ Wake(w, t)
               \/ RunReturns(w, t) \/ CallStep(w, t)
      BY <1>0, <1>1, <2>5 DEF Enter, SkipCompleted, RetryLater, Wake, RunReturns, CallStep, Goto
    <2>6. CASE Execute(w, t)
      BY <1>0, <1>1, <2>6 DEF Execute, Goto
    <2>7. CASE CompleteAttempt(w, t) \/ FailAttempt(w, t)
      BY <1>0, <1>1, <2>7 DEF CompleteAttempt, FailAttempt, Goto
    <2>8. CASE LeaveNone(w, t)
      <3>1. held' = held /\ ~held[w][t]
        BY <1>1, <2>8 DEF LeaveNone
      <3>2. Goto(w, t, "returned") \/ Raise(w, t, "raised")
        BY <2>8 DEF LeaveNone
      <3>3. pc'[w][t] \in {"returned", "raised"}
        BY <1>0, <3>2, GotoMoves, RaiseMoves DEF PC, Over
      <3> QED
        BY <3>1, <3>3
    <2>9. CASE ClaimLost(w, t) \/ RaisesUnrecorded(w, t) \/ ProgressRaises(w, t) \/ FailKillsServer(w, t)
      <3>1. held' = held /\ Raise(w, t, "raised")
        BY <2>9 DEF ClaimLost, RaisesUnrecorded, ProgressRaises, FailKillsServer
      <3>2. pc'[w][t] = "raised"
        BY <1>0, <3>1, RaiseMoves DEF PC, Over
      <3> QED
        BY <1>0, <1>1, <3>1, <3>2
    <2>10. CASE CallRaises(w, t)
      <3>1. LostAt(pc[w][t]) \in Lost /\ Lost \subseteq PC
        BY <2>10 DEF CallRaises, Calling, LostAt, PC, Over, Lost
      <3>2. pc'[w][t] \in Lost /\ held' = held
        BY <1>0, <2>10, <3>1, RaiseMoves DEF CallRaises
      <3> QED
        BY <1>0, <1>1, <3>2 DEF Lost
    <2>11. CASE ArriveLate(w, t)
      BY <1>0, <1>1, <2>11 DEF ArriveLate, Goto
    <2> QED
      BY <1>3, <2>3, <2>4, <2>5, <2>6, <2>7, <2>8, <2>9, <2>10, <2>11
      DEF ThreadStep, Proceed, Answered, ThreadFault
  <1>4. ASSUME NEW w \in Worker, Crash(w)
        PROVE  EnvironmentInv'
    <2>1. \A v \in Worker, s \in Task : Bystander(v, s) /\ held'[v][s] = held[v][s]
      BY <1>0, <1>4, CrashMoves DEF Crash
    <2> QED
      BY <1>2, <2>1 DEF EnvironmentInv
  <1>5. ASSUME NEW w \in Worker, NEW selection \in Selections, StartMap(w, selection)
        PROVE  EnvironmentInv'
    <2>1. held' = held /\ \A v \in Worker, s \in Task :
             \/ pc'[v][s] = pc[v][s]
             \/ pc[v][s] = "idle" /\ pc'[v][s] \in {"queued", "dropped"}
      BY <1>0, <1>5, StartMoves DEF StartMap
    <2> QED
      BY <1>0, <1>1, <2>1 DEF EnvironmentInv
  <1>6. CASE Elapse \/ UNCHANGED hvars
    BY <1>6 DEF Elapse, clientVars, hvars, EnvironmentInv
  <1> QED
    BY <1>3, <1>4, <1>5, <1>6 DEF HNext, Start

\* What setup acquired is released before the thread begins again or returns.
THEOREM EnvironmentsAreReleased == HSpec => []EnvironmentReleased
  <1>1. HInit => EnvironmentInv
    BY DEF HInit, PerThread, EnvironmentInv
  <1>2. EnvironmentInv => EnvironmentReleased
    BY DEF EnvironmentInv, EnvironmentReleased
  <1> QED
    BY <1>1, <1>2, NextEnvironmentInv, HarnessInvariant, PTL DEF HSpec

-----------------------------------------------------------------------------
(* What a None means *)

\* A row runs an attempt when it did before or by starting the next one; the output
\* of a task is that of a claim.
LEMMA RowSteps ==
    ASSUME TypeInv, [Next]_vars, NEW t \in Task
    PROVE  /\ tasks'[t].status = "running" =>
                 \/ tasks[t].status = "running" /\ tasks'[t].attempt = tasks[t].attempt
                 \/ tasks'[t].attempt = tasks[t].attempt + 1
           /\ tasks'[t].status = "succeeded" =>
                 \/ tasks[t].status = "succeeded" /\ tasks'[t].output = tasks[t].output
                 \/ \E c \in claims : tasks'[t].output = c.attempt
  <1> DEFINE Steps(old, new) ==
        /\ new.status = "running" =>
              \/ old.status = "running" /\ new.attempt = old.attempt
              \/ new.attempt = old.attempt + 1
        /\ new.status = "succeeded" =>
              \/ old.status = "succeeded" /\ new.output = old.output
              \/ \E c \in claims : new.output = c.attempt
  <1> SUFFICES Steps(tasks[t], tasks'[t])
    OBVIOUS
  <1>1. ASSUME NEW s \in Task, NEW row, Writes(s, row), RowInv(row), Steps(tasks[s], row)
        PROVE  Steps(tasks[t], tasks'[t])
    <2>1. tasks'[t] = IF t = s THEN row ELSE tasks[t]
      BY <1>1, WriteKeepsTypes
    <2> QED
      BY <1>1, <2>1
  <1>2. ASSUME NEW s \in Task, NEW policy \in Policy, BeginExhausted(s, policy)
        PROVE  Steps(tasks[t], tasks'[t])
    <2>1. PICK row : Writes(s, row) /\ RowInv(row) /\ row.status = "terminal"
      BY <1>2, ExhaustedWrites
    <2> QED
      BY <1>1, <2>1
  <1>3. ASSUME NEW w \in Worker, NEW s \in Task, NEW policy \in Policy, NEW lease \in Lease,
               BeginExecute(w, s, policy, lease) \/ BeginInsert(w, s, policy, lease)
        PROVE  Steps(tasks[t], tasks'[t])
    <2>1. PICK row : /\ Writes(s, row) /\ RowInv(row)
                     /\ row.status = "running" /\ row.attempt = tasks[s].attempt + 1
      BY <1>3, BeginWrites, GrantWrites
    <2> QED
      BY <1>1, <2>1
  <1>4. ASSUME NEW c \in claims, Complete(c)
        PROVE  Steps(tasks[t], tasks'[t])
    <2>1. PICK row : /\ Writes(c.task, row) /\ RowInv(row)
                     /\ row.status = "succeeded" /\ row.output = c.attempt
      BY <1>4, CompleteWrites
    <2>2. c.task \in Task
      BY <1>4, CompleteWrites
    <2> QED
      BY <1>1, <2>1, <2>2
  <1>5. ASSUME NEW c \in claims, NEW error \in Error, FailUpdate(c, error)
        PROVE  Steps(tasks[t], tasks'[t])
    <2>1. PICK row : Writes(c.task, row) /\ RowInv(row) /\ row.status \in {"failed", "terminal"}
      BY <1>5, FailWrites
    <2>2. c.task \in Task
      BY <1>5, FailWrites
    <2> QED
      BY <1>1, <2>1, <2>2
  <1>6. ASSUME NEW w \in Worker, NEW s \in Task, NEW lease \in Lease, Heartbeat(w, s, lease)
        PROVE  Steps(tasks[t], tasks'[t])
    <2>1. PICK row : /\ Writes(s, row) /\ RowInv(row)
                     /\ row.status = "running" /\ row.attempt = tasks[s].attempt
      BY <1>6, HeartbeatWrites
    <2>2. tasks[s].status = "running"
      BY <1>6, HeartbeatWrites
    <2> QED
      BY <1>1, <2>1, <2>2
  <1>7. ASSUME NEW digests \in SUBSET Task, RegisterDataset(digests)
        PROVE  Steps(tasks[t], tasks'[t])
    BY <1>7, RegisterWrites
  <1>8. CASE Tick \/ UNCHANGED vars
    BY <1>8 DEF Tick, vars
  <1> QED
    BY <1>2, <1>3, <1>4, <1>5, <1>6, <1>7, <1>8 DEF Next, Begin, Resolve, Fail, FailAndCrash

\* The attempt of the claim is the one that is running.
Open(c) == tasks[c.task].status = "running" /\ tasks[c.task].attempt = c.attempt

\* An attempt that is over stays over: begin only starts new ones.
LEMMA OverStaysOver ==
    ASSUME TypeInv, AttemptGrantedOnce, [Next]_vars, NEW c \in claims, Open(c)'
    PROVE  Open(c)
  <1>1. c.task \in Task /\ tasks[c.task].attempt \in Nat
    BY DEF TypeInv, TypeOK, Claim, TaskRow
  <1>2. c.attempt \in 1..tasks[c.task].attempt
    <2>1. c.attempt \in {d.attempt : d \in {e \in claims : e.task = c.task}}
      OBVIOUS
    <2> QED
      BY <1>1, <2>1 DEF AttemptGrantedOnce
  <1> QED
    BY <1>1, <1>2, RowSteps DEF Open

\* A thread that waits to begin, or is through, has no attempt running.
RestInv ==
    \A w \in Worker, t \in Task : pc[w][t] \in AtRest =>
        \A c \in claims : c.task = t /\ c.worker = w => ~Open(c)

\* An output is the number of an attempt, so never None.
OutputInv ==
    /\ \A t \in Task : tasks[t].status = "succeeded" => tasks[t].output # None
    /\ \A w \in Worker, t \in Task : pc[w][t] = "done" => outputs[w][t] # None

\* The claims of a thread are the ones it asked for.
LEMMA OwnClaims ==
    ASSUME HTypeOK, [HNext]_hvars, NEW c \in claims' \ claims
    PROVE  /\ c.worker \in Worker /\ c.task \in Task
           /\ pc'[c.worker][c.task] \notin AtRest
  <1>0. pc \in [Worker -> [Task -> PC]]
    BY DEF HTypeOK
  <1>1. ASSUME NEW w \in Worker, NEW t \in Task, NEW place \in {"setup", "run", "arrived"},
               Goto(w, t, place), claims' # claims,
               \/ BeginExhausted(t, RequestPolicy)
               \/ BeginExecute(w, t, RequestPolicy, DefaultLease)
               \/ BeginInsert(w, t, RequestPolicy, DefaultLease)
        PROVE  c.worker \in Worker /\ c.task \in Task /\ pc'[c.worker][c.task] \notin AtRest
    <2>1. Grant(w, t, RequestPolicy, DefaultLease)
      BY <1>1 DEF BeginExhausted, BeginExecute, BeginInsert
    <2>2. c.worker = w /\ c.task = t
      BY <2>1 DEF Grant, GrantAs
    <2>3. pc'[w][t] = place
      BY <1>0, <1>1 DEF Goto
    <2> QED
      BY <1>1, <2>2, <2>3 DEF AtRest
  <1>2. ASSUME NEW w \in Worker, NEW t \in Task, ThreadStep(w, t), claims' # claims
        PROVE  Execute(w, t)
    BY <1>2 DEF ThreadStep, Proceed, Answered, Enter, SkipCompleted, LeaveNone, RetryLater, Wake,
                Setup, RunReturns, CallbackRaises, CompleteAttempt, FailAttempt, ClaimLost,
                ResetAndTeardown, Teardown, vars, BeginExhausted, Complete, Fail, FailUpdate,
                FailUpdateAt
  <1>3. ASSUME NEW w \in Worker, NEW t \in Task, ThreadFault(w, t), claims' # claims
        PROVE  /\ ArriveLate(w, t)
               /\ \/ BeginExecute(w, t, RequestPolicy, DefaultLease)
                  \/ BeginInsert(w, t, RequestPolicy, DefaultLease)
    BY <1>3 DEF ThreadFault, RaisesUnrecorded, ProgressRaises, FailKillsServer, CallRaises,
                ArriveLate, vars, BeginExhausted, Complete, Fail, FailAndCrash, FailUpdate,
                FailUpdateAt
  <1>4. ASSUME \/ \E w \in Worker : Crash(w)
               \/ \E w \in Worker, selection \in Selections : StartMap(w, selection)
               \/ \E w \in Worker, t \in Task : CallStep(w, t)
               \/ Elapse
               \/ UNCHANGED hvars
        PROVE  claims' = claims
    BY <1>4 DEF Crash, StartMap, CallStep, Elapse, Tick, RegisterDataset, hvars, vars
  <1>5. claims' # claims
    OBVIOUS
  <1> QED
    BY <1>1, <1>2, <1>3, <1>4, <1>5 DEF HNext, Start, Execute, ArriveLate

\* Threads that stand still, or are stopped, neither come to rest nor lose a result.
LEMMA OnlyActingThreadsMove ==
    ASSUME HTypeOK, [HNext]_hvars, NEW v \in Worker, NEW s \in Task
    PROVE  \/ ThreadStep(v, s) \/ ThreadFault(v, s) \/ CallStep(v, s)
           \/ /\ outputs'[v][s] = outputs[v][s]
              /\ \/ pc'[v][s] = pc[v][s]
                 \/ pc[v][s] = "idle" /\ pc'[v][s] = "queued"
                 \/ pc'[v][s] \in Lost \cup {"dropped", "dead"}
  <1>1. ASSUME Bystander(v, s)
        PROVE  pc'[v][s] = pc[v][s] \/ pc'[v][s] \in Lost \cup {"dropped", "dead"}
    BY <1>1 DEF Bystander, Calling, LostAt, Lost
  <1>2. ASSUME NEW w \in Worker, NEW t \in Task,
               ThreadStep(w, t) \/ ThreadFault(w, t) \/ CallStep(w, t),
               ~(ThreadStep(v, s) \/ ThreadFault(v, s) \/ CallStep(v, s))
        PROVE  Bystander(v, s) /\ outputs'[v][s] = outputs[v][s]
    BY <1>2, ActingThread
  <1>3. ASSUME NEW w \in Worker, Crash(w)
        PROVE  Bystander(v, s) /\ outputs'[v][s] = outputs[v][s]
    BY <1>3, CrashMoves DEF Crash
  <1>4. ASSUME NEW w \in Worker, NEW selection \in Selections, StartMap(w, selection)
        PROVE  /\ outputs'[v][s] = outputs[v][s]
               /\ \/ pc'[v][s] = pc[v][s]
                  \/ pc[v][s] = "idle" /\ pc'[v][s] \in {"queued", "dropped"}
    BY <1>4, StartMoves DEF StartMap
  <1>5. CASE Elapse \/ UNCHANGED hvars
    BY <1>5 DEF Elapse, clientVars, hvars
  <1> QED
    BY <1>1, <1>2, <1>3, <1>4, <1>5 DEF HNext, Start

\* A thread that acts is at rest because it was already or because its attempt is
\* over, and returns with an output unless it was left None.
LEMMA ActingThreadMoves ==
    ASSUME HTypeOK, ClaimInv, TypeInv, OutputInv, NEW w \in Worker, NEW t \in Task,
           ThreadStep(w, t) \/ ThreadFault(w, t) \/ CallStep(w, t)
    PROVE  /\ pc'[w][t] \in AtRest =>
                 pc[w][t] \in AtRest \/ FailAttempt(w, t) \/ CompleteAttempt(w, t)
           /\ pc'[w][t] = "done" => outputs'[w][t] # None
           /\ pc'[w][t] = "returned" => outputs'[w][t] # None \/ LeaveNone(w, t)
  <1>0. /\ pc \in [Worker -> [Task -> PC]]
        /\ outputs \in [Worker -> [Task -> Nat]]
    BY DEF HTypeOK
  <1>1. CASE SkipCompleted(w, t)
    <2>1. outputs'[w][t] = tasks[t].output /\ tasks[t].output # None
      BY <1>0, <1>1 DEF SkipCompleted, SkipsCompleted, OutputInv
    <2>2. pc'[w][t] = "returned"
      BY <1>0, <1>1 DEF SkipCompleted, Goto
    <2> QED
      BY <1>1, <2>1, <2>2 DEF SkipCompleted, AtRest
  <1>2. CASE CompleteAttempt(w, t)
    <2>1. outputs'[w][t] = attempt[w][t]
      BY <1>0, <1>2 DEF CompleteAttempt
    <2>2. ClaimOf(w, t) \in claims /\ claims \subseteq Claim
      BY <1>2 DEF CompleteAttempt, ClaimInv, Holding, TypeInv, TypeOK
    <2>3. attempt[w][t] \in Nat \ {0}
      BY <2>2 DEF ClaimOf, Claim
    <2>4. pc'[w][t] \in {"returned", "done"}
      BY <1>0, <1>2 DEF CompleteAttempt, Goto
    <2> QED
      BY <1>2, <2>1, <2>3, <2>4 DEF None, NoOutput
  <1>3. CASE Teardown(w, t)
    <2>1. outputs'[w][t] = outputs[w][t] /\ outputs[w][t] # None
      BY <1>3 DEF Teardown, OutputInv
    <2>2. pc'[w][t] = "returned"
      BY <1>0, <1>3 DEF Teardown, Goto
    <2> QED
      BY <1>3, <2>1, <2>2 DEF Teardown, AtRest
  <1>4. CASE LeaveNone(w, t)
    <2>1. Goto(w, t, "returned") \/ Raise(w, t, "raised")
      BY <1>4 DEF LeaveNone
    <2>2. pc'[w][t] \in {"returned", "raised"}
      BY <2>1, GotoMoves, RaiseMoves DEF PC, Over
    <2> QED
      BY <1>4, <2>2 DEF LeaveNone, AtRest
  <1>5. CASE CallStep(w, t) \/ Enter(w, t) \/ RetryLater(w, t) \/ Wake(w, t)
             \/ ResetAndTeardown(w, t)
    <2>1. pc[w][t] \in AtRest /\ pc'[w][t] \in {"begin", "sleep"}
      BY <1>0, <1>5
      DEF CallStep, Enter, RetryLater, Wake, ResetAndTeardown, Goto, AtRest
    <2> QED
      BY <2>1 DEF AtRest
  <1>6. CASE Execute(w, t) \/ Setup(w, t) \/ RunReturns(w, t) \/ CallbackRaises(w, t)
             \/ ArriveLate(w, t)
    <2>1. pc'[w][t] \in {"setup", "run", "complete", "fail", "arrived"}
      <3>1. CASE Execute(w, t)
        BY <1>0, <3>1 DEF Execute, Goto
      <3> QED
        BY <1>0, <1>6, <3>1 DEF Setup, RunReturns, CallbackRaises, ArriveLate, Goto
    <2> QED
      BY <2>1 DEF AtRest
  <1>7. CASE FailAttempt(w, t)
    <2>1. pc'[w][t] \in {"begin", "cleanup"}
      BY <1>0, <1>7 DEF FailAttempt, Goto
    <2> QED
      BY <1>7, <2>1
  <1>8. CASE ClaimLost(w, t) \/ RaisesUnrecorded(w, t) \/ ProgressRaises(w, t) \/ FailKillsServer(w, t)
    <2>1. Raise(w, t, "raised")
      BY <1>8 DEF ClaimLost, RaisesUnrecorded, ProgressRaises, FailKillsServer
    <2>2. pc'[w][t] = "raised"
      BY <2>1, RaiseMoves DEF PC, Over
    <2> QED
      BY <2>2 DEF AtRest
  <1>9. CASE CallRaises(w, t)
    <2>1. LostAt(pc[w][t]) \in Lost /\ Lost \subseteq PC
      BY <1>9 DEF CallRaises, Calling, LostAt, PC, Over, Lost
    <2>2. pc'[w][t] \in Lost
      BY <1>9, <2>1, RaiseMoves DEF CallRaises
    <2> QED
      BY <2>2 DEF AtRest, Lost
  <1> QED
    BY <1>1, <1>2, <1>3, <1>4, <1>5, <1>6, <1>7, <1>8, <1>9
    DEF ThreadStep, Proceed, Answered, ThreadFault

NoneInv == RestInv /\ OutputInv /\ NoneIsExplained

LEMMA NextNoneInv ==
    ASSUME HarnessInv, TypeInv', AttemptGrantedOnce, NoneInv, [HNext]_hvars,
           \A t \in Task : tasks[t].status \in Resolved => tasks'[t].status = tasks[t].status
    PROVE  NoneInv'
  <1>0. TypeInv /\ HTypeOK /\ ClaimInv /\ RestInv /\ OutputInv /\ NoneIsExplained
    BY DEF HarnessInv, NoneInv
  <1>1. [Next]_vars /\ claims \subseteq claims' /\ claims' \in SUBSET Claim
    BY <1>0, CallsOfTheStore, ClaimsStay DEF TypeInv, TypeOK
  <1>2. RestInv'
    <2> SUFFICES ASSUME NEW v \in Worker, NEW s \in Task, pc'[v][s] \in AtRest,
                        NEW c \in claims', c.task = s, c.worker = v
                 PROVE  ~Open(c)'
      BY DEF RestInv
    <2>1. c \in claims
      BY <1>0, OwnClaims
    <2>2. CASE pc[v][s] \in AtRest
      BY <1>0, <1>1, <2>1, <2>2, OverStaysOver DEF RestInv
    <2>3. CASE FailAttempt(v, s)
      <3>1. PICK error \in Error : FailUpdate(ClaimOf(v, s), error)
        BY <2>3 DEF FailAttempt, Fail
      <3>2. ClaimOf(v, s) \in claims /\ ClaimOf(v, s).task = s
        BY <1>0, <2>3 DEF FailAttempt, ClaimInv, ClaimOf, Holding
      <3>3. PICK row : Writes(s, row) /\ RowInv(row) /\ row.status \in {"failed", "terminal"}
        BY <1>0, <3>1, <3>2, FailWrites
      <3>4. tasks'[s].status \in {"failed", "terminal"}
        BY <1>0, <3>3, WriteKeepsTypes
      <3> QED
        BY <3>4 DEF Open
    <2>4. CASE CompleteAttempt(v, s)
      <3>1. Complete(ClaimOf(v, s)) /\ ClaimOf(v, s) \in claims /\ ClaimOf(v, s).task = s
        BY <1>0, <2>4 DEF CompleteAttempt, ClaimInv, ClaimOf, Holding
      <3>2. PICK row : Writes(s, row) /\ RowInv(row) /\ row.status = "succeeded"
        BY <1>0, <3>1, CompleteWrites
      <3>3. tasks'[s].status = "succeeded"
        BY <1>0, <3>2, WriteKeepsTypes
      <3> QED
        BY <3>3 DEF Open
    <2>5. pc[v][s] \in AtRest \/ FailAttempt(v, s) \/ CompleteAttempt(v, s)
      <3>1. CASE ThreadStep(v, s) \/ ThreadFault(v, s) \/ CallStep(v, s)
        BY <1>0, <3>1, ActingThreadMoves
      <3>2. CASE \/ pc'[v][s] = pc[v][s]
                 \/ pc[v][s] = "idle" /\ pc'[v][s] = "queued"
                 \/ pc'[v][s] \in Lost \cup {"dropped", "dead"}
        BY <3>2 DEF AtRest, Lost
      <3> QED
        BY <1>0, <3>1, <3>2, OnlyActingThreadsMove
    <2> QED
      BY <2>2, <2>3, <2>4, <2>5
  <1>3. OutputInv'
    <2>1. ASSUME NEW t \in Task, tasks'[t].status = "succeeded"
          PROVE  tasks'[t].output # None
      <3>1. \A c \in claims : c.attempt # 0
        BY <1>0 DEF TypeInv, TypeOK, Claim
      <3> QED
        BY <1>0, <1>1, <2>1, <3>1, RowSteps DEF OutputInv, None, NoOutput
    <2>2. ASSUME NEW v \in Worker, NEW s \in Task, pc'[v][s] = "done"
          PROVE  outputs'[v][s] # None
      <3>1. CASE ThreadStep(v, s) \/ ThreadFault(v, s) \/ CallStep(v, s)
        BY <1>0, <2>2, <3>1, ActingThreadMoves
      <3>2. CASE outputs'[v][s] = outputs[v][s] /\ pc'[v][s] = pc[v][s]
        BY <1>0, <2>2, <3>2 DEF OutputInv
      <3> QED
        BY <1>0, <2>2, <3>1, <3>2, OnlyActingThreadsMove DEF Lost
    <2> QED
      BY <2>1, <2>2 DEF OutputInv
  <1>4. NoneIsExplained'
    <2> DEFINE Explained(v, s) == \/ tasks[s].status = "terminal"
                                  \/ \E c \in claims : c.task = s /\ c.worker # v
    <2> SUFFICES ASSUME NEW v \in Worker, NEW s \in Task,
                        pc'[v][s] = "returned", outputs'[v][s] = None
                 PROVE  Explained(v, s)'
      BY DEF NoneIsExplained
    <2>1. Explained(v, s) => Explained(v, s)'
      BY <1>1 DEF Resolved
    <2>2. CASE LeaveNone(v, s)
      <3>1. CASE BeginExhausted(s, RequestPolicy)
        <4>1. PICK row : Writes(s, row) /\ RowInv(row) /\ row.status = "terminal"
          BY <1>0, <3>1, HarnessAssumption, ExhaustedWrites
        <4> QED
          BY <1>0, <4>1, WriteKeepsTypes
      <3>2. CASE IsTerminal(s)
        BY <2>1, <3>2 DEF IsTerminal
      <3>3. CASE LeaseActive(s)
        <4>1. tasks[s].status = "running" /\ tasks[s].attempt \in Nat /\ tasks[s].attempt >= 1
          BY <1>0, <3>3 DEF LeaseActive, TypeInv, RowInv, StartedWhenRunning, TaskRow
        <4>2. tasks[s].attempt \in {c.attempt : c \in {d \in claims : d.task = s}}
          BY <4>1 DEF AttemptGrantedOnce
        <4>3. PICK c \in claims : c.task = s /\ c.attempt = tasks[s].attempt
          BY <4>2
        <4>4. pc[v][s] \in AtRest
          BY <2>2 DEF LeaveNone, AtRest
        <4>5. c.worker # v
          BY <1>0, <4>1, <4>3, <4>4 DEF RestInv, Open
        <4> QED
          BY <2>1, <4>3, <4>5
      <3> QED
        BY <2>2, <3>1, <3>2, <3>3 DEF LeaveNone
    <2>3. CASE ThreadStep(v, s) \/ ThreadFault(v, s) \/ CallStep(v, s)
      BY <1>0, <2>2, <2>3, ActingThreadMoves
    <2>4. CASE outputs'[v][s] = outputs[v][s] /\ pc'[v][s] = pc[v][s]
      BY <1>0, <2>1, <2>4 DEF NoneIsExplained
    <2> QED
      BY <1>0, <2>3, <2>4, OnlyActingThreadsMove DEF Lost
  <1> QED
    BY <1>2, <1>3, <1>4 DEF NoneInv

LEMMA NoneInvariant == HSpec => []NoneInv
  <1> DEFINE Final == \A t \in Task : tasks[t].status \in Resolved =>
                         /\ tasks'[t].status = tasks[t].status
                         /\ tasks'[t].attempt = tasks[t].attempt
                         /\ tasks'[t].output = tasks[t].output
  <1>1. HInit => NoneInv
    BY DEF HInit, Init, NoRow, PerThread, NoneInv, RestInv, OutputInv, NoneIsExplained
  <1>2. ASSUME HarnessInv, HarnessInv', AttemptGrantedOnce, NoneInv, [HNext]_hvars, [Final]_vars
        PROVE  NoneInv'
    <2>1. \A t \in Task : tasks[t].status \in Resolved => tasks'[t].status = tasks[t].status
      BY <1>2 DEF vars
    <2> QED
      BY <1>2, <2>1, NextNoneInv DEF HarnessInv
  <1>3. HSpec => [][Final]_vars
    BY HarnessImplementsStore, ResolvedTasksAreFinal, PTL DEF ResolvedIsFinal
  <1>4. HSpec => []AttemptGrantedOnce
    BY HarnessImplementsStore, AttemptsAreGrantedOnce, PTL
  <1> HIDE DEF Final
  <1> QED
    BY <1>1, <1>2, <1>3, <1>4, HarnessInvariant, PTL DEF HSpec

\* A map leaves a position None only for a task that is terminal, or that another
\* run has claimed: never for one that only the run itself has tried.
THEOREM NonesAreExplained == HSpec => []NoneIsExplained
  <1>1. NoneInv => NoneIsExplained
    BY DEF NoneInv
  <1> QED
    BY <1>1, NoneInvariant, PTL

-----------------------------------------------------------------------------
(* What becomes of the attempts *)

\* At most one attempt per run and digest is unheard of, by a thread whose request
\* arrived late.
UnheardInv ==
    \A w \in Worker, t \in Task :
        /\ \A c, d \in Unheard(w, t) : c = d
        /\ Unheard(w, t) # {} => pc[w][t] = "arrived"

\* A thread that is over does not go on.
LEMMA ArrivedStays ==
    ASSUME HTypeOK, [HNext]_hvars, NEW v \in Worker, NEW s \in Task, pc[v][s] = "arrived"
    PROVE  pc'[v][s] = "arrived"
  <1>1. ASSUME Bystander(v, s)
        PROVE  pc'[v][s] = "arrived"
    BY <1>1 DEF Bystander, Calling, Over
  <1>2. ~(ThreadStep(v, s) \/ ThreadFault(v, s) \/ CallStep(v, s))
    BY DEF ThreadStep, Proceed, Answered, Enter, SkipCompleted, LeaveNone, RetryLater, Execute, Wake,
           Setup, RunReturns, CallbackRaises, CompleteAttempt, FailAttempt, ClaimLost,
           ResetAndTeardown, Teardown, ThreadFault, RaisesUnrecorded, ProgressRaises,
           FailKillsServer, CallRaises, Calling, ArriveLate, CallStep
  <1>3. ASSUME NEW w \in Worker, NEW t \in Task, ThreadStep(w, t) \/ ThreadFault(w, t) \/ CallStep(w, t)
        PROVE  Bystander(v, s)
    BY <1>2, <1>3, ActingThread
  <1>4. ASSUME NEW w \in Worker, Crash(w)
        PROVE  Bystander(v, s)
    BY <1>4, CrashMoves
  <1>5. ASSUME NEW w \in Worker, NEW selection \in Selections, StartMap(w, selection)
        PROVE  pc'[v][s] = "arrived"
    BY <1>5, StartMoves
  <1>6. CASE Elapse \/ UNCHANGED hvars
    BY <1>6 DEF Elapse, clientVars, hvars
  <1> QED
    BY <1>1, <1>3, <1>4, <1>5, <1>6 DEF HNext, Start

\* A begin that is answered tells its thread the attempt, a late one nobody; no other
\* step hands an attempt out.
LEMMA NewClaims ==
    ASSUME HTypeOK, [HNext]_hvars
    PROVE  \/ claims' = claims /\ attempt' = attempt
           \/ \E w \in Worker, t \in Task :
                 /\ claims' = claims \cup
                        {[task |-> t, worker |-> w, attempt |-> tasks[t].attempt + 1]}
                 /\ \/ attempt' = [attempt EXCEPT ![w][t] = tasks[t].attempt + 1]
                    \/ pc[w][t] = "lost_begin" /\ ArriveLate(w, t) /\ attempt' = attempt
  <1> DEFINE Same == claims' = claims /\ attempt' = attempt
             New(w, t) == claims' = claims \cup
                 {[task |-> t, worker |-> w, attempt |-> tasks[t].attempt + 1]}
  <1>1. ASSUME NEW w \in Worker, NEW t \in Task,
               \/ BeginExecute(w, t, RequestPolicy, DefaultLease)
               \/ BeginInsert(w, t, RequestPolicy, DefaultLease)
        PROVE  New(w, t)
    BY <1>1 DEF BeginExecute, BeginInsert, Grant, GrantAs
  <1>2. ASSUME NEW w \in Worker, NEW t \in Task, ThreadStep(w, t)
        PROVE  Same \/ Execute(w, t)
    <2>1. CASE LeaveNone(w, t)
      BY <2>1 DEF LeaveNone, BeginExhausted, vars
    <2>2. CASE CompleteAttempt(w, t) \/ FailAttempt(w, t)
      BY <2>2 DEF CompleteAttempt, FailAttempt, Complete, Fail, FailUpdate, FailUpdateAt
    <2>3. CASE Enter(w, t) \/ SkipCompleted(w, t) \/ RetryLater(w, t) \/ Wake(w, t) \/ Setup(w, t)
               \/ RunReturns(w, t) \/ CallbackRaises(w, t) \/ ClaimLost(w, t)
               \/ ResetAndTeardown(w, t) \/ Teardown(w, t)
      BY <2>3 DEF Enter, SkipCompleted, RetryLater, Wake, Setup, RunReturns, CallbackRaises,
                  ClaimLost, ResetAndTeardown, Teardown, vars
    <2> QED
      BY <1>2, <2>1, <2>2, <2>3 DEF ThreadStep, Proceed, Answered
  <1>3. ASSUME NEW w \in Worker, NEW t \in Task, Execute(w, t)
        PROVE  New(w, t) /\ attempt' = [attempt EXCEPT ![w][t] = tasks[t].attempt + 1]
    BY <1>1, <1>3 DEF Execute
  <1>4. ASSUME NEW w \in Worker, NEW t \in Task, ThreadFault(w, t)
        PROVE  Same \/ (ArriveLate(w, t) /\ pc[w][t] = "lost_begin" /\ New(w, t))
    <2>1. CASE RaisesUnrecorded(w, t) \/ ProgressRaises(w, t) \/ CallRaises(w, t)
      BY <2>1 DEF RaisesUnrecorded, ProgressRaises, CallRaises, vars
    <2>2. CASE FailKillsServer(w, t)
      BY <2>2 DEF FailKillsServer, FailAndCrash, FailUpdate, FailUpdateAt
    <2>3. CASE ArriveLate(w, t)
      BY <1>1, <2>3 DEF ArriveLate, BeginExhausted, Complete, Fail, FailUpdate, FailUpdateAt
    <2> QED
      BY <1>4, <2>1, <2>2, <2>3 DEF ThreadFault
  <1>5. ASSUME \/ \E w \in Worker : Crash(w)
               \/ \E w \in Worker, selection \in Selections : StartMap(w, selection)
               \/ \E w \in Worker, t \in Task : CallStep(w, t)
               \/ Elapse
               \/ UNCHANGED hvars
        PROVE  Same
    BY <1>5 DEF Crash, StartMap, CallStep, Elapse, Tick, RegisterDataset, clientVars, hvars, vars
  <1>6. ASSUME NEW w \in Worker, NEW t \in Task, ArriveLate(w, t)
        PROVE  attempt' = attempt
    BY <1>6 DEF ArriveLate
  <1> QED
    BY <1>2, <1>3, <1>4, <1>5, <1>6 DEF HNext, Start

LEMMA NextUnheardInv ==
    ASSUME HarnessInv, AttemptGrantedOnce, UnheardInv, [HNext]_hvars
    PROVE  UnheardInv'
  <1>0. /\ HTypeOK /\ attempt \in [Worker -> [Task -> Nat]]
        /\ \A t \in Task : tasks[t].attempt \in Nat
        /\ \A c \in claims : c.attempt \in Nat /\ c.task \in Task
    BY DEF HarnessInv, HTypeOK, TypeInv, TypeOK, TaskRow, Claim
  <1>1. ASSUME NEW c \in claims
        PROVE  c.attempt <= tasks[c.task].attempt
    <2>1. c.attempt \in {d.attempt : d \in {e \in claims : e.task = c.task}}
      OBVIOUS
    <2> QED
      BY <1>0, <2>1 DEF AttemptGrantedOnce
  <1> DEFINE Heard(v, s) == /\ \A c, d \in Unheard(v, s) : c = d
                            /\ Unheard(v, s) # {} => pc[v][s] = "arrived"
  <1>2. ASSUME NEW v \in Worker, NEW s \in Task, Unheard(v, s)' = Unheard(v, s)
        PROVE  Heard(v, s)'
    <2>1. pc[v][s] = "arrived" => pc'[v][s] = "arrived"
      BY <1>0, ArrivedStays
    <2> QED
      BY <1>2, <2>1 DEF UnheardInv
  <1>3. CASE claims' = claims /\ attempt' = attempt
    <2>1. \A v \in Worker, s \in Task : Unheard(v, s)' = Unheard(v, s)
      BY <1>3 DEF Unheard
    <2> QED
      BY <1>2, <2>1 DEF UnheardInv
  <1>4. ASSUME NEW w \in Worker, NEW t \in Task,
               claims' = claims \cup
                   {[task |-> t, worker |-> w, attempt |-> tasks[t].attempt + 1]},
               \/ attempt' = [attempt EXCEPT ![w][t] = tasks[t].attempt + 1]
               \/ pc[w][t] = "lost_begin" /\ ArriveLate(w, t) /\ attempt' = attempt
        PROVE  UnheardInv'
    <2>1. ASSUME NEW v \in Worker, NEW s \in Task, v # w \/ s # t
          PROVE  Heard(v, s)'
      <3>1. attempt'[v][s] = attempt[v][s]
        BY <1>0, <1>4, <2>1
      <3>2. Unheard(v, s)' = Unheard(v, s)
        BY <1>4, <2>1, <3>1 DEF Unheard
      <3> QED
        BY <1>2, <3>2
    <2>2. CASE attempt' = [attempt EXCEPT ![w][t] = tasks[t].attempt + 1]
      <3>1. attempt'[w][t] = tasks[t].attempt + 1
        BY <1>0, <2>2
      <3>2. \A c \in claims' : c.task = t => c.attempt <= tasks[t].attempt + 1
        BY <1>0, <1>1, <1>4
      <3>3. \A c \in claims' : c.attempt \in Nat
        BY <1>0, <1>4
      <3>4. Unheard(w, t)' = {}
        BY <1>0, <3>1, <3>2, <3>3 DEF Unheard
      <3> QED
        BY <2>1, <3>4 DEF UnheardInv
    <2>3. CASE pc[w][t] = "lost_begin" /\ ArriveLate(w, t) /\ attempt' = attempt
      <3>1. Unheard(w, t) = {}
        BY <2>3 DEF UnheardInv
      <3>2. \A c, d \in Unheard(w, t)' : c = d
        BY <1>4, <2>3, <3>1 DEF Unheard
      <3>3. pc'[w][t] = "arrived"
        BY <1>0, <2>3 DEF ArriveLate, Goto, HTypeOK
      <3> QED
        BY <2>1, <3>2, <3>3 DEF UnheardInv
    <2> QED
      BY <1>4, <2>2, <2>3
  <1> QED
    BY <1>0, <1>3, <1>4, NewClaims

\* Every attempt that is used up is accounted for: heard of by its thread, or the one
\* of a begin whose answer was lost; and none goes on running without its thread
\* unless that was killed, raised or lost its call.
THEOREM AttemptsAreAllAccounted == HSpec => []AttemptsAreAccounted
  <1>1. HInit => UnheardInv
    BY DEF HInit, Init, UnheardInv, Unheard
  <1>2. HSpec => []AttemptGrantedOnce
    BY HarnessImplementsStore, AttemptsAreGrantedOnce, PTL
  <1>3. UnheardInv /\ NoneInv => AttemptsAreAccounted
    BY DEF UnheardInv, NoneInv, RestInv, Open, AttemptsAreAccounted
  <1> QED
    BY <1>1, <1>2, <1>3, NextUnheardInv, NoneInvariant, HarnessInvariant, PTL DEF HSpec

=============================================================================
