-------------------------- MODULE TaskStoreProofs --------------------------
(***************************************************************************)
(* Safety of TaskStore for every instance of its constants, whichever      *)
(* clients send their worker_id and attempt: types, budgets and numbers of *)
(* attempts, what is final, what is counted as failed, why a task is       *)
(* terminal and what the current dataset is.                               *)
(***************************************************************************)
EXTENDS TaskStore, SequenceTheorems, TLAPS

\* What holds of one row.  A row not in the table is blank; a running row has
\* been started; no row has been started more often than its policy allows.
BlankWhenAbsent(row) == row.status = "absent" => row.attempt = 0 /\ row.generation = 1
StartedWhenRunning(row) == row.status = "running" => row.attempt >= 1
WithinBudget(row) == row.attempt <= 1 \/ row.attempt <= row.retry.max_attempts
RowInv(row) ==
    row \in TaskRow /\ BlankWhenAbsent(row) /\ StartedWhenRunning(row) /\ WithinBudget(row)

\* The types are not inductive on their own: the backoff of an attempt is only
\* known to be a delay while the attempt number stays within MaxAttempts.
TypeInv == TypeOK /\ \A t \in Task : RowInv(tasks[t])

-----------------------------------------------------------------------------
(* Rows *)

\* The rows that begin, fail and complete write are rows.
LEMMA GrantedRow ==
    ASSUME NEW row \in TaskRow, NEW attempt \in Nat, NEW owner \in Worker \cup {NoWorker},
           NEW expires \in Nat, NEW retry_at \in Nat, NEW policy \in Policy
    PROVE  [row EXCEPT !.status = "running", !.attempt = attempt, !.lease_owner = owner,
                       !.lease_expires_at = expires, !.retry_at = retry_at,
                       !.retry = policy] \in TaskRow
  BY DEF TaskRow, Status

LEMMA FailedRow ==
    ASSUME NEW row \in TaskRow, NEW status \in Status, NEW error \in Error \cup {NoError},
           NEW owner \in Worker \cup {NoWorker}, NEW expires \in Nat, NEW retry_at \in Nat
    PROVE  [row EXCEPT !.status = status, !.error = error, !.lease_owner = owner,
                       !.lease_expires_at = expires, !.retry_at = retry_at] \in TaskRow
  BY DEF TaskRow

LEMMA CompletedRow ==
    ASSUME NEW row \in TaskRow, NEW output \in Nat, NEW error \in Error \cup {NoError},
           NEW owner \in Worker \cup {NoWorker}, NEW expires \in Nat
    PROVE  [row EXCEPT !.status = "succeeded", !.output = output, !.error = error,
                       !.lease_owner = owner, !.lease_expires_at = expires] \in TaskRow
  BY DEF TaskRow, Status

\* The number of a running attempt is one that every policy's backoff covers, so
\* every delay that fail computes for it is a number of seconds.
LEMMA DelaysAreSeconds ==
    ASSUME NEW row, RowInv(row), row.status = "running", NEW error \in Error,
           NEW secs \in Delays(row, error)
    PROVE  secs \in Nat
  <1>1. row.retry \in Policy /\ row.attempt \in Nat /\ row.attempt >= 1
    BY DEF RowInv, StartedWhenRunning, TaskRow
  <1>2. row.retry.max_attempts \in 0..MaxAttempts
    BY <1>1, PolicyAssumption
  <1>3. row.attempt \in 1..MaxAttempts
    BY <1>1, <1>2, PolicyAssumption DEF RowInv, WithinBudget
  <1> QED
    BY <1>1, <1>3, PolicyAssumption DEF Delays

-----------------------------------------------------------------------------
(* What each handler does to the row it writes.  The proofs of all invariants *)
(* rest on these facts instead of on the EXCEPTs of the actions.              *)

\* Only the row of t changes, and it becomes `row`.
Writes(t, row) == tasks' = [tasks EXCEPT ![t] = row]

LEMMA WriteKeepsTypes ==
    ASSUME TypeInv, NEW t \in Task, NEW row, RowInv(row), Writes(t, row)
    PROVE  /\ tasks' \in [Task -> TaskRow]
           /\ \A s \in Task : RowInv(tasks'[s])
           /\ \A s \in Task : tasks'[s] = IF s = t THEN row ELSE tasks[s]
  <1>1. row \in TaskRow
    BY DEF RowInv
  <1>2. \A s \in Task : tasks'[s] = IF s = t THEN row ELSE tasks[s]
    BY DEF Writes, TypeInv, TypeOK
  <1>3. tasks' \in [Task -> TaskRow]
    BY <1>1 DEF Writes, TypeInv, TypeOK
  <1>4. \A s \in Task : RowInv(tasks'[s])
    BY <1>2 DEF TypeInv
  <1> QED
    BY <1>2, <1>3, <1>4

\* begin hands out the next attempt.
LEMMA GrantAsWrites ==
    ASSUME TypeInv, NEW w \in Worker, NEW t \in Task, NEW policy \in Policy, NEW lease_end \in Nat,
           GrantAs(w, t, policy, lease_end, tasks[t].attempt + 1),
           tasks[t].attempt = 0 \/ tasks[t].attempt < policy.max_attempts
    PROVE  \E row :
             /\ Writes(t, row) /\ RowInv(row)
             /\ row.status = "running"
             /\ row.attempt = tasks[t].attempt + 1
             /\ row.lease_owner = SentWorker(w)
             /\ row.lease_expires_at = lease_end
             /\ row.output = tasks[t].output
             /\ row.generation = tasks[t].generation
  <1> DEFINE old == tasks[t]
             row == [old EXCEPT !.status = "running", !.attempt = old.attempt + 1,
                         !.lease_owner = SentWorker(w), !.lease_expires_at = lease_end,
                         !.retry_at = NoStamp, !.retry = policy]
  <1>1. old \in TaskRow /\ policy.max_attempts \in Nat
    BY PolicyAssumption DEF TypeInv, TypeOK
  <1>2. SentWorker(w) \in Worker \cup {NoWorker}
    BY DEF SentWorker
  <1>3. old.attempt \in Nat /\ old.attempt + 1 \in Nat /\ NoStamp \in Nat
    BY <1>1 DEF TaskRow, NoStamp
  <1>4. row \in TaskRow
    BY <1>1, <1>2, <1>3, GrantedRow
  <1>5. /\ row.status = "running" /\ row.attempt = old.attempt + 1
        /\ row.lease_owner = SentWorker(w) /\ row.lease_expires_at = lease_end
        /\ row.output = old.output /\ row.generation = old.generation /\ row.retry = policy
    BY <1>1 DEF TaskRow
  <1>6. RowInv(row)
    BY <1>1, <1>3, <1>4, <1>5 DEF RowInv, BlankWhenAbsent, StartedWhenRunning, WithinBudget
  <1>7. Writes(t, row)
    BY DEF GrantAs, Writes
  <1> HIDE DEF row
  <1> QED
    BY <1>5, <1>6, <1>7

LEMMA GrantWrites ==
    ASSUME TypeInv, NEW w \in Worker, NEW t \in Task, NEW policy \in Policy, NEW lease \in Lease,
           Grant(w, t, policy, lease),
           tasks[t].attempt = 0 \/ tasks[t].attempt < policy.max_attempts
    PROVE  \E row :
             /\ Writes(t, row) /\ RowInv(row)
             /\ row.status = "running"
             /\ row.attempt = tasks[t].attempt + 1
             /\ row.lease_owner = SentWorker(w)
             /\ row.lease_expires_at = now + lease
             /\ row.output = tasks[t].output
             /\ row.generation = tasks[t].generation
  <1>1. now + lease \in Nat
    BY TimeAssumption DEF TypeInv, TypeOK
  <1> QED
    BY <1>1, GrantAsWrites DEF Grant

\* The two branches of begin that hand out an attempt.
LEMMA BeginWrites ==
    ASSUME TypeInv, NEW w \in Worker, NEW t \in Task, NEW policy \in Policy, NEW lease \in Lease,
           BeginExecute(w, t, policy, lease) \/ BeginInsert(w, t, policy, lease)
    PROVE  /\ Grant(w, t, policy, lease)
           /\ tasks[t].status \in {"absent", "pending", "running", "failed"}
           /\ ~LeaseActive(t)
           /\ tasks[t].attempt = 0 \/ tasks[t].attempt < policy.max_attempts
  <1>1. tasks[t].attempt \in Nat /\ policy.max_attempts \in Nat
    BY PolicyAssumption DEF TypeInv, TypeOK, TaskRow
  <1>2. CASE BeginExecute(w, t, policy, lease)
    BY <1>1, <1>2 DEF BeginExecute, Exhausted, Claimable
  <1>3. CASE BeginInsert(w, t, policy, lease)
    BY <1>3 DEF BeginInsert, LeaseActive, TypeInv, RowInv, BlankWhenAbsent
  <1> QED
    BY <1>2, <1>3

\* begin closes a task whose attempts are used up.
LEMMA ExhaustedWrites ==
    ASSUME TypeInv, NEW t \in Task, NEW policy \in Policy, BeginExhausted(t, policy)
    PROVE  /\ tasks[t].status \in {"pending", "running", "failed"} /\ ~LeaseActive(t)
           /\ tasks[t].attempt >= policy.max_attempts
           /\ \E row :
                /\ Writes(t, row) /\ RowInv(row)
                /\ row.status = "terminal"
                /\ row.attempt = tasks[t].attempt
                /\ row.output = tasks[t].output
                /\ row.generation = tasks[t].generation
  <1> DEFINE row == [tasks[t] EXCEPT !.status = "terminal"]
  <1>1. tasks[t] \in TaskRow
    BY DEF TypeInv, TypeOK
  <1>2. row \in TaskRow
    BY <1>1 DEF TaskRow, Status
  <1>3. /\ row.status = "terminal" /\ row.attempt = tasks[t].attempt
        /\ row.output = tasks[t].output /\ row.generation = tasks[t].generation
        /\ row.retry = tasks[t].retry
    BY <1>1 DEF TaskRow
  <1>4. RowInv(row)
    BY <1>2, <1>3 DEF TypeInv, RowInv, BlankWhenAbsent, StartedWhenRunning, WithinBudget
  <1>5. Writes(t, row)
    BY DEF BeginExhausted, Writes, TypeInv, TypeOK
  <1>6. /\ tasks[t].status \in {"pending", "running", "failed"} /\ ~LeaseActive(t)
        /\ tasks[t].attempt >= policy.max_attempts
    BY DEF BeginExhausted, Exhausted, Claimable
  <1> HIDE DEF row
  <1> QED
    BY <1>3, <1>4, <1>5, <1>6

\* complete stores the output of the attempt that the request speaks of.
LEMMA CompleteWrites ==
    ASSUME TypeInv, NEW c \in claims, Complete(c)
    PROVE  /\ c.task \in Task /\ c.worker \in Worker /\ tasks[c.task].status = "running"
           /\ \E row :
                /\ Writes(c.task, row) /\ RowInv(row)
                /\ row.status = "succeeded"
                /\ row.attempt = tasks[c.task].attempt
                /\ row.output = c.attempt
                /\ row.retry = tasks[c.task].retry
                /\ row.generation = tasks[c.task].generation
  <1>1. c.task \in Task /\ c.worker \in Worker /\ c.attempt \in Nat
    BY DEF TypeInv, TypeOK, Claim
  <1> DEFINE old == tasks[c.task]
             row == [old EXCEPT !.status = "succeeded", !.output = c.attempt,
                         !.error = NoError, !.lease_owner = NoWorker,
                         !.lease_expires_at = NoStamp]
  <1>2. old \in TaskRow /\ NoStamp \in Nat
    BY <1>1 DEF TypeInv, TypeOK, NoStamp
  <1>3. row \in TaskRow
    BY <1>1, <1>2, CompletedRow
  <1>4. /\ row.status = "succeeded" /\ row.attempt = old.attempt /\ row.output = c.attempt
        /\ row.generation = old.generation /\ row.retry = old.retry
    BY <1>2 DEF TaskRow
  <1>5. RowInv(row)
    BY <1>1, <1>3, <1>4 DEF TypeInv, RowInv, BlankWhenAbsent, StartedWhenRunning, WithinBudget
  <1>6. Writes(c.task, row) /\ old.status = "running"
    BY DEF Complete, HoldsClaim, Writes
  <1> HIDE DEF row
  <1> QED
    BY <1>1, <1>4, <1>5, <1>6

\* fail stores the error; the policy that it has seen decides whether the task may
\* be retried.
LEMMA FailAtWrites ==
    ASSUME TypeInv, NEW c, c.task \in Task, NEW error \in Error, NEW seen, NEW at \in Nat,
           \A secs \in Delays(seen, error) : secs \in Nat,
           FailUpdateAt(c, error, seen, at)
    PROVE  /\ tasks[c.task].status = "running"
           /\ \E row :
                /\ Writes(c.task, row) /\ RowInv(row)
                /\ row.status = IF Retryable(seen.retry, error) THEN "failed" ELSE "terminal"
                /\ row.error = error
                /\ row.attempt = tasks[c.task].attempt
                /\ row.retry = tasks[c.task].retry
                /\ row.output = tasks[c.task].output
                /\ row.generation = tasks[c.task].generation
  <1> DEFINE old == tasks[c.task]
             row(secs) ==
                 [old EXCEPT
                     !.status = IF Retryable(seen.retry, error) THEN "failed" ELSE "terminal",
                     !.error = error,
                     !.lease_owner = NoWorker,
                     !.lease_expires_at = NoStamp,
                     !.retry_at = IF secs = 0 THEN NoStamp ELSE at + secs]
  <1>1. old \in TaskRow /\ NoStamp \in Nat /\ RowInv(old)
    BY DEF TypeInv, TypeOK, NoStamp
  <1>2. old.status = "running"
    BY DEF FailUpdateAt, HoldsClaim
  <1>3. PICK secs \in Delays(seen, error) : Writes(c.task, row(secs))
    BY DEF FailUpdateAt, Writes
  <1>4. /\ (IF Retryable(seen.retry, error) THEN "failed" ELSE "terminal") \in Status
        /\ (IF secs = 0 THEN NoStamp ELSE at + secs) \in Nat
    BY <1>1, <1>3 DEF Status
  <1>5. row(secs) \in TaskRow
    BY <1>1, <1>4, FailedRow
  <1>6. /\ row(secs).status = IF Retryable(seen.retry, error) THEN "failed" ELSE "terminal"
        /\ row(secs).error = error /\ row(secs).attempt = old.attempt
        /\ row(secs).output = old.output /\ row(secs).generation = old.generation
        /\ row(secs).retry = old.retry
    BY <1>1 DEF TaskRow
  <1>7. RowInv(row(secs))
    BY <1>1, <1>5, <1>6 DEF RowInv, BlankWhenAbsent, StartedWhenRunning, WithinBudget
  <1> HIDE DEF row
  <1> QED
    BY <1>2, <1>3, <1>6, <1>7

LEMMA FailWrites ==
    ASSUME TypeInv, NEW c \in claims, NEW error \in Error, FailUpdate(c, error)
    PROVE  /\ c.task \in Task /\ c.worker \in Worker /\ tasks[c.task].status = "running"
           /\ \E row :
                /\ Writes(c.task, row) /\ RowInv(row)
                /\ row.status = IF Retryable(row.retry, error) THEN "failed" ELSE "terminal"
                /\ row.error = error
                /\ row.attempt = tasks[c.task].attempt
                /\ row.output = tasks[c.task].output
                /\ row.generation = tasks[c.task].generation
  <1>1. c.task \in Task /\ c.worker \in Worker /\ now \in Nat
    BY DEF TypeInv, TypeOK, Claim
  <1>2. RowInv(tasks[c.task]) /\ tasks[c.task].status = "running"
    BY <1>1 DEF TypeInv, FailUpdate, FailUpdateAt, HoldsClaim
  <1>3. \A secs \in Delays(tasks[c.task], error) : secs \in Nat
    BY <1>2, DelaysAreSeconds
  <1>4. FailUpdateAt(c, error, tasks[c.task], now)
    BY DEF FailUpdate
  <1>5. PICK row :
          /\ Writes(c.task, row) /\ RowInv(row)
          /\ row.status = IF Retryable(tasks[c.task].retry, error) THEN "failed" ELSE "terminal"
          /\ row.error = error /\ row.attempt = tasks[c.task].attempt
          /\ row.retry = tasks[c.task].retry /\ row.output = tasks[c.task].output
          /\ row.generation = tasks[c.task].generation
    BY <1>1, <1>3, <1>4, FailAtWrites
  <1> QED
    BY <1>1, <1>2, <1>5

\* heartbeat moves the end of the lease and nothing else.
LEMMA HeartbeatUntilWrites ==
    ASSUME TypeInv, NEW w \in Worker, NEW t \in Task, NEW lease, now + lease \in Nat,
           Heartbeat(w, t, lease)
    PROVE  /\ tasks[t].status = "running" /\ tasks[t].lease_owner = w /\ w \in Fenced
           /\ \E row :
                /\ Writes(t, row) /\ RowInv(row)
                /\ row.status = "running"
                /\ row.lease_owner = w
                /\ row.lease_expires_at = now + lease
                /\ row.attempt = tasks[t].attempt
                /\ row.retry = tasks[t].retry
                /\ row.output = tasks[t].output
                /\ row.generation = tasks[t].generation
  <1> DEFINE row == [tasks[t] EXCEPT !.lease_expires_at = now + lease]
  <1>1. tasks[t] \in TaskRow
    BY DEF TypeInv, TypeOK
  <1>2. row \in TaskRow
    BY <1>1 DEF TaskRow
  <1>3. tasks[t].status = "running" /\ tasks[t].lease_owner = w /\ w \in Fenced
    BY DEF Heartbeat
  <1>4. /\ row.status = tasks[t].status /\ row.lease_owner = tasks[t].lease_owner
        /\ row.lease_expires_at = now + lease /\ row.attempt = tasks[t].attempt
        /\ row.output = tasks[t].output /\ row.generation = tasks[t].generation
        /\ row.retry = tasks[t].retry
    BY <1>1 DEF TaskRow
  <1>5. RowInv(row)
    BY <1>2, <1>4 DEF TypeInv, RowInv, BlankWhenAbsent, StartedWhenRunning, WithinBudget
  <1>6. Writes(t, row)
    BY DEF Heartbeat, Writes, TypeInv, TypeOK
  <1> HIDE DEF row
  <1> QED
    BY <1>3, <1>4, <1>5, <1>6

LEMMA HeartbeatWrites ==
    ASSUME TypeInv, NEW w \in Worker, NEW t \in Task, NEW lease \in Lease, Heartbeat(w, t, lease)
    PROVE  /\ tasks[t].status = "running" /\ tasks[t].lease_owner = w /\ w \in Fenced
           /\ \E row :
                /\ Writes(t, row) /\ RowInv(row)
                /\ row.status = "running"
                /\ row.lease_owner = w
                /\ row.lease_expires_at = now + lease
                /\ row.attempt = tasks[t].attempt
                /\ row.retry = tasks[t].retry
                /\ row.output = tasks[t].output
                /\ row.generation = tasks[t].generation
  <1>1. now + lease \in Nat
    BY TimeAssumption DEF TypeInv, TypeOK
  <1> QED
    BY <1>1, HeartbeatUntilWrites

\* A registration adds the missing rows and moves the others to its generation.
LEMMA RegisterWrites ==
    ASSUME TypeInv, NEW digests \in SUBSET Task, RegisterDataset(digests)
    PROVE  /\ tasks' \in [Task -> TaskRow]
           /\ \A t \in Task : RowInv(tasks'[t])
           /\ \A t \in Task : t \notin digests => tasks'[t] = tasks[t]
           /\ \A t \in digests :
                /\ tasks'[t].status =
                       IF tasks[t].status = "absent" THEN "pending" ELSE tasks[t].status
                /\ tasks'[t].attempt = tasks[t].attempt
                /\ tasks'[t].lease_owner = tasks[t].lease_owner
                /\ tasks'[t].lease_expires_at = tasks[t].lease_expires_at
                /\ tasks'[t].retry = tasks[t].retry
                /\ tasks'[t].output = tasks[t].output
                /\ tasks'[t].error = tasks[t].error
                /\ tasks'[t].generation = generation + 1
  <1>1. SUFFICES ASSUME NEW t \in Task
                 PROVE  /\ tasks'[t] \in TaskRow /\ RowInv(tasks'[t])
                        /\ t \notin digests => tasks'[t] = tasks[t]
                        /\ t \in digests =>
                             /\ tasks'[t].status =
                                    IF tasks[t].status = "absent" THEN "pending"
                                    ELSE tasks[t].status
                             /\ tasks'[t].attempt = tasks[t].attempt
                             /\ tasks'[t].lease_owner = tasks[t].lease_owner
                             /\ tasks'[t].lease_expires_at = tasks[t].lease_expires_at
                             /\ tasks'[t].retry = tasks[t].retry
                             /\ tasks'[t].output = tasks[t].output
                             /\ tasks'[t].error = tasks[t].error
                             /\ tasks'[t].generation = generation + 1
    BY DEF RegisterDataset
  <1>2. tasks[t] \in TaskRow /\ generation \in Nat /\ RowInv(tasks[t])
    BY DEF TypeInv, TypeOK
  <1>3. CASE t \notin digests
    BY <1>2, <1>3 DEF RegisterDataset
  <1>4. CASE t \in digests
    <2> DEFINE status == IF tasks[t].status = "absent" THEN "pending" ELSE tasks[t].status
               row == [tasks[t] EXCEPT !.status = status, !.generation = generation + 1]
    <2>1. tasks'[t] = row
      BY <1>4 DEF RegisterDataset
    <2>2. status \in Status /\ status # "absent" /\ generation + 1 \in Nat
      BY <1>2 DEF TaskRow, Status
    <2>3. row \in TaskRow
      BY <1>2, <2>2 DEF TaskRow
    <2>4. /\ row.status = status /\ row.attempt = tasks[t].attempt
          /\ row.lease_owner = tasks[t].lease_owner
          /\ row.lease_expires_at = tasks[t].lease_expires_at
          /\ row.retry = tasks[t].retry /\ row.output = tasks[t].output
          /\ row.error = tasks[t].error /\ row.generation = generation + 1
      BY <1>2 DEF TaskRow
    <2>5. RowInv(row)
      BY <1>2, <2>2, <2>3, <2>4 DEF RowInv, BlankWhenAbsent, StartedWhenRunning, WithinBudget
    <2> HIDE DEF row
    <2> QED
      BY <1>4, <2>1, <2>3, <2>4, <2>5
  <1> QED
    BY <1>3, <1>4

-----------------------------------------------------------------------------
(* Types and the attempt budget *)

LEMMA InitTypeInv == Init => TypeInv
  <1> SUFFICES ASSUME Init PROVE TypeInv
    OBVIOUS
  <1>1. NoRow \in TaskRow
    BY PolicyAssumption DEF NoRow, TaskRow, Status, NoStamp, NoOutput
  <1>2. RowInv(NoRow)
    BY <1>1 DEF NoRow, RowInv, BlankWhenAbsent, StartedWhenRunning, WithinBudget
  <1>3. TypeOK
    BY <1>1 DEF Init, TypeOK, NoStamp
  <1> QED
    BY <1>2, <1>3 DEF Init, TypeInv

LEMMA NextTypeInv ==
    ASSUME TypeInv, [Next]_vars
    PROVE  TypeInv'
  <1>0. TypeOK /\ \A t \in Task : RowInv(tasks[t])
    BY DEF TypeInv
  <1>1. ASSUME NEW t \in Task, NEW policy \in Policy, BeginExhausted(t, policy)
        PROVE  TypeInv'
    <2>1. PICK row : Writes(t, row) /\ RowInv(row)
      BY <1>1, ExhaustedWrites
    <2> QED
      BY <1>0, <1>1, <2>1, WriteKeepsTypes DEF BeginExhausted, TypeInv, TypeOK
  <1>2. ASSUME NEW w \in Worker, NEW t \in Task, NEW policy \in Policy, NEW lease \in Lease,
               BeginExecute(w, t, policy, lease) \/ BeginInsert(w, t, policy, lease)
        PROVE  TypeInv'
    <2>1. Grant(w, t, policy, lease) /\ (tasks[t].attempt = 0 \/ tasks[t].attempt < policy.max_attempts)
      BY <1>2, BeginWrites
    <2>2. PICK row : Writes(t, row) /\ RowInv(row)
      BY <2>1, GrantWrites
    <2>3. tasks[t].attempt + 1 \in Nat \ {0} /\ now + lease \in Nat
      BY <1>0, TimeAssumption DEF TypeOK, TaskRow
    <2>4. claims' \in SUBSET Claim /\ deadline' \in [Worker -> [Task -> Nat]]
      BY <1>0, <2>1, <2>3 DEF Grant, GrantAs, TypeOK, Claim
    <2> QED
      BY <1>0, <2>1, <2>2, <2>4, WriteKeepsTypes DEF Grant, GrantAs, TypeInv, TypeOK
  <1>3. ASSUME NEW c \in claims, Complete(c)
        PROVE  TypeInv'
    <2>1. PICK row : Writes(c.task, row) /\ RowInv(row)
      BY <1>3, CompleteWrites
    <2>2. c.task \in Task /\ c.worker \in Worker
      BY <1>3, CompleteWrites
    <2>3. deadline' \in [Worker -> [Task -> Nat]]
      BY <1>0, <1>3, <2>2 DEF Complete, TypeOK, NoStamp
    <2> QED
      BY <1>0, <1>3, <2>1, <2>2, <2>3, WriteKeepsTypes DEF Complete, TypeInv, TypeOK
  <1>4. ASSUME NEW c \in claims, NEW error \in Error, Fail(c, error) \/ FailAndCrash(c, error)
        PROVE  TypeInv'
    <2>1. FailUpdate(c, error)
      BY <1>4 DEF Fail, FailAndCrash
    <2>2. PICK row : Writes(c.task, row) /\ RowInv(row)
      BY <2>1, FailWrites
    <2>3. c.task \in Task /\ c.worker \in Worker
      BY <2>1, FailWrites
    <2>4. deadline' \in [Worker -> [Task -> Nat]]
      BY <1>0, <2>1, <2>3 DEF FailUpdate, FailUpdateAt, TypeOK, NoStamp
    <2>5. tasks[c.task].attempt \in Nat
      BY <1>0, <2>3 DEF TypeOK, TaskRow
    <2>6. failure_records' \in [Task -> Seq(Nat)]
      <3>1. failure_records[c.task] \in Seq(Nat)
        BY <1>0, <2>3 DEF TypeOK
      <3>2. Append(failure_records[c.task], tasks[c.task].attempt) \in Seq(Nat)
        BY <2>5, <3>1, AppendProperties
      <3> QED
        BY <1>0, <1>4, <2>3, <3>2 DEF Fail, FailAndCrash, TypeOK
    <2> QED
      BY <1>0, <2>1, <2>2, <2>3, <2>4, <2>6, WriteKeepsTypes DEF FailUpdate, FailUpdateAt, TypeInv, TypeOK
  <1>5. ASSUME NEW w \in Worker, NEW t \in Task, NEW lease \in Lease, Heartbeat(w, t, lease)
        PROVE  TypeInv'
    <2>1. PICK row : Writes(t, row) /\ RowInv(row)
      BY <1>5, HeartbeatWrites
    <2>2. deadline' \in [Worker -> [Task -> Nat]]
      BY <1>0, <1>5, TimeAssumption DEF Heartbeat, TypeOK
    <2> QED
      BY <1>0, <1>5, <2>1, <2>2, WriteKeepsTypes DEF Heartbeat, TypeInv, TypeOK
  <1>6. ASSUME NEW digests \in SUBSET Task, RegisterDataset(digests)
        PROVE  TypeInv'
    <2>1. tasks' \in [Task -> TaskRow] /\ \A t \in Task : RowInv(tasks'[t])
      BY <1>6, RegisterWrites
    <2>2. generation' \in Nat /\ registered' \in SUBSET Task
      <3>1. generation' = generation + 1 /\ registered' = digests
        BY <1>6, Zenon DEF RegisterDataset
      <3> QED
        BY <1>0, <3>1 DEF TypeOK
    <2>3. UNCHANGED <<failure_records, now, claims, deadline>>
      BY <1>6 DEF RegisterDataset
    <2> QED
      BY <1>0, <2>1, <2>2, <2>3 DEF TypeInv, TypeOK
  <1>7. CASE Tick
    BY <1>0, <1>7 DEF Tick, TypeInv, TypeOK
  <1>8. CASE UNCHANGED vars
    BY <1>0, <1>8 DEF vars, TypeInv, TypeOK
  <1> QED
    BY <1>1, <1>2, <1>3, <1>4, <1>5, <1>6, <1>7, <1>8 DEF Next, Begin, Resolve

LEMMA TypeInvariant == Spec => []TypeInv
  BY InitTypeInv, NextTypeInv, PTL DEF Spec

\* Every variable keeps its type, the backoff delays of fail included.
THEOREM TypeCorrect == Spec => []TypeOK
  <1>1. TypeInv => TypeOK
    BY DEF TypeInv
  <1> QED
    BY <1>1, TypeInvariant, PTL

\* No attempt exceeds the max_attempts of the request that started it, except a
\* first one, in every run of the store with any clients and policies.
THEOREM AttemptsWithinBudget == Spec => []AttemptBudget
  <1>1. TypeInv => AttemptBudget
    BY DEF TypeInv, RowInv, WithinBudget, AttemptBudget
  <1> QED
    BY <1>1, TypeInvariant, PTL

-----------------------------------------------------------------------------
(* Attempts are handed out once *)

LEMMA GrantNumbersAttempts ==
    ASSUME TypeInv, AttemptGrantedOnce, NEW w \in Worker, NEW t \in Task,
           NEW policy \in Policy, NEW lease_end \in Nat,
           GrantAs(w, t, policy, lease_end, tasks[t].attempt + 1),
           tasks[t].attempt = 0 \/ tasks[t].attempt < policy.max_attempts
    PROVE  AttemptGrantedOnce'
  <1> DEFINE n == tasks[t].attempt + 1
             granted == [task |-> t, worker |-> w, attempt |-> n]
             Attempts(cs, s) == {c.attempt : c \in {d \in cs : d.task = s}}
  <1>1. claims' = claims \cup {granted}
    BY DEF GrantAs
  <1>2. PICK row : Writes(t, row) /\ RowInv(row) /\ row.attempt = n
    BY GrantAsWrites
  <1>3. \A s \in Task : tasks'[s].attempt = IF s = t THEN n ELSE tasks[s].attempt
    BY <1>2, WriteKeepsTypes
  <1>4. tasks[t].attempt \in Nat
    BY DEF TypeInv, TypeOK, TaskRow
  <1>5. \A s \in Task : Attempts(claims, s) = 1..tasks[s].attempt
    BY DEF AttemptGrantedOnce
  <1>6. \A c \in claims : c.task = t => c.attempt # n
    BY <1>4, <1>5
  <1>7. \A c, d \in claims' : c.task = d.task /\ c.attempt = d.attempt => c = d
    BY <1>1, <1>6 DEF AttemptGrantedOnce
  <1>8. ASSUME NEW s \in Task
        PROVE  Attempts(claims', s) = 1..tasks'[s].attempt
    <2>1. CASE s = t
      <3>1. Attempts(claims', t) = Attempts(claims, t) \cup {n}
        <4>1. granted.task = t /\ granted.attempt = n
          OBVIOUS
        <4>2. {d \in claims' : d.task = t} = {d \in claims : d.task = t} \cup {granted}
          BY <1>1, <4>1
        <4> HIDE DEF granted
        <4> QED
          BY <4>1, <4>2
      <3>2. 1..n = (1..tasks[t].attempt) \cup {n}
        BY <1>4
      <3> QED
        BY <1>3, <1>5, <2>1, <3>1, <3>2
    <2>2. CASE s # t
      <3>1. Attempts(claims', s) = Attempts(claims, s)
        BY <1>1, <2>2
      <3> QED
        BY <1>3, <1>5, <2>2, <3>1
    <2> QED
      BY <2>1, <2>2
  <1> QED
    BY <1>7, <1>8 DEF AttemptGrantedOnce

\* A step that hands out no claim and changes no attempt number.
LEMMA SameAttempts ==
    ASSUME AttemptGrantedOnce, claims' = claims,
           \A t \in Task : tasks'[t].attempt = tasks[t].attempt
    PROVE  AttemptGrantedOnce'
  BY DEF AttemptGrantedOnce

\* begin never hands out the same attempt number of a task twice, and skips none.
THEOREM AttemptsAreGrantedOnce == Spec => []AttemptGrantedOnce
  <1>1. Init => AttemptGrantedOnce
    BY DEF Init, NoRow, AttemptGrantedOnce
  <1>2. ASSUME TypeInv, TypeInv', AttemptGrantedOnce, [Next]_vars
        PROVE  AttemptGrantedOnce'
    <2>1. ASSUME NEW t \in Task, NEW policy \in Policy, BeginExhausted(t, policy)
          PROVE  AttemptGrantedOnce'
      <3>1. PICK row : Writes(t, row) /\ RowInv(row) /\ row.attempt = tasks[t].attempt
        BY <1>2, <2>1, ExhaustedWrites
      <3>2. \A s \in Task : tasks'[s].attempt = tasks[s].attempt
        BY <1>2, <3>1, WriteKeepsTypes
      <3> QED
        BY <1>2, <2>1, <3>2, SameAttempts DEF BeginExhausted
    <2>2. ASSUME NEW w \in Worker, NEW t \in Task, NEW policy \in Policy, NEW lease \in Lease,
                 BeginExecute(w, t, policy, lease) \/ BeginInsert(w, t, policy, lease)
          PROVE  AttemptGrantedOnce'
      <3>1. now + lease \in Nat
        BY <1>2, TimeAssumption DEF TypeInv, TypeOK
      <3> QED
        BY <1>2, <2>2, <3>1, BeginWrites, GrantNumbersAttempts DEF Grant
    <2>3. ASSUME NEW c \in claims, Complete(c)
          PROVE  AttemptGrantedOnce'
      <3>1. c.task \in Task /\ \E row : Writes(c.task, row) /\ RowInv(row) /\ row.attempt = tasks[c.task].attempt
        BY <1>2, <2>3, CompleteWrites
      <3>2. \A s \in Task : tasks'[s].attempt = tasks[s].attempt
        BY <1>2, <3>1, WriteKeepsTypes
      <3> QED
        BY <1>2, <2>3, <3>2, SameAttempts DEF Complete
    <2>4. ASSUME NEW c \in claims, NEW error \in Error, Fail(c, error) \/ FailAndCrash(c, error)
          PROVE  AttemptGrantedOnce'
      <3>1. FailUpdate(c, error)
        BY <2>4 DEF Fail, FailAndCrash
      <3>2. c.task \in Task /\ \E row : Writes(c.task, row) /\ RowInv(row) /\ row.attempt = tasks[c.task].attempt
        BY <1>2, <3>1, FailWrites
      <3>3. \A s \in Task : tasks'[s].attempt = tasks[s].attempt
        BY <1>2, <3>2, WriteKeepsTypes
      <3> QED
        BY <1>2, <3>1, <3>3, SameAttempts DEF FailUpdate, FailUpdateAt
    <2>5. ASSUME NEW w \in Worker, NEW t \in Task, NEW lease \in Lease, Heartbeat(w, t, lease)
          PROVE  AttemptGrantedOnce'
      <3>1. PICK row : Writes(t, row) /\ RowInv(row) /\ row.attempt = tasks[t].attempt
        BY <1>2, <2>5, HeartbeatWrites
      <3>2. \A s \in Task : tasks'[s].attempt = tasks[s].attempt
        BY <1>2, <3>1, WriteKeepsTypes
      <3> QED
        BY <1>2, <2>5, <3>2, SameAttempts DEF Heartbeat
    <2>6. ASSUME NEW digests \in SUBSET Task, RegisterDataset(digests)
          PROVE  AttemptGrantedOnce'
      <3>1. \A s \in Task : tasks'[s].attempt = tasks[s].attempt
        BY <1>2, <2>6, RegisterWrites
      <3> QED
        BY <1>2, <2>6, <3>1, SameAttempts DEF RegisterDataset
    <2>7. CASE Tick
      BY <1>2, <2>7, SameAttempts DEF Tick
    <2>8. CASE UNCHANGED vars
      BY <1>2, <2>8, SameAttempts DEF vars
    <2> QED
      BY <1>2, <2>1, <2>2, <2>3, <2>4, <2>5, <2>6, <2>7, <2>8 DEF Next, Begin, Resolve
  <1> QED
    BY <1>1, <1>2, TypeInvariant, PTL DEF Spec

-----------------------------------------------------------------------------
\* A succeeded or terminal task keeps its status, attempt and output for good.
THEOREM ResolvedTasksAreFinal == Spec => ResolvedIsFinal
  <1> DEFINE Kept(t) == /\ tasks'[t].status = tasks[t].status
                        /\ tasks'[t].attempt = tasks[t].attempt
                        /\ tasks'[t].output = tasks[t].output
  <1>1. ASSUME TypeInv, [Next]_vars, NEW t \in Task, tasks[t].status \in Resolved
        PROVE  Kept(t)
    <2>0. tasks[t].status \notin {"absent", "pending", "running", "failed"}
      BY <1>1 DEF Resolved
    <2>1. ASSUME NEW s \in Task, NEW policy \in Policy, BeginExhausted(s, policy)
          PROVE  Kept(t)
      BY <1>1, <2>0, <2>1, ExhaustedWrites, WriteKeepsTypes
    <2>2. ASSUME NEW w \in Worker, NEW s \in Task, NEW policy \in Policy, NEW lease \in Lease,
                 BeginExecute(w, s, policy, lease) \/ BeginInsert(w, s, policy, lease)
          PROVE  Kept(t)
      <3>1. /\ Grant(w, s, policy, lease) /\ s # t
            /\ tasks[s].attempt = 0 \/ tasks[s].attempt < policy.max_attempts
        BY <1>1, <2>0, <2>2, BeginWrites
      <3> QED
        BY <1>1, <3>1, GrantWrites, WriteKeepsTypes
    <2>3. ASSUME NEW c \in claims, Complete(c)
          PROVE  Kept(t)
      BY <1>1, <2>0, <2>3, CompleteWrites, WriteKeepsTypes
    <2>4. ASSUME NEW c \in claims, NEW error \in Error, Fail(c, error) \/ FailAndCrash(c, error)
          PROVE  Kept(t)
      <3>1. FailUpdate(c, error)
        BY <2>4 DEF Fail, FailAndCrash
      <3> QED
        BY <1>1, <2>0, <3>1, FailWrites, WriteKeepsTypes
    <2>5. ASSUME NEW w \in Worker, NEW s \in Task, NEW lease \in Lease, Heartbeat(w, s, lease)
          PROVE  Kept(t)
      BY <1>1, <2>0, <2>5, HeartbeatWrites, WriteKeepsTypes
    <2>6. ASSUME NEW digests \in SUBSET Task, RegisterDataset(digests)
          PROVE  Kept(t)
      BY <1>1, <2>0, <2>6, RegisterWrites
    <2>7. CASE Tick
      BY <2>7 DEF Tick
    <2>8. CASE UNCHANGED vars
      BY <2>8 DEF vars
    <2> QED
      BY <1>1, <2>1, <2>2, <2>3, <2>4, <2>5, <2>6, <2>7, <2>8 DEF Next, Begin, Resolve
  <1>2. TypeInv /\ [Next]_vars =>
          [\A t \in Task : tasks[t].status \in Resolved =>
              /\ tasks'[t].status = tasks[t].status
              /\ tasks'[t].attempt = tasks[t].attempt
              /\ tasks'[t].output = tasks[t].output]_vars
    BY <1>1
  <1> QED
    BY <1>2, TypeInvariant, PTL DEF Spec, ResolvedIsFinal

-----------------------------------------------------------------------------
(* Failures *)

\* FailureCountedOnce, for one task.
CountedOnce(records, row) ==
    /\ \A i, j \in DOMAIN records : i < j => records[i] < records[j]
    /\ \A i \in DOMAIN records :
          IF row.status \in {"running", "succeeded"}
          THEN records[i] < row.attempt
          ELSE records[i] <= row.attempt

\* A row may move on, to the next attempt or out of the running one, without a
\* record.
LEMMA MovingOnCounts ==
    ASSUME NEW records \in Seq(Nat), NEW old \in TaskRow, NEW new \in TaskRow,
           CountedOnce(records, old),
           \/ new.attempt = old.attempt /\ new.status = old.status
           \/ new.attempt = old.attempt /\ old.status = "running"
           \/ new.attempt = old.attempt /\ new.status \notin {"running", "succeeded"}
           \/ new.attempt = old.attempt + 1
    PROVE  CountedOnce(records, new)
  <1>1. old.attempt \in Nat /\ \A i \in DOMAIN records : records[i] \in Nat
    BY DEF TaskRow
  <1> QED
    BY <1>1 DEF CountedOnce

\* The record of the running attempt is greater than all before it.
LEMMA AppendCounts ==
    ASSUME NEW records \in Seq(Nat), NEW old \in TaskRow, NEW new \in TaskRow,
           CountedOnce(records, old), old.status = "running",
           new.attempt = old.attempt, new.status \notin {"running", "succeeded"}
    PROVE  CountedOnce(Append(records, old.attempt), new)
  <1> DEFINE longer == Append(records, old.attempt)
  <1>1. old.attempt \in Nat /\ \A i \in DOMAIN records : records[i] \in Nat
    BY DEF TaskRow
  <1>2. /\ Len(records) \in Nat /\ DOMAIN records = 1..Len(records)
        /\ DOMAIN longer = 1..(Len(records) + 1)
        /\ \A i \in 1..Len(records) : longer[i] = records[i]
        /\ longer[Len(records) + 1] = old.attempt
    BY <1>1, AppendProperties, LenProperties
  <1>3. \A i \in 1..Len(records) : records[i] < old.attempt
    BY <1>2 DEF CountedOnce
  <1>4. \A i \in DOMAIN longer : longer[i] <= new.attempt
    BY <1>1, <1>2, <1>3
  <1>5. \A i, j \in DOMAIN longer : i < j => longer[i] < longer[j]
    <2> SUFFICES ASSUME NEW i \in DOMAIN longer, NEW j \in DOMAIN longer, i < j
                 PROVE  longer[i] < longer[j]
      OBVIOUS
    <2>1. i \in 1..Len(records)
      BY <1>2
    <2>2. CASE j \in 1..Len(records)
      BY <1>2, <2>1, <2>2 DEF CountedOnce
    <2>3. CASE j = Len(records) + 1
      BY <1>2, <1>3, <2>1, <2>3
    <2> QED
      BY <1>2, <2>2, <2>3
  <1>6. CountedOnce(longer, new)
    BY <1>4, <1>5 DEF CountedOnce
  <1> QED
    BY <1>6

\* An attempt is recorded as failed at most once, in order, and never while it
\* runs or once it has succeeded, whatever crashes between the writes of fail and
\* whatever late requests there are.
THEOREM FailuresAreCountedOnce == Spec => []FailureCountedOnce
  <1> DEFINE Inv == \A t \in Task : CountedOnce(failure_records[t], tasks[t])
  <1>1. Init => Inv
    BY DEF Init, CountedOnce
  <1>2. ASSUME TypeInv, Inv, [Next]_vars
        PROVE  Inv'
    <2>0. /\ \A t \in Task : failure_records[t] \in Seq(Nat) /\ tasks[t] \in TaskRow
          /\ \A t \in Task : CountedOnce(failure_records[t], tasks[t])
      BY <1>2 DEF TypeInv, TypeOK
    <2>1. ASSUME NEW t \in Task, NEW policy \in Policy, BeginExhausted(t, policy)
          PROVE  Inv'
      <3>1. PICK row : /\ Writes(t, row) /\ RowInv(row)
                       /\ row.status = "terminal" /\ row.attempt = tasks[t].attempt
        BY <1>2, <2>1, ExhaustedWrites
      <3>2. \A s \in Task : tasks'[s] = IF s = t THEN row ELSE tasks[s]
        BY <1>2, <3>1, WriteKeepsTypes
      <3>3. CountedOnce(failure_records[t], row)
        BY <2>0, <3>1, MovingOnCounts DEF RowInv
      <3>4. failure_records' = failure_records
        BY <2>1 DEF BeginExhausted
      <3> QED
        BY <2>0, <3>2, <3>3, <3>4
    <2>2. ASSUME NEW w \in Worker, NEW t \in Task, NEW policy \in Policy, NEW lease \in Lease,
                 BeginExecute(w, t, policy, lease) \/ BeginInsert(w, t, policy, lease)
          PROVE  Inv'
      <3>1. /\ Grant(w, t, policy, lease)
            /\ tasks[t].attempt = 0 \/ tasks[t].attempt < policy.max_attempts
        BY <1>2, <2>2, BeginWrites
      <3>2. PICK row : /\ Writes(t, row) /\ RowInv(row)
                       /\ row.attempt = tasks[t].attempt + 1
        BY <1>2, <3>1, GrantWrites
      <3>3. \A s \in Task : tasks'[s] = IF s = t THEN row ELSE tasks[s]
        BY <1>2, <3>2, WriteKeepsTypes
      <3>4. CountedOnce(failure_records[t], row)
        BY <2>0, <3>2, MovingOnCounts DEF RowInv
      <3>5. failure_records' = failure_records
        BY <3>1 DEF Grant, GrantAs
      <3> QED
        BY <2>0, <3>3, <3>4, <3>5
    <2>3. ASSUME NEW c \in claims, Complete(c)
          PROVE  Inv'
      <3>1. /\ c.task \in Task /\ tasks[c.task].status = "running"
            /\ \E row : /\ Writes(c.task, row) /\ RowInv(row)
                        /\ row.attempt = tasks[c.task].attempt
        BY <1>2, <2>3, CompleteWrites
      <3>2. PICK row : /\ Writes(c.task, row) /\ RowInv(row)
                       /\ row.attempt = tasks[c.task].attempt
        BY <3>1
      <3>3. \A s \in Task : tasks'[s] = IF s = c.task THEN row ELSE tasks[s]
        BY <1>2, <3>1, <3>2, WriteKeepsTypes
      <3>4. CountedOnce(failure_records[c.task], row)
        BY <2>0, <3>1, <3>2, MovingOnCounts DEF RowInv
      <3>5. failure_records' = failure_records
        BY <2>3 DEF Complete
      <3> QED
        BY <2>0, <3>3, <3>4, <3>5
    <2>4. ASSUME NEW c \in claims, NEW error \in Error, Fail(c, error) \/ FailAndCrash(c, error)
          PROVE  Inv'
      <3>1. FailUpdate(c, error)
        BY <2>4 DEF Fail, FailAndCrash
      <3>2. c.task \in Task /\ tasks[c.task].status = "running"
        BY <1>2, <3>1, FailWrites
      <3>3. PICK row : /\ Writes(c.task, row) /\ RowInv(row)
                       /\ row.status \in {"failed", "terminal"}
                       /\ row.attempt = tasks[c.task].attempt
        BY <1>2, <3>1, FailWrites
      <3>4. \A s \in Task : tasks'[s] = IF s = c.task THEN row ELSE tasks[s]
        BY <1>2, <3>2, <3>3, WriteKeepsTypes
      <3>5. /\ CountedOnce(failure_records[c.task], row)
            /\ CountedOnce(Append(failure_records[c.task], tasks[c.task].attempt), row)
        BY <2>0, <3>2, <3>3, MovingOnCounts, AppendCounts DEF RowInv
      <3>6. CASE Fail(c, error)
        <4>1. \A s \in Task : failure_records'[s] =
                 IF s = c.task THEN Append(failure_records[c.task], tasks[c.task].attempt)
                 ELSE failure_records[s]
          BY <1>2, <3>2, <3>6 DEF Fail, TypeInv, TypeOK
        <4> QED
          BY <2>0, <3>4, <3>5, <4>1
      <3>7. CASE FailAndCrash(c, error)
        <4>1. failure_records' = failure_records
          BY <3>7 DEF FailAndCrash
        <4> QED
          BY <2>0, <3>4, <3>5, <4>1
      <3> QED
        BY <2>4, <3>6, <3>7
    <2>5. ASSUME NEW w \in Worker, NEW t \in Task, NEW lease \in Lease, Heartbeat(w, t, lease)
          PROVE  Inv'
      <3>1. PICK row : /\ Writes(t, row) /\ RowInv(row)
                       /\ row.status = tasks[t].status /\ row.attempt = tasks[t].attempt
        BY <1>2, <2>5, HeartbeatWrites
      <3>2. \A s \in Task : tasks'[s] = IF s = t THEN row ELSE tasks[s]
        BY <1>2, <3>1, WriteKeepsTypes
      <3>3. CountedOnce(failure_records[t], row)
        BY <2>0, <3>1, MovingOnCounts DEF RowInv
      <3>4. failure_records' = failure_records
        BY <2>5 DEF Heartbeat
      <3> QED
        BY <2>0, <3>2, <3>3, <3>4
    <2>6. ASSUME NEW digests \in SUBSET Task, RegisterDataset(digests)
          PROVE  Inv'
      <3>1. \A s \in Task : /\ tasks'[s] \in TaskRow
                            /\ tasks'[s].attempt = tasks[s].attempt
                            /\ tasks'[s].status \in {tasks[s].status, "pending"}
        BY <1>2, <2>6, RegisterWrites
      <3>2. failure_records' = failure_records
        BY <2>6 DEF RegisterDataset
      <3> QED
        BY <2>0, <3>1, <3>2, MovingOnCounts
    <2>7. CASE Tick
      BY <1>2, <2>7 DEF Tick
    <2>8. CASE UNCHANGED vars
      BY <1>2, <2>8 DEF vars
    <2> QED
      BY <1>2, <2>1, <2>2, <2>3, <2>4, <2>5, <2>6, <2>7, <2>8 DEF Next, Begin, Resolve
  <1>3. Inv => FailureCountedOnce
    BY DEF FailureCountedOnce, CountedOnce
  <1> HIDE DEF Inv
  <1> QED
    BY <1>1, <1>2, <1>3, TypeInvariant, PTL DEF Spec

-----------------------------------------------------------------------------
(* Terminal tasks *)

\* TerminalHasCause, for one row.
Caused(row) ==
    row.status = "terminal" =>
        \/ \E p \in Policy : row.attempt >= p.max_attempts
        \/ row.error # NoError /\ ~Retryable(row.retry, row.error)

\* A task becomes terminal by an error that the policy of its attempt does not
\* retry or by attempts used up, and a later registration does not change why.
THEOREM TerminalTasksHaveCause == Spec => []TerminalHasCause
  <1> DEFINE Inv == \A t \in Task : Caused(tasks[t])
  <1>1. Init => Inv
    BY DEF Init, NoRow, Caused
  <1>2. ASSUME TypeInv, Inv, [Next]_vars
        PROVE  Inv'
    <2>0. \A t \in Task : Caused(tasks[t])
      BY <1>2
    <2>1. ASSUME NEW t \in Task, NEW policy \in Policy, BeginExhausted(t, policy)
          PROVE  Inv'
      <3>1. tasks[t].attempt >= policy.max_attempts
        BY <1>2, <2>1, ExhaustedWrites
      <3>2. PICK row : Writes(t, row) /\ RowInv(row) /\ row.attempt = tasks[t].attempt
        BY <1>2, <2>1, ExhaustedWrites
      <3> QED
        BY <1>2, <2>0, <3>1, <3>2, WriteKeepsTypes DEF Caused
    <2>2. ASSUME NEW w \in Worker, NEW t \in Task, NEW policy \in Policy, NEW lease \in Lease,
                 BeginExecute(w, t, policy, lease) \/ BeginInsert(w, t, policy, lease)
          PROVE  Inv'
      <3>1. /\ Grant(w, t, policy, lease)
            /\ tasks[t].attempt = 0 \/ tasks[t].attempt < policy.max_attempts
        BY <1>2, <2>2, BeginWrites
      <3>2. PICK row : Writes(t, row) /\ RowInv(row) /\ row.status = "running"
        BY <1>2, <3>1, GrantWrites
      <3> QED
        BY <1>2, <2>0, <3>2, WriteKeepsTypes DEF Caused
    <2>3. ASSUME NEW c \in claims, Complete(c)
          PROVE  Inv'
      <3>1. c.task \in Task /\ \E row : Writes(c.task, row) /\ RowInv(row) /\ row.status = "succeeded"
        BY <1>2, <2>3, CompleteWrites
      <3> QED
        BY <1>2, <2>0, <3>1, WriteKeepsTypes DEF Caused
    <2>4. ASSUME NEW c \in claims, NEW error \in Error, Fail(c, error) \/ FailAndCrash(c, error)
          PROVE  Inv'
      <3>1. FailUpdate(c, error)
        BY <2>4 DEF Fail, FailAndCrash
      <3>2. c.task \in Task
        BY <1>2, <3>1, FailWrites
      <3>3. PICK row : /\ Writes(c.task, row) /\ RowInv(row) /\ row.error = error
                       /\ row.status = IF Retryable(row.retry, error) THEN "failed" ELSE "terminal"
        BY <1>2, <3>1, FailWrites
      <3>4. Caused(row)
        BY <3>3, ErrorAssumption DEF Caused
      <3> QED
        BY <1>2, <2>0, <3>2, <3>3, <3>4, WriteKeepsTypes
    <2>5. ASSUME NEW w \in Worker, NEW t \in Task, NEW lease \in Lease, Heartbeat(w, t, lease)
          PROVE  Inv'
      <3>1. PICK row : Writes(t, row) /\ RowInv(row) /\ row.status = "running"
        BY <1>2, <2>5, HeartbeatWrites
      <3> QED
        BY <1>2, <2>0, <3>1, WriteKeepsTypes DEF Caused
    <2>6. ASSUME NEW digests \in SUBSET Task, RegisterDataset(digests)
          PROVE  Inv'
      <3>1. \A t \in Task : tasks'[t].status = "terminal" =>
               /\ tasks[t].status = "terminal"
               /\ tasks'[t].attempt = tasks[t].attempt
               /\ tasks'[t].retry = tasks[t].retry
               /\ tasks'[t].error = tasks[t].error
        BY <1>2, <2>6, RegisterWrites
      <3> QED
        BY <2>0, <3>1 DEF Caused
    <2>7. CASE Tick
      BY <1>2, <2>7 DEF Tick
    <2>8. CASE UNCHANGED vars
      BY <1>2, <2>8 DEF vars
    <2> QED
      BY <1>2, <2>1, <2>2, <2>3, <2>4, <2>5, <2>6, <2>7, <2>8 DEF Next, Begin, Resolve
  <1>3. Inv => TerminalHasCause
    BY DEF TerminalHasCause, Caused
  <1> HIDE DEF Inv
  <1> QED
    BY <1>1, <1>2, <1>3, TypeInvariant, PTL DEF Spec

-----------------------------------------------------------------------------
(* The current dataset *)

\* No row is of a generation still to come, so a registration separates its
\* digests from all other rows, the first one excepted: rows that begin inserts
\* are of generation 1.
DatasetInv ==
    /\ \A t \in Task : tasks[t].generation <= 1 \/ tasks[t].generation <= generation
    /\ generation >= 1 =>
          \A t \in registered : tasks[t].status # "absent" /\ tasks[t].generation = generation
    /\ generation >= 2 => \A t \in Task : tasks[t].generation = generation => t \in registered

\* A step that registers nothing, moves no row to another generation and removes
\* no row.
LEMMA SameDataset ==
    ASSUME TypeInv, DatasetInv, generation' = generation, registered' = registered,
           \A t \in Task : /\ tasks'[t].generation = tasks[t].generation
                           /\ tasks[t].status # "absent" => tasks'[t].status # "absent"
    PROVE  DatasetInv'
  BY DEF DatasetInv, TypeInv, TypeOK

\* The rows of a registration are in its generation, and no others are.
LEMMA RegisteringSeparates ==
    ASSUME TypeInv, DatasetInv, NEW digests \in SUBSET Task, RegisterDataset(digests)
    PROVE  DatasetInv'
  <1>1. generation' = generation + 1 /\ registered' = digests /\ digests \subseteq Task
    BY Zenon DEF RegisterDataset
  <1>2. generation \in Nat /\ \A t \in Task : tasks[t].generation \in Nat
    BY DEF TypeInv, TypeOK, TaskRow
  <1>3. \A t \in Task : t \notin digests => tasks'[t] = tasks[t]
    BY RegisterWrites
  <1>4. \A t \in digests : tasks'[t].generation = generation + 1 /\ tasks'[t].status # "absent"
    BY RegisterWrites
  <1> QED
    BY <1>1, <1>2, <1>3, <1>4 DEF DatasetInv

LEMMA DatasetIsCurrent == TypeInv /\ DatasetInv => CurrentDataset
  <1> SUFFICES ASSUME TypeInv, DatasetInv PROVE CurrentDataset
    OBVIOUS
  <1>1. generation \in Nat /\ registered \subseteq Task
    BY DEF TypeInv, TypeOK
  <1>2. ASSUME NEW t \in registered, generation >= 1
        PROVE  Current(t)
    BY <1>1, <1>2 DEF DatasetInv, Current
  <1>3. ASSUME NEW t \in Task, Current(t), generation >= 2
        PROVE  t \in registered
    BY <1>1, <1>3 DEF DatasetInv, Current
  <1> QED
    BY <1>1, <1>2, <1>3 DEF CurrentDataset

\* The digests of the latest registration are in the current dataset, and nothing
\* else is from the second registration on.
THEOREM CurrentDatasetIsRegistered == Spec => []CurrentDataset
  <1> DEFINE Kept == \A t \in Task : /\ tasks'[t].generation = tasks[t].generation
                                     /\ tasks[t].status # "absent" => tasks'[t].status # "absent"
  <1>1. Init => DatasetInv
    BY DEF Init, NoRow, DatasetInv
  <1>2. ASSUME TypeInv, DatasetInv, [Next]_vars
        PROVE  DatasetInv'
    <2>1. ASSUME NEW t \in Task, NEW policy \in Policy, BeginExhausted(t, policy)
          PROVE  DatasetInv'
      <3>1. PICK row : /\ Writes(t, row) /\ RowInv(row)
                       /\ row.status = "terminal" /\ row.generation = tasks[t].generation
        BY <1>2, <2>1, ExhaustedWrites
      <3>2. Kept
        BY <1>2, <3>1, WriteKeepsTypes
      <3> QED
        BY <1>2, <2>1, <3>2, SameDataset DEF BeginExhausted
    <2>2. ASSUME NEW w \in Worker, NEW t \in Task, NEW policy \in Policy, NEW lease \in Lease,
                 BeginExecute(w, t, policy, lease) \/ BeginInsert(w, t, policy, lease)
          PROVE  DatasetInv'
      <3>1. /\ Grant(w, t, policy, lease)
            /\ tasks[t].attempt = 0 \/ tasks[t].attempt < policy.max_attempts
        BY <1>2, <2>2, BeginWrites
      <3>2. PICK row : /\ Writes(t, row) /\ RowInv(row)
                       /\ row.status = "running" /\ row.generation = tasks[t].generation
        BY <1>2, <3>1, GrantWrites
      <3>3. Kept
        BY <1>2, <3>2, WriteKeepsTypes
      <3> QED
        BY <1>2, <3>1, <3>3, SameDataset DEF Grant, GrantAs
    <2>3. ASSUME NEW c \in claims, Complete(c)
          PROVE  DatasetInv'
      <3>1. /\ c.task \in Task
            /\ \E row : /\ Writes(c.task, row) /\ RowInv(row) /\ row.status = "succeeded"
                        /\ row.generation = tasks[c.task].generation
        BY <1>2, <2>3, CompleteWrites
      <3>2. Kept
        BY <1>2, <3>1, WriteKeepsTypes
      <3> QED
        BY <1>2, <2>3, <3>2, SameDataset DEF Complete
    <2>4. ASSUME NEW c \in claims, NEW error \in Error, Fail(c, error) \/ FailAndCrash(c, error)
          PROVE  DatasetInv'
      <3>1. FailUpdate(c, error)
        BY <2>4 DEF Fail, FailAndCrash
      <3>2. /\ c.task \in Task
            /\ \E row : /\ Writes(c.task, row) /\ RowInv(row)
                        /\ row.status \in {"failed", "terminal"}
                        /\ row.generation = tasks[c.task].generation
        BY <1>2, <3>1, FailWrites
      <3>3. Kept
        BY <1>2, <3>2, WriteKeepsTypes
      <3> QED
        BY <1>2, <3>1, <3>3, SameDataset DEF FailUpdate, FailUpdateAt
    <2>5. ASSUME NEW w \in Worker, NEW t \in Task, NEW lease \in Lease, Heartbeat(w, t, lease)
          PROVE  DatasetInv'
      <3>1. PICK row : /\ Writes(t, row) /\ RowInv(row)
                       /\ row.status = "running" /\ row.generation = tasks[t].generation
        BY <1>2, <2>5, HeartbeatWrites
      <3>2. Kept
        BY <1>2, <3>1, WriteKeepsTypes
      <3> QED
        BY <1>2, <2>5, <3>2, SameDataset DEF Heartbeat
    <2>6. ASSUME NEW digests \in SUBSET Task, RegisterDataset(digests)
          PROVE  DatasetInv'
      BY <1>2, <2>6, RegisteringSeparates
    <2>7. CASE Tick
      BY <1>2, <2>7, SameDataset DEF Tick
    <2>8. CASE UNCHANGED vars
      BY <1>2, <2>8, SameDataset DEF vars
    <2> QED
      BY <1>2, <2>1, <2>2, <2>3, <2>4, <2>5, <2>6, <2>7, <2>8 DEF Next, Begin, Resolve
  <1> QED
    BY <1>1, <1>2, DatasetIsCurrent, TypeInvariant, PTL DEF Spec

=============================================================================
