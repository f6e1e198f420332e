----------------------------- MODULE TaskStore -----------------------------
(***************************************************************************)
(* The task table of the durable store (core/src/sqlite.rs, struct         *)
(* SqliteStore) for one (run_id, kind): the rows that `begin`, `complete`, *)
(* `fail`, `heartbeat` and `register_dataset` read and write, the dataset  *)
(* generation and the failure records.                                     *)
(*                                                                         *)
(* Every handler holds the process-wide connection mutex from its first    *)
(* read to its last write, so a handler is one action.  `fail` is the      *)
(* exception: it commits its UPDATE and its INSERT separately, so a crash  *)
(* of the server can leave the first without the second (FailAndCrash).    *)
(* A server crash has no other effect: the store keeps nothing in memory.  *)
(*                                                                         *)
(* Time is in whole seconds, as in the table: a stamp is written by        *)
(* datetime('now', '+N seconds'), which truncates, and a stamp s is in the *)
(* future of an instant exactly when it is greater than that instant's     *)
(* whole second.  Stamp 0 stands for NULL.                                 *)
(*                                                                         *)
(* An output is identified by the attempt that computed it.                *)
(***************************************************************************)
EXTENDS Integers, Sequences, FiniteSets

CONSTANTS
    Task,              \* input digests of this (run_id, kind)
    Worker,            \* the clients of the store
    Fenced,            \* the clients that send worker_id and attempt
    Policy,            \* the retry policies that requests carry
    DefaultPolicy,     \* what an empty retry_json parses to
    Error,             \* the errors that failed attempts report
    Lease,             \* the values of lease_seconds in requests
    BackoffSecs(_, _), \* policy, attempt -> possible delays, in seconds
    MaxAttempts,       \* bound on max_attempts over Policy
    MaxTime,           \* bound on the clock
    MaxGeneration,     \* bound on the number of registrations
    NoWorker,          \* SQL NULL in a worker_id or lease_owner
    NoError            \* SQL NULL in error_json

VARIABLES
    tasks,             \* the rows of table tasks
    generation,        \* datasets.generation; 0: no row in table datasets
    failure_records,   \* per task, the attempts of its failure_records rows
    now,               \* the clock, in whole seconds
    claims,            \* history: the claims that begin has handed out
    deadline,          \* per worker and task, the lease end it was last told
    registered         \* history: the digests of the latest registration

vars == <<tasks, generation, failure_records, now, claims, deadline, registered>>

NoStamp == 0
NoAttempt == 0
NoOutput == 0

Status == {"absent", "pending", "running", "failed", "succeeded", "terminal"}
Resolved == {"succeeded", "terminal"}
Retryability == {"unset", "true", "false"}

ASSUME WorkerAssumption == Fenced \subseteq Worker /\ NoWorker \notin Worker
ASSUME PolicyAssumption ==
    /\ DefaultPolicy \in Policy
    /\ MaxAttempts \in Nat \ {0}
    /\ \A p \in Policy : p.max_attempts \in 0..MaxAttempts
    /\ \A p \in Policy, a \in 1..MaxAttempts :
          BackoffSecs(p, a) # {} /\ \A secs \in BackoffSecs(p, a) : secs \in Nat
ASSUME ErrorAssumption ==
    NoError \notin Error /\ \A e \in Error : e.retryable \in Retryability
ASSUME TimeAssumption ==
    MaxTime \in Nat /\ MaxGeneration \in Nat /\ \A l \in Lease : l \in Nat

TaskRow ==
    [status : Status, attempt : Nat, lease_owner : Worker \cup {NoWorker},
     lease_expires_at : Nat, retry_at : Nat, retry : Policy,
     output : Nat, error : Error \cup {NoError}, generation : Nat]
Claim == [task : Task, worker : Worker, attempt : Nat \ {0}]

TypeOK ==
    /\ tasks \in [Task -> TaskRow]
    /\ generation \in Nat
    /\ failure_records \in [Task -> Seq(Nat)]
    /\ now \in Nat
    /\ claims \in SUBSET Claim
    /\ deadline \in [Worker -> [Task -> Nat]]
    /\ registered \in SUBSET Task

-----------------------------------------------------------------------------
\* A row that is not in the table; its generation is the column's DEFAULT.
NoRow ==
    [status |-> "absent", attempt |-> 0, lease_owner |-> NoWorker,
     lease_expires_at |-> NoStamp, retry_at |-> NoStamp, retry |-> DefaultPolicy,
     output |-> NoOutput, error |-> NoError, generation |-> 1]

Init ==
    /\ tasks = [t \in Task |-> NoRow]
    /\ generation = 0
    /\ failure_records = [t \in Task |-> <<>>]
    /\ now = 1
    /\ claims = {}
    /\ deadline = [w \in Worker |-> [t \in Task |-> NoStamp]]
    /\ registered = {}

InFuture(stamp) == stamp > now

\* What a client puts into the optional request fields worker_id and attempt.
SentWorker(w) == IF w \in Fenced THEN w ELSE NoWorker
SentAttempt(c) == IF c.worker \in Fenced THEN c.attempt ELSE NoAttempt

-----------------------------------------------------------------------------
(* begin: the branches of the match, in the order the code tries them. The  *)
(* predicates are the answers it gives, the actions the ones that write.    *)

SkipsCompleted(t) == tasks[t].status = "succeeded"
IsTerminal(t) == tasks[t].status = "terminal"
\* Mutant: off by one second, the last second of a lease does not count.
LeaseActiveShort(t) == tasks[t].status = "running" /\ InFuture(tasks[t].lease_expires_at - 1)
LeaseActive(t) == tasks[t].status = "running" /\ InFuture(tasks[t].lease_expires_at)

\* The row exists and none of the three answers above applies.
Claimable(t) ==
    /\ tasks[t].status \in {"pending", "running", "failed"}
    /\ ~LeaseActive(t)

\* Mutants: the ceiling is one too high, or one too low.
ExhaustedLate(t, policy) == Claimable(t) /\ tasks[t].attempt > policy.max_attempts
ExhaustedEarly(t, policy) == Claimable(t) /\ tasks[t].attempt + 1 >= policy.max_attempts

Exhausted(t, policy) ==
    Claimable(t) /\ tasks[t].attempt >= policy.max_attempts

RetryPending(t, policy) ==
    /\ Claimable(t)
    /\ ~Exhausted(t, policy)
    /\ tasks[t].status = "failed"
    /\ InFuture(tasks[t].retry_at)

\* The claim of attempt number `attempt`, with a lease until lease_end.
GrantAs(w, t, policy, lease_end, attempt) ==
    /\ tasks' = [tasks EXCEPT ![t] =
           [@ EXCEPT !.status = "running",
                     !.attempt = attempt,
                     !.lease_owner = SentWorker(w),
                     !.lease_expires_at = lease_end,
                     !.retry_at = NoStamp,
                     !.retry = policy]]
    /\ claims' = claims \cup {[task |-> t, worker |-> w, attempt |-> attempt]}
    /\ deadline' = [deadline EXCEPT ![w][t] = lease_end]
    /\ UNCHANGED <<generation, failure_records, now, registered>>

Grant(w, t, policy, lease) == GrantAs(w, t, policy, now + lease, tasks[t].attempt + 1)

\* Mutant: writes a status that no reader knows.
BeginExhaustedUnknown(t, policy) ==
    /\ Exhausted(t, policy)
    /\ tasks' = [tasks EXCEPT ![t].status = "exhausted"]
    /\ UNCHANGED <<generation, failure_records, now, claims, deadline, registered>>

\* The attempt ceiling, enforced here and not in fail.
BeginExhausted(t, policy) ==
    /\ Exhausted(t, policy)
    /\ tasks' = [tasks EXCEPT ![t].status = "terminal"]
    /\ UNCHANGED <<generation, failure_records, now, claims, deadline, registered>>

\* A pending, failed or expired row is claimed under the next attempt number.
BeginExecute(w, t, policy, lease) ==
    /\ Claimable(t)
    /\ ~Exhausted(t, policy)
    /\ ~RetryPending(t, policy)
    /\ Grant(w, t, policy, lease)

\* No row yet (a step, or a task begun before its dataset is registered): the
\* INSERT does not look at max_attempts.
BeginInsert(w, t, policy, lease) ==
    /\ tasks[t].status = "absent"
    /\ Grant(w, t, policy, lease)

-----------------------------------------------------------------------------
(* complete, fail and heartbeat.  A client may send them late or again: any  *)
(* claim ever handed out may be used at any time.  A request that does not   *)
(* match the row gets TaskClaimLost and changes nothing.                     *)

\* Mutants: the WHERE clause without its status, and without its attempt.
HoldsClaimAnyStatus(c) ==
    /\ SentAttempt(c) \in {NoAttempt, tasks[c.task].attempt}
    /\ SentWorker(c.worker) \in {NoWorker, tasks[c.task].lease_owner}
HoldsClaimAnyAttempt(c) ==
    /\ tasks[c.task].status = "running"
    /\ SentWorker(c.worker) \in {NoWorker, tasks[c.task].lease_owner}

HoldsClaim(c) ==
    /\ tasks[c.task].status = "running"
    /\ SentAttempt(c) \in {NoAttempt, tasks[c.task].attempt}
    /\ SentWorker(c.worker) \in {NoWorker, tasks[c.task].lease_owner}

Complete(c) ==
    /\ HoldsClaim(c)
    /\ tasks' = [tasks EXCEPT ![c.task] =
           [@ EXCEPT !.status = "succeeded",
                     !.output = c.attempt,
                     !.error = NoError,
                     !.lease_owner = NoWorker,
                     !.lease_expires_at = NoStamp]]
    /\ deadline' = [deadline EXCEPT ![c.worker][c.task] = NoStamp]
    /\ UNCHANGED <<generation, failure_records, now, claims, registered>>

\* An explicit `retryable` in the error wins over both lists of the policy.
Retryable(policy, error) ==
    \/ error.retryable = "true"
    \/ /\ error.retryable = "unset"
       /\ error.failure_class \in policy.retryable \ policy.terminal

Delays(row, error) ==
    IF Retryable(row.retry, error) THEN BackoffSecs(row.retry, row.attempt) ELSE {0}

\* The UPDATE of fail at the instant `at`; the policy and the attempt number are
\* those of the row that its SELECT has `seen`.
\* Mutant: a retryable failure leaves the row running, with no lease.
FailUpdateRunning(c, error, seen, at) ==
    /\ HoldsClaim(c)
    /\ \E secs \in Delays(seen, error) :
          tasks' = [tasks EXCEPT ![c.task] =
              [@ EXCEPT
                  !.status = IF Retryable(seen.retry, error) THEN "running" ELSE "terminal",
                  !.error = error,
                  !.lease_owner = NoWorker,
                  !.lease_expires_at = NoStamp,
                  !.retry_at = IF secs = 0 THEN NoStamp ELSE at + secs]]
    /\ deadline' = [deadline EXCEPT ![c.worker][c.task] = NoStamp]
    /\ UNCHANGED <<generation, now, claims, registered>>

FailUpdateAt(c, error, seen, at) ==
    /\ HoldsClaim(c)
    /\ \E secs \in Delays(seen, error) :
          tasks' = [tasks EXCEPT ![c.task] =
              [@ EXCEPT
                  !.status = IF Retryable(seen.retry, error) THEN "failed" ELSE "terminal",
                  !.error = error,
                  !.lease_owner = NoWorker,
                  !.lease_expires_at = NoStamp,
                  !.retry_at = IF secs = 0 THEN NoStamp ELSE at + secs]]
    /\ deadline' = [deadline EXCEPT ![c.worker][c.task] = NoStamp]
    /\ UNCHANGED <<generation, now, claims, registered>>

FailUpdate(c, error) == FailUpdateAt(c, error, tasks[c.task], now)

Fail(c, error) ==
    /\ FailUpdate(c, error)
    /\ failure_records' =
           [failure_records EXCEPT ![c.task] = Append(@, tasks[c.task].attempt)]

\* The server dies after the UPDATE committed and before the INSERT.
FailAndCrash(c, error) ==
    /\ FailUpdate(c, error)
    /\ UNCHANGED failure_records

\* Matches on the owner alone: the request carries no attempt, and a lease that
\* has run out but was not taken over is revived.
Heartbeat(w, t, lease) ==
    /\ w \in Fenced
    /\ tasks[t].status = "running"
    /\ tasks[t].lease_owner = w
    /\ tasks' = [tasks EXCEPT ![t].lease_expires_at = now + lease]
    /\ deadline' = [deadline EXCEPT ![w][t] = now + lease]
    /\ UNCHANGED <<generation, failure_records, now, claims, registered>>

-----------------------------------------------------------------------------
(* register_dataset: duplicates in the request collapse, so it is a set.     *)

\* Mutant: a known digest keeps its old generation.
RegisterDatasetKeeps(digests) ==
    /\ generation < MaxGeneration
    /\ generation' = generation + 1
    /\ tasks' = [t \in Task |->
           IF t \notin digests \/ tasks[t].status # "absent" THEN tasks[t]
           ELSE [tasks[t] EXCEPT !.status = "pending", !.generation = generation + 1]]
    /\ registered' = digests
    /\ UNCHANGED <<failure_records, now, claims, deadline>>

RegisterDataset(digests) ==
    /\ generation < MaxGeneration
    /\ generation' = generation + 1
    /\ tasks' = [t \in Task |->
           IF t \notin digests THEN tasks[t]
           ELSE [tasks[t] EXCEPT
                    !.status = IF @ = "absent" THEN "pending" ELSE @,
                    !.generation = generation + 1]]
    /\ registered' = digests
    /\ UNCHANGED <<failure_records, now, claims, deadline>>

\* The rows that list, dataset_summary, summary and export report on.
Current(t) ==
    /\ tasks[t].status # "absent"
    /\ generation = 0 \/ tasks[t].generation = generation

Tick ==
    /\ now < MaxTime
    /\ now' = now + 1
    /\ UNCHANGED <<tasks, generation, failure_records, claims, deadline, registered>>

-----------------------------------------------------------------------------
Begin(w, t) ==
    \E policy \in Policy :
        \/ BeginExhausted(t, policy)
        \/ \E lease \in Lease : BeginExecute(w, t, policy, lease)
        \/ \E lease \in Lease : BeginInsert(w, t, policy, lease)

Resolve(c) ==
    \/ Complete(c)
    \/ \E error \in Error : Fail(c, error)
    \/ \E error \in Error : FailAndCrash(c, error)

Next ==
    \/ \E w \in Worker, t \in Task : Begin(w, t)
    \/ \E c \in claims : Resolve(c)
    \/ \E w \in Worker, t \in Task, lease \in Lease : Heartbeat(w, t, lease)
    \/ \E digests \in SUBSET Task : RegisterDataset(digests)
    \/ Tick

Spec == Init /\ [][Next]_vars

-----------------------------------------------------------------------------
(* Properties *)

\* begin never hands out the same attempt number of a task twice, and every
\* number up to the row's attempt has been handed out.
AttemptGrantedOnce ==
    /\ \A c, d \in claims : c.task = d.task /\ c.attempt = d.attempt => c = d
    /\ \A t \in Task : {c.attempt : c \in {d \in claims : d.task = t}} = 1..tasks[t].attempt

\* Single flight: two different clients never both have grounds to believe that
\* they hold the lease of a task, judging by what begin, heartbeat, complete and
\* fail told each of them.  Holds when every client is fenced.
SingleFlight ==
    \A t \in Task, v, w \in Worker :
        InFuture(deadline[v][t]) /\ InFuture(deadline[w][t]) => v = w

\* Fencing: the stored output was computed by the last attempt handed out; a
\* late completion of an older attempt is never the one that is kept.  Holds
\* when every client is fenced.
OutputOfLastAttempt ==
    \A t \in Task : tasks[t].status = "succeeded" => tasks[t].output = tasks[t].attempt

\* No attempt exceeds the max_attempts of the request that started it, whatever
\* mix of crashes, expired leases, failures and other clients' policies used the
\* attempts up.  The first attempt is exempt: begin's INSERT ignores max_attempts.
AttemptBudget ==
    \A t \in Task : tasks[t].attempt <= 1 \/ tasks[t].attempt <= tasks[t].retry.max_attempts

\* An attempt is counted as failed at most once, never after a later attempt has
\* been, and never when it is the running or the successful one.
FailureCountedOnce ==
    \A t \in Task :
        LET records == failure_records[t] IN
        /\ \A i, j \in DOMAIN records : i < j => records[i] < records[j]
        /\ \A i \in DOMAIN records :
              IF tasks[t].status \in {"running", "succeeded"}
              THEN records[i] < tasks[t].attempt
              ELSE records[i] <= tasks[t].attempt

\* A task only becomes terminal with a cause: an error that its policy does not
\* retry, or attempts used up under the policy of some request.
TerminalHasCause ==
    \A t \in Task : tasks[t].status = "terminal" =>
        \/ \E p \in Policy : tasks[t].attempt >= p.max_attempts
        \/ /\ tasks[t].error # NoError
           /\ ~Retryable(tasks[t].retry, tasks[t].error)

\* A digest of the latest registration is always part of the current dataset, and
\* from the second registration on nothing else is: rows of earlier generations
\* and rows that begin inserted stay out.
CurrentDataset ==
    LET current == {t \in Task : Current(t)} IN
    /\ generation >= 1 => registered \subseteq current
    /\ generation >= 2 => current = registered

\* A succeeded or terminal task keeps its status, attempt and output for good,
\* through late requests, expired leases and new registrations.
ResolvedIsFinal ==
    [][\A t \in Task : tasks[t].status \in Resolved =>
          /\ tasks'[t].status = tasks[t].status
          /\ tasks'[t].attempt = tasks[t].attempt
          /\ tasks'[t].output = tasks[t].output]_vars

-----------------------------------------------------------------------------
(* The store implements DurableTask: leases, retries, registrations, late    *)
(* requests and crashes only ever start an attempt, finish the task with the *)
(* last attempt's output, give it up, or leave it as it is.  Holds when      *)
(* every client is fenced.                                                   *)

StartedOf == [t \in Task |-> tasks[t].attempt]
ResultFor(status) ==
    CASE status = "succeeded" -> "done"
      [] status = "terminal" -> "failed"
      [] OTHER -> "open"
ResultOf == [t \in Task |-> ResultFor(tasks[t].status)]
OutputOf == [t \in Task |-> tasks[t].output]

Durable == INSTANCE DurableTask
    WITH started <- StartedOf, result <- ResultOf, output <- OutputOf

\* Every step of the store is a step of DurableTask or leaves it unchanged.
ImplementsDurableTask == Durable!Spec

=============================================================================
