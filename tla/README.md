# durable-evals in TLA+

durable-evals runs evaluation scripts ("harnesses") so that a crash, an exception
or a second run does not repeat finished work. This directory holds a model of it,
model-checked with TLC, and proofs about the model checked with TLAPS. Paths below
are relative to the root of the repository (`src/` in the maps of PROJECT.json).

## 1. The system

A Python process (the harness) uses the client library
(`src/clients/python/src/durable_evals`). The client talks HTTP to a Rust server
(`src/server/src/main.rs`), whose handlers call a store (`src/core/src/sqlite.rs`)
that keeps everything in one SQLite file. The unit of work is a *task*, identified
by `(run_id, kind, input_digest)`; `kind` is the name of a dataset or of a step.

| part | state | operations | correct when |
|---|---|---|---|
| task store (`sqlite.rs`, `types.rs`) | tables `tasks`, `datasets`, `failure_records` | `begin`, `complete`, `fail`, `heartbeat`, `register_dataset` | one lease holder per task; a kept result is never lost, replaced or reopened; attempts bounded by the policy; failures counted once |
| dataset harness (`eval.py` `Dataset`) | per digest: attempt, outputs, what `setup` acquired | `map`, `amap`, lifecycle hooks | reported outputs are the stored ones; None has a reason; what is acquired is released; a map ends |
| steps (`step.py`) | none of its own | decorated method call | as for datasets; `in_progress` and `failed_terminal` raise |
| memos (`eval.py`, `sqlite.rs`) | table `memos`; call counter of a `TaskContext` | `memo`, `amemo`, `ctx.run` | a replay returns the stored value of the same call |
| startup (`runtime.py`) | `runtime.json`, `runtime.lock/` | `ensure_started`, `_startup_lock`, `_spawn` | one server per storage directory |
| HTTP (`runtime.py`, `main.rs`) | connection pool | one route per store operation | answers are the store's; errors become exceptions |
| reports (`sqlite.rs`) | none | `list`, `dataset_summary`, `summary`, `export` | counts and rows of the current dataset; what is counted under several locks does not overstate |
| runs (`sqlite.rs`) | table `runs` | `register_run` | a summary names the run that it counts |
| traces (`sqlite.rs`, `eval.py`) | table `trace_events` | `add_trace_event`, `list_trace_events` | the events of an attempt are numbered 1, 2, ... and listed in that order |
| backoff (`types.rs`) | none | `backoff_delay_ms` | the documented delay, never wrapped around; retried not a second early, and in the end |
| classification (`errors.py`) | none | `error_info` | documented precedence |
| CLI (`main.rs`) | one server process per `serve` or `run` | `serve`, `run` | several processes on one file keep the promises of one |

The hard part is what happens between the calls. A server serialises its handlers with
one mutex, but some release it and take it again, several servers may work on one file,
with SQLite's file locks between their statements, and a client's begin, callback and
complete are separate calls with any amount of time between them: leases run out,
another run takes a task over, late requests arrive, runs and servers die.
`PROJECT.json` lists the hazards at their lines, with the properties that cover them.

## 2. The modules

| module | what it is |
|---|---|
| `TaskStore` | the store's task tables for one `(run_id, kind)`; one action per branch of each handler that writes |
| `DurableTask` | the abstract promise about a task: Start, Finish, GiveUp |
| `Harness` | EXTENDS `TaskStore`: any number of runs of a script that maps a dataset or calls steps, with the faults that calls and processes have |
| `Memo` | the memoized calls of one task's callback, for any number of executions of it |
| `StartupLock` | the processes that start the server of one storage directory |
| `Reports` | EXTENDS `TaskStore`: what the store says about its tasks, read under one lock or several, and the runs table |
| `SharedStore` | EXTENDS `TaskStore`: several servers on one file, statement by statement under SQLite's locks, with the trace events |
| `Backoff` | the arithmetic of a delay: saturation, cap, jitter, rounding, stamp |
| `RetryClock` | EXTENDS `Backoff`: failures and retries of one task against a clock finer than a second |
| `MCTaskStore`, `MCHarness`, `MCMemo`, `MCStartupLock`, `MCReports`, `MCSharedStore`, `MCRetryClock` | instances for TLC |
| `TaskStoreProofs` | theorems about every store: types, budgets, attempts, failure records, terminal tasks, generations |
| `TaskStoreFencedProofs` | theorems about stores whose clients are all fenced |
| `SharedStoreProofs` | theorems about any number of servers on one file |
| `ReportsProofs` | theorems on what the store says about its tasks, for any task lists and clients |
| `RetryClockProofs` | theorems on delays and retries, for any word size |
| `HarnessProofs` | that harnesses use the store as specified, and what they report, leave undecided, use up and release |
| `MemoProofs`, `StartupLockProofs` | theorems about replay and about starting |

`Harness` is the composition of clients and store: its actions conjoin those of
`TaskStore`, so a client never does to the store what the store does not specify.
`Reports` adds readers to the same actions. `SharedStore` splits the actions of
`TaskStore` at the statements of their SQL and uses the parts: its commits are the writes
of `TaskStore`. The delays of the run fenced are computed by `Backoff`. `Memo`
takes from the store only that several executions of a callback may exist, one after
another or overlapping, which `Harness` shows to be so (run single_flight).
`StartupLock` comes before all of them and shares no state with them.

### TaskStore

`tasks` is the row of each digest (`status` is "absent" when there is none),
`generation` the row of `datasets`, `failure_records` the attempts recorded per task,
`now` the wall clock. Two history variables and one client-side variable state
properties: `claims`, every (task, worker, attempt) that begin handed out;
`registered`, the digests of the latest registration; `deadline[w][t]`, the end of
the lease that client w was last told by begin or heartbeat, cleared when its
complete or fail is accepted. No guard of a handler reads them, except that a client
can only complete or fail a claim it was given (`\E c \in claims`).

| code | definition |
|---|---|
| `begin` answers skip_completed, failed_terminal, in_progress, retry_later | predicates `SkipsCompleted`, `IsTerminal`, `LeaseActive`, `RetryPending`: these branches write nothing |
| `begin`, attempts used up | `BeginExhausted` |
| `begin`, claim of an existing row / of no row | `BeginExecute` / `BeginInsert`, both `Grant` |
| `complete`, `fail` | `Complete`, `Fail`, guarded by `HoldsClaim`; the refusal changes nothing |
| a server killed between the two writes of `fail` | `FailAndCrash` |
| `heartbeat`, `register_dataset` | `Heartbeat`, `RegisterDataset` |

A handler holds the connection mutex from first read to last write, so it is one
action. Nothing but the database survives or matters to the store, so a server
restart by itself is a stutter. Requests in flight need no network variable in this
module: every claim ever given may be used at any later time, again and again, which
is every delay, duplication and reordering there is.

Optional request fields: a worker in `Fenced` sends `worker_id` and `attempt`, as the
Python client does; another sends neither, which the HTTP interface allows.

Time is in whole seconds. `datetime('now', '+N seconds')` writes whole seconds, and a
stamp is in the future of an instant exactly when it exceeds the whole second of that
instant, so `now` and the stamps here are what the server compares. What whole seconds
do not show is that a stamp is counted from the beginning of the second in which it was
written: a lease is up to a second shorter than `lease_seconds`, and a backoff than its
delay. RetryClock is about the backoff. A lease that ends within the last second would
matter to a client that counts its own seconds; the library's clients do not look at
their leases, and it is not modelled. The delay itself is the constant operator
`BackoffSecs`, any set of naturals here and the delays of Backoff in the run fenced.
Stamp 0 is NULL.

An output is represented by the number of the attempt that computed it, which is what
tells a stale result from a fresh one.

### Harness

Every `DurableEval` object has a fresh `worker_id` (`eval.py:135`), so a member of
`Worker` is one run of the script; a rerun is another worker. Per run and digest there
is one thread, `pc[w][t]`, at one of these places:

    idle -> queued -> begin -> setup -> run -> complete -> done -> returned
                        ^ |                |
                  sleep-+ |                +-> fail -> cleanup -> begin
                          +-> returned (skip_completed, in_progress, failed_terminal)

and it ends early as `raised` (an exception left the thread), `lost_*` (its call
raised, and the request may still arrive: `ArriveLate`), `dead` (the run was killed)
or `dropped` (never started). `outputs` is the list that `map` returns, `held` whether
what setup acquired is still there.

`Concurrency` bounds the threads that are past `queued`; it stands for the pool size
and for the semaphore of `amap`. `kind`, chosen in the initial state, says who works on
the tasks: a "loop" is `map(concurrency=1)`, which stops at an exception and never
starts the later digests; a "pool" is the thread pool or `amap`, whose other digests go
on; a "step" is described below. `amap`'s gather lets the exception out while
the others run; if the event loop is then closed they are cancelled wherever they
are, which is `Crash`. The harness of the library registers its whole dataset and then
begins only registered digests, so `BeginInsert` does not occur in this module; it is
exercised by the runs fenced, shared and reports and by steps.

A step (`step.py`) is the same thread without registration and hooks. `CallStep` begins
it; where a map leaves None (in_progress, failed_terminal) a step raises; it goes from
begin to run, and from fail back to begin. A run calls a step at most once per digest: a
second call with the same arguments is a begin on a finished row, which other runs show.

The user's callbacks return, raise an Exception, or end the thread without a record
(`RaisesUnrecorded`: an awaitable returned to a sync map, a result that is not JSON, a
classify hook that raises).

### Reports

The readers write nothing, so what can be wrong is when they read. `report[r]` is the
request that client r is in the middle of, or its last answer.

| code | definition |
|---|---|
| `register_dataset`, the transaction; identical inputs collapse | `RegisterItems`, `FirstOccurrence` |
| `register_dataset`, the answer, counted after the lock was released | `Register`, then `AnswerRegistration` |
| `list`, its filters and its order | `Listed`, `ListedBefore`, `List` |
| `summary`: the run, the tasks, the failures, under a lock each and in that order | `SummaryRun`, `SummaryTasks`, `SummaryFailures` |
| `export` | `Listed` without filters |
| `register_run` | `RegisterRun` |
| the server dies in the middle of a request | `Abandon`, `CrashInFail` |

`RegisterElsewhere` is the registration of another client. Its own answer is left out;
it is there to come between the two halves of the first. Failures are counted together,
since a class is a column that is only copied. `RegisterRun` and the configuration of a
run are there so that `summary` makes its three reads; no property is about the
configuration. `seen`, `request` and `unrecorded` are history.

### SharedStore

Two `serve`s on one file, or a `run` next to a `serve`, are two processes with a mutex
each. A handler is then a sequence of statements, and `handler[s]` is the one that
server s is working on: its stage, its request and what its SELECT returned.

| code | stages and actions |
|---|---|
| `begin`: a transaction that starts with a SELECT | reading (`BeginReads`), writing (`BeginLocks`), `Commit` |
| `complete`, `heartbeat`, `register_dataset`: transactions that start with a write | writing (`Locks`), `Commit` |
| `fail`: SELECT, UPDATE and INSERT outside of a transaction | looked (`FailReads`), writing (`FailLocks`), `Commit`, unrecorded, writing (`RecordLocks`), `Commit` |
| `add_trace_event`: SELECT and INSERT outside of a transaction | looked (`TraceReads`), writing (`TraceLocks`), `CommitTrace` |

SQLite is modelled as the code uses it: nothing in the repository sets a journal mode or
a timeout, so it is the rollback journal with the busy timeout of 5 s that the library
sets. Reading is SHARED, writing is RESERVED, pending is PENDING; a transaction that has
read and then wants to write while somebody else does gets SQLITE_BUSY at once
(`BeginIsBusy`), everybody else waits. `Stop` is a server that is killed or a wait that
times out: whatever was not committed is rolled back, and what a `fail` committed before
stays. An answer of `begin` that writes nothing is a stutter. `at` is the instant of the
statement that writes, since `datetime('now')` is evaluated there and not at the commit.
The trace events are those of one attempt; they share nothing with the tasks but the
locks.

### Backoff and RetryClock

`BackoffDelay` translates `backoff_delay_ms` on words of any size (`WordMax`; u64 in the
code), `DelaySecs` the rounding up that `fail` does, `RetryAt` the stamp, NULL if it lies
beyond the last second that SQLite can write. RetryClock puts them to use: one task, one
client, and a clock of `PerSecond` ticks per second, which shows what TaskStore cannot.
A task fails in the middle of a second, its stamp is the beginning of one, and the client
sleeps for the difference of the two clocks (`time.sleep` in `eval.py`). `Rerun` is a
client that asks early. No lease runs out here, and client and server agree on the time,
as they do on one machine.

### Memo

A callback makes `Calls` memoized calls in turn; `memos[i]` is the value stored under the
key of the i-th, `results[e]` what execution `e` has been given so far. A value is named
by the execution that computed it, which tells a value replayed from one computed anew.

| code | definition |
|---|---|
| `_next_key` (`eval.py`) | `Seqno`: the position of the next call |
| `memo_get`, found / not found | `Found`, `NotFound` |
| the user's function returns / raises and the callback catches it | `Compute`, `Caught` |
| `memo_put` (an upsert) | `Put`, `PutRaises`, `PutArrivesLate` |
| the callback raises, or the process is killed | `End` |

The sync and async forms do the same three steps. The name that `ctx.run` adds to a key
is taken to depend on the position alone: a callback that names the i-th call
differently in two executions simply does not replay it. Explicit keys of `memo` are
positions too, used in a fixed order. Concurrent `arun`s inside one callback are not
modelled (their positions are given out in the order in which they start), and a get or
put that raises is not caught by the callback. `causes` is a history of what can mix two
executions up: two at work at once, a put that arrives after another execution has
reached its position, and a caught failure, which uses a position up and stores nothing.

### StartupLock

`lock` is who made the directory `runtime.lock`, `born` its modification time,
`metadata` whose server `runtime.json` names, `servers` those that run. A process goes

    idle -> check -> mkdir -> recheck -> spawn -> announce -> release -> connected
    mkdir, the directory exists: stat -> reclaim -> mkdir        (it is old; removed or not)
                                 stat -> patience -> mkdir       (wait and try again)
                                 stat -> patience -> recheck     (go on without it)
    spawn or announce fails:     release_raise -> raised
    check or recheck finds a server: connected, release

Every look at the file system and every health request is a step, since other processes
move in between: that is where the age of a directory may be of another directory by the
time of the `rmdir`. A health request to a server that runs may time out. `Crash` kills
a process anywhere, leaving its directory and its server; `ServerExits` ends any server.
A half-written `runtime.json` reads as none, which is the look before `Announce`. The
port of a server that has ended is taken not to be served by anything else. An `rmdir` may
be refused (a directory that is not empty, or somebody else's), and both places suppress
the error: `ReclaimFails` goes back to mkdir without looking at the deadline, and
`Release` leaves the directory behind. `causes` records what went wrong so far; no guard
reads it.

## 3. The runs

| run | instance | shows |
|---|---|---|
| fenced | 1 task, 2 fenced clients; policies of 2 and 3 attempts, with and without a wait, one with a terminal class; typed errors; leases 0, 2, 3; clock to 7 | one server with the clients the library has: leases exclude, attempts are bounded, what is decided stays |
| shared | 1 task, 2 servers, 2 fenced clients, 2 attempts, lease 2, clock to 4, 1 registration, 2 trace events | the same promises when statements of two servers interleave; implements `DurableTask`; no deadlock on the file |
| reports | 2 tasks, 1 unfenced client, 1 reader, 2 registrations of 4 task lists by the reader or somebody else | which rows are counted and listed; that no answer overstates |
| backoff | words of 5 bits, 4 ticks per second, 4 policies, 3 seeds, 5 attempts | delays saturate and do not wrap; retries are not early, and they come |
| rerun | 1 task, a dataset's or a step's, 2 runs at once or in turn, all faults | results agree, None explained, release, attempts accounted for, every call ends |
| queue | 2 tasks, one slot, one run of a loop or a pool, category filter | no thread keeps the other digest from its turn; only a loop drops one, and only after an exception |
| startup | 2 processes, killed or not, slow or not, removals refused but not for ever | when there is one server; the lock is released; starting ends |
| memo | 3 executions of 3 calls | replays continue one history; nothing is computed twice |
| single_flight, teardown | as rerun, but no steps | each a statement of the documentation that the code does not keep |
| reclaim | 3 processes | the same, for the startup lock |
| hang | 2 processes, removals refused, possibly for ever | the same, for waiting on the startup lock |

Properties are stated next to the specification with a comment each. What TLC finds
violated, and the sentence of the repository it contradicts:

* `SingleFlightRuns`: no code of the client calls `heartbeat`, so a callback longer
  than the 300 s lease overlaps with that of the run that took the task over. The
  lease itself excludes (`SingleFlight`), and only one result is kept.
* `TeardownAlwaysRuns`: an exception out of `complete`, `fail` or the progress
  callback passes the teardown.
* `FreshLockIsKept`: of two processes that find the same orphaned lock old, the second
  may remove the directory that a third process, or the first, has made since
  (`runtime.py`, stat and rmdir are two steps). `TwoServersHaveCause` lists it among the
  causes of two servers.
* `NeverHangs`: while the `rmdir` of a stale directory is refused, `_startup_lock` goes
  round mkdir, stat and rmdir without a sleep, and never gets to the deadline that is to
  keep it from hanging. `EnsureStartedEnds` says what holds if removal is not refused
  for ever.

A rerun within the lease of a killed run gets in_progress for the interrupted task,
neither runs it nor waits, and returns None for it, although `README.md:37` says
"Re-running resumes from where the last run left off." `NoneIsExplained`, in the run
rerun, says what does hold: a None is due to a terminal task or another run's claim.

A task that is begun before its dataset is first registered is in generation 1 by the
column default (`sqlite.rs:171,657`), so the first registration counts it without having
named it. `CurrentDataset` and `ListFollowsRegistration` say exactly that, and that from
the second registration on nothing else is in the dataset.

Without fencing, `SingleFlight`, `OutputOfLastAttempt` and the refinement do not hold:
a late completion without an attempt is taken for the current one. This is what the
optional fields are for, so it is an assumption of these properties and no finding. With
several servers `TerminalHasCause` needs fencing as well: an unfenced fail that has read
the policy of one attempt may close the next one, of another policy, by it.

With several servers, failures may be recorded out of order, one of them may be missing
if its server died between UPDATE and INSERT, and a `begin` or an event may be refused
because another server was faster. What holds all the same: begin is as good as atomic,
a failure is recorded at most once, and indexes have no gaps.

**Bounds.** `MaxTime` bounds the clock, `MaxGeneration` the registrations, and
`max_attempts` the attempts. Two clients are enough for a take-over and one late
request; three attempts for two take-overs of the same task; leases 0 (a zero lease is
legal and already over), 2 (two instants in it and the boundary) and 3 (a heartbeat that
extends or shortens). In fenced the clock reaches 7, past two leases in a row and a
delay. A policy of zero attempts is legal too, but with one in the set every terminal
task has a cause; the theorems are about it. Tasks are independent in the store except
in `register_dataset`, so of the runs on the store only reports has two; nothing there
depends on time, so leases are 0, which lets every interleaving of attempts happen. Two
registrations are the one that a report is about and the one that overtakes it, and the
four lists are empty, single, and two orders with a repeated input. In shared, two
servers are enough for each conflict of locks, which is between one who holds and one
who asks; the theorems are about any number. Lease 2 and the clock to 4 let a lease run
out between a SELECT and its UPDATE; two attempts are the one that is taken over and the
one that takes over, and two events are those that collide. In backoff the word is small
so that it overflows: one policy has a base of more than half of it, one is capped, one
jitters, one has no backoff. `MaxExponent` 2 is passed by the fourth of five attempts,
four ticks give every position of an instant in its second, and `LastStamp` 15 is passed
by the later delays of the longest policy.

In Harness the clock advances only while a lease, a backoff or a sleep lasts (`Timing`),
since time means nothing otherwise; then it stays below 1 + |Task| * attempts * (lease +
delay), which is at most `MaxTime`, and the bound never holds a thread back: otherwise a
liveness property would fail at the bound. In StartupLock one tick stands for about 10
s: `Timeout` is 1 and `StaleAfter` 2, which keeps their order, and the clock moves only
while someone waits or the directory is not stale yet. With two processes that takes at
most 2 * (StaleAfter + 1) + 2 * (Timeout + 1) = 10 ticks, so `MaxTime` = 12 never stops
it. Two processes suffice for an orphaned lock, a slow holder and a process that goes on
without the lock; the race of the reclaim needs a third, or the first again, as the
maker of the fresh lock. In Memo three executions are two that mix and one that replays
the result, and three calls are a first, a middle and a last. The runs disable the
deadlock check: when every task is decided, every callback has ended or every process
has started, the system has nothing to do.

**Symmetry.** Workers are interchangeable in fenced, executions in memo and processes in
reclaim, and these check safety only. Elsewhere the members differ or liveness is
checked, and no symmetry is used.

**Fairness.** `FairHSpec` assumes weak fairness of each thread's normal steps and of the
clock: the operating system schedules threads, a call that does not raise is answered,
and callbacks return or raise. It assumes nothing about faults, about which run starts,
or about late requests arriving. The HTTP timeout of 30 s makes the assumption on calls
sound; for callbacks it is one on the user's code, as `map` puts no limit on them.
`SSpec` assumes weak fairness of the next statement of each server, and nothing of its
timeouts: `BeginsEnd` is about handlers that wait for each other. `FairSpec` of
RetryClock assumes that calls are answered, that sleeps end and that time passes, and
not that a task fails, that a killed client comes back or that it asks early. `FairSpec`
of StartupLock assumes the same as Harness of each process and of the clock. That is not
enough for `EnsureStartedEnds`: a stale directory whose removal is refused every time is
what run hang shows. The run startup therefore checks it under `RemovableSpec`, which adds
strong fairness of `Reclaim`: a process that keeps trying to remove a stale directory
succeeds at some time, or somebody else does. That is an assumption on the file system
which nothing in the code supports. A server
that has printed its address answers within the 5 s of `wait_until_healthy` or is given
up; that a server prints it or ends is an assumption on the server, as `_spawn` reads
its output without a limit.

## 4. What is proved

For any sets of tasks, clients, servers, policies, errors, leases, executions and
processes, any word size, and any bounds:

| theorem | assumes | establishes |
|---|---|---|
| `TypeCorrect` | | `TypeOK` |
| `AttemptsWithinBudget` | | `AttemptBudget` |
| `AttemptsAreGrantedOnce` | | `AttemptGrantedOnce` |
| `ResolvedTasksAreFinal` | | `ResolvedIsFinal` |
| `OutputIsOfLastAttempt` | `Fenced = Worker` | `OutputOfLastAttempt` |
| `LeasesExclude` | `Fenced = Worker` | `SingleFlight` |
| `StoreImplementsDurableTask` | `Fenced = Worker` | `ImplementsDurableTask` |
| `FailuresAreCountedOnce` | | `FailureCountedOnce` |
| `TerminalTasksHaveCause` | | `TerminalHasCause` |
| `CurrentDatasetIsRegistered` | | `CurrentDataset` |
| `EventsAreInOrder` | | `TracesInOrder` |
| `SharedAttemptsAreGrantedOnce` | | `AttemptGrantedOnce`, of SharedStore |
| `SharedAttemptsWithinBudget` | | `AttemptBudget`, of SharedStore |
| `SharedResolvedTasksAreFinal` | | `ResolvedIsFinal`, of SharedStore |
| `SharedDatasetIsRegistered` | | `CurrentDataset`, of SharedStore |
| `SharedOutputIsOfLastAttempt` | `Fenced = Worker` | `OutputOfLastAttempt`, of SharedStore |
| `SharedTerminalTasksHaveCause` | `Fenced = Worker` | `TerminalHasCause`, of SharedStore |
| `SharedLeasesExclude` | `Fenced = Worker` | `SingleFlight`, of SharedStore |
| `SharedFailuresAreRecordedOnce` | `Fenced = Worker` | `FailureRecordedOnce` |
| `SharedStoreImplementsDurableTask` | `Fenced = Worker` | `ImplementsDurableTask`, of SharedStore |
| `AnswersCoverRegistrations` | | `AnswerCoversRegistration` |
| `FailuresAreBehindTasks` | | `FailuresBehindTasks` |
| `ProgressIsKept` | | `ProgressNeverRegresses` |
| `ListsFollowRegistrations` | | `ListFollowsRegistration` |
| `ReportsImplementStore` | | `RSpec => Spec` |
| `DelaysAreAsDocumented` | | `DelayAsDocumented` |
| `DelaysKeepToPolicy` | | `DelayWithinPolicy` |
| `SleepingSuffices` | | `SleepSuffices` |
| `RetriesAreNotEarly` | | `NotASecondEarly` |
| `HarnessImplementsStore` | | `HSpec => Spec` |
| `HarnessesImplementDurableTask` | | `ImplementsDurableTask`, of Harness |
| `ReportedOutputsAreStored` | | `ReportedOutputIsStored` |
| `NonesAreExplained` | | `NoneIsExplained` |
| `AttemptsAreAllAccounted` | | `AttemptsAreAccounted` |
| `EnvironmentsAreReleased` | | `EnvironmentReleased` |
| `InsideHoldsItsLock`, `TwoServersAreCaused`, `LocksAreOrphanedByCrash` | | the three safety invariants of StartupLock |
| `CallsAreNeverPaidAgain`, `StoredHistoryIsOne` | | `NeverPaidAgain`, `StoredIsOneHistory` |

besides the named assumptions of the modules on their constants (NULL is not a worker or
an error, policies have a natural `max_attempts`, delays and leases are naturals; the
clients of `Harness` are fenced, shifts double). The type invariants are theorems too:
`SharedTypes`, `RetryTypes`, `HarnessTypes`, `StartupTypes` and `MemoTypes`.

**Store.** The proofs share one inductive invariant, `TypeInv`: `TypeOK` and three facts
about each row. `BlankWhenAbsent`: an absent row has no attempt, which `BeginInsert`
needs in order to hand out attempt 1. `StartedWhenRunning`: a running row has an attempt
and, with it, a claim. `WithinBudget`: the budget of `AttemptBudget`, which is inductive
only together with the first. A lemma per handler (`GrantWrites`, `CompleteWrites`, ...)
says what row it writes and that the row satisfies the invariant; a theorem about the
store then looks at one written row and never again at the handlers.

For the fenced theorems the point is what a client's belief implies: `LeaseBelief`
says that a deadline in the future belongs to the owner of a running row and is that
row's `lease_expires_at`. Two believers are then both the owner. A fenced claim that
`HoldsClaim` accepts carries the row's own attempt (`FencedClaim`), which gives the
Finish step of the refinement. The output property is one of DurableTask
(`DurableOutputIsLast`), and so holds of whatever implements it. `FailureCountedOnce` and
`TerminalHasCause` are inductive with `TypeInv`. `CurrentDataset` needs `DatasetInv`: no
row is of a generation still to come, so the next registration separates its digests from
all other rows.

**Several servers.** `SharedInv` has two general parts and one about each handler. Only
one server holds RESERVED (`OneWriter`), and a commit waits until nobody else holds
SHARED. `Facts` draws the conclusion for `begin`: what its SELECT found is true of the
row for as long as the transaction lasts, so its commit is a `Grant` or an exhaustion of
TaskStore, and the lemmas on the handlers and the argument of `LeaseBelief` carry over.
`fail` has no such protection. Its UPDATE repeats the check of the claim, so of several
fails of one attempt one passes; from then on it owes a record. `RecordInv` says that
owed and recorded attempts are all over and all different, which is
`FailureRecordedOnce`. `JudgesInv` says that a fail goes by the policy of the row as long
as no other attempt has been begun, which its UPDATE checks if the client is fenced, and
that a begin only closes a task without attempts left; hence `TerminalHasCause`.
`CommitSteps` says how a commit may change a row, which is all that `ResolvedIsFinal` and
`CurrentDataset` are about. `Numbered` says that the rows of trace events are 1, 2, ... by
id: an index that was computed and is still free is the next one, since indexes only
grow.

**Retries.** `FailedInv`: a failed task carries the stamp of its failure and of a delay
that some seed gives. `RestedInv`: a client that has slept has reached it. The bounds on
a delay are lemmas of integer arithmetic on the saturating product, the cap and the
jitter. `DelayAsDocumented` compares them with the doubling of `Doubled`, which is
defined for every number, and the code's shift, which stops at `MaxExponent`. That
`Doubled` exists (`DoubledIsDefined`) and agrees with the shift up to there
(`DoubledIsShifted`) is shown by looking at the least number where it would not;
`SaturationShortens` does the rest: saturation and cap only shorten a delay, and give the
documented one unless the word is full.

**Reports.** A report is counted at one time and judged at later ones, so `Sound` says
of each what must still be true of it, against the table's generation, counts and
failures; `ReportInv` says that every report is sound. Three lemmas make it inductive.
`CountsAddUp`: the counts are the sizes of disjoint sets of rows which together are the
dataset. `CountsGrow`: within a generation no row leaves the dataset, and none that is
succeeded or terminal changes (`DatasetSteps`); so the sets grow. `FailureRowsGrow`: so
do the failures. `RecordInv` is what connects failed tasks with failures: unless a crash
lost one, a failed task has a record. `ColumnsInv` says that a
registered row carries the position and category of its first occurrence in the latest
list, which exists as a list has a least position for each of its inputs
(`FirstExists`); `ColumnsGiveOrder` concludes that sorting by the column gives the order
of the list. `CurrentDataset` comes from the store (`ReportsImplementStore`).

**Harness.** `ClaimInv` says that a thread past begin, and every lost complete or fail,
carries a claim that begin handed out. With it each step of a client is one of the
store (`CallsOfTheStore`), which gives `HSpec => Spec` and carries the store's
theorems over: `ReportedOutputIsStored` rests on `ResolvedTasksAreFinal`.
`EnvironmentInv` adds that only maps hold anything and that a thread on its way in holds
nothing. `ActingThread` says once what a thread's step may do to the others.
`HarnessesImplementDurableTask` follows too, as all clients of Harness are fenced.

`NoneIsExplained` needs two facts. `RestInv`: a thread that waits to begin, or is
back from a failed attempt, owns no attempt that still runs. Its own `fail` or `complete`
need not have been the last word: the lease may have run out and the attempt may be
exhausted or taken over. But an attempt that is over stays over (`OverStaysOver`,
from `RowSteps`, which lists how a step may change a row), and only begin opens one,
which takes the thread out of waiting (`OwnClaims`). So when begin answers in_progress,
the running attempt was claimed by somebody else. `OutputInv`: an output is the number of
an attempt, so a thread that has decided a task never reports None for it.

`RestInv` is also the half of `AttemptsAreAccounted` that says when an attempt runs
without its thread. The other half is about begins whose answer was lost. `UnheardInv`:
a thread that is not `arrived` knows every attempt that its run was given, and one that
is has been given at most one more than it knows. A step makes at most one new claim,
for the thread that acts, and its attempt is the next one of the row (`NewClaims`); a
thread that has `arrived` never moves again (`ArrivedStays`).

**StartupLock.** `InsideHoldsLock` is inductive. `ServersInv` adds that, while nothing
has gone wrong, each server is the one that `runtime.json` names or is about to be
named by the one process inside, and that a process which decides to spawn has seen
that there is none. A release that failed does no harm to that
(`Innocent`). `OrphanInv` says that the maker of the directory knows it, unless a release
has failed.

**Memo.** `GivenIsStored`: what an execution has been given is stored. `HistoryInv`:
while nothing mixes executions up, one is at work, whoever may still write agrees with
what is stored, and nothing is stored where it is about to write.

Only model-checked is liveness (`CallsEnd`, `EveryDigestHasItsTurn`,
`EnsureStartedEnds`, `FailedIsRetried`, `BeginsEnd`): the prover has no rules for
fairness and ENABLED. Every invariant and action property of the passing runs is a
theorem. Induction over the numbers has to be done by hand, on the least counterexample,
since the induction theorems of the library take an operator that no installed prover
can instantiate; `Total` and `CountedFailures` are therefore a sum of five counts and
the size of a set.

## 5. Not modelled

PROJECT.json names every part and its status. Left out on purpose:

* JSON text, and columns that are only copied: labels, inputs, payloads and types of
  events, timestamps that nothing reads. Digests are model values: SHA-256 is taken to be
  injective.
* The filters of `list_trace_events`. The filters of `list` are modelled, since
  categories come from a registration and statuses change.
* HTTP status codes and bodies. A call is answered, refused, or raises with its request
  still under way, which is what a client can act on.
* The connection pool of the async client: a call that waits for a connection is one that
  takes longer.
* The precedence of classify hooks and typed exceptions: a pure function whose result,
  a class and an optional verdict, is the constant `Error`.
* The arguments of the CLI, and `run --fresh`. It deletes the file, and a server that
  still has it open goes on with the deleted one: two files under one name, which share
  nothing that could be checked.
* The f64 of the jitter: the quotient is taken exactly. The difference is less than
  a tick for delays that f64 represents.
* Errors of SQLite itself (disk full). They abort a handler's transaction before it answers:
  to a client that is a call that raises, which Harness has.

## 6. Where it could go on

The order of the work was TaskStore and DurableTask, Harness with steps, StartupLock,
Memo, Backoff and RetryClock, Reports, SharedStore, and the proofs of each. Left:

1. Memo: concurrent `arun`s in one callback, and keys that collide.
2. Memos and tasks of a run together: that an execution which mixes with another is one
   that Harness allows.
3. Harness on top of SharedStore, with runs that use different servers.
