------------------------------ MODULE Harness ------------------------------
(***************************************************************************)
(* Harness scripts that work through the store of TaskStore: Dataset.map   *)
(* and Dataset.amap (eval.py), and durable steps (step.py).                *)
(*                                                                         *)
(* Every run of a script makes a DurableEval with a fresh worker_id, so a  *)
(* member of Worker is one run: a rerun after a crash is another worker,   *)
(* and two shells are two workers at once.  Per input digest a run has one *)
(* thread (a ThreadPoolExecutor job, an asyncio task, the call of a step): *)
(* it begins the task, calls setup and run, completes or fails the attempt,*)
(* cleans up and begins again until the task has an outcome.  A step is    *)
(* not registered, has no hooks, and raises where a map leaves None.       *)
(*                                                                         *)
(* A call to the store is answered (one action), or it raises in the       *)
(* client (httpx error or timeout): then the thread is over, and the       *)
(* request may still reach the store, later or never.  The client does not *)
(* resend.  The user's callbacks may return, raise, or take any time.      *)
(***************************************************************************)
EXTENDS TaskStore

CONSTANTS
    Kinds,         \* who may work on the tasks: "loop", "pool", "step"
    RequestPolicy, \* the retry policy that map, or the step, sends
    DefaultLease,  \* lease_seconds when the request has none (300)
    Concurrency,   \* map's concurrency
    Selections     \* the digests that `categories` lets through

VARIABLES
    kind,     \* a map that is a plain loop (concurrency 1) or a pool, or a step
    pc,       \* per worker and task, where the thread is
    attempt,  \* the attempt number that begin gave the thread
    wake,     \* the retry_at that the thread sleeps until
    outputs,  \* the thread's results: an attempt's output, or None
    held      \* whether setup has acquired an environment not yet torn down

clientVars == <<kind, pc, attempt, wake, outputs, held>>
hvars == <<vars, clientVars>>

ASSUME HarnessAssumption ==
    /\ Fenced = Worker
    /\ Kinds \subseteq {"loop", "pool", "step"}
    /\ RequestPolicy \in Policy
    /\ DefaultLease \in Lease
    /\ Concurrency \in Nat \ {0} /\ ("loop" \in Kinds => Concurrency = 1)
    /\ Selections \subseteq SUBSET Task

None == NoOutput

Calling == {"begin", "complete", "fail"}
Lost == {"lost_begin", "lost_complete", "lost_fail"}
Active == Calling \cup {"sleep", "setup", "run", "cleanup", "done"}
Over == Lost \cup {"arrived", "returned", "raised", "dropped", "dead"}
PC == Active \cup Over \cup {"idle", "queued"}
\* Where a thread has resolved, or never had, an attempt of its own.
AtRest == {"idle", "queued", "begin", "sleep", "cleanup", "done", "returned"}

HTypeOK ==
    /\ kind \in Kinds
    /\ pc \in [Worker -> [Task -> PC]]
    /\ attempt \in [Worker -> [Task -> Nat]]
    /\ wake \in [Worker -> [Task -> Nat]]
    /\ outputs \in [Worker -> [Task -> Nat]]
    /\ held \in [Worker -> [Task -> BOOLEAN]]

PerThread(value) == [w \in Worker |-> [t \in Task |-> value]]

HInit ==
    /\ Init
    /\ kind \in Kinds
    /\ pc = PerThread("idle")
    /\ attempt = PerThread(NoAttempt)
    /\ wake = PerThread(NoStamp)
    /\ outputs = PerThread(None)
    /\ held = PerThread(FALSE)

-----------------------------------------------------------------------------
(* Starting a map, and the state of a thread *)

\* Registers the whole dataset, then queues the digests that pass the filter.
StartMap(w, selection) ==
    /\ kind # "step"
    /\ \A t \in Task : pc[w][t] = "idle"
    /\ RegisterDataset(Task)
    /\ pc' = [pc EXCEPT ![w] =
           [t \in Task |-> IF t \in selection THEN "queued" ELSE "dropped"]]
    /\ UNCHANGED <<attempt, wake, outputs, held>>

\* A step is begun by calling it.
CallStep(w, t) ==
    /\ kind = "step"
    /\ pc[w][t] = "idle"
    /\ pc' = [pc EXCEPT ![w][t] = "begin"]
    /\ UNCHANGED <<vars, attempt, wake, outputs, held>>

Goto(w, t, place) == pc' = [pc EXCEPT ![w][t] = place]

\* An exception leaves the thread.  A plain loop stops there; a pool goes on
\* with the other digests and raises after them.
Raise(w, t, place) ==
    pc' = [pc EXCEPT ![w] = [s \in Task |->
        IF s = t THEN place
        ELSE IF kind = "loop" /\ @[s] = "queued" THEN "dropped" ELSE @[s]]]

\* Mutant: a thread that has raised keeps its slot.
EnterLeaky(w, t) ==
    /\ pc[w][t] = "queued"
    /\ Cardinality({s \in Task : pc[w][s] \in Active \cup {"raised"}}) < Concurrency
    /\ Goto(w, t, "begin")
    /\ UNCHANGED <<vars, attempt, wake, outputs, held>>

Enter(w, t) ==
    /\ pc[w][t] = "queued"
    /\ Cardinality({s \in Task : pc[w][s] \in Active}) < Concurrency
    /\ Goto(w, t, "begin")
    /\ UNCHANGED <<vars, attempt, wake, outputs, held>>

-----------------------------------------------------------------------------
(* begin and its outcomes *)

SkipCompleted(w, t) ==
    /\ pc[w][t] = "begin"
    /\ SkipsCompleted(t)
    /\ Goto(w, t, "returned")
    /\ outputs' = [outputs EXCEPT ![w][t] = tasks[t].output]
    /\ UNCHANGED <<vars, attempt, wake, held>>

\* in_progress and failed_terminal: a map leaves the position None, a step
\* raises.
LeaveNone(w, t) ==
    /\ pc[w][t] = "begin"
    /\ \/ (LeaseActive(t) \/ IsTerminal(t)) /\ UNCHANGED vars
       \/ BeginExhausted(t, RequestPolicy)
    /\ IF kind = "step" THEN Raise(w, t, "raised") ELSE Goto(w, t, "returned")
    /\ UNCHANGED <<attempt, wake, outputs, held>>

\* Mutant: retry_later falls through to the answers that leave None.
RetryNever(w, t) ==
    /\ pc[w][t] = "begin"
    /\ RetryPending(t, RequestPolicy)
    /\ Goto(w, t, "returned")
    /\ UNCHANGED <<vars, attempt, wake, outputs, held>>

RetryLater(w, t) ==
    /\ pc[w][t] = "begin"
    /\ RetryPending(t, RequestPolicy)
    /\ Goto(w, t, "sleep")
    /\ wake' = [wake EXCEPT ![w][t] = tasks[t].retry_at]
    /\ UNCHANGED <<vars, attempt, outputs, held>>

\* _sleep_until
Wake(w, t) ==
    /\ pc[w][t] = "sleep"
    /\ ~InFuture(wake[w][t])
    /\ Goto(w, t, "begin")
    /\ UNCHANGED <<vars, attempt, wake, outputs, held>>

Execute(w, t) ==
    /\ pc[w][t] = "begin"
    /\ \/ BeginExecute(w, t, RequestPolicy, DefaultLease)
       \/ BeginInsert(w, t, RequestPolicy, DefaultLease)
    /\ Goto(w, t, IF kind = "step" THEN "run" ELSE "setup")
    /\ attempt' = [attempt EXCEPT ![w][t] = tasks[t].attempt + 1]
    /\ UNCHANGED <<wake, outputs, held>>

-----------------------------------------------------------------------------
(* The user's callbacks *)

Setup(w, t) ==
    /\ pc[w][t] = "setup"
    /\ Goto(w, t, "run")
    /\ held' = [held EXCEPT ![w][t] = TRUE]
    /\ UNCHANGED <<vars, attempt, wake, outputs>>

RunReturns(w, t) ==
    /\ pc[w][t] = "run"
    /\ Goto(w, t, "complete")
    /\ UNCHANGED <<vars, attempt, wake, outputs, held>>

\* setup or run raises an Exception; a setup that raises may hold something.
CallbackRaises(w, t) ==
    /\ pc[w][t] \in {"setup", "run"}
    /\ Goto(w, t, "fail")
    /\ \E acquired \in (IF pc[w][t] = "setup" THEN BOOLEAN ELSE {held[w][t]}) :
          held' = [held EXCEPT ![w][t] = acquired]
    /\ UNCHANGED <<vars, attempt, wake, outputs>>

\* The result is an awaitable in a sync map or not JSON-serializable, or the
\* classify hook raises: the thread ends and the store is told nothing.
RaisesUnrecorded(w, t) ==
    /\ pc[w][t] \in {"run", "fail"}
    /\ Raise(w, t, "raised")
    /\ UNCHANGED <<vars, attempt, wake, outputs, held>>

-----------------------------------------------------------------------------
(* complete and fail *)

ClaimOf(w, t) == [task |-> t, worker |-> w, attempt |-> attempt[w][t]]

CompleteAttempt(w, t) ==
    /\ pc[w][t] = "complete"
    /\ Complete(ClaimOf(w, t))
    /\ Goto(w, t, IF kind = "step" THEN "returned" ELSE "done")
    /\ outputs' = [outputs EXCEPT ![w][t] = attempt[w][t]]
    /\ UNCHANGED <<attempt, wake, held>>

FailAttempt(w, t) ==
    /\ pc[w][t] = "fail"
    /\ \E error \in Error : Fail(ClaimOf(w, t), error)
    /\ Goto(w, t, IF kind = "step" THEN "begin" ELSE "cleanup")
    /\ UNCHANGED <<attempt, wake, outputs, held>>

\* The server dies between the two writes of fail, and is restarted.
FailKillsServer(w, t) ==
    /\ pc[w][t] = "fail"
    /\ \E error \in Error : FailAndCrash(ClaimOf(w, t), error)
    /\ Raise(w, t, "raised")
    /\ UNCHANGED <<attempt, wake, outputs, held>>

\* Mutants: a refused complete is taken for a success; a refused fail is sent
\* again and again.
ClaimLostSwallowed(w, t) ==
    /\ pc[w][t] \in {"complete", "fail"}
    /\ ~HoldsClaim(ClaimOf(w, t))
    /\ Goto(w, t, "done")
    /\ outputs' = [outputs EXCEPT ![w][t] =
           IF pc[w][t] = "complete" THEN attempt[w][t] ELSE @]
    /\ UNCHANGED <<vars, attempt, wake, held>>
ClaimLostResent(w, t) ==
    /\ pc[w][t] = "complete"
    /\ ~HoldsClaim(ClaimOf(w, t))
    /\ Raise(w, t, "raised")
    /\ UNCHANGED <<vars, attempt, wake, outputs, held>>

\* TaskClaimLost: the lease ran out and someone else took or closed the task.
\* It leaves the thread as an exception, past reset and teardown.
ClaimLost(w, t) ==
    /\ pc[w][t] \in {"complete", "fail"}
    /\ ~HoldsClaim(ClaimOf(w, t))
    /\ Raise(w, t, "raised")
    /\ UNCHANGED <<vars, attempt, wake, outputs, held>>

\* Mutant: a failed attempt is reset but not torn down.
ResetOnly(w, t) ==
    /\ pc[w][t] = "cleanup"
    /\ Goto(w, t, "begin")
    /\ UNCHANGED <<vars, attempt, wake, outputs, held>>

\* reset and teardown; what they raise is suppressed.
ResetAndTeardown(w, t) ==
    /\ pc[w][t] = "cleanup"
    /\ Goto(w, t, "begin")
    /\ held' = [held EXCEPT ![w][t] = FALSE]
    /\ UNCHANGED <<vars, attempt, wake, outputs>>

Teardown(w, t) ==
    /\ pc[w][t] = "done"
    /\ Goto(w, t, "returned")
    /\ held' = [held EXCEPT ![w][t] = FALSE]
    /\ UNCHANGED <<vars, attempt, wake, outputs>>

\* The progress callback, or the list request made for it, raises.
ProgressRaises(w, t) ==
    /\ pc[w][t] = "done"
    /\ Raise(w, t, "raised")
    /\ UNCHANGED <<vars, attempt, wake, outputs, held>>

-----------------------------------------------------------------------------
(* Faults: a call that raises in the client, the death of a run, and the     *)
(* requests that either leaves on the way to the store.                      *)

\* Mutant: one of the places is misnamed.
LostAtTypo(place) ==
    CASE place = "begin" -> "lost_begin"
      [] place = "complete" -> "lost_complete"
      [] place = "fail" -> "lost_failed"
LostAt(place) ==
    CASE place = "begin" -> "lost_begin"
      [] place = "complete" -> "lost_complete"
      [] place = "fail" -> "lost_fail"

CallRaises(w, t) ==
    /\ pc[w][t] \in Calling
    /\ Raise(w, t, LostAt(pc[w][t]))
    /\ UNCHANGED <<vars, attempt, wake, outputs, held>>

\* The process is killed; also what remains of an amap whose gather has raised,
\* when asyncio cancels the other tasks.
Crash(w) ==
    /\ \E t \in Task : pc[w][t] \in Active
    /\ pc' = [pc EXCEPT ![w] = [t \in Task |->
           CASE @[t] \in Calling -> LostAt(@[t])
             [] @[t] \in Over -> @[t]
             [] OTHER -> "dead"]]
    /\ UNCHANGED <<vars, attempt, wake, outputs, held>>

\* Mutant: a transport that sends a begin without an answer again.
ArriveTwice(w, t) ==
    /\ \/ /\ pc[w][t] = "lost_begin"
          /\ \/ BeginExhausted(t, RequestPolicy)
             \/ BeginExecute(w, t, RequestPolicy, DefaultLease)
             \/ BeginInsert(w, t, RequestPolicy, DefaultLease)
          /\ UNCHANGED pc
       \/ /\ pc[w][t] = "lost_complete"
          /\ Complete(ClaimOf(w, t))
          /\ Goto(w, t, "arrived")
    /\ UNCHANGED <<attempt, wake, outputs, held>>

ArriveLate(w, t) ==
    /\ \/ /\ pc[w][t] = "lost_begin"
          /\ \/ BeginExhausted(t, RequestPolicy)
             \/ BeginExecute(w, t, RequestPolicy, DefaultLease)
             \/ BeginInsert(w, t, RequestPolicy, DefaultLease)
       \/ /\ pc[w][t] = "lost_complete"
          /\ Complete(ClaimOf(w, t))
       \/ /\ pc[w][t] = "lost_fail"
          /\ \E error \in Error : Fail(ClaimOf(w, t), error)
    /\ Goto(w, t, "arrived")
    /\ UNCHANGED <<attempt, wake, outputs, held>>

-----------------------------------------------------------------------------
\* Time matters only while a lease runs, a backoff lasts or a thread sleeps:
\* the clock stands still otherwise, which keeps it below MaxTime.
Timing ==
    \/ \E t \in Task : LeaseActive(t) \/ InFuture(tasks[t].retry_at)
    \/ \E w \in Worker, t \in Task : pc[w][t] = "sleep" /\ InFuture(wake[w][t])

Elapse == Timing /\ Tick /\ UNCHANGED clientVars

Answered(w, t) ==
    SkipCompleted(w, t) \/ LeaveNone(w, t) \/ RetryLater(w, t) \/ Execute(w, t)

Proceed(w, t) ==
    \/ Enter(w, t)
    \/ Answered(w, t)
    \/ Wake(w, t)
    \/ Setup(w, t)
    \/ RunReturns(w, t)
    \/ CallbackRaises(w, t)
    \/ CompleteAttempt(w, t)
    \/ FailAttempt(w, t)
    \/ ClaimLost(w, t)
    \/ ResetAndTeardown(w, t)
    \/ Teardown(w, t)

ThreadStep(w, t) == Proceed(w, t) /\ UNCHANGED kind

ThreadFault(w, t) ==
    \/ RaisesUnrecorded(w, t)
    \/ ProgressRaises(w, t)
    \/ FailKillsServer(w, t)
    \/ CallRaises(w, t)
    \/ ArriveLate(w, t)

Start ==
    \/ \E w \in Worker, selection \in Selections : StartMap(w, selection)
    \/ \E w \in Worker, t \in Task : CallStep(w, t)

HNext ==
    \/ \E w \in Worker, t \in Task : ThreadStep(w, t)
    \/ \E w \in Worker, t \in Task : ThreadFault(w, t) /\ UNCHANGED kind
    \/ \E w \in Worker : Crash(w) /\ UNCHANGED kind
    \/ Start /\ UNCHANGED kind
    \/ Elapse

HSpec == HInit /\ [][HNext]_hvars

\* The operating system runs every thread, callbacks return or raise, time
\* passes.  No run has to start, and nothing has to go wrong.
Fairness ==
    /\ \A w \in Worker, t \in Task : WF_hvars(ThreadStep(w, t))
    /\ WF_hvars(Elapse)

FairHSpec == HSpec /\ Fairness
-----------------------------------------------------------------------------
(* Properties *)

\* Every output that a run reports is the one the store keeps for the task: two
\* runs, or a run and its rerun, never report different results for a digest.
ReportedOutputIsStored ==
    \A w \in Worker, t \in Task : outputs[w][t] # None =>
        tasks[t].status = "succeeded" /\ tasks[t].output = outputs[w][t]

\* A position that map returns as None is explained: the task is terminal, or
\* another run has claimed it.  A run on its own leaves nothing undecided.
NoneIsExplained ==
    \A w \in Worker, t \in Task :
        pc[w][t] = "returned" /\ outputs[w][t] = None =>
            \/ tasks[t].status = "terminal"
            \/ \E c \in claims : c.task = t /\ c.worker # w

\* What setup acquired is released before the thread begins again or returns.
EnvironmentReleased ==
    \A w \in Worker, t \in Task :
        held[w][t] => pc[w][t] \notin {"begin", "sleep", "setup", "returned"}

\* Attempts that a run was given and has not heard of.
Unheard(w, t) ==
    {c \in claims : c.task = t /\ c.worker = w /\ c.attempt > attempt[w][t]}

\* Every attempt that is used up is accounted for.  A begin whose answer is lost uses
\* up one that nobody executes, and no run more than one per digest; an attempt goes
\* on running without its thread only if that was killed, raised or lost its call.
AttemptsAreAccounted ==
    \A w \in Worker, t \in Task :
        /\ \A c, d \in Unheard(w, t) : c = d
        /\ Unheard(w, t) # {} => pc[w][t] = "arrived"
        /\ \A c \in claims :
              /\ c.task = t /\ c.worker = w
              /\ tasks[t].status = "running" /\ tasks[t].attempt = c.attempt
              => pc[w][t] \notin AtRest

\* Every map, and every call of a step, ends, returning or raising: no thread
\* sleeps, retries or waits for its turn forever.
CallsEnd ==
    \A w \in Worker, t \in Task : pc[w][t] \in {"queued", "begin"} ~> pc[w][t] \in Over

\* Every digest that a map has queued gets its turn and ends, whatever becomes of the
\* others.  Only a plain loop leaves some out, and only after an exception.
EveryDigestHasItsTurn ==
    \A w \in Worker, t \in Task :
        pc[w][t] = "queued" ~>
            \/ pc[w][t] \in Over \ {"dropped"}
            \/ /\ pc[w][t] = "dropped" /\ kind = "loop"
               /\ \E s \in Task : pc[w][s] \in Lost \cup {"arrived", "raised"}

\* Client README: datasets get single-flight semantics, so two runs never
\* execute the callbacks of a task at once.
SingleFlightRuns ==
    \A v, w \in Worker, t \in Task :
        pc[v][t] \in {"setup", "run"} /\ pc[w][t] \in {"setup", "run"} => v = w

\* Comment of _Lifecycle: teardown always runs once the attempt resolves, so no
\* thread that has ended still holds the environment of a resolved attempt.
TeardownAlwaysRuns ==
    \A w \in Worker, t \in Task :
        pc[w][t] = "raised" /\ held[w][t] =>
            tasks[t].status = "running" /\ tasks[t].attempt = attempt[w][t]

=============================================================================
