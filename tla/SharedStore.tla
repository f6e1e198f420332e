---------------------------- MODULE SharedStore ----------------------------
(***************************************************************************)
(* Several server processes on one database file (server/src/main.rs: one  *)
(* for each `serve` and `run`).  The connection mutex of core/src/sqlite.rs *)
(* is per process, so a handler is no longer one step: between the         *)
(* statements of `begin`, `fail` and `add_trace_event` other servers act.  *)
(* What keeps them apart is SQLite's locking of the file in rollback mode: *)
(*   - a transaction that has read keeps a SHARED lock until it ends;      *)
(*   - one transaction at a time holds RESERVED, which it needs to write;  *)
(*   - a commit needs all other SHARED locks gone; while it waits for that *)
(*     (PENDING) no new reader is let in;                                  *)
(*   - who finds a lock taken waits for busy_timeout, except a reader that *)
(*     wants to write: it gets SQLITE_BUSY at once.                        *)
(* Statements outside of a transaction are transactions of their own, and  *)
(* a transaction that starts with a write waits before it holds anything.  *)
(*                                                                         *)
(* Clients and tasks are those of TaskStore.  The trace events are those   *)
(* of one attempt.                                                         *)
(***************************************************************************)
EXTENDS TaskStore

CONSTANTS
    Server,       \* the server processes
    MaxEvents     \* bound on the number of trace events

VARIABLES
    handler,      \* per server, the request that it handles
    traces        \* the event_index of each row of trace_events, by id

svars == <<handler, traces>>
allvars == <<vars, svars>>

ASSUME EventAssumption == MaxEvents \in Nat

\* Where a handler is:
\*   reading    begin: in its transaction, after the SELECT: SHARED
\*   looked     fail and add_trace_event: after the SELECT, no lock
\*   writing    in a transaction that has written: RESERVED
\*   pending    in its COMMIT, which found readers: PENDING
\*   unrecorded fail: after its UPDATE, before its INSERT: no lock
Stage == {"idle", "reading", "looked", "writing", "pending", "unrecorded"}
Operation ==
    {"none", "begin", "complete", "fail", "record", "heartbeat", "register_dataset", "add_trace_event"}

\* A request with what its handler knows; unused fields keep these values.
Idle ==
    [stage |-> "idle", op |-> "none", worker |-> NoWorker, task |-> NoWorker, lease |-> 0,
     policy |-> DefaultPolicy,  \* of the request of begin, of the row that fail read
     attempt |-> 0,             \* of the row that was read; of the claim of complete
     answer |-> "none",         \* begin: the branch that is taken
     error |-> NoError,
     digests |-> {},            \* register_dataset
     index |-> 0,               \* add_trace_event
     at |-> 0]                  \* the instant of the statement that writes

Handler ==
    [stage : Stage, op : Operation, worker : Worker \cup {NoWorker}, task : Task \cup {NoWorker},
     lease : Nat, policy : Policy, attempt : Nat, answer : {"none", "claim", "exhaust"},
     error : Error \cup {NoError}, digests : SUBSET Task, index : Nat, at : Nat]

STypeOK ==
    /\ TypeOK
    /\ handler \in [Server -> Handler]
    /\ traces \in Seq(1..MaxEvents)

SInit ==
    /\ Init
    /\ handler = [s \in Server |-> Idle]
    /\ traces = <<>>

-----------------------------------------------------------------------------
(* Locks                                                                     *)

\* Mutant: begin reads and writes without a transaction around both.
SharedByNobody(s) == FALSE
Shared(s) == handler[s].stage = "reading"
Reserved(s) == handler[s].stage \in {"writing", "pending"}

CanRead(s) == \A r \in Server \ {s} : handler[r].stage # "pending"
CanWrite(s) == \A r \in Server \ {s} : ~Reserved(r)
CanCommit(s) == \A r \in Server \ {s} : ~Shared(r)

Becomes(s, h) == handler' = [handler EXCEPT ![s] = h]
\* Nothing but the handler of s changes.
Moves(s, h) == Becomes(s, h) /\ UNCHANGED <<vars, traces>>

\* A transaction that starts with a write.
Locks(s, h) ==
    /\ handler[s] = Idle
    /\ CanWrite(s)
    /\ Moves(s, [h EXCEPT !.stage = "writing", !.at = now])

-----------------------------------------------------------------------------
(* begin: SELECT, then INSERT or UPDATE, then COMMIT.  An answer that writes *)
(* nothing ends the transaction at once and is not shown.                    *)

Answer(t, policy) == IF Exhausted(t, policy) THEN "exhaust" ELSE "claim"

BeginReads(s, w, t, policy, lease) ==
    /\ handler[s] = Idle
    /\ CanRead(s)
    /\ tasks[t].status = "absent" \/ Claimable(t)
    /\ ~RetryPending(t, policy)
    /\ Moves(s, [Idle EXCEPT !.stage = "reading", !.op = "begin", !.worker = w, !.task = t,
                             !.lease = lease, !.policy = policy, !.attempt = tasks[t].attempt,
                             !.answer = Answer(t, policy)])

BeginLocks(s) ==
    /\ handler[s].stage = "reading"
    /\ CanWrite(s)
    /\ Moves(s, [handler[s] EXCEPT !.stage = "writing", !.at = now])

\* Mutant: the statement is tried again inside the transaction.
BeginRetries(s) ==
    /\ handler[s].stage = "reading"
    /\ ~CanWrite(s)
    /\ Moves(s, handler[s])

\* SQLITE_BUSY at once: a reader must not wait for a writer that waits for it.
BeginIsBusy(s) ==
    /\ handler[s].stage = "reading"
    /\ ~CanWrite(s)
    /\ Moves(s, Idle)

CommitBegin(h) ==
    IF h.answer = "claim"
    THEN GrantAs(h.worker, h.task, h.policy, h.at + h.lease, h.attempt + 1)
    ELSE /\ tasks' = [tasks EXCEPT ![h.task].status = "terminal"]
         /\ UNCHANGED <<generation, failure_records, now, claims, deadline, registered>>

-----------------------------------------------------------------------------
(* complete, heartbeat and register_dataset: one transaction that starts     *)
(* with a write.  A request that matches no row changes nothing.             *)

\* The claim that a request to complete or fail refers to.
Sent(h) == [task |-> h.task, worker |-> h.worker, attempt |-> h.attempt]

CompleteLocks(s, c) ==
    /\ HoldsClaim(c)
    /\ Locks(s, [Idle EXCEPT !.op = "complete", !.worker = c.worker, !.task = c.task,
                              !.attempt = c.attempt])

HeartbeatLocks(s, w, t, lease) ==
    /\ w \in Fenced /\ tasks[t].status = "running" /\ tasks[t].lease_owner = w
    /\ Locks(s, [Idle EXCEPT !.op = "heartbeat", !.worker = w, !.task = t, !.lease = lease])

RegisterDatasetLocks(s, digests) ==
    /\ generation < MaxGeneration
    /\ Locks(s, [Idle EXCEPT !.op = "register_dataset", !.digests = digests])

-----------------------------------------------------------------------------
(* fail: SELECT, UPDATE and INSERT, a transaction each.                      *)

FailReads(s, c, error) ==
    /\ handler[s] = Idle
    /\ CanRead(s)
    /\ HoldsClaim(c)
    /\ Moves(s, [Idle EXCEPT !.stage = "looked", !.op = "fail", !.worker = c.worker, !.task = c.task,
                             !.attempt = tasks[c.task].attempt, !.policy = tasks[c.task].retry,
                             !.error = error])

\* The UPDATE checks the claim again.
FailLocks(s) ==
    /\ handler[s].stage = "looked" /\ handler[s].op = "fail"
    /\ CanWrite(s)
    /\ Moves(s, IF HoldsClaim(Sent(handler[s]))
                THEN [handler[s] EXCEPT !.stage = "writing", !.at = now]
                ELSE Idle)

RecordLocks(s) ==
    /\ handler[s].stage = "unrecorded"
    /\ CanWrite(s)
    /\ Moves(s, [handler[s] EXCEPT !.stage = "writing", !.op = "record"])

CommitFail(h) ==
    /\ FailUpdateAt(Sent(h), h.error, [attempt |-> h.attempt, retry |-> h.policy], h.at)
    /\ UNCHANGED failure_records

CommitRecord(h) ==
    /\ failure_records' = [failure_records EXCEPT ![h.task] = Append(@, h.attempt)]
    /\ UNCHANGED <<tasks, generation, now, claims, deadline, registered>>

-----------------------------------------------------------------------------
(* add_trace_event: SELECT and INSERT, a transaction each.                   *)

\* Mutant: the first index is 0.
NextIndexFromZero == Len(traces)
\* COALESCE(MAX(event_index), 0) + 1
NextIndex ==
    CHOOSE next \in 1..(MaxEvents + 1) :
        /\ \A i \in DOMAIN traces : traces[i] < next
        /\ next = 1 \/ \E i \in DOMAIN traces : traces[i] + 1 = next

TraceReads(s) ==
    /\ handler[s] = Idle
    /\ CanRead(s)
    /\ Len(traces) < MaxEvents
    /\ Moves(s, [Idle EXCEPT !.stage = "looked", !.op = "add_trace_event", !.index = NextIndex])

\* Mutant: there is no unique index.
IndexIsFreeAlways(index) == TRUE
\* uq_trace_events_index
IndexIsFree(index) == \A i \in DOMAIN traces : traces[i] # index

\* An index that another server has used in between is refused: the event is
\* lost with an error.
TraceLocks(s) ==
    /\ handler[s].stage = "looked" /\ handler[s].op = "add_trace_event"
    /\ CanWrite(s)
    /\ Moves(s, IF IndexIsFree(handler[s].index)
                THEN [handler[s] EXCEPT !.stage = "writing", !.at = now]
                ELSE Idle)

\* list_trace_events: ORDER BY event_index, of the rows with these ids.
ListedBefore(i, j) == traces[i] < traces[j]

-----------------------------------------------------------------------------
(* COMMIT                                                                    *)

Effect(h) ==
    \/ /\ h.op = "begin"
       /\ CommitBegin(h)
    \/ /\ h.op = "complete"
       /\ Complete(Sent(h))
    \/ /\ h.op = "fail"
       /\ CommitFail(h)
    \/ /\ h.op = "record"
       /\ CommitRecord(h)
    \/ /\ h.op = "heartbeat"
       /\ Heartbeat(h.worker, h.task, h.lease + h.at - now)
    \/ /\ h.op = "register_dataset"
       /\ RegisterDataset(h.digests)

\* What the handler has left to do.
After(h) == IF h.op = "fail" THEN [h EXCEPT !.stage = "unrecorded", !.at = 0] ELSE Idle

Commit(s) ==
    /\ Reserved(s)
    /\ CanCommit(s)
    /\ Effect(handler[s])
    /\ Becomes(s, After(handler[s]))
    /\ UNCHANGED traces

CommitTrace(s) ==
    /\ Reserved(s)
    /\ CanCommit(s)
    /\ handler[s].op = "add_trace_event"
    /\ traces' = Append(traces, handler[s].index)
    /\ Becomes(s, Idle)
    /\ UNCHANGED vars

CommitWaits(s) ==
    /\ handler[s].stage = "writing"
    /\ ~CanCommit(s)
    /\ Moves(s, [handler[s] EXCEPT !.stage = "pending"])

\* The server is killed, or a lock was not to be had within busy_timeout: what is
\* not committed is rolled back.
Stop(s) ==
    /\ handler[s] # Idle
    /\ Moves(s, Idle)

-----------------------------------------------------------------------------
Request(s) ==
    \/ \E w \in Worker, t \in Task, policy \in Policy, lease \in Lease :
          BeginReads(s, w, t, policy, lease)
    \/ \E c \in claims :
          \/ CompleteLocks(s, c)
          \/ \E error \in Error : FailReads(s, c, error)
    \/ \E w \in Worker, t \in Task, lease \in Lease : HeartbeatLocks(s, w, t, lease)
    \/ \E digests \in SUBSET Task : RegisterDatasetLocks(s, digests)
    \/ TraceReads(s)

Handle(s) ==
    \/ BeginLocks(s) \/ BeginIsBusy(s)
    \/ FailLocks(s) \/ RecordLocks(s) \/ TraceLocks(s)
    \/ CommitWaits(s) \/ Commit(s) \/ CommitTrace(s)

Pass == Tick /\ UNCHANGED svars

SNext == (\E s \in Server : Request(s) \/ Handle(s) \/ Stop(s)) \/ Pass

\* A handler that can take a step takes one; nothing forces a timeout.
SSpec == SInit /\ [][SNext]_allvars /\ \A s \in Server : WF_allvars(Handle(s))

-----------------------------------------------------------------------------
(* Properties; of TaskStore: AttemptGrantedOnce, SingleFlight and            *)
(* ImplementsDurableTask, which say here that begin is atomic between        *)
(* processes too.                                                            *)

\* An attempt is recorded as failed at most once, however the statements of
\* several fails of it, on any servers, fall between one another, and only an
\* attempt that has ended is.  The records may be out of order.
FailureRecordedOnce ==
    \A t \in Task :
        LET records == failure_records[t] IN
        /\ \A i, j \in DOMAIN records : records[i] = records[j] => i = j
        /\ \A i \in DOMAIN records :
              \/ records[i] < tasks[t].attempt
              \/ records[i] = tasks[t].attempt /\ tasks[t].status \in {"failed", "terminal"}

\* The events of an attempt are numbered 1, 2, ..., and listed in the order in
\* which they were stored: no index is used twice or left out, although it is
\* computed before the row is locked.
TracesInOrder ==
    /\ \A i, j \in DOMAIN traces : ListedBefore(i, j) <=> i < j
    /\ \A i \in DOMAIN traces : traces[i] \in 1..Len(traces)

\* No two servers wait for each other: every begin gets an answer, without
\* anybody's timeout.
BeginsEnd == \A s \in Server : handler[s].op = "begin" ~> handler[s].op # "begin"

=============================================================================
