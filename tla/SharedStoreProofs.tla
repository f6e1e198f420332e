------------------------- MODULE SharedStoreProofs -------------------------
(***************************************************************************)
(* Safety of SharedStore for any number of servers, clients, tasks and     *)
(* policies.  The argument: at most one server holds RESERVED, and whoever *)
(* commits waits until nobody holds SHARED; so what begin has read is still *)
(* true of the row when it commits, and each commit does to the tasks what *)
(* the handler of a single server does in one step.                        *)
(***************************************************************************)
EXTENDS SharedStore, TaskStoreFencedProofs

-----------------------------------------------------------------------------
(* The inductive invariant *)

OneWriter == \A r, s \in Server : Reserved(r) /\ Reserved(s) => r = s

\* The events are numbered 1, 2, ... in the order of their ids.
Numbered == \A i \in 1..Len(traces) : traces[i] = i

\* What begin has read is still true of its row.
BeginFacts(h) ==
    h.op = "begin" =>
        /\ h.stage \in {"reading", "writing", "pending"}
        /\ h.worker \in Worker /\ h.task \in Task
        /\ tasks[h.task].status \in {"absent", "pending", "running", "failed"}
        /\ ~LeaseActive(h.task)
        /\ tasks[h.task].attempt = h.attempt
        /\ h.answer = "claim" => h.attempt = 0 \/ h.attempt < h.policy.max_attempts

\* fail has read a row of a running attempt, which every backoff covers.
FailFacts(h) ==
    h.op = "fail" =>
        /\ h.worker \in Worker /\ h.task \in Task /\ h.error \in Error
        /\ h.attempt \in 1..MaxAttempts

\* An event in a transaction has the next index; one that is only looked at has
\* it or a used one.
TraceFacts(h) ==
    h.op = "add_trace_event" =>
        /\ h.stage \in {"looked", "writing", "pending"}
        /\ h.index \in 1..MaxEvents
        /\ h.index <= Len(traces) + 1
        /\ h.stage # "looked" => h.index = Len(traces) + 1

OtherFacts(h) ==
    /\ h.op = "complete" => Sent(h) \in claims
    /\ h.op = "record" => h.task \in Task
    /\ h.op = "heartbeat" => h.worker \in Worker /\ h.task \in Task
    /\ h.stage = "reading" => h.op = "begin"
    /\ h.stage = "unrecorded" => h.op = "fail"

Facts(h) == BeginFacts(h) /\ FailFacts(h) /\ TraceFacts(h) /\ OtherFacts(h)

SharedInv ==
    /\ TypeInv
    /\ STypeOK
    /\ OneWriter
    /\ Numbered
    /\ \A s \in Server : Facts(handler[s])

-----------------------------------------------------------------------------
(* Handlers *)

LEMMA IdleHandler == Idle \in Handler /\ Facts(Idle)
  <1>1. Idle \in Handler
    BY PolicyAssumption DEF Idle, Handler, Stage, Operation
  <1>2. Idle.op = "none" /\ Idle.stage = "idle"
    BY DEF Idle
  <1> QED
    BY <1>1, <1>2 DEF Facts, BeginFacts, FailFacts, TraceFacts, OtherFacts

\* A step that changes one handler only, to one with true facts, and gives it
\* RESERVED only when nobody else has it.
LEMMA MovesKeepsInv ==
    ASSUME SharedInv, NEW s \in Server, NEW h \in Handler, Facts(h), Moves(s, h),
           h.stage \in {"writing", "pending"} => CanWrite(s)
    PROVE  SharedInv'
  <1>1. UNCHANGED <<vars, traces>> /\ handler' = [handler EXCEPT ![s] = h]
    BY DEF Moves, Becomes
  <1>2. handler \in [Server -> Handler]
    BY DEF SharedInv, STypeOK
  <1>3. \A r \in Server : handler'[r] = IF r = s THEN h ELSE handler[r]
    BY <1>1, <1>2
  <1>4. handler' \in [Server -> Handler]
    BY <1>1, <1>2
  <1>5. TypeInv' /\ Numbered' /\ STypeOK'
    BY <1>1, <1>4 DEF SharedInv, vars, TypeInv, TypeOK, Numbered, STypeOK
  <1>6. OneWriter'
    BY <1>3 DEF SharedInv, OneWriter, Reserved, CanWrite
  <1>7. ASSUME NEW r \in Server
        PROVE  Facts(handler[r])'
    <2>1. handler'[r] \in {h, handler[r]} /\ Facts(handler'[r])
      BY <1>3 DEF SharedInv
    <2> QED
      BY <1>1, <2>1
      DEF vars, Facts, BeginFacts, FailFacts, TraceFacts, OtherFacts, LeaseActive, InFuture
  <1> QED
    BY <1>5, <1>6, <1>7 DEF SharedInv

-----------------------------------------------------------------------------
(* The steps before a commit *)

LEMMA BeginReadsKeepsInv ==
    ASSUME SharedInv, NEW s \in Server, NEW w \in Worker, NEW t \in Task, NEW policy \in Policy,
           NEW lease \in Lease, BeginReads(s, w, t, policy, lease)
    PROVE  SharedInv'
  <1> DEFINE h == [Idle EXCEPT !.stage = "reading", !.op = "begin", !.worker = w, !.task = t,
                               !.lease = lease, !.policy = policy, !.attempt = tasks[t].attempt,
                               !.answer = Answer(t, policy)]
  <1>1. tasks[t].attempt \in Nat /\ lease \in Nat /\ policy.max_attempts \in Nat
    BY PolicyAssumption, TimeAssumption DEF SharedInv, TypeInv, TypeOK, TaskRow
  <1>2. Answer(t, policy) \in {"claim", "exhaust"}
    BY DEF Answer
  <1>3. h \in Handler
    BY <1>1, <1>2, IdleHandler DEF Handler, Stage, Operation
  <1>4. /\ h.stage = "reading" /\ h.op = "begin" /\ h.worker = w /\ h.task = t
        /\ h.policy = policy /\ h.attempt = tasks[t].attempt /\ h.answer = Answer(t, policy)
    BY IdleHandler DEF Handler
  <1>5. /\ tasks[t].status \in {"absent", "pending", "running", "failed"}
        /\ ~LeaseActive(t)
    BY DEF BeginReads, Claimable, LeaseActive
  <1>6. Answer(t, policy) = "claim" => tasks[t].attempt = 0 \/ tasks[t].attempt < policy.max_attempts
    <2>1. CASE tasks[t].status = "absent"
      BY <2>1 DEF SharedInv, TypeInv, RowInv, BlankWhenAbsent
    <2>2. CASE Claimable(t)
      BY <1>1, <2>2 DEF Answer, Exhausted
    <2> QED
      BY <2>1, <2>2 DEF BeginReads
  <1>7. Moves(s, h)
    BY DEF BeginReads
  <1> HIDE DEF h
  <1>8. Facts(h)
    BY <1>4, <1>5, <1>6 DEF Facts, BeginFacts, FailFacts, TraceFacts, OtherFacts
  <1> QED
    BY <1>3, <1>4, <1>7, <1>8, MovesKeepsInv

\* A request of another kind, and what it makes of the handler.
LEMMA LocksKeepsInv ==
    ASSUME SharedInv, NEW s \in Server, NEW h \in Handler, Locks(s, h),
           \/ h.op = "complete" /\ Sent(h) \in claims
           \/ h.op = "heartbeat" /\ h.worker \in Worker /\ h.task \in Task
           \/ h.op = "register_dataset"
    PROVE  SharedInv'
  <1> DEFINE g == [h EXCEPT !.stage = "writing", !.at = now]
  <1>1. now \in Nat
    BY DEF SharedInv, TypeInv, TypeOK
  <1>2. g \in Handler
    BY <1>1 DEF Handler, Stage
  <1>3. /\ g.stage = "writing" /\ g.op = h.op /\ g.worker = h.worker /\ g.task = h.task
        /\ g.attempt = h.attempt
    BY DEF Handler
  <1>4. Moves(s, g) /\ CanWrite(s)
    BY DEF Locks
  <1> HIDE DEF g
  <1>5. Sent(g) = Sent(h)
    BY <1>3 DEF Sent
  <1>6. Facts(g)
    BY <1>3, <1>5 DEF Facts, BeginFacts, FailFacts, TraceFacts, OtherFacts
  <1> QED
    BY <1>2, <1>4, <1>6, MovesKeepsInv

LEMMA FailReadsKeepsInv ==
    ASSUME SharedInv, NEW s \in Server, NEW c \in claims, NEW error \in Error, FailReads(s, c, error)
    PROVE  SharedInv'
  <1> DEFINE h == [Idle EXCEPT !.stage = "looked", !.op = "fail", !.worker = c.worker,
                               !.task = c.task, !.attempt = tasks[c.task].attempt,
                               !.policy = tasks[c.task].retry, !.error = error]
  <1>1. c.task \in Task /\ c.worker \in Worker
    BY DEF SharedInv, TypeInv, TypeOK, Claim
  <1>2. tasks[c.task].status = "running" /\ tasks[c.task] \in TaskRow /\ RowInv(tasks[c.task])
    BY <1>1 DEF FailReads, HoldsClaim, SharedInv, TypeInv, TypeOK
  <1>3. tasks[c.task].attempt \in Nat /\ tasks[c.task].retry \in Policy
    BY <1>2 DEF TaskRow
  <1>4. tasks[c.task].attempt \in 1..MaxAttempts
    <2>1. tasks[c.task].retry.max_attempts \in 0..MaxAttempts
      BY <1>3, PolicyAssumption
    <2> QED
      BY <1>2, <1>3, <2>1, PolicyAssumption DEF RowInv, StartedWhenRunning, WithinBudget
  <1>5. h \in Handler
    BY <1>1, <1>3, IdleHandler DEF Handler, Stage, Operation
  <1>6. /\ h.stage = "looked" /\ h.op = "fail" /\ h.worker = c.worker /\ h.task = c.task
        /\ h.attempt = tasks[c.task].attempt /\ h.error = error
    BY IdleHandler DEF Handler
  <1>7. Moves(s, h)
    BY DEF FailReads
  <1> HIDE DEF h
  <1>8. Facts(h)
    BY <1>1, <1>4, <1>6 DEF Facts, BeginFacts, FailFacts, TraceFacts, OtherFacts
  <1> QED
    BY <1>5, <1>6, <1>7, <1>8, MovesKeepsInv

\* MAX(event_index) + 1 of a table numbered 1, 2, ... is the next number.
LEMMA NextIndexIsNext ==
    ASSUME SharedInv, Len(traces) < MaxEvents
    PROVE  NextIndex = Len(traces) + 1
  <1>1. Len(traces) \in Nat /\ DOMAIN traces = 1..Len(traces) /\ MaxEvents \in Nat
    BY EventAssumption DEF SharedInv, STypeOK
  <1>2. \A i \in 1..Len(traces) : traces[i] = i
    BY DEF SharedInv, Numbered
  <1> DEFINE Next1(next) == /\ \A i \in DOMAIN traces : traces[i] < next
                            /\ next = 1 \/ \E i \in DOMAIN traces : traces[i] + 1 = next
  <1>3. Len(traces) + 1 \in 1..(MaxEvents + 1) /\ Next1(Len(traces) + 1)
    <2>1. CASE Len(traces) = 0
      BY <1>1, <2>1
    <2>2. CASE Len(traces) # 0
      <3>1. Len(traces) \in DOMAIN traces /\ traces[Len(traces)] + 1 = Len(traces) + 1
        BY <1>1, <1>2, <2>2
      <3> QED
        BY <1>1, <1>2, <3>1
    <2> QED
      BY <2>1, <2>2
  <1>4. \A next \in 1..(MaxEvents + 1) : Next1(next) => next = Len(traces) + 1
    <2> SUFFICES ASSUME NEW next \in 1..(MaxEvents + 1), Next1(next)
                 PROVE  next = Len(traces) + 1
      OBVIOUS
    <2>1. next <= Len(traces) + 1
      BY <1>1, <1>2
    <2>2. next >= Len(traces) + 1
      BY <1>1, <1>2
    <2> QED
      BY <1>1, <2>1, <2>2
  <1> QED
    BY <1>3, <1>4 DEF NextIndex

LEMMA TraceReadsKeepsInv ==
    ASSUME SharedInv, NEW s \in Server, TraceReads(s)
    PROVE  SharedInv'
  <1> DEFINE h == [Idle EXCEPT !.stage = "looked", !.op = "add_trace_event", !.index = NextIndex]
  <1>1. Len(traces) \in Nat /\ MaxEvents \in Nat /\ Len(traces) < MaxEvents
    BY EventAssumption DEF SharedInv, STypeOK, TraceReads
  <1>2. NextIndex = Len(traces) + 1 /\ NextIndex \in Nat
    BY <1>1, NextIndexIsNext
  <1>3. h \in Handler
    BY <1>2, IdleHandler DEF Handler, Stage, Operation
  <1>4. h.stage = "looked" /\ h.op = "add_trace_event" /\ h.index = NextIndex
    BY IdleHandler DEF Handler
  <1>5. Moves(s, h)
    BY DEF TraceReads
  <1> HIDE DEF h
  <1>6. Facts(h)
    BY <1>1, <1>2, <1>4 DEF Facts, BeginFacts, FailFacts, TraceFacts, OtherFacts
  <1> QED
    BY <1>3, <1>4, <1>5, <1>6, MovesKeepsInv

LEMMA RequestKeepsInv ==
    ASSUME SharedInv, NEW s \in Server, Request(s)
    PROVE  SharedInv'
  <1>1. ASSUME NEW c \in claims, CompleteLocks(s, c)
        PROVE  SharedInv'
    <2> DEFINE h == [Idle EXCEPT !.op = "complete", !.worker = c.worker, !.task = c.task,
                                 !.attempt = c.attempt]
    <2>1. c \in Claim
      BY DEF SharedInv, TypeInv, TypeOK
    <2>2. c.task \in Task /\ c.worker \in Worker /\ c.attempt \in Nat
      BY <2>1 DEF Claim
    <2>3. h \in Handler
      BY <2>2, IdleHandler DEF Handler, Operation
    <2>4. h.op = "complete" /\ h.worker = c.worker /\ h.task = c.task /\ h.attempt = c.attempt
      BY IdleHandler DEF Handler
    <2>5. Locks(s, h)
      BY <1>1 DEF CompleteLocks
    <2> HIDE DEF h
    <2>6. Sent(h) = c
      BY <2>1, <2>4 DEF Sent, Claim
    <2> QED
      BY <2>3, <2>4, <2>5, <2>6, LocksKeepsInv
  <1>2. ASSUME NEW w \in Worker, NEW t \in Task, NEW lease \in Lease, HeartbeatLocks(s, w, t, lease)
        PROVE  SharedInv'
    <2> DEFINE h == [Idle EXCEPT !.op = "heartbeat", !.worker = w, !.task = t, !.lease = lease]
    <2>1. h \in Handler
      BY TimeAssumption, IdleHandler DEF Handler, Operation
    <2>2. h.op = "heartbeat" /\ h.worker = w /\ h.task = t
      BY IdleHandler DEF Handler
    <2>3. Locks(s, h)
      BY <1>2 DEF HeartbeatLocks
    <2> HIDE DEF h
    <2> QED
      BY <2>1, <2>2, <2>3, LocksKeepsInv
  <1>3. ASSUME NEW digests \in SUBSET Task, RegisterDatasetLocks(s, digests)
        PROVE  SharedInv'
    <2> DEFINE h == [Idle EXCEPT !.op = "register_dataset", !.digests = digests]
    <2>1. h \in Handler
      BY IdleHandler DEF Handler, Operation
    <2>2. h.op = "register_dataset"
      BY IdleHandler DEF Handler
    <2>3. Locks(s, h)
      BY <1>3 DEF RegisterDatasetLocks
    <2> HIDE DEF h
    <2> QED
      BY <2>1, <2>2, <2>3, LocksKeepsInv
  <1> QED
    BY <1>1, <1>2, <1>3, BeginReadsKeepsInv, FailReadsKeepsInv, TraceReadsKeepsInv DEF Request

LEMMA SameOp ==
    ASSUME SharedInv, NEW s \in Server, NEW stage, NEW at
    PROVE  [handler[s] EXCEPT !.stage = stage, !.at = at] =
           [handler[s] EXCEPT !.stage = stage, !.op = handler[s].op, !.at = at]
  <1>1. handler[s] \in Handler
    BY DEF SharedInv, STypeOK
  <1> QED
    BY <1>1 DEF Handler

LEMMA BecomesIdleKeepsInv ==
    ASSUME SharedInv, NEW s \in Server, Moves(s, Idle)
    PROVE  SharedInv'
  <1>1. Idle.stage = "idle"
    BY DEF Idle
  <1> QED
    BY <1>1, IdleHandler, MovesKeepsInv

LEMMA HandleMovesKeepsInv ==
    ASSUME SharedInv, NEW s \in Server,
           \/ BeginLocks(s) \/ BeginIsBusy(s) \/ FailLocks(s) \/ RecordLocks(s)
           \/ TraceLocks(s) \/ CommitWaits(s) \/ Stop(s)
    PROVE  SharedInv'
  <1> DEFINE old == handler[s]
  <1>0. now \in Nat /\ old \in Handler /\ Facts(old)
    BY DEF SharedInv, TypeInv, TypeOK, STypeOK
  <1>1. CASE BeginLocks(s)
    <2> DEFINE h == [old EXCEPT !.stage = "writing", !.op = old.op, !.at = now]
    <2>1. old.stage = "reading" /\ CanWrite(s) /\ Moves(s, h)
      BY <1>1, SameOp DEF BeginLocks
    <2>2. old.op = "begin"
      BY <1>0, <2>1 DEF Facts, OtherFacts
    <2>3. /\ h \in Handler /\ h.stage = "writing" /\ h.op = "begin"
          /\ h.worker = old.worker /\ h.task = old.task /\ h.policy = old.policy
          /\ h.attempt = old.attempt /\ h.answer = old.answer
      BY <1>0, <2>2 DEF Handler, Stage, Operation
    <2> HIDE DEF h
    <2>4. Facts(h)
      BY <1>0, <2>2, <2>3 DEF Facts, BeginFacts, FailFacts, TraceFacts, OtherFacts
    <2> QED
      BY <2>1, <2>3, <2>4, MovesKeepsInv
  <1>2. CASE FailLocks(s)
    <2>1. CASE HoldsClaim(Sent(old))
      <3> DEFINE h == [old EXCEPT !.stage = "writing", !.op = old.op, !.at = now]
      <3>1. old.op = "fail" /\ CanWrite(s) /\ Moves(s, h)
        BY <1>2, <2>1, SameOp DEF FailLocks
      <3>2. /\ h \in Handler /\ h.stage = "writing" /\ h.op = "fail"
            /\ h.worker = old.worker /\ h.task = old.task
            /\ h.attempt = old.attempt /\ h.error = old.error
        BY <1>0, <3>1 DEF Handler, Stage, Operation
      <3> HIDE DEF h
      <3>3. Facts(h)
        BY <1>0, <3>1, <3>2 DEF Facts, BeginFacts, FailFacts, TraceFacts, OtherFacts
      <3> QED
        BY <3>1, <3>2, <3>3, MovesKeepsInv
    <2>2. CASE ~HoldsClaim(Sent(old))
      BY <1>2, <2>2, BecomesIdleKeepsInv DEF FailLocks
    <2> QED
      BY <2>1, <2>2
  <1>3. CASE RecordLocks(s)
    <2> DEFINE h == [old EXCEPT !.stage = "writing", !.op = "record"]
    <2>1. old.stage = "unrecorded" /\ CanWrite(s) /\ Moves(s, h)
      BY <1>3 DEF RecordLocks
    <2>2. old.op = "fail"
      BY <1>0, <2>1 DEF Facts, OtherFacts
    <2>3. h \in Handler /\ h.stage = "writing" /\ h.op = "record" /\ h.task = old.task
      BY <1>0 DEF Handler, Stage, Operation
    <2> HIDE DEF h
    <2>4. Facts(h)
      BY <1>0, <2>2, <2>3 DEF Facts, BeginFacts, FailFacts, TraceFacts, OtherFacts
    <2> QED
      BY <2>1, <2>3, <2>4, MovesKeepsInv
  <1>4. CASE TraceLocks(s)
    <2>1. CASE IndexIsFree(old.index)
      <3> DEFINE h == [old EXCEPT !.stage = "writing", !.op = old.op, !.at = now]
      <3>1. old.op = "add_trace_event" /\ CanWrite(s) /\ Moves(s, h)
        BY <1>4, <2>1, SameOp DEF TraceLocks
      <3>2. /\ h \in Handler /\ h.stage = "writing" /\ h.op = "add_trace_event"
            /\ h.index = old.index
        BY <1>0, <3>1 DEF Handler, Stage, Operation
      <3> HIDE DEF h
      <3>3. /\ Len(traces) \in Nat /\ DOMAIN traces = 1..Len(traces) /\ MaxEvents \in Nat
            /\ old.index \in 1..MaxEvents /\ old.index <= Len(traces) + 1
        BY <1>0, <3>1, EventAssumption DEF SharedInv, STypeOK, Facts, TraceFacts
      <3>4. \A i \in 1..Len(traces) : i # old.index
        BY <2>1, <3>3 DEF IndexIsFree, SharedInv, Numbered
      <3>5. old.index = Len(traces) + 1
        BY <3>3, <3>4
      <3>6. Facts(h)
        BY <3>2, <3>3, <3>5 DEF Facts, BeginFacts, FailFacts, TraceFacts, OtherFacts
      <3> QED
        BY <3>1, <3>2, <3>6, MovesKeepsInv
    <2>2. CASE ~IndexIsFree(old.index)
      BY <1>4, <2>2, BecomesIdleKeepsInv DEF TraceLocks
    <2> QED
      BY <2>1, <2>2
  <1>5. CASE CommitWaits(s)
    <2> DEFINE h == [old EXCEPT !.stage = "pending", !.op = old.op, !.at = old.at]
    <2>1. old.stage = "writing" /\ Moves(s, [old EXCEPT !.stage = "pending"])
      BY <1>5 DEF CommitWaits
    <2>2. h = [old EXCEPT !.stage = "pending"]
      BY <1>0 DEF Handler
    <2>3. /\ h \in Handler /\ h.stage = "pending" /\ h.op = old.op
          /\ h.worker = old.worker /\ h.task = old.task /\ h.policy = old.policy
          /\ h.attempt = old.attempt /\ h.answer = old.answer /\ h.error = old.error
          /\ h.index = old.index /\ Sent(h) = Sent(old)
      BY <1>0 DEF Handler, Stage, Operation, Sent
    <2>4. Moves(s, h)
      BY <2>1, <2>2
    <2> HIDE DEF h
    <2>5. Facts(h)
      BY <1>0, <2>1, <2>3 DEF Facts, BeginFacts, FailFacts, TraceFacts, OtherFacts
    <2>6. CanWrite(s)
      BY <2>1 DEF SharedInv, OneWriter, Reserved, CanWrite
    <2> QED
      BY <2>3, <2>4, <2>5, <2>6, MovesKeepsInv
  <1>6. CASE BeginIsBusy(s) \/ Stop(s)
    BY <1>6, BecomesIdleKeepsInv DEF BeginIsBusy, Stop
  <1> QED
    BY <1>1, <1>2, <1>3, <1>4, <1>5, <1>6

-----------------------------------------------------------------------------
(* What a commit does to the tasks *)

\* The branch of begin that hands out an attempt.
LEMMA CommittedClaim ==
    ASSUME SharedInv, NEW s \in Server, handler[s].op = "begin", handler[s].answer = "claim",
           CommitBegin(handler[s])
    PROVE  LET h == handler[s]
               t == h.task
               lease_end == h.at + h.lease
           IN  /\ h.worker \in Worker /\ t \in Task /\ h.policy \in Policy /\ lease_end \in Nat
               /\ GrantAs(h.worker, t, h.policy, lease_end, tasks[t].attempt + 1)
               /\ tasks[t].attempt = 0 \/ tasks[t].attempt < h.policy.max_attempts
               /\ tasks[t].status \in {"absent", "pending", "running", "failed"}
               /\ ~LeaseActive(t)
  <1> DEFINE h == handler[s]
  <1>1. h \in Handler /\ Facts(h)
    BY DEF SharedInv, STypeOK
  <1>2. h.policy \in Policy /\ h.at + h.lease \in Nat
    BY <1>1 DEF Handler
  <1>3. GrantAs(h.worker, h.task, h.policy, h.at + h.lease, h.attempt + 1)
    BY DEF CommitBegin
  <1> QED
    BY <1>1, <1>2, <1>3 DEF Facts, BeginFacts

\* The branch of begin that closes the task.
LEMMA CommittedExhaustion ==
    ASSUME SharedInv, NEW s \in Server, handler[s].op = "begin", handler[s].answer # "claim",
           CommitBegin(handler[s])
    PROVE  LET t == handler[s].task
           IN  /\ t \in Task /\ ~LeaseActive(t)
               /\ tasks[t].status \in {"absent", "pending", "running", "failed"}
               /\ UNCHANGED <<generation, failure_records, now, claims, deadline, registered>>
               /\ \E row : /\ Writes(t, row) /\ RowInv(row) /\ row.status = "terminal"
                           /\ row.attempt = tasks[t].attempt /\ row.output = tasks[t].output
                           /\ row.retry = tasks[t].retry
                           /\ row.generation = tasks[t].generation
  <1> DEFINE t == handler[s].task
             row == [tasks[t] EXCEPT !.status = "terminal"]
  <1>1. t \in Task /\ ~LeaseActive(t) /\ tasks[t].status \in {"absent", "pending", "running", "failed"}
    BY DEF SharedInv, Facts, BeginFacts
  <1>2. tasks \in [Task -> TaskRow] /\ RowInv(tasks[t])
    BY <1>1 DEF SharedInv, TypeInv, TypeOK
  <1>3. tasks[t] \in TaskRow
    BY <1>1, <1>2
  <1>4. row \in TaskRow
    BY <1>3 DEF TaskRow, Status
  <1>5. /\ row.status = "terminal" /\ row.attempt = tasks[t].attempt
        /\ row.output = tasks[t].output /\ row.retry = tasks[t].retry
        /\ row.generation = tasks[t].generation
    BY <1>3 DEF TaskRow
  <1>6. RowInv(row)
    BY <1>2, <1>4, <1>5 DEF RowInv, BlankWhenAbsent, StartedWhenRunning, WithinBudget
  <1>7. /\ Writes(t, row)
        /\ UNCHANGED <<generation, failure_records, now, claims, deadline, registered>>
    BY <1>1, <1>2 DEF CommitBegin, Writes
  <1> HIDE DEF row
  <1> QED
    BY <1>1, <1>5, <1>6, <1>7

LEMMA CommittedFailure ==
    ASSUME SharedInv, NEW s \in Server, handler[s].op = "fail", CommitFail(handler[s])
    PROVE  LET h == handler[s]
               t == h.task
           IN  /\ h.worker \in Worker /\ t \in Task /\ HoldsClaim(Sent(h))
               /\ tasks[t].status = "running"
               /\ deadline' = [deadline EXCEPT ![h.worker][t] = NoStamp]
               /\ UNCHANGED <<generation, failure_records, now, claims, registered>>
               /\ \E row : /\ Writes(t, row) /\ RowInv(row)
                           /\ row.status \in {"failed", "terminal"}
                           /\ row.status = "terminal" => ~Retryable(h.policy, h.error)
                           /\ row.error = h.error /\ row.error \in Error
                           /\ row.attempt = tasks[t].attempt /\ row.output = tasks[t].output
                           /\ row.retry = tasks[t].retry
                           /\ row.generation = tasks[t].generation
  <1> DEFINE h == handler[s]
             c == Sent(h)
             seen == [attempt |-> h.attempt, retry |-> h.policy]
  <1>1. h \in Handler /\ Facts(h)
    BY DEF SharedInv, STypeOK
  <1>2. /\ h.worker \in Worker /\ h.task \in Task /\ h.error \in Error
        /\ h.attempt \in 1..MaxAttempts /\ h.policy \in Policy /\ h.at \in Nat
    BY <1>1 DEF Facts, FailFacts, Handler
  <1>3. c.task = h.task /\ c.worker = h.worker /\ c.task \in Task
    BY <1>2 DEF Sent
  <1>4. FailUpdateAt(c, h.error, seen, h.at) /\ UNCHANGED failure_records
    BY DEF CommitFail
  <1>5. (\A secs \in Delays(seen, h.error) : secs \in Nat) /\ seen.retry = h.policy
    BY <1>2, PolicyAssumption DEF Delays
  <1> HIDE DEF c, seen
  <1>6. PICK row :
          /\ Writes(h.task, row) /\ RowInv(row)
          /\ row.status = IF Retryable(seen.retry, h.error) THEN "failed" ELSE "terminal"
          /\ row.error = h.error /\ row.retry = tasks[h.task].retry
          /\ row.attempt = tasks[h.task].attempt /\ row.output = tasks[h.task].output
          /\ row.generation = tasks[h.task].generation
    BY <1>2, <1>3, <1>4, <1>5, FailAtWrites DEF SharedInv
  <1>7. /\ HoldsClaim(c) /\ deadline' = [deadline EXCEPT ![h.worker][h.task] = NoStamp]
        /\ UNCHANGED <<generation, failure_records, now, claims, registered>>
    BY <1>3, <1>4 DEF FailUpdateAt
  <1>8. tasks[h.task].status = "running"
    BY <1>3, <1>7 DEF HoldsClaim
  <1>9. /\ row.status \in {"failed", "terminal"}
        /\ row.status = "terminal" => ~Retryable(h.policy, h.error)
    BY <1>5, <1>6
  <1> QED
    BY <1>2, <1>6, <1>7, <1>8, <1>9 DEF c

LEMMA CommittedHeartbeat ==
    ASSUME SharedInv, NEW s \in Server, handler[s].op = "heartbeat",
           Heartbeat(handler[s].worker, handler[s].task, handler[s].lease + handler[s].at - now)
    PROVE  LET h == handler[s]
               t == h.task
               lease_end == h.lease + h.at
           IN  /\ h.worker \in Worker /\ t \in Task /\ lease_end \in Nat
               /\ tasks[t].status = "running" /\ tasks[t].lease_owner = h.worker
               /\ deadline' = [deadline EXCEPT ![h.worker][t] = lease_end]
               /\ UNCHANGED <<generation, failure_records, now, claims, registered>>
               /\ \E row : /\ Writes(t, row) /\ RowInv(row)
                           /\ row.status = "running" /\ row.lease_owner = h.worker
                           /\ row.lease_expires_at = lease_end
                           /\ row.attempt = tasks[t].attempt /\ row.output = tasks[t].output
                           /\ row.retry = tasks[t].retry
                           /\ row.generation = tasks[t].generation
  <1> DEFINE h == handler[s]
             lease == h.lease + h.at - now
  <1>1. h \in Handler /\ Facts(h) /\ now \in Nat /\ TypeInv
    BY DEF SharedInv, STypeOK, TypeOK
  <1>2. h.worker \in Worker /\ h.task \in Task /\ h.lease \in Nat /\ h.at \in Nat
    BY <1>1 DEF Facts, OtherFacts, Handler
  <1>3. now + lease = h.lease + h.at /\ h.lease + h.at \in Nat
    BY <1>1, <1>2
  <1>4. Heartbeat(h.worker, h.task, lease)
    OBVIOUS
  <1> HIDE DEF lease
  <1>5. /\ tasks[h.task].status = "running" /\ tasks[h.task].lease_owner = h.worker
        /\ \E row : /\ Writes(h.task, row) /\ RowInv(row)
                    /\ row.status = "running" /\ row.lease_owner = h.worker
                    /\ row.lease_expires_at = now + lease
                    /\ row.attempt = tasks[h.task].attempt /\ row.output = tasks[h.task].output
                    /\ row.retry = tasks[h.task].retry
                    /\ row.generation = tasks[h.task].generation
    BY <1>1, <1>2, <1>3, <1>4, HeartbeatUntilWrites
  <1>6. /\ deadline' = [deadline EXCEPT ![h.worker][h.task] = now + lease]
        /\ UNCHANGED <<generation, failure_records, now, claims, registered>>
    BY <1>4 DEF Heartbeat
  <1> QED
    BY <1>2, <1>3, <1>5, <1>6

LEMMA CommittedRecord ==
    ASSUME SharedInv, NEW s \in Server, handler[s].op = "record", CommitRecord(handler[s])
    PROVE  /\ failure_records' \in [Task -> Seq(Nat)]
           /\ UNCHANGED <<tasks, generation, now, claims, deadline, registered>>
  <1> DEFINE h == handler[s]
  <1>1. h.attempt \in Nat /\ h.task \in Task
    BY DEF SharedInv, STypeOK, Handler, Facts, OtherFacts
  <1>2. failure_records \in [Task -> Seq(Nat)]
    BY DEF SharedInv, STypeOK, TypeOK
  <1>3. Append(failure_records[h.task], h.attempt) \in Seq(Nat)
    BY <1>1, <1>2, AppendProperties
  <1> QED
    BY <1>2, <1>3 DEF CommitRecord

LEMMA CommittedCompletion ==
    ASSUME SharedInv, NEW s \in Server, handler[s].op = "complete"
    PROVE  Sent(handler[s]) \in claims
  BY DEF SharedInv, Facts, OtherFacts

LEMMA CommittedRegistration ==
    ASSUME SharedInv, NEW s \in Server
    PROVE  handler[s].digests \in SUBSET Task
  BY DEF SharedInv, STypeOK, Handler

\* Every commit keeps the types, takes no claim back and takes no time.
LEMMA EffectTypes ==
    ASSUME SharedInv, NEW s \in Server, Effect(handler[s])
    PROVE  TypeInv' /\ claims \subseteq claims' /\ now' = now
  <1> DEFINE h == handler[s]
             t == h.task
  <1>0. TypeInv /\ TypeOK
    BY DEF SharedInv, TypeInv
  <1>1. CASE h.op = "begin" /\ CommitBegin(h) /\ h.answer = "claim"
    <2> DEFINE lease_end == h.at + h.lease
               n == tasks[t].attempt + 1
    <2>1. /\ h.worker \in Worker /\ t \in Task /\ h.policy \in Policy /\ lease_end \in Nat
          /\ GrantAs(h.worker, t, h.policy, lease_end, n)
          /\ tasks[t].attempt = 0 \/ tasks[t].attempt < h.policy.max_attempts
      BY <1>1, CommittedClaim
    <2>2. n \in Nat \ {0}
      BY <1>0, <2>1 DEF TypeOK, TaskRow
    <2>3. PICK row : Writes(t, row) /\ RowInv(row)
      BY <1>0, <2>1, GrantAsWrites
    <2> HIDE DEF lease_end, n
    <2>4. claims' \in SUBSET Claim /\ deadline' \in [Worker -> [Task -> Nat]]
      BY <1>0, <2>1, <2>2 DEF GrantAs, TypeOK, Claim
    <2>5. claims \subseteq claims' /\ now' = now
      BY <2>1 DEF GrantAs
    <2> QED
      BY <1>0, <2>1, <2>3, <2>4, <2>5, WriteKeepsTypes DEF GrantAs, TypeInv, TypeOK
  <1>2. CASE h.op = "begin" /\ CommitBegin(h) /\ h.answer # "claim"
    <2>1. /\ t \in Task /\ \E row : Writes(t, row) /\ RowInv(row)
          /\ UNCHANGED <<generation, failure_records, now, claims, deadline, registered>>
      BY <1>2, CommittedExhaustion
    <2> QED
      BY <1>0, <2>1, WriteKeepsTypes DEF TypeInv, TypeOK
  <1>3. CASE h.op = "complete" /\ Complete(Sent(h))
    <2> DEFINE c == Sent(h)
    <2>1. c \in claims
      BY <1>3, CommittedCompletion
    <2> HIDE DEF c
    <2>2. Complete(c)
      BY <1>3 DEF c
    <2>3. c.task \in Task /\ c.worker \in Worker /\ \E row : Writes(c.task, row) /\ RowInv(row)
      BY <1>0, <2>1, <2>2, CompleteWrites
    <2>4. deadline' \in [Worker -> [Task -> Nat]]
      BY <1>0, <2>2, <2>3 DEF Complete, TypeOK, NoStamp
    <2> QED
      BY <1>0, <2>2, <2>3, <2>4, WriteKeepsTypes DEF Complete, TypeInv, TypeOK
  <1>4. CASE h.op = "fail" /\ CommitFail(h)
    <2>1. /\ h.worker \in Worker /\ t \in Task /\ \E row : Writes(t, row) /\ RowInv(row)
          /\ deadline' = [deadline EXCEPT ![h.worker][t] = NoStamp]
          /\ UNCHANGED <<generation, failure_records, now, claims, registered>>
      BY <1>4, CommittedFailure
    <2>2. deadline' \in [Worker -> [Task -> Nat]]
      BY <1>0, <2>1 DEF TypeOK, NoStamp
    <2> QED
      BY <1>0, <2>1, <2>2, WriteKeepsTypes DEF TypeInv, TypeOK
  <1>5. CASE h.op = "record" /\ CommitRecord(h)
    BY <1>0, <1>5, CommittedRecord DEF TypeInv, TypeOK
  <1>6. CASE h.op = "heartbeat" /\ Heartbeat(h.worker, t, h.lease + h.at - now)
    <2> DEFINE lease_end == h.lease + h.at
    <2>1. /\ h.worker \in Worker /\ t \in Task /\ lease_end \in Nat
          /\ \E row : Writes(t, row) /\ RowInv(row)
          /\ deadline' = [deadline EXCEPT ![h.worker][t] = lease_end]
          /\ UNCHANGED <<generation, failure_records, now, claims, registered>>
      BY <1>6, CommittedHeartbeat
    <2> HIDE DEF lease_end
    <2>2. deadline' \in [Worker -> [Task -> Nat]]
      BY <1>0, <2>1 DEF TypeOK
    <2> QED
      BY <1>0, <2>1, <2>2, WriteKeepsTypes DEF TypeInv, TypeOK
  <1>7. CASE h.op = "register_dataset" /\ RegisterDataset(h.digests)
    <2> DEFINE digests == h.digests
    <2>1. digests \in SUBSET Task
      BY CommittedRegistration
    <2> HIDE DEF digests
    <2>2. RegisterDataset(digests)
      BY <1>7 DEF digests
    <2>3. tasks' \in [Task -> TaskRow] /\ \A u \in Task : RowInv(tasks'[u])
      BY <1>0, <2>1, <2>2, RegisterWrites
    <2>4. generation' = generation + 1 /\ registered' = digests
      BY <2>2, Zenon DEF RegisterDataset
    <2>5. UNCHANGED <<failure_records, now, claims, deadline>>
      BY <2>2 DEF RegisterDataset
    <2> QED
      BY <1>0, <2>1, <2>3, <2>4, <2>5 DEF TypeInv, TypeOK
  <1> QED
    BY <1>1, <1>2, <1>3, <1>4, <1>5, <1>6, <1>7 DEF Effect

\* Nobody else is in the middle of a begin when a server commits.
LEMMA CommitsAlone ==
    ASSUME SharedInv, NEW s \in Server, Reserved(s), CanCommit(s)
    PROVE  \A r \in Server \ {s} : ~Reserved(r) /\ handler[r].op # "begin"
  BY DEF SharedInv, OneWriter, CanCommit, Shared, Reserved, Facts, BeginFacts

LEMMA CommitKeepsInv ==
    ASSUME SharedInv, NEW s \in Server, Commit(s)
    PROVE  SharedInv'
  <1> DEFINE old == handler[s]
             h == After(old)
  <1>1. /\ Reserved(s) /\ CanCommit(s) /\ Effect(old) /\ traces' = traces
        /\ handler' = [handler EXCEPT ![s] = h]
    BY DEF Commit, Becomes
  <1>2. TypeInv' /\ claims \subseteq claims' /\ now' = now
    BY <1>1, EffectTypes
  <1>3. handler \in [Server -> Handler] /\ old \in Handler /\ Facts(old)
    BY DEF SharedInv, STypeOK
  <1>4. \/ h = Idle
        \/ /\ h = [old EXCEPT !.stage = "unrecorded", !.at = 0]
           /\ old.op = "fail"
    BY DEF After
  <1> HIDE DEF h
  <1>5. h \in Handler
    <2>1. [old EXCEPT !.stage = "unrecorded", !.at = 0] \in Handler
      BY <1>3 DEF Handler, Stage
    <2> QED
      BY <1>4, <2>1, IdleHandler
  <1>6. /\ h.stage \notin {"writing", "pending"}
        /\ \/ h.op = "none" /\ h.stage = "idle"
           \/ /\ h.op = "fail" /\ h.stage = "unrecorded" /\ old.op = "fail"
              /\ h.worker = old.worker /\ h.task = old.task /\ h.error = old.error
              /\ h.attempt = old.attempt
    <2>1. CASE h = Idle
      BY <2>1 DEF Idle
    <2>2. CASE h # Idle
      BY <1>3, <1>4, <2>2 DEF Handler
    <2> QED
      BY <2>1, <2>2
  <1>7. \A r \in Server : handler'[r] = IF r = s THEN h ELSE handler[r]
    BY <1>1, <1>3
  <1>8. STypeOK'
    BY <1>1, <1>2, <1>3, <1>5 DEF SharedInv, STypeOK, TypeInv
  <1>9. OneWriter' /\ Numbered'
    BY <1>1, <1>6, <1>7 DEF SharedInv, OneWriter, Numbered, Reserved
  <1>10. ASSUME NEW r \in Server
         PROVE  Facts(handler[r])'
    <2>1. CASE r = s
      BY <1>3, <1>6, <1>7, <2>1 DEF Facts, BeginFacts, FailFacts, TraceFacts, OtherFacts
    <2>2. CASE r # s
      <3>1. handler'[r] = handler[r] /\ handler[r].op # "begin" /\ Facts(handler[r])
        BY <1>1, <1>7, <2>2, CommitsAlone DEF SharedInv
      <3> QED
        BY <1>1, <1>2, <3>1 DEF Facts, BeginFacts, FailFacts, TraceFacts, OtherFacts
    <2> QED
      BY <2>1, <2>2
  <1> QED
    BY <1>2, <1>8, <1>9, <1>10 DEF SharedInv

LEMMA CommitTraceKeepsInv ==
    ASSUME SharedInv, NEW s \in Server, CommitTrace(s)
    PROVE  SharedInv'
  <1> DEFINE index == handler[s].index
  <1>1. /\ Reserved(s) /\ CanCommit(s) /\ handler[s].op = "add_trace_event"
        /\ traces' = Append(traces, index) /\ handler' = [handler EXCEPT ![s] = Idle]
        /\ UNCHANGED vars
    BY DEF CommitTrace, Becomes
  <1>2. handler \in [Server -> Handler] /\ Facts(handler[s]) /\ traces \in Seq(1..MaxEvents)
    BY DEF SharedInv, STypeOK
  <1>3. index = Len(traces) + 1 /\ index \in 1..MaxEvents /\ Len(traces) \in Nat
    BY <1>1, <1>2 DEF Facts, TraceFacts, Reserved
  <1>4. /\ traces' \in Seq(1..MaxEvents) /\ Len(traces') = Len(traces) + 1
        /\ \A i \in 1..Len(traces) : traces'[i] = traces[i]
        /\ traces'[Len(traces) + 1] = index
    BY <1>1, <1>2, <1>3, AppendProperties
  <1>5. Numbered'
    BY <1>3, <1>4 DEF SharedInv, Numbered
  <1>6. \A r \in Server : handler'[r] = IF r = s THEN Idle ELSE handler[r]
    BY <1>1, <1>2
  <1>7. STypeOK' /\ TypeInv'
    BY <1>1, <1>2, <1>4, IdleHandler DEF SharedInv, STypeOK, TypeInv, TypeOK, vars
  <1>8. Idle.stage = "idle" /\ Idle.op = "none"
    BY DEF Idle
  <1>9. OneWriter'
    BY <1>6, <1>8 DEF SharedInv, OneWriter, Reserved
  <1>10. ASSUME NEW r \in Server
         PROVE  Facts(handler[r])'
    <2>1. CASE r = s
      BY <1>6, <1>8, <2>1 DEF Facts, BeginFacts, FailFacts, TraceFacts, OtherFacts
    <2>2. CASE r # s
      <3>1. handler'[r] = handler[r] /\ ~Reserved(r) /\ handler[r].op # "begin" /\ Facts(handler[r])
        BY <1>1, <1>6, <2>2, CommitsAlone DEF SharedInv
      <3>2. handler[r].stage \notin {"writing", "pending"}
        BY <3>1 DEF Reserved
      <3>3. handler[r] \in Handler
        BY <1>2
      <3> QED
        BY <1>1, <1>3, <1>4, <3>1, <3>2, <3>3
        DEF vars, Handler, Facts, BeginFacts, FailFacts, TraceFacts, OtherFacts
    <2> QED
      BY <2>1, <2>2
  <1> QED
    BY <1>5, <1>7, <1>9, <1>10 DEF SharedInv

LEMMA PassKeepsInv ==
    ASSUME SharedInv, Pass
    PROVE  SharedInv'
  <1>1. /\ now \in Nat /\ now' = now + 1 /\ UNCHANGED <<handler, traces>>
        /\ UNCHANGED <<tasks, generation, failure_records, claims, deadline, registered>>
    BY DEF Pass, Tick, svars, SharedInv, STypeOK, TypeOK
  <1>2. TypeInv' /\ STypeOK' /\ OneWriter' /\ Numbered'
    BY <1>1 DEF SharedInv, TypeInv, STypeOK, TypeOK, OneWriter, Reserved, Numbered
  <1>3. ASSUME NEW t \in Task, ~LeaseActive(t)
        PROVE  ~LeaseActive(t)'
    <2>1. tasks[t] \in TaskRow
      BY DEF SharedInv, TypeInv, TypeOK
    <2>2. tasks[t].lease_expires_at \in Nat
      BY <2>1 DEF TaskRow
    <2> QED
      BY <1>1, <1>3, <2>2 DEF LeaseActive, InFuture
  <1>4. ASSUME NEW s \in Server
        PROVE  Facts(handler[s])'
    <2>1. handler'[s] = handler[s] /\ Facts(handler[s])
      BY <1>1 DEF SharedInv
    <2>2. BeginFacts(handler[s])'
      BY <1>1, <1>3, <2>1 DEF Facts, BeginFacts
    <2> QED
      BY <1>1, <2>1, <2>2 DEF Facts, FailFacts, TraceFacts, OtherFacts
  <1> QED
    BY <1>2, <1>4 DEF SharedInv

LEMMA InitSharedInv == SInit => SharedInv
  <1> SUFFICES ASSUME SInit PROVE SharedInv
    OBVIOUS
  <1>1. TypeInv /\ TypeOK
    BY InitTypeInv DEF SInit, TypeInv
  <1>2. Idle.stage = "idle" /\ \A s \in Server : handler[s] = Idle
    BY DEF SInit, Idle
  <1>3. STypeOK
    BY <1>1, IdleHandler DEF SInit, STypeOK
  <1>4. OneWriter /\ Numbered
    BY <1>2 DEF SInit, OneWriter, Reserved, Numbered
  <1>5. \A s \in Server : Facts(handler[s])
    BY <1>2, IdleHandler
  <1> QED
    BY <1>1, <1>3, <1>4, <1>5 DEF SharedInv

LEMMA NextSharedInv ==
    ASSUME SharedInv, [SNext]_allvars
    PROVE  SharedInv'
  <1>1. ASSUME NEW s \in Server, Request(s) \/ Handle(s) \/ Stop(s)
        PROVE  SharedInv'
    BY <1>1, RequestKeepsInv, HandleMovesKeepsInv, CommitKeepsInv, CommitTraceKeepsInv DEF Handle
  <1>2. CASE Pass
    BY <1>2, PassKeepsInv
  <1>3. CASE UNCHANGED allvars
    BY <1>3 DEF allvars, vars, svars, SharedInv, TypeInv, STypeOK, TypeOK, OneWriter, Reserved,
                Numbered, Facts, BeginFacts, FailFacts, TraceFacts, OtherFacts, LeaseActive, InFuture
  <1> QED
    BY <1>1, <1>2, <1>3 DEF SNext

LEMMA SharedInvariant == SSpec => []SharedInv
  BY InitSharedInv, NextSharedInv, PTL DEF SSpec

-----------------------------------------------------------------------------
(* Types and traces *)

\* Every variable keeps its type, what the handlers hold included.
THEOREM SharedTypes == SSpec => []STypeOK
  <1>1. SharedInv => STypeOK
    BY DEF SharedInv
  <1> QED
    BY <1>1, SharedInvariant, PTL

\* However many servers compute the next event_index at once, the stored events
\* are numbered 1, 2, ... in the order in which they were stored.
THEOREM EventsAreInOrder == SSpec => []TracesInOrder
  <1>1. SharedInv => TracesInOrder
    <2> SUFFICES ASSUME SharedInv PROVE TracesInOrder
      OBVIOUS
    <2>1. DOMAIN traces = 1..Len(traces) /\ \A i \in 1..Len(traces) : traces[i] = i
      BY DEF SharedInv, STypeOK, Numbered
    <2> QED
      BY <2>1 DEF TracesInOrder, ListedBefore
  <1> QED
    BY <1>1, SharedInvariant, PTL

-----------------------------------------------------------------------------
(* Attempts *)

\* A step that is no commit leaves the tasks alone.
LEMMA OnlyCommitsWrite ==
    ASSUME [SNext]_allvars
    PROVE  \/ \E s \in Server : Commit(s)
           \/ Pass
           \/ UNCHANGED vars
  BY DEF SNext, Request, Handle, BeginReads, CompleteLocks, FailReads, HeartbeatLocks,
         RegisterDatasetLocks, TraceReads, Locks, BeginLocks, BeginIsBusy, FailLocks, RecordLocks,
         TraceLocks, CommitWaits, CommitTrace, Stop, Moves, allvars

\* begin hands every attempt number out once although its SELECT and its UPDATE are
\* separate statements and other processes act in between.
THEOREM SharedAttemptsAreGrantedOnce == SSpec => []AttemptGrantedOnce
  <1>1. SInit => AttemptGrantedOnce
    BY DEF SInit, Init, NoRow, AttemptGrantedOnce
  <1>2. ASSUME SharedInv, AttemptGrantedOnce, NEW s \in Server, Effect(handler[s])
        PROVE  AttemptGrantedOnce'
    <2> DEFINE h == handler[s]
               t == h.task
    <2>0. TypeInv
      BY <1>2 DEF SharedInv
    <2>1. CASE h.op = "begin" /\ CommitBegin(h) /\ h.answer = "claim"
      <3> DEFINE lease_end == h.at + h.lease
      <3>1. /\ h.worker \in Worker /\ t \in Task /\ h.policy \in Policy /\ lease_end \in Nat
            /\ GrantAs(h.worker, t, h.policy, lease_end, tasks[t].attempt + 1)
            /\ tasks[t].attempt = 0 \/ tasks[t].attempt < h.policy.max_attempts
        BY <1>2, <2>1, CommittedClaim
      <3> QED
        BY <1>2, <2>0, <3>1, GrantNumbersAttempts
    <2>2. CASE \/ h.op = "begin" /\ CommitBegin(h) /\ h.answer # "claim"
               \/ h.op = "fail" /\ CommitFail(h)
               \/ h.op = "heartbeat" /\ Heartbeat(h.worker, t, h.lease + h.at - now)
      <3>1. /\ t \in Task /\ claims' = claims
            /\ \E row : Writes(t, row) /\ RowInv(row) /\ row.attempt = tasks[t].attempt
        <4>1. CASE h.op = "begin" /\ CommitBegin(h) /\ h.answer # "claim"
          BY <1>2, <4>1, CommittedExhaustion
        <4>2. CASE h.op = "fail" /\ CommitFail(h)
          BY <1>2, <4>2, CommittedFailure
        <4>3. CASE h.op = "heartbeat" /\ Heartbeat(h.worker, t, h.lease + h.at - now)
          BY <1>2, <4>3, CommittedHeartbeat
        <4> QED
          BY <2>2, <4>1, <4>2, <4>3
      <3>2. \A u \in Task : tasks'[u].attempt = tasks[u].attempt
        BY <2>0, <3>1, WriteKeepsTypes
      <3> QED
        BY <1>2, <3>1, <3>2, SameAttempts
    <2>3. CASE h.op = "complete" /\ Complete(Sent(h))
      <3> DEFINE c == Sent(h)
      <3>1. c \in claims
        BY <1>2, <2>3, CommittedCompletion
      <3> HIDE DEF c
      <3>2. Complete(c)
        BY <2>3 DEF c
      <3>3. /\ c.task \in Task
            /\ \E row : Writes(c.task, row) /\ RowInv(row) /\ row.attempt = tasks[c.task].attempt
        BY <2>0, <3>1, <3>2, CompleteWrites
      <3>4. \A u \in Task : tasks'[u].attempt = tasks[u].attempt
        BY <2>0, <3>3, WriteKeepsTypes
      <3> QED
        BY <1>2, <3>2, <3>4, SameAttempts DEF Complete
    <2>4. CASE h.op = "record" /\ CommitRecord(h)
      BY <1>2, <2>4, SameAttempts DEF CommitRecord
    <2>5. CASE h.op = "register_dataset" /\ RegisterDataset(h.digests)
      <3> DEFINE digests == h.digests
      <3>1. digests \in SUBSET Task
        BY <1>2, CommittedRegistration
      <3> HIDE DEF digests
      <3>2. RegisterDataset(digests)
        BY <2>5 DEF digests
      <3>3. \A u \in Task : tasks'[u].attempt = tasks[u].attempt
        BY <2>0, <3>1, <3>2, RegisterWrites
      <3> QED
        BY <1>2, <3>2, <3>3, SameAttempts DEF RegisterDataset
    <2> QED
      BY <1>2, <2>1, <2>2, <2>3, <2>4, <2>5 DEF Effect
  <1>3. ASSUME SharedInv, AttemptGrantedOnce, [SNext]_allvars
        PROVE  AttemptGrantedOnce'
    <2>1. ASSUME NEW s \in Server, Commit(s)
          PROVE  AttemptGrantedOnce'
      BY <1>2, <1>3, <2>1 DEF Commit
    <2>2. CASE Pass \/ UNCHANGED vars
      BY <1>3, <2>2, SameAttempts DEF Pass, Tick, vars
    <2> QED
      BY <1>3, <2>1, <2>2, OnlyCommitsWrite
  <1> QED
    BY <1>1, <1>3, SharedInvariant, PTL DEF SSpec

-----------------------------------------------------------------------------
(* Leases *)

\* Two clients never both have grounds to believe that they hold the lease of a
\* task, whichever servers gave it to them and however long these took.
THEOREM SharedLeasesExclude ==
    ASSUME Fenced = Worker
    PROVE  SSpec => []SingleFlight
  <1>1. SInit => LeaseBelief
    BY DEF SInit, Init, LeaseBelief, InFuture, NoStamp
  <1>2. ASSUME SharedInv, LeaseBelief, NEW s \in Server, Effect(handler[s])
        PROVE  LeaseBelief'
    <2> DEFINE h == handler[s]
               t == h.task
    <2>0. TypeInv
      BY <1>2 DEF SharedInv
    <2>1. CASE h.op = "begin" /\ CommitBegin(h) /\ h.answer = "claim"
      <3> DEFINE lease_end == h.at + h.lease
      <3>1. /\ h.worker \in Worker /\ t \in Task /\ h.policy \in Policy /\ lease_end \in Nat
            /\ GrantAs(h.worker, t, h.policy, lease_end, tasks[t].attempt + 1)
            /\ tasks[t].attempt = 0 \/ tasks[t].attempt < h.policy.max_attempts
            /\ ~LeaseActive(t)
        BY <1>2, <2>1, CommittedClaim
      <3> HIDE DEF lease_end
      <3>2. \A v \in Worker : ~InFuture(deadline[v][t])
        BY <1>2, <3>1, NoLeaseNoBelief
      <3>3. PICK row : /\ Writes(t, row) /\ RowInv(row) /\ row.status = "running"
                       /\ row.lease_owner = SentWorker(h.worker)
                       /\ row.lease_expires_at = lease_end
        BY <2>0, <3>1, GrantAsWrites
      <3>4. row.lease_owner = h.worker
        BY <3>1, <3>3 DEF SentWorker
      <3>5. now' = now /\ deadline' = [deadline EXCEPT ![h.worker][t] = lease_end]
        BY <3>1 DEF GrantAs
      <3> QED
        BY <1>2, <2>0, <3>1, <3>2, <3>3, <3>4, <3>5, LeasingKeepsBelief
    <2>2. CASE h.op = "begin" /\ CommitBegin(h) /\ h.answer # "claim"
      <3>1. /\ t \in Task /\ ~LeaseActive(t) /\ now' = now /\ deadline' = deadline
            /\ \E row : Writes(t, row) /\ RowInv(row)
        BY <1>2, <2>2, CommittedExhaustion
      <3>2. \A v \in Worker : ~InFuture(deadline[v][t])
        BY <1>2, <3>1, NoLeaseNoBelief
      <3> QED
        BY <1>2, <2>0, <3>1, <3>2, WriteKeepsTypes DEF LeaseBelief, InFuture
    <2>3. CASE h.op = "complete" /\ Complete(Sent(h))
      <3> DEFINE c == Sent(h)
      <3>1. c \in claims
        BY <1>2, <2>3, CommittedCompletion
      <3> HIDE DEF c
      <3>2. Complete(c)
        BY <2>3 DEF c
      <3>3. c.task \in Task /\ c.worker \in Worker /\ c.worker = tasks[c.task].lease_owner
        BY <2>0, <3>1, <3>2, FencedClaim DEF Complete
      <3>4. PICK row : Writes(c.task, row) /\ RowInv(row)
        BY <2>0, <3>1, <3>2, CompleteWrites
      <3> QED
        BY <1>2, <2>0, <3>2, <3>3, <3>4, ClosingEndsBelief DEF Complete
    <2>4. CASE h.op = "fail" /\ CommitFail(h)
      <3>1. /\ h.worker \in Worker /\ t \in Task /\ HoldsClaim(Sent(h)) /\ now' = now
            /\ deadline' = [deadline EXCEPT ![h.worker][t] = NoStamp]
            /\ \E row : Writes(t, row) /\ RowInv(row)
        BY <1>2, <2>4, CommittedFailure
      <3>2. tasks[t].lease_owner = h.worker
        BY <3>1, WorkerAssumption DEF HoldsClaim, Sent, SentWorker
      <3> QED
        BY <1>2, <2>0, <3>1, <3>2, ClosingEndsBelief
    <2>5. CASE h.op = "record" /\ CommitRecord(h)
      BY <1>2, <2>5 DEF CommitRecord, LeaseBelief, InFuture
    <2>6. CASE h.op = "heartbeat" /\ Heartbeat(h.worker, t, h.lease + h.at - now)
      <3> DEFINE lease_end == h.lease + h.at
      <3>1. /\ h.worker \in Worker /\ t \in Task /\ lease_end \in Nat /\ now' = now
            /\ tasks[t].lease_owner = h.worker
            /\ deadline' = [deadline EXCEPT ![h.worker][t] = lease_end]
        BY <1>2, <2>6, CommittedHeartbeat
      <3>2. PICK row : /\ Writes(t, row) /\ RowInv(row) /\ row.status = "running"
                       /\ row.lease_owner = h.worker /\ row.lease_expires_at = lease_end
        BY <1>2, <2>6, CommittedHeartbeat
      <3> HIDE DEF lease_end
      <3>3. \A v \in Worker : v # h.worker => ~InFuture(deadline[v][t])
        BY <1>2, <3>1 DEF LeaseBelief
      <3> QED
        BY <1>2, <2>0, <3>1, <3>2, <3>3, LeasingKeepsBelief
    <2>7. CASE h.op = "register_dataset" /\ RegisterDataset(h.digests)
      <3> DEFINE digests == h.digests
      <3>1. digests \in SUBSET Task
        BY <1>2, CommittedRegistration
      <3> HIDE DEF digests
      <3>2. RegisterDataset(digests)
        BY <2>7 DEF digests
      <3> QED
        BY <1>2, <2>0, <3>1, <3>2, RegisteringKeepsBelief
    <2> QED
      BY <1>2, <2>1, <2>2, <2>3, <2>4, <2>5, <2>6, <2>7 DEF Effect
  <1>3. ASSUME SharedInv, LeaseBelief, [SNext]_allvars
        PROVE  LeaseBelief'
    <2>1. ASSUME NEW s \in Server, Commit(s)
          PROVE  LeaseBelief'
      BY <1>2, <1>3, <2>1 DEF Commit
    <2>2. CASE Pass
      <3>1. now \in Nat /\ deadline \in [Worker -> [Task -> Nat]]
        BY <1>3 DEF SharedInv, STypeOK, TypeOK
      <3> QED
        BY <1>3, <2>2, <3>1 DEF Pass, Tick, LeaseBelief, InFuture
    <2>3. CASE UNCHANGED vars
      BY <1>3, <2>3 DEF vars, LeaseBelief, InFuture
    <2> QED
      BY <1>3, <2>1, <2>2, <2>3, OnlyCommitsWrite
  <1> QED
    BY <1>1, <1>3, SharedInvariant, BeliefIsExclusive, PTL DEF SSpec

-----------------------------------------------------------------------------
(* Results and datasets *)

\* How a row may change: it is not removed, a result stays, and the policy changes
\* with the attempt only.
Advances(old, new) ==
    /\ old.status # "absent" => new.status # "absent"
    /\ old.status \in Resolved =>
          new.status = old.status /\ new.attempt = old.attempt /\ new.output = old.output
    /\ \/ new.attempt = old.attempt /\ new.retry = old.retry
       \/ new.attempt = old.attempt + 1

LEMMA WriteAdvances ==
    ASSUME TypeInv, NEW t \in Task, NEW row, Writes(t, row), RowInv(row),
           tasks[t].status \notin Resolved, row.status # "absent",
           row.generation = tasks[t].generation,
           \/ row.attempt = tasks[t].attempt /\ row.retry = tasks[t].retry
           \/ row.attempt = tasks[t].attempt + 1
    PROVE  \A u \in Task : /\ Advances(tasks[u], tasks'[u])
                           /\ tasks'[u].generation = tasks[u].generation
  <1>1. \A u \in Task : tasks'[u] = IF u = t THEN row ELSE tasks[u]
    BY WriteKeepsTypes
  <1> QED
    BY <1>1 DEF Advances

\* Only register_dataset moves rows to another generation.
LEMMA CommitSteps ==
    ASSUME SharedInv, NEW s \in Server, Effect(handler[s])
    PROVE  /\ \A t \in Task : Advances(tasks[t], tasks'[t])
           /\ \/ \E digests \in SUBSET Task : RegisterDataset(digests)
              \/ /\ UNCHANGED <<generation, registered>>
                 /\ \A t \in Task : tasks'[t].generation = tasks[t].generation
  <1> DEFINE h == handler[s]
             t == h.task
  <1>0. TypeInv /\ \A u \in Task : Advances(tasks[u], tasks[u])
    BY DEF SharedInv, Advances
  <1>1. CASE h.op = "begin" /\ CommitBegin(h) /\ h.answer = "claim"
    <2> DEFINE lease_end == h.at + h.lease
    <2>1. /\ h.worker \in Worker /\ t \in Task /\ h.policy \in Policy /\ lease_end \in Nat
          /\ GrantAs(h.worker, t, h.policy, lease_end, tasks[t].attempt + 1)
          /\ tasks[t].attempt = 0 \/ tasks[t].attempt < h.policy.max_attempts
          /\ tasks[t].status \in {"absent", "pending", "running", "failed"}
      BY <1>1, CommittedClaim
    <2> HIDE DEF lease_end
    <2>2. PICK row : /\ Writes(t, row) /\ RowInv(row) /\ row.status = "running"
                     /\ row.attempt = tasks[t].attempt + 1
                     /\ row.generation = tasks[t].generation
      BY <1>0, <2>1, GrantAsWrites
    <2>3. UNCHANGED <<generation, registered>>
      BY <2>1 DEF GrantAs
    <2> QED
      BY <1>0, <2>1, <2>2, <2>3, WriteAdvances DEF Resolved
  <1>2. CASE h.op = "begin" /\ CommitBegin(h) /\ h.answer # "claim"
    <2>1. /\ t \in Task /\ tasks[t].status \in {"absent", "pending", "running", "failed"}
          /\ UNCHANGED <<generation, registered>>
          /\ \E row : /\ Writes(t, row) /\ RowInv(row) /\ row.status = "terminal"
                      /\ row.attempt = tasks[t].attempt /\ row.retry = tasks[t].retry
                      /\ row.generation = tasks[t].generation
      BY <1>2, CommittedExhaustion
    <2> QED
      BY <1>0, <2>1, WriteAdvances DEF Resolved
  <1>3. CASE h.op = "complete" /\ Complete(Sent(h))
    <2> DEFINE c == Sent(h)
    <2>1. c \in claims
      BY <1>3, CommittedCompletion
    <2> HIDE DEF c
    <2>2. Complete(c)
      BY <1>3 DEF c
    <2>3. /\ c.task \in Task /\ tasks[c.task].status = "running"
          /\ \E row : /\ Writes(c.task, row) /\ RowInv(row) /\ row.status = "succeeded"
                      /\ row.attempt = tasks[c.task].attempt /\ row.retry = tasks[c.task].retry
                      /\ row.generation = tasks[c.task].generation
      BY <1>0, <2>1, <2>2, CompleteWrites
    <2>4. UNCHANGED <<generation, registered>>
      BY <2>2 DEF Complete
    <2> QED
      BY <1>0, <2>3, <2>4, WriteAdvances DEF Resolved
  <1>4. CASE h.op = "fail" /\ CommitFail(h)
    <2>1. /\ t \in Task /\ tasks[t].status = "running"
          /\ UNCHANGED <<generation, registered>>
          /\ \E row : /\ Writes(t, row) /\ RowInv(row) /\ row.status \in {"failed", "terminal"}
                      /\ row.attempt = tasks[t].attempt /\ row.retry = tasks[t].retry
                      /\ row.generation = tasks[t].generation
      BY <1>4, CommittedFailure
    <2> QED
      BY <1>0, <2>1, WriteAdvances DEF Resolved
  <1>5. CASE h.op = "record" /\ CommitRecord(h)
    BY <1>0, <1>5 DEF CommitRecord
  <1>6. CASE h.op = "heartbeat" /\ Heartbeat(h.worker, t, h.lease + h.at - now)
    <2>1. /\ t \in Task /\ tasks[t].status = "running"
          /\ UNCHANGED <<generation, registered>>
          /\ \E row : /\ Writes(t, row) /\ RowInv(row) /\ row.status = "running"
                      /\ row.attempt = tasks[t].attempt /\ row.retry = tasks[t].retry
                      /\ row.generation = tasks[t].generation
      BY <1>6, CommittedHeartbeat
    <2> QED
      BY <1>0, <2>1, WriteAdvances DEF Resolved
  <1>7. CASE h.op = "register_dataset" /\ RegisterDataset(h.digests)
    <2> DEFINE digests == h.digests
    <2>1. digests \in SUBSET Task
      BY CommittedRegistration
    <2> HIDE DEF digests
    <2>2. RegisterDataset(digests)
      BY <1>7 DEF digests
    <2>3. \A u \in Task : Advances(tasks[u], tasks'[u])
      BY <1>0, <2>1, <2>2, RegisterWrites DEF Advances, Resolved
    <2> QED
      BY <2>1, <2>2, <2>3
  <1> QED
    BY <1>1, <1>2, <1>3, <1>4, <1>5, <1>6, <1>7 DEF Effect

\* No attempt exceeds the budget of the request that started it, although the
\* check and the write are separate statements.
THEOREM SharedAttemptsWithinBudget == SSpec => []AttemptBudget
  <1>1. SharedInv => AttemptBudget
    BY DEF SharedInv, TypeInv, RowInv, WithinBudget, AttemptBudget
  <1> QED
    BY <1>1, SharedInvariant, PTL

\* A result that one server has committed is never reopened or replaced by what
\* another had read before.
THEOREM SharedResolvedTasksAreFinal == SSpec => ResolvedIsFinal
  <1> DEFINE Final == \A t \in Task : tasks[t].status \in Resolved =>
                         /\ tasks'[t].status = tasks[t].status
                         /\ tasks'[t].attempt = tasks[t].attempt
                         /\ tasks'[t].output = tasks[t].output
  <1>1. ASSUME SharedInv, [SNext]_allvars
        PROVE  Final \/ UNCHANGED vars
    <2>1. ASSUME NEW s \in Server, Commit(s)
          PROVE  Final
      BY <1>1, <2>1, CommitSteps DEF Commit, Advances
    <2>2. CASE Pass
      BY <2>2 DEF Pass, Tick
    <2> QED
      BY <1>1, <2>1, <2>2, OnlyCommitsWrite
  <1>2. SharedInv /\ [SNext]_allvars => [Final]_vars
    BY <1>1
  <1> QED
    BY <1>2, SharedInvariant, PTL DEF SSpec, ResolvedIsFinal

\* The digests of the latest registration are in the current dataset, and nothing
\* else is from the second registration on, whatever begins another server had
\* under way.
THEOREM SharedDatasetIsRegistered == SSpec => []CurrentDataset
  <1>1. SInit => DatasetInv
    BY DEF SInit, Init, NoRow, DatasetInv
  <1>2. ASSUME SharedInv, DatasetInv, [SNext]_allvars
        PROVE  DatasetInv'
    <2>0. TypeInv
      BY <1>2 DEF SharedInv
    <2>1. ASSUME NEW s \in Server, Effect(handler[s])
          PROVE  DatasetInv'
      <3>1. \/ \E digests \in SUBSET Task : RegisterDataset(digests)
            \/ /\ UNCHANGED <<generation, registered>>
               /\ \A t \in Task : /\ tasks'[t].generation = tasks[t].generation
                                  /\ tasks[t].status # "absent" => tasks'[t].status # "absent"
        BY <1>2, <2>1, CommitSteps DEF Advances
      <3> QED
        BY <1>2, <2>0, <3>1, RegisteringSeparates, SameDataset
    <2>2. CASE Pass \/ UNCHANGED vars
      BY <1>2, <2>0, <2>2, SameDataset DEF Pass, Tick, vars
    <2> QED
      BY <1>2, <2>1, <2>2, OnlyCommitsWrite DEF Commit
  <1>3. SharedInv /\ DatasetInv => CurrentDataset
    BY DatasetIsCurrent DEF SharedInv
  <1> QED
    BY <1>1, <1>2, <1>3, SharedInvariant, PTL DEF SSpec

-----------------------------------------------------------------------------
(* Servers on one file implement DurableTask *)

\* Whatever the servers interleave, are refused, are killed in or roll back, the
\* file starts numbered attempts, finishes a task with the output of the last one,
\* or gives it up, and never takes that back.
THEOREM SharedStoreImplementsDurableTask ==
    ASSUME Fenced = Worker
    PROVE  SSpec => ImplementsDurableTask
  <1> DEFINE Same == StartedOf' = StartedOf /\ ResultOf' = ResultOf /\ OutputOf' = OutputOf
  <1>1. SInit => Durable!Init
    BY DEF SInit, Init, NoRow, NoOutput, StartedOf, ResultOf, ResultFor, OutputOf, Durable!Init
  <1>2. ASSUME SharedInv, NEW s \in Server, Effect(handler[s])
        PROVE  Durable!Next \/ Same
    <2> DEFINE h == handler[s]
               t == h.task
    <2>0. TypeInv
      BY <1>2 DEF SharedInv
    <2>1. CASE h.op = "begin" /\ CommitBegin(h) /\ h.answer = "claim"
      <3> DEFINE lease_end == h.at + h.lease
      <3>1. /\ h.worker \in Worker /\ t \in Task /\ h.policy \in Policy /\ lease_end \in Nat
            /\ GrantAs(h.worker, t, h.policy, lease_end, tasks[t].attempt + 1)
            /\ tasks[t].attempt = 0 \/ tasks[t].attempt < h.policy.max_attempts
            /\ tasks[t].status \in {"absent", "pending", "running", "failed"}
        BY <1>2, <2>1, CommittedClaim
      <3> HIDE DEF lease_end
      <3>2. PICK row : /\ Writes(t, row) /\ RowInv(row) /\ row.status = "running"
                       /\ row.attempt = tasks[t].attempt + 1 /\ row.output = tasks[t].output
        BY <2>0, <3>1, GrantAsWrites
      <3>3. ResultFor(tasks[t].status) = "open"
        BY <3>1 DEF ResultFor
      <3> QED
        BY <2>0, <3>1, <3>2, <3>3, WriteStarts DEF Durable!Next
    <2>2. CASE h.op = "begin" /\ CommitBegin(h) /\ h.answer # "claim"
      <3>1. t \in Task /\ tasks[t].status \in {"absent", "pending", "running", "failed"}
        BY <1>2, <2>2, CommittedExhaustion
      <3>2. PICK row : /\ Writes(t, row) /\ RowInv(row) /\ row.status = "terminal"
                       /\ row.attempt = tasks[t].attempt /\ row.output = tasks[t].output
        BY <1>2, <2>2, CommittedExhaustion
      <3>3. ResultFor(tasks[t].status) = "open"
        BY <3>1 DEF ResultFor
      <3> QED
        BY <2>0, <3>1, <3>2, <3>3, WriteGivesUp DEF Durable!Next
    <2>3. CASE h.op = "complete" /\ Complete(Sent(h))
      <3> DEFINE c == Sent(h)
      <3>1. c \in claims
        BY <1>2, <2>3, CommittedCompletion
      <3> HIDE DEF c
      <3>2. Complete(c)
        BY <2>3 DEF c
      <3>3. c.task \in Task
        BY <2>0, <3>1, <3>2, CompleteWrites
      <3> QED
        BY <2>0, <3>1, <3>2, <3>3, CompleteFinishes DEF Durable!Next
    <2>4. CASE h.op = "fail" /\ CommitFail(h)
      <3>1. t \in Task /\ tasks[t].status = "running"
        BY <1>2, <2>4, CommittedFailure
      <3>2. PICK row : /\ Writes(t, row) /\ RowInv(row)
                       /\ row.status \in {"failed", "terminal"}
                       /\ row.attempt = tasks[t].attempt /\ row.output = tasks[t].output
        BY <1>2, <2>4, CommittedFailure
      <3>3. /\ ResultFor(tasks[t].status) = "open"
            /\ row.status = "failed" => ResultFor(row.status) = "open"
        BY <3>1 DEF ResultFor
      <3>4. CASE row.status = "failed"
        BY <2>0, <3>1, <3>2, <3>3, <3>4, WriteStutters
      <3>5. CASE row.status = "terminal"
        BY <2>0, <3>1, <3>2, <3>3, <3>5, WriteGivesUp DEF Durable!Next
      <3> QED
        BY <3>2, <3>4, <3>5
    <2>5. CASE h.op = "record" /\ CommitRecord(h)
      BY <2>5 DEF CommitRecord, StartedOf, ResultOf, OutputOf
    <2>6. CASE h.op = "heartbeat" /\ Heartbeat(h.worker, t, h.lease + h.at - now)
      <3>1. t \in Task /\ tasks[t].status = "running"
        BY <1>2, <2>6, CommittedHeartbeat
      <3>2. PICK row : /\ Writes(t, row) /\ RowInv(row) /\ row.status = "running"
                       /\ row.attempt = tasks[t].attempt /\ row.output = tasks[t].output
        BY <1>2, <2>6, CommittedHeartbeat
      <3> QED
        BY <2>0, <3>1, <3>2, WriteStutters
    <2>7. CASE h.op = "register_dataset" /\ RegisterDataset(h.digests)
      <3> DEFINE digests == h.digests
      <3>1. digests \in SUBSET Task
        BY <1>2, CommittedRegistration
      <3> HIDE DEF digests
      <3>2. RegisterDataset(digests)
        BY <2>7 DEF digests
      <3> QED
        BY <2>0, <3>1, <3>2, RegisteringStutters
    <2> QED
      BY <1>2, <2>1, <2>2, <2>3, <2>4, <2>5, <2>6, <2>7 DEF Effect
  <1>3. ASSUME SharedInv, [SNext]_allvars
        PROVE  [Durable!Next]_(Durable!durableVars)
    <2>1. ASSUME NEW s \in Server, Commit(s)
          PROVE  Durable!Next \/ Same
      BY <1>2, <1>3, <2>1 DEF Commit
    <2>2. ASSUME Pass \/ UNCHANGED vars
          PROVE  Same
      BY <2>2 DEF Pass, Tick, vars, StartedOf, ResultOf, OutputOf
    <2>3. (\E s \in Server : Commit(s)) \/ Pass \/ UNCHANGED vars
      BY <1>3, OnlyCommitsWrite
    <2>4. Durable!Next \/ Same
      BY <2>1, <2>2, <2>3
    <2> QED
      BY <2>4 DEF Durable!durableVars
  <1> QED
    BY <1>1, <1>3, SharedInvariant, PTL DEF SSpec, ImplementsDurableTask, Durable!Spec

\* With several servers too, a late completion of an older attempt is never the one
\* that is kept.
THEOREM SharedOutputIsOfLastAttempt ==
    ASSUME Fenced = Worker
    PROVE  SSpec => []OutputOfLastAttempt
  BY SharedStoreImplementsDurableTask, DurableOutputIsLast, PTL

-----------------------------------------------------------------------------
(* Terminal tasks *)

\* What a handler goes by: begin closes a task that had no attempt left when it was
\* read; fail has the policy of the attempt that it reports, while that is the last.
Judges(h) ==
    /\ h.op = "begin" /\ h.answer # "claim" => h.attempt >= h.policy.max_attempts
    /\ h.op = "fail" =>
          /\ h.attempt <= tasks[h.task].attempt
          /\ h.attempt = tasks[h.task].attempt => h.policy = tasks[h.task].retry
JudgesInv == \A s \in Server : Judges(handler[s])

\* A handler that is idle, that goes on with what it had, or that is about
\* something else.
LEMMA GoingOnJudges ==
    ASSUME SharedInv, JudgesInv, NEW s \in Server, NEW h,
           \/ h.op \notin {"begin", "fail"}
           \/ /\ h.op = handler[s].op /\ h.answer = handler[s].answer
              /\ h.attempt = handler[s].attempt /\ h.policy = handler[s].policy
              /\ h.task = handler[s].task
    PROVE  Judges(h)
  BY DEF JudgesInv, Judges

\* What a handler has just read is what it goes by.
LEMMA ReadingJudges ==
    ASSUME SharedInv, JudgesInv, NEW s \in Server, Request(s)
    PROVE  \E h : Moves(s, h) /\ Judges(h)
  <1>0. Idle \in Handler /\ TypeInv
    BY IdleHandler DEF SharedInv
  <1>1. ASSUME NEW w \in Worker, NEW t \in Task, NEW policy \in Policy, NEW lease \in Lease,
               BeginReads(s, w, t, policy, lease)
        PROVE  \E h : Moves(s, h) /\ Judges(h)
    <2> DEFINE h == [Idle EXCEPT !.stage = "reading", !.op = "begin", !.worker = w, !.task = t,
                                 !.lease = lease, !.policy = policy,
                                 !.attempt = tasks[t].attempt, !.answer = Answer(t, policy)]
    <2>1. /\ h.op = "begin" /\ h.answer = Answer(t, policy)
          /\ h.attempt = tasks[t].attempt /\ h.policy = policy
      BY <1>0 DEF Handler
    <2>2. Moves(s, h)
      BY <1>1 DEF BeginReads
    <2> HIDE DEF h
    <2>3. Judges(h)
      BY <2>1 DEF Judges, Answer, Exhausted
    <2> QED
      BY <2>2, <2>3
  <1>2. ASSUME NEW c \in claims, NEW error \in Error, FailReads(s, c, error)
        PROVE  \E h : Moves(s, h) /\ Judges(h)
    <2> DEFINE t == c.task
               h == [Idle EXCEPT !.stage = "looked", !.op = "fail", !.worker = c.worker,
                                 !.task = t, !.attempt = tasks[t].attempt,
                                 !.policy = tasks[t].retry, !.error = error]
    <2>1. /\ h.op = "fail" /\ h.task = t /\ h.attempt = tasks[t].attempt
          /\ h.policy = tasks[t].retry
      BY <1>0 DEF Handler
    <2>2. Moves(s, h)
      BY <1>2 DEF FailReads
    <2>3. tasks[t].attempt \in Nat
      BY <1>0 DEF TypeInv, TypeOK, TaskRow, Claim
    <2> HIDE DEF h
    <2>4. Judges(h)
      BY <2>1, <2>3 DEF Judges
    <2> QED
      BY <2>2, <2>4
  <1>3. ASSUME NEW h, h.op \notin {"begin", "fail"}
        PROVE  Judges(h)
    BY <1>3 DEF Judges
  <1>4. ASSUME NEW c \in claims, CompleteLocks(s, c)
        PROVE  \E h : Moves(s, h) /\ Judges(h)
    <2> DEFINE h == [[Idle EXCEPT !.op = "complete", !.worker = c.worker, !.task = c.task,
                                  !.attempt = c.attempt]
                        EXCEPT !.stage = "writing", !.at = now]
    <2>1. h.op = "complete"
      BY <1>0 DEF Handler
    <2>2. Moves(s, h)
      BY <1>4 DEF CompleteLocks, Locks
    <2> HIDE DEF h
    <2> QED
      BY <1>3, <2>1, <2>2
  <1>5. ASSUME NEW w \in Worker, NEW t \in Task, NEW lease \in Lease, HeartbeatLocks(s, w, t, lease)
        PROVE  \E h : Moves(s, h) /\ Judges(h)
    <2> DEFINE h == [[Idle EXCEPT !.op = "heartbeat", !.worker = w, !.task = t, !.lease = lease]
                        EXCEPT !.stage = "writing", !.at = now]
    <2>1. h.op = "heartbeat"
      BY <1>0 DEF Handler
    <2>2. Moves(s, h)
      BY <1>5 DEF HeartbeatLocks, Locks
    <2> HIDE DEF h
    <2> QED
      BY <1>3, <2>1, <2>2
  <1>6. ASSUME NEW digests \in SUBSET Task, RegisterDatasetLocks(s, digests)
        PROVE  \E h : Moves(s, h) /\ Judges(h)
    <2> DEFINE h == [[Idle EXCEPT !.op = "register_dataset", !.digests = digests]
                        EXCEPT !.stage = "writing", !.at = now]
    <2>1. h.op = "register_dataset"
      BY <1>0 DEF Handler
    <2>2. Moves(s, h)
      BY <1>6 DEF RegisterDatasetLocks, Locks
    <2> HIDE DEF h
    <2> QED
      BY <1>3, <2>1, <2>2
  <1>7. ASSUME TraceReads(s)
        PROVE  \E h : Moves(s, h) /\ Judges(h)
    <2> DEFINE h == [Idle EXCEPT !.stage = "looked", !.op = "add_trace_event",
                                 !.index = NextIndex]
    <2>1. h.op = "add_trace_event"
      BY <1>0 DEF Handler
    <2>2. Moves(s, h)
      BY <1>7 DEF TraceReads
    <2> HIDE DEF h
    <2> QED
      BY <1>3, <2>1, <2>2
  <1> QED
    BY <1>1, <1>2, <1>4, <1>5, <1>6, <1>7 DEF Request

\* Up to its commit a handler keeps what it has read.
LEMMA HandlingJudges ==
    ASSUME SharedInv, JudgesInv, NEW s \in Server,
           \/ BeginLocks(s) \/ BeginIsBusy(s) \/ FailLocks(s) \/ RecordLocks(s)
           \/ TraceLocks(s) \/ CommitWaits(s) \/ Stop(s)
    PROVE  \E h : Moves(s, h) /\ Judges(h)
  <1> DEFINE old == handler[s]
  <1>0. old \in Handler
    BY DEF SharedInv, STypeOK
  <1>1. PICK h : /\ Moves(s, h)
                 /\ \/ h = Idle
                    \/ h = [old EXCEPT !.stage = "writing", !.at = now]
                    \/ h = [old EXCEPT !.stage = "writing", !.op = "record"]
                    \/ h = [old EXCEPT !.stage = "pending"]
    BY DEF BeginLocks, BeginIsBusy, FailLocks, RecordLocks, TraceLocks, CommitWaits, Stop
  <1>2. CASE h = Idle
    <2>1. h.op = "none"
      BY <1>2 DEF Idle
    <2> QED
      BY <1>1, <2>1, GoingOnJudges
  <1>3. CASE h = [old EXCEPT !.stage = "writing", !.op = "record"]
    <2>1. h.op = "record"
      BY <1>0, <1>3 DEF Handler
    <2> QED
      BY <1>1, <2>1, GoingOnJudges
  <1>4. CASE \/ h = [old EXCEPT !.stage = "writing", !.at = now]
             \/ h = [old EXCEPT !.stage = "pending"]
    <2>1. /\ h.op = old.op /\ h.answer = old.answer /\ h.attempt = old.attempt
          /\ h.policy = old.policy /\ h.task = old.task
      BY <1>0, <1>4 DEF Handler
    <2> QED
      BY <1>1, <2>1, GoingOnJudges
  <1> QED
    BY <1>1, <1>2, <1>3, <1>4

\* A row that takes the next attempt leaves those behind that go by an earlier one.
LEMMA AdvancingJudges ==
    ASSUME SharedInv, JudgesInv, NEW s \in Server, handler[s].op = "fail",
           \A t \in Task : Advances(tasks[t], tasks'[t])
    PROVE  LET h == handler[s]
               row == tasks'[h.task]
           IN  h.attempt <= row.attempt /\ (h.attempt = row.attempt => h.policy = row.retry)
  <1> DEFINE h == handler[s]
  <1>1. h \in Handler /\ Facts(h) /\ Judges(h)
    BY DEF SharedInv, STypeOK, JudgesInv
  <1>2. h.task \in Task /\ h.attempt \in Nat
    BY <1>1 DEF Facts, FailFacts, Handler
  <1>3. tasks[h.task].attempt \in Nat
    BY <1>2 DEF SharedInv, TypeInv, TypeOK, TaskRow
  <1> QED
    BY <1>1, <1>2, <1>3 DEF Judges, Advances

LEMMA NextJudgesInv ==
    ASSUME SharedInv, JudgesInv, [SNext]_allvars
    PROVE  JudgesInv'
  <1>0. handler \in [Server -> Handler]
    BY DEF SharedInv, STypeOK
  <1>1. ASSUME NEW s \in Server,
               \/ Request(s) \/ Stop(s) \/ BeginLocks(s) \/ BeginIsBusy(s) \/ FailLocks(s)
               \/ RecordLocks(s) \/ TraceLocks(s) \/ CommitWaits(s)
        PROVE  JudgesInv'
    <2>1. PICK h : Moves(s, h) /\ Judges(h)
      BY <1>1, ReadingJudges, HandlingJudges
    <2>2. tasks' = tasks /\ \A r \in Server : handler'[r] = IF r = s THEN h ELSE handler[r]
      BY <1>0, <2>1 DEF Moves, Becomes, vars
    <2> QED
      BY <2>1, <2>2 DEF JudgesInv, Judges
  <1>2. ASSUME NEW s \in Server, Commit(s)
        PROVE  JudgesInv'
    <2> DEFINE h == After(handler[s])
    <2>1. \A t \in Task : Advances(tasks[t], tasks'[t])
      BY <1>2, CommitSteps DEF Commit
    <2>2. \A r \in Server : handler'[r] = IF r = s THEN h ELSE handler[r]
      BY <1>0, <1>2 DEF Commit, Becomes
    <2>3. \/ h.op = "none"
          \/ /\ h.op = "fail" /\ handler[s].op = "fail" /\ h.task = handler[s].task
             /\ h.attempt = handler[s].attempt /\ h.policy = handler[s].policy
      <3>1. handler[s] \in Handler
        BY <1>0
      <3>2. CASE handler[s].op = "fail"
        BY <3>1, <3>2 DEF After, Handler
      <3>3. CASE handler[s].op # "fail"
        BY <3>3 DEF After, Idle
      <3> QED
        BY <3>2, <3>3
    <2> HIDE DEF h
    <2>4. ASSUME NEW r \in Server
          PROVE  Judges(handler[r])'
      <3>1. CASE r = s
        BY <2>1, <2>2, <2>3, <3>1, AdvancingJudges DEF Judges
      <3>2. CASE r # s
        <4>1. handler'[r] = handler[r] /\ Judges(handler[r])
          BY <2>2, <3>2 DEF JudgesInv
        <4> QED
          BY <2>1, <4>1, AdvancingJudges DEF Judges
      <3> QED
        BY <3>1, <3>2
    <2> QED
      BY <2>4 DEF JudgesInv
  <1>3. ASSUME NEW s \in Server, CommitTrace(s)
        PROVE  JudgesInv'
    <2>1. tasks' = tasks /\ \A r \in Server : handler'[r] = IF r = s THEN Idle ELSE handler[r]
      BY <1>0, <1>3 DEF CommitTrace, Becomes, vars
    <2>2. Idle.op = "none"
      BY DEF Idle
    <2> QED
      BY <2>1, <2>2 DEF JudgesInv, Judges
  <1>4. CASE Pass \/ UNCHANGED allvars
    BY <1>4 DEF Pass, Tick, allvars, vars, svars, JudgesInv, Judges
  <1> QED
    BY <1>1, <1>2, <1>3, <1>4 DEF SNext, Handle

\* A commit makes a task terminal only with a cause.
LEMMA CommitsAreCaused ==
    ASSUME Fenced = Worker, SharedInv, JudgesInv, \A t \in Task : Caused(tasks[t]),
           NEW s \in Server, Effect(handler[s])
    PROVE  \A t \in Task : Caused(tasks'[t])
  <1> DEFINE h == handler[s]
             t == h.task
  <1>0. TypeInv /\ h \in Handler /\ Facts(h) /\ Judges(h)
    BY DEF SharedInv, STypeOK, JudgesInv
  <1>1. ASSUME NEW u \in Task, NEW row, Writes(u, row), RowInv(row), Caused(row)
        PROVE  \A v \in Task : Caused(tasks'[v])
    BY <1>0, <1>1, WriteKeepsTypes
  <1>2. CASE h.op = "begin" /\ CommitBegin(h) /\ h.answer = "claim"
    <2> DEFINE lease_end == h.at + h.lease
    <2>1. /\ h.worker \in Worker /\ t \in Task /\ h.policy \in Policy /\ lease_end \in Nat
          /\ GrantAs(h.worker, t, h.policy, lease_end, tasks[t].attempt + 1)
          /\ tasks[t].attempt = 0 \/ tasks[t].attempt < h.policy.max_attempts
      BY <1>2, CommittedClaim
    <2> HIDE DEF lease_end
    <2>2. PICK row : Writes(t, row) /\ RowInv(row) /\ row.status = "running"
      BY <1>0, <2>1, GrantAsWrites
    <2> QED
      BY <1>1, <2>1, <2>2 DEF Caused
  <1>3. CASE h.op = "begin" /\ CommitBegin(h) /\ h.answer # "claim"
    <2>1. /\ t \in Task
          /\ \E row : Writes(t, row) /\ RowInv(row) /\ row.attempt = tasks[t].attempt
      BY <1>3, CommittedExhaustion
    <2>2. tasks[t].attempt >= h.policy.max_attempts /\ h.policy \in Policy
      BY <1>0, <1>3 DEF Facts, BeginFacts, Judges, Handler
    <2> QED
      BY <1>1, <2>1, <2>2 DEF Caused
  <1>4. CASE h.op = "complete" /\ Complete(Sent(h))
    <2> DEFINE c == Sent(h)
    <2>1. c \in claims
      BY <1>4, CommittedCompletion
    <2> HIDE DEF c
    <2>2. Complete(c)
      BY <1>4 DEF c
    <2>3. c.task \in Task /\ \E row : Writes(c.task, row) /\ RowInv(row) /\ row.status = "succeeded"
      BY <1>0, <2>1, <2>2, CompleteWrites
    <2> QED
      BY <1>1, <2>3 DEF Caused
  <1>5. CASE h.op = "fail" /\ CommitFail(h)
    <2>1. h.worker \in Worker /\ t \in Task /\ HoldsClaim(Sent(h))
      BY <1>5, CommittedFailure
    <2>2. PICK row : /\ Writes(t, row) /\ RowInv(row)
                     /\ row.status = "terminal" => ~Retryable(h.policy, h.error)
                     /\ row.error = h.error /\ row.error \in Error
                     /\ row.retry = tasks[t].retry
      BY <1>5, CommittedFailure
    <2>3. h.attempt = tasks[t].attempt
      <3>1. h.attempt \in 1..MaxAttempts
        BY <1>0, <1>5 DEF Facts, FailFacts
      <3>2. SentAttempt(Sent(h)) = h.attempt /\ h.attempt # NoAttempt
        BY <2>1, <3>1 DEF Sent, SentAttempt, NoAttempt
      <3>3. SentAttempt(Sent(h)) \in {NoAttempt, tasks[t].attempt}
        BY <2>1 DEF HoldsClaim, Sent
      <3> QED
        BY <3>2, <3>3
    <2>4. h.policy = row.retry
      BY <1>0, <1>5, <2>2, <2>3 DEF Judges
    <2>5. Caused(row)
      BY <2>2, <2>4, ErrorAssumption DEF Caused
    <2> QED
      BY <1>1, <2>1, <2>2, <2>5
  <1>6. CASE h.op = "record" /\ CommitRecord(h)
    BY <1>6 DEF CommitRecord
  <1>7. CASE h.op = "heartbeat" /\ Heartbeat(h.worker, t, h.lease + h.at - now)
    <2>1. t \in Task /\ \E row : Writes(t, row) /\ RowInv(row) /\ row.status = "running"
      BY <1>7, CommittedHeartbeat
    <2> QED
      BY <1>1, <2>1 DEF Caused
  <1>8. CASE h.op = "register_dataset" /\ RegisterDataset(h.digests)
    <2> DEFINE digests == h.digests
    <2>1. digests \in SUBSET Task
      BY CommittedRegistration
    <2> HIDE DEF digests
    <2>2. RegisterDataset(digests)
      BY <1>8 DEF digests
    <2>3. \A u \in Task : tasks'[u].status = "terminal" =>
              /\ tasks[u].status = "terminal"
              /\ tasks'[u].attempt = tasks[u].attempt
              /\ tasks'[u].retry = tasks[u].retry
              /\ tasks'[u].error = tasks[u].error
      BY <1>0, <2>1, <2>2, RegisterWrites
    <2> QED
      BY <2>3 DEF Caused
  <1> QED
    BY <1>2, <1>3, <1>4, <1>5, <1>6, <1>7, <1>8 DEF Effect

\* A terminal task has an error that the policy of its own attempt does not retry,
\* or its attempts are used up: fail does not judge by what another server has
\* replaced between its statements.
THEOREM SharedTerminalTasksHaveCause ==
    ASSUME Fenced = Worker
    PROVE  SSpec => []TerminalHasCause
  <1> DEFINE Inv == \A t \in Task : Caused(tasks[t])
  <1>1. SInit => JudgesInv /\ Inv
    BY DEF SInit, Init, NoRow, Idle, JudgesInv, Judges, Caused
  <1>2. ASSUME SharedInv, JudgesInv, Inv, [SNext]_allvars
        PROVE  Inv'
    <2>1. ASSUME NEW s \in Server, Commit(s)
          PROVE  Inv'
      BY <1>2, <2>1, CommitsAreCaused DEF Commit
    <2>2. CASE Pass \/ UNCHANGED vars
      BY <1>2, <2>2 DEF Pass, Tick, vars
    <2> QED
      BY <1>2, <2>1, <2>2, OnlyCommitsWrite
  <1>3. Inv => TerminalHasCause
    BY DEF TerminalHasCause, Caused
  <1> HIDE DEF Inv
  <1> QED
    BY <1>1, <1>2, <1>3, NextJudgesInv, SharedInvariant, PTL DEF SSpec

-----------------------------------------------------------------------------
(* Failures *)

\* A handler of fail that has updated the row and not yet recorded the failure.
Owes(h) == h.stage = "unrecorded" \/ h.op = "record"

\* Attempt number n of t has ended in a failure, or a later one was begun.
Past(t, n) ==
    \/ n < tasks[t].attempt
    \/ n = tasks[t].attempt /\ tasks[t].status \in {"failed", "terminal"}

Recorded(t, n) == \E i \in DOMAIN failure_records[t] : failure_records[t][i] = n

\* What is recorded, and what handlers owe, is past; nothing is owed that is
\* recorded, and nothing by two handlers.
RecordsDiffer ==
    \A t \in Task : \A i, j \in DOMAIN failure_records[t] :
        failure_records[t][i] = failure_records[t][j] => i = j
RecordsArePast ==
    \A t \in Task : \A i \in DOMAIN failure_records[t] : Past(t, failure_records[t][i])
OwedIsPast ==
    \A s \in Server : Owes(handler[s]) =>
        /\ Past(handler[s].task, handler[s].attempt)
        /\ ~Recorded(handler[s].task, handler[s].attempt)
SameFailure(g, h) == g.task = h.task /\ g.attempt = h.attempt
OwedDiffers ==
    \A r, s \in Server :
        Owes(handler[r]) /\ Owes(handler[s]) /\ SameFailure(handler[r], handler[s]) => r = s
RecordInv == RecordsDiffer /\ RecordsArePast /\ OwedIsPast /\ OwedDiffers

\* No commit brings an attempt back that is past.
LEMMA PastStaysPast ==
    ASSUME SharedInv, NEW s \in Server, Effect(handler[s])
    PROVE  \A u \in Task, n \in Nat : Past(u, n) => Past(u, n)'
  <1> DEFINE h == handler[s]
             t == h.task
             Kept(u) == /\ tasks'[u].attempt = tasks[u].attempt
                        /\ tasks[u].status \in {"failed", "terminal"} =>
                              tasks'[u].status \in {"failed", "terminal"}
  <1>0. TypeInv /\ \A u \in Task : tasks[u].attempt \in Nat
    BY DEF SharedInv, TypeInv, TypeOK, TaskRow
  <1>1. (\A u \in Task : Kept(u)) => \A u \in Task, n \in Nat : Past(u, n) => Past(u, n)'
    BY DEF Past
  <1>2. CASE h.op = "begin" /\ CommitBegin(h) /\ h.answer = "claim"
    <2> DEFINE lease_end == h.at + h.lease
    <2>1. /\ h.worker \in Worker /\ t \in Task /\ h.policy \in Policy /\ lease_end \in Nat
          /\ GrantAs(h.worker, t, h.policy, lease_end, tasks[t].attempt + 1)
          /\ tasks[t].attempt = 0 \/ tasks[t].attempt < h.policy.max_attempts
      BY <1>2, CommittedClaim
    <2> HIDE DEF lease_end
    <2>2. PICK row : Writes(t, row) /\ RowInv(row) /\ row.attempt = tasks[t].attempt + 1
      BY <1>0, <2>1, GrantAsWrites
    <2>3. \A u \in Task : tasks'[u] = IF u = t THEN row ELSE tasks[u]
      BY <1>0, <2>1, <2>2, WriteKeepsTypes
    <2>4. ASSUME NEW u \in Task, NEW n \in Nat, Past(u, n)
          PROVE  Past(u, n)'
      <3>1. CASE u = t
        BY <1>0, <2>2, <2>3, <2>4, <3>1 DEF Past
      <3>2. CASE u # t
        BY <2>3, <2>4, <3>2 DEF Past
      <3> QED
        BY <3>1, <3>2
    <2> QED
      BY <2>4
  <1>3. CASE h.op = "begin" /\ CommitBegin(h) /\ h.answer # "claim"
    <2>1. /\ t \in Task
          /\ \E row : /\ Writes(t, row) /\ RowInv(row) /\ row.status = "terminal"
                      /\ row.attempt = tasks[t].attempt
      BY <1>3, CommittedExhaustion
    <2>2. \A u \in Task : Kept(u)
      BY <1>0, <2>1, WriteKeepsTypes
    <2> QED
      BY <1>1, <2>2
  <1>4. CASE h.op = "complete" /\ Complete(Sent(h))
    <2> DEFINE c == Sent(h)
    <2>1. c \in claims
      BY <1>4, CommittedCompletion
    <2> HIDE DEF c
    <2>2. Complete(c)
      BY <1>4 DEF c
    <2>3. /\ c.task \in Task /\ tasks[c.task].status = "running"
          /\ \E row : Writes(c.task, row) /\ RowInv(row) /\ row.attempt = tasks[c.task].attempt
      BY <1>0, <2>1, <2>2, CompleteWrites
    <2>4. \A u \in Task : Kept(u)
      BY <1>0, <2>3, WriteKeepsTypes
    <2> QED
      BY <1>1, <2>4
  <1>5. CASE h.op = "fail" /\ CommitFail(h)
    <2>1. /\ t \in Task /\ tasks[t].status = "running"
          /\ \E row : Writes(t, row) /\ RowInv(row) /\ row.attempt = tasks[t].attempt
      BY <1>5, CommittedFailure
    <2>2. \A u \in Task : Kept(u)
      BY <1>0, <2>1, WriteKeepsTypes
    <2> QED
      BY <1>1, <2>2
  <1>6. CASE h.op = "record" /\ CommitRecord(h)
    BY <1>1, <1>6 DEF CommitRecord
  <1>7. CASE h.op = "heartbeat" /\ Heartbeat(h.worker, t, h.lease + h.at - now)
    <2>1. /\ t \in Task /\ tasks[t].status = "running"
          /\ \E row : Writes(t, row) /\ RowInv(row) /\ row.attempt = tasks[t].attempt
      BY <1>7, CommittedHeartbeat
    <2>2. \A u \in Task : Kept(u)
      BY <1>0, <2>1, WriteKeepsTypes
    <2> QED
      BY <1>1, <2>2
  <1>8. CASE h.op = "register_dataset" /\ RegisterDataset(h.digests)
    <2> DEFINE digests == h.digests
    <2>1. digests \in SUBSET Task
      BY CommittedRegistration
    <2> HIDE DEF digests
    <2>2. RegisterDataset(digests)
      BY <1>8 DEF digests
    <2>3. \A u \in Task : Kept(u)
      BY <1>0, <2>1, <2>2, RegisterWrites
    <2> QED
      BY <1>1, <2>3
  <1> QED
    BY <1>2, <1>3, <1>4, <1>5, <1>6, <1>7, <1>8 DEF Effect

\* A handler that drops what it owed, and one that starts something else, cannot
\* break the bookkeeping while the tasks and the records stay as they are.
LEMMA OwingLessKeepsRecords ==
    ASSUME RecordInv, UNCHANGED <<tasks, failure_records>>,
           \A s \in Server : Owes(handler'[s]) => Owes(handler[s]) /\ SameFailure(handler'[s], handler[s])
    PROVE  RecordInv'
  <1>1. RecordsDiffer' /\ RecordsArePast'
    BY DEF RecordInv, RecordsDiffer, RecordsArePast, Past
  <1>2. OwedIsPast'
    BY DEF RecordInv, OwedIsPast, Past, Recorded, SameFailure
  <1>3. OwedDiffers'
    BY DEF RecordInv, OwedDiffers, SameFailure
  <1> QED
    BY <1>1, <1>2, <1>3 DEF RecordInv

\* The tasks and numbers of failures that are owed or recorded.
LEMMA OwedTypes ==
    ASSUME SharedInv
    PROVE  /\ \A s \in Server : Owes(handler[s]) =>
                 handler[s].task \in Task /\ handler[s].attempt \in Nat
           /\ \A t \in Task : /\ failure_records[t] \in Seq(Nat)
                              /\ \A i \in DOMAIN failure_records[t] : failure_records[t][i] \in Nat
  <1>1. ASSUME NEW s \in Server, Owes(handler[s])
        PROVE  handler[s].task \in Task /\ handler[s].attempt \in Nat
    <2>1. handler[s] \in Handler /\ Facts(handler[s])
      BY DEF SharedInv, STypeOK
    <2>2. handler[s].op \in {"fail", "record"}
      BY <1>1, <2>1 DEF Owes, Facts, OtherFacts
    <2> QED
      BY <2>1, <2>2 DEF Handler, Facts, FailFacts, OtherFacts
  <1>2. failure_records \in [Task -> Seq(Nat)]
    BY DEF SharedInv, STypeOK, TypeOK
  <1> QED
    BY <1>1, <1>2

\* A commit that records nothing and after which its handler owes nothing.
LEMMA OtherCommitKeepsRecords ==
    ASSUME SharedInv, RecordInv, NEW s \in Server, Commit(s),
           handler[s].op \notin {"fail", "record"}
    PROVE  RecordInv'
  <1>1. \A u \in Task, n \in Nat : Past(u, n) => Past(u, n)'
    BY PastStaysPast DEF Commit
  <1>2. failure_records' = failure_records
    BY DEF Commit, Effect, CommitBegin, GrantAs, Complete, Heartbeat, RegisterDataset
  <1>3. handler \in [Server -> Handler] /\ After(handler[s]) = Idle /\ ~Owes(Idle)
    BY DEF SharedInv, STypeOK, After, Owes, Idle
  <1>4. \A r \in Server : handler'[r] = IF r = s THEN Idle ELSE handler[r]
    BY <1>3 DEF Commit, Becomes
  <1>5. RecordsDiffer'
    BY <1>2 DEF RecordInv, RecordsDiffer
  <1>6. RecordsArePast'
    BY <1>1, <1>2, OwedTypes DEF RecordInv, RecordsArePast
  <1>7. OwedIsPast'
    <2> SUFFICES ASSUME NEW r \in Server, Owes(handler'[r])
                 PROVE  /\ Past(handler[r].task, handler[r].attempt)'
                        /\ ~Recorded(handler[r].task, handler[r].attempt)'
      BY DEF OwedIsPast
    <2>1. handler'[r] = handler[r] /\ Owes(handler[r])
      BY <1>3, <1>4
    <2>2. PICK u \in Task, n \in Nat : u = handler[r].task /\ n = handler[r].attempt
      BY <2>1, OwedTypes
    <2>3. Past(u, n) /\ ~Recorded(u, n)
      BY <2>1, <2>2 DEF RecordInv, OwedIsPast
    <2>4. Past(u, n)' /\ ~Recorded(u, n)'
      BY <1>1, <1>2, <2>3 DEF Recorded
    <2> QED
      BY <2>1, <2>2, <2>4
  <1>8. OwedDiffers'
    BY <1>3, <1>4 DEF RecordInv, OwedDiffers
  <1> QED
    BY <1>5, <1>6, <1>7, <1>8 DEF RecordInv

\* The UPDATE of fail: its attempt was running, so nobody has recorded it or owes
\* its record.
LEMMA CommitFailKeepsRecords ==
    ASSUME Fenced = Worker, SharedInv, RecordInv, NEW s \in Server, Commit(s),
           handler[s].op = "fail"
    PROVE  RecordInv'
  <1> DEFINE h == handler[s]
             g == After(h)
  <1>1. /\ handler \in [Server -> Handler] /\ h \in Handler /\ Facts(h)
        /\ handler' = [handler EXCEPT ![s] = g] /\ CommitFail(h)
    BY DEF SharedInv, STypeOK, Commit, Becomes, Effect
  <1>2. PICK t \in Task, n \in Nat \ {0} : t = h.task /\ n = h.attempt
    BY <1>1, PolicyAssumption DEF Facts, FailFacts
  <1>3. /\ h.worker \in Worker /\ HoldsClaim(Sent(h))
        /\ tasks[t].status = "running" /\ failure_records' = failure_records
        /\ \E row : /\ Writes(t, row) /\ RowInv(row)
                    /\ row.status \in {"failed", "terminal"}
                    /\ row.attempt = tasks[t].attempt
    BY <1>1, <1>2, CommittedFailure
  <1>4. n = tasks[t].attempt
    BY <1>2, <1>3 DEF HoldsClaim, Sent, SentAttempt, NoAttempt
  <1>5. ~Past(t, n)
    BY <1>2, <1>3, <1>4 DEF Past
  <1>6. Past(t, n)'
    <2>1. tasks'[t].attempt = n /\ tasks'[t].status \in {"failed", "terminal"}
      BY <1>3, <1>4, WriteKeepsTypes DEF SharedInv
    <2> QED
      BY <2>1 DEF Past
  <1>7. ~Recorded(t, n) /\ ~Recorded(t, n)'
    BY <1>3, <1>5 DEF RecordInv, RecordsArePast, Recorded
  <1>8. \A r \in Server : ~(Owes(handler[r]) /\ handler[r].task = t /\ handler[r].attempt = n)
    BY <1>5 DEF RecordInv, OwedIsPast
  <1>9. g.task = t /\ g.attempt = n
    BY <1>1, <1>2 DEF After, Handler
  <1> HIDE DEF g
  <1>10. \A r \in Server : handler'[r] = IF r = s THEN g ELSE handler[r]
    BY <1>1
  <1>11. \A u \in Task, m \in Nat : Past(u, m) => Past(u, m)'
    BY PastStaysPast DEF Commit
  <1>12. RecordsDiffer'
    BY <1>3 DEF RecordInv, RecordsDiffer
  <1>13. RecordsArePast'
    BY <1>3, <1>11, OwedTypes DEF RecordInv, RecordsArePast
  <1>14. OwedIsPast'
    <2> SUFFICES ASSUME NEW r \in Server, Owes(handler'[r])
                 PROVE  /\ Past(handler[r].task, handler[r].attempt)'
                        /\ ~Recorded(handler[r].task, handler[r].attempt)'
      BY DEF OwedIsPast
    <2>1. CASE r = s
      BY <1>6, <1>7, <1>9, <1>10, <2>1
    <2>2. CASE r # s
      <3>1. handler'[r] = handler[r] /\ Owes(handler[r])
        BY <1>10, <2>2
      <3>2. PICK u \in Task, m \in Nat : u = handler[r].task /\ m = handler[r].attempt
        BY <3>1, OwedTypes
      <3>3. Past(u, m) /\ ~Recorded(u, m)
        BY <3>1, <3>2 DEF RecordInv, OwedIsPast
      <3>4. Past(u, m)' /\ ~Recorded(u, m)'
        BY <1>3, <1>11, <3>3 DEF Recorded
      <3> QED
        BY <3>1, <3>2, <3>4
    <2> QED
      BY <2>1, <2>2
  <1>15. OwedDiffers'
    BY <1>8, <1>9, <1>10 DEF RecordInv, OwedDiffers, SameFailure
  <1> QED
    BY <1>12, <1>13, <1>14, <1>15 DEF RecordInv

\* The INSERT of fail records what its handler owes.
LEMMA CommitRecordKeepsRecords ==
    ASSUME SharedInv, RecordInv, NEW s \in Server, Commit(s), handler[s].op = "record"
    PROVE  RecordInv'
  <1> DEFINE h == handler[s]
  <1>1. /\ handler \in [Server -> Handler] /\ Owes(h) /\ CommitRecord(h)
        /\ handler' = [handler EXCEPT ![s] = Idle]
    BY DEF SharedInv, STypeOK, Commit, Becomes, Effect, Owes, After
  <1>2. PICK t \in Task, n \in Nat : t = h.task /\ n = h.attempt
    BY <1>1, OwedTypes
  <1>3. Past(t, n) /\ ~Recorded(t, n)
    BY <1>1, <1>2 DEF RecordInv, OwedIsPast
  <1> DEFINE old == failure_records[t]
             new == Append(old, n)
  <1>4. /\ tasks' = tasks
        /\ \A u \in Task : failure_records'[u] = IF u = t THEN new ELSE failure_records[u]
    BY <1>1, <1>2 DEF CommitRecord, SharedInv, STypeOK, TypeOK
  <1>5. old \in Seq(Nat) /\ Len(old) \in Nat /\ DOMAIN old = 1..Len(old)
    BY OwedTypes
  <1>6. /\ DOMAIN new = 1..(Len(old) + 1)
        /\ \A i \in DOMAIN old : new[i] = old[i]
        /\ new[Len(old) + 1] = n
    BY <1>5, AppendProperties
  <1>7. \A i \in DOMAIN old : old[i] # n /\ Past(t, old[i])
    BY <1>3 DEF Recorded, RecordInv, RecordsArePast
  <1>8. \A i, j \in DOMAIN old : old[i] = old[j] => i = j
    BY DEF RecordInv, RecordsDiffer
  <1> HIDE DEF old, new
  <1>9. \A i \in DOMAIN new : i \in DOMAIN old \/ i = Len(old) + 1
    BY <1>5, <1>6
  <1>10. (\A i, j \in DOMAIN new : new[i] = new[j] => i = j) /\ \A i \in DOMAIN new : Past(t, new[i])
    BY <1>3, <1>6, <1>7, <1>8, <1>9
  <1>11. RecordsDiffer'
    BY <1>4, <1>10 DEF RecordInv, RecordsDiffer
  <1>12. RecordsArePast'
    BY <1>4, <1>10 DEF RecordInv, RecordsArePast, Past
  <1>13. \A u \in Task, m \in Nat : Recorded(u, m)' => Recorded(u, m) \/ (u = t /\ m = n)
    BY <1>4, <1>6, <1>9 DEF Recorded, old
  <1>14. \A r \in Server : Owes(handler'[r]) =>
           /\ handler'[r] = handler[r] /\ Owes(handler[r])
           /\ ~(handler[r].task = t /\ handler[r].attempt = n)
    <2>1. ~Owes(Idle)
      BY DEF Owes, Idle
    <2> QED
      BY <1>1, <1>2, <2>1 DEF RecordInv, OwedDiffers, SameFailure
  <1>15. OwedIsPast'
    <2> SUFFICES ASSUME NEW r \in Server, Owes(handler'[r])
                 PROVE  /\ Past(handler[r].task, handler[r].attempt)'
                        /\ ~Recorded(handler[r].task, handler[r].attempt)'
      BY DEF OwedIsPast
    <2>1. PICK u \in Task, m \in Nat : u = handler[r].task /\ m = handler[r].attempt
      BY <1>14, OwedTypes
    <2>2. Past(u, m) /\ ~Recorded(u, m) /\ ~(u = t /\ m = n)
      BY <1>14, <2>1 DEF RecordInv, OwedIsPast
    <2>3. Past(u, m)' /\ ~Recorded(u, m)'
      BY <1>4, <1>13, <2>2 DEF Past
    <2> QED
      BY <1>14, <2>1, <2>3
  <1>16. OwedDiffers'
    BY <1>14 DEF RecordInv, OwedDiffers
  <1> QED
    BY <1>11, <1>12, <1>15, <1>16 DEF RecordInv

\* A step before a commit: a handler that begins or goes on owes what it owed.
LEMMA MoveKeepsRecords ==
    ASSUME SharedInv, RecordInv, NEW s \in Server,
           Request(s) \/ Stop(s) \/ BeginLocks(s) \/ BeginIsBusy(s) \/ FailLocks(s)
           \/ RecordLocks(s) \/ TraceLocks(s) \/ CommitWaits(s) \/ CommitTrace(s)
    PROVE  RecordInv'
  <1> DEFINE Owing == \A r \in Server : Owes(handler'[r]) =>
                          Owes(handler[r]) /\ SameFailure(handler'[r], handler[r])
  <1>1. handler \in [Server -> Handler] /\ handler[s] \in Handler
    BY DEF SharedInv, STypeOK
  <1>2. ASSUME NEW h, handler' = [handler EXCEPT ![s] = h],
               Owes(h) => Owes(handler[s]) /\ SameFailure(h, handler[s])
        PROVE  Owing
    BY <1>1, <1>2 DEF SameFailure
  <1>3. ~Owes(Idle) /\ Idle \in Handler
    BY IdleHandler DEF Owes, Idle
  <1>4. UNCHANGED <<tasks, failure_records>>
    BY DEF Request, Stop, BeginReads, CompleteLocks, FailReads, HeartbeatLocks, RegisterDatasetLocks,
           TraceReads, Locks, BeginLocks, BeginIsBusy, FailLocks, RecordLocks, TraceLocks,
           CommitWaits, CommitTrace, Moves, vars
  <1> HIDE DEF Owing
  <1>5. ASSUME Stop(s) \/ BeginIsBusy(s) \/ CommitTrace(s)
        PROVE  Owing
    BY <1>2, <1>3, <1>5 DEF Stop, BeginIsBusy, CommitTrace, Moves, Becomes
  <1>6. ASSUME Request(s)
        PROVE  Owing
    <2> DEFINE Fresh(h) == h.stage # "unrecorded" /\ h.op # "record"
    <2>1. ASSUME NEW h, handler' = [handler EXCEPT ![s] = h], Fresh(h)
          PROVE  Owing
      BY <1>2, <2>1 DEF Owes
    <2>2. ASSUME NEW h \in Handler, Locks(s, h), h.op # "record"
           PROVE  Owing
      <3> DEFINE g == [h EXCEPT !.stage = "writing", !.at = now]
      <3>1. handler' = [handler EXCEPT ![s] = g]
        BY <2>2 DEF Locks, Moves, Becomes
      <3>2. Fresh(g)
        BY <2>2 DEF Handler
      <3> HIDE DEF g
      <3> QED
        BY <2>1, <3>1, <3>2
    <2>3. ASSUME NEW w \in Worker, NEW t \in Task, NEW policy \in Policy, NEW lease \in Lease,
                 BeginReads(s, w, t, policy, lease)
          PROVE  Owing
      <3> DEFINE h == [Idle EXCEPT !.stage = "reading", !.op = "begin", !.worker = w, !.task = t,
                                 !.lease = lease, !.policy = policy, !.attempt = tasks[t].attempt,
                                 !.answer = Answer(t, policy)]
      <3>1. handler' = [handler EXCEPT ![s] = h]
        BY <2>3 DEF BeginReads, Moves, Becomes
      <3>2. Fresh(h)
        BY <1>3 DEF Handler
      <3> HIDE DEF h
      <3> QED
        BY <2>1, <3>1, <3>2
    <2>4. ASSUME NEW c \in claims, CompleteLocks(s, c)
          PROVE  Owing
      <3> DEFINE h == [Idle EXCEPT !.op = "complete", !.worker = c.worker, !.task = c.task,
                                 !.attempt = c.attempt]
      <3>1. Locks(s, h)
        BY <2>4 DEF CompleteLocks
      <3>2. c.task \in Task /\ c.worker \in Worker /\ c.attempt \in Nat
        BY DEF SharedInv, TypeInv, TypeOK, Claim
      <3>3. h \in Handler /\ h.op # "record"
        BY <1>3, <3>2 DEF Handler, Operation
      <3> HIDE DEF h
      <3> QED
        BY <2>2, <3>1, <3>3
    <2>5. ASSUME NEW c \in claims, NEW error \in Error, FailReads(s, c, error)
          PROVE  Owing
      <3> DEFINE h == [Idle EXCEPT !.stage = "looked", !.op = "fail", !.worker = c.worker,
                                 !.task = c.task, !.attempt = tasks[c.task].attempt,
                                 !.policy = tasks[c.task].retry, !.error = error]
      <3>1. handler' = [handler EXCEPT ![s] = h]
        BY <2>5 DEF FailReads, Moves, Becomes
      <3>2. Fresh(h)
        BY <1>3 DEF Handler
      <3> HIDE DEF h
      <3> QED
        BY <2>1, <3>1, <3>2
    <2>6. ASSUME NEW w \in Worker, NEW t \in Task, NEW lease \in Lease, HeartbeatLocks(s, w, t, lease)
          PROVE  Owing
      <3> DEFINE h == [Idle EXCEPT !.op = "heartbeat", !.worker = w, !.task = t, !.lease = lease]
      <3>1. Locks(s, h)
        BY <2>6 DEF HeartbeatLocks
      <3>2. lease \in Nat
        BY TimeAssumption
      <3>3. h \in Handler /\ h.op # "record"
        BY <1>3, <3>2 DEF Handler, Operation
      <3> HIDE DEF h
      <3> QED
        BY <2>2, <3>1, <3>3
    <2>7. ASSUME NEW digests \in SUBSET Task, RegisterDatasetLocks(s, digests)
          PROVE  Owing
      <3> DEFINE h == [Idle EXCEPT !.op = "register_dataset", !.digests = digests]
      <3>1. Locks(s, h)
        BY <2>7 DEF RegisterDatasetLocks
      <3>3. h \in Handler /\ h.op # "record"
        BY <1>3 DEF Handler, Operation
      <3> HIDE DEF h
      <3> QED
        BY <2>2, <3>1, <3>3
    <2>8. ASSUME TraceReads(s)
          PROVE  Owing
      <3> DEFINE h == [Idle EXCEPT !.stage = "looked", !.op = "add_trace_event", !.index = NextIndex]
      <3>1. handler' = [handler EXCEPT ![s] = h]
        BY <2>8 DEF TraceReads, Moves, Becomes
      <3>2. Fresh(h)
        BY <1>3 DEF Handler
      <3> HIDE DEF h
      <3> QED
        BY <2>1, <3>1, <3>2
    <2> QED
      BY <1>6, <2>3, <2>4, <2>5, <2>6, <2>7, <2>8 DEF Request
  <1>7. ASSUME RecordLocks(s)
        PROVE  Owing
    <2> DEFINE h == [handler[s] EXCEPT !.stage = "writing", !.op = "record"]
    <2>1. Owes(handler[s]) /\ handler' = [handler EXCEPT ![s] = h]
      BY <1>7 DEF RecordLocks, Moves, Becomes, Owes
    <2>2. SameFailure(h, handler[s])
      BY <1>1 DEF SameFailure, Handler
    <2> QED
      BY <1>2, <2>1, <2>2
  <1>8. ASSUME BeginLocks(s) \/ FailLocks(s) \/ TraceLocks(s) \/ CommitWaits(s)
        PROVE  Owing
    <2>1. PICK h : /\ handler' = [handler EXCEPT ![s] = h]
                   /\ \/ h = Idle
                      \/ h = [handler[s] EXCEPT !.stage = "writing", !.at = now]
                      \/ h = [handler[s] EXCEPT !.stage = "pending"]
      BY <1>8 DEF BeginLocks, FailLocks, TraceLocks, CommitWaits, Moves, Becomes
    <2>2. CASE h = Idle
      BY <1>2, <1>3, <2>1, <2>2
    <2>3. CASE h # Idle
      <3>1. h.stage # "unrecorded" /\ h.op = handler[s].op /\ SameFailure(h, handler[s])
        BY <1>1, <2>1, <2>3 DEF SameFailure, Handler
      <3>2. Owes(h) => Owes(handler[s])
        BY <3>1 DEF Owes
      <3> QED
        BY <1>2, <2>1, <3>1, <3>2
    <2> QED
      BY <2>2, <2>3
  <1>9. ASSUME Owing
        PROVE  RecordInv'
    BY <1>4, <1>9, OwingLessKeepsRecords DEF Owing
  <1> QED
    BY <1>5, <1>6, <1>7, <1>8, <1>9

\* An attempt is recorded as failed at most once, and only when it has ended, on
\* however many servers its failure was reported and whichever of them died.
THEOREM SharedFailuresAreRecordedOnce ==
    ASSUME Fenced = Worker
    PROVE  SSpec => []FailureRecordedOnce
  <1>1. SInit => RecordInv
    <2>1. ~Owes(Idle)
      BY DEF Owes, Idle
    <2> QED
      BY <2>1 DEF SInit, Init, RecordInv, RecordsDiffer, RecordsArePast, OwedIsPast, OwedDiffers
  <1>2. ASSUME SharedInv, RecordInv, [SNext]_allvars
        PROVE  RecordInv'
    <2>1. ASSUME NEW s \in Server, Commit(s)
          PROVE  RecordInv'
      BY <1>2, <2>1, CommitFailKeepsRecords, CommitRecordKeepsRecords, OtherCommitKeepsRecords
    <2>2. ASSUME NEW s \in Server, Request(s) \/ Handle(s) \/ Stop(s)
          PROVE  RecordInv'
      BY <1>2, <2>1, <2>2, MoveKeepsRecords DEF Handle
    <2>3. CASE Pass \/ UNCHANGED allvars
      BY <1>2, <2>3 DEF Pass, Tick, allvars, vars, svars, RecordInv, RecordsDiffer, RecordsArePast,
                        OwedIsPast, OwedDiffers, Past, Recorded
    <2> QED
      BY <1>2, <2>2, <2>3 DEF SNext
  <1>3. RecordInv => FailureRecordedOnce
    BY DEF RecordInv, RecordsDiffer, RecordsArePast, Past, FailureRecordedOnce
  <1> QED
    BY <1>1, <1>2, <1>3, SharedInvariant, PTL DEF SSpec

=============================================================================
