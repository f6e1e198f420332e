----------------------- MODULE TaskStoreFencedProofs -----------------------
(***************************************************************************)
(* What TaskStore guarantees when every client sends its worker_id and     *)
(* attempt, as the Python client does: leases exclude, stale completions   *)
(* bounce, and the store implements DurableTask.                           *)
(***************************************************************************)
EXTENDS TaskStoreProofs

\* The claim check of complete and fail admits the last attempt and the owner of
\* the lease only.
LEMMA FencedClaim ==
    ASSUME Fenced = Worker, TypeInv, NEW c \in claims, HoldsClaim(c)
    PROVE  /\ c.task \in Task /\ c.worker \in Worker
           /\ c.attempt = tasks[c.task].attempt
           /\ c.worker = tasks[c.task].lease_owner
  <1>1. c.task \in Task /\ c.worker \in Worker /\ c.attempt \in Nat \ {0}
    BY DEF TypeInv, TypeOK, Claim
  <1>2. SentAttempt(c) = c.attempt /\ SentAttempt(c) # NoAttempt
    BY <1>1 DEF SentAttempt, NoAttempt
  <1>3. SentWorker(c.worker) = c.worker /\ SentWorker(c.worker) # NoWorker
    BY <1>1, WorkerAssumption DEF SentWorker
  <1> QED
    BY <1>1, <1>2, <1>3 DEF HoldsClaim

-----------------------------------------------------------------------------
(* Single flight *)

\* Whoever has grounds to believe in a lease is its owner in the table, and the
\* table agrees on when it ends.
LeaseBelief ==
    \A w \in Worker, t \in Task : InFuture(deadline[w][t]) =>
        /\ tasks[t].status = "running"
        /\ tasks[t].lease_owner = w
        /\ tasks[t].lease_expires_at = deadline[w][t]

LEMMA BeliefIsExclusive == LeaseBelief => SingleFlight
  BY DEF LeaseBelief, SingleFlight

\* With no active lease on a task nobody believes in one.
LEMMA NoLeaseNoBelief ==
    ASSUME LeaseBelief, NEW t \in Task, ~LeaseActive(t)
    PROVE  \A w \in Worker : ~InFuture(deadline[w][t])
  BY DEF LeaseBelief, LeaseActive

\* Closing a row that only its owner may have believed in: the owner is told.
LEMMA ClosingEndsBelief ==
    ASSUME TypeInv, LeaseBelief, NEW w \in Worker, NEW t \in Task, NEW row, RowInv(row), Writes(t, row),
           tasks[t].lease_owner = w, now' = now,
           deadline' = [deadline EXCEPT ![w][t] = NoStamp]
    PROVE  LeaseBelief'
  <1> SUFFICES ASSUME NEW v \in Worker, NEW s \in Task, InFuture(deadline[v][s])'
               PROVE  /\ tasks'[s].status = "running" /\ tasks'[s].lease_owner = v
                      /\ tasks'[s].lease_expires_at = deadline'[v][s]
    BY DEF LeaseBelief
  <1>1. now \in Nat /\ deadline \in [Worker -> [Task -> Nat]]
    BY DEF TypeInv, TypeOK
  <1>2. deadline'[v][s] = IF v = w /\ s = t THEN NoStamp ELSE deadline[v][s]
    BY <1>1
  <1>3. ~(v = w /\ s = t) /\ InFuture(deadline[v][s])
    BY <1>1, <1>2 DEF InFuture, NoStamp
  <1>4. s # t
    BY <1>3 DEF LeaseBelief
  <1> QED
    BY <1>2, <1>3, <1>4, WriteKeepsTypes DEF LeaseBelief

\* A lease that begin or heartbeat gives until lease_end: the owner in the table is
\* told, and is the only one to believe in a lease.
LEMMA LeasingKeepsBelief ==
    ASSUME TypeInv, LeaseBelief, NEW w \in Worker, NEW t \in Task, NEW lease_end \in Nat,
           NEW row, RowInv(row), Writes(t, row),
           row.status = "running", row.lease_owner = w, row.lease_expires_at = lease_end,
           \A v \in Worker : v # w => ~InFuture(deadline[v][t]),
           now' = now, deadline' = [deadline EXCEPT ![w][t] = lease_end]
    PROVE  LeaseBelief'
  <1>1. now \in Nat /\ deadline \in [Worker -> [Task -> Nat]]
    BY DEF TypeInv, TypeOK
  <1>2. \A v \in Worker, s \in Task :
          deadline'[v][s] = IF v = w /\ s = t THEN lease_end ELSE deadline[v][s]
    BY <1>1
  <1> QED
    BY <1>1, <1>2, WriteKeepsTypes DEF LeaseBelief, InFuture

\* A registration touches no lease.
LEMMA RegisteringKeepsBelief ==
    ASSUME TypeInv, LeaseBelief, NEW digests \in SUBSET Task, RegisterDataset(digests)
    PROVE  LeaseBelief'
  <1>1. now' = now /\ deadline' = deadline
    BY DEF RegisterDataset
  <1>2. \A t \in Task : tasks[t].status = "running" =>
          /\ tasks'[t].status = "running"
          /\ tasks'[t].lease_owner = tasks[t].lease_owner
          /\ tasks'[t].lease_expires_at = tasks[t].lease_expires_at
    BY RegisterWrites
  <1> QED
    BY <1>1, <1>2 DEF LeaseBelief, InFuture

\* Two clients never both have grounds to believe that they hold the lease of a
\* task, however they are delayed and whatever leases they ask for.
THEOREM LeasesExclude ==
    ASSUME Fenced = Worker
    PROVE  Spec => []SingleFlight
  <1>1. Init => LeaseBelief
    BY DEF Init, LeaseBelief, InFuture, NoStamp
  <1>2. ASSUME TypeInv, LeaseBelief, [Next]_vars
        PROVE  LeaseBelief'
    <2>0. now \in Nat /\ deadline \in [Worker -> [Task -> Nat]]
      BY <1>2 DEF TypeInv, TypeOK
    <2>1. ASSUME NEW t \in Task, NEW policy \in Policy, BeginExhausted(t, policy)
          PROVE  LeaseBelief'
      <3>1. PICK row : Writes(t, row) /\ RowInv(row)
        BY <1>2, <2>1, ExhaustedWrites
      <3>2. \A w \in Worker : ~InFuture(deadline[w][t])
        BY <1>2, <2>1, ExhaustedWrites, NoLeaseNoBelief
      <3>3. now' = now /\ deadline' = deadline
        BY <2>1 DEF BeginExhausted
      <3> QED
        BY <1>2, <3>1, <3>2, <3>3, WriteKeepsTypes DEF LeaseBelief, InFuture
    <2>2. ASSUME NEW w \in Worker, NEW t \in Task, NEW policy \in Policy, NEW lease \in Lease,
                 BeginExecute(w, t, policy, lease) \/ BeginInsert(w, t, policy, lease)
          PROVE  LeaseBelief'
      <3>1. Grant(w, t, policy, lease) /\ \A v \in Worker : ~InFuture(deadline[v][t])
        BY <1>2, <2>2, BeginWrites, NoLeaseNoBelief
      <3>2. PICK row : /\ Writes(t, row) /\ RowInv(row)
                       /\ row.status = "running" /\ row.lease_owner = SentWorker(w)
                       /\ row.lease_expires_at = now + lease
        BY <1>2, <2>2, BeginWrites, GrantWrites
      <3>3. row.lease_owner = w
        BY <3>2 DEF SentWorker
      <3>4. now' = now /\ deadline' = [deadline EXCEPT ![w][t] = now + lease]
        BY <3>1 DEF Grant, GrantAs
      <3>5. now + lease \in Nat
        BY <2>0, TimeAssumption
      <3> QED
        BY <1>2, <3>1, <3>2, <3>3, <3>4, <3>5, LeasingKeepsBelief
    <2>3. ASSUME NEW c \in claims, Complete(c)
          PROVE  LeaseBelief'
      <3>1. c.task \in Task /\ c.worker \in Worker /\ c.worker = tasks[c.task].lease_owner
        BY <1>2, <2>3, FencedClaim DEF Complete
      <3>2. PICK row : Writes(c.task, row) /\ RowInv(row)
        BY <1>2, <2>3, CompleteWrites
      <3> QED
        BY <1>2, <2>3, <3>1, <3>2, ClosingEndsBelief DEF Complete
    <2>4. ASSUME NEW c \in claims, NEW error \in Error, Fail(c, error) \/ FailAndCrash(c, error)
          PROVE  LeaseBelief'
      <3>1. FailUpdate(c, error)
        BY <2>4 DEF Fail, FailAndCrash
      <3>2. c.task \in Task /\ c.worker \in Worker /\ c.worker = tasks[c.task].lease_owner
        BY <1>2, <3>1, FencedClaim DEF FailUpdate, FailUpdateAt
      <3>3. PICK row : Writes(c.task, row) /\ RowInv(row)
        BY <1>2, <3>1, FailWrites
      <3> QED
        BY <1>2, <3>1, <3>2, <3>3, ClosingEndsBelief DEF FailUpdate, FailUpdateAt
    <2>5. ASSUME NEW w \in Worker, NEW t \in Task, NEW lease \in Lease, Heartbeat(w, t, lease)
          PROVE  LeaseBelief'
      <3>1. PICK row : /\ Writes(t, row) /\ RowInv(row)
                       /\ row.status = "running" /\ row.lease_owner = w
                       /\ row.lease_expires_at = now + lease
        BY <1>2, <2>5, HeartbeatWrites
      <3>2. \A v \in Worker : v # w => ~InFuture(deadline[v][t])
        BY <1>2, <2>5, HeartbeatWrites DEF LeaseBelief
      <3>3. now' = now /\ deadline' = [deadline EXCEPT ![w][t] = now + lease]
        BY <2>5 DEF Heartbeat
      <3>4. now + lease \in Nat
        BY <2>0, TimeAssumption
      <3> QED
        BY <1>2, <3>1, <3>2, <3>3, <3>4, LeasingKeepsBelief
    <2>6. ASSUME NEW digests \in SUBSET Task, RegisterDataset(digests)
          PROVE  LeaseBelief'
      BY <1>2, <2>6, RegisteringKeepsBelief
    <2>7. CASE Tick
      BY <1>2, <2>0, <2>7 DEF Tick, LeaseBelief, InFuture
    <2>8. CASE UNCHANGED vars
      BY <1>2, <2>8 DEF vars, LeaseBelief, InFuture
    <2> QED
      BY <1>2, <2>1, <2>2, <2>3, <2>4, <2>5, <2>6, <2>7, <2>8 DEF Next, Begin, Resolve
  <1> QED
    BY <1>1, <1>2, TypeInvariant, BeliefIsExclusive, PTL DEF Spec

-----------------------------------------------------------------------------
(* The store implements DurableTask *)

\* Writing one row changes the abstract state of that task alone.
LEMMA WriteMaps ==
    ASSUME TypeInv, NEW t \in Task, NEW row, RowInv(row), Writes(t, row)
    PROVE  /\ StartedOf' = [StartedOf EXCEPT ![t] = row.attempt]
           /\ ResultOf' = [ResultOf EXCEPT ![t] = ResultFor(row.status)]
           /\ OutputOf' = [OutputOf EXCEPT ![t] = row.output]
  <1>1. \A s \in Task : tasks'[s] = IF s = t THEN row ELSE tasks[s]
    BY WriteKeepsTypes
  <1> QED
    BY <1>1 DEF StartedOf, ResultOf, OutputOf

\* Writing a row with the same attempt, output and result leaves it as it was.
LEMMA WriteStutters ==
    ASSUME TypeInv, NEW t \in Task, NEW row, RowInv(row), Writes(t, row),
           row.attempt = tasks[t].attempt, row.output = tasks[t].output,
           ResultFor(row.status) = ResultFor(tasks[t].status)
    PROVE  StartedOf' = StartedOf /\ ResultOf' = ResultOf /\ OutputOf' = OutputOf
  <1>1. \A s \in Task : tasks'[s] = IF s = t THEN row ELSE tasks[s]
    BY WriteKeepsTypes
  <1> QED
    BY <1>1 DEF StartedOf, ResultOf, OutputOf

\* A row closed as terminal gives the task up.
LEMMA WriteGivesUp ==
    ASSUME TypeInv, NEW t \in Task, NEW row, RowInv(row), Writes(t, row),
           row.attempt = tasks[t].attempt, row.output = tasks[t].output,
           row.status = "terminal", ResultFor(tasks[t].status) = "open"
    PROVE  Durable!GiveUp(t)
  <1>1. ResultOf' = [ResultOf EXCEPT ![t] = "failed"]
    BY WriteMaps DEF ResultFor
  <1>2. \A s \in Task : tasks'[s] = IF s = t THEN row ELSE tasks[s]
    BY WriteKeepsTypes
  <1>3. StartedOf' = StartedOf /\ OutputOf' = OutputOf
    BY <1>2 DEF StartedOf, OutputOf
  <1>4. ResultOf[t] = "open"
    BY DEF ResultOf
  <1> QED
    BY <1>1, <1>3, <1>4 DEF Durable!GiveUp

\* Handing out the next attempt of an open task starts it.
LEMMA WriteStarts ==
    ASSUME TypeInv, NEW t \in Task, NEW row, RowInv(row), Writes(t, row),
           row.status = "running", row.attempt = tasks[t].attempt + 1,
           row.output = tasks[t].output, ResultFor(tasks[t].status) = "open"
    PROVE  Durable!Start(t)
  <1>1. \A s \in Task : tasks'[s] = IF s = t THEN row ELSE tasks[s]
    BY WriteKeepsTypes
  <1>2. StartedOf' = [StartedOf EXCEPT ![t] = @ + 1]
    BY <1>1 DEF StartedOf
  <1>3. ResultFor("running") = "open"
    BY DEF ResultFor
  <1>4. ResultOf' = ResultOf /\ OutputOf' = OutputOf
    BY <1>1, <1>3 DEF ResultOf, OutputOf
  <1>5. ResultOf[t] = "open"
    BY DEF ResultOf
  <1> QED
    BY <1>2, <1>4, <1>5 DEF Durable!Start

\* A completion finishes the task with the output of its last attempt.
LEMMA CompleteFinishes ==
    ASSUME Fenced = Worker, TypeInv, NEW c \in claims, Complete(c)
    PROVE  Durable!Finish(c.task)
  <1>1. c.task \in Task /\ c.attempt = tasks[c.task].attempt
    BY FencedClaim DEF Complete
  <1>2. PICK row : /\ Writes(c.task, row) /\ RowInv(row) /\ row.status = "succeeded"
                   /\ row.attempt = tasks[c.task].attempt /\ row.output = c.attempt
    BY CompleteWrites
  <1>3. ResultFor(tasks[c.task].status) = "open" /\ tasks[c.task].attempt >= 1
    BY <1>1, CompleteWrites DEF ResultFor, TypeInv, RowInv, StartedWhenRunning
  <1>4. ResultFor("succeeded") = "done"
    BY DEF ResultFor
  <1>5. ResultOf' = [ResultOf EXCEPT ![c.task] = "done"]
    BY <1>1, <1>2, <1>4, WriteMaps
  <1>6. OutputOf' = [OutputOf EXCEPT ![c.task] = StartedOf[c.task]]
    <2>1. OutputOf' = [OutputOf EXCEPT ![c.task] = row.output]
      BY <1>1, <1>2, WriteMaps
    <2>2. StartedOf[c.task] = row.output
      BY <1>1, <1>2 DEF StartedOf
    <2> QED
      BY <2>1, <2>2
  <1>7. \A s \in Task : tasks'[s] = IF s = c.task THEN row ELSE tasks[s]
    BY <1>1, <1>2, WriteKeepsTypes
  <1>8. StartedOf' = StartedOf
    BY <1>2, <1>7 DEF StartedOf
  <1>9. tasks[c.task].attempt \in Nat
    BY <1>1 DEF TypeInv, TypeOK, TaskRow
  <1>10. ResultOf[c.task] = "open" /\ StartedOf[c.task] > 0
    BY <1>1, <1>3, <1>9 DEF ResultOf, StartedOf
  <1> QED
    BY <1>5, <1>6, <1>8, <1>10 DEF Durable!Finish

\* A registration changes nothing that DurableTask speaks of.
LEMMA RegisteringStutters ==
    ASSUME TypeInv, NEW digests \in SUBSET Task, RegisterDataset(digests)
    PROVE  StartedOf' = StartedOf /\ ResultOf' = ResultOf /\ OutputOf' = OutputOf
  <1>1. \A t \in Task :
          /\ tasks'[t].attempt = tasks[t].attempt /\ tasks'[t].output = tasks[t].output
          /\ \/ tasks'[t].status = tasks[t].status
             \/ tasks'[t].status = "pending" /\ tasks[t].status = "absent"
    BY RegisterWrites
  <1>2. ResultFor("pending") = ResultFor("absent")
    BY DEF ResultFor
  <1> QED
    BY <1>1, <1>2 DEF StartedOf, ResultOf, OutputOf

\* Whatever clients, crashes and the clock do, the store starts numbered attempts,
\* finishes a task with the output of the last one, or gives it up, and never
\* takes that back.
THEOREM StoreImplementsDurableTask ==
    ASSUME Fenced = Worker
    PROVE  Spec => ImplementsDurableTask
  <1> DEFINE Same == StartedOf' = StartedOf /\ ResultOf' = ResultOf /\ OutputOf' = OutputOf
  <1>1. Init => Durable!Init
    BY DEF Init, NoRow, NoOutput, StartedOf, ResultOf, ResultFor, OutputOf, Durable!Init
  <1>2. ASSUME TypeInv, [Next]_vars
        PROVE  Durable!Next \/ Same
    <2>1. ASSUME NEW t \in Task, NEW policy \in Policy, BeginExhausted(t, policy)
          PROVE  Durable!GiveUp(t)
      <3>1. PICK row : /\ Writes(t, row) /\ RowInv(row) /\ row.status = "terminal"
                       /\ row.attempt = tasks[t].attempt /\ row.output = tasks[t].output
        BY <1>2, <2>1, ExhaustedWrites
      <3>2. ResultFor(tasks[t].status) = "open"
        BY <1>2, <2>1, ExhaustedWrites DEF ResultFor
      <3> QED
        BY <1>2, <3>1, <3>2, WriteGivesUp
    <2>2. ASSUME NEW w \in Worker, NEW t \in Task, NEW policy \in Policy, NEW lease \in Lease,
                 BeginExecute(w, t, policy, lease) \/ BeginInsert(w, t, policy, lease)
          PROVE  Durable!Start(t)
      <3>1. PICK row : /\ Writes(t, row) /\ RowInv(row) /\ row.status = "running"
                       /\ row.attempt = tasks[t].attempt + 1 /\ row.output = tasks[t].output
        BY <1>2, <2>2, BeginWrites, GrantWrites
      <3>2. ResultFor(tasks[t].status) = "open"
        BY <1>2, <2>2, BeginWrites DEF ResultFor
      <3> QED
        BY <1>2, <3>1, <3>2, WriteStarts
    <2>3. ASSUME NEW c \in claims, Complete(c)
          PROVE  Durable!Finish(c.task)
      BY <1>2, <2>3, CompleteFinishes
    <2>4. ASSUME NEW c \in claims, NEW error \in Error, Fail(c, error) \/ FailAndCrash(c, error)
          PROVE  Durable!GiveUp(c.task) \/ Same
      <3>1. FailUpdate(c, error)
        BY <2>4 DEF Fail, FailAndCrash
      <3>2. c.task \in Task /\ tasks[c.task].status = "running"
        BY <1>2, <3>1, FailWrites
      <3>3. PICK row : /\ Writes(c.task, row) /\ RowInv(row)
                       /\ row.status \in {"failed", "terminal"}
                       /\ row.attempt = tasks[c.task].attempt
                       /\ row.output = tasks[c.task].output
        BY <1>2, <3>1, FailWrites
      <3>4. /\ ResultFor(tasks[c.task].status) = "open"
            /\ row.status = "failed" => ResultFor(row.status) = "open"
        BY <3>2 DEF ResultFor
      <3>5. CASE row.status = "failed"
        BY <1>2, <3>2, <3>3, <3>4, <3>5, WriteStutters
      <3>6. CASE row.status = "terminal"
        BY <1>2, <3>2, <3>3, <3>4, <3>6, WriteGivesUp
      <3> QED
        BY <3>3, <3>5, <3>6
    <2>5. ASSUME NEW w \in Worker, NEW t \in Task, NEW lease \in Lease, Heartbeat(w, t, lease)
          PROVE  Same
      <3>1. PICK row : /\ Writes(t, row) /\ RowInv(row) /\ row.status = tasks[t].status
                       /\ row.attempt = tasks[t].attempt /\ row.output = tasks[t].output
        BY <1>2, <2>5, HeartbeatWrites
      <3> QED
        BY <1>2, <3>1, WriteStutters
    <2>6. ASSUME NEW digests \in SUBSET Task, RegisterDataset(digests)
          PROVE  Same
      BY <1>2, <2>6, RegisteringStutters
    <2>7. CASE Tick
      BY <2>7 DEF Tick, StartedOf, ResultOf, OutputOf
    <2>8. CASE UNCHANGED vars
      BY <2>8 DEF vars, StartedOf, ResultOf, OutputOf
    <2>9. \A c \in claims : c.task \in Task
      BY <1>2 DEF TypeInv, TypeOK, Claim
    <2> QED
      BY <1>2, <2>1, <2>2, <2>3, <2>4, <2>5, <2>6, <2>7, <2>8, <2>9
      DEF Next, Begin, Resolve, Durable!Next
  <1>3. TypeInv /\ [Next]_vars => [Durable!Next]_(Durable!durableVars)
    BY <1>2 DEF Durable!durableVars
  <1> QED
    BY <1>1, <1>3, TypeInvariant, PTL DEF Spec, ImplementsDurableTask, Durable!Spec

-----------------------------------------------------------------------------
(* Fencing *)

\* Whatever implements DurableTask only keeps outputs of last attempts: a done task
\* is not started again.
LEMMA DurableOutputIsLast == ImplementsDurableTask => []OutputOfLastAttempt
  <1> DEFINE Last == \A t \in Task : ResultOf[t] = "done" => OutputOf[t] = StartedOf[t]
  <1>1. Durable!Init => Last
    BY DEF Durable!Init
  <1>2. ASSUME Last, [Durable!Next]_(Durable!durableVars)
        PROVE  Last'
    <2>1. /\ StartedOf = [t \in Task |-> StartedOf[t]]
          /\ ResultOf = [t \in Task |-> ResultOf[t]]
          /\ OutputOf = [t \in Task |-> OutputOf[t]]
      BY DEF StartedOf, ResultOf, OutputOf
    <2>2. ASSUME NEW t \in Task, Durable!Start(t)
          PROVE  Last'
      BY <1>2, <2>1, <2>2 DEF Durable!Start
    <2>3. ASSUME NEW t \in Task, Durable!Finish(t)
          PROVE  Last'
      BY <1>2, <2>1, <2>3 DEF Durable!Finish
    <2>4. ASSUME NEW t \in Task, Durable!GiveUp(t)
          PROVE  Last'
      BY <1>2, <2>1, <2>4 DEF Durable!GiveUp
    <2>5. CASE UNCHANGED Durable!durableVars
      BY <1>2, <2>5 DEF Durable!durableVars
    <2> QED
      BY <1>2, <2>2, <2>3, <2>4, <2>5 DEF Durable!Next
  <1>3. Last => OutputOfLastAttempt
    <2> SUFFICES ASSUME Last, NEW t \in Task, tasks[t].status = "succeeded"
                 PROVE  tasks[t].output = tasks[t].attempt
      BY DEF OutputOfLastAttempt
    <2>1. ResultFor("succeeded") = "done"
      BY DEF ResultFor
    <2> QED
      BY <2>1 DEF ResultOf, OutputOf, StartedOf
  <1> HIDE DEF Last
  <1> QED
    BY <1>1, <1>2, <1>3, PTL DEF ImplementsDurableTask, Durable!Spec

\* The stored output was computed by the last attempt handed out: a late
\* completion of an older attempt is never the one that is kept.
THEOREM OutputIsOfLastAttempt ==
    ASSUME Fenced = Worker
    PROVE  Spec => []OutputOfLastAttempt
  BY StoreImplementsDurableTask, DurableOutputIsLast, PTL

=============================================================================
