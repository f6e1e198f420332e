---------------------------- MODULE ReportsProofs ----------------------------
(***************************************************************************)
(* What is true of the answers of Reports for every instance of its        *)
(* constants: any clients, task lists and interleavings of requests.       *)
(***************************************************************************)
EXTENDS Reports, TaskStoreProofs, FiniteSetTheorems, WellFoundedInduction

-----------------------------------------------------------------------------
(* Every step is one of the store                                            *)

LEMMA DigestsAreTasks ==
    ASSUME NEW items \in Request
    PROVE  Digests(items) \in SUBSET Task
  <1>1. items \in Seq(Item)
    BY RequestAssumption
  <1>2. \A i \in DOMAIN items : items[i] \in Item
    BY <1>1
  <1> QED
    BY <1>2 DEF Digests, Item

LEMMA StoreSteps ==
    ASSUME [RNext]_allvars
    PROVE  [Next]_vars
  <1>1. ASSUME NEW items \in Request, RegisterItems(items)
        PROVE  Next
    BY <1>1, DigestsAreTasks DEF RegisterItems, Next
  <1>2. CASE Work
    BY <1>2 DEF Work, Next, Resolve
  <1>3. ASSUME NEW c \in claims, NEW error \in Error, CrashInFail(c, error)
        PROVE  Next
    BY <1>3 DEF CrashInFail, Next, Resolve
  <1>4. ASSUME NEW r \in Client, Read(r)
        PROVE  UNCHANGED vars
    BY <1>4 DEF Read, AnswerRegistration, List, SummaryRun, SummaryTasks, SummaryFailures,
                Abandon, ReadOnly
  <1>5. ASSUME NEW c \in Config, RegisterRun(c)
        PROVE  UNCHANGED vars
    BY <1>5 DEF RegisterRun
  <1>6. CASE UNCHANGED allvars
    BY <1>6 DEF allvars
  <1> QED
    BY <1>1, <1>2, <1>3, <1>4, <1>5, <1>6 DEF RNext, Register, RegisterElsewhere

\* The requests that are added here leave the store what it is, so every theorem
\* about Spec holds of them.
THEOREM ReportsImplementStore == RSpec => Spec
  <1>1. RInit => Init
    BY DEF RInit
  <1>2. [RNext]_allvars => [Next]_vars
    BY StoreSteps
  <1> QED
    BY <1>1, <1>2, PTL DEF RSpec, Spec

\* A step other than a registration keeps the dataset: no row leaves it, and
\* resolved rows stay what they are.
Kept(t) ==
    /\ tasks'[t].generation = tasks[t].generation
    /\ tasks[t].status # "absent" => tasks'[t].status # "absent"
    /\ tasks[t].status \in Resolved => tasks'[t].status = tasks[t].status

LEMMA DatasetSteps ==
    ASSUME TypeInv, [Next]_vars
    PROVE  \/ generation' = generation + 1
           \/ /\ generation' = generation /\ registered' = registered
              /\ \A t \in Task : Kept(t)
  <1>1. ASSUME NEW t \in Task, NEW row, Writes(t, row), RowInv(row), row.status # "absent",
               row.generation = tasks[t].generation, tasks[t].status \notin Resolved
        PROVE  \A s \in Task : Kept(s)
    BY <1>1, WriteKeepsTypes DEF Kept
  <1>2. ASSUME NEW t \in Task, NEW policy \in Policy, BeginExhausted(t, policy)
        PROVE  UNCHANGED <<generation, registered>> /\ \A s \in Task : Kept(s)
    <2>1. PICK row : /\ Writes(t, row) /\ RowInv(row)
                     /\ row.status = "terminal" /\ row.generation = tasks[t].generation
      BY <1>2, ExhaustedWrites
    <2>2. tasks[t].status \in {"pending", "running", "failed"}
      BY <1>2, ExhaustedWrites
    <2> QED
      BY <1>1, <1>2, <2>1, <2>2 DEF BeginExhausted, Resolved
  <1>3. ASSUME NEW w \in Worker, NEW t \in Task, NEW policy \in Policy, NEW lease \in Lease,
               BeginExecute(w, t, policy, lease) \/ BeginInsert(w, t, policy, lease)
        PROVE  UNCHANGED <<generation, registered>> /\ \A s \in Task : Kept(s)
    <2>1. /\ Grant(w, t, policy, lease)
          /\ tasks[t].status \in {"absent", "pending", "running", "failed"}
          /\ tasks[t].attempt = 0 \/ tasks[t].attempt < policy.max_attempts
      BY <1>3, BeginWrites
    <2>2. PICK row : /\ Writes(t, row) /\ RowInv(row)
                     /\ row.status = "running" /\ row.generation = tasks[t].generation
      BY <2>1, GrantWrites
    <2> QED
      BY <1>1, <2>1, <2>2 DEF Grant, GrantAs, Resolved
  <1>4. ASSUME NEW c \in claims, Complete(c)
        PROVE  UNCHANGED <<generation, registered>> /\ \A s \in Task : Kept(s)
    <2>1. c.task \in Task /\ tasks[c.task].status = "running"
      BY <1>4, CompleteWrites
    <2>2. PICK row : /\ Writes(c.task, row) /\ RowInv(row)
                     /\ row.status = "succeeded" /\ row.generation = tasks[c.task].generation
      BY <1>4, CompleteWrites
    <2> QED
      BY <1>1, <1>4, <2>1, <2>2 DEF Complete, Resolved
  <1>5. ASSUME NEW c \in claims, NEW error \in Error, FailUpdate(c, error)
        PROVE  UNCHANGED <<generation, registered>> /\ \A s \in Task : Kept(s)
    <2>1. c.task \in Task /\ tasks[c.task].status = "running"
      BY <1>5, FailWrites
    <2>2. PICK row : /\ Writes(c.task, row) /\ RowInv(row)
                     /\ row.status \in {"failed", "terminal"}
                     /\ row.generation = tasks[c.task].generation
      BY <1>5, FailWrites
    <2> QED
      BY <1>1, <1>5, <2>1, <2>2 DEF FailUpdate, FailUpdateAt, Resolved
  <1>6. ASSUME NEW w \in Worker, NEW t \in Task, NEW lease \in Lease, Heartbeat(w, t, lease)
        PROVE  UNCHANGED <<generation, registered>> /\ \A s \in Task : Kept(s)
    <2>1. tasks[t].status = "running"
      BY <1>6, HeartbeatWrites
    <2>2. PICK row : /\ Writes(t, row) /\ RowInv(row)
                     /\ row.status = "running" /\ row.generation = tasks[t].generation
      BY <1>6, HeartbeatWrites
    <2> QED
      BY <1>1, <1>6, <2>1, <2>2 DEF Heartbeat, Resolved
  <1>7. ASSUME NEW digests \in SUBSET Task, RegisterDataset(digests)
        PROVE  generation' = generation + 1
    BY <1>7 DEF RegisterDataset
  <1>8. CASE Tick \/ UNCHANGED vars
    BY <1>8 DEF Tick, vars, Kept
  <1> QED
    BY <1>2, <1>3, <1>4, <1>5, <1>6, <1>7, <1>8
    DEF Next, Begin, Resolve, Fail, FailAndCrash

-----------------------------------------------------------------------------
(* Rows of failures                                                          *)

\* A record is added, or none.
LEMMA FailureRowsGrow ==
    ASSUME TypeInv, [Next]_vars, IsFiniteSet(FailureRows)
    PROVE  /\ FailureRows \subseteq FailureRows'
           /\ IsFiniteSet(FailureRows') /\ CountedFailures <= CountedFailures'
           /\ CountedFailures \in Nat /\ CountedFailures' \in Nat
  <1>1. \/ failure_records' = failure_records
        \/ \E c \in claims : c.task \in Task /\ failure_records' =
              [failure_records EXCEPT ![c.task] = Append(@, tasks[c.task].attempt)]
    <2>1. ASSUME NEW c \in claims, NEW error \in Error, Fail(c, error)
          PROVE  \E d \in claims : d.task \in Task /\ failure_records' =
                    [failure_records EXCEPT ![d.task] = Append(@, tasks[d.task].attempt)]
      BY <2>1 DEF Fail, TypeInv, TypeOK, Claim
    <2>2. ASSUME NEW w \in Worker, NEW t \in Task, Begin(w, t)
          PROVE  failure_records' = failure_records
      BY <2>2 DEF Begin, BeginExhausted, BeginExecute, BeginInsert, Grant, GrantAs
    <2>3. ASSUME NEW c \in claims, NEW error \in Error, Complete(c) \/ FailAndCrash(c, error)
          PROVE  failure_records' = failure_records
      BY <2>3 DEF Complete, FailAndCrash
    <2>4. ASSUME NEW w \in Worker, NEW t \in Task, NEW lease \in Lease, Heartbeat(w, t, lease)
          PROVE  failure_records' = failure_records
      BY <2>4 DEF Heartbeat
    <2>5. ASSUME NEW digests \in SUBSET Task, RegisterDataset(digests)
          PROVE  failure_records' = failure_records
      BY <2>5 DEF RegisterDataset
    <2>6. CASE Tick \/ UNCHANGED vars
      BY <2>6 DEF Tick, vars
    <2>7. ASSUME NEW c \in claims, Complete(c)
          PROVE  failure_records' = failure_records
      BY <2>7 DEF Complete
    <2> QED
      BY <2>1, <2>2, <2>3, <2>4, <2>5, <2>6, <2>7 DEF Next, Resolve
  <1>2. FailureRows \subseteq FailureRows' /\ IsFiniteSet(FailureRows')
    <2>1. CASE failure_records' = failure_records
      BY <2>1 DEF FailureRows
    <2>2. ASSUME NEW u \in Task, NEW n \in Nat,
                 failure_records' = [failure_records EXCEPT ![u] = Append(@, n)]
          PROVE  FailureRows \subseteq FailureRows' /\ IsFiniteSet(FailureRows')
      <3> DEFINE records == failure_records[u]
      <3>1. /\ failure_records \in [Task -> Seq(Nat)]
            /\ records \in Seq(Nat) /\ Len(records) \in Nat
            /\ DOMAIN records = 1..Len(records)
            /\ DOMAIN Append(records, n) = 1..(Len(records) + 1)
        BY DEF TypeInv, TypeOK
      <3>2. \A t \in Task : failure_records'[t] =
               IF t = u THEN Append(records, n) ELSE failure_records[t]
        BY <2>2, <3>1
      <3> DEFINE Rows(t) == {t} \X DOMAIN failure_records[t]
                 new == <<u, Len(records) + 1>>
      <3>3. \A t \in Task : Rows(t)' = IF t = u THEN Rows(t) \cup {new} ELSE Rows(t)
        <4>1. Rows(u)' = Rows(u) \cup {new}
          <5>1. DOMAIN failure_records'[u] = (1..Len(records)) \cup {Len(records) + 1}
            <6>1. failure_records'[u] = Append(records, n)
              BY <3>2
            <6>2. \A k \in Nat : 1..(k + 1) = (1..k) \cup {k + 1}
              OBVIOUS
            <6>3. DOMAIN failure_records'[u] = 1..(Len(records) + 1)
              BY <3>1, <6>1
            <6> HIDE DEF records
            <6> QED
              BY <3>1, <6>2, <6>3
          <5> QED
            BY <3>1, <5>1
        <4>2. ASSUME NEW t \in Task, t # u
              PROVE  Rows(t)' = Rows(t)
          BY <3>2, <4>2
        <4> QED
          BY <4>1, <4>2
      <3>4. FailureRows = UNION {Rows(t) : t \in Task} /\ FailureRows' = UNION {Rows(t)' : t \in Task}
        BY DEF FailureRows
      <3>5. FailureRows' = FailureRows \cup {new}
        <4> HIDE DEF Rows, new
        <4> QED
          BY <3>3, <3>4
      <3> QED
        BY <3>5, FS_AddElement
    <2>3. \A t \in Task : tasks[t].attempt \in Nat
      BY DEF TypeInv, TypeOK, TaskRow
    <2> QED
      BY <1>1, <2>1, <2>2, <2>3
  <1>3. CountedFailures \in Nat /\ CountedFailures' \in Nat /\ CountedFailures <= CountedFailures'
    BY <1>2, FS_Subset, FS_CardinalityType DEF CountedFailures
  <1> QED
    BY <1>2, <1>3

\* Unless a crash has lost one, every failed task has a record.
RecordInv ==
    /\ IsFiniteSet(FailureRows)
    /\ ~unrecorded =>
          \A t \in Task : tasks[t].status = "failed" => 1 \in DOMAIN failure_records[t]

LEMMA NextRecordInv ==
    ASSUME TypeInv, RecordInv, [RNext]_allvars
    PROVE  RecordInv'
  <1>0. [Next]_vars /\ IsFiniteSet(FailureRows')
    BY StoreSteps, FailureRowsGrow DEF RecordInv
  <1> SUFFICES ASSUME ~unrecorded', NEW t \in Task, tasks'[t].status = "failed"
               PROVE  1 \in DOMAIN failure_records'[t]
    BY <1>0 DEF RecordInv
  <1>1. ASSUME ~unrecorded, tasks[t].status = "failed"
        PROVE  1 \in DOMAIN failure_records'[t]
    <2>1. <<t, 1>> \in FailureRows
      BY <1>1 DEF RecordInv, FailureRows
    <2>2. <<t, 1>> \in FailureRows'
      BY <1>0, <2>1, FailureRowsGrow DEF RecordInv
    <2> QED
      BY <2>2 DEF FailureRows
  <1>2. ASSUME NEW c \in claims, NEW error \in Error, Fail(c, error), c.task = t
        PROVE  1 \in DOMAIN failure_records'[t]
    <2>1. failure_records[t] \in Seq(Nat) /\ tasks[t].attempt \in Nat
      BY DEF TypeInv, TypeOK, TaskRow
    <2>2. failure_records'[t] = Append(failure_records[t], tasks[t].attempt)
      BY <1>2 DEF Fail, TypeInv, TypeOK
    <2>3. Len(failure_records[t]) \in Nat
          /\ DOMAIN failure_records'[t] = 1..(Len(failure_records[t]) + 1)
      BY <2>1, <2>2
    <2> QED
      BY <2>3
  <1>3. ASSUME NEW s \in Task, NEW row, Writes(s, row), RowInv(row), row.status # "failed"
        PROVE  tasks[t].status = "failed"
    BY <1>3, WriteKeepsTypes
  <1>4. ASSUME NEW w \in Worker, NEW s \in Task, Begin(w, s)
        PROVE  tasks[t].status = "failed"
    <2>1. ASSUME NEW policy \in Policy, BeginExhausted(s, policy)
          PROVE  tasks[t].status = "failed"
      <3>1. PICK row : Writes(s, row) /\ RowInv(row) /\ row.status = "terminal"
        BY <2>1, ExhaustedWrites
      <3> QED
        BY <1>3, <3>1
    <2>2. ASSUME NEW policy \in Policy, NEW lease \in Lease,
                 BeginExecute(w, s, policy, lease) \/ BeginInsert(w, s, policy, lease)
          PROVE  tasks[t].status = "failed"
      <3>1. PICK row : Writes(s, row) /\ RowInv(row) /\ row.status = "running"
        BY <2>2, BeginWrites, GrantWrites
      <3> QED
        BY <1>3, <3>1
    <2> QED
      BY <1>4, <2>1, <2>2 DEF Begin
  <1>5. ASSUME NEW c \in claims, Complete(c)
        PROVE  tasks[t].status = "failed"
    <2>1. c.task \in Task /\ \E row : Writes(c.task, row) /\ RowInv(row) /\ row.status = "succeeded"
      BY <1>5, CompleteWrites
    <2> QED
      BY <1>3, <2>1
  <1>6. ASSUME NEW c \in claims, NEW error \in Error, Fail(c, error)
        PROVE  tasks[t].status = "failed" \/ c.task = t
    <2>1. FailUpdate(c, error)
      BY <1>6 DEF Fail
    <2>2. c.task \in Task /\ \E row : Writes(c.task, row) /\ RowInv(row)
      BY <2>1, FailWrites
    <2> QED
      BY <2>2, WriteKeepsTypes
  <1>7. CASE Work /\ UNCHANGED rvars
    BY <1>1, <1>2, <1>4, <1>5, <1>6, <1>7 DEF Work, rvars
  <1>8. ASSUME NEW items \in Request, RegisterItems(items)
        PROVE  ~unrecorded /\ tasks[t].status = "failed"
    <2>1. \A s \in Task : tasks'[s].status \in {tasks[s].status, "pending"}
      BY <1>8, DigestsAreTasks, RegisterWrites DEF RegisterItems
    <2> QED
      BY <1>8, <2>1 DEF RegisterItems
  <1>9. ASSUME \/ \E r \in Client : Read(r)
               \/ \E c \in Config : RegisterRun(c)
               \/ UNCHANGED allvars
        PROVE  ~unrecorded /\ tasks[t].status = "failed"
    <2>1. tasks' = tasks /\ unrecorded' = unrecorded
      <3>1. ASSUME NEW r \in Client, Read(r)
            PROVE  UNCHANGED <<vars, unrecorded>>
        BY <3>1 DEF Read, AnswerRegistration, List, SummaryRun, SummaryTasks, SummaryFailures,
                    Abandon, ReadOnly
      <3>2. ASSUME NEW c \in Config, RegisterRun(c)
            PROVE  UNCHANGED <<vars, unrecorded>>
        BY <3>2 DEF RegisterRun
      <3>3. CASE UNCHANGED allvars
        BY <3>3 DEF allvars, rvars, vars
      <3> QED
        BY <1>9, <3>1, <3>2, <3>3 DEF vars
    <2> QED
      BY <2>1
  <1>10. ~\E c \in claims, error \in Error : CrashInFail(c, error)
    BY DEF CrashInFail
  <1> QED
    BY <1>1, <1>7, <1>8, <1>9, <1>10 DEF RNext, Register, RegisterElsewhere

-----------------------------------------------------------------------------
(* Counts                                                                    *)

Members == {t \in Task : Current(t)}
Having(s) == {t \in Members : tasks[t].status = s}

LEMMA DisjointUnion ==
    ASSUME NEW S, NEW T, IsFiniteSet(S), IsFiniteSet(T), S \cap T = {}
    PROVE  /\ IsFiniteSet(S \cup T)
           /\ Cardinality(S \cup T) = Cardinality(S) + Cardinality(T)
  <1>1. /\ IsFiniteSet(S \cup T)
        /\ Cardinality(S \cup T) = Cardinality(S) + Cardinality(T) - Cardinality({})
    BY FS_Union
  <1>2. Cardinality({}) = 0 /\ Cardinality(S) \in Nat /\ Cardinality(T) \in Nat
    BY FS_EmptySet, FS_CardinalityType
  <1> QED
    BY <1>1, <1>2

\* The counts of the five statuses add up to the tasks of the dataset.
CountsFine ==
    /\ CountedTasks \in [RowStatus -> Nat]
    /\ \A s \in RowStatus : CountedTasks[s] = Cardinality(Having(s))
    /\ \A s \in RowStatus : IsFiniteSet(Having(s))
    /\ IsFiniteSet(Members)
    /\ Total(CountedTasks) = Cardinality(Members)
    /\ Total(CountedTasks) \in Nat

LEMMA CountsAddUp == TypeInv => CountsFine
  <1> SUFFICES ASSUME TypeInv PROVE CountsFine
    OBVIOUS
  <1>0. IsFiniteSet(Task) /\ Members \subseteq Task
    BY RequestAssumption DEF Members
  <1>1. \A s \in RowStatus : Listed({s}, {}) = Having(s)
    BY DEF Listed, Having, Members
  <1>2. IsFiniteSet(Members)
    BY <1>0, FS_Subset
  <1>3. ASSUME NEW s \in RowStatus
        PROVE  IsFiniteSet(Having(s)) /\ Cardinality(Having(s)) \in Nat
    <2>1. Having(s) \in SUBSET Members
      BY DEF Having
    <2> QED
      BY <1>2, <2>1, FS_Subset, FS_CardinalityType
  <1>4. CountedTasks = [s \in RowStatus |-> Cardinality(Having(s))]
    BY <1>1 DEF CountedTasks
  <1>5. CountedTasks \in [RowStatus -> Nat]
    BY <1>3, <1>4
  <1>6. \A s \in RowStatus : CountedTasks[s] = Cardinality(Having(s))
    BY <1>4
  <1>7. Total(CountedTasks) = Cardinality(Members)
    <2> DEFINE p == Having("pending")
               r == Having("running")
               f == Having("failed")
               d == Having("succeeded")
               x == Having("terminal")
    <2>1. RowStatus = {"pending", "running", "failed", "succeeded", "terminal"}
      BY DEF RowStatus, Status
    <2>2. Members = (((p \cup r) \cup f) \cup d) \cup x
      <3>1. \A t \in Members : tasks[t].status \in RowStatus
        BY DEF Members, Current, TypeInv, TypeOK, TaskRow, RowStatus
      <3> QED
        BY <2>1, <3>1 DEF Having
    <2>3. /\ p \cap r = {} /\ (p \cup r) \cap f = {} /\ ((p \cup r) \cup f) \cap d = {}
          /\ (((p \cup r) \cup f) \cup d) \cap x = {}
      BY DEF Having
    <2>4. /\ IsFiniteSet(p) /\ IsFiniteSet(r) /\ IsFiniteSet(f) /\ IsFiniteSet(d) /\ IsFiniteSet(x)
          /\ Cardinality(p) \in Nat /\ Cardinality(r) \in Nat /\ Cardinality(f) \in Nat
          /\ Cardinality(d) \in Nat /\ Cardinality(x) \in Nat
      BY <1>3, <2>1
    <2>5. Total(CountedTasks) =
             Cardinality(p) + Cardinality(r) + Cardinality(f) + Cardinality(d) + Cardinality(x)
      BY <1>6, <2>1 DEF Total
    <2> HIDE DEF p, r, f, d, x
    <2>6. /\ IsFiniteSet(p \cup r)
          /\ Cardinality(p \cup r) = Cardinality(p) + Cardinality(r)
      BY <2>3, <2>4, DisjointUnion
    <2>7. /\ IsFiniteSet((p \cup r) \cup f)
          /\ Cardinality((p \cup r) \cup f) = Cardinality(p \cup r) + Cardinality(f)
      BY <2>3, <2>4, <2>6, DisjointUnion
    <2>8. /\ IsFiniteSet(((p \cup r) \cup f) \cup d)
          /\ Cardinality(((p \cup r) \cup f) \cup d) =
                Cardinality((p \cup r) \cup f) + Cardinality(d)
      BY <2>3, <2>4, <2>7, DisjointUnion
    <2>9. Cardinality((((p \cup r) \cup f) \cup d) \cup x) =
              Cardinality(((p \cup r) \cup f) \cup d) + Cardinality(x)
      BY <2>3, <2>4, <2>8, DisjointUnion
    <2> QED
      BY <2>2, <2>4, <2>5, <2>6, <2>7, <2>8, <2>9
  <1> QED
    BY <1>2, <1>3, <1>5, <1>6, <1>7, FS_CardinalityType DEF CountsFine

\* Within a generation the dataset only grows, and so do its resolved tasks.
LEMMA CountsGrow ==
    ASSUME TypeInv, TypeInv', [Next]_vars, generation' = generation
    PROVE  /\ Total(CountedTasks) <= Total(CountedTasks')
           /\ \A s \in Resolved : CountedTasks[s] <= CountedTasks'[s]
           /\ registered' = registered
  <1>0. generation \in Nat
    BY DEF TypeInv, TypeOK
  <1>1. registered' = registered /\ \A t \in Task : Kept(t)
    BY <1>0, DatasetSteps
  <1>2. Members \subseteq Members'
    BY <1>1 DEF Members, Current, Kept
  <1>3. \A s \in Resolved : Having(s) \subseteq Having(s)'
    BY <1>1, <1>2 DEF Having, Members, Kept
  <1>4. /\ \A s \in RowStatus : /\ CountedTasks[s] = Cardinality(Having(s))
                                /\ CountedTasks'[s] = Cardinality(Having(s)')
                                /\ IsFiniteSet(Having(s)')
        /\ Total(CountedTasks) = Cardinality(Members)
        /\ Total(CountedTasks') = Cardinality(Members')
        /\ IsFiniteSet(Members')
    <2>1. CountsFine
      BY CountsAddUp
    <2>2. CountsFine'
      BY CountsAddUp, PTL
    <2> QED
      BY <2>1, <2>2 DEF CountsFine
  <1>5. Resolved \subseteq RowStatus
    BY DEF Resolved, RowStatus, Status
  <1> QED
    BY <1>1, <1>2, <1>3, <1>4, <1>5, FS_Subset

-----------------------------------------------------------------------------
(* First occurrences                                                         *)

\* The places of an input in a task list, and whether one of them is the first.
Places(items, t) == {i \in DOMAIN items : items[i].digest = t}
IsFirst(items, t, i) ==
    /\ i \in DOMAIN items /\ items[i].digest = t
    /\ \A j \in 1..(i - 1) : items[j].digest # t

\* Every input of a task list has a first occurrence: the order of the numbers is
\* well-founded.
LEMMA FirstExists ==
    ASSUME NEW items \in Seq(Item), NEW t \in Digests(items)
    PROVE  \E i \in Places(items, t) : \A j \in Places(items, t) : i <= j
  <1>1. Places(items, t) \subseteq Nat /\ Places(items, t) # {}
    <2>1. DOMAIN items = 1..Len(items) /\ Len(items) \in Nat
      OBVIOUS
    <2> QED
      BY <2>1 DEF Places, Digests
  <1> DEFINE Less == {p \in Nat \X Nat : p[1] < p[2]}
  <1>2. IsWellFoundedOn(Less, Nat)
    <2>1. Less = OpToRel(<, Nat)
      BY DEF OpToRel
    <2> QED
      BY <2>1, NatLessThanWellFounded
  <1>3. PICK i \in Places(items, t) : \A j \in Places(items, t) : <<j, i>> \notin Less
    <2> HIDE DEF Less
    <2> QED
      BY <1>1, <1>2, WFMin
  <1>4. ASSUME NEW j \in Places(items, t) PROVE i <= j
    <2>1. <<j, i>> \notin Less
      BY <1>3
    <2>2. i \in Nat /\ j \in Nat
      BY <1>1
    <2>3. <<j, i>> \in Less <=> j < i
      BY <2>2
    <2> QED
      BY <2>1, <2>2, <2>3
  <1> QED
    BY <1>3, <1>4

\* What register_dataset picks is the first occurrence, and there is only one.
LEMMA FirstOccurrenceIsFirst ==
    ASSUME NEW items \in Seq(Item), NEW t \in Digests(items)
    PROVE  /\ IsFirst(items, t, FirstOccurrence(items, t))
           /\ \A i : IsFirst(items, t, i) => i = FirstOccurrence(items, t)
  <1> DEFINE first == FirstOccurrence(items, t)
  <1>0. DOMAIN items = 1..Len(items) /\ Len(items) \in Nat
    OBVIOUS
  <1>1. first \in Places(items, t) /\ \A j \in Places(items, t) : first <= j
    <2>1. first = CHOOSE x \in Places(items, t) : \A y \in Places(items, t) : x <= y
      BY DEF FirstOccurrence, Min, Places
    <2> HIDE DEF first
    <2> QED
      BY <2>1, FirstExists
  <1> HIDE DEF first
  <1>2. first \in 1..Len(items) /\ items[first].digest = t
    BY <1>0, <1>1 DEF Places
  <1>3. ASSUME NEW j \in 1..(first - 1)
        PROVE  items[j].digest # t
    <2>1. j \in 1..Len(items) /\ j < first
      BY <1>0, <1>2
    <2>2. j \notin Places(items, t)
      BY <1>1, <1>2, <2>1
    <2> QED
      BY <1>0, <2>1, <2>2 DEF Places
  <1>4. ASSUME NEW i, IsFirst(items, t, i)
        PROVE  i = first
    <2>1. i \in 1..Len(items) /\ items[i].digest = t /\ \A j \in 1..(i - 1) : items[j].digest # t
      BY <1>0, <1>4 DEF IsFirst
    <2>2. ~(i < first)
      <3>1. i < first => i \in 1..(first - 1)
        BY <1>0, <1>2, <2>1
      <3> QED
        BY <1>3, <2>1, <3>1
    <2>3. ~(first < i)
      <3>1. first < i => first \in 1..(i - 1)
        BY <1>0, <1>2, <2>1
      <3> QED
        BY <1>2, <2>1, <3>1
    <2> QED
      BY <1>0, <1>2, <2>1, <2>2, <2>3
  <1> QED
    BY <1>0, <1>2, <1>3, <1>4 DEF IsFirst, first

\* So it is the item that FirstOf means.
LEMMA FirstOfRequest ==
    ASSUME request \in Seq(Item), NEW t \in Digests(request)
    PROVE  LET i == FirstOccurrence(request, t) IN
           /\ FirstOf(t) = [at |-> i, category |-> request[i].category]
           /\ i \in Nat \ {0} /\ i \in DOMAIN request /\ request[i].digest = t
  <1> DEFINE i == FirstOccurrence(request, t)
             at == CHOOSE k \in DOMAIN request :
                      /\ request[k].digest = t
                      /\ \A j \in 1..(k - 1) : request[j].digest # t
  <1>1. IsFirst(request, t, i) /\ \A k : IsFirst(request, t, k) => k = i
    BY FirstOccurrenceIsFirst
  <1>2. at = i
    <2> HIDE DEF i
    <2>1. IsFirst(request, t, at)
      BY <1>1 DEF IsFirst
    <2> HIDE DEF at
    <2> QED
      BY <1>1, <2>1
  <1>3. FirstOf(t) = [at |-> at, category |-> request[at].category]
    BY DEF FirstOf
  <1>4. i \in Nat \ {0}
    BY <1>1 DEF IsFirst
  <1> QED
    BY <1>1, <1>2, <1>3, <1>4 DEF IsFirst

-----------------------------------------------------------------------------
(* Positions and categories                                                  *)

Blank == [position |-> NoPosition, category |-> NoCategory]

\* The columns that register_dataset writes for an input of a task list.
Columns(items, t) ==
    LET i == FirstOccurrence(items, t) IN [position |-> i, category |-> items[i].category]

\* The registered inputs are those of the latest task list, with the columns of
\* their first occurrence; until the second registration all others have none.
ColumnsInv ==
    /\ request \in Seq(Item)
    /\ registered = Digests(request)
    /\ columns \in [Task -> [position : Nat, category : Category \cup {NoCategory}]]
    /\ \A t \in registered : columns[t] = Columns(request, t)
    /\ generation <= 1 => \A t \in Task : t \notin registered => columns[t] = Blank
    /\ generation = 0 => registered = {}

LEMMA NextColumnsInv ==
    ASSUME TypeInv, ColumnsInv, [RNext]_allvars
    PROVE  ColumnsInv'
  <1>0. generation \in Nat
    BY DEF TypeInv, TypeOK
  <1>1. ASSUME NEW items \in Request, RegisterItems(items)
        PROVE  ColumnsInv'
    <2>1. /\ request' = items /\ registered' = Digests(items) /\ generation' = generation + 1
          /\ items \in Seq(Item) /\ Digests(items) \subseteq Task
      BY <1>1, RequestAssumption, DigestsAreTasks DEF RegisterItems, RegisterDataset
    <2>2. \A t \in Task :
             columns'[t] = IF t \in Digests(items) THEN Columns(items, t) ELSE columns[t]
      BY <1>1 DEF RegisterItems, Columns
    <2>3. ASSUME NEW t \in Digests(items)
          PROVE  Columns(items, t) \in [position : Nat, category : Category \cup {NoCategory}]
      <3> DEFINE i == FirstOccurrence(items, t)
      <3>1. i \in DOMAIN items
        BY <2>1, FirstOccurrenceIsFirst DEF IsFirst
      <3> HIDE DEF i
      <3>2. i \in Nat /\ items[i] \in Item
        BY <2>1, <3>1
      <3>3. Columns(items, t) = [position |-> i, category |-> items[i].category]
        BY DEF Columns, i
      <3> QED
        BY <3>2, <3>3 DEF Item
    <2>4. columns' \in [Task -> [position : Nat, category : Category \cup {NoCategory}]]
      <3>1. columns' = [t \in Task |-> columns'[t]]
        BY <1>1 DEF RegisterItems
      <3>2. \A t \in Task : columns'[t] \in [position : Nat, category : Category \cup {NoCategory}]
        BY <2>2, <2>3 DEF ColumnsInv
      <3> QED
        BY <3>1, <3>2
    <2>5. generation' <= 1 => \A t \in Task : t \notin registered' => columns'[t] = Blank
      <3>1. generation' <= 1 => generation = 0
        BY <1>0, <2>1
      <3>2. generation = 0 => \A t \in Task : columns[t] = Blank
        BY DEF ColumnsInv
      <3> QED
        BY <2>1, <2>2, <3>1, <3>2
    <2> QED
      BY <1>0, <2>1, <2>2, <2>4, <2>5 DEF ColumnsInv, Blank
  <1>2. ASSUME UNCHANGED <<request, columns>>, UNCHANGED <<generation, registered>>
        PROVE  ColumnsInv'
    BY <1>2 DEF ColumnsInv, Blank
  <1>3. CASE Work /\ UNCHANGED rvars
    <2>1. UNCHANGED <<generation, registered>>
      BY <1>3 DEF Work, Begin, BeginExhausted, BeginExecute, BeginInsert, Grant, GrantAs, Complete,
                  Fail, FailUpdate, FailUpdateAt
    <2> QED
      BY <1>2, <1>3, <2>1 DEF rvars
  <1>4. ASSUME NEW c \in claims, NEW error \in Error, CrashInFail(c, error)
        PROVE  ColumnsInv'
    BY <1>2, <1>4 DEF CrashInFail, FailAndCrash, FailUpdate, FailUpdateAt
  <1>5. ASSUME NEW r \in Client, Read(r)
        PROVE  ColumnsInv'
    <2>1. ReadOnly
      BY <1>5 DEF Read, AnswerRegistration, List, SummaryRun, SummaryTasks, SummaryFailures, Abandon
    <2> QED
      BY <1>2, <2>1 DEF ReadOnly, vars
  <1>6. ASSUME NEW c \in Config, RegisterRun(c)
        PROVE  ColumnsInv'
    BY <1>2, <1>6 DEF RegisterRun, vars
  <1>7. CASE UNCHANGED allvars
    BY <1>2, <1>7 DEF allvars, rvars, vars
  <1> QED
    BY <1>1, <1>3, <1>4, <1>5, <1>6, <1>7 DEF RNext, Register, RegisterElsewhere

\* list follows the latest registration.
LEMMA ColumnsGiveOrder ==
    ASSUME TypeInv, CurrentDataset, ColumnsInv
    PROVE  ListFollowsRegistration
  <1>0. /\ generation \in Nat /\ registered \subseteq Task
        /\ NoCategory \notin Category /\ registered = Digests(request)
    BY RequestAssumption DEF TypeInv, TypeOK, ColumnsInv
  <1>1. ASSUME NEW t \in registered
        PROVE  /\ columns[t].position = FirstOf(t).at
               /\ columns[t].category = FirstOf(t).category
               /\ FirstOf(t).at \in Nat \ {0}
    <2> DEFINE i == FirstOccurrence(request, t)
    <2>1. FirstOf(t) = [at |-> i, category |-> request[i].category] /\ i \in Nat \ {0}
      BY <1>0, FirstOfRequest DEF ColumnsInv
    <2>2. columns[t] = [position |-> i, category |-> request[i].category]
      BY DEF ColumnsInv, Columns
    <2> HIDE DEF i
    <2> QED
      BY <2>1, <2>2
  <1>2. \A t \in registered : Current(t)
    BY <1>0 DEF CurrentDataset, ColumnsInv
  <1>3. ASSUME NEW t \in Task, Current(t), t \notin registered
        PROVE  columns[t] = Blank
    BY <1>0, <1>3 DEF CurrentDataset, ColumnsInv
  <1>4. ASSUME NEW category \in Category
        PROVE  Listed({}, {category}) = {t \in registered : FirstOf(t).category = category}
    <2>1. \A t \in Task : t \in Listed({}, {category}) <=>
                             Current(t) /\ columns[t].category = category
      BY DEF Listed
    <2>2. Listed({}, {category}) \subseteq Task
      BY DEF Listed
    <2>3. ASSUME NEW t \in Task, t \notin registered
          PROVE  ~(Current(t) /\ columns[t].category = category)
      BY <1>0, <1>3, <2>3 DEF Blank
    <2> QED
      BY <1>0, <1>1, <1>2, <2>1, <2>2, <2>3
  <1>5. \A t, u \in registered : ListedBefore(t, u) <=> FirstOf(t).at < FirstOf(u).at
    BY <1>1 DEF ListedBefore
  <1>6. \A t \in Listed({}, {}) \ registered, u \in registered : ListedBefore(t, u)
    <2>1. \A t \in Listed({}, {}) \ registered : columns[t].position = 0
      BY <1>3 DEF Listed, Blank, NoPosition
    <2> QED
      BY <1>1, <2>1 DEF ListedBefore
  <1> QED
    BY <1>4, <1>5, <1>6 DEF ListFollowsRegistration

-----------------------------------------------------------------------------
(* Reports                                                                   *)

\* A report, against the generation of the table, its counts, the number of its
\* registered tasks and of its failures, and whether a failure has gone
\* unrecorded.  What was counted in this generation is still there; a registration
\* is answered after it; failures are counted after the failed tasks.
Sound(rep, gen, counts, members, failures, lost) ==
    /\ rep \in Report
    /\ rep.generation <= gen /\ rep.seen <= gen
    /\ rep.stage = "registered" => rep.generation >= 1
    /\ rep.stage \in Answered \cup {"counted"} /\ rep.seen = gen =>
          /\ Total(rep.counts) <= Total(counts)
          /\ \A s \in Resolved : rep.counts[s] <= counts[s]
    /\ rep.stage = "registration" /\ rep.seen = gen => Total(rep.counts) >= members
    /\ rep.stage = "counted" /\ ~lost => rep.counts["failed"] <= failures
    /\ rep.stage = "manifest" /\ ~lost => rep.counts["failed"] <= rep.failures

ReportInv ==
    /\ report \in [Client -> Report]
    /\ \A r \in Client :
          Sound(report[r], generation, CountedTasks, Cardinality(registered),
                CountedFailures, unrecorded)

\* The types of what the steps added here write besides columns and reports.
RunInv == config \in Config \cup {NoConfig} /\ unrecorded \in BOOLEAN

\* A total is a number.
LEMMA TotalIsNat ==
    ASSUME NEW counts \in [RowStatus -> Nat]
    PROVE  Total(counts) \in Nat
  BY DEF Total, RowStatus, Status

\* Work and registrations leave a report sound.
LEMMA SoundStays ==
    ASSUME NEW rep, NEW gen \in Nat, NEW counts \in [RowStatus -> Nat], NEW members,
           NEW failures \in Nat, NEW lost \in BOOLEAN,
           NEW gen2 \in Nat, NEW counts2 \in [RowStatus -> Nat], NEW members2,
           NEW failures2 \in Nat, NEW lost2 \in BOOLEAN,
           Sound(rep, gen, counts, members, failures, lost),
           failures <= failures2, lost => lost2,
           \/ gen2 > gen
           \/ /\ gen2 = gen /\ members2 = members
              /\ Total(counts) <= Total(counts2)
              /\ \A s \in Resolved : counts[s] <= counts2[s]
    PROVE  Sound(rep, gen2, counts2, members2, failures2, lost2)
  <1>1. /\ rep \in Report /\ rep.counts \in [RowStatus -> Nat]
        /\ rep.generation \in Nat /\ rep.seen \in Nat /\ rep.counts["failed"] \in Nat
    BY DEF Sound, Report, RowStatus, Status
  <1>2. /\ Total(rep.counts) \in Nat /\ Total(counts) \in Nat /\ Total(counts2) \in Nat
        /\ Resolved \subseteq RowStatus
    BY <1>1, TotalIsNat DEF Resolved, RowStatus, Status
  <1>3. CASE gen2 > gen
    <2>1. rep.seen # gen2 /\ rep.generation <= gen2 /\ rep.seen <= gen2
      BY <1>1, <1>3 DEF Sound
    <2> QED
      BY <1>1, <2>1 DEF Sound
  <1>4. CASE /\ gen2 = gen /\ members2 = members
             /\ Total(counts) <= Total(counts2)
             /\ \A s \in Resolved : counts[s] <= counts2[s]
    <2>1. rep.stage \in Answered \cup {"counted"} /\ rep.seen = gen =>
             /\ Total(rep.counts) <= Total(counts2)
             /\ \A s \in Resolved : rep.counts[s] <= counts2[s]
      BY <1>1, <1>2, <1>4 DEF Sound
    <2> QED
      BY <1>1, <1>4, <2>1 DEF Sound
  <1> QED
    BY <1>3, <1>4

\* What a step leaves of the quantities that reports are compared with.
LEMMA QuantitiesMove ==
    ASSUME TypeInv, TypeInv', RecordInv, [Next]_vars
    PROVE  /\ generation \in Nat /\ generation' \in Nat
           /\ CountedTasks \in [RowStatus -> Nat] /\ CountedTasks' \in [RowStatus -> Nat]
           /\ CountedFailures \in Nat /\ CountedFailures' \in Nat
           /\ CountedFailures <= CountedFailures'
           /\ \/ generation' > generation
              \/ /\ generation' = generation
                 /\ Cardinality(registered') = Cardinality(registered)
                 /\ Total(CountedTasks) <= Total(CountedTasks')
                 /\ \A s \in Resolved : CountedTasks[s] <= CountedTasks'[s]
  <1>1. CountsFine /\ CountsFine'
    BY CountsAddUp, PTL
  <1>2. generation \in Nat /\ generation' \in Nat
    BY DEF TypeInv, TypeOK
  <1>3. generation' = generation + 1 \/ generation' = generation
    BY DatasetSteps
  <1> QED
    BY <1>1, <1>2, <1>3, CountsGrow, FailureRowsGrow DEF CountsFine, RecordInv

\* What a client is given when it counts: every registered task is counted, and
\* every failed one has a failure.
LEMMA CountingIsSound ==
    ASSUME TypeInv, CurrentDataset, RecordInv
    PROVE  /\ generation >= 1 => Cardinality(registered) <= Total(CountedTasks)
           /\ ~unrecorded => CountedTasks["failed"] <= CountedFailures
  <1>0. CountsFine
    BY CountsAddUp
  <1>1. generation >= 1 => Cardinality(registered) <= Total(CountedTasks)
    <2>1. generation >= 1 => registered \subseteq Members
      BY DEF CurrentDataset, Members
    <2> QED
      BY <1>0, <2>1, FS_Subset DEF CountsFine
  <1>2. ASSUME ~unrecorded
        PROVE  CountedTasks["failed"] <= CountedFailures
    <2> DEFINE failed == Having("failed")
               record == [t \in failed |-> <<t, 1>>]
    <2>1. "failed" \in RowStatus /\ failed \subseteq Task
      BY DEF RowStatus, Status, Having, Members
    <2>2. \A t \in failed : <<t, 1>> \in FailureRows
      BY <1>2, <2>1 DEF RecordInv, FailureRows, Having
    <2>3. record \in Injection(failed, FailureRows)
      <3> HIDE DEF failed
      <3>1. record \in [failed -> FailureRows]
        BY <2>2
      <3>2. \A t, u \in failed : record[t] = record[u] => t = u
        OBVIOUS
      <3> HIDE DEF record
      <3> QED
        BY <3>1, <3>2 DEF Injection, IsInjective
    <2>4. Cardinality(failed) <= Cardinality(FailureRows)
      <3> HIDE DEF failed, record
      <3> QED
        BY <2>3, FS_Injection DEF RecordInv
    <2> QED
      BY <1>0, <2>1, <2>4 DEF CountsFine, CountedFailures
  <1> QED
    BY <1>1, <1>2

LEMMA NextReportInv ==
    ASSUME TypeInv, TypeInv', CurrentDataset, RecordInv, RunInv, RunInv', ReportInv,
           unrecorded => unrecorded', [RNext]_allvars
    PROVE  ReportInv'
  <1> DEFINE Now(rep) == Sound(rep, generation, CountedTasks, Cardinality(registered),
                               CountedFailures, unrecorded)
             Next1(rep) == Sound(rep, generation', CountedTasks', Cardinality(registered'),
                                 CountedFailures', unrecorded')
  <1>0. [Next]_vars /\ report \in [Client -> Report] /\ \A r \in Client : Now(report[r])
    BY StoreSteps DEF ReportInv
  <1>1. \A rep : Now(rep) => Next1(rep)
    BY <1>0, QuantitiesMove, SoundStays DEF RunInv
  <1>2. /\ CountedTasks \in [RowStatus -> Nat] /\ CountedFailures \in Nat /\ generation \in Nat
        /\ generation' \in Nat /\ CountedFailures' \in Nat
        /\ Resolved \subseteq RowStatus /\ "failed" \in RowStatus
    BY <1>0, QuantitiesMove DEF Resolved, RowStatus, Status
  <1>3. NoReport \in Report /\ DOMAIN NoReport.counts = RowStatus
    BY DEF NoReport, Report
  <1> HIDE DEF Now, Next1
  <1>4. CASE report' = report
    BY <1>0, <1>1, <1>4 DEF ReportInv, Next1
  <1>5. ASSUME NEW r \in Client, NEW rep, report' = [report EXCEPT ![r] = rep],
               Now(rep) \/ Next1(rep)
        PROVE  ReportInv'
    <2>1. Next1(rep) /\ rep \in Report
      BY <1>1, <1>5 DEF Next1, Sound
    <2>2. report' \in [Client -> Report] /\ \A q \in Client : Next1(report'[q])
      BY <1>0, <1>1, <1>5, <2>1
    <2> QED
      BY <2>2 DEF ReportInv, Next1
  <1>6. ASSUME NEW r \in Client, NEW items \in Request, Register(r, items)
        PROVE  ReportInv'
    <2> DEFINE rep == [NoReport EXCEPT !.stage = "registered", !.generation = generation']
    <2>1. report' = [report EXCEPT ![r] = rep] /\ generation' = generation + 1
      BY <1>6 DEF Register, RegisterItems, RegisterDataset
    <2>2. rep \in Report
      BY <1>2 DEF NoReport, Report, Answered
    <2>3. rep.stage = "registered" /\ rep.generation = generation' /\ rep.seen = 0
      BY DEF NoReport
    <2>4. Next1(rep)
      <3> HIDE DEF rep
      <3> QED
        BY <1>2, <2>1, <2>2, <2>3 DEF Next1, Sound, Answered
    <2> QED
      BY <1>5, <2>1, <2>4
  <1>7. ASSUME NEW rep \in Report, rep.generation <= generation, rep.stage # "registered",
               rep.stage = "registration" => generation >= 1,
               \/ /\ rep.counts = CountedTasks /\ rep.seen = generation
                  /\ rep.stage \notin {"manifest"}
               \/ rep.seen <= generation /\ rep.stage \notin Answered \cup {"counted"}
        PROVE  Now(rep)
    <2>1. \A s \in Resolved : CountedTasks[s] \in Nat
      BY <1>2
    <2>2. Total(CountedTasks) \in Nat
      BY <1>2, TotalIsNat
    <2> QED
      BY <1>2, <1>7, <2>1, <2>2, CountingIsSound DEF Now, Sound, Answered
  <1>8. ASSUME NEW r \in Client, AnswerRegistration(r)
        PROVE  ReportInv'
    <2> DEFINE old == report[r]
               rep == [old EXCEPT !.stage = "registration", !.counts = CountedTasks,
                                  !.seen = generation]
    <2>1. report' = [report EXCEPT ![r] = rep] /\ old.stage = "registered"
      BY <1>8 DEF AnswerRegistration
    <2>2. old \in Report /\ old.generation <= generation /\ old.generation >= 1
          /\ old.generation \in Nat
      BY <1>0, <2>1 DEF Now, Sound, Report
    <2> HIDE DEF old
    <2>3. rep \in Report
      BY <1>2, <2>2 DEF Report, Answered
    <2>4. /\ rep.stage = "registration" /\ rep.counts = CountedTasks /\ rep.seen = generation
          /\ rep.generation = old.generation
      BY <2>2 DEF Report
    <2>5. Now(rep)
      <3> HIDE DEF rep
      <3> QED
        BY <1>2, <1>7, <2>2, <2>3, <2>4
    <2> QED
      BY <1>5, <2>1, <2>5
  <1>9. ASSUME NEW r \in Client, List(r)
        PROVE  ReportInv'
    <2> DEFINE rep == [NoReport EXCEPT !.stage = "list", !.counts = CountedTasks,
                                       !.seen = generation]
    <2>1. report' = [report EXCEPT ![r] = rep]
      BY <1>9 DEF List
    <2>2. rep \in Report
      BY <1>2 DEF NoReport, Report, Answered
    <2>3. /\ rep.stage = "list" /\ rep.counts = CountedTasks /\ rep.seen = generation
          /\ rep.generation = 0
      BY DEF NoReport
    <2>4. Now(rep)
      <3> HIDE DEF rep
      <3> QED
        BY <1>2, <1>7, <2>2, <2>3
    <2> QED
      BY <1>5, <2>1, <2>4
  <1>10. ASSUME NEW r \in Client, SummaryRun(r), config \in Config \cup {NoConfig}
         PROVE  ReportInv'
    <2> DEFINE rep == [NoReport EXCEPT !.stage = "named", !.config = config]
    <2>1. report' = [report EXCEPT ![r] = rep]
      BY <1>10 DEF SummaryRun
    <2>2. rep \in Report
      BY <1>10 DEF NoReport, Report, Answered
    <2>3. rep.stage = "named" /\ rep.seen = 0 /\ rep.generation = 0
      BY DEF NoReport
    <2>4. Now(rep)
      <3> HIDE DEF rep
      <3> QED
        BY <1>2, <1>7, <2>2, <2>3 DEF Answered
    <2> QED
      BY <1>5, <2>1, <2>4
  <1>11. ASSUME NEW r \in Client, SummaryTasks(r)
         PROVE  ReportInv'
    <2> DEFINE old == report[r]
               rep == [[old EXCEPT !.counts = CountedTasks, !.seen = generation]
                           EXCEPT !.stage = "counted"]
    <2>1. report' = [report EXCEPT ![r] = rep]
      BY <1>11 DEF SummaryTasks, Counted, CountOrder
    <2>2. old \in Report /\ old.generation <= generation
      BY <1>0 DEF Now, Sound
    <2> HIDE DEF old
    <2>3. rep \in Report
      BY <1>2, <2>2 DEF Report
    <2>4. /\ rep.stage = "counted" /\ rep.counts = CountedTasks /\ rep.seen = generation
          /\ rep.generation = old.generation
      BY <2>2 DEF Report
    <2>5. Now(rep)
      <3> HIDE DEF rep
      <3> QED
        BY <1>2, <1>7, <2>2, <2>3, <2>4
    <2> QED
      BY <1>5, <2>1, <2>5
  <1>12. ASSUME NEW r \in Client, SummaryFailures(r)
         PROVE  ReportInv'
    <2> DEFINE old == report[r]
               rep == [[old EXCEPT !.failures = CountedFailures] EXCEPT !.stage = "manifest"]
    <2>1. report' = [report EXCEPT ![r] = rep] /\ old.stage = "counted"
      BY <1>12 DEF SummaryFailures, Counted, CountOrder
    <2>2. old \in Report /\ Now(old)
      BY <1>0
    <2> HIDE DEF old
    <2>3. rep \in Report
      BY <1>2, <2>2 DEF Report, Answered
    <2>4. /\ rep.stage = "manifest" /\ rep.counts = old.counts /\ rep.seen = old.seen
          /\ rep.generation = old.generation /\ rep.failures = CountedFailures
      BY <2>2 DEF Report
    <2>5. Now(rep)
      <3> HIDE DEF rep
      <3> QED
        BY <2>1, <2>2, <2>3, <2>4 DEF Now, Sound
    <2> QED
      BY <1>5, <2>1, <2>5
  <1>13. ASSUME NEW r \in Client, Abandon(r)
         PROVE  ReportInv'
    <2>1. report' = [report EXCEPT ![r] = NoReport]
      BY <1>13 DEF Abandon
    <2>2. NoReport.stage = "none" /\ NoReport.seen = 0 /\ NoReport.generation = 0
      BY DEF NoReport
    <2>3. Now(NoReport)
      BY <1>2, <1>3, <1>7, <2>2 DEF Answered
    <2> QED
      BY <1>5, <2>1, <2>3
  <1>14. ASSUME \/ Work /\ UNCHANGED rvars
                \/ \E c \in claims, error \in Error : CrashInFail(c, error)
                \/ \E items \in Request : RegisterElsewhere(items)
                \/ \E c \in Config : RegisterRun(c)
                \/ UNCHANGED allvars
         PROVE  report' = report
    BY <1>14 DEF rvars, CrashInFail, RegisterElsewhere, RegisterRun, allvars
  <1> QED
    BY <1>4, <1>6, <1>8, <1>9, <1>10, <1>11, <1>12, <1>13, <1>14 DEF RNext, Read, RunInv

-----------------------------------------------------------------------------
(* What the answers show                                                     *)

ReportsInv == RecordInv /\ ColumnsInv /\ RunInv /\ ReportInv

LEMMA ReportsInvariant == RSpec => [](TypeInv /\ ReportsInv)
  <1>1. RInit => TypeInv /\ ReportsInv
    <2> SUFFICES ASSUME RInit PROVE TypeInv /\ ReportsInv
      OBVIOUS
    <2>1. TypeInv /\ generation = 0 /\ registered = {} /\ \A t \in Task : tasks[t].status = "absent"
      BY InitTypeInv DEF RInit, Init, NoRow
    <2>2. FailureRows = {} /\ RecordInv
      <3>1. FailureRows = {}
        BY DEF RInit, Init, FailureRows
      <3> QED
        BY <2>1, <3>1, FS_EmptySet DEF RecordInv
    <2>3. ColumnsInv
      BY <2>1 DEF RInit, ColumnsInv, Digests, Blank, NoPosition
    <2>4. RunInv
      BY DEF RInit, RunInv
    <2>5. ReportInv
      <3>1. NoReport \in Report /\ report = [r \in Client |-> NoReport]
        BY DEF RInit, NoReport, Report
      <3>2. NoReport.stage = "none" /\ NoReport.seen = 0 /\ NoReport.generation = 0
        BY DEF NoReport
      <3> QED
        BY <2>1, <3>1, <3>2 DEF ReportInv, Sound, Answered
    <2> QED
      BY <2>1, <2>2, <2>3, <2>4, <2>5 DEF ReportsInv
  <1>2. ASSUME TypeInv, ReportsInv, CurrentDataset, [RNext]_allvars
        PROVE  TypeInv' /\ ReportsInv'
    <2>1. TypeInv' /\ RecordInv' /\ ColumnsInv'
      BY <1>2, StoreSteps, NextTypeInv, NextRecordInv, NextColumnsInv DEF ReportsInv
    <2>2. RunInv' /\ (unrecorded => unrecorded')
      <3>1. ASSUME NEW r \in Client, Read(r)
            PROVE  UNCHANGED <<config, unrecorded>>
        BY <3>1 DEF Read, AnswerRegistration, List, SummaryRun, SummaryTasks, SummaryFailures,
                    Abandon, ReadOnly
      <3>2. CASE UNCHANGED allvars
        BY <1>2, <3>2 DEF allvars, rvars, ReportsInv, RunInv
      <3> QED
        BY <1>2, <3>1, <3>2 DEF RNext, rvars, CrashInFail, Register, RegisterElsewhere,
                                RegisterItems, RegisterRun, ReportsInv, RunInv
    <2>3. ReportInv'
      BY <1>2, <2>1, <2>2, NextReportInv DEF ReportsInv, RunInv
    <2> QED
      BY <2>1, <2>2, <2>3 DEF ReportsInv
  <1>3. RSpec => []CurrentDataset
    BY ReportsImplementStore, CurrentDatasetIsRegistered, PTL
  <1> QED
    BY <1>1, <1>2, <1>3, PTL DEF RSpec

\* The answer to a registration counts every input of the latest registration that
\* it has seen, although other requests come in before it is counted.
THEOREM AnswersCoverRegistrations == RSpec => []AnswerCoversRegistration
  <1>1. ReportInv => AnswerCoversRegistration
    BY DEF ReportInv, Sound, AnswerCoversRegistration
  <1> QED
    BY <1>1, ReportsInvariant, PTL DEF ReportsInv

\* A manifest never shows more failed tasks than failures, unless a crash has lost
\* the record of one.
THEOREM FailuresAreBehindTasks == RSpec => []FailuresBehindTasks
  <1>1. ReportInv => FailuresBehindTasks
    BY DEF ReportInv, Sound, FailuresBehindTasks
  <1> QED
    BY <1>1, ReportsInvariant, PTL DEF ReportsInv

\* No answer shows progress that is taken back within a generation.
THEOREM ProgressIsKept == RSpec => []ProgressNeverRegresses
  <1>1. ReportInv => ProgressNeverRegresses
    BY DEF ReportInv, Sound, ProgressNeverRegresses
  <1> QED
    BY <1>1, ReportsInvariant, PTL DEF ReportsInv

\* list returns the inputs of the latest registration in the order and under the
\* category of their first occurrence in it, for any task lists.
THEOREM ListsFollowRegistrations == RSpec => []ListFollowsRegistration
  <1>1. RSpec => []CurrentDataset
    BY ReportsImplementStore, CurrentDatasetIsRegistered, PTL
  <1>2. TypeInv /\ ReportsInv /\ CurrentDataset => ListFollowsRegistration
    BY ColumnsGiveOrder DEF ReportsInv
  <1> QED
    BY <1>1, <1>2, ReportsInvariant, PTL

=============================================================================
