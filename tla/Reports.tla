------------------------------- MODULE Reports -------------------------------
(***************************************************************************)
(* What the store says about its tasks (core/src/sqlite.rs): the answer of *)
(* `register_dataset`, `list`, `dataset_summary`, `summary` and `export`,  *)
(* next to the operations of TaskStore and `register_run`.                 *)
(*                                                                         *)
(* `list` reads under one lock.  The other two release the lock while they *)
(* work, so other handlers come in between: `register_dataset` registers   *)
(* under one lock and counts under the next; `summary` reads the run, the  *)
(* tasks and the failures under a lock each.                               *)
(*                                                                         *)
(* A failure class is not recorded: failures are counted together.         *)
(***************************************************************************)
EXTENDS TaskStore, FiniteSetsExt

CONSTANTS
    Client,        \* those who register and read
    Request,       \* the task lists of registrations: sequences of Item
    Category,      \* the categories of tasks
    NoCategory,    \* NULL in tasks.category
    Config         \* the configurations of runs

VARIABLES
    columns,       \* per task, tasks.position and tasks.category
    config,        \* the row of table runs, by its configuration, or NoConfig
    report,        \* per client, its request in progress, or the last answer: a Report
    request,       \* history: the task list of the latest registration
    unrecorded     \* history: a crash lost the record of a failure

rvars == <<columns, config, report, request, unrecorded>>
allvars == <<vars, rvars>>

NoPosition == 0
NoConfig == 0
Item == [digest : Task, category : Category \cup {NoCategory}]

ASSUME RequestAssumption ==
    /\ Request \subseteq Seq(Item)
    /\ NoCategory \notin Category /\ NoConfig \notin Config
    /\ IsFiniteSet(Task)

RowStatus == Status \ {"absent"}
Answered == {"registration", "list", "manifest"}

\* "registered", "named" and "counted": the handler is between two locks.
\* `seen` is history: the generation of the table at the time of the count.
Report ==
    [stage : {"none", "registered", "named", "counted"} \cup Answered,
     generation : Nat,             \* the one that the client registered
     config : Config \cup {NoConfig},
     counts : [RowStatus -> Nat],
     seen : Nat,
     failures : Nat]

NoReport ==
    [stage |-> "none", generation |-> 0, config |-> NoConfig,
     counts |-> [s \in RowStatus |-> 0], seen |-> 0, failures |-> 0]

RInit ==
    /\ Init
    /\ columns = [t \in Task |-> [position |-> NoPosition, category |-> NoCategory]]
    /\ config = NoConfig
    /\ report = [r \in Client |-> NoReport]
    /\ request = <<>>
    /\ unrecorded = FALSE

-----------------------------------------------------------------------------
(* What is read                                                              *)

\* list; export lists without filters.  An empty filter matches every row, and no
\* filter on categories matches a NULL.
Listed(statuses, categories) ==
    {t \in Task : /\ Current(t)
                  /\ statuses = {} \/ tasks[t].status \in statuses
                  /\ categories = {} \/ columns[t].category \in categories}

\* ORDER BY position: NULL sorts first.
ListedBefore(t, u) == columns[t].position < columns[u].position

\* dataset_summary and summary: GROUP BY status.
CountedTasks == [s \in RowStatus |-> Cardinality(Listed({s}, {}))]
Total(counts) ==
    counts["pending"] + counts["running"] + counts["failed"]
        + counts["succeeded"] + counts["terminal"]

\* The rows of table failure_records.
FailureRows == UNION {{t} \X DOMAIN failure_records[t] : t \in Task}
CountedFailures == Cardinality(FailureRows)

-----------------------------------------------------------------------------
(* register_dataset                                                          *)

\* Mutant: the last occurrence of an input wins.
LastOccurrence(items, digest) == Max({i \in DOMAIN items : items[i].digest = digest})
\* Identical inputs collapse, the first occurrence wins.
FirstOccurrence(items, digest) == Min({i \in DOMAIN items : items[i].digest = digest})
Digests(items) == {items[i].digest : i \in DOMAIN items}

RegisterItems(items) ==
    /\ RegisterDataset(Digests(items))
    /\ columns' = [t \in Task |->
           IF t \notin Digests(items) THEN columns[t]
           ELSE LET i == FirstOccurrence(items, t) IN
                [position |-> i, category |-> items[i].category]]
    /\ request' = items
    /\ UNCHANGED <<config, unrecorded>>

\* A client has one request at a time.
Ready(r) == report[r].stage \in Answered \cup {"none"}
ReadOnly == UNCHANGED <<vars, columns, config, request, unrecorded>>

Register(r, items) ==
    /\ Ready(r)
    /\ RegisterItems(items)
    /\ report' = [report EXCEPT ![r] =
           [NoReport EXCEPT !.stage = "registered", !.generation = generation']]

\* A registration by somebody else, whose answer is not looked at.
RegisterElsewhere(items) ==
    /\ RegisterItems(items)
    /\ UNCHANGED report

\* The lock is taken again, by dataset_summary.
AnswerRegistration(r) ==
    /\ report[r].stage = "registered"
    /\ report' = [report EXCEPT ![r] =
           [@ EXCEPT !.stage = "registration", !.counts = CountedTasks, !.seen = generation]]
    /\ ReadOnly

-----------------------------------------------------------------------------
(* list, summary and export; register_run                                    *)

\* Dataset.summary and the progress callback count what list returns.
List(r) ==
    /\ Ready(r)
    /\ report' = [report EXCEPT ![r] =
           [NoReport EXCEPT !.stage = "list", !.counts = CountedTasks, !.seen = generation]]
    /\ ReadOnly

SummaryRun(r) ==
    /\ Ready(r)
    /\ report' = [report EXCEPT ![r] = [NoReport EXCEPT !.stage = "named", !.config = config]]
    /\ ReadOnly

\* The fields of RunSummary are evaluated in the order in which they are written,
\* each under a lock of its own.  Mutant: the other way round.
FailuresFirst == <<"failures", "tasks">>
CountOrder == <<"tasks", "failures">>
Counted(manifest, what) ==
    IF what = "tasks"
    THEN [manifest EXCEPT !.counts = CountedTasks, !.seen = generation]
    ELSE [manifest EXCEPT !.failures = CountedFailures]

SummaryTasks(r) ==
    /\ report[r].stage = "named"
    /\ report' = [report EXCEPT ![r] = [Counted(@, CountOrder[1]) EXCEPT !.stage = "counted"]]
    /\ ReadOnly

SummaryFailures(r) ==
    /\ report[r].stage = "counted"
    /\ report' = [report EXCEPT ![r] = [Counted(@, CountOrder[2]) EXCEPT !.stage = "manifest"]]
    /\ ReadOnly

\* The server dies, or the client no longer waits.
Abandon(r) ==
    /\ ~Ready(r)
    /\ report' = [report EXCEPT ![r] = NoReport]
    /\ ReadOnly

\* register_run is an upsert.
RegisterRun(c) ==
    /\ config' = c
    /\ UNCHANGED <<vars, columns, report, request, unrecorded>>

-----------------------------------------------------------------------------
\* Heartbeats and the clock change nothing that is read here.
Work ==
    \/ \E w \in Worker, t \in Task : Begin(w, t)
    \/ \E c \in claims : Complete(c) \/ \E error \in Error : Fail(c, error)

CrashInFail(c, error) ==
    /\ FailAndCrash(c, error)
    /\ unrecorded' = TRUE
    /\ UNCHANGED <<columns, config, report, request>>

Read(r) ==
    \/ AnswerRegistration(r) \/ List(r)
    \/ SummaryRun(r) \/ SummaryTasks(r) \/ SummaryFailures(r) \/ Abandon(r)

RNext ==
    \/ Work /\ UNCHANGED rvars
    \/ \E c \in claims, error \in Error : CrashInFail(c, error)
    \/ \E r \in Client, items \in Request : Register(r, items)
    \/ \E items \in Request : RegisterElsewhere(items)
    \/ \E r \in Client : Read(r)
    \/ \E c \in Config : RegisterRun(c)

RSpec == RInit /\ [][RNext]_allvars

-----------------------------------------------------------------------------
(* Properties *)

\* The answer to a registration counts every input that was registered, although
\* it is counted after the lock was given up; only if somebody has registered the
\* dataset again in between is it about that other registration.
AnswerCoversRegistration ==
    \A r \in Client :
        report[r].stage = "registration" /\ report[r].seen = generation =>
            \/ report[r].generation < report[r].seen
            \/ Total(report[r].counts) >= Cardinality(registered)

\* A manifest never shows more failed tasks than failures, although the two are
\* counted at different times: failures are counted last and only grow.  A crash
\* inside fail is the exception.
FailuresBehindTasks ==
    \A r \in Client :
        report[r].stage = "manifest" /\ ~unrecorded =>
            report[r].counts["failed"] <= report[r].failures

\* The first item of the latest request with this input, stated without reference
\* to what the code does.
FirstOf(t) ==
    LET at == CHOOSE i \in DOMAIN request :
                  /\ request[i].digest = t
                  /\ \A j \in 1..(i - 1) : request[j].digest # t
    IN  [at |-> at, category |-> request[at].category]

\* list returns the inputs of the latest registration in the order and under the
\* category of their first occurrence in it, however often and wherever they were
\* registered before; rows that no registration has named are in no category and
\* come first.
ListFollowsRegistration ==
    /\ \A category \in Category :
          Listed({}, {category}) = {t \in registered : FirstOf(t).category = category}
    /\ \A t, u \in registered : ListedBefore(t, u) <=> FirstOf(t).at < FirstOf(u).at
    /\ \A t \in Listed({}, {}) \ registered, u \in registered : ListedBefore(t, u)

\* An answer never overstates: until the dataset is registered again, the tasks
\* that it counted, and those that it showed succeeded or terminal, are still
\* there, whatever ran out, was late or was retried since; so no later answer
\* shows less progress.
ProgressNeverRegresses ==
    \A r \in Client :
        report[r].stage \in Answered /\ report[r].seen = generation =>
            /\ Total(report[r].counts) <= Total(CountedTasks)
            /\ \A s \in Resolved : report[r].counts[s] <= CountedTasks[s]

=============================================================================
