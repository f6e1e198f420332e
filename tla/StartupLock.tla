---------------------------- MODULE StartupLock ----------------------------
(***************************************************************************)
(* Starting the server of a storage directory: RuntimeClient.ensure_started*)
(* with _healthy_from_metadata, _spawn and _startup_lock (runtime.py).     *)
(* Each process calls ensure_started once; a server is named by the        *)
(* process that spawned it.  Every look at the file system or at a server  *)
(* is a step of its own.                                                   *)
(*                                                                         *)
(* Time is a clock of coarse ticks, of which only the order of Timeout     *)
(* (10 s) and StaleAfter (30 s) matters.  It moves while a process waits   *)
(* for the lock or the lock is not stale yet.                              *)
(***************************************************************************)
EXTENDS Naturals, FiniteSets

CONSTANTS
    Process,     \* the clients that start on the storage directory
    Timeout,     \* how long a process waits for the lock
    StaleAfter,  \* the age beyond which a lock is reclaimed
    MaxTime,     \* bound on the clock
    NoProcess    \* no lock directory, no metadata file

VARIABLES
    now,       \* the clock
    lock,      \* who made the directory runtime.lock; NoProcess: it is absent
    born,      \* its modification time
    metadata,  \* whose server runtime.json names
    servers,   \* the servers that run
    pc,        \* where each process is in ensure_started
    deadline,  \* when a process gives up waiting
    acquired,  \* whether the process made the directory
    causes     \* history: what has gone wrong so far

vars == <<now, lock, born, metadata, servers, pc, deadline, acquired, causes>>
files == <<lock, born, metadata>>

ASSUME StartupAssumption ==
    /\ NoProcess \notin Process
    /\ Timeout \in Nat /\ StaleAfter \in Nat /\ MaxTime \in Nat

Cause == {"no_lock", "slow_holder", "fresh_reclaimed", "health_timeout",
          "unannounced", "release_failed"}
Waiting == {"mkdir", "stat", "reclaim", "patience"}
Inside == {"recheck", "spawn", "announce", "release", "release_raise"}
Over == {"connected", "raised", "dead"}

TypeOK ==
    /\ now \in Nat
    /\ lock \in Process \cup {NoProcess}
    /\ born \in Nat
    /\ metadata \in Process \cup {NoProcess}
    /\ servers \subseteq Process
    /\ pc \in [Process -> {"idle", "check"} \cup Waiting \cup Inside \cup Over]
    /\ deadline \in [Process -> Nat]
    /\ acquired \in [Process -> BOOLEAN]
    /\ causes \subseteq Cause

Init ==
    /\ now = 0
    /\ lock = NoProcess
    /\ born = 0
    /\ metadata = NoProcess
    /\ servers = {}
    /\ pc = [p \in Process |-> "idle"]
    /\ deadline = [p \in Process |-> 0]
    /\ acquired = [p \in Process |-> FALSE]
    /\ causes = {}

Goto(p, place) == pc' = [pc EXCEPT ![p] = place]

-----------------------------------------------------------------------------
(* Looking for a running server *)

\* The health request of a server that runs may still time out (0.2 s).
Healthy(p, yes, no) ==
    \/ /\ metadata \in servers
       /\ Goto(p, yes)
       /\ UNCHANGED causes
    \/ /\ metadata \notin servers
       /\ Goto(p, no)
       /\ UNCHANGED causes
    \/ /\ metadata \in servers
       /\ Goto(p, no)
       /\ causes' = causes \cup {"health_timeout"}

EnsureStarted(p) ==
    /\ pc[p] = "idle"
    /\ Goto(p, "check")
    /\ UNCHANGED <<now, files, servers, deadline, acquired, causes>>

\* Mutant: the deadline is computed backwards.
CheckBackwards(p) ==
    /\ pc[p] = "check"
    /\ Healthy(p, "connected", "mkdir")
    /\ deadline' = [deadline EXCEPT ![p] = now - Timeout]
    /\ UNCHANGED <<now, files, servers, acquired>>

\* The first look, before the lock; _startup_lock then sets its deadline.
Check(p) ==
    /\ pc[p] = "check"
    /\ Healthy(p, "connected", "mkdir")
    /\ deadline' = [deadline EXCEPT ![p] = now + Timeout]
    /\ UNCHANGED <<now, files, servers, acquired>>

-----------------------------------------------------------------------------
(* _startup_lock *)

\* Mutant: an existing directory is taken for one's own.
AcquireAlways(p) ==
    /\ pc[p] = "mkdir"
    /\ lock' = p
    /\ born' = now
    /\ acquired' = [acquired EXCEPT ![p] = TRUE]
    /\ Goto(p, "recheck")
    /\ UNCHANGED <<now, metadata, servers, deadline, causes>>

Acquire(p) ==
    /\ pc[p] = "mkdir"
    /\ lock = NoProcess
    /\ lock' = p
    /\ born' = now
    /\ acquired' = [acquired EXCEPT ![p] = TRUE]
    /\ Goto(p, "recheck")
    /\ UNCHANGED <<now, metadata, servers, deadline, causes>>

\* Mutant: the process only waits for the directory to go.
FileExistsSpins(p) ==
    /\ pc[p] = "mkdir"
    /\ lock # NoProcess
    /\ UNCHANGED vars

FileExists(p) ==
    /\ pc[p] = "mkdir"
    /\ lock # NoProcess
    /\ Goto(p, "stat")
    /\ UNCHANGED <<now, files, servers, deadline, acquired, causes>>

\* A directory that has gone in the meantime counts as new.
Stat(p) ==
    /\ pc[p] = "stat"
    /\ Goto(p, IF lock # NoProcess /\ now > born + StaleAfter
               THEN "reclaim" ELSE "patience")
    /\ UNCHANGED <<now, files, servers, deadline, acquired, causes>>

\* What a reclaim does wrong to the directory that is there by now: nothing, if its
\* maker is no longer inside.
Removal ==
    CASE lock = NoProcess -> {}
      [] lock # NoProcess /\ now <= born + StaleAfter -> {"fresh_reclaimed"}
      [] OTHER -> IF pc[lock] \in Inside THEN {"slow_holder"} ELSE {}

\* rmdir succeeds, or finds no directory: it does not look at it again.
Reclaim(p) ==
    /\ pc[p] = "reclaim"
    /\ lock' = NoProcess
    /\ causes' = causes \cup Removal
    /\ Goto(p, "mkdir")
    /\ UNCHANGED <<now, born, metadata, servers, deadline, acquired>>

\* rmdir is refused (the directory is not empty, or another user's).  The error is
\* suppressed, and the loop goes on without a look at the deadline and without a
\* sleep.
ReclaimFails(p) ==
    /\ pc[p] = "reclaim"
    /\ lock # NoProcess
    /\ Goto(p, "mkdir")
    /\ UNCHANGED <<now, files, servers, deadline, acquired, causes>>

Sleep(p) ==
    /\ pc[p] = "patience"
    /\ now <= deadline[p]
    /\ Goto(p, "mkdir")
    /\ UNCHANGED <<now, files, servers, deadline, acquired, causes>>

ProceedWithout(p) ==
    /\ pc[p] = "patience"
    /\ now > deadline[p]
    /\ causes' = causes \cup {"no_lock"}
    /\ Goto(p, "recheck")
    /\ UNCHANGED <<now, files, servers, deadline, acquired>>

-----------------------------------------------------------------------------
(* Inside the lock *)

\* Mutant: the second look is missing.
RecheckNothing(p) ==
    /\ pc[p] = "recheck"
    /\ Goto(p, "spawn")
    /\ UNCHANGED <<now, files, servers, deadline, acquired, causes>>

Recheck(p) ==
    /\ pc[p] = "recheck"
    /\ Healthy(p, "release", "spawn")
    /\ UNCHANGED <<now, files, servers, deadline, acquired>>

Spawn(p) ==
    /\ pc[p] = "spawn"
    /\ servers' = servers \cup {p}
    /\ Goto(p, "announce")
    /\ UNCHANGED <<now, files, deadline, acquired, causes>>

\* The server has printed its address and answers: runtime.json names it.
Announce(p) ==
    /\ pc[p] = "announce"
    /\ p \in servers
    /\ metadata' = p
    /\ Goto(p, "release")
    /\ UNCHANGED <<now, lock, born, servers, deadline, acquired, causes>>

\* The server did not start, or did not answer in time and may still run.
StartFails(p) ==
    /\ pc[p] \in {"spawn", "announce"}
    /\ causes' = IF p \in servers THEN causes \cup {"unannounced"} ELSE causes
    /\ Goto(p, "release_raise")
    /\ UNCHANGED <<now, files, servers, deadline, acquired>>

\* Mutant: the lock is kept when starting fails.
ReleaseOnSuccess(p) ==
    /\ pc[p] \in {"release", "release_raise"}
    /\ IF pc[p] = "release" /\ acquired[p] THEN lock' = NoProcess ELSE UNCHANGED lock
    /\ acquired' = [acquired EXCEPT ![p] = FALSE]
    /\ Goto(p, IF pc[p] = "release" THEN "connected" ELSE "raised")
    /\ UNCHANGED <<now, born, metadata, servers, deadline, causes>>

\* rmdir of whatever directory is there, if this process made one.  Should it be
\* refused, the error is suppressed and the directory stays.
Release(p) ==
    /\ pc[p] \in {"release", "release_raise"}
    /\ \/ /\ IF acquired[p] THEN lock' = NoProcess ELSE UNCHANGED lock
          /\ UNCHANGED causes
       \/ /\ acquired[p] /\ lock # NoProcess
          /\ causes' = causes \cup {"release_failed"}
          /\ UNCHANGED lock
    /\ acquired' = [acquired EXCEPT ![p] = FALSE]
    /\ Goto(p, IF pc[p] = "release" THEN "connected" ELSE "raised")
    /\ UNCHANGED <<now, born, metadata, servers, deadline>>

-----------------------------------------------------------------------------
\* The process is killed: its directory stays, and so does its server.
Crash(p) ==
    /\ pc[p] \notin Over \cup {"idle"}
    /\ causes' = IF pc[p] = "announce" /\ p \in servers
                 THEN causes \cup {"unannounced"} ELSE causes
    /\ Goto(p, "dead")
    /\ UNCHANGED <<now, files, servers, deadline, acquired>>

ServerExits(p) ==
    /\ p \in servers
    /\ servers' = servers \ {p}
    /\ UNCHANGED <<now, files, pc, deadline, acquired, causes>>

Elapse ==
    /\ \/ \E p \in Process : pc[p] \in Waiting /\ now <= deadline[p]
       \/ lock # NoProcess /\ now <= born + StaleAfter
    /\ now < MaxTime
    /\ now' = now + 1
    /\ UNCHANGED <<files, servers, pc, deadline, acquired, causes>>

Progress(p) ==
    \/ Check(p)
    \/ Acquire(p)
    \/ FileExists(p)
    \/ Stat(p)
    \/ Reclaim(p)
    \/ ReclaimFails(p)
    \/ Sleep(p)
    \/ ProceedWithout(p)
    \/ Recheck(p)
    \/ Spawn(p)
    \/ Announce(p)
    \/ StartFails(p)
    \/ Release(p)

Next ==
    \/ \E p \in Process : EnsureStarted(p) \/ Progress(p) \/ Crash(p) \/ ServerExits(p)
    \/ Elapse

Spec == Init /\ [][Next]_vars

\* Processes run, a server that is spawned prints its address or ends (_spawn
\* reads its output without a limit; wait_until_healthy then gives it 5 s), and
\* time passes.
Fairness == WF_vars(Elapse) /\ \A p \in Process : WF_vars(Progress(p))

FairSpec == Spec /\ Fairness

\* The file system does not refuse for ever to remove a stale directory.  The code
\* does nothing to make this so.
RemovalSucceeds == \A p \in Process : SF_vars(Reclaim(p))

RemovableSpec == FairSpec /\ RemovalSucceeds

-----------------------------------------------------------------------------
(* Properties *)

\* Two servers on one database need a cause: a process that went on without the
\* lock, a lock taken from whoever is inside or made anew since it was looked at, a
\* health request that timed out, or a server left behind without a runtime.json.
\* Crashes, orphaned locks, failed starts, directories that cannot be removed,
\* servers that exit and any interleaving of the checks are not enough.
TwoServersHaveCause == Cardinality(servers) > 1 => causes \ {"release_failed"} # {}

\* Unless the lock was taken from somebody, or somebody went on without it, whoever
\* is inside holds the directory, so its release removes its own lock only.
InsideHoldsLock ==
    causes \subseteq {"health_timeout", "unannounced", "release_failed"} =>
        \A p \in Process : pc[p] \in Inside => lock = p

\* A directory outlives its maker's call only if the maker was killed or its rmdir
\* refused: whatever way ensure_started ends, it leaves no lock of its own behind.
OrphanedByCrashOnly ==
    lock # NoProcess =>
        pc[lock] \in Inside \cup {"dead"} \/ "release_failed" \in causes

\* ensure_started ends for every process, orphaned locks, slow holders and failing
\* removals notwithstanding, as long as they do not fail for ever (RemovableSpec).
EnsureStartedEnds == \A p \in Process : pc[p] = "check" ~> pc[p] \in Over

\* Comment of _startup_lock: proceed without the lock rather than hang the caller
\* forever, so a process that is scheduled does not wait for the lock for ever,
\* whatever happens to the directory (FairSpec).
NeverHangs == \A p \in Process : pc[p] \in Waiting ~> pc[p] \notin Waiting

\* Comment of _startup_lock: a reclaim is for a lock orphaned by a crashed
\* process, so one that is not older than StaleAfter is never removed by it.
FreshLockIsKept == "fresh_reclaimed" \notin causes

=============================================================================
