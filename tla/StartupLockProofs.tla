------------------------- MODULE StartupLockProofs -------------------------
(***************************************************************************)
(* Safety of the startup lock for any number of processes and any timeout  *)
(* and staleness: the steps of StartupLock, one lemma per invariant.       *)
(***************************************************************************)
EXTENDS StartupLock, FiniteSetTheorems, TLAPS

USE DEF Waiting, Inside, Over, Goto

-----------------------------------------------------------------------------
(* Types *)

Place == {"idle", "check"} \cup Waiting \cup Inside \cup Over

\* Whatever the health request says, the process goes to one of two places and
\* nothing but the history is written.
LEMMA HealthyGoes ==
    ASSUME TypeOK, NEW p \in Process, NEW yes \in Place, NEW no \in Place,
           Healthy(p, yes, no)
    PROVE  /\ pc' \in [Process -> Place] /\ causes' \subseteq Cause
           /\ causes \subseteq causes' /\ causes' \subseteq causes \cup {"health_timeout"}
           /\ \A q \in Process : q # p => pc'[q] = pc[q]
           /\ \/ pc'[p] = yes /\ metadata \in servers
              \/ pc'[p] = no /\ (metadata \notin servers \/ "health_timeout" \in causes')
  <1>1. pc \in [Process -> Place] /\ causes \subseteq Cause
    BY DEF TypeOK, Place
  <1>2. CASE metadata \in servers /\ Goto(p, yes) /\ UNCHANGED causes
    BY <1>1, <1>2
  <1>3. CASE metadata \notin servers /\ Goto(p, no) /\ UNCHANGED causes
    BY <1>1, <1>3
  <1>4. CASE /\ metadata \in servers /\ Goto(p, no)
             /\ causes' = causes \cup {"health_timeout"}
    BY <1>1, <1>4 DEF Cause
  <1> QED
    BY <1>2, <1>3, <1>4 DEF Healthy

\* Every variable keeps its type.
THEOREM StartupTypes == Spec => []TypeOK
  <1>1. Init => TypeOK
    BY StartupAssumption DEF Init, TypeOK
  <1>2. ASSUME TypeOK, [Next]_vars
        PROVE  TypeOK'
    <2> USE StartupAssumption
    <2>1. ASSUME NEW p \in Process, EnsureStarted(p)
          PROVE  TypeOK'
      BY <1>2, <2>1 DEF EnsureStarted, TypeOK, files
    <2>2. ASSUME NEW p \in Process, Check(p)
          PROVE  TypeOK'
      <3>1. pc' \in [Process -> Place] /\ causes' \subseteq Cause
        BY <1>2, <2>2, HealthyGoes DEF Check, Place
      <3>2. deadline' \in [Process -> Nat]
        BY <1>2, <2>2 DEF Check, TypeOK
      <3> QED
        BY <1>2, <2>2, <3>1, <3>2 DEF Check, TypeOK, Place, files
    <2>3. ASSUME NEW p \in Process, Acquire(p)
          PROVE  TypeOK'
      BY <1>2, <2>3 DEF Acquire, TypeOK
    <2>4. ASSUME NEW p \in Process, \/ FileExists(p) \/ Stat(p) \/ ReclaimFails(p)
                                   \/ Sleep(p) \/ Spawn(p)
          PROVE  TypeOK'
      BY <1>2, <2>4 DEF FileExists, Stat, ReclaimFails, Sleep, Spawn, TypeOK, files
    <2>5. ASSUME NEW p \in Process, Reclaim(p)
          PROVE  TypeOK'
      <3>1. Removal \subseteq Cause
        BY DEF Removal, Cause
      <3> QED
        BY <1>2, <2>5, <3>1 DEF Reclaim, TypeOK
    <2>6. ASSUME NEW p \in Process, ProceedWithout(p)
          PROVE  TypeOK'
      BY <1>2, <2>6 DEF ProceedWithout, TypeOK, files, Cause
    <2>7. ASSUME NEW p \in Process, Recheck(p)
          PROVE  TypeOK'
      <3>1. pc' \in [Process -> Place] /\ causes' \subseteq Cause
        BY <1>2, <2>7, HealthyGoes DEF Recheck, Place
      <3> QED
        BY <1>2, <2>7, <3>1 DEF Recheck, TypeOK, Place, files
    <2>8. ASSUME NEW p \in Process, Announce(p) \/ Release(p)
          PROVE  TypeOK'
      BY <1>2, <2>8 DEF Announce, Release, TypeOK, Cause
    <2>9. ASSUME NEW p \in Process, StartFails(p) \/ Crash(p)
          PROVE  TypeOK'
      BY <1>2, <2>9 DEF StartFails, Crash, TypeOK, files, Cause
    <2>10. ASSUME NEW p \in Process, ServerExits(p)
           PROVE  TypeOK'
      BY <1>2, <2>10 DEF ServerExits, TypeOK, files
    <2>11. CASE Elapse
      BY <1>2, <2>11 DEF Elapse, TypeOK, files
    <2>12. CASE UNCHANGED vars
      BY <1>2, <2>12 DEF vars, TypeOK
    <2> QED
      BY <1>2, <2>1, <2>2, <2>3, <2>4, <2>5, <2>6, <2>7, <2>8, <2>9, <2>10, <2>11, <2>12
      DEF Next, Progress
  <1> QED
    BY <1>1, <1>2, PTL DEF Spec

-----------------------------------------------------------------------------
(* The directory *)

\* A step that writes no lock takes a process into the critical section only by
\* way of going on without it.
LEMMA StepsInside ==
    ASSUME TypeOK, [Next]_vars
    PROVE  \/ /\ lock' = lock /\ causes \subseteq causes'
              /\ \A p \in Process : pc'[p] \in Inside =>
                    pc[p] \in Inside \/ "no_lock" \in causes'
           \/ \E p \in Process : Acquire(p) \/ Reclaim(p) \/ Release(p)
  <1> DEFINE Goal == /\ lock' = lock /\ causes \subseteq causes'
                     /\ \A p \in Process : pc'[p] \in Inside =>
                           pc[p] \in Inside \/ "no_lock" \in causes'
  <1>1. ASSUME NEW p \in Process, Check(p) \/ Recheck(p)
        PROVE  Goal
    BY <1>1, HealthyGoes DEF Check, Recheck, Place, files, TypeOK
  <1>2. ASSUME NEW p \in Process, \/ EnsureStarted(p) \/ FileExists(p) \/ Stat(p)
                                 \/ ReclaimFails(p) \/ Sleep(p)
        PROVE  Goal
    BY <1>2 DEF EnsureStarted, FileExists, Stat, ReclaimFails, Sleep, files, TypeOK
  <1>3. ASSUME NEW p \in Process, ProceedWithout(p)
        PROVE  Goal
    BY <1>3 DEF ProceedWithout, files, TypeOK
  <1>4. ASSUME NEW p \in Process, Spawn(p) \/ Announce(p) \/ StartFails(p) \/ Crash(p)
        PROVE  Goal
    BY <1>4 DEF Spawn, Announce, StartFails, Crash, files, TypeOK
  <1>5. ASSUME NEW p \in Process, ServerExits(p)
        PROVE  Goal
    BY <1>5 DEF ServerExits, files
  <1>6. CASE Elapse \/ UNCHANGED vars
    BY <1>6 DEF Elapse, files, vars
  <1> QED
    BY <1>1, <1>2, <1>3, <1>4, <1>5, <1>6 DEF Next, Progress

\* Unless a process went on without the lock or the lock was reclaimed, whoever is
\* inside holds the directory.
THEOREM InsideHoldsItsLock == Spec => []InsideHoldsLock
  <1>1. Init => InsideHoldsLock
    BY DEF Init, InsideHoldsLock
  <1>2. ASSUME TypeOK, InsideHoldsLock, [Next]_vars
        PROVE  InsideHoldsLock'
    <2>1. ASSUME /\ lock' = lock /\ causes \subseteq causes'
                 /\ \A p \in Process : pc'[p] \in Inside =>
                       pc[p] \in Inside \/ "no_lock" \in causes'
          PROVE  InsideHoldsLock'
      BY <1>2, <2>1 DEF InsideHoldsLock
    <2>2. ASSUME NEW p \in Process, Acquire(p)
          PROVE  InsideHoldsLock'
      BY <1>2, <2>2, StartupAssumption DEF Acquire, InsideHoldsLock, TypeOK
    <2>3. ASSUME NEW p \in Process, Reclaim(p)
          PROVE  InsideHoldsLock'
      <3> SUFFICES ASSUME causes' \subseteq {"health_timeout", "unannounced", "release_failed"}
                   PROVE  \A q \in Process : pc'[q] \notin Inside
        BY DEF InsideHoldsLock
      <3>1. /\ pc \in [Process -> Place] /\ pc' = [pc EXCEPT ![p] = "mkdir"]
            /\ causes' = causes \cup Removal
        BY <1>2, <2>3 DEF Reclaim, TypeOK, Place
      <3>2. \A q \in Process : pc[q] \in Inside => lock = q
        BY <1>2, <3>1 DEF InsideHoldsLock
      <3>3. lock = NoProcess \/ pc[lock] \notin Inside
        BY <3>1 DEF Removal
      <3> QED
        BY <3>1, <3>2, <3>3, StartupAssumption
    <2>4. ASSUME NEW p \in Process, Release(p)
          PROVE  InsideHoldsLock'
      BY <1>2, <2>4 DEF Release, InsideHoldsLock, TypeOK
    <2> QED
      BY <1>2, <2>1, <2>2, <2>3, <2>4, StepsInside
  <1> QED
    BY <1>1, <1>2, StartupTypes, PTL DEF Spec

\* Unless a release has failed, the maker of the directory knows that it is, and is
\* inside or dead.
OrphanInv ==
    \/ "release_failed" \in causes
    \/ lock # NoProcess => acquired[lock] /\ pc[lock] \in Inside \cup {"dead"}

\* Whatever way ensure_started ends, it leaves no lock of its own behind: a
\* directory outlives the call of its maker only if that was killed or its rmdir
\* refused.
THEOREM LocksAreOrphanedByCrash == Spec => []OrphanedByCrashOnly
  <1>1. Init => OrphanInv
    BY DEF Init, OrphanInv
  <1>2. ASSUME TypeOK, OrphanInv, [Next]_vars
        PROVE  OrphanInv'
    <2> USE StartupAssumption
    <2>1. ASSUME NEW p \in Process, Check(p) \/ Recheck(p)
          PROVE  OrphanInv'
      <3>1. /\ lock' = lock /\ acquired' = acquired /\ causes \subseteq causes'
            /\ \A q \in Process : q # p => pc'[q] = pc[q]
            /\ pc[p] \in Inside \cup {"dead"} => pc'[p] \in Inside \cup {"dead"}
        BY <1>2, <2>1, HealthyGoes DEF Check, Recheck, Place, files
      <3> QED
        BY <1>2, <3>1 DEF OrphanInv, TypeOK
    <2>2. ASSUME NEW p \in Process,
                 \/ EnsureStarted(p) \/ FileExists(p) \/ Stat(p) \/ ReclaimFails(p) \/ Sleep(p)
                 \/ ProceedWithout(p) \/ Spawn(p) \/ Announce(p) \/ StartFails(p) \/ Crash(p)
          PROVE  OrphanInv'
      <3>1. /\ lock' = lock /\ acquired' = acquired /\ causes \subseteq causes'
            /\ \E place : pc' = [pc EXCEPT ![p] = place]
                         /\ (pc[p] \in Inside \cup {"dead"} => place \in Inside \cup {"dead"})
        BY <2>2 DEF EnsureStarted, FileExists, Stat, ReclaimFails, Sleep, ProceedWithout, Spawn,
                    Announce, StartFails, Crash, files
      <3> QED
        BY <1>2, <3>1 DEF OrphanInv, TypeOK
    <2>3. ASSUME NEW p \in Process, Acquire(p)
          PROVE  OrphanInv'
      BY <1>2, <2>3 DEF Acquire, OrphanInv, TypeOK
    <2>4. ASSUME NEW p \in Process, Reclaim(p)
          PROVE  OrphanInv'
      BY <1>2, <2>4 DEF Reclaim, OrphanInv
    <2>5. ASSUME NEW p \in Process, Release(p)
          PROVE  OrphanInv'
      BY <1>2, <2>5 DEF Release, OrphanInv, TypeOK
    <2>6. ASSUME NEW p \in Process, ServerExits(p)
          PROVE  OrphanInv'
      BY <1>2, <2>6 DEF ServerExits, files, OrphanInv
    <2>7. CASE Elapse \/ UNCHANGED vars
      BY <1>2, <2>7 DEF Elapse, files, vars, OrphanInv
    <2> QED
      BY <1>2, <2>1, <2>2, <2>3, <2>4, <2>5, <2>6, <2>7 DEF Next, Progress
  <1>3. OrphanInv => OrphanedByCrashOnly
    BY DEF OrphanInv, OrphanedByCrashOnly
  <1> QED
    BY <1>1, <1>2, <1>3, StartupTypes, PTL DEF Spec

-----------------------------------------------------------------------------
(* One server *)

\* What may have gone wrong without a second server being in sight.
Innocent == {"release_failed"}
USE DEF Innocent

\* As long as nothing has gone wrong, every server is the one that runtime.json
\* names or is about to be named, and whoever decides to spawn has seen that there
\* is none.
ServersInv ==
    causes \subseteq Innocent =>
        /\ \A s \in servers : s = metadata \/ pc[s] = "announce"
        /\ \A p \in Process : pc[p] = "spawn" => servers = {}
        /\ \A p \in Process : pc[p] = "announce" => servers \subseteq {p}

\* A step outside the critical section: it starts no server, names none, and
\* takes nobody to a place where a server is started.
LEMMA SameServers ==
    ASSUME TypeOK, ServersInv, causes \subseteq causes', servers' \subseteq servers,
           metadata' = metadata,
           causes' \subseteq Innocent =>
               \A p \in Process :
                   /\ pc'[p] \in {"spawn", "announce"} => pc'[p] = pc[p]
                   /\ pc[p] = "announce" => pc'[p] = "announce" \/ p \notin servers'
    PROVE  ServersInv'
  <1> SUFFICES ASSUME causes' \subseteq Innocent
               PROVE  ServersInv'
    BY DEF ServersInv
  <1>1. causes \subseteq Innocent
    OBVIOUS
  <1> QED
    BY <1>1 DEF ServersInv, TypeOK

LEMMA NextServersInv ==
    ASSUME TypeOK, InsideHoldsLock, ServersInv, [Next]_vars
    PROVE  ServersInv'
  <1> USE StartupAssumption
  <1>0. pc \in [Process -> Place] /\ servers \subseteq Process
    BY DEF TypeOK, Place
  <1>1. ASSUME NEW p \in Process, Check(p)
        PROVE  ServersInv'
    BY <1>1, HealthyGoes, SameServers DEF Check, Place, files
  <1>2. ASSUME NEW p \in Process,
               \/ EnsureStarted(p) \/ FileExists(p) \/ Stat(p) \/ ReclaimFails(p) \/ Sleep(p)
               \/ ProceedWithout(p)
               \/ StartFails(p) \/ Crash(p) \/ Acquire(p) \/ Reclaim(p) \/ Release(p)
        PROVE  ServersInv'
    <2>1. causes \subseteq causes' /\ servers' = servers /\ metadata' = metadata
      BY <1>2 DEF EnsureStarted, FileExists, Stat, ReclaimFails, Sleep, ProceedWithout, StartFails,
                  Crash, Acquire, Reclaim, Release, files
    <2>2. \E place : pc' = [pc EXCEPT ![p] = place] /\ place \notin {"spawn", "announce"}
      BY <1>2 DEF EnsureStarted, FileExists, Stat, ReclaimFails, Sleep, ProceedWithout, StartFails,
                  Crash, Acquire, Reclaim, Release, files
    <2>3. pc[p] = "announce" /\ causes' \subseteq Innocent => p \notin servers
      BY <1>2 DEF EnsureStarted, FileExists, Stat, ReclaimFails, Sleep, ProceedWithout, StartFails,
                  Crash, Acquire, Reclaim, Release, files
    <2>4. causes' \subseteq Innocent =>
            \A q \in Process :
                /\ pc'[q] \in {"spawn", "announce"} => pc'[q] = pc[q]
                /\ pc[q] = "announce" => pc'[q] = "announce" \/ q \notin servers'
      BY <1>0, <2>1, <2>2, <2>3
    <2> QED
      BY <2>1, <2>4, SameServers
  <1>3. ASSUME NEW p \in Process, Recheck(p)
        PROVE  ServersInv'
    <2> SUFFICES ASSUME causes' \subseteq Innocent
                 PROVE  ServersInv'
      BY DEF ServersInv
    <2>1. /\ causes \subseteq Innocent /\ servers' = servers /\ metadata' = metadata /\ pc[p] = "recheck"
          /\ \A q \in Process : q # p => pc'[q] = pc[q]
          /\ pc'[p] = "release" \/ (pc'[p] = "spawn" /\ metadata \notin servers)
      BY <1>3, HealthyGoes DEF Recheck, Place, files
    <2>2. lock = p
      BY <2>1 DEF InsideHoldsLock
    <2>3. \A q \in Process : pc[q] = "announce" => q = p
      BY <2>1, <2>2 DEF InsideHoldsLock
    <2>4. metadata \notin servers => servers = {}
      BY <1>0, <2>1, <2>3 DEF ServersInv
    <2> QED
      BY <1>0, <2>1, <2>4 DEF ServersInv
  <1>4. ASSUME NEW p \in Process, Spawn(p)
        PROVE  ServersInv'
    <2> SUFFICES ASSUME causes' \subseteq Innocent
                 PROVE  ServersInv'
      BY DEF ServersInv
    <2>1. /\ causes \subseteq Innocent /\ pc[p] = "spawn" /\ servers' = servers \cup {p}
          /\ pc' = [pc EXCEPT ![p] = "announce"] /\ metadata' = metadata
      BY <1>4 DEF Spawn, files
    <2>2. servers = {} /\ lock = p
      BY <2>1 DEF ServersInv, InsideHoldsLock
    <2>3. \A q \in Process : q # p => pc[q] \notin Inside
      BY <2>1, <2>2 DEF InsideHoldsLock
    <2> QED
      BY <1>0, <2>1, <2>2, <2>3 DEF ServersInv
  <1>5. ASSUME NEW p \in Process, Announce(p)
        PROVE  ServersInv'
    <2> SUFFICES ASSUME causes' \subseteq Innocent
                 PROVE  ServersInv'
      BY DEF ServersInv
    <2>1. /\ causes \subseteq Innocent /\ pc[p] = "announce" /\ servers' = servers
          /\ pc' = [pc EXCEPT ![p] = "release"] /\ metadata' = p
      BY <1>5 DEF Announce
    <2>2. servers \subseteq {p} /\ lock = p
      BY <2>1 DEF ServersInv, InsideHoldsLock
    <2>3. \A q \in Process : q # p => pc[q] \notin Inside
      BY <2>1, <2>2 DEF InsideHoldsLock
    <2> QED
      BY <1>0, <2>1, <2>2, <2>3 DEF ServersInv
  <1>6. ASSUME NEW p \in Process, ServerExits(p)
        PROVE  ServersInv'
    BY <1>6, SameServers DEF ServerExits, files
  <1>7. CASE Elapse \/ UNCHANGED vars
    BY <1>7, SameServers DEF Elapse, files, vars
  <1> QED
    BY <1>1, <1>2, <1>3, <1>4, <1>5, <1>6, <1>7 DEF Next, Progress

\* Two servers on one database need a cause.
THEOREM TwoServersAreCaused == Spec => []TwoServersHaveCause
  <1>1. Init => ServersInv
    BY DEF Init, ServersInv
  <1>2. TypeOK /\ ServersInv => TwoServersHaveCause
    <2> SUFFICES ASSUME TypeOK, ServersInv, causes \subseteq Innocent
                 PROVE  ~(Cardinality(servers) > 1)
      BY DEF TwoServersHaveCause
    <2>1. servers \subseteq Process
      BY DEF TypeOK
    <2>2. \E s \in Process \cup {NoProcess} : servers \subseteq {s}
      <3>1. CASE \E s \in servers : pc[s] = "announce"
        BY <2>1, <3>1 DEF ServersInv
      <3>2. CASE \A s \in servers : s = metadata
        BY <3>2 DEF TypeOK
      <3> QED
        BY <3>1, <3>2 DEF ServersInv
    <2>3. PICK s : servers = {} \/ servers = {s}
      BY <2>2
    <2>4. Cardinality({}) = 0 /\ Cardinality({s}) = 1
      BY FS_EmptySet, FS_Singleton
    <2>5. Cardinality(servers) = 0 \/ Cardinality(servers) = 1
      BY <2>3, <2>4
    <2> QED
      BY <2>5
  <1> QED
    BY <1>1, <1>2, NextServersInv, StartupTypes, InsideHoldsItsLock, PTL DEF Spec

=============================================================================
