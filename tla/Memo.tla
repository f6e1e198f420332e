-------------------------------- MODULE Memo --------------------------------
(***************************************************************************)
(* Memoized calls inside a task: TaskContext.run and arun, DurableEval.memo*)
(* and amemo (eval.py), memo_get and memo_put (sqlite.rs).                 *)
(*                                                                         *)
(* A task's callback makes Calls calls in turn, the next one depending on  *)
(* the results so far (an agent's turns).  A call is keyed by its position.*)
(* An Execution is one attempt to run the callback; a task has several, one*)
(* after the other, or at once after a lease ran out.  A result is named by*)
(* the execution that computed it.                                         *)
(*                                                                         *)
(* A memo is three steps that nothing holds together: ask the store, call  *)
(* the function, put the value.                                            *)
(***************************************************************************)
EXTENDS Naturals, Sequences

CONSTANTS
    Execution,  \* the executions of the task's callback
    Calls,      \* the number of memoized calls it makes
    Nothing,    \* no row for a key
    Raised      \* a call that raised, and the callback went on

ASSUME MemoAssumption ==
    /\ Nothing \notin Execution /\ Raised \notin Execution /\ Raised # Nothing
    /\ Calls \in Nat

VARIABLES
    memos,    \* per position, whose value table memos has
    results,  \* per execution, what its calls have given so far
    pc,       \* where an execution is
    causes    \* history: what may have mixed two executions up

vars == <<memos, results, pc, causes>>

Position == 1..Calls
Active == {"get", "compute", "put"}
Cause == {"overlap", "late_put", "caught"}

TypeOK ==
    /\ memos \in [Position -> Execution \cup {Nothing}]
    /\ results \in [Execution -> Seq(Execution \cup {Raised})]
    /\ \A e \in Execution : Len(results[e]) <= Calls
    /\ pc \in [Execution -> Active \cup {"idle", "lost_put", "over"}]
    /\ causes \subseteq Cause

Init ==
    /\ memos = [i \in Position |-> Nothing]
    /\ results = [e \in Execution |-> <<>>]
    /\ pc = [e \in Execution |-> "idle"]
    /\ causes = {}

\* _next_key: the position of the call that execution e is at.
Seqno(e) == Len(results[e]) + 1

Goto(e, place) == pc' = [pc EXCEPT ![e] = place]

\* A call gives its result: on to the next call, or the callback returns.
Receive(e, result) ==
    /\ results' = [results EXCEPT ![e] = Append(@, result)]
    /\ Goto(e, IF Seqno(e) = Calls THEN "over" ELSE "get")

-----------------------------------------------------------------------------
\* The task is begun again, perhaps while an earlier execution still runs.
Begin(e) ==
    /\ pc[e] = "idle"
    /\ Goto(e, IF Calls = 0 THEN "over" ELSE "get")
    /\ causes' = IF \E d \in Execution : pc[d] \in Active
                 THEN causes \cup {"overlap"} ELSE causes
    /\ UNCHANGED <<memos, results>>

Found(e) ==
    /\ pc[e] = "get"
    /\ memos[Seqno(e)] # Nothing
    /\ Receive(e, memos[Seqno(e)])
    /\ UNCHANGED <<memos, causes>>

\* Mutant: the key is never found again, as if it named the attempt.
NotFoundAlways(e) ==
    /\ pc[e] = "get"
    /\ Goto(e, "compute")
    /\ UNCHANGED <<memos, results, causes>>

NotFound(e) ==
    /\ pc[e] = "get"
    /\ memos[Seqno(e)] = Nothing
    /\ Goto(e, "compute")
    /\ UNCHANGED <<memos, results, causes>>

Compute(e) ==
    /\ pc[e] = "compute"
    /\ Goto(e, "put")
    /\ UNCHANGED <<memos, results, causes>>

\* Mutant: the exception is stored like a value.
CaughtIsStored(e) ==
    /\ pc[e] = "compute"
    /\ memos' = [memos EXCEPT ![Seqno(e)] = Raised]
    /\ Receive(e, Raised)
    /\ causes' = causes \cup {"caught"}

\* The function raises and the callback catches it: nothing is stored, and the
\* position is used up.
Caught(e) ==
    /\ pc[e] = "compute"
    /\ Receive(e, Raised)
    /\ causes' = causes \cup {"caught"}
    /\ UNCHANGED memos

\* Mutant: the value is not stored.
PutNothing(e) ==
    /\ pc[e] = "put"
    /\ Receive(e, e)
    /\ UNCHANGED <<memos, causes>>

\* The upsert replaces what another execution stored; this one goes on with its
\* own value.
Put(e) ==
    /\ pc[e] = "put"
    /\ memos' = [memos EXCEPT ![Seqno(e)] = e]
    /\ Receive(e, e)
    /\ UNCHANGED causes

-----------------------------------------------------------------------------
\* The execution ends early: an exception, or the process is killed.
End(e) ==
    /\ pc[e] \in Active
    /\ Goto(e, "over")
    /\ UNCHANGED <<memos, results, causes>>

\* The put raises in the client, or the process is killed while it is sent.
PutRaises(e) ==
    /\ pc[e] = "put"
    /\ Goto(e, "lost_put")
    /\ UNCHANGED <<memos, results, causes>>

\* It arrives all the same.  If others have begun, their view may differ.
PutArrivesLate(e) ==
    /\ pc[e] = "lost_put"
    /\ memos' = [memos EXCEPT ![Seqno(e)] = e]
    /\ Goto(e, "over")
    /\ causes' = IF \E d \in Execution \ {e} :
                        \/ Len(results[d]) >= Seqno(e)
                        \/ Seqno(d) = Seqno(e) /\ pc[d] \in {"compute", "put"}
                 THEN causes \cup {"late_put"} ELSE causes
    /\ UNCHANGED results

Next ==
    \E e \in Execution :
        \/ Begin(e)
        \/ Found(e)
        \/ NotFound(e)
        \/ Compute(e)
        \/ Caught(e)
        \/ Put(e)
        \/ End(e)
        \/ PutRaises(e)
        \/ PutArrivesLate(e)

Spec == Init /\ [][Next]_vars

-----------------------------------------------------------------------------
(* Properties *)

\* What is stored is one history: each value was computed by an execution that
\* had been given exactly the values stored at the positions before, so a replay
\* continues a conversation that took place.  Three things break it: executions
\* that overlap, a put that arrives after another execution went past it, and a
\* failed call that the callback caught.
StoredIsOneHistory ==
    causes = {} =>
        \A i \in Position : memos[i] # Nothing =>
            /\ Len(results[memos[i]]) >= i - 1
            /\ \A j \in 1..(i - 1) : memos[j] = results[memos[i]][j]

\* README: earlier calls are replayed instead of paid for again.  No execution
\* computes a call that any execution has been given a result for.
NeverPaidAgain ==
    [][\A e \in Execution : pc[e] = "get" /\ pc'[e] = "compute" =>
          \A d \in Execution :
              Len(results[d]) >= Seqno(e) => results[d][Seqno(e)] = Raised]_vars

=============================================================================
