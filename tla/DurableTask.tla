---------------------------- MODULE DurableTask ----------------------------
(***************************************************************************)
(* What the store promises about a task, with no leases, clients, clocks   *)
(* or policies: attempts are numbered 1, 2, ...; a task stays open until   *)
(* one attempt finishes it or it is given up; its output is the one that   *)
(* the last attempt started computed; and what is decided stays decided.   *)
(***************************************************************************)
EXTENDS Naturals

CONSTANT Task

VARIABLES
    started,  \* per task, the number of attempts started
    result,   \* "open", "done" or "failed"
    output    \* the attempt whose output is kept; 0: none

durableVars == <<started, result, output>>

TypeOK ==
    /\ started \in [Task -> Nat]
    /\ result \in [Task -> {"open", "done", "failed"}]
    /\ output \in [Task -> Nat]

Init ==
    /\ started = [t \in Task |-> 0]
    /\ result = [t \in Task |-> "open"]
    /\ output = [t \in Task |-> 0]

Start(t) ==
    /\ result[t] = "open"
    /\ started' = [started EXCEPT ![t] = @ + 1]
    /\ UNCHANGED <<result, output>>

Finish(t) ==
    /\ result[t] = "open"
    /\ started[t] > 0
    /\ result' = [result EXCEPT ![t] = "done"]
    /\ output' = [output EXCEPT ![t] = started[t]]
    /\ UNCHANGED started

GiveUp(t) ==
    /\ result[t] = "open"
    /\ result' = [result EXCEPT ![t] = "failed"]
    /\ UNCHANGED <<started, output>>

Next == \E t \in Task : Start(t) \/ Finish(t) \/ GiveUp(t)

Spec == Init /\ [][Next]_durableVars

=============================================================================
