------------------------------ MODULE RetryChain ------------------------------
(***************************************************************************)
(* What the scheduler and its workers promise of the instances of a task,  *)
(* without threads, messages, buffers or faults: a chain of attempts, the  *)
(* ways their executions ended, and the result on record for each.         *)
(***************************************************************************)
EXTENDS Naturals

CONSTANTS
    Instances,  \* positions in task_instance
    MaxRetry,   \* task.MaxRetry
    RetryOn,    \* statuses the task's retry policy answers with a retry
    Outcomes    \* statuses an execution can end with

VARIABLES
    chain,      \* which attempt of which instance a position holds
    results,    \* how executions of the instance have ended so far
    shown       \* the result on record; "open" before there is one

chainVars == <<chain, results, shown>>

Absent == [known |-> FALSE, n |-> 0, of |-> 0]

Known(k) == chain[k].known

Init == /\ chain = [k \in Instances |-> Absent]
        /\ results = [k \in Instances |-> {}]
        /\ shown = [k \in Instances |-> "open"]

(* A due task gets a first attempt.                                        *)
Start(k) ==
    /\ ~Known(k)
    /\ chain' = [chain EXCEPT ![k] = [known |-> TRUE, n |-> 0, of |-> 0]]
    /\ UNCHANGED <<results, shown>>

(* An attempt that did end in a retried status, with budget left, is       *)
(* followed by another one.                                                *)
Again(k, p) ==
    /\ ~Known(k) /\ Known(p)
    /\ results[p] \cap RetryOn # {}
    /\ chain[p].n < MaxRetry
    /\ chain' = [chain EXCEPT ![k] = [known |-> TRUE, n |-> chain[p].n + 1, of |-> p]]
    /\ UNCHANGED <<results, shown>>

(* An execution of the attempt ends.                                       *)
Finish(k, o) ==
    /\ Known(k)
    /\ results' = [results EXCEPT ![k] = @ \cup {o}]
    /\ UNCHANGED <<chain, shown>>

(* What goes on record is how an execution ended; but an attempt can be     *)
(* cancelled or reopened at any time, and a first attempt that could not be *)
(* dispatched is on record as failed.                                      *)
Earned(k, s) ==
    \/ s \in {"open", "cancelled"}
    \/ s \in results[k]
    \/ s = "failed" /\ chain[k].of = 0

Record(k, s) ==
    /\ Known(k)
    /\ Earned(k, s)
    /\ shown' = [shown EXCEPT ![k] = s]
    /\ UNCHANGED <<chain, results>>

Next == \E k \in Instances :
           \/ Start(k)
           \/ \E p \in Instances : Again(k, p)
           \/ \E o \in Outcomes : Finish(k, o)
           \/ \E s \in {"open", "cancelled"} \cup Outcomes : Record(k, s)

Spec == Init /\ [][Next]_chainVars

================================================================================
