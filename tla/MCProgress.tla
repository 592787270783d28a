------------------------------ MODULE MCProgress ------------------------------
(***************************************************************************)
(* The progress of tasks and of their instances, for TLC. A behaviour is one   *)
(* of the trigger loop on a chain of two tasks or one of the runtime of         *)
(* instances; the other part has nothing to do: there are no tasks, or the      *)
(* goroutines of the runtime were not started.                               *)
(*                                                                         *)
(* The trigger loop has two halves. In one the tasks of Cron have a cron       *)
(* expression, in the other none has: a task without one can lose an advance,   *)
(* and the runs of a cron task would fill the table and hide that.           *)
(***************************************************************************)
EXTENDS MCTaskCatalog

CONSTANTS w1, NoWorker, trigger, retrier, r2

VARIABLES part,    \* "cron", "plain" or "runtime"
          rows, threads, scan, inbox, exec, buf, ended   \* of the runtime

Plain == INSTANCE TaskCatalog WITH Cron <- {}

R == INSTANCE TaskRuntime WITH
        thr <- threads,
        Workers <- {w1}, Creators <- {trigger}, Retrier <- retrier,
        Reporters <- Reporters \cup {r2}, Cancellers <- {},
        MaxInstances <- 4, MaxRoots <- 2, MaxRetry <- 1, Backoff <- FALSE,
        RetryOn <- {"failed"}, Outcomes <- {"success", "failed"},
        Faults <- {"no_worker", "dispatch_error", "report_loss"}

runtimeVars == <<rows, threads, scan, inbox, exec, buf, ended>>

NotStarted ==
    /\ rows = [i \in R!Ids |-> R!NoRow]
    /\ threads = [t \in R!Threads |-> [R!Idle EXCEPT !.pc = "off"]]
    /\ scan = {} /\ inbox = {} /\ ended = {}
    /\ exec = [w \in {w1} |-> [i \in R!Ids |-> R!NoRun]]
    /\ buf = [w \in {w1} |-> [i \in R!Ids |-> "none"]]

NoTasks ==
    /\ task = [t \in Tasks |-> Absent] /\ due = [t \in Tasks |-> Absent]
    /\ deps = Upstream /\ inst = << >> /\ red = FALSE /\ wheel = {} /\ cached = {}
    /\ thr = [p \in Threads |-> Idle]
    /\ owed = [t \in Tasks |-> FALSE]

PartInit == \/ part \in {"cron", "plain"} /\ Init /\ NotStarted
            \/ part = "runtime" /\ NoTasks /\ R!Init

PartNext ==
    \/ part = "cron" /\ Next /\ UNCHANGED <<runtimeVars, part>>
    \/ part = "plain" /\ Plain!Next /\ UNCHANGED <<runtimeVars, part>>
    \/ part = "runtime" /\ R!Next /\ UNCHANGED <<vars, part>>

(* Only the end of a run differs between the halves.                        *)
PartLoopStep == \/ part = "cron" /\ LoopStep
                \/ part = "plain" /\ Plain!LoopStep

(* The fairness of FairSpec without an engine and without requests, and of    *)
(* the runtime.                                                            *)
PartSpec ==
    /\ PartInit /\ [][PartNext]_<<vars, runtimeVars, part>>
    /\ WF_vars(PartLoopStep) /\ WF_vars(WarmDueTasks)
    /\ \A t \in Tasks : WF_vars(FallsDue(t))
    /\ \A r \in Reporters : WF_vars(ReportStep(r))
    /\ R!Fairness

(* DueTaskRuns in both halves: the loop runs every task that waits, but for    *)
(* one without a cron expression whose row it has pushed a year away.        *)
LoopRunsDueTasks ==
    /\ part = "cron" => DueTaskRuns
    /\ part = "plain" => Plain!DueTaskRuns

(* Report, Buffer and Flush: the result of an execution gets on record.    *)
ResultArrives == R!ResultArrives

(* ReportStatus and the retry loop: a failure with budget left is followed *)
(* by the execution of a retry.                                            *)
FailedRunsAgain == R!FailedRunsAgain
================================================================================
