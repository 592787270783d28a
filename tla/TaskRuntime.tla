------------------------------ MODULE TaskRuntime ------------------------------
(***************************************************************************)
(* The life of a task instance: the task_instance rows in MySQL, the      *)
(* goroutines of the scheduler that write them (trigger loop and engine    *)
(* callback, retry loop, status-report handlers, cancel handlers) and the  *)
(* executions on the workers.                                              *)
(*                                                                         *)
(* Every database statement and every RPC is a step of its own, because    *)
(* no statement of the repository is conditional on the row's status and   *)
(* nothing in the code holds a lock or a transaction across two of them.   *)
(***************************************************************************)
EXTENDS Naturals, FiniteSets

CONSTANTS
    Workers,        \* worker processes
    NoWorker,       \* the empty worker_id
    MaxInstances,   \* bound on task_instance rows
    MaxRoots,       \* bound on rows created by the trigger side
    MaxRetry,       \* task.MaxRetry
    RetryOn,        \* statuses the task's retry policy answers with a retry
    Backoff,        \* retryDelay(...) > 0: retries are deferred, not immediate
    Outcomes,       \* statuses an execution can end with
    Creators,       \* trigger loop, engine callback
    Retrier,        \* the retry loop
    Reporters,      \* slots for concurrent ReportStatus handlers
    Cancellers,     \* slots for concurrent CancelInstance handlers
    Faults          \* what the environment may do, a subset of AllFaults

Ids == 1 .. MaxInstances

Threads == Creators \cup {Retrier} \cup Reporters \cup Cancellers

Terminal == {"success", "failed", "timeout", "cancelled"}

Retryable == {"failed", "timeout"}

Statuses == {"none", "pending", "dispatched", "running", "retry_waiting"} \cup Terminal

AllFaults ==
    {"no_worker",         \* Pick finds no available worker
     "dispatch_error",    \* Dispatch fails and the worker never got the request
     "dispatch_timeout",  \* Dispatch fails although the worker got the request
     "report_loss",       \* a report never reaches the scheduler
     "report_timeout",    \* the worker gives up on a report still being handled
     "db",                \* a database statement fails
     "cancel",            \* users cancel instances
     "cancel_loss",       \* CancelDispatch does not reach the worker
     "crash",             \* the scheduler process restarts
     "worker_crash",      \* a worker process restarts
     "evict"}             \* the worker forgets a finished schedule id

ASSUME Parameters ==
    /\ NoWorker \notin Workers
    /\ MaxInstances \in Nat /\ MaxRoots \in Nat /\ MaxRetry \in Nat
    /\ RetryOn \subseteq Retryable
    /\ Backoff \in BOOLEAN
    /\ "failed" \in Outcomes /\ Outcomes \subseteq {"success", "failed", "timeout"}
    /\ Faults \subseteq AllFaults

ASSUME ThreadsDistinct ==
    /\ Retrier \notin Creators \cup Reporters \cup Cancellers
    /\ Creators \cap Reporters = {}
    /\ Creators \cap Cancellers = {}
    /\ Reporters \cap Cancellers = {}

VARIABLES
    rows,   \* task_instance table
    thr,    \* scheduler goroutines: where each one is and what it holds
    scan,   \* the retry loop's snapshot of due rows still to be handled
    inbox,  \* <<w, i>>: dispatch accepted by worker w, run() not yet started
    exec,   \* exec[w][i]: the run() goroutine of instance i on worker w
    buf,    \* buf[w][i]: status in the local store's file for i
    ended   \* history: <<w, i, o>> when an execution of i on w ended with o

vars == <<rows, thr, scan, inbox, exec, buf, ended>>

--------------------------------------------------------------------------------
(* Rows and goroutines.                                                    *)

NoRow == [status |-> "none", retryCount |-> 0, worker |-> NoWorker,
          due |-> TRUE, parent |-> 0]

Rows == [status : Statuses, retryCount : Nat, worker : Workers \cup {NoWorker},
         due : BOOLEAN, parent : Ids \cup {0}]

Exists(i) == rows[i].status # "none"

isTerminalStatus(s) == s \in Terminal

isRetryableStatus(s) == s \in Retryable

(* The auto-increment key: the least unused id.                            *)
Fresh(i) == /\ i \in Ids
            /\ ~Exists(i)
            /\ \A j \in Ids : j < i => Exists(j)

(* src, from, st: the report being handled; awaited: its sender still waits; *)
(* flush: it was sent from the local store; id, w: the dispatch under way.  *)
Idle == [pc |-> "idle", src |-> 0, from |-> NoWorker, st |-> "none",
         awaited |-> FALSE, flush |-> FALSE, id |-> 0, w |-> NoWorker]

PCs == {"idle", "read", "result", "retry", "create", "next", "pick", "write",
        "send", "fail", "notify", "cancel"}

ThreadStates ==
    [pc : PCs, src : Ids \cup {0}, from : Workers \cup {NoWorker},
     st : {"none", "running"} \cup Outcomes, awaited : BOOLEAN, flush : BOOLEAN,
     id : Ids \cup {0}, w : Workers \cup {NoWorker}]

NoRun == [pc |-> "none", out |-> "none"]

RunPCs == {"none", "started", "waitRunning", "executing", "finished",
           "waitFinal", "done"}

Runs == [pc : RunPCs, out : {"none"} \cup Outcomes]

At(t, pc) == thr[t].pc = pc

Goto(t, pc) == thr' = [thr EXCEPT ![t].pc = pc]

Stop(t) == thr' = [thr EXCEPT ![t] = Idle]

(* UpdateInstanceStatus, UpdateInstanceDispatch, UpdateInstanceResult: each *)
(* is one unconditional UPDATE ... WHERE id.                               *)
UpdateInstanceStatus(i, s) == rows' = [rows EXCEPT ![i].status = s]

(* Variant: a dispatch counts as an attempt.                               *)
UpdateInstanceDispatchCounts(i, w) ==
    rows' = [rows EXCEPT ![i].status = "dispatched", ![i].worker = w,
                         ![i].retryCount = @ + 1]

UpdateInstanceDispatch(i, w) ==
    rows' = [rows EXCEPT ![i].status = "dispatched", ![i].worker = w]

UpdateInstanceResult(i, s) == rows' = [rows EXCEPT ![i].status = s]

CreateInstance(i, s, n, isDue, p) ==
    rows' = [rows EXCEPT ![i] = [status |-> s, retryCount |-> n,
                                 worker |-> NoWorker, due |-> isDue, parent |-> p]]

(* A handler's request context dies with the client that stopped waiting    *)
(* for the reply; from then on any of its calls may fail. Any statement of  *)
(* any goroutine fails while the database is down.                         *)
ContextDead(t) == t \in Reporters /\ ~thr[t].awaited

CallFails(t) == "db" \in Faults \/ ContextDead(t)

Init == /\ rows = [i \in Ids |-> NoRow]
        /\ thr = [t \in Threads |-> Idle]
        /\ scan = {}
        /\ inbox = {}
        /\ exec = [w \in Workers |-> [i \in Ids |-> NoRun]]
        /\ buf = [w \in Workers |-> [i \in Ids |-> "none"]]
        /\ ended = {}

--------------------------------------------------------------------------------
(* Dispatch: the request reaches the worker or not, and the caller sees     *)
(* success or an error; a timeout is an error after delivery.              *)

DispatchOK(t) == inbox' = inbox \cup {<<thr[t].w, thr[t].id>>}

DispatchErr(t) == \/ /\ "dispatch_error" \in Faults \/ ContextDead(t)
                     /\ UNCHANGED inbox
                  \/ /\ "dispatch_timeout" \in Faults \/ ContextDead(t)
                     /\ DispatchOK(t)

--------------------------------------------------------------------------------
(* Trigger loop and engine callback: one due task, one instance.           *)

Roots == {i \in Ids : Exists(i) /\ rows[i].parent = 0}

TriggerCreate(c) ==
    /\ At(c, "idle")
    /\ Cardinality(Roots) < MaxRoots
    /\ \E i \in Ids :
          /\ Fresh(i)
          /\ CreateInstance(i, "pending", 0, TRUE, 0)
          /\ thr' = [thr EXCEPT ![c] = [Idle EXCEPT !.pc = "pick", !.id = i]]
    /\ UNCHANGED <<scan, inbox, exec, buf, ended>>

(* No worker, or Pick failed: the instance stays behind as pending.        *)
TriggerNoWorker(c) ==
    /\ At(c, "pick")
    /\ Faults \cap {"no_worker", "db"} # {}
    /\ Stop(c)
    /\ UNCHANGED <<rows, scan, inbox, exec, buf, ended>>

TriggerPick(c) ==
    /\ At(c, "pick")
    /\ \E w \in Workers : thr' = [thr EXCEPT ![c].pc = "write", ![c].w = w]
    /\ UNCHANGED <<rows, scan, inbox, exec, buf, ended>>

(* The error of UpdateInstanceDispatch is ignored.                         *)
TriggerWrite(c) ==
    /\ At(c, "write")
    /\ \/ UpdateInstanceDispatch(thr[c].id, thr[c].w)
       \/ CallFails(c) /\ UNCHANGED rows
    /\ Goto(c, "send")
    /\ UNCHANGED <<scan, inbox, exec, buf, ended>>

TriggerSend(c) ==
    /\ At(c, "send")
    /\ \/ DispatchOK(c) /\ Stop(c)
       \/ DispatchErr(c) /\ Goto(c, "fail")
    /\ UNCHANGED <<rows, scan, exec, buf, ended>>

(* dispatch_failed: the row is settled as failed, without a retry.         *)
TriggerFail(c) ==
    /\ At(c, "fail")
    /\ \/ UpdateInstanceResult(thr[c].id, "failed")
       \/ CallFails(c) /\ UNCHANGED rows
    /\ Stop(c)
    /\ UNCHANGED <<scan, inbox, exec, buf, ended>>

Trigger(c) == \/ TriggerCreate(c) \/ TriggerNoWorker(c) \/ TriggerPick(c)
              \/ TriggerWrite(c) \/ TriggerSend(c) \/ TriggerFail(c)

--------------------------------------------------------------------------------
(* Retry loop: a snapshot of the due retry_waiting rows, handled in order. *)

(* The loop turns to the next instance of its snapshot.                    *)
Continue == thr' = [thr EXCEPT ![Retrier] = [Idle EXCEPT !.pc = "next"]]

(* Variants of the retry query that select rows of one more status.        *)
DueRetriesDispatched ==
    {i \in Ids : rows[i].status \in {"retry_waiting", "dispatched"} /\ rows[i].due}

DueRetriesFailed ==
    {i \in Ids : rows[i].status \in {"retry_waiting", "failed"} /\ rows[i].due}

DueRetries == {i \in Ids : rows[i].status = "retry_waiting" /\ rows[i].due}

(* next_retry_time of a deferred retry passes.                             *)
RetryFallsDue(i) ==
    /\ Exists(i) /\ ~rows[i].due
    /\ rows' = [rows EXCEPT ![i].due = TRUE]
    /\ UNCHANGED <<thr, scan, inbox, exec, buf, ended>>

RetryScan ==
    /\ At(Retrier, "idle")
    /\ scan' = DueRetries
    /\ Continue
    /\ UNCHANGED <<rows, inbox, exec, buf, ended>>

RetryDone ==
    /\ At(Retrier, "next")
    /\ scan = {}
    /\ Stop(Retrier)
    /\ UNCHANGED <<rows, scan, inbox, exec, buf, ended>>

(* GetTask: on error the loop goes on with the next instance.              *)
RetryNext ==
    /\ At(Retrier, "next")
    /\ \E i \in scan :
          /\ \A j \in scan : i <= j
          /\ scan' = scan \ {i}
          /\ \/ thr' = [thr EXCEPT ![Retrier].pc = "pick", ![Retrier].id = i]
             \/ CallFails(Retrier) /\ UNCHANGED thr
    /\ UNCHANGED <<rows, inbox, exec, buf, ended>>

RetryPick ==
    /\ At(Retrier, "pick")
    /\ \E w \in Workers :
          thr' = [thr EXCEPT ![Retrier].pc = "write", ![Retrier].w = w]
    /\ UNCHANGED <<rows, scan, inbox, exec, buf, ended>>

(* No worker ends the scan; another error of Pick skips the instance.      *)
RetryNoWorker ==
    /\ At(Retrier, "pick")
    /\ \/ "no_worker" \in Faults /\ scan' = {} /\ Stop(Retrier)
       \/ CallFails(Retrier) /\ UNCHANGED scan /\ Continue
    /\ UNCHANGED <<rows, inbox, exec, buf, ended>>

(* The row is not looked at again: whatever happened to it since the scan, *)
(* it becomes dispatched.                                                  *)
RetryWrite ==
    /\ At(Retrier, "write")
    /\ \/ UpdateInstanceDispatch(thr[Retrier].id, thr[Retrier].w) /\ Goto(Retrier, "send")
       \/ CallFails(Retrier) /\ UNCHANGED rows /\ Continue
    /\ UNCHANGED <<scan, inbox, exec, buf, ended>>

RetrySend ==
    /\ At(Retrier, "send")
    /\ \/ DispatchOK(Retrier) /\ Continue
       \/ DispatchErr(Retrier) /\ Goto(Retrier, "fail")
    /\ UNCHANGED <<rows, scan, exec, buf, ended>>

(* Variant: settle the row as the trigger side does.                       *)
RetryFailSettles ==
    /\ At(Retrier, "fail")
    /\ UpdateInstanceResult(thr[Retrier].id, "failed")
    /\ Continue
    /\ UNCHANGED <<scan, inbox, exec, buf, ended>>

RetryFail ==
    /\ At(Retrier, "fail")
    /\ \/ UpdateInstanceStatus(thr[Retrier].id, "retry_waiting")
       \/ CallFails(Retrier) /\ UNCHANGED rows
    /\ Continue
    /\ UNCHANGED <<scan, inbox, exec, buf, ended>>

Retry == \/ RetryScan \/ RetryDone \/ RetryNext \/ RetryPick \/ RetryNoWorker
         \/ RetryWrite \/ RetrySend \/ RetryFail

--------------------------------------------------------------------------------
(* ReportStatus, from the worker's call to the reply.                      *)

(* The reply (or its absence) as the worker sees it: a running report,      *)
(* answered or not, is followed by the execution; a final report that was   *)
(* answered is removed from the local store, one that was not is buffered   *)
(* there. The flush loop leaves the file where it is when delivery fails.   *)
Reply(r, ok) ==
    LET w == thr[r].from  i == thr[r].src  s == thr[r].st  IN
    IF ~thr[r].awaited
    THEN UNCHANGED <<exec, buf>>
    ELSE /\ exec' = IF thr[r].flush THEN exec
                    ELSE [exec EXCEPT ![w][i].pc =
                             IF s = "running" THEN "executing" ELSE "done"]
         /\ buf' = IF s = "running" \/ (thr[r].flush /\ ~ok) THEN buf
                   ELSE [buf EXCEPT ![w][i] = IF ok THEN "none" ELSE s]

(* A handler starts on a report of worker w about instance i.              *)
Handle(r, w, i, s, isFlush) ==
    /\ At(r, "idle")
    /\ thr' = [thr EXCEPT ![r] = [Idle EXCEPT !.pc = "read", !.src = i, !.from = w,
                                  !.st = s, !.awaited = TRUE, !.flush = isFlush]]

(* Variant: the check for a terminal status is missing.                    *)
ReportReadUnchecked(r) ==
    /\ At(r, "read")
    /\ Goto(r, "result")
    /\ UNCHANGED <<rows, scan, inbox, exec, buf, ended>>

(* GetInstanceByScheduleID and the check for a terminal status.            *)
ReportRead(r) ==
    /\ At(r, "read")
    /\ IF isTerminalStatus(rows[thr[r].src].status)
       THEN Reply(r, TRUE) /\ Stop(r)
       ELSE Goto(r, "result") /\ UNCHANGED <<exec, buf>>
    /\ UNCHANGED <<rows, scan, inbox, ended>>

(* UpdateInstanceResult, whatever the row holds by now. A running report is *)
(* then answered; a final one goes on to the worker's load and the retry.   *)
ReportResult(r) ==
    /\ At(r, "result")
    /\ UpdateInstanceResult(thr[r].src, thr[r].st)
    /\ IF thr[r].st = "running"
       THEN Reply(r, TRUE) /\ Stop(r)
       ELSE Goto(r, "retry") /\ UNCHANGED <<exec, buf>>
    /\ UNCHANGED <<scan, inbox, ended>>

(* Variants: the status is not looked at; one attempt too few.             *)
retryWantedAnyStatus(i, s) == rows[i].retryCount < MaxRetry

(* retryIfNeeded up to the decision: status, retry count, error codes.     *)
retryWanted(i, s) == /\ isRetryableStatus(s)
                     /\ rows[i].retryCount < MaxRetry
                     /\ s \in RetryOn

ReportDecide(r) ==
    /\ At(r, "retry")
    /\ IF retryWanted(thr[r].src, thr[r].st)
       THEN Goto(r, "create") /\ UNCHANGED <<exec, buf>>
       ELSE Reply(r, TRUE) /\ Stop(r)
    /\ UNCHANGED <<rows, scan, inbox, ended>>

(* The retry row: deferred (retry_waiting, not due) or for dispatch now. The *)
(* INSERT may succeed and the SELECT that follows it in CreateInstance fail. *)
ReportCreate(r) ==
    /\ At(r, "create")
    /\ \E i \in Ids :
          /\ Fresh(i)
          /\ CreateInstance(i, IF Backoff THEN "retry_waiting" ELSE "pending",
                            rows[thr[r].src].retryCount + 1, ~Backoff, thr[r].src)
          /\ IF Backoff
             THEN /\ \E ok \in BOOLEAN : (ok \/ CallFails(r)) /\ Reply(r, ok)
                  /\ Stop(r)
             ELSE /\ thr' = [thr EXCEPT ![r].pc = "pick", ![r].id = i]
                  /\ UNCHANGED <<exec, buf>>
    /\ UNCHANGED <<scan, inbox, ended>>

ReportPick(r) ==
    /\ At(r, "pick")
    /\ \E w \in Workers : thr' = [thr EXCEPT ![r].pc = "write", ![r].w = w]
    /\ UNCHANGED <<rows, scan, inbox, exec, buf, ended>>

(* Variant: the row is left pending, as the trigger side leaves it.        *)
ReportNoWorkerPending(r) ==
    /\ At(r, "pick")
    /\ "no_worker" \in Faults
    /\ Reply(r, TRUE) /\ Stop(r)
    /\ UNCHANGED <<rows, scan, inbox, ended>>

(* An immediate retry that finds no worker is left to the retry loop.      *)
ReportNoWorker(r) ==
    /\ At(r, "pick")
    /\ "no_worker" \in Faults
    /\ \/ UpdateInstanceStatus(thr[r].id, "retry_waiting")
       \/ CallFails(r) /\ UNCHANGED rows
    /\ Reply(r, TRUE) /\ Stop(r)
    /\ UNCHANGED <<scan, inbox, ended>>

ReportWrite(r) ==
    /\ At(r, "write")
    /\ UpdateInstanceDispatch(thr[r].id, thr[r].w)
    /\ Goto(r, "send")
    /\ UNCHANGED <<scan, inbox, exec, buf, ended>>

ReportSend(r) ==
    /\ At(r, "send")
    /\ \/ DispatchOK(r) /\ Reply(r, TRUE) /\ Stop(r)
       \/ DispatchErr(r) /\ Goto(r, "fail") /\ UNCHANGED <<exec, buf>>
    /\ UNCHANGED <<rows, scan, ended>>

(* The error of UpdateInstanceStatus is ignored.                           *)
ReportFail(r) ==
    /\ At(r, "fail")
    /\ \/ UpdateInstanceStatus(thr[r].id, "retry_waiting")
       \/ CallFails(r) /\ UNCHANGED rows
    /\ Reply(r, TRUE) /\ Stop(r)
    /\ UNCHANGED <<scan, inbox, ended>>

(* A failing statement returns its error to the worker at once, also after *)
(* the result was written and before the retry was created.               *)
ReportAbort(r) ==
    /\ thr[r].pc \in {"read", "result", "retry", "create", "pick", "write"}
    /\ CallFails(r)
    /\ Reply(r, FALSE) /\ Stop(r)
    /\ UNCHANGED <<rows, scan, inbox, ended>>

(* The worker's client stops waiting; the handler does not notice.         *)
ReportTimeout(r) ==
    /\ "report_timeout" \in Faults
    /\ thr[r].awaited
    /\ Reply(r, FALSE)
    /\ thr' = [thr EXCEPT ![r].awaited = FALSE]
    /\ UNCHANGED <<rows, scan, inbox, ended>>

ReportStatus(r) == \/ ReportRead(r) \/ ReportResult(r) \/ ReportDecide(r)
                   \/ ReportCreate(r) \/ ReportPick(r) \/ ReportNoWorker(r)
                   \/ ReportWrite(r) \/ ReportSend(r) \/ ReportFail(r)
                   \/ ReportAbort(r)

--------------------------------------------------------------------------------
(* CancelInstance.                                                         *)

CancelRead(c, i) ==
    /\ "cancel" \in Faults
    /\ At(c, "idle")
    /\ Exists(i) /\ ~isTerminalStatus(rows[i].status)
    /\ thr' = [thr EXCEPT ![c] = [Idle EXCEPT !.pc = "notify", !.id = i,
                                              !.w = rows[i].worker]]
    /\ UNCHANGED <<rows, scan, inbox, exec, buf, ended>>

(* CancelDispatch: without a worker there is no call; the connection, the    *)
(* call or the reading of the worker's row may fail.                        *)
CancelDispatchErr(c) ==
    thr[c].w = NoWorker \/ "cancel_loss" \in Faults \/ CallFails(c)

(* CancelDispatch and Handler.Cancel: the worker knows the instance only    *)
(* while it executes; the error of the call is ignored.                    *)
CancelNotify(c) ==
    LET w == thr[c].w  i == thr[c].id  IN
    /\ At(c, "notify")
    /\ \/ /\ w \in Workers
          /\ exec' = IF exec[w][i].pc = "executing"
                     THEN [exec EXCEPT ![w][i].out = "failed"] ELSE exec
       \/ /\ CancelDispatchErr(c)
          /\ UNCHANGED exec
    /\ Goto(c, "cancel")
    /\ UNCHANGED <<rows, scan, inbox, buf, ended>>

CancelWrite(c) ==
    /\ At(c, "cancel")
    /\ \/ UpdateInstanceResult(thr[c].id, "cancelled")
       \/ CallFails(c) /\ UNCHANGED rows
    /\ Stop(c)
    /\ UNCHANGED <<scan, inbox, exec, buf, ended>>

--------------------------------------------------------------------------------
(* Worker: Handler.run and the local store.                                *)

(* isDuplicate: a schedule id the worker remembers is dropped silently.    *)
RunStart(w, i) ==
    /\ <<w, i>> \in inbox
    /\ inbox' = inbox \ {<<w, i>>}
    /\ exec' = IF exec[w][i].pc = "none"
               THEN [exec EXCEPT ![w][i].pc = "started"] ELSE exec
    /\ UNCHANGED <<rows, thr, scan, buf, ended>>

RunReportRunning(w, i) ==
    /\ exec[w][i].pc = "started"
    /\ \/ /\ \E r \in Reporters : Handle(r, w, i, "running", FALSE)
          /\ exec' = [exec EXCEPT ![w][i].pc = "waitRunning"]
       \/ /\ "report_loss" \in Faults
          /\ exec' = [exec EXCEPT ![w][i].pc = "executing"]
          /\ UNCHANGED thr
    /\ UNCHANGED <<rows, scan, inbox, buf, ended>>

(* Execute returns. Once cancelled it fails, or ends with the part of an     *)
(* HTTP body it has got so far; it no longer times out.                    *)
RunExecute(w, i) ==
    /\ exec[w][i].pc = "executing"
    /\ \E o \in Outcomes :
          /\ exec[w][i].out = "none" \/ o # "timeout"
          /\ exec' = [exec EXCEPT ![w][i] = [pc |-> "finished", out |-> o]]
          /\ ended' = ended \cup {<<w, i, o>>}
    /\ UNCHANGED <<rows, thr, scan, inbox, buf>>

(* Variant: an unsent final report is not buffered.                        *)
RunReportFinalDrops(w, i) ==
    /\ exec[w][i].pc = "finished"
    /\ \/ /\ \E r \in Reporters : Handle(r, w, i, exec[w][i].out, FALSE)
          /\ exec' = [exec EXCEPT ![w][i].pc = "waitFinal"]
       \/ /\ "report_loss" \in Faults
          /\ exec' = [exec EXCEPT ![w][i].pc = "done"]
          /\ UNCHANGED thr
    /\ UNCHANGED <<rows, scan, inbox, buf, ended>>

(* The final report; when it cannot be sent it goes to the local store.    *)
RunReportFinal(w, i) ==
    /\ exec[w][i].pc = "finished"
    /\ \/ /\ \E r \in Reporters : Handle(r, w, i, exec[w][i].out, FALSE)
          /\ exec' = [exec EXCEPT ![w][i].pc = "waitFinal"]
          /\ UNCHANGED buf
       \/ /\ "report_loss" \in Faults
          /\ exec' = [exec EXCEPT ![w][i].pc = "done"]
          /\ buf' = [buf EXCEPT ![w][i] = exec[w][i].out]
          /\ UNCHANGED thr
    /\ UNCHANGED <<rows, scan, inbox, ended>>

(* Flush sends one buffered report at a time.                              *)
Flushing(w) == \E r \in Reporters : /\ thr[r].awaited
                                    /\ thr[r].flush
                                    /\ thr[r].from = w

FlushSend(w, i) ==
    /\ buf[w][i] # "none"
    /\ ~Flushing(w)
    /\ \E r \in Reporters : Handle(r, w, i, buf[w][i], TRUE)
    /\ UNCHANGED <<rows, scan, inbox, exec, buf, ended>>

(* StartDedupEviction, for an id whose run is over.                        *)
EvictDedup(w, i) ==
    /\ "evict" \in Faults
    /\ exec[w][i].pc = "done"
    /\ exec' = [exec EXCEPT ![w][i] = NoRun]
    /\ UNCHANGED <<rows, thr, scan, inbox, buf, ended>>

Worker(w, i) == \/ RunStart(w, i) \/ RunReportRunning(w, i) \/ RunExecute(w, i)
                \/ RunReportFinal(w, i) \/ FlushSend(w, i)

--------------------------------------------------------------------------------
(* Restarts.                                                               *)

(* The scheduler loses its goroutines; workers see broken connections.     *)
SchedulerCrash ==
    /\ "crash" \in Faults
    /\ thr' = [t \in Threads |-> Idle]
    /\ scan' = {}
    /\ exec' = [w \in Workers |-> [i \in Ids |->
                  [exec[w][i] EXCEPT !.pc =
                     IF @ = "waitRunning" THEN "executing"
                     ELSE IF @ = "waitFinal" THEN "done" ELSE @]]]
    /\ buf' = [w \in Workers |-> [i \in Ids |->
                  IF exec[w][i].pc = "waitFinal" THEN exec[w][i].out ELSE buf[w][i]]]
    /\ UNCHANGED <<rows, inbox, ended>>

(* A worker loses its goroutines and its dedup map, not its local store.   *)
WorkerCrash(w) ==
    /\ "worker_crash" \in Faults
    /\ exec' = [exec EXCEPT ![w] = [i \in Ids |-> NoRun]]
    /\ inbox' = {d \in inbox : d[1] # w}
    /\ thr' = [t \in Threads |->
                 IF thr[t].from = w THEN [thr[t] EXCEPT !.awaited = FALSE] ELSE thr[t]]
    /\ UNCHANGED <<rows, scan, buf, ended>>

Next == \/ \E c \in Creators : Trigger(c)
        \/ \E i \in Ids : RetryFallsDue(i)
        \/ Retry
        \/ \E r \in Reporters : ReportStatus(r) \/ ReportTimeout(r)
        \/ \E c \in Cancellers : \/ \E i \in Ids : CancelRead(c, i)
                                 \/ CancelNotify(c) \/ CancelWrite(c)
        \/ \E w \in Workers, i \in Ids : Worker(w, i) \/ EvictDedup(w, i)
        \/ SchedulerCrash
        \/ \E w \in Workers : WorkerCrash(w)

Spec == Init /\ [][Next]_vars

--------------------------------------------------------------------------------
(* Safety.                                                                 *)

(* Every variable stays within its type (task_instance columns, goroutine   *)
(* states, dispatches and executions).                                     *)
TypeOK == /\ rows \in [Ids -> Rows]
          /\ thr \in [Threads -> ThreadStates]
          /\ scan \subseteq Ids
          /\ inbox \subseteq Workers \X Ids
          /\ exec \in [Workers -> [Ids -> Runs]]
          /\ buf \in [Workers -> [Ids -> {"none"} \cup Outcomes]]
          /\ ended \subseteq Workers \X Ids \X Outcomes

EndedWith(i, o) == \E w \in Workers : <<w, i, o>> \in ended

ChildOf(i, p) == Exists(i) /\ rows[i].parent = p

(* retryIfNeeded: a retry row answers an execution of its parent that did   *)
(* end in a status the policy retries, is one attempt further than it, and  *)
(* stays within task.MaxRetry; whatever is lost, repeated or restarted      *)
(* between the execution and the INSERT.                                   *)
RetryJustified ==
    \A i \in Ids : rows[i].parent # 0 =>
        LET p == rows[i].parent IN
        /\ Exists(p)
        /\ rows[i].retryCount = rows[p].retryCount + 1
        /\ rows[i].retryCount <= MaxRetry
        /\ \E o \in RetryOn : EndedWith(p, o)

(* UpdateInstanceResult: success and timeout are only ever recorded for an  *)
(* instance some worker ended that way, and failed on a retry row too; only *)
(* the trigger side records a failed that no worker reported.              *)
ResultJustified ==
    \A i \in Ids :
        /\ rows[i].status \in {"success", "timeout"} => EndedWith(i, rows[i].status)
        /\ rows[i].status = "failed" /\ rows[i].parent # 0 => EndedWith(i, "failed")

(* retryIfNeeded: an instance is answered by at most one retry row.        *)
AtMostOneRetry ==
    \A i, j \in Ids : /\ Exists(i) /\ Exists(j)
                      /\ rows[i].parent # 0 /\ rows[i].parent = rows[j].parent
                      => i = j

(* Dispatch and Handler.run: an instance is executed on one worker only.   *)
ExecutedOnce ==
    \A i \in Ids : \A v, w \in Workers :
        exec[v][i].pc # "none" /\ exec[w][i].pc # "none" => v = w

(* ReportStatus, CancelInstance, retry loop: a settled row keeps its status. *)
SettledStable ==
    [][\A i \in Ids : isTerminalStatus(rows[i].status) => rows'[i].status = rows[i].status]_vars

--------------------------------------------------------------------------------
(* Refinement. The rows as the attempts of a retry chain.                   *)

(* A row as an attempt of the chain: its id, its parent, its retry count.  *)
Attempt(i) == [known |-> Exists(i),
               n |-> IF Exists(i) THEN rows[i].retryCount ELSE 0,
               of |-> IF Exists(i) THEN rows[i].parent ELSE 0]

(* A row's status as a result on record.                                   *)
Shown(i) == IF isTerminalStatus(rows[i].status) THEN rows[i].status ELSE "open"

Results(i) == {o \in Outcomes : EndedWith(i, o)}

Chain == INSTANCE RetryChain WITH
            Instances <- Ids,
            chain <- [i \in Ids |-> Attempt(i)],
            results <- [i \in Ids |-> Results(i)],
            shown <- [i \in Ids |-> Shown(i)]

(* TaskRuntime => RetryChain: each statement of the trigger side, the retry *)
(* loop, the report handlers and the cancel handlers, with or without       *)
(* faults, is a step of the retry chain or invisible to it.                *)
ImplementsChain == Chain!Spec

--------------------------------------------------------------------------------
(* Liveness. Goroutines are scheduled; reports, picks and dispatches that   *)
(* are tried again and again get through in the end.                       *)

Fairness ==
    /\ \A c \in Creators : WF_vars(Trigger(c))
    /\ WF_vars(\E i \in Ids : RetryFallsDue(i))
    /\ WF_vars(Retry) /\ SF_vars(RetryPick)
    /\ SF_vars(RetrySend /\ DispatchOK(Retrier) /\ Continue)
    /\ \A r \in Reporters : WF_vars(ReportStatus(r))
    /\ \A w \in Workers : SF_vars(\E i \in Ids : Worker(w, i))

FairSpec == Spec /\ Fairness

(* Report, Buffer and Flush: the result of an execution gets on record. The  *)
(* executions that ended stay ended, so that each must have its result for    *)
(* all of them to have theirs again and again.                              *)
ResultArrives ==
    []<>(\A i \in Ids :
            (\E o \in Outcomes : EndedWith(i, o)) => isTerminalStatus(rows[i].status))

(* ReportStatus and the retry loop: a failure with budget left is followed *)
(* by the execution of a retry.                                            *)
FailedRunsAgain ==
    []<>(\A i \in Ids :
            (\E o \in RetryOn : EndedWith(i, o)) /\ rows[i].retryCount < MaxRetry
            => \E j \in Ids : ChildOf(j, i) /\ \E o \in Outcomes : EndedWith(j, o))

================================================================================
